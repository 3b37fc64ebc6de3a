---------------------------- MODULE XploraClient ----------------------------
(***************************************************************************)
(* The client of the Xplora server (pyxplora_api): what each of its calls  *)
(* makes of an answer, and the fan-out of a poll, which reads the list of  *)
(* the devices and then gathers one task per watch, each of which gathers  *)
(* one read per function (setDevices, _setDevice).                         *)
(*                                                                         *)
(* asyncio.gather reports the first exception and cancels nothing: the     *)
(* tasks of a poll that failed, or of its first attempt when it is tried   *)
(* again with a new token, run on beside what follows.  A round is one     *)
(* attempt of one poll.  Beside the polls there is one call of a user.     *)
(*                                                                         *)
(* What the lists hold is left to CoordinatorData, the recovery of the     *)
(* token to TokenRecovery.                                                 *)
(***************************************************************************)
EXTENDS Naturals

CONSTANTS
  Watches,
  Functions,   \* alarms, safe zones, silent times: one read each per watch
  Attempts,    \* maxRetries + 2
  MaxRounds    \* bound on the rounds of a behaviour

ASSUME ClientAssumption ==
  Functions # {} /\ Attempts \in Nat \ {0, 1} /\ MaxRounds \in Nat

Rounds == 1 .. MaxRounds
Reads  == Rounds \X Watches \X Functions

-----------------------------------------------------------------------------
(* The operations                                                          *)

\* Edits of the alarms and silent times: resent when the answer is lost.
Controls == {"setEnableSilentTime", "setDisableSilentTime", "setAlarmTime", "addAlarmTime",
             "modifyAlarmTime", "removeAlarmTime", "addSilentTime", "modifySilentTime",
             "removeSilentTime"}

\* Mutations sent once.
Commands  == {"shutdown", "reboot"}
Sends     == {"sendText"}
Deletions == {"deleteMessageFromApp"}
Asks      == {"askWatchLocate"}

\* Reads sent once.
Media     == {"get_chat_voice", "get_chat_image", "get_short_video", "get_short_video_cover"}
Feeds     == {"getNotifications"}

\* Reads tried again.
Chats     == {"getWatchChatsRaw"}
Locations == {"loadWatchLocation"}

\* WatchCommand: the mutations that run_command sends.
WatchCommands == Controls \union Commands

Operations == WatchCommands \union Sends \union Deletions \union Asks
                \union Media \union Feeds \union Chats \union Locations

Kinds == {"none", "control", "command", "send", "flag", "media", "feed", "chats", "location"}

KindOf(op) ==
  CASE op \in Controls  -> "control"
    [] op \in Commands  -> "command"
    [] op \in Sends     -> "send"
    [] op \in Deletions \union Asks -> "flag"
    [] op \in Media     -> "media"
    [] op \in Feeds     -> "feed"
    [] op \in Chats     -> "chats"
    [] op \in Locations -> "location"

Mutations == {"control", "command", "send", "flag"}
Running   == {"asking", "pausing"}
ReadEnds  == {"ready", "expired", "limited", "garbled"}
CallEnds  == {"done", "refused", "answered", "raised", "crashed"}

VARIABLES
  session,     \* whether the server accepts the token
  round, phase, retried,  \* the poll: its latest round; where it awaits;
               \* whether that round is its second
  polled,      \* how the last poll ended
  read,        \* the reads of the functions, by round
  stored,      \* the tasks <<round, watch>> that have run to their end
  device,      \* the client's cache: the round that wrote each watch, 0 is none
  user,        \* the user's call
  copies,      \* how often the server has applied its mutation
  losses,      \* how many of its requests ended without an answer
  doubt        \* the answer it ended with came from a gateway, not the server

poll    == <<round, phase, retried, polled>>
calling == <<user, copies, losses, doubt>>
vars    == <<session, poll, read, stored, device, calling>>

Init ==
  /\ session \in {"valid", "expired"}
  /\ round = 0 /\ phase = "idle" /\ retried = FALSE /\ polled = "none"
  /\ read = [s \in Reads |-> [at |-> "off", tries |-> 0]]
  /\ stored = {}
  /\ device = [w \in Watches |-> 0]
  /\ user = [kind |-> "none", at |-> "answered", tries |-> 0]
  /\ copies = 0 /\ losses = 0 /\ doubt = FALSE

-----------------------------------------------------------------------------
(* The transport                                                           *)

\* What comes back on the wire: "data" is the data asked for, "null" has the
\* field of the operation null (data: {alarms: null}), "void" has data: null,
\* "garbled" is a body that is cut off, or no JSON although it says so.
Wire == {"unreachable", "429", "failure", "html", "garbled"}
          \union (IF session = "valid" THEN {"data", "null", "void"} ELSE {"E000004"})

\* _parse_response: a rate limit is an exception; any other HTTP failure, and a body of
\* another type than JSON, an empty dict. Nothing catches what a garbled body raises.
Parsed(http) ==
  CASE http = "429" -> "limited"
    [] http \in {"failure", "html"} -> "empty"
    [] OTHER -> http

\* No connection, or no answer in time.
Executed(http) == IF http = "unreachable" THEN "lost" ELSE Parsed(http)

\* Every call but sign-in, refresh and sign-out turns E000004 into an AuthError.
Authorized(http) == IF Executed(http) = "E000004" THEN "expired" ELSE Executed(http)

\* AuthError and RateLimitError are no Error, nor is the ClientPayloadError or
\* JSONDecodeError of a garbled body: no retry loop catches them.
Uncaught == {"expired", "limited", "garbled"}

Answers == {Authorized(http) : http \in Wire}

-----------------------------------------------------------------------------
(* A poll                                                                  *)

NewRound(again) ==
  /\ round < MaxRounds
  /\ round' = round + 1 /\ phase' = "listing" /\ retried' = again

Poll ==
  /\ phase = "idle"
  /\ NewRound(FALSE)
  /\ polled' = "none"
  /\ UNCHANGED <<session, read, stored, device, calling>>

\* An expired token is recovered and the poll tried again, once.
PollFails(why) ==
  IF why = "expired" /\ ~retried
  THEN phase' = "recovering" /\ UNCHANGED <<round, retried, polled>>
  ELSE phase' = "idle" /\ polled' = "failed" /\ UNCHANGED <<round, retried>>

\* getDeviceList: no retry; an empty answer lists nothing and the tasks start
\* all the same.  A function that is not wanted keeps its list.
DevicesListed(a, wanted) ==
  /\ phase = "listing" /\ a \in {"data", "null", "empty"}
  /\ phase' = "gathering"
  /\ read' = [s \in Reads |->
       IF s[1] # round THEN read[s]
       ELSE IF s[3] \in wanted THEN [at |-> "asking", tries |-> 1]
       ELSE [at |-> "ready", tries |-> 0]]
  /\ UNCHANGED <<session, round, retried, polled, stored, device, calling>>

ListingFails(a) ==
  /\ phase = "listing" /\ a \in {"void", "lost"} \union Uncaught
  /\ PollFails(a)
  /\ UNCHANGED <<session, read, stored, device, calling>>

\* The loops of getWatchAlarm, getWatchSafeZones and getSilentTime are alike.
\* A null list is an empty list.
Listed(a) == a \in {"data", "null"}

\* The FetchError of the last attempt becomes an empty list too.
LastTry(s) == read[s].tries = Attempts

ReadAnswered(s, a) ==
  /\ read[s].at = "asking"
  /\ read' = [read EXCEPT ![s].at =
       IF a \in Uncaught THEN a
       ELSE IF Listed(a) \/ LastTry(s) THEN "ready" ELSE "pausing"]
  /\ UNCHANGED <<session, poll, stored, device, calling>>

\* _retry_backoff_sleep
ReadAgain(s) ==
  /\ read[s].at = "pausing"
  /\ read' = [read EXCEPT ![s] = [at |-> "asking", tries |-> @.tries + 1]]
  /\ UNCHANGED <<session, poll, stored, device, calling>>

Fails(r) == {read[s].at : s \in {t \in Reads : t[1] = r}} \intersect Uncaught

\* _setDevice: the reads of the watch are done and its record is replaced.
\* Nothing tells it that its poll has failed meanwhile.
DeviceStored(r, w) ==
  /\ <<r, w>> \notin stored
  /\ \A f \in Functions : read[<<r, w, f>>].at = "ready"
  /\ stored' = stored \union {<<r, w>>}
  /\ device' = [device EXCEPT ![w] = r]
  /\ UNCHANGED <<session, poll, read, calling>>

\* gather hands the exception over and leaves the other tasks running.
PollBreaks ==
  /\ phase = "gathering"
  /\ \E why \in Fails(round) : PollFails(why)
  /\ UNCHANGED <<session, read, stored, device, calling>>

\* The poll is done with its first watch.
Bug_PollReturns ==
  /\ phase = "gathering"
  /\ \E w \in Watches : <<round, w>> \in stored
  /\ phase' = "idle" /\ polled' = "ok"
  /\ UNCHANGED <<session, round, retried, read, stored, device, calling>>

PollReturns ==
  /\ phase = "gathering"
  /\ \A w \in Watches : <<round, w>> \in stored
  /\ phase' = "idle" /\ polled' = "ok"
  /\ UNCHANGED <<session, round, retried, read, stored, device, calling>>

\* The coordinator's ladder: the poll starts over with a new token.
Recovered ==
  /\ phase = "recovering"
  /\ session' = "valid"
  /\ NewRound(TRUE)
  /\ UNCHANGED <<polled, read, stored, device, calling>>

RecoveryFails ==
  /\ phase = "recovering"
  /\ phase' = "idle" /\ polled' = "failed"
  /\ UNCHANGED <<session, round, retried, read, stored, device, calling>>

TokenExpires ==
  /\ session = "valid"
  /\ session' = "expired"
  /\ UNCHANGED <<poll, read, stored, device, calling>>

-----------------------------------------------------------------------------
(* A call of a user                                                        *)

UserCalls(op) ==
  /\ user.at \notin Running
  /\ user' = [kind |-> KindOf(op), at |-> "asking", tries |-> 1]
  /\ copies' = 0 /\ losses' = 0 /\ doubt' = FALSE
  /\ UNCHANGED <<session, poll, read, stored, device>>

\* The request the user's call waits for ends with this.  A mutation whose
\* answer is lost or garbled, or replaced by that of a gateway, may have been
\* applied.
Served(kinds, a) ==
  /\ user.at = "asking" /\ user.kind \in kinds
  /\ IF user.kind \in Mutations
     THEN /\ copies' \in CASE a = "data" -> {copies + 1}
                           [] a \in {"lost", "empty", "garbled"} -> {copies, copies + 1}
                           [] OTHER -> {copies}
          /\ losses' = IF a = "lost" THEN losses + 1 ELSE losses
          /\ doubt' = (a = "empty")
     ELSE UNCHANGED <<copies, losses, doubt>>
  /\ UNCHANGED <<session, poll, read, stored, device>>

Ends(how) == user' = [kind |-> "none", at |-> how, tries |-> 0]

\* Another attempt, after a pause or at once, unless this was the last one.
Again(limit, where, how) ==
  IF user.tries = limit THEN Ends(how)
  ELSE user' = [user EXCEPT !.at = where, !.tries = IF where = "asking" THEN @ + 1 ELSE @]

\* The pause before the next attempt is over.
CallAgain ==
  /\ user.at = "pausing"
  /\ user' = [user EXCEPT !.at = "asking", !.tries = @ + 1]
  /\ UNCHANGED <<session, poll, read, stored, device, copies, losses, doubt>>

\* run_command: the one value of data, whatever its name; no data is None.
CommandVerdict(a) == IF a = "data" THEN "done" ELSE "refused"

\* What a gateway answered is sent again as well.
Bug_ControlAnswered(a) ==
  /\ Served({"control"}, a)
  /\ CASE a \in Uncaught -> Ends("raised")
       [] a \in {"lost", "empty"} -> Again(Attempts, "pausing", "refused")
       [] OTHER -> Ends(CommandVerdict(a))

\* _run_control_action: an answer is final, a lost request is sent again.
ControlAnswered(a) ==
  /\ Served({"control"}, a)
  /\ CASE a \in Uncaught -> Ends("raised")
       [] a = "lost" -> Again(Attempts, "pausing", "refused")
       [] OTHER -> Ends(CommandVerdict(a))

\* shutdown, reboot
CommandAnswered(a) ==
  /\ Served({"command"}, a)
  /\ Ends(IF a \in Uncaught \union {"lost"} THEN "raised" ELSE CommandVerdict(a))

\* sendText indexes the data: an empty answer is a KeyError.
SendAnswered(a) ==
  /\ Served({"send"}, a)
  /\ Ends(CASE a = "data" -> "done" [] a = "null" -> "refused"
            [] a \in {"empty", "void"} -> "crashed" [] OTHER -> "raised")

\* deleteMessageFromApp, askWatchLocate: a flag of the data.
FlagAnswered(a) ==
  /\ Served({"flag"}, a)
  /\ Ends(CASE a = "data" -> "done" [] a \in {"null", "empty"} -> "refused"
            [] a = "void" -> "crashed" [] OTHER -> "raised")

\* get_chat_voice, get_chat_image, get_short_video, get_short_video_cover
MediaAnswered(a) ==
  /\ Served({"media"}, a)
  /\ Ends(CASE a \in {"data", "null", "empty"} -> "answered"
            [] a = "void" -> "crashed" [] OTHER -> "raised")

\* getNotifications: one page, which is empty whenever there is no data.
FeedAnswered(a) ==
  /\ Served({"feed"}, a)
  /\ Ends(IF a \in Uncaught \union {"lost"} THEN "raised" ELSE "answered")

\* getWatchChatsRaw: an empty answer is asked for again at once, and so is a
\* null thread that comes with errors; without them it is an empty thread.
ChatsAnswered(a) ==
  /\ Served({"chats"}, a)
  /\ \/ a \in {"data", "null"} /\ Ends("answered")
     \/ a \in {"null", "void", "empty"} /\ Again(Attempts, "asking", "answered")
     \/ a = "lost" /\ Again(Attempts, "pausing", "answered")
     \/ a \in Uncaught /\ Ends("raised")

\* loadWatchLocation has one attempt less.
LocationAnswered(a) ==
  /\ Served({"location"}, a)
  /\ CASE a \in {"data", "null", "empty"} -> Ends("answered")
       [] a = "lost" -> Again(Attempts - 1, "pausing", "answered")
       [] a = "void" -> Ends("crashed")
       [] OTHER -> Ends("raised")

CallAnswered(a) ==
  \/ ControlAnswered(a) \/ CommandAnswered(a) \/ SendAnswered(a) \/ FlagAnswered(a)
  \/ MediaAnswered(a) \/ FeedAnswered(a) \/ ChatsAnswered(a) \/ LocationAnswered(a)

-----------------------------------------------------------------------------

PollStep ==
  \/ \E a \in Answers : ListingFails(a) \/ \E wanted \in SUBSET Functions : DevicesListed(a, wanted)
  \/ PollBreaks \/ PollReturns \/ Recovered \/ RecoveryFails

ReadStep(s) == ReadAgain(s) \/ \E a \in Answers : ReadAnswered(s, a)

CallStep == CallAgain \/ \E a \in Answers : CallAnswered(a)

Next ==
  \/ Poll \/ PollStep
  \/ \E s \in Reads : ReadStep(s)
  \/ \E r \in Rounds, w \in Watches : DeviceStored(r, w)
  \/ \E op \in Operations : UserCalls(op)
  \/ CallStep
  \/ TokenExpires

Spec == Init /\ [][Next]_vars

-----------------------------------------------------------------------------
(* Properties                                                              *)

\* The variables stay in their ranges: no call exceeds its attempts.
TypeOK ==
  /\ session \in {"valid", "expired"}
  /\ round \in 0 .. MaxRounds /\ retried \in BOOLEAN
  /\ phase \in {"idle", "listing", "gathering", "recovering"}
  /\ polled \in {"none", "ok", "failed"}
  /\ read \in [Reads -> [at : {"off"} \union Running \union ReadEnds, tries : 0 .. Attempts]]
  /\ stored \subseteq Rounds \X Watches
  /\ device \in [Watches -> 0 .. MaxRounds]
  /\ user \in [kind : Kinds, at : Running \union CallEnds, tries : 0 .. Attempts]
  /\ copies \in 0 .. Attempts /\ losses \in 0 .. Attempts /\ doubt \in BOOLEAN

\* What a mutation tells its caller (_run_control_action, run_command, sendText):
\* a success was applied; a refusal was not, unless a request was lost or a
\* gateway answered; every copy beyond the first goes back to a lost request.
VerdictIsHonest ==
  /\ user.at = "done" => copies > 0
  /\ user.at = "refused" /\ losses = 0 /\ ~doubt => copies = 0
  /\ copies <= 1 + losses

\* When a poll returns, the client's record of every watch is of its last
\* round, unless a task of an earlier round that failed has written since.
FreshOnReturn ==
  phase = "idle" /\ polled = "ok" =>
    \A w \in Watches : device[w] = round \/ (device[w] # 0 /\ Fails(device[w]) # {})

\* "Letting this propagate uncaught aborts the current poll cycle"
\* (exception_classes.py:102-103): once a rate limit has ended a poll, no read
\* of that poll is sent again. The code does not hold it: README, section 6.
LimitAbortsPoll ==
  [][\A s \in Reads : read[s].at = "pausing" /\ read'[s].at = "asking"
       => "limited" \notin Fails(s[1]) \/ (s[1] = round /\ phase = "gathering")]_vars
=============================================================================
