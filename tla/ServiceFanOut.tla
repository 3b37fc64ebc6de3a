---------------------------- MODULE ServiceFanOut ----------------------------
(***************************************************************************)
(* A service call that fans out over accounts and watches (services.py:    *)
(* XploraService._fan_out, _Account, _Outcomes), down to the retries of a  *)
(* single mutation (pyxplora_api_async.py: _run_control_action), while the *)
(* phone app may change the same alarms.                                   *)
(*                                                                         *)
(* The body of a handler is a loop over calls, and a record says which:    *)
(* for what it makes them, whether a contact is gated, the steps at each,  *)
(* the ways in which a call that is no mutation may fail, and whether a    *)
(* mutation is sent again when its answer is lost. An alarm stands for a   *)
(* silent time as well, and on for the state a call asks for.              *)
(***************************************************************************)
EXTENDS Naturals

CONSTANTS
  Accounts, Watches,
  Strangers,   \* devices that are no Xplora watch
  Owner,       \* the account of each watch
  Alarms,      \* all alarms
  Has,         \* the alarms of each watch
  Attempts,    \* maxRetries + 2
  Nobody       \* no account, no watch, no alarm

ASSUME ConstantsAssumption ==
  /\ Owner \in [Watches -> Accounts]
  /\ Has \in [Watches -> SUBSET Alarms]
  /\ \A v, w \in Watches : v # w => Has[v] \cap Has[w] = {}
  /\ Accounts \cap Watches = {} /\ Strangers \cap Watches = {}
  /\ Nobody \notin Accounts \union Watches \union Alarms
  /\ Attempts \in Nat \ {0}

-----------------------------------------------------------------------------
(* The bodies of the handlers                                              *)

\* Calls for "account"s, each "watch" of them, or one "id" of an account.
Body(for, gated, steps, fails, resent) ==
  [for |-> for, gated |-> gated, steps |-> steps, fails |-> fails, resent |-> resent]

\* Every failure of an update is an UpdateFailed, which call does not catch.
UpdateBody  == Body("account", FALSE, {"ask"}, {"escape"}, FALSE)
FeedBody    == Body("account", FALSE, {"ask"}, {"break", "escape"}, FALSE)
FollowBody  == Body("account", TRUE, {"ask"}, {}, FALSE)
LogoutBody  == Body("account", FALSE, {"ask"}, {}, FALSE)

\* A fetch that fails otherwise answers with what is cached.
HistoryBody == Body("watch", FALSE, {"ask"}, {"break"}, FALSE)
ReadBody    == Body("watch", FALSE, {"ask", "media"}, {"break", "escape"}, FALSE)
MessageBody == Body("watch", FALSE, {"write"}, {}, FALSE)
CommandBody == Body("watch", TRUE, {"write"}, {}, FALSE)

AlarmBodies ==
  [create |-> Body("watch", TRUE, {"write", "refresh"}, {}, TRUE),
   edit   |-> Body("id",    TRUE, {"write", "refresh"}, {}, TRUE),
   switch |-> Body("id",    TRUE, {"write", "refresh", "confirm"}, {}, TRUE),
   toggle |-> Body("watch", TRUE, {"list", "write", "refresh", "confirm"}, {"break"}, TRUE)]

\* The same for silent times, but no refusal is looked into.
SilentBodies ==
  [AlarmBodies EXCEPT !.switch = AlarmBodies.edit, !.toggle.steps = @ \ {"confirm"}]

\* Creating and editing are alike for both; "edit" is also SilentBodies.switch.
BodyOf ==
  [update |-> UpdateBody, feed |-> FeedBody, follow |-> FollowBody, logout |-> LogoutBody,
   history |-> HistoryBody, read |-> ReadBody, message |-> MessageBody, command |-> CommandBody,
   create |-> AlarmBodies.create, edit |-> AlarmBodies.edit,
   switch |-> AlarmBodies.switch, toggle |-> AlarmBodies.toggle,
   toggleSilents |-> SilentBodies.toggle]

Services == DOMAIN BodyOf
Kinds    == {"none", "skipped", "succeeded", "refused", "errored"}

VARIABLES
  on,             \* the server: the alarms that are on
  service, result,  \* the call: its service; how it ended
  targets, picked,  \* its watches; the alarm of a "switch"
  todo, acc,      \* accounts to come; the one being served
  left, watch,    \* watches of acc to come; the one being served
  list, tries,    \* alarms of watch still to write; attempts at the first
  stale,          \* watches whose list is still to be refreshed
  broken,         \* account.broken
  outcome,        \* _Outcomes: an account's own key is (entry_id, None)
  pc,             \* where the body awaits
  limited, touched, verified, nulled  \* history of the call: accounts that
                  \* answered with an error that breaks them, alarms the app
                  \* changed, watches whose list was fetched after the writes,
                  \* and watches with alarms that were answered as having none

call    == <<service, targets, picked>>
place   == <<acc, left, watch, list, tries, stale, pc>>
history == <<limited, touched, verified, nulled>>
vars    == <<on, call, result, todo, place, broken, outcome, history>>

Does(step)  == step \in BodyOf[service].steps
Fails(way)  == way \in BodyOf[service].fails
For(unit)   == BodyOf[service].for = unit

Init ==
  /\ on \in SUBSET Alarms
  /\ service = "update" /\ result = "none" /\ targets = {} /\ picked = Nobody
  /\ todo = {} /\ acc = Nobody /\ left = {} /\ watch = Nobody
  /\ list = {} /\ tries = 0 /\ stale = {}
  /\ broken = FALSE
  /\ outcome = [k \in Accounts \union Watches |-> "none"]
  /\ pc = "idle"
  /\ limited = {} /\ touched = {} /\ verified = {} /\ nulled = {}

-----------------------------------------------------------------------------
(* _Outcomes                                                               *)

Priority(kind) ==
  CASE kind = "succeeded" -> 1 [] kind = "refused" -> 2 [] kind = "errored" -> 3 [] OTHER -> 0

\* The last outcome wins.
Bug_Record(k, kind) ==
  outcome' = [outcome EXCEPT ![k] = IF @ # "skipped" THEN kind ELSE @]

\* The worst outcome wins, and a skipped watch stays skipped.
RecordOutcome(k, kind) ==
  outcome' = [outcome EXCEPT ![k] = IF @ # "skipped" /\ Priority(kind) > Priority(@) THEN kind ELSE @]

\* confirm: the end state outweighs a refusal.
Confirmed(k) == IF outcome[k] \in {"skipped", "errored"} THEN outcome[k] ELSE "succeeded"

\* The records of this call, and those of watches that were not served.
Records == {k \in DOMAIN outcome : outcome[k] # "none"}
Gaps    == {k \in Records : outcome[k] # "succeeded"}

-----------------------------------------------------------------------------
(* _fan_out                                                                *)

\* The watches among the devices that a controller of a loaded entry knows.
ResolveDevice(device, known) == device \in known

\* What any selection of devices may come to.
Resolutions ==
  {{d \in devices : ResolveDevice(d, known)} :
     devices \in SUBSET (Watches \union Strangers), known \in SUBSET Watches}

\* The alarms that a call of s can name.
Named(s) == IF s = "switch" THEN Alarms ELSE {Nobody}

\* A call of a service; without a watch it is rejected at once.
Call(s, resolved, alarm) ==
  /\ pc = "idle"
  /\ service' = s /\ picked' = alarm
  /\ targets' = resolved
  /\ todo' = {Owner[w] : w \in targets'}
  /\ IF targets' = {} THEN result' = "raised" /\ pc' = "ended"
                      ELSE pc' = "accounts" /\ UNCHANGED result
  /\ UNCHANGED <<on, acc, left, watch, list, tries, stale, broken, outcome, history>>

\* targets: a gated body skips the watches that the account is only a contact of.
MaySkip(mine) == IF BodyOf[service].gated THEN SUBSET mine ELSE {{}}

\* A new _Account; its contacts are skipped before any request. A mutation by
\* id is made once, in the name of the first target.
NextAccount(a) ==
  LET mine == {w \in targets : Owner[w] = a}
  IN  \E skipped \in MaySkip(mine) :
        LET allowed == mine \ skipped
        IN  /\ pc = "accounts" /\ a \in todo
            /\ todo' = todo \ {a} /\ broken' = FALSE
            /\ outcome' = [k \in DOMAIN outcome |-> IF k \in skipped THEN "skipped" ELSE outcome[k]]
            /\ acc' = IF allowed = {} THEN Nobody ELSE a
            /\ left' = IF For("watch") THEN allowed ELSE {}
            /\ stale' = IF For("id") THEN allowed ELSE {}
            /\ watch' \in IF allowed = {} \/ For("watch") THEN {Nobody}
                          ELSE IF For("account") THEN {a} ELSE allowed
            /\ pc' = IF allowed = {} THEN "accounts"
                     ELSE IF For("watch") THEN "watches"
                     ELSE IF For("account") THEN "asking" ELSE "writing"
            /\ UNCHANGED <<on, call, result, list, tries, history>>

Finish(ending) ==
  /\ pc' = "ended" /\ result' = ending
  /\ acc' = Nobody /\ left' = {} /\ watch' = Nobody
  /\ list' = {} /\ tries' = 0 /\ stale' = {} /\ broken' = FALSE
  /\ UNCHANGED <<on, call, todo, outcome, history>>

\* _surface: a call that achieved nothing raises, one with gaps notifies.
Surface ==
  /\ pc = "accounts" /\ todo = {}
  /\ Finish(IF Gaps = Records THEN "raised" ELSE IF Gaps # {} THEN "partly" ELSE "clean")

\* Nothing between the body and Home Assistant catches the exception.
Escape == Finish("aborted")

\* The call returns, or raises, to Home Assistant.
Return ==
  /\ pc = "ended"
  /\ pc' = "idle" /\ result' = "none"
  /\ service' = "update" /\ targets' = {} /\ picked' = Nobody /\ todo' = {}
  /\ outcome' = [k \in DOMAIN outcome |-> "none"]
  /\ limited' = {} /\ touched' = {} /\ verified' = {} /\ nulled' = {}
  /\ UNCHANGED <<on, acc, left, watch, list, tries, stale, broken>>

-----------------------------------------------------------------------------
(* The loop over the watches of an account                                 *)

GoTo(where) == pc' = where /\ UNCHANGED <<acc, left>>

\* The calls of a broken account reach the server.
Bug_NextWatch(w) ==
  /\ pc = "watches" /\ w \in left
  /\ left' = left \ {w} /\ watch' = w
  /\ pc' = IF Does("list") THEN "listing" ELSE IF Does("write") THEN "writing" ELSE "asking"
  /\ tries' = 0 /\ stale' = IF Does("refresh") THEN {w} ELSE {}
  /\ UNCHANGED <<on, call, result, todo, acc, list, broken, outcome, history>>

NextWatch(w) ==
  /\ pc = "watches" /\ w \in left /\ ~broken
  /\ left' = left \ {w} /\ watch' = w
  /\ pc' = IF Does("list") THEN "listing" ELSE IF Does("write") THEN "writing" ELSE "asking"
  /\ tries' = 0 /\ stale' = IF Does("refresh") THEN {w} ELSE {}
  /\ UNCHANGED <<on, call, result, todo, acc, list, broken, outcome, history>>

\* The rest of a broken account fails without a request.
ShortCircuit(w) ==
  /\ pc = "watches" /\ w \in left /\ broken
  /\ left' = left \ {w}
  /\ RecordOutcome(w, "errored")
  /\ UNCHANGED <<on, call, result, todo, acc, watch, list, tries, stale, pc, broken, history>>

AccountDone ==
  /\ pc = "watches" /\ left = {}
  /\ pc' = "accounts" /\ acc' = Nobody /\ watch' = Nobody
  /\ UNCHANGED <<on, call, result, todo, left, list, tries, stale, broken, outcome, history>>

\* Reading ends with an update, which is a poll when there is no data to push.
PushEscapes == pc = "watches" /\ left = {} /\ Does("media") /\ Escape

\* Where a body goes from its last call for a watch, an id or an account.
Leave(rest) ==
  IF For("watch") THEN pc' = "watches" /\ left' = rest /\ UNCHANGED <<acc, watch>>
  ELSE pc' = "accounts" /\ acc' = Nobody /\ left' = {} /\ watch' = Nobody

\* call: a rate limit, an expired token or a lost connection breaks the
\* account. Only the reading of messages leaves its loop.
Breaks ==
  /\ RecordOutcome(watch, "errored")
  /\ broken' = TRUE /\ limited' = limited \union {acc}
  /\ list' = {} /\ tries' = 0 /\ stale' = {} /\ Leave(IF Does("media") THEN {} ELSE left)
  /\ UNCHANGED <<on, call, result, todo, touched, verified, nulled>>

-----------------------------------------------------------------------------
(* Calls that are no mutations                                             *)

Asked ==
  /\ pc = "asking"
  /\ RecordOutcome(watch, "succeeded")
  /\ IF Does("media") THEN pc' = "loading" /\ UNCHANGED <<acc, left, watch>> ELSE Leave(left)
  /\ UNCHANGED <<on, call, result, todo, list, tries, stale, broken, history>>

AskBreaks == pc = "asking" /\ Fails("break") /\ Breaks

AskEscapes == pc = "asking" /\ Fails("escape") /\ Escape

\* The voices, images and videos of the messages read.
Loaded ==
  /\ pc = "loading"
  /\ Leave(left)
  /\ UNCHANGED <<on, call, result, todo, list, tries, stale, broken, outcome, history>>

\* The error breaks the account, but neither it nor the watches left are recorded.
LoadBreaks ==
  /\ pc = "loading"
  /\ broken' = TRUE /\ limited' = limited \union {acc}
  /\ Leave({})
  /\ UNCHANGED <<on, call, result, todo, list, tries, stale, outcome, touched, verified, nulled>>

LoadEscapes == pc = "loading" /\ Escape

\* What a list of alarms or silent times is read as: an error of the resolver
\* answers with null for the list, which is read as an empty one. It is noted
\* for the calls whose report depends on it.
Readings(w) == {Has[w], {}}
Noted(w, seen) ==
  nulled' = IF Does("confirm") /\ seen # Has[w] THEN nulled \union {w} ELSE nulled

\* getWatchAlarm, getSilentTime
Listed ==
  /\ pc = "listing"
  /\ RecordOutcome(watch, "succeeded")
  /\ \E seen \in Readings(watch) :
       /\ list' = seen
       /\ GoTo(IF seen = {} THEN "refreshing" ELSE "writing")
       /\ Noted(watch, seen)
  /\ tries' = 0
  /\ UNCHANGED <<on, call, result, todo, watch, stale, broken, limited, touched, verified>>

\* The watch is left out without a record.
Bug_ListFails ==
  /\ pc = "listing"
  /\ stale' = {} /\ Leave(left)
  /\ UNCHANGED <<on, call, result, todo, list, tries, broken, outcome, history>>

\* The fetcher gave up: the FetchError is an error of this watch alone.
ListFails ==
  /\ pc = "listing"
  /\ RecordOutcome(watch, "errored")
  /\ stale' = {} /\ Leave(left)
  /\ UNCHANGED <<on, call, result, todo, list, tries, broken, history>>

ListBreaks == pc = "listing" /\ Breaks

\* The recovery of the token could not sign in: a LoginError.
ListEscapes == pc = "listing" /\ Escape

-----------------------------------------------------------------------------
(* Mutations                                                               *)

\* The body goes on after an answer of the server, or after the last attempt.
Answered(alarm, kind) ==
  /\ RecordOutcome(watch, kind)
  /\ list' = list \ {alarm} /\ tries' = 0
  /\ IF list' # {} THEN UNCHANGED <<acc, left, watch, pc>>
     ELSE IF Does("refresh") THEN pc' = "refreshing" /\ UNCHANGED <<acc, left, watch>>
     ELSE Leave(left)

Current == IF list # {} THEN CHOOSE alarm \in list : TRUE ELSE picked

\* The alarms of the watches of the account; another account has no right to them.
Own == UNION {Has[w] : w \in {v \in Watches : Owner[v] = acc}}

Applied == on' = on \union ({Current} \cap Own)

\* The server rejects an alarm that is on already.
Accepted ==
  /\ pc = "writing" /\ Current \in (Own \ on) \union {Nobody}
  /\ Applied
  /\ Answered(Current, "succeeded")
  /\ UNCHANGED <<call, result, todo, stale, broken, history>>

\* The watch is offline, or the alarm already is what it should be.
Refused ==
  /\ pc = "writing"
  /\ Answered(Current, "refused")
  /\ UNCHANGED <<on, call, result, todo, stale, broken, history>>

\* It is sent again for ever.
Bug_Lost ==
  /\ pc = "writing" /\ BodyOf[service].resent
  /\ Applied \/ UNCHANGED on
  /\ tries' = (tries + 1) % Attempts
  /\ UNCHANGED <<call, result, todo, acc, left, watch, list, stale, pc, broken, outcome, history>>

\* _run_control_action: the request or its answer is lost, and it is sent
\* again; the last loss reads as a refusal.
Lost ==
  /\ pc = "writing" /\ BodyOf[service].resent
  /\ Applied \/ UNCHANGED on
  /\ \/ tries + 1 < Attempts /\ tries' = tries + 1 /\ UNCHANGED <<list, acc, left, watch, pc, outcome>>
     \/ tries + 1 = Attempts /\ Answered(Current, "refused")
  /\ UNCHANGED <<call, result, todo, stale, broken, history>>

WriteBreaks == pc = "writing" /\ Breaks

\* A LoginError, or an answer of an impossible shape (XploraProtocolError, a
\* KeyError of sendText).
WriteEscapes == pc = "writing" /\ Escape

-----------------------------------------------------------------------------
(* The list is fetched after the writes                                    *)

\* _alarm_in_state, _all_alarms_in_state: every alarm of an empty list is on.
InState(seen) == IF For("id") THEN picked \in seen \cap on ELSE seen \subseteq on

\* Only the list of the watch that the mutation was recorded for confirms it.
Confirms(w, seen) == Does("confirm") /\ w = watch /\ InState(seen)

\* The next list of stale, and the body goes on after the last.
RefreshedList(w) ==
  /\ stale' = stale \ {w}
  /\ IF stale' # {} THEN UNCHANGED <<acc, left, watch, pc>> ELSE Leave(left)

\* A null list verifies nothing.
Verifies(w, seen) == verified' = IF seen = Has[w] THEN verified \union {w} ELSE verified

\* The confirmation is left out.
Bug_Refresh(w) ==
  /\ pc = "refreshing" /\ w \in stale
  /\ \E seen \in Readings(w) : Noted(w, seen) /\ Verifies(w, seen)
  /\ RefreshedList(w)
  /\ UNCHANGED <<on, call, result, todo, list, tries, broken, outcome, limited, touched>>

\* _refresh_list, and the confirmation.
Refresh(w) ==
  /\ pc = "refreshing" /\ w \in stale
  /\ \E seen \in Readings(w) :
       /\ outcome' = IF Confirms(w, seen) THEN [outcome EXCEPT ![watch] = Confirmed(watch)] ELSE outcome
       /\ Noted(w, seen) /\ Verifies(w, seen)
  /\ RefreshedList(w)
  /\ UNCHANGED <<on, call, result, todo, list, tries, broken, limited, touched>>

\* A FetchError confirms nothing.
RefreshFails(w) ==
  /\ pc = "refreshing" /\ w \in stale
  /\ RefreshedList(w)
  /\ UNCHANGED <<on, call, result, todo, list, tries, broken, outcome, history>>

\* _refresh_list runs outside call: its errors end the whole fan-out.
RefreshEscapes == pc = "refreshing" /\ Escape

\* Somebody changes an alarm in the phone app; any state may be there before,
\* and what a call without a confirmation reports does not depend on it.
App(alarm) ==
  /\ pc \notin {"idle", "ended"} /\ Does("confirm")
  /\ on' = (on \ {alarm}) \union ({alarm} \ on)
  /\ touched' = touched \union {alarm}
  /\ UNCHANGED <<call, result, todo, place, broken, outcome, limited, verified, nulled>>

\* The client answers or gives up every request, so the body goes on.
Advance ==
  \/ \E a \in Accounts : NextAccount(a)
  \/ \E w \in Watches : NextWatch(w) \/ ShortCircuit(w)
  \/ AccountDone \/ PushEscapes \/ Surface \/ Return
  \/ Asked \/ AskBreaks \/ AskEscapes
  \/ Loaded \/ LoadBreaks \/ LoadEscapes
  \/ Listed \/ ListFails \/ ListBreaks \/ ListEscapes
  \/ Accepted \/ Refused \/ Lost \/ WriteBreaks \/ WriteEscapes
  \/ \E w \in Watches : Refresh(w) \/ RefreshFails(w)
  \/ RefreshEscapes

Next ==
  \/ \E s \in Services, resolved \in Resolutions : \E alarm \in Named(s) : Call(s, resolved, alarm)
  \/ Advance
  \/ \E alarm \in Alarms : App(alarm)

Spec == Init /\ [][Next]_vars
FairSpec == Spec /\ WF_vars(Advance)

-----------------------------------------------------------------------------
(* Properties                                                              *)

\* The call has just come to its end and _surface has judged it.
Surfaced == result \in {"clean", "partly", "raised"}

\* The alarms that a call that turns alarms on promises to turn on, by the
\* watch it reports on.
Promised(w) == IF service = "toggle" THEN Has[w] ELSE {picked}

\* Turning an alarm, or all alarms, on reports a watch as done only if the
\* alarms are on, whatever was lost, refused or sent twice, unless the app
\* interfered. Turning all on also needs that neither list was null: then the
\* watch counts as done although none of its alarms was written, or as
\* confirmed although they were refused (README, section 6).
SuccessIsReal ==
  Surfaced /\ service \in {"switch", "toggle"} =>
    \A w \in targets :
      /\ outcome[w] = "succeeded" /\ Promised(w) \cap touched = {}
      /\ service = "toggle" => w \notin nulled
      => Promised(w) \subseteq on

\* It reports a refusal only if some alarm is off, when the list of the watch
\* could be fetched afterwards and was not null: a rejected no-op and a lost
\* answer are no failure. A single alarm is looked for on the watch reported on
\* alone.
RefusalIsReal ==
  Surfaced /\ service \in {"switch", "toggle"} =>
    \A w \in verified :
      outcome[w] = "refused" /\ Promised(w) \subseteq Has[w] \ touched => ~(Promised(w) \subseteq on)

\* A call that ends without a toast and without a notification has done what
\* was asked for every watch it was made for, those after an error included.
\* Reading is left out: it leaves its loop and reports none of the rest.
CleanIsComplete ==
  result = "clean" /\ For("watch") /\ service # "read" =>
    \A w \in targets : outcome[w] = "succeeded"

\* After an error that breaks it, an account gets no request of this call.
NoDoomedRequest ==
  pc \in {"asking", "loading", "listing", "writing", "refreshing"} => acc \notin limited

\* The call ends: every mutation is given up after its last attempt.
CallReturns == pc # "idle" ~> pc = "idle"

\* "a recoverable error breaks the rest of *that* account's watches [...] but
\* the fan-out still runs body for the next account" (services.py:684-686).
\* The code does not hold it: README, section 6.
EveryAccountRuns == pc = "ended" => todo = {}
=============================================================================
