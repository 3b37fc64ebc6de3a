---------------------------- MODULE TokenRecovery ----------------------------
(***************************************************************************)
(* Token recovery of one Xplora account (coordinator.py: _with_recovery,   *)
(* _recover_token, _do_recover_token, init, _persist_session; the client's *)
(* _login, init, refresh, logout).                                         *)
(*                                                                         *)
(* Every controller call runs through _with_recovery.  A call rejected     *)
(* with E000004 leads or joins a recovery task; the task refreshes the     *)
(* token, re-logs in when the refresh token is refused, persists the new   *)
(* session and bumps the generation; then the call is retried once.  The   *)
(* logout service clears the client's session beside that gate.            *)
(* Coroutines are atomic between awaits: one action per await-free stretch.*)
(* Tokens are numbered in the order the server issues them; 0 is no token. *)
(***************************************************************************)
EXTENDS Naturals

CONSTANTS
  Callers,     \* concurrent users of _with_recovery
  Pollers,     \* the callers whose call is _init_and_fetch
  Recoveries,  \* slots for recovery tasks, reused when nobody awaits one
  NoRecovery,  \* _token_recovery = None
  MaxToken     \* bound on the tokens the server issues

ASSUME ConstantsAssumption ==
  /\ Pollers \subseteq Callers
  /\ NoRecovery \notin Recoveries
  /\ MaxToken \in Nat \ {0}

VARIABLES
  issued, live,                     \* server: last token issued, tokens it accepts
  half,                             \* tokens of sessions that lack the account's user record
  controller, token, watchs,        \* the coordinator's controller; its access token, watch list
  pending, disk,                    \* session store: blob being written, blob on disk
  persisted, lastSave,              \* _persisted_token; whether the file holds what was written last
  reloaded,                         \* the entry was reloaded: calls of the former coordinator go on
  generation, recovery,             \* _token_generation, _token_recovery
  rec, got, saves,                  \* each recovery task: its progress, the token it obtained, the one it stores
  history,                          \* a recovery failed or a controller was dropped since the start
  pc, attempt, seen, used, awaits   \* each caller: progress, attempt, seen_generation,
                                    \* token its request carries or it stores, recovery it awaits

server  == <<issued, live, half>>
session == <<controller, token, watchs>>
store   == <<pending, disk, persisted, lastSave, reloaded>>
gate    == <<generation, recovery>>
tasks   == <<rec, got, saves>>
calls   == <<pc, attempt, seen, used, awaits>>
vars    == <<server, session, store, gate, tasks, history, calls>>

Tokens == 0 .. MaxToken
Active == {"refreshing", "blind", "relogin", "relisting", "persisting"}   \* task.done() is false
InFlight == {r \in Recoveries : rec[r] \in Active}

\* Callers suspended on a recovery task: its creator leads, the others joined.
Waiting(c) == pc[c] \in {"leading", "joined"}

\* A session init() accepts and a store gives back: a token and its user.
Whole(t) == t # 0 /\ t \notin half

-----------------------------------------------------------------------------
(* A start of Home Assistant: async_setup_entry runs coordinator.init alone, *)
(* so the session is restored or new and stored, if its write went well,   *)
(* and the watch list is known.                                            *)

Init ==
  /\ issued = 1
  /\ live \in {{}, {1}} /\ half = {}
  /\ controller = "built" /\ watchs = "known"
  /\ token = 1
  /\ pending = 0 /\ persisted = 1 /\ reloaded = "no"
  /\ (disk = 1 /\ lastSave = "done") \/ (disk = 0 /\ lastSave = "lost")
  /\ generation = 0 /\ recovery = NoRecovery
  /\ rec = [r \in Recoveries |-> "free"]
  /\ got = [r \in Recoveries |-> 0] /\ saves = [r \in Recoveries |-> 0]
  /\ history = "clean"
  /\ pc = [c \in Callers |-> "idle"]
  /\ attempt = [c \in Callers |-> 1]
  /\ seen = [c \in Callers |-> 0]
  /\ used = [c \in Callers |-> 0]
  /\ awaits = [c \in Callers |-> NoRecovery]

\* The server stops accepting a token it issued.
Expire(t) ==
  /\ t \in live
  /\ live' = live \ {t}
  /\ UNCHANGED <<issued, half, session, store, gate, tasks, history, calls>>

\* A login or a refresh hands out a new token; the old ones may survive it.
HandOut ==
  /\ issued < MaxToken
  /\ issued' = issued + 1
  /\ \E kept \in {{}, live} : live' = kept \union {issued + 1}

\* The client takes the new token into use.
Grant == HandOut /\ token' = issued + 1

\* A sign-in: its answer carries the user record.
Issue == Grant /\ UNCHANGED half

\* async_setup_entry with a new coordinator: the stored token is taken over, or
\* setup signs in and stores a new one.
SetUp ==
  /\ \/ Whole(disk) /\ token' = disk /\ lastSave' = "done" /\ UNCHANGED <<server, disk>>
     \/ Issue /\ disk' = issued + 1 /\ lastSave' = "done"
     \/ Issue /\ disk' = disk /\ lastSave' = "lost"
  /\ persisted' = token'
  /\ controller' = "built" /\ watchs' = "known"
  /\ pending' = 0
  /\ generation' = 0 /\ recovery' = NoRecovery
  /\ rec' = [r \in Recoveries |-> "free"]
  /\ got' = [r \in Recoveries |-> 0] /\ saves' = [r \in Recoveries |-> 0]
  /\ history' = "clean"
  /\ pc' = [c \in Callers |-> "idle"]
  /\ attempt' = [c \in Callers |-> 1]
  /\ seen' = [c \in Callers |-> 0]
  /\ used' = [c \in Callers |-> 0]
  /\ awaits' = [c \in Callers |-> NoRecovery]

\* A restart of Home Assistant ends every call; a reload of the entry does not.
Restart == SetUp /\ reloaded' = "no"
Reload == SetUp /\ reloaded' = "yes"

\* A call or recovery of the former coordinator signs in, or writes the session
\* of its client over the file both coordinators share.
Straggle ==
  /\ reloaded = "yes"
  /\ \/ HandOut /\ UNCHANGED <<half, store>>
     \/ /\ disk' \in 1 .. issued /\ lastSave' = "lost"
        /\ UNCHANGED <<server, pending, persisted, reloaded>>
  /\ UNCHANGED <<session, gate, tasks, history, calls>>

-----------------------------------------------------------------------------
(* One run of coro_factory: _with_recovery starts it, and once more after  *)
(* a recovery.  A poll first goes through init(forceLogin=False).          *)

Send(c, t) == pc' = [pc EXCEPT ![c] = "request"] /\ used' = [used EXCEPT ![c] = t]
Goto(c, l) == pc' = [pc EXCEPT ![c] = l] /\ used' = [used EXCEPT ![c] = 0]

\* del self.controller: its token and watch list go with it.
Drop ==
  /\ controller' = "dropped" /\ token' = 0 /\ watchs' = "unknown"
  /\ history' = "troubled"

\* self.controller is gone: the call fails at once (AttributeError).
RunOrphaned(c) ==
  /\ c \notin Pollers /\ controller = "dropped"
  /\ Goto(c, "idle")
  /\ UNCHANGED <<session, store>>

RunDirect(c) ==
  /\ c \notin Pollers /\ controller = "built"
  /\ Send(c, token)
  /\ UNCHANGED <<session, store>>

\* set_controller builds a controller and starts loading the stored session.
RunRebuild(c) ==
  /\ c \in Pollers /\ controller = "dropped"
  /\ controller' = "built" /\ token' = 0 /\ watchs' = "unknown"
  /\ Goto(c, "restoring")
  /\ UNCHANGED store

\* _persist_session writes only a token it does not take for stored already:
\* it asks _persisted_token, not the disk.
Persist(c, t) ==
  IF t \in {0, persisted}
    THEN Send(c, t) /\ UNCHANGED store
    ELSE /\ pc' = [pc EXCEPT ![c] = "saving"] /\ used' = [used EXCEPT ![c] = t]
         /\ pending' = t /\ UNCHANGED <<disk, persisted, lastSave, reloaded>>

List(c, t, listing) ==
  pc' = [pc EXCEPT ![c] = listing] /\ used' = [used EXCEPT ![c] = t]

\* Past the login, the client fetches the watch list if it has none.
LoggedIn(c, t, listing) ==
  /\ token' = t
  /\ IF watchs = "known" THEN Persist(c, t) ELSE List(c, t, listing) /\ UNCHANGED store
  /\ UNCHANGED <<controller, watchs>>

\* Not connected, or the local expiry estimate has passed (a clock reading,
\* early or late with respect to the server): _login logs off and signs in.
LogOff(c, signing) ==
  /\ token' = 0
  /\ Goto(c, signing)
  /\ UNCHANGED <<controller, watchs, store>>

\* init(forceLogin=False) of a client whose access token is t.
ClientInit(c, t) == LogOff(c, "signing") \/ (Whole(t) /\ LoggedIn(c, t, "listing"))

RunPoll(c) ==
  /\ c \in Pollers /\ controller = "built"
  /\ ClientInit(c, token)

\* A session without a user record is a LoginError to init().
RunNameless(c) ==
  /\ c \in Pollers /\ controller = "built" /\ token \in half
  /\ Drop
  /\ Goto(c, "idle")
  /\ UNCHANGED store

Run(c, n) ==
  /\ attempt' = [attempt EXCEPT ![c] = n]
  /\ \/ RunNameless(c)
     \/ /\ RunOrphaned(c) \/ RunDirect(c) \/ RunRebuild(c) \/ RunPoll(c)
        /\ UNCHANGED history

StartCall(c) ==
  /\ pc[c] = "idle"
  /\ seen' = [seen EXCEPT ![c] = generation]
  /\ Run(c, 1)
  /\ UNCHANGED <<server, gate, tasks, awaits>>

\* The stored blob is taken over, and its token noted as stored.
TakenOver(c) ==
  /\ disk # 0 /\ persisted' = disk
  /\ \/ token' = 0 /\ Goto(c, "signing")
     \/ /\ Whole(disk) /\ token' = disk
        /\ IF watchs = "known" THEN Send(c, disk) ELSE List(c, disk, "listing")
  /\ UNCHANGED <<controller, watchs, pending, disk, lastSave, reloaded>>

\* _restore_session takes the stored blob, or ignores it.
Restored(c) ==
  /\ pc[c] = "restoring" /\ controller = "built"
  /\ TakenOver(c) \/ ClientInit(c, token)
  /\ UNCHANGED <<server, gate, tasks, history, attempt, seen, awaits>>

\* _login ends with a new token, or with one another coroutine obtained.
SignedIn(c) ==
  /\ pc[c] \in {"signing", "resigning"} /\ controller = "built"
  /\ LET listing == IF pc[c] = "signing" THEN "listing" ELSE "relisting"
     IN  \/ Issue /\ LoggedIn(c, issued + 1, listing)
         \/ Whole(token) /\ UNCHANGED server /\ LoggedIn(c, token, listing)
  /\ UNCHANGED <<gate, tasks, history, attempt, seen, awaits>>

Listed(c) ==
  /\ pc[c] \in {"listing", "relisting"} /\ controller = "built"
  /\ watchs' = "known"
  /\ Persist(c, token)
  /\ UNCHANGED <<server, controller, token, gate, tasks, history, attempt, seen, awaits>>

\* AuthError on the watch list: init forces one re-login.
ListingRejected(c) ==
  /\ pc[c] = "listing" /\ used[c] \notin live /\ controller = "built"
  /\ LogOff(c, "resigning")
  /\ UNCHANGED <<server, gate, tasks, history, attempt, seen, awaits>>

\* 429, no connection or LoginError: the call fails.  Outside the forced
\* re-login, an error that is not transient drops the controller.
InitFailed(c) ==
  /\ \/ /\ pc[c] \in {"signing", "listing", "resigning", "relisting"}
        /\ UNCHANGED <<session, history>>
     \/ pc[c] = "restoring" /\ controller = "dropped" /\ UNCHANGED <<session, history>>
     \/ pc[c] \in {"signing", "listing"} /\ Drop
  /\ Goto(c, "idle")
  /\ UNCHANGED <<server, store, gate, tasks, attempt, seen, awaits>>

\* init() runs on a controller that was dropped and replaced meanwhile: what
\* it obtained is lost, and it goes on with the session of the new one.
StrayInit(c) ==
  /\ pc[c] \in {"signing", "listing", "resigning", "relisting"}
  /\ history = "troubled" /\ controller = "built"
  /\ Persist(c, token)
  /\ UNCHANGED <<server, session, gate, tasks, history, attempt, seen, awaits>>

\* A write ends well: whatever blob is pending is on disk.
Flush ==
  /\ pending' = 0
  /\ disk' = IF pending = 0 THEN disk ELSE pending
  /\ lastSave' = IF pending = 0 THEN lastSave ELSE "done"

\* A write fails: its blob is lost, one handed over meanwhile still waits.
WriteFails ==
  /\ pending' \in {0, pending}
  /\ lastSave' = "lost"
  /\ UNCHANGED disk

\* Store.async_save returns whatever happened, for it logs and swallows a write
\* error; _persist_session then takes its token t for stored.
SaveReturns(t) ==
  IF t = 0 THEN UNCHANGED store
           ELSE (Flush \/ WriteFails) /\ persisted' = t /\ UNCHANGED reloaded

Saved(c) ==
  /\ pc[c] = "saving"
  /\ SaveReturns(used[c])
  /\ Send(c, token)
  /\ UNCHANGED <<server, session, gate, tasks, history, attempt, seen, awaits>>

-----------------------------------------------------------------------------
(* The answer to a request.                                                *)

\* The event loop runs the wake-ups a finished recovery queued before it
\* processes an answer to a request sent after that recovery finished.
WakeUpsFirst(c) ==
  \A d \in Callers :
    Waiting(d) /\ rec[awaits[d]] = "ok" => seen[c] <= seen[d]

\* Data, or an error that is not an expired token, reaches the caller.
Answered(c) ==
  /\ pc[c] = "request"
  /\ Goto(c, "idle")
  /\ UNCHANGED <<server, session, store, gate, tasks, history, attempt, seen, awaits>>

\* E000004: the server does not accept the token the request carries.
Rejected(c, n) ==
  /\ pc[c] \in {"request", "relisting"} /\ used[c] \notin live /\ attempt[c] = n

\* Mutant: the ladder never gives up.
Bug_RejectedAgain(c) ==
  /\ Rejected(c, 2)
  /\ Run(c, attempt[c] + 1)
  /\ UNCHANGED <<server, gate, tasks, seen, awaits>>

\* AuthError on the retry: it propagates.
RejectedAgain(c) ==
  /\ Rejected(c, 2)
  /\ Goto(c, "idle")
  /\ UNCHANGED <<server, session, store, gate, tasks, history, attempt, seen, awaits>>

\* AuthError on the first attempt: _recover_token decides.
FirstRejection(c) ==
  /\ Rejected(c, 1)
  /\ WakeUpsFirst(c)

\* Generation guard: a recovery completed since the request began.
StaleRejection(c) ==
  /\ FirstRejection(c)
  /\ generation # seen[c]
  /\ Run(c, 2)
  /\ UNCHANGED <<server, gate, tasks, seen, awaits>>

JoinRecovery(c) ==
  /\ FirstRejection(c)
  /\ generation = seen[c]
  /\ recovery \in InFlight
  /\ awaits' = [awaits EXCEPT ![c] = recovery]
  /\ Goto(c, "joined")
  /\ UNCHANGED <<server, session, store, gate, tasks, history, attempt, seen>>

\* Mutant: no in-flight coalescer.
Bug_LeadRecovery(c, r) ==
  /\ FirstRejection(c)
  /\ generation = seen[c]
  /\ rec[r] \notin Active /\ \A d \in Callers : Waiting(d) => awaits[d] # r
  /\ rec' = [rec EXCEPT ![r] = IF Whole(token) THEN "refreshing" ELSE "blind"]
  /\ got' = [got EXCEPT ![r] = 0] /\ saves' = [saves EXCEPT ![r] = 0]
  /\ recovery' = r
  /\ awaits' = [awaits EXCEPT ![c] = r]
  /\ Goto(c, "leading")
  /\ UNCHANGED <<server, session, store, generation, history, attempt, seen>>

\* The task sends RefreshToken with the user id of the session; a client that
\* is logged off has none to send (blind), and that is refused.
LeadRecovery(c, r) ==
  /\ FirstRejection(c)
  /\ generation = seen[c]
  /\ recovery \notin InFlight
  /\ rec[r] \notin Active /\ \A d \in Callers : Waiting(d) => awaits[d] # r
  /\ rec' = [rec EXCEPT ![r] = IF Whole(token) THEN "refreshing" ELSE "blind"]
  /\ got' = [got EXCEPT ![r] = 0] /\ saves' = [saves EXCEPT ![r] = 0]
  /\ recovery' = r
  /\ awaits' = [awaits EXCEPT ![c] = r]
  /\ Goto(c, "leading")
  /\ UNCHANGED <<server, session, store, generation, history, attempt, seen>>

-----------------------------------------------------------------------------
(* The recovery task (_do_recover_token).                                  *)

\* The ladder obtained a token; _persist_session starts writing it.
Rotate(r) ==
  /\ Grant
  /\ got' = [got EXCEPT ![r] = issued + 1] /\ saves' = [saves EXCEPT ![r] = issued + 1]
  /\ pending' = issued + 1
  /\ rec' = [rec EXCEPT ![r] = "persisting"]
  /\ UNCHANGED <<disk, persisted, lastSave, reloaded, controller, watchs, gate, history, calls>>

\* refresh() writes into whatever session is left: none after a log-off.
Refreshed(r) ==
  /\ rec[r] = "refreshing" /\ controller = "built"
  /\ Rotate(r)
  /\ half' = IF Whole(token) THEN half ELSE half \union {issued + 1}

\* AUTH_REFUSED: init(forceLogin=True) logs off and signs in.
RefreshRefused(r) ==
  /\ rec[r] \in {"refreshing", "blind"} /\ controller = "built"
  /\ rec' = [rec EXCEPT ![r] = "relogin"]
  /\ token' = 0
  /\ UNCHANGED <<server, controller, watchs, store, gate, got, saves, history, calls>>

\* FAILED, 429 or no connection: no re-login, the callers share the failure.
RefreshFailed(r) ==
  /\ rec[r] \in {"refreshing", "blind"}
  /\ rec' = [rec EXCEPT ![r] = "failed"]
  /\ history' = "troubled"
  /\ UNCHANGED <<server, session, store, gate, got, saves, calls>>

ReloggedIn(r) ==
  /\ rec[r] = "relogin" /\ watchs = "known" /\ controller = "built"
  /\ Rotate(r)
  /\ UNCHANGED half

\* _persist_session of the client's present session.
StoreCurrent(r) ==
  /\ rec' = [rec EXCEPT ![r] = "persisting"]
  /\ IF token \in {0, persisted}
       THEN UNCHANGED <<pending, saves>>
       ELSE pending' = token /\ saves' = [saves EXCEPT ![r] = token]
  /\ UNCHANGED <<disk, persisted, lastSave, reloaded, got>>

\* A controller that has not listed its watches yet does so now.
ReloginLists(r) ==
  /\ rec[r] = "relogin" /\ watchs = "unknown" /\ controller = "built"
  /\ Issue
  /\ got' = [got EXCEPT ![r] = issued + 1]
  /\ rec' = [rec EXCEPT ![r] = "relisting"]
  /\ UNCHANGED <<controller, watchs, store, gate, saves, history, calls>>

ReloginListed(r) ==
  /\ rec[r] = "relisting" /\ controller = "built"
  /\ watchs' = "known"
  /\ StoreCurrent(r)
  /\ UNCHANGED <<server, controller, token, gate, history, calls>>

\* The ladder ran on a controller that was dropped and replaced meanwhile:
\* it stores the session of the new one.
StrayRecovery(r) ==
  /\ rec[r] \in {"refreshing", "relogin", "relisting"}
  /\ history = "troubled" /\ controller = "built"
  /\ IF rec[r] = "relisting" THEN UNCHANGED <<issued, live>> ELSE HandOut
  /\ StoreCurrent(r)
  /\ UNCHANGED <<half, session, gate, history, calls>>

\* LoginError drops the controller; 429 and connection errors keep it.
ReloginFailed(r) ==
  /\ rec[r] \in {"relogin", "relisting"}
  /\ Drop \/ (history' = "troubled" /\ UNCHANGED session)
  /\ rec' = [rec EXCEPT ![r] = "failed"]
  /\ UNCHANGED <<server, store, gate, got, saves, calls>>

\* Mutant: the generation is not bumped.
Bug_PersistedSilently(r) ==
  /\ rec[r] = "persisting"
  /\ SaveReturns(saves[r])
  /\ rec' = [rec EXCEPT ![r] = "ok"] /\ saves' = [saves EXCEPT ![r] = 0]
  /\ UNCHANGED <<server, session, gate, got, history, calls>>

\* Mutant: the recovery returns without waiting for the write.
Bug_PersistedLater(r) ==
  /\ rec[r] = "persisting"
  /\ rec' = [rec EXCEPT ![r] = "ok"]
  /\ generation' = generation + 1
  /\ UNCHANGED <<server, session, store, recovery, got, saves, history, calls>>

\* The write is over, whether or not the session is on disk: only now is the
\* generation bumped.
Persisted(r) ==
  /\ rec[r] = "persisting"
  /\ SaveReturns(saves[r])
  /\ rec' = [rec EXCEPT ![r] = "ok"] /\ saves' = [saves EXCEPT ![r] = 0]
  /\ generation' = generation + 1
  /\ UNCHANGED <<server, session, recovery, got, history, calls>>

-----------------------------------------------------------------------------
(* Callers suspended on a recovery resume.                                 *)

\* The creator's finally clears _token_recovery, whatever it holds by now.
Release(c) ==
  recovery' = IF pc[c] = "leading" THEN NoRecovery ELSE recovery

Resume(c) ==
  /\ Waiting(c) /\ rec[awaits[c]] = "ok"
  /\ Release(c)
  /\ awaits' = [awaits EXCEPT ![c] = NoRecovery]
  /\ Run(c, 2)
  /\ UNCHANGED <<server, generation, tasks, seen>>

\* Mutant: a failed recovery wakes only the caller that created it.
Bug_ShareFailure(c) ==
  /\ pc[c] = "leading" /\ rec[awaits[c]] = "failed"
  /\ recovery' = NoRecovery
  /\ awaits' = [awaits EXCEPT ![c] = NoRecovery]
  /\ Goto(c, "idle")
  /\ UNCHANGED <<server, session, store, generation, tasks, history, attempt, seen>>

ShareFailure(c) ==
  /\ Waiting(c) /\ rec[awaits[c]] = "failed"
  /\ Release(c)
  /\ awaits' = [awaits EXCEPT ![c] = NoRecovery]
  /\ Goto(c, "idle")
  /\ UNCHANGED <<server, session, store, generation, tasks, history, attempt, seen>>

\* Mutant: a cancelled caller abandons the recovery it created.
Bug_CancelWaiting(c) ==
  /\ Waiting(c) /\ awaits[c] \in InFlight
  /\ Release(c)
  /\ awaits' = [awaits EXCEPT ![c] = NoRecovery]
  /\ Goto(c, "idle")
  /\ UNCHANGED <<server, session, store, generation, tasks, history, attempt, seen>>

\* A caller cancelled while awaiting the shared task cancels the task for
\* everybody; a write in progress may still reach the disk.
CancelWaiting(c) ==
  /\ Waiting(c) /\ awaits[c] \in InFlight
  /\ rec' = [rec EXCEPT ![awaits[c]] = "failed"] /\ saves' = [saves EXCEPT ![awaits[c]] = 0]
  /\ history' = "troubled"
  /\ (saves[awaits[c]] # 0 /\ Flush /\ UNCHANGED <<persisted, reloaded>>) \/ UNCHANGED store
  /\ UNCHANGED <<server, session, gate, got, calls>>

CancelCall(c) ==
  /\ pc[c] \notin {"idle", "logout"} /\ ~(Waiting(c) /\ awaits[c] \in InFlight)
  /\ (pc[c] = "saving" /\ Flush /\ UNCHANGED <<persisted, reloaded>>) \/ UNCHANGED store
  /\ Release(c)
  /\ awaits' = [awaits EXCEPT ![c] = NoRecovery]
  /\ Goto(c, "idle")
  /\ UNCHANGED <<server, session, generation, tasks, history, attempt, seen>>

-----------------------------------------------------------------------------
(* The logout service; its call does not go through _with_recovery.        *)

StartLogout(c) ==
  /\ c \notin Pollers /\ pc[c] = "idle" /\ controller = "built"
  /\ pc' = [pc EXCEPT ![c] = "logout"] /\ used' = [used EXCEPT ![c] = token]
  /\ attempt' = [attempt EXCEPT ![c] = 1]
  /\ UNCHANGED <<server, session, store, gate, tasks, history, seen, awaits>>

\* ExpireToken is answered, fails or is cancelled: the session is cleared in
\* any case, unless the controller has been replaced since.
LoggedOut(c) ==
  /\ pc[c] = "logout"
  /\ live' \in {live, live \ {used[c]}}
  /\ token' = 0 \/ (history = "troubled" /\ token' = token)
  /\ Goto(c, "idle")
  /\ UNCHANGED <<issued, half, controller, watchs, store, gate, tasks, history, attempt, seen, awaits>>

-----------------------------------------------------------------------------
Progress(c) ==
  \/ Restored(c) \/ SignedIn(c) \/ Listed(c) \/ ListingRejected(c) \/ InitFailed(c)
  \/ StrayInit(c) \/ Saved(c) \/ LoggedOut(c)
  \/ Answered(c) \/ RejectedAgain(c)
  \/ StaleRejection(c) \/ JoinRecovery(c)
  \/ \E r \in Recoveries : LeadRecovery(c, r)
  \/ Resume(c) \/ ShareFailure(c)

Recover(r) ==
  \/ Refreshed(r) \/ RefreshRefused(r) \/ RefreshFailed(r)
  \/ ReloggedIn(r) \/ ReloginLists(r) \/ ReloginListed(r) \/ ReloginFailed(r)
  \/ StrayRecovery(r) \/ Persisted(r)

Next ==
  \/ Restart \/ Reload \/ Straggle
  \/ \E t \in 1 .. MaxToken : Expire(t)
  \/ \E c \in Callers : StartCall(c) \/ StartLogout(c) \/ Progress(c) \/ CancelWaiting(c) \/ CancelCall(c)
  \/ \E r \in Recoveries : Recover(r)

Spec == Init /\ [][Next]_vars

\* Requests are answered or time out, and the event loop runs what is ready.
Fairness ==
  /\ \A c \in Callers : WF_vars(Progress(c))
  /\ \A r \in Recoveries : WF_vars(Recover(r))

FairSpec == Spec /\ Fairness

-----------------------------------------------------------------------------
TypeOK ==
  /\ issued \in Tokens /\ live \in SUBSET (1 .. MaxToken) /\ half \in SUBSET (1 .. MaxToken)
  /\ controller \in {"built", "dropped"} /\ token \in Tokens
  /\ watchs \in {"known", "unknown"}
  /\ pending \in Tokens /\ disk \in Tokens /\ persisted \in Tokens
  /\ reloaded \in {"no", "yes"} /\ lastSave \in {"done", "lost"}
  /\ generation \in Nat /\ recovery \in Recoveries \union {NoRecovery}
  /\ rec \in [Recoveries -> Active \union {"free", "ok", "failed"}]
  /\ got \in [Recoveries -> Tokens] /\ saves \in [Recoveries -> Tokens]
  /\ history \in {"clean", "troubled"}
  /\ pc \in [Callers -> {"idle", "restoring", "signing", "listing", "resigning", "relisting",
                        "saving", "request", "leading", "joined", "logout"}]
  /\ attempt \in [Callers -> 1 .. 2]
  /\ seen \in [Callers -> Nat]
  /\ used \in [Callers -> Tokens]
  /\ awaits \in [Callers -> Recoveries \union {NoRecovery}]

\* A second attempt runs only after a recovery completed since the first one
\* began: the retry never re-sends the token the server just rejected for want
\* of a rotation (_with_recovery's "retry once against the fresh token").
RetryFollowsRecovery ==
  \A c \in Callers : pc[c] # "idle" /\ attempt[c] = 2 => generation > seen[c]

\* An unfinished recovery is always awaited by the caller that created it, so
\* its outcome is never lost and _token_recovery is always released.
RecoveryIsLed ==
  \A r \in InFlight : \E c \in Callers : pc[c] = "leading" /\ awaits[c] = r

\* Until a recovery fails, at most one is in flight however many callers were
\* rejected at once: the two guards of _recover_token.
SingleFlightUntilFailure ==
  history = "clean" => \A r, s \in InFlight : r = s

\* Until a recovery fails, a recovery counts as done only when the token it
\* obtained, or a newer one, is on disk, unless the last write of the session
\* file failed or a coordinator that a reload replaced wrote over it: a restart
\* never resumes from a session that a completed recovery has replaced
\* (_do_recover_token: "persist it now").  A lost write is not repeated for its
\* token; the next one that goes well makes it good.
DurableBeforeResume ==
  history = "clean" /\ lastSave = "done" => \A r \in Recoveries : rec[r] = "ok" => disk >= got[r]

\* Every call returns: a caller is never left waiting on a recovery that
\* nobody finishes.
CallsReturn == \A c \in Callers : pc[c] # "idle" ~> pc[c] = "idle"
=============================================================================
