------------------------- MODULE ServiceFanOut_proofs -------------------------
(***************************************************************************)
(* Proofs about ServiceFanOut, for any accounts, watches, alarms and       *)
(* attempts: an account that broke gets no further request, a call without *)
(* complaint has done what was asked of it for every watch, and what a     *)
(* confirmed call reports of its alarms is so.                             *)
(***************************************************************************)
EXTENDS ServiceFanOut, TLAPS

Requesting == {"asking", "loading", "listing", "writing", "refreshing"}

\* Where the body is, and which account it serves there.
PlaceInv ==
  /\ pc \in Requesting \union {"idle", "accounts", "watches", "ended"}
  /\ targets \subseteq Watches /\ todo \subseteq Accounts /\ limited \subseteq Accounts
  /\ pc \in Requesting \union {"watches"} => acc \in Accounts
  /\ pc \notin Requesting \union {"watches"} => acc = Nobody
  /\ pc = "idle" => limited = {}

\* An account is served once, and a flag tells the loop that it broke.
DoomInv ==
  /\ acc \notin todo /\ todo \cap limited = {}
  /\ acc \in limited => broken
  /\ pc \in Requesting => ~broken

IInv == PlaceInv /\ DoomInv

-----------------------------------------------------------------------------
(* Requests to broken accounts                                             *)

\* A request ends, and the body goes on where its loop is.
LEMMA GoesOn ==
  ASSUME IInv, NEW rest, pc \in Requesting, UNCHANGED <<todo, targets, limited, broken>>,
         \/ Leave(rest)
         \/ pc' \in Requesting /\ acc' = acc
  PROVE  IInv'
<1>1. \/ pc' \in Requesting \union {"watches"} /\ acc' = acc
      \/ pc' = "accounts" /\ acc' = Nobody
  BY DEF Leave
<1>2. PlaceInv'
  BY <1>1 DEF IInv, PlaceInv, Requesting
<1>3. acc \in Accounts /\ Nobody \notin Accounts /\ ~broken
  BY ConstantsAssumption DEF IInv, PlaceInv, DoomInv
<1>4. DoomInv'
  BY <1>1, <1>3 DEF IInv, PlaceInv, DoomInv
<1>. QED
  BY <1>2, <1>4 DEF IInv

\* A request breaks its account.
LEMMA BreakKeeps ==
  ASSUME IInv, NEW rest, pc \in Requesting, Leave(rest), broken', limited' = limited \union {acc},
         UNCHANGED <<todo, targets>>
  PROVE  IInv'
<1>1. \/ pc' = "watches" /\ acc' = acc
      \/ pc' = "accounts" /\ acc' = Nobody
  BY DEF Leave
<1>2. acc \in Accounts /\ Nobody \notin Accounts
  BY ConstantsAssumption DEF IInv, PlaceInv
<1>3. PlaceInv'
  BY <1>1, <1>2 DEF IInv, PlaceInv, Requesting
<1>4. DoomInv'
  BY <1>1, <1>2 DEF IInv, PlaceInv, DoomInv, Requesting
<1>. QED
  BY <1>3, <1>4 DEF IInv

\* The call ends.
LEMMA FinishKeeps ==
  ASSUME IInv, NEW ending, Finish(ending)
  PROVE  IInv'
  BY ConstantsAssumption DEF IInv, PlaceInv, DoomInv, Finish, call, history, Requesting

\* A call begins: for watches, and with no account broken.
LEMMA CallKeeps ==
  ASSUME IInv, NEW s, NEW resolved \in Resolutions, NEW alarm, Call(s, resolved, alarm)
  PROVE  IInv'
<1>1. targets' \subseteq Watches
  BY DEF Call, Resolutions, ResolveDevice
<1>2. todo' \subseteq Accounts /\ todo' = {Owner[w] : w \in targets'}
  BY <1>1, ConstantsAssumption DEF Call
<1>3. /\ pc = "idle" /\ pc' \in {"ended", "accounts"}
      /\ acc' = Nobody /\ limited' = {}
  BY DEF Call, IInv, PlaceInv, Requesting, history
<1>. QED
  BY <1>1, <1>2, <1>3, ConstantsAssumption DEF IInv, PlaceInv, DoomInv, Requesting

\* The next account has not been served before, so it is not broken.
LEMMA AccountKeeps ==
  ASSUME IInv, NEW a \in Accounts, NextAccount(a)
  PROVE  IInv'
<1>1. /\ a \in todo /\ todo' = todo \ {a} /\ ~broken'
      /\ UNCHANGED <<targets, limited>>
  BY DEF NextAccount, call, history
<1>2. \/ acc' = Nobody /\ pc' = "accounts"
      \/ acc' = a /\ pc' \in {"watches", "asking", "writing"}
  BY DEF NextAccount
<1>3. Nobody \notin Accounts
  BY ConstantsAssumption
<1>. QED
  BY <1>1, <1>2, <1>3 DEF IInv, PlaceInv, DoomInv, Requesting

\* Every step of a call keeps broken accounts without requests.
LEMMA DoomStep == IInv /\ [Next]_vars => IInv'
<1>. SUFFICES ASSUME IInv, [Next]_vars PROVE IInv'
  OBVIOUS
<1>1. ASSUME NEW s, NEW resolved \in Resolutions, NEW alarm, Call(s, resolved, alarm) PROVE IInv'
  BY <1>1, CallKeeps
<1>2. ASSUME NEW a \in Accounts, NextAccount(a) PROVE IInv'
  BY <1>2, AccountKeeps
<1>3. ASSUME NEW w \in Watches, NextWatch(w) \/ ShortCircuit(w) PROVE IInv'
  <2>1. /\ pc = "watches" /\ UNCHANGED <<acc, todo, targets, limited, broken>>
        /\ pc' = "watches" \/ (pc' \in Requesting /\ ~broken)
    <3>1. CASE NextWatch(w)
      BY <3>1 DEF NextWatch, call, history, Requesting
    <3>2. CASE ShortCircuit(w)
      BY <3>2 DEF ShortCircuit, call, history
    <3>. QED
      BY <1>3, <3>1, <3>2
  <2>. QED
    BY <2>1 DEF IInv, PlaceInv, DoomInv, Requesting
<1>4. CASE AccountDone
  BY <1>4, ConstantsAssumption DEF AccountDone, call, history, IInv, PlaceInv, DoomInv, Requesting
<1>5. CASE PushEscapes \/ Surface \/ AskEscapes \/ LoadEscapes \/ ListEscapes \/ WriteEscapes
             \/ RefreshEscapes
  BY <1>5, FinishKeeps DEF PushEscapes, Surface, AskEscapes, LoadEscapes, ListEscapes,
                           WriteEscapes, RefreshEscapes, Escape
<1>6. CASE Return
  BY <1>6, ConstantsAssumption DEF Return, IInv, PlaceInv, DoomInv, Requesting
<1>7. CASE Asked \/ Loaded \/ Listed \/ ListFails
  BY <1>7, GoesOn DEF Asked, Loaded, Listed, ListFails, GoTo, call, history, Requesting
<1>8. CASE AskBreaks \/ LoadBreaks \/ ListBreaks \/ WriteBreaks
  BY <1>8, BreakKeeps DEF AskBreaks, LoadBreaks, ListBreaks, WriteBreaks, Breaks, call, Requesting
<1>9. CASE Accepted \/ Refused \/ Lost
  BY <1>9, GoesOn DEF Accepted, Refused, Lost, Answered, call, history, Requesting
<1>10. ASSUME NEW w \in Watches, Refresh(w) \/ RefreshFails(w) PROVE IInv'
  BY <1>10, GoesOn DEF Refresh, RefreshFails, RefreshedList, call, history, Requesting
<1>11. ASSUME NEW alarm, App(alarm) \/ UNCHANGED vars PROVE IInv'
  BY <1>11 DEF App, vars, call, place, history, IInv, PlaceInv, DoomInv
<1>. QED
  BY <1>1, <1>2, <1>3, <1>4, <1>5, <1>6, <1>7, <1>8, <1>9, <1>10, <1>11 DEF Next, Advance

\* For any selection of any accounts and watches: no request of a call goes to
\* an account that answered an earlier one with an error that breaks it.
THEOREM BrokenIsSpared == Spec => []NoDoomedRequest
<1>1. Init => IInv
  BY ConstantsAssumption DEF Init, IInv, PlaceInv, DoomInv, Requesting
<1>2. IInv => NoDoomedRequest
  BY DEF IInv, DoomInv, NoDoomedRequest, Requesting
<1>. QED
  BY <1>1, <1>2, DoomStep, PTL DEF Spec

-----------------------------------------------------------------------------
(* Calls without complaint                                                 *)

Outcomes == [Accounts \union Watches -> {"none", "skipped", "succeeded", "refused", "errored"}]

\* The calls that CleanIsComplete is about.
PerWatch == For("watch") /\ service # "read"

\* The call for a watch is under way and has no outcome yet.
UnderWay(w) == w = watch /\ pc \in {"asking", "listing", "writing"}

\* A watch of the call has an outcome, or its turn will come.
Pending(w) == outcome[w] # "none" \/ Owner[w] \in todo \/ (Owner[w] = acc /\ w \in left) \/ UnderWay(w)

CompleteInv ==
  /\ service \in Services /\ outcome \in Outcomes
  /\ result = "clean" => pc = "ended"
  /\ PerWatch => pc # "loading"
  /\ PerWatch /\ pc \notin {"idle", "ended"} => \A w \in targets : Pending(w)
  /\ PerWatch /\ result = "clean" => \A w \in targets : outcome[w] = "succeeded"

\* Only the reading of messages loads media.
LEMMA OnlyReadLoads == ASSUME service \in Services, service # "read" PROVE ~Does("media")
  BY DEF Services, Does, BodyOf, UpdateBody, FeedBody, FollowBody, LogoutBody, HistoryBody,
         ReadBody, MessageBody, CommandBody, AlarmBodies, SilentBodies, Body

\* An outcome is never taken back to none.
LEMMA RecordSets ==
  ASSUME outcome \in Outcomes, NEW k, NEW kind \in {"succeeded", "refused", "errored"},
         RecordOutcome(k, kind)
  PROVE  /\ outcome' \in Outcomes
         /\ \A w \in Watches : outcome[w] # "none" \/ w = k => outcome'[w] # "none"
<1>1. Priority(kind) > Priority("none")
  BY DEF Priority
<1>2. outcome' = [outcome EXCEPT ![k] =
                    IF outcome[k] # "skipped" /\ Priority(kind) > Priority(outcome[k])
                    THEN kind ELSE outcome[k]]
  BY DEF RecordOutcome
<1>3. outcome' \in Outcomes
  BY <1>2 DEF Outcomes
<1>4. ASSUME NEW w \in Watches, outcome[w] # "none" \/ w = k PROVE outcome'[w] # "none"
  <2>1. CASE w = k
    BY <1>1, <1>2, <2>1 DEF Outcomes
  <2>2. CASE w # k
    BY <1>2, <1>4, <2>2 DEF Outcomes
  <2>. QED
    BY <2>1, <2>2
<1>. QED
  BY <1>3, <1>4

\* A step within a call that leaves no watch behind.
LEMMA NoneLeftBehind ==
  ASSUME IInv, CompleteInv, UNCHANGED <<service, targets, todo, result>>,
         pc \in Requesting \union {"watches"}, pc' # "ended", pc' = "loading" => ~PerWatch,
         outcome' \in Outcomes,
         \A w \in Watches : outcome[w] # "none" => outcome'[w] # "none",
         PerWatch => \A w \in targets :
           (Owner[w] = acc /\ w \in left) \/ UnderWay(w)
             => outcome'[w] # "none" \/ (Owner[w] = acc' /\ w \in left') \/ UnderWay(w)'
  PROVE  CompleteInv'
<1>1. result # "clean" /\ result' # "clean" /\ pc \notin {"idle", "ended"} /\ targets \subseteq Watches
  BY DEF IInv, PlaceInv, CompleteInv, Requesting
<1>2. PerWatch' <=> PerWatch
  BY DEF PerWatch, For
<1>3. PerWatch => \A w \in targets : Pending(w)'
  BY <1>1 DEF CompleteInv, Pending
<1>. QED
  BY <1>1, <1>2, <1>3 DEF CompleteInv

\* A call for a watch gets its outcome.
LEMMA WatchDone ==
  ASSUME IInv, CompleteInv, UNCHANGED <<service, targets, todo, result>>, pc \in Requesting,
         NEW kind \in {"succeeded", "refused", "errored"}, RecordOutcome(watch, kind),
         \/ Leave(left)
         \/ pc' \in Requesting /\ acc' = acc /\ left' = left /\ (pc' = "loading" => ~PerWatch)
         \/ ~PerWatch /\ \E rest : Leave(rest)
  PROVE  CompleteInv'
<1>1. PerWatch => acc' = acc /\ left' = left
  BY DEF Leave, PerWatch
<1>2. pc' # "ended" /\ (pc' = "loading" => ~PerWatch)
  BY DEF Leave, Requesting
<1>3. outcome \in Outcomes /\ targets \subseteq Watches
  BY DEF IInv, PlaceInv, CompleteInv
<1>4. /\ outcome' \in Outcomes
      /\ \A w \in Watches : outcome[w] # "none" \/ w = watch => outcome'[w] # "none"
  BY <1>3, RecordSets
<1>. QED
  BY <1>1, <1>2, <1>3, <1>4, NoneLeftBehind DEF UnderWay

\* A call for a watch goes on, or is over after its outcome.
LEMMA WatchGoesOn ==
  ASSUME IInv, CompleteInv, UNCHANGED <<service, targets, todo, result, outcome>>, pc \in Requesting,
         pc \in {"loading", "refreshing"} \/ UNCHANGED <<watch, pc>>,
         \/ Leave(left)
         \/ ~PerWatch /\ \E rest : Leave(rest)
         \/ pc' = pc /\ UNCHANGED <<acc, left, watch>>
  PROVE  CompleteInv'
<1>1. PerWatch => acc' = acc /\ left' = left
  BY DEF Leave, PerWatch
<1>2. pc' # "ended" /\ (pc' = "loading" => ~PerWatch)
  BY DEF Leave, Requesting, CompleteInv
<1>3. outcome' \in Outcomes
  BY DEF CompleteInv
<1>. QED
  BY <1>1, <1>2, <1>3, NoneLeftBehind DEF UnderWay

\* An account's turn takes up its watches, or skips them.
LEMMA AccountTakesUp ==
  ASSUME IInv, CompleteInv, NEW a \in Accounts, NextAccount(a)
  PROVE  CompleteInv'
<1>1. PICK skipped \in MaySkip({w \in targets : Owner[w] = a}) :
        /\ outcome' = [k \in DOMAIN outcome |-> IF k \in skipped THEN "skipped" ELSE outcome[k]]
        /\ acc' = IF {w \in targets : Owner[w] = a} \ skipped = {} THEN Nobody ELSE a
        /\ For("watch") => left' = {w \in targets : Owner[w] = a} \ skipped
  BY DEF NextAccount
<1>2. /\ pc = "accounts" /\ acc = Nobody /\ todo' = todo \ {a}
      /\ pc' \in {"accounts", "watches", "asking", "writing"}
      /\ UNCHANGED <<service, targets, result>>
  BY DEF NextAccount, call, IInv, PlaceInv, Requesting
<1>3. /\ targets \subseteq Watches /\ Nobody \notin Accounts /\ result # "clean"
      /\ outcome \in Outcomes /\ \A w \in targets : Owner[w] \in Accounts
  BY <1>2, ConstantsAssumption DEF IInv, PlaceInv, CompleteInv
<1>4. outcome' \in Outcomes
  BY <1>1, <1>3 DEF Outcomes
<1>5. ASSUME PerWatch, NEW w \in targets PROVE Pending(w)'
  <2>1. CASE outcome[w] # "none"
    BY <1>1, <1>3, <2>1 DEF Outcomes, Pending
  <2>2. CASE Owner[w] \in todo /\ Owner[w] # a
    BY <1>2, <2>2 DEF Pending
  <2>3. CASE Owner[w] = a
    <3>1. CASE w \in skipped
      BY <1>1, <1>3, <3>1 DEF Outcomes, Pending
    <3>2. CASE w \notin skipped
      BY <1>1, <1>5, <2>3, <3>2 DEF Pending, PerWatch
    <3>. QED
      BY <3>1, <3>2
  <2>. QED
    BY <1>2, <1>3, <1>5, <2>1, <2>2, <2>3 DEF CompleteInv, Pending, UnderWay
<1>. QED
  BY <1>2, <1>3, <1>4, <1>5 DEF CompleteInv, PerWatch, For

\* A call that ends without complaint has an outcome for all its watches, and
\* no gap among them.
LEMMA SurfaceTells == ASSUME IInv, CompleteInv, Surface PROVE CompleteInv'
<1>1. /\ pc = "accounts" /\ todo = {} /\ acc = Nobody /\ pc' = "ended"
      /\ UNCHANGED <<service, targets, outcome>>
      /\ result' = "clean" => Gaps = {}
  BY DEF Surface, Finish, call, IInv, PlaceInv, Requesting
<1>2. /\ targets \subseteq Watches /\ Nobody \notin Accounts
      /\ outcome \in Outcomes /\ \A w \in targets : Owner[w] \in Accounts
  BY ConstantsAssumption DEF IInv, PlaceInv, CompleteInv
<1>3. ASSUME PerWatch, result' = "clean", NEW w \in targets PROVE outcome[w] = "succeeded"
  <2>1. outcome[w] # "none"
    BY <1>1, <1>2, <1>3 DEF CompleteInv, Pending, UnderWay
  <2>. QED
    BY <1>1, <1>2, <1>3, <2>1 DEF Gaps, Records, Outcomes
<1>. QED
  BY <1>1, <1>2, <1>3 DEF CompleteInv, PerWatch, For

\* An error that leaves the fan-out is a complaint.
LEMMA EscapeTells == ASSUME IInv, CompleteInv, Escape PROVE CompleteInv'
<1>1. /\ result' = "aborted" /\ pc' = "ended"
      /\ UNCHANGED <<service, targets, outcome>>
  BY DEF Escape, Finish, call
<1>. QED
  BY <1>1 DEF CompleteInv

\* Every step of a call leaves no watch without an outcome behind.
LEMMA CompleteStep == IInv /\ CompleteInv /\ [Next]_vars => CompleteInv'
<1>. SUFFICES ASSUME IInv, CompleteInv, [Next]_vars PROVE CompleteInv'
  OBVIOUS
<1>1. ASSUME NEW s \in Services, NEW resolved \in Resolutions, NEW alarm, Call(s, resolved, alarm)
      PROVE  CompleteInv'
  <2>1. /\ pc = "idle" /\ pc' \in {"accounts", "ended"} /\ service' = s /\ UNCHANGED outcome
        /\ \A w \in targets' : Owner[w] \in todo'
        /\ result' # "clean"
    BY <1>1 DEF Call, CompleteInv
  <2>. QED
    BY <2>1 DEF CompleteInv, Pending
<1>2. ASSUME NEW a \in Accounts, NextAccount(a) PROVE CompleteInv'
  BY <1>2, AccountTakesUp
<1>3. ASSUME NEW w \in Watches, NextWatch(w) PROVE CompleteInv'
  <2>1. /\ pc = "watches" /\ pc' \in {"listing", "writing", "asking"}
        /\ left' = left \ {w} /\ watch' = w
        /\ UNCHANGED <<service, targets, todo, result, outcome, acc>>
    BY <1>3 DEF NextWatch, call
  <2>. QED
    BY <2>1, NoneLeftBehind DEF CompleteInv, UnderWay, Requesting
<1>4. ASSUME NEW w \in Watches, ShortCircuit(w) PROVE CompleteInv'
  <2>1. /\ pc = "watches" /\ pc' = pc /\ left' = left \ {w}
        /\ RecordOutcome(w, "errored")
        /\ UNCHANGED <<service, targets, todo, result, acc, watch>>
    BY <1>4 DEF ShortCircuit, call
  <2>2. targets \subseteq Watches
    BY DEF IInv, PlaceInv
  <2>. QED
    BY <2>1, <2>2, RecordSets, NoneLeftBehind DEF CompleteInv, UnderWay, Requesting
<1>5. CASE AccountDone
  <2>1. /\ pc = "watches" /\ pc' = "accounts" /\ left = {}
        /\ UNCHANGED <<service, targets, todo, result, outcome>>
    BY <1>5 DEF AccountDone, call
  <2>. QED
    BY <2>1, NoneLeftBehind DEF CompleteInv, UnderWay, Requesting
<1>6. CASE Surface
  BY <1>6, SurfaceTells
<1>7. CASE PushEscapes \/ AskEscapes \/ LoadEscapes \/ ListEscapes \/ WriteEscapes \/ RefreshEscapes
  BY <1>7, EscapeTells DEF PushEscapes, AskEscapes, LoadEscapes, ListEscapes, WriteEscapes,
                           RefreshEscapes
<1>8. CASE Return
  <2>1. /\ service' = "update" /\ result' = "none" /\ pc' = "idle"
        /\ outcome' = [k \in DOMAIN outcome |-> "none"]
    BY <1>8 DEF Return
  <2>2. "update" \in Services /\ outcome' \in Outcomes
    BY <2>1 DEF Services, BodyOf, Outcomes, CompleteInv
  <2>. QED
    BY <2>1, <2>2 DEF CompleteInv
<1>9. CASE Asked
  <2>1. /\ pc \in Requesting /\ RecordOutcome(watch, "succeeded")
        /\ UNCHANGED <<service, targets, todo, result>>
        /\ \/ Does("media") /\ pc' = "loading" /\ UNCHANGED <<acc, left>>
           \/ Leave(left)
    BY <1>9 DEF Asked, call, Requesting
  <2>2. Does("media") => ~PerWatch
    BY OnlyReadLoads DEF CompleteInv, PerWatch
  <2>. QED
    BY <2>1, <2>2, WatchDone DEF Requesting
<1>10. CASE AskBreaks \/ ListBreaks \/ WriteBreaks
  <2>1. /\ pc \in Requesting /\ RecordOutcome(watch, "errored")
        /\ UNCHANGED <<service, targets, todo, result>>
        /\ Leave(IF Does("media") THEN {} ELSE left)
    BY <1>10 DEF AskBreaks, ListBreaks, WriteBreaks, Breaks, call, Requesting
  <2>2. Does("media") => ~PerWatch
    BY OnlyReadLoads DEF CompleteInv, PerWatch
  <2>. QED
    BY <2>1, <2>2, WatchDone
<1>11. CASE Loaded \/ LoadBreaks
  BY <1>11, WatchGoesOn DEF Loaded, LoadBreaks, call, CompleteInv, Requesting
<1>12. CASE Listed \/ ListFails
  BY <1>12, WatchDone DEF Listed, ListFails, GoTo, call, Requesting
<1>13. ASSUME NEW alarm, NEW kind \in {"succeeded", "refused"}, pc = "writing", Answered(alarm, kind),
              UNCHANGED <<service, targets, todo, result>>
       PROVE  CompleteInv'
  BY <1>13, WatchDone DEF Answered, Requesting
<1>14. CASE Accepted \/ Refused
  BY <1>13, <1>14 DEF Accepted, Refused, call
<1>15. CASE Lost
  BY <1>13, <1>15, WatchGoesOn DEF Lost, call, Requesting
<1>16. ASSUME NEW w \in Watches, Refresh(w) \/ RefreshFails(w) PROVE CompleteInv'
  <2>1. /\ pc = "refreshing" /\ UNCHANGED <<service, targets, todo, result>>
        /\ Leave(left) \/ UNCHANGED <<acc, left, watch, pc>>
        /\ outcome' = outcome \/ outcome' = [outcome EXCEPT ![watch] = Confirmed(watch)]
    BY <1>16 DEF Refresh, RefreshFails, RefreshedList, call
  <2>2. Confirmed(watch) \in {"skipped", "errored", "succeeded"}
    BY DEF Confirmed
  <2>3. outcome' \in Outcomes /\ \A v \in Watches : outcome[v] # "none" => outcome'[v] # "none"
    BY <2>1, <2>2 DEF CompleteInv, Outcomes
  <2>4. pc' # "ended" /\ pc' # "loading"
    BY <2>1 DEF Leave
  <2>5. PerWatch => UNCHANGED <<acc, left>>
    BY <2>1 DEF Leave, PerWatch
  <2>. QED
    BY <2>1, <2>3, <2>4, <2>5, NoneLeftBehind DEF UnderWay, Requesting
<1>17. ASSUME NEW alarm, App(alarm) \/ UNCHANGED vars PROVE CompleteInv'
  <2>1. UNCHANGED <<service, targets, todo, result, outcome, acc, left, watch, pc>>
    BY <1>17 DEF App, vars, call, place
  <2>. QED
    BY <2>1 DEF CompleteInv, Pending, UnderWay, PerWatch, For
<1>. QED
  BY <1>1, <1>2, <1>3, <1>4, <1>5, <1>6, <1>7, <1>8, <1>9, <1>10, <1>11, <1>12, <1>14, <1>15,
     <1>16, <1>17 DEF Next, Advance

\* For any selection of any accounts and watches: a call per watch that ends
\* without a toast and without a notification succeeded for every watch.
THEOREM CleanMeansDone == Spec => []CleanIsComplete
<1>1. Init => IInv /\ CompleteInv
  <2>. SUFFICES ASSUME Init PROVE IInv /\ CompleteInv
    OBVIOUS
  <2>1. IInv
    BY ConstantsAssumption DEF Init, IInv, PlaceInv, DoomInv, Requesting
  <2>2. service \in Services /\ outcome \in Outcomes
    BY DEF Init, Services, BodyOf, Outcomes
  <2>. QED
    BY <2>1, <2>2 DEF Init, CompleteInv
<1>2. CompleteInv => CleanIsComplete
  BY DEF CompleteInv, PerWatch, CleanIsComplete
<1>. QED
  BY <1>1, <1>2, DoomStep, CompleteStep, PTL DEF Spec

-----------------------------------------------------------------------------
(* Services that confirm what they did                                     *)

\* The calls that SuccessIsReal and RefusalIsReal are about.
Confirming == service \in {"switch", "toggle"}

\* The watches of the account that is served.
Mine == {w \in targets : Owner[w] = acc}

\* Between two calls nothing is left of the last one.
RestInv ==
  /\ pc # "ended" => result = "none"
  /\ pc \in {"idle", "ended"} => left = {} /\ list = {} /\ stale = {}
  /\ pc = "idle" => touched = {} /\ verified = {} /\ \A w \in Watches : outcome[w] = "none"

\* Where a call that confirms is: what is still to be written is of the watch
\* it serves, which has an outcome once its list is known.
TurnInv ==
  Confirming /\ pc # "idle" =>
    /\ left \subseteq Mine /\ stale \subseteq Mine
    /\ pc \in {"watches", "accounts"} => stale = {}
    /\ pc \in Requesting => pc \in {"listing", "writing", "refreshing"} /\ watch \in Mine
    /\ pc # "writing" => list = {}
    /\ service = "toggle" =>
         /\ pc = "writing" => list # {} /\ list \subseteq Has[watch] /\ outcome[watch] # "none"
         /\ pc \in Requesting => stale \subseteq {watch} /\ watch \notin left
    /\ service = "switch" => list = {} /\ left = {} /\ pc \notin {"watches", "listing"} /\ picked \in Alarms

\* All that is used of the earlier invariants.
KnownInv == IInv /\ CompleteInv /\ RestInv /\ TurnInv

\* A switch by id.
LEMMA SwitchBody ==
  ASSUME service = "switch"
  PROVE  /\ For("id") /\ ~For("watch") /\ ~For("account")
         /\ Does("refresh") /\ Does("confirm") /\ ~Does("media") /\ ~Does("list") /\ ~Does("ask")
  BY DEF For, Does, BodyOf, UpdateBody, FeedBody, FollowBody, LogoutBody, HistoryBody,
         ReadBody, MessageBody, CommandBody, AlarmBodies, SilentBodies, Body

\* A toggle of all alarms of a watch.
LEMMA ToggleBody ==
  ASSUME service = "toggle"
  PROVE  /\ For("watch") /\ ~For("id") /\ ~For("account")
         /\ Does("refresh") /\ Does("confirm") /\ Does("list") /\ ~Does("media") /\ ~Does("ask")
  BY DEF For, Does, BodyOf, UpdateBody, FeedBody, FollowBody, LogoutBody, HistoryBody,
         ReadBody, MessageBody, CommandBody, AlarmBodies, SilentBodies, Body

\* An account is only among the watches' owners, and nobody owns a watch.
LEMMA MineOfNobody == ASSUME KnownInv, acc \notin Accounts PROVE Mine = {}
  BY ConstantsAssumption DEF KnownInv, IInv, PlaceInv, Mine

\* A record only raises the outcome of its watch.
LEMMA RecordRaises ==
  ASSUME outcome \in Outcomes, NEW k, NEW kind \in {"succeeded", "refused", "errored"},
         RecordOutcome(k, kind), NEW w \in Watches
  PROVE  /\ w # k => outcome'[w] = outcome[w]
         /\ outcome'[w] = "succeeded" => outcome[w] = "succeeded" \/ (w = k /\ kind = "succeeded" /\ outcome[w] = "none")
         /\ outcome'[w] = "refused" => outcome[w] = "refused" \/ (w = k /\ kind = "refused")
<1>1. /\ Priority("none") = 0 /\ Priority("skipped") = 0 /\ Priority("succeeded") = 1
      /\ Priority("refused") = 2 /\ Priority("errored") = 3
  BY DEF Priority
<1>2. outcome'[w] = IF w = k /\ outcome[w] # "skipped" /\ Priority(kind) > Priority(outcome[w])
                    THEN kind ELSE outcome[w]
  BY DEF RecordOutcome, Outcomes
<1>. QED
  BY <1>1, <1>2 DEF Outcomes

\* The alarm that is written is one of the watch, or the one that was named.
LEMMA CurrentAlarm ==
  ASSUME KnownInv, Confirming, pc = "writing"
  PROVE  /\ service = "toggle" => Current \in list
         /\ service = "switch" => Current = picked
         /\ Current \in Alarms
<1>1. list # {} => Current \in list
  BY DEF Current
<1>2. watch \in Watches
  BY DEF KnownInv, TurnInv, IInv, PlaceInv, Mine, Requesting
<1>. QED
  BY <1>1, <1>2, ConstantsAssumption DEF KnownInv, TurnInv, Current, Confirming

\* Between two calls of a handler.
LEMMA RestStep == KnownInv /\ [Next]_vars => RestInv'
<1>. SUFFICES ASSUME KnownInv, [Next]_vars PROVE RestInv'
  OBVIOUS
<1>1. ASSUME NEW s \in Services, NEW resolved \in Resolutions, NEW alarm, Call(s, resolved, alarm)
      PROVE  RestInv'
  BY <1>1 DEF Call, KnownInv, RestInv
<1>2. ASSUME NEW a \in Accounts, NextAccount(a) PROVE RestInv'
  BY <1>2 DEF NextAccount, KnownInv, RestInv
<1>3. ASSUME NEW w \in Watches, NextWatch(w) \/ ShortCircuit(w) PROVE RestInv'
  BY <1>3 DEF NextWatch, ShortCircuit, KnownInv, RestInv
<1>4. CASE AccountDone
  BY <1>4 DEF AccountDone, KnownInv, RestInv
<1>5. CASE PushEscapes \/ Surface \/ AskEscapes \/ LoadEscapes \/ ListEscapes \/ WriteEscapes
             \/ RefreshEscapes
  BY <1>5 DEF PushEscapes, Surface, AskEscapes, LoadEscapes, ListEscapes, WriteEscapes,
              RefreshEscapes, Escape, Finish, RestInv
<1>6. CASE Return
  BY <1>6, ConstantsAssumption DEF Return, KnownInv, RestInv, CompleteInv, Outcomes
<1>7. CASE \/ Asked \/ Loaded \/ Listed \/ ListFails \/ AskBreaks \/ LoadBreaks \/ ListBreaks
           \/ WriteBreaks \/ Accepted \/ Refused \/ Lost \/ \E w \in Watches : Refresh(w) \/ RefreshFails(w)
  <2>1. pc \notin {"idle", "ended"} /\ pc' \notin {"idle", "ended"} /\ UNCHANGED result
    BY <1>7 DEF Asked, Loaded, Listed, ListFails, AskBreaks, LoadBreaks, ListBreaks, WriteBreaks,
                Breaks, Accepted, Refused, Lost, Answered, Refresh, RefreshFails, RefreshedList,
                GoTo, Leave
  <2>. QED
    BY <2>1 DEF KnownInv, RestInv
<1>8. ASSUME NEW alarm, App(alarm) PROVE RestInv'
  BY <1>8 DEF App, place, KnownInv, RestInv
<1>9. CASE UNCHANGED vars
  BY <1>9 DEF vars, place, history, KnownInv, RestInv
<1>. QED
  BY <1>1, <1>2, <1>3, <1>4, <1>5, <1>6, <1>7, <1>8, <1>9 DEF Next, Advance

\* The body leaves its last call for a watch or an id.
LEMMA LeaveTurn ==
  ASSUME KnownInv, Confirming, pc \in Requesting, Leave(left), list' = {}, stale' = {},
         UNCHANGED <<service, targets, picked>>
  PROVE  TurnInv'
<1>1. pc # "idle"
  BY DEF Requesting
<1>2. CASE service = "toggle"
  <2>1. pc' = "watches" /\ left' = left /\ acc' = acc
    BY <1>2, ToggleBody DEF Leave
  <2>. QED
    BY <1>1, <1>2, <2>1 DEF KnownInv, TurnInv, Confirming, Mine, Requesting
<1>3. CASE service = "switch"
  <2>1. pc' = "accounts" /\ left' = {}
    BY <1>3, SwitchBody DEF Leave
  <2>. QED
    BY <1>1, <1>3, <2>1 DEF KnownInv, TurnInv, Confirming, Mine, Requesting
<1>. QED
  BY <1>2, <1>3 DEF Confirming

\* An answer to a mutation.
LEMMA AnsweredTurn ==
  ASSUME KnownInv, Confirming, pc = "writing", UNCHANGED <<service, targets, picked, stale>>,
         NEW kind \in {"succeeded", "refused"}, Answered(Current, kind)
  PROVE  TurnInv'
<1>1. Does("refresh")
  BY SwitchBody, ToggleBody DEF Confirming
<1>2. /\ list' = list \ {Current} /\ UNCHANGED <<acc, left, watch>>
      /\ pc' = IF list' # {} THEN pc ELSE "refreshing"
  BY <1>1 DEF Answered
<1>3. outcome' \in Outcomes /\ \A w \in Watches : outcome[w] # "none" => outcome'[w] # "none"
  BY RecordSets DEF Answered, KnownInv, CompleteInv
<1>4. watch \in Watches
  BY DEF KnownInv, TurnInv, IInv, PlaceInv, Mine, Requesting
<1>. QED
  BY <1>2, <1>3, <1>4 DEF KnownInv, TurnInv, Confirming, Mine, Requesting

\* A call for a watch ends with an error.
ErrorEnds ==
  /\ pc \in Requesting /\ RecordOutcome(watch, "errored")
  /\ list' = {} /\ stale' = {} /\ Leave(left)
  /\ UNCHANGED <<on, call, result, todo, touched, verified, nulled>>

\* A mutation is refused, or given up.
GivenUp ==
  /\ pc = "writing" /\ Answered(Current, "refused")
  /\ Applied \/ UNCHANGED on
  /\ UNCHANGED <<call, result, todo, stale, touched, verified, nulled>>

\* A mutation is sent again.
SentAgain ==
  /\ pc = "writing"
  /\ Applied \/ UNCHANGED on
  /\ UNCHANGED <<call, result, todo, stale, touched, verified, nulled, list, acc, left, watch, pc, outcome>>

\* The steps of a call that confirms.
ConfirmingStep ==
  \/ \E a \in Accounts : NextAccount(a)
  \/ \E w \in Watches : NextWatch(w) \/ ShortCircuit(w) \/ Refresh(w) \/ RefreshFails(w)
  \/ AccountDone \/ Listed \/ Accepted \/ GivenUp \/ SentAgain \/ ErrorEnds
  \/ \E ending : Finish(ending) /\ pc # "ended" /\ (ending # "aborted" => pc = "accounts")
  \/ \E alarm \in Alarms : App(alarm)

\* No other step is taken within such a call.
LEMMA ConfirmingSteps ==
  ASSUME KnownInv, Confirming, pc # "idle", [Next]_vars
  PROVE  ConfirmingStep \/ Return \/ UNCHANGED vars
<1>1. ~Does("media") /\ pc \notin {"asking", "loading"}
  BY SwitchBody, ToggleBody DEF Confirming, KnownInv, TurnInv, Requesting
<1>2. ~ \E s \in Services, resolved \in Resolutions : \E alarm \in Named(s) : Call(s, resolved, alarm)
  BY DEF Call
<1>3. CASE Asked \/ AskBreaks \/ AskEscapes \/ Loaded \/ LoadBreaks \/ LoadEscapes
  BY <1>1, <1>3 DEF Asked, AskBreaks, AskEscapes, Loaded, LoadBreaks, LoadEscapes
<1>4. CASE Surface \/ PushEscapes \/ ListEscapes \/ WriteEscapes \/ RefreshEscapes
  BY <1>1, <1>4 DEF Surface, PushEscapes, ListEscapes, WriteEscapes, RefreshEscapes, Escape,
                    ConfirmingStep
<1>5. CASE ListFails
  <2>1. list = {}
    BY <1>5 DEF ListFails, KnownInv, TurnInv
  <2>2. ErrorEnds
    BY <1>5, <2>1 DEF ListFails, ErrorEnds, Requesting, history
  <2>. QED
    BY <2>2 DEF ConfirmingStep
<1>6. CASE ListBreaks \/ WriteBreaks
  <2>1. ErrorEnds
    BY <1>1, <1>6 DEF ListBreaks, WriteBreaks, Breaks, ErrorEnds, Requesting
  <2>. QED
    BY <2>1 DEF ConfirmingStep
<1>7. CASE Refused
  <2>1. GivenUp
    BY <1>7 DEF Refused, GivenUp, history
  <2>. QED
    BY <2>1 DEF ConfirmingStep
<1>8. CASE Lost
  <2>1. GivenUp \/ SentAgain
    BY <1>8 DEF Lost, GivenUp, SentAgain, history
  <2>. QED
    BY <2>1 DEF ConfirmingStep
<1>. QED
  BY <1>2, <1>3, <1>4, <1>5, <1>6, <1>7, <1>8 DEF Next, Advance, ConfirmingStep

\* An account's turn begins.
LEMMA AccountTurn ==
  ASSUME KnownInv, Confirming, NEW a \in Accounts, NextAccount(a)
  PROVE  TurnInv'
<1>1. PICK skipped \in MaySkip({w \in targets : Owner[w] = a}) :
        LET allowed == {w \in targets : Owner[w] = a} \ skipped
        IN  /\ acc' = IF allowed = {} THEN Nobody ELSE a
            /\ left' = IF For("watch") THEN allowed ELSE {}
            /\ stale' = IF For("id") THEN allowed ELSE {}
            /\ watch' \in IF allowed = {} \/ For("watch") THEN {Nobody}
                          ELSE IF For("account") THEN {a} ELSE allowed
            /\ pc' = IF allowed = {} THEN "accounts"
                     ELSE IF For("watch") THEN "watches"
                     ELSE IF For("account") THEN "asking" ELSE "writing"
  BY DEF NextAccount
<1>2. pc = "accounts" /\ list' = list /\ UNCHANGED <<service, targets, picked>>
  BY DEF NextAccount, call
<1>3. list = {} /\ (service = "switch" => picked \in Alarms)
  BY <1>2 DEF KnownInv, TurnInv
<1>4. CASE service = "toggle"
  BY <1>1, <1>2, <1>3, <1>4, ToggleBody DEF TurnInv, Mine, Requesting
<1>5. CASE service = "switch"
  BY <1>1, <1>2, <1>3, <1>5, SwitchBody DEF TurnInv, Mine, Requesting
<1>. QED
  BY <1>4, <1>5 DEF Confirming

\* A watch's turn, or the end of an account's.
LEMMA WatchTurn ==
  ASSUME KnownInv, Confirming, NEW w, NextWatch(w) \/ ShortCircuit(w) \/ AccountDone
  PROVE  TurnInv'
<1>1. pc = "watches" /\ service = "toggle" /\ UNCHANGED <<service, targets, picked, list>>
  <2>1. pc = "watches" /\ UNCHANGED <<service, targets, picked, list>>
    BY DEF NextWatch, ShortCircuit, AccountDone, call
  <2>2. service # "switch"
    BY <2>1 DEF KnownInv, TurnInv
  <2>. QED
    BY <2>1, <2>2 DEF Confirming
<1>2. list = {} /\ stale = {} /\ left \subseteq Mine
  BY <1>1 DEF KnownInv, TurnInv
<1>3. CASE NextWatch(w)
  <2>1. /\ pc' = "listing" /\ w \in left /\ left' = left \ {w} /\ watch' = w
        /\ stale' = {w} /\ acc' = acc
    BY <1>1, <1>3, ToggleBody DEF NextWatch
  <2>. QED
    BY <1>1, <1>2, <2>1 DEF TurnInv, Mine, Requesting
<1>4. CASE ShortCircuit(w)
  <2>1. pc' = pc /\ left' \subseteq left /\ UNCHANGED <<acc, stale>>
    BY <1>4 DEF ShortCircuit
  <2>. QED
    BY <1>1, <1>2, <2>1 DEF TurnInv, Mine, Requesting
<1>5. CASE AccountDone
  <2>1. pc' = "accounts" /\ left = {} /\ UNCHANGED <<left, stale>>
    BY <1>5 DEF AccountDone
  <2>. QED
    BY <1>1, <1>2, <2>1 DEF TurnInv, Mine, Requesting
<1>. QED
  BY <1>3, <1>4, <1>5

\* The list of alarms has arrived.
LEMMA ListedTurn == ASSUME KnownInv, Confirming, Listed PROVE TurnInv'
<1>1. /\ pc = "listing" /\ list' \subseteq Has[watch]
      /\ pc' = IF list' = {} THEN "refreshing" ELSE "writing"
      /\ UNCHANGED <<service, targets, picked, acc, left, watch, stale>>
      /\ RecordOutcome(watch, "succeeded")
  BY DEF Listed, Readings, GoTo, call
<1>2. service = "toggle" /\ watch \in Watches
  BY <1>1 DEF KnownInv, TurnInv, Confirming, Mine, Requesting, IInv, PlaceInv
<1>3. outcome'[watch] # "none"
  BY <1>1, <1>2, RecordSets DEF KnownInv, CompleteInv
<1>. QED
  BY <1>1, <1>2, <1>3 DEF KnownInv, TurnInv, Confirming, Mine, Requesting

\* A list has been fetched, or not, after the writes.
LEMMA RefreshTurn ==
  ASSUME KnownInv, Confirming, NEW w \in Watches, Refresh(w) \/ RefreshFails(w)
  PROVE  TurnInv'
<1>1. /\ pc = "refreshing" /\ stale' = stale \ {w} /\ list' = list
      /\ UNCHANGED <<service, targets, picked>>
      /\ IF stale' # {} THEN UNCHANGED <<acc, left, watch, pc>> ELSE Leave(left)
  BY DEF Refresh, RefreshFails, RefreshedList, call
<1>2. list' = {}
  BY <1>1 DEF KnownInv, TurnInv
<1>3. CASE stale' = {}
  BY <1>1, <1>2, <1>3, LeaveTurn DEF Requesting
<1>4. CASE stale' # {}
  BY <1>1, <1>2, <1>4 DEF KnownInv, TurnInv, Confirming, Mine, Requesting
<1>. QED
  BY <1>3, <1>4

\* The steps within a call, and those between two.
LEMMA CallSteps ==
  ASSUME KnownInv, [Next]_vars
  PROVE  \/ UNCHANGED vars \/ Return
         \/ \E s \in Services, resolved \in Resolutions : \E alarm \in Named(s) : Call(s, resolved, alarm)
         \/ Confirming /\ pc \notin {"idle", "ended"} /\ result = "none" /\ ConfirmingStep
         \/ ~Confirming /\ UNCHANGED service
<1>1. ASSUME NEW a, NextAccount(a) PROVE pc # "idle" /\ UNCHANGED service
  BY <1>1 DEF NextAccount, call
<1>2. ASSUME NEW w, NextWatch(w) \/ ShortCircuit(w) \/ Refresh(w) \/ RefreshFails(w)
      PROVE  pc # "idle" /\ UNCHANGED service
  BY <1>2 DEF NextWatch, ShortCircuit, Refresh, RefreshFails, call
<1>3. ASSUME \/ AccountDone \/ PushEscapes \/ Surface \/ AskEscapes \/ LoadEscapes
             \/ ListEscapes \/ WriteEscapes \/ RefreshEscapes
      PROVE  pc # "idle" /\ UNCHANGED service
  BY <1>3 DEF AccountDone, PushEscapes, Surface, AskEscapes, LoadEscapes, ListEscapes,
              WriteEscapes, RefreshEscapes, Escape, Finish, call
<1>4. ASSUME \/ Asked \/ AskBreaks \/ Loaded \/ LoadBreaks \/ Listed \/ ListFails \/ ListBreaks
             \/ Accepted \/ Refused \/ Lost \/ WriteBreaks
      PROVE  pc # "idle" /\ UNCHANGED service
  BY <1>4 DEF Asked, AskBreaks, Loaded, LoadBreaks, Listed, ListFails, ListBreaks, Accepted,
              Refused, Lost, WriteBreaks, Breaks, call
<1>5. ASSUME NEW alarm, App(alarm) PROVE pc # "idle" /\ UNCHANGED service
  BY <1>5 DEF App, call
<1>6. ConfirmingStep => pc # "ended"
  <2>1. ASSUME NEW a, NextAccount(a) PROVE pc # "ended"
    BY <2>1 DEF NextAccount
  <2>2. ASSUME NEW w, NextWatch(w) \/ ShortCircuit(w) \/ Refresh(w) \/ RefreshFails(w)
        PROVE  pc # "ended"
    BY <2>2 DEF NextWatch, ShortCircuit, Refresh, RefreshFails
  <2>3. CASE AccountDone \/ Listed
    BY <2>3 DEF AccountDone, Listed
  <2>5. CASE Accepted \/ GivenUp \/ SentAgain
    BY <2>5 DEF Accepted, GivenUp, SentAgain
  <2>6. CASE ErrorEnds
    BY <2>6 DEF ErrorEnds, Requesting
  <2>4. ASSUME NEW alarm, App(alarm) PROVE pc # "ended"
    BY <2>4 DEF App
  <2>. QED
    BY <2>1, <2>2, <2>3, <2>4, <2>5, <2>6 DEF ConfirmingStep
<1>7. pc # "ended" => result = "none"
  BY DEF KnownInv, RestInv
<1>. QED
  BY <1>1, <1>2, <1>3, <1>4, <1>5, <1>6, <1>7, ConfirmingSteps DEF Next, Advance

\* Every step keeps a call that confirms in its turn.
LEMMA TurnStep == KnownInv /\ [Next]_vars => TurnInv'
<1>. SUFFICES ASSUME KnownInv, [Next]_vars PROVE TurnInv'
  OBVIOUS
<1>1. ASSUME NEW s \in Services, NEW resolved \in Resolutions, NEW alarm \in Named(s),
             Call(s, resolved, alarm)
      PROVE  TurnInv'
  <2>1. /\ pc = "idle" /\ pc' \in {"accounts", "ended"} /\ service' = s /\ picked' = alarm
        /\ left' = {} /\ list' = {} /\ stale' = {}
    BY <1>1 DEF Call, KnownInv, RestInv
  <2>. QED
    BY <2>1 DEF Named, TurnInv, Requesting
<1>2. CASE Return
  BY <1>2 DEF Return, TurnInv
<1>3. CASE UNCHANGED vars
  BY <1>3 DEF vars, call, place, KnownInv, TurnInv, Confirming, Mine
<1>4. CASE Confirming /\ pc # "idle" /\ ConfirmingStep
  <2>1. CASE Accepted \/ GivenUp
    BY <1>4, <2>1, AnsweredTurn DEF Accepted, GivenUp, call
  <2>2. CASE SentAgain
    BY <1>4, <2>2 DEF SentAgain, call, KnownInv, TurnInv, Confirming, Mine
  <2>3. CASE ErrorEnds
    BY <1>4, <2>3, LeaveTurn DEF ErrorEnds, call
  <2>4. ASSUME NEW ending, Finish(ending) PROVE TurnInv'
    BY <1>4, <2>4 DEF Finish, call, KnownInv, TurnInv, Confirming, Requesting
  <2>5. ASSUME NEW alarm, App(alarm) PROVE TurnInv'
    BY <1>4, <2>5 DEF App, call, place, KnownInv, TurnInv, Confirming, Mine
  <2>. QED
    BY <1>4, <2>1, <2>2, <2>3, <2>4, <2>5, AccountTurn, WatchTurn, ListedTurn, RefreshTurn
       DEF ConfirmingStep
<1>5. CASE ~Confirming /\ UNCHANGED service
  BY <1>5 DEF TurnInv, Confirming
<1>. QED
  BY <1>1, <1>2, <1>3, <1>4, <1>5, CallSteps

\* A watch reported as done has its alarms on, those apart that are still to be
\* written in its turn, unless a toggle was told that it has none.
SuccessInv ==
  Confirming /\ pc # "idle" /\ result # "aborted" =>
    \A w \in targets :
      /\ outcome[w] = "succeeded" /\ Promised(w) \cap touched = {}
      /\ service = "toggle" => w \notin nulled
      => \A alarm \in Promised(w) : alarm \in on \/ (w = watch /\ alarm \in list)

\* A step that reports no watch as done takes no alarm off.
LEMMA SuccessKept ==
  ASSUME KnownInv, SuccessInv, Confirming, pc # "idle", result # "aborted",
         UNCHANGED <<service, targets, picked, touched, nulled>>,
         list = {} \/ UNCHANGED <<watch, list>>,
         on \subseteq on',
         \A w \in targets : outcome'[w] = "succeeded" => outcome[w] = "succeeded"
  PROVE  SuccessInv'
<1>1. \A w : Promised(w)' = Promised(w)
  BY DEF Promised
<1>. QED
  BY <1>1 DEF SuccessInv, Confirming

\* Writing only adds alarms.
LEMMA AppliedAdds == ASSUME Applied \/ UNCHANGED on PROVE on \subseteq on'
  BY DEF Applied

\* A mutation is answered: its alarm is on, or its watch is not done.
LEMMA AnsweredSuccess ==
  ASSUME KnownInv, SuccessInv, Confirming, Accepted \/ GivenUp, result # "aborted"
  PROVE  SuccessInv'
<1>1. /\ pc = "writing" /\ UNCHANGED <<service, targets, picked, touched, nulled>>
      /\ on \subseteq on'
  BY AppliedAdds DEF Accepted, GivenUp, call, history
<1>2. Does("refresh")
  BY SwitchBody, ToggleBody DEF Confirming
<1>3. list' = list \ {Current} /\ watch' = watch
  BY <1>2 DEF Accepted, GivenUp, Answered
<1>4. outcome \in Outcomes /\ targets \subseteq Watches /\ watch \in targets /\ result' = result
  BY <1>1 DEF KnownInv, CompleteInv, IInv, PlaceInv, TurnInv, Mine, Requesting, Accepted, GivenUp
<1>5. \A w : Promised(w)' = Promised(w)
  BY <1>1 DEF Promised
<1>6. CASE Accepted
  <2>1. Current \in on'
    BY <1>1, <1>6, CurrentAlarm, ConstantsAssumption DEF Accepted, Applied
  <2>2. RecordOutcome(watch, "succeeded")
    BY <1>6 DEF Accepted, Answered
  <2>3. outcome[watch] = "none" => service = "switch"
    BY <1>1 DEF KnownInv, TurnInv, Confirming
  <2>4. ASSUME NEW w \in targets, outcome'[w] = "succeeded", Promised(w) \cap touched = {},
               service = "toggle" => w \notin nulled, NEW alarm \in Promised(w)
        PROVE  alarm \in on' \/ (w = watch /\ alarm \in list \ {Current})
    <3>1. outcome[w] = "succeeded" \/ (w = watch /\ service = "switch")
      BY <1>4, <2>2, <2>3, <2>4, RecordRaises
    <3>2. CASE outcome[w] = "succeeded"
      BY <1>1, <1>4, <2>1, <2>4, <3>2 DEF SuccessInv
    <3>3. CASE service = "switch"
      BY <1>1, <2>1, <2>4, <3>3, CurrentAlarm DEF Promised
    <3>. QED
      BY <3>1, <3>2, <3>3
  <2>. QED
    BY <1>1, <1>3, <1>4, <1>5, <2>4 DEF SuccessInv
<1>7. CASE GivenUp
  <2>1. RecordOutcome(watch, "refused")
    BY <1>7 DEF GivenUp, Answered
  <2>2. \A w \in targets : outcome'[w] = "succeeded" => outcome[w] = "succeeded" /\ w # watch
    <3>1. outcome'[watch] # "succeeded"
      BY <1>4, <2>1 DEF RecordOutcome, Outcomes, Priority
    <3>. QED
      BY <1>4, <2>1, <3>1, RecordRaises
  <2>. QED
    BY <1>1, <1>3, <1>4, <1>5, <2>2 DEF SuccessInv
<1>. QED
  BY <1>6, <1>7

\* The list confirms the watch that has all its alarms on.
LEMMA RefreshSuccess ==
  ASSUME KnownInv, SuccessInv, Confirming, NEW w \in Watches, Refresh(w), result # "aborted"
  PROVE  SuccessInv'
<1>1. PICK seen \in Readings(w) :
        /\ outcome' = IF Confirms(w, seen) THEN [outcome EXCEPT ![watch] = Confirmed(watch)] ELSE outcome
        /\ Noted(w, seen)
  BY DEF Refresh
<1>0. pc = "refreshing" /\ UNCHANGED <<service, targets, picked, touched, on, list, result>>
  BY DEF Refresh, call
<1>2. list = {} /\ list' = {} /\ targets \subseteq Watches
  BY <1>0 DEF KnownInv, TurnInv, IInv, PlaceInv
<1>3. \A v : Promised(v)' = Promised(v)
  BY <1>0 DEF Promised
<1>6. nulled \subseteq nulled' /\ (seen # Has[w] => w \in nulled')
  BY <1>1, SwitchBody, ToggleBody DEF Noted, Confirming
<1>4. Confirms(w, seen) /\ (service = "toggle" => w \notin nulled') =>
        w = watch /\ \A alarm \in Promised(w) : alarm \in on
  BY <1>6, SwitchBody, ToggleBody DEF Confirms, InState, Promised, Confirming
<1>5. ASSUME NEW v \in targets, outcome'[v] = "succeeded", Promised(v) \cap touched = {},
             service = "toggle" => v \notin nulled', NEW alarm \in Promised(v)
      PROVE  alarm \in on
  <2>1. CASE outcome[v] = "succeeded"
    BY <1>0, <1>2, <1>5, <1>6, <2>1 DEF SuccessInv
  <2>2. CASE outcome[v] # "succeeded"
    <3>1. Confirms(w, seen) /\ v = watch
      BY <1>1, <1>2, <1>5, <2>2 DEF KnownInv, CompleteInv, Outcomes
    <3>. QED
      BY <1>4, <1>5, <3>1 DEF Confirms
  <2>. QED
    BY <2>1, <2>2
<1>. QED
  BY <1>0, <1>2, <1>3, <1>5 DEF SuccessInv

\* The app touches what it changes.
LEMMA AppSuccess == ASSUME KnownInv, SuccessInv, NEW alarm, App(alarm) PROVE SuccessInv'
<1>1. /\ UNCHANGED <<service, targets, picked, result, outcome, watch, list, pc, nulled>>
      /\ touched' = touched \union {alarm} /\ \A b : b # alarm => (b \in on' <=> b \in on)
  BY DEF App, call, place
<1>2. \A w : Promised(w)' = Promised(w)
  BY <1>1 DEF Promised
<1>. QED
  BY <1>1, <1>2 DEF SuccessInv, Confirming

\* A call begins: none of its watches has an outcome.
LEMMA CallBegins ==
  ASSUME KnownInv, NEW s \in Services, NEW resolved \in Resolutions, NEW alarm, Call(s, resolved, alarm)
  PROVE  /\ pc = "idle" /\ verified' = {} /\ targets' \subseteq Watches
         /\ \A w \in Watches : outcome'[w] = "none"
<1>1. targets' \subseteq Watches
  BY DEF Call, Resolutions, ResolveDevice
<1>. QED
  BY <1>1 DEF Call, KnownInv, RestInv, history

\* Every step keeps it.
LEMMA SuccessStep == KnownInv /\ SuccessInv /\ [Next]_vars => SuccessInv'
<1>. SUFFICES ASSUME KnownInv, SuccessInv, [Next]_vars PROVE SuccessInv'
  OBVIOUS
<1>1. ASSUME NEW s \in Services, NEW resolved \in Resolutions, NEW alarm, Call(s, resolved, alarm)
      PROVE  SuccessInv'
  BY <1>1, CallBegins DEF SuccessInv
<1>2. CASE Return
  BY <1>2 DEF Return, SuccessInv
<1>3. CASE UNCHANGED vars
  BY <1>3 DEF vars, call, place, history, SuccessInv, Confirming, Promised
<1>4. CASE Confirming /\ pc \notin {"idle", "ended"} /\ result = "none" /\ ConfirmingStep
  <2>1. outcome \in Outcomes /\ targets \subseteq Watches
    BY DEF KnownInv, CompleteInv, IInv, PlaceInv
  <2>2. ASSUME NEW a, NextAccount(a) PROVE SuccessInv'
    <3>1. pc = "accounts" /\ UNCHANGED <<service, targets, picked, touched, nulled, on, list>>
      BY <2>2 DEF NextAccount, call, history
    <3>2. list = {}
      BY <1>4, <3>1 DEF KnownInv, TurnInv
    <3>3. \A w \in targets : outcome'[w] = "succeeded" => outcome[w] = "succeeded"
      BY <2>1, <2>2 DEF NextAccount, Outcomes
    <3>. QED
      BY <1>4, <3>1, <3>2, <3>3, SuccessKept
  <2>3. ASSUME NEW w \in Watches, NextWatch(w) \/ ShortCircuit(w) \/ AccountDone PROVE SuccessInv'
    <3>1. /\ pc = "watches" /\ UNCHANGED <<service, targets, picked, touched, nulled, on, list>>
          /\ outcome' = outcome \/ RecordOutcome(w, "errored")
      BY <2>3 DEF NextWatch, ShortCircuit, AccountDone, call, history
    <3>2. list = {}
      BY <1>4, <3>1 DEF KnownInv, TurnInv
    <3>3. \A v \in targets : outcome'[v] = "succeeded" => outcome[v] = "succeeded"
      BY <2>1, <3>1, RecordRaises
    <3>. QED
      BY <1>4, <3>1, <3>2, <3>3, SuccessKept
  <2>4. CASE Listed
    <3>1. /\ watch' = watch /\ pc = "listing"
          /\ UNCHANGED <<service, targets, picked, touched, on, result>>
          /\ RecordOutcome(watch, "succeeded")
      BY <2>4 DEF Listed, call
    <3>2. service = "toggle" /\ list = {}
      BY <1>4, <3>1 DEF KnownInv, TurnInv, Confirming
    <3>4. nulled \subseteq nulled' /\ (watch \notin nulled' => list' = Has[watch])
      BY <2>4, <3>2, ToggleBody DEF Listed, Noted
    <3>3. ASSUME NEW v \in targets, outcome'[v] = "succeeded", v # watch PROVE outcome[v] = "succeeded"
      BY <2>1, <3>1, <3>3, RecordRaises
    <3>. QED
      BY <1>4, <3>1, <3>2, <3>3, <3>4 DEF SuccessInv, Promised
  <2>5. CASE AccountDone
    <3>1. pc = "watches" /\ UNCHANGED <<service, targets, picked, touched, nulled, on, list, outcome>>
      BY <2>5 DEF AccountDone, call, history
    <3>2. list = {}
      BY <1>4, <3>1 DEF KnownInv, TurnInv
    <3>. QED
      BY <1>4, <3>1, <3>2, SuccessKept
  <2>6. CASE SentAgain
    BY <1>4, <2>6, AppliedAdds, SuccessKept DEF SentAgain, call
  <2>7. CASE ErrorEnds
    <3>1. /\ UNCHANGED <<service, targets, picked, touched, nulled, on>> /\ list' = {}
          /\ RecordOutcome(watch, "errored")
      BY <2>7 DEF ErrorEnds, call
    <3>2. watch \in Watches
      BY <1>4, <2>1, <2>7 DEF ErrorEnds, KnownInv, TurnInv, Mine
    <3>3. \A v \in targets : outcome'[v] = "succeeded" => outcome[v] = "succeeded" /\ v # watch
      <4>1. outcome'[watch] # "succeeded"
        BY <2>1, <3>1, <3>2 DEF RecordOutcome, Outcomes, Priority
      <4>. QED
        BY <2>1, <3>1, <4>1, RecordRaises
    <3>4. \A w : Promised(w)' = Promised(w)
      BY <3>1 DEF Promised
    <3>. QED
      BY <1>4, <3>1, <3>3, <3>4 DEF SuccessInv, Confirming
  <2>8. ASSUME NEW ending, Finish(ending), ending # "aborted" => pc = "accounts" PROVE SuccessInv'
    <3>1. /\ UNCHANGED <<service, targets, picked, touched, nulled, on, outcome>> /\ list' = {}
          /\ result' = ending
      BY <2>8 DEF Finish, call, history
    <3>2. CASE ending = "aborted"
      BY <3>1, <3>2 DEF SuccessInv
    <3>3. CASE pc = "accounts"
      <4>1. list = {}
        BY <1>4, <3>3 DEF KnownInv, TurnInv
      <4>. QED
        BY <1>4, <3>1, <4>1, SuccessKept
    <3>. QED
      BY <2>8, <3>2, <3>3
  <2>9. ASSUME NEW w \in Watches, RefreshFails(w) PROVE SuccessInv'
    <3>1. pc = "refreshing" /\ UNCHANGED <<service, targets, picked, touched, nulled, on, list, outcome>>
      BY <2>9 DEF RefreshFails, call, history
    <3>2. list = {}
      BY <1>4, <3>1 DEF KnownInv, TurnInv
    <3>. QED
      BY <1>4, <3>1, <3>2, SuccessKept
  <2>. QED
    BY <1>4, <2>2, <2>3, <2>4, <2>5, <2>6, <2>7, <2>8, <2>9, AnsweredSuccess, RefreshSuccess,
       AppSuccess DEF ConfirmingStep
<1>5. CASE ~Confirming /\ UNCHANGED service
  BY <1>5 DEF SuccessInv, Confirming
<1>. QED
  BY <1>1, <1>2, <1>3, <1>4, <1>5, CallSteps

\* The list of a watch is fetched after its last write; until its account has
\* its turn, and in the turn of another watch, nothing is reported of it.
VerifiedInv ==
  Confirming /\ pc # "idle" =>
    /\ \A w \in verified :
         /\ w \in targets /\ Owner[w] \notin todo /\ w \notin left
         /\ pc \in {"listing", "writing"} => w # watch
         /\ service = "switch" /\ pc = "writing" => Owner[w] # acc
    /\ \A w \in targets : Owner[w] \in todo => outcome[w] # "refused"
    /\ service = "switch" => \A w \in stale \ {watch} : outcome[w] # "refused"

\* Every step keeps it.
LEMMA VerifiedStep == KnownInv /\ VerifiedInv /\ [Next]_vars => VerifiedInv'
<1>. SUFFICES ASSUME KnownInv, VerifiedInv, [Next]_vars PROVE VerifiedInv'
  OBVIOUS
<1>1. ASSUME NEW s \in Services, NEW resolved \in Resolutions, NEW alarm, Call(s, resolved, alarm)
      PROVE  VerifiedInv'
  <2>1. stale' = {}
    BY <1>1 DEF Call, KnownInv, RestInv
  <2>. QED
    BY <1>1, <2>1, CallBegins DEF VerifiedInv
<1>2. CASE Return
  BY <1>2 DEF Return, VerifiedInv
<1>3. CASE UNCHANGED vars
  BY <1>3 DEF vars, call, place, history, VerifiedInv, Confirming
<1>4. CASE Confirming /\ pc \notin {"idle", "ended"} /\ ConfirmingStep
  <2>1. /\ outcome \in Outcomes /\ targets \subseteq Watches /\ acc \notin todo /\ todo \subseteq Accounts
        /\ \A w \in targets : Owner[w] \in Accounts
    BY ConstantsAssumption DEF KnownInv, CompleteInv, IInv, PlaceInv, DoomInv
  <2>2. /\ pc \in Requesting => watch \in targets /\ Owner[watch] = acc
        /\ left \subseteq {w \in targets : Owner[w] = acc}
        /\ pc \in Requesting => watch \notin left
    BY <1>4, <2>1 DEF KnownInv, TurnInv, Mine, Confirming, Requesting
  <2>3. ASSUME NEW a \in Accounts, NextAccount(a) PROVE VerifiedInv'
    <3>1. PICK skipped \in SUBSET {w \in targets : Owner[w] = a} :
            LET allowed == {w \in targets : Owner[w] = a} \ skipped
            IN  /\ acc' = IF allowed = {} THEN Nobody ELSE a
                /\ left' = IF For("watch") THEN allowed ELSE {}
                /\ stale' = IF For("id") THEN allowed ELSE {}
                /\ outcome' = [k \in DOMAIN outcome |-> IF k \in skipped THEN "skipped" ELSE outcome[k]]
                /\ pc' = IF allowed = {} THEN "accounts"
                         ELSE IF For("watch") THEN "watches"
                         ELSE IF For("account") THEN "asking" ELSE "writing"
      BY <2>3 DEF NextAccount, MaySkip
    <3>2. a \in todo /\ todo' = todo \ {a} /\ UNCHANGED <<service, targets, verified>>
      BY <2>3 DEF NextAccount, call, history
    <3>3. \A w \in targets : outcome'[w] = "refused" => outcome[w] = "refused"
      BY <2>1, <3>1 DEF Outcomes
    <3>4. service = "toggle" => pc' \in {"accounts", "watches"} /\ stale' = {}
      BY <3>1, ToggleBody
    <3>5. \A w \in verified : w \in targets /\ Owner[w] \notin todo
      BY <1>4 DEF VerifiedInv
    <3>6. /\ left' \subseteq {w \in targets : Owner[w] = a}
          /\ stale' \subseteq {w \in targets : Owner[w] = a}
          /\ acc' \in {Nobody, a} /\ pc' # "listing"
      BY <3>1
    <3>7. Nobody \notin Accounts
      BY ConstantsAssumption
    <3>8. \A w \in stale' : outcome[w] # "refused"
      BY <1>4, <3>2, <3>6 DEF VerifiedInv
    <3>9. ASSUME NEW w \in verified
          PROVE  /\ w \in targets' /\ Owner[w] \notin todo' /\ w \notin left'
                 /\ service = "switch" /\ pc' = "writing" => Owner[w] # acc'
                 /\ pc' = "writing" => service # "toggle" /\ w # watch'
      <4>1. pc' = "writing" => watch' \in {v \in targets : Owner[v] = a}
        BY <2>3, SwitchBody, ToggleBody, <1>4 DEF NextAccount, Confirming
      <4>. QED
        BY <2>1, <3>2, <3>4, <3>5, <3>6, <3>7, <4>1
    <3>. QED
      BY <1>4, <3>2, <3>3, <3>4, <3>6, <3>8, <3>9 DEF VerifiedInv, Confirming
  <2>4. ASSUME NEW w \in Watches, NextWatch(w) PROVE VerifiedInv'
    <3>1. /\ w \in left /\ left' = left \ {w} /\ watch' = w /\ stale' \subseteq {w}
          /\ UNCHANGED <<service, targets, todo, acc, outcome, verified>> /\ pc = "watches"
      BY <2>4 DEF NextWatch, call, history
    <3>2. service # "switch"
      BY <1>4, <3>1 DEF KnownInv, TurnInv
    <3>. QED
      BY <1>4, <3>1, <3>2 DEF VerifiedInv, Confirming
  <2>5. ASSUME NEW w \in Watches, ShortCircuit(w) PROVE VerifiedInv'
    <3>1. /\ w \in left /\ left' = left \ {w} /\ pc' = pc /\ pc = "watches"
          /\ UNCHANGED <<service, targets, todo, acc, verified, watch, stale>>
          /\ RecordOutcome(w, "errored")
      BY <2>5 DEF ShortCircuit, call, history
    <3>2. service # "switch"
      BY <1>4, <3>1 DEF KnownInv, TurnInv
    <3>3. \A v \in targets : outcome'[v] = "refused" => outcome[v] = "refused"
      BY <2>1, <3>1, RecordRaises
    <3>. QED
      BY <1>4, <3>1, <3>2, <3>3 DEF VerifiedInv, Confirming
  <2>6. CASE AccountDone
    <3>1. /\ UNCHANGED <<service, targets, todo, left, stale, verified, outcome>>
          /\ pc' = "accounts" /\ pc = "watches"
      BY <2>6 DEF AccountDone, call, history
    <3>2. stale = {}
      BY <1>4, <3>1 DEF KnownInv, TurnInv
    <3>. QED
      BY <1>4, <3>1, <3>2 DEF VerifiedInv, Confirming
  <2>7. ASSUME pc \in Requesting, UNCHANGED <<service, targets, todo, verified>>,
               \A w \in Watches : w # watch => outcome'[w] = outcome[w],
               \/ Leave(left) /\ stale' = {}
               \/ /\ stale' \subseteq stale /\ UNCHANGED <<acc, left, watch>>
                  /\ pc \in {"listing", "writing"} \/ pc' \notin {"listing", "writing"}
                  /\ service = "switch" /\ pc' = "writing" => pc = "writing"
        PROVE  VerifiedInv'
    <3>1. /\ left' \subseteq left /\ (stale' = {} \/ (stale' \subseteq stale /\ watch' = watch))
          /\ pc' \in {"listing", "writing"} => pc \in {"listing", "writing"} /\ watch' = watch
          /\ service = "switch" /\ pc' = "writing" => pc = "writing" /\ acc' = acc
      BY <2>7 DEF Leave
    <3>2. \A w \in targets : Owner[w] \in todo => outcome'[w] = outcome[w]
      BY <2>1, <2>2, <2>7
    <3>3. stale \subseteq Watches
      BY <1>4, <2>1 DEF KnownInv, TurnInv, Mine
    <3>. QED
      BY <1>4, <2>7, <3>1, <3>2, <3>3 DEF VerifiedInv, Confirming
  <2>8. CASE Listed
    <3>1. /\ pc = "listing" /\ UNCHANGED <<service, targets, todo, verified, stale, acc, left, watch>>
          /\ RecordOutcome(watch, "succeeded")
      BY <2>8 DEF Listed, GoTo, call, history
    <3>2. service # "switch"
      BY <1>4, <3>1 DEF KnownInv, TurnInv
    <3>. QED
      BY <2>1, <2>7, <3>1, <3>2, RecordRaises DEF Requesting
  <2>9. CASE Accepted \/ GivenUp
    <3>1. Does("refresh")
      BY <1>4, SwitchBody, ToggleBody DEF Confirming
    <3>2. /\ pc = "writing" /\ UNCHANGED <<service, targets, todo, verified, stale, acc, left, watch>>
          /\ RecordOutcome(watch, "succeeded") \/ RecordOutcome(watch, "refused")
      BY <2>9, <3>1 DEF Accepted, GivenUp, Answered, call, history
    <3>3. \A w \in Watches : w # watch => outcome'[w] = outcome[w]
      BY <2>1, <3>2, RecordRaises
    <3>. QED
      BY <2>7, <3>2, <3>3 DEF Requesting
  <2>10. CASE SentAgain
    BY <2>7, <2>10 DEF SentAgain, call, Requesting
  <2>11. CASE ErrorEnds
    BY <2>1, <2>7, <2>11, RecordRaises DEF ErrorEnds, call
  <2>12. ASSUME NEW w \in Watches, RefreshFails(w) PROVE VerifiedInv'
    BY <2>7, <2>12 DEF RefreshFails, RefreshedList, call, history, Requesting
  <2>13. ASSUME NEW w \in Watches, Refresh(w) PROVE VerifiedInv'
    <3>1. /\ pc = "refreshing" /\ w \in stale /\ verified' \subseteq verified \union {w}
          /\ UNCHANGED <<service, targets, todo>> /\ stale' = stale \ {w}
          /\ \A v \in Watches : v # watch => outcome'[v] = outcome[v]
          /\ IF stale' # {} THEN UNCHANGED <<acc, left, watch, pc>> ELSE Leave(left)
      BY <2>1, <2>13 DEF Refresh, Verifies, RefreshedList, call, Outcomes
    <3>2. /\ left' \subseteq left /\ pc' \notin {"listing", "writing"}
          /\ stale' = {} \/ (stale' \subseteq stale /\ watch' = watch)
      BY <3>1 DEF Leave
    <3>3. /\ w \in targets /\ Owner[w] = acc /\ Owner[w] \notin todo /\ stale \subseteq Watches
          /\ w \notin left
      BY <1>4, <2>1, <2>2, <3>1 DEF KnownInv, TurnInv, Mine, Confirming, Requesting
    <3>4. \A v \in targets : Owner[v] \in todo => outcome'[v] = outcome[v]
      BY <2>1, <2>2, <3>1 DEF Requesting
    <3>. QED
      BY <1>4, <3>1, <3>2, <3>3, <3>4 DEF VerifiedInv, Confirming
  <2>14. ASSUME NEW ending, Finish(ending) PROVE VerifiedInv'
    BY <1>4, <2>14 DEF Finish, call, history, VerifiedInv, Confirming
  <2>15. ASSUME NEW alarm, App(alarm) PROVE VerifiedInv'
    BY <1>4, <2>15 DEF App, call, place, VerifiedInv, Confirming
  <2>. QED
    BY <1>4, <2>3, <2>4, <2>5, <2>6, <2>8, <2>9, <2>10, <2>11, <2>12, <2>13, <2>14, <2>15
       DEF ConfirmingStep
<1>5. CASE ~Confirming /\ UNCHANGED service
  BY <1>5 DEF VerifiedInv, Confirming
<1>. QED
  BY <1>1, <1>2, <1>3, <1>4, <1>5, CallSteps

\* What a fetched list refuted stays refuted: nobody but the app writes the
\* alarms of its watch again.
RefusalInv ==
  Confirming /\ pc # "idle" =>
    \A w \in verified :
      outcome[w] = "refused" /\ Promised(w) \subseteq Has[w] \ touched => ~(Promised(w) \subseteq on)

\* A step that refuses no watch that has its list, and adds no alarm of one,
\* leaves what is refuted.
LEMMA RefusalKept ==
  ASSUME RefusalInv, Confirming, pc # "idle",
         UNCHANGED <<service, targets, picked, touched, verified>>,
         \A w \in verified : outcome'[w] = "refused" => outcome[w] = "refused",
         \A w \in verified : Promised(w) \subseteq Has[w] => Promised(w) \cap on' \subseteq on
  PROVE  RefusalInv'
<1>1. \A w : Promised(w)' = Promised(w)
  BY DEF Promised
<1>. QED
  BY <1>1 DEF RefusalInv, Confirming

\* A mutation writes no alarm of a watch whose list has been fetched.
LEMMA WritesElsewhere ==
  ASSUME KnownInv, VerifiedInv, Confirming, pc = "writing", Applied \/ UNCHANGED on,
         NEW w \in verified, Promised(w) \subseteq Has[w]
  PROVE  Promised(w) \cap on' \subseteq on
<1>1. CASE UNCHANGED on
  BY <1>1
<1>2. CASE Applied
  <2>1. /\ w \in Watches /\ watch \in Watches /\ w # watch
        /\ service = "switch" => Owner[w] # acc
    BY DEF VerifiedInv, Confirming, KnownInv, IInv, PlaceInv, TurnInv, Mine, Requesting
  <2>2. CASE service = "toggle"
    <3>1. Current \in Has[watch]
      BY <2>2, CurrentAlarm DEF KnownInv, TurnInv
    <3>2. Has[watch] \cap Has[w] = {}
      BY <2>1, ConstantsAssumption
    <3>. QED
      BY <1>2, <3>1, <3>2 DEF Applied
  <2>3. CASE service = "switch"
    <3>1. ASSUME NEW v \in Watches, Owner[v] = acc PROVE picked \notin Has[v]
      <4>1. v # w /\ picked \in Has[w]
        BY <2>1, <2>3, <3>1 DEF Promised
      <4>. QED
        BY <2>1, <4>1, ConstantsAssumption
    <3>2. Current \notin Own
      BY <2>3, <3>1, CurrentAlarm DEF Own
    <3>. QED
      BY <1>2, <3>2 DEF Applied
  <2>. QED
    BY <2>2, <2>3 DEF Confirming
<1>. QED
  BY <1>1, <1>2

\* The list of a watch that is refused is looked into.
LEMMA RefreshRefutes ==
  ASSUME KnownInv, VerifiedInv, RefusalInv, Confirming, NEW w \in Watches, Refresh(w)
  PROVE  RefusalInv'
<1>1. PICK seen \in Readings(w) :
        /\ outcome' = IF Confirms(w, seen) THEN [outcome EXCEPT ![watch] = Confirmed(watch)] ELSE outcome
        /\ verified' = IF seen = Has[w] THEN verified \union {w} ELSE verified
  BY DEF Refresh, Verifies
<1>0. pc = "refreshing" /\ w \in stale /\ UNCHANGED <<service, targets, picked, touched, on>>
  BY DEF Refresh, call
<1>2. \A v : Promised(v)' = Promised(v)
  BY <1>0 DEF Promised
<1>3. outcome \in Outcomes /\ verified \subseteq Watches
  BY <1>0 DEF KnownInv, CompleteInv, IInv, PlaceInv, VerifiedInv
<1>4. Confirmed(watch) \in {"skipped", "errored", "succeeded"}
  BY DEF Confirmed
<1>5. \A v \in Watches : outcome'[v] = "refused" => outcome[v] = "refused"
  BY <1>1, <1>3, <1>4 DEF Outcomes
<1>6. ASSUME outcome'[w] = "refused", Promised(w) \subseteq Has[w], seen = Has[w] PROVE ~(Promised(w) \subseteq on)
  <2>1. outcome[w] = "refused"
    BY <1>5, <1>6
  <2>2. w = watch
    BY <1>0, <2>1 DEF KnownInv, TurnInv, VerifiedInv, Confirming, Requesting
  <2>3. ~Confirms(w, seen)
    BY <1>1, <1>3, <1>4, <1>6, <2>2 DEF Outcomes
  <2>4. ~InState(seen)
    BY <2>2, <2>3, SwitchBody, ToggleBody DEF Confirms, Confirming
  <2>. QED
    BY <1>6, <2>4, SwitchBody, ToggleBody DEF InState, Promised, Confirming
<1>. QED
  BY <1>0, <1>1, <1>2, <1>3, <1>5, <1>6 DEF RefusalInv

\* Every step keeps it.
LEMMA RefusalStep == KnownInv /\ VerifiedInv /\ RefusalInv /\ [Next]_vars => RefusalInv'
<1>. SUFFICES ASSUME KnownInv, VerifiedInv, RefusalInv, [Next]_vars PROVE RefusalInv'
  OBVIOUS
<1>1. ASSUME NEW s \in Services, NEW resolved \in Resolutions, NEW alarm, Call(s, resolved, alarm)
      PROVE  RefusalInv'
  BY <1>1, CallBegins DEF RefusalInv
<1>2. CASE Return
  BY <1>2 DEF Return, RefusalInv
<1>3. CASE UNCHANGED vars
  BY <1>3 DEF vars, call, place, history, RefusalInv, Confirming, Promised
<1>4. CASE Confirming /\ pc \notin {"idle", "ended"} /\ ConfirmingStep
  <2>1. outcome \in Outcomes /\ verified \subseteq Watches
    BY <1>4 DEF KnownInv, CompleteInv, IInv, PlaceInv, VerifiedInv
  <2>2. ASSUME NEW a, NextAccount(a) PROVE RefusalInv'
    <3>1. UNCHANGED <<service, targets, picked, touched, verified, on>>
      BY <2>2 DEF NextAccount, call, history
    <3>2. \A w \in verified : outcome'[w] = "refused" => outcome[w] = "refused"
      BY <2>1, <2>2 DEF NextAccount, Outcomes
    <3>. QED
      BY <1>4, <3>1, <3>2, RefusalKept
  <2>3. ASSUME NEW w \in Watches,
               \/ NextWatch(w) \/ ShortCircuit(w) \/ RefreshFails(w)
        PROVE  RefusalInv'
    <3>1. /\ UNCHANGED <<service, targets, picked, touched, verified, on>>
          /\ outcome' = outcome \/ RecordOutcome(w, "errored")
      BY <2>3 DEF NextWatch, ShortCircuit, RefreshFails, call, history
    <3>2. \A v \in verified : outcome'[v] = "refused" => outcome[v] = "refused"
      BY <2>1, <3>1, RecordRaises
    <3>. QED
      BY <1>4, <3>1, <3>2, RefusalKept
  <2>4. CASE AccountDone \/ Listed \/ ErrorEnds
    <3>1. /\ UNCHANGED <<service, targets, picked, touched, verified, on>>
          /\ outcome' = outcome \/ \E kind \in {"succeeded", "errored"} : RecordOutcome(watch, kind)
      BY <2>4 DEF AccountDone, Listed, ErrorEnds, call, history
    <3>2. \A v \in verified : outcome'[v] = "refused" => outcome[v] = "refused"
      BY <2>1, <3>1, RecordRaises
    <3>. QED
      BY <1>4, <3>1, <3>2, RefusalKept
  <2>5. CASE Accepted \/ GivenUp \/ SentAgain
    <3>1. /\ pc = "writing" /\ UNCHANGED <<service, targets, picked, touched, verified>>
          /\ Applied \/ UNCHANGED on
          /\ outcome' = outcome \/ \E kind \in {"succeeded", "refused"} : RecordOutcome(watch, kind)
      BY <2>5 DEF Accepted, GivenUp, SentAgain, Answered, call, history
    <3>2. \A v \in verified : v # watch
      BY <1>4, <3>1 DEF VerifiedInv
    <3>3. \A v \in verified : outcome'[v] = "refused" => outcome[v] = "refused"
      BY <2>1, <3>1, <3>2, RecordRaises
    <3>. QED
      BY <1>4, <3>1, <3>3, WritesElsewhere, RefusalKept
  <2>6. ASSUME NEW w \in Watches, Refresh(w) PROVE RefusalInv'
    BY <1>4, <2>6, RefreshRefutes
  <2>7. ASSUME NEW ending, Finish(ending) PROVE RefusalInv'
    BY <1>4, <2>7, RefusalKept DEF Finish, call, history
  <2>8. ASSUME NEW alarm, App(alarm) PROVE RefusalInv'
    <3>1. /\ UNCHANGED <<service, targets, picked, outcome, verified>>
          /\ touched' = touched \union {alarm} /\ \A b : b # alarm => (b \in on' <=> b \in on)
      BY <2>8 DEF App, call
    <3>2. \A w : Promised(w)' = Promised(w)
      BY <3>1 DEF Promised
    <3>. QED
      BY <1>4, <3>1, <3>2 DEF RefusalInv, Confirming
  <2>. QED
    BY <1>4, <2>2, <2>3, <2>4, <2>5, <2>6, <2>7, <2>8 DEF ConfirmingStep
<1>5. CASE ~Confirming /\ UNCHANGED service
  BY <1>5 DEF RefusalInv, Confirming
<1>. QED
  BY <1>1, <1>2, <1>3, <1>4, <1>5, CallSteps

\* What the properties about confirmed calls rest on.
ConfirmInv == KnownInv /\ SuccessInv /\ VerifiedInv /\ RefusalInv

\* It holds of every behaviour.
LEMMA ConfirmInductive == Spec => []ConfirmInv
<1>1. Init => ConfirmInv
  <2>. SUFFICES ASSUME Init PROVE ConfirmInv
    OBVIOUS
  <2>1. IInv
    BY ConstantsAssumption DEF Init, IInv, PlaceInv, DoomInv, Requesting
  <2>2. service \in Services /\ outcome \in Outcomes
    BY DEF Init, Services, BodyOf, Outcomes
  <2>. QED
    BY <2>1, <2>2 DEF Init, ConfirmInv, KnownInv, CompleteInv, RestInv, TurnInv, SuccessInv,
                      VerifiedInv, RefusalInv
<1>2. ConfirmInv /\ [Next]_vars => ConfirmInv'
  BY DoomStep, CompleteStep, RestStep, TurnStep, SuccessStep, VerifiedStep, RefusalStep
     DEF ConfirmInv, KnownInv
<1>. QED
  BY <1>1, <1>2, PTL DEF Spec

\* For any accounts, watches, alarms and attempts, with any requests lost,
\* refused or sent twice: alarms that are reported as on are on, unless the app
\* has changed them, or a toggle of all was answered that there are none.
THEOREM SuccessTold == Spec => []SuccessIsReal
<1>1. ConfirmInv => SuccessIsReal
  <2>. SUFFICES ASSUME ConfirmInv, Surfaced, Confirming, NEW w \in targets,
                       outcome[w] = "succeeded", Promised(w) \cap touched = {},
                       service = "toggle" => w \notin nulled
                PROVE  Promised(w) \subseteq on
    BY DEF SuccessIsReal, Confirming
  <2>1. pc = "ended" /\ list = {}
    BY DEF Surfaced, ConfirmInv, KnownInv, RestInv
  <2>. QED
    BY <2>1 DEF Surfaced, ConfirmInv, SuccessInv
<1>. QED
  BY <1>1, ConfirmInductive, PTL

\* And a watch that is reported as refused, though its list was fetched and was
\* not null, has an alarm that is off.
THEOREM RefusalTold == Spec => []RefusalIsReal
<1>1. ConfirmInv => RefusalIsReal
  <2>. SUFFICES ASSUME ConfirmInv, Surfaced, Confirming, NEW w \in verified,
                       outcome[w] = "refused", Promised(w) \subseteq Has[w] \ touched
                PROVE  ~(Promised(w) \subseteq on)
    BY DEF RefusalIsReal, Confirming
  <2>1. pc = "ended"
    BY DEF Surfaced, ConfirmInv, KnownInv, RestInv
  <2>. QED
    BY <2>1 DEF ConfirmInv, RefusalInv
<1>. QED
  BY <1>1, ConfirmInductive, PTL
=============================================================================
