------------------------ MODULE TokenRecovery_proofs ------------------------
(* Theorems about TokenRecovery, for every set of callers, of recovery      *)
(* slots and every number of tokens.                                       *)
EXTENDS TokenRecovery, TLAPS

-----------------------------------------------------------------------------
(* The inductive invariants.                                               *)

\* A waiting caller awaits a recovery task, at the generation it observed or,
\* once the task succeeded, at an older one; a task has one leader.
WaitersInv ==
  /\ \A c \in Callers : seen[c] <= generation
  /\ \A c \in Callers : Waiting(c) =>
       /\ awaits[c] \in Recoveries
       /\ rec[awaits[c]] \in Active \union {"ok", "failed"}
       /\ rec[awaits[c]] = "ok" => generation > seen[c]
  /\ \A c, d \in Callers :
       pc[c] = "leading" /\ pc[d] = "leading" /\ awaits[c] = awaits[d] => c = d

GateInv == WaitersInv /\ RetryFollowsRecovery /\ RecoveryIsLed

\* Until a failure, _token_recovery holds the task of the only leader.
FlightInv ==
  history = "clean" =>
    /\ \A c \in Callers : Waiting(c) => rec[awaits[c]] # "failed"
    /\ \A c \in Callers : pc[c] = "leading" => recovery = awaits[c]
    /\ recovery # NoRecovery => \E c \in Callers : pc[c] = "leading" /\ awaits[c] = recovery

\* A recovery obtained a token that was issued.
IssuedInv == \A r \in Recoveries : got[r] <= issued

\* Until a failure, the client's token and the blob being stored are no older
\* than what any recovery that stores or has stored obtained; the disk is not
\* either once the write is over, unless that write was lost.
StoreInv ==
  history = "clean" =>
    /\ controller = "built" /\ watchs = "known"
    /\ \A c \in Callers : pc[c] # "restoring"
    /\ \A r \in Recoveries :
         /\ rec[r] # "relisting"
         /\ rec[r] = "persisting" => saves[r] # 0
         /\ rec[r] \in {"ok", "persisting"} =>
              /\ token # 0 => token >= got[r]
              /\ pending # 0 => pending >= got[r]
         /\ rec[r] = "ok" /\ lastSave = "done" => disk >= got[r]
         /\ rec[r] = "persisting" /\ pending = 0 /\ lastSave = "done" => disk >= got[r]

-----------------------------------------------------------------------------
\* A new token is in range and the sets of tokens stay within the tokens issued.
LEMMA HandOutTypes ==
  ASSUME issued \in Tokens, live \in SUBSET (1 .. MaxToken), HandOut
  PROVE  /\ issued' \in Tokens
         /\ issued + 1 \in Tokens /\ issued + 1 \in 1 .. MaxToken
         /\ live' \in SUBSET (1 .. MaxToken)
<1> USE ConstantsAssumption DEF HandOut, Tokens
<1>1. issued + 1 \in 1 .. MaxToken
  OBVIOUS
<1>2. PICK kept \in {{}, live} : live' = kept \union {issued + 1}
  OBVIOUS
<1>3. kept \subseteq 1 .. MaxToken
  BY <1>2
<1>4. QED
  BY <1>1, <1>2, <1>3

\* Every variable keeps its type (_with_recovery and the recovery ladder).
THEOREM TypeCorrect == Spec => []TypeOK
<1> USE ConstantsAssumption DEF Tokens, Active, InFlight, Waiting
<1>1. Init => TypeOK
  BY DEF Init, TypeOK
<1>2. TypeOK /\ [Next]_vars => TypeOK'
  <2> SUFFICES ASSUME TypeOK, [Next]_vars PROVE TypeOK'
    OBVIOUS
  <2> USE DEF TypeOK, server, session, store, gate, tasks, calls
  <2>1. CASE Restart \/ Reload
    <3>1. CASE Issue
      BY <2>1, <3>1, HandOutTypes DEF Restart, Reload, SetUp, Issue, Grant
    <3>2. CASE UNCHANGED <<server, disk>> /\ token' = disk /\ lastSave' = "done"
      BY <2>1, <3>2 DEF Restart, Reload, SetUp
    <3>3. QED
      BY <2>1, <3>1, <3>2 DEF Restart, Reload, SetUp
  <2>11. CASE Straggle
    <3>1. CASE HandOut /\ UNCHANGED <<half, store>>
      BY <2>11, <3>1, HandOutTypes DEF Straggle
    <3>2. CASE disk' \in 1 .. issued /\ lastSave' = "lost" /\ UNCHANGED <<server, pending, persisted, reloaded>>
      BY <2>11, <3>2 DEF Straggle
    <3>3. QED
      BY <2>11, <3>1, <3>2 DEF Straggle
  <2>2. ASSUME NEW t \in 1 .. MaxToken, Expire(t) PROVE TypeOK'
    BY <2>2 DEF Expire
  <2> DEFINE Ran == /\ pc' \in [Callers -> {"idle", "restoring", "signing", "listing", "resigning",
                              "relisting", "saving", "request", "leading", "joined", "logout"}]
                    /\ used' \in [Callers -> Tokens]
                    /\ attempt' \in [Callers -> 1 .. 2]
                    /\ controller' \in {"built", "dropped"} /\ token' \in Tokens
                    /\ watchs' \in {"known", "unknown"}
                    /\ pending' \in Tokens /\ UNCHANGED <<disk, persisted, lastSave, reloaded>>
                    /\ history' \in {"clean", "troubled"}
  <2>3. ASSUME NEW c \in Callers, NEW n \in 1 .. 2, Run(c, n) PROVE Ran
    BY <2>3 DEF Run, RunOrphaned, RunDirect, RunRebuild, RunPoll, RunNameless, Drop, ClientInit, LogOff, LoggedIn,
                List, Persist, Send, Goto
  <2>4. ASSUME NEW c \in Callers, StartCall(c) PROVE TypeOK'
    BY <2>3, <2>4 DEF StartCall
  <2>41. ASSUME NEW c \in Callers, StartLogout(c) PROVE TypeOK'
    BY <2>41 DEF StartLogout
  <2>5. ASSUME NEW c \in Callers, Progress(c) PROVE TypeOK'
    <3>1. CASE Restored(c)
      BY <3>1 DEF Restored, TakenOver, ClientInit, LogOff, LoggedIn, List, Persist, Send, Goto
    <3>2. CASE SignedIn(c)
      <4>1. PICK l \in {"listing", "relisting"} :
              \/ Issue /\ LoggedIn(c, issued + 1, l)
              \/ UNCHANGED server /\ LoggedIn(c, token, l)
        BY <3>2 DEF SignedIn
      <4>2. CASE Issue /\ LoggedIn(c, issued + 1, l)
        BY <3>2, <4>2, HandOutTypes DEF SignedIn, Issue, Grant, LoggedIn, List, Persist, Send, Goto
      <4>3. CASE UNCHANGED server /\ LoggedIn(c, token, l)
        BY <3>2, <4>3 DEF SignedIn, LoggedIn, List, Persist, Send, Goto
      <4>4. QED
        BY <4>1, <4>2, <4>3
    <3>3. CASE InitFailed(c)
      BY <3>3 DEF InitFailed, Drop, Goto
    <3>31. CASE Listed(c)
      BY <3>31 DEF Listed, Persist, Send, Goto
    <3>32. CASE ListingRejected(c)
      BY <3>32 DEF ListingRejected, LogOff, Goto
    <3>33. CASE StrayInit(c)
      BY <3>33 DEF StrayInit, Persist, Send, Goto
    <3>34. CASE LoggedOut(c)
      BY <3>34 DEF LoggedOut, Goto
    <3>4. CASE Saved(c)
      BY <3>4 DEF Saved, SaveReturns, Flush, WriteFails, Send
    <3>5. CASE Answered(c)
      BY <3>5 DEF Answered, Goto
    <3>12. CASE RejectedAgain(c)
      BY <3>12 DEF RejectedAgain, Rejected, Goto
    <3>6. CASE StaleRejection(c)
      BY <2>3, <3>6 DEF StaleRejection
    <3>7. CASE JoinRecovery(c)
      BY <3>7 DEF JoinRecovery, Goto
    <3>8. ASSUME NEW r \in Recoveries, LeadRecovery(c, r) PROVE TypeOK'
      BY <3>8 DEF LeadRecovery, Goto
    <3>9. CASE Resume(c)
      BY <2>3, <3>9 DEF Resume, Release
    <3>10. CASE ShareFailure(c)
      BY <3>10 DEF ShareFailure, Release, Goto
    <3>11. QED
      BY <2>5, <3>1, <3>2, <3>3, <3>31, <3>32, <3>33, <3>34, <3>4, <3>5, <3>6, <3>7, <3>8, <3>9, <3>10, <3>12 DEF Progress
  <2>6. ASSUME NEW c \in Callers, CancelWaiting(c) PROVE TypeOK'
    BY <2>6 DEF CancelWaiting, Flush
  <2>7. ASSUME NEW c \in Callers, CancelCall(c) PROVE TypeOK'
    BY <2>7 DEF CancelCall, Flush, Release, Goto
  <2>8. ASSUME NEW r \in Recoveries, Recover(r) PROVE TypeOK'
    <3>1. CASE Refreshed(r) \/ ReloggedIn(r)
      <4>1. Rotate(r) /\ HandOut /\ half' \in {half, half \union {issued + 1}}
        BY <3>1 DEF Refreshed, ReloggedIn, Rotate, Grant
      <4>2. QED
        BY <4>1, HandOutTypes DEF Rotate, Grant
    <3>2. CASE RefreshRefused(r)
      BY <3>2 DEF RefreshRefused
    <3>5. CASE RefreshFailed(r)
      BY <3>5 DEF RefreshFailed
    <3>6. CASE ReloginFailed(r)
      BY <3>6 DEF ReloginFailed, Drop
    <3>21. CASE ReloginLists(r)
      BY <3>21, HandOutTypes DEF ReloginLists, Issue, Grant
    <3>22. CASE ReloginListed(r)
      BY <3>22 DEF ReloginListed, StoreCurrent
    <3>23. CASE StrayRecovery(r)
      <4>1. issued' \in Tokens /\ live' \in SUBSET (1 .. MaxToken)
        BY <3>23, HandOutTypes DEF StrayRecovery
      <4>2. pending' \in Tokens /\ saves' \in [Recoveries -> Tokens]
        BY <3>23 DEF StrayRecovery, StoreCurrent
      <4>3. QED
        BY <3>23, <4>1, <4>2 DEF StrayRecovery, StoreCurrent
    <3>3. CASE Persisted(r)
      BY <3>3 DEF Persisted, SaveReturns, Flush, WriteFails
    <3>4. QED
      BY <2>8, <3>1, <3>2, <3>21, <3>22, <3>23, <3>3, <3>5, <3>6 DEF Recover
  <2>9. CASE UNCHANGED vars
    BY <2>9 DEF vars
  <2>10. QED
    BY <2>1, <2>11, <2>2, <2>4, <2>41, <2>5, <2>6, <2>7, <2>8, <2>9 DEF Next
<1>3. QED
  BY <1>1, <1>2, PTL DEF Spec

-----------------------------------------------------------------------------
\* Where one run of coro_factory leaves its caller.
Ahead == {"idle", "restoring", "signing", "listing", "saving", "request"}

\* What one run of coro_factory may change, whatever branch it takes.
LEMMA RunFacts ==
  ASSUME TypeOK, NEW c \in Callers, NEW n \in 1 .. 2, Run(c, n)
  PROVE  /\ attempt' = [attempt EXCEPT ![c] = n]
         /\ \E l \in Ahead :
              /\ pc' = [pc EXCEPT ![c] = l]
              /\ l = "restoring" => controller = "dropped"
              /\ l = "listing" => watchs = "unknown"
         /\ UNCHANGED <<disk, lastSave>>
         /\ token' \in {0, token}
         /\ pending' = pending \/ (pending' = token /\ token # 0)
         /\ history' \in {history, "troubled"}
         /\ history' # "troubled" /\ controller = "built" => controller' = "built" /\ watchs' = watchs
<1> USE DEF TypeOK, Ahead, Send, Goto, session, store
<1>1. attempt' = [attempt EXCEPT ![c] = n]
  BY DEF Run
<1>2. CASE RunOrphaned(c) /\ UNCHANGED history
  BY <1>1, <1>2 DEF RunOrphaned
<1>3. CASE RunDirect(c) /\ UNCHANGED history
  BY <1>1, <1>3 DEF RunDirect
<1>4. CASE RunRebuild(c) /\ UNCHANGED history
  BY <1>1, <1>4 DEF RunRebuild
<1>7. CASE RunNameless(c)
  BY <1>1, <1>7 DEF RunNameless, Drop
<1>5. CASE RunPoll(c) /\ UNCHANGED history
  <2>1. CASE LogOff(c, "signing")
    BY <1>1, <1>5, <2>1 DEF RunPoll, LogOff
  <2>2. CASE token # 0 /\ LoggedIn(c, token, "listing") /\ watchs = "known"
    BY <1>1, <1>5, <2>2 DEF RunPoll, LoggedIn, Persist
  <2>3. CASE token # 0 /\ LoggedIn(c, token, "listing") /\ watchs # "known"
    BY <1>1, <1>5, <2>3 DEF RunPoll, LoggedIn, List
  <2>4. QED
    BY <1>5, <2>1, <2>2, <2>3 DEF RunPoll, ClientInit, Whole
<1>6. QED
  BY <1>2, <1>3, <1>4, <1>5, <1>7 DEF Run

\* GateInv is inductive relative to the types.
LEMMA GateInductive == Spec => []GateInv
<1> USE DEF Active, InFlight, Waiting, Ahead
<1>1. Init => GateInv
  BY DEF Init, GateInv, WaitersInv, RetryFollowsRecovery, RecoveryIsLed
<1>2. TypeOK /\ GateInv /\ [Next]_vars => GateInv'
  <2> SUFFICES ASSUME TypeOK, GateInv, [Next]_vars PROVE GateInv'
    OBVIOUS
  <2> USE DEF TypeOK, GateInv, WaitersInv, RetryFollowsRecovery, RecoveryIsLed,
              server, session, store, gate, tasks, calls
  <2>1. CASE Restart \/ Reload
    BY <2>1 DEF Restart, Reload, SetUp, Issue, Grant, HandOut
  <2>11. CASE Straggle
    BY <2>11 DEF Straggle, HandOut
  <2>2. ASSUME NEW t \in 1 .. MaxToken, Expire(t) PROVE GateInv'
    BY <2>2 DEF Expire
  <2>4. ASSUME NEW c \in Callers, StartCall(c) PROVE GateInv'
    <3>1. PICK l \in Ahead : pc' = [pc EXCEPT ![c] = l]
      BY <2>4, RunFacts DEF StartCall
    <3>2. attempt' = [attempt EXCEPT ![c] = 1]
      BY <2>4, RunFacts DEF StartCall
    <3>3. QED
      BY <2>4, <3>1, <3>2 DEF StartCall
  <2>41. ASSUME NEW c \in Callers, StartLogout(c) PROVE GateInv'
    BY <2>41 DEF StartLogout
  <2>5. ASSUME NEW c \in Callers, Progress(c) PROVE GateInv'
    <3>1. CASE Restored(c)
      BY <3>1 DEF Restored, TakenOver, ClientInit, LogOff, LoggedIn, List, Persist, Send, Goto
    <3>2. CASE SignedIn(c)
      BY <3>2 DEF SignedIn, LoggedIn, List, Persist, Send, Goto
    <3>3. CASE InitFailed(c)
      BY <3>3 DEF InitFailed, Drop, Goto
    <3>31. CASE Listed(c)
      BY <3>31 DEF Listed, Persist, Send, Goto
    <3>32. CASE ListingRejected(c)
      BY <3>32 DEF ListingRejected, LogOff, Goto
    <3>33. CASE StrayInit(c)
      BY <3>33 DEF StrayInit, Persist, Send, Goto
    <3>34. CASE LoggedOut(c)
      BY <3>34 DEF LoggedOut, Goto
    <3>4. CASE Saved(c)
      BY <3>4 DEF Saved, Send
    <3>5. CASE Answered(c)
      BY <3>5 DEF Answered, Goto
    <3>6. CASE RejectedAgain(c)
      BY <3>6 DEF RejectedAgain, Rejected, Goto
    <3>7. CASE StaleRejection(c)
      <4>1. PICK l \in Ahead : pc' = [pc EXCEPT ![c] = l]
        BY <3>7, RunFacts DEF StaleRejection
      <4>2. attempt' = [attempt EXCEPT ![c] = 2]
        BY <3>7, RunFacts DEF StaleRejection
      <4>3. generation > seen[c] /\ pc[c] \in {"request", "relisting"}
        BY <3>7 DEF StaleRejection, FirstRejection, Rejected
      <4>4. QED
        BY <3>7, <4>1, <4>2, <4>3 DEF StaleRejection
    <3>8. CASE JoinRecovery(c)
      BY <3>8 DEF JoinRecovery, FirstRejection, Rejected, Goto
    <3>9. ASSUME NEW r \in Recoveries, LeadRecovery(c, r) PROVE GateInv'
      BY <3>9 DEF LeadRecovery, FirstRejection, Rejected, Goto
    <3>10. CASE Resume(c)
      <4>1. PICK l \in Ahead : pc' = [pc EXCEPT ![c] = l]
        BY <3>10, RunFacts DEF Resume
      <4>2. attempt' = [attempt EXCEPT ![c] = 2]
        BY <3>10, RunFacts DEF Resume
      <4>3. QED
        BY <3>10, <4>1, <4>2 DEF Resume
    <3>11. CASE ShareFailure(c)
      BY <3>11 DEF ShareFailure, Goto
    <3>12. QED
      BY <2>5, <3>1, <3>2, <3>3, <3>31, <3>32, <3>33, <3>34, <3>4, <3>5, <3>6, <3>7, <3>8, <3>9, <3>10, <3>11 DEF Progress
  <2>6. ASSUME NEW c \in Callers, CancelWaiting(c) PROVE GateInv'
    BY <2>6 DEF CancelWaiting
  <2>7. ASSUME NEW c \in Callers, CancelCall(c) PROVE GateInv'
    BY <2>7 DEF CancelCall, Goto
  <2>8. ASSUME NEW r \in Recoveries, Recover(r) PROVE GateInv'
    <3>1. CASE Refreshed(r) \/ ReloggedIn(r)
      BY <3>1 DEF Refreshed, ReloggedIn, Rotate
    <3>2. CASE RefreshRefused(r)
      BY <3>2 DEF RefreshRefused
    <3>3. CASE RefreshFailed(r)
      BY <3>3 DEF RefreshFailed
    <3>4. CASE ReloginFailed(r)
      BY <3>4 DEF ReloginFailed, Drop
    <3>21. CASE ReloginLists(r)
      BY <3>21 DEF ReloginLists
    <3>22. CASE ReloginListed(r)
      BY <3>22 DEF ReloginListed, StoreCurrent
    <3>23. CASE StrayRecovery(r)
      BY <3>23 DEF StrayRecovery, StoreCurrent, HandOut
    <3>5. CASE Persisted(r)
      BY <3>5 DEF Persisted
    <3>6. QED
      BY <2>8, <3>1, <3>2, <3>21, <3>22, <3>23, <3>3, <3>4, <3>5 DEF Recover
  <2>9. CASE UNCHANGED vars
    BY <2>9 DEF vars
  <2>10. QED
    BY <2>1, <2>11, <2>2, <2>4, <2>41, <2>5, <2>6, <2>7, <2>8, <2>9 DEF Next
<1>3. QED
  BY <1>1, <1>2, TypeCorrect, PTL DEF Spec

\* A retry follows a completed recovery and an unfinished recovery is awaited
\* by its creator, for any number of callers and of recovery tasks
\* (_with_recovery, _recover_token).
THEOREM GateSafe == Spec => [](RetryFollowsRecovery /\ RecoveryIsLed)
<1>1. GateInv => RetryFollowsRecovery /\ RecoveryIsLed
  BY DEF GateInv
<1>2. QED
  BY <1>1, GateInductive, PTL

\* The half of it that is about retries: none is made with the token that was
\* rejected (_with_recovery).
THEOREM RetriesFollow == Spec => []RetryFollowsRecovery
  BY GateSafe, PTL

\* Until a recovery or a sign-in fails, rejected callers share one recovery
\* (the generation guard and the in-flight coalescer of _recover_token).
THEOREM SingleFlight == Spec => []SingleFlightUntilFailure
<1> USE DEF Active, InFlight, Waiting, Ahead
<1>1. Init => FlightInv
  BY DEF Init, FlightInv
<1>2. TypeOK /\ GateInv /\ FlightInv /\ [Next]_vars => FlightInv'
  <2> SUFFICES ASSUME TypeOK, GateInv, FlightInv, [Next]_vars PROVE FlightInv'
    OBVIOUS
  <2> USE DEF TypeOK, GateInv, WaitersInv, FlightInv, server, session, store, gate, tasks, calls
  <2>1. CASE Restart \/ Reload
    BY <2>1 DEF Restart, Reload, SetUp, Issue, Grant, HandOut
  <2>11. CASE Straggle
    BY <2>11 DEF Straggle, HandOut
  <2>2. ASSUME NEW t \in 1 .. MaxToken, Expire(t) PROVE FlightInv'
    BY <2>2 DEF Expire
  <2>3. ASSUME NEW c \in Callers, StartCall(c) PROVE FlightInv'
    <3>1. PICK l \in Ahead : pc' = [pc EXCEPT ![c] = l]
      BY <2>3, RunFacts DEF StartCall
    <3>2. history' \in {history, "troubled"}
      BY <2>3, RunFacts DEF StartCall
    <3>3. QED
      BY <2>3, <3>1, <3>2 DEF StartCall
  <2>41. ASSUME NEW c \in Callers, StartLogout(c) PROVE FlightInv'
    BY <2>41 DEF StartLogout
  <2>4. ASSUME NEW c \in Callers, Progress(c) PROVE FlightInv'
    <3>1. CASE Restored(c)
      BY <3>1 DEF Restored, TakenOver, ClientInit, LogOff, LoggedIn, List, Persist, Send, Goto
    <3>2. CASE SignedIn(c)
      BY <3>2 DEF SignedIn, LoggedIn, List, Persist, Send, Goto
    <3>3. CASE InitFailed(c)
      BY <3>3 DEF InitFailed, Drop, Goto
    <3>31. CASE Listed(c)
      BY <3>31 DEF Listed, Persist, Send, Goto
    <3>32. CASE ListingRejected(c)
      BY <3>32 DEF ListingRejected, LogOff, Goto
    <3>33. CASE StrayInit(c)
      BY <3>33 DEF StrayInit, Persist, Send, Goto
    <3>34. CASE LoggedOut(c)
      BY <3>34 DEF LoggedOut, Goto
    <3>4. CASE Saved(c)
      BY <3>4 DEF Saved, Send
    <3>5. CASE Answered(c)
      BY <3>5 DEF Answered, Goto
    <3>6. CASE RejectedAgain(c)
      BY <3>6 DEF RejectedAgain, Rejected, Goto
    <3>7. CASE StaleRejection(c)
      <4>1. PICK l \in Ahead : pc' = [pc EXCEPT ![c] = l]
        BY <3>7, RunFacts DEF StaleRejection
      <4>2. pc[c] \in {"request", "relisting"}
        BY <3>7 DEF StaleRejection, FirstRejection, Rejected
      <4>3. history' \in {history, "troubled"}
        BY <3>7, RunFacts DEF StaleRejection
      <4>4. QED
        BY <3>7, <4>1, <4>2, <4>3 DEF StaleRejection
    <3>8. CASE JoinRecovery(c)
      BY <3>8 DEF JoinRecovery, FirstRejection, Rejected, Goto
    <3>9. ASSUME NEW r \in Recoveries, LeadRecovery(c, r) PROVE FlightInv'
      <4>1. SUFFICES ASSUME history = "clean" PROVE FlightInv'
        BY <3>9 DEF LeadRecovery
      <4>2. ASSUME NEW d \in Callers, pc[d] = "leading" PROVE FALSE
        <5>1. rec[recovery] = "ok" /\ awaits[d] = recovery
          BY <3>9, <4>1, <4>2 DEF LeadRecovery
        <5>2. seen[d] < generation
          BY <5>1, <4>2
        <5>3. seen[c] <= seen[d] /\ seen[c] = generation
          BY <3>9, <4>2, <5>1 DEF LeadRecovery, FirstRejection, WakeUpsFirst
        <5>4. QED
          BY <5>2, <5>3
      <4>3. QED
        BY <3>9, <4>1, <4>2 DEF LeadRecovery, FirstRejection, Rejected, Goto
    <3>10. CASE Resume(c)
      <4>1. PICK l \in Ahead : pc' = [pc EXCEPT ![c] = l]
        BY <3>10, RunFacts DEF Resume
      <4>2. history' \in {history, "troubled"}
        BY <3>10, RunFacts DEF Resume
      <4>3. QED
        BY <3>10, <4>1, <4>2 DEF Resume, Release
    <3>11. CASE ShareFailure(c)
      BY <3>11 DEF ShareFailure, Release, Goto
    <3>12. QED
      BY <2>4, <3>1, <3>2, <3>3, <3>31, <3>32, <3>33, <3>34, <3>4, <3>5, <3>6, <3>7, <3>8, <3>9, <3>10, <3>11 DEF Progress
  <2>5. ASSUME NEW c \in Callers, CancelWaiting(c) PROVE FlightInv'
    BY <2>5 DEF CancelWaiting
  <2>6. ASSUME NEW c \in Callers, CancelCall(c) PROVE FlightInv'
    BY <2>6 DEF CancelCall, Release, Goto
  <2>7. ASSUME NEW r \in Recoveries, Recover(r) PROVE FlightInv'
    <3>1. CASE Refreshed(r) \/ ReloggedIn(r)
      BY <3>1 DEF Refreshed, ReloggedIn, Rotate
    <3>2. CASE RefreshRefused(r)
      BY <3>2 DEF RefreshRefused
    <3>3. CASE RefreshFailed(r) \/ ReloginFailed(r)
      BY <3>3 DEF RefreshFailed, ReloginFailed, Drop
    <3>21. CASE ReloginLists(r)
      BY <3>21 DEF ReloginLists
    <3>22. CASE ReloginListed(r)
      BY <3>22 DEF ReloginListed, StoreCurrent
    <3>23. CASE StrayRecovery(r)
      BY <3>23 DEF StrayRecovery, StoreCurrent, HandOut
    <3>4. CASE Persisted(r)
      BY <3>4 DEF Persisted
    <3>5. QED
      BY <2>7, <3>1, <3>2, <3>21, <3>22, <3>23, <3>3, <3>4 DEF Recover
  <2>8. CASE UNCHANGED vars
    BY <2>8 DEF vars
  <2>9. QED
    BY <2>1, <2>11, <2>2, <2>3, <2>4, <2>41, <2>5, <2>6, <2>7, <2>8 DEF Next
<1>3. GateInv /\ FlightInv => SingleFlightUntilFailure
  <2> SUFFICES ASSUME GateInv, FlightInv, history = "clean", NEW r \in InFlight
               PROVE  recovery = r
    BY DEF SingleFlightUntilFailure
  <2>1. PICK c \in Callers : pc[c] = "leading" /\ awaits[c] = r
    BY DEF GateInv, RecoveryIsLed
  <2>2. QED
    BY <2>1 DEF FlightInv
<1>4. QED
  BY <1>1, <1>2, <1>3, TypeCorrect, GateInductive, PTL DEF Spec

\* Until a recovery fails, a completed recovery's session is on disk unless the
\* last write of the file failed or a replaced coordinator wrote over it (the
\* order of _do_recover_token: persist, then bump the generation).
THEOREM DurableSession == Spec => []DurableBeforeResume
<1> USE DEF Tokens, Active, InFlight, Waiting, Ahead
<1> DEFINE Inv == IssuedInv /\ StoreInv
<1>1. Init => Inv
  BY DEF Init, IssuedInv, StoreInv
<1>2. TypeOK /\ Inv /\ [Next]_vars => Inv'
  <2> SUFFICES ASSUME TypeOK, Inv, [Next]_vars PROVE Inv'
    OBVIOUS
  <2> USE DEF TypeOK, IssuedInv, StoreInv, server, session, store, gate, tasks, calls
  <2>1. CASE Restart \/ Reload
    BY <2>1 DEF Restart, Reload, SetUp, Issue, Grant, HandOut
  <2>11. CASE Straggle
    BY <2>11 DEF Straggle, HandOut
  <2>2. ASSUME NEW t \in 1 .. MaxToken, Expire(t) PROVE Inv'
    BY <2>2 DEF Expire
  \* A run of coro_factory leaves the store as it is or stores the client's token.
  <2>3. ASSUME NEW c \in Callers, NEW n \in 1 .. 2, Run(c, n),
               UNCHANGED <<issued, rec, got, saves>>
        PROVE  Inv'
    <3>1. PICK l \in Ahead :
            pc' = [pc EXCEPT ![c] = l] /\ (l = "restoring" => controller = "dropped")
      BY <2>3, RunFacts
    <3>2. /\ UNCHANGED <<disk, lastSave>> /\ token' \in {0, token}
          /\ pending' = pending \/ (pending' = token /\ token # 0)
          /\ history' \in {history, "troubled"}
          /\ history' # "troubled" /\ controller = "built" => controller' = "built" /\ watchs' = watchs
      BY <2>3, RunFacts
    <3>3. QED
      BY <2>3, <3>1, <3>2
  <2>4. ASSUME NEW c \in Callers, StartCall(c) PROVE Inv'
    BY <2>3, <2>4 DEF StartCall
  <2>41. ASSUME NEW c \in Callers, StartLogout(c) PROVE Inv'
    BY <2>41 DEF StartLogout
  <2>5. ASSUME NEW c \in Callers, Progress(c) PROVE Inv'
    <3>1. CASE Restored(c)
      BY <3>1 DEF Restored, TakenOver, ClientInit, LogOff, LoggedIn, List, Persist, Send, Goto
    <3>2. CASE SignedIn(c)
      BY <3>2 DEF SignedIn, Issue, Grant, HandOut, LoggedIn, List, Persist, Send, Goto
    <3>3. CASE InitFailed(c)
      BY <3>3 DEF InitFailed, Drop, Goto
    <3>31. CASE Listed(c)
      BY <3>31 DEF Listed, Persist, Send, Goto
    <3>32. CASE ListingRejected(c)
      BY <3>32 DEF ListingRejected, LogOff, Goto
    <3>33. CASE StrayInit(c)
      BY <3>33 DEF StrayInit, Persist, Send, Goto
    <3>34. CASE LoggedOut(c)
      BY <3>34 DEF LoggedOut, Goto
    <3>4. CASE Saved(c)
      BY <3>4 DEF Saved, SaveReturns, Flush, WriteFails, Send
    <3>5. CASE Answered(c)
      BY <3>5 DEF Answered, Goto
    <3>6. CASE RejectedAgain(c)
      BY <3>6 DEF RejectedAgain, Rejected, Goto
    <3>7. CASE StaleRejection(c)
      BY <2>3, <3>7 DEF StaleRejection
    <3>8. CASE JoinRecovery(c)
      BY <3>8 DEF JoinRecovery, Goto
    <3>9. ASSUME NEW r \in Recoveries, LeadRecovery(c, r) PROVE Inv'
      BY <3>9 DEF LeadRecovery, Goto
    <3>10. CASE Resume(c)
      BY <2>3, <3>10 DEF Resume
    <3>11. CASE ShareFailure(c)
      BY <3>11 DEF ShareFailure, Goto
    <3>12. QED
      BY <2>5, <3>1, <3>2, <3>3, <3>31, <3>32, <3>33, <3>34, <3>4, <3>5, <3>6, <3>7, <3>8, <3>9, <3>10, <3>11 DEF Progress
  <2>6. ASSUME NEW c \in Callers, CancelWaiting(c) PROVE Inv'
    BY <2>6 DEF CancelWaiting, Flush
  <2>7. ASSUME NEW c \in Callers, CancelCall(c) PROVE Inv'
    BY <2>7 DEF CancelCall, Flush, Goto
  <2>8. ASSUME NEW r \in Recoveries, Recover(r) PROVE Inv'
    <3>1. CASE Refreshed(r) \/ ReloggedIn(r)
      BY <3>1 DEF Refreshed, ReloggedIn, Rotate, Grant, HandOut
    <3>2. CASE RefreshRefused(r)
      BY <3>2 DEF RefreshRefused
    <3>3. CASE RefreshFailed(r)
      BY <3>3 DEF RefreshFailed
    <3>4. CASE ReloginFailed(r)
      BY <3>4 DEF ReloginFailed, Drop
    <3>21. CASE ReloginLists(r)
      BY <3>21 DEF ReloginLists, Issue, Grant, HandOut
    <3>22. CASE ReloginListed(r)
      BY <3>22 DEF ReloginListed, StoreCurrent
    <3>23. CASE StrayRecovery(r)
      BY <3>23 DEF StrayRecovery, StoreCurrent, HandOut
    <3>5. CASE Persisted(r)
      BY <3>5 DEF Persisted, SaveReturns, Flush, WriteFails
    <3>6. QED
      BY <2>8, <3>1, <3>2, <3>21, <3>22, <3>23, <3>3, <3>4, <3>5 DEF Recover
  <2>9. CASE UNCHANGED vars
    BY <2>9 DEF vars
  <2>10. QED
    BY <2>1, <2>11, <2>2, <2>4, <2>41, <2>5, <2>6, <2>7, <2>8, <2>9 DEF Next
<1>3. Inv => DurableBeforeResume
  BY DEF StoreInv, DurableBeforeResume
<1>4. QED
  BY <1>1, <1>2, <1>3, TypeCorrect, PTL DEF Spec
=============================================================================
