-------------------------- MODULE LiveFollow_proofs --------------------------
(***************************************************************************)
(* Live follow for any users, watches, ticks and durations: it uses the    *)
(* coalescer as that module specifies, its timer is armed exactly while a  *)
(* session runs, and a rate limit that a refresh meets ends all sessions.  *)
(*                                                                         *)
(* The stamp tells a rate limit from any other failure because a refresh   *)
(* reads it while the task it awaits is still running.                     *)
(***************************************************************************)
EXTENDS LiveFollow, TLAPS

\* What a refresh read is no later than the stamp, and earlier once the task
\* it awaits has met a rate limit, which is a failure.
StampOrder ==
  /\ \A f \in limited : fetch[f] = "failed"
  /\ \A c \in Callers : use[c] = "refreshing" =>
       /\ before[c] <= stamp
       /\ awaits[c] \in limited => before[c] < stamp

\* What is proved of the coalescer, for its use here.
Shared == INSTANCE UpdateCoalescer_proofs WITH Keys <- SUBSET Watches, PlainKeys <- {{}}

IInv == Shared!IInv /\ TypeOK /\ TimerServesSessions /\ StampOrder

-----------------------------------------------------------------------------
\* A step of live follow is a step of the coalescer or leaves it alone.
LEMMA StepSimulation == ASSUME [Next]_vars PROVE [Coalescer!Next]_updates
<1> USE DEF Callers
<1>1. ASSUME NEW c \in Callers, NEW ws \in SUBSET Watches, Update(c, ws) PROVE Coalescer!Next
  BY <1>1 DEF Update, Coalescer!Next
<1>2. ASSUME NEW c \in Users, Resolve(c) PROVE UNCHANGED updates
  BY <1>2 DEF Resolve
<1>3. ASSUME NEW c \in Users, Cancel(c) PROVE Coalescer!Next
  BY <1>3 DEF Cancel, Coalescer!Next
<1>4. ASSUME NEW c \in Users, NEW ws \in SUBSET Watches, StopFollow(c, ws) PROVE UNCHANGED updates
  BY <1>4 DEF StopFollow
<1>5. ASSUME NEW c \in Users, NEW ws \in SUBSET Watches, OtherUpdate(c, ws) PROVE Coalescer!Next
  BY <1>5, <1>1 DEF OtherUpdate
<1>6. ASSUME Start PROVE Coalescer!Next
  BY <1>6, <1>1 DEF Start, StartFollow, Refresh
<1>7. ASSUME NEW c \in Ticks, Tick(c) PROVE [Coalescer!Next]_updates
  <2> DEFINE left == {w \in Following : deadline[w] > 1}
  <2>1. CASE Refresh(c, left)
    <3>1. left \in SUBSET Watches
      BY DEF Following
    <3> HIDE DEF left
    <3> QED
      BY <2>1, <3>1, <1>1 DEF Refresh
  <2>2. CASE UNCHANGED updates
    BY <2>2
  <2> QED
    BY <1>7, <2>1, <2>2 DEF Tick
<1>8. ASSUME NEW c \in Callers, Return(c) PROVE Coalescer!Next
  BY <1>8 DEF Return, Coalescer!Next
<1>9. ASSUME NEW f \in Fetches, RateLimited(f) \/ Settle(f) PROVE Coalescer!Next
  BY <1>9 DEF RateLimited, Settle, Coalescer!Next, Coalescer!Settle
<1>10. ASSUME Teardown PROVE UNCHANGED updates
  BY <1>10 DEF Teardown
<1>11. ASSUME UNCHANGED vars PROVE UNCHANGED updates
  BY <1>11 DEF vars
<1> QED
  BY <1>2, <1>3, <1>4, <1>5, <1>6, <1>7, <1>8, <1>9, <1>10, <1>11 DEF Next

\* Live follow implements the coalescer: whatever holds of every use of the
\* coalescer holds here.
THEOREM Coalesces == Spec => UsesCoalescer
<1>1. Init => Coalescer!Init
  BY DEF Init
<1>2. [Next]_vars => [Coalescer!Next]_updates
  BY StepSimulation
<1> QED
  BY <1>1, <1>2, PTL DEF Spec, UsesCoalescer, Coalescer!Spec, updates, Coalescer!vars
-----------------------------------------------------------------------------
\* The invariant of the coalescer carries over.
LEMMA SharedStep == ASSUME Shared!IInv, [Next]_vars PROVE Shared!IInv'
<1>1. {{}} \subseteq SUBSET Watches /\ NoFetch \notin Fetches
  BY ConstantsAssumption
<1>2. Shared!IInv /\ [Shared!Next]_(Shared!vars) => Shared!IInv'
  BY <1>1, Shared!StepInv
<1> USE DEF Coalescer!Running, Shared!Running, Coalescer!Await, Shared!Await
<1>3. \A c \in Callers, k \in SUBSET Watches : Coalescer!Join(c, k) => Shared!Join(c, k)
  BY DEF Coalescer!Join, Shared!Join, Coalescer!InFlight, Shared!InFlight
<1>4. \A c \in Callers, k \in SUBSET Watches : Coalescer!Lead(c, k) => Shared!Lead(c, k)
  BY DEF Coalescer!Lead, Shared!Lead, Coalescer!InFlight, Shared!InFlight,
         Coalescer!Awaited, Shared!Awaited
<1>5. \A c \in Callers : Coalescer!Return(c) => Shared!Return(c)
  BY DEF Coalescer!Return, Shared!Return, Coalescer!Finished, Shared!Finished
<1>6. \A c \in Callers : Coalescer!Cancel(c) => Shared!Cancel(c)
  BY DEF Coalescer!Cancel, Shared!Cancel
<1>7. \A f \in Fetches : Coalescer!Settle(f) => Shared!Settle(f)
  BY DEF Coalescer!Settle, Shared!Settle, Coalescer!Cancelled, Shared!Cancelled,
         Coalescer!FetchFails, Shared!FetchFails, Coalescer!FetchStores, Shared!FetchStores,
         Coalescer!Notified, Shared!Notified, Coalescer!Advance, Shared!Advance
<1>8. Coalescer!Next => Shared!Next
  BY <1>3, <1>4, <1>5, <1>6, <1>7 DEF Coalescer!Next, Shared!Next
<1> QED
  BY <1>2, <1>8, StepSimulation DEF Shared!vars, updates

-----------------------------------------------------------------------------
\* The initial states have the invariant.
LEMMA InitInv == Init => IInv
<1> SUFFICES ASSUME Init PROVE IInv
  OBVIOUS
<1> USE ConstantsAssumption DEF Init
<1>1. {{}} \subseteq SUBSET Watches /\ NoFetch \notin Fetches
  OBVIOUS
<1>2. Shared!IInv
  <2>1. Shared!Init => Shared!IInv
    BY <1>1, Shared!InitInv
  <2> QED
    BY <2>1 DEF Coalescer!Init, Shared!Init
<1>3. Coalescer!TypeOK
  BY <1>2 DEF Shared!IInv, Shared!TypeOK, Coalescer!TypeOK, Shared!Running, Coalescer!Running,
              Shared!Finished, Coalescer!Finished
<1>4. TypeOK
  <2>1. deadline \in [Watches -> 1 .. Longest \union {NoSession}]
    BY DEF None
  <2>2. stamp \in 0 .. MaxStamps /\ before \in [Callers -> 0 .. MaxStamps]
    OBVIOUS
  <2> QED
    BY <1>3, <2>1, <2>2 DEF TypeOK
<1>5. TimerServesSessions
  BY DEF TimerServesSessions, None, Following
<1>6. StampOrder
  BY DEF StampOrder
<1> QED
  BY <1>2, <1>4, <1>5, <1>6 DEF IInv

-----------------------------------------------------------------------------
\* What an update of c does to the order of the stamps: the task c awaits is
\* still running, so nothing it read can be too old.
LEMMA UpdateOrder ==
  ASSUME IInv, NEW c \in Callers, NEW ws \in SUBSET Watches, Update(c, ws),
         NEW u \in {"refreshing", "updating"}, use' = [use EXCEPT ![c] = u],
         u = "refreshing" => before' = [before EXCEPT ![c] = stamp],
         u = "updating" => before' = before, stamp' = stamp
  PROVE  StampOrder' /\ limited' \subseteq limited
<1> USE DEF IInv, TypeOK, Coalescer!TypeOK, Coalescer!Running, Coalescer!Await
<1>1. limited' = {f \in limited : fetch'[f] # "fetching"}
  BY DEF Update
<1>2. PICK g \in Fetches :
        /\ awaits' = [awaits EXCEPT ![c] = g] /\ fetch'[g] \in Coalescer!Running
        /\ \A f \in Fetches : fetch'[f] = fetch[f] \/ fetch'[f] = "fetching"
  <2>1. CASE Coalescer!Join(c, ws)
    BY <2>1 DEF Coalescer!Join, Coalescer!InFlight
  <2>2. CASE Coalescer!Lead(c, ws)
    BY <2>2 DEF Coalescer!Lead
  <2> QED
    BY <2>1, <2>2 DEF Update
<1>3. \A f \in limited' : f \in limited /\ fetch'[f] = "failed"
  BY <1>1, <1>2 DEF StampOrder
<1>4. g \notin limited'
  BY <1>2, <1>3
<1>5. ASSUME NEW d \in Callers, use'[d] = "refreshing"
      PROVE  before'[d] <= stamp' /\ (awaits'[d] \in limited' => before'[d] < stamp')
  <2>1. CASE d = c
    BY <2>1, <1>2, <1>4, <1>5
  <2>2. CASE d # c
    BY <2>2, <1>2, <1>3, <1>5 DEF StampOrder
  <2> QED
    BY <2>1, <2>2
<1> QED
  BY <1>3, <1>5 DEF StampOrder

\* Every step keeps the order of the stamps.
LEMMA StampStep == ASSUME IInv, [Next]_vars PROVE StampOrder'
<1> USE DEF IInv, TypeOK, Coalescer!TypeOK, Callers
<1>1. ASSUME NEW c \in Users, Resolve(c) PROVE StampOrder'
  BY <1>1 DEF Resolve, updates, StampOrder
<1>2. ASSUME NEW c \in Users, Cancel(c) PROVE StampOrder'
  BY <1>2 DEF Cancel, Coalescer!Cancel, StampOrder
<1>3. ASSUME NEW c \in Users, NEW ws \in SUBSET Watches, StopFollow(c, ws) PROVE StampOrder'
  BY <1>3 DEF StopFollow, updates, StampOrder
<1>4. ASSUME NEW c \in Users, NEW ws \in SUBSET Watches, OtherUpdate(c, ws) PROVE StampOrder'
  BY <1>4, UpdateOrder DEF OtherUpdate
<1>5. ASSUME Start PROVE StampOrder'
  <2>1. PICK c \in Users, ws \in (SUBSET Watches) \ {{}} : Refresh(c, ws) /\ stamp' = stamp
    BY <1>5 DEF Start, StartFollow
  <2> QED
    BY <2>1, UpdateOrder DEF Refresh
<1>6. ASSUME NEW c \in Ticks, Tick(c) PROVE StampOrder'
  <2>1. CASE UNCHANGED <<updates, use, before, limited, stamp>>
    BY <2>1 DEF updates, StampOrder
  <2>2. ASSUME NEW ws \in SUBSET Watches, Refresh(c, ws), stamp' = stamp PROVE StampOrder'
    BY <2>2, UpdateOrder DEF Refresh
  <2>3. {w \in Following : deadline[w] > 1} \in SUBSET Watches
    BY DEF Following
  <2> QED
    BY <1>6, <2>1, <2>2, <2>3 DEF Tick
<1>7. ASSUME NEW c \in Callers, Return(c) PROVE StampOrder'
  <2>1. /\ use' = [use EXCEPT ![c] = "nothing"] /\ UNCHANGED <<fetch, stamp, before, limited>>
        /\ \A d \in Callers : d # c => awaits'[d] = awaits[d]
    BY <1>7 DEF Return, Coalescer!Return, Coalescer!Await
  <2> QED
    BY <2>1 DEF StampOrder
<1>8. ASSUME NEW f \in Fetches, RateLimited(f) PROVE StampOrder'
  <2>1. /\ fetch' = [fetch EXCEPT ![f] = "failed"] /\ stamp' = stamp + 1
        /\ limited' = limited \union {f} /\ UNCHANGED <<awaits, use, before>>
    BY <1>8 DEF RateLimited, Coalescer!FetchFails, Coalescer!Advance
  <2>2. \A d \in Callers : use[d] = "refreshing" => before[d] < stamp + 1
    BY DEF StampOrder
  <2> QED
    BY <2>1, <2>2 DEF StampOrder
<1>9. ASSUME NEW f \in Fetches, Settle(f) PROVE StampOrder'
  <2>1. /\ fetch[f] # "failed" /\ UNCHANGED <<awaits, use, before, stamp, limited>>
        /\ \A g \in Fetches : g # f => fetch'[g] = fetch[g]
    BY <1>9 DEF Settle, Coalescer!Settle, Coalescer!Cancelled, Coalescer!FetchFails,
                Coalescer!FetchStores, Coalescer!Notified, Coalescer!Advance
  <2> QED
    BY <2>1 DEF StampOrder
<1>10. ASSUME Teardown \/ UNCHANGED vars PROVE StampOrder'
  BY <1>10 DEF Teardown, vars, updates, StampOrder
<1> QED
  BY <1>1, <1>2, <1>3, <1>4, <1>5, <1>6, <1>7, <1>8, <1>9, <1>10 DEF Next

-----------------------------------------------------------------------------
\* Every step keeps the timer with the sessions.
LEMMA TimerStep == ASSUME IInv, [Next]_vars PROVE TimerServesSessions'
<1> USE ConstantsAssumption DEF IInv, TypeOK
<1> USE DEF TimerServesSessions, Following
<1>1. CASE UNCHANGED follow
  BY <1>1 DEF follow
<1>2. CASE deadline' = None /\ armed' = FALSE
  BY <1>2 DEF None
<1>3. ASSUME NEW c \in Users, NEW ws \in SUBSET Watches, StopFollow(c, ws)
      PROVE  TimerServesSessions'
  <2>1. /\ deadline' = [w \in Watches |-> IF w \in ws THEN NoSession ELSE deadline[w]]
        /\ armed' = (armed /\ deadline' # None)
    BY <1>3 DEF StopFollow
  <2>2. deadline' # None <=> Following' # {}
    BY <2>1 DEF None
  <2>3. Following' # {} => Following # {}
    BY <2>1
  <2> QED
    BY <2>1, <2>2, <2>3
<1>4. ASSUME Start PROVE TimerServesSessions'
  <2>1. PICK ws \in (SUBSET Watches) \ {{}}, n \in 1 .. Longest :
          /\ deadline' = [w \in Watches |-> IF w \in ws THEN n ELSE deadline[w]]
          /\ armed' = TRUE
    BY <1>4 DEF Start, StartFollow
  <2>2. PICK w \in ws : w \in Watches
    BY <2>1
  <2>3. deadline'[w] = n /\ n # NoSession
    BY <2>1, <2>2
  <2> QED
    BY <2>1, <2>2, <2>3
<1>5. ASSUME NEW c \in Ticks, Tick(c) PROVE TimerServesSessions'
  <2> DEFINE left == {w \in Following : deadline[w] > 1}
  <2>1. deadline' = [w \in Watches |-> IF w \in left THEN deadline[w] - 1 ELSE NoSession]
    BY <1>5 DEF Tick
  <2>2. CASE left # {} /\ UNCHANGED armed
    <3>1. PICK w \in left : w \in Watches
      BY <2>2
    <3>2. deadline[w] \in Nat /\ deadline'[w] = deadline[w] - 1 /\ deadline'[w] \in Nat
      BY <2>1, <3>1
    <3> QED
      BY <1>5, <2>2, <3>1, <3>2 DEF Tick
  <2>3. CASE left = {} /\ armed' = FALSE
    BY <2>1, <2>3
  <2> QED
    BY <1>5, <2>2, <2>3 DEF Tick
<1>6. ASSUME NEW c \in Callers, Return(c) PROVE TimerServesSessions'
  BY <1>1, <1>2, <1>6 DEF Return
<1> QED
  BY <1>1, <1>2, <1>3, <1>4, <1>5, <1>6
  DEF Next, vars, Resolve, Cancel, OtherUpdate, RateLimited, Settle, Teardown

-----------------------------------------------------------------------------
\* Every step keeps the types.
LEMMA TypeStep == ASSUME IInv, [Next]_vars PROVE TypeOK'
<1> USE ConstantsAssumption DEF Callers
<1>1. Coalescer!TypeOK'
  <2>1. Shared!IInv'
    BY SharedStep DEF IInv
  <2> QED
    BY <2>1 DEF Shared!IInv, Shared!TypeOK, Coalescer!TypeOK, Shared!Running, Coalescer!Running,
                Shared!Finished, Coalescer!Finished
<1>2. limited' \subseteq Fetches
  <2>1. \A c \in Callers, ws \in SUBSET Watches : Update(c, ws) => limited' \subseteq Fetches
    BY DEF Update, IInv, TypeOK
  <2>2. {w \in Following : deadline[w] > 1} \in SUBSET Watches
    BY DEF Following
  <2>3. UNCHANGED limited => limited' \subseteq Fetches
    BY DEF IInv, TypeOK
  <2>4. \A f \in Fetches : RateLimited(f) => limited' \subseteq Fetches
    BY DEF RateLimited, IInv, TypeOK
  <2> QED
    BY <2>1, <2>2, <2>3, <2>4
    DEF Next, vars, Resolve, Cancel, StopFollow, OtherUpdate, Start, StartFollow, Refresh, Tick,
        Return, Settle, Teardown
<1> USE DEF IInv, TypeOK
<1>3. (deadline \in [Watches -> 1 .. Longest \union {NoSession}] /\ armed \in BOOLEAN)'
  <2>1. CASE UNCHANGED follow
    BY <2>1 DEF follow
  <2>2. CASE deadline' = None /\ armed' = FALSE
    BY <2>2 DEF None
  <2>3. ASSUME NEW c \in Users, NEW ws \in SUBSET Watches, StopFollow(c, ws)
        PROVE  (deadline \in [Watches -> 1 .. Longest \union {NoSession}] /\ armed \in BOOLEAN)'
    BY <2>3 DEF StopFollow
  <2>4. ASSUME Start
        PROVE  (deadline \in [Watches -> 1 .. Longest \union {NoSession}] /\ armed \in BOOLEAN)'
    BY <2>4 DEF Start, StartFollow
  <2>5. ASSUME NEW c \in Ticks, Tick(c)
        PROVE  (deadline \in [Watches -> 1 .. Longest \union {NoSession}] /\ armed \in BOOLEAN)'
    <3>1. \A w \in Watches : deadline[w] # NoSession /\ deadline[w] > 1 => deadline[w] - 1 \in 1 .. Longest
      OBVIOUS
    <3>2. deadline' \in [Watches -> 1 .. Longest \union {NoSession}]
      BY <2>5, <3>1 DEF Tick, Following
    <3> QED
      BY <2>5, <3>2 DEF Tick
  <2>6. ASSUME NEW c \in Callers, Return(c) PROVE UNCHANGED follow \/ (deadline' = None /\ armed' = FALSE)
    BY <2>6 DEF Return
  <2> QED
    BY <2>1, <2>2, <2>3, <2>4, <2>5, <2>6
    DEF Next, vars, Resolve, Cancel, OtherUpdate, RateLimited, Settle, Teardown
<1>4. (loaded \in BOOLEAN /\ stamp \in 0 .. MaxStamps)'
  <2>1. UNCHANGED loaded \/ loaded' = FALSE
    BY DEF Next, vars, Resolve, Cancel, StopFollow, OtherUpdate, Start, StartFollow, Tick,
           Return, RateLimited, Settle, Teardown
  <2>2. UNCHANGED stamp \/ (stamp < MaxStamps /\ stamp' = stamp + 1)
    BY DEF Next, vars, Resolve, Cancel, StopFollow, OtherUpdate, Start, StartFollow, Tick,
           Return, RateLimited, Settle, Teardown
  <2>3. loaded' \in BOOLEAN
    BY <2>1
  <2>4. stamp' \in 0 .. MaxStamps
    BY <2>2, ConstantsAssumption
  <2> QED
    BY <2>3, <2>4
<1>5. (before \in [Callers -> 0 .. MaxStamps])'
  <2>1. UNCHANGED before \/ \E c \in Callers : before' = [before EXCEPT ![c] = stamp]
    BY DEF Next, vars, Resolve, Cancel, StopFollow, OtherUpdate, Start, StartFollow, Refresh, Tick,
           Return, RateLimited, Settle, Teardown
  <2> QED
    BY <2>1
<1>6. (use \in [Callers -> {"nothing", "resolved", "refreshing", "updating"}])'
  <2>1. \/ UNCHANGED use
        \/ \E c \in Callers, u \in {"nothing", "resolved", "refreshing", "updating"} :
             use' = [use EXCEPT ![c] = u]
    BY DEF Next, vars, Resolve, Cancel, StopFollow, OtherUpdate, Start, StartFollow, Refresh, Tick,
           Return, RateLimited, Settle, Teardown
  <2> QED
    BY <2>1
<1> QED
  BY <1>1, <1>2, <1>3, <1>4, <1>5, <1>6

-----------------------------------------------------------------------------
\* The inductive invariant holds of every behaviour.
THEOREM Inductive == Spec => []IInv
<1>1. IInv /\ [Next]_vars => IInv'
  <2> SUFFICES ASSUME IInv, [Next]_vars PROVE IInv'
    OBVIOUS
  <2>1. Shared!IInv'
    BY SharedStep DEF IInv
  <2> QED
    BY <2>1, TypeStep, TimerStep, StampStep DEF IInv
<1> QED
  BY <1>1, InitInv, PTL DEF Spec

\* _cancel_follow is set exactly while _follow_deadlines has an entry: no
\* start, stop, expiry, abort or teardown leaves an idle timer behind.
THEOREM TimerOwned == Spec => []TimerServesSessions
<1>1. IInv => TimerServesSessions
  BY DEF IInv
<1> QED
  BY <1>1, Inductive, PTL

\* Comparing the stamps finds every rate limit a refresh meets, though the
\* update hides it behind UpdateFailed (_follow_refresh).
THEOREM RateLimitsAbort == Spec => RateLimitAborts
<1>1. ASSUME IInv, [Next]_vars, NEW c \in Callers,
             use[c] = "refreshing", use'[c] = "nothing", awaits[c] \in limited
      PROVE  ~armed'
  <2> USE <1>1 DEF IInv, TypeOK, Callers
  <2>1. Return(c)
    BY ConstantsAssumption
    DEF Next, vars, Resolve, Cancel, StopFollow, OtherUpdate, Start, StartFollow, Refresh, Tick,
        Return, RateLimited, Settle, Teardown
  <2>2. fetch[awaits[c]] = "failed" /\ stamp # before[c]
    BY DEF StampOrder
  <2> QED
    BY <2>1, <2>2 DEF Return
<1>2. IInv /\ [Next]_vars =>
        [\A c \in Callers :
           use[c] = "refreshing" /\ use'[c] = "nothing" /\ awaits[c] \in limited => ~armed']_vars
  BY <1>1
<1> QED
  BY <1>2, Inductive, PTL DEF Spec, RateLimitAborts

\* The variables stay in their ranges: in particular a tick sweeps a session
\* whose deadline has passed (_follow_tick) before it counts any further.
THEOREM TypesKept == Spec => []TypeOK
<1>1. IInv => TypeOK
  BY DEF IInv
<1> QED
  BY <1>1, Inductive, PTL
=============================================================================
