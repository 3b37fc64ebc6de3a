----------------------- MODULE UpdateCoalescer_proofs -----------------------
(***************************************************************************)
(* The update coalescer for any number of callers, signatures and task     *)
(* slots: an entry always has a leader that will pop it, a running fetch   *)
(* always has its leader, and until a caller overruns a leader's clean-up  *)
(* there is one running fetch per signature.                               *)
(***************************************************************************)
EXTENDS UpdateCoalescer, TLAPS

\* A caller is suspended exactly when it awaits a task.
AwaitsTask == \A c \in Callers : pc[c] # "idle" => awaits[c] \in Fetches

\* A task has at most one leader.
OneLeader ==
  \A c, d \in Callers :
    pc[c] = "leading" /\ pc[d] = "leading" /\ awaits[c] = awaits[d] => c = d

\* Before an overrun the entry of a leader's signature is its own task.
OwnEntry ==
  overrun = "never" =>
    \A c \in Callers : pc[c] = "leading" => inflight[signature[awaits[c]]] = awaits[c]

IInv == TypeOK /\ AwaitsTask /\ OneLeader /\ EntryIsOwned /\ RunningIsLed /\ OwnEntry

-----------------------------------------------------------------------------
\* The initial states have the invariant.
LEMMA InitInv == Init => IInv
<1> SUFFICES ASSUME Init PROVE IInv
  OBVIOUS
<1> USE DEF Init
<1>1. TypeOK
  BY ConstantsAssumption DEF TypeOK
<1>2. AwaitsTask /\ OneLeader /\ EntryIsOwned /\ OwnEntry
  BY DEF AwaitsTask, OneLeader, EntryIsOwned, OwnEntry
<1>3. RunningIsLed
  BY DEF RunningIsLed, Running
<1> QED
  BY <1>1, <1>2, <1>3 DEF IInv

\* A caller that joins changes nothing but its own place.
LEMMA JoinInv ==
  ASSUME IInv, NEW c \in Callers, NEW k \in Keys, Join(c, k) PROVE IInv'
<1> USE DEF Join, Await
<1>1. inflight[k] \in Fetches
  BY DEF IInv, TypeOK, InFlight
<1>2. TypeOK'
  BY <1>1 DEF IInv, TypeOK
<1>3. AwaitsTask' /\ OneLeader'
  BY <1>1 DEF IInv, TypeOK, AwaitsTask, OneLeader
<1>4. EntryIsOwned' /\ RunningIsLed'
  BY DEF IInv, TypeOK, EntryIsOwned, RunningIsLed
<1>5. OwnEntry'
  BY DEF IInv, TypeOK, OwnEntry
<1> QED
  BY <1>2, <1>3, <1>4, <1>5 DEF IInv

\* A leader takes a task nobody awaits, so no other leader's task changes.
LEMMA LeadInv ==
  ASSUME IInv, NEW c \in Callers, NEW k \in Keys, Lead(c, k) PROVE IInv'
<1>1. PICK f \in Fetches :
        /\ fetch[f] \notin Running /\ ~Awaited(f)
        /\ fetch' = [fetch EXCEPT ![f] = "fetching"]
        /\ signature' = [signature EXCEPT ![f] = k]
        /\ inflight' = [inflight EXCEPT ![k] = f]
        /\ Await(c, "leading", f)
  BY DEF Lead
<1> USE DEF Await
<1>2. pc[c] = "idle" /\ \A d \in Callers : awaits[d] # f
  BY <1>1 DEF Lead, Awaited
<1>3. overrun' = IF inflight[k] = NoFetch THEN overrun ELSE "happened"
  BY DEF Lead
<1>4. TypeOK'
  BY <1>1, <1>3 DEF IInv, TypeOK, Running
<1>5. AwaitsTask' /\ OneLeader'
  BY <1>1, <1>2 DEF IInv, TypeOK, AwaitsTask, OneLeader
<1>6. EntryIsOwned'
  <2> SUFFICES ASSUME NEW j \in Keys, inflight'[j] # NoFetch
               PROVE  \E d \in Callers : /\ pc'[d] = "leading" /\ awaits'[d] = inflight'[j]
                                         /\ signature'[awaits'[d]] = j
    BY DEF EntryIsOwned
  <2>1. CASE j = k
    BY <1>1, <2>1 DEF IInv, TypeOK
  <2>2. CASE j # k
    <3>1. inflight'[j] = inflight[j]
      BY <1>1, <2>2 DEF IInv, TypeOK
    <3>2. PICK d \in Callers : pc[d] = "leading" /\ awaits[d] = inflight[j] /\ signature[awaits[d]] = j
      BY <3>1 DEF IInv, EntryIsOwned
    <3>3. d # c /\ awaits[d] # f /\ awaits[d] \in Fetches
      BY <1>2, <3>2 DEF IInv, AwaitsTask
    <3> QED
      BY <1>1, <3>1, <3>2, <3>3 DEF IInv, TypeOK
  <2> QED
    BY <2>1, <2>2
<1>7. RunningIsLed'
  <2> SUFFICES ASSUME NEW g \in Fetches, fetch'[g] \in Running
               PROVE  \E d \in Callers : pc'[d] = "leading" /\ awaits'[d] = g
    BY DEF RunningIsLed
  <2>1. CASE g = f
    BY <1>1, <2>1 DEF IInv, TypeOK
  <2>2. CASE g # f
    <3>1. fetch[g] \in Running
      BY <1>1, <2>2 DEF IInv, TypeOK
    <3>2. PICK d \in Callers : pc[d] = "leading" /\ awaits[d] = g
      BY <3>1 DEF IInv, RunningIsLed
    <3> QED
      BY <1>1, <1>2, <3>2 DEF IInv, TypeOK
  <2> QED
    BY <2>1, <2>2
<1>8. OwnEntry'
  <2> SUFFICES ASSUME overrun' = "never", NEW d \in Callers, pc'[d] = "leading"
               PROVE  inflight'[signature'[awaits'[d]]] = awaits'[d]
    BY DEF OwnEntry
  <2>1. inflight[k] = NoFetch /\ overrun = "never"
    BY <1>3
  <2>2. CASE d = c
    BY <1>1, <2>2 DEF IInv, TypeOK
  <2>3. CASE d # c
    <3>1. pc[d] = "leading" /\ awaits'[d] = awaits[d]
      BY <1>1, <2>3 DEF IInv, TypeOK
    <3>2. awaits[d] # f /\ awaits[d] \in Fetches /\ signature[awaits[d]] \in Keys
      BY <1>2, <3>1 DEF IInv, TypeOK, AwaitsTask
    <3>3. inflight[signature[awaits[d]]] = awaits[d]
      BY <2>1, <3>1 DEF IInv, OwnEntry
    <3>4. signature[awaits[d]] # k
      BY <2>1, <3>2, <3>3, ConstantsAssumption
    <3> QED
      BY <1>1, <3>1, <3>2, <3>3, <3>4 DEF IInv, TypeOK
  <2> QED
    BY <2>2, <2>3
<1> QED
  BY <1>4, <1>5, <1>6, <1>7, <1>8 DEF IInv

\* The returning leader is the only one of its task, which has finished.
LEMMA ReturnInv ==
  ASSUME IInv, NEW c \in Callers, Return(c) PROVE IInv'
<1> USE DEF Await
<1>1. /\ pc[c] # "idle" /\ fetch[awaits[c]] \in Finished
      /\ pc' = [pc EXCEPT ![c] = "idle"] /\ awaits' = [awaits EXCEPT ![c] = NoFetch]
      /\ UNCHANGED <<fetch, signature, overrun>>
  BY DEF Return
<1>2. awaits[c] \in Fetches /\ signature[awaits[c]] \in Keys
  BY <1>1 DEF IInv, TypeOK, AwaitsTask
<1>3. RunningIsLed'
  <2>1. \A f \in Fetches : fetch[f] \in Running => f # awaits[c]
    BY <1>1 DEF Running, Finished
  <2> QED
    BY <1>1, <2>1 DEF IInv, TypeOK, RunningIsLed
<1>4. AwaitsTask' /\ OneLeader'
  BY <1>1 DEF IInv, TypeOK, AwaitsTask, OneLeader
<1>5. CASE pc[c] = "leading" /\ inflight' = [inflight EXCEPT ![signature[awaits[c]]] = NoFetch]
  <2>1. TypeOK'
    BY <1>1, <1>5 DEF IInv, TypeOK
  <2>2. EntryIsOwned'
    <3> SUFFICES ASSUME NEW j \in Keys, inflight'[j] # NoFetch
                 PROVE  \E d \in Callers : /\ pc'[d] = "leading" /\ awaits'[d] = inflight'[j]
                                           /\ signature'[awaits'[d]] = j
      BY DEF EntryIsOwned
    <3>1. j # signature[awaits[c]] /\ inflight'[j] = inflight[j]
      BY <1>2, <1>5 DEF IInv, TypeOK
    <3>2. PICK d \in Callers : pc[d] = "leading" /\ awaits[d] = inflight[j] /\ signature[awaits[d]] = j
      BY <3>1 DEF IInv, EntryIsOwned
    <3> QED
      BY <1>1, <3>1, <3>2 DEF IInv, TypeOK
  <2>3. OwnEntry'
    <3> SUFFICES ASSUME overrun' = "never", NEW d \in Callers, pc'[d] = "leading"
                 PROVE  inflight'[signature'[awaits'[d]]] = awaits'[d]
      BY DEF OwnEntry
    <3>1. d # c /\ pc[d] = "leading" /\ awaits'[d] = awaits[d]
      BY <1>1 DEF IInv, TypeOK
    <3>2. /\ inflight[signature[awaits[d]]] = awaits[d]
          /\ inflight[signature[awaits[c]]] = awaits[c]
      BY <1>1, <1>5, <3>1 DEF IInv, OwnEntry
    <3>3. signature[awaits[d]] # signature[awaits[c]] /\ signature[awaits[d]] \in Keys
      BY <1>5, <3>1, <3>2 DEF IInv, TypeOK, OneLeader, AwaitsTask
    <3> QED
      BY <1>1, <1>5, <3>1, <3>2, <3>3 DEF IInv, TypeOK
  <2> QED
    BY <1>3, <1>4, <2>1, <2>2, <2>3 DEF IInv
<1>6. CASE pc[c] = "joined" /\ UNCHANGED inflight
  <2>1. TypeOK'
    BY <1>1, <1>6 DEF IInv, TypeOK
  <2>2. EntryIsOwned' /\ OwnEntry'
    BY <1>1, <1>6 DEF IInv, TypeOK, EntryIsOwned, OwnEntry
  <2> QED
    BY <1>3, <1>4, <2>1, <2>2 DEF IInv
<1> QED
  BY <1>5, <1>6 DEF Return

\* A cancellation, and every step of a task, moves one task that runs.
LEMMA TaskInv ==
  ASSUME IInv, NEW f \in Fetches, fetch[f] \in Running,
         NEW s \in Running \union Finished, fetch' = [fetch EXCEPT ![f] = s],
         UNCHANGED <<inflight, signature, pc, awaits, overrun>>
  PROVE  IInv'
<1>1. TypeOK'
  BY DEF IInv, TypeOK
<1>2. RunningIsLed'
  BY DEF IInv, TypeOK, RunningIsLed
<1>3. AwaitsTask' /\ OneLeader' /\ EntryIsOwned' /\ OwnEntry'
  BY DEF IInv, AwaitsTask, OneLeader, EntryIsOwned, OwnEntry
<1> QED
  BY <1>1, <1>2, <1>3 DEF IInv

\* Every step keeps it.
LEMMA StepInv == IInv /\ [Next]_vars => IInv'
<1> SUFFICES ASSUME IInv, [Next]_vars PROVE IInv'
  OBVIOUS
<1>1. ASSUME NEW c \in Callers, Return(c) PROVE IInv'
  BY <1>1, ReturnInv
<1>2. ASSUME NEW c \in Callers, Cancel(c) PROVE IInv'
  <2>1. awaits[c] \in Fetches /\ fetch[awaits[c]] \in Running
    BY <1>2 DEF IInv, AwaitsTask, Cancel, Running
  <2>2. "cancelling" \in Running \union Finished
    BY DEF Running
  <2> QED
    BY <1>2, <2>1, <2>2, TaskInv DEF Cancel
<1>3. ASSUME NEW c \in Callers, NEW k \in Keys, Join(c, k) PROVE IInv'
  BY <1>3, JoinInv
<1>4. ASSUME NEW c \in Callers, NEW k \in Keys, Lead(c, k) PROVE IInv'
  BY <1>4, LeadInv
<1>5. ASSUME NEW f \in Fetches, Settle(f) PROVE IInv'
  <2>1. PICK from \in Running, to \in Running \union Finished : Advance(f, from, to)
    BY <1>5 DEF Settle, Cancelled, FetchFails, FetchStores, Notified, Running, Finished
  <2> QED
    BY <2>1, TaskInv DEF Advance
<1>6. CASE UNCHANGED vars
  <2>1. TypeOK' /\ AwaitsTask' /\ OneLeader'
    BY <1>6 DEF IInv, vars, TypeOK, AwaitsTask, OneLeader
  <2>2. EntryIsOwned' /\ RunningIsLed' /\ OwnEntry'
    BY <1>6 DEF IInv, vars, EntryIsOwned, RunningIsLed, OwnEntry
  <2> QED
    BY <2>1, <2>2 DEF IInv
<1> QED
  BY <1>1, <1>2, <1>3, <1>4, <1>5, <1>6 DEF Next

\* The inductive invariant holds of every behaviour.
THEOREM Inductive == Spec => []IInv
  BY InitInv, StepInv, PTL DEF Spec

\* _inflight_updates never keeps a dead entry, and a fetch never runs without
\* the update that created it (async_update_xplora_data's try/finally).
THEOREM EntriesOwned == Spec => [](EntryIsOwned /\ RunningIsLed)
<1>1. IInv => EntryIsOwned /\ RunningIsLed
  BY DEF IInv
<1> QED
  BY <1>1, Inductive, PTL

\* Two fetches of one signature run only after an overrun.
THEOREM Coalesced == Spec => []OneFetchUnlessOverrun
<1>1. IInv => OneFetchUnlessOverrun
  <2> SUFFICES ASSUME IInv, overrun = "never", NEW f \in Fetches, NEW g \in Fetches,
                      fetch[f] \in Running, fetch[g] \in Running, signature[f] = signature[g]
               PROVE  f = g
    BY DEF OneFetchUnlessOverrun, OneFetchPerSignature
  <2>1. PICK c \in Callers : pc[c] = "leading" /\ awaits[c] = f
    BY DEF IInv, RunningIsLed
  <2>2. PICK d \in Callers : pc[d] = "leading" /\ awaits[d] = g
    BY DEF IInv, RunningIsLed
  <2> QED
    BY <2>1, <2>2 DEF IInv, OwnEntry
<1> QED
  BY <1>1, Inductive, PTL

\* The variables stay in their ranges: in particular a fetch that fails is over
\* (the recovery inside it has had its retry), it never runs again by itself.
THEOREM TypesKept == Spec => []TypeOK
<1>1. IInv => TypeOK
  BY DEF IInv
<1> QED
  BY <1>1, Inductive, PTL
=============================================================================
