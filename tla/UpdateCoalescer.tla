--------------------------- MODULE UpdateCoalescer ---------------------------
(***************************************************************************)
(* The update coalescer of one coordinator (async_update_xplora_data and   *)
(* _fetch_and_store_xplora_data): concurrent updates with one signature    *)
(* share the task found in _inflight_updates.                              *)
(*                                                                         *)
(* The caller that creates a task leads it and, whatever the outcome, pops *)
(* the entry of its signature; the others join.  A finished task schedules *)
(* its awaiting callers in the order they began to await, so a joined      *)
(* caller resumes after the leader; any other caller may run in between.   *)
(***************************************************************************)
CONSTANTS
  Callers,    \* the poll, the services, buttons, websocket and live follow
  Keys,       \* request signatures: (sorted targets, force_functions)
  PlainKeys,  \* the signature (None, False): the plain periodic poll
  Fetches,    \* slots for tasks, reused when nobody awaits one
  NoFetch     \* _inflight_updates has no entry

ASSUME ConstantsAssumption ==
  /\ PlainKeys \subseteq Keys
  /\ NoFetch \notin Fetches

VARIABLES
  inflight,   \* _inflight_updates
  fetch,      \* each task's progress
  signature,  \* the signature each task was created for
  pc,         \* each caller's progress
  awaits,     \* the task each caller awaits
  overrun     \* a task was created before the leader of a finished one had run

vars == <<inflight, fetch, signature, pc, awaits, overrun>>

Running  == {"fetching", "notifying", "cancelling"}   \* not task.done()
Finished == {"stored", "failed", "cancelled"}

Init ==
  /\ inflight = [k \in Keys |-> NoFetch]
  /\ fetch = [f \in Fetches |-> "free"]
  /\ signature \in [Fetches -> PlainKeys]
  /\ pc = [c \in Callers |-> "idle"]
  /\ awaits = [c \in Callers |-> NoFetch]
  /\ overrun = "never"

Await(c, l, f) == pc' = [pc EXCEPT ![c] = l] /\ awaits' = [awaits EXCEPT ![c] = f]

-----------------------------------------------------------------------------
(* async_update_xplora_data                                                *)

InFlight(k) == inflight[k] # NoFetch /\ fetch[inflight[k]] \in Running

Join(c, k) ==
  /\ pc[c] = "idle" /\ InFlight(k)
  /\ Await(c, "joined", inflight[k])
  /\ UNCHANGED <<inflight, fetch, signature, overrun>>

Awaited(f) == \E c \in Callers : awaits[c] = f

\* The entry is registered only once the task has ended.
Bug_Lead(c, k) ==
  /\ pc[c] = "idle" /\ ~InFlight(k)
  /\ \E f \in Fetches :
       /\ fetch[f] \notin Running /\ ~Awaited(f)
       /\ fetch' = [fetch EXCEPT ![f] = "fetching"]
       /\ signature' = [signature EXCEPT ![f] = k]
       /\ Await(c, "leading", f)
  /\ UNCHANGED <<inflight, overrun>>

Lead(c, k) ==
  /\ pc[c] = "idle" /\ ~InFlight(k)
  /\ \E f \in Fetches :
       /\ fetch[f] \notin Running /\ ~Awaited(f)
       /\ fetch' = [fetch EXCEPT ![f] = "fetching"]
       /\ signature' = [signature EXCEPT ![f] = k]
       /\ inflight' = [inflight EXCEPT ![k] = f]
       /\ Await(c, "leading", f)
  /\ overrun' = IF inflight[k] = NoFetch THEN overrun ELSE "happened"

\* The clean-up is not in a finally.
Bug_Return(c) ==
  /\ pc[c] # "idle" /\ fetch[awaits[c]] \in Finished
  /\ inflight' = IF pc[c] = "leading" /\ fetch[awaits[c]] = "stored"
                   THEN [inflight EXCEPT ![signature[awaits[c]]] = NoFetch] ELSE inflight
  /\ Await(c, "idle", NoFetch)
  /\ UNCHANGED <<fetch, signature, overrun>>

\* The await returns or raises; the leader's finally pops the entry its
\* signature has by now, which need not be the task it created.
Return(c) ==
  /\ pc[c] # "idle" /\ fetch[awaits[c]] \in Finished
  /\ \/ /\ pc[c] = "leading"
        /\ inflight' = [inflight EXCEPT ![signature[awaits[c]]] = NoFetch]
     \/ /\ pc[c] = "joined"
        /\ \A d \in Callers : awaits[d] = awaits[c] => pc[d] # "leading"
        /\ UNCHANGED inflight
  /\ Await(c, "idle", NoFetch)
  /\ UNCHANGED <<fetch, signature, overrun>>

\* Cancelling a caller that awaits a running task cancels the task, for all.
Cancel(c) ==
  /\ pc[c] # "idle" /\ fetch[awaits[c]] \in {"fetching", "notifying"}
  /\ fetch' = [fetch EXCEPT ![awaits[c]] = "cancelling"]
  /\ UNCHANGED <<inflight, signature, pc, awaits, overrun>>

-----------------------------------------------------------------------------
(* _fetch_and_store_xplora_data                                            *)

Advance(f, from, to) ==
  /\ fetch[f] = from
  /\ fetch' = [fetch EXCEPT ![f] = to]
  /\ UNCHANGED <<inflight, signature, pc, awaits, overrun>>

Cancelled(f) == Advance(f, "cancelling", "cancelled")

\* A failed fetch goes into a retry of its own.
Bug_FetchFails(f) == Advance(f, "fetching", "retrying")

FetchFails(f) == Advance(f, "fetching", "failed")

\* Only the plain poll goes on to the notification feed.
FetchStores(f) ==
  Advance(f, "fetching", IF signature[f] \in PlainKeys THEN "notifying" ELSE "stored")

\* The cycle first updates the watches, and so awaits its own task.
Bug_Notified(f) == Advance(f, "notifying", "notifying")

\* A failure of the notification cycle is swallowed.
Notified(f) == Advance(f, "notifying", "stored")

Settle(f) == Cancelled(f) \/ FetchFails(f) \/ FetchStores(f) \/ Notified(f)

Next ==
  \/ \E c \in Callers : Return(c) \/ Cancel(c) \/ \E k \in Keys : Join(c, k) \/ Lead(c, k)
  \/ \E f \in Fetches : Settle(f)

\* The event loop runs what is ready; every request has a timeout.
Fairness == (\A c \in Callers : WF_vars(Return(c))) /\ (\A f \in Fetches : WF_vars(Settle(f)))

Spec == Init /\ [][Next]_vars
FairSpec == Spec /\ Fairness

-----------------------------------------------------------------------------
(* Properties                                                              *)

\* The coalescer's variables stay in their ranges.
TypeOK ==
  /\ inflight \in [Keys -> Fetches \union {NoFetch}]
  /\ fetch \in [Fetches -> {"free"} \union Running \union Finished]
  /\ signature \in [Fetches -> Keys]
  /\ pc \in [Callers -> {"idle", "leading", "joined"}]
  /\ awaits \in [Callers -> Fetches \union {NoFetch}]
  /\ overrun \in {"never", "happened"}

\* An entry of _inflight_updates has a caller that will still pop it: no
\* outcome of a fetch, and no cancellation, leaves a dead entry behind.
EntryIsOwned ==
  \A k \in Keys : inflight[k] # NoFetch =>
    \E c \in Callers : pc[c] = "leading" /\ awaits[c] = inflight[k] /\ signature[awaits[c]] = k

\* A running fetch is awaited by the caller that created it: it is never
\* left to write self.data with nobody to report its failure to.
RunningIsLed ==
  \A f \in Fetches : fetch[f] \in Running => \E c \in Callers : pc[c] = "leading" /\ awaits[c] = f

\* One running fetch per signature.  A leader that pops the entry of a newer
\* task breaks it.
OneFetchPerSignature ==
  \A f, g \in Fetches :
    fetch[f] \in Running /\ fetch[g] \in Running /\ signature[f] = signature[g] => f = g

\* What holds of it: two fetches run for a signature only after a caller got
\* in between the end of a fetch and the clean-up of its leader.
OneFetchUnlessOverrun == overrun = "never" => OneFetchPerSignature

\* Every update returns or raises.
UpdatesReturn == \A c \in Callers : pc[c] # "idle" ~> pc[c] = "idle"
=============================================================================
