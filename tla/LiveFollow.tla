----------------------------- MODULE LiveFollow -----------------------------
(***************************************************************************)
(* Live follow (coordinator.py: async_start_follow, async_stop_follow,     *)
(* _follow_tick, _follow_refresh, async_teardown) on top of the update     *)
(* coalescer: time-boxed sessions share one timer, whose ticks refresh the *)
(* watches that still follow.  An update hides a rate limit behind         *)
(* UpdateFailed, so a refresh detects it by a stamp, and then ends every   *)
(* session; polls and buttons update the same watches meanwhile.           *)
(*                                                                         *)
(* Deadlines count ticks.  The empty set of targets is the plain poll.     *)
(***************************************************************************)
EXTENDS Naturals

CONSTANTS
  Users,      \* services, buttons, the poll
  Ticks,      \* ticks whose refresh may be in flight at once
  Watches,
  Fetches, NoFetch,   \* as in UpdateCoalescer
  Longest,    \* the longest session, in ticks
  MaxStamps,  \* bound on the rate limits
  NoSession   \* no entry in _follow_deadlines

ASSUME ConstantsAssumption ==
  /\ Users \cap Ticks = {}
  /\ NoFetch \notin Fetches
  /\ Longest \in Nat \ {0} /\ MaxStamps \in Nat
  /\ NoSession \notin Nat

Callers == Users \union Ticks

VARIABLES
  inflight, fetch, signature, pc, awaits, overrun,  \* the coalescer
  deadline,   \* _follow_deadlines: ticks left of each session
  armed,      \* _cancel_follow is not None
  stamp,      \* _rate_limited_at
  use,        \* what each caller is doing
  before,     \* rate_limited_before of each refresh
  loaded,     \* async_teardown has not run
  limited     \* the tasks that ended with a rate limit

updates == <<inflight, fetch, signature, pc, awaits, overrun>>
follow  == <<deadline, armed>>
vars    == <<updates, follow, stamp, use, before, loaded, limited>>

Coalescer == INSTANCE UpdateCoalescer WITH Keys <- SUBSET Watches, PlainKeys <- {{}}

None == [w \in Watches |-> NoSession]

Init ==
  /\ Coalescer!Init
  /\ deadline = None /\ armed = FALSE
  /\ stamp = 0
  /\ use = [c \in Callers |-> "nothing"]
  /\ before = [c \in Callers |-> 0]
  /\ loaded = TRUE
  /\ limited = {}

\* async_update_xplora_data: c joins a fetch or leads one.
Update(c, targets) ==
  /\ Coalescer!Join(c, targets) \/ Coalescer!Lead(c, targets)
  /\ limited' = {f \in limited : fetch'[f] # "fetching"}

\* The update bypasses the requests that are in flight.
Bug_Refresh(c, targets) ==
  /\ use' = [use EXCEPT ![c] = "refreshing"]
  /\ before' = [before EXCEPT ![c] = stamp]
  /\ pc[c] = "idle"
  /\ \E f \in Fetches :
       /\ fetch[f] \notin Coalescer!Running /\ ~Coalescer!Awaited(f)
       /\ fetch' = [fetch EXCEPT ![f] = "fetching"]
       /\ signature' = [signature EXCEPT ![f] = targets]
       /\ Coalescer!Await(c, "leading", f)
       /\ limited' = limited \ {f}
  /\ UNCHANGED <<inflight, overrun>>

\* _follow_refresh, up to its await.
Refresh(c, targets) ==
  /\ use' = [use EXCEPT ![c] = "refreshing"]
  /\ before' = [before EXCEPT ![c] = stamp]
  /\ Update(c, targets)

-----------------------------------------------------------------------------
(* Sessions                                                                *)

\* A service call looks up the coordinator of each account before it serves
\* the first one, and reaches this one some time later.
Resolve(c) ==
  /\ use[c] = "nothing" /\ loaded
  /\ use' = [use EXCEPT ![c] = "resolved"]
  /\ UNCHANGED <<updates, follow, stamp, before, loaded, limited>>

StartFollow(c, ws, n) ==
  /\ use[c] = "resolved"
  /\ deadline' = [w \in Watches |-> IF w \in ws THEN n ELSE deadline[w]]
  /\ armed' = TRUE
  /\ Refresh(c, ws)
  /\ UNCHANGED <<stamp, loaded>>

\* The timer outlives the last session.
Bug_StopFollow(c, ws) ==
  /\ use[c] = "resolved"
  /\ use' = [use EXCEPT ![c] = "nothing"]
  /\ deadline' = [w \in Watches |-> IF w \in ws THEN NoSession ELSE deadline[w]]
  /\ UNCHANGED <<updates, armed, stamp, before, loaded, limited>>

StopFollow(c, ws) ==
  /\ use[c] = "resolved"
  /\ use' = [use EXCEPT ![c] = "nothing"]
  /\ deadline' = [w \in Watches |-> IF w \in ws THEN NoSession ELSE deadline[w]]
  /\ armed' = (armed /\ deadline' # None)
  /\ UNCHANGED <<updates, stamp, before, loaded, limited>>

Following == {w \in Watches : deadline[w] # NoSession}

\* A deadline that is just reached still counts.
Bug_TickLate(c) ==
  LET left == {w \in Following : deadline[w] > 0}
  IN  /\ armed /\ use[c] = "nothing"
      /\ deadline' = [w \in Watches |-> IF w \in left THEN deadline[w] - 1 ELSE NoSession]
      /\ \/ left # {} /\ Refresh(c, left) /\ UNCHANGED armed
         \/ left = {} /\ armed' = FALSE /\ UNCHANGED <<updates, use, before, limited>>
      /\ UNCHANGED <<stamp, loaded>>

\* Nothing is swept.
Bug_Tick(c) ==
  /\ armed /\ use[c] = "nothing"
  /\ Refresh(c, Following)
  /\ UNCHANGED <<deadline, armed, stamp, loaded>>

\* Thirty seconds later: what has expired is swept, the rest is refreshed.
Tick(c) ==
  LET left == {w \in Following : deadline[w] > 1}
  IN  /\ armed /\ use[c] = "nothing"
      /\ deadline' = [w \in Watches |-> IF w \in left THEN deadline[w] - 1 ELSE NoSession]
      /\ \/ left # {} /\ Refresh(c, left) /\ UNCHANGED armed
         \/ left = {} /\ armed' = FALSE /\ UNCHANGED <<updates, use, before, limited>>
      /\ UNCHANGED <<stamp, loaded>>

\* The update returns.  A refresh that failed while a rate limit was stamped
\* ends every session; a cancellation passes through.
Return(c) ==
  /\ Coalescer!Return(c)
  /\ IF use[c] = "refreshing" /\ fetch[awaits[c]] = "failed" /\ stamp # before[c]
       THEN deadline' = None /\ armed' = FALSE
       ELSE UNCHANGED follow
  /\ use' = [use EXCEPT ![c] = "nothing"]
  /\ UNCHANGED <<stamp, before, loaded, limited>>

\* The entry is unloaded; what is in flight goes on.
Teardown ==
  /\ loaded
  /\ loaded' = FALSE
  /\ deadline' = None /\ armed' = FALSE
  /\ UNCHANGED <<updates, stamp, use, before, limited>>

-----------------------------------------------------------------------------
(* The other updates                                                       *)

OtherUpdate(c, targets) ==
  /\ use[c] = "nothing"
  /\ use' = [use EXCEPT ![c] = "updating"]
  /\ Update(c, targets)
  /\ UNCHANGED <<follow, stamp, before, loaded>>

Cancel(c) ==
  /\ Coalescer!Cancel(c)
  /\ UNCHANGED <<follow, stamp, use, before, loaded, limited>>

\* The moment is not recorded.
Bug_RateLimited(f) ==
  /\ stamp < MaxStamps
  /\ Coalescer!FetchFails(f)
  /\ limited' = limited \union {f}
  /\ UNCHANGED <<follow, stamp, use, before, loaded>>

\* A 429: stamped, then raised as UpdateFailed like every other failure.
RateLimited(f) ==
  /\ stamp < MaxStamps
  /\ Coalescer!FetchFails(f)
  /\ stamp' = stamp + 1
  /\ limited' = limited \union {f}
  /\ UNCHANGED <<follow, use, before, loaded>>

Settle(f) ==
  /\ Coalescer!Settle(f)
  /\ UNCHANGED <<follow, stamp, use, before, loaded, limited>>

Start == \E c \in Users, ws \in (SUBSET Watches) \ {{}}, n \in 1 .. Longest : StartFollow(c, ws, n)

Next ==
  \/ \E c \in Users :
       \/ Resolve(c) \/ Cancel(c)
       \/ \E ws \in SUBSET Watches : StopFollow(c, ws) \/ OtherUpdate(c, ws)
  \/ Start
  \/ \E c \in Ticks : Tick(c)
  \/ \E c \in Callers : Return(c)
  \/ \E f \in Fetches : RateLimited(f) \/ Settle(f)
  \/ Teardown

Spec == Init /\ [][Next]_vars

\* The timer fires, the event loop runs what is ready, a request times out.
Fairness ==
  /\ \A c \in Callers : WF_vars(Return(c))
  /\ \A c \in Ticks : WF_vars(Tick(c))
  /\ \A f \in Fetches : WF_vars(Settle(f))

FairSpec == Spec /\ Fairness

-----------------------------------------------------------------------------
(* Properties                                                              *)

\* The variables stay in their ranges.
TypeOK ==
  /\ Coalescer!TypeOK
  /\ deadline \in [Watches -> 1 .. Longest \union {NoSession}]
  /\ armed \in BOOLEAN /\ loaded \in BOOLEAN
  /\ stamp \in 0 .. MaxStamps /\ before \in [Callers -> 0 .. MaxStamps]
  /\ use \in [Callers -> {"nothing", "resolved", "refreshing", "updating"}]
  /\ limited \subseteq Fetches

\* No timer fires without a session, and no session waits for a timer that is
\* gone, whatever starts, stops, expires or is aborted meanwhile.
TimerServesSessions == armed <=> Following # {}

\* A refresh that got a 429, its own or that of the fetch it joined, leaves no
\* session behind: "aborts EVERY running session immediately" (_follow_tick).
RateLimitAborts ==
  [][\A c \in Callers :
       use[c] = "refreshing" /\ use'[c] = "nothing" /\ awaits[c] \in limited => ~armed']_vars

\* The timer stops by itself unless somebody goes on starting sessions, even
\* on a coordinator that was torn down.
SessionsEnd == []<>(~armed) \/ []<><<Start>>_vars

\* Live follow uses the coalescer as its specification allows.
UsesCoalescer == Coalescer!Spec
=============================================================================
