-------------------------- MODULE NotificationFeed --------------------------
(***************************************************************************)
(* The notification feed of one account (coordinator.py:                   *)
(* _run_notifications_cycle, notifications.py: plan_events): cycles of the *)
(* poll, the button and the service that fetch a page, fire an event for   *)
(* each new entry and move a persisted high-water mark, across reloads     *)
(* (a new coordinator, while cycles of the old one run on) and restarts.   *)
(*                                                                         *)
(* An entry's id is its position in the backend's feed.  A category that   *)
(* is never enabled stands for the entries that no event is routed for.    *)
(* The events of a page are fired in one step, so their order is left out. *)
(***************************************************************************)
EXTENDS FeedEvents, FiniteSets

CONSTANTS
  Cycles,       \* cycles that may be in flight at once
  Kinds,        \* notification categories
  Limit,        \* NOTIFICATIONS_PAGE_LIMIT
  MaxReloads    \* bound on reloads and restarts

Ids  == 1 .. MaxEntries
Gens == 0 .. MaxReloads

\* HighWater: the newest second seen and the ids seen at that second.
Marks == [create : Ids, ids : SUBSET Ids]

ASSUME ConstantsAssumption ==
  /\ Limit \in Nat \ {0} /\ MaxEntries \in Nat /\ MaxReloads \in Nat
  /\ NoMark \notin Marks

VARIABLES
  enabled,  \* the categories that the options of the live coordinator enable
  disk,     \* the store's file
  pc, of, wants, page  \* each cycle: progress, coordinator, enabled, answer

cycles  == <<pc, of, wants, page>>
history == <<fired, before, silent, dropped, baselined>>
vars    == <<feed, gen, enabled, mark, disk, cycles, history, mishaps>>

Init ==
  /\ feed = <<>>
  /\ gen = 0 /\ enabled \in SUBSET Kinds
  /\ mark = [g \in Gens |-> NoMark] /\ disk = NoMark
  /\ pc = [c \in Cycles |-> "idle"]
  /\ of = [c \in Cycles |-> 0]
  /\ wants = [c \in Cycles |-> {}]
  /\ page = [c \in Cycles |-> {}]
  /\ fired = [e \in Ids |-> 0] /\ before = fired
  /\ silent = {} /\ dropped = {}
  /\ baselined = FALSE
  /\ mishaps = {}

\* The backend logs an entry, in the second of the last one or a later one.
Record(k) ==
  /\ Len(feed) < MaxEntries
  /\ LET last == IF feed = <<>> THEN 0 ELSE feed[Len(feed)].create
     IN  \E s \in {last, last + 1} \ {0} : feed' = Append(feed, [create |-> s, kind |-> k])
  /\ UNCHANGED <<gen, enabled, mark, disk, cycles, history, mishaps>>

-----------------------------------------------------------------------------
(* plan_events                                                             *)

Newest(es) == feed[CHOOSE e \in es : \A f \in es : f <= e].create
At(es, s)  == {e \in es : feed[e].create = s}

\* The ids seen at the boundary second are not kept.
Bug_NewMark(es, m) ==
  LET create == IF m # NoMark /\ m.create > Newest(es) THEN m.create ELSE Newest(es)
  IN  [create |-> create, ids |-> At(es, create)]

\* The first page with entries does not set the mark.
Bug_Baseline(es, m) ==
  IF m = NoMark THEN NoMark
  ELSE LET create == IF m.create > Newest(es) THEN m.create ELSE Newest(es)
       IN  [create |-> create, ids |-> At(es, create) \union (IF m.create = create THEN m.ids ELSE {})]

\* The mark after a page that is not empty.
NewMark(es, m) ==
  LET create == IF m # NoMark /\ m.create > Newest(es) THEN m.create ELSE Newest(es)
      kept   == IF m # NoMark /\ m.create = create THEN m.ids ELSE {}
  IN  [create |-> create, ids |-> At(es, create) \union kept]

\* An entry of the mark's second counts as seen.
Bug_NewEntries(es, m) == IF m = NoMark THEN {} ELSE {e \in es : feed[e].create > m.create}

\* Nothing is new when there is no mark.
NewEntries(es, m) == IF m = NoMark THEN {} ELSE {e \in es : ~Covers(m, e)}

-----------------------------------------------------------------------------
(* _run_notifications_cycle                                                *)

\* Every category off: the mark is dropped, then its file.
Drop(c) ==
  /\ pc[c] = "idle" /\ enabled = {} /\ mark[gen] # NoMark
  /\ mark' = [mark EXCEPT ![gen] = NoMark]
  /\ before' = fired /\ baselined' = FALSE
  /\ pc' = [pc EXCEPT ![c] = "removing"]
  /\ of' = [of EXCEPT ![c] = gen]
  /\ UNCHANGED <<feed, gen, enabled, disk, wants, page, fired, silent, dropped, mishaps>>

Fetch(c) ==
  /\ pc[c] = "idle" /\ enabled # {}
  /\ pc' = [pc EXCEPT ![c] = "asked"]
  /\ of' = [of EXCEPT ![c] = gen]
  /\ wants' = [wants EXCEPT ![c] = enabled]
  /\ UNCHANGED <<feed, gen, enabled, mark, disk, page, history, mishaps>>

\* The newest of n entries that fit on a page.
Page(n) == {e \in 1 .. n : e + Limit > n}

Answer(c) ==
  /\ pc[c] = "asked"
  /\ page' = [page EXCEPT ![c] = Page(Len(feed))]
  /\ pc' = [pc EXCEPT ![c] = "answered"]
  /\ UNCHANGED <<feed, gen, enabled, mark, disk, of, wants, history, mishaps>>

Quit(c) ==
  /\ pc' = [pc EXCEPT ![c] = "idle"]
  /\ of' = [of EXCEPT ![c] = 0]
  /\ wants' = [wants EXCEPT ![c] = {}]
  /\ page' = [page EXCEPT ![c] = {}]

\* The fetch fails, or the unload of the entry cancels the poll: the poll
\* swallows it, the button and the service report it.
FetchFails(c) ==
  /\ pc[c] \in {"asked", "answered"}
  /\ Quit(c)
  /\ UNCHANGED <<feed, gen, enabled, mark, disk, history, mishaps>>

\* The page is empty: plan_events keeps the mark, whatever it is.
NothingUsable(c) ==
  /\ pc[c] = "answered" /\ page[c] = {}
  /\ Quit(c)
  /\ UNCHANGED <<feed, gen, enabled, mark, disk, history, mishaps>>

\* What the page leaves without an event: the backlog of a baseline, the
\* categories that were off, and what a full page of new entries hides.
Pass(c, new) ==
  LET m      == mark[of[c]]
      oldest == CHOOSE e \in page[c] : \A f \in page[c] : e <= f
      newest == CHOOSE e \in page[c] : \A f \in page[c] : f <= e
      hidden == IF new = page[c] /\ Cardinality(new) = Limit THEN 1 .. oldest - 1 ELSE {}
      off    == {e \in new : feed[e].kind \notin wants[c]}
  IN  /\ silent' = IF m = NoMark THEN silent \union 1 .. newest ELSE silent
      /\ dropped' = dropped \union hidden \union off
      /\ baselined' = (baselined \/ m = NoMark)

Process(c) ==
  LET m   == mark[of[c]]
      new == NewEntries(page[c], m)
      say == {e \in new : feed[e].kind \in wants[c]}
  IN  /\ pc[c] = "answered" /\ page[c] # {}
      /\ fired' = [e \in Ids |-> fired[e] + IF e \in say THEN 1 ELSE 0]
      /\ Pass(c, new)
      /\ mark' = [mark EXCEPT ![of[c]] = NewMark(page[c], m)]
      /\ IF mark' = mark
           THEN Quit(c)
           ELSE /\ pc' = [pc EXCEPT ![c] = "saving"]
                /\ page' = [page EXCEPT ![c] = {}] /\ wants' = [wants EXCEPT ![c] = {}]
                /\ UNCHANGED of
      /\ UNCHANGED <<feed, gen, enabled, disk, before, mishaps>>

\* A save writes the data of the last async_save of its coordinator.
Save(c) ==
  /\ pc[c] \in {"saving", "removing"}
  /\ disk' = IF pc[c] = "saving" THEN mark[of[c]] ELSE NoMark
  /\ Quit(c)
  /\ UNCHANGED <<feed, gen, enabled, mark, history, mishaps>>

\* A failed write is logged by the store, a failed removal by the cycle.
SaveFails(c) ==
  /\ pc[c] \in {"saving", "removing"}
  /\ mishaps' = mishaps \union {"unsaved"}
  /\ Quit(c)
  /\ UNCHANGED <<feed, gen, enabled, mark, disk, history>>

-----------------------------------------------------------------------------
(* A new coordinator restores the mark from the file                       *)

Restore == gen < MaxReloads /\ gen' = gen + 1 /\ mark' = [mark EXCEPT ![gen + 1] = disk]

Busy == {c \in Cycles : pc[c] # "idle"}

\* The options change and the entry is reloaded; what the button or a service
\* started on the old coordinator goes on.
Reload(options) ==
  /\ Restore
  /\ enabled' = options
  /\ mishaps' = mishaps \union {t \in {"retired"} : Busy # {}}
  /\ UNCHANGED <<feed, disk, cycles, history>>

\* Home Assistant stops or crashes, whatever the cycles were doing.
Restart ==
  /\ Restore
  /\ pc' = [c \in Cycles |-> "idle"]
  /\ of' = [c \in Cycles |-> 0]
  /\ wants' = [c \in Cycles |-> {}]
  /\ page' = [c \in Cycles |-> {}]
  /\ mishaps' = mishaps \union {t \in {"unsaved"} : \E c \in Cycles : pc[c] \in {"saving", "removing"}}
  /\ UNCHANGED <<feed, enabled, disk, history>>

Next ==
  \/ \E k \in Kinds : Record(k)
  \/ \E options \in SUBSET Kinds : Reload(options)
  \/ Restart
  \/ \E c \in Cycles :
       \/ Drop(c) \/ Fetch(c) \/ Answer(c) \/ FetchFails(c)
       \/ NothingUsable(c) \/ Process(c) \/ Save(c) \/ SaveFails(c)

Spec == Init /\ [][Next]_vars

-----------------------------------------------------------------------------
(* Properties                                                              *)

MarkOrNone == Marks \union {NoMark}

\* The feed's variables stay in their ranges.
TypeOK ==
  /\ feed \in Seq([create : Ids, kind : Kinds]) /\ Len(feed) <= MaxEntries
  /\ gen \in Gens /\ enabled \subseteq Kinds
  /\ mark \in [Gens -> MarkOrNone] /\ disk \in MarkOrNone
  /\ pc \in [Cycles -> {"idle", "asked", "answered", "saving", "removing"}]
  /\ of \in [Cycles -> Gens]
  /\ wants \in [Cycles -> SUBSET Kinds]
  /\ page \in [Cycles -> SUBSET Ids]
  /\ fired \in [Ids -> Nat] /\ before \in [Ids -> Nat]
  /\ silent \subseteq Ids /\ dropped \subseteq Ids
  /\ baselined \in BOOLEAN
  /\ mishaps \subseteq {"unsaved", "retired"}
=============================================================================
