------------------------- MODULE Coordinator_proofs -------------------------
(***************************************************************************)
(* Proofs about what a coordinator keeps.  For any retention, days, points *)
(* and callers: the archive of a watch survives a restart, its buckets     *)
(* hold their own day, and points of a day that is still served stay.  For *)
(* any cycles, categories and page limit: an entry of the feed fires once, *)
(* is accounted for when the mark passes it, and is passed in silence by   *)
(* one baseline only.  For any watches, editors and readers: an update     *)
(* that nothing overlaps is exact, and what read_message fetched is shown. *)
(***************************************************************************)
EXTENDS LocationHistory, FeedEvents, SharedEntries, FiniteSetTheorems, TLAPS

(* The feed and the data come as instances, whose assumption is a          *)
(* hypothesis of their theorems.                                           *)
CONSTANTS
  Cycles, Kinds, Limit, MaxReloads,
  Targets, Editors, Ids, Intervals, MaxUpdates, MaxFaults

VARIABLES
  enabled, markFile, step, of, wants, page,
  interval, messages, device, clock, editor, updates, faults

Feed == INSTANCE NotificationFeed WITH disk <- markFile, pc <- step
Data == INSTANCE CoordinatorData

-----------------------------------------------------------------------------
(* LocationHistory                                                         *)

\* Every bucket of a table holds the day it is filed under.
OwnBuckets(table) == \A d \in Days : table[d] # NoBucket => table[d].of = d

\* Unless midnight passed under a request of today, what a caller asked for
\* and was given is the day it will store.
OwnRequests ==
  \A c \in Callers :
    /\ pc[c] = "asked" => day[c] = IF date[c] = Today THEN today ELSE date[c]
    /\ pc[c] = "answered" => reply[c].of = day[c]

OwnDays ==
  "crossed" \notin trouble =>
    (\A b \in Builds : OwnBuckets(memory[b])) /\ OwnBuckets(disk) /\ OwnRequests

\* Without a lapse every caller runs on the present coordinator, and the file
\* is its archive unless one of them is about to write.
FileInv ==
  lapse = "none" =>
    /\ \A c \in Callers : ~Straggles(c)
    /\ (\A c \in Callers : pc[c] # "saving") => disk = Archive

IInv == TypeOK /\ OwnDays /\ FileInv

-----------------------------------------------------------------------------
\* The initial states have the invariant.
LEMMA InitInv == Init => IInv
<1> SUFFICES ASSUME Init PROVE IInv
  OBVIOUS
<1>1. TypeOK
  BY ConstantsAssumption DEF Init, TypeOK, Days, Buckets, Builds, NoDays
<1>2. OwnDays /\ FileInv
  BY ConstantsAssumption DEF Init, OwnDays, OwnBuckets, OwnRequests, FileInv, Straggles, Archive, Builds, NoDays
<1> QED
  BY <1>1, <1>2 DEF IInv

\* Asking: the day is today's exactly when the date is left out.
LEMMA AskInv ==
  ASSUME IInv, NEW c \in Callers, NEW d \in Days, NEW b \in Builds, Ask(c, d, b),
         pc[c] = "idle", archived' \subseteq Days
  PROVE  IInv'
<1> USE DEF Ask
<1>1. trouble' \subseteq {"crossed", "overlap"} /\ trouble \subseteq trouble'
  BY DEF IInv, TypeOK
<1>2. TypeOK'
  BY <1>1 DEF IInv, TypeOK, server, tables
<1>3. OwnDays'
  BY ConstantsAssumption DEF IInv, TypeOK, OwnDays, OwnBuckets, OwnRequests, server, tables
<1>4. FileInv'
  <2> SUFFICES ASSUME lapse' = "none"
               PROVE  /\ \A a \in Callers : ~Straggles(a)'
                      /\ (\A a \in Callers : pc'[a] # "saving") => disk' = Archive'
    BY DEF FileInv
  <2>1. b = built /\ lapse = "none" /\ UNCHANGED <<built, memory, disk>>
    BY DEF tables
  <2>2. \A a \in Callers : ~Straggles(a)'
    BY <2>1 DEF IInv, TypeOK, FileInv, Straggles
  <2>3. \A a \in Callers : pc'[a] # "saving" => pc[a] # "saving"
    BY DEF IInv, TypeOK
  <2> QED
    BY <2>1, <2>2, <2>3 DEF IInv, FileInv, Archive
<1> QED
  BY <1>2, <1>3, <1>4 DEF IInv

\* The backend answers for the day it was asked for.
LEMMA AnswerInv == ASSUME IInv, NEW c \in Callers, Answer(c) PROVE IInv'
<1> DEFINE d == IF date[c] = Today THEN today ELSE date[c]
           n == IF d + Served > today THEN track[d] ELSE 0
<1>1. /\ pc[c] = "asked"
      /\ reply' = [reply EXCEPT ![c] = Bucket(d, n)]
      /\ pc' = [pc EXCEPT ![c] = "answered"]
      /\ UNCHANGED <<server, built, memory, disk, day, date, owner, archived, trouble, lapse>>
  BY DEF Answer, tables
<1>2. d \in Days
  BY DEF IInv, TypeOK
<1>3. n \in 0 .. MaxPoints
  BY <1>2, ConstantsAssumption DEF IInv, TypeOK
<1>4. Bucket(d, n) \in Buckets /\ Bucket(d, n).of = d
  BY <1>2, <1>3 DEF Bucket, Buckets
<1> HIDE DEF d, n
<1>5. TypeOK'
  BY <1>1, <1>4 DEF IInv, TypeOK, server
<1>6. OwnDays'
  <2> SUFFICES ASSUME "crossed" \notin trouble
               PROVE  (\A b \in Builds : OwnBuckets(memory'[b])) /\ OwnBuckets(disk') /\ OwnRequests'
    BY <1>1 DEF OwnDays, OwnBuckets
  <2>1. (\A b \in Builds : OwnBuckets(memory'[b])) /\ OwnBuckets(disk')
    BY <1>1 DEF IInv, OwnDays
  <2>2. d = day[c]
    BY <1>1 DEF IInv, OwnDays, OwnRequests, d
  <2>3. OwnRequests'
    BY <1>1, <1>4, <2>2 DEF IInv, TypeOK, OwnDays, OwnRequests, server
  <2> QED
    BY <2>1, <2>3
<1>7. FileInv'
  BY <1>1 DEF IInv, TypeOK, FileInv, Straggles, Archive
<1> QED
  BY <1>5, <1>6, <1>7 DEF IInv

\* A bucket is replaced by the answer for its own day; pruning only removes.
LEMMA StoreInv == ASSUME IInv, NEW c \in Callers, StoreDay(c) PROVE IInv'
<1>1. /\ pc[c] = "answered"
      /\ memory' = [memory EXCEPT ![owner[c]] = Merged(c)]
      /\ UNCHANGED <<server, built, disk, day, date, owner, trouble, lapse>>
  BY DEF StoreDay
<1>2. \/ Merged(c) = memory[owner[c]] /\ Quit(c) /\ Done(c)
      \/ pc' = [pc EXCEPT ![c] = "saving"] /\ UNCHANGED <<reply, archived>>
  BY DEF StoreDay
<1>3. day[c] \in Days /\ reply[c] \in Buckets \union {NoBucket} /\ owner[c] \in Builds
  BY DEF IInv, TypeOK
<1>4. Merged(c) \in [Days -> Buckets \union {NoBucket}]
  BY <1>3 DEF IInv, TypeOK, Merged, Pruned
<1>5. TypeOK'
  BY <1>1, <1>2, <1>3, <1>4 DEF IInv, TypeOK, Quit, Done, server
<1>6. OwnDays'
  <2> SUFFICES ASSUME "crossed" \notin trouble
               PROVE  (\A b \in Builds : OwnBuckets(memory'[b])) /\ OwnBuckets(disk') /\ OwnRequests'
    BY <1>1 DEF OwnDays, OwnBuckets
  <2>1. reply[c].of = day[c]
    BY <1>1 DEF IInv, OwnDays, OwnRequests
  <2>2. OwnBuckets(Merged(c))
    BY <1>3, <2>1 DEF IInv, TypeOK, OwnDays, OwnBuckets, Merged, Pruned
  <2>3. \A b \in Builds : OwnBuckets(memory'[b])
    BY <1>1, <1>3, <2>2 DEF IInv, TypeOK, OwnDays
  <2>4. OwnBuckets(disk')
    BY <1>1 DEF IInv, OwnDays
  <2>5. OwnRequests'
    BY <1>1, <1>2 DEF IInv, TypeOK, OwnDays, OwnRequests, Quit, server
  <2> QED
    BY <2>3, <2>4, <2>5
<1>7. FileInv'
  <2> SUFFICES ASSUME lapse = "none"
               PROVE  /\ \A a \in Callers : ~Straggles(a)'
                      /\ (\A a \in Callers : pc'[a] # "saving") => disk' = Archive'
    BY <1>1 DEF FileInv
  <2>1. \A a \in Callers : ~Straggles(a)'
    BY <1>1, <1>2 DEF IInv, TypeOK, FileInv, Straggles, Quit
  <2>2. CASE pc' = [pc EXCEPT ![c] = "saving"]
    BY <2>1, <2>2 DEF IInv, TypeOK
  <2>3. CASE Merged(c) = memory[owner[c]] /\ Quit(c)
    <3>1. memory' = memory
      BY <1>1, <1>3, <2>3 DEF IInv, TypeOK
    <3>2. \A a \in Callers : pc'[a] # "saving" => pc[a] # "saving"
      BY <1>1, <2>3 DEF IInv, TypeOK, Quit
    <3> QED
      BY <1>1, <2>1, <3>1, <3>2 DEF IInv, FileInv, Archive
  <2> QED
    BY <1>2, <2>2, <2>3
<1> QED
  BY <1>5, <1>6, <1>7 DEF IInv

\* A caller that leaves a fetch or a save changes only its own place.
LEMMA SaveInv ==
  ASSUME IInv, NEW c \in Callers, FetchFails(c) \/ Save(c) \/ SaveFails(c) PROVE IInv'
<1>1. /\ Quit(c) /\ UNCHANGED <<server, built, memory, day, date, owner, trouble>>
      /\ disk' \in {disk, memory[owner[c]]}
      /\ lapse' \in {"none", "some"}
      /\ archived' \subseteq Days
  BY DEF FetchFails, Save, SaveFails, Done, IInv, TypeOK, tables
<1>2. TypeOK'
  BY <1>1 DEF IInv, TypeOK, Quit, server
<1>3. OwnDays'
  <2> SUFFICES ASSUME "crossed" \notin trouble
               PROVE  (\A b \in Builds : OwnBuckets(memory'[b])) /\ OwnBuckets(disk') /\ OwnRequests'
    BY <1>1 DEF OwnDays, OwnBuckets
  <2>1. (\A b \in Builds : OwnBuckets(memory'[b])) /\ OwnBuckets(disk')
    BY <1>1 DEF IInv, TypeOK, OwnDays
  <2>2. OwnRequests'
    BY <1>1 DEF IInv, TypeOK, OwnDays, OwnRequests, Quit, server
  <2> QED
    BY <2>1, <2>2
<1>4. FileInv'
  <2>1. CASE FetchFails(c)
    <3>1. \A a \in Callers : pc'[a] # "saving" => pc[a] # "saving"
      BY <2>1 DEF FetchFails, Fetching, Quit, IInv, TypeOK
    <3>2. (\A a \in Callers : ~Straggles(a)) => \A a \in Callers : ~Straggles(a)'
      BY <2>1 DEF FetchFails, Quit, IInv, TypeOK, Straggles, tables
    <3>3. UNCHANGED <<built, memory, disk, lapse>>
      BY <2>1 DEF FetchFails, tables
    <3> QED
      BY <3>1, <3>2, <3>3 DEF IInv, FileInv, Archive
  <2>2. CASE Save(c)
    <3> SUFFICES ASSUME lapse' = "none"
                 PROVE  (\A a \in Callers : ~Straggles(a)') /\ disk' = Archive'
      BY DEF FileInv
    <3>1. \A a \in Callers : ~Straggles(a)
      BY <2>2 DEF Save, IInv, FileInv
    <3>2. owner[c] = built
      BY <2>2, <3>1 DEF Save, Straggles
    <3>3. \A a \in Callers : ~Straggles(a)'
      BY <1>1, <3>1 DEF IInv, TypeOK, Straggles, Quit
    <3> QED
      BY <2>2, <3>2, <3>3 DEF Save, Archive
  <2>3. CASE SaveFails(c)
    BY <2>3 DEF SaveFails, FileInv
  <2> QED
    BY <2>1, <2>2, <2>3
<1> QED
  BY <1>2, <1>3, <1>4 DEF IInv

\* A new coordinator reads the file; what was running before is a lapse.
LEMMA RestoreInv == ASSUME IInv, Reload \/ Restart PROVE IInv'
<1>1. archived' \subseteq Days
  BY DEF Reload, Restart, Restored, IInv, TypeOK
<1>2. CASE Reload
  <2>1. /\ built + 1 \in Builds /\ built' = built + 1
        /\ memory' = [memory EXCEPT ![built + 1] = disk]
        /\ UNCHANGED <<server, disk, pc, day, date, owner, reply, trouble>>
        /\ lapse' \in {"none", "some"}
    BY <1>2, ConstantsAssumption DEF Reload, Builds, IInv, TypeOK, calls
  <2>2. TypeOK'
    BY <1>1, <2>1 DEF IInv, TypeOK, server
  <2>3. OwnDays'
    BY <2>1 DEF IInv, TypeOK, OwnDays, OwnBuckets, OwnRequests, server
  <2>4. FileInv'
    BY <1>2, <2>1 DEF Reload, IInv, TypeOK, FileInv, Straggles, Archive
  <2> QED
    BY <2>2, <2>3, <2>4 DEF IInv
<1>3. CASE Restart
  <2>1. /\ built' = 0 /\ 0 \in Builds
        /\ memory' = [b \in Builds |-> IF b = 0 THEN disk ELSE NoDays]
        /\ NoDays \in [Days -> Buckets \union {NoBucket}] /\ OwnBuckets(NoDays)
        /\ pc' = [c \in Callers |-> "idle"] /\ reply' = [c \in Callers |-> NoBucket]
        /\ lapse' = "none" /\ UNCHANGED <<server, disk, day, date, owner, trouble>>
    BY <1>3, ConstantsAssumption DEF Restart, Builds, NoDays, OwnBuckets
  <2>2. TypeOK'
    BY <1>1, <2>1 DEF IInv, TypeOK, server
  <2>3. OwnDays'
    BY <2>1 DEF IInv, TypeOK, OwnDays, OwnBuckets, OwnRequests, server
  <2>4. FileInv'
    BY <2>1 DEF FileInv, Straggles, Archive
  <2> QED
    BY <2>2, <2>3, <2>4 DEF IInv
<1> QED
  BY <1>2, <1>3

\* Every step keeps it.
LEMMA StepInv == IInv /\ [Next]_vars => IInv'
<1> SUFFICES ASSUME IInv, [Next]_vars PROVE IInv'
  OBVIOUS
<1>1. CASE Record
  <2>1. TypeOK'
    BY <1>1, ConstantsAssumption DEF Record, IInv, TypeOK, Days, calls, tables
  <2>2. OwnDays' /\ FileInv'
    BY <1>1 DEF Record, IInv, OwnDays, OwnBuckets, OwnRequests, FileInv, Straggles, Archive, calls, tables
  <2> QED
    BY <2>1, <2>2 DEF IInv
<1>2. CASE Midnight
  <2>1. TypeOK'
    <3>1. today' \in Days
      BY <1>2, ConstantsAssumption DEF Midnight, IInv, TypeOK, Days
    <3>2. trouble' \subseteq {"crossed", "overlap"}
      BY <1>2 DEF Midnight, IInv, TypeOK
    <3> QED
      BY <1>2, <3>1, <3>2 DEF Midnight, IInv, TypeOK, calls, tables
  <2>2. OwnDays'
    <3> SUFFICES ASSUME "crossed" \notin trouble'
                 PROVE  (\A b \in Builds : OwnBuckets(memory'[b])) /\ OwnBuckets(disk') /\ OwnRequests'
      BY DEF OwnDays, OwnBuckets
    <3>1. "crossed" \notin trouble /\ \A c \in Callers : ~(pc[c] = "asked" /\ date[c] = Today)
      BY <1>2 DEF Midnight
    <3> QED
      BY <1>2, <3>1 DEF Midnight, IInv, OwnDays, OwnBuckets, OwnRequests, calls, tables
  <2>3. FileInv'
    BY <1>2 DEF Midnight, IInv, FileInv, Straggles, Archive, calls, tables
  <2> QED
    BY <2>1, <2>2, <2>3 DEF IInv
<1>3. CASE AutoFetch
  <2>1. today - 1 \in Days
    BY <1>3, ConstantsAssumption DEF AutoFetch, IInv, TypeOK, Days
  <2>2. CASE archived' = archived \union {today - 1} /\ UNCHANGED <<server, tables, calls, trouble, lapse>>
    <3>1. TypeOK'
      BY <2>1, <2>2 DEF IInv, TypeOK, server, calls, tables
    <3>2. OwnDays' /\ FileInv'
      BY <2>2 DEF IInv, OwnDays, OwnBuckets, OwnRequests, FileInv, Straggles, Archive, server, calls, tables
    <3> QED
      BY <3>1, <3>2 DEF IInv
  <2>3. ASSUME NEW b \in 0 .. built, Ask(Nightly, today - 1, b), UNCHANGED archived PROVE IInv'
    <3>1. b \in Builds
      BY <2>3, ConstantsAssumption DEF IInv, TypeOK, Builds
    <3> QED
      BY <1>3, <2>1, <2>3, <3>1, AskInv, ConstantsAssumption DEF AutoFetch, IInv, TypeOK
  <2> QED
    BY <1>3, <2>2, <2>3 DEF AutoFetch
<1>4. CASE Reload \/ Restart
  BY <1>4, RestoreInv
<1>5. ASSUME NEW c \in Callers, NEW d \in Days, ViewDay(c, d) PROVE IInv'
  BY <1>5, AskInv DEF ViewDay, IInv, TypeOK
<1>10. ASSUME NEW c \in Callers, NEW d \in Days, NEW b \in Builds, ForceDay(c, d, b) PROVE IInv'
  BY <1>10, AskInv DEF ForceDay, IInv, TypeOK
<1>6. ASSUME NEW c \in Callers, Answer(c) PROVE IInv'
  BY <1>6, AnswerInv
<1>7. ASSUME NEW c \in Callers, StoreDay(c) PROVE IInv'
  BY <1>7, StoreInv
<1>8. ASSUME NEW c \in Callers, FetchFails(c) \/ Save(c) \/ SaveFails(c) PROVE IInv'
  BY <1>8, SaveInv
<1>9. CASE UNCHANGED vars
  <2>1. TypeOK'
    BY <1>9 DEF IInv, TypeOK, vars, calls, tables, server
  <2>2. OwnDays' /\ FileInv'
    BY <1>9 DEF IInv, OwnDays, OwnBuckets, OwnRequests, FileInv, Straggles, Archive, vars, calls, tables, server
  <2> QED
    BY <2>1, <2>2 DEF IInv
<1> QED
  BY <1>1, <1>2, <1>3, <1>4, <1>5, <1>6, <1>7, <1>8, <1>9, <1>10 DEF Next

\* The inductive invariant holds of every behaviour.
THEOREM Inductive == Spec => []IInv
  BY InitInv, StepInv, PTL DEF Spec

\* While nobody saves, the history file holds the archive of the present
\* coordinator, through any reloads and restarts, except after a failed write or
\* while a call of an unloaded coordinator may overwrite it: _store_day writes
\* whatever it changed, pruned days included.
THEOREM Durable == Spec => []DurableArchive
<1>1. IInv => DurableArchive
  BY DEF IInv, FileInv, DurableArchive
<1> QED
  BY <1>1, Inductive, PTL

\* A bucket holds the points of its own day, through any order of fetches,
\* saves, reloads and restarts, unless midnight passed under a request of today.
THEOREM OwnDayKept == Spec => []OwnDay
<1>1. IInv => OwnDay
  BY DEF IInv, TypeOK, OwnDay, OwnDays, OwnBuckets, Archive
<1> QED
  BY <1>1, Inductive, PTL

-----------------------------------------------------------------------------
(* Points that the backend still serves                                    *)

\* While fetches do not overlap one caller is at work.
OneCaller == \A b, c \in Callers : pc[b] # "idle" /\ pc[c] # "idle" => b = c

\* A table holds no more points of a day than were recorded.
Recorded(table) == \A d \in Days : table[d] # NoBucket => table[d].points <= track[d]

AllRecorded == (\A b \in Builds : Recorded(memory[b])) /\ Recorded(disk)

\* A caller's answer has all the points a table has of that day.
HasAllOf(c, table) == table[day[c]] # NoBucket => table[day[c]].points <= reply[c].points

\* An answer has no point too many, and, of a day still served, none too few.
FreshReplies ==
  \A c \in Callers : pc[c] = "answered" =>
    /\ reply[c] \in Buckets /\ reply[c].points <= track[day[c]]
    /\ day[c] + Served > today => (\A b \in Builds : HasAllOf(c, memory[b])) /\ HasAllOf(c, disk)

ServedInv == trouble = {} => OneCaller /\ AllRecorded /\ FreshReplies

\* A caller asks: when no other one is at work, or it is an overlap.
LEMMA AskServed ==
  ASSUME IInv, ServedInv, NEW c \in Callers, NEW d \in Days, NEW b \in Builds,
         pc[c] = "idle", Ask(c, d, b)
  PROVE  ServedInv'
<1>. SUFFICES ASSUME trouble' = {} PROVE (OneCaller /\ AllRecorded /\ FreshReplies)'
  BY DEF ServedInv
<1>1. trouble = {} /\ \A a \in Callers \ {c} : pc[a] = "idle"
  BY DEF Ask
<1>2. pc' = [pc EXCEPT ![c] = "asked"] /\ UNCHANGED <<today, track, memory, disk, reply>>
  BY DEF Ask, server, tables
<1>3. \A a \in Callers : pc'[a] # "idle" => a = c /\ pc'[a] = "asked"
  BY <1>1, <1>2 DEF IInv, TypeOK
<1>4. OneCaller'
  BY <1>3 DEF OneCaller
<1>5. FreshReplies'
  BY <1>3 DEF FreshReplies
<1>6. AllRecorded'
  BY <1>1, <1>2 DEF ServedInv, AllRecorded, Recorded
<1>. QED
  BY <1>4, <1>5, <1>6

\* The backend answers with all points of a day it serves.
LEMMA AnswerServed ==
  ASSUME IInv, ServedInv, NEW c \in Callers, Answer(c)
  PROVE  ServedInv'
<1>. SUFFICES ASSUME trouble = {} PROVE (OneCaller /\ AllRecorded /\ FreshReplies)'
  BY DEF ServedInv, Answer
<1>1. /\ pc[c] = "asked" /\ pc' = [pc EXCEPT ![c] = "answered"]
      /\ UNCHANGED <<today, track, memory, disk, day, owner>>
  BY DEF Answer, server, tables
<1>2. day[c] \in Days /\ owner[c] \in Builds /\ day[c] = IF date[c] = Today THEN today ELSE date[c]
  BY <1>1 DEF IInv, TypeOK, OwnDays, OwnRequests
<1>3. reply' = [reply EXCEPT ![c] =
        Bucket(day[c], IF day[c] + Served > today THEN track[day[c]] ELSE 0)]
  BY <1>2 DEF Answer
<1>4. OneCaller'
  BY <1>1 DEF ServedInv, OneCaller, IInv, TypeOK
<1>5. ASSUME NEW b \in Callers, pc'[b] = "answered" PROVE b = c
  BY <1>1, <1>4, <1>5 DEF OneCaller, IInv, TypeOK
<1>6. track[day[c]] \in 0 .. MaxPoints /\ MaxPoints \in Nat
  BY <1>2, ConstantsAssumption DEF IInv, TypeOK
<1>7. /\ reply'[c] \in Buckets /\ reply'[c].points <= track[day[c]]
      /\ day[c] + Served > today => reply'[c].points = track[day[c]]
  BY <1>2, <1>3, <1>6 DEF Bucket, Buckets, IInv, TypeOK
<1>8. FreshReplies'
  <2>1. (\A b \in Builds : Recorded(memory[b])) /\ Recorded(disk)
    BY DEF ServedInv, AllRecorded
  <2>2. day[c] + Served > today => (\A b \in Builds : HasAllOf(c, memory[b])') /\ HasAllOf(c, disk)'
    BY <1>1, <1>2, <1>7, <2>1 DEF HasAllOf, Recorded
  <2>. QED
    BY <1>1, <1>5, <1>7, <2>2 DEF FreshReplies
<1>9. AllRecorded'
  BY <1>1 DEF ServedInv, AllRecorded, Recorded
<1>. QED
  BY <1>4, <1>8, <1>9

\* The answer takes the place of the bucket; nobody else has one.
LEMMA StoreServed ==
  ASSUME IInv, ServedInv, NEW c \in Callers, StoreDay(c)
  PROVE  ServedInv'
<1>. SUFFICES ASSUME trouble = {} PROVE (OneCaller /\ AllRecorded /\ FreshReplies)'
  BY DEF ServedInv, StoreDay
<1>1. /\ pc[c] = "answered" /\ memory' = [memory EXCEPT ![owner[c]] = Merged(c)]
      /\ UNCHANGED <<today, track, disk, day, owner>>
      /\ \/ pc' = [pc EXCEPT ![c] = "idle"]
         \/ pc' = [pc EXCEPT ![c] = "saving"]
  BY DEF StoreDay, Quit, server
<1>2. \A b \in Callers : pc'[b] # "idle" => b = c /\ pc'[b] = "saving"
  BY <1>1 DEF ServedInv, OneCaller, IInv, TypeOK
<1>3. OneCaller' /\ FreshReplies'
  BY <1>2 DEF OneCaller, FreshReplies
<1>4. AllRecorded'
  <2>1. owner[c] \in Builds /\ day[c] \in Days /\ Recorded(memory[owner[c]])
    BY DEF ServedInv, AllRecorded, IInv, TypeOK
  <2>2. Recorded(Merged(c))
    BY <1>1, <2>1 DEF ServedInv, FreshReplies, Recorded, Merged, Pruned, IInv, TypeOK
  <2>. QED
    BY <1>1, <2>1, <2>2 DEF ServedInv, AllRecorded, Recorded, IInv, TypeOK
<1>. QED
  BY <1>3, <1>4

\* A caller that leaves a fetch or a save keeps what there is.
LEMMA LeaveServed ==
  ASSUME IInv, ServedInv, NEW c \in Callers, FetchFails(c) \/ Save(c) \/ SaveFails(c)
  PROVE  ServedInv'
<1>. SUFFICES ASSUME trouble' = {} PROVE (OneCaller /\ AllRecorded /\ FreshReplies)'
  BY DEF ServedInv
<1>1. /\ trouble = {} /\ pc' = [pc EXCEPT ![c] = "idle"]
      /\ reply' = [reply EXCEPT ![c] = NoBucket]
      /\ UNCHANGED <<today, track, memory, day, owner>>
      /\ disk' \in {disk, memory[owner[c]]} /\ owner[c] \in Builds
  BY DEF FetchFails, Save, SaveFails, Quit, server, tables, IInv, TypeOK
<1>2. OneCaller' /\ FreshReplies'
  <2>1. pc[c] # "idle"
    BY DEF FetchFails, Fetching, Save, SaveFails
  <2>2. \A b \in Callers : pc'[b] = "idle"
    BY <1>1, <2>1 DEF ServedInv, OneCaller, IInv, TypeOK
  <2>. QED
    BY <2>2 DEF OneCaller, FreshReplies
<1>3. AllRecorded'
  BY <1>1 DEF ServedInv, AllRecorded, Recorded
<1>. QED
  BY <1>2, <1>3

\* A new coordinator holds what the file does; running calls keep their own.
LEMMA RestoreServed ==
  ASSUME IInv, ServedInv, Reload \/ Restart
  PROVE  ServedInv'
<1>. SUFFICES ASSUME trouble = {} PROVE (OneCaller /\ AllRecorded /\ FreshReplies)'
  BY DEF ServedInv, Reload, Restart
<1>1. CASE Reload
  <2>1. /\ memory' = [memory EXCEPT ![built + 1] = disk]
        /\ UNCHANGED <<today, track, disk, pc, day, owner, reply>>
    BY <1>1 DEF Reload, server, calls
  <2>2. OneCaller' /\ AllRecorded'
    BY <2>1 DEF ServedInv, OneCaller, AllRecorded, Recorded, IInv, TypeOK
  <2>3. \A b \in Builds : memory'[b] \in {memory[b], disk}
    BY <2>1 DEF IInv, TypeOK
  <2>4. FreshReplies'
    BY <2>1, <2>3 DEF ServedInv, FreshReplies, HasAllOf
  <2>. QED
    BY <2>2, <2>4
<1>2. CASE Restart
  <2>1. /\ memory' = [b \in Builds |-> IF b = 0 THEN disk ELSE NoDays]
        /\ UNCHANGED <<today, track, disk>> /\ \A c \in Callers : pc'[c] = "idle"
    BY <1>2 DEF Restart, server
  <2>2. OneCaller' /\ FreshReplies'
    BY <2>1 DEF OneCaller, FreshReplies
  <2>3. AllRecorded'
    BY <2>1 DEF ServedInv, AllRecorded, Recorded, NoDays
  <2>. QED
    BY <2>2, <2>3
<1>. QED
  BY <1>1, <1>2

\* Every step keeps it.
LEMMA ServedStep == IInv /\ ServedInv /\ [Next]_vars => ServedInv'
<1>. SUFFICES ASSUME IInv, ServedInv, [Next]_vars PROVE ServedInv'
  OBVIOUS
<1>1. CASE Record
  <2>1. /\ track' = [track EXCEPT ![today] = track[today] + 1]
        /\ UNCHANGED <<today, memory, disk, pc, day, owner, reply, trouble>>
    BY <1>1 DEF Record, calls, tables
  <2>2. \A d \in Days : track[d] \in Nat /\ track'[d] \in Nat /\ track[d] <= track'[d]
    BY <2>1, ConstantsAssumption DEF IInv, TypeOK
  <2>3. (OneCaller => OneCaller') /\ \A c \in Callers : day[c] \in Days
    BY <2>1 DEF OneCaller, IInv, TypeOK
  <2>4. ASSUME NEW t \in [Days -> Buckets \union {NoBucket}], NEW d \in Days,
               t[d] # NoBucket, t[d].points <= track[d]
        PROVE  t[d].points <= track'[d]
    BY <2>2, <2>4, ConstantsAssumption DEF Buckets
  <2>5. AllRecorded => AllRecorded'
    BY <2>1, <2>4 DEF AllRecorded, Recorded, IInv, TypeOK
  <2>6. FreshReplies => FreshReplies'
    BY <2>1, <2>2, <2>3, ConstantsAssumption DEF FreshReplies, HasAllOf, Buckets
  <2>. QED
    BY <2>1, <2>3, <2>5, <2>6 DEF ServedInv
<1>2. CASE Midnight
  <2>1. /\ today' = today + 1 /\ UNCHANGED <<track, memory, disk, pc, day, owner, reply>>
        /\ trouble' = {} => trouble = {}
    BY <1>2 DEF Midnight, calls, tables
  <2>2. \A c \in Callers : day[c] + Served > today' => day[c] + Served > today
    BY <2>1, ConstantsAssumption DEF IInv, TypeOK, Days
  <2>3. FreshReplies => FreshReplies'
    BY <2>1, <2>2 DEF FreshReplies, HasAllOf
  <2>. QED
    BY <2>1, <2>3 DEF ServedInv, OneCaller, AllRecorded, Recorded
<1>3. CASE AutoFetch
  <2>1. CASE UNCHANGED <<server, tables, calls, trouble>>
    BY <2>1 DEF ServedInv, OneCaller, AllRecorded, Recorded, FreshReplies, HasAllOf, server, calls, tables
  <2>2. ASSUME NEW b \in 0 .. built, Ask(Nightly, today - 1, b) PROVE ServedInv'
    <3>1. today - 1 \in Days /\ Nightly \in Callers /\ b \in Builds
      BY <1>3, <2>2, ConstantsAssumption DEF AutoFetch, IInv, TypeOK, Days, Builds
    <3>. QED
      BY <1>3, <2>2, <3>1, AskServed DEF AutoFetch
  <2>. QED
    BY <1>3, <2>1, <2>2 DEF AutoFetch
<1>4. CASE Reload \/ Restart
  BY <1>4, RestoreServed
<1>5. ASSUME NEW c \in Callers, NEW d \in Days, ViewDay(c, d) PROVE ServedInv'
  BY <1>5, AskServed DEF ViewDay, IInv, TypeOK
<1>8. ASSUME NEW c \in Callers, NEW d \in Days, NEW b \in Builds, ForceDay(c, d, b) PROVE ServedInv'
  BY <1>8, AskServed DEF ForceDay
<1>6. ASSUME NEW c \in Callers,
             Answer(c) \/ FetchFails(c) \/ StoreDay(c) \/ Save(c) \/ SaveFails(c)
      PROVE  ServedInv'
  BY <1>6, AnswerServed, StoreServed, LeaveServed
<1>7. CASE UNCHANGED vars
  BY <1>7 DEF ServedInv, OneCaller, AllRecorded, Recorded, FreshReplies, HasAllOf, vars, server, calls, tables
<1>. QED
  BY <1>1, <1>2, <1>3, <1>4, <1>5, <1>6, <1>7, <1>8 DEF Next

\* While fetches do not overlap and the file is current, neither a fetch nor a
\* reload or restart takes back a point of a day that the backend still serves,
\* whatever the retention, the days served and the callers.
THEOREM ServedKept == Spec => ServedDaysKept
<1>1. Init => ServedInv
  BY DEF Init, ServedInv, OneCaller, AllRecorded, Recorded, FreshReplies, NoDays
<1>2. ASSUME IInv, ServedInv, [Next]_vars, Settled, trouble = {},
             NEW d \in Days, d + Served > today
      PROVE  Kept(d)
  <2>1. CASE Archive' = Archive
    BY <2>1 DEF Kept
  <2>2. ASSUME NEW c \in Callers, StoreDay(c) PROVE Kept(d)
    <3>1. /\ memory' = [memory EXCEPT ![owner[c]] = Merged(c)] /\ UNCHANGED built
          /\ pc[c] = "answered"
      BY <2>2 DEF StoreDay
    <3>2. owner[c] = built /\ built \in Builds /\ day[c] \in Days
      BY <1>2, <3>1 DEF Settled, IInv, TypeOK, FileInv, Straggles
    <3>3. Archive' = Merged(c)
      BY <1>2, <3>1, <3>2 DEF Archive, IInv, TypeOK
    <3>4. /\ Archive[day[c]] # NoBucket /\ day[c] + Served > today
               => Archive[day[c]].points <= reply[c].points
      BY <1>2, <3>1, <3>2 DEF ServedInv, FreshReplies, HasAllOf, Archive
    <3>5. reply[c] # NoBucket
      BY <1>2, <3>1, ConstantsAssumption DEF ServedInv, FreshReplies
    <3>6. Archive \in [Days -> Buckets \union {NoBucket}] /\ today \in Nat
      BY <1>2, <3>2 DEF Archive, IInv, TypeOK, Days
    <3>7. Merged(c) = Pruned([Archive EXCEPT ![day[c]] = reply[c]])
      BY <3>2 DEF Merged, Archive
    <3>8. CASE d = day[c]
      BY <1>2, <3>3, <3>4, <3>5, <3>6, <3>7, <3>8, ConstantsAssumption
         DEF Kept, Keeps, Pruned, Days
    <3>9. CASE d # day[c]
      BY <1>2, <3>3, <3>6, <3>7, <3>9, ConstantsAssumption DEF Kept, Pruned, Days
    <3>. QED
      BY <3>8, <3>9
  <2>3. CASE Reload \/ Restart
    <3>1. disk = Archive
      BY <1>2 DEF Settled, IInv, FileInv
    <3>2. Archive' = disk
      <4>1. CASE Reload
        BY <1>2, <4>1, ConstantsAssumption DEF Reload, Archive, IInv, TypeOK, Builds
      <4>2. CASE Restart
        BY <4>2, ConstantsAssumption DEF Restart, Archive, Builds
      <4>. QED
        BY <2>3, <4>1, <4>2
    <3>. QED
      BY <2>1, <3>1, <3>2
  <2>4. \/ UNCHANGED <<built, memory>> \/ Reload \/ Restart \/ \E c \in Callers : StoreDay(c)
    BY <1>2 DEF Next, Record, Midnight, AutoFetch, Ask, ViewDay, ForceDay, Answer, FetchFails,
                Save, SaveFails, vars, tables
  <2>. QED
    BY <2>1, <2>2, <2>3, <2>4 DEF Archive
<1>3. IInv /\ ServedInv /\ [Next]_vars
        => (Settled /\ trouble = {} => \A d \in Days : d + Served > today => Kept(d))
  BY <1>2
<1>. QED
  BY <1>1, <1>3, Inductive, ServedStep, PTL DEF Spec, ServedDaysKept

-----------------------------------------------------------------------------
(* NotificationFeed                                                        *)

\* The backend's entries are in the order of their seconds.
FeedOrder ==
  \A i \in 1 .. Len(feed) :
    /\ feed[i].create <= i
    /\ \A j \in i .. Len(feed) : feed[i].create <= feed[j].create

\* An answer is the newest entries of the feed, or of an earlier one.
PagesFit == \A c \in Cycles : step[c] = "answered" => \E n \in 0 .. Len(feed) : page[c] = Feed!Page(n)

\* An entry is accounted for.
Told(e) == e \in silent \/ e \in dropped \/ fired[e] > 0

\* The ids of a mark are entries of its second, and every entry up to one of
\* them is accounted for.
SoundMark(m) ==
  m # NoMark =>
    /\ m.ids # {}
    /\ \A f \in m.ids : f \in 1 .. Len(feed) /\ feed[f].create = m.create /\ \A e \in 1 .. f : Told(e)

SoundMarks == SoundMark(markFile) /\ \A g \in Feed!Gens : SoundMark(mark[g])

LostInv == Feed!TypeOK /\ FeedOrder /\ PagesFit /\ SoundMarks

-----------------------------------------------------------------------------
\* The instance counts as this module does.
LEMMA SameCardinality == ASSUME NEW S PROVE Feed!Cardinality(S) = Cardinality(S)
  BY DEF Feed!Cardinality, Cardinality

\* A page with entries is an interval that ends with its newest entry; when it
\* does not begin with the first entry of the feed it is full.
LEMMA PageRange ==
  ASSUME NEW n \in Nat, Limit \in Nat \ {0}, Feed!Page(n) # {}
  PROVE  /\ n \in Feed!Page(n) /\ n >= 1
         /\ (CHOOSE e \in Feed!Page(n) : \A f \in Feed!Page(n) : f <= e) = n
         /\ LET oldest == CHOOSE e \in Feed!Page(n) : \A f \in Feed!Page(n) : e <= f
            IN  /\ oldest \in 1 .. n /\ Feed!Page(n) = oldest .. n
                /\ oldest > 1 => Cardinality(Feed!Page(n)) = Limit
<1> DEFINE low == IF n >= Limit THEN n - Limit + 1 ELSE 1
           P == Feed!Page(n)
<1>1. n >= 1 /\ low \in 1 .. n /\ P = low .. n
  BY DEF Feed!Page
<1> HIDE DEF P
<1>2. (CHOOSE e \in P : \A f \in P : f <= e) = n
  <2>1. n \in P /\ \A f \in P : f <= n
    BY <1>1
  <2>2. \A e \in P : (\A f \in P : f <= e) => e = n
    BY <1>1
  <2> QED
    BY <2>1, <2>2
<1>3. (CHOOSE e \in P : \A f \in P : e <= f) = low
  <2>1. low \in P /\ \A f \in P : low <= f
    BY <1>1
  <2>2. \A e \in P : (\A f \in P : e <= f) => e = low
    BY <1>1
  <2> QED
    BY <2>1, <2>2
<1>4. low > 1 => Cardinality(P) = Limit
  <2> SUFFICES ASSUME low > 1 PROVE Cardinality(P) = Limit
    OBVIOUS
  <2>1. low = n - Limit + 1 /\ low \in Int /\ n \in Int
    OBVIOUS
  <2> HIDE DEF low
  <2>2. Cardinality(low .. n) = n - low + 1
    BY <1>1, <2>1, FS_Interval
  <2> QED
    BY <1>1, <2>1, <2>2
<1> HIDE DEF low
<1> QED
  BY <1>1, <1>2, <1>3, <1>4 DEF P

\* The entries of the feed and their seconds.
LEMMA FeedTyped ==
  ASSUME Feed!ConstantsAssumption, Feed!TypeOK
  PROVE  /\ Len(feed) \in Nat /\ Len(feed) <= MaxEntries /\ MaxEntries \in Nat
         /\ \A i \in 1 .. Len(feed) :
              /\ i \in Feed!Ids /\ i \in Nat /\ i >= 1
              /\ feed[i].create \in Feed!Ids /\ feed[i].create \in Nat /\ feed[i].kind \in Kinds
<1> DEFINE E == [create : Feed!Ids, kind : Kinds]
<1>1. feed \in Seq(E) /\ Len(feed) <= MaxEntries /\ MaxEntries \in Nat
  BY DEF Feed!TypeOK, Feed!ConstantsAssumption
<1> HIDE DEF E
<1>2. Len(feed) \in Nat /\ \A i \in 1 .. Len(feed) : feed[i] \in E
  BY <1>1
<1>3. \A i \in 1 .. Len(feed) : feed[i].create \in Feed!Ids /\ feed[i].kind \in Kinds
  BY <1>2 DEF E
<1> QED
  BY <1>1, <1>2, <1>3 DEF Feed!Ids

\* What a mark covers, and all before it, is accounted for.
LEMMA CoveredTold ==
  ASSUME Feed!ConstantsAssumption, Feed!TypeOK, FeedOrder, NEW m \in Feed!Marks, m # NoMark, SoundMark(m),
         NEW h \in 1 .. Len(feed), Feed!Covers(m, h), NEW e \in 1 .. h
  PROVE  Told(e)
<1>1. CASE h \in m.ids
  BY <1>1 DEF SoundMark
<1>2. CASE feed[h].create < m.create
  <2>1. PICK f \in m.ids : f \in 1 .. Len(feed) /\ feed[f].create = m.create
    BY DEF SoundMark
  <2>2. feed[f].create \in Nat /\ feed[h].create \in Nat
    BY <2>1, FeedTyped
  <2>3. ~(f <= h)
    BY <1>2, <2>1, <2>2 DEF FeedOrder
  <2>4. e \in 1 .. f
    BY <2>1, <2>3
  <2> QED
    BY <2>1, <2>4 DEF SoundMark
<1> QED
  BY <1>1, <1>2 DEF Feed!Covers

\* The mark that plan_events returns covers the page and all that the mark
\* before it covered.
LEMMA MarkAdvances ==
  ASSUME Feed!ConstantsAssumption, Feed!TypeOK, FeedOrder,
         NEW m \in Feed!MarkOrNone, SoundMark(m),
         NEW n \in 0 .. Len(feed), Feed!Page(n) # {}
  PROVE  LET k == Feed!NewMark(Feed!Page(n), m)
         IN  /\ k \in Feed!Marks /\ k # NoMark
             /\ k.ids # {} /\ k.ids \subseteq Feed!Page(n) \union IF m = NoMark THEN {} ELSE m.ids
             /\ \A f \in k.ids : feed[f].create = k.create
             /\ \A e \in Feed!Page(n) : Feed!Covers(k, e)
             /\ m # NoMark => \A e \in 1 .. Len(feed) : Feed!Covers(m, e) => Feed!Covers(k, e)
<1> DEFINE P == Feed!Page(n)
           k == Feed!NewMark(P, m)
<1>1. n \in Nat /\ Limit \in Nat \ {0}
  BY FeedTyped DEF Feed!ConstantsAssumption
<1>2. n \in P /\ n >= 1 /\ (CHOOSE e \in P : \A f \in P : f <= e) = n
  BY <1>1, PageRange
<1>3. P \subseteq 1 .. n /\ P \subseteq Feed!Ids
  BY <1>1, FeedTyped DEF Feed!Page, Feed!Ids
<1>4. Feed!Newest(P) = feed[n].create
  BY <1>2 DEF Feed!Newest
<1>5. feed[n].create \in Feed!Ids
  BY <1>1, <1>2, FeedTyped
<1>6. \A e \in P : feed[e].create \in Nat /\ feed[e].create <= feed[n].create
  BY <1>2, <1>3, FeedTyped DEF FeedOrder
<1>7. m # NoMark => /\ m \in Feed!Marks /\ m.create \in Feed!Ids /\ m.ids \subseteq Feed!Ids /\ m.ids # {}
                    /\ \A f \in m.ids : feed[f].create = m.create
  BY DEF Feed!MarkOrNone, Feed!Marks, SoundMark
<1> DEFINE s == IF m # NoMark /\ m.create > feed[n].create THEN m.create ELSE feed[n].create
           kept == IF m # NoMark /\ m.create = s THEN m.ids ELSE {}
           here == Feed!At(P, s)
<1>8. k = [create |-> s, ids |-> here \union kept]
  BY <1>4 DEF Feed!NewMark
<1>9. s \in Feed!Ids
  BY <1>5, <1>7
<1>10. here = {e \in P : feed[e].create = s}
  BY DEF Feed!At
<1>11. here \union kept # {}
  <2>1. CASE m # NoMark /\ m.create > feed[n].create
    BY <2>1, <1>7
  <2>2. CASE ~(m # NoMark /\ m.create > feed[n].create)
    BY <2>2, <1>2, <1>10
  <2> QED
    BY <2>1, <2>2
<1>12. k \in Feed!Marks
  BY <1>3, <1>7, <1>8, <1>9, <1>10 DEF Feed!Marks
<1>13. k # NoMark
  BY <1>12 DEF Feed!ConstantsAssumption
<1>14. \A f \in k.ids : feed[f].create = k.create
  BY <1>7, <1>8, <1>10
<1>15. \A e \in P : Feed!Covers(k, e)
  <2> SUFFICES ASSUME NEW e \in P PROVE Feed!Covers(k, e)
    OBVIOUS
  <2>1. feed[e].create <= s /\ feed[e].create \in Nat /\ s \in Nat
    BY <1>5, <1>6, <1>7, <1>9 DEF Feed!Ids
  <2>2. feed[e].create = s => e \in here
    BY <1>10
  <2> HIDE DEF s, here, kept, k, P
  <2> QED
    BY <1>8, <2>1, <2>2 DEF Feed!Covers
<1>16. ASSUME m # NoMark, NEW e \in 1 .. Len(feed), Feed!Covers(m, e) PROVE Feed!Covers(k, e)
  <2>1. feed[e].create \in Nat /\ m.create \in Nat /\ feed[n].create \in Nat
    BY <1>5, <1>7, <1>16, FeedTyped DEF Feed!Ids
  <2>2. m.create <= s /\ s \in Nat
    BY <2>1, <1>16
  <2>3. m.create = s => kept = m.ids
    BY <1>16
  <2> HIDE DEF s, here, kept, k, P
  <2> QED
    BY <1>8, <1>16, <2>1, <2>2, <2>3 DEF Feed!Covers
<1>17. k.ids \subseteq P \union IF m = NoMark THEN {} ELSE m.ids
  BY <1>8, <1>10
<1>18. k.ids # {}
  BY <1>8, <1>11
<1> HIDE DEF k, P
<1> QED
  BY <1>12, <1>13, <1>14, <1>15, <1>16, <1>17, <1>18 DEF k, P

-----------------------------------------------------------------------------
\* Every step that only moves cycles and copies marks keeps LostInv.
LEMMA QuietKeeps ==
  ASSUME Feed!ConstantsAssumption, LostInv, Feed!TypeOK', UNCHANGED <<feed, fired, silent, dropped>>,
         \A g \in Feed!Gens : mark'[g] \in {mark[h] : h \in Feed!Gens} \union {markFile, NoMark},
         markFile' \in {mark[h] : h \in Feed!Gens} \union {markFile, NoMark},
         \A c \in Cycles : step'[c] = "answered" =>
           (step[c] = "answered" /\ page'[c] = page[c]) \/ page'[c] = Feed!Page(Len(feed))
  PROVE  LostInv'
<1>1. FeedOrder'
  BY DEF LostInv, FeedOrder
<1>2. PagesFit'
  <2> SUFFICES ASSUME NEW c \in Cycles, step'[c] = "answered"
               PROVE  \E n \in 0 .. Len(feed') : page'[c] = Feed!Page(n)
    BY DEF PagesFit, Feed!Page
  <2>1. Len(feed) \in 0 .. Len(feed)
    BY FeedTyped DEF LostInv
  <2> QED
    BY <2>1 DEF LostInv, PagesFit
<1>3. SoundMarks'
  <2>1. \A m \in {mark[h] : h \in Feed!Gens} \union {markFile, NoMark} : SoundMark(m)
    BY DEF LostInv, SoundMarks, SoundMark
  <2>2. \A m : m # NoMark /\ SoundMark(m) =>
          /\ m.ids # {}
          /\ \A f \in m.ids : f \in 1 .. Len(feed') /\ feed'[f].create = m.create /\ \A e \in 1 .. f : Told(e)'
    BY DEF SoundMark, Told
  <2> QED
    BY <2>1, <2>2 DEF SoundMarks, SoundMark
<1> QED
  BY <1>1, <1>2, <1>3 DEF LostInv

\* The steps that touch neither the feed nor a page's entries are quiet.
LEMMA LeaveKeeps ==
  ASSUME Feed!ConstantsAssumption, LostInv, NEW c \in Cycles,
         Feed!Drop(c) \/ Feed!Fetch(c) \/ Feed!FetchFails(c) \/ Feed!NothingUsable(c)
           \/ Feed!Save(c) \/ Feed!SaveFails(c)
  PROVE  LostInv'
<1> USE DEF Feed!cycles, Feed!history, Feed!Quit
<1>1. Feed!TypeOK /\ gen \in Feed!Gens /\ of[c] \in Feed!Gens /\ 0 \in Feed!Gens
  BY DEF LostInv, Feed!TypeOK, Feed!Gens, Feed!ConstantsAssumption
<1>2. \A g \in Feed!Gens : mark[g] \in {mark[h] : h \in Feed!Gens}
  OBVIOUS
<1>3. CASE Feed!Drop(c)
  <2>1. Feed!TypeOK'
    BY <1>1, <1>3 DEF Feed!Drop, Feed!TypeOK, Feed!MarkOrNone
  <2>2. UNCHANGED <<feed, fired, silent, dropped, markFile, page>>
    BY <1>3 DEF Feed!Drop
  <2>3. \A g \in Feed!Gens : mark'[g] \in {mark[h] : h \in Feed!Gens} \union {markFile, NoMark}
    BY <1>1, <1>2, <1>3 DEF Feed!Drop, Feed!TypeOK
  <2>4. \A b \in Cycles : step'[b] = "answered" => step[b] = "answered"
    BY <1>1, <1>3 DEF Feed!Drop, Feed!TypeOK
  <2> QED
    BY <2>1, <2>2, <2>3, <2>4, QuietKeeps
<1>4. CASE Feed!Fetch(c)
  <2>1. Feed!TypeOK'
    BY <1>1, <1>4 DEF Feed!Fetch, Feed!TypeOK
  <2>2. UNCHANGED <<feed, fired, silent, dropped, mark, markFile, page>>
    BY <1>4 DEF Feed!Fetch
  <2>3. \A b \in Cycles : step'[b] = "answered" => step[b] = "answered"
    BY <1>1, <1>4 DEF Feed!Fetch, Feed!TypeOK
  <2> QED
    BY <1>2, <2>1, <2>2, <2>3, QuietKeeps
<1>5. CASE Feed!FetchFails(c) \/ Feed!NothingUsable(c) \/ Feed!Save(c) \/ Feed!SaveFails(c)
  <2>1. /\ UNCHANGED <<feed, gen, enabled, mark, fired, before, silent, dropped, baselined>>
        /\ Feed!Quit(c)
        /\ markFile' \in {markFile, mark[of[c]], NoMark}
        /\ mishaps' = mishaps \/ mishaps' = mishaps \union {"unsaved"}
    BY <1>5 DEF Feed!FetchFails, Feed!NothingUsable, Feed!Save, Feed!SaveFails
  <2>2. Feed!TypeOK'
    <3>1. markFile' \in Feed!MarkOrNone /\ mishaps' \subseteq {"unsaved", "retired"}
      BY <1>1, <2>1 DEF Feed!TypeOK, Feed!MarkOrNone
    <3> QED
      BY <1>1, <2>1, <3>1 DEF Feed!TypeOK
  <2>3. \A b \in Cycles : step'[b] = "answered" => step[b] = "answered" /\ page'[b] = page[b]
    BY <1>1, <2>1 DEF Feed!TypeOK
  <2>4. markFile' \in {mark[h] : h \in Feed!Gens} \union {markFile, NoMark}
    BY <1>1, <2>1
  <2> QED
    BY <1>2, <2>1, <2>2, <2>3, <2>4, QuietKeeps
<1> QED
  BY <1>3, <1>4, <1>5

\* A new coordinator restores its mark from the file.
LEMMA RestoreKeeps ==
  ASSUME Feed!ConstantsAssumption, LostInv, Feed!Restart \/ \E o \in SUBSET Kinds : Feed!Reload(o)
  PROVE  LostInv'
<1> USE DEF Feed!cycles, Feed!history
<1>1. Feed!TypeOK /\ gen \in Feed!Gens /\ 0 \in Feed!Gens /\ (gen < MaxReloads => gen + 1 \in Feed!Gens)
  BY DEF LostInv, Feed!TypeOK, Feed!Gens, Feed!ConstantsAssumption
<1>2. /\ UNCHANGED <<feed, fired, before, silent, dropped, baselined, markFile>>
      /\ gen' = gen + 1 /\ gen' \in Feed!Gens /\ mark' = [mark EXCEPT ![gen + 1] = markFile]
      /\ enabled' \subseteq Kinds
      /\ mishaps' \subseteq {"unsaved", "retired"}
  <2> USE DEF Feed!Restart, Feed!Reload, Feed!Restore
  <2>1. mishaps' \subseteq {"unsaved", "retired"}
    BY <1>1 DEF Feed!TypeOK
  <2>2. enabled' \subseteq Kinds
    BY <1>1 DEF Feed!TypeOK
  <2>3. gen < MaxReloads /\ gen' = gen + 1 /\ mark' = [mark EXCEPT ![gen + 1] = markFile]
    OBVIOUS
  <2>4. UNCHANGED <<feed, fired, before, silent, dropped, baselined, markFile>>
    OBVIOUS
  <2> QED
    BY <1>1, <2>1, <2>2, <2>3, <2>4
<1>3. \/ UNCHANGED <<step, of, wants, page>>
      \/ /\ step' = [c \in Cycles |-> "idle"] /\ of' = [c \in Cycles |-> 0]
         /\ wants' = [c \in Cycles |-> {}] /\ page' = [c \in Cycles |-> {}]
  BY DEF Feed!Restart, Feed!Reload
<1>4. Feed!TypeOK'
  <2>1. mark' \in [Feed!Gens -> Feed!MarkOrNone] /\ markFile' \in Feed!MarkOrNone
    BY <1>1, <1>2 DEF Feed!TypeOK
  <2>2. /\ step' \in [Cycles -> {"idle", "asked", "answered", "saving", "removing"}]
        /\ of' \in [Cycles -> Feed!Gens]
        /\ wants' \in [Cycles -> SUBSET Kinds]
        /\ page' \in [Cycles -> SUBSET Feed!Ids]
    BY <1>1, <1>3 DEF Feed!TypeOK
  <2> QED
    BY <1>1, <1>2, <2>1, <2>2 DEF Feed!TypeOK
<1>5. \A g \in Feed!Gens : mark'[g] \in {mark[h] : h \in Feed!Gens} \union {markFile, NoMark}
  BY <1>1, <1>2 DEF Feed!TypeOK
<1>6. \A c \in Cycles : step'[c] = "answered" => step[c] = "answered" /\ page'[c] = page[c]
  BY <1>3
<1> QED
  BY <1>2, <1>4, <1>5, <1>6, QuietKeeps

\* An answer is a page of the feed as it is.
LEMMA AnswerKeeps ==
  ASSUME Feed!ConstantsAssumption, LostInv, NEW c \in Cycles, Feed!Answer(c)
  PROVE  LostInv'
<1> USE DEF Feed!Answer, Feed!history
<1>1. Feed!TypeOK
  BY DEF LostInv
<1>2. Feed!Page(Len(feed)) \subseteq Feed!Ids
  BY <1>1, FeedTyped DEF Feed!Page, Feed!Ids
<1>3. Feed!TypeOK'
  BY <1>1, <1>2 DEF Feed!TypeOK
<1>4. \A b \in Cycles : step'[b] = "answered" =>
        (step[b] = "answered" /\ page'[b] = page[b]) \/ page'[b] = Feed!Page(Len(feed))
  BY <1>1 DEF Feed!TypeOK
<1>5. \A g \in Feed!Gens : mark'[g] \in {mark[h] : h \in Feed!Gens}
  OBVIOUS
<1> QED
  BY <1>3, <1>4, <1>5, QuietKeeps

\* The backend logs an entry at the end, no earlier than the last one.
LEMMA RecordKeeps ==
  ASSUME Feed!ConstantsAssumption, LostInv, NEW k \in Kinds, Feed!Record(k)
  PROVE  LostInv'
<1> USE DEF Feed!cycles, Feed!history
<1> DEFINE last == IF feed = <<>> THEN 0 ELSE feed[Len(feed)].create
<1>1. Feed!TypeOK /\ FeedOrder
  BY DEF LostInv
<1>2. PICK s \in {last, last + 1} \ {0} : feed' = Append(feed, [create |-> s, kind |-> k])
  BY DEF Feed!Record
<1>3. /\ Len(feed) < MaxEntries
      /\ UNCHANGED <<gen, enabled, mark, markFile, step, of, wants, page, fired, before, silent, dropped,
                     baselined, mishaps>>
  BY DEF Feed!Record
<1> DEFINE x == [create |-> s, kind |-> k]
           n == Len(feed)
<1>4. n \in Nat /\ n < MaxEntries /\ MaxEntries \in Nat /\ \A i \in 1 .. n : feed[i].create \in Nat
  BY <1>1, <1>3, FeedTyped
<1>5. last \in 0 .. n /\ \A i \in 1 .. n : feed[i].create <= last
  <2>1. CASE feed = <<>>
    BY <2>1, <1>4
  <2>2. CASE feed # <<>>
    <3>1. n >= 1 /\ last = feed[n].create
      BY <2>2, <1>1, <1>4 DEF Feed!TypeOK
    <3> QED
      BY <1>1, <1>4, <3>1 DEF FeedOrder
  <2> QED
    BY <2>1, <2>2
<1>6. s \in Nat /\ s >= 1 /\ s <= n + 1 /\ last <= s
  BY <1>4, <1>5
<1> HIDE DEF last
<1>7. /\ Len(feed') = n + 1 /\ feed'[n + 1] = x
      /\ \A i \in 1 .. n : feed'[i] = feed[i]
  <2>1. feed \in Seq([create : Feed!Ids, kind : Kinds])
    BY <1>1 DEF Feed!TypeOK
  <2> HIDE DEF x
  <2> QED
    BY <1>2, <2>1 DEF x
<1>8. Feed!TypeOK'
  <2>1. x \in [create : Feed!Ids, kind : Kinds]
    BY <1>4, <1>6 DEF Feed!Ids
  <2>2. feed' \in Seq([create : Feed!Ids, kind : Kinds])
    <3> DEFINE E == [create : Feed!Ids, kind : Kinds]
    <3>1. feed \in Seq(E) /\ x \in E /\ feed' = Append(feed, x)
      BY <1>1, <1>2, <2>1 DEF Feed!TypeOK
    <3> HIDE DEF E, x
    <3>2. feed' \in Seq(E)
      BY <3>1
    <3> QED
      BY <3>2 DEF E
  <2>3. Len(feed') <= MaxEntries
    BY <1>4, <1>7
  <2> QED
    BY <1>1, <1>3, <2>2, <2>3 DEF Feed!TypeOK
<1>9. FeedOrder'
  <2> SUFFICES ASSUME NEW i \in 1 .. n + 1, NEW j \in i .. n + 1
               PROVE  feed'[i].create <= i /\ feed'[i].create <= feed'[j].create
    BY <1>7 DEF FeedOrder
  <2>1. CASE i = n + 1
    BY <2>1, <1>4, <1>6, <1>7
  <2>2. CASE i # n + 1 /\ j = n + 1
    <3>1. i \in 1 .. n
      BY <2>2, <1>4
    <3> QED
      BY <2>2, <3>1, <1>1, <1>4, <1>5, <1>6, <1>7 DEF FeedOrder
  <2>3. CASE j # n + 1
    <3>1. i \in 1 .. n /\ j \in i .. n /\ j \in 1 .. n
      BY <2>3, <1>4
    <3> QED
      BY <3>1, <1>1, <1>7 DEF FeedOrder
  <2> QED
    BY <2>1, <2>2, <2>3
<1>10. PagesFit'
  BY <1>3, <1>4, <1>7 DEF LostInv, PagesFit, Feed!Page
<1>11. SoundMarks'
  <2>1. \A m : m # NoMark /\ SoundMark(m) =>
          /\ m.ids # {}
          /\ \A f \in m.ids : f \in 1 .. Len(feed') /\ feed'[f].create = m.create /\ \A e \in 1 .. f : Told(e)'
    BY <1>3, <1>4, <1>7 DEF SoundMark, Told
  <2> QED
    BY <2>1, <1>3 DEF LostInv, SoundMarks, SoundMark
<1> QED
  BY <1>8, <1>9, <1>10, <1>11 DEF LostInv

-----------------------------------------------------------------------------
\* What a cycle makes of its page, with the page as an interval.
LEMMA ProcessFacts ==
  ASSUME Feed!ConstantsAssumption, LostInv, NEW c \in Cycles, Feed!Process(c)
  PROVE  LET m   == mark[of[c]]
             new == Feed!NewEntries(page[c], m)
             k   == Feed!NewMark(page[c], m)
         IN  \E n \in 1 .. Len(feed), low \in 1 .. Len(feed) :
               /\ page[c] = Feed!Page(n) /\ page[c] = low .. n
               /\ (low > 1 /\ new = page[c]) => 1 .. low - 1 \subseteq dropped'
               /\ \A e \in new : e \in dropped' \/ fired'[e] > 0
               /\ m = NoMark => 1 .. n \subseteq silent'
               /\ m # NoMark => silent' = silent
               /\ silent \subseteq silent' /\ silent' \subseteq Feed!Ids
               /\ dropped \subseteq dropped' /\ dropped' \subseteq Feed!Ids
               /\ mark' = [mark EXCEPT ![of[c]] = k]
<1> DEFINE m   == mark[of[c]]
           new == Feed!NewEntries(page[c], m)
           k   == Feed!NewMark(page[c], m)
           say == {e \in new : feed[e].kind \in wants[c]}
           off == {e \in new : feed[e].kind \notin wants[c]}
           oldest == CHOOSE e \in page[c] : \A f \in page[c] : e <= f
           newest == CHOOSE e \in page[c] : \A f \in page[c] : f <= e
           hidden == IF new = page[c] /\ Cardinality(new) = Limit THEN 1 .. oldest - 1 ELSE {}
<1>1. Feed!TypeOK /\ step[c] = "answered" /\ page[c] # {}
  BY DEF LostInv, Feed!Process
<1>2. PICK n \in 0 .. Len(feed) : page[c] = Feed!Page(n)
  BY <1>1 DEF LostInv, PagesFit
<1>3. n \in Nat /\ Limit \in Nat \ {0} /\ Len(feed) \in Nat /\ Len(feed) <= MaxEntries /\ MaxEntries \in Nat
  BY <1>1, FeedTyped DEF Feed!ConstantsAssumption
<1>4. /\ n >= 1 /\ newest = n /\ oldest \in 1 .. n /\ page[c] = oldest .. n
      /\ oldest > 1 => Cardinality(page[c]) = Limit
  BY <1>1, <1>2, <1>3, PageRange
<1>5. /\ fired' = [e \in Feed!Ids |-> fired[e] + IF e \in say THEN 1 ELSE 0]
      /\ silent' = IF m = NoMark THEN silent \union 1 .. newest ELSE silent
      /\ dropped' = dropped \union hidden \union off
      /\ mark' = [mark EXCEPT ![of[c]] = k]
  <2>1. fired' = [e \in Feed!Ids |-> fired[e] + IF e \in say THEN 1 ELSE 0]
    BY DEF Feed!Process
  <2>2. Feed!Pass(c, new) /\ mark' = [mark EXCEPT ![of[c]] = k]
    BY DEF Feed!Process
  <2>3. silent' = (IF m = NoMark THEN silent \union 1 .. newest ELSE silent) /\ dropped' = dropped \union hidden \union off
    BY <2>2, SameCardinality DEF Feed!Pass
  <2> QED
    BY <2>1, <2>2, <2>3
<1>6. new \subseteq page[c] /\ page[c] \subseteq Feed!Ids
  BY <1>1 DEF Feed!NewEntries, Feed!TypeOK
<1> HIDE DEF k, oldest, newest
<1>7. \A e \in new : e \in dropped' \/ fired'[e] > 0
  <2> SUFFICES ASSUME NEW e \in new, e \in say PROVE fired'[e] > 0
    BY <1>5
  <2> HIDE DEF say, new
  <2>1. e \in Feed!Ids /\ fired[e] \in Nat
    BY <1>1, <1>6 DEF Feed!TypeOK
  <2> QED
    BY <1>5, <2>1
<1> HIDE DEF new, m
<1>8. hidden \subseteq Feed!Ids /\ off \subseteq Feed!Ids /\ 1 .. n \subseteq Feed!Ids
  BY <1>2, <1>3, <1>4, <1>6 DEF Feed!Ids
<1>9. /\ silent \subseteq silent' /\ silent' \subseteq Feed!Ids
      /\ dropped \subseteq dropped' /\ dropped' \subseteq Feed!Ids
  BY <1>1, <1>4, <1>5, <1>8 DEF Feed!TypeOK
<1>10. (oldest > 1 /\ new = page[c]) => 1 .. oldest - 1 \subseteq dropped'
  BY <1>4, <1>5
<1>11. (m = NoMark => 1 .. n \subseteq silent') /\ (m # NoMark => silent' = silent)
  BY <1>4, <1>5
<1>12. n \in 1 .. Len(feed) /\ oldest \in 1 .. Len(feed)
  BY <1>2, <1>3, <1>4
<1> QED
  BY <1>2, <1>4, <1>5, <1>7, <1>9, <1>10, <1>11, <1>12 DEF m, new, k

\* Processing a page leaves types in order.
LEMMA ProcessTyped ==
  ASSUME Feed!ConstantsAssumption, LostInv, NEW c \in Cycles, Feed!Process(c)
  PROVE  Feed!TypeOK' /\ of[c] \in Feed!Gens /\ mark[of[c]] \in Feed!MarkOrNone
<1> DEFINE say == {e \in Feed!NewEntries(page[c], mark[of[c]]) : feed[e].kind \in wants[c]}
<1>1. Feed!TypeOK /\ of[c] \in Feed!Gens /\ 0 \in Feed!Gens /\ mark[of[c]] \in Feed!MarkOrNone
  BY DEF LostInv, Feed!TypeOK, Feed!Gens, Feed!ConstantsAssumption
<1>2. PICK n \in 1 .. Len(feed) : page[c] = Feed!Page(n)
  BY ProcessFacts
<1>3. Feed!NewMark(page[c], mark[of[c]]) \in Feed!Marks
  <2>1. SoundMark(mark[of[c]]) /\ FeedOrder
    BY <1>1 DEF LostInv, SoundMarks
  <2>2. Feed!Page(n) # {} /\ n \in 0 .. Len(feed)
    BY <1>1, <1>2, FeedTyped DEF Feed!Process
  <2> QED
    BY <1>1, <1>2, <2>1, <2>2, MarkAdvances
<1>4. mark' \in [Feed!Gens -> Feed!MarkOrNone]
  <2> DEFINE k == Feed!NewMark(page[c], mark[of[c]])
  <2>1. mark' = [mark EXCEPT ![of[c]] = k]
    BY DEF Feed!Process
  <2>2. k \in Feed!MarkOrNone
    BY <1>3 DEF Feed!MarkOrNone
  <2> HIDE DEF k
  <2> QED
    BY <1>1, <2>1, <2>2 DEF Feed!TypeOK
<1>5. fired' \in [Feed!Ids -> Nat]
  <2>1. fired' = [e \in Feed!Ids |-> fired[e] + IF e \in say THEN 1 ELSE 0]
    BY DEF Feed!Process
  <2> HIDE DEF say
  <2>2. \A e \in Feed!Ids : fired[e] \in Nat
    BY <1>1 DEF Feed!TypeOK
  <2> QED
    BY <2>1, <2>2
<1>6. silent' \subseteq Feed!Ids /\ dropped' \subseteq Feed!Ids /\ baselined' \in BOOLEAN
  <2>1. baselined' \in BOOLEAN
    BY DEF Feed!Process, Feed!Pass
  <2> QED
    BY <2>1, ProcessFacts
<1>7. UNCHANGED <<feed, gen, enabled, markFile, before, mishaps>>
  BY DEF Feed!Process
<1>8. \/ Feed!Quit(c)
      \/ /\ step' = [step EXCEPT ![c] = "saving"]
         /\ page' = [page EXCEPT ![c] = {}] /\ wants' = [wants EXCEPT ![c] = {}]
         /\ UNCHANGED of
  BY DEF Feed!Process
<1>9. /\ step' \in [Cycles -> {"idle", "asked", "answered", "saving", "removing"}]
      /\ of' \in [Cycles -> Feed!Gens]
      /\ wants' \in [Cycles -> SUBSET Kinds]
      /\ page' \in [Cycles -> SUBSET Feed!Ids]
  BY <1>1, <1>8 DEF Feed!Quit, Feed!TypeOK
<1> QED
  BY <1>1, <1>4, <1>5, <1>6, <1>7, <1>9 DEF Feed!TypeOK

\* Every entry up to the newest of the page is accounted for afterwards: an
\* entry that the page does not show lies beyond a full page of new entries,
\* or before an entry that the old mark covered.
LEMMA ProcessTells ==
  ASSUME Feed!ConstantsAssumption, LostInv, NEW c \in Cycles, Feed!Process(c),
         NEW f \in page[c], NEW e \in 1 .. f
  PROVE  Told(e)'
<1> DEFINE m   == mark[of[c]]
           new == Feed!NewEntries(page[c], m)
<1>1. PICK n \in 1 .. Len(feed), low \in 1 .. Len(feed) :
        /\ page[c] = low .. n
        /\ (low > 1 /\ new = page[c]) => 1 .. low - 1 \subseteq dropped'
        /\ \A d \in new : d \in dropped' \/ fired'[d] > 0
        /\ m = NoMark => 1 .. n \subseteq silent'
        /\ silent \subseteq silent' /\ dropped \subseteq dropped'
  BY ProcessFacts
<1>2. Feed!TypeOK /\ FeedOrder /\ Len(feed) \in Nat /\ m \in Feed!MarkOrNone /\ SoundMark(m)
  BY ProcessTyped, FeedTyped DEF LostInv, SoundMarks
<1>3. f \in 1 .. n /\ e \in 1 .. n /\ e \in 1 .. Len(feed)
  BY <1>1, <1>2
<1>4. \A d \in 1 .. Len(feed) : Told(d) => Told(d)'
  <2> SUFFICES ASSUME NEW d \in 1 .. Len(feed), fired[d] > 0 PROVE fired'[d] > 0
    BY <1>1 DEF Told
  <2> DEFINE say == {i \in new : feed[i].kind \in wants[c]}
  <2>1. fired' = [i \in Feed!Ids |-> fired[i] + IF i \in say THEN 1 ELSE 0]
    BY DEF Feed!Process
  <2> HIDE DEF say
  <2>2. d \in Feed!Ids /\ fired[d] \in Nat
    BY <1>2, FeedTyped DEF Feed!TypeOK
  <2> QED
    BY <2>1, <2>2
<1> HIDE DEF m
<1>5. CASE m = NoMark
  BY <1>1, <1>3, <1>5 DEF Told
<1>6. CASE m # NoMark
  <2>1. m \in Feed!Marks /\ new = {d \in page[c] : ~Feed!Covers(m, d)}
    BY <1>2, <1>6 DEF Feed!MarkOrNone, Feed!NewEntries
  <2> HIDE DEF new
  <2>2. ASSUME NEW h \in page[c], h \notin new, e <= h PROVE Told(e)'
    <3>1. h \in 1 .. Len(feed) /\ Feed!Covers(m, h) /\ e \in 1 .. h
      BY <1>1, <1>2, <1>3, <2>1, <2>2
    <3> QED
      BY <1>2, <1>3, <1>4, <1>6, <2>1, <3>1, CoveredTold
  <2>3. CASE e \in new
    BY <1>1, <2>3 DEF Told
  <2>4. CASE e \in page[c] /\ e \notin new
    BY <1>3, <2>2, <2>4
  <2>5. CASE e \notin page[c] /\ new = page[c]
    <3>1. low > 1 /\ e \in 1 .. low - 1
      BY <1>1, <1>3, <2>5
    <3> QED
      BY <1>1, <2>5, <3>1 DEF Told
  <2>6. CASE e \notin page[c] /\ new # page[c]
    <3>1. PICK h \in page[c] : h \notin new
      BY <2>1, <2>6
    <3>2. e <= h
      BY <1>1, <1>3, <2>6, <3>1
    <3> QED
      BY <2>2, <3>1, <3>2
  <2> QED
    BY <2>3, <2>4, <2>5, <2>6
<1> QED
  BY <1>5, <1>6

\* So a processed page keeps every mark sound.
LEMMA ProcessKeeps ==
  ASSUME Feed!ConstantsAssumption, LostInv, NEW c \in Cycles, Feed!Process(c)
  PROVE  LostInv'
<1> DEFINE m == mark[of[c]]
           k == Feed!NewMark(page[c], m)
<1>1. Feed!TypeOK /\ FeedOrder /\ SoundMarks /\ Len(feed) \in Nat
  BY FeedTyped DEF LostInv
<1>2. Feed!TypeOK' /\ of[c] \in Feed!Gens /\ m \in Feed!MarkOrNone /\ SoundMark(m)
  BY <1>1, ProcessTyped DEF SoundMarks
<1>3. PICK n \in 1 .. Len(feed) :
        /\ page[c] = Feed!Page(n) /\ page[c] \subseteq 1 .. n
        /\ silent \subseteq silent' /\ dropped \subseteq dropped'
        /\ mark' = [mark EXCEPT ![of[c]] = k]
  BY ProcessFacts
<1>4. UNCHANGED <<feed, markFile>> /\ page[c] # {}
  BY DEF Feed!Process
<1>5. FeedOrder'
  BY <1>1, <1>4 DEF FeedOrder
<1>6. PagesFit'
  <2>1. \A b \in Cycles : step'[b] = "answered" => step[b] = "answered" /\ page'[b] = page[b]
    BY <1>1 DEF Feed!Process, Feed!Quit, Feed!TypeOK
  <2> QED
    BY <1>4, <2>1 DEF LostInv, PagesFit, Feed!Page
<1>7. /\ k.ids # {} /\ k.ids \subseteq page[c] \union IF m = NoMark THEN {} ELSE m.ids
      /\ \A f \in k.ids : feed[f].create = k.create
  <2>1. n \in 0 .. Len(feed)
    BY <1>1
  <2> HIDE DEF m
  <2> QED
    BY <1>1, <1>2, <1>3, <1>4, <2>1, MarkAdvances DEF k
<1>8. \A d \in 1 .. Len(feed) : Told(d) => Told(d)'
  <2> SUFFICES ASSUME NEW d \in 1 .. Len(feed), fired[d] > 0 PROVE fired'[d] > 0
    BY <1>3 DEF Told
  <2> DEFINE say == {i \in Feed!NewEntries(page[c], m) : feed[i].kind \in wants[c]}
  <2>1. fired' = [i \in Feed!Ids |-> fired[i] + IF i \in say THEN 1 ELSE 0]
    BY DEF Feed!Process
  <2> HIDE DEF say
  <2>2. d \in Feed!Ids /\ fired[d] \in Nat
    BY <1>1, FeedTyped DEF Feed!TypeOK
  <2> QED
    BY <2>1, <2>2
<1>9. \A l : l # NoMark /\ SoundMark(l) =>
        /\ l.ids # {}
        /\ \A f \in l.ids : f \in 1 .. Len(feed') /\ feed'[f].create = l.create /\ \A e \in 1 .. f : Told(e)'
  BY <1>1, <1>4, <1>8 DEF SoundMark
<1>10. \A f \in k.ids : f \in 1 .. Len(feed') /\ feed'[f].create = k.create /\ \A e \in 1 .. f : Told(e)'
  <2> SUFFICES ASSUME NEW f \in k.ids
               PROVE  f \in 1 .. Len(feed') /\ feed'[f].create = k.create /\ \A e \in 1 .. f : Told(e)'
    OBVIOUS
  <2> HIDE DEF k
  <2>1. CASE f \in page[c]
    BY <1>1, <1>3, <1>4, <1>7, <2>1, ProcessTells
  <2>2. CASE m # NoMark /\ f \in m.ids
    <3> HIDE DEF m
    <3> QED
      BY <1>2, <1>4, <1>7, <1>9, <2>2
  <2> QED
    BY <1>7, <2>1, <2>2
<1>11. SoundMarks'
  <2>1. SoundMark(markFile)' 
    <3>1. \A l : l = markFile => (l # NoMark => SoundMark(l))
      BY <1>1 DEF SoundMarks
    <3> QED
      BY <1>4, <1>9, <3>1 DEF SoundMark
  <2>2. ASSUME NEW g \in Feed!Gens PROVE SoundMark(mark[g])'
    <3>1. CASE g = of[c]
      <4>1. mark'[g] = k
        BY <1>1, <1>2, <1>3, <3>1 DEF Feed!TypeOK
      <4> HIDE DEF k
      <4> QED
        BY <1>7, <1>10, <4>1 DEF SoundMark
    <3>2. CASE g # of[c]
      <4>1. mark'[g] = mark[g] /\ SoundMark(mark[g])
        BY <1>1, <1>2, <1>3, <3>2 DEF Feed!TypeOK, SoundMarks
      <4> QED
        BY <1>9, <4>1 DEF SoundMark
    <3> QED
      BY <3>1, <3>2
  <2> QED
    BY <2>1, <2>2 DEF SoundMarks
<1> QED
  BY <1>2, <1>5, <1>6, <1>11 DEF LostInv
-----------------------------------------------------------------------------
\* Nothing is in flight and nothing is marked in the beginning.
LEMMA FeedInit ==
  ASSUME Feed!ConstantsAssumption, Feed!Init
  PROVE  LostInv
<1> USE DEF Feed!Init
<1>1. Feed!TypeOK
  <2>1. <<>> \in Seq([create : Feed!Ids, kind : Kinds]) /\ Len(<<>>) = 0 /\ 0 \in Feed!Gens /\ 0 <= MaxEntries
    BY DEF Feed!ConstantsAssumption, Feed!Gens
  <2>2. before \in [Feed!Ids -> Nat] /\ fired \in [Feed!Ids -> Nat]
    OBVIOUS
  <2>3. feed \in Seq([create : Feed!Ids, kind : Kinds]) /\ Len(feed) <= MaxEntries
    BY <2>1
  <2> QED
    BY <2>1, <2>2, <2>3 DEF Feed!TypeOK, Feed!MarkOrNone
<1>2. FeedOrder
  BY DEF FeedOrder
<1>3. PagesFit
  BY DEF PagesFit
<1>4. SoundMarks
  BY DEF SoundMarks, SoundMark
<1> QED
  BY <1>1, <1>2, <1>3, <1>4 DEF LostInv

\* Every step keeps LostInv.
LEMMA FeedStep ==
  ASSUME Feed!ConstantsAssumption, LostInv, [Feed!Next]_Feed!vars
  PROVE  LostInv'
<1>1. ASSUME NEW k \in Kinds, Feed!Record(k) PROVE LostInv'
  BY <1>1, RecordKeeps
<1>2. CASE Feed!Restart \/ \E o \in SUBSET Kinds : Feed!Reload(o)
  BY <1>2, RestoreKeeps
<1>3. ASSUME NEW c \in Cycles,
             \/ Feed!Drop(c) \/ Feed!Fetch(c) \/ Feed!FetchFails(c) \/ Feed!NothingUsable(c)
             \/ Feed!Save(c) \/ Feed!SaveFails(c)
      PROVE  LostInv'
  BY <1>3, LeaveKeeps
<1>4. ASSUME NEW c \in Cycles, Feed!Answer(c) PROVE LostInv'
  BY <1>4, AnswerKeeps
<1>5. ASSUME NEW c \in Cycles, Feed!Process(c) PROVE LostInv'
  BY <1>5, ProcessKeeps
<1>6. CASE UNCHANGED Feed!vars
  BY <1>6 DEF LostInv, FeedOrder, PagesFit, SoundMarks, SoundMark, Told, Feed!TypeOK, Feed!Page,
              Feed!vars, Feed!cycles, Feed!history
<1> QED
  BY <1>1, <1>2, <1>3, <1>4, <1>5, <1>6 DEF Feed!Next

\* The inductive invariant holds of every behaviour.
THEOREM FeedInductive == Feed!ConstantsAssumption /\ Feed!Spec => []LostInv
<1> SUFFICES ASSUME Feed!ConstantsAssumption PROVE Feed!Spec => []LostInv
  OBVIOUS
<1>1. Feed!Init => LostInv
  BY FeedInit
<1>2. LostInv /\ [Feed!Next]_Feed!vars => LostInv'
  BY FeedStep
<1> QED
  BY <1>1, <1>2, PTL DEF Feed!Spec

\* The feed's variables stay in their ranges.
THEOREM FeedTypes == Feed!ConstantsAssumption /\ Feed!Spec => []Feed!TypeOK
<1>1. LostInv => Feed!TypeOK
  BY DEF LostInv
<1> QED
  BY <1>1, FeedInductive, PTL

\* What a mark passes is accounted for.
THEOREM NothingIsLost == Feed!ConstantsAssumption /\ Feed!Spec => []NothingLost
<1> SUFFICES ASSUME Feed!ConstantsAssumption PROVE Feed!Spec => []NothingLost
  OBVIOUS
<1>1. LostInv => NothingLost
  <2> SUFFICES ASSUME LostInv, NEW e \in 1 .. Len(feed), mark[gen] # NoMark, Feed!Covers(mark[gen], e)
               PROVE  Told(e)
    BY DEF NothingLost, Told, Covers, Feed!Covers
  <2>1. Feed!TypeOK /\ FeedOrder /\ gen \in Feed!Gens /\ SoundMark(mark[gen])
    BY DEF LostInv, SoundMarks, Feed!TypeOK
  <2>2. mark[gen] \in Feed!Marks
    BY <2>1 DEF Feed!TypeOK, Feed!MarkOrNone
  <2>3. e \in 1 .. e
    BY <2>1, FeedTyped
  <2> QED
    BY <2>1, <2>2, <2>3, CoveredTold
<1>2. Feed!Spec => []LostInv
  BY FeedInductive
<1> QED
  BY <1>1, <1>2, PTL

-----------------------------------------------------------------------------
(* An entry fires once between two drops of the mark.                      *)

\* The live mark has passed e.
Passed(e) == e \in 1 .. Len(feed) /\ mark[gen] # NoMark /\ Feed!Covers(mark[gen], e)

\* Without mishaps the cycles belong to the live coordinator, and either all
\* of them drop its mark or none does.
LiveCycles ==
  \A c \in Cycles : step[c] # "idle" =>
    /\ of[c] = gen
    /\ step[c] = "removing" <=> enabled = {}
    /\ step[c] = "removing" => mark[gen] = NoMark

\* The file is behind only while a cycle has the write before it.
FileFollows == (\A c \in Cycles : step[c] \notin {"saving", "removing"}) => markFile = mark[gen]

\* An entry that fired since the last drop has been passed.
FiredPassed ==
  \A e \in Feed!Ids : /\ before[e] <= fired[e] /\ fired[e] <= before[e] + 1
                      /\ before[e] < fired[e] => Passed(e)

MarkIsSet == baselined => mark[gen] # NoMark

OnceInv == mishaps = {} => LiveCycles /\ FileFollows /\ FiredPassed /\ MarkIsSet

\* A step that fires nothing and keeps the live mark.
LEMMA SameMark ==
  ASSUME Feed!ConstantsAssumption, LostInv, FiredPassed, MarkIsSet,
         UNCHANGED <<fired, before, baselined>>, mark'[gen'] = mark[gen],
         feed' = feed \/ \E k \in Kinds : Feed!Record(k)
  PROVE  FiredPassed' /\ MarkIsSet'
<1>1. Len(feed) \in Nat /\ feed \in Seq([create : Feed!Ids, kind : Kinds])
  BY FeedTyped DEF LostInv, Feed!TypeOK
<1>2. \A e \in 1 .. Len(feed) : e \in 1 .. Len(feed') /\ feed'[e] = feed[e]
  <2>1. CASE feed' = feed
    BY <2>1
  <2>2. CASE \E k \in Kinds : Feed!Record(k)
    <3>1. PICK x : feed' = Append(feed, x)
      BY <2>2 DEF Feed!Record
    <3> DEFINE R == [create : Feed!Ids, kind : Kinds]
               E == R \union {x}
    <3>2. feed \in Seq(E) /\ x \in E
      <4>1. feed \in Seq(R)
        BY <1>1
      <4> HIDE DEF R
      <4>2. \A i \in 1 .. Len(feed) : feed[i] \in E
        BY <4>1
      <4> QED
        BY <4>1, <4>2
    <3> HIDE DEF E
    <3> QED
      BY <1>1, <3>1, <3>2
  <2> QED
    BY <2>1, <2>2
<1>3. \A e : Passed(e) => Passed(e)'
  BY <1>2 DEF Passed, Feed!Covers
<1> QED
  BY <1>3 DEF FiredPassed, MarkIsSet

\* All categories off: every entry may fire once more.
LEMMA DropOnce ==
  ASSUME Feed!ConstantsAssumption, LostInv, OnceInv, NEW c \in Cycles, Feed!Drop(c)
  PROVE  OnceInv'
<1> USE DEF Feed!Drop
<1>1. Feed!TypeOK /\ gen \in Feed!Gens
  BY DEF LostInv, Feed!TypeOK
<1> SUFFICES ASSUME mishaps = {} PROVE LiveCycles' /\ FileFollows' /\ FiredPassed' /\ MarkIsSet'
  BY DEF OnceInv
<1>2. mark'[gen'] = NoMark /\ gen' = gen /\ enabled' = enabled /\ enabled = {}
  BY <1>1 DEF Feed!TypeOK
<1>3. LiveCycles /\ step \in [Cycles -> {"idle", "asked", "answered", "saving", "removing"}]
         /\ of \in [Cycles -> Feed!Gens]
  BY <1>1 DEF OnceInv, Feed!TypeOK
<1>4. LiveCycles'
  BY <1>2, <1>3 DEF LiveCycles
<1>5. FileFollows'
  BY <1>3 DEF FileFollows
<1>6. FiredPassed' /\ MarkIsSet'
  <2>1. \A e \in Feed!Ids : fired[e] \in Nat
    BY <1>1 DEF Feed!TypeOK
  <2>2. before' = fired /\ fired' = fired /\ baselined' = FALSE
    OBVIOUS
  <2> QED
    BY <2>1, <2>2 DEF FiredPassed, MarkIsSet
<1> QED
  BY <1>4, <1>5, <1>6

\* What the cycle fires it had not passed, and the mark passes it now.
LEMMA ProcessOnce ==
  ASSUME Feed!ConstantsAssumption, LostInv, OnceInv, NEW c \in Cycles, Feed!Process(c)
  PROVE  OnceInv' /\ (mishaps = {} /\ baselined => silent' = silent)
<1> DEFINE m   == mark[of[c]]
           k   == Feed!NewMark(page[c], m)
           new == Feed!NewEntries(page[c], m)
           say == {e \in new : feed[e].kind \in wants[c]}
<1>1. Feed!TypeOK /\ gen \in Feed!Gens /\ FeedOrder /\ step[c] = "answered" /\ page[c] # {}
  BY DEF LostInv, Feed!TypeOK, Feed!Process
<1>2. mishaps' = mishaps /\ gen' = gen /\ enabled' = enabled /\ feed' = feed /\ markFile' = markFile /\ before' = before
  BY DEF Feed!Process
<1>3. PICK n \in 1 .. Len(feed) :
        page[c] = Feed!Page(n) /\ (m # NoMark => silent' = silent) /\ mark' = [mark EXCEPT ![of[c]] = k]
  BY ProcessFacts
<1>4. of[c] \in Feed!Gens /\ m \in Feed!MarkOrNone /\ SoundMark(m) /\ n \in 0 .. Len(feed)
  BY ProcessTyped, FeedTyped DEF LostInv, SoundMarks
<1>5. /\ k # NoMark /\ \A e \in page[c] : Feed!Covers(k, e)
      /\ m # NoMark => \A e \in 1 .. Len(feed) : Feed!Covers(m, e) => Feed!Covers(k, e)
  <2> HIDE DEF m
  <2> QED
    BY <1>1, <1>3, <1>4, MarkAdvances DEF k
<1>6. fired' = [e \in Feed!Ids |-> fired[e] + IF e \in say THEN 1 ELSE 0]
  BY DEF Feed!Process
<1>7. (mark' = mark /\ Feed!Quit(c)) \/ (step' = [step EXCEPT ![c] = "saving"] /\ of' = of)
  BY DEF Feed!Process
<1>8. baselined' = (baselined \/ m = NoMark)
  BY DEF Feed!Process, Feed!Pass
<1> HIDE DEF k
<1> SUFFICES ASSUME mishaps = {}
             PROVE  LiveCycles' /\ FileFollows' /\ FiredPassed' /\ MarkIsSet' /\ (baselined => silent' = silent)
  BY <1>2 DEF OnceInv
<1>9. LiveCycles /\ FileFollows /\ FiredPassed /\ MarkIsSet
  BY DEF OnceInv
<1>10. of[c] = gen /\ enabled # {} /\ mark'[gen'] = k
  BY <1>1, <1>2, <1>3, <1>9 DEF LiveCycles, Feed!TypeOK
<1>11. LiveCycles'
  <2> SUFFICES ASSUME NEW b \in Cycles, step'[b] # "idle"
               PROVE  of'[b] = gen /\ step'[b] # "removing"
    BY <1>2, <1>10 DEF LiveCycles
  <2>1. CASE b = c
    BY <1>1, <1>7, <1>10, <2>1 DEF Feed!Quit, Feed!TypeOK
  <2>2. CASE b # c
    <3>1. step'[b] = step[b] /\ of'[b] = of[b]
      BY <1>1, <1>7, <2>2 DEF Feed!Quit, Feed!TypeOK
    <3> QED
      BY <1>9, <1>10, <3>1 DEF LiveCycles
  <2> QED
    BY <2>1, <2>2
<1>12. FileFollows'
  <2>1. CASE mark' = mark /\ Feed!Quit(c)
    <3>1. \A b \in Cycles : b # c => step'[b] = step[b]
      BY <1>1, <2>1 DEF Feed!Quit, Feed!TypeOK
    <3> QED
      BY <1>1, <1>2, <1>9, <2>1, <3>1 DEF FileFollows
  <2>2. CASE step' = [step EXCEPT ![c] = "saving"]
    BY <1>1, <2>2 DEF FileFollows, Feed!TypeOK
  <2> QED
    BY <1>7, <2>1, <2>2
<1>13. FiredPassed'
  <2> SUFFICES ASSUME NEW e \in Feed!Ids
               PROVE  /\ before'[e] <= fired'[e] /\ fired'[e] <= before'[e] + 1
                      /\ before'[e] < fired'[e] => Passed(e)'
    BY DEF FiredPassed
  <2>1. /\ fired[e] \in Nat /\ before[e] \in Nat
        /\ before[e] <= fired[e] /\ fired[e] <= before[e] + 1
        /\ before[e] < fired[e] => Passed(e)
    BY <1>1, <1>9 DEF Feed!TypeOK, FiredPassed
  <2>2. Passed(e)' <=> e \in 1 .. Len(feed) /\ Feed!Covers(k, e)
    BY <1>2, <1>5, <1>10 DEF Passed, Feed!Covers
  <2>3. CASE e \in say
    <3>1. m # NoMark /\ e \in page[c] /\ ~Feed!Covers(m, e)
      BY <2>3 DEF Feed!NewEntries
    <3>2. ~Passed(e)
      BY <1>10, <3>1 DEF Passed
    <3>3. e \in 1 .. Len(feed)
      BY <1>3, <1>4, <3>1, FeedTyped, <1>1 DEF Feed!Page
    <3>4. Passed(e)'
      BY <1>5, <2>2, <3>1, <3>3
    <3>5. fired'[e] = fired[e] + 1
      <4> HIDE DEF say
      <4> QED
        BY <1>6, <2>3
    <3> QED
      BY <1>2, <2>1, <3>2, <3>4, <3>5
  <2>4. CASE e \notin say
    <3>1. fired'[e] = fired[e]
      <4> HIDE DEF say
      <4> QED
        BY <1>6, <2>1, <2>4
    <3>2. Passed(e) => Passed(e)'
      BY <1>5, <1>10, <2>2 DEF Passed
    <3> QED
      BY <1>2, <2>1, <3>1, <3>2
  <2> QED
    BY <2>3, <2>4
<1>14. MarkIsSet'
  BY <1>5, <1>10 DEF MarkIsSet
<1>15. baselined => silent' = silent
  BY <1>3, <1>9, <1>10 DEF MarkIsSet
<1> QED
  BY <1>11, <1>12, <1>13, <1>14, <1>15

\* The other steps of a cycle.
LEMMA MoveOnce ==
  ASSUME Feed!ConstantsAssumption, LostInv, OnceInv, NEW c \in Cycles,
         Feed!Fetch(c) \/ Feed!Answer(c) \/ Feed!FetchFails(c) \/ Feed!NothingUsable(c)
           \/ Feed!Save(c) \/ Feed!SaveFails(c)
  PROVE  OnceInv'
<1> USE DEF Feed!cycles, Feed!history, Feed!Quit
<1>1. Feed!TypeOK /\ gen \in Feed!Gens
  BY DEF LostInv, Feed!TypeOK
<1>2. CASE Feed!SaveFails(c)
  BY <1>2 DEF Feed!SaveFails, OnceInv
<1>3. CASE ~Feed!SaveFails(c)
  <2>1. UNCHANGED <<feed, gen, enabled, mark, fired, before, baselined, mishaps>>
    BY <1>3 DEF Feed!Fetch, Feed!Answer, Feed!FetchFails, Feed!NothingUsable, Feed!Save
  <2> SUFFICES ASSUME mishaps = {} PROVE LiveCycles' /\ FileFollows' /\ FiredPassed' /\ MarkIsSet'
    BY <2>1 DEF OnceInv
  <2>2. LiveCycles /\ FileFollows /\ FiredPassed /\ MarkIsSet
    BY DEF OnceInv
  <2>3. FiredPassed' /\ MarkIsSet'
    BY <2>1, <2>2, SameMark
  <2>4. step \in [Cycles -> {"idle", "asked", "answered", "saving", "removing"}] /\ of \in [Cycles -> Feed!Gens]
    BY <1>1 DEF Feed!TypeOK
  <2>5. \A b \in Cycles : b # c => step'[b] = step[b] /\ of'[b] = of[b]
    BY <1>3, <2>4 DEF Feed!Fetch, Feed!Answer, Feed!FetchFails, Feed!NothingUsable, Feed!Save
  <2>6. \/ step'[c] = "idle"
        \/ step'[c] = "asked" /\ of'[c] = gen /\ enabled # {}
        \/ step'[c] = "answered" /\ step[c] = "asked" /\ of'[c] = of[c]
    BY <1>3, <2>4 DEF Feed!Fetch, Feed!Answer, Feed!FetchFails, Feed!NothingUsable, Feed!Save
  <2>7. LiveCycles'
    <3> SUFFICES ASSUME NEW b \in Cycles, step'[b] # "idle"
                 PROVE  /\ of'[b] = gen
                        /\ step'[b] = "removing" <=> enabled = {}
                        /\ step'[b] = "removing" => mark[gen] = NoMark
      BY <2>1 DEF LiveCycles
    <3> QED
      BY <2>2, <2>5, <2>6 DEF LiveCycles
  <2>8. FileFollows'
    <3>1. CASE Feed!Save(c)
      <4>1. markFile' = mark[gen]
        BY <2>2, <3>1 DEF Feed!Save, LiveCycles
      <4> QED
        BY <2>1, <4>1 DEF FileFollows
    <3>2. CASE ~Feed!Save(c)
      <4>1. markFile' = markFile /\ step[c] \notin {"saving", "removing"}
        BY <1>3, <3>2 DEF Feed!Fetch, Feed!Answer, Feed!FetchFails, Feed!NothingUsable
      <4> QED
        BY <2>1, <2>2, <2>5, <4>1 DEF FileFollows
    <3> QED
      BY <3>1, <3>2
  <2> QED
    BY <2>3, <2>7, <2>8
<1> QED
  BY <1>2, <1>3

\* A reload or a restart that interrupts nothing restores the mark as it is.
LEMMA RestoreOnce ==
  ASSUME Feed!ConstantsAssumption, LostInv, OnceInv, Feed!Restart \/ \E o \in SUBSET Kinds : Feed!Reload(o)
  PROVE  OnceInv'
<1> USE DEF Feed!cycles, Feed!history
<1>1. Feed!TypeOK /\ gen \in Feed!Gens
  BY DEF LostInv, Feed!TypeOK
<1>2. /\ UNCHANGED <<feed, fired, before, baselined, markFile>>
      /\ gen' = gen + 1 /\ gen < MaxReloads /\ mark' = [mark EXCEPT ![gen + 1] = markFile]
      /\ mishaps \subseteq mishaps'
  BY DEF Feed!Restart, Feed!Reload, Feed!Restore
<1> SUFFICES ASSUME mishaps' = {} PROVE LiveCycles' /\ FileFollows' /\ FiredPassed' /\ MarkIsSet'
  BY DEF OnceInv
<1>3. LiveCycles /\ FileFollows /\ FiredPassed /\ MarkIsSet
  BY <1>2 DEF OnceInv
<1>4. (\A c \in Cycles : step[c] \notin {"saving", "removing"}) /\ \A c \in Cycles : step'[c] = "idle"
  <2>1. CASE Feed!Restart
    <3>1. "unsaved" \notin {t \in {"unsaved"} : \E c \in Cycles : step[c] \in {"saving", "removing"}}
      BY <2>1 DEF Feed!Restart
    <3> QED
      BY <2>1, <3>1 DEF Feed!Restart
  <2>2. CASE \E o \in SUBSET Kinds : Feed!Reload(o)
    <3>1. "retired" \notin {t \in {"retired"} : Feed!Busy # {}} /\ step' = step
      BY <2>2 DEF Feed!Reload
    <3> QED
      BY <3>1 DEF Feed!Busy
  <2> QED
    BY <2>1, <2>2
<1>5. mark'[gen'] = markFile /\ markFile = mark[gen]
  <2>1. gen + 1 \in Feed!Gens
    BY <1>1, <1>2 DEF Feed!Gens, Feed!ConstantsAssumption
  <2> QED
    BY <1>1, <1>2, <1>3, <1>4, <2>1 DEF FileFollows, Feed!TypeOK
<1>6. FiredPassed' /\ MarkIsSet'
  BY <1>2, <1>3, <1>5, SameMark
<1> QED
  BY <1>2, <1>4, <1>5, <1>6 DEF LiveCycles, FileFollows

LEMMA OnceInit == ASSUME Feed!ConstantsAssumption, Feed!Init PROVE OnceInv
<1> USE DEF Feed!Init
<1>1. 0 \in Feed!Gens /\ \A e \in Feed!Ids : before[e] = 0 /\ fired[e] = 0
  BY DEF Feed!Gens, Feed!ConstantsAssumption
<1>2. mark[gen] = NoMark
  BY <1>1
<1> QED
  BY <1>1, <1>2 DEF OnceInv, LiveCycles, FileFollows, FiredPassed, MarkIsSet

LEMMA OnceStep ==
  ASSUME Feed!ConstantsAssumption, LostInv, OnceInv, [Feed!Next]_Feed!vars
  PROVE  OnceInv' /\ (mishaps = {} /\ baselined => silent' = silent)
<1>1. CASE \E k \in Kinds : Feed!Record(k)
  <2>1. UNCHANGED <<gen, enabled, mark, markFile, step, of, fired, before, silent, baselined, mishaps>>
    BY <1>1 DEF Feed!Record, Feed!cycles, Feed!history
  <2>2. OnceInv'
    BY <1>1, <2>1, SameMark DEF OnceInv, LiveCycles, FileFollows
  <2> QED
    BY <2>1, <2>2
<1>2. CASE Feed!Restart \/ \E o \in SUBSET Kinds : Feed!Reload(o)
  BY <1>2, RestoreOnce DEF Feed!Restart, Feed!Reload, Feed!history
<1>3. ASSUME NEW c \in Cycles,
             \/ Feed!Fetch(c) \/ Feed!Answer(c) \/ Feed!FetchFails(c) \/ Feed!NothingUsable(c)
             \/ Feed!Save(c) \/ Feed!SaveFails(c)
      PROVE  OnceInv' /\ silent' = silent
  BY <1>3, MoveOnce DEF Feed!Fetch, Feed!Answer, Feed!FetchFails, Feed!NothingUsable, Feed!Save,
                        Feed!SaveFails, Feed!history
<1>4. ASSUME NEW c \in Cycles, Feed!Drop(c) PROVE OnceInv' /\ silent' = silent
  BY <1>4, DropOnce DEF Feed!Drop
<1>5. ASSUME NEW c \in Cycles, Feed!Process(c)
      PROVE  OnceInv' /\ (mishaps = {} /\ baselined => silent' = silent)
  BY <1>5, ProcessOnce
<1>6. CASE UNCHANGED Feed!vars
  BY <1>6 DEF OnceInv, LiveCycles, FileFollows, FiredPassed, MarkIsSet, Passed, Feed!Covers,
              Feed!vars, Feed!cycles, Feed!history
<1> QED
  BY <1>1, <1>2, <1>3, <1>4, <1>5, <1>6 DEF Feed!Next

\* An entry fires at most once between two drops of the mark.
THEOREM FiresOnce == Feed!ConstantsAssumption /\ Feed!Spec => []FiredOnce
<1> SUFFICES ASSUME Feed!ConstantsAssumption PROVE Feed!Spec => []FiredOnce
  OBVIOUS
<1>1. Feed!Spec => []LostInv
  BY FeedInductive
<1>2. Feed!Init => OnceInv
  BY OnceInit
<1>3. LostInv /\ OnceInv /\ [Feed!Next]_Feed!vars => OnceInv'
  BY OnceStep
<1>4. OnceInv => FiredOnce
  BY DEF OnceInv, FiredPassed, FiredOnce, Feed!Ids
<1> QED
  BY <1>1, <1>2, <1>3, <1>4, PTL DEF Feed!Spec

\* After the baseline nothing is passed in silence until the mark is dropped.
THEOREM BaselineIsFirst == Feed!ConstantsAssumption /\ Feed!Spec => BaselinedByFirst
<1> SUFFICES ASSUME Feed!ConstantsAssumption PROVE Feed!Spec => BaselinedByFirst
  OBVIOUS
<1>1. Feed!Spec => []LostInv
  BY FeedInductive
<1>2. Feed!Init => OnceInv
  BY OnceInit
<1>3. LostInv /\ OnceInv /\ [Feed!Next]_Feed!vars => OnceInv'
  BY OnceStep
<1>4. LostInv /\ OnceInv /\ [Feed!Next]_Feed!vars => [mishaps = {} /\ baselined => silent' = silent]_silent
  BY OnceStep
<1> QED
  BY <1>1, <1>2, <1>3, <1>4, PTL DEF Feed!Spec, BaselinedByFirst

-----------------------------------------------------------------------------
(* CoordinatorData                                                         *)

\* The instance knows finite sets as this module does.
LEMMA SameFinite ==
  ASSUME NEW S
  PROVE  Data!Cardinality(S) = Cardinality(S) /\ (Data!IsFiniteSet(S) <=> IsFiniteSet(S))
<1>1. Data!Cardinality(S) = Cardinality(S)
  BY DEF Data!Cardinality, Cardinality
<1>2. Data!IsFiniteSet(S) <=> IsFiniteSet(S)
  BY DEF Data!IsFiniteSet, IsFiniteSet
<1> QED
  BY <1>1, <1>2

\* The values that the readers hold are at most as many as the readers.
LEMMA FewHeld ==
  ASSUME IsFiniteSet(Readers), NEW F
  PROVE  /\ IsFiniteSet({F[r] : r \in Readers})
         /\ Cardinality({F[r] : r \in Readers}) <= Cardinality(Readers)
<1> DEFINE f == [r \in Readers |-> F[r]]
           T == {F[r] : r \in Readers}
<1>1. f \in Surjection(Readers, T)
  BY DEF Surjection
<1> HIDE DEF f
<1> QED
  BY <1>1, FS_Surjection

\* The heap has room for one more entry.
LEMMA FreshFound ==
  ASSUME Data!ConstantsAssumption, NEW A, NEW B, NEW x, NEW held, held \subseteq {x} \union A \union B,
         IsFiniteSet(A), Cardinality(A) <= Cardinality(Readers),
         IsFiniteSet(B), Cardinality(B) <= Cardinality(Readers)
  PROVE  Data!Fresh(held) \in Ids /\ Data!Fresh(held) \notin held
<1>1. /\ IsFiniteSet(Readers) /\ IsFiniteSet(Ids)
      /\ Cardinality(Ids) > 2 * Cardinality(Readers) + 1
  BY SameFinite DEF Data!ConstantsAssumption
<1>3. IsFiniteSet(A \union B) /\ Cardinality(A \union B) <= Cardinality(A) + Cardinality(B)
  <2>1. /\ IsFiniteSet(A \union B) /\ IsFiniteSet(A \cap B)
        /\ Cardinality(A \union B) = Cardinality(A) + Cardinality(B) - Cardinality(A \cap B)
    BY FS_Union, FS_Intersection
  <2>2. Cardinality(A) \in Nat /\ Cardinality(B) \in Nat /\ Cardinality(A \cap B) \in Nat
    BY <2>1, FS_CardinalityType
  <2> QED
    BY <2>1, <2>2
<1> DEFINE C == (A \union B) \union {x}
<1>4. IsFiniteSet(C) /\ Cardinality(C) <= Cardinality(A) + Cardinality(B) + 1
  <2>1. IsFiniteSet(C) /\ Cardinality(C) \in {Cardinality(A \union B), Cardinality(A \union B) + 1}
    BY <1>3, FS_AddElement
  <2>2. Cardinality(A \union B) \in Nat /\ Cardinality(A) \in Nat /\ Cardinality(B) \in Nat
    BY <1>3, FS_CardinalityType
  <2> QED
    BY <1>3, <2>1, <2>2
<1>5. held \subseteq C
  OBVIOUS
<1> HIDE DEF C
<1>6. IsFiniteSet(held) /\ Cardinality(held) <= Cardinality(C)
  BY <1>4, <1>5, FS_Subset
<1>7. ~(Ids \subseteq held)
  <2> SUFFICES ASSUME Ids \subseteq held PROVE FALSE
    OBVIOUS
  <2>1. Cardinality(Ids) <= Cardinality(held)
    BY <1>6, FS_Subset
  <2>2. /\ Cardinality(Ids) \in Nat /\ Cardinality(held) \in Nat /\ Cardinality(C) \in Nat
        /\ Cardinality(A) \in Nat /\ Cardinality(B) \in Nat /\ Cardinality(Readers) \in Nat
    BY <1>1, <1>4, <1>6, FS_CardinalityType
  <2> QED
    BY <1>1, <1>4, <1>6, <2>1, <2>2
<1>8. \E i \in Ids : i \notin held
  BY <1>7
<1> QED
  BY <1>8 DEF Data!Fresh

\* So the new entry of an update or of message_data is one nobody holds.
LEMMA FreshEntry ==
  ASSUME Data!ConstantsAssumption, NEW w
  PROVE  /\ Data!Fresh(Data!Read(w)) \in Ids /\ Data!Fresh(Data!Read(w)) \notin Data!Read(w)
         /\ LET held == {fetch.snapshot[w]} \union Data!Read(w)'
            IN  Data!Fresh(held) \in Ids /\ Data!Fresh(held) \notin held
<1>1. IsFiniteSet(Readers)
  BY SameFinite DEF Data!ConstantsAssumption
<1>2. Data!Fresh(Data!Read(w)) \in Ids /\ Data!Fresh(Data!Read(w)) \notin Data!Read(w)
  <2> DEFINE F == [r \in Readers |-> reader[r].old[w]]
             G == [r \in Readers |-> reader[r].snapshot[w]]
             A == {F[r] : r \in Readers}
             B == {G[r] : r \in Readers}
  <2>1. Data!Read(w) \subseteq {0} \union A \union B
    BY DEF Data!Read
  <2> HIDE DEF F, G
  <2>2. /\ IsFiniteSet(A) /\ Cardinality(A) <= Cardinality(Readers)
        /\ IsFiniteSet(B) /\ Cardinality(B) <= Cardinality(Readers)
    BY <1>1, FewHeld, Zenon
  <2> HIDE DEF A, B
  <2> QED
    BY <2>1, <2>2, FreshFound
<1>3. LET held == {fetch.snapshot[w]} \union Data!Read(w)'
      IN  Data!Fresh(held) \in Ids /\ Data!Fresh(held) \notin held
  <2> DEFINE F == [r \in Readers |-> reader'[r].old[w]]
             G == [r \in Readers |-> reader'[r].snapshot[w]]
             A == {F[r] : r \in Readers}
             B == {G[r] : r \in Readers}
             held == {fetch.snapshot[w]} \union Data!Read(w)'
  <2>1. held \subseteq {fetch.snapshot[w]} \union A \union B
    BY DEF Data!Read
  <2> HIDE DEF F, G
  <2>2. /\ IsFiniteSet(A) /\ Cardinality(A) <= Cardinality(Readers)
        /\ IsFiniteSet(B) /\ Cardinality(B) <= Cardinality(Readers)
    BY <1>1, FewHeld, Zenon
  <2> HIDE DEF A, B, held
  <2>3. Data!Fresh(held) \in Ids /\ Data!Fresh(held) \notin held
    BY <2>1, <2>2, FreshFound
  <2> QED
    BY <2>3 DEF held
<1> QED
  BY <1>2, <1>3

-----------------------------------------------------------------------------
\* An entry that is still referred to is as the step leaves it.
LEMMA HeapKept ==
  ASSUME NEW h, Data!HeapBecomes(h), NEW w \in Watches, NEW i \in Ids,
         i = data'[w] \/ i = fetch'.snapshot[w] \/ i \in Data!Read(w)'
  PROVE  heap'[w][i] = h[w][i]
  BY DEF Data!HeapBecomes

\* The heap holds entries.
LEMMA HeapTyped ==
  ASSUME NEW h, Data!HeapBecomes(h), h \in [Watches -> [Ids -> Data!Entries]]
  PROVE  heap' \in [Watches -> [Ids -> Data!Entries]]
<1>1. Data!Blank \in Data!Entries
  BY DEF Data!Blank, Data!Entries, Data!Lists, Data!Empty
<1> QED
  BY <1>1 DEF Data!HeapBecomes

\* Writing an entry leaves a heap.
LEMMA HeapWith ==
  ASSUME NEW h \in [Watches -> [Ids -> Data!Entries]], NEW w, NEW i, NEW x,
         w \in Watches /\ i \in Ids => x \in Data!Entries
  PROVE  [h EXCEPT ![w][i] = x] \in [Watches -> [Ids -> Data!Entries]]
<1> DEFINE row == [h[w] EXCEPT ![i] = x]
           Rows == [Ids -> Data!Entries]
<1>1. w \in Watches => row \in Rows
  <2> SUFFICES ASSUME w \in Watches PROVE row \in Rows
    OBVIOUS
  <2>1. h[w] \in Rows
    OBVIOUS
  <2> DEFINE g == h[w]
  <2>2. g \in [Ids -> Data!Entries]
    BY <2>1
  <2> HIDE DEF g
  <2>3. [g EXCEPT ![i] = x] \in [Ids -> Data!Entries]
    BY <2>2
  <2> QED
    BY <2>3 DEF g
<1>2. h \in [Watches -> Rows]
  OBVIOUS
<1> HIDE DEF row, Rows
<1>3. [h EXCEPT ![w] = row] \in [Watches -> Rows]
  BY <1>1, <1>2
<1> QED
  BY <1>3 DEF row, Rows

\* A call of read_message that keeps the dict d is a call.
LEMMA KeptTyped ==
  ASSUME NEW call \in Data!Calls, NEW d \in Data!Slots
  PROVE  [call EXCEPT !.attached = FALSE, !.old = d] \in Data!Calls
BY DEF Data!Calls

\* Nothing is fetched at first, and entries merge to entries.
LEMMA SlotsTyped ==
  ASSUME Data!ConstantsAssumption
  PROVE  /\ 0 \notin Ids /\ Data!NoEntry = 0 /\ Data!Nothing \in Data!Slots
         /\ Data!Idle \in Data!Fetches
         /\ \A s, t \in Data!Slots : Data!Merged(s, t) \in Data!Slots
         /\ data \in Data!Slots => \A T : Data!Except(T) \in Data!Slots
         /\ \A at \in {"idle", "sent", "answered", "done"} : Data!Edits(at) \in Data!Editing
         /\ \A at \in {"idle", "next", "asked", "media", "done"} : Data!Reads(at) \in Data!Calls
<1>1. 0 \notin Ids /\ Data!NoEntry = 0 /\ Data!Nothing \in Data!Slots
  BY DEF Data!ConstantsAssumption, Data!NoEntry, Data!Nothing, Data!Slots
<1>2. Data!Blank \in Data!Entries
  BY DEF Data!Blank, Data!Entries, Data!Lists, Data!Empty
<1>3. Data!Idle \in Data!Fetches
  BY <1>1, <1>2 DEF Data!Idle, Data!Fetches
<1>4. \A s, t \in Data!Slots : Data!Merged(s, t) \in Data!Slots
  BY DEF Data!Merged, Data!Slots
<1>5. data \in Data!Slots => \A T : Data!Except(T) \in Data!Slots
  BY DEF Data!Except, Data!Slots
<1>6. \A at \in {"idle", "sent", "answered", "done"} : Data!Edits(at) \in Data!Editing
  BY DEF Data!Edits, Data!Editing, Data!Lists, Data!Empty
<1>7. \A at \in {"idle", "next", "asked", "media", "done"} : Data!Reads(at) \in Data!Calls
  BY <1>1 DEF Data!Reads, Data!Calls
<1> QED
  BY <1>1, <1>3, <1>4, <1>5, <1>6, <1>7
-----------------------------------------------------------------------------
\* The steps of the updates stay in their ranges.
LEMMA UpdateTyped ==
  ASSUME Data!ConstantsAssumption, Data!TypeOK, Data!Poll \/ Data!Update
  PROVE  Data!TypeOK'
<1>1. PICK targets \in SUBSET Watches, forced \in BOOLEAN : Data!StartFetch(targets, forced)
  BY DEF Data!Poll, Data!Update, Data!ConstantsAssumption
<1>2. fetch' \in Data!Fetches
  <2> DEFINE functions == forced \/ Data!Due(targets)
             alone == (\A e \in Editors : editor[e].at \in {"idle", "done"}) /\ Data!NobodyReads
  <2>1. fetch' = [Data!Idle EXCEPT !.at = "devices", !.targets = targets, !.forced = forced,
                                   !.functions = functions, !.snapshot = Data!Except(targets), !.alone = alone]
    BY <1>1 DEF Data!StartFetch
  <2>2. functions \in BOOLEAN /\ alone \in BOOLEAN
    BY DEF Data!Due
  <2>3. Data!Except(targets) \in Data!Slots /\ Data!Idle \in Data!Fetches
    BY SlotsTyped DEF Data!TypeOK
  <2> HIDE DEF functions, alone
  <2> QED
    BY <2>1, <2>2, <2>3 DEF Data!Fetches
<1>3. updates' \in Nat
  <2>1. updates' \in {updates, updates + 1}
    BY DEF Data!Poll, Data!Update
  <2>2. updates \in Nat
    BY DEF Data!TypeOK
  <2> QED
    BY <2>1, <2>2
<1> QED
  BY <1>1, <1>2, <1>3 DEF Data!TypeOK, Data!StartFetch

LEMMA SetDevicesTyped ==
  ASSUME Data!ConstantsAssumption, Data!TypeOK, Data!SetDevices
  PROVE  Data!TypeOK'
<1> USE DEF Data!SetDevices
<1>1. fetch' \in Data!Fetches
  BY DEF Data!TypeOK, Data!Fetches
<1>2. device' \in [Watches -> Data!Lists]
  BY DEF Data!TypeOK, Data!Fetched, Data!Lists, Data!Empty
<1>3. clock' \in [Watches -> {"never", "recent", "past"}]
  BY DEF Data!TypeOK
<1>4. faults' \in Nat
  BY DEF Data!TypeOK, Data!Fault
<1> QED
  BY <1>1, <1>2, <1>3, <1>4 DEF Data!TypeOK

LEMMA LoopTyped ==
  ASSUME Data!ConstantsAssumption, Data!TypeOK, Data!Loop
  PROVE  Data!TypeOK'
<1> DEFINE w == CHOOSE v \in fetch.todo : TRUE
           entry == [list |-> device[w], messages |-> Data!Carried(w), full |-> TRUE]
<1>1. fetch' = [fetch EXCEPT !.got[w] = entry, !.todo = @ \ {w}, !.at = IF fetch.todo = {w} THEN "store" ELSE "loop"]
  BY DEF Data!Loop
<1>2. w \in Watches => entry \in Data!Entries
  <2> SUFFICES ASSUME w \in Watches PROVE entry \in Data!Entries
    OBVIOUS
  <2> HIDE DEF w
  <2>1. Data!Carried(w) \in Nat
    <3>1. data \in Data!Slots /\ heap \in [Watches -> [Ids -> Data!Entries]]
      BY DEF Data!TypeOK
    <3>2. data[w] # Data!NoEntry => data[w] \in Ids
      BY <3>1 DEF Data!Slots
    <3>3. heap[w] \in [Ids -> Data!Entries]
      BY <3>1
    <3>4. data[w] # Data!NoEntry => heap[w][data[w]] \in Data!Entries
      BY <3>2, <3>3
    <3> QED
      BY <3>4 DEF Data!Carried, Data!Entry, Data!Entries
  <2> QED
    BY <2>1 DEF Data!TypeOK, Data!Entries
<1> HIDE DEF w, entry
<1>3. fetch' \in Data!Fetches
  <2>1. fetch \in Data!Fetches
    BY DEF Data!TypeOK
  <2>2. [fetch.got EXCEPT ![w] = entry] \in [Watches -> Data!Entries]
    BY <1>2, <2>1 DEF Data!Fetches
  <2>3. fetch' = [fetch EXCEPT !.got = [fetch.got EXCEPT ![w] = entry], !.todo = fetch.todo \ {w},
                               !.at = IF fetch.todo = {w} THEN "store" ELSE "loop"]
    BY <1>1, <2>1 DEF Data!Fetches
  <2> QED
    BY <2>1, <2>2, <2>3 DEF Data!Fetches
<1> QED
  BY <1>3 DEF Data!TypeOK, Data!Loop

LEMMA StoreTyped ==
  ASSUME Data!ConstantsAssumption, Data!TypeOK, Data!Store
  PROVE  Data!TypeOK'
<1> DEFINE new == [w \in Watches |-> IF w \in fetch.targets THEN Data!Fresh(Data!Read(w)) ELSE Data!NoEntry]
           h == [w \in Watches |-> [i \in Ids |-> IF i = new[w] THEN fetch.got[w] ELSE heap[w][i]]]
<1>1. /\ data' = Data!Merged(data, Data!Merged(fetch.snapshot, new)) /\ fetch' = Data!Idle
      /\ Data!HeapBecomes(h)
  BY DEF Data!Store
<1>2. new \in Data!Slots
  BY FreshEntry DEF Data!Slots
<1>3. h \in [Watches -> [Ids -> Data!Entries]]
  <2> HIDE DEF new
  <2> QED
    BY DEF Data!TypeOK, Data!Fetches
<1> HIDE DEF new, h
<1>4. data' \in Data!Slots
  <2>1. data \in Data!Slots /\ fetch.snapshot \in Data!Slots
    BY DEF Data!TypeOK, Data!Fetches
  <2> QED
    BY <1>1, <1>2, <2>1, SlotsTyped
<1>5. heap' \in [Watches -> [Ids -> Data!Entries]] /\ fetch' \in Data!Fetches
  BY <1>1, <1>3, HeapTyped, SlotsTyped
<1> QED
  BY <1>4, <1>5 DEF Data!TypeOK, Data!Store

LEMMA SetbackTyped ==
  ASSUME Data!ConstantsAssumption, Data!TypeOK,
         Data!Retry \/ Data!FetchFails \/ Data!Elapse \/ Data!Restart
  PROVE  Data!TypeOK'
<1>1. CASE Data!Retry
  <2>1. fetch' \in Data!Fetches
    <3> DEFINE functions == fetch.forced \/ Data!Due(fetch.targets)
    <3>1. fetch' = [fetch EXCEPT !.at = "devices", !.todo = {}, !.got = Data!Idle.got, !.functions = functions]
      BY <1>1 DEF Data!Retry
    <3>2. functions \in BOOLEAN
      BY DEF Data!TypeOK, Data!Fetches, Data!Due
    <3>3. Data!Idle.got \in [Watches -> Data!Entries]
      BY SlotsTyped DEF Data!Fetches
    <3> HIDE DEF functions
    <3> QED
      BY <3>1, <3>2, <3>3 DEF Data!TypeOK, Data!Fetches
  <2>2. heap' \in [Watches -> [Ids -> Data!Entries]] /\ faults' \in Nat
    BY <1>1, HeapTyped DEF Data!Retry, Data!TypeOK, Data!Fault
  <2> QED
    BY <1>1, <2>1, <2>2 DEF Data!Retry, Data!TypeOK
<1>2. CASE Data!FetchFails
  <2>1. heap' \in [Watches -> [Ids -> Data!Entries]] /\ faults' \in Nat
    BY <1>2, HeapTyped DEF Data!FetchFails, Data!TypeOK, Data!Fault
  <2>2. fetch' \in Data!Fetches /\ device' \in [Watches -> Data!Lists]
    BY <1>2, SlotsTyped DEF Data!FetchFails, Data!TypeOK, Data!Lists, Data!Empty
  <2> QED
    BY <1>2, <2>1, <2>2 DEF Data!FetchFails, Data!TypeOK
<1>3. CASE Data!Elapse
  BY <1>3 DEF Data!Elapse, Data!TypeOK
<1>4. CASE Data!Restart
  <2>1. heap' \in [Watches -> [Ids -> Data!Entries]] /\ faults' \in Nat
    BY <1>4, HeapTyped DEF Data!Restart, Data!TypeOK, Data!Fault
  <2>2. /\ fetch' \in Data!Fetches /\ data' \in Data!Slots /\ device' \in [Watches -> Data!Lists]
        /\ editor' \in [Editors -> Data!Editing] /\ reader' \in [Readers -> Data!Calls]
    BY <1>4, SlotsTyped DEF Data!Restart, Data!Lists, Data!Empty
  <2> QED
    BY <1>4, <2>1, <2>2 DEF Data!Restart, Data!TypeOK
<1> QED
  BY <1>1, <1>2, <1>3, <1>4

\* So do the steps of the edits.
LEMMA EditTyped ==
  ASSUME Data!ConstantsAssumption, Data!TypeOK, NEW e \in Editors,
         Data!EditStep(e) \/ Data!EditFails(e) \/ \E w \in Watches : Data!Edit(e, w)
  PROVE  Data!TypeOK'
<1>1. Data!Overlapped \in Data!Fetches
  BY DEF Data!TypeOK, Data!Overlapped, Data!Fetches
<1>2. ASSUME NEW w \in Watches, Data!Edit(e, w) PROVE Data!TypeOK'
  <2>1. edits' \in [Watches -> Nat]
    BY <1>2 DEF Data!Edit, Data!TypeOK
  <2>2. editor' \in [Editors -> Data!Editing]
    <3>1. Data!Edits("sent") \in Data!Editing
      BY SlotsTyped
    <3>2. [Data!Edits("sent") EXCEPT !.watch = {w}] \in Data!Editing
      BY <3>1 DEF Data!Editing
    <3> QED
      BY <1>2, <3>2 DEF Data!Edit, Data!TypeOK
  <2> QED
    BY <1>1, <1>2, <2>1, <2>2 DEF Data!Edit, Data!TypeOK
<1>3. CASE Data!Answer(e)
  <2>1. PICK w \in editor[e].watch : editor' = [editor EXCEPT ![e].at = "answered", ![e].list = edits[w]]
    BY <1>3 DEF Data!Answer
  <2>2. edits[w] \in Data!Lists
    BY <2>1 DEF Data!TypeOK, Data!Editing, Data!Lists
  <2>3. editor' \in [Editors -> Data!Editing]
    <3>1. editor \in [Editors -> Data!Editing]
      BY DEF Data!TypeOK
    <3>2. [editor[e] EXCEPT !.at = "answered", !.list = edits[w]] \in Data!Editing
      BY <2>2, <3>1 DEF Data!Editing
    <3>3. editor' = [editor EXCEPT ![e] = [editor[e] EXCEPT !.at = "answered", !.list = edits[w]]]
      BY <2>1, <3>1
    <3> QED
      BY <3>1, <3>2, <3>3
  <2> QED
    BY <1>3, <2>3 DEF Data!Answer, Data!TypeOK
<1>4. Data!Edits("done") \in Data!Editing
  BY SlotsTyped
<1>5. CASE Data!EditFails(e)
  BY <1>4, <1>5 DEF Data!EditFails, Data!Fault, Data!TypeOK
<1>6. CASE Data!ShowList(e)
  <2>1. PICK w \in editor[e].watch :
          Data!HeapBecomes(IF data[w] = Data!NoEntry THEN heap ELSE [heap EXCEPT ![w][data[w]].list = editor[e].list])
    BY <1>6 DEF Data!ShowList
  <2>2. editor[e].list \in Data!Lists /\ w \in Watches
    BY <2>1 DEF Data!TypeOK, Data!Editing
  <2>3. [heap EXCEPT ![w][data[w]].list = editor[e].list] \in [Watches -> [Ids -> Data!Entries]]
    <3>1. heap \in [Watches -> [Ids -> Data!Entries]]
      BY DEF Data!TypeOK
    <3>2. data[w] \in Ids => [heap[w][data[w]] EXCEPT !.list = editor[e].list] \in Data!Entries
      BY <2>2, <3>1 DEF Data!Entries
    <3> QED
      BY <3>1, <3>2, HeapWith
  <2>4. heap' \in [Watches -> [Ids -> Data!Entries]]
    BY <2>1, <2>3, HeapTyped DEF Data!TypeOK
  <2> QED
    BY <1>1, <1>4, <1>6, <2>4 DEF Data!ShowList, Data!TypeOK
<1> QED
  BY <1>2, <1>3, <1>5, <1>6 DEF Data!EditStep

\* And those of the reads.
LEMMA ChatsTyped ==
  ASSUME Data!ConstantsAssumption, Data!TypeOK, NEW r \in Readers, NEW w \in Watches, Data!Chats(r, w)
  PROVE  Data!TypeOK'
<1> DEFINE new == Data!Fresh({fetch.snapshot[w]} \union Data!Read(w)')
<1>1. messages' \in [Watches -> Nat]
  <2>1. messages \in [Watches -> Nat]
    BY DEF Data!TypeOK
  <2>2. messages' = [messages EXCEPT ![w] = messages[w] + 1]
    BY DEF Data!Chats
  <2> QED
    BY <2>1, <2>2
<1>2. reader' \in [Readers -> Data!Calls]
  <2> DEFINE kept(s) == IF reader[s].at \in {"next", "asked", "media"} /\ reader[s].attached
                        THEN [reader[s] EXCEPT !.attached = FALSE, !.old = data] ELSE reader[s]
  <2>1. reader' = [s \in Readers |->
          IF s = r THEN [kept(s) EXCEPT !.at = "media", !.snapshot = Data!Nothing, !.messages = messages'[w]]
          ELSE kept(s)]
    BY DEF Data!Chats
  <2>2. \A s \in Readers : kept(s) \in Data!Calls
    <3>1. data \in Data!Slots /\ \A s \in Readers : reader[s] \in Data!Calls
      BY DEF Data!TypeOK
    <3>2. \A s \in Readers : [reader[s] EXCEPT !.attached = FALSE, !.old = data] \in Data!Calls
      BY <3>1, KeptTyped
    <3> QED
      BY <3>1, <3>2
  <2> HIDE DEF kept
  <2>3. Data!Nothing \in Data!Slots /\ messages'[w] \in Nat
    BY <1>1, SlotsTyped
  <2>4. [kept(r) EXCEPT !.at = "media", !.snapshot = Data!Nothing, !.messages = messages'[w]] \in Data!Calls
    BY <2>2, <2>3 DEF Data!Calls
  <2> QED
    BY <2>1, <2>2, <2>4
<1>3. new \in Ids
  BY FreshEntry
<1> HIDE DEF new
<1>4. data' = [reader[r].snapshot EXCEPT ![w] = new]
  BY DEF Data!Chats, new
<1>5. data' \in Data!Slots
  <2>1. reader[r].snapshot \in Data!Slots
    BY DEF Data!TypeOK, Data!Calls
  <2> QED
    BY <1>3, <1>4, <2>1 DEF Data!Slots
<1>6. heap' \in [Watches -> [Ids -> Data!Entries]]
  <2>1. Data!HeapBecomes([heap EXCEPT ![w][new] = [Data!Blank EXCEPT !.messages = messages'[w]]])
    BY DEF Data!Chats, new
  <2>2. [Data!Blank EXCEPT !.messages = messages'[w]] \in Data!Entries
    <3>1. messages'[w] \in Nat
      BY <1>1
    <3>2. Data!Blank \in Data!Entries
      BY DEF Data!Blank, Data!Entries, Data!Lists, Data!Empty
    <3> QED
      BY <3>1, <3>2 DEF Data!Entries
  <2>3. [heap EXCEPT ![w][new] = [Data!Blank EXCEPT !.messages = messages'[w]]] \in [Watches -> [Ids -> Data!Entries]]
    <3> DEFINE x == [Data!Blank EXCEPT !.messages = messages'[w]]
    <3> HIDE DEF x
    <3>1. heap \in [Watches -> [Ids -> Data!Entries]] /\ x \in Data!Entries
      BY <2>2 DEF Data!TypeOK, x
    <3>2. [heap EXCEPT ![w][new] = x] \in [Watches -> [Ids -> Data!Entries]]
      BY <1>3, <3>1
    <3> QED
      BY <3>2 DEF x
  <2> QED
    BY <2>1, <2>3, HeapTyped
<1>7. fetch' \in Data!Fetches
  BY DEF Data!Chats, Data!TypeOK, Data!Overlapped, Data!Fetches
<1> QED
  BY <1>1, <1>2, <1>5, <1>6, <1>7 DEF Data!Chats, Data!TypeOK

LEMMA ReadTyped ==
  ASSUME Data!ConstantsAssumption, Data!TypeOK, NEW r \in Readers,
         Data!StartRead(r) \/ Data!ReadStep(r) \/ Data!AskFails(r) \/ Data!AskAgain(r) \/ Data!ReadDies(r)
  PROVE  Data!TypeOK'
<1>1. Data!Overlapped \in Data!Fetches
  BY DEF Data!TypeOK, Data!Overlapped, Data!Fetches
<1>2. \A at \in {"next", "done"} : Data!Reads(at) \in Data!Calls
  BY SlotsTyped
<1>3. /\ data \in Data!Slots /\ Data!Nothing \in Data!Slots
      /\ \A T : Data!Except(T) \in Data!Slots
  BY SlotsTyped DEF Data!TypeOK
<1>4. reader[r] \in Data!Calls /\ reader \in [Readers -> Data!Calls]
  BY DEF Data!TypeOK
<1>5. CASE Data!StartRead(r)
  <2>1. PICK targets \in Targets :
          reader' = [s \in Readers |->
            IF s = r THEN [Data!Reads("next") EXCEPT !.todo = targets, !.alone = Data!NobodyReads]
            ELSE [reader[s] EXCEPT !.alone = FALSE]]
    BY <1>5 DEF Data!StartRead
  <2>2. targets \subseteq Watches /\ Data!NobodyReads \in BOOLEAN
    BY DEF Data!ConstantsAssumption, Data!NobodyReads
  <2>3. [Data!Reads("next") EXCEPT !.todo = targets, !.alone = Data!NobodyReads] \in Data!Calls
    BY <1>2, <2>2 DEF Data!Calls
  <2>4. \A s \in Readers : [reader[s] EXCEPT !.alone = FALSE] \in Data!Calls
    BY <1>4 DEF Data!Calls
  <2>5. reader' \in [Readers -> Data!Calls]
    BY <2>1, <2>3, <2>4
  <2> QED
    BY <1>1, <1>5, <2>5 DEF Data!StartRead, Data!TypeOK
<1>6. ASSUME NEW w \in Watches, Data!Ask(r, w) PROVE Data!TypeOK'
  <2>1. reader' \in [Readers -> Data!Calls]
    BY <1>3, <1>4, <1>6 DEF Data!Ask, Data!Calls
  <2> QED
    BY <1>6, <2>1 DEF Data!Ask, Data!TypeOK
<1>7. ASSUME NEW w \in Watches, Data!Media(r, w) PROVE Data!TypeOK'
  <2>1. reader[r].messages \in Nat
    BY <1>4 DEF Data!Calls
  <2>2. faults' \in Nat
    BY <1>7 DEF Data!Media, Data!Fault, Data!TypeOK
  <2>3. reader' \in [Readers -> Data!Calls]
    <3>1. \/ reader' = [reader EXCEPT ![r].at = "next", ![r].read[w] = reader[r].messages]
          \/ reader' = [reader EXCEPT ![r].at = "next", ![r].todo = {}, ![r].read[w] = reader[r].messages]
      BY <1>7 DEF Data!Media
    <3> DEFINE read == [reader[r].read EXCEPT ![w] = reader[r].messages]
    <3>2. read \in [Watches -> Nat]
      BY <1>4, <2>1 DEF Data!Calls
    <3>3. \/ reader' = [reader EXCEPT ![r] = [reader[r] EXCEPT !.at = "next", !.read = read]]
          \/ reader' = [reader EXCEPT ![r] = [reader[r] EXCEPT !.at = "next", !.todo = {}, !.read = read]]
      BY <1>4, <3>1 DEF Data!Calls
    <3> HIDE DEF read
    <3>4. /\ [reader[r] EXCEPT !.at = "next", !.read = read] \in Data!Calls
          /\ [reader[r] EXCEPT !.at = "next", !.todo = {}, !.read = read] \in Data!Calls
      BY <1>4, <3>2 DEF Data!Calls
    <3> QED
      BY <1>4, <3>3, <3>4
  <2>4. Data!PutBack(r, w) \in [Watches -> [Ids -> Data!Entries]]
    <3>1. [heap EXCEPT ![w][Data!Old(r)[w]].messages = reader[r].messages] \in [Watches -> [Ids -> Data!Entries]]
      <4> DEFINE i == Data!Old(r)[w]
      <4> HIDE DEF i
      <4>1. heap \in [Watches -> [Ids -> Data!Entries]]
        BY DEF Data!TypeOK
      <4>2. i \in Ids => [heap[w][i] EXCEPT !.messages = reader[r].messages] \in Data!Entries
        BY <2>1, <4>1 DEF Data!Entries
      <4>4. [heap EXCEPT ![w][i].messages = reader[r].messages] \in [Watches -> [Ids -> Data!Entries]]
        BY <4>1, <4>2, HeapWith
      <4> QED
        BY <4>4 DEF i
    <3> QED
      BY <3>1 DEF Data!PutBack, Data!TypeOK
  <2>5. heap' \in [Watches -> [Ids -> Data!Entries]]
    BY <1>7, <2>4, HeapTyped DEF Data!Media
  <2> QED
    BY <1>7, <2>2, <2>3, <2>5 DEF Data!Media, Data!TypeOK
<1>8. CASE Data!AskFails(r) \/ Data!AskAgain(r) \/ Data!ReadDies(r)
  <2>1. reader' \in [Readers -> Data!Calls]
    <3>1. CASE Data!AskFails(r)
      BY <1>3, <1>4, <3>1 DEF Data!AskFails, Data!Calls
    <3>2. CASE Data!AskAgain(r)
      BY <1>3, <1>4, <3>2 DEF Data!AskAgain, Data!Calls
    <3>3. CASE Data!ReadDies(r)
      BY <1>2, <1>4, <3>3 DEF Data!ReadDies
    <3> QED
      BY <1>8, <3>1, <3>2, <3>3
  <2>2. Data!HeapBecomes(heap) /\ Data!Fault
    BY <1>8 DEF Data!AskFails, Data!AskAgain, Data!ReadDies
  <2>3. heap' \in [Watches -> [Ids -> Data!Entries]] /\ faults' \in Nat
    BY <2>2, HeapTyped DEF Data!TypeOK, Data!Fault
  <2> QED
    BY <1>8, <2>1, <2>3 DEF Data!AskFails, Data!AskAgain, Data!ReadDies, Data!TypeOK
<1>9. CASE Data!Push(r)
  <2>1. Data!Old(r) \in Data!Slots
    BY <1>3, <1>4 DEF Data!Old, Data!Calls
  <2>2. data' \in Data!Slots /\ reader' \in [Readers -> Data!Calls]
    BY <1>2, <1>3, <1>4, <1>9, <2>1, SlotsTyped DEF Data!Push
  <2>3. heap' \in [Watches -> [Ids -> Data!Entries]]
    BY <1>9, HeapTyped DEF Data!Push, Data!TypeOK
  <2> QED
    BY <1>1, <1>9, <2>2, <2>3 DEF Data!Push, Data!TypeOK
<1> QED
  BY <1>5, <1>6, <1>7, <1>8, <1>9, ChatsTyped DEF Data!ReadStep

LEMMA DataTyped ==
  ASSUME Data!ConstantsAssumption, Data!TypeOK, [Data!Next]_Data!vars
  PROVE  Data!TypeOK'
<1>1. CASE Data!Poll \/ Data!Update
  BY <1>1, UpdateTyped
<1>2. CASE Data!FetchStep
  BY <1>2, SetDevicesTyped, LoopTyped, StoreTyped DEF Data!FetchStep
<1>3. CASE Data!Retry \/ Data!FetchFails \/ Data!Elapse \/ Data!Restart
  BY <1>3, SetbackTyped
<1>4. CASE \E e \in Editors : Data!EditStep(e) \/ Data!EditFails(e) \/ \E w \in Watches : Data!Edit(e, w)
  BY <1>4, EditTyped
<1>5. CASE \E r \in Readers : Data!StartRead(r) \/ Data!ReadStep(r) \/ Data!AskFails(r) \/ Data!AskAgain(r)
                              \/ Data!ReadDies(r)
  BY <1>5, ReadTyped
<1>6. CASE UNCHANGED Data!vars
  BY <1>6 DEF Data!vars, Data!TypeOK
<1> QED
  BY <1>1, <1>2, <1>3, <1>4, <1>5, <1>6 DEF Data!Next

LEMMA DataInitTyped ==
  ASSUME Data!ConstantsAssumption, Data!Init
  PROVE  Data!TypeOK
<1>1. Data!Blank \in Data!Entries
  BY DEF Data!Blank, Data!Entries, Data!Lists, Data!Empty
<1>2. heap \in [Watches -> [Ids -> Data!Entries]]
  BY <1>1 DEF Data!Init
<1>3. /\ fetch \in Data!Fetches /\ data \in Data!Slots
      /\ editor \in [Editors -> Data!Editing] /\ reader \in [Readers -> Data!Calls]
  BY SlotsTyped DEF Data!Init
<1> QED
  BY <1>2, <1>3 DEF Data!Init, Data!TypeOK, Data!Lists, Data!Empty

\* The data's variables stay in their ranges.
THEOREM DataTypes == Data!ConstantsAssumption /\ Data!Spec => []Data!TypeOK
<1> SUFFICES ASSUME Data!ConstantsAssumption PROVE Data!Spec => []Data!TypeOK
  OBVIOUS
<1>1. Data!Init => Data!TypeOK
  BY DataInitTyped
<1>2. Data!TypeOK /\ [Data!Next]_Data!vars => Data!TypeOK'
  BY DataTyped
<1> QED
  BY <1>1, <1>2, PTL DEF Data!Spec

-----------------------------------------------------------------------------
(* Who holds which entries.                                                *)

Whole(d) == \A w \in Watches : d[w] \in Ids

Reading(r) == reader[r].at \in {"next", "asked", "media"}

\* After the first update data has an entry for every watch.
DataWhole ==
  /\ data # Data!Nothing => Whole(data)
  /\ fetch.at # "idle" /\ data = Data!Nothing => fetch.targets = Watches

\* What a call of read_message has to put back, and where: its old_state is
\* data until somebody replaces data, and the entries it keeps show the chats
\* of the watches it is done with, unless another call writes into them too.
Steady(r) ==
  /\ Reading(r) => Whole(data)
  /\ ~reader[r].attached => Reading(r) /\ Whole(reader[r].old)
  /\ reader[r].at \in {"asked", "media"} => \E w \in Watches : reader[r].watch = {w}
  /\ reader[r].at = "asked" => \A w \in Watches \ reader[r].watch : reader[r].snapshot[w] \in Ids
  /\ reader[r].at = "media" => ~reader[r].attached
  /\ reader[r].alone =>
       /\ Reading(r) /\ \A s \in Readers \ {r} : ~Reading(s)
       /\ \A w \in Watches : reader[r].read[w] > 0 =>
            ~reader[r].attached /\ heap[w][reader[r].old[w]].messages >= reader[r].read[w]

ReadInv == DataWhole /\ \A r \in Readers : Steady(r)

\* A step of r leaves the others as they were: while r reads none is alone.
LEMMA OtherReader ==
  ASSUME NEW r \in Readers, Reading(r), NEW s \in Readers \ {r}, Steady(s),
         reader'[s] = reader[s], Whole(data) => Whole(data')
  PROVE  Steady(s)'
<1>1. ~reader[s].alone
  BY DEF Steady
<1> QED
  BY <1>1 DEF Steady, Reading, Whole

\* Steps that are not of a reader keep the entries that the readers hold.
LEMMA ReadersQuiet ==
  ASSUME Data!TypeOK, ReadInv, UNCHANGED reader, DataWhole', Whole(data) => Whole(data'),
         \A w \in Watches, i \in Ids : i \in Data!Read(w) => heap'[w][i].messages = heap[w][i].messages
  PROVE  ReadInv'
<1> SUFFICES ASSUME NEW r \in Readers PROVE Steady(r)'
  BY DEF ReadInv
<1>1. Steady(r)
  BY DEF ReadInv
<1>2. \A w \in Watches : reader[r].old[w] \in Data!Read(w)
  BY DEF Data!Read
<1>3. ~reader[r].attached => \A w \in Watches : heap'[w][reader[r].old[w]].messages = heap[w][reader[r].old[w]].messages
  BY <1>1, <1>2 DEF Steady, Whole
<1> QED
  BY <1>1, <1>3 DEF Steady, Reading, Whole

LEMMA UpdateReads ==
  ASSUME Data!ConstantsAssumption, Data!TypeOK, ReadInv, Data!Poll \/ Data!Update
  PROVE  ReadInv'
<1>1. PICK targets \in SUBSET Watches, forced \in BOOLEAN : Data!StartFetch(targets, forced)
  BY DEF Data!Poll, Data!Update, Data!ConstantsAssumption
<1>2. UNCHANGED <<data, heap, reader>>
  BY <1>1 DEF Data!StartFetch
<1>3. data = Data!Nothing => fetch'.targets = Watches
  <2> SUFFICES ASSUME data = Data!Nothing PROVE fetch'.targets = Watches
    OBVIOUS
  <2>1. Data!StartFetch(Watches, FALSE)
    BY DEF Data!Poll, Data!Update, Data!SetUp
  <2> QED
    BY <2>1 DEF Data!StartFetch, Data!Idle
<1>4. DataWhole'
  BY <1>2, <1>3 DEF ReadInv, DataWhole, Whole, Data!Nothing
<1> QED
  BY <1>2, <1>4, ReadersQuiet

LEMMA FetchReads ==
  ASSUME Data!ConstantsAssumption, Data!TypeOK, ReadInv,
         Data!SetDevices \/ Data!Loop \/ Data!Elapse \/ Data!Retry \/ Data!FetchFails
  PROVE  ReadInv'
<1>1. UNCHANGED <<data, reader>>
  BY DEF Data!SetDevices, Data!Loop, Data!Elapse, Data!Retry, Data!FetchFails
<1>2. fetch'.at # "idle" => fetch.at # "idle" /\ fetch'.targets = fetch.targets
  <2>1. fetch \in Data!Fetches
    BY DEF Data!TypeOK
  <2>2. CASE Data!SetDevices
    BY <2>1, <2>2 DEF Data!SetDevices, Data!Fetches
  <2>3. CASE Data!Loop
    BY <2>1, <2>3 DEF Data!Loop, Data!Fetches
  <2>4. CASE Data!Retry
    BY <2>1, <2>4 DEF Data!Retry, Data!Fetches
  <2>5. CASE Data!Elapse \/ Data!FetchFails
    BY <2>5 DEF Data!Elapse, Data!FetchFails, Data!Idle
  <2> QED
    BY <2>2, <2>3, <2>4, <2>5
<1>3. DataWhole'
  BY <1>1, <1>2 DEF ReadInv, DataWhole, Whole, Data!Nothing
<1>4. heap' = heap \/ Data!HeapBecomes(heap)
  BY DEF Data!SetDevices, Data!Loop, Data!Elapse, Data!Retry, Data!FetchFails
<1>5. ASSUME NEW w \in Watches, NEW i \in Ids, i \in Data!Read(w) PROVE heap'[w][i] = heap[w][i]
  <2>1. i \in Data!Read(w)'
    BY <1>1, <1>5 DEF Data!Read
  <2> QED
    BY <1>4, <2>1, HeapKept
<1> QED
  BY <1>1, <1>3, <1>5, ReadersQuiet

\* A new entry of an update is none that a reader holds.
LEMMA StoreReads ==
  ASSUME Data!ConstantsAssumption, Data!TypeOK, ReadInv, Data!Store
  PROVE  ReadInv'
<1> DEFINE new == [w \in Watches |-> IF w \in fetch.targets THEN Data!Fresh(Data!Read(w)) ELSE Data!NoEntry]
           h == [w \in Watches |-> [i \in Ids |-> IF i = new[w] THEN fetch.got[w] ELSE heap[w][i]]]
<1>1. /\ fetch.at = "store" /\ data' = Data!Merged(data, Data!Merged(fetch.snapshot, new)) /\ fetch' = Data!Idle
      /\ Data!HeapBecomes(h) /\ UNCHANGED reader
  BY DEF Data!Store
<1>2. /\ \A w \in Watches : new[w] \in Ids \union {Data!NoEntry} /\ fetch.snapshot[w] \in Ids \union {Data!NoEntry}
      /\ \A w \in fetch.targets : w \in Watches => new[w] \in Ids
      /\ \A w \in Watches : w \in fetch.targets \/ new[w] = Data!NoEntry
  <2>1. fetch.snapshot \in Data!Slots
    BY DEF Data!TypeOK, Data!Fetches
  <2> QED
    BY <2>1, FreshEntry DEF Data!Slots
<1>3. \A w \in Watches : new[w] \notin Data!Read(w) \/ new[w] = Data!NoEntry
  BY FreshEntry
<1>4. 0 \notin Ids /\ Data!NoEntry = 0
  BY SlotsTyped
<1>5. ASSUME NEW w \in Watches, NEW i \in Ids, i \in Data!Read(w) PROVE heap'[w][i].messages = heap[w][i].messages
  <2>1. i \in Data!Read(w)'
    BY <1>1, <1>5 DEF Data!Read
  <2>2. heap'[w][i] = h[w][i]
    <3> HIDE DEF h
    <3> QED
      BY <1>1, <2>1, HeapKept
  <2>3. i # new[w]
    <3> HIDE DEF new
    <3> QED
      BY <1>3, <1>4, <1>5
  <2> HIDE DEF new
  <2> QED
    BY <2>2, <2>3
<1> HIDE DEF new, h
<1>6. Whole(data')
  <2> SUFFICES ASSUME NEW w \in Watches PROVE data'[w] \in Ids
    BY DEF Whole
  <2>1. data[w] \in Ids \/ w \in fetch.targets
    BY <1>1 DEF ReadInv, DataWhole, Whole
  <2>2. data'[w] = IF new[w] # Data!NoEntry THEN new[w]
                   ELSE IF fetch.snapshot[w] # Data!NoEntry THEN fetch.snapshot[w] ELSE data[w]
    BY <1>1 DEF Data!Merged
  <2> QED
    BY <1>2, <1>4, <2>1, <2>2
<1>7. DataWhole'
  BY <1>1, <1>6 DEF DataWhole, Data!Idle
<1> QED
  BY <1>1, <1>5, <1>6, <1>7, ReadersQuiet

LEMMA EditReads ==
  ASSUME Data!ConstantsAssumption, Data!TypeOK, ReadInv, NEW e \in Editors,
         Data!EditStep(e) \/ Data!EditFails(e) \/ \E w \in Watches : Data!Edit(e, w)
  PROVE  ReadInv'
<1> USE DEF Data!EditStep
<1>1. UNCHANGED <<data, reader>>
  BY DEF Data!Edit, Data!EditFails, Data!Answer, Data!ShowList
<1>2. fetch'.at = fetch.at /\ fetch'.targets = fetch.targets
  <2>1. fetch' = fetch \/ fetch' = Data!Overlapped
    BY DEF Data!Edit, Data!EditFails, Data!Answer, Data!ShowList
  <2>2. fetch \in Data!Fetches
    BY DEF Data!TypeOK
  <2> QED
    BY <2>1, <2>2 DEF Data!Overlapped, Data!Fetches
<1>3. DataWhole'
  BY <1>1, <1>2 DEF ReadInv, DataWhole, Whole, Data!Nothing
<1>4. ASSUME NEW w \in Watches, NEW i \in Ids, i \in Data!Read(w) PROVE heap'[w][i].messages = heap[w][i].messages
  <2>1. CASE ~Data!ShowList(e)
    BY <2>1 DEF Data!Edit, Data!EditFails, Data!Answer
  <2>2. CASE Data!ShowList(e)
    <3>1. PICK v \in editor[e].watch :
            Data!HeapBecomes(IF data[v] = Data!NoEntry THEN heap ELSE [heap EXCEPT ![v][data[v]].list = editor[e].list])
      BY <2>2 DEF Data!ShowList
    <3> DEFINE h == IF data[v] = Data!NoEntry THEN heap ELSE [heap EXCEPT ![v][data[v]].list = editor[e].list]
    <3>2. h[w][i].messages = heap[w][i].messages
      <4>1. heap \in [Watches -> [Ids -> Data!Entries]]
        BY DEF Data!TypeOK
      <4>2. heap[w] \in [Ids -> Data!Entries]
        BY <4>1
      <4>3. heap[w][i] \in Data!Entries
        BY <4>2
      <4> QED
        BY <4>1, <4>2, <4>3 DEF Data!Entries
    <3>3. i \in Data!Read(w)'
      BY <1>1, <1>4 DEF Data!Read
    <3> HIDE DEF h
    <3>4. Data!HeapBecomes(h)
      BY <3>1 DEF h
    <3>5. heap'[w][i] = h[w][i]
      BY <3>3, <3>4 DEF Data!HeapBecomes
    <3> QED
      BY <3>2, <3>5
  <2> QED
    BY <2>1, <2>2
<1> QED
  BY <1>1, <1>3, <1>4, ReadersQuiet

\* The steps of a call of read_message.
LEMMA StartReads ==
  ASSUME Data!ConstantsAssumption, Data!TypeOK, ReadInv, NEW r \in Readers, Data!StartRead(r)
  PROVE  ReadInv'
<1>1. PICK targets \in Targets :
        reader' = [s \in Readers |->
          IF s = r THEN [Data!Reads("next") EXCEPT !.todo = targets, !.alone = Data!NobodyReads]
          ELSE [reader[s] EXCEPT !.alone = FALSE]]
  BY DEF Data!StartRead
<1>2. UNCHANGED <<data, heap>> /\ data # Data!Nothing /\ fetch' = Data!Overlapped
  BY DEF Data!StartRead, Data!SetUp
<1>3. DataWhole'
  <2>1. fetch \in Data!Fetches
    BY DEF Data!TypeOK
  <2> QED
    BY <1>2, <2>1 DEF ReadInv, DataWhole, Whole, Data!Nothing, Data!Overlapped, Data!Fetches
<1>4. Whole(data)
  BY <1>2 DEF ReadInv, DataWhole
<1>5. \A s \in Readers \ {r} : /\ reader[s] \in Data!Calls
                               /\ reader'[s] = [reader[s] EXCEPT !.alone = FALSE]
  BY <1>1 DEF Data!TypeOK
<1>6. ASSUME NEW s \in Readers \ {r} PROVE Steady(s)' /\ reader'[s].at = reader[s].at
  <2>1. Steady(s)
    BY DEF ReadInv
  <2>2. /\ reader'[s].at = reader[s].at /\ reader'[s].attached = reader[s].attached /\ ~reader'[s].alone
        /\ reader'[s].old = reader[s].old /\ reader'[s].watch = reader[s].watch
        /\ reader'[s].snapshot = reader[s].snapshot
    <3>1. reader[s] \in Data!Calls /\ reader'[s] = [reader[s] EXCEPT !.alone = FALSE]
      BY <1>5
    <3> QED
      BY <3>1 DEF Data!Calls
  <2> QED
    BY <1>2, <2>1, <2>2 DEF Steady, Reading, Whole
<1>7. Steady(r)'
  <2>1. reader'[r] = [Data!Reads("next") EXCEPT !.todo = targets, !.alone = Data!NobodyReads]
    BY <1>1
  <2>2. /\ reader'[r].at = "next" /\ reader'[r].attached = TRUE /\ reader'[r].alone = Data!NobodyReads
        /\ \A w \in Watches : reader'[r].read[w] = 0
    BY <2>1 DEF Data!Reads
  <2>3. Data!NobodyReads => \A s \in Readers \ {r} : ~Reading(s)'
    BY <1>6 DEF Data!NobodyReads, Reading
  <2> QED
    BY <1>2, <1>4, <2>2, <2>3 DEF Steady, Reading, Whole
<1> QED
  BY <1>3, <1>6, <1>7 DEF ReadInv

LEMMA AskReads ==
  ASSUME Data!ConstantsAssumption, Data!TypeOK, ReadInv, NEW r \in Readers, NEW w \in Watches, Data!Ask(r, w)
  PROVE  ReadInv'
<1> DEFINE call == [reader[r] EXCEPT !.at = "asked", !.watch = {w}, !.todo = @ \ {w}, !.snapshot = Data!Except({w})]
<1>1. reader \in [Readers -> Data!Calls] /\ reader[r] \in Data!Calls
  BY DEF Data!TypeOK
<1>2. reader' = [reader EXCEPT ![r] = call]
  BY <1>1 DEF Data!Ask, Data!Calls
<1>3. UNCHANGED <<data, heap, fetch>> /\ reader[r].at = "next"
  BY DEF Data!Ask
<1>4. DataWhole'
  BY <1>3 DEF ReadInv, DataWhole, Whole, Data!Nothing
<1>5. Steady(r) /\ Whole(data)
  BY <1>3 DEF ReadInv, Steady, Reading
<1>6. ASSUME NEW s \in Readers \ {r} PROVE Steady(s)' /\ reader'[s] = reader[s]
  <2>1. reader'[s] = reader[s] /\ Steady(s) /\ Reading(r)
    BY <1>1, <1>2, <1>3 DEF ReadInv, Reading
  <2> QED
    BY <1>3, <2>1, OtherReader
<1>7. Steady(r)'
  <2>1. reader'[r] = call
    BY <1>1, <1>2
  <2>2. /\ reader'[r].at = "asked" /\ reader'[r].watch = {w} /\ reader'[r].snapshot = Data!Except({w})
        /\ reader'[r].attached = reader[r].attached /\ reader'[r].alone = reader[r].alone
        /\ reader'[r].old = reader[r].old /\ reader'[r].read = reader[r].read
    BY <1>1, <2>1 DEF Data!Calls
  <2>3. \A v \in Watches \ {w} : reader'[r].snapshot[v] \in Ids
    BY <1>5, <2>2 DEF Data!Except, Whole
  <2>4. Reading(r)' /\ \A s \in Readers \ {r} : Reading(s)' = Reading(s)
    BY <1>6, <2>2 DEF Reading
  <2> QED
    BY <1>3, <1>5, <2>2, <2>3, <2>4 DEF Steady, Whole
<1> QED
  BY <1>4, <1>6, <1>7 DEF ReadInv

\* message_data replaces data: r keeps the dict it took, and so do the others.
LEMMA ChatsReads ==
  ASSUME Data!ConstantsAssumption, Data!TypeOK, Data!TypeOK', ReadInv,
         NEW r \in Readers, NEW w \in Watches, Data!Chats(r, w)
  PROVE  ReadInv'
<1> DEFINE new == Data!Fresh({fetch.snapshot[w]} \union Data!Read(w)')
           h == [heap EXCEPT ![w][new] = [Data!Blank EXCEPT !.messages = messages'[w]]]
           kept(s) == IF reader[s].at \in {"next", "asked", "media"} /\ reader[s].attached
                      THEN [reader[s] EXCEPT !.attached = FALSE, !.old = data] ELSE reader[s]
<1>1. /\ reader[r].at = "asked" /\ w \in reader[r].watch
      /\ data' = [reader[r].snapshot EXCEPT ![w] = new] /\ Data!HeapBecomes(h)
      /\ fetch' = Data!Overlapped
  BY DEF Data!Chats
<1>2. reader' = [s \in Readers |->
        IF s = r THEN [kept(s) EXCEPT !.at = "media", !.snapshot = Data!Nothing, !.messages = messages'[w]]
        ELSE kept(s)]
  BY DEF Data!Chats
<1>3. new \in Ids /\ new \notin Data!Read(w)'
  BY FreshEntry
<1> HIDE DEF new
<1>4. \A s \in Readers : reader[s] \in Data!Calls /\ Steady(s)
  BY DEF Data!TypeOK, ReadInv
<1>5. Whole(data) /\ Reading(r)
  BY <1>1, <1>4 DEF Steady, Reading
<1>6. Whole(data')
  <2>1. reader[r].watch = {w} /\ reader[r].snapshot \in Data!Slots
    BY <1>1, <1>4 DEF Steady, Data!Calls
  <2> QED
    BY <1>1, <1>3, <1>4, <2>1 DEF Steady, Whole, Data!Slots
<1>7. DataWhole'
  <2>1. data # Data!Nothing \/ Watches = {}
    BY <1>5, SlotsTyped DEF Whole, Data!Nothing
  <2>2. data' # Data!Nothing \/ Watches = {}
    BY <1>6, SlotsTyped DEF Whole, Data!Nothing
  <2>3. Watches = {} => fetch'.targets = Watches
    BY DEF Data!TypeOK, Data!Fetches
  <2> QED
    BY <1>6, <2>2, <2>3 DEF DataWhole, Data!Nothing
<1>8. \A s \in Readers :
        LET l == kept(s)
        IN  /\ l.at = reader[s].at /\ l.alone = reader[s].alone /\ l.read = reader[s].read /\ l.watch = reader[s].watch
            /\ l.snapshot = reader[s].snapshot
            /\ Reading(s) => ~l.attached /\ Whole(l.old)
            /\ ~Reading(s) => l = reader[s]
            /\ ~reader[s].attached => l.old = reader[s].old
  BY <1>4, <1>5 DEF Data!Calls, Reading, Steady
<1>9. \A s \in Readers : kept(s) \in Data!Calls
  <2>1. data \in Data!Slots
    BY DEF Data!TypeOK
  <2>2. \A s \in Readers : [reader[s] EXCEPT !.attached = FALSE, !.old = data] \in Data!Calls
    BY <1>4, <2>1, KeptTyped
  <2> QED
    BY <1>4, <2>2
<1> HIDE DEF kept
<1>10. ASSUME NEW s \in Readers \ {r} PROVE Steady(s)'
  <2>1. reader'[s] = kept(s)
    BY <1>2
  <2>2. ~reader[s].alone
    BY <1>4, <1>5 DEF Steady
  <2>3. ~Reading(s) => reader'[s].attached
    BY <1>4, <1>8, <2>1 DEF Steady
  <2> QED
    BY <1>4, <1>6, <1>8, <2>1, <2>2, <2>3 DEF Steady, Reading, Whole
<1>11. Steady(r)'
  <2>1. /\ reader'[r].at = "media" /\ reader'[r].alone = reader[r].alone /\ reader'[r].read = reader[r].read
        /\ reader'[r].watch = reader[r].watch /\ ~reader'[r].attached /\ Whole(reader'[r].old)
        /\ ~reader[r].attached => reader'[r].old = reader[r].old
    <3>1. reader'[r] = [kept(r) EXCEPT !.at = "media", !.snapshot = Data!Nothing, !.messages = messages'[w]]
      BY <1>2
    <3> QED
      BY <1>5, <1>8, <1>9, <3>1 DEF Data!Calls
  <2>2. ASSUME NEW v \in Watches, reader[r].alone, reader[r].read[v] > 0
        PROVE  heap'[v][reader'[r].old[v]].messages >= reader[r].read[v]
    <3> DEFINE i == reader[r].old[v]
    <3>1. ~reader[r].attached /\ heap[v][i].messages >= reader[r].read[v]
      BY <1>4, <2>2 DEF Steady
    <3>2. reader'[r].old = reader[r].old /\ i \in Ids
      BY <1>4, <2>1, <3>1 DEF Steady, Whole
    <3>3. i \in Data!Read(v)'
      BY <3>2 DEF Data!Read
    <3>4. v = w => i # new
      BY <1>3, <3>3
    <3>5. heap \in [Watches -> [Ids -> Data!Entries]]
      BY DEF Data!TypeOK
    <3> HIDE DEF i
    <3>6. h[v][i] = heap[v][i]
      BY <3>2, <3>4, <3>5
    <3> HIDE DEF h
    <3>7. heap'[v][i] = h[v][i]
      BY <1>1, <3>2, <3>3, HeapKept
    <3> QED
      BY <3>1, <3>2, <3>6, <3>7 DEF i
  <2>3. \A s \in Readers \ {r} : Reading(s)' = Reading(s)
    <3>1. \A s \in Readers \ {r} : reader'[s].at = reader[s].at
      BY <1>2, <1>8
    <3> QED
      BY <3>1 DEF Reading
  <2>4. /\ reader[r].alone => \A s \in Readers \ {r} : ~Reading(s)
        /\ \E v \in Watches : reader[r].watch = {v}
    BY <1>1, <1>4 DEF Steady
  <2> QED
    BY <1>6, <2>1, <2>2, <2>3, <2>4 DEF Steady, Reading, Whole
<1> QED
  BY <1>7, <1>10, <1>11 DEF ReadInv

\* The chats are put back into the entry that r keeps.
LEMMA MediaReads ==
  ASSUME Data!ConstantsAssumption, Data!TypeOK, ReadInv,
         NEW r \in Readers, NEW w \in Watches, Data!Media(r, w)
  PROVE  ReadInv'
<1> DEFINE read == [reader[r].read EXCEPT ![w] = reader[r].messages]
<1>1. reader \in [Readers -> Data!Calls] /\ reader[r] \in Data!Calls
  BY DEF Data!TypeOK
<1>2. /\ reader[r].at = "media" /\ w \in reader[r].watch /\ UNCHANGED <<data, fetch>>
      /\ Data!HeapBecomes(Data!PutBack(r, w))
  BY DEF Data!Media
<1>3. \E call \in Data!Calls :
        /\ reader' = [reader EXCEPT ![r] = call]
        /\ call.at = "next" /\ call.read = read /\ call.attached = reader[r].attached
        /\ call.alone = reader[r].alone /\ call.old = reader[r].old
  <2>1. \/ reader' = [reader EXCEPT ![r].at = "next", ![r].read[w] = reader[r].messages]
        \/ reader' = [reader EXCEPT ![r].at = "next", ![r].todo = {}, ![r].read[w] = reader[r].messages]
    BY DEF Data!Media
  <2>2. \/ reader' = [reader EXCEPT ![r] = [reader[r] EXCEPT !.at = "next", !.read = read]]
        \/ reader' = [reader EXCEPT ![r] = [reader[r] EXCEPT !.at = "next", !.todo = {}, !.read = read]]
    BY <1>1, <2>1 DEF Data!Calls
  <2>3. read \in [Watches -> Nat]
    BY <1>1 DEF Data!Calls
  <2> HIDE DEF read
  <2>4. /\ [reader[r] EXCEPT !.at = "next", !.read = read] \in Data!Calls
        /\ [reader[r] EXCEPT !.at = "next", !.todo = {}, !.read = read] \in Data!Calls
    BY <1>1, <2>3 DEF Data!Calls
  <2>5. CASE reader' = [reader EXCEPT ![r] = [reader[r] EXCEPT !.at = "next", !.read = read]]
    <3> DEFINE call == [reader[r] EXCEPT !.at = "next", !.read = read]
    <3>1. /\ call.at = "next" /\ call.read = read /\ call.attached = reader[r].attached
          /\ call.alone = reader[r].alone /\ call.old = reader[r].old
      BY <1>1 DEF Data!Calls
    <3> QED
      BY <2>4, <2>5, <3>1
  <2>6. CASE reader' = [reader EXCEPT ![r] = [reader[r] EXCEPT !.at = "next", !.todo = {}, !.read = read]]
    <3> DEFINE call == [reader[r] EXCEPT !.at = "next", !.todo = {}, !.read = read]
    <3>1. /\ call.at = "next" /\ call.read = read /\ call.attached = reader[r].attached
          /\ call.alone = reader[r].alone /\ call.old = reader[r].old
      BY <1>1 DEF Data!Calls
    <3> QED
      BY <2>4, <2>6, <3>1
  <2> QED
    BY <2>2, <2>5, <2>6
<1>4. /\ \A s \in Readers \ {r} : reader'[s] = reader[s]
      /\ reader'[r].at = "next" /\ reader'[r].read = read /\ reader'[r].attached = reader[r].attached
      /\ reader'[r].alone = reader[r].alone /\ reader'[r].old = reader[r].old
  <2> HIDE DEF read
  <2> QED
    BY <1>1, <1>3
<1>5. Steady(r) /\ Reading(r) /\ Whole(data) /\ ~reader[r].attached /\ Whole(reader[r].old)
  BY <1>2 DEF ReadInv, Steady, Reading
<1>6. DataWhole'
  BY <1>2 DEF ReadInv, DataWhole, Whole, Data!Nothing
<1>7. ASSUME NEW s \in Readers \ {r} PROVE Steady(s)'
  BY <1>2, <1>4, <1>5, OtherReader DEF ReadInv
<1>8. ASSUME NEW v \in Watches, reader[r].alone, read[v] > 0
      PROVE  heap'[v][reader[r].old[v]].messages >= read[v]
  <2> DEFINE i == reader[r].old[v]
             h == Data!PutBack(r, w)
  <2>1. i \in Ids /\ i # Data!NoEntry
    BY <1>5, SlotsTyped DEF Whole
  <2>2. i \in Data!Read(v)'
    BY <1>4 DEF Data!Read
  <2>3. heap'[v][i] = h[v][i]
    <3> HIDE DEF i, h
    <3>1. Data!HeapBecomes(h)
      BY <1>2 DEF h
    <3> QED
      BY <2>1, <2>2, <3>1, HeapKept
  <2>4. heap \in [Watches -> [Ids -> Data!Entries]] /\ reader[r].read \in [Watches -> Nat] /\ reader[r].messages \in Nat
    BY <1>1 DEF Data!TypeOK, Data!Calls
  <2>5. heap[v] \in [Ids -> Data!Entries]
    BY <2>4
  <2>6. heap[v][i] \in Data!Entries
    BY <2>1, <2>5
  <2>7. CASE v = w
    <3>1. h = [heap EXCEPT ![w][i].messages = reader[r].messages]
      BY <1>5, <2>1, <2>7 DEF Data!PutBack, Data!Old
    <3> HIDE DEF i, h
    <3>2. h[v][i].messages = reader[r].messages
      BY <2>1, <2>4, <2>6, <2>7, <3>1 DEF Data!Entries
    <3>3. read[v] = reader[r].messages
      BY <2>4, <2>7
    <3> QED
      BY <2>3, <2>4, <3>2, <3>3 DEF i
  <2>8. CASE v # w
    <3>1. h[v] = heap[v]
      BY <2>4, <2>8 DEF Data!PutBack
    <3>2. read[v] = reader[r].read[v]
      BY <2>4, <2>8
    <3>3. heap[v][i].messages >= reader[r].read[v]
      BY <1>5, <1>8, <3>2 DEF Steady
    <3> QED
      BY <2>3, <3>1, <3>2, <3>3
  <2> QED
    BY <2>7, <2>8
<1>9. Steady(r)'
  <2>1. \A s \in Readers \ {r} : Reading(s)' = Reading(s)
    BY <1>4 DEF Reading
  <2> HIDE DEF read
  <2> QED
    BY <1>2, <1>4, <1>5, <1>8, <2>1 DEF Steady, Reading, Whole
<1> QED
  BY <1>6, <1>7, <1>9 DEF ReadInv

\* A call that fails, asks again or ends.
LEMMA EndReads ==
  ASSUME Data!ConstantsAssumption, Data!TypeOK, ReadInv, NEW r \in Readers,
         Data!AskFails(r) \/ Data!AskAgain(r) \/ Data!ReadDies(r) \/ Data!Push(r)
  PROVE  ReadInv'
<1>1. reader \in [Readers -> Data!Calls] /\ reader[r] \in Data!Calls
  BY DEF Data!TypeOK
<1>2. Data!HeapBecomes(heap) /\ Reading(r) /\ Steady(r) /\ Whole(data)
  BY DEF Data!AskFails, Data!AskAgain, Data!ReadDies, Data!Push, ReadInv, Steady, Reading
<1>3. \A s \in Readers \ {r} : reader'[s] = reader[s]
  BY <1>1 DEF Data!AskFails, Data!AskAgain, Data!ReadDies, Data!Push
<1>4. Whole(data') /\ (data' = data \/ Data!Push(r))
  <2>1. CASE Data!Push(r)
    <3>1. Whole(Data!Old(r)) /\ data' = Data!Merged(data, Data!Old(r))
      BY <1>2, <2>1 DEF Data!Push, Data!Old, Steady
    <3> QED
      BY <1>2, <2>1, <3>1 DEF Whole, Data!Merged
  <2>2. CASE ~Data!Push(r)
    BY <1>2, <2>2 DEF Data!AskFails, Data!AskAgain, Data!ReadDies
  <2> QED
    BY <2>1, <2>2
<1>5. DataWhole'
  <2>1. data' # Data!Nothing \/ Watches = {}
    BY <1>4, SlotsTyped DEF Whole, Data!Nothing
  <2>2. fetch' = fetch \/ fetch' = Data!Overlapped
    BY DEF Data!AskFails, Data!AskAgain, Data!ReadDies, Data!Push
  <2>3. Watches = {} => fetch'.targets = Watches
    BY <2>2 DEF Data!TypeOK, Data!Fetches, Data!Overlapped
  <2> QED
    BY <1>4, <2>1, <2>3 DEF DataWhole, Data!Nothing
<1>6. ASSUME NEW s \in Readers \ {r} PROVE Steady(s)'
  BY <1>2, <1>3, <1>4, OtherReader DEF ReadInv
<1>7. Steady(r)'
  <2>1. CASE Data!ReadDies(r) \/ Data!Push(r)
    <3>1. reader'[r] = Data!Reads("done")
      BY <1>1, <2>1 DEF Data!ReadDies, Data!Push
    <3> QED
      BY <3>1 DEF Steady, Reading, Data!Reads
  <2>2. CASE Data!AskFails(r) \/ Data!AskAgain(r)
    <3>1. /\ reader'[r].at \in {"next", "asked"} /\ reader[r].at = "asked"
          /\ reader'[r].alone = reader[r].alone /\ reader'[r].read = reader[r].read
          /\ reader'[r].attached = reader[r].attached /\ reader'[r].old = reader[r].old
          /\ reader'[r].watch = reader[r].watch
          /\ reader'[r].at = "asked" => reader'[r].snapshot = Data!Except(reader[r].watch)
      <4>1. CASE Data!AskFails(r)
        BY <1>1, <4>1 DEF Data!AskFails, Data!Calls
      <4>2. CASE Data!AskAgain(r)
        BY <1>1, <4>2 DEF Data!AskAgain, Data!Calls
      <4> QED
        BY <2>2, <4>1, <4>2
    <3>2. \A v \in Watches \ reader[r].watch : Data!Except(reader[r].watch)[v] \in Ids
      BY <1>2 DEF Data!Except, Whole
    <3>3. ASSUME NEW v \in Watches, reader[r].alone, reader[r].read[v] > 0
          PROVE  ~reader[r].attached /\ heap'[v][reader[r].old[v]].messages >= reader[r].read[v]
      <4> DEFINE i == reader[r].old[v]
      <4>1. ~reader[r].attached /\ heap[v][i].messages >= reader[r].read[v] /\ i \in Ids
        BY <1>2, <3>3 DEF Steady, Whole
      <4>2. i \in Data!Read(v)'
        BY <3>1 DEF Data!Read
      <4> HIDE DEF i
      <4>3. heap'[v][i] = heap[v][i]
        BY <1>2, <4>1, <4>2, HeapKept
      <4> QED
        BY <4>1, <4>3 DEF i
    <3>4. \A s \in Readers \ {r} : Reading(s)' = Reading(s)
      BY <1>3 DEF Reading
    <3> QED
      BY <1>2, <1>4, <3>1, <3>2, <3>3, <3>4 DEF Steady, Reading, Whole
  <2> QED
    BY <2>1, <2>2
<1> QED
  BY <1>5, <1>6, <1>7 DEF ReadInv

LEMMA RestartReads ==
  ASSUME Data!ConstantsAssumption, ReadInv, Data!Restart
  PROVE  ReadInv'
<1>1. DataWhole'
  BY DEF Data!Restart, DataWhole, Data!Idle, Data!Nothing
<1>2. ASSUME NEW r \in Readers PROVE Steady(r)'
  <2>1. reader'[r] \in {Data!Reads("idle"), Data!Reads("done")}
    BY DEF Data!Restart
  <2> QED
    BY <2>1 DEF Data!Reads, Steady, Reading
<1> QED
  BY <1>1, <1>2 DEF ReadInv

LEMMA ReadStepInv ==
  ASSUME Data!ConstantsAssumption, Data!TypeOK, Data!TypeOK', ReadInv, [Data!Next]_Data!vars
  PROVE  ReadInv'
<1>1. CASE Data!Poll \/ Data!Update
  BY <1>1, UpdateReads
<1>2. CASE Data!FetchStep \/ Data!Elapse \/ Data!Retry \/ Data!FetchFails \/ Data!Restart
  BY <1>2, FetchReads, StoreReads, RestartReads DEF Data!FetchStep
<1>3. CASE \E e \in Editors : Data!EditStep(e) \/ Data!EditFails(e) \/ \E w \in Watches : Data!Edit(e, w)
  BY <1>3, EditReads
<1>4. CASE \E r \in Readers : Data!StartRead(r) \/ Data!ReadStep(r) \/ Data!AskFails(r) \/ Data!AskAgain(r)
                              \/ Data!ReadDies(r)
  BY <1>4, StartReads, AskReads, ChatsReads, MediaReads, EndReads DEF Data!ReadStep
<1>5. CASE UNCHANGED Data!vars
  BY <1>5 DEF Data!vars, ReadInv, DataWhole, Steady, Reading, Whole, Data!Nothing
<1> QED
  BY <1>1, <1>2, <1>3, <1>4, <1>5 DEF Data!Next

LEMMA ReadInit ==
  ASSUME Data!ConstantsAssumption, Data!Init
  PROVE  ReadInv
BY DEF Data!Init, ReadInv, DataWhole, Steady, Reading, Data!Idle, Data!Reads

\* Who reads alone has pushed what it fetched.
LEMMA PushShows ==
  ASSUME Data!ConstantsAssumption, Data!TypeOK, ReadInv, NEW r \in Readers, [Data!Next]_Data!vars,
         reader[r].alone, reader[r].at = "next", reader'[r].at = "done", data' # Data!Nothing,
         NEW w \in Watches, reader[r].read[w] > 0
  PROVE  Data!Entry(w)'.messages >= reader[r].read[w]
<1>1. Data!Push(r)
  <2>1. reader \in [Readers -> Data!Calls] /\ reader[r] \in Data!Calls
    BY DEF Data!TypeOK
  <2>2. reader' # reader
    OBVIOUS
  <2>3. ~Data!Restart
    BY DEF Data!Restart
  <2>4. PICK s \in Readers : Data!StartRead(s) \/ Data!ReadStep(s) \/ Data!AskFails(s) \/ Data!AskAgain(s)
                             \/ Data!ReadDies(s)
    <3>1. ~(Data!Poll \/ Data!Update \/ Data!FetchStep \/ Data!Retry \/ Data!FetchFails \/ Data!Elapse)
      BY <2>2 DEF Data!Poll, Data!Update, Data!StartFetch, Data!FetchStep, Data!SetDevices, Data!Loop, Data!Store,
                  Data!Retry, Data!FetchFails, Data!Elapse
    <3>2. ~\E e \in Editors : Data!EditStep(e) \/ Data!EditFails(e) \/ \E v \in Watches : Data!Edit(e, v)
      BY <2>2 DEF Data!EditStep, Data!EditFails, Data!Edit, Data!Answer, Data!ShowList
    <3> QED
      BY <2>2, <2>3, <3>1, <3>2 DEF Data!Next, Data!vars
  <2>5. CASE s = r
    <3>1. ~Data!StartRead(r) /\ ~Data!AskFails(r) /\ ~Data!AskAgain(r) /\ ~Data!ReadDies(r)
      BY DEF Data!StartRead, Data!AskFails, Data!AskAgain, Data!ReadDies
    <3>2. ~\E v \in Watches : Data!Ask(r, v) \/ Data!Chats(r, v) \/ Data!Media(r, v)
      <4>1. \A v \in Watches : Data!Ask(r, v) => reader'[r].at = "asked"
        BY <2>1 DEF Data!Ask, Data!Calls
      <4> QED
        BY <4>1 DEF Data!Chats, Data!Media
    <3> QED
      BY <2>4, <2>5, <3>1, <3>2 DEF Data!ReadStep
  <2>6. CASE s # r
    <3>1. Steady(r) /\ Reading(r)
      BY DEF ReadInv, Reading
    <3>2. ~Reading(s)
      BY <2>6, <3>1 DEF Steady
    <3>3. Data!StartRead(s)
      BY <2>4, <3>2 DEF Data!ReadStep, Data!Ask, Data!Chats, Data!Media, Data!Push, Data!AskFails,
                        Data!AskAgain, Data!ReadDies, Reading
    <3>4. reader'[r] = [reader[r] EXCEPT !.alone = FALSE]
      BY <2>6, <3>3 DEF Data!StartRead
    <3>5. reader'[r].at = reader[r].at
      BY <2>1, <3>4 DEF Data!Calls
    <3> QED
      BY <3>5
  <2> QED
    BY <2>5, <2>6
<1>2. Steady(r) /\ ~reader[r].attached /\ heap[w][reader[r].old[w]].messages >= reader[r].read[w]
      /\ reader[r].old[w] \in Ids
  BY DEF ReadInv, Steady, Whole
<1>3. data'[w] = reader[r].old[w]
  BY <1>1, <1>2, SlotsTyped DEF Data!Push, Data!Merged, Data!Old
<1>4. heap'[w][data'[w]] = heap[w][reader[r].old[w]]
  <2>1. Data!HeapBecomes(heap) /\ data'[w] \in Ids
    BY <1>1, <1>2, <1>3 DEF Data!Push
  <2>2. heap'[w][data'[w]] = heap[w][data'[w]]
    BY <2>1, HeapKept
  <2> QED
    BY <1>3, <2>2
<1> QED
  BY <1>2, <1>4 DEF Data!Entry

\* What read_message fetched is shown when it has pushed its result.
THEOREM ReadsAreShown == Data!ConstantsAssumption /\ Data!Spec => ReadIsShown
<1> SUFFICES ASSUME Data!ConstantsAssumption PROVE Data!Spec => ReadIsShown
  OBVIOUS
<1> DEFINE Shown == \A r \in Readers :
             reader[r].alone /\ reader[r].at = "next" /\ reader'[r].at = "done" /\ data' # Nothing =>
               \A w \in Watches : reader[r].read[w] > 0 => Entry(w)'.messages >= reader[r].read[w]
<1>1. Data!Init => Data!TypeOK /\ ReadInv
  BY DataInitTyped, ReadInit
<1>2. Data!TypeOK /\ ReadInv /\ [Data!Next]_Data!vars => Data!TypeOK' /\ ReadInv'
  BY DataTyped, ReadStepInv
<1>3. Data!TypeOK /\ ReadInv /\ [Data!Next]_Data!vars => [Shown]_reader
  BY PushShows DEF Entry, Data!Entry, Nothing, Data!Nothing, NoEntry, Data!NoEntry, Data!vars
<1> QED
  BY <1>1, <1>2, <1>3, PTL DEF Data!Spec, ReadIsShown

-----------------------------------------------------------------------------
(* An update that nothing overlaps.                                        *)

\* The entry that the update is going to store for w.
Exact(w) ==
  /\ fetch.got[w].full
  /\ data[w] # Data!NoEntry => fetch.got[w].messages = heap[w][data[w]].messages
  /\ fetch.functions /\ fetch.got[w].list # Data!Empty => fetch.got[w].list = edits[w]

\* Nobody else is at work, the snapshot is what data still shows, and what the
\* update has got so far is exact.
AloneInv ==
  fetch.alone =>
    /\ fetch.at # "idle"
    /\ \A e \in Editors : editor[e].at \in {"idle", "done"}
    /\ Data!NobodyReads
    /\ \A w \in Watches : fetch.snapshot[w] = IF w \in fetch.targets THEN Data!NoEntry ELSE data[w]
    /\ fetch.at = "loop" /\ fetch.functions => \A w \in fetch.targets : device[w] \in {Data!Empty, edits[w]}
    /\ fetch.at = "loop" => \A w \in fetch.targets \ fetch.todo : Exact(w)
    /\ fetch.at = "store" => \A w \in fetch.targets : Exact(w)

LEMMA UpdateAlone ==
  ASSUME Data!ConstantsAssumption, Data!TypeOK, Data!Poll \/ Data!Update
  PROVE  AloneInv'
<1>1. PICK targets \in SUBSET Watches, forced \in BOOLEAN : Data!StartFetch(targets, forced)
  BY DEF Data!Poll, Data!Update, Data!ConstantsAssumption
<1> DEFINE functions == forced \/ Data!Due(targets)
           alone == (\A e \in Editors : editor[e].at \in {"idle", "done"}) /\ Data!NobodyReads
<1>2. /\ fetch' = [Data!Idle EXCEPT !.at = "devices", !.targets = targets, !.forced = forced,
                                    !.functions = functions, !.snapshot = Data!Except(targets), !.alone = alone]
      /\ UNCHANGED <<data, editor, reader>>
  BY <1>1 DEF Data!StartFetch
<1> HIDE DEF functions, alone
<1>3. /\ fetch'.at = "devices" /\ fetch'.targets = targets /\ fetch'.snapshot = Data!Except(targets)
      /\ fetch'.alone = alone
  BY <1>2 DEF Data!Idle
<1>4. fetch'.alone => (\A e \in Editors : editor'[e].at \in {"idle", "done"}) /\ Data!NobodyReads'
  BY <1>2, <1>3 DEF alone, Data!NobodyReads
<1>5. \A w \in Watches : fetch'.snapshot[w] = IF w \in fetch'.targets THEN Data!NoEntry ELSE data'[w]
  BY <1>2, <1>3 DEF Data!Except
<1> QED
  BY <1>3, <1>4, <1>5 DEF AloneInv

LEMMA SetDevicesAlone ==
  ASSUME Data!ConstantsAssumption, Data!TypeOK, AloneInv, Data!SetDevices
  PROVE  AloneInv'
<1>1. fetch \in Data!Fetches /\ device \in [Watches -> Data!Lists] /\ edits \in [Watches -> Nat]
  BY DEF Data!TypeOK
<1>2. fetch' = [fetch EXCEPT !.at = "loop", !.todo = fetch.targets] /\ UNCHANGED <<edits, data, heap, editor, reader>>
  BY DEF Data!SetDevices
<1>3. /\ fetch'.at = "loop" /\ fetch'.todo = fetch.targets /\ fetch'.targets = fetch.targets
      /\ fetch'.alone = fetch.alone /\ fetch'.functions = fetch.functions /\ fetch'.snapshot = fetch.snapshot
  BY <1>1, <1>2 DEF Data!Fetches
<1>4. fetch.functions => \A w \in fetch.targets : device'[w] \in {Data!Empty, edits[w]}
  BY <1>1 DEF Data!SetDevices, Data!Fetched, Data!Fetches
<1> QED
  BY <1>2, <1>3, <1>4 DEF AloneInv, Data!NobodyReads

LEMMA LoopAlone ==
  ASSUME Data!ConstantsAssumption, Data!TypeOK, AloneInv, Data!Loop
  PROVE  AloneInv'
<1> DEFINE w == CHOOSE v \in fetch.todo : TRUE
           entry == [list |-> device[w], messages |-> Data!Carried(w), full |-> TRUE]
<1>1. /\ fetch.at = "loop"
      /\ fetch' = [fetch EXCEPT !.got[w] = entry, !.todo = @ \ {w},
                                !.at = IF fetch.todo = {w} THEN "store" ELSE "loop"]
      /\ UNCHANGED <<edits, device, data, heap, editor, reader>>
  BY DEF Data!Loop
<1>2. entry.list = device[w] /\ entry.full /\ (data[w] # Data!NoEntry => entry.messages = heap[w][data[w]].messages)
  BY DEF Data!Carried, Data!Entry
<1> HIDE DEF w, entry
<1>3. fetch \in Data!Fetches
  BY DEF Data!TypeOK
<1>4. /\ fetch'.at = IF fetch.todo = {w} THEN "store" ELSE "loop"
      /\ fetch'.todo = fetch.todo \ {w} /\ fetch'.targets = fetch.targets
      /\ fetch'.alone = fetch.alone /\ fetch'.functions = fetch.functions /\ fetch'.snapshot = fetch.snapshot
      /\ fetch'.got = [fetch.got EXCEPT ![w] = entry]
  BY <1>1, <1>3 DEF Data!Fetches
<1> SUFFICES ASSUME fetch.alone PROVE AloneInv'
  BY <1>4 DEF AloneInv
<1>5. ASSUME NEW v \in fetch.targets, v \notin fetch.todo \/ v = w PROVE Exact(v)'
  <2>1. v \in Watches /\ fetch.got \in [Watches -> Data!Entries]
    BY <1>3 DEF Data!Fetches
  <2>2. CASE v = w
    <3>1. fetch'.got[v] = entry
      BY <1>4, <2>1, <2>2
    <3>2. fetch.functions => device[w] \in {Data!Empty, edits[w]}
      BY <1>1, <2>2 DEF AloneInv
    <3> QED
      BY <1>1, <1>2, <1>4, <2>2, <3>1, <3>2 DEF Exact
  <2>3. CASE v # w
    <3>1. fetch'.got[v] = fetch.got[v] /\ Exact(v)
      BY <1>1, <1>4, <1>5, <2>1, <2>3 DEF AloneInv
    <3> QED
      BY <1>1, <1>4, <3>1 DEF Exact
  <2> QED
    BY <2>2, <2>3
<1>6. fetch'.at = "loop" /\ fetch'.functions => \A v \in fetch'.targets : device'[v] \in {Data!Empty, edits'[v]}
  BY <1>1, <1>4 DEF AloneInv
<1>7. fetch'.at = "loop" => \A v \in fetch'.targets \ fetch'.todo : Exact(v)'
  BY <1>4, <1>5
<1>8. fetch'.at = "store" => \A v \in fetch'.targets : Exact(v)'
  BY <1>4, <1>5
<1>9. /\ fetch'.at # "idle" /\ Data!NobodyReads'
      /\ \A e \in Editors : editor'[e].at \in {"idle", "done"}
      /\ \A v \in Watches : fetch'.snapshot[v] = IF v \in fetch'.targets THEN Data!NoEntry ELSE data'[v]
  BY <1>1, <1>4 DEF AloneInv, Data!NobodyReads
<1> QED
  BY <1>6, <1>7, <1>8, <1>9 DEF AloneInv

LEMMA AloneStep ==
  ASSUME Data!ConstantsAssumption, Data!TypeOK, AloneInv, [Data!Next]_Data!vars
  PROVE  AloneInv'
<1>1. CASE Data!Poll \/ Data!Update
  BY <1>1, UpdateAlone
<1>2. CASE Data!FetchStep
  BY <1>2, SetDevicesAlone, LoopAlone DEF Data!FetchStep, Data!Store, Data!Idle, AloneInv
<1>3. CASE Data!Retry
  <2>1. fetch \in Data!Fetches
    BY DEF Data!TypeOK
  <2>2. /\ fetch'.at = "devices" /\ fetch'.targets = fetch.targets
        /\ fetch'.alone = fetch.alone /\ fetch'.snapshot = fetch.snapshot
    BY <1>3, <2>1 DEF Data!Retry, Data!Fetches
  <2>3. UNCHANGED <<data, editor, reader>>
    BY <1>3 DEF Data!Retry
  <2> QED
    BY <2>2, <2>3 DEF AloneInv, Data!NobodyReads
<1>4. CASE Data!FetchFails \/ Data!Restart
  BY <1>4 DEF Data!FetchFails, Data!Restart, Data!Idle, AloneInv
<1>5. CASE Data!Elapse
  BY <1>5 DEF Data!Elapse, AloneInv, Exact, Data!NobodyReads
<1>6. ~Data!Overlapped.alone
  BY DEF Data!Overlapped, Data!TypeOK, Data!Fetches
<1>7. ASSUME NEW e \in Editors, Data!EditStep(e) \/ Data!EditFails(e) \/ \E w \in Watches : Data!Edit(e, w)
      PROVE  AloneInv'
  <2>1. fetch' = Data!Overlapped \/ (editor[e].at = "sent" /\ fetch' = fetch)
    BY <1>7 DEF Data!EditStep, Data!EditFails, Data!Edit, Data!Answer, Data!ShowList
  <2> QED
    BY <1>6, <2>1 DEF AloneInv
<1>8. ASSUME NEW r \in Readers, Data!StartRead(r) \/ Data!ReadStep(r) \/ Data!AskFails(r) \/ Data!AskAgain(r)
                                \/ Data!ReadDies(r)
      PROVE  AloneInv'
  <2>1. fetch' = Data!Overlapped \/ (reader[r].at \in {"next", "asked", "media"} /\ fetch' = fetch)
    BY <1>8 DEF Data!StartRead, Data!ReadStep, Data!Ask, Data!Chats, Data!Media, Data!Push, Data!AskFails,
                Data!AskAgain, Data!ReadDies
  <2> QED
    BY <1>6, <2>1 DEF AloneInv, Data!NobodyReads
<1>9. CASE UNCHANGED Data!vars
  BY <1>9 DEF Data!vars, AloneInv, Exact, Data!NobodyReads
<1> QED
  BY <1>1, <1>2, <1>3, <1>4, <1>5, <1>7, <1>8, <1>9 DEF Data!Next

\* What the store of such an update shows.
LEMMA StoreExact ==
  ASSUME Data!ConstantsAssumption, Data!TypeOK, AloneInv, [Data!Next]_Data!vars,
         fetch.at = "store", fetch.alone, fetch'.at = "idle", data' # Data!Nothing,
         NEW w \in Watches
  PROVE  IF w \in fetch.targets
         THEN /\ Data!Entry(w)'.full
              /\ data[w] # Data!NoEntry => Data!Entry(w)'.messages = Data!Entry(w).messages
              /\ fetch.functions /\ Data!Entry(w)'.list # Data!Empty => Data!Entry(w)'.list = edits[w]
         ELSE data[w] # Data!NoEntry => Data!Entry(w)' = Data!Entry(w)
<1> DEFINE new == [v \in Watches |-> IF v \in fetch.targets THEN Data!Fresh(Data!Read(v)) ELSE Data!NoEntry]
           h == [v \in Watches |-> [i \in Ids |-> IF i = new[v] THEN fetch.got[v] ELSE heap[v][i]]]
<1>1. Data!Store
  <2>1. fetch \in Data!Fetches
    BY DEF Data!TypeOK
  <2>2. fetch' # fetch /\ fetch' # Data!Overlapped
    BY <2>1 DEF Data!Overlapped, Data!Fetches
  <2>3. ~\E e \in Editors : Data!EditStep(e) \/ Data!EditFails(e) \/ \E v \in Watches : Data!Edit(e, v)
    BY <2>2 DEF Data!EditStep, Data!EditFails, Data!Edit, Data!Answer, Data!ShowList
  <2>4. ~\E r \in Readers : Data!StartRead(r) \/ Data!ReadStep(r) \/ Data!AskFails(r) \/ Data!AskAgain(r)
                            \/ Data!ReadDies(r)
    <3> SUFFICES ASSUME NEW r \in Readers
                 PROVE  ~(Data!StartRead(r) \/ Data!ReadStep(r) \/ Data!AskFails(r) \/ Data!AskAgain(r)
                          \/ Data!ReadDies(r))
      OBVIOUS
    <3>1. ~Data!StartRead(r) /\ ~Data!Push(r) /\ ~Data!AskFails(r) /\ ~Data!AskAgain(r) /\ ~Data!ReadDies(r)
      BY <2>2 DEF Data!StartRead, Data!Push, Data!AskFails, Data!AskAgain, Data!ReadDies
    <3>2. \A v \in Watches : ~Data!Ask(r, v) /\ ~Data!Chats(r, v) /\ ~Data!Media(r, v)
      BY <2>2 DEF Data!Ask, Data!Chats, Data!Media
    <3> QED
      BY <3>1, <3>2 DEF Data!ReadStep
  <2>5. ~(Data!Poll \/ Data!Update \/ Data!SetDevices \/ Data!Loop \/ Data!Retry \/ Data!FetchFails
          \/ Data!Elapse \/ Data!Restart)
    BY <2>2 DEF Data!Poll, Data!Update, Data!StartFetch, Data!SetDevices, Data!Loop, Data!Retry,
                Data!FetchFails, Data!Elapse, Data!Restart
  <2> QED
    BY <2>2, <2>3, <2>4, <2>5 DEF Data!Next, Data!FetchStep, Data!vars
<1>2. /\ data' = Data!Merged(data, Data!Merged(fetch.snapshot, new)) /\ Data!HeapBecomes(h) /\ edits' = edits
  BY <1>1 DEF Data!Store
<1>3. new[w] = IF w \in fetch.targets THEN Data!Fresh(Data!Read(w)) ELSE Data!NoEntry
  OBVIOUS
<1>4. 0 \notin Ids /\ Data!NoEntry = 0 /\ Data!Fresh(Data!Read(w)) \in Ids
  BY SlotsTyped, FreshEntry
<1>5. \A i \in Ids : h[w][i] = IF i = new[w] THEN fetch.got[w] ELSE heap[w][i]
  OBVIOUS
<1>6. data[w] \in Ids \union {0} /\ fetch.snapshot[w] = IF w \in fetch.targets THEN Data!NoEntry ELSE data[w]
  BY <1>4 DEF AloneInv, Data!TypeOK, Data!Slots
<1> HIDE DEF new, h
<1>7. data'[w] = IF new[w] # Data!NoEntry THEN new[w]
                 ELSE IF fetch.snapshot[w] # Data!NoEntry THEN fetch.snapshot[w] ELSE data[w]
  BY <1>2 DEF Data!Merged
<1>8. data'[w] \in Ids => heap'[w][data'[w]] = h[w][data'[w]]
  BY <1>2 DEF Data!HeapBecomes
<1>9. CASE w \in fetch.targets
  <2>1. Data!Entry(w)' = fetch.got[w]
    BY <1>3, <1>4, <1>5, <1>7, <1>8, <1>9 DEF Data!Entry
  <2>2. Exact(w)
    BY <1>9 DEF AloneInv
  <2> QED
    BY <1>2, <1>9, <2>1, <2>2 DEF Exact, Data!Entry
<1>10. CASE w \notin fetch.targets
  <2> SUFFICES ASSUME data[w] # Data!NoEntry PROVE Data!Entry(w)' = Data!Entry(w)
    BY <1>10
  <2>1. data'[w] = data[w] /\ data[w] \in Ids /\ data[w] # new[w]
    BY <1>3, <1>4, <1>6, <1>7, <1>10
  <2> QED
    BY <1>5, <1>8, <2>1 DEF Data!Entry
<1> QED
  BY <1>9, <1>10

LEMMA AloneInit ==
  ASSUME Data!Init
  PROVE  AloneInv
BY DEF Data!Init, Data!Idle, AloneInv

\* An update that nothing overlaps is exact.
THEOREM UpdatesAreExact == Data!ConstantsAssumption /\ Data!Spec => ExactWhenAlone
<1> SUFFICES ASSUME Data!ConstantsAssumption PROVE Data!Spec => ExactWhenAlone
  OBVIOUS
<1> DEFINE Stored ==
             fetch.at = "store" /\ fetch.alone /\ fetch'.at = "idle" /\ data' # Nothing =>
               \A w \in Watches :
                 IF w \in fetch.targets
                 THEN /\ Entry(w)'.full
                      /\ data[w] # NoEntry => Entry(w)'.messages = Entry(w).messages
                      /\ fetch.functions /\ Entry(w)'.list # Empty => Entry(w)'.list = edits[w]
                 ELSE data[w] # NoEntry => Entry(w)' = Entry(w)
<1>1. Data!Init => Data!TypeOK /\ AloneInv
  BY DataInitTyped, AloneInit
<1>2. Data!TypeOK /\ AloneInv /\ [Data!Next]_Data!vars => Data!TypeOK' /\ AloneInv'
  BY DataTyped, AloneStep
<1>3. Data!TypeOK /\ AloneInv /\ [Data!Next]_Data!vars => [Stored]_fetch
  <2> SUFFICES ASSUME Data!TypeOK, AloneInv, [Data!Next]_Data!vars PROVE Stored
    OBVIOUS
  <2> QED
    BY StoreExact, Zenon DEF Entry, Data!Entry, Nothing, Data!Nothing, NoEntry, Data!NoEntry, Empty, Data!Empty
<1> QED
  BY <1>1, <1>2, <1>3, PTL DEF Data!Spec, ExactWhenAlone
=============================================================================
