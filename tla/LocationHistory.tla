--------------------------- MODULE LocationHistory ---------------------------
(***************************************************************************)
(* The location-history archive of one watch (coordinator.py:              *)
(* async_fetch_history_day, _store_day, _persist_loc_history,              *)
(* _restore_loc_history, _async_auto_fetch_yesterday), as used by the      *)
(* websocket command, the fetch_history service, a forced refresh and the  *)
(* nightly timer.                                                          *)
(*                                                                         *)
(* A reload builds a new coordinator, which restores its own archive from  *)
(* the file; what a call of an old coordinator still fetches goes into the *)
(* archive of the old one, and that is then saved over the same file.      *)
(*                                                                         *)
(* Days are numbered; the points of a day are counted, since an answer     *)
(* carries the points recorded so far.  A bucket remembers whose day its   *)
(* points are, which need not be the day it is filed under.                *)
(***************************************************************************)
EXTENDS Naturals

CONSTANTS
  Callers,     \* views, services and refreshes that fetch a day
  Nightly,     \* the caller that is the 01:00 timer
  Retention,   \* history_retention_days
  Served,      \* days the backend still serves, today included
  MaxDay,      \* bound on the days that pass
  MaxPoints,   \* bound on the points of a day
  LastBuild,   \* bound on the reloads of a run of Home Assistant
  Today,       \* date_param is None
  NoBucket     \* the day is not a key of _loc_history[wuid]

Days == 0 .. MaxDay
Builds == 0 .. LastBuild   \* the coordinators of a run, in the order they are built

\* The points of one day.
Buckets == [of : Days, points : 0 .. MaxPoints]

ASSUME ConstantsAssumption ==
  /\ Nightly \in Callers
  /\ Retention \in Nat /\ Served \in Nat \ {0}
  /\ MaxDay \in Nat /\ MaxPoints \in Nat /\ LastBuild \in Nat
  /\ Today \notin Days /\ NoBucket \notin Buckets

VARIABLES
  today, track,     \* the clock; server: the points recorded for each day
  built,            \* the coordinator the entry has now
  memory, disk,     \* _loc_history[wuid] of each coordinator; the history store's file
  pc, day, date,    \* each caller: progress, day_key, date_param
  owner, reply,     \* the coordinator it runs on, the bucket its answer carries
  archived,         \* the days the nightly timer found cached or has stored
  trouble,          \* what has happened to the fetches since the start
  lapse             \* a write failed or an old coordinator was at work, since
                    \* the file was last restored or written by the present one

server == <<today, track>>
tables == <<built, memory, disk>>
calls  == <<pc, day, date, owner, reply>>
vars   == <<server, tables, calls, archived, trouble, lapse>>

NoDays  == [d \in Days |-> NoBucket]
Archive == memory[built]

Bucket(d, n) == [of |-> d, points |-> n]

Init ==
  /\ today = 0 /\ track = [d \in Days |-> 0]
  /\ built = 0 /\ memory = [b \in Builds |-> NoDays] /\ disk = NoDays
  /\ pc = [c \in Callers |-> "idle"]
  /\ day = [c \in Callers |-> 0]
  /\ date = [c \in Callers |-> Today]
  /\ owner = [c \in Callers |-> 0]
  /\ reply = [c \in Callers |-> NoBucket]
  /\ archived = {}
  /\ trouble = {} /\ lapse = "none"

\* The watch reports a point.
Record ==
  /\ track[today] < MaxPoints
  /\ track' = [track EXCEPT ![today] = @ + 1]
  /\ UNCHANGED <<today, tables, calls, archived, trouble, lapse>>

Fetching(c) == pc[c] \in {"asked", "answered"}

Midnight ==
  /\ today < MaxDay
  /\ today' = today + 1
  /\ trouble' = trouble \union {t \in {"crossed"} : \E c \in Callers : pc[c] = "asked" /\ date[c] = Today}
  /\ UNCHANGED <<track, tables, calls, archived, lapse>>

-----------------------------------------------------------------------------
(* async_fetch_history_day                                                 *)

\* Only a past day that is cached is served without the network.
Cached(b, d) == d # today /\ memory[b][d] # NoBucket

\* Yesterday is asked for as today.
Bug_Ask(c, d, b) ==
  /\ pc' = [pc EXCEPT ![c] = "asked"]
  /\ day' = [day EXCEPT ![c] = d]
  /\ date' = [date EXCEPT ![c] = IF d + 1 >= today THEN Today ELSE d]
  /\ owner' = [owner EXCEPT ![c] = b]
  /\ trouble' = trouble \union {t \in {"overlap"} : \E a \in Callers \ {c} : pc[a] # "idle"}
  /\ lapse' = IF b = built THEN lapse ELSE "some"
  /\ UNCHANGED <<server, tables, reply>>

Ask(c, d, b) ==
  /\ pc' = [pc EXCEPT ![c] = "asked"]
  /\ day' = [day EXCEPT ![c] = d]
  /\ date' = [date EXCEPT ![c] = IF d = today THEN Today ELSE d]
  /\ owner' = [owner EXCEPT ![c] = b]
  /\ trouble' = trouble \union {t \in {"overlap"} : \E a \in Callers \ {c} : pc[a] # "idle"}
  /\ lapse' = IF b = built THEN lapse ELSE "some"
  /\ UNCHANGED <<server, tables, reply>>

\* The websocket command opens a day; a cached past day changes nothing.
ViewDay(c, d) ==
  /\ c # Nightly /\ pc[c] = "idle" /\ d <= today /\ ~Cached(built, d)
  /\ Ask(c, d, built)
  /\ UNCHANGED archived

\* The fetch_history service and a forced refresh fetch it in any case.  Those
\* that go through several watches may come to this one after a reload: they
\* keep the coordinator they began with.
ForceDay(c, d, b) ==
  /\ c # Nightly /\ pc[c] = "idle" /\ d <= today /\ b <= built
  /\ Ask(c, d, b)
  /\ UNCHANGED archived

\* _async_auto_fetch_yesterday: a cached day counts as archived.  Its run, too,
\* goes through the watches with the coordinator it began with.
AutoFetch ==
  /\ pc[Nightly] = "idle" /\ today > 0
  /\ \/ /\ Cached(built, today - 1)
        /\ archived' = archived \union {today - 1}
        /\ UNCHANGED <<server, tables, calls, trouble, lapse>>
     \/ \E b \in 0 .. built :
          /\ ~Cached(b, today - 1)
          /\ Ask(Nightly, today - 1, b)
          /\ UNCHANGED archived

\* The backend reads the date when the request arrives, and has nothing of a
\* day it no longer serves.
Answer(c) ==
  LET d == IF date[c] = Today THEN today ELSE date[c]
  IN  /\ pc[c] = "asked"
      /\ reply' = [reply EXCEPT ![c] = Bucket(d, IF d + Served > today THEN track[d] ELSE 0)]
      /\ pc' = [pc EXCEPT ![c] = "answered"]
      /\ UNCHANGED <<server, tables, day, date, owner, archived, trouble, lapse>>

Quit(c) == pc' = [pc EXCEPT ![c] = "idle"] /\ reply' = [reply EXCEPT ![c] = NoBucket]

\* A benign error counts as an empty day.
Bug_FetchFails(c) ==
  /\ Fetching(c)
  /\ reply' = [reply EXCEPT ![c] = Bucket(day[c], 0)]
  /\ pc' = [pc EXCEPT ![c] = "answered"]
  /\ UNCHANGED <<server, tables, day, date, owner, archived, trouble, lapse>>

\* A benign error returns what is cached; the others propagate.
FetchFails(c) ==
  /\ Fetching(c)
  /\ Quit(c)
  /\ UNCHANGED <<server, tables, day, date, owner, archived, trouble, lapse>>

Done(c) == archived' = IF c = Nightly /\ owner[c] = built THEN archived \union {day[c]} ELSE archived

\* _store_day: the bucket is replaced, days past the retention are dropped,
\* and the store is written if either changed anything.
Pruned(buckets) == [d \in Days |-> IF d + Retention < today THEN NoBucket ELSE buckets[d]]
Merged(c) == Pruned([memory[owner[c]] EXCEPT ![day[c]] = reply[c]])

\* Only the bucket itself is compared.
Bug_StoreDay(c) ==
  /\ pc[c] = "answered"
  /\ memory' = [memory EXCEPT ![owner[c]] = Merged(c)]
  /\ IF memory[owner[c]][day[c]] = reply[c]
       THEN Quit(c) /\ Done(c)
       ELSE pc' = [pc EXCEPT ![c] = "saving"] /\ UNCHANGED <<reply, archived>>
  /\ UNCHANGED <<server, built, disk, day, date, owner, trouble, lapse>>

StoreDay(c) ==
  /\ pc[c] = "answered"
  /\ memory' = [memory EXCEPT ![owner[c]] = Merged(c)]
  /\ IF Merged(c) = memory[owner[c]]
       THEN Quit(c) /\ Done(c)
       ELSE pc' = [pc EXCEPT ![c] = "saving"] /\ UNCHANGED <<reply, archived>>
  /\ UNCHANGED <<server, built, disk, day, date, owner, trouble, lapse>>

Straggles(c) == pc[c] # "idle" /\ owner[c] # built

\* The store holds a reference to the _loc_history of its coordinator and
\* serializes it when it writes.
Save(c) ==
  /\ pc[c] = "saving"
  /\ disk' = memory[owner[c]]
  /\ lapse' = IF \E b \in Callers : Straggles(b) THEN lapse ELSE "none"
  /\ Quit(c) /\ Done(c)
  /\ UNCHANGED <<server, built, memory, day, date, owner, trouble>>

\* A write error is logged by the store, not raised.
SaveFails(c) ==
  /\ pc[c] = "saving"
  /\ lapse' = "some"
  /\ Quit(c)
  /\ UNCHANGED <<server, tables, day, date, owner, archived, trouble>>

\* _restore_loc_history: a coordinator starts with what the file holds.
Restored == archived' = {d \in archived : disk[d] = Archive[d]}

\* The entry is reloaded; calls of the old coordinator run on.
Reload ==
  /\ built < LastBuild
  /\ built' = built + 1
  /\ memory' = [memory EXCEPT ![built + 1] = disk]
  /\ lapse' = IF \E c \in Callers : pc[c] # "idle" THEN "some" ELSE "none"
  /\ Restored
  /\ UNCHANGED <<server, disk, calls, trouble>>

\* Home Assistant stops or crashes and starts again.
Restart ==
  /\ built' = 0
  /\ memory' = [b \in Builds |-> IF b = 0 THEN disk ELSE NoDays]
  /\ pc' = [c \in Callers |-> "idle"]
  /\ reply' = [c \in Callers |-> NoBucket]
  /\ lapse' = "none"
  /\ Restored
  /\ UNCHANGED <<server, disk, day, date, owner, trouble>>

Next ==
  \/ Record \/ Midnight \/ AutoFetch \/ Reload \/ Restart
  \/ \E c \in Callers :
       \/ \E d \in Days : ViewDay(c, d) \/ \E b \in Builds : ForceDay(c, d, b)
       \/ Answer(c) \/ FetchFails(c) \/ StoreDay(c) \/ Save(c) \/ SaveFails(c)

Spec == Init /\ [][Next]_vars

-----------------------------------------------------------------------------
(* Properties                                                              *)

\* The variables stay in their ranges.
TypeOK ==
  /\ today \in Days /\ track \in [Days -> 0 .. MaxPoints]
  /\ built \in Builds
  /\ memory \in [Builds -> [Days -> Buckets \union {NoBucket}]]
  /\ disk \in [Days -> Buckets \union {NoBucket}]
  /\ pc \in [Callers -> {"idle", "asked", "answered", "saving"}]
  /\ day \in [Callers -> Days]
  /\ date \in [Callers -> Days \union {Today}]
  /\ owner \in [Callers -> Builds]
  /\ reply \in [Callers -> Buckets \union {NoBucket}]
  /\ archived \subseteq Days
  /\ trouble \subseteq {"crossed", "overlap"}
  /\ lapse \in {"none", "some"}

\* The archive survives a reload and a restart: while nobody saves, the file
\* holds what the present coordinator does, pruned days included.  Excepted is
\* a file whose write failed or which a call of an unloaded coordinator may
\* overwrite, until it is restored, or written by the present one alone.
DurableArchive ==
  lapse = "none" /\ (\A c \in Callers : pc[c] # "saving") => disk = Archive

\* A day's bucket holds that day's points, unless a fetch of today was on its
\* way at midnight.
OwnDay == "crossed" \notin trouble => \A d \in Days : Archive[d] # NoBucket => Archive[d].of = d

Keeps(d) == Archive'[d] # NoBucket /\ Archive'[d].points >= Archive[d].points

Kept(d) == Archive[d] # NoBucket /\ d + Retention >= today /\ Archive[d] # Archive'[d] => Keeps(d)

\* The file is current and no write is under way, so a restart loses nothing.
Settled == today' = today /\ lapse = "none" /\ \A c \in Callers : pc[c] # "saving"

\* While fetches do not overlap and the backend still serves the day, no
\* fetch, no reload and no restart loses a point of the archive.
ServedDaysKept ==
  [][Settled /\ trouble = {} => \A d \in Days : d + Served > today => Kept(d)]_vars

\* What the nightly timer has archived is the whole track of the day, which
\* was over when it ran ("Fetch yesterday's location track").
NightlyArchive ==
  trouble = {} => \A d \in archived : Archive[d] # NoBucket => Archive[d].points = track[d]
=============================================================================
