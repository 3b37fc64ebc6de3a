----------------------------- MODULE FeedEvents -----------------------------
(***************************************************************************)
(* What the notification feed promises to automations: the events, against *)
(* the backend's feed and the high-water mark.  NotificationFeed has the   *)
(* cycles that fire and move the mark.                                     *)
(***************************************************************************)
EXTENDS Naturals, Sequences

CONSTANTS
  MaxEntries,  \* bound on the feed
  NoMark       \* _notifications_mark is None

VARIABLES
  feed,          \* the backend's entries, oldest first
  gen, mark,     \* the live coordinator; each one's _notifications_mark
  fired, before, \* the events of each entry: so far, when a mark was last dropped
  silent,        \* entries passed by a baseline
  dropped,       \* entries of a category that was off, or beyond a full page
  baselined,     \* a page was the baseline since a mark was last dropped
  mishaps        \* what has happened since the start

\* plan_events: what a mark has seen.
Covers(m, e) ==
  \/ feed[e].create < m.create
  \/ feed[e].create = m.create /\ e \in m.ids

\* However the cycles overlap and their answers are reordered, an entry fires
\* once between two drops of the mark (plan_events), as long as no mark failed
\* to reach the file and no cycle outlived its coordinator.
FiredOnce == mishaps = {} => \A e \in 1 .. MaxEntries : fired[e] <= before[e] + 1

\* What the mark passes was fired, was the backlog of a baseline, belonged to
\* a category that was off, or lay beyond a full page (the warning).
NothingLost ==
  \A e \in 1 .. Len(feed) :
    mark[gen] # NoMark /\ Covers(mark[gen], e) => e \in silent \union dropped \/ fired[e] > 0

\* "None until the first fetch baselines it" (coordinator.py:195-196): after
\* the first page with entries nothing is passed in silence any more, across
\* overlapping cycles, reloads and restarts, until the mark is dropped, under
\* the condition of FiredOnce.  An empty first page is no baseline: the entry
\* that comes after it is passed in silence.
BaselinedByFirst == [][mishaps = {} /\ baselined => silent' = silent]_silent
=============================================================================
