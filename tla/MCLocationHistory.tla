------------------------- MODULE MCLocationHistory --------------------------
(* Small instances of LocationHistory for TLC.                             *)
EXTENDS LocationHistory

\* What a caller goes on to read of its day, date, owner and reply; no action
\* that matters reads archived.
Call(c) ==
  CASE pc[c] = "idle"     -> <<>>
    [] pc[c] = "asked"    -> <<day[c], date[c], owner[c]>>
    [] pc[c] = "answered" -> <<day[c], owner[c], reply[c]>>
    [] pc[c] = "saving"   -> <<owner[c]>>

View_ == <<server, tables, pc, trouble, lapse, [c \in Callers |-> Call(c)]>>
=============================================================================
