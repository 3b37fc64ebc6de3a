--------------------------- MODULE MCTokenRecovery ---------------------------
(* A small instance of TokenRecovery for TLC.                              *)
EXTENDS TokenRecovery

CONSTANTS c1, c2, r1, r2

\* Left out: what an idle caller keeps of its last call, a _token_recovery that
\* is over, the token of a recovery that is over without success, how a recovery
\* nobody awaits has ended, a blob nobody writes, and whether the server accepts a
\* token that is nowhere any more.  No action that matters and no property reads
\* them.  Until a failure, DurableBeforeResume reads the recoveries that succeeded
\* and how the last write ended.
Saving == (\E c \in Callers : pc[c] = "saving") \/ \E r \in Recoveries : saves[r] # 0
Blob == IF Saving THEN pending ELSE 0
Held == IF reloaded = "yes" THEN Tokens
        ELSE {token, disk, Blob} \union {used[c] : c \in Callers}
Awaited(r) == \E c \in Callers : Waiting(c) /\ awaits[c] = r

View_ ==
  <<issued, live \intersect Held, half \intersect Held, session, Blob, disk, persisted, reloaded,
    IF history = "clean" THEN lastSave ELSE "lost",
    generation, history, pc, saves,
    IF recovery \in InFlight THEN recovery ELSE NoRecovery,
    [r \in Recoveries |->
       CASE rec[r] = "ok" /\ history = "clean" -> <<"ok", got[r]>>
         [] rec[r] \in Active \/ Awaited(r) -> <<rec[r], IF history = "clean" THEN got[r] ELSE 0>>
         [] OTHER -> <<"free", 0>>],
    [c \in Callers |-> IF pc[c] = "idle" THEN <<>> ELSE <<attempt[c], seen[c], used[c], awaits[c]>>]>>
=============================================================================
