-------------------------- MODULE MCUpdateCoalescer --------------------------
(* A small instance of UpdateCoalescer for TLC: three callers of a plain   *)
(* and a forced signature, which share two task slots.                     *)
EXTENDS UpdateCoalescer

CONSTANTS c1, c2, c3, plain, forced, f1, f2
=============================================================================
