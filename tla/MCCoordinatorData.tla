--------------------------- MODULE MCCoordinatorData ---------------------------
(* Small instances of CoordinatorData for TLC.                             *)
EXTENDS CoordinatorData

CONSTANTS anna, ben, e1, e2, r1, r2

FewIds == 1..6
=============================================================================
