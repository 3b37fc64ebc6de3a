--------------------------- MODULE MCXploraClient ---------------------------
(* Small instances of XploraClient for TLC.                                *)
EXTENDS XploraClient, TLC

CONSTANTS anna, ben, alarms

Symmetry == Permutations({anna, ben})
=============================================================================
