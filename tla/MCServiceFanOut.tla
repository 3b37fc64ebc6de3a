--------------------------- MODULE MCServiceFanOut ---------------------------
(* Small instances of ServiceFanOut for TLC.                               *)
EXTENDS ServiceFanOut, TLC

CONSTANTS home, school, anna, ben, carl, lamp, x, y, z

Family == (anna :> home) @@ (ben :> home) @@ (carl :> school)
Schedules == (anna :> {x, y}) @@ (ben :> {z}) @@ (carl :> {})
=============================================================================
