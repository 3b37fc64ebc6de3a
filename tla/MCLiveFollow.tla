---------------------------- MODULE MCLiveFollow ----------------------------
(* Small instances of LiveFollow for TLC.                                  *)
EXTENDS LiveFollow

CONSTANTS anna, ben, u1, t1, f1, f2
=============================================================================
