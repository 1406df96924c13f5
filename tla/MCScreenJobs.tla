---------------------------- MODULE MCScreenJobs ----------------------------
(* Small instances of ScreenJobs for TLC.  The runs check liveness, so they *)
(* use no symmetry.                                                         *)
EXTENDS ScreenJobs

CONSTANTS j1, j2
=============================================================================
