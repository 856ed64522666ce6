------------------------------- MODULE MCMower -------------------------------
(***************************************************************************)
(* Mower on a small instance.  The challenges are those of the tests, with *)
(* the password of the settings; one restart of the robot and one line it  *)
(* misses, anywhere; commands that set different fields.                   *)
(***************************************************************************)

EXTENDS Mower

MCUsed == {Start, MowerEnabled("on")}
=============================================================================
