------------------------------ MODULE MCIntake ------------------------------
(***************************************************************************)
(* The intake of one person's messages, two of them at work at a time,     *)
(* with a restart and a wall clock that is set forward and back again.     *)
(***************************************************************************)
EXTENDS Intake
=============================================================================
