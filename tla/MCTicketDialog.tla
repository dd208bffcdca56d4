--------------------------- MODULE MCTicketDialog ---------------------------
(***************************************************************************)
(* The conversation of one client, two updates at a time, beside another   *)
(* person who opens tickets; the runs differ in whether the client waits   *)
(* for the bot before acting again.                                        *)
(***************************************************************************)
EXTENDS TicketDialog, TLC

\* The slots are interchangeable.
SlotSymmetry == Permutations(Slots)
=============================================================================
