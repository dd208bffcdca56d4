--------------------------- MODULE MCTicketStore ---------------------------
(***************************************************************************)
(* The database on its own: two people, one of them an administrator, two  *)
(* tickets of up to four messages, a clock of three instants.              *)
(***************************************************************************)
EXTENDS TicketStore
=============================================================================
