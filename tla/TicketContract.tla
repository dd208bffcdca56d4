--------------------------- MODULE TicketContract ---------------------------
(***************************************************************************)
(* What the bot promises about the life of a support ticket, whatever the  *)
(* order in which clients, managers and the SLA loop act:                  *)
(*                                                                         *)
(*   - ids are handed out in order, and a ticket keeps its owner;          *)
(*   - one manager at most is ever assigned, never after the ticket has    *)
(*     ended, and the assignment is final;                                 *)
(*   - a ticket that has ended stays ended;                                *)
(*   - the owner's rating is given once.                                   *)
(*                                                                         *)
(* The statuses, deadlines and messages of the database are left out:      *)
(* TicketStore and SlaEscalation map their state to these variables and    *)
(* are shown to take only the steps below.                                 *)
(***************************************************************************)
EXTENDS Integers

CONSTANTS
    Tickets,   \* the ids a ticket can have, 1..n
    People,    \* clients, managers and administrators
    Nobody     \* not a person

VARIABLES
    owner,     \* who opened each ticket
    manager,   \* who was assigned to it
    ended,     \* the tickets that have been closed
    rated      \* the tickets whose owner has rated them

life == <<owner, manager, ended, rated>>

IsOpened(t) == owner[t] # Nobody

Init ==
    /\ owner = [t \in Tickets |-> Nobody]
    /\ manager = [t \in Tickets |-> Nobody]
    /\ ended = {}
    /\ rated = {}

Open(t, u) ==
    /\ ~ IsOpened(t)
    /\ \A s \in Tickets : s < t => IsOpened(s)
    /\ owner' = [owner EXCEPT ![t] = u]
    /\ UNCHANGED <<manager, ended, rated>>

Assign(t, m) ==
    /\ IsOpened(t)
    /\ manager[t] = Nobody
    /\ t \notin ended
    /\ manager' = [manager EXCEPT ![t] = m]
    /\ UNCHANGED <<owner, ended, rated>>

End(t) ==
    /\ IsOpened(t)
    /\ ended' = ended \cup {t}
    /\ UNCHANGED <<owner, manager, rated>>

Rate(t) ==
    /\ IsOpened(t)
    /\ t \notin rated
    /\ rated' = rated \cup {t}
    /\ UNCHANGED <<owner, manager, ended>>

Next ==
    \E t \in Tickets :
        \/ \E u \in People : Open(t, u) \/ Assign(t, u)
        \/ End(t)
        \/ Rate(t)

Spec == Init /\ [][Next]_life
=============================================================================
