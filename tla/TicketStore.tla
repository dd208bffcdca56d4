---------------------------- MODULE TicketStore ----------------------------
(***************************************************************************)
(* The ticket database and the operations of src/support/service.py on it. *)
(*                                                                         *)
(* Each operation of the service runs in one `db.transaction()', so it is  *)
(* one atomic action here.  An operation that returns False, or that the   *)
(* database refuses, changes nothing and is not an action: its condition   *)
(* is the guard of the action that stands for the operation's success.     *)
(*                                                                         *)
(* Specification StoreSpec lets every operation happen in every order with *)
(* every argument, which is more than the bot ever does: what holds of     *)
(* StoreSpec holds however the handlers and the SLA loop interleave.       *)
(***************************************************************************)
EXTENDS Integers, Sequences, FiniteSets

CONSTANTS
    Users,        \* everyone who can write to the bot
    Admins,       \* config.admin_ids
    NoUser,       \* NULL in manager_id, None for user_id, 0 for the bot itself
    Texts,        \* message bodies
    ReplyWindow,  \* SLA_REPLY_MINUTES, in units of the clock
    CloseWindow,  \* SLA_CLOSE_HOURS, in units of the clock
    MaxTickets,   \* bound: tickets ever created
    MaxRows,      \* bound: rows of table ticket_messages
    MaxNow        \* bound: the last instant of the clock

ASSUME StoreAssumption ==
    /\ Admins \subseteq Users
    /\ NoUser \notin Users
    /\ MaxTickets \in Nat
    /\ MaxRows \in Nat
    /\ MaxNow \in Nat
    /\ ReplyWindow \in Nat
    /\ CloseWindow \in Nat

VARIABLES
    lastId,    \* the AUTOINCREMENT counter of table tickets
    tickets,   \* table tickets, by id; category and subject are not modelled
    messages,  \* table ticket_messages, by ticket_id, in insertion order
    feedback,  \* the ticket_ids of table feedback
    now        \* datetime('now')

storeVars == <<lastId, tickets, messages, feedback, now>>

Ids == 1 .. MaxTickets

\* ticket_messages.ticket_id: the foreign key is declared, but SQLite enforces
\* none unless asked to, so a row may name the id 0 that no ticket has.
MessageIds == 0 .. MaxTickets

\* NULL in closed_at
NoTime == -1

\* Nothing in src/ writes 'in_progress', though the overdue query asks for it.
Statuses == {"absent", "new", "taken", "in_progress", "escalated", "closed"}

Roles == {"client", "manager", "system", "note"}

Ticket == [owner    : Users \cup {NoUser},
           status   : Statuses,
           manager  : Users \cup {NoUser},
           openedAt : 0 .. MaxNow,
           closedAt : {NoTime} \cup 0 .. MaxNow,
           slaDue   : Nat]

\* The filler for an id that has no row yet.
Absent == [owner |-> NoUser, status |-> "absent", manager |-> NoUser,
           openedAt |-> 0, closedAt |-> NoTime, slaDue |-> 0]

\* The two texts take_ticket and close_ticket write of their own accord.
SystemTexts == {"taken", "closed"}

Row == [sender : Users \cup {NoUser},
        role   : Roles,
        text   : Texts \cup SystemTexts]

Stored == 1 .. lastId

StoreTypeOK ==
    /\ lastId \in 0 .. MaxTickets
    /\ tickets \in [Ids -> Ticket]
    /\ messages \in [MessageIds -> Seq(Row)]
    /\ feedback \subseteq Ids
    /\ now \in 0 .. MaxNow

StoreInit ==
    /\ lastId = 0
    /\ tickets = [t \in Ids |-> Absent]
    /\ messages = [t \in MessageIds |-> <<>>]
    /\ feedback = {}
    /\ now = 0

-----------------------------------------------------------------------------
(***************************************************************************)
(* The operations.                                                         *)
(***************************************************************************)

RoomForARow ==
    Cardinality(UNION {{t} \X DOMAIN messages[t] : t \in MessageIds}) < MaxRows

\* INSERT INTO ticket_messages
InsertMessage(t, sender, role, text) ==
    /\ RoomForARow
    /\ messages' = [messages EXCEPT ![t] =
                        Append(@, [sender |-> sender, role |-> role, text |-> text])]

\* A bug to check against: the offset is taken from the clock, not added to it.
NewTicketDueBefore(u) ==
    [owner |-> u, status |-> "new", manager |-> NoUser,
     openedAt |-> now, closedAt |-> NoTime, slaDue |-> now - ReplyWindow]

\* The row create_ticket inserts: status 'new', opened_at by default now, the
\* deadline a reply window away.
NewTicket(u) ==
    [owner |-> u, status |-> "new", manager |-> NoUser,
     openedAt |-> now, closedAt |-> NoTime, slaDue |-> now + ReplyWindow]

CreateTicket(u, subject) ==
    /\ lastId < MaxTickets
    /\ lastId' = lastId + 1
    /\ tickets' = [tickets EXCEPT ![lastId + 1] = NewTicket(u)]
    /\ InsertMessage(lastId + 1, u, "client", subject)
    /\ UNCHANGED <<feedback, now>>

\* Bugs to check against: the condition on the status is dropped, or excludes
\* only the closed tickets.
CanTakeAny(t) == t \in Stored
CanTakeUnlessClosed(t) == t \in Stored /\ tickets[t].status # "closed"

\* UPDATE ... WHERE id = :tid AND status = 'new'; no row matched, no assignment.
CanTake(t) == t \in Stored /\ tickets[t].status = "new"

\* A bug to check against: the line is written without asking rowcount.
TakeTicketUnasked(t, m) ==
    /\ t \in Stored
    /\ tickets' = IF CanTake(t)
                  THEN [tickets EXCEPT ![t].manager = m, ![t].status = "taken"]
                  ELSE tickets
    /\ InsertMessage(t, m, "system", "taken")
    /\ UNCHANGED <<lastId, feedback, now>>

TakeTicket(t, m) ==
    /\ CanTake(t)
    /\ tickets' = [tickets EXCEPT ![t].manager = m, ![t].status = "taken"]
    /\ InsertMessage(t, m, "system", "taken")
    /\ UNCHANGED <<lastId, feedback, now>>

\* A bug to check against: every message moves the deadline.
AddMessageMovingDeadline(t, sender, role, text) ==
    /\ InsertMessage(t, sender, role, text)
    /\ tickets' = [tickets EXCEPT ![t].slaDue = now + CloseWindow]
    /\ UNCHANGED <<lastId, feedback, now>>

\* Only a message in the manager's role moves the deadline to the close window.
\* The UPDATE matches no row when no ticket has the id.
AddMessage(t, sender, role, text) ==
    /\ InsertMessage(t, sender, role, text)
    /\ tickets' = IF role = "manager" /\ t \in Stored
                  THEN [tickets EXCEPT ![t].slaDue = now + CloseWindow]
                  ELSE tickets
    /\ UNCHANGED <<lastId, feedback, now>>

\* user_id None closes on nobody's behalf; otherwise the owner or an admin.
MayClose(t, u) ==
    /\ t \in Stored
    /\ \/ u = NoUser
       \/ u = tickets[t].owner
       \/ u \in Admins

CloseTicket(t, u) ==
    /\ MayClose(t, u)
    /\ tickets' = [tickets EXCEPT ![t].status = "closed", ![t].closedAt = now]
    /\ InsertMessage(t, NoUser, "system", "closed")
    /\ UNCHANGED <<lastId, feedback, now>>

\* UPDATE tickets SET status = 'escalated' WHERE id = :tid, with no other condition.
EscalateTicket(t) ==
    /\ t \in Stored
    /\ tickets' = [tickets EXCEPT ![t].status = "escalated"]
    /\ UNCHANGED <<lastId, messages, feedback, now>>

\* The owner rates; feedback.ticket_id is UNIQUE, so a second INSERT is refused.
MayRate(t, u) ==
    /\ t \in Stored
    /\ u \in {NoUser, tickets[t].owner}
    /\ t \notin feedback

AddFeedback(t, u) ==
    /\ MayRate(t, u)
    /\ feedback' = feedback \cup {t}
    /\ UNCHANGED <<lastId, tickets, messages, now>>

\* An internal note for the managers, left out of get_ticket_messages.
AddNote(t, u, text) ==
    /\ InsertMessage(t, u, "note", text)
    /\ UNCHANGED <<lastId, tickets, feedback, now>>

\* The clock.
Tick ==
    /\ now < MaxNow
    /\ now' = now + 1
    /\ UNCHANGED <<lastId, tickets, messages, feedback>>

\* Nothing is deleted and ids are not reused, so an id the bot has read from the
\* database is one of a ticket.  Only a handler that has lost it falls back to 0.
StoreNext ==
    \/ \E u \in Users, x \in Texts : CreateTicket(u, x)
    \/ \E t \in Ids, m \in Users : TakeTicket(t, m)
    \/ \E t \in Stored \cup {0}, u \in Users, r \in {"client", "manager"}, x \in Texts :
          AddMessage(t, u, r, x)
    \/ \E t \in Ids, u \in Users \cup {NoUser} : CloseTicket(t, u)
    \/ \E t \in Ids : EscalateTicket(t)
    \/ \E t \in Ids, u \in Users \cup {NoUser} : AddFeedback(t, u)
    \/ \E t \in Stored, u \in Users, x \in Texts : AddNote(t, u, x)
    \/ Tick

StoreSpec == StoreInit /\ [][StoreNext]_storeVars
-----------------------------------------------------------------------------
(***************************************************************************)
(* The queries.                                                            *)
(***************************************************************************)

\* A bug to check against: the query asks for whatever is not closed.
IsOverdueUnlessClosed(t) ==
    /\ t \in Stored
    /\ tickets[t].status # "closed"
    /\ tickets[t].slaDue <= now

\* A bug to check against: the deadline is compared with a later instant.
IsOverdueSoon(t) ==
    /\ t \in Stored
    /\ tickets[t].status \in {"taken", "in_progress"}
    /\ tickets[t].slaDue <= now + 1

\* A bug to check against: the query asks for whatever is no longer new.
IsOverdueUnlessNew(t) ==
    /\ t \in Stored
    /\ tickets[t].status \notin {"new", "escalated"}
    /\ tickets[t].slaDue <= now

\* What get_overdue_tickets selects.  No ticket is ever without a deadline.
IsOverdue(t) ==
    /\ t \in Stored
    /\ tickets[t].status \in {"taken", "in_progress"}
    /\ tickets[t].slaDue <= now

\* The rows of a ticket with a given role and text, as positions in its log.
RowsOf(t, role, text) ==
    {i \in DOMAIN messages[t] : messages[t][i].role = role /\ messages[t][i].text = text}

-----------------------------------------------------------------------------
(***************************************************************************)
(* What the operations guarantee in any order.                             *)
(***************************************************************************)

(***************************************************************************)
(* The columns of a row agree with its status: a new ticket has neither a  *)
(* manager nor a closing time, a taken one has a manager and is not ended, *)
(* a closed one has a closing time, and a ticket once ended is `closed' or *)
(* `escalated', never again in the queue or in work.  escalate_ticket and  *)
(* close_ticket write the status without looking at it, so this rests on   *)
(* the condition of take_ticket alone.                                     *)
(***************************************************************************)
RowIsConsistent(t) ==
    /\ t \in Stored <=> tickets[t].owner # NoUser
    /\ t \in Stored <=> tickets[t].status # "absent"
    /\ tickets[t].status \in {"absent", "new"} =>
            tickets[t].manager = NoUser /\ tickets[t].closedAt = NoTime
    /\ tickets[t].status = "taken" =>
            tickets[t].manager # NoUser /\ tickets[t].closedAt = NoTime
    /\ tickets[t].status = "closed" => tickets[t].closedAt # NoTime
    /\ tickets[t].status # "in_progress"
    /\ t \in feedback => t \in Stored

StatusTellsTheRow == \A t \in Ids : RowIsConsistent(t)

(***************************************************************************)
(* The log of a ticket tells the row's history: it opens with the owner's  *)
(* own words; it holds the line `taken' exactly once if a manager is       *)
(* assigned, signed by that manager and before any line `closed', and      *)
(* never otherwise; and it holds a line `closed' exactly if the ticket has *)
(* a closing time.  Each operation writes the row and the line in one      *)
(* transaction, and nothing but that keeps the two tables in step.         *)
(***************************************************************************)
LogTellsTheRow ==
    \A t \in Stored :
        LET taken  == RowsOf(t, "system", "taken")
            closed == RowsOf(t, "system", "closed")
        IN  /\ messages[t] # <<>>
            /\ messages[t][1].role = "client"
            /\ messages[t][1].sender = tickets[t].owner
            /\ Cardinality(taken) = IF tickets[t].manager = NoUser THEN 0 ELSE 1
            /\ \A i \in taken : /\ messages[t][i].sender = tickets[t].manager
                                 /\ \A j \in closed : i < j
            /\ closed # {} <=> tickets[t].closedAt # NoTime

(***************************************************************************)
(* The deadline follows the log: until a manager's message is in the log   *)
(* it is the one set when the ticket was opened; from then on it is a      *)
(* close window after one of the manager's messages, so between a close    *)
(* window after the opening and a close window from now.  Taking, closing, *)
(* escalating, rating and messages in the client's role leave it alone.    *)
(* The role is the handlers' choice, and they store a client's reply in    *)
(* the manager's (SlaEscalation!Reply).  The clock is the wall clock, as   *)
(* in the code: no hour is left out of a window, whatever the              *)
(* documentation says (MCSlaEscalation).                                   *)
(***************************************************************************)
DeadlineFollowsTheLog ==
    \A t \in Stored :
        IF \E i \in DOMAIN messages[t] : messages[t][i].role = "manager"
        THEN tickets[t].slaDue \in tickets[t].openedAt + CloseWindow .. now + CloseWindow
        ELSE tickets[t].slaDue = tickets[t].openedAt + ReplyWindow

\* What the contract sees of the tables.
Owners   == [t \in Ids |-> tickets[t].owner]
Managers == [t \in Ids |-> tickets[t].manager]
Ended    == {t \in Ids : tickets[t].closedAt # NoTime}

Contract == INSTANCE TicketContract
    WITH Tickets <- Ids, People <- Users, Nobody <- NoUser,
         owner <- Owners, manager <- Managers, ended <- Ended, rated <- feedback

(***************************************************************************)
(* The database implements TicketContract: the owner, the manager, the end *)
(* and the rating of a ticket change only as the contract allows.          *)
(***************************************************************************)
ImplementsContract == Contract!Spec

(***************************************************************************)
(* What interleaves the operations of the service with steps of its own    *)
(* does nothing else to the tables: each of its steps leaves them alone or *)
(* is one operation.  It is StoreSpec with the stutter tried first, for    *)
(* most steps are one; whatever holds of StoreSpec then holds of it.       *)
(***************************************************************************)
OnlyTheService == StoreInit /\ [][UNCHANGED storeVars \/ StoreNext]_storeVars
=============================================================================
