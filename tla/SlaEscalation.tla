--------------------------- MODULE SlaEscalation ---------------------------
(***************************************************************************)
(* The SLA loop of src/sla/scheduler.py beside the handlers that change    *)
(* the same tickets.                                                       *)
(*                                                                         *)
(* The loop takes a snapshot of the overdue tickets and walks through it:  *)
(* for each it commits the escalation, then sends a notice to the client   *)
(* and one to the manager.  Every await between those steps lets handlers  *)
(* run, so the snapshot may be stale by the time a ticket is reached.  A   *)
(* notice that fails is logged and forgotten; a failing database call      *)
(* drops the rest of the snapshot; the process may die anywhere and start  *)
(* again.                                                                  *)
(*                                                                         *)
(* What a handler does between two awaits is not of interest here: the     *)
(* environment is the operations of TicketStore, under the conditions in   *)
(* which the handlers of src/support/handlers.py call them.                *)
(***************************************************************************)
EXTENDS TicketStore

CONSTANTS
    Transport,  \* "webhook" if WEBHOOK_URL is set, else "polling"
    MaxFaults   \* bound: failed sends, failed database calls and crashes

ASSUME SlaAssumption ==
    /\ Transport \in {"polling", "webhook"}
    /\ MaxFaults \in Nat

VARIABLES
    pc,      \* where the loop stands; "off" if it was never started
    batch,   \* the part of the snapshot still to be walked through
    cur,     \* the ticket of the snapshot being handled
    told,    \* the notices each ticket's client and manager have received
    seen,    \* history: the length each log had when its ticket was last selected
    faults   \* how many faults have happened

slaVars == <<pc, batch, cur, told, seen, faults>>
vars == <<storeVars, slaVars>>

NoJob == [id |-> 0, owner |-> NoUser, manager |-> NoUser]

Job == [id : MessageIds, owner : Users \cup {NoUser}, manager : Users \cup {NoUser}]

Places == {"off", "poll", "each", "tellClient", "tellManager", "sleep", "down"}

SlaTypeOK ==
    /\ StoreTypeOK
    /\ pc \in Places
    /\ batch \subseteq Job
    /\ cur \in Job
    /\ told \in [Ids -> [client : Nat, manager : Nat]]
    /\ seen \in [Ids -> Nat]
    /\ faults \in 0 .. MaxFaults

\* _run_polling starts the loop; _run_webhook does not.
Boot == IF Transport = "polling" THEN "poll" ELSE "off"

Init ==
    /\ StoreInit
    /\ pc = Boot
    /\ batch = {}
    /\ cur = NoJob
    /\ told = [t \in Ids |-> [client |-> 0, manager |-> 0]]
    /\ seen = [t \in Ids |-> 0]
    /\ faults = 0

-----------------------------------------------------------------------------
(***************************************************************************)
(* The loop.                                                               *)
(***************************************************************************)

\* The columns of a row that the loop uses after reading it.
Snapshot(t) == [id |-> t, owner |-> tickets[t].owner, manager |-> tickets[t].manager]

SelectOverdue ==
    /\ batch' = {Snapshot(t) : t \in {s \in Ids : IsOverdue(s)}}
    /\ seen' = [t \in Ids |-> IF IsOverdue(t) THEN Len(messages[t]) ELSE 0]

\* A bug to check against: one UPDATE escalates the whole snapshot.
PollOverdueAndEscalate ==
    /\ pc = "poll"
    /\ SelectOverdue
    /\ tickets' = [t \in Ids |-> IF IsOverdue(t)
                                 THEN [tickets[t] EXCEPT !.status = "escalated"]
                                 ELSE tickets[t]]
    /\ pc' = "each"
    /\ UNCHANGED <<lastId, messages, feedback, now, cur, told, faults>>

\* get_overdue_tickets has no ORDER BY: the snapshot is a set.
PollOverdue ==
    /\ pc = "poll"
    /\ SelectOverdue
    /\ pc' = "each"
    /\ UNCHANGED <<storeVars, cur, told, faults>>

EscalateNext(job) ==
    /\ pc = "each"
    /\ job \in batch
    /\ EscalateTicket(job.id)
    /\ batch' = batch \ {job}
    /\ cur' = job
    /\ pc' = "tellClient"
    /\ UNCHANGED <<told, seen, faults>>

EndRound ==
    /\ pc = "each"
    /\ batch = {}
    /\ pc' = "sleep"
    /\ UNCHANGED <<storeVars, batch, cur, told, seen, faults>>

Fault ==
    /\ faults < MaxFaults
    /\ faults' = faults + 1

\* A send either arrives, or fails and is only logged.
Deliver(who) ==
    \/ /\ told' = [told EXCEPT ![cur.id][who] = @ + 1]
       /\ UNCHANGED faults
    \/ /\ Fault
       /\ UNCHANGED told

TellClient ==
    /\ pc = "tellClient"
    /\ Deliver("client")
    /\ IF cur.manager # NoUser
       THEN pc' = "tellManager" /\ cur' = cur
       ELSE pc' = "each" /\ cur' = NoJob
    /\ UNCHANGED <<storeVars, batch, seen>>

TellManager ==
    /\ pc = "tellManager"
    /\ Deliver("manager")
    /\ pc' = "each"
    /\ cur' = NoJob
    /\ UNCHANGED <<storeVars, batch, seen>>

\* A bug to check against: the exception leaves the loop, and the task is dead.
DatabaseFaultEndsLoop ==
    /\ pc \in {"poll", "each"}
    /\ Fault
    /\ batch' = {}
    /\ pc' = "off"
    /\ UNCHANGED <<storeVars, cur, told, seen>>

\* The query or an UPDATE raises: the outer except drops the rest of the round.
DatabaseFault ==
    /\ \/ pc = "poll"
       \/ pc = "each" /\ batch # {}
    /\ Fault
    /\ batch' = {}
    /\ pc' = "sleep"
    /\ UNCHANGED <<storeVars, cur, told, seen>>

Wake ==
    /\ pc = "sleep"
    /\ pc' = "poll"
    /\ UNCHANGED <<storeVars, batch, cur, told, seen, faults>>

\* The process dies, or is cancelled at one of the loop's awaits.
Crash ==
    /\ pc # "down"
    /\ Fault
    /\ pc' = "down"
    /\ batch' = {}
    /\ cur' = NoJob
    /\ UNCHANGED <<storeVars, told, seen>>

Restart ==
    /\ pc = "down"
    /\ pc' = Boot
    /\ UNCHANGED <<storeVars, batch, cur, told, seen, faults>>

-----------------------------------------------------------------------------
(***************************************************************************)
(* The handlers, while the process is up.                                  *)
(***************************************************************************)

\* start_reply lets the owner and the administrators write in a ticket.
MayReply(t, u) == t \in Stored /\ (u = tickets[t].owner \/ u \in Admins)

\* confirm_ticket
Client(u) == \E x \in Texts : CreateTicket(u, x)

\* take_ticket_handler: whoever presses the button
Take(t, u) == TakeTicket(t, u)

\* send_reply and send_canned_reply: the role is `manager' for everyone, so a client's
\* own words move the deadline of his ticket.
Reply(t, u) ==
    /\ MayReply(t, u)
    /\ \E x \in Texts : AddMessage(t, u, "manager", x)

\* confirm_close
Close(t, u) == CloseTicket(t, u)

\* rate_ticket: the buttons are sent when the ticket has been closed.
Rate(t, u) == tickets[t].closedAt # NoTime /\ AddFeedback(t, u)

Handlers ==
    /\ pc # "down"
    /\ \E u \in Users :
          \/ Client(u)
          \/ \E t \in Ids : Take(t, u) \/ Reply(t, u) \/ Close(t, u) \/ Rate(t, u)
    /\ UNCHANGED slaVars

Clock == Tick /\ UNCHANGED slaVars

Loop ==
    \/ PollOverdue
    \/ \E job \in batch : EscalateNext(job)
    \/ EndRound
    \/ TellClient
    \/ TellManager
    \/ Wake

Next == Loop \/ DatabaseFault \/ Crash \/ Restart \/ Handlers \/ Clock

Spec == Init /\ [][Next]_vars

\* asyncio keeps running a task that is ready, a send ends, a sleep ends, and
\* the supervisor restarts the process.  Nothing is asked of people or faults.
FairSpec == Spec /\ WF_vars(Loop) /\ WF_vars(Restart)

-----------------------------------------------------------------------------
(***************************************************************************)
(* Properties.                                                             *)
(***************************************************************************)

(***************************************************************************)
(* The snapshot may be stale in the status of a ticket, but never in whom  *)
(* it names: the owner and the manager to whom the loop is about to write  *)
(* are those of the row, since a ticket once taken is never assigned       *)
(* again.                                                                  *)
(***************************************************************************)
AddresseesAreCurrent ==
    \A job \in batch \cup {cur} :
        job # NoJob => /\ job = Snapshot(job.id)
                       /\ job.id \in Stored
                       /\ job.manager # NoUser

(***************************************************************************)
(* Nobody is told twice that the same ticket is overdue, whatever crashes  *)
(* and restarts happen: the escalation commits before the notices, and an  *)
(* escalated ticket never becomes `taken' again.                           *)
(***************************************************************************)
OneNotice == \A t \in Ids : told[t].client <= 1 /\ told[t].manager <= 1

\* A manager's message has been written since the ticket was last selected.
AnsweredSince(t) == \E i \in seen[t] + 1 .. Len(messages[t]) : messages[t][i].role = "manager"

\* The deadline has passed, or had when the ticket was selected and has been
\* moved since by an answer that came too late.
BreachWasReal(t) == tickets[t].slaDue <= now \/ AnsweredSince(t)

(***************************************************************************)
(* A ticket becomes `escalated' only if a manager has taken it and its     *)
(* deadline has really passed; the one other case is a ticket that is      *)
(* overdue when the loop selects it and is answered before the loop        *)
(* reaches it, so that its deadline lies ahead again.  The deadline is the *)
(* one the code sets, on the wall clock: see CountsBusinessTime.           *)
(***************************************************************************)
IsEscalated(t) == tickets[t].status = "escalated"

NoEarlyEscalation ==
    [][\A t \in Ids : ~ IsEscalated(t) /\ IsEscalated(t)' =>
                         tickets[t].manager # NoUser /\ BreachWasReal(t)]_vars

(***************************************************************************)
(* Why the three hold: an inductive invariant.                             *)
(*                                                                         *)
(*   - a ticket in the snapshot is still overdue, or has been answered     *)
(*     since it was selected;                                              *)
(*   - no deadline lies before the first one, nor an opening after now;    *)
(*   - a notice has only ever been sent about a ticket that has since been *)
(*     escalated or closed, and so cannot be selected again;               *)
(*   - a job waiting in the snapshot is as its row was, has not been       *)
(*     announced, and is not the one in hand.                              *)
(***************************************************************************)
Smaller(a, b) == IF a <= b THEN a ELSE b

\* No deadline a ticket ever has lies before this instant.
FirstDeadline(t) == tickets[t].openedAt + Smaller(ReplyWindow, CloseWindow)

Announced(t) ==
    \/ tickets[t].status = "escalated"
    \/ told[t].client > 0
    \/ told[t].manager > 0

Settled == {"escalated", "closed"}

Telling == {"tellClient", "tellManager"}

DeadlineInv ==
    \A t \in Stored : /\ tickets[t].openedAt <= now
                      /\ FirstDeadline(t) <= tickets[t].slaDue

Untold(t) == told[t].client = 0 /\ told[t].manager = 0

NoticeInv ==
    \A t \in Ids :
        /\ told[t].client \in {0, 1}
        /\ told[t].manager \in {0, 1}
        /\ tickets[t].status \notin Settled => Untold(t)
        /\ Announced(t) => tickets[t].manager # NoUser /\ FirstDeadline(t) <= now

JobIsDue(job) ==
    /\ job.id \in Stored
    /\ job = Snapshot(job.id)
    /\ job.manager # NoUser
    /\ FirstDeadline(job.id) <= now

LoopInv ==
    /\ \A job \in batch : JobIsDue(job) /\ Untold(job.id)
    /\ pc \in Telling => /\ JobIsDue(cur)
                         /\ tickets[cur.id].status \in Settled
                         /\ told[cur.id].manager = 0
                         /\ \A job \in batch : job.id # cur.id
    /\ pc = "tellClient" => told[cur.id].client = 0
    /\ pc \notin Telling => cur = NoJob

BreachInv ==
    \A job \in batch : BreachWasReal(job.id) /\ seen[job.id] <= Len(messages[job.id])

SlaInv ==
    /\ SlaTypeOK
    /\ StatusTellsTheRow
    /\ DeadlineInv
    /\ BreachInv
    /\ NoticeInv
    /\ LoopInv

(***************************************************************************)
(* A fault costs the client of an escalated ticket at most one notice, and *)
(* likewise its manager: the escalated tickets of which one of the two has *)
(* not been told, the one in hand apart, are no more than the sends that   *)
(* failed and the crashes that fell between the escalation and the send.   *)
(* In particular an abandoned round loses none, and a manager is told even *)
(* when the client could not be.                                           *)
(***************************************************************************)
\* Where the loop stands while it has still to tell one of the two.
StillToTell == [client |-> {"tellClient"}, manager |-> Telling]

Unannounced(who) ==
    {t \in Ids : /\ tickets[t].status = "escalated"
                 /\ told[t][who] = 0
                 /\ ~ (pc \in StillToTell[who] /\ cur.id = t)}

FaultsLoseOneNoticeEach ==
    \A who \in {"client", "manager"} : Cardinality(Unannounced(who)) <= faults

(***************************************************************************)
(* A closed ticket is shown as anything else only by a round that read it  *)
(* before it was closed: unless it waits in a snapshot, it stays closed    *)
(* and enters none, whatever the handlers and later rounds do.             *)
(***************************************************************************)
IsShut(t) == tickets[t].status = "closed" /\ \A job \in batch : job.id # t

OnlySnapshotsReopen == [][\A t \in Ids : IsShut(t) => IsShut(t)']_vars

(***************************************************************************)
(* A breach is handled: a ticket that is overdue does not stay so for      *)
(* ever.  It is escalated, or its deadline moves, or it is closed.         *)
(***************************************************************************)
BreachIsHandled == \A t \in Ids : IsOverdue(t) ~> ~ IsOverdue(t)

(***************************************************************************)
(* A ticket that has been closed is shown as closed, as the client was     *)
(* told by confirm_close.  The code does not keep this: the loop escalates *)
(* from a snapshot, without looking at the status the row now has.         *)
(***************************************************************************)
ClosedStaysClosed ==
    \A t \in Ids : tickets[t].closedAt # NoTime => tickets[t].status = "closed"
=============================================================================
