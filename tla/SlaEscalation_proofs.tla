------------------------ MODULE SlaEscalation_proofs ------------------------
(***************************************************************************)
(* What holds of the SLA loop beside the handlers for every number of      *)
(* users, tickets, instants and faults: the inductive invariant SlaInv of  *)
(* SlaEscalation, the three safety properties it was found for, and the    *)
(* contract of a ticket's life.                                            *)
(***************************************************************************)
EXTENDS SlaEscalation, StoreLog_proofs

\* What a handler does to the tables is an operation of the database.
LEMMA HandlersAreStoreSteps ==
    ASSUME Handlers
    PROVE  StoreNext
<1>1. PICK u \in Users :
          Client(u) \/ \E t \in Ids : Take(t, u) \/ Reply(t, u) \/ Close(t, u) \/ Rate(t, u)
  BY DEF Handlers
<1>2. CASE \E t \in Ids : Reply(t, u)
  <2>1. PICK t \in Stored \cup {0}, x \in Texts : AddMessage(t, u, "manager", x)
    BY <1>2 DEF Reply, MayReply
  <2> QED
    BY <2>1 DEF StoreNext
<1> QED
  BY <1>1, <1>2 DEF Client, Take, Close, Rate, StoreNext

\* What a handler leaves alone in a ticket t.
Framed(t) ==
    /\ t \in Stored'
    /\ tickets'[t].owner = tickets[t].owner
    /\ tickets'[t].openedAt = tickets[t].openedAt
    /\ tickets[t].manager # NoUser => tickets'[t].manager = tickets[t].manager
    /\ tickets[t].status \in Settled => tickets'[t].status \in Settled
    /\ tickets'[t].status = "escalated" => tickets[t].status = "escalated"
    /\ tickets'[t].slaDue \in {tickets[t].slaDue, now + CloseWindow}

\* A ticket that was not there and now is has just been opened.
Fresh(t) ==
    /\ tickets'[t].status = "new"
    /\ tickets'[t].openedAt = now
    /\ tickets'[t].slaDue = now + ReplyWindow

\* The handlers frame the tickets there are, and add fresh ones.
LEMMA HandlersFrame ==
    ASSUME StoreInv, Handlers
    PROVE  /\ now' = now
           /\ \A t \in Stored : Framed(t)
           /\ \A t \in Ids : t \notin Stored =>
                 \/ t \notin Stored' /\ tickets'[t] = tickets[t]
                 \/ t \in Stored' /\ Fresh(t)
<1> USE StoreAssumption DEF StoreInv
<1>1. /\ tickets \in [Ids -> Ticket]
      /\ Stored \subseteq Ids
      /\ \A t \in Ids : tickets[t] \in Ticket /\ RowIsConsistent(t)
  BY DEF StoreTypeOK, StatusTellsTheRow, Stored, Ids
<1>2. PICK u \in Users :
          Client(u) \/ \E t \in Ids : Take(t, u) \/ Reply(t, u) \/ Close(t, u) \/ Rate(t, u)
  BY DEF Handlers
<1>3. CASE Client(u)
  <2>1. PICK x \in Texts : CreateTicket(u, x)
    BY <1>3 DEF Client
  <2> DEFINE n == lastId + 1
  <2>2. /\ n \in Ids /\ n \notin Stored /\ now' = now
        /\ Stored' = Stored \cup {n}
        /\ tickets' = [tickets EXCEPT ![n] = NewTicket(u)]
    BY <2>1 DEF CreateTicket, StoreTypeOK, Ids, Stored
  <2>3. \A t \in Stored : Framed(t)
    BY <1>1, <2>2 DEF Framed
  <2>4. Fresh(n)
    BY <1>1, <2>2 DEF Fresh, NewTicket
  <2> QED
    BY <1>1, <2>2, <2>3, <2>4
<1>4. CASE \E t \in Ids : Take(t, u)
  <2>1. PICK t \in Ids : TakeTicket(t, u)
    BY <1>4 DEF Take
  <2>2. /\ t \in Stored /\ tickets[t].status = "new" /\ now' = now /\ Stored' = Stored
        /\ tickets' = [tickets EXCEPT ![t] = [@ EXCEPT !.manager = u, !.status = "taken"]]
    BY <1>1, <2>1 DEF TakeTicket, CanTake, Stored
  <2>3. tickets[t].manager = NoUser
    BY <1>1, <2>2 DEF RowIsConsistent
  <2>4. \A s \in Stored : Framed(s)
    BY <1>1, <2>2, <2>3 DEF Framed, Ticket, Settled
  <2> QED
    BY <1>1, <2>2, <2>4
<1>5. CASE \E t \in Ids : Reply(t, u)
  <2>1. PICK t \in Ids, x \in Texts : AddMessage(t, u, "manager", x)
    BY <1>5 DEF Reply
  <2>2. /\ now' = now /\ Stored' = Stored
        /\ \/ tickets' = tickets
           \/ t \in Stored /\ tickets' = [tickets EXCEPT ![t].slaDue = now + CloseWindow]
    BY <1>1, <2>1 DEF AddMessage, Stored
  <2>3. \A s \in Stored : Framed(s)
    BY <1>1, <2>2 DEF Framed, Ticket
  <2> QED
    BY <1>1, <2>2, <2>3
<1>6. CASE \E t \in Ids : Close(t, u)
  <2>1. PICK t \in Ids : CloseTicket(t, u)
    BY <1>6 DEF Close
  <2>2. /\ now' = now /\ Stored' = Stored /\ t \in Stored
        /\ tickets' = [tickets EXCEPT ![t] = [@ EXCEPT !.status = "closed", !.closedAt = now]]
    BY <1>1, <2>1 DEF CloseTicket, MayClose, Stored
  <2>3. \A s \in Stored : Framed(s)
    BY <1>1, <2>2 DEF Framed, Ticket, Settled
  <2> QED
    BY <1>1, <2>2, <2>3
<1>7. CASE \E t \in Ids : Rate(t, u)
  <2>1. now' = now /\ Stored' = Stored /\ tickets' = tickets
    BY <1>7 DEF Rate, AddFeedback, Stored
  <2> QED
    BY <1>1, <2>1 DEF Framed
<1> QED
  BY <1>2, <1>3, <1>4, <1>5, <1>6, <1>7

\* A step either leaves the tables alone or is an operation of the database.
LEMMA StepsOfTheStore ==
    ASSUME StoreTypeOK, [Next]_vars
    PROVE  StoreNext \/ UNCHANGED storeVars
<1>1. Stored \subseteq Ids
  BY StoreAssumption DEF StoreTypeOK, Stored, Ids
<1>2. ASSUME NEW job \in batch, EscalateNext(job)
      PROVE  StoreNext
  <2>1. EscalateTicket(job.id) /\ job.id \in Ids
    BY <1>1, <1>2 DEF EscalateNext, EscalateTicket
  <2> QED
    BY <2>1 DEF StoreNext
<1>3. CASE Handlers
  BY <1>3, HandlersAreStoreSteps
<1>4. CASE Clock
  BY <1>4 DEF Clock, StoreNext
<1>5. CASE PollOverdue \/ EndRound \/ TellClient \/ TellManager \/ Wake
           \/ DatabaseFault \/ Crash \/ Restart
  BY <1>5 DEF PollOverdue, EndRound, TellClient, TellManager, Wake, DatabaseFault, Crash, Restart
<1>6. CASE UNCHANGED vars
  BY <1>6 DEF vars
<1> QED
  BY <1>2, <1>3, <1>4, <1>5, <1>6 DEF Next, Loop

\* So every step keeps the tables' types and the agreement of their columns.
LEMMA StoreInvStep ==
    ASSUME StoreInv, [Next]_vars
    PROVE  StoreInv'
<1>1. CASE StoreNext
  BY <1>1, StoreNextSteps, StoreStepType, StoreStepRows DEF StoreInv
<1>2. CASE UNCHANGED storeVars
  BY <1>2 DEF storeVars, StoreInv, StoreTypeOK, StatusTellsTheRow, RowIsConsistent, Stored
<1> QED
  BY <1>1, <1>2, StepsOfTheStore DEF StoreInv

\* A send keeps the type of the notices, whether it arrives or not.
LEMMA DeliverType ==
    ASSUME SlaTypeOK, NEW who \in {"client", "manager"}, Deliver(who)
    PROVE  /\ told' \in [Ids -> [client : Nat, manager : Nat]]
           /\ faults' \in 0 .. MaxFaults
<1> USE SlaAssumption
<1>1. CASE told' = [told EXCEPT ![cur.id][who] = @ + 1] /\ UNCHANGED faults
  <2>1. \A t \in Ids : [told[t] EXCEPT ![who] = @ + 1] \in [client : Nat, manager : Nat]
    BY DEF SlaTypeOK
  <2> QED
    BY <1>1, <2>1 DEF SlaTypeOK
<1>2. CASE Fault /\ UNCHANGED told
  BY <1>2 DEF Fault, SlaTypeOK
<1> QED
  BY <1>1, <1>2 DEF Deliver

\* Every step keeps the types of the loop's state.
LEMMA SlaTypeStep ==
    ASSUME SlaTypeOK, StatusTellsTheRow, [Next]_vars
    PROVE  SlaTypeOK'
<1> USE SlaAssumption
<1>1. StoreTypeOK'
  BY StoreInvStep DEF SlaTypeOK, StoreInv
<1>2. SUFFICES /\ pc' \in Places
               /\ batch' \subseteq Job
               /\ cur' \in Job
               /\ told' \in [Ids -> [client : Nat, manager : Nat]]
               /\ seen' \in [Ids -> Nat]
               /\ faults' \in 0 .. MaxFaults
  BY <1>1 DEF SlaTypeOK
<1>3. NoJob \in Job
  BY StoreAssumption DEF NoJob, Job, MessageIds
<1>4. Boot \in Places
  BY DEF Boot, Places
<1>5. CASE PollOverdue
  <2>1. \A t \in Ids : Snapshot(t) \in Job
    BY StoreAssumption DEF SlaTypeOK, StoreTypeOK, Snapshot, Job, Ids, MessageIds, Ticket
  <2>2. \A t \in Ids : Len(messages[t]) \in Nat
    BY DEF SlaTypeOK, StoreTypeOK, Ids, MessageIds
  <2> QED
    BY <1>5, <2>1, <2>2 DEF PollOverdue, SelectOverdue, SlaTypeOK, Places
<1>6. ASSUME NEW job \in batch, EscalateNext(job)
      PROVE  SlaTypeOK'
  BY <1>1, <1>6 DEF EscalateNext, SlaTypeOK, Places
<1>7. CASE EndRound
  BY <1>7 DEF EndRound, SlaTypeOK, Places
<1>8. CASE TellClient
  BY <1>3, <1>8, DeliverType DEF TellClient, SlaTypeOK, Places
<1>9. CASE TellManager
  BY <1>3, <1>9, DeliverType DEF TellManager, SlaTypeOK, Places
<1>10. CASE Wake
  BY <1>10 DEF Wake, SlaTypeOK, Places
<1>11. CASE DatabaseFault
  BY <1>11 DEF DatabaseFault, Fault, SlaTypeOK, Places
<1>12. CASE Crash
  BY <1>3, <1>12 DEF Crash, Fault, SlaTypeOK, Places
<1>13. CASE Restart
  BY <1>4, <1>13 DEF Restart, SlaTypeOK
<1>14. CASE Handlers \/ Clock \/ UNCHANGED vars
  BY <1>14 DEF Handlers, Clock, vars, slaVars, SlaTypeOK
<1> QED
  BY <1>1, <1>5, <1>6, <1>7, <1>8, <1>9, <1>10, <1>11, <1>12, <1>13, <1>14
  DEF Next, Loop, SlaTypeOK

\* What the steps of the loop, the faults and the clock leave of a ticket.
LEMMA OthersFrame ==
    ASSUME SlaInv, [Next]_vars, ~ Handlers
    PROVE  /\ now <= now'
           /\ lastId' = lastId
           /\ \A t \in Ids : /\ tickets'[t].owner = tickets[t].owner
                             /\ tickets'[t].manager = tickets[t].manager
                             /\ tickets'[t].openedAt = tickets[t].openedAt
                             /\ tickets'[t].slaDue = tickets[t].slaDue
<1> USE StoreAssumption
<1>1. now \in Nat /\ tickets \in [Ids -> Ticket]
  BY DEF SlaInv, SlaTypeOK, StoreTypeOK
<1>2. ASSUME NEW job \in batch, EscalateNext(job)
      PROVE  /\ now' = now /\ lastId' = lastId
             /\ tickets' = [tickets EXCEPT ![job.id].status = "escalated"]
  BY <1>2 DEF EscalateNext, EscalateTicket
<1>3. CASE Clock
  BY <1>1, <1>3 DEF Clock, Tick
<1>4. CASE UNCHANGED storeVars
  BY <1>1, <1>4 DEF storeVars
<1>5. ASSUME NEW job \in batch, EscalateNext(job)
      PROVE  /\ now <= now' /\ lastId' = lastId
             /\ \A t \in Ids : /\ tickets'[t].owner = tickets[t].owner
                               /\ tickets'[t].manager = tickets[t].manager
                               /\ tickets'[t].openedAt = tickets[t].openedAt
                               /\ tickets'[t].slaDue = tickets[t].slaDue
  <2>1. /\ now' = now /\ lastId' = lastId
        /\ tickets' = [tickets EXCEPT ![job.id].status = "escalated"]
    BY <1>2, <1>5
  <2>2. ASSUME NEW t \in Ids
        PROVE  /\ tickets'[t].owner = tickets[t].owner
               /\ tickets'[t].manager = tickets[t].manager
               /\ tickets'[t].openedAt = tickets[t].openedAt
               /\ tickets'[t].slaDue = tickets[t].slaDue
    <3>1. tickets[t] \in Ticket
      BY <1>1
    <3>2. tickets'[t] = IF t = job.id THEN [tickets[t] EXCEPT !.status = "escalated"]
                                      ELSE tickets[t]
      BY <1>1, <2>1
    <3> QED
      BY <3>1, <3>2 DEF Ticket
  <2> QED
    BY <1>1, <2>1, <2>2
<1>6. CASE PollOverdue \/ EndRound \/ TellClient \/ TellManager \/ Wake
           \/ DatabaseFault \/ Crash \/ Restart \/ UNCHANGED vars
  <2>1. UNCHANGED storeVars
    BY <1>6 DEF PollOverdue, EndRound, TellClient, TellManager, Wake, DatabaseFault, Crash,
                Restart, vars
  <2> QED
    BY <1>4, <2>1
<1> QED
  BY <1>3, <1>5, <1>6 DEF Next, Loop

\* No deadline ever lies before the first one.
LEMMA DeadlineStep ==
    ASSUME SlaInv, [Next]_vars
    PROVE  DeadlineInv'
<1> USE StoreAssumption
<1>1. /\ now \in Nat
      /\ Stored \subseteq Ids
      /\ \A t \in Ids : tickets[t] \in Ticket /\ tickets[t].openedAt \in Nat
      /\ \A t \in Stored : /\ tickets[t].openedAt <= now
                           /\ FirstDeadline(t) <= tickets[t].slaDue
  BY DEF SlaInv, SlaTypeOK, StoreTypeOK, Ticket, DeadlineInv, Stored, Ids
<1>2. SUFFICES ASSUME NEW t \in Stored'
               PROVE  /\ tickets'[t].openedAt <= now'
                      /\ FirstDeadline(t)' <= tickets'[t].slaDue
  BY DEF DeadlineInv
<1>3. CASE Handlers
  <2>1. StoreInv
    BY DEF SlaInv, SlaTypeOK, StoreInv
  <2>2. t \in Ids
    BY <2>1, StoreInvStep DEF StoreInv, StoreTypeOK, Stored, Ids
  <2>3. CASE t \in Stored
    <3>1. now' = now /\ Framed(t)
      BY <1>3, <2>1, <2>3, HandlersFrame
    <3>2. FirstDeadline(t)' = FirstDeadline(t)
      BY <3>1 DEF Framed, FirstDeadline
    <3>3. FirstDeadline(t) <= now + CloseWindow
      BY <1>1, <2>3 DEF FirstDeadline, Smaller
    <3> QED
      BY <1>1, <2>3, <3>1, <3>2, <3>3 DEF Framed
  <2>4. CASE t \notin Stored
    <3>1. now' = now /\ Fresh(t)
      BY <1>3, <2>1, <2>2, <2>4, HandlersFrame
    <3> QED
      BY <1>1, <3>1 DEF Fresh, FirstDeadline, Smaller
  <2> QED
    BY <2>3, <2>4
<1>4. CASE ~ Handlers
  <2>1. /\ t \in Stored /\ now <= now'
        /\ tickets'[t].openedAt = tickets[t].openedAt
        /\ tickets'[t].slaDue = tickets[t].slaDue
    BY <1>1, <1>4, OthersFrame DEF Stored
  <2>2. now' \in Nat
    BY StoreInvStep DEF SlaInv, SlaTypeOK, StoreInv, StoreTypeOK
  <2> QED
    BY <1>1, <2>1, <2>2 DEF FirstDeadline
<1> QED
  BY <1>3, <1>4

\* A job stays due while handlers run and while the clock ticks.
LEMMA JobStaysDue ==
    ASSUME SlaInv, [Next]_vars, NEW job, JobIsDue(job)
    PROVE  JobIsDue(job)'
<1> USE StoreAssumption
<1>1. StoreInv /\ StoreInv'
  BY StoreInvStep DEF SlaInv, SlaTypeOK, StoreInv
<1>2. /\ job.id \in Stored /\ job.id \in Ids
      /\ tickets[job.id].manager # NoUser
      /\ tickets[job.id].openedAt \in Nat
      /\ now \in Nat /\ now' \in Nat
  BY <1>1 DEF JobIsDue, Snapshot, StoreInv, StoreTypeOK, Stored, Ids, Ticket
<1>3. /\ job.id \in Stored'
      /\ tickets'[job.id].owner = tickets[job.id].owner
      /\ tickets'[job.id].manager = tickets[job.id].manager
      /\ tickets'[job.id].openedAt = tickets[job.id].openedAt
      /\ now <= now'
  <2>1. CASE Handlers
    BY <1>1, <1>2, <2>1, HandlersFrame DEF Framed
  <2>2. CASE ~ Handlers
    BY <1>2, <2>2, OthersFrame DEF Stored
  <2> QED
    BY <2>1, <2>2
<1> QED
  BY <1>2, <1>3 DEF JobIsDue, Snapshot, FirstDeadline, Smaller
\* A send about the ticket in hand: one more notice, or none.
Sent(who) ==
    /\ \A t \in Ids : t # cur.id => told'[t] = told[t]
    /\ cur.id \in Ids =>
          told'[cur.id] \in {told[cur.id], [told[cur.id] EXCEPT ![who] = @ + 1]}

\* A send touches the notices of the ticket in hand only, by one at most.
LEMMA DeliverSends ==
    ASSUME SlaTypeOK, NEW who \in {"client", "manager"}, Deliver(who)
    PROVE  Sent(who)
<1>1. told \in [Ids -> [client : Nat, manager : Nat]]
  BY DEF SlaTypeOK
<1>2. CASE told' = [told EXCEPT ![cur.id][who] = @ + 1]
  <2>1. told' = [told EXCEPT ![cur.id] = [told[cur.id] EXCEPT ![who] = @ + 1]]
    BY <1>2
  <2> QED
    BY <1>1, <2>1 DEF Sent
<1>3. CASE told' = told
  <2>1. told'[cur.id] = told[cur.id] /\ \A t \in Ids : told'[t] = told[t]
    BY <1>3
  <2> QED
    BY <2>1 DEF Sent
<1> QED
  BY <1>2, <1>3 DEF Deliver

\* Nobody is told twice, nor about a ticket that may be selected again.
LEMMA NoticeStep ==
    ASSUME SlaInv, [Next]_vars
    PROVE  NoticeInv'
<1> USE StoreAssumption
<1>1. StoreInv /\ StoreInv'
  BY StoreInvStep DEF SlaInv, SlaTypeOK, StoreInv
<1>2. /\ now \in Nat /\ now' \in Nat
      /\ \A t \in Ids : /\ tickets[t] \in Ticket
                        /\ tickets[t].openedAt \in Nat
                        /\ tickets'[t].openedAt \in Nat
                        /\ told[t] \in [client : Nat, manager : Nat]
      /\ tickets \in [Ids -> Ticket]
      /\ told \in [Ids -> [client : Nat, manager : Nat]]
      /\ Stored \subseteq Ids
  <2>1. now \in Nat /\ tickets \in [Ids -> Ticket] /\ Stored \subseteq Ids
    BY <1>1 DEF StoreInv, StoreTypeOK, Stored, Ids
  <2>2. now' \in Nat /\ tickets' \in [Ids -> Ticket]
    BY <1>1 DEF StoreInv, StoreTypeOK
  <2>3. told \in [Ids -> [client : Nat, manager : Nat]]
    BY DEF SlaInv, SlaTypeOK
  <2>4. \A row \in Ticket : row.openedAt \in Nat
    BY DEF Ticket
  <2> QED
    BY <2>1, <2>2, <2>3, <2>4
<1>3. \A t \in Ids : /\ told[t].client \in {0, 1}
                     /\ told[t].manager \in {0, 1}
                     /\ tickets[t].status \notin Settled => Untold(t)
                     /\ Announced(t) => tickets[t].manager # NoUser /\ FirstDeadline(t) <= now
  BY DEF SlaInv, NoticeInv
<1>4. SUFFICES ASSUME NEW t \in Ids
               PROVE  /\ told'[t].client \in {0, 1}
                      /\ told'[t].manager \in {0, 1}
                      /\ tickets'[t].status \notin Settled => Untold(t)'
                      /\ Announced(t)' => /\ tickets'[t].manager # NoUser
                                          /\ FirstDeadline(t)' <= now'
  BY DEF NoticeInv
<1>5. CASE Handlers
  <2>1. told' = told /\ now' = now
    BY <1>1, <1>5, HandlersFrame DEF Handlers, slaVars
  <2>2. CASE t \in Stored
    BY <1>1, <1>2, <1>3, <1>5, <2>1, <2>2, HandlersFrame
    DEF Framed, Untold, Announced, FirstDeadline
  <2>3. CASE t \notin Stored
    <3>1. tickets[t].status = "absent" /\ tickets[t].manager = NoUser
      BY <1>1, <2>3 DEF StoreInv, StatusTellsTheRow, RowIsConsistent
    <3>2. Untold(t)
      BY <1>3, <3>1 DEF Settled
    <3>3. tickets'[t].status \in {"absent", "new"}
      BY <1>1, <1>5, <2>3, <3>1, HandlersFrame DEF Fresh
    <3> QED
      BY <1>3, <2>1, <3>2, <3>3 DEF Untold, Announced
  <2> QED
    BY <2>2, <2>3
<1>6. ASSUME ~ Handlers
      PROVE  /\ tickets'[t].manager = tickets[t].manager
             /\ FirstDeadline(t)' = FirstDeadline(t)
             /\ now <= now'
  BY <1>6, OthersFrame DEF FirstDeadline
<1>7. ASSUME NEW job \in batch, EscalateNext(job), ~ Handlers
      PROVE  /\ told'[t].client \in {0, 1}
             /\ told'[t].manager \in {0, 1}
             /\ tickets'[t].status \notin Settled => Untold(t)'
             /\ Announced(t)' => tickets'[t].manager # NoUser /\ FirstDeadline(t)' <= now'
  <2>1. JobIsDue(job)
    BY DEF SlaInv, LoopInv
  <2>2. told' = told /\ now' = now
    BY <1>7 DEF EscalateNext, EscalateTicket
  <2>3. tickets' = [tickets EXCEPT ![job.id].status = "escalated"]
    BY <1>7 DEF EscalateNext, EscalateTicket
  <2>4. CASE t = job.id
    <3>1. tickets[t].manager # NoUser /\ FirstDeadline(t) <= now
      BY <2>1, <2>4 DEF JobIsDue, Snapshot
    <3>2. tickets'[t].status = "escalated"
      BY <1>2, <2>3, <2>4 DEF Ticket
    <3> QED
      BY <1>3, <1>6, <1>7, <2>2, <3>1, <3>2 DEF Settled, Untold
  <2>5. CASE t # job.id
    <3>1. tickets'[t] = tickets[t]
      BY <1>2, <2>3, <2>5
    <3> QED
      BY <1>3, <1>6, <1>7, <2>2, <3>1 DEF Untold, Announced
  <2> QED
    BY <2>4, <2>5
<1>8. ASSUME TellClient \/ TellManager, ~ Handlers
      PROVE  /\ told'[t].client \in {0, 1}
             /\ told'[t].manager \in {0, 1}
             /\ tickets'[t].status \notin Settled => Untold(t)'
             /\ Announced(t)' => tickets'[t].manager # NoUser /\ FirstDeadline(t)' <= now'
  <2>1. tickets' = tickets /\ now' = now
    BY <1>8 DEF TellClient, TellManager, storeVars
  <2>2. /\ JobIsDue(cur) /\ cur.id \in Ids
        /\ tickets[cur.id].status \in Settled
        /\ told[cur.id].manager = 0
        /\ TellClient => told[cur.id].client = 0
    BY <1>2, <1>8 DEF SlaInv, LoopInv, TellClient, TellManager, Telling, JobIsDue
  <2>3. CASE t = cur.id
    <3>1. \/ told'[t] = told[t]
          \/ TellClient /\ told'[t] = [told[t] EXCEPT !.client = @ + 1]
          \/ TellManager /\ told'[t] = [told[t] EXCEPT !.manager = @ + 1]
      BY <1>8, <2>2, <2>3, DeliverSends DEF Sent, TellClient, TellManager, SlaInv
    <3>2. told'[t].client \in {0, 1} /\ told'[t].manager \in {0, 1}
      BY <1>2, <1>3, <2>2, <2>3, <3>1
    <3>3. tickets[t].manager # NoUser /\ FirstDeadline(t) <= now
      BY <2>2, <2>3 DEF JobIsDue, Snapshot
    <3> QED
      BY <1>6, <1>8, <2>1, <2>2, <2>3, <3>2, <3>3
  <2>4. CASE t # cur.id
    <3>1. told'[t] = told[t]
      BY <1>8, <2>4, DeliverSends DEF Sent, TellClient, TellManager, SlaInv
    <3> QED
      BY <1>3, <1>6, <1>8, <2>1, <3>1 DEF Untold, Announced
  <2> QED
    BY <2>3, <2>4
<1>9. ASSUME \/ PollOverdue \/ EndRound \/ Wake \/ DatabaseFault \/ Crash \/ Restart
             \/ Clock \/ UNCHANGED vars,
             ~ Handlers
      PROVE  /\ told'[t].client \in {0, 1}
             /\ told'[t].manager \in {0, 1}
             /\ tickets'[t].status \notin Settled => Untold(t)'
             /\ Announced(t)' => tickets'[t].manager # NoUser /\ FirstDeadline(t)' <= now'
  <2>1. told' = told /\ tickets' = tickets
    BY <1>9 DEF PollOverdue, EndRound, Wake, DatabaseFault, Crash, Restart, Clock, Tick,
                storeVars, slaVars, vars
  <2>2. FirstDeadline(t) \in Int
    BY <1>2 DEF FirstDeadline, Smaller
  <2> QED
    BY <1>2, <1>3, <1>6, <1>9, <2>1, <2>2 DEF Untold, Announced
<1> QED
  BY <1>5, <1>7, <1>8, <1>9 DEF Next, Loop

\* The snapshot and the ticket in hand stay as LoopInv describes them.
LEMMA LoopStep ==
    ASSUME SlaInv, [Next]_vars
    PROVE  LoopInv'
<1> USE StoreAssumption
<1>1. StoreInv /\ StoreInv'
  BY StoreInvStep DEF SlaInv, SlaTypeOK, StoreInv
<1>2. /\ now \in Nat /\ Stored \subseteq Ids
      /\ tickets \in [Ids -> Ticket] /\ \A t \in Ids : tickets[t] \in Ticket
      /\ told \in [Ids -> [client : Nat, manager : Nat]]
  BY <1>1 DEF SlaInv, SlaTypeOK, StoreInv, StoreTypeOK, Stored, Ids
<1>3. /\ \A job \in batch : JobIsDue(job) /\ Untold(job.id)
      /\ pc \in Telling => /\ JobIsDue(cur)
                           /\ tickets[cur.id].status \in Settled
                           /\ told[cur.id].manager = 0
                           /\ \A job \in batch : job.id # cur.id
      /\ pc = "tellClient" => told[cur.id].client = 0
      /\ pc \notin Telling => cur = NoJob
  BY DEF SlaInv, LoopInv
<1>4. \A job : JobIsDue(job) => JobIsDue(job)'
  BY JobStaysDue
<1>5. CASE PollOverdue
  <2>1. UNCHANGED <<storeVars, cur, told>> /\ pc' = "each" /\ pc = "poll"
    BY <1>5 DEF PollOverdue
  <2>2. ASSUME NEW t \in Ids, IsOverdue(t)
        PROVE  JobIsDue(Snapshot(t)) /\ Untold(t) /\ Snapshot(t).id = t
    <3>1. t \in Stored /\ tickets[t].status = "taken" /\ tickets[t].slaDue <= now
      BY <1>1, <2>2 DEF IsOverdue, StoreInv, StatusTellsTheRow, RowIsConsistent
    <3>2. tickets[t].manager # NoUser
      BY <1>1, <3>1 DEF StoreInv, StatusTellsTheRow, RowIsConsistent
    <3>3. FirstDeadline(t) <= now
      <4>1. FirstDeadline(t) <= tickets[t].slaDue
        BY <3>1 DEF SlaInv, DeadlineInv
      <4>2. FirstDeadline(t) \in Int /\ tickets[t].slaDue \in Int
        BY <1>2 DEF FirstDeadline, Smaller, Ticket
      <4> QED
        BY <1>2, <3>1, <4>1, <4>2
    <3>4. Untold(t)
      BY <3>1 DEF SlaInv, NoticeInv, Settled
    <3> QED
      BY <3>1, <3>2, <3>3, <3>4 DEF JobIsDue, Snapshot
  <2>3. \A job \in batch' : JobIsDue(job)' /\ Untold(job.id)'
    <3>1. \A job \in batch' : JobIsDue(job) /\ Untold(job.id)
      BY <1>5, <2>2 DEF PollOverdue, SelectOverdue
    <3> QED
      BY <1>4, <2>1, <3>1 DEF Untold
  <2> QED
    BY <1>3, <2>1, <2>3 DEF LoopInv, Telling
<1>6. ASSUME NEW job \in batch, EscalateNext(job)
      PROVE  LoopInv'
  <2>1. /\ batch' = batch \ {job} /\ cur' = job /\ pc' = "tellClient" /\ told' = told
        /\ tickets' = [tickets EXCEPT ![job.id].status = "escalated"]
    BY <1>6 DEF EscalateNext, EscalateTicket
  <2>2. JobIsDue(job) /\ Untold(job.id) /\ job.id \in Ids
    BY <1>2, <1>3 DEF JobIsDue
  <2>3. tickets'[job.id].status = "escalated"
    BY <1>2, <2>1, <2>2 DEF Ticket
  <2>4. \A other \in batch' : other.id # job.id
    BY <1>3, <2>1 DEF JobIsDue
  <2> QED
    BY <1>3, <1>4, <2>1, <2>2, <2>3, <2>4 DEF LoopInv, Telling, Settled, Untold
<1>7. CASE EndRound
  <2>1. UNCHANGED <<batch, cur, told>> /\ pc' = "sleep" /\ pc = "each"
    BY <1>7 DEF EndRound
  <2> QED
    BY <1>3, <1>4, <2>1 DEF LoopInv, Telling, Untold
<1>8. CASE TellClient
  <2>1. /\ pc = "tellClient" /\ batch' = batch /\ tickets' = tickets
        /\ \/ pc' = "tellManager" /\ cur' = cur
           \/ pc' = "each" /\ cur' = NoJob
    BY <1>8 DEF TellClient, storeVars
  <2>2. cur.id \in Ids /\ told[cur.id] \in [client : Nat, manager : Nat]
    BY <1>2, <1>3, <2>1 DEF JobIsDue, Telling
  <2>3. Sent("client")
    BY <1>8, DeliverSends DEF TellClient, SlaInv
  <2>4. told'[cur.id].manager = told[cur.id].manager
    BY <2>2, <2>3 DEF Sent
  <2>5. \A job \in batch : Untold(job.id)'
    BY <1>2, <1>3, <2>1, <2>3 DEF Sent, Untold, JobIsDue, Telling
  <2>6. \A job \in batch' : JobIsDue(job)' /\ Untold(job.id)'
    BY <1>3, <1>4, <2>1, <2>5
  <2>7. CASE pc' = "tellManager" /\ cur' = cur
    BY <1>3, <1>4, <2>1, <2>4, <2>6, <2>7 DEF LoopInv, Telling
  <2>8. CASE pc' = "each" /\ cur' = NoJob
    BY <2>6, <2>8 DEF LoopInv, Telling
  <2> QED
    BY <2>1, <2>7, <2>8
<1>9. CASE TellManager
  <2>1. pc = "tellManager" /\ batch' = batch /\ pc' = "each" /\ cur' = NoJob
    BY <1>9 DEF TellManager
  <2>2. Sent("manager")
    BY <1>9, DeliverSends DEF TellManager, SlaInv
  <2>3. \A job \in batch : Untold(job.id)'
    BY <1>2, <1>3, <2>1, <2>2 DEF Sent, Untold, JobIsDue, Telling
  <2> QED
    BY <1>3, <1>4, <2>1, <2>3 DEF LoopInv, Telling
<1>10. CASE Wake \/ DatabaseFault \/ Crash \/ Restart
  <2>1. /\ pc' \notin Telling /\ batch' \subseteq batch /\ told' = told
        /\ cur' = NoJob
    BY <1>3, <1>10 DEF Wake, DatabaseFault, Crash, Restart, Boot, Telling
  <2> QED
    BY <1>3, <1>4, <2>1 DEF LoopInv, Telling, Untold
<1>11. CASE Handlers
  <2>1. UNCHANGED slaVars
    BY <1>11 DEF Handlers
  <2>2. pc \in Telling => tickets'[cur.id].status \in Settled
    BY <1>1, <1>3, <1>11, HandlersFrame DEF Framed, JobIsDue
  <2> QED
    BY <1>3, <1>4, <2>1, <2>2 DEF slaVars, LoopInv, Untold
<1>12. CASE Clock \/ UNCHANGED vars
  <2>1. UNCHANGED slaVars /\ tickets' = tickets
    BY <1>12 DEF Clock, Tick, vars, storeVars
  <2> QED
    BY <1>3, <1>4, <2>1 DEF slaVars, LoopInv, Untold
<1> QED
  BY <1>5, <1>6, <1>7, <1>8, <1>9, <1>10, <1>11, <1>12 DEF Next, Loop

\* An operation of the service leaves a breach real: it lengthens the log, and
\* moves the deadline only with a manager's line.
LEMMA BreachLasts ==
    ASSUME SlaTypeOK, StatusTellsTheRow, StoreNext, seen' = seen, NEW t \in Stored,
           seen[t] <= Len(messages[t]), BreachWasReal(t)
    PROVE  BreachWasReal(t)' /\ seen'[t] <= Len(messages'[t])
<1> USE StoreAssumption
<1>1. /\ StoreInv /\ StoreInv' /\ t \in Ids /\ t \in MessageIds /\ t \in Stored'
      /\ lastId \in Nat
  <2>1. StoreInv
    BY DEF SlaTypeOK, StoreInv
  <2>2. StoreInv'
    BY <2>1, StoreNextSteps, StoreStepType, StoreStepRows DEF StoreInv
  <2>3. lastId' \in {lastId, lastId + 1}
    BY DEF StoreNext, CreateTicket, TakeTicket, AddMessage, CloseTicket, EscalateTicket, AddFeedback,
           AddNote, Tick
  <2>4. /\ lastId \in Nat /\ lastId <= MaxTickets /\ MaxTickets \in Nat
        /\ t \in 1 .. lastId /\ Stored' = 1 .. lastId'
    BY <2>1 DEF StoreInv, StoreTypeOK, Stored
  <2> QED
    BY <2>1, <2>2, <2>3, <2>4 DEF Ids, MessageIds
<1>2. /\ messages[t] \in Seq(Row) /\ Len(messages[t]) \in Nat /\ seen[t] \in Nat
      /\ now \in Nat /\ tickets[t] \in Ticket /\ tickets[t].slaDue \in Nat
      /\ tickets'[t].slaDue \in Nat
  <2>1. /\ messages[t] \in Seq(Row) /\ tickets[t] \in Ticket /\ tickets'[t] \in Ticket
        /\ now \in Nat /\ seen[t] \in Nat
    BY <1>1 DEF SlaTypeOK, StoreInv, StoreTypeOK
  <2> QED
    BY <2>1 DEF Ticket
<1>3. ASSUME NEW row \in Row, messages'[t] = Append(messages[t], row)
      PROVE  /\ AnsweredSince(t) => AnsweredSince(t)'
             /\ row.role = "manager" => AnsweredSince(t)'
             /\ seen'[t] <= Len(messages'[t])
  <2>1. /\ Len(messages'[t]) = Len(messages[t]) + 1
        /\ \A i \in 1 .. Len(messages[t]) : messages'[t][i] = messages[t][i]
        /\ messages'[t][Len(messages[t]) + 1] = row
    BY <1>2, <1>3
  <2>2. ASSUME AnsweredSince(t) PROVE AnsweredSince(t)'
    <3>1. PICK i \in seen[t] + 1 .. Len(messages[t]) : messages[t][i].role = "manager"
      BY <2>2 DEF AnsweredSince
    <3>2. i \in seen'[t] + 1 .. Len(messages'[t]) /\ messages'[t][i].role = "manager"
      BY <1>2, <2>1, <3>1
    <3> QED
      BY <3>2 DEF AnsweredSince
  <2>3. ASSUME row.role = "manager" PROVE AnsweredSince(t)'
    <3>1. /\ Len(messages[t]) + 1 \in seen'[t] + 1 .. Len(messages'[t])
          /\ messages'[t][Len(messages[t]) + 1].role = "manager"
      BY <1>2, <2>1, <2>3
    <3> QED
      BY <3>1 DEF AnsweredSince
  <2> QED
    BY <1>2, <2>1, <2>2, <2>3
<1>4. Idles(t) \/ Opens(t) \/ Speaks(t) \/ IsTaken(t) \/ IsClosed(t)
  BY <1>1, StepOnOne
<1>5. CASE Idles(t)
  BY <1>2, <1>5 DEF Idles, SameDue, BreachWasReal, AnsweredSince
<1>6. CASE Opens(t)
  BY <1>1, <1>6 DEF Opens, Stored
<1>7. CASE Speaks(t)
  BY <1>2, <1>3, <1>7 DEF Speaks, Adds, SameDue, BreachWasReal
<1>8. CASE IsTaken(t) \/ IsClosed(t)
  <2>1. now' = now /\ tickets'[t].slaDue = tickets[t].slaDue /\ \E row : Adds(t, row)
    BY <1>2, <1>8 DEF IsTaken, IsClosed, Ticket
  <2> QED
    BY <1>2, <1>3, <2>1 DEF Adds, BreachWasReal
<1> QED
  BY <1>4, <1>5, <1>6, <1>7, <1>8

\* A ticket in the snapshot is overdue, or was and has been answered since.
LEMMA BreachStep ==
    ASSUME SlaInv, [Next]_vars
    PROVE  BreachInv'
<1> USE StoreAssumption
<1>1. SlaTypeOK /\ StatusTellsTheRow /\ \A job \in batch : job.id \in Stored
  BY DEF SlaInv, LoopInv, JobIsDue
<1>2. CASE PollOverdue
  <2>1. UNCHANGED storeVars /\ SelectOverdue
    BY <1>2 DEF PollOverdue
  <2>2. ASSUME NEW t \in Ids, IsOverdue(t)
        PROVE  BreachWasReal(t)' /\ seen'[t] <= Len(messages'[t])
    <3>1. tickets'[t].slaDue <= now' /\ messages' = messages /\ seen'[t] = Len(messages[t])
      BY <2>1, <2>2 DEF SelectOverdue, IsOverdue, storeVars
    <3>2. Len(messages[t]) \in Nat
      BY <1>1 DEF SlaTypeOK, StoreTypeOK, Ids, MessageIds
    <3> QED
      BY <3>1, <3>2 DEF BreachWasReal
  <2>3. \A job \in batch' : \E t \in Ids : IsOverdue(t) /\ job.id = t
    BY <2>1 DEF SelectOverdue, Snapshot
  <2> QED
    BY <2>2, <2>3 DEF BreachInv
<1>3. CASE ~ PollOverdue
  <2>1. batch' \subseteq batch /\ seen' = seen
    BY <1>3 DEF Next, Loop, EscalateNext, EndRound, TellClient, TellManager, Wake, DatabaseFault,
                Crash, Restart, Handlers, Clock, vars, slaVars
  <2>2. CASE StoreNext
    BY <1>1, <2>1, <2>2, BreachLasts DEF BreachInv, SlaInv
  <2>3. CASE UNCHANGED storeVars
    BY <2>1, <2>3 DEF storeVars, BreachInv, BreachWasReal, AnsweredSince, SlaInv
  <2> QED
    BY <1>1, <2>2, <2>3, StepsOfTheStore DEF SlaTypeOK
<1> QED
  BY <1>2, <1>3

\* The initial state satisfies the invariant.
LEMMA SlaInitInv == Init => SlaInv
<1> SUFFICES ASSUME Init
             PROVE  SlaInv
  OBVIOUS
<1> USE StoreAssumption, SlaAssumption
<1>1. StoreTypeOK /\ StatusTellsTheRow
  BY StoreInitInv DEF Init, StoreInv
<1>2. SlaTypeOK
  BY <1>1 DEF Init, SlaTypeOK, Places, Boot, Job, NoJob, MessageIds
<1>3. DeadlineInv
  BY DEF Init, StoreInit, DeadlineInv, Stored
<1>4. NoticeInv
  BY DEF Init, StoreInit, NoticeInv, Untold, Announced, Absent
<1>5. LoopInv
  BY DEF Init, LoopInv, Boot, Telling
<1>6. BreachInv
  BY DEF Init, BreachInv
<1> QED
  BY <1>1, <1>2, <1>3, <1>4, <1>5, <1>6 DEF SlaInv

\* The invariant is inductive.
THEOREM SlaInvariant == Spec => []SlaInv
<1>1. Init => SlaInv
  BY SlaInitInv
<1>2. SlaInv /\ [Next]_vars => SlaInv'
  <2> SUFFICES ASSUME SlaInv, [Next]_vars
               PROVE  SlaInv'
    OBVIOUS
  <2>1. SlaTypeOK /\ StatusTellsTheRow /\ StoreInv
    BY DEF SlaInv, SlaTypeOK, StoreInv
  <2>2. SlaTypeOK' /\ StatusTellsTheRow'
    BY <2>1, SlaTypeStep, StoreInvStep DEF StoreInv
  <2> QED
    BY <2>2, DeadlineStep, BreachStep, NoticeStep, LoopStep DEF SlaInv
<1> QED
  BY <1>1, <1>2, PTL DEF Spec

(***************************************************************************)
(* The tables and the loop keep their types.                               *)
(***************************************************************************)
THEOREM SlaTypeCorrect == Spec => []SlaTypeOK
<1>1. SlaInv => SlaTypeOK
  BY DEF SlaInv
<1> QED
  BY <1>1, SlaInvariant, PTL

(***************************************************************************)
(* Nobody is told twice that the same ticket is overdue, however often the *)
(* loop polls, fails, dies and starts again while handlers change the      *)
(* tickets.                                                                *)
(***************************************************************************)
THEOREM NobodyIsToldTwice == Spec => []OneNotice
<1>1. SlaInv => OneNotice
  BY DEF SlaInv, NoticeInv, OneNotice
<1> QED
  BY <1>1, SlaInvariant, PTL

(***************************************************************************)
(* However stale the snapshot, the loop writes to the present owner and    *)
(* the present manager of a ticket.                                        *)
(***************************************************************************)
THEOREM NoticesReachTheRightPeople == Spec => []AddresseesAreCurrent
<1>1. SlaInv => AddresseesAreCurrent
  <2> SUFFICES ASSUME SlaInv, NEW job \in batch \cup {cur}, job # NoJob
               PROVE  JobIsDue(job)
    BY DEF AddresseesAreCurrent, JobIsDue
  <2> QED
    BY DEF SlaInv, LoopInv
<1> QED
  BY <1>1, SlaInvariant, PTL

(***************************************************************************)
(* Every ticket that becomes `escalated' has a manager and is past its     *)
(* deadline, unless it was when the loop selected it and has been answered *)
(* since: no sequence of handlers, rounds, faults and restarts escalates a *)
(* ticket whose deadline never passed.                                     *)
(***************************************************************************)
THEOREM EscalationIsNeverEarly == Spec => NoEarlyEscalation
<1>1. ASSUME SlaInv, [Next]_vars, NEW t \in Ids, ~ IsEscalated(t), IsEscalated(t)'
      PROVE  tickets[t].manager # NoUser /\ BreachWasReal(t)
  <2>1. StoreInv /\ tickets \in [Ids -> Ticket]
    BY <1>1 DEF SlaInv, SlaTypeOK, StoreInv, StoreTypeOK
  <2>2. CASE Handlers
    BY <1>1, <2>1, <2>2, HandlersFrame DEF Framed, Fresh, IsEscalated
  <2>3. ASSUME NEW job \in batch, EscalateNext(job)
        PROVE  tickets[t].manager # NoUser /\ BreachWasReal(t)
    <3>1. t = job.id
      BY <1>1, <2>1, <2>3 DEF EscalateNext, EscalateTicket, IsEscalated
    <3>2. JobIsDue(job) /\ BreachWasReal(job.id)
      BY <1>1 DEF SlaInv, LoopInv, BreachInv
    <3> QED
      BY <3>1, <3>2 DEF JobIsDue, Snapshot
  <2>4. CASE PollOverdue \/ EndRound \/ TellClient \/ TellManager \/ Wake \/ DatabaseFault \/ Crash
             \/ Restart \/ Clock \/ UNCHANGED vars
    BY <1>1, <2>4 DEF PollOverdue, EndRound, TellClient, TellManager, Wake, DatabaseFault, Crash,
                      Restart, Clock, Tick, vars, storeVars, IsEscalated
  <2> QED
    BY <1>1, <2>2, <2>3, <2>4 DEF Next, Loop
<1>2. SlaInv /\ [Next]_vars =>
         [\A t \in Ids : ~ IsEscalated(t) /\ IsEscalated(t)' =>
                          tickets[t].manager # NoUser /\ BreachWasReal(t)]_vars
  BY <1>1
<1> QED
  BY <1>2, SlaInvariant, PTL DEF Spec, NoEarlyEscalation

(***************************************************************************)
(* The loop and the handlers, snapshots, faults and all, do to the tables  *)
(* what the service alone might have done.                                 *)
(***************************************************************************)
THEOREM SlaIsOnlyTheService == Spec => OnlyTheService
<1>1. Init => StoreInit
  BY DEF Init
<1>2. SlaInv /\ [Next]_vars => [UNCHANGED storeVars \/ StoreNext]_storeVars
  BY StepsOfTheStore DEF SlaInv, SlaTypeOK
<1> QED
  BY <1>1, <1>2, SlaInvariant, PTL DEF Spec, OnlyTheService

(***************************************************************************)
(* With the loop and its stale snapshot at work beside the handlers, the   *)
(* contract of a ticket's life still holds.                                *)
(***************************************************************************)
THEOREM SlaImplementsContract == Spec => ImplementsContract
BY SlaIsOnlyTheService, ServiceIsTheStore, StoreImplementsContract

(***************************************************************************)
(* A ticket escalated from a stale snapshot is still what its log tells:   *)
(* who took it and when it was closed, whatever its status now says.       *)
(***************************************************************************)
THEOREM SlaLogsAreFaithful == Spec => []LogTellsTheRow
BY SlaIsOnlyTheService, ServiceIsTheStore, LogsAreFaithful

(***************************************************************************)
(* The loop finds every deadline where the log says it is.                 *)
(***************************************************************************)
THEOREM SlaDeadlinesFollowTheLog == Spec => []DeadlineFollowsTheLog
BY SlaIsOnlyTheService, ServiceIsTheStore, DeadlinesFollowTheLog

-----------------------------------------------------------------------------
(***************************************************************************)
(* What a stale snapshot can do to a closed ticket.                        *)
(***************************************************************************)

\* A handler leaves a closed ticket closed.
LEMMA HandlersLeaveItShut ==
    ASSUME StoreInv, Handlers, NEW t \in Ids, IsShut(t)
    PROVE  IsShut(t)'
<1>1. t \in Stored /\ tickets[t].status \in Settled
  BY DEF IsShut, Settled, StoreInv, StatusTellsTheRow, RowIsConsistent
<1>2. Framed(t)
  BY <1>1, HandlersFrame
<1>3. tickets'[t].status = "closed"
  BY <1>1, <1>2 DEF Framed, IsShut, Settled
<1> QED
  BY <1>3 DEF Handlers, slaVars, IsShut

(***************************************************************************)
(* A ticket that was closed before a round read it stays closed: only the  *)
(* rest of an older snapshot can still show it as escalated.               *)
(***************************************************************************)
THEOREM ShutUnlessInASnapshot == Spec => OnlySnapshotsReopen
<1>1. ASSUME SlaInv, [Next]_vars, NEW t \in Ids, IsShut(t)
      PROVE  IsShut(t)'
  <2>1. StoreInv /\ tickets \in [Ids -> Ticket]
    BY <1>1 DEF SlaInv, SlaTypeOK, StoreInv, StoreTypeOK
  <2>2. CASE Handlers
    BY <1>1, <2>1, <2>2, HandlersLeaveItShut
  <2>3. CASE PollOverdue
    <3>1. tickets' = tickets /\ ~ IsOverdue(t)
      BY <1>1, <2>3 DEF PollOverdue, IsOverdue, IsShut, storeVars
    <3>2. \A job \in batch' : job.id # t
      BY <2>3, <3>1 DEF PollOverdue, SelectOverdue, Snapshot
    <3> QED
      BY <1>1, <3>1, <3>2 DEF IsShut
  <2>4. ASSUME NEW job \in batch, EscalateNext(job)
        PROVE  IsShut(t)'
    <3>1. job.id # t
      BY <1>1 DEF IsShut
    <3>2. tickets' = [tickets EXCEPT ![job.id].status = "escalated"] /\ batch' \subseteq batch
      BY <2>4 DEF EscalateNext, EscalateTicket
    <3>3. tickets'[t] = tickets[t]
      BY <2>1, <3>1, <3>2
    <3> QED
      BY <1>1, <3>2, <3>3 DEF IsShut
  <2>5. CASE EndRound \/ TellClient \/ TellManager \/ Wake \/ DatabaseFault \/ Crash \/ Restart
             \/ Clock \/ UNCHANGED vars
    <3>1. tickets' = tickets /\ batch' \subseteq batch
      BY <2>5 DEF EndRound, TellClient, TellManager, Wake, DatabaseFault, Crash, Restart, Clock, Tick,
                  vars, slaVars, storeVars
    <3> QED
      BY <1>1, <3>1 DEF IsShut
  <2> QED
    BY <1>1, <2>2, <2>3, <2>4, <2>5 DEF Next, Loop
<1>2. SlaInv /\ [Next]_vars => [\A t \in Ids : IsShut(t) => IsShut(t)']_vars
  BY <1>1
<1> QED
  BY <1>2, SlaInvariant, PTL DEF Spec, OnlySnapshotsReopen

-----------------------------------------------------------------------------
(***************************************************************************)
(* How many people a number of faults can leave untold.                    *)
(***************************************************************************)

\* A send to one of the two adds to the notices of that one, or is a fault.
LEMMA SendsCount ==
    ASSUME SlaTypeOK, cur.id \in Ids, NEW who \in {"client", "manager"}, Deliver(who)
    PROVE  \/ told'[cur.id][who] = told[cur.id][who] + 1 /\ faults' = faults
           \/ told' = told /\ faults' = faults + 1
<1>1. told \in [Ids -> [client : Nat, manager : Nat]]
  BY DEF SlaTypeOK
<1>2. CASE told' = [told EXCEPT ![cur.id][who] = @ + 1]
  <2>1. told'[cur.id] = [told[cur.id] EXCEPT ![who] = @ + 1]
    BY <1>1, <1>2
  <2>2. told[cur.id] \in [client : Nat, manager : Nat]
    BY <1>1
  <2>3. told'[cur.id][who] = told[cur.id][who] + 1
    BY <2>1, <2>2
  <2> QED
    BY <1>2, <2>3 DEF Deliver, Fault
<1> QED
  BY <1>2 DEF Deliver, Fault

\* A ticket becomes one of which somebody is not told only by a fault at the send.
LEMMA UnannouncedStep ==
    ASSUME SlaInv, [Next]_vars, NEW who \in {"client", "manager"}
    PROVE  /\ Unannounced(who)' \subseteq Unannounced(who) \cup {cur.id}
           /\ \/ Unannounced(who)' \subseteq Unannounced(who) /\ faults' >= faults
              \/ faults' = faults + 1
<1> USE StoreAssumption
<1>1. /\ tickets \in [Ids -> Ticket] /\ faults \in Nat /\ StoreInv
      /\ told \in [Ids -> [client : Nat, manager : Nat]]
      /\ pc \in Telling => cur.id \in Ids /\ cur.manager # NoUser
      /\ StillToTell[who] = IF who = "client" THEN {"tellClient"} ELSE Telling
  <2>1. Stored \subseteq Ids
    BY DEF SlaInv, SlaTypeOK, StoreTypeOK, Stored, Ids
  <2>2. pc \in Telling => cur.id \in Ids /\ cur.manager # NoUser
    BY <2>1 DEF SlaInv, LoopInv, JobIsDue
  <2>3. StillToTell[who] = IF who = "client" THEN {"tellClient"} ELSE Telling
    BY DEF StillToTell
  <2>4. faults \in Nat
    BY SlaAssumption DEF SlaInv, SlaTypeOK
  <2> QED
    BY <2>2, <2>3, <2>4 DEF SlaInv, SlaTypeOK, StoreTypeOK, StoreInv
<1>2. CASE Handlers
  <2>1. \A t \in Ids : tickets'[t].status = "escalated" => tickets[t].status = "escalated"
    BY <1>1, <1>2, HandlersFrame DEF Framed, Fresh
  <2> QED
    BY <1>1, <1>2, <2>1 DEF Handlers, slaVars, Unannounced
<1>3. ASSUME NEW job \in batch, EscalateNext(job)
      PROVE  Unannounced(who)' \subseteq Unannounced(who) /\ faults' = faults
  <2>1. \A t \in Ids : t # job.id => tickets'[t] = tickets[t]
    BY <1>1, <1>3 DEF EscalateNext, EscalateTicket
  <2> QED
    BY <1>1, <1>3, <2>1 DEF EscalateNext, Unannounced, Telling
\* A send to the other of the two: this one still waits for its turn, or has had it.
<1>4. ASSUME NEW other \in {"client", "manager"} \ {who}, Deliver(other), UNCHANGED storeVars,
             pc \in Telling, pc \in StillToTell[who] => pc' \in StillToTell[who] /\ cur' = cur
      PROVE  Unannounced(who)' \subseteq Unannounced(who) /\ faults' >= faults
  <2>1. Sent(other) /\ tickets' = tickets /\ faults' \in {faults, faults + 1}
    BY <1>4, DeliverSends DEF Deliver, Fault, SlaInv, storeVars
  <2>2. ASSUME NEW t \in Ids
        PROVE  told'[t][who] = told[t][who]
    <3>1. told[t] \in [client : Nat, manager : Nat]
      BY <1>1
    <3>2. told'[t] \in {told[t], [told[t] EXCEPT ![other] = @ + 1]}
      BY <2>1 DEF Sent
    <3> QED
      BY <3>1, <3>2
  <2> QED
    BY <1>1, <1>4, <2>1, <2>2 DEF Unannounced
<1>5. ASSUME Deliver(who), UNCHANGED storeVars, pc \in Telling
      PROVE  /\ Unannounced(who)' \subseteq Unannounced(who) \cup {cur.id}
             /\ \/ Unannounced(who)' \subseteq Unannounced(who) /\ faults' >= faults
                \/ faults' = faults + 1
  <2>1. Sent(who) /\ tickets' = tickets
    BY <1>5, DeliverSends DEF SlaInv, storeVars
  <2>2. Unannounced(who)' \subseteq Unannounced(who) \cup {cur.id}
    BY <2>1 DEF Sent, Unannounced
  <2>3. CASE told'[cur.id][who] = told[cur.id][who] + 1 /\ faults' = faults
    <3>1. told[cur.id] \in [client : Nat, manager : Nat]
      BY <1>1, <1>5
    <3>2. told[cur.id][who] + 1 # 0
      BY <3>1
    <3>3. cur.id \notin Unannounced(who)'
      BY <2>3, <3>2 DEF Unannounced
    <3> QED
      BY <1>1, <2>2, <2>3, <3>3
  <2> QED
    BY <1>1, <1>5, <2>2, <2>3, SendsCount DEF SlaInv
<1>6. CASE TellClient
  <2>1. /\ Deliver("client") /\ UNCHANGED storeVars /\ pc = "tellClient" /\ pc \in Telling
        /\ pc' = "tellManager" /\ cur' = cur
    BY <1>1, <1>6 DEF TellClient, Telling
  <2>2. CASE who = "client"
    BY <1>5, <2>1, <2>2
  <2>3. CASE who = "manager"
    BY <1>1, <1>4, <2>1, <2>3 DEF Telling
  <2> QED
    BY <2>2, <2>3
<1>7. CASE TellManager
  <2>1. /\ Deliver("manager") /\ UNCHANGED storeVars /\ pc = "tellManager" /\ pc \in Telling
    BY <1>7 DEF TellManager, Telling
  <2>2. CASE who = "manager"
    BY <1>5, <2>1, <2>2
  <2>3. CASE who = "client"
    BY <1>1, <1>4, <2>1, <2>3
  <2> QED
    BY <2>2, <2>3
<1>8. CASE Crash
  BY <1>8 DEF Crash, Fault, Unannounced, storeVars
<1>9. CASE PollOverdue \/ EndRound \/ Wake \/ DatabaseFault \/ Restart \/ Clock \/ UNCHANGED vars
  <2>1. /\ tickets' = tickets /\ told' = told
        /\ faults' = faults \/ faults' = faults + 1
        /\ cur' = cur /\ (pc \in Telling => pc' = pc)
    BY <1>9 DEF PollOverdue, EndRound, Wake, DatabaseFault, Fault, Restart, Clock, Tick, vars,
                slaVars, storeVars, Telling
  <2> QED
    BY <1>1, <2>1 DEF Unannounced, Telling
<1> QED
  BY <1>1, <1>2, <1>3, <1>6, <1>7, <1>8, <1>9 DEF Next, Loop

(***************************************************************************)
(* A client or a manager is left untold that a ticket was escalated only   *)
(* by a fault of its own: the tickets so lost are no more than the faults, *)
(* whatever else happens to the tickets.                                   *)
(***************************************************************************)
THEOREM FaultsLoseLittle == Spec => []FaultsLoseOneNoticeEach
<1>1. Init => FaultsLoseOneNoticeEach
  <2> SUFFICES ASSUME Init, NEW who \in {"client", "manager"} PROVE Unannounced(who) = {}
    BY FS_EmptySet DEF Init, FaultsLoseOneNoticeEach
  <2>1. \A t \in Ids : tickets[t].status # "escalated"
    BY DEF Init, StoreInit, Absent
  <2> QED
    BY <2>1 DEF Unannounced
<1>2. ASSUME SlaInv, FaultsLoseOneNoticeEach, [Next]_vars, NEW who \in {"client", "manager"}
      PROVE  Cardinality(Unannounced(who)') <= faults'
  <2>1. IsFiniteSet(Unannounced(who)) /\ faults \in Nat
    BY <1>2, IdsAreFinite, SlaAssumption DEF Unannounced, SlaInv, SlaTypeOK
  <2>2. faults' \in Nat
    BY <1>2, SlaTypeStep, SlaAssumption DEF SlaInv, SlaTypeOK
  <2> DEFINE n == Cardinality(Unannounced(who))
             m == Cardinality(Unannounced(who)')
  <2>3. n \in Nat /\ m \in Nat /\ m <= n + 1 /\ (Unannounced(who)' \subseteq Unannounced(who) => m <= n)
    BY <1>2, <2>1, UnannouncedStep, OneElementMore
  <2>4. n <= faults
    BY <1>2 DEF FaultsLoseOneNoticeEach
  <2> HIDE DEF n, m
  <2>5. m <= faults'
    BY <1>2, <2>1, <2>2, <2>3, <2>4, UnannouncedStep
  <2> QED
    BY <2>5 DEF m
<1>3. SlaInv /\ FaultsLoseOneNoticeEach /\ [Next]_vars => FaultsLoseOneNoticeEach'
  BY <1>2 DEF FaultsLoseOneNoticeEach
<1> QED
  BY <1>1, <1>3, SlaInvariant, PTL DEF Spec
=============================================================================
