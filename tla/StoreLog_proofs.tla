-------------------------- MODULE StoreLog_proofs --------------------------
(***************************************************************************)
(* What the log of a ticket says of its row, for every number of users,    *)
(* tickets, rows and instants: who took it and when it was closed, and     *)
(* where its deadline comes from.                                          *)
(***************************************************************************)
EXTENDS TicketStore_proofs, FiniteSetTheorems

IsLine(i, t, text) ==
    i \in DOMAIN messages[t] /\ messages[t][i].role = "system" /\ messages[t][i].text = text

HasManagerRow(t) == \E i \in DOMAIN messages[t] : messages[t][i].role = "manager"

\* LogTellsTheRow and DeadlineFollowsTheLog of one ticket, without cardinalities.
LogOK(t) ==
    /\ 1 \in DOMAIN messages[t]
    /\ messages[t][1].role = "client" /\ messages[t][1].sender = tickets[t].owner
    /\ tickets[t].manager = NoUser => \A i : ~ IsLine(i, t, "taken")
    /\ tickets[t].manager # NoUser =>
          \E k : /\ IsLine(k, t, "taken") /\ messages[t][k].sender = tickets[t].manager
                 /\ \A i : IsLine(i, t, "taken") => i = k
                 /\ \A j : IsLine(j, t, "closed") => k < j
    /\ (\E j : IsLine(j, t, "closed")) <=> tickets[t].closedAt # NoTime

DueOK(t) ==
    /\ tickets[t].openedAt <= now
    /\ IF HasManagerRow(t)
       THEN tickets[t].slaDue \in tickets[t].openedAt + CloseWindow .. now + CloseWindow
       ELSE tickets[t].slaDue = tickets[t].openedAt + ReplyWindow

StoreLogInv ==
    /\ \A t \in Ids : t \notin Stored => messages[t] = <<>>
    /\ \A t \in Stored : LogOK(t) /\ DueOK(t)

-----------------------------------------------------------------------------
(***************************************************************************)
(* What a step does to one ticket.                                         *)
(***************************************************************************)

\* The columns the log tells of.
SameRow(t) ==
    /\ tickets'[t].owner = tickets[t].owner
    /\ tickets'[t].manager = tickets[t].manager
    /\ tickets'[t].openedAt = tickets[t].openedAt
    /\ tickets'[t].closedAt = tickets[t].closedAt

SameDue(t) == tickets'[t].slaDue = tickets[t].slaDue

Adds(t, row) == row \in Row /\ messages'[t] = Append(messages[t], row)

Idles(t) == t \in Stored /\ messages'[t] = messages[t] /\ SameRow(t) /\ SameDue(t) /\ now' \in {now, now + 1}

Opens(t) ==
    \E u \in Users : /\ t = lastId + 1 /\ tickets'[t] = NewTicket(u) /\ now' = now
                     /\ \E row : Adds(t, row) /\ row.role = "client" /\ row.sender = u

Speaks(t) ==
    /\ t \in Stored /\ SameRow(t) /\ now' = now
    /\ \E row : /\ Adds(t, row) /\ row.role \in {"client", "manager", "note"}
                /\ IF row.role = "manager" THEN tickets'[t].slaDue = now + CloseWindow
                                           ELSE SameDue(t)

IsTaken(t) ==
    /\ t \in Stored /\ tickets[t].status = "new" /\ now' = now
    /\ \E m \in Users :
          /\ tickets'[t] = [tickets[t] EXCEPT !.manager = m, !.status = "taken"]
          /\ Adds(t, [sender |-> m, role |-> "system", text |-> "taken"])

IsClosed(t) ==
    /\ t \in Stored /\ now' = now
    /\ tickets'[t] = [tickets[t] EXCEPT !.status = "closed", !.closedAt = now]
    /\ Adds(t, [sender |-> NoUser, role |-> "system", text |-> "closed"])

LEMMA InsertAdds ==
    ASSUME StoreTypeOK, NEW t \in MessageIds, NEW u \in Users \cup {NoUser}, NEW r \in Roles,
           NEW x \in Texts \cup SystemTexts, InsertMessage(t, u, r, x)
    PROVE  /\ Adds(t, [sender |-> u, role |-> r, text |-> x])
           /\ \A s \in MessageIds : s # t => messages'[s] = messages[s]
BY DEF InsertMessage, Adds, Row, StoreTypeOK

LEMMA StepOnOne ==
    ASSUME StoreInv, StoreNext, NEW t \in Stored'
    PROVE  Idles(t) \/ Opens(t) \/ Speaks(t) \/ IsTaken(t) \/ IsClosed(t)
<1> USE StoreAssumption
<1>1. /\ tickets \in [Ids -> Ticket] /\ lastId \in Nat /\ now \in Nat /\ lastId <= MaxTickets
      /\ Ids \subseteq MessageIds /\ Stored \subseteq Ids
  BY DEF StoreInv, StoreTypeOK, Ids, MessageIds, Stored
<1>2. CASE \E u \in Users, x \in Texts : CreateTicket(u, x)
  <2>1. PICK u \in Users, x \in Texts : CreateTicket(u, x)
    BY <1>2
  <2>2. lastId + 1 \in Ids /\ lastId' = lastId + 1 /\ now' = now
    BY <1>1, <2>1 DEF CreateTicket, Ids
  <2>3. /\ Adds(lastId + 1, [sender |-> u, role |-> "client", text |-> x])
        /\ \A s \in MessageIds : s # lastId + 1 => messages'[s] = messages[s]
    BY <1>1, <2>1, <2>2, InsertAdds DEF CreateTicket, Roles, StoreInv
  <2>4. CASE t = lastId + 1
    BY <1>1, <2>1, <2>2, <2>3, <2>4 DEF CreateTicket, Opens
  <2>5. CASE t # lastId + 1
    <3>1. t \in Stored /\ t \in Ids
      BY <1>1, <2>2, <2>5 DEF Stored
    <3> QED
      BY <1>1, <2>1, <2>2, <2>3, <2>5, <3>1 DEF CreateTicket, Idles, SameRow, SameDue
  <2> QED
    BY <2>4, <2>5
<1>3. ASSUME lastId' = lastId PROVE t \in Stored /\ t \in Ids /\ t \in MessageIds
  BY <1>1, <1>3 DEF Stored
<1>4. CASE \E s \in Ids, m \in Users : TakeTicket(s, m)
  <2>1. PICK s \in Ids, m \in Users : TakeTicket(s, m)
    BY <1>4
  <2>2. /\ Adds(s, [sender |-> m, role |-> "system", text |-> "taken"])
        /\ \A i \in MessageIds : i # s => messages'[i] = messages[i]
    BY <1>1, <2>1, InsertAdds DEF TakeTicket, Roles, SystemTexts, StoreInv
  <2>3. lastId' = lastId /\ now' = now /\ tickets[s].status = "new"
        /\ tickets' = [tickets EXCEPT ![s] = [@ EXCEPT !.manager = m, !.status = "taken"]]
    BY <1>1, <2>1 DEF TakeTicket, CanTake
  <2>4. CASE s = t
    BY <1>1, <1>3, <2>2, <2>3, <2>4 DEF IsTaken
  <2>5. CASE s # t
    BY <1>1, <1>3, <2>2, <2>3, <2>5 DEF Idles, SameRow, SameDue
  <2> QED
    BY <2>4, <2>5
<1>5. CASE \E s \in Stored \cup {0}, u \in Users, r \in {"client", "manager"}, x \in Texts :
              AddMessage(s, u, r, x)
  <2>1. PICK s \in Stored \cup {0}, u \in Users, r \in {"client", "manager"}, x \in Texts :
              AddMessage(s, u, r, x)
    BY <1>5
  <2> DEFINE row == [sender |-> u, role |-> r, text |-> x]
  <2>2. /\ s \in MessageIds /\ Adds(s, row)
        /\ \A i \in MessageIds : i # s => messages'[i] = messages[i]
    <3>1. s \in MessageIds
      BY <1>1 DEF MessageIds, StoreInv, StoreTypeOK, Stored
    <3> QED
      BY <1>1, <2>1, <3>1, InsertAdds DEF AddMessage, Roles, StoreInv
  <2>3. lastId' = lastId /\ now' = now
    BY <2>1 DEF AddMessage
  <2>4. tickets' = IF r = "manager" /\ s \in Stored
                   THEN [tickets EXCEPT ![s] = [@ EXCEPT !.slaDue = now + CloseWindow]]
                   ELSE tickets
    BY <1>1, <2>1 DEF AddMessage
  <2>5. CASE s = t
    <3>1. SameRow(t)
      BY <1>1, <1>3, <2>3, <2>4, <2>5 DEF SameRow, Ticket
    <3>2. IF row.role = "manager" THEN tickets'[t].slaDue = now + CloseWindow ELSE SameDue(t)
      BY <1>1, <1>3, <2>3, <2>4, <2>5 DEF SameDue, Ticket
    <3> QED
      BY <1>3, <2>2, <2>3, <2>5, <3>1, <3>2 DEF Speaks
  <2>6. CASE s # t
    BY <1>1, <1>3, <2>2, <2>3, <2>4, <2>6 DEF Idles, SameRow, SameDue
  <2> QED
    BY <2>5, <2>6
<1>6. CASE \E s \in Ids, u \in Users \cup {NoUser} : CloseTicket(s, u)
  <2>1. PICK s \in Ids, u \in Users \cup {NoUser} : CloseTicket(s, u)
    BY <1>6
  <2>2. /\ Adds(s, [sender |-> NoUser, role |-> "system", text |-> "closed"])
        /\ \A i \in MessageIds : i # s => messages'[i] = messages[i]
    BY <1>1, <2>1, InsertAdds DEF CloseTicket, Roles, SystemTexts, StoreInv
  <2>3. lastId' = lastId /\ now' = now
        /\ tickets' = [tickets EXCEPT ![s] = [@ EXCEPT !.status = "closed", !.closedAt = now]]
    BY <1>1, <2>1 DEF CloseTicket
  <2>4. CASE s = t
    BY <1>1, <1>3, <2>2, <2>3, <2>4 DEF IsClosed
  <2>5. CASE s # t
    BY <1>1, <1>3, <2>2, <2>3, <2>5 DEF Idles, SameRow, SameDue
  <2> QED
    BY <2>4, <2>5
<1>7. CASE \E s \in Ids : EscalateTicket(s)
  <2>1. PICK s \in Ids : EscalateTicket(s)
    BY <1>7
  <2>2. lastId' = lastId /\ now' = now /\ messages' = messages
    BY <2>1 DEF EscalateTicket
  <2>3. SameRow(t) /\ SameDue(t)
    BY <1>1, <1>3, <2>1, <2>2 DEF EscalateTicket, SameRow, SameDue, Ticket
  <2> QED
    BY <1>3, <2>2, <2>3 DEF Idles
<1>8. CASE \E s \in Ids, u \in Users \cup {NoUser} : AddFeedback(s, u)
  BY <1>3, <1>8 DEF AddFeedback, Idles, SameRow, SameDue
<1>9. CASE \E s \in Stored, u \in Users, x \in Texts : AddNote(s, u, x)
  <2>1. PICK s \in Stored, u \in Users, x \in Texts : AddNote(s, u, x)
    BY <1>9
  <2>2. /\ Adds(s, [sender |-> u, role |-> "note", text |-> x])
        /\ \A i \in MessageIds : i # s => messages'[i] = messages[i]
    BY <1>1, <2>1, InsertAdds DEF AddNote, Roles, StoreInv
  <2>3. lastId' = lastId /\ now' = now /\ tickets' = tickets
    BY <2>1 DEF AddNote
  <2>4. SameRow(t) /\ SameDue(t)
    BY <2>3 DEF SameRow, SameDue
  <2>5. CASE s = t
    BY <1>3, <2>2, <2>3, <2>4, <2>5 DEF Speaks
  <2>6. CASE s # t
    BY <1>3, <2>2, <2>3, <2>4, <2>6 DEF Idles
  <2> QED
    BY <2>5, <2>6
<1>10. CASE Tick
  BY <1>3, <1>10 DEF Tick, Idles, SameRow, SameDue
<1> QED
  BY <1>2, <1>4, <1>5, <1>6, <1>7, <1>8, <1>9, <1>10 DEF StoreNext

-----------------------------------------------------------------------------
(***************************************************************************)
(* The log and the row of one ticket stay in step.                         *)
(***************************************************************************)
LEMMA AddsALine ==
    ASSUME NEW t, NEW row, messages[t] \in Seq(Row), Adds(t, row)
    PROVE  LET n == Len(messages[t])
           IN  /\ n \in Nat /\ DOMAIN messages[t] = 1 .. n
               /\ DOMAIN messages'[t] = 1 .. n + 1
               /\ \A i \in 1 .. n : messages'[t][i] = messages[t][i]
               /\ messages'[t][n + 1] = row
               /\ \A i, text : IsLine(i, t, text)' <=>
                       \/ IsLine(i, t, text)
                       \/ i = n + 1 /\ row.role = "system" /\ row.text = text
               /\ \A i, text : IsLine(i, t, text) => i \in 1 .. n
<1> DEFINE n == Len(messages[t])
<1>1. n \in Nat /\ DOMAIN messages[t] = 1 .. n
  OBVIOUS
<1>2. /\ DOMAIN messages'[t] = 1 .. n + 1
      /\ \A i \in 1 .. n : messages'[t][i] = messages[t][i]
      /\ messages'[t][n + 1] = row
  BY DEF Adds
<1> HIDE DEF n
<1>3. ASSUME NEW i, NEW text
      PROVE  IsLine(i, t, text)' <=> \/ IsLine(i, t, text)
                                     \/ i = n + 1 /\ row.role = "system" /\ row.text = text
  BY <1>1, <1>2 DEF IsLine
<1>4. \A i, text : IsLine(i, t, text) => i \in 1 .. n
  BY <1>1 DEF IsLine
<1> QED
  BY <1>1, <1>2, <1>3, <1>4 DEF n

\* A line that is neither `taken' nor `closed' tells nothing new.
LEMMA SpeakingKeepsTheLog ==
    ASSUME NEW t, NEW row, messages[t] \in Seq(Row), Adds(t, row), row.role # "system",
           SameRow(t), LogOK(t)
    PROVE  LogOK(t)'
<1>1. \A i, text : IsLine(i, t, text)' <=> IsLine(i, t, text)
  BY AddsALine
<1>2. 1 \in DOMAIN messages'[t] /\ messages'[t][1] = messages[t][1]
  BY AddsALine DEF LogOK
<1>3. \A i, text : IsLine(i, t, text) => messages'[t][i] = messages[t][i]
  BY AddsALine
<1> QED
  BY <1>1, <1>2, <1>3 DEF LogOK, SameRow

LEMMA TakingKeepsTheLog ==
    ASSUME NEW t, messages[t] \in Seq(Row), tickets[t] \in Ticket, RowIsConsistent(t),
           IsTaken(t), LogOK(t)
    PROVE  LogOK(t)'
<1>1. PICK m \in Users :
          /\ tickets'[t] = [tickets[t] EXCEPT !.manager = m, !.status = "taken"]
          /\ Adds(t, [sender |-> m, role |-> "system", text |-> "taken"])
  BY DEF IsTaken
<1> DEFINE n == Len(messages[t])
<1>2. tickets[t].manager = NoUser /\ tickets[t].closedAt = NoTime
  BY DEF IsTaken, RowIsConsistent
<1>3. /\ tickets'[t].owner = tickets[t].owner /\ tickets'[t].manager = m /\ m # NoUser
      /\ tickets'[t].closedAt = NoTime
  BY <1>1, <1>2, StoreAssumption DEF Ticket
<1>4. /\ n \in Nat /\ DOMAIN messages'[t] = 1 .. n + 1 /\ DOMAIN messages[t] = 1 .. n
      /\ \A i \in 1 .. n : messages'[t][i] = messages[t][i]
      /\ messages'[t][n + 1] = [sender |-> m, role |-> "system", text |-> "taken"]
  BY <1>1, AddsALine
<1>5. \A i : IsLine(i, t, "taken")' <=> i = n + 1
  <2>1. \A i : ~ IsLine(i, t, "taken")
    BY <1>2 DEF LogOK
  <2> QED
    BY <1>1, <2>1, AddsALine
<1>6. \A j : ~ IsLine(j, t, "closed")'
  <2>1. \A j : ~ IsLine(j, t, "closed")
    BY <1>2 DEF LogOK
  <2> QED
    BY <1>1, <2>1, AddsALine
<1>7. 1 \in DOMAIN messages'[t] /\ messages'[t][1] = messages[t][1]
  BY <1>4 DEF LogOK
<1> HIDE DEF n
<1> QED
  BY <1>3, <1>4, <1>5, <1>6, <1>7 DEF LogOK

LEMMA ClosingKeepsTheLog ==
    ASSUME NEW t, messages[t] \in Seq(Row), tickets[t] \in Ticket, now \in Nat,
           IsClosed(t), LogOK(t)
    PROVE  LogOK(t)'
<1> DEFINE n == Len(messages[t])
<1>1. /\ tickets'[t] = [tickets[t] EXCEPT !.status = "closed", !.closedAt = now]
      /\ Adds(t, [sender |-> NoUser, role |-> "system", text |-> "closed"])
  BY DEF IsClosed
<1>2. /\ tickets'[t].owner = tickets[t].owner /\ tickets'[t].manager = tickets[t].manager
      /\ tickets'[t].closedAt # NoTime
  BY <1>1 DEF Ticket, NoTime
<1>3. /\ n \in Nat /\ DOMAIN messages'[t] = 1 .. n + 1 /\ DOMAIN messages[t] = 1 .. n
      /\ \A i \in 1 .. n : messages'[t][i] = messages[t][i]
  BY <1>1, AddsALine
<1>4. \A i : IsLine(i, t, "taken")' <=> IsLine(i, t, "taken")
  BY <1>1, AddsALine
<1>5. \A j : IsLine(j, t, "closed")' <=> IsLine(j, t, "closed") \/ j = n + 1
  BY <1>1, AddsALine
<1>6. \A i : IsLine(i, t, "taken") => i \in 1 .. n /\ i < n + 1
  BY <1>1, <1>3, AddsALine
<1>7. 1 \in DOMAIN messages'[t] /\ messages'[t][1] = messages[t][1]
  BY <1>3 DEF LogOK
<1> HIDE DEF n
<1>8. ASSUME tickets[t].manager # NoUser
      PROVE  \E k : /\ IsLine(k, t, "taken")' /\ messages'[t][k].sender = tickets'[t].manager
                    /\ \A i : IsLine(i, t, "taken")' => i = k
                    /\ \A j : IsLine(j, t, "closed")' => k < j
  <2>1. PICK k : /\ IsLine(k, t, "taken") /\ messages[t][k].sender = tickets[t].manager
                 /\ \A i : IsLine(i, t, "taken") => i = k
                 /\ \A j : IsLine(j, t, "closed") => k < j
    BY <1>8 DEF LogOK
  <2>2. messages'[t][k].sender = tickets'[t].manager
    BY <1>2, <1>3, <1>6, <2>1
  <2>3. \A j : IsLine(j, t, "closed")' => k < j
    BY <1>5, <1>6, <2>1
  <2> QED
    BY <1>4, <2>1, <2>2, <2>3
<1> QED
  BY <1>2, <1>4, <1>5, <1>7, <1>8 DEF LogOK

LEMMA OpeningBeginsTheLog ==
    ASSUME StoreTypeOK, NEW t, messages[t] = <<>>, Opens(t)
    PROVE  LogOK(t)' /\ DueOK(t)'
<1>1. PICK u \in Users : /\ tickets'[t] = NewTicket(u) /\ now' = now
                         /\ \E row : Adds(t, row) /\ row.role = "client" /\ row.sender = u
  BY DEF Opens
<1>2. PICK row : Adds(t, row) /\ row.role = "client" /\ row.sender = u
  BY <1>1
<1>3. messages'[t] = <<row>>
  BY <1>2 DEF Adds
<1>4. DOMAIN messages'[t] = 1 .. 1 /\ messages'[t][1] = row
  BY <1>3
<1>5. \A i, text : ~ IsLine(i, t, text)'
  BY <1>2, <1>4 DEF IsLine
<1>6. ~ HasManagerRow(t)'
  BY <1>2, <1>4 DEF HasManagerRow
<1>7. LogOK(t)'
  BY <1>1, <1>2, <1>4, <1>5 DEF LogOK, NewTicket
<1>8. DueOK(t)'
  BY <1>1, <1>6 DEF DueOK, NewTicket, StoreTypeOK
<1> QED
  BY <1>7, <1>8

\* The deadline and the manager's rows move together.
LEMMA StepKeepsTheDeadline ==
    ASSUME StoreTypeOK, NEW t \in Ids, DueOK(t),
           Idles(t) \/ Speaks(t) \/ IsTaken(t) \/ IsClosed(t)
    PROVE  DueOK(t)'
<1> USE StoreAssumption
<1>1. /\ tickets[t] \in Ticket /\ messages[t] \in Seq(Row) /\ now \in Nat
      /\ tickets[t].openedAt \in Nat /\ tickets[t].slaDue \in Nat
  BY DEF StoreTypeOK, Ids, MessageIds, Ticket
<1>2. CASE Idles(t)
  BY <1>1, <1>2 DEF Idles, SameRow, SameDue, DueOK, HasManagerRow
<1>3. ASSUME NEW row, Adds(t, row)
      PROVE  HasManagerRow(t)' <=> HasManagerRow(t) \/ row.role = "manager"
  <2> DEFINE n == Len(messages[t])
  <2>1. /\ n \in Nat /\ DOMAIN messages'[t] = 1 .. n + 1 /\ DOMAIN messages[t] = 1 .. n
        /\ \A i \in 1 .. n : messages'[t][i] = messages[t][i]
        /\ messages'[t][n + 1] = row
    BY <1>1, <1>3, AddsALine
  <2> HIDE DEF n
  <2>2. n + 1 \in 1 .. n + 1 /\ \A i \in 1 .. n + 1 : i = n + 1 \/ i \in 1 .. n
    BY <2>1
  <2>3. \A i \in 1 .. n : i \in 1 .. n + 1
    BY <2>1
  <2> QED
    BY <2>1, <2>2, <2>3 DEF HasManagerRow
<1>4. CASE Speaks(t)
  <2>1. PICK row : /\ Adds(t, row) /\ row.role \in {"client", "manager", "note"}
                   /\ IF row.role = "manager" THEN tickets'[t].slaDue = now + CloseWindow
                                              ELSE SameDue(t)
    BY <1>4 DEF Speaks
  <2>2. HasManagerRow(t)' <=> HasManagerRow(t) \/ row.role = "manager"
    BY <1>3, <2>1
  <2> QED
    BY <1>1, <1>4, <2>1, <2>2 DEF Speaks, SameRow, SameDue, DueOK
<1>5. CASE IsTaken(t)
  <2>1. /\ tickets'[t].openedAt = tickets[t].openedAt /\ tickets'[t].slaDue = tickets[t].slaDue
        /\ now' = now
    BY <1>1, <1>5 DEF IsTaken, Ticket
  <2>2. HasManagerRow(t)' <=> HasManagerRow(t)
    <3>1. PICK m \in Users : Adds(t, [sender |-> m, role |-> "system", text |-> "taken"])
      BY <1>5 DEF IsTaken
    <3>2. [sender |-> m, role |-> "system", text |-> "taken"].role = "system"
      OBVIOUS
    <3> QED
      BY <1>3, <3>1, <3>2
  <2> QED
    BY <2>1, <2>2 DEF DueOK
<1>6. CASE IsClosed(t)
  <2>1. /\ tickets'[t].openedAt = tickets[t].openedAt /\ tickets'[t].slaDue = tickets[t].slaDue
        /\ now' = now
    BY <1>1, <1>6 DEF IsClosed, Ticket
  <2>2. HasManagerRow(t)' <=> HasManagerRow(t)
    <3>1. Adds(t, [sender |-> NoUser, role |-> "system", text |-> "closed"])
      BY <1>6 DEF IsClosed
    <3>2. [sender |-> NoUser, role |-> "system", text |-> "closed"].role = "system"
      OBVIOUS
    <3> QED
      BY <1>3, <3>1, <3>2
  <2> QED
    BY <2>1, <2>2 DEF DueOK
<1> QED
  BY <1>2, <1>4, <1>5, <1>6

\* Tickets not stored yet have no rows.
LEMMA NoRowsBefore ==
    ASSUME StoreInv, StoreNext, NEW t \in Ids, t \notin Stored', messages[t] = <<>>
    PROVE  messages'[t] = <<>>
<1> USE StoreAssumption
<1>1. /\ t \in MessageIds /\ lastId \in Nat /\ messages \in [MessageIds -> Seq(Row)]
      /\ tickets \in [Ids -> Ticket]
  BY DEF StoreInv, StoreTypeOK, Ids, MessageIds
<1>2. ASSUME NEW s \in MessageIds, NEW u, NEW r, NEW x, InsertMessage(s, u, r, x),
             s \in Stored' \cup {0}
      PROVE  messages'[t] = <<>>
  <2>1. s # t
    BY <1>1, <1>2 DEF Ids
  <2> QED
    BY <1>1, <1>2, <2>1 DEF InsertMessage
<1>3. CASE \E u \in Users, x \in Texts : CreateTicket(u, x)
  <2>1. PICK u \in Users, x \in Texts : CreateTicket(u, x)
    BY <1>3
  <2>2. lastId + 1 \in MessageIds /\ lastId + 1 \in Stored'
    BY <1>1, <2>1 DEF CreateTicket, MessageIds, Stored
  <2> QED
    BY <1>2, <2>1, <2>2 DEF CreateTicket
<1>4. ASSUME lastId' = lastId PROVE Stored' = Stored /\ Stored \cup {0} \subseteq MessageIds
  BY <1>4 DEF Stored, StoreInv, StoreTypeOK, MessageIds
<1>5. CASE \E s \in Ids, m \in Users : TakeTicket(s, m)
  BY <1>2, <1>4, <1>5 DEF TakeTicket, CanTake
<1>6. CASE \E s \in Stored \cup {0}, u \in Users, r \in {"client", "manager"}, x \in Texts :
              AddMessage(s, u, r, x)
  BY <1>2, <1>4, <1>6 DEF AddMessage
<1>7. CASE \E s \in Ids, u \in Users \cup {NoUser} : CloseTicket(s, u)
  BY <1>2, <1>4, <1>7 DEF CloseTicket, MayClose
<1>8. CASE \E s \in Stored, u \in Users, x \in Texts : AddNote(s, u, x)
  BY <1>2, <1>4, <1>8 DEF AddNote
<1> QED
  BY <1>3, <1>5, <1>6, <1>7, <1>8 DEF StoreNext, EscalateTicket, AddFeedback, Tick

LEMMA StoreLogInvNext ==
    ASSUME StoreInv, StoreLogInv, StoreNext
    PROVE  StoreLogInv'
<1> USE StoreAssumption
<1>1. \A t \in Ids : t \notin Stored' => t \notin Stored
  <2>1. lastId \in Nat /\ lastId' \in {lastId, lastId + 1}
    <3>1. lastId \in Nat
      BY DEF StoreInv, StoreTypeOK
    <3>2. CASE \E u \in Users, x \in Texts : CreateTicket(u, x)
      BY <3>1, <3>2 DEF CreateTicket
    <3>3. CASE \/ \E t \in Ids, m \in Users : TakeTicket(t, m)
               \/ \E t \in Ids, u \in Users \cup {NoUser} : CloseTicket(t, u)
               \/ \E t \in Ids : EscalateTicket(t)
               \/ \E t \in Ids, u \in Users \cup {NoUser} : AddFeedback(t, u)
      BY <3>1, <3>3 DEF TakeTicket, CloseTicket, EscalateTicket, AddFeedback
    <3>4. CASE \/ \E t \in Stored \cup {0}, u \in Users, r \in {"client", "manager"}, x \in Texts :
                     AddMessage(t, u, r, x)
               \/ \E t \in Stored, u \in Users, x \in Texts : AddNote(t, u, x)
               \/ Tick
      BY <3>1, <3>4 DEF AddMessage, AddNote, Tick
    <3> QED
      BY <3>1, <3>2, <3>3, <3>4 DEF StoreNext
  <2> QED
    BY <2>1 DEF Stored
<1>2. ASSUME NEW t \in Stored' PROVE LogOK(t)' /\ DueOK(t)'
  <2>1. t \in Ids /\ Stored \subseteq Ids
    <3>1. StoreTypeOK'
      BY StoreNextSteps, StoreStepType DEF StoreInv
    <3> QED
      BY <3>1 DEF StoreInv, StoreTypeOK, Stored, Ids
  <2>2. /\ tickets[t] \in Ticket /\ messages[t] \in Seq(Row) /\ now \in Nat /\ RowIsConsistent(t)
    BY <2>1 DEF StoreInv, StoreTypeOK, StatusTellsTheRow, Ids, MessageIds
  <2>3. CASE Opens(t)
    <3>1. t \notin Stored
      BY <2>3 DEF Opens, Stored, StoreInv, StoreTypeOK
    <3> QED
      <4>1. messages[t] = <<>> /\ StoreTypeOK
        BY <2>1, <3>1 DEF StoreLogInv, StoreInv
      <4> QED
        BY <2>3, <4>1, OpeningBeginsTheLog
  <2>4. CASE ~ Opens(t)
    <3>1. Idles(t) \/ Speaks(t) \/ IsTaken(t) \/ IsClosed(t)
      BY <2>4, StepOnOne
    <3>2. t \in Stored
      BY <3>1 DEF Idles, Speaks, IsTaken, IsClosed
    <3>3. LogOK(t) /\ DueOK(t)
      BY <3>2 DEF StoreLogInv
    <3>4. DueOK(t)'
      BY <2>1, <3>1, <3>3, StepKeepsTheDeadline DEF StoreInv
    <3>5. CASE Idles(t)
      <4>1. messages'[t] = messages[t] /\ SameRow(t)
        BY <3>5 DEF Idles
      <4>2. \A i, text : IsLine(i, t, text)' <=> IsLine(i, t, text)
        BY <4>1 DEF IsLine
      <4>3. LogOK(t)'
        BY <3>3, <4>1, <4>2 DEF LogOK, SameRow
      <4> QED
        BY <3>4, <4>3
    <3>6. CASE Speaks(t)
      <4>1. PICK row : Adds(t, row) /\ row.role \in {"client", "manager", "note"}
        BY <3>6 DEF Speaks
      <4> QED
        BY <2>2, <3>3, <3>4, <3>6, <4>1, SpeakingKeepsTheLog DEF Speaks
    <3>7. CASE IsTaken(t)
      BY <2>2, <3>3, <3>4, <3>7, TakingKeepsTheLog
    <3>8. CASE IsClosed(t)
      BY <2>2, <3>3, <3>4, <3>8, ClosingKeepsTheLog
    <3> QED
      BY <3>1, <3>4, <3>5, <3>6, <3>7, <3>8
  <2> QED
    BY <2>3, <2>4
<1>3. ASSUME NEW t \in Ids, t \notin Stored' PROVE messages'[t] = <<>>
  BY <1>1, <1>3, NoRowsBefore DEF StoreLogInv
<1> QED
  BY <1>2, <1>3 DEF StoreLogInv

\* No operation changes whose ticket it is, or the words it opens with.
LEMMA FirstWordsStay ==
    ASSUME StoreInv, StoreLogInv, StoreNext, NEW t \in Stored
    PROVE  /\ t \in Stored'
           /\ tickets'[t].owner = tickets[t].owner
           /\ messages'[t][1] = messages[t][1]
<1>1. /\ lastId \in 0 .. MaxTickets /\ tickets[t] \in Ticket /\ messages[t] \in Seq(Row)
      /\ 1 \in DOMAIN messages[t]
  <2>1. t \in Ids /\ t \in MessageIds
    BY StoreAssumption DEF StoreInv, StoreTypeOK, Stored, Ids, MessageIds
  <2> QED
    BY <2>1 DEF StoreInv, StoreTypeOK, StoreLogInv, LogOK
<1>2. lastId' \in {lastId, lastId + 1}
  BY DEF StoreNext, CreateTicket, TakeTicket, AddMessage, CloseTicket, EscalateTicket, AddFeedback,
         AddNote, Tick
<1>3. t \in Stored'
  BY <1>1, <1>2, StoreAssumption DEF Stored
<1>4. \A row \in Row : Append(messages[t], row)[1] = messages[t][1]
  <2>1. Len(messages[t]) \in Nat /\ 1 <= Len(messages[t])
    BY <1>1
  <2> QED
    BY <1>1, <2>1
<1>5. ~ Opens(t)
  BY <1>1, StoreAssumption DEF Opens, Stored
<1>6. Idles(t) \/ Speaks(t) \/ IsTaken(t) \/ IsClosed(t)
  BY <1>3, <1>5, StepOnOne
<1>7. tickets'[t].owner = tickets[t].owner
  <2>1. CASE Idles(t) \/ Speaks(t)
    BY <2>1 DEF Idles, Speaks, SameRow
  <2>2. CASE IsTaken(t) \/ IsClosed(t)
    BY <1>1, <2>2 DEF IsTaken, IsClosed, Ticket
  <2> QED
    BY <1>6, <2>1, <2>2
<1>8. messages'[t] = messages[t] \/ \E row : Adds(t, row)
  BY <1>6 DEF Idles, Speaks, IsTaken, IsClosed
<1>9. messages'[t][1] = messages[t][1]
  BY <1>4, <1>8 DEF Adds
<1> QED
  BY <1>3, <1>7, <1>9

LEMMA StoreLogInvariant == StoreSpec => [](StoreInv /\ StoreLogInv)
<1>1. StoreInit => StoreInv /\ StoreLogInv
  BY StoreInitInv, StoreAssumption DEF StoreInit, StoreLogInv, Stored, Ids, MessageIds
<1>2. StoreInv /\ StoreLogInv /\ [StoreNext]_storeVars => StoreLogInv'
  <2>1. ASSUME StoreLogInv, UNCHANGED storeVars PROVE StoreLogInv'
    BY <2>1 DEF storeVars, StoreLogInv, LogOK, DueOK, IsLine, HasManagerRow, Stored
  <2> QED
    BY <2>1, StoreLogInvNext
<1>3. StoreSpec => []StoreInv
  BY StoreInvariant, PTL DEF StoreInv
<1> QED
  BY <1>1, <1>2, <1>3, PTL DEF StoreSpec

-----------------------------------------------------------------------------
(***************************************************************************)
(* Every ticket's log tells who took it and that it was closed: no         *)
(* operation of the service leaves the row and the log out of step.        *)
(***************************************************************************)
THEOREM LogsAreFaithful == StoreSpec => []LogTellsTheRow
<1>1. ASSUME StoreInv, StoreLogInv, NEW t \in Stored
      PROVE  LET taken  == RowsOf(t, "system", "taken")
                 closed == RowsOf(t, "system", "closed")
             IN  /\ messages[t] # <<>>
                 /\ messages[t][1].role = "client"
                 /\ messages[t][1].sender = tickets[t].owner
                 /\ Cardinality(taken) = IF tickets[t].manager = NoUser THEN 0 ELSE 1
                 /\ \A i \in taken : /\ messages[t][i].sender = tickets[t].manager
                                     /\ \A j \in closed : i < j
                 /\ closed # {} <=> tickets[t].closedAt # NoTime
  <2> DEFINE taken  == RowsOf(t, "system", "taken")
             closed == RowsOf(t, "system", "closed")
  <2>1. LogOK(t)
    BY <1>1 DEF StoreLogInv
  <2>2. /\ \A i : i \in taken <=> IsLine(i, t, "taken")
        /\ \A j : j \in closed <=> IsLine(j, t, "closed")
    BY DEF RowsOf, IsLine
  <2> HIDE DEF taken, closed
  <2>3. messages[t] # <<>> /\ messages[t][1].role = "client"
        /\ messages[t][1].sender = tickets[t].owner
    BY <2>1 DEF LogOK
  <2>4. CASE tickets[t].manager = NoUser
    <3>1. taken = {}
      BY <2>1, <2>2, <2>4 DEF LogOK
    <3> QED
      BY <2>1, <2>2, <2>3, <2>4, <3>1, FS_EmptySet DEF LogOK, taken, closed
  <2>5. CASE tickets[t].manager # NoUser
    <3>1. PICK k : /\ IsLine(k, t, "taken") /\ messages[t][k].sender = tickets[t].manager
                   /\ \A i : IsLine(i, t, "taken") => i = k
                   /\ \A j : IsLine(j, t, "closed") => k < j
      BY <2>1, <2>5 DEF LogOK
    <3>2. taken = {k}
      BY <2>2, <3>1
    <3>3. Cardinality(taken) = 1
      BY <3>2, FS_Singleton
    <3>4. \A i \in taken : /\ messages[t][i].sender = tickets[t].manager
                           /\ \A j \in closed : i < j
      BY <2>2, <3>1, <3>2
    <3>5. closed # {} <=> tickets[t].closedAt # NoTime
      BY <2>1, <2>2 DEF LogOK
    <3> QED
      BY <2>3, <2>5, <3>3, <3>4, <3>5 DEF taken, closed
  <2> QED
    BY <2>4, <2>5
<1>2. StoreInv /\ StoreLogInv => LogTellsTheRow
  BY <1>1 DEF LogTellsTheRow
<1> QED
  BY <1>2, StoreLogInvariant, PTL

(***************************************************************************)
(* The deadline is the one set at the opening until a manager has written, *)
(* and from then on a close window after one of the manager's messages.    *)
(***************************************************************************)
THEOREM DeadlinesFollowTheLog == StoreSpec => []DeadlineFollowsTheLog
<1>1. StoreLogInv => DeadlineFollowsTheLog
  BY DEF StoreLogInv, DueOK, HasManagerRow, DeadlineFollowsTheLog
<1> QED
  BY <1>1, StoreLogInvariant, PTL

\* What does to the tables only what the service does, in the two forms it is stated in.
LEMMA ServiceIsTheStore == OnlyTheService <=> StoreSpec
<1>1. [UNCHANGED storeVars \/ StoreNext]_storeVars <=> [StoreNext]_storeVars
  OBVIOUS
<1> QED
  BY <1>1, PTL DEF OnlyTheService, StoreSpec
=============================================================================
