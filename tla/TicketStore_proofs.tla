------------------------- MODULE TicketStore_proofs -------------------------
(***************************************************************************)
(* What holds of the ticket database for every number of users, tickets,   *)
(* rows and instants: its type, the agreement of a row's columns with its  *)
(* status, and the contract of a ticket's life.                            *)
(*                                                                         *)
(* The lemmas are about one operation each and do not mention StoreNext,   *)
(* so that the modules which use the operations can cite them too.         *)
(***************************************************************************)
EXTENDS TicketStore, TLAPS, FiniteSetTheorems

\* A set that is within another, or within it and one element more.
LEMMA OneElementMore ==
    ASSUME NEW S, IsFiniteSet(S), NEW T, NEW x, T \subseteq S \cup {x}
    PROVE  /\ Cardinality(S) \in Nat /\ Cardinality(T) \in Nat
           /\ Cardinality(T) <= Cardinality(S) + 1
           /\ T \subseteq S => Cardinality(T) <= Cardinality(S)
<1>1. IsFiniteSet(S \cup {x}) /\ Cardinality(S) \in Nat
      /\ Cardinality(S \cup {x}) = IF x \in S THEN Cardinality(S) ELSE Cardinality(S) + 1
  BY FS_AddElement, FS_CardinalityType
<1>2. IsFiniteSet(T) /\ Cardinality(T) <= Cardinality(S \cup {x})
  BY <1>1, FS_Subset
<1>3. Cardinality(T) \in Nat
  BY <1>2, FS_CardinalityType
<1>4. ASSUME T \subseteq S PROVE Cardinality(T) <= Cardinality(S)
  BY <1>4, FS_Subset
<1> QED
  BY <1>1, <1>2, <1>3, <1>4

LEMMA IdsAreFinite == ASSUME NEW S, S \subseteq Ids PROVE IsFiniteSet(S)
<1>1. IsFiniteSet(1 .. MaxTickets)
  BY FS_Interval, StoreAssumption
<1> QED
  BY <1>1, FS_Subset DEF Ids

\* The two facts about rows that are preserved together.
StoreInv == StoreTypeOK /\ StatusTellsTheRow

\* One step of the database, by anyone, with any argument of the right type.
StoreStep ==
    \/ \E u \in Users, x \in Texts : CreateTicket(u, x)
    \/ \E t \in Ids, m \in Users : TakeTicket(t, m)
    \/ \E t \in MessageIds, u \in Users, r \in Roles, x \in Texts : AddMessage(t, u, r, x)
    \/ \E t \in Ids, u \in Users \cup {NoUser} : CloseTicket(t, u)
    \/ \E t \in Ids : EscalateTicket(t)
    \/ \E t \in Ids, u \in Users \cup {NoUser} : AddFeedback(t, u)
    \/ \E t \in MessageIds, u \in Users, x \in Texts : AddNote(t, u, x)
    \/ Tick

\* Inserting a row of the right type keeps the log's type.
LEMMA InsertType ==
    ASSUME messages \in [MessageIds -> Seq(Row)],
           NEW t \in MessageIds, NEW s \in Users \cup {NoUser}, NEW r \in Roles,
           NEW x \in Texts \cup SystemTexts,
           InsertMessage(t, s, r, x)
    PROVE  messages' \in [MessageIds -> Seq(Row)]
<1> DEFINE row == [sender |-> s, role |-> r, text |-> x]
<1>1. row \in Row
  BY DEF Row
<1>2. messages' = [messages EXCEPT ![t] = Append(@, row)]
  BY DEF InsertMessage
<1>3. Append(messages[t], row) \in Seq(Row)
  BY <1>1
<1> QED
  BY <1>2, <1>3

\* Every operation keeps the types of the tables.
LEMMA StoreStepType ==
    ASSUME StoreTypeOK, StoreStep
    PROVE  StoreTypeOK'
<1> USE StoreAssumption
<1>1. ASSUME NEW u \in Users, NEW x \in Texts, CreateTicket(u, x)
      PROVE  StoreTypeOK'
  <2>1. lastId + 1 \in Ids /\ lastId' \in 0 .. MaxTickets
    BY <1>1 DEF CreateTicket, StoreTypeOK, Ids
  <2>2. NewTicket(u) \in Ticket
    BY <1>1 DEF NewTicket, Ticket, Statuses, StoreTypeOK
  <2>3. tickets' \in [Ids -> Ticket]
    BY <1>1, <2>1, <2>2 DEF CreateTicket, StoreTypeOK
  <2>4. messages' \in [MessageIds -> Seq(Row)]
    <3>1. lastId + 1 \in MessageIds
      BY <2>1 DEF Ids, MessageIds
    <3>2. InsertMessage(lastId + 1, u, "client", x)
      BY <1>1 DEF CreateTicket
    <3> QED
      BY <1>1, <3>1, <3>2, InsertType DEF StoreTypeOK, Roles
  <2> QED
    BY <1>1, <2>1, <2>3, <2>4 DEF CreateTicket, StoreTypeOK
<1>2. ASSUME NEW t \in Ids, NEW m \in Users, TakeTicket(t, m)
      PROVE  StoreTypeOK'
  <2>1. tickets' \in [Ids -> Ticket]
    <3>1. tickets' = [tickets EXCEPT ![t] = [@ EXCEPT !.manager = m, !.status = "taken"]]
      BY <1>2 DEF TakeTicket, StoreTypeOK
    <3>2. [tickets[t] EXCEPT !.manager = m, !.status = "taken"] \in Ticket
      BY DEF StoreTypeOK, Ticket, Statuses
    <3> QED
      BY <3>1, <3>2 DEF StoreTypeOK
  <2>2. messages' \in [MessageIds -> Seq(Row)]
    <3>1. InsertMessage(t, m, "system", "taken") /\ t \in MessageIds
      BY <1>2 DEF TakeTicket, Ids, MessageIds
    <3>2. "system" \in Roles /\ "taken" \in Texts \cup SystemTexts
      BY DEF Roles, SystemTexts
    <3> QED
      BY <3>1, <3>2, InsertType DEF StoreTypeOK
  <2> QED
    BY <1>2, <2>1, <2>2 DEF TakeTicket, StoreTypeOK
<1>3. ASSUME NEW t \in MessageIds, NEW u \in Users, NEW r \in Roles, NEW x \in Texts,
             AddMessage(t, u, r, x)
      PROVE  StoreTypeOK'
  <2>1. tickets' \in [Ids -> Ticket]
    <3>1. CASE r = "manager" /\ t \in Stored
      <4>1. t \in Ids /\ now + CloseWindow \in Nat
        BY <3>1 DEF StoreTypeOK, Stored, Ids
      <4>2. tickets' = [tickets EXCEPT ![t].slaDue = now + CloseWindow]
        BY <1>3, <3>1 DEF AddMessage
      <4>3. [tickets[t] EXCEPT !.slaDue = now + CloseWindow] \in Ticket
        BY <4>1 DEF StoreTypeOK, Ticket
      <4> QED
        BY <4>1, <4>2, <4>3 DEF StoreTypeOK
    <3>2. CASE ~ (r = "manager" /\ t \in Stored)
      BY <1>3, <3>2 DEF AddMessage, StoreTypeOK
    <3> QED
      BY <3>1, <3>2
  <2>2. messages' \in [MessageIds -> Seq(Row)]
    BY <1>3, InsertType DEF AddMessage, StoreTypeOK
  <2> QED
    BY <1>3, <2>1, <2>2 DEF AddMessage, StoreTypeOK
<1>4. ASSUME NEW t \in Ids, NEW u \in Users \cup {NoUser}, CloseTicket(t, u)
      PROVE  StoreTypeOK'
  <2>1. tickets' \in [Ids -> Ticket]
    <3>1. tickets' = [tickets EXCEPT ![t] = [@ EXCEPT !.status = "closed", !.closedAt = now]]
      BY <1>4 DEF CloseTicket, StoreTypeOK
    <3>2. [tickets[t] EXCEPT !.status = "closed", !.closedAt = now] \in Ticket
      BY DEF StoreTypeOK, Ticket, Statuses
    <3> QED
      BY <3>1, <3>2 DEF StoreTypeOK
  <2>2. messages' \in [MessageIds -> Seq(Row)]
    <3>1. InsertMessage(t, NoUser, "system", "closed") /\ t \in MessageIds
      BY <1>4 DEF CloseTicket, Ids, MessageIds
    <3>2. "system" \in Roles /\ "closed" \in Texts \cup SystemTexts
      BY DEF Roles, SystemTexts
    <3> QED
      BY <3>1, <3>2, InsertType DEF StoreTypeOK
  <2> QED
    BY <1>4, <2>1, <2>2 DEF CloseTicket, StoreTypeOK
<1>5. ASSUME NEW t \in Ids, EscalateTicket(t)
      PROVE  StoreTypeOK'
  <2>1. tickets' = [tickets EXCEPT ![t] = [@ EXCEPT !.status = "escalated"]]
    BY <1>5 DEF EscalateTicket, StoreTypeOK
  <2>2. [tickets[t] EXCEPT !.status = "escalated"] \in Ticket
    BY DEF StoreTypeOK, Ticket, Statuses
  <2>3. tickets' \in [Ids -> Ticket]
    BY <2>1, <2>2 DEF StoreTypeOK
  <2> QED
    BY <1>5, <2>3 DEF EscalateTicket, StoreTypeOK
<1>6. ASSUME NEW t \in Ids, NEW u \in Users \cup {NoUser}, AddFeedback(t, u)
      PROVE  StoreTypeOK'
  BY <1>6 DEF AddFeedback, StoreTypeOK
<1>7. ASSUME NEW t \in MessageIds, NEW u \in Users, NEW x \in Texts, AddNote(t, u, x)
      PROVE  StoreTypeOK'
  <2>1. messages' \in [MessageIds -> Seq(Row)]
    BY <1>7, InsertType DEF AddNote, StoreTypeOK, Roles
  <2> QED
    BY <1>7, <2>1 DEF AddNote, StoreTypeOK
<1>8. CASE Tick
  BY <1>8 DEF Tick, StoreTypeOK
<1> QED
  BY <1>1, <1>2, <1>3, <1>4, <1>5, <1>6, <1>7, <1>8 DEF StoreStep

\* Every operation keeps the columns of the rows in agreement.
LEMMA StoreStepRows ==
    ASSUME StoreInv, StoreStep
    PROVE  StatusTellsTheRow'
<1> USE StoreAssumption DEF StoreInv
<1>1. SUFFICES ASSUME NEW s \in Ids
               PROVE  RowIsConsistent(s)'
  BY DEF StatusTellsTheRow
<1>2. tickets \in [Ids -> Ticket] /\ tickets[s] \in Ticket /\ RowIsConsistent(s)
  BY DEF StoreTypeOK, StatusTellsTheRow
<1>3. CASE \E u \in Users, x \in Texts : CreateTicket(u, x)
  <2>1. PICK u \in Users, x \in Texts : CreateTicket(u, x)
    BY <1>3
  <2>2. lastId + 1 \in Ids /\ lastId' = lastId + 1 /\ lastId \in Nat
    BY <2>1 DEF CreateTicket, StoreTypeOK, Ids
  <2>3. CASE s = lastId + 1
    <3>1. tickets'[s] = NewTicket(u) /\ s \in Stored' /\ s \notin Stored
      BY <1>2, <2>1, <2>2, <2>3 DEF CreateTicket, Stored
    <3> QED
      BY <3>1 DEF RowIsConsistent, NewTicket, NoTime
  <2>4. CASE s # lastId + 1
    <3>1. tickets'[s] = tickets[s] /\ feedback' = feedback /\ (s \in Stored' <=> s \in Stored)
      BY <1>2, <2>1, <2>2, <2>4 DEF CreateTicket, Stored, Ids
    <3> QED
      BY <1>2, <3>1 DEF RowIsConsistent
  <2> QED
    BY <2>3, <2>4
<1>4. CASE \E t \in Ids, m \in Users : TakeTicket(t, m)
  <2>1. PICK t \in Ids, m \in Users : TakeTicket(t, m)
    BY <1>4
  <2>2. CASE s = t
    <3>1. /\ tickets'[s] = [tickets[s] EXCEPT !.manager = m, !.status = "taken"]
          /\ tickets[s].status = "new"
          /\ lastId' = lastId /\ feedback' = feedback
      BY <1>2, <2>1, <2>2 DEF TakeTicket, CanTake
    <3> QED
      BY <1>2, <3>1 DEF RowIsConsistent, Ticket, Stored
  <2>3. CASE s # t
    BY <1>2, <2>1, <2>3 DEF TakeTicket, RowIsConsistent, Stored
  <2> QED
    BY <2>2, <2>3
<1>5. CASE \E t \in MessageIds, u \in Users, r \in Roles, x \in Texts : AddMessage(t, u, r, x)
  <2>1. PICK t \in MessageIds, u \in Users, r \in Roles, x \in Texts : AddMessage(t, u, r, x)
    BY <1>5
  <2>2. /\ tickets'[s] = tickets[s] \/ tickets'[s] = [tickets[s] EXCEPT !.slaDue = now + CloseWindow]
        /\ lastId' = lastId /\ feedback' = feedback
    BY <1>2, <2>1 DEF AddMessage
  <2> QED
    BY <1>2, <2>2 DEF RowIsConsistent, Ticket, Stored
<1>6. CASE \E t \in Ids, u \in Users \cup {NoUser} : CloseTicket(t, u)
  <2>1. PICK t \in Ids, u \in Users \cup {NoUser} : CloseTicket(t, u)
    BY <1>6
  <2>2. lastId' = lastId /\ feedback' = feedback
    BY <2>1 DEF CloseTicket
  <2>3. CASE s = t
    <3>1. /\ tickets'[s] = [tickets[s] EXCEPT !.status = "closed", !.closedAt = now]
          /\ s \in Stored
          /\ now \in Nat
      BY <1>2, <2>1, <2>3 DEF CloseTicket, MayClose, StoreTypeOK
    <3> QED
      BY <1>2, <2>2, <3>1 DEF RowIsConsistent, Ticket, Stored, NoTime
  <2>4. CASE s # t
    BY <1>2, <2>1, <2>2, <2>4 DEF CloseTicket, RowIsConsistent, Stored
  <2> QED
    BY <2>3, <2>4
<1>7. CASE \E t \in Ids : EscalateTicket(t)
  <2>1. PICK t \in Ids : EscalateTicket(t)
    BY <1>7
  <2>2. CASE s = t
    <3>1. /\ tickets'[s] = [tickets[s] EXCEPT !.status = "escalated"]
          /\ s \in Stored
          /\ lastId' = lastId /\ feedback' = feedback
      BY <1>2, <2>1, <2>2 DEF EscalateTicket
    <3> QED
      BY <1>2, <3>1 DEF RowIsConsistent, Ticket, Stored
  <2>3. CASE s # t
    BY <1>2, <2>1, <2>3 DEF EscalateTicket, RowIsConsistent, Stored
  <2> QED
    BY <2>2, <2>3
<1>8. CASE \E t \in Ids, u \in Users \cup {NoUser} : AddFeedback(t, u)
  BY <1>2, <1>8 DEF AddFeedback, MayRate, RowIsConsistent, Stored
<1>9. CASE \E t \in MessageIds, u \in Users, x \in Texts : AddNote(t, u, x)
  BY <1>2, <1>9 DEF AddNote, RowIsConsistent, Stored
<1>10. CASE Tick
  BY <1>2, <1>10 DEF Tick, RowIsConsistent, Stored
<1> QED
  BY <1>3, <1>4, <1>5, <1>6, <1>7, <1>8, <1>9, <1>10 DEF StoreStep

\* The steps of the database on its own are among those of the lemmas.
LEMMA StoreNextSteps ==
    ASSUME StoreTypeOK, StoreNext
    PROVE  StoreStep
<1>1. Stored \cup {0} \subseteq MessageIds
  BY StoreAssumption DEF StoreTypeOK, Stored, MessageIds
<1>2. {"client", "manager"} \subseteq Roles
  BY DEF Roles
<1> QED
  BY <1>1, <1>2 DEF StoreNext, StoreStep

\* The empty database satisfies both.
LEMMA StoreInitInv == StoreInit => StoreInv
<1> SUFFICES ASSUME StoreInit
             PROVE  StoreInv
  OBVIOUS
<1> USE StoreAssumption
<1>1. Absent \in Ticket
  BY DEF Absent, Ticket, Statuses, NoTime
<1>2. StoreTypeOK
  BY <1>1 DEF StoreInit, StoreTypeOK
<1>3. StatusTellsTheRow
  BY DEF StoreInit, StatusTellsTheRow, RowIsConsistent, Absent, Stored, Ids, NoTime
<1> QED
  BY <1>2, <1>3 DEF StoreInv

(***************************************************************************)
(* Whatever the order of the operations, the tables keep their types and   *)
(* the columns of every row agree with its status: a ticket that has been  *)
(* closed is never new, taken or in work again.                            *)
(***************************************************************************)
THEOREM StoreInvariant == StoreSpec => [](StoreTypeOK /\ StatusTellsTheRow)
<1>1. StoreInit => StoreInv
  BY StoreInitInv
<1>2. ASSUME StoreInv, [StoreNext]_storeVars
      PROVE  StoreInv'
  <2>1. CASE StoreNext
    BY <1>2, <2>1, StoreNextSteps, StoreStepType, StoreStepRows DEF StoreInv
  <2>2. CASE UNCHANGED storeVars
    BY <1>2, <2>2 DEF storeVars, StoreInv, StoreTypeOK, StatusTellsTheRow, RowIsConsistent, Stored
  <2> QED
    BY <1>2, <2>1, <2>2
<1>3. StoreInv => StoreTypeOK /\ StatusTellsTheRow
  BY DEF StoreInv
<1> QED
  BY <1>1, <1>2, <1>3, PTL DEF StoreSpec

(***************************************************************************)
(* The tables keep their types under every operation.                      *)
(***************************************************************************)
THEOREM StoreTypeCorrect == StoreSpec => []StoreTypeOK
BY StoreInvariant, PTL

\* What the contract sees of the tables.
lives == <<Owners, Managers, Ended, feedback>>

\* A step that leaves the columns the contract sees changes nothing in it.
LEMMA SameLives ==
    ASSUME \A t \in Ids : /\ tickets'[t].owner = tickets[t].owner
                          /\ tickets'[t].manager = tickets[t].manager
                          /\ tickets'[t].closedAt = tickets[t].closedAt,
           feedback' = feedback
    PROVE  lives' = lives
BY DEF lives, Owners, Managers, Ended

\* Every operation is a step of the contract, or changes nothing in it.
LEMMA StoreStepContract ==
    ASSUME StoreInv, StoreStep
    PROVE  Contract!Next \/ lives' = lives
<1> USE StoreAssumption DEF StoreInv
<1>1. /\ tickets \in [Ids -> Ticket]
      /\ \A t \in Ids : tickets[t] \in Ticket /\ RowIsConsistent(t)
  BY DEF StoreTypeOK, StatusTellsTheRow
<1>2. \A t \in Ids : Contract!IsOpened(t) <=> t \in Stored
  BY <1>1 DEF Contract!IsOpened, Owners, RowIsConsistent
<1>3. CASE \E u \in Users, x \in Texts : CreateTicket(u, x)
  <2>1. PICK u \in Users, x \in Texts : CreateTicket(u, x)
    BY <1>3
  <2> DEFINE n == lastId + 1
  <2>2. /\ n \in Ids /\ n \notin Stored
        /\ \A t \in Ids : t < n => t \in Stored
        /\ tickets' = [tickets EXCEPT ![n] = NewTicket(u)]
        /\ feedback' = feedback
    BY <2>1 DEF CreateTicket, StoreTypeOK, Ids, Stored
  <2>3. tickets[n].manager = NoUser /\ tickets[n].closedAt = NoTime
    BY <1>1, <2>2 DEF RowIsConsistent
  <2>4. Owners' = [Owners EXCEPT ![n] = u]
    BY <1>1, <2>2 DEF Owners, NewTicket
  <2>5. Managers' = Managers /\ Ended' = Ended
    BY <1>1, <2>2, <2>3 DEF Managers, Ended, NewTicket
  <2>6. Contract!Open(n, u)
    BY <1>2, <2>2, <2>4, <2>5 DEF Contract!Open
  <2> QED
    BY <2>1, <2>2, <2>6 DEF Contract!Next
<1>4. CASE \E t \in Ids, m \in Users : TakeTicket(t, m)
  <2>1. PICK t \in Ids, m \in Users : TakeTicket(t, m)
    BY <1>4
  <2>2. /\ t \in Stored /\ tickets[t].status = "new" /\ feedback' = feedback
        /\ tickets' = [tickets EXCEPT ![t] = [@ EXCEPT !.manager = m, !.status = "taken"]]
    BY <1>1, <2>1 DEF TakeTicket, CanTake
  <2>3. Managers[t] = NoUser /\ t \notin Ended
    BY <1>1, <2>2 DEF Managers, Ended, RowIsConsistent
  <2>4. Managers' = [Managers EXCEPT ![t] = m]
    BY <1>1, <2>2 DEF Managers, Ticket
  <2>5. Owners' = Owners /\ Ended' = Ended
    BY <1>1, <2>2 DEF Owners, Ended, Ticket
  <2>6. Contract!Assign(t, m)
    BY <1>2, <2>2, <2>3, <2>4, <2>5 DEF Contract!Assign
  <2> QED
    BY <2>1, <2>6 DEF Contract!Next
<1>5. CASE \E t \in MessageIds, u \in Users, r \in Roles, x \in Texts : AddMessage(t, u, r, x)
  <2>1. PICK t \in MessageIds, u \in Users, r \in Roles, x \in Texts : AddMessage(t, u, r, x)
    BY <1>5
  <2>2. \A s \in Ids : /\ tickets'[s].owner = tickets[s].owner
                       /\ tickets'[s].manager = tickets[s].manager
                       /\ tickets'[s].closedAt = tickets[s].closedAt
    BY <1>1, <2>1 DEF AddMessage, Ticket
  <2> QED
    BY <2>1, <2>2, SameLives DEF AddMessage
<1>6. CASE \E t \in Ids, u \in Users \cup {NoUser} : CloseTicket(t, u)
  <2>1. PICK t \in Ids, u \in Users \cup {NoUser} : CloseTicket(t, u)
    BY <1>6
  <2>2. /\ t \in Stored /\ now # NoTime /\ feedback' = feedback
        /\ tickets' = [tickets EXCEPT ![t] = [@ EXCEPT !.status = "closed", !.closedAt = now]]
    <3>1. now # NoTime
      BY DEF StoreTypeOK, NoTime
    <3> QED
      BY <1>1, <2>1, <3>1 DEF CloseTicket, MayClose
  <2>3. Ended' = Ended \cup {t}
    BY <1>1, <2>2 DEF Ended, Ticket
  <2>4. Owners' = Owners /\ Managers' = Managers
    BY <1>1, <2>2 DEF Owners, Managers, Ticket
  <2>5. Contract!End(t)
    BY <1>2, <2>2, <2>3, <2>4 DEF Contract!End
  <2> QED
    BY <2>1, <2>5 DEF Contract!Next
<1>7. CASE \E t \in Ids : EscalateTicket(t)
  BY <1>1, <1>7, SameLives DEF EscalateTicket, Ticket
<1>8. CASE \E t \in Ids, u \in Users \cup {NoUser} : AddFeedback(t, u)
  <2>1. PICK t \in Ids, u \in Users \cup {NoUser} : AddFeedback(t, u)
    BY <1>8
  <2>2. /\ t \in Stored /\ t \notin feedback /\ tickets' = tickets
        /\ feedback' = feedback \cup {t}
    BY <2>1 DEF AddFeedback, MayRate
  <2>3. Contract!Rate(t)
    BY <1>2, <2>2 DEF Contract!Rate, Owners, Managers, Ended
  <2> QED
    BY <2>1, <2>3 DEF Contract!Next
<1>9. CASE \E t \in MessageIds, u \in Users, x \in Texts : AddNote(t, u, x)
  BY <1>1, <1>9, SameLives DEF AddNote
<1>10. CASE Tick
  BY <1>1, <1>10, SameLives DEF Tick
<1> QED
  BY <1>3, <1>4, <1>5, <1>6, <1>7, <1>8, <1>9, <1>10 DEF StoreStep

\* An empty table holds tickets not opened.
LEMMA StoreInitContract == StoreInit => Contract!Init
BY DEF StoreInit, Contract!Init, Owners, Managers, Ended, Absent

(***************************************************************************)
(* The database implements the contract of a ticket's life, whatever the   *)
(* order of its operations: the owner is final, at most one manager is     *)
(* ever assigned and never after the end, the end is final, and a rating   *)
(* is given once.                                                          *)
(***************************************************************************)
THEOREM StoreImplementsContract == StoreSpec => ImplementsContract
<1>1. StoreInit => Contract!Init
  BY StoreInitContract
<1>2. ASSUME StoreTypeOK /\ StatusTellsTheRow, [StoreNext]_storeVars
      PROVE  [Contract!Next]_(Contract!life)
  <2>1. CASE StoreNext
    BY <1>2, <2>1, StoreNextSteps, StoreStepContract DEF StoreInv, lives, Contract!life
  <2>2. CASE UNCHANGED storeVars
    BY <2>2 DEF storeVars, Contract!life, Owners, Managers, Ended
  <2> QED
    BY <1>2, <2>1, <2>2
<1> QED
  BY <1>1, <1>2, StoreInvariant, PTL DEF StoreSpec, ImplementsContract, Contract!Spec
=============================================================================
