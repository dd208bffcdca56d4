------------------------ MODULE TicketDialog_proofs ------------------------
(***************************************************************************)
(* What holds of the conversations however many users there are and        *)
(* however their updates overlap, fail, are retried or are cut off: their  *)
(* types, and that nobody writes where start_reply would not let them.     *)
(***************************************************************************)
EXTENDS TicketDialog, StoreLog_proofs

\* The programs, step by step, as far as the proofs need them.
LEMMA Programs ==
    /\ Handlers = {"cmd_start", "choose_category", "enter_text", "confirm_ticket",
                   "cancel_ticket", "start_reply", "use_canned", "send_reply",
                   "send_canned_reply"}
    /\ \A h \in Handlers : Len(Program[h]) \in 1 .. 5
    /\ Program["start_reply"][1] = "check"
    /\ \A h \in Handlers, i \in 1 .. 5 :
          i <= Len(Program[h]) /\ Program[h][i] = "setState"
              => h \in {"choose_category", "enter_text", "start_reply"}
<1> USE DEF cmd_start, choose_category, enter_text, confirm_ticket, cancel_ticket,
              start_reply, use_canned, send_reply, send_canned_reply
<1>1. Handlers = {"cmd_start", "choose_category", "enter_text", "confirm_ticket",
                  "cancel_ticket", "start_reply", "use_canned", "send_reply",
                  "send_canned_reply"}
  BY DEF Handlers, Program
<1>2. \A h \in Handlers : Len(Program[h]) \in 1 .. 5
  BY <1>1 DEF Program
<1>3. Program["start_reply"][1] = "check"
  BY DEF Program
<1>4. ASSUME NEW h \in Handlers, NEW i \in 1 .. 5,
             i <= Len(Program[h]), Program[h][i] = "setState"
      PROVE  h \in {"choose_category", "enter_text", "start_reply"}
  <2>1. i \in {1, 2, 3, 4, 5}
    BY <1>4
  <2>2. h \notin {"cmd_start", "cancel_ticket", "use_canned"}
    <3>1. SUFFICES ASSUME h \in {"cmd_start", "cancel_ticket", "use_canned"}
                   PROVE  FALSE
      OBVIOUS
    <3>2. Len(Program[h]) = 3
      BY <3>1 DEF Program
    <3>3. i \in {1, 2, 3}
      BY <1>4, <2>1, <3>2
    <3>4. Program[h][i] # "setState"
      BY <3>1, <3>3 DEF Program
    <3> QED
      BY <1>4, <3>4
  <2>3. h # "confirm_ticket"
    BY <1>4, <2>1 DEF Program
  <2>4. h # "send_reply" /\ h # "send_canned_reply"
    BY <1>4, <2>1 DEF Program
  <2> QED
    BY <1>1, <2>2, <2>3, <2>4
<1> QED
  BY <1>1, <1>2, <1>3, <1>4

\* The owner of a ticket is final.
LEMMA OwnersLast ==
    ASSUME StoreTypeOK, StoreStep
    PROVE  \A t \in Stored : t \in Stored' /\ tickets'[t].owner = tickets[t].owner
<1> USE StoreAssumption
<1>1. SUFFICES ASSUME NEW t \in Stored
               PROVE  t \in Stored' /\ tickets'[t].owner = tickets[t].owner
  OBVIOUS
<1>2. tickets \in [Ids -> Ticket] /\ t \in Ids /\ tickets[t] \in Ticket
  BY DEF StoreTypeOK, Stored, Ids
<1>3. CASE \E u \in Users, x \in Texts : CreateTicket(u, x)
  <2>1. lastId \in Nat /\ lastId' = lastId + 1
    BY <1>3 DEF CreateTicket, StoreTypeOK
  <2>2. t # lastId + 1
    BY <2>1 DEF Stored
  <2>3. tickets'[t] = tickets[t]
    BY <1>2, <1>3, <2>2 DEF CreateTicket
  <2> QED
    BY <2>1, <2>3 DEF Stored
<1>4. CASE lastId' = lastId /\ tickets' = tickets
  BY <1>4 DEF Stored
<1>5. CASE \E s \in Ids, m \in Users : TakeTicket(s, m)
  BY <1>2, <1>5 DEF TakeTicket, Stored, Ticket
<1>6. CASE \E s \in MessageIds, u \in Users, r \in Roles, x \in Texts : AddMessage(s, u, r, x)
  BY <1>2, <1>6 DEF AddMessage, Stored, Ticket
<1>7. CASE \E s \in Ids, u \in Users \cup {NoUser} : CloseTicket(s, u)
  BY <1>2, <1>7 DEF CloseTicket, Stored, Ticket
<1>8. CASE \E s \in Ids : EscalateTicket(s)
  BY <1>2, <1>8 DEF EscalateTicket, Stored, Ticket
<1> QED
  BY <1>3, <1>4, <1>5, <1>6, <1>7, <1>8 DEF StoreStep, AddFeedback, AddNote, Tick

\* What a user may do in a ticket, the user may do for ever.
LEMMA RightsLast ==
    ASSUME StoreTypeOK, StoreStep \/ UNCHANGED storeVars
    PROVE  \A t, u : /\ MayReply(t, u) => MayReply(t, u)'
                     /\ Owned(t, u) => Owned(t, u)'
<1>1. CASE StoreStep
  BY <1>1, OwnersLast DEF MayReply, Owned
<1>2. CASE UNCHANGED storeVars
  BY <1>2 DEF MayReply, Owned, Stored, storeVars
<1> QED
  BY <1>1, <1>2

-----------------------------------------------------------------------------
(***************************************************************************)
(* The tables.                                                             *)
(***************************************************************************)

\* A handler at work has the type of a task, and its data is data.
LEMMA TaskAtWork ==
    ASSUME DialogTypeOK, NEW s \in Slots, Busy(s)
    PROVE  /\ tasks[s] \in Task
           /\ User(s) \in Chatters
           /\ User(s) \in Users
BY DialogAssumption DEF DialogTypeOK, Busy, User, Task

\* What a step does to the tables is an operation of the database.
LEMMA DialogServiceStep ==
    ASSUME DialogInv, Next
    PROVE  StoreNext \/ UNCHANGED storeVars
<1> USE DEF DialogInv
<1>1. ASSUME NEW s \in Slots, Create(s)
      PROVE  StoreNext
  <2>1. User(s) \in Users /\ tasks[s] \in Task
    BY <1>1, TaskAtWork DEF Create, At
  <2>2. tasks[s].read.subject \in Texts
    BY <2>1 DEF Task, Data
  <2>3. CreateTicket(User(s), tasks[s].read.subject)
    BY <1>1 DEF Create
  <2> QED
    BY <2>1, <2>2, <2>3 DEF StoreNext
<1>2. ASSUME NEW s \in Slots, Post(s)
      PROVE  StoreNext
  <2>1. User(s) \in Users /\ tasks[s] \in Task
    BY <1>2, TaskAtWork DEF Post, At
  <2>2. /\ tasks[s].user \in Users
        /\ tasks[s].text \in Texts
        /\ tasks[s].read.canned_body \in Texts
    BY <2>1 DEF Task, Data, User
  <2>3. \E x \in Texts : AddMessage(tasks[s].read.ticket_id, tasks[s].user, "manager", x)
    BY <1>2, <2>2 DEF Post
  <2>4. tasks[s].read.ticket_id \in Stored \cup {0}
    BY <1>2 DEF TaskInv, TaskIsSound, Owned, MayReply, Post, At
  <2> QED
    BY <2>2, <2>3, <2>4 DEF StoreNext
<1>3. ASSUME OthersOpen
      PROVE  StoreNext
  BY <1>3 DEF OthersOpen, StoreNext
<1>4. ASSUME NEW s \in Slots,
             GetData(s) \/ SetData(s) \/ SetState(s) \/ ClearState(s) \/ ClearData(s)
                \/ Check(s) \/ Send(s) \/ Retry(s) \/ Abort(s)
      PROVE  UNCHANGED storeVars
  BY <1>4 DEF GetData, SetData, SetState, ClearState, ClearData, Check, Send, Retry, Abort
<1>5. ASSUME NEW u \in Chatters, Press(u) \/ Write(u)
      PROVE  UNCHANGED storeVars
  BY <1>5 DEF Press, Write, Dispatch
<1>6. ASSUME Crash
      PROVE  UNCHANGED storeVars
  BY <1>6 DEF Crash
<1> QED
  BY <1>1, <1>2, <1>3, <1>4, <1>5, <1>6 DEF Next, Step

\* The weaker form, in which the operations take any argument of the right type.
LEMMA DialogStoreStep ==
    ASSUME DialogInv, Next
    PROVE  StoreStep \/ UNCHANGED storeVars
BY DialogServiceStep, StoreNextSteps DEF DialogInv, DialogTypeOK

\* A ticket just opened has no message in the manager's role.
LEMMA CreateKeepsLogs ==
    ASSUME StoreTypeOK, LogInv, ReplyAuthorised,
           NEW u \in Users, NEW x \in Texts, CreateTicket(u, x)
    PROVE  LogInv' /\ ReplyAuthorised'
<1> USE StoreAssumption
<1> DEFINE n == lastId + 1
           row == [sender |-> u, role |-> "client", text |-> x]
<1>1. /\ n \in Ids /\ n \in MessageIds /\ n \notin Stored
      /\ Stored \subseteq Ids /\ Ids \subseteq MessageIds
      /\ Stored' = Stored \cup {n}
  BY DEF CreateTicket, StoreTypeOK, Ids, MessageIds, Stored
<1>2. /\ messages \in [MessageIds -> Seq(Row)]
      /\ tickets \in [Ids -> Ticket]
  BY DEF StoreTypeOK
<1>3. messages' = [messages EXCEPT ![n] = Append(@, row)]
  BY DEF CreateTicket, InsertMessage
<1>4. messages[n] = <<>>
  BY <1>1 DEF LogInv
<1>5. messages'[n] = <<row>>
  BY <1>1, <1>2, <1>3, <1>4
<1>6. \A t \in Ids : t # n => messages'[t] = messages[t] /\ tickets'[t] = tickets[t]
  BY <1>1, <1>2, <1>3 DEF CreateTicket
<1> HIDE DEF n
<1>7. LogInv'
  BY <1>1, <1>6 DEF LogInv
<1>8. ASSUME NEW t \in Stored', NEW i \in DOMAIN messages'[t],
             messages'[t][i].role = "manager"
      PROVE  messages'[t][i].sender \in Admins \cup {tickets'[t].owner}
  <2>1. CASE t = n
    BY <1>5, <1>8, <2>1
  <2>2. CASE t # n
    BY <1>1, <1>6, <1>8, <2>2 DEF ReplyAuthorised
  <2> QED
    BY <2>1, <2>2
<1> QED
  BY <1>7, <1>8 DEF ReplyAuthorised

\* A message of one who may write in the ticket, or under the id 0.
LEMMA PostKeepsLogs ==
    ASSUME StoreTypeOK, LogInv, ReplyAuthorised,
           NEW n \in MessageIds, NEW u \in Users, NEW x \in Texts, Owned(n, u),
           AddMessage(n, u, "manager", x)
    PROVE  LogInv' /\ ReplyAuthorised'
<1> USE StoreAssumption
<1> DEFINE row == [sender |-> u, role |-> "manager", text |-> x]
<1>1. /\ n = 0 \/ n \in Stored
      /\ 0 \notin Ids
      /\ Stored \subseteq Ids /\ Ids \subseteq MessageIds
      /\ Stored' = Stored
  BY DEF Owned, MayReply, AddMessage, StoreTypeOK, Ids, MessageIds, Stored
<1>2. /\ messages \in [MessageIds -> Seq(Row)]
      /\ tickets \in [Ids -> Ticket]
  BY DEF StoreTypeOK
<1>3. messages' = [messages EXCEPT ![n] = Append(@, row)]
  BY DEF AddMessage, InsertMessage
<1>4. \A t \in Ids : t # n => messages'[t] = messages[t]
  BY <1>1, <1>2, <1>3
<1>5. \A t \in Stored : tickets'[t].owner = tickets[t].owner
  BY <1>1, <1>2 DEF AddMessage, Ticket
<1>6. LogInv'
  BY <1>1, <1>4 DEF LogInv
<1>7. ASSUME NEW t \in Stored', NEW i \in DOMAIN messages'[t],
             messages'[t][i].role = "manager"
      PROVE  messages'[t][i].sender \in Admins \cup {tickets'[t].owner}
  <2>1. CASE t = n
    <3>1. u \in Admins \cup {tickets[n].owner}
      BY <1>1, <2>1 DEF Owned, MayReply
    <3>2. messages[n] \in Seq(Row) /\ messages'[n] = Append(messages[n], row)
      BY <1>2, <1>3
    <3>3. CASE i = Len(messages[n]) + 1
      BY <1>1, <1>5, <2>1, <3>1, <3>2, <3>3
    <3>4. CASE i # Len(messages[n]) + 1
      <4>1. i \in DOMAIN messages[n] /\ messages'[n][i] = messages[n][i]
        BY <1>7, <2>1, <3>2, <3>4
      <4> QED
        BY <1>1, <1>5, <1>7, <2>1, <4>1 DEF ReplyAuthorised
    <3> QED
      BY <3>3, <3>4
  <2>2. CASE t # n
    BY <1>1, <1>4, <1>5, <1>7, <2>2 DEF ReplyAuthorised
  <2> QED
    BY <2>1, <2>2
<1> QED
  BY <1>6, <1>7 DEF ReplyAuthorised

\* Every step keeps the two facts about the logs.
LEMMA LogStep ==
    ASSUME DialogInv, Next
    PROVE  LogInv' /\ ReplyAuthorised'
<1> USE DEF DialogInv
<1>1. StoreTypeOK /\ DialogTypeOK
  BY DEF DialogTypeOK
<1>2. ASSUME NEW s \in Slots, Create(s)
      PROVE  LogInv' /\ ReplyAuthorised'
  <2>1. User(s) \in Users /\ tasks[s].read.subject \in Texts
    BY <1>1, <1>2, TaskAtWork DEF Create, At, Task, Data
  <2>2. CreateTicket(User(s), tasks[s].read.subject)
    BY <1>2 DEF Create
  <2> QED
    BY <1>1, <2>1, <2>2, CreateKeepsLogs
<1>3. ASSUME NEW s \in Slots, Post(s)
      PROVE  LogInv' /\ ReplyAuthorised'
  <2>1. User(s) \in Users /\ tasks[s] \in Task /\ Busy(s)
    BY <1>1, <1>3, TaskAtWork DEF Post, At
  <2>2. /\ tasks[s].user \in Users
        /\ tasks[s].text \in Texts
        /\ tasks[s].read.canned_body \in Texts
        /\ tasks[s].read.ticket_id \in MessageIds
    BY <2>1 DEF Task, Data, User
  <2>3. Owned(tasks[s].read.ticket_id, tasks[s].user)
    BY <2>1 DEF TaskInv, TaskIsSound
  <2>4. PICK x \in Texts : AddMessage(tasks[s].read.ticket_id, tasks[s].user, "manager", x)
    BY <1>3, <2>2 DEF Post
  <2> QED
    BY <1>1, <2>2, <2>3, <2>4, PostKeepsLogs
<1>4. ASSUME OthersOpen
      PROVE  LogInv' /\ ReplyAuthorised'
  <2>1. PICK u \in Users \ Chatters, x \in Texts \ {NoText} : CreateTicket(u, x)
    BY <1>4 DEF OthersOpen
  <2> QED
    BY <1>1, <2>1, CreateKeepsLogs
<1>5. ASSUME UNCHANGED storeVars
      PROVE  LogInv' /\ ReplyAuthorised'
  BY <1>5 DEF storeVars, LogInv, ReplyAuthorised, Stored
<1>6. ASSUME NEW s \in Slots,
             GetData(s) \/ SetData(s) \/ SetState(s) \/ ClearState(s) \/ ClearData(s)
                \/ Check(s) \/ Send(s) \/ Retry(s) \/ Abort(s)
      PROVE  UNCHANGED storeVars
  BY <1>6 DEF GetData, SetData, SetState, ClearState, ClearData, Check, Send, Retry, Abort
<1>7. ASSUME (\E u \in Chatters : Press(u) \/ Write(u)) \/ Crash
      PROVE  UNCHANGED storeVars
  BY <1>7 DEF Press, Write, Dispatch, Crash
<1> QED
  BY <1>2, <1>3, <1>4, <1>5, <1>6, <1>7 DEF Next, Step


-----------------------------------------------------------------------------
(***************************************************************************)
(* The handlers at work.                                                   *)
(***************************************************************************)

\* A task past its step, holding what its user may hold, is sound.
LEMMA PastIsSound ==
    ASSUME DialogInv, NEW s \in Slots, Busy(s),
           NEW d \in Data, Owned(d.ticket_id, User(s)),
           tasks[s].handler = "start_reply" /\ tasks[s].at = 1
               => MayReply(tasks[s].ticket, User(s))
    PROVE  \/ Past(tasks[s], d) = Idle
           \/ Past(tasks[s], d) \in Task /\ TaskIsSound(Past(tasks[s], d))
<1> DEFINE t == tasks[s]
           k == [t EXCEPT !.at = @ + 1, !.read = d]
<1>1. t \in Task /\ TaskIsSound(t)
  BY TaskAtWork DEF DialogInv, TaskInv
<1>2. CASE t.at = Len(Program[t.handler])
  BY <1>2 DEF Past
<1>3. CASE t.at # Len(Program[t.handler])
  <2>1. t.at \in 1 .. 5 /\ Len(Program[t.handler]) \in 1 .. 5 /\ t.at <= Len(Program[t.handler])
    BY <1>1, Programs DEF TaskIsSound, Task
  <2>2. t.at + 1 \in 1 .. 5 /\ t.at + 1 <= Len(Program[t.handler])
    <3> DEFINE a == t.at
               n == Len(Program[t.handler])
    <3>1. a \in 1 .. 5 /\ n \in 1 .. 5 /\ a <= n /\ a # n
      BY <1>3, <2>1
    <3> HIDE DEF a, n
    <3>2. a + 1 \in 1 .. 5 /\ a + 1 <= n
      BY <3>1
    <3> QED
      BY <3>2 DEF a, n
  <2>3. k \in Task /\ k.at = t.at + 1 /\ k.read = d /\ k.handler = t.handler
        /\ k.user = t.user /\ k.ticket = t.ticket
    BY <1>1, <2>2 DEF Task
  <2>4. t.handler = "start_reply" => MayReply(t.ticket, t.user)
    BY <1>1, <2>1 DEF TaskIsSound, User
  <2>5. TaskIsSound(k)
    BY <2>2, <2>3, <2>4 DEF TaskIsSound, User
  <2> QED
    BY <1>3, <2>3, <2>5 DEF Past
<1> QED
  BY <1>2, <1>3

\* Who has read nothing may hold it.
LEMMA NothingIsOwned == NoData \in Data /\ \A u : Owned(NoData.ticket_id, u)
BY DialogAssumption, StoreAssumption DEF NoData, Data, MessageIds, Owned

\* A step that moves one task to a sound one, or ends it, keeps the tasks sound.
LEMMA TaskMoves ==
    ASSUME DialogInv, StoreStep \/ UNCHANGED storeVars,
           NEW s \in Slots, NEW k,
           k = Idle \/ (k \in Task /\ TaskIsSound(k)),
           tasks' = [tasks EXCEPT ![s] = k]
    PROVE  tasks' \in [Slots -> Task \cup {Idle}] /\ TaskInv'
<1>1. tasks \in [Slots -> Task \cup {Idle}] /\ StoreTypeOK
  BY DEF DialogInv, DialogTypeOK
<1>2. ASSUME NEW j, TaskIsSound(j)
      PROVE  TaskIsSound(j)'
  BY <1>1, <1>2, RightsLast DEF TaskIsSound
<1>3. ASSUME NEW r \in Slots, Busy(r)'
      PROVE  TaskIsSound(tasks[r])'
  <2>1. CASE r = s
    <3>1. tasks'[r] = k /\ TaskIsSound(k)
      BY <1>1, <1>3, <2>1 DEF Busy
    <3>2. TaskIsSound(k)'
      BY <1>2, <3>1
    <3> QED
      BY <3>1, <3>2 DEF TaskIsSound, Owned, MayReply, Stored
  <2>2. CASE r # s
    <3>1. tasks'[r] = tasks[r] /\ TaskIsSound(tasks[r])
      BY <1>1, <1>3, <2>2 DEF DialogInv, TaskInv, Busy
    <3> QED
      BY <1>1, <3>1, RightsLast DEF TaskIsSound
  <2> QED
    BY <2>1, <2>2
<1> QED
  BY <1>1, <1>3 DEF TaskInv

\* So a task that goes on with nothing, or with data its user may hold.
LEMMA AdvanceIsSound ==
    ASSUME DialogInv, StoreStep \/ UNCHANGED storeVars,
           NEW s \in Slots, Busy(s), NEW d \in Data, Owned(d.ticket_id, User(s)),
           tasks[s].handler = "start_reply" /\ tasks[s].at = 1
               => MayReply(tasks[s].ticket, User(s)),
           tasks' = [tasks EXCEPT ![s] = Past(@, d)]
    PROVE  tasks' \in [Slots -> Task \cup {Idle}] /\ TaskInv'
<1> DEFINE k == Past(tasks[s], d)
<1>1. tasks' = [tasks EXCEPT ![s] = k]
  BY DEF DialogInv, DialogTypeOK
<1>2. k = Idle \/ (k \in Task /\ TaskIsSound(k))
  BY PastIsSound
<1> HIDE DEF k
<1> QED
  BY <1>1, <1>2, TaskMoves

\* A start_reply at its first step is at the check.
LEMMA FirstIsCheck ==
    ASSUME NEW s \in Slots, NEW step, At(s, step), step # "check"
    PROVE  ~ (tasks[s].handler = "start_reply" /\ tasks[s].at = 1)
BY Programs DEF At

\* Every step of a task leaves the tasks sound.
LEMMA TaskStep ==
    ASSUME DialogInv, Next
    PROVE  tasks' \in [Slots -> Task \cup {Idle}] /\ TaskInv'
<1>1. DialogTypeOK /\ StoreTypeOK
  BY DEF DialogInv, DialogTypeOK
<1>2. StoreStep \/ UNCHANGED storeVars
  BY <1>1, DialogStoreStep
<1>3. tasks \in [Slots -> Task \cup {Idle}]
  BY <1>1 DEF DialogTypeOK
<1>4. ASSUME NEW u \in Chatters, Press(u) \/ Write(u)
      PROVE  tasks' \in [Slots -> Task \cup {Idle}] /\ TaskInv'
  <2>1. Ids \subseteq MessageIds /\ 0 \in MessageIds
    BY StoreAssumption DEF Ids, MessageIds
  <2>2. PICK h \in Handlers, x \in Texts, t \in MessageIds : Dispatch(u, h, x, t)
    BY <1>4, <2>1, Programs, DialogAssumption DEF Press, Write
  <2>3. PICK s \in Slots : tasks' = [tasks EXCEPT ![s] =
            [user |-> u, handler |-> h, text |-> x, ticket |-> t,
             at |-> 1, try |-> 1, read |-> NoData]]
    BY <2>2 DEF Dispatch
  <2> DEFINE k == [user |-> u, handler |-> h, text |-> x, ticket |-> t,
                   at |-> 1, try |-> 1, read |-> NoData]
  <2>4. k \in Task
    BY NothingIsOwned, DialogAssumption DEF Task
  <2>5. Len(Program[h]) \in 1 .. 5
    BY Programs
  <2>6. TaskIsSound(k)
    BY <2>5, NothingIsOwned DEF TaskIsSound
  <2> QED
    BY <1>2, <2>3, <2>4, <2>6, TaskMoves
<1>5. ASSUME NEW s \in Slots, GetData(s)
      PROVE  tasks' \in [Slots -> Task \cup {Idle}] /\ TaskInv'
  <2>1. Busy(s) /\ User(s) \in Chatters
    BY <1>1, <1>5, TaskAtWork DEF GetData, At
  <2>2. data[User(s)] \in Data /\ Owned(data[User(s)].ticket_id, User(s))
    BY <1>1, <2>1 DEF DialogTypeOK, DialogInv, MemoryInv
  <2>3. ~ (tasks[s].handler = "start_reply" /\ tasks[s].at = 1)
    BY <1>5, FirstIsCheck DEF GetData
  <2> QED
    BY <1>2, <1>5, <2>1, <2>2, <2>3, AdvanceIsSound DEF GetData
<1>6. ASSUME NEW s \in Slots,
             SetData(s) \/ SetState(s) \/ ClearState(s) \/ ClearData(s)
                \/ Create(s) \/ Post(s) \/ Send(s)
      PROVE  tasks' \in [Slots -> Task \cup {Idle}] /\ TaskInv'
  <2>1. Busy(s) /\ Advance(s)
    BY <1>6 DEF SetData, SetState, ClearState, ClearData, Create, Post, Send, At
  <2>2. ~ (tasks[s].handler = "start_reply" /\ tasks[s].at = 1)
    BY <1>6, FirstIsCheck
    DEF SetData, SetState, ClearState, ClearData, Create, Post, Send
  <2> QED
    BY <1>2, <2>1, <2>2, NothingIsOwned, AdvanceIsSound DEF Advance
<1>7. ASSUME NEW s \in Slots, Check(s)
      PROVE  tasks' \in [Slots -> Task \cup {Idle}] /\ TaskInv'
  <2>1. Busy(s)
    BY <1>7 DEF Check, At
  <2>2. CASE MayReply(tasks[s].ticket, User(s))
    BY <1>2, <1>7, <2>1, <2>2, NothingIsOwned, AdvanceIsSound DEF Check, Advance
  <2>3. CASE ~ MayReply(tasks[s].ticket, User(s))
    <3>1. tasks' = [tasks EXCEPT ![s] = Idle]
      BY <1>7, <2>3 DEF Check
    <3> QED
      BY <1>2, <3>1, TaskMoves
  <2> QED
    BY <2>2, <2>3
<1>8. ASSUME NEW s \in Slots, Retry(s)
      PROVE  tasks' \in [Slots -> Task \cup {Idle}] /\ TaskInv'
  <2> DEFINE t == tasks[s]
             k == [t EXCEPT !.at = 1, !.try = @ + 1]
  <2>1. t \in Task /\ TaskIsSound(t)
    BY <1>1, <1>8, TaskAtWork DEF Retry, At, DialogInv, TaskInv
  <2>2. t.try + 1 \in 1 .. MaxTries
    BY <1>8, <2>1, DialogAssumption DEF Retry, Task
  <2>3. k \in Task /\ k.at = 1 /\ k.handler = t.handler /\ k.read = t.read /\ k.user = t.user
    <3>1. 1 \in 1 .. 5
      OBVIOUS
    <3> QED
      BY <2>1, <2>2, <3>1 DEF Task
  <2>4. Len(Program[t.handler]) \in 1 .. 5
    BY <2>1, Programs DEF Task
  <2>5. tasks' = [tasks EXCEPT ![s] = k]
    BY <1>3, <1>8 DEF Retry
  <2> HIDE DEF k
  <2>6. TaskIsSound(k)
    <3>1. k.at <= Len(Program[k.handler]) /\ ~ (k.at > 1)
      <4> DEFINE n == Len(Program[k.handler])
      <4>1. n \in 1 .. 5 /\ k.at = 1
        BY <2>3, <2>4
      <4> HIDE DEF n
      <4>2. k.at <= n /\ ~ (k.at > 1)
        BY <4>1
      <4> QED
        BY <4>2 DEF n
    <3>2. Owned(k.read.ticket_id, k.user)
      BY <2>1, <2>3 DEF TaskIsSound
    <3> QED
      BY <3>1, <3>2 DEF TaskIsSound
  <2> QED
    BY <1>2, <2>3, <2>5, <2>6, TaskMoves
<1>9. ASSUME NEW s \in Slots, Abort(s)
      PROVE  tasks' \in [Slots -> Task \cup {Idle}] /\ TaskInv'
  BY <1>2, <1>9, TaskMoves DEF Abort
<1>10. ASSUME Crash
       PROVE  tasks' \in [Slots -> Task \cup {Idle}] /\ TaskInv'
  BY <1>10 DEF Crash, TaskInv, Busy
<1>11. ASSUME OthersOpen
       PROVE  tasks' \in [Slots -> Task \cup {Idle}] /\ TaskInv'
  <2>1. tasks' = tasks
    BY <1>11 DEF OthersOpen, dialogVars
  <2>2. ASSUME NEW s \in Slots, Busy(s)'
        PROVE  TaskIsSound(tasks[s])'
    BY <1>1, <1>2, <2>1, <2>2, RightsLast DEF DialogInv, TaskInv, TaskIsSound, Busy
  <2> QED
    BY <1>3, <2>1, <2>2 DEF TaskInv
<1> QED
  BY <1>4, <1>5, <1>6, <1>7, <1>8, <1>9, <1>10, <1>11 DEF Next, Step
-----------------------------------------------------------------------------
(***************************************************************************)
(* The conversations and the invariant.                                    *)
(***************************************************************************)

\* A conversation's data only ever names a ticket its user may write in.
LEMMA MemoryStep ==
    ASSUME DialogInv, Next
    PROVE  data' \in [Chatters -> Data] /\ MemoryInv'
<1>1. DialogTypeOK /\ StoreTypeOK /\ data \in [Chatters -> Data]
  BY DEF DialogInv, DialogTypeOK
<1>2. StoreStep \/ UNCHANGED storeVars
  BY <1>1, DialogStoreStep
<1>3. ASSUME data' = data
      PROVE  data' \in [Chatters -> Data] /\ MemoryInv'
  <2>1. ASSUME NEW u \in Chatters
        PROVE  Owned(data[u].ticket_id, u)'
    BY <1>1, <1>2, <1>3, RightsLast DEF DialogInv, MemoryInv
  <2> QED
    BY <1>1, <1>3, <2>1 DEF MemoryInv
<1>4. ASSUME NEW s \in Slots, NEW d \in Data, Owned(d.ticket_id, User(s)),
             Busy(s), UNCHANGED storeVars, data' = [data EXCEPT ![User(s)] = d]
      PROVE  data' \in [Chatters -> Data] /\ MemoryInv'
  <2>1. data' \in [Chatters -> Data]
    BY <1>1, <1>4
  <2>2. ASSUME NEW u \in Chatters
        PROVE  Owned(data[u].ticket_id, u)'
    <3>1. Owned(data'[u].ticket_id, u)
      BY <1>1, <1>4 DEF DialogInv, MemoryInv
    <3> QED
      BY <1>4, <3>1 DEF Owned, MayReply, Stored, storeVars
  <2> QED
    BY <2>1, <2>2 DEF MemoryInv
<1>5. ASSUME NEW s \in Slots, SetData(s)
      PROVE  data' \in [Chatters -> Data] /\ MemoryInv'
  <2> DEFINE t == tasks[s]
  <2>1. Busy(s) /\ t \in Task /\ TaskIsSound(t)
    BY <1>1, <1>5, TaskAtWork DEF SetData, At, DialogInv, TaskInv
  <2>2. Changed(t) \in Data
    BY <2>1 DEF Changed, Task, Data
  <2>3. Owned(Changed(t).ticket_id, User(s))
    <3>1. CASE t.handler = "start_reply"
      <4>1. t.at \in 1 .. 5 /\ t.at # 1
        BY <1>5, <2>1, <3>1, FirstIsCheck DEF SetData, Task
      <4>2. MayReply(t.ticket, t.user)
        BY <2>1, <3>1, <4>1 DEF TaskIsSound
      <4>3. Changed(t).ticket_id = t.ticket
        BY <2>1, <3>1 DEF Changed, Task, Data
      <4> QED
        BY <4>2, <4>3 DEF Owned, User
    <3>2. CASE t.handler # "start_reply"
      <4>1. Changed(t).ticket_id = t.read.ticket_id
        BY <2>1, <3>2 DEF Changed, Task, Data
      <4> QED
        BY <2>1, <4>1 DEF TaskIsSound, User
    <3> QED
      BY <3>1, <3>2
  <2> QED
    BY <1>4, <1>5, <2>1, <2>2, <2>3 DEF SetData
<1>6. ASSUME NEW s \in Slots, ClearData(s)
      PROVE  data' \in [Chatters -> Data] /\ MemoryInv'
  BY <1>4, <1>6, NothingIsOwned DEF ClearData, At
<1>7. ASSUME NEW s \in Slots,
             GetData(s) \/ SetState(s) \/ ClearState(s) \/ Check(s) \/ Create(s)
                \/ Post(s) \/ Send(s) \/ Retry(s) \/ Abort(s)
      PROVE  data' = data
  BY <1>7 DEF GetData, SetState, ClearState, Check, Create, Post, Send, Retry, Abort
<1>8. ASSUME (\E u \in Chatters : Press(u) \/ Write(u)) \/ OthersOpen \/ Crash
      PROVE  data' = data
  BY <1>8 DEF Press, Write, Dispatch, OthersOpen, Crash, dialogVars
<1> QED
  BY <1>3, <1>5, <1>6, <1>7, <1>8 DEF Next, Step

\* The states and the histories keep their types.
LEMMA HistoryStep ==
    ASSUME DialogInv, Next
    PROVE  /\ fsm' \in [Chatters -> States]
           /\ asked' \in [Chatters -> MessageIds]
           /\ spent' \in [Chatters -> BOOLEAN]
           /\ copies' \in [Chatters -> Nat]
           /\ faults' \in 0 .. MaxFaults
<1> DEFINE Goal == /\ fsm' \in [Chatters -> States]
                   /\ asked' \in [Chatters -> MessageIds]
                   /\ spent' \in [Chatters -> BOOLEAN]
                   /\ copies' \in [Chatters -> Nat]
                   /\ faults' \in 0 .. MaxFaults
<1>1. /\ DialogTypeOK
      /\ fsm \in [Chatters -> States]
      /\ asked \in [Chatters -> MessageIds]
      /\ spent \in [Chatters -> BOOLEAN]
      /\ copies \in [Chatters -> Nat]
      /\ faults \in 0 .. MaxFaults
  BY DEF DialogInv, DialogTypeOK
<1>2. ASSUME UNCHANGED <<fsm, asked, spent, copies, faults>>
      PROVE  Goal
  BY <1>1, <1>2
<1>3. ASSUME UNCHANGED <<fsm, asked, spent, copies>>, Fault
      PROVE  Goal
  BY <1>1, <1>3, DialogAssumption DEF Fault
<1>4. ASSUME NEW s \in Slots, SetData(s)
      PROVE  Goal
  BY <1>1, <1>4 DEF SetData, Recorded
<1>5. ASSUME NEW s \in Slots, SetState(s)
      PROVE  Goal
  <2>1. /\ tasks[s] \in Task
        /\ tasks[s].at <= Len(Program[tasks[s].handler])
        /\ Program[tasks[s].handler][tasks[s].at] = "setState"
    BY <1>1, <1>5, TaskAtWork DEF SetState, At, DialogInv, TaskInv, TaskIsSound
  <2>2. tasks[s].handler \in {"choose_category", "enter_text", "start_reply"}
    BY <2>1, Programs DEF Task
  <2>3. Target(tasks[s].handler) \in States
    BY <2>2 DEF Target, States
  <2> QED
    BY <1>1, <1>5, <2>3 DEF SetState
<1>6. ASSUME NEW s \in Slots, ClearState(s)
      PROVE  Goal
  BY <1>1, <1>6 DEF ClearState, States
<1>7. ASSUME NEW s \in Slots, Check(s)
      PROVE  Goal
  <2>1. tasks[s].ticket \in MessageIds
    BY <1>1, <1>7, TaskAtWork DEF Check, At, Task
  <2> QED
    BY <1>1, <1>7, <2>1 DEF Check, Recorded
<1>8. ASSUME NEW s \in Slots, Create(s)
      PROVE  Goal
  <2>1. User(s) \in Chatters
    BY <1>1, <1>8, TaskAtWork DEF Create, At
  <2> QED
    BY <1>1, <1>8, <2>1 DEF Create, Recorded
<1>9. ASSUME NEW s \in Slots, GetData(s) \/ ClearData(s) \/ Post(s) \/ Send(s)
      PROVE  UNCHANGED <<fsm, asked, spent, copies, faults>>
  BY <1>9 DEF GetData, ClearData, Post, Send
<1>10. ASSUME NEW s \in Slots, Retry(s) \/ Abort(s)
       PROVE  UNCHANGED <<fsm, asked, spent, copies>> /\ Fault
  BY <1>10 DEF Retry, Abort
<1>11. ASSUME Crash
       PROVE  UNCHANGED <<fsm, asked, spent, copies>> /\ Fault
  BY <1>11 DEF Crash
<1>12. ASSUME (\E u \in Chatters : Press(u) \/ Write(u)) \/ OthersOpen
       PROVE  UNCHANGED <<fsm, asked, spent, copies, faults>>
  BY <1>12 DEF Press, Write, Dispatch, OthersOpen, dialogVars
<1> HIDE DEF Goal
<1>13. Goal
  BY <1>2, <1>3, <1>4, <1>5, <1>6, <1>7, <1>8, <1>9, <1>10, <1>11, <1>12 DEF Next, Step
<1> QED
  BY <1>13 DEF Goal

\* The initial state satisfies the invariant.
LEMMA DialogInitInv == Init => DialogInv
<1> SUFFICES ASSUME Init
             PROVE  DialogInv
  OBVIOUS
<1>1. StoreTypeOK
  BY StoreInitInv DEF Init, StoreInv
<1>2. 0 \in MessageIds /\ Ids \subseteq MessageIds
  BY StoreAssumption DEF Ids, MessageIds
<1>3. DialogTypeOK
  BY <1>1, <1>2, NothingIsOwned, DialogAssumption DEF Init, DialogTypeOK, States
<1>4. MemoryInv
  BY NothingIsOwned DEF Init, MemoryInv
<1>5. TaskInv
  BY DEF Init, TaskInv, Busy
<1>6. LogInv /\ ReplyAuthorised
  BY <1>2 DEF Init, StoreInit, LogInv, ReplyAuthorised, Stored
<1> QED
  BY <1>3, <1>4, <1>5, <1>6 DEF DialogInv

(***************************************************************************)
(* The invariant is inductive, through every overlap of every number of    *)
(* updates, every retry, failure and crash.                                *)
(***************************************************************************)
THEOREM DialogInvariant == Spec => []DialogInv
<1>1. Init => DialogInv
  BY DialogInitInv
<1>2. ASSUME DialogInv, [Next]_vars
      PROVE  DialogInv'
  <2>1. CASE Next
    <3>1. StoreTypeOK' /\ DialogTypeOK
      BY <1>2, <2>1, DialogStoreStep, StoreStepType
      DEF DialogInv, DialogTypeOK, StoreTypeOK, storeVars
    <3> QED
      BY <1>2, <2>1, <3>1, TaskStep, MemoryStep, HistoryStep, LogStep
      DEF DialogInv, DialogTypeOK
  <2>2. CASE UNCHANGED vars
    BY <1>2, <2>2
    DEF vars, storeVars, dialogVars, DialogInv, DialogTypeOK, StoreTypeOK, MemoryInv,
        TaskInv, TaskIsSound, Busy, Owned, MayReply, LogInv, ReplyAuthorised, Stored
  <2> QED
    BY <1>2, <2>1, <2>2
<1> QED
  BY <1>1, <1>2, PTL DEF Spec

(***************************************************************************)
(* The conversations, the handlers at work and the tables keep their types.*)
(***************************************************************************)
THEOREM DialogTypeCorrect == Spec => []DialogTypeOK
<1>1. DialogInv => DialogTypeOK
  BY DEF DialogInv
<1> QED
  BY <1>1, DialogInvariant, PTL

(***************************************************************************)
(* Nobody writes in a ticket in the manager's role but its owner and the   *)
(* administrators, although send_reply and send_canned_reply never ask.    *)
(***************************************************************************)
THEOREM RepliesAreAuthorised == Spec => []ReplyAuthorised
<1>1. DialogInv => ReplyAuthorised
  BY DEF DialogInv
<1> QED
  BY <1>1, DialogInvariant, PTL

(***************************************************************************)
(* However the updates of any number of users overlap, fail, are retried   *)
(* or are cut off, their handlers do to the tables what the service alone  *)
(* might have done: a reply is added to a ticket there is, or under 0.     *)
(***************************************************************************)
THEOREM DialogIsOnlyTheService == Spec => OnlyTheService
<1>1. Init => StoreInit
  BY DEF Init
<1>2. DialogInv /\ [Next]_vars => [UNCHANGED storeVars \/ StoreNext]_storeVars
  BY DialogServiceStep DEF vars
<1> QED
  BY <1>1, <1>2, DialogInvariant, PTL DEF Spec, OnlyTheService

(***************************************************************************)
(* So the conversations keep the contract of a ticket's life.              *)
(***************************************************************************)
THEOREM DialogImplementsContract == Spec => ImplementsContract
BY DialogIsOnlyTheService, ServiceIsTheStore, StoreImplementsContract

(***************************************************************************)
(* Whatever the conversations lose or repeat, every ticket's log opens     *)
(* with its owner's words and tells its row.                               *)
(***************************************************************************)
THEOREM DialogLogsAreFaithful == Spec => []LogTellsTheRow
BY DialogIsOnlyTheService, ServiceIsTheStore, LogsAreFaithful

(***************************************************************************)
(* A reply moves the deadline of the ticket in whose log it is, and a      *)
(* reply that went astray moves none.                                      *)
(***************************************************************************)
THEOREM DialogDeadlinesFollowTheLog == Spec => []DeadlineFollowsTheLog
BY DialogIsOnlyTheService, ServiceIsTheStore, DeadlinesFollowTheLog
=============================================================================
