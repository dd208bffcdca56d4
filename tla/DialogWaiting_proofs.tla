------------------------ MODULE DialogWaiting_proofs ------------------------
(***************************************************************************)
(* What holds of the conversation of a user who waits for the bot before   *)
(* acting again, however many other users there are, and however handlers  *)
(* fail, are retried or are cut off: the five properties of TicketDialog   *)
(* about such users.                                                       *)
(***************************************************************************)
EXTENDS TicketDialog_proofs

\* The step at which a task stands.
Stage(k) == Program[k.handler][k.at]

\* The handler at s is at work for u.
Mine(s, u) == Busy(s) /\ User(s) = u

Patience ==
    \A u \in Patient : \A r, s \in Slots : Mine(r, u) /\ Mine(s, u) => r = s

Replies == {"send_reply", "send_canned_reply"}

(***************************************************************************)
(* What a handler at work for somebody who waits can rely on.              *)
(***************************************************************************)
TaskOfWaiter(k, u) ==
    /\ k.handler = "enter_text" => k.text # NoText
    /\ Stage(k) \in {"setData", "create", "post"} => k.read = data[u]
    /\ Stage(k) = "clearData" => fsm[u] = "none"
    /\ Stage(k) = "setState" /\ k.handler = "enter_text"
            => data[u].subject # NoText /\ spent[u] = FALSE
    /\ Stage(k) = "setState" /\ k.handler = "start_reply" => data[u].ticket_id = k.ticket
    /\ Stage(k) # "check" /\ k.handler = "start_reply" => k.ticket = asked[u]
    /\ Stage(k) \in {"getData", "create"} /\ k.handler = "confirm_ticket"
            => fsm[u] = "confirming"
    /\ Stage(k) \in {"getData", "post"} /\ k.handler \in Replies
            => \/ k.try = 1 /\ fsm[u] = "entering_reply"
               \/ Cardinality(Orphans(u)) < faults

\* A start_reply past its check has not stored its ticket yet.
Choosing(u) ==
    \E s \in Slots : /\ Mine(s, u)
                     /\ tasks[s].handler = "start_reply"
                     /\ Stage(tasks[s]) \in {"getData", "setData"}

\* The draft has become a ticket and can be confirmed once more.
Hanging(u) ==
    /\ spent[u] = TRUE
    /\ fsm[u] = "confirming"
    /\ \A s \in Slots : ~ (Mine(s, u) /\ Stage(tasks[s]) = "clearState"
                           /\ tasks[s].handler = "confirm_ticket")

HasItsData(u) ==
    /\ fsm[u] = "confirming" => data[u].subject # NoText
    /\ fsm[u] = "entering_reply" => MayReply(data[u].ticket_id, u)

IsWhereAsked(u) ==
    fsm[u] = "entering_reply" /\ faults = 0
        => data[u].ticket_id = asked[u] \/ Choosing(u)

CopiesOK(u) == copies[u] <= faults /\ (Hanging(u) => copies[u] < faults)

OrphansOK(u) == Cardinality(Orphans(u)) <= faults

TasksOK(u) == \A s \in Slots : Mine(s, u) => TaskOfWaiter(tasks[s], u)

WaiterOK(u) ==
    HasItsData(u) /\ IsWhereAsked(u) /\ CopiesOK(u) /\ OrphansOK(u) /\ TasksOK(u)

WaitingInv == Patience /\ \A u \in Patient : WaiterOK(u)

-----------------------------------------------------------------------------
(***************************************************************************)
(* The programs.                                                           *)
(***************************************************************************)

\* Which handlers take a step a.
Where(h, a) ==
    /\ a = "check"   => h = "start_reply"
    /\ a = "setData" => h \in {"choose_category", "enter_text", "start_reply", "use_canned"}
    /\ a = "create"  => h = "confirm_ticket"
    /\ a = "post"    => h \in Replies

\* When step b comes right after step a.
After(h, a, b) ==
    /\ b # "check"
    /\ b = "getData" => a = "check"
    /\ b \in {"setData", "create", "post"} => a = "getData"
    /\ b = "setState" => a = "setData"
    /\ b = "clearState" => a \in {"create", "post"}
    /\ b = "clearData" => a = "clearState"
    /\ a = "create" => b = "clearState"
    /\ h = "start_reply" => (a = "check" => b = "getData") /\ (a = "getData" => b = "setData")

\* The order of the steps, read off the programs.
LEMMA Order ==
    ASSUME NEW h \in Handlers
    PROVE  /\ Len(Program[h]) \in 1 .. 5
           /\ Program[h][1] \in {"check", "getData", "clearState"}
           /\ \A i \in 1 .. 5 : i <= Len(Program[h]) => Where(h, Program[h][i])
           /\ \A i \in 1 .. 5 : i < Len(Program[h]) => After(h, Program[h][i], Program[h][i + 1])
           /\ Program[h][Len(Program[h])] = "send"
<1> DEFINE Ordered(p) ==
        /\ Len(p) \in 1 .. 5
        /\ p[1] \in {"check", "getData", "clearState"}
        /\ \A i \in 1 .. 5 : i <= Len(p) => Where(h, p[i])
        /\ \A i \in 1 .. 5 : i < Len(p) => After(h, p[i], p[i + 1])
        /\ p[Len(p)] = "send"
<1>1. ASSUME NEW a, NEW b, NEW c, a \in {"check", "getData", "clearState"}, c = "send",
             Where(h, a), Where(h, b), Where(h, c), After(h, a, b), After(h, b, c)
      PROVE  Ordered(<<a, b, c>>)
  <2> DEFINE p == <<a, b, c>>
  <2>1. Len(p) = 3 /\ p[1] = a /\ p[2] = b /\ p[3] = c
    OBVIOUS
  <2> HIDE DEF p
  <2>2. ASSUME NEW i \in 1 .. 5, i <= 3 PROVE i \in {1, 2, 3}
    BY <2>2
  <2>3. ASSUME NEW i \in 1 .. 5, i < 3 PROVE (i = 1 /\ i + 1 = 2) \/ (i = 2 /\ i + 1 = 3)
    BY <2>3
  <2>4. Ordered(p)
    BY <1>1, <2>1, <2>2, <2>3
  <2> QED
    BY <2>4 DEF p
<1>2. ASSUME NEW a, NEW b, NEW c, NEW d, a \in {"check", "getData", "clearState"}, d = "send",
             Where(h, a), Where(h, b), Where(h, c), Where(h, d),
             After(h, a, b), After(h, b, c), After(h, c, d)
      PROVE  Ordered(<<a, b, c, d>>)
  <2> DEFINE p == <<a, b, c, d>>
  <2>1. Len(p) = 4 /\ p[1] = a /\ p[2] = b /\ p[3] = c /\ p[4] = d
    OBVIOUS
  <2> HIDE DEF p
  <2>2. ASSUME NEW i \in 1 .. 5, i <= 4 PROVE i \in {1, 2, 3, 4}
    BY <2>2
  <2>3. ASSUME NEW i \in 1 .. 5, i < 4
        PROVE  (i = 1 /\ i + 1 = 2) \/ (i = 2 /\ i + 1 = 3) \/ (i = 3 /\ i + 1 = 4)
    BY <2>3
  <2>4. Ordered(p)
    BY <1>2, <2>1, <2>2, <2>3
  <2> QED
    BY <2>4 DEF p
<1>3. ASSUME NEW a, NEW b, NEW c, NEW d, NEW e, a \in {"check", "getData", "clearState"},
             e = "send",
             Where(h, a), Where(h, b), Where(h, c), Where(h, d), Where(h, e),
             After(h, a, b), After(h, b, c), After(h, c, d), After(h, d, e)
      PROVE  Ordered(<<a, b, c, d, e>>)
  <2> DEFINE p == <<a, b, c, d, e>>
  <2>1. Len(p) = 5 /\ p[1] = a /\ p[2] = b /\ p[3] = c /\ p[4] = d /\ p[5] = e
    OBVIOUS
  <2> HIDE DEF p
  <2>2. ASSUME NEW i \in 1 .. 5 PROVE i \in {1, 2, 3, 4, 5}
    OBVIOUS
  <2>3. ASSUME NEW i \in 1 .. 5, i < 5
        PROVE  (i = 1 /\ i + 1 = 2) \/ (i = 2 /\ i + 1 = 3) \/ (i = 3 /\ i + 1 = 4)
                   \/ (i = 4 /\ i + 1 = 5)
    BY <2>3
  <2>4. Ordered(p)
    BY <1>3, <2>1, <2>2, <2>3
  <2> QED
    BY <2>4 DEF p
<1> HIDE DEF Ordered
<1>4. CASE h \in {"cmd_start", "cancel_ticket"}
  <2>1. Program[h] = <<"clearState", "clearData", "send">>
    BY <1>4 DEF Program, cmd_start, cancel_ticket
  <2> QED
    BY <1>1, <1>4, <2>1 DEF Where, After, Ordered
<1>5. CASE h = "use_canned"
  <2>1. Program[h] = <<"getData", "setData", "send">>
    BY <1>5 DEF Program, use_canned
  <2> QED
    BY <1>1, <1>5, <2>1 DEF Where, After, Ordered
<1>6. CASE h \in {"choose_category", "enter_text"}
  <2>1. Program[h] = <<"getData", "setData", "setState", "send">>
    BY <1>6 DEF Program, choose_category, enter_text
  <2> QED
    BY <1>2, <1>6, <2>1 DEF Where, After, Ordered
<1>7. CASE h = "confirm_ticket"
  <2>1. Program[h] = <<"getData", "create", "clearState", "clearData", "send">>
    BY <1>7 DEF Program, confirm_ticket
  <2> QED
    BY <1>3, <1>7, <2>1 DEF Where, After, Ordered
<1>8. CASE h = "start_reply"
  <2>1. Program[h] = <<"check", "getData", "setData", "setState", "send">>
    BY <1>8 DEF Program, start_reply
  <2> QED
    BY <1>3, <1>8, <2>1 DEF Where, After, Ordered
<1>9. CASE h \in Replies
  <2>1. Program[h] = <<"getData", "post", "clearState", "clearData", "send">>
    BY <1>9 DEF Program, send_reply, send_canned_reply, Replies
  <2> QED
    BY <1>3, <1>9, <2>1 DEF Where, After, Ordered, Replies
<1> QED
  BY <1>4, <1>5, <1>6, <1>7, <1>8, <1>9, Programs DEF Replies

-----------------------------------------------------------------------------
(***************************************************************************)
(* A step of one handler, seen from the tasks.                             *)
(***************************************************************************)

\* The handler of u at s is a task at a step of its program.
LEMMA TaskOfUser ==
    ASSUME DialogInv, NEW s \in Slots, NEW u, Mine(s, u)
    PROVE  /\ tasks[s] \in Task /\ tasks[s].user = u
           /\ u \in Chatters /\ u \in Users
           /\ tasks[s].handler \in Handlers
           /\ tasks[s].at \in 1 .. 5 /\ tasks[s].at <= Len(Program[tasks[s].handler])
           /\ Where(tasks[s].handler, Stage(tasks[s]))
<1>1. tasks[s] \in Task /\ tasks[s].user = u /\ u \in Chatters /\ u \in Users /\ TaskIsSound(tasks[s])
  BY TaskAtWork DEF DialogInv, TaskInv, Mine, User
<1>2. tasks[s].handler \in Handlers /\ tasks[s].at \in 1 .. 5
      /\ tasks[s].at <= Len(Program[tasks[s].handler])
  BY <1>1 DEF Task, TaskIsSound
<1> QED
  BY <1>1, <1>2, Order DEF Stage

\* The task n is the task k one step later, holding d.
Follows(n, k, d) ==
    /\ n.handler = k.handler /\ n.text = k.text /\ n.ticket = k.ticket /\ n.try = k.try
    /\ n.read = d
    /\ After(k.handler, Stage(k), Stage(n))

\* A handler that goes on comes to the next step of its program, or ends at the last.
LEMMA GoesOn ==
    ASSUME DialogInv, NEW s \in Slots, NEW u, Mine(s, u), NEW d \in Data,
           tasks' = [tasks EXCEPT ![s] = Past(@, d)]
    PROVE  /\ \A r \in Slots : r # s => tasks'[r] = tasks[r]
           /\ \A v : Mine(s, v)' => v = u /\ Follows(tasks'[s], tasks[s], d)
           /\ Stage(tasks[s]) # "send" => Mine(s, u)'
<1> DEFINE k == tasks[s]
           n == [k EXCEPT !.at = @ + 1, !.read = d]
<1>1. /\ k \in Task /\ k.user = u /\ k.handler \in Handlers
      /\ k.at \in 1 .. 5 /\ k.at <= Len(Program[k.handler])
  BY TaskOfUser
<1>2. tasks \in [Slots -> Task \cup {Idle}] /\ tasks'[s] = Past(k, d)
      /\ \A r \in Slots : r # s => tasks'[r] = tasks[r]
  BY DEF DialogInv, DialogTypeOK
<1>3. CASE k.at = Len(Program[k.handler])
  <2>1. tasks'[s] = Idle
    BY <1>2, <1>3 DEF Past
  <2>2. Stage(k) = "send"
    BY <1>1, <1>3, Order DEF Stage
  <2> QED
    BY <1>2, <2>1, <2>2 DEF Mine, Busy
<1>4. CASE k.at # Len(Program[k.handler])
  <2>1. tasks'[s] = n
    BY <1>2, <1>4 DEF Past
  <2>2. /\ n.handler = k.handler /\ n.text = k.text /\ n.ticket = k.ticket /\ n.try = k.try
        /\ n.read = d /\ n.user = u /\ n.at = k.at + 1
    BY <1>1 DEF Task
  <2>3. n # Idle
    <3>1. Idle.handler = "idle" /\ "idle" \notin Handlers
      BY Programs DEF Idle
    <3>2. n.handler \in Handlers
      BY <1>1, <2>2
    <3> HIDE DEF n
    <3> QED
      BY <3>1, <3>2
  <2>4. k.at < Len(Program[k.handler])
    <3> DEFINE a == k.at
               l == Len(Program[k.handler])
    <3>1. a \in 1 .. 5 /\ l \in 1 .. 5 /\ a <= l /\ a # l
      BY <1>1, <1>4, Order
    <3> HIDE DEF a, l
    <3>2. a < l
      BY <3>1
    <3> QED
      BY <3>2 DEF a, l
  <2>5. After(k.handler, Stage(k), Stage(n))
    BY <1>1, <2>2, <2>4, Order DEF Stage
  <2> HIDE DEF n
  <2>6. Mine(s, u)' /\ \A v : Mine(s, v)' => v = u
    BY <2>1, <2>2, <2>3 DEF Mine, Busy, User
  <2>7. Follows(tasks'[s], k, d)
    BY <2>1, <2>2, <2>5 DEF Follows
  <2> QED
    BY <1>2, <2>6, <2>7
<1> QED
  BY <1>3, <1>4

\* The handler of somebody who waits is that person's only one, after its step too.
LEMMA OnlyOne ==
    ASSUME Patience, NEW u \in Patient, NEW s \in Slots, Mine(s, u),
           \A r \in Slots : r # s => tasks'[r] = tasks[r]
    PROVE  \A r \in Slots : (Mine(r, u) \/ Mine(r, u)') => r = s
BY DEF Patience, Mine, Busy, User

-----------------------------------------------------------------------------
(***************************************************************************)
(* The messages under the id 0.                                            *)
(***************************************************************************)

LEMMA OrphansAreFinite ==
    ASSUME StoreTypeOK, NEW u
    PROVE  IsFiniteSet(Orphans(u)) /\ Cardinality(Orphans(u)) \in Nat
<1>1. 0 \in MessageIds
  BY StoreAssumption DEF MessageIds
<1>2. messages[0] \in Seq(Row)
  BY <1>1 DEF StoreTypeOK
<1>3. DOMAIN messages[0] = 1 .. Len(messages[0]) /\ Len(messages[0]) \in Nat
  BY <1>2
<1>4. IsFiniteSet(1 .. Len(messages[0]))
  BY <1>3, FS_Interval
<1>5. Orphans(u) \subseteq 1 .. Len(messages[0])
  BY <1>3 DEF Orphans
<1> QED
  BY <1>4, <1>5, FS_Subset, FS_CardinalityType

\* A message is an orphan of its sender if it names the id 0.
LEMMA MessageOrphans ==
    ASSUME StoreTypeOK, NEW t \in MessageIds, NEW w \in Users, NEW r, NEW x,
           InsertMessage(t, w, r, x)
    PROVE  \A u : /\ t # 0 \/ u # w => Orphans(u)' = Orphans(u)
                  /\ Cardinality(Orphans(u)') <= Cardinality(Orphans(u)) + 1
                  /\ Cardinality(Orphans(u)') \in Nat
<1> DEFINE m == messages[0]
           row == [sender |-> w, role |-> r, text |-> x]
<1>1. m \in Seq(Row) /\ messages \in [MessageIds -> Seq(Row)] /\ 0 \in MessageIds
  BY StoreAssumption DEF StoreTypeOK, MessageIds
<1>2. messages' = [messages EXCEPT ![t] = Append(@, row)]
  BY DEF InsertMessage
<1>3. CASE t # 0
  <2>1. messages'[0] = messages[0]
    BY <1>1, <1>2, <1>3
  <2>2. \A u : Orphans(u)' = Orphans(u)
    BY <2>1 DEF Orphans
  <2>3. \A u : Cardinality(Orphans(u)') = Cardinality(Orphans(u)) /\ Cardinality(Orphans(u)) \in Nat
    BY <2>2, OrphansAreFinite
  <2> QED
    BY <2>2, <2>3
<1>4. CASE t = 0
  <2>1. messages'[0] = Append(m, row)
    BY <1>1, <1>2, <1>4
  <2>2. /\ Len(m) \in Nat
        /\ DOMAIN m = 1 .. Len(m)
        /\ DOMAIN messages'[0] = 1 .. Len(m) + 1
        /\ \A i \in 1 .. Len(m) : messages'[0][i] = m[i]
        /\ messages'[0][Len(m) + 1].sender = w
    <3>1. Len(m) \in Nat /\ DOMAIN m = 1 .. Len(m)
      BY <1>1
    <3>2. /\ DOMAIN Append(m, row) = 1 .. Len(m) + 1
          /\ \A i \in 1 .. Len(m) : Append(m, row)[i] = m[i]
          /\ Append(m, row)[Len(m) + 1] = row
      BY <1>1, <3>1
    <3> QED
      BY <2>1, <3>1, <3>2
  <2> HIDE DEF row
  <2>3. ASSUME NEW u PROVE /\ Orphans(u)' \subseteq Orphans(u) \cup {Len(m) + 1}
                           /\ u # w => Orphans(u)' = Orphans(u)
    <3>1. ASSUME NEW i PROVE i \in 1 .. Len(m) + 1 <=> i \in 1 .. Len(m) \/ i = Len(m) + 1
      <4> DEFINE l == Len(m)
      <4>1. l \in Nat
        BY <2>2
      <4> HIDE DEF l
      <4>2. i \in 1 .. l + 1 <=> i \in 1 .. l \/ i = l + 1
        BY <4>1
      <4> QED
        BY <4>2 DEF l
    <3>2. /\ Orphans(u) = {i \in 1 .. Len(m) : m[i].sender = u}
          /\ Orphans(u)' = {i \in 1 .. Len(m) + 1 : messages'[0][i].sender = u}
      BY <2>2 DEF Orphans
    <3> HIDE DEF m
    <3> QED
      BY <2>2, <3>1, <3>2
  <2> HIDE DEF m
  <2>4. ASSUME NEW u
        PROVE  /\ Cardinality(Orphans(u)') <= Cardinality(Orphans(u)) + 1
               /\ Cardinality(Orphans(u)') \in Nat
    BY <2>3, OrphansAreFinite, OneElementMore
  <2> QED
    BY <1>4, <2>3, <2>4
<1> QED
  BY <1>3, <1>4

\* Only a message leaves an orphan.
LEMMA NewTicketsAreNoOrphans ==
    ASSUME StoreTypeOK, NEW w \in Users, NEW x, CreateTicket(w, x)
    PROVE  \A u : Orphans(u)' = Orphans(u)
<1>1. lastId + 1 \in MessageIds /\ lastId + 1 # 0
  BY StoreAssumption DEF StoreTypeOK, CreateTicket, MessageIds
<1>2. InsertMessage(lastId + 1, w, "client", x)
  BY DEF CreateTicket
<1> QED
  BY <1>1, <1>2, MessageOrphans

-----------------------------------------------------------------------------
(***************************************************************************)
(* Steps that are not the waiting user's.                                  *)
(***************************************************************************)

\* The numbers the invariant compares.
LEMMA Numbers ==
    ASSUME DialogInv
    PROVE  /\ faults \in Nat
           /\ \A u \in Patient : u \in Chatters /\ copies[u] \in Nat
           /\ \A u : Cardinality(Orphans(u)) \in Nat
BY OrphansAreFinite, DialogAssumption DEF DialogInv, DialogTypeOK

\* A step after which nothing of u has changed, though a fault may have happened.
LEMMA WaiterUntouched ==
    ASSUME DialogInv, StoreStep \/ UNCHANGED storeVars, NEW u \in Patient, WaiterOK(u),
           fsm'[u] = fsm[u], data'[u] = data[u], asked'[u] = asked[u],
           spent'[u] = spent[u], copies'[u] = copies[u], Orphans(u)' = Orphans(u),
           faults' \in {faults, faults + 1},
           \A s \in Slots : Mine(s, u)' <=> Mine(s, u),
           \A s \in Slots : Mine(s, u) => tasks'[s] = tasks[s]
    PROVE  WaiterOK(u)'
<1>1. faults \in Nat /\ Cardinality(Orphans(u)) \in Nat /\ copies[u] \in Nat
  BY Numbers
<1>2. faults' \in Nat /\ faults <= faults' /\ (faults' = 0 => faults = 0)
  BY <1>1
<1>3. Cardinality(Orphans(u)') = Cardinality(Orphans(u))
  OBVIOUS
<1>4. HasItsData(u)'
  BY RightsLast DEF DialogInv, DialogTypeOK, WaiterOK, HasItsData
<1>5. Choosing(u) => Choosing(u)'
  BY DEF Choosing, Stage
<1>6. IsWhereAsked(u)'
  BY <1>2, <1>5 DEF WaiterOK, IsWhereAsked
<1>7. Hanging(u)' => Hanging(u)
  BY DEF Hanging, Stage
<1>8. CopiesOK(u)'
  BY <1>1, <1>2, <1>7 DEF WaiterOK, CopiesOK
<1>9. OrphansOK(u)'
  BY <1>1, <1>2, <1>3 DEF WaiterOK, OrphansOK
<1>10. TasksOK(u)'
  <2> SUFFICES ASSUME NEW s \in Slots, Mine(s, u)' PROVE TaskOfWaiter(tasks[s], u)'
    BY DEF TasksOK
  <2>1. tasks'[s] = tasks[s] /\ TaskOfWaiter(tasks[s], u)
    BY DEF WaiterOK, TasksOK
  <2>2. Cardinality(Orphans(u)) < faults => Cardinality(Orphans(u)') < faults'
    BY <1>1, <1>2, <1>3
  <2> QED
    BY <2>1, <2>2 DEF TaskOfWaiter, Stage
<1> QED
  BY <1>4, <1>6, <1>8, <1>9, <1>10 DEF WaiterOK

\* A fault that leaves no handler of u at work.
LEMMA WaiterCutOff ==
    ASSUME DialogInv, NEW u \in Patient, WaiterOK(u),
           UNCHANGED <<storeVars, fsm, data, asked, spent, copies>>,
           faults' = faults + 1,
           \A s \in Slots : ~ Mine(s, u)'
    PROVE  WaiterOK(u)'
<1>1. faults \in Nat /\ Cardinality(Orphans(u)) \in Nat /\ copies[u] \in Nat
  BY Numbers
<1>2. Orphans(u)' = Orphans(u) /\ Cardinality(Orphans(u)') = Cardinality(Orphans(u))
  BY DEF Orphans, storeVars
<1>3. HasItsData(u)'
  BY DEF WaiterOK, HasItsData, MayReply, Stored, storeVars
<1>4. IsWhereAsked(u)'
  BY <1>1 DEF IsWhereAsked
<1>5. CopiesOK(u)'
  BY <1>1 DEF WaiterOK, CopiesOK
<1>6. OrphansOK(u)'
  BY <1>1, <1>2 DEF WaiterOK, OrphansOK
<1>7. TasksOK(u)'
  BY DEF TasksOK
<1> QED
  BY <1>3, <1>4, <1>5, <1>6, <1>7 DEF WaiterOK

\* An update of u arrives: u had no handler at work.
LEMMA WaiterActs ==
    ASSUME DialogInv, Patience, NEW u \in Patient, WaiterOK(u),
           NEW h \in Handlers, NEW x, NEW t, Dispatch(u, h, x, t),
           h = "enter_text" => x # NoText
    PROVE  WaiterOK(u)'
<1>1. PICK s \in Slots : tasks' = [tasks EXCEPT ![s] =
                 [user |-> u, handler |-> h, text |-> x, ticket |-> t,
                  at |-> 1, try |-> 1, read |-> NoData]]
  BY DEF Dispatch
<1>2. /\ \A r \in Slots : ~ Mine(r, u)
      /\ UNCHANGED <<storeVars, fsm, data, asked, spent, copies, faults>>
      /\ Admits(h, fsm[u])
  BY DEF Dispatch, MayAct, Mine, User
<1>3. tasks \in [Slots -> Task \cup {Idle}]
  BY DEF DialogInv, DialogTypeOK
<1>4. /\ tasks'[s].handler = h /\ tasks'[s].text = x /\ tasks'[s].at = 1 /\ tasks'[s].try = 1
      /\ \A r \in Slots : r # s => tasks'[r] = tasks[r]
  BY <1>1, <1>3
<1>5. ASSUME NEW r \in Slots, Mine(r, u)' PROVE r = s
  BY <1>2, <1>4, <1>5 DEF Mine, Busy, User
<1>6. Orphans(u)' = Orphans(u)
  BY <1>2 DEF Orphans, storeVars
<1>7. HasItsData(u)'
  BY <1>2 DEF WaiterOK, HasItsData, MayReply, Stored, storeVars
<1>8. IsWhereAsked(u)'
  BY <1>2 DEF WaiterOK, IsWhereAsked, Choosing
<1>9. CopiesOK(u)'
  BY <1>2 DEF WaiterOK, CopiesOK, Hanging
<1>10. OrphansOK(u)'
  BY <1>2, <1>6 DEF WaiterOK, OrphansOK
<1>11. Stage(tasks[s])' \in {"check", "getData", "clearState"}
       /\ Where(h, Stage(tasks[s])')
  <2>1. Stage(tasks[s])' = Program[h][1]
    BY <1>4 DEF Stage
  <2>2. 1 \in 1 .. 5 /\ 1 <= Len(Program[h])
    <3> DEFINE l == Len(Program[h])
    <3>1. l \in 1 .. 5
      BY Order
    <3> HIDE DEF l
    <3>2. 1 <= l
      BY <3>1
    <3> QED
      BY <3>2 DEF l
  <2> QED
    BY <2>1, <2>2, Order
<1>12. TaskOfWaiter(tasks[s], u)'
  <2>1. /\ h = "confirm_ticket" => fsm[u] = "confirming"
        /\ h \in Replies => fsm[u] = "entering_reply"
    BY <1>2 DEF Admits, Replies
  <2>2. h = "start_reply" => Stage(tasks[s])' = "check"
    BY <1>4, Programs DEF Stage
  <2> QED
    BY <1>2, <1>4, <1>11, <2>1, <2>2 DEF TaskOfWaiter
<1>13. TasksOK(u)'
  BY <1>5, <1>12 DEF TasksOK
<1> QED
  BY <1>7, <1>8, <1>9, <1>10, <1>13 DEF WaiterOK

-----------------------------------------------------------------------------
(***************************************************************************)
(* Steps of the waiting user's own handler.                                *)
(***************************************************************************)

\* What the one handler of a waiting user says of the conversation.
LEMMA OwnHandler ==
    ASSUME DialogInv, Patience, NEW u \in Patient, WaiterOK(u), NEW s \in Slots, Mine(s, u)
    PROVE  /\ u \in Chatters /\ u \in Users
           /\ User(s) = u /\ tasks[s] \in Task /\ tasks[s].handler \in Handlers
           /\ TaskOfWaiter(tasks[s], u)
           /\ Where(tasks[s].handler, Stage(tasks[s]))
           /\ \A step : At(s, step) => Stage(tasks[s]) = step
           /\ Stage(tasks[s]) # "check" /\ tasks[s].handler = "start_reply"
                  => MayReply(tasks[s].ticket, u)
           /\ Choosing(u) => /\ tasks[s].handler = "start_reply"
                             /\ Stage(tasks[s]) \in {"getData", "setData"}
           /\ spent[u] = TRUE /\ fsm[u] = "confirming" /\ Stage(tasks[s]) # "clearState"
                  => Hanging(u)
<1>1. /\ tasks[s] \in Task /\ tasks[s].user = u /\ u \in Chatters /\ u \in Users
      /\ tasks[s].handler \in Handlers /\ tasks[s].at \in 1 .. 5
      /\ Where(tasks[s].handler, Stage(tasks[s]))
  BY TaskOfUser
<1>2. TaskIsSound(tasks[s])
  BY DEF DialogInv, TaskInv, Mine
<1>3. Stage(tasks[s]) # "check" /\ tasks[s].handler = "start_reply" => MayReply(tasks[s].ticket, u)
  <2>1. tasks[s].handler = "start_reply" /\ tasks[s].at = 1 => Stage(tasks[s]) = "check"
    BY Programs DEF Stage
  <2>2. tasks[s].at # 1 => tasks[s].at > 1
    BY <1>1
  <2> QED
    BY <1>1, <1>2, <2>1, <2>2 DEF TaskIsSound
<1>4. \A r \in Slots : Mine(r, u) => r = s
  BY DEF Patience
<1>5. TaskOfWaiter(tasks[s], u)
  BY DEF WaiterOK, TasksOK
<1>6. User(s) = u /\ \A step : At(s, step) => Stage(tasks[s]) = step
  BY DEF Mine, At, Stage
<1>7. Choosing(u) => /\ tasks[s].handler = "start_reply"
                     /\ Stage(tasks[s]) \in {"getData", "setData"}
  BY <1>4 DEF Choosing
<1>8. spent[u] = TRUE /\ fsm[u] = "confirming" /\ Stage(tasks[s]) # "clearState" => Hanging(u)
  BY <1>4 DEF Hanging
<1> QED
  BY <1>1, <1>3, <1>5, <1>6, <1>7, <1>8

\* How it goes on.
LEMMA OwnHandlerGoesOn ==
    ASSUME DialogInv, Patience, NEW u \in Patient, WaiterOK(u), NEW s \in Slots, Mine(s, u),
           NEW d \in Data, tasks' = [tasks EXCEPT ![s] = Past(@, d)]
    PROVE  /\ \A r \in Slots : Mine(r, u)' => r = s /\ Follows(tasks'[s], tasks[s], d)
           /\ Stage(tasks[s]) # "send" => Mine(s, u)'
<1>1. /\ \A r \in Slots : r # s => tasks'[r] = tasks[r]
      /\ \A v : Mine(s, v)' => v = u /\ Follows(tasks'[s], tasks[s], d)
      /\ Stage(tasks[s]) # "send" => Mine(s, u)'
  BY GoesOn
<1>2. \A r \in Slots : Mine(r, u)' => r = s
  BY <1>1, OnlyOne
<1> QED
  BY <1>1, <1>2

LEMMA OwnGetData ==
    ASSUME DialogInv, Patience, NEW u \in Patient, WaiterOK(u), NEW s \in Slots, Mine(s, u),
           GetData(s)
    PROVE  WaiterOK(u)'
<1> DEFINE k == tasks[s]
<1>1. /\ u \in Chatters /\ User(s) = u /\ TaskOfWaiter(k, u) /\ Stage(k) = "getData"
      /\ Where(k.handler, Stage(k))
      /\ spent[u] = TRUE /\ fsm[u] = "confirming" => Hanging(u)
      /\ Choosing(u) => k.handler = "start_reply"
  BY OwnHandler DEF GetData
<1>2. data[u] \in Data
  BY <1>1 DEF DialogInv, DialogTypeOK
<1>3. UNCHANGED <<storeVars, fsm, data, asked, spent, copies, faults>>
      /\ tasks' = [tasks EXCEPT ![s] = Past(@, data[u])]
  BY <1>1 DEF GetData
<1>4. /\ \A r \in Slots : Mine(r, u)' => r = s /\ Follows(tasks'[s], k, data[u])
      /\ Mine(s, u)'
  BY <1>1, <1>2, <1>3, OwnHandlerGoesOn
<1>5. Orphans(u)' = Orphans(u)
  BY <1>3 DEF Orphans, storeVars
<1>6. HasItsData(u)'
  BY <1>3 DEF WaiterOK, HasItsData, MayReply, Stored, storeVars
<1>7. Choosing(u) => Choosing(u)'
  BY <1>1, <1>4 DEF Choosing, Follows, After, Stage
<1>8. IsWhereAsked(u)'
  BY <1>3, <1>7 DEF WaiterOK, IsWhereAsked
<1>9. CopiesOK(u)'
  BY <1>1, <1>3 DEF WaiterOK, CopiesOK, Hanging
<1>10. OrphansOK(u)'
  BY <1>3, <1>5 DEF WaiterOK, OrphansOK
<1>11. TasksOK(u)'
  <2> SUFFICES ASSUME NEW r \in Slots, Mine(r, u)' PROVE TaskOfWaiter(tasks[r], u)'
    BY DEF TasksOK
  <2>1. r = s /\ Follows(tasks'[r], k, data[u])
    BY <1>4
  <2> QED
    BY <1>1, <1>3, <1>5, <2>1 DEF TaskOfWaiter, Follows, After, Stage
<1> QED
  BY <1>6, <1>8, <1>9, <1>10, <1>11 DEF WaiterOK

LEMMA OwnSetData ==
    ASSUME DialogInv, Patience, NEW u \in Patient, WaiterOK(u), NEW s \in Slots, Mine(s, u),
           SetData(s)
    PROVE  WaiterOK(u)'
<1> DEFINE k == tasks[s]
<1>1. /\ u \in Chatters /\ User(s) = u /\ k \in Task /\ TaskOfWaiter(k, u)
      /\ Stage(k) = "setData" /\ Where(k.handler, Stage(k))
      /\ k.handler = "start_reply" => MayReply(k.ticket, u)
      /\ spent[u] = TRUE /\ fsm[u] = "confirming" => Hanging(u)
      /\ Choosing(u) => k.handler = "start_reply"
  BY OwnHandler DEF SetData
<1>2. /\ UNCHANGED <<storeVars, fsm, asked, copies, faults>>
      /\ data'[u] = Changed(k)
      /\ tasks' = [tasks EXCEPT ![s] = Past(@, NoData)]
  BY <1>1 DEF SetData, Advance, DialogInv, DialogTypeOK
<1>3. IF k.handler = "enter_text" THEN spent'[u] = FALSE ELSE spent'[u] = spent[u]
  BY <1>1 DEF SetData, Recorded, DialogInv, DialogTypeOK
<1>4. /\ data'[u].subject = IF k.handler = "enter_text" THEN k.text ELSE data[u].subject
      /\ data'[u].ticket_id = IF k.handler = "start_reply" THEN k.ticket ELSE data[u].ticket_id
  <2>1. k.read = data[u] /\ k.read \in Data
    BY <1>1 DEF TaskOfWaiter, Task
  <2> QED
    BY <1>2, <2>1 DEF Changed, Data
<1>5. \A r \in Slots : Mine(r, u)' => r = s /\ Follows(tasks'[s], k, NoData)
  BY <1>2, NothingIsOwned, OwnHandlerGoesOn
<1>6. Orphans(u)' = Orphans(u)
  BY <1>2 DEF Orphans, storeVars
<1>7. HasItsData(u)'
  <2>1. fsm[u] = "confirming" => data'[u].subject # NoText
    BY <1>1, <1>4 DEF WaiterOK, HasItsData, TaskOfWaiter
  <2>2. fsm[u] = "entering_reply" => MayReply(data'[u].ticket_id, u)
    BY <1>1, <1>4 DEF WaiterOK, HasItsData
  <2> QED
    BY <1>2, <2>1, <2>2 DEF HasItsData, MayReply, Stored, storeVars
<1>8. IsWhereAsked(u)'
  BY <1>1, <1>2, <1>4 DEF WaiterOK, IsWhereAsked, TaskOfWaiter
<1>9. CopiesOK(u)'
  BY <1>1, <1>2, <1>3 DEF WaiterOK, CopiesOK, Hanging
<1>10. OrphansOK(u)'
  BY <1>2, <1>6 DEF WaiterOK, OrphansOK
<1>11. TasksOK(u)'
  <2> SUFFICES ASSUME NEW r \in Slots, Mine(r, u)' PROVE TaskOfWaiter(tasks[r], u)'
    BY DEF TasksOK
  <2>1. r = s /\ Follows(tasks'[r], k, NoData)
    BY <1>5
  <2> QED
    BY <1>1, <1>2, <1>3, <1>4, <2>1 DEF TaskOfWaiter, Follows, After, Stage
<1> QED
  BY <1>7, <1>8, <1>9, <1>10, <1>11 DEF WaiterOK

LEMMA OwnSetState ==
    ASSUME DialogInv, Patience, NEW u \in Patient, WaiterOK(u), NEW s \in Slots, Mine(s, u),
           SetState(s)
    PROVE  WaiterOK(u)'
<1> DEFINE k == tasks[s]
<1>1. /\ u \in Chatters /\ User(s) = u /\ TaskOfWaiter(k, u) /\ Stage(k) = "setState"
      /\ k.handler = "start_reply" => MayReply(k.ticket, u)
  BY OwnHandler DEF SetState
<1>2. k.handler \in {"choose_category", "enter_text", "start_reply"}
  BY <1>1, TaskOfUser, Programs DEF Stage
<1>3. /\ UNCHANGED <<storeVars, data, asked, spent, copies, faults>>
      /\ fsm'[u] = Target(k.handler)
      /\ tasks' = [tasks EXCEPT ![s] = Past(@, NoData)]
  BY <1>1 DEF SetState, Advance, DialogInv, DialogTypeOK
<1>4. /\ fsm'[u] = "confirming" => k.handler = "enter_text"
      /\ fsm'[u] = "entering_reply" => k.handler = "start_reply"
  BY <1>2, <1>3 DEF Target
<1>5. \A r \in Slots : Mine(r, u)' => r = s /\ Follows(tasks'[s], k, NoData)
  BY <1>3, NothingIsOwned, OwnHandlerGoesOn
<1>6. Orphans(u)' = Orphans(u)
  BY <1>3 DEF Orphans, storeVars
<1>7. HasItsData(u)'
  BY <1>1, <1>3, <1>4 DEF HasItsData, TaskOfWaiter, MayReply, Stored, storeVars
<1>8. IsWhereAsked(u)'
  BY <1>1, <1>3, <1>4 DEF IsWhereAsked, TaskOfWaiter
<1>9. CopiesOK(u)'
  BY <1>1, <1>3, <1>4 DEF WaiterOK, CopiesOK, Hanging, TaskOfWaiter
<1>10. OrphansOK(u)'
  BY <1>3, <1>6 DEF WaiterOK, OrphansOK
<1>11. TasksOK(u)'
  <2> SUFFICES ASSUME NEW r \in Slots, Mine(r, u)' PROVE TaskOfWaiter(tasks[r], u)'
    BY DEF TasksOK
  <2>1. r = s /\ Follows(tasks'[r], k, NoData)
    BY <1>5
  <2> QED
    BY <1>1, <1>3, <2>1 DEF TaskOfWaiter, Follows, After, Stage
<1> QED
  BY <1>7, <1>8, <1>9, <1>10, <1>11 DEF WaiterOK

LEMMA OwnClear ==
    ASSUME DialogInv, Patience, NEW u \in Patient, WaiterOK(u), NEW s \in Slots, Mine(s, u),
           ClearState(s) \/ ClearData(s)
    PROVE  WaiterOK(u)'
<1> DEFINE k == tasks[s]
<1>1. /\ u \in Chatters /\ User(s) = u /\ TaskOfWaiter(k, u)
      /\ ClearState(s) => Stage(k) = "clearState"
      /\ ClearData(s) => Stage(k) = "clearData"
  BY OwnHandler DEF ClearState, ClearData
<1>2. /\ UNCHANGED <<storeVars, asked, spent, copies, faults>>
      /\ fsm'[u] = "none"
      /\ tasks' = [tasks EXCEPT ![s] = Past(@, NoData)]
  BY <1>1 DEF ClearState, ClearData, Advance, TaskOfWaiter, DialogInv, DialogTypeOK
<1>3. \A r \in Slots : Mine(r, u)' => r = s /\ Follows(tasks'[s], k, NoData)
  BY <1>2, NothingIsOwned, OwnHandlerGoesOn
<1>4. Orphans(u)' = Orphans(u)
  BY <1>2 DEF Orphans, storeVars
<1>5. HasItsData(u)' /\ IsWhereAsked(u)'
  BY <1>2 DEF HasItsData, IsWhereAsked
<1>6. CopiesOK(u)' /\ OrphansOK(u)'
  BY <1>2, <1>4 DEF WaiterOK, CopiesOK, Hanging, OrphansOK
<1>7. TasksOK(u)'
  <2> SUFFICES ASSUME NEW r \in Slots, Mine(r, u)' PROVE TaskOfWaiter(tasks[r], u)'
    BY DEF TasksOK
  <2>1. r = s /\ Follows(tasks'[r], k, NoData)
    BY <1>3
  <2>2. Stage(k) \in {"clearState", "clearData"}
    BY <1>1
  <2> QED
    BY <1>1, <1>2, <2>1, <2>2 DEF TaskOfWaiter, Follows, After, Stage
<1> QED
  BY <1>5, <1>6, <1>7 DEF WaiterOK

LEMMA OwnCheck ==
    ASSUME DialogInv, Patience, NEW u \in Patient, WaiterOK(u), NEW s \in Slots, Mine(s, u),
           Check(s)
    PROVE  WaiterOK(u)'
<1> DEFINE k == tasks[s]
<1>1. /\ u \in Chatters /\ User(s) = u /\ TaskOfWaiter(k, u)
      /\ Stage(k) = "check" /\ k.handler = "start_reply"
      /\ spent[u] = TRUE /\ fsm[u] = "confirming" => Hanging(u)
      /\ ~ Choosing(u)
  BY OwnHandler DEF Check, Where
<1>2. UNCHANGED <<storeVars, fsm, data, spent, copies, faults>>
  BY DEF Check
<1>3. \/ /\ asked'[u] = k.ticket
         /\ tasks' = [tasks EXCEPT ![s] = Past(@, NoData)]
      \/ /\ asked'[u] = asked[u]
         /\ tasks' = [tasks EXCEPT ![s] = Idle]
  BY <1>1 DEF Check, Advance, Recorded, DialogInv, DialogTypeOK
<1>4. Orphans(u)' = Orphans(u)
  BY <1>2 DEF Orphans, storeVars
<1>5. HasItsData(u)'
  BY <1>2 DEF WaiterOK, HasItsData, MayReply, Stored, storeVars
<1>6. CopiesOK(u)' /\ OrphansOK(u)'
  BY <1>1, <1>2, <1>4 DEF WaiterOK, CopiesOK, Hanging, OrphansOK
<1>7. CASE asked'[u] = k.ticket /\ tasks' = [tasks EXCEPT ![s] = Past(@, NoData)]
  <2>1. /\ \A r \in Slots : Mine(r, u)' => r = s /\ Follows(tasks'[s], k, NoData)
        /\ Mine(s, u)'
    BY <1>1, <1>7, NothingIsOwned, OwnHandlerGoesOn
  <2>2. Choosing(u)'
    BY <1>1, <2>1 DEF Choosing, Follows, After, Stage
  <2>3. IsWhereAsked(u)'
    BY <2>2 DEF IsWhereAsked
  <2>4. TasksOK(u)'
    <3> SUFFICES ASSUME NEW r \in Slots, Mine(r, u)' PROVE TaskOfWaiter(tasks[r], u)'
      BY DEF TasksOK
    <3>1. r = s /\ Follows(tasks'[r], k, NoData)
      BY <2>1
    <3>2. k.handler \notin Replies
      BY <1>1 DEF Replies
    <3> QED
      BY <1>1, <1>2, <1>7, <3>1, <3>2 DEF TaskOfWaiter, Follows, After, Stage
  <2> QED
    BY <1>5, <1>6, <2>3, <2>4 DEF WaiterOK
<1>8. CASE asked'[u] = asked[u] /\ tasks' = [tasks EXCEPT ![s] = Idle]
  <2>1. /\ \A r \in Slots : r # s => tasks'[r] = tasks[r]
        /\ tasks'[s] = Idle
    BY <1>8 DEF DialogInv, DialogTypeOK
  <2>2. \A r \in Slots : ~ Mine(r, u)'
    BY <2>1, OnlyOne DEF Mine, Busy
  <2>3. IsWhereAsked(u)'
    BY <1>1, <1>2, <1>8 DEF WaiterOK, IsWhereAsked
  <2>4. TasksOK(u)'
    BY <2>2 DEF TasksOK
  <2> QED
    BY <1>5, <1>6, <2>3, <2>4 DEF WaiterOK
<1> QED
  BY <1>3, <1>7, <1>8

LEMMA OwnCreate ==
    ASSUME DialogInv, Patience, NEW u \in Patient, WaiterOK(u), NEW s \in Slots, Mine(s, u),
           Create(s)
    PROVE  WaiterOK(u)'
<1> DEFINE k == tasks[s]
<1>1. /\ u \in Chatters /\ u \in Users /\ User(s) = u /\ k \in Task /\ TaskOfWaiter(k, u)
      /\ Stage(k) = "create" /\ k.handler = "confirm_ticket"
      /\ spent[u] = TRUE /\ fsm[u] = "confirming" => Hanging(u)
      /\ ~ Choosing(u)
  BY OwnHandler DEF Create, Where
<1>2. fsm[u] = "confirming"
  BY <1>1 DEF TaskOfWaiter
<1>3. /\ UNCHANGED <<fsm, data, asked, faults>>
      /\ CreateTicket(u, k.read.subject)
      /\ tasks' = [tasks EXCEPT ![s] = Past(@, NoData)]
  BY <1>1 DEF Create, Advance
<1>4. /\ spent[u] = TRUE => copies'[u] = copies[u] + 1
      /\ spent[u] = FALSE => copies'[u] = copies[u]
      /\ spent[u] \in BOOLEAN
  <2>1. copies \in [Chatters -> Nat] /\ spent \in [Chatters -> BOOLEAN]
    BY DEF DialogInv, DialogTypeOK
  <2>2. copies' = IF spent[u] THEN Recorded(copies, u, copies[u] + 1) ELSE copies
    BY <1>1 DEF Create
  <2>3. CASE spent[u] = TRUE
    <3>1. copies' = [copies EXCEPT ![u] = copies[u] + 1]
      BY <2>2, <2>3 DEF Recorded
    <3> QED
      BY <1>1, <2>1, <2>3, <3>1
  <2>4. CASE spent[u] = FALSE
    BY <2>2, <2>4
  <2> QED
    BY <1>1, <2>1, <2>3, <2>4
<1>5. /\ \A r \in Slots : Mine(r, u)' => r = s /\ Follows(tasks'[s], k, NoData)
      /\ Mine(s, u)'
  BY <1>1, <1>3, NothingIsOwned, OwnHandlerGoesOn
<1>6. Stage(tasks[s])' = "clearState" /\ tasks'[s].handler = "confirm_ticket"
  BY <1>1, <1>5 DEF Follows, After, Stage
<1>7. Orphans(u)' = Orphans(u)
  BY <1>1, <1>3, NewTicketsAreNoOrphans DEF DialogInv, DialogTypeOK
<1>8. HasItsData(u)' /\ IsWhereAsked(u)'
  BY <1>2, <1>3 DEF WaiterOK, HasItsData, IsWhereAsked
<1>9. CopiesOK(u)'
  <2>1. faults \in Nat /\ copies[u] \in Nat /\ faults' = faults
    BY <1>3, Numbers
  <2>2. copies[u] <= faults /\ (spent[u] = TRUE => copies[u] < faults)
    BY <1>1, <1>2 DEF WaiterOK, CopiesOK
  <2>3. copies'[u] <= faults'
    BY <1>4, <2>1, <2>2
  <2>4. ~ Hanging(u)'
    BY <1>5, <1>6 DEF Hanging
  <2> QED
    BY <2>3, <2>4 DEF CopiesOK
<1>10. OrphansOK(u)'
  BY <1>3, <1>7 DEF WaiterOK, OrphansOK
<1>11. TasksOK(u)'
  <2> SUFFICES ASSUME NEW r \in Slots, Mine(r, u)' PROVE TaskOfWaiter(tasks[r], u)'
    BY DEF TasksOK
  <2>1. r = s
    BY <1>5
  <2> QED
    BY <1>6, <2>1 DEF TaskOfWaiter, Stage
<1> QED
  BY <1>8, <1>9, <1>10, <1>11 DEF WaiterOK

LEMMA OwnPost ==
    ASSUME DialogInv, Patience, NEW u \in Patient, WaiterOK(u), NEW s \in Slots, Mine(s, u),
           Post(s)
    PROVE  WaiterOK(u)'
<1> DEFINE k == tasks[s]
           t == k.read.ticket_id
<1>1. /\ u \in Chatters /\ u \in Users /\ User(s) = u /\ k \in Task /\ TaskOfWaiter(k, u)
      /\ Stage(k) = "post" /\ k.handler \in Replies
      /\ spent[u] = TRUE /\ fsm[u] = "confirming" => Hanging(u)
      /\ ~ Choosing(u)
  BY OwnHandler DEF Post, Where, Replies
<1>2. k.user = u /\ t \in MessageIds
  BY <1>1 DEF User, Task, Data
<1>3. /\ UNCHANGED <<fsm, data, asked, spent, copies, faults>>
      /\ \E x : AddMessage(t, u, "manager", x)
      /\ tasks' = [tasks EXCEPT ![s] = Past(@, NoData)]
  BY <1>2 DEF Post, Advance
<1>4. /\ t # 0 => Orphans(u)' = Orphans(u)
      /\ Cardinality(Orphans(u)') <= Cardinality(Orphans(u)) + 1
      /\ Cardinality(Orphans(u)') \in Nat
  <2>1. PICK x : InsertMessage(t, u, "manager", x)
    BY <1>3 DEF AddMessage
  <2> QED
    BY <1>1, <1>2, <2>1, MessageOrphans DEF DialogInv, DialogTypeOK
<1>5. \A r \in Slots : Mine(r, u)' => r = s /\ Follows(tasks'[s], k, NoData)
  BY <1>3, NothingIsOwned, OwnHandlerGoesOn
<1>6. StoreStep \/ UNCHANGED storeVars
  <2>1. Next
    BY DEF Next, Step
  <2> QED
    BY <2>1, DialogStoreStep DEF DialogInv
<1>7. HasItsData(u)'
  <2>1. StoreTypeOK
    BY DEF DialogInv, DialogTypeOK
  <2> QED
    BY <1>3, <1>6, <2>1, RightsLast DEF WaiterOK, HasItsData
<1>8. IsWhereAsked(u)'
  BY <1>1, <1>3 DEF WaiterOK, IsWhereAsked
<1>9. CopiesOK(u)'
  BY <1>1, <1>3 DEF WaiterOK, CopiesOK, Hanging
<1>10. OrphansOK(u)'
  <2>1. faults \in Nat /\ Cardinality(Orphans(u)) \in Nat /\ faults' = faults
    BY <1>3, Numbers
  <2>2. t = data[u].ticket_id
    BY <1>1 DEF TaskOfWaiter
  <2>3. CASE fsm[u] = "entering_reply"
    <3>1. t \in Stored
      BY <2>2, <2>3 DEF WaiterOK, HasItsData, MayReply
    <3>2. t # 0
      BY <3>1 DEF Stored
    <3> QED
      BY <1>3, <1>4, <3>2 DEF WaiterOK, OrphansOK
  <2>4. CASE Cardinality(Orphans(u)) < faults
    BY <1>4, <2>1, <2>4 DEF OrphansOK
  <2> QED
    BY <1>1, <2>3, <2>4 DEF TaskOfWaiter
<1>11. TasksOK(u)'
  <2> SUFFICES ASSUME NEW r \in Slots, Mine(r, u)' PROVE TaskOfWaiter(tasks[r], u)'
    BY DEF TasksOK
  <2>1. r = s /\ Follows(tasks'[r], k, NoData)
    BY <1>5
  <2>2. k.handler # "start_reply" /\ k.handler # "enter_text"
    BY <1>1 DEF Replies
  <2> QED
    BY <1>1, <2>1, <2>2 DEF TaskOfWaiter, Follows, After, Stage
<1> QED
  BY <1>7, <1>8, <1>9, <1>10, <1>11 DEF WaiterOK

LEMMA OwnSend ==
    ASSUME DialogInv, Patience, NEW u \in Patient, WaiterOK(u), NEW s \in Slots, Mine(s, u),
           Send(s)
    PROVE  WaiterOK(u)'
<1> DEFINE k == tasks[s]
<1>1. /\ TaskOfWaiter(k, u) /\ Stage(k) = "send"
      /\ spent[u] = TRUE /\ fsm[u] = "confirming" => Hanging(u)
      /\ ~ Choosing(u)
  BY OwnHandler DEF Send
<1>2. /\ UNCHANGED <<storeVars, fsm, data, asked, spent, copies, faults>>
      /\ tasks' = [tasks EXCEPT ![s] = Past(@, NoData)]
  BY DEF Send, Advance
<1>3. \A r \in Slots : Mine(r, u)' => r = s /\ Follows(tasks'[s], k, NoData)
  BY <1>2, NothingIsOwned, OwnHandlerGoesOn
<1>4. Orphans(u)' = Orphans(u)
  BY <1>2 DEF Orphans, storeVars
<1>5. HasItsData(u)'
  BY <1>2 DEF WaiterOK, HasItsData, MayReply, Stored, storeVars
<1>6. IsWhereAsked(u)' /\ CopiesOK(u)' /\ OrphansOK(u)'
  BY <1>1, <1>2, <1>4 DEF WaiterOK, IsWhereAsked, CopiesOK, Hanging, OrphansOK
<1>7. TasksOK(u)'
  <2> SUFFICES ASSUME NEW r \in Slots, Mine(r, u)' PROVE TaskOfWaiter(tasks[r], u)'
    BY DEF TasksOK
  <2>1. r = s /\ Follows(tasks'[r], k, NoData)
    BY <1>3
  <2> QED
    BY <1>1, <1>2, <2>1 DEF TaskOfWaiter, Follows, After, Stage
<1> QED
  BY <1>5, <1>6, <1>7 DEF WaiterOK

\* A handler run again has cost a fault, so it may leave one more orphan.
LEMMA OwnRetry ==
    ASSUME DialogInv, Patience, NEW u \in Patient, WaiterOK(u), NEW s \in Slots, Mine(s, u),
           Retry(s)
    PROVE  WaiterOK(u)'
<1> DEFINE k == tasks[s]
<1>1. /\ k \in Task /\ k.handler \in Handlers /\ TaskOfWaiter(k, u) /\ Stage(k) = "send"
      /\ k.handler \in OfMessages
  BY OwnHandler DEF Retry
<1>2. /\ UNCHANGED <<storeVars, fsm, data, asked, spent, copies>> /\ faults' = faults + 1
      /\ faults \in Nat /\ Cardinality(Orphans(u)) \in Nat /\ copies[u] \in Nat
  BY Numbers DEF Retry, Fault
<1>3. /\ \A r \in Slots : r # s => tasks'[r] = tasks[r]
      /\ tasks'[s].handler = k.handler /\ tasks'[s].text = k.text /\ tasks'[s].at = 1
  BY <1>1 DEF Retry, DialogInv, DialogTypeOK, Task
<1>4. \A r \in Slots : Mine(r, u)' => r = s
  BY <1>3, OnlyOne
<1>5. Orphans(u)' = Orphans(u) /\ Cardinality(Orphans(u)') = Cardinality(Orphans(u))
  BY <1>2 DEF Orphans, storeVars
<1>6. HasItsData(u)'
  BY <1>2 DEF WaiterOK, HasItsData, MayReply, Stored, storeVars
<1>7. IsWhereAsked(u)'
  BY <1>2 DEF IsWhereAsked
<1>8. CopiesOK(u)' /\ OrphansOK(u)'
  BY <1>2, <1>5 DEF WaiterOK, CopiesOK, OrphansOK
<1>9. Cardinality(Orphans(u)') < faults'
  BY <1>2, <1>5 DEF WaiterOK, OrphansOK
<1>10. Stage(tasks[s])' \in {"check", "getData", "clearState"}
  BY <1>1, <1>3, Order DEF Stage
<1>11. TasksOK(u)'
  <2> SUFFICES ASSUME NEW r \in Slots, Mine(r, u)' PROVE TaskOfWaiter(tasks[r], u)'
    BY DEF TasksOK
  <2>1. r = s
    BY <1>4
  <2>2. k.handler # "start_reply" /\ k.handler # "confirm_ticket"
    BY <1>1 DEF OfMessages
  <2> QED
    BY <1>1, <1>3, <1>9, <1>10, <2>1, <2>2 DEF TaskOfWaiter, Stage
<1> QED
  BY <1>6, <1>7, <1>8, <1>11 DEF WaiterOK

\* Every step of the waiting user's handler.
LEMMA OwnStep ==
    ASSUME DialogInv, Patience, NEW u \in Patient, WaiterOK(u), NEW s \in Slots, Mine(s, u),
           Step(s)
    PROVE  WaiterOK(u)'
<1>1. CASE Abort(s)
  <2>1. /\ \A r \in Slots : r # s => tasks'[r] = tasks[r]
        /\ tasks'[s] = Idle
    BY <1>1 DEF Abort, DialogInv, DialogTypeOK
  <2>2. \A r \in Slots : ~ Mine(r, u)'
    BY <2>1, OnlyOne DEF Mine, Busy
  <2> QED
    BY <1>1, <2>2, WaiterCutOff DEF Abort, Fault
<1> QED
  BY <1>1, OwnGetData, OwnSetData, OwnSetState, OwnClear, OwnCheck, OwnCreate, OwnPost,
     OwnSend, OwnRetry DEF Step

-----------------------------------------------------------------------------
(***************************************************************************)
(* The invariant, and the theorems.                                        *)
(***************************************************************************)

\* A step of a handler leaves the others where they are and hands it to nobody else.
LEMMA StepStays ==
    ASSUME DialogInv, NEW s \in Slots, Step(s)
    PROVE  /\ Busy(s)
           /\ \A r \in Slots : r # s => tasks'[r] = tasks[r]
           /\ \A v : Mine(s, v)' => Mine(s, v)
<1>1. Busy(s)
  BY DEF Step, GetData, SetData, SetState, ClearState, ClearData, Check, Create, Post, Send,
         Retry, Abort, At
<1>2. Mine(s, User(s)) /\ User(s) \in Chatters
  BY <1>1, TaskAtWork DEF Mine, DialogInv
<1>3. ASSUME NEW d \in Data, tasks' = [tasks EXCEPT ![s] = Past(@, d)]
      PROVE  /\ \A r \in Slots : r # s => tasks'[r] = tasks[r]
             /\ \A v : Mine(s, v)' => Mine(s, v)
  BY <1>2, <1>3, GoesOn
<1>4. CASE GetData(s)
  <2>1. data[User(s)] \in Data
    BY <1>2 DEF DialogInv, DialogTypeOK
  <2> QED
    BY <1>1, <1>3, <1>4, <2>1 DEF GetData
<1>5. CASE Advance(s)
  BY <1>1, <1>3, <1>5, NothingIsOwned DEF Advance
<1>6. CASE tasks' = [tasks EXCEPT ![s] = Idle]
  BY <1>1, <1>6 DEF DialogInv, DialogTypeOK, Mine, Busy
<1>7. CASE Retry(s)
  <2>1. tasks[s] \in Task
    BY <1>1, TaskAtWork DEF DialogInv
  <2>2. tasks'[s].user = tasks[s].user /\ \A r \in Slots : r # s => tasks'[r] = tasks[r]
    BY <1>7, <2>1 DEF Retry, DialogInv, DialogTypeOK, Task
  <2> QED
    BY <1>1, <2>2 DEF Mine, User
<1> QED
  BY <1>4, <1>5, <1>6, <1>7
  DEF Step, SetData, SetState, ClearState, ClearData, Check, Create, Post, Send, Abort

\* A step of another's handler touches nothing of u.
LEMMA OthersStep ==
    ASSUME DialogInv, NEW u \in Patient, WaiterOK(u), NEW s \in Slots, ~ Mine(s, u), Step(s)
    PROVE  WaiterOK(u)'
<1> DEFINE w == User(s)
<1>1. /\ Busy(s) /\ w # u
      /\ \A r \in Slots : Mine(r, u)' <=> Mine(r, u)
      /\ \A r \in Slots : Mine(r, u) => tasks'[r] = tasks[r]
  BY StepStays DEF Mine, Busy, User
<1>2. w \in Users /\ w \in Chatters /\ tasks[s] \in Task /\ DialogTypeOK /\ StoreTypeOK
  BY <1>1, TaskAtWork DEF DialogInv, DialogTypeOK
<1>3. StoreStep \/ UNCHANGED storeVars
  <2>1. Next
    BY DEF Next
  <2> QED
    BY <1>2, <2>1, DialogStoreStep
<1>4. ASSUME NEW S, NEW f \in [Chatters -> S], NEW v
      PROVE  [f EXCEPT ![User(s)] = v][u] = f[u] /\ Recorded(f, User(s), v)[u] = f[u]
  <2>1. u \in Chatters
    BY DialogAssumption
  <2> QED
    BY <1>1, <2>1 DEF Recorded
<1>5. /\ fsm'[u] = fsm[u] /\ data'[u] = data[u] /\ asked'[u] = asked[u]
      /\ spent'[u] = spent[u] /\ copies'[u] = copies[u]
  <2>1. /\ fsm \in [Chatters -> States] /\ data \in [Chatters -> Data]
        /\ asked \in [Chatters -> MessageIds] /\ spent \in [Chatters -> BOOLEAN]
        /\ copies \in [Chatters -> Nat]
    BY <1>2 DEF DialogTypeOK
  <2>2. CASE SetData(s)
    BY <1>4, <2>1, <2>2 DEF SetData
  <2>3. CASE SetState(s) \/ ClearState(s) \/ ClearData(s)
    <3>1. CASE SetState(s)
      BY <1>4, <2>1, <3>1 DEF SetState
    <3>2. CASE ClearState(s)
      BY <1>4, <2>1, <3>2 DEF ClearState
    <3>3. CASE ClearData(s)
      BY <1>4, <2>1, <3>3 DEF ClearData
    <3> QED
      BY <2>3, <3>1, <3>2, <3>3
  <2>4. CASE Check(s)
    BY <1>4, <2>1, <2>4 DEF Check
  <2>5. CASE Create(s)
    <3>1. /\ UNCHANGED <<fsm, data, asked>>
          /\ spent' = Recorded(spent, User(s), TRUE)
          /\ copies' \in {copies, Recorded(copies, User(s), copies[User(s)] + 1)}
      BY <2>5 DEF Create
    <3>2. copies'[u] = copies[u]
      BY <1>4, <2>1, <3>1
    <3>3. spent'[u] = spent[u]
      BY <1>4, <2>1, <3>1
    <3> QED
      BY <3>1, <3>2, <3>3
  <2>6. CASE GetData(s) \/ Post(s) \/ Send(s) \/ Retry(s) \/ Abort(s)
    BY <2>6 DEF GetData, Post, Send, Retry, Abort
  <2> QED
    BY <2>2, <2>3, <2>4, <2>5, <2>6 DEF Step
<1>6. faults' \in {faults, faults + 1}
  BY DEF Step, GetData, SetData, SetState, ClearState, ClearData, Check, Create, Post, Send,
         Retry, Abort, Fault
<1>7. Orphans(u)' = Orphans(u)
  <2>1. CASE UNCHANGED storeVars
    BY <2>1 DEF Orphans, storeVars
  <2>2. CASE Create(s)
    BY <1>2, <2>2, NewTicketsAreNoOrphans DEF Create
  <2>3. CASE Post(s)
    <3>1. tasks[s].user = w /\ tasks[s].read.ticket_id \in MessageIds
      BY <1>2 DEF User, Task, Data
    <3>2. \E x : InsertMessage(tasks[s].read.ticket_id, w, "manager", x)
      BY <2>3, <3>1 DEF Post, AddMessage
    <3> QED
      BY <1>1, <1>2, <3>1, <3>2, MessageOrphans
  <2> QED
    BY <2>1, <2>2, <2>3
    DEF Step, GetData, SetData, SetState, ClearState, ClearData, Check, Send, Retry, Abort
<1> QED
  BY <1>1, <1>3, <1>5, <1>6, <1>7, WaiterUntouched

\* An update of another touches nothing of u.
LEMMA OthersAct ==
    ASSUME DialogInv, NEW u \in Patient, WaiterOK(u),
           NEW w, w # u, NEW h, NEW x, NEW t, Dispatch(w, h, x, t)
    PROVE  WaiterOK(u)'
<1>1. PICK s \in Slots : /\ ~ Busy(s)
                         /\ tasks' = [tasks EXCEPT ![s] =
                                [user |-> w, handler |-> h, text |-> x, ticket |-> t,
                                 at |-> 1, try |-> 1, read |-> NoData]]
  BY DEF Dispatch
<1>2. /\ \A r \in Slots : r # s => tasks'[r] = tasks[r]
      /\ tasks'[s].user = w
  BY <1>1 DEF DialogInv, DialogTypeOK
<1>3. /\ \A r \in Slots : Mine(r, u)' <=> Mine(r, u)
      /\ \A r \in Slots : Mine(r, u) => tasks'[r] = tasks[r]
  BY <1>1, <1>2 DEF Mine, Busy, User
<1>4. UNCHANGED <<storeVars, fsm, data, asked, spent, copies, faults>>
  BY DEF Dispatch
<1>5. Orphans(u)' = Orphans(u)
  BY <1>4 DEF Orphans, storeVars
<1> QED
  BY <1>3, <1>4, <1>5, WaiterUntouched

\* A press or a message is an update that starts a handler.
LEMMA UpdatesStartHandlers ==
    ASSUME NEW w \in Chatters, Press(w) \/ Write(w)
    PROVE  \E h \in Handlers : \E x, t : /\ Dispatch(w, h, x, t)
                                         /\ h = "enter_text" => x # NoText
BY Programs DEF Press, Write

LEMMA WaiterStep ==
    ASSUME DialogInv, WaitingInv, Next, NEW u \in Patient
    PROVE  WaiterOK(u)'
<1>1. WaiterOK(u) /\ Patience
  BY DEF WaitingInv
<1>2. ASSUME NEW w \in Chatters, Press(w) \/ Write(w)
      PROVE  WaiterOK(u)'
  <2>1. PICK h \in Handlers : \E x, t : /\ Dispatch(w, h, x, t)
                                        /\ h = "enter_text" => x # NoText
    BY <1>2, UpdatesStartHandlers
  <2> QED
    BY <1>1, <2>1, WaiterActs, OthersAct
<1>3. ASSUME NEW s \in Slots, Step(s)
      PROVE  WaiterOK(u)'
  BY <1>1, <1>3, OwnStep, OthersStep
<1>4. CASE OthersOpen
  <2>1. PICK w \in Users : \E x : CreateTicket(w, x)
    BY <1>4 DEF OthersOpen
  <2>2. Orphans(u)' = Orphans(u)
    BY <2>1, NewTicketsAreNoOrphans DEF DialogInv, DialogTypeOK
  <2>3. StoreStep \/ UNCHANGED storeVars
    BY DialogStoreStep DEF DialogInv
  <2>4. UNCHANGED dialogVars
    BY <1>4 DEF OthersOpen
  <2>5. \A r \in Slots : (Mine(r, u)' <=> Mine(r, u)) /\ tasks'[r] = tasks[r]
    BY <2>4 DEF dialogVars, Mine, Busy, User
  <2> QED
    BY <1>1, <2>2, <2>3, <2>4, <2>5, WaiterUntouched DEF dialogVars
<1>5. CASE Crash
  <2>1. \A r \in Slots : ~ Mine(r, u)'
    BY <1>5 DEF Crash, Mine, Busy
  <2> QED
    BY <1>1, <1>5, <2>1, WaiterCutOff DEF Crash, Fault
<1> QED
  BY <1>2, <1>3, <1>4, <1>5 DEF Next

\* Who waits has one handler at work at most.
LEMMA PatienceStep ==
    ASSUME DialogInv, Patience, Next
    PROVE  Patience'
<1>1. ASSUME NEW w \in Chatters, Press(w) \/ Write(w)
      PROVE  Patience'
  <2>1. PICK h, x, t : Dispatch(w, h, x, t)
    BY <1>1, UpdatesStartHandlers
  <2>2. PICK s \in Slots : tasks' = [tasks EXCEPT ![s] =
                                [user |-> w, handler |-> h, text |-> x, ticket |-> t,
                                 at |-> 1, try |-> 1, read |-> NoData]]
    BY <2>1 DEF Dispatch
  <2>3. /\ \A r \in Slots : r # s => tasks'[r] = tasks[r]
        /\ tasks'[s].user = w
    BY <2>2 DEF DialogInv, DialogTypeOK
  <2>4. w \in Patient => \A r \in Slots : ~ Mine(r, w)
    BY <2>1 DEF Dispatch, MayAct, Mine, User
  <2>5. ASSUME NEW u \in Patient, NEW r \in Slots, Mine(r, u)'
        PROVE  IF u = w THEN r = s ELSE Mine(r, u)
    BY <2>3, <2>4, <2>5 DEF Mine, Busy, User
  <2> QED
    BY <2>5 DEF Patience
<1>2. ASSUME NEW s \in Slots, Step(s)
      PROVE  Patience'
  <2>1. ASSUME NEW u, NEW r \in Slots, Mine(r, u)'
        PROVE  Mine(r, u)
    BY <1>2, <2>1, StepStays DEF Mine, Busy, User
  <2> QED
    BY <2>1 DEF Patience
<1>3. CASE OthersOpen \/ Crash
  <2>1. ASSUME NEW u, NEW r \in Slots, Mine(r, u)'
        PROVE  Mine(r, u)
    BY <1>3, <2>1 DEF OthersOpen, Crash, dialogVars, Mine, Busy, User
  <2> QED
    BY <2>1 DEF Patience
<1> QED
  BY <1>1, <1>2, <1>3 DEF Next

LEMMA WaitingInvInit == Init => WaitingInv
<1> SUFFICES ASSUME Init PROVE WaitingInv
  OBVIOUS
<1>1. \A u : \A s \in Slots : ~ Mine(s, u)
  BY DEF Init, Mine, Busy
<1>2. faults = 0 /\ \A u \in Patient : copies[u] = 0 /\ spent[u] = FALSE /\ fsm[u] = "none"
  BY DialogAssumption DEF Init
<1>3. \A u : Orphans(u) = {}
  BY StoreAssumption DEF Init, StoreInit, Orphans, MessageIds
<1>4. \A u : Cardinality(Orphans(u)) = 0
  BY <1>3, FS_EmptySet
<1> QED
  BY <1>1, <1>2, <1>4 DEF WaitingInv, Patience, WaiterOK, HasItsData, IsWhereAsked, CopiesOK,
     Hanging, OrphansOK, TasksOK

\* A step that changes nothing.
LEMMA WaitingInvUnchanged ==
    ASSUME WaitingInv, UNCHANGED vars
    PROVE  WaitingInv'
<1>1. /\ \A u : Orphans(u)' = Orphans(u)
      /\ \A s, u : (Mine(s, u)' <=> Mine(s, u))
      /\ \A t, u : MayReply(t, u)' <=> MayReply(t, u)
  BY DEF vars, storeVars, dialogVars, Orphans, Mine, Busy, User, MayReply, Stored
<1>2. Patience'
  BY <1>1 DEF WaitingInv, Patience
<1>3. ASSUME NEW u \in Patient PROVE WaiterOK(u)'
  <2>1. WaiterOK(u)
    BY DEF WaitingInv
  <2>2. UNCHANGED <<fsm, data, tasks, asked, spent, copies, faults>>
    BY DEF vars, dialogVars
  <2>3. HasItsData(u)'
    BY <1>1, <2>1, <2>2 DEF WaiterOK, HasItsData
  <2>4. IsWhereAsked(u)'
    BY <1>1, <2>1, <2>2 DEF WaiterOK, IsWhereAsked, Choosing, Stage
  <2>5. CopiesOK(u)'
    BY <1>1, <2>1, <2>2 DEF WaiterOK, CopiesOK, Hanging, Stage
  <2>6. OrphansOK(u)'
    BY <1>1, <2>1, <2>2 DEF WaiterOK, OrphansOK
  <2>7. TasksOK(u)'
    BY <1>1, <2>1, <2>2 DEF WaiterOK, TasksOK, TaskOfWaiter, Stage
  <2> QED
    BY <2>3, <2>4, <2>5, <2>6, <2>7 DEF WaiterOK
<1> QED
  BY <1>2, <1>3 DEF WaitingInv

LEMMA WaitingInvariant == Spec => [](DialogInv /\ WaitingInv)
<1>1. Init => WaitingInv
  BY WaitingInvInit
<1>2. ASSUME DialogInv, WaitingInv, [Next]_vars
      PROVE  WaitingInv'
  <2>1. CASE Next
    BY <1>2, <2>1, WaiterStep, PatienceStep DEF WaitingInv
  <2>2. CASE UNCHANGED vars
    BY <1>2, <2>2, WaitingInvUnchanged
  <2> QED
    BY <1>2, <2>1, <2>2
<1> QED
  BY <1>1, <1>2, DialogInvariant, PTL DEF Spec

(***************************************************************************)
(* Who waits and is asked to confirm has described the problem, and who is *)
(* asked for a reply has chosen a ticket, whichever handlers failed, were  *)
(* run again or died between their awaits.                                 *)
(***************************************************************************)
THEOREM StatesHaveTheirData == Spec => []StateHasItsData
<1>1. WaitingInv => StateHasItsData
  BY DEF WaitingInv, WaiterOK, HasItsData, StateHasItsData
<1> QED
  BY <1>1, WaitingInvariant, PTL

\* A ticket that was not there opens with what its handler had read.
LEMMA OpensDescribed ==
    ASSUME DialogInv, StoreLogInv, WaitingInv, Next,
           NEW t \in Stored', t \notin Stored, tickets'[t].owner \in Patient
    PROVE  messages'[t][1].text # NoText
<1>1. DialogTypeOK /\ StoreTypeOK /\ lastId \in 0 .. MaxTickets
  BY DEF DialogInv, DialogTypeOK, StoreTypeOK
<1>2. ASSUME NEW w \in Users, NEW x \in Texts, CreateTicket(w, x)
      PROVE  tickets'[t].owner = w /\ messages'[t][1].text = x
  <2>1. t = lastId + 1 /\ t \in Ids /\ t \in MessageIds
    BY <1>1, <1>2, StoreAssumption DEF CreateTicket, Stored, Ids, MessageIds
  <2>2. messages[t] = <<>> /\ messages \in [MessageIds -> Seq(Row)] /\ tickets \in [Ids -> Ticket]
    BY <1>1, <2>1 DEF StoreLogInv, StoreTypeOK
  <2> QED
    BY <1>2, <2>1, <2>2 DEF CreateTicket, InsertMessage, NewTicket
<1>3. ASSUME NEW s \in Slots, Create(s)
      PROVE  messages'[t][1].text # NoText
  <2> DEFINE u == User(s)
  <2>1. u \in Users /\ tasks[s] \in Task /\ Mine(s, u)
    BY <1>1, <1>3, TaskAtWork DEF Create, At, Mine
  <2>2. CreateTicket(u, tasks[s].read.subject) /\ tasks[s].read.subject \in Texts
    BY <1>3, <2>1 DEF Create, Task, Data
  <2>3. tickets'[t].owner = u /\ messages'[t][1].text = tasks[s].read.subject
    BY <1>2, <2>1, <2>2
  <2>4. u \in Patient /\ WaiterOK(u) /\ Patience
    BY <2>3 DEF WaitingInv
  <2>5. /\ TaskOfWaiter(tasks[s], u) /\ Stage(tasks[s]) = "create"
        /\ tasks[s].handler = "confirm_ticket"
    BY <1>3, <2>1, <2>4, OwnHandler DEF Create, Where
  <2>6. tasks[s].read = data[u] /\ data[u].subject # NoText
    BY <2>4, <2>5 DEF TaskOfWaiter, WaiterOK, HasItsData
  <2> QED
    BY <2>3, <2>6
<1>4. ~ OthersOpen
  BY <1>2, DialogAssumption DEF OthersOpen
<1>5. lastId' # lastId
  BY DEF Stored
<1> QED
  BY <1>3, <1>4, <1>5
  DEF Next, Step, Press, Write, Dispatch, GetData, SetData, SetState, ClearState, ClearData, Check,
      Post, AddMessage, Send, Retry, Abort, Crash, storeVars

(***************************************************************************)
(* Whatever fails or dies on the way, no ticket of somebody who waits      *)
(* opens without a description: the draft a handler finds on confirmation  *)
(* is the one the state of the conversation stands for.                    *)
(***************************************************************************)
THEOREM TicketsOfWaitersAreDescribed == Spec => []WaitersDescribe
<1>1. Init => WaitersDescribe
  BY DEF Init, StoreInit, WaitersDescribe, Stored
<1>2. ASSUME DialogInv, WaitingInv, StoreInv, StoreLogInv, WaitersDescribe, [Next]_vars
      PROVE  WaitersDescribe'
  <2>1. CASE UNCHANGED storeVars
    BY <1>2, <2>1 DEF storeVars, WaitersDescribe, Stored
  <2>2. CASE Next /\ StoreNext
    <3> SUFFICES ASSUME NEW t \in Stored', tickets'[t].owner \in Patient
                 PROVE  messages'[t][1].text # NoText
      BY DEF WaitersDescribe
    <3>1. CASE t \in Stored
      BY <1>2, <2>2, <3>1, FirstWordsStay DEF WaitersDescribe
    <3>2. CASE t \notin Stored
      BY <1>2, <2>2, <3>2, OpensDescribed
    <3> QED
      BY <3>1, <3>2
  <2> QED
    BY <1>2, <2>1, <2>2, DialogServiceStep DEF vars
<1>3. Spec => [](StoreInv /\ StoreLogInv)
  BY DialogIsOnlyTheService, ServiceIsTheStore, StoreLogInvariant
<1> QED
  BY <1>1, <1>2, <1>3, WaitingInvariant, PTL DEF Spec

(***************************************************************************)
(* Without faults, the reply of somebody who waits is posted in the ticket *)
(* whose reply button was pressed last.                                    *)
(***************************************************************************)
THEOREM RepliesGoWhereAsked == Spec => []ReplyGoesWhereAsked
<1>1. ASSUME DialogInv, WaitingInv PROVE ReplyGoesWhereAsked
  <2> SUFFICES ASSUME NEW s \in Slots, At(s, "post"), User(s) \in Patient, faults = 0
               PROVE  tasks[s].read.ticket_id = asked[User(s)]
    BY DEF ReplyGoesWhereAsked
  <2> DEFINE u == User(s)
  <2>1. u \in Patient /\ Mine(s, u) /\ WaiterOK(u) /\ Patience
    BY <1>1 DEF At, Mine, WaitingInv
  <2>2. /\ TaskOfWaiter(tasks[s], u) /\ Stage(tasks[s]) = "post"
        /\ tasks[s].handler \in Replies /\ ~ Choosing(u)
    BY <1>1, <2>1, OwnHandler DEF Where, Replies
  <2>3. ~ (Cardinality(Orphans(u)) < faults)
    <3>1. Cardinality(Orphans(u)) \in Nat
      BY <1>1, Numbers
    <3> QED
      BY <3>1
  <2>4. tasks[s].read = data[u] /\ fsm[u] = "entering_reply"
    BY <2>2, <2>3 DEF TaskOfWaiter
  <2>5. data[u].ticket_id = asked[u]
    BY <2>1, <2>2, <2>4 DEF WaiterOK, IsWhereAsked
  <2> QED
    BY <2>4, <2>5
<1> QED
  BY <1>1, WaitingInvariant, PTL

(***************************************************************************)
(* A draft of somebody who waits becomes a second ticket only after a      *)
(* fault, once per fault at most.                                          *)
(***************************************************************************)
THEOREM DuplicatesAreFaults == Spec => []DuplicatesNeedAFault
<1>1. WaitingInv => DuplicatesNeedAFault
  BY DEF WaitingInv, WaiterOK, CopiesOK, DuplicatesNeedAFault
<1> QED
  BY <1>1, WaitingInvariant, PTL

(***************************************************************************)
(* A message of somebody who waits names no ticket only after its handler  *)
(* was run again, once per fault at most.                                  *)
(***************************************************************************)
THEOREM OrphansAreRetries == Spec => []OrphansNeedARetry
<1>1. WaitingInv => OrphansNeedARetry
  BY DEF WaitingInv, WaiterOK, OrphansOK, OrphansNeedARetry
<1> QED
  BY <1>1, WaitingInvariant, PTL
=============================================================================
