---------------------------- MODULE TicketDialog ----------------------------
(***************************************************************************)
(* The conversations of src/support/handlers.py: opening a ticket and      *)
(* writing in one.                                                         *)
(*                                                                         *)
(* A conversation's memory is a finite-state record per user, kept in      *)
(* Redis.  aiogram handles every update in a task of its own and the       *)
(* dispatcher isolates nothing, so two updates of one user interleave at   *)
(* every await.  A handler is written here as the sequence of its awaits   *)
(* that touch the memory, the database or Telegram; an action of the       *)
(* module is one such step of one task.  The filters see the state as it   *)
(* was when the update was dispatched.                                     *)
(*                                                                         *)
(* aiogram's update_data and clear are two calls to the storage each:      *)
(* get_data and set_data, set_state(None) and set_data({}).                *)
(***************************************************************************)
EXTENDS TicketStore

CONSTANTS
    NoText,    \* "", in Texts: what data.get gives for a missing text
    Slots,     \* bound: updates being handled at one time
    MaxTries,  \* RetryMiddleware's max_retries
    MaxFaults, \* bound: failed calls and crashes
    Chatters,  \* the users whose conversations are followed
    Patient    \* those of them who wait for the bot before they act again

ASSUME DialogAssumption ==
    /\ NoText \in Texts
    /\ MaxTries \in Nat \ {0}
    /\ MaxFaults \in Nat
    /\ Chatters \subseteq Users
    /\ Patient \subseteq Chatters

VARIABLES
    fsm,     \* the conversation state of each user
    data,    \* the conversation data of each user
    tasks,   \* the handlers at work
    asked,   \* history: the ticket a user who waits last asked to write in
    spent,   \* history: whether that user's current draft has become a ticket
    copies,  \* history: tickets that user got from a draft already spent
    faults   \* how many faults have happened

dialogVars == <<fsm, data, tasks, asked, spent, copies, faults>>
vars == <<storeVars, dialogVars>>

-----------------------------------------------------------------------------
(***************************************************************************)
(* The handlers, as the sequence of their awaits.  `send' stands for all   *)
(* the calls to Telegram at the end of a handler whose failure ends it.    *)
(* What enter_text reads back only to show it is left out.                 *)
(***************************************************************************)

\* Bugs to check against: the data is cleared before the state, or stored after it;
\* the conversation is not cleared; the choice of ticket is not stored; the
\* conversation is cleared too early.
cmd_start_data_first    == <<"clearData", "clearState", "send">>
enter_text_state_first  == <<"setState", "getData", "setData", "send">>
confirm_without_clear   == <<"getData", "create", "send">>
start_reply_unstored    == <<"check", "setState", "send">>
send_reply_clears_first == <<"clearState", "clearData", "getData", "post", "send">>

cmd_start         == <<"clearState", "clearData", "send">>
choose_category   == <<"getData", "setData", "setState", "send">>
enter_text        == <<"getData", "setData", "setState", "send">>
confirm_ticket    == <<"getData", "create", "clearState", "clearData", "send">>
cancel_ticket     == <<"clearState", "clearData", "send">>
start_reply       == <<"check", "getData", "setData", "setState", "send">>
use_canned        == <<"getData", "setData", "send">>
send_reply        == <<"getData", "post", "clearState", "clearData", "send">>
send_canned_reply == <<"getData", "post", "clearState", "clearData", "send">>

Program == [cmd_start         |-> cmd_start,
            choose_category   |-> choose_category,
            enter_text        |-> enter_text,
            confirm_ticket    |-> confirm_ticket,
            cancel_ticket     |-> cancel_ticket,
            start_reply       |-> start_reply,
            use_canned        |-> use_canned,
            send_reply        |-> send_reply,
            send_canned_reply |-> send_canned_reply]

Handlers == DOMAIN Program

\* Handlers of messages run inside RetryMiddleware; those of buttons do not.
OfMessages == {"cmd_start", "enter_text", "send_reply", "send_canned_reply"}

\* TicketCreate and TicketReply of src/core/fsm.py, and no state at all.
States == {"none", "entering_text", "confirming", "entering_reply"}

\* The state filter a handler is registered with.
Admits(h, state) ==
    CASE h = "enter_text"                            -> state = "entering_text"
      [] h = "confirm_ticket"                        -> state = "confirming"
      [] h \in {"send_reply", "send_canned_reply"}   -> state = "entering_reply"
      [] OTHER                                       -> TRUE

\* The state a handler moves to.
Target(h) ==
    CASE h = "choose_category" -> "entering_text"
      [] h = "enter_text"      -> "confirming"
      [] h = "start_reply"     -> "entering_reply"

\* The data: absent keys are told from present ones only by their defaults.
Data == [subject : Texts, ticket_id : MessageIds, canned_body : Texts]

NoData == [subject |-> NoText, ticket_id |-> 0, canned_body |-> NoText]

\* A handler at work: for whom, on what update, at which of its steps, at which
\* attempt, and the data it has read.
Task == [user : Chatters, handler : Handlers, text : Texts, ticket : MessageIds,
         at : 1 .. 5, try : 1 .. MaxTries, read : Data]

Idle == [handler |-> "idle"]

DialogTypeOK ==
    /\ StoreTypeOK
    /\ fsm \in [Chatters -> States]
    /\ data \in [Chatters -> Data]
    /\ tasks \in [Slots -> Task \cup {Idle}]
    /\ asked \in [Chatters -> MessageIds]
    /\ spent \in [Chatters -> BOOLEAN]
    /\ copies \in [Chatters -> Nat]
    /\ faults \in 0 .. MaxFaults

Init ==
    /\ StoreInit
    /\ fsm = [u \in Chatters |-> "none"]
    /\ data = [u \in Chatters |-> NoData]
    /\ tasks = [s \in Slots |-> Idle]
    /\ asked = [u \in Chatters |-> 0]
    /\ spent = [u \in Chatters |-> FALSE]
    /\ copies = [u \in Chatters |-> 0]
    /\ faults = 0

-----------------------------------------------------------------------------
(***************************************************************************)
(* Updates arrive.                                                         *)
(***************************************************************************)

Busy(s) == tasks[s] # Idle

MayAct(u) == u \in Patient => \A s \in Slots : Busy(s) => tasks[s].user # u

\* A task is started for the first handler whose filters admit the update.
Dispatch(u, h, text, ticket) ==
    /\ MayAct(u)
    /\ Admits(h, fsm[u])
    /\ \E s \in Slots :
          /\ ~ Busy(s)
          /\ tasks' = [tasks EXCEPT ![s] =
                 [user |-> u, handler |-> h, text |-> text, ticket |-> ticket,
                  at |-> 1, try |-> 1, read |-> NoData]]
    /\ UNCHANGED <<storeVars, fsm, data, asked, spent, copies, faults>>

\* Buttons stay in the chat, so any of them may be pressed at any time.
Press(u) ==
    \/ \E h \in {"choose_category", "confirm_ticket", "cancel_ticket"} :
          Dispatch(u, h, NoText, 0)
    \/ \E t \in Ids : Dispatch(u, "start_reply", NoText, t)
    \/ \E x \in Texts \ {NoText} : Dispatch(u, "use_canned", x, 0)

\* A message without text is "" to send_reply; enter_text answers it and returns.
Write(u) ==
    \/ \E h \in {"cmd_start", "send_canned_reply"} : Dispatch(u, h, NoText, 0)
    \/ \E x \in Texts \ {NoText} : Dispatch(u, "enter_text", x, 0)
    \/ \E x \in Texts : Dispatch(u, "send_reply", x, 0)

-----------------------------------------------------------------------------
(***************************************************************************)
(* The steps of the handlers.                                              *)
(***************************************************************************)

At(s, step) == Busy(s) /\ Program[tasks[s].handler][tasks[s].at] = step

User(s) == tasks[s].user

\* The task t past its current step, holding the data d for the next.
Past(t, d) == IF t.at = Len(Program[t.handler]) THEN Idle
              ELSE [t EXCEPT !.at = @ + 1, !.read = d]

\* No handler uses what it has read beyond the step after.
Advance(s) == tasks' = [tasks EXCEPT ![s] = Past(@, NoData)]

\* state.get_data, on its own or as the first half of update_data
GetData(s) ==
    /\ At(s, "getData")
    /\ tasks' = [tasks EXCEPT ![s] = Past(@, data[User(s)])]
    /\ UNCHANGED <<storeVars, fsm, data, asked, spent, copies, faults>>

\* The history is kept of the users who wait.
Recorded(history, u, value) ==
    IF u \in Patient THEN [history EXCEPT ![u] = value] ELSE history

\* The key a handler gives update_data; the category is not modelled.
Changed(t) ==
    CASE t.handler = "enter_text"  -> [t.read EXCEPT !.subject = t.text]
      [] t.handler = "start_reply" -> [t.read EXCEPT !.ticket_id = t.ticket]
      [] t.handler = "use_canned"  -> [t.read EXCEPT !.canned_body = t.text]
      [] OTHER                     -> t.read

\* storage.set_data, the second half of update_data
SetData(s) ==
    /\ At(s, "setData")
    /\ data' = [data EXCEPT ![User(s)] = Changed(tasks[s])]
    /\ spent' = IF tasks[s].handler = "enter_text"
                THEN Recorded(spent, User(s), FALSE)
                ELSE spent
    /\ Advance(s)
    /\ UNCHANGED <<storeVars, fsm, asked, copies, faults>>

SetState(s) ==
    /\ At(s, "setState")
    /\ fsm' = [fsm EXCEPT ![User(s)] = Target(tasks[s].handler)]
    /\ Advance(s)
    /\ UNCHANGED <<storeVars, data, asked, spent, copies, faults>>

\* state.clear: set_state(None), then set_data({})
ClearState(s) ==
    /\ At(s, "clearState")
    /\ fsm' = [fsm EXCEPT ![User(s)] = "none"]
    /\ Advance(s)
    /\ UNCHANGED <<storeVars, data, asked, spent, copies, faults>>

ClearData(s) ==
    /\ At(s, "clearData")
    /\ data' = [data EXCEPT ![User(s)] = NoData]
    /\ Advance(s)
    /\ UNCHANGED <<storeVars, fsm, asked, spent, copies, faults>>

\* Bugs to check against: only the existence of the ticket is asked for, or only
\* the ticket is compared with the user, which one that is not there passes.
MayReplyToAny(t, u) == t \in Stored
MayReplyUnlessOthers(t, u) == t \in Stored => tickets[t].owner = u \/ u \in Admins

MayReply(t, u) ==
    /\ t \in Stored
    /\ \/ tickets[t].owner = u
       \/ u \in Admins

\* start_reply reads the ticket and refuses what is not the user's to answer.
Check(s) ==
    /\ At(s, "check")
    /\ LET u == User(s)
           t == tasks[s].ticket
       IN  IF MayReply(t, u)
           THEN Advance(s) /\ asked' = Recorded(asked, u, t)
           ELSE tasks' = [tasks EXCEPT ![s] = Idle] /\ UNCHANGED asked
    /\ UNCHANGED <<storeVars, fsm, data, spent, copies, faults>>

\* confirm_ticket's insert: nothing looks at whether the draft is still there.
Create(s) ==
    /\ At(s, "create")
    /\ LET u == User(s)
       IN  /\ CreateTicket(u, tasks[s].read.subject)
           /\ copies' = IF spent[u] THEN Recorded(copies, u, copies[u] + 1) ELSE copies
           /\ spent' = Recorded(spent, u, TRUE)
    /\ Advance(s)
    /\ UNCHANGED <<fsm, data, asked, faults>>

\* The insert of send_reply and send_canned_reply, in the manager's role whoever writes.
Post(s) ==
    /\ At(s, "post")
    /\ LET t == tasks[s]
           body == IF t.handler = "send_reply" THEN t.text ELSE t.read.canned_body
       IN  AddMessage(t.read.ticket_id, t.user, "manager", body)
    /\ Advance(s)
    /\ UNCHANGED <<fsm, data, asked, spent, copies, faults>>

Send(s) ==
    /\ At(s, "send")
    /\ Advance(s)
    /\ UNCHANGED <<storeVars, fsm, data, asked, spent, copies, faults>>

Fault ==
    /\ faults < MaxFaults
    /\ faults' = faults + 1

\* RetryMiddleware runs the whole handler again after a transient Telegram error.
Retry(s) ==
    /\ At(s, "send")
    /\ tasks[s].handler \in OfMessages
    /\ tasks[s].try < MaxTries
    /\ Fault
    /\ tasks' = [tasks EXCEPT ![s].at = 1, ![s].try = @ + 1]
    /\ UNCHANGED <<storeVars, fsm, data, asked, spent, copies>>

\* Any call of a step may raise; the error handler only logs.
Abort(s) ==
    /\ Busy(s)
    /\ Fault
    /\ tasks' = [tasks EXCEPT ![s] = Idle]
    /\ UNCHANGED <<storeVars, fsm, data, asked, spent, copies>>

\* The process dies and starts again; the conversations are in Redis.
Crash ==
    /\ \E s \in Slots : Busy(s)
    /\ Fault
    /\ tasks' = [s \in Slots |-> Idle]
    /\ UNCHANGED <<storeVars, fsm, data, asked, spent, copies>>

\* A conversation is nobody else's: of the other users only the tickets matter.
OthersOpen ==
    /\ \E u \in Users \ Chatters, x \in Texts \ {NoText} : CreateTicket(u, x)
    /\ UNCHANGED dialogVars

Step(s) ==
    \/ GetData(s)
    \/ SetData(s)
    \/ SetState(s)
    \/ ClearState(s)
    \/ ClearData(s)
    \/ Check(s)
    \/ Create(s)
    \/ Post(s)
    \/ Send(s)
    \/ Retry(s)
    \/ Abort(s)

Next ==
    \/ \E u \in Chatters : Press(u) \/ Write(u)
    \/ OthersOpen
    \/ \E s \in Slots : Step(s)
    \/ Crash

Spec == Init /\ [][Next]_vars

-----------------------------------------------------------------------------
(***************************************************************************)
(* Properties.                                                             *)
(***************************************************************************)

(***************************************************************************)
(* Whatever overlaps, fails, is retried or crashes, a message in the       *)
(* manager's role is in a ticket of its sender or its sender is an         *)
(* administrator.  start_reply asks for it long before send_reply and      *)
(* send_canned_reply insert the row, and they do not ask again.            *)
(***************************************************************************)
ReplyAuthorised ==
    \A t \in Stored : \A i \in DOMAIN messages[t] :
        messages[t][i].role = "manager" =>
            messages[t][i].sender \in Admins \cup {tickets[t].owner}

(***************************************************************************)
(* Why it holds: an inductive invariant.                                   *)
(*                                                                         *)
(*   - a ticket id in a conversation's data, or in what a handler has read *)
(*     of it, is 0 or one that the user may write in: start_reply alone    *)
(*     stores one, after its check, and the owner of a ticket is final;    *)
(*   - a handler stands at a step of its program, and a start_reply past   *)
(*     its first step has passed the check;                                *)
(*   - no message waits under the id of a ticket yet to be opened.         *)
(***************************************************************************)
Owned(t, u) == t = 0 \/ MayReply(t, u)

MemoryInv == \A u \in Chatters : Owned(data[u].ticket_id, u)

TaskIsSound(k) ==
    /\ k.at <= Len(Program[k.handler])
    /\ Owned(k.read.ticket_id, k.user)
    /\ k.handler = "start_reply" /\ k.at > 1 => MayReply(k.ticket, k.user)

TaskInv == \A s \in Slots : Busy(s) => TaskIsSound(tasks[s])

LogInv == \A t \in Ids : t \notin Stored => messages[t] = <<>>

DialogInv ==
    /\ DialogTypeOK
    /\ MemoryInv
    /\ TaskInv
    /\ LogInv
    /\ ReplyAuthorised

(***************************************************************************)
(* For a user who waits, the state of the conversation never runs ahead of *)
(* its data: who is asked to confirm has described the problem, who is     *)
(* asked for a reply has chosen a ticket.  It survives failures between    *)
(* any two storage calls because data is written before the state and      *)
(* erased after it.                                                        *)
(***************************************************************************)
StateHasItsData ==
    \A u \in Patient :
        /\ fsm[u] = "confirming" => data[u].subject # NoText
        /\ fsm[u] = "entering_reply" => MayReply(data[u].ticket_id, u)

(***************************************************************************)
(* The ticket of a user who waits opens with a description, whichever call *)
(* failed or process died on the way to it: confirm_ticket finds in the    *)
(* data what enter_text put there before it moved the conversation on.     *)
(***************************************************************************)
WaitersDescribe ==
    \A t \in Stored : tickets[t].owner \in Patient => messages[t][1].text # NoText

(***************************************************************************)
(* Without faults, a user who waits gets every reply posted in the ticket  *)
(* whose reply button was pressed last.  It says nothing of a user who     *)
(* presses the button of another ticket while a reply is being handled:    *)
(* send_reply may then read the new choice and erase it.                   *)
(***************************************************************************)
ReplyGoesWhereAsked ==
    \A s \in Slots :
        At(s, "post") /\ User(s) \in Patient /\ faults = 0
            => tasks[s].read.ticket_id = asked[User(s)]

(***************************************************************************)
(* For a user who waits, a draft becomes a second ticket only after a      *)
(* fault, once per fault at most: between the insert and clear the draft   *)
(* is still there to be confirmed again.                                   *)
(***************************************************************************)
DuplicatesNeedAFault == \A u \in Patient : copies[u] <= faults

(***************************************************************************)
(* For a user who waits, a message is posted under the id 0, which is no   *)
(* ticket's, only by a handler that RetryMiddleware ran again, once per    *)
(* fault at most.                                                          *)
(***************************************************************************)
Orphans(u) == {i \in DOMAIN messages[0] : messages[0][i].sender = u}

OrphansNeedARetry == \A u \in Patient : Cardinality(Orphans(u)) <= faults

(***************************************************************************)
(* Every ticket opens with a description: enter_text refuses an empty one. *)
(* The code does not keep this when two presses of the confirm button      *)
(* overlap: the second reads the data after the first has cleared it.      *)
(***************************************************************************)
DescriptionIsGiven == \A t \in Stored : messages[t][1].text # NoText

(***************************************************************************)
(* Every message belongs to a ticket, as the foreign key of                *)
(* ticket_messages declares.  The code does not keep this when a reply's   *)
(* handler runs again after it has cleared the conversation.               *)
(***************************************************************************)
NoOrphans == messages[0] = <<>>
=============================================================================
