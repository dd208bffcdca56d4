------------------------------- MODULE Intake -------------------------------
(***************************************************************************)
(* The way of a message from Telegram to its handler, under polling: the   *)
(* polling loop started in src/bot.py, the order in which src/app.py       *)
(* includes the routers, ThrottlingMiddleware, RetryMiddleware, and the    *)
(* password login of src/admin/handlers.py at the end of it.               *)
(*                                                                         *)
(* Telegram keeps an update until a later request confirms it.  What the   *)
(* bot knows of it, when it last heard of a person, the attempts to log in *)
(* and who is logged in live in the process and are lost with it; the      *)
(* state of a conversation is in Redis and survives.                       *)
(*                                                                         *)
(* aiogram asks the filters first and runs the middlewares of messages     *)
(* after, for a message that has a handler: a message nobody handles is    *)
(* neither throttled nor remembered.  The filters need the state of the    *)
(* conversation: a message for which Redis does not answer is lost.        *)
(***************************************************************************)
EXTENDS Integers, Sequences, FiniteSets

CONSTANTS
    People,      \* everyone who writes to the bot
    Admins,      \* config.admin_ids
    Sendable,    \* the kinds of messages that people send
    Interval,    \* ThrottlingMiddleware's min_interval
    Limit,       \* wrong passwords AdminGate allows in its window
    MaxTries,    \* RetryMiddleware's max_retries
    ByButton,    \* the states in which the buttons of TicketDialog leave people
    MaxUpdates,  \* bound: messages ever sent
    MaxNow,      \* bound: the last instant of time
    MaxBack,     \* bound: how far the wall clock ever lags behind time
    MaxAhead,    \* bound: how far the wall clock is ever ahead of time
    MaxRestarts  \* bound: how often the process dies

\* /start; the buttons help and new ticket; the button my tickets; /send; the
\* buttons queue and my statistics; /admin; the buttons of the admin's menu; any
\* other text, which is the password or is not.
Kinds == {"start", "menu", "mine", "send", "queue", "admin", "panel", "right", "wrong"}

ASSUME IntakeAssumption ==
    /\ Admins \subseteq People
    /\ Sendable \subseteq Kinds
    /\ Interval \in Nat
    /\ Limit \in Nat
    /\ MaxTries \in Nat \ {0}
    /\ ByButton \subseteq {"none", "entering_text", "entering_reply"}
    /\ MaxUpdates \in Nat
    /\ MaxNow \in Nat
    /\ MaxBack \in Nat
    /\ MaxAhead \in Nat
    /\ MaxRestarts \in Nat

VARIABLES
    sent,      \* the messages sent, in order
    pending,   \* the updates Telegram has not seen confirmed
    up,        \* whether the process runs
    batch,     \* the updates fetched and not yet dispatched
    offset,    \* the last update fetched
    last,      \* when the throttle last let a message of each person pass
    attempts,  \* the wrong passwords AdminGate remembers of each person
    signedIn,  \* who has logged in
    tasks,     \* the handler at work on each update
    fsm,       \* the state of each person's conversation
    now,       \* time
    back,      \* how far the wall clock lags behind it, negative if it is ahead
    restarts,  \* how often the process has died
    since,     \* history: how many messages had been sent when it last started
    runs,      \* history: how often each update was given to a handler
    refused,   \* history: the updates no handler wanted or the throttle dropped
    lost,      \* history: the updates at whose dispatch Redis failed
    heard,     \* history: when a handler last began for each person
    guesses,   \* history: wrong passwords judged of each person in the window
    served     \* history: who has been shown the admin's panel

memory == <<batch, offset, last, attempts, signedIn, tasks, heard>>
history == <<since, runs, refused, lost, guesses, served>>
vars == <<sent, pending, up, fsm, now, back, restarts, memory, history>>

Updates == 1 .. MaxUpdates

\* The states that some handler sets; choosing_category and entering_note are
\* declared in src/core/fsm.py and never entered.
States == {"none", "entering_text", "confirming", "entering_reply", "waiting_password"}

-----------------------------------------------------------------------------
(***************************************************************************)
(* Routing.                                                                *)
(***************************************************************************)

Rule(handler, kinds, states) == [handler |-> handler, kinds |-> kinds, states |-> states]

\* The handlers of messages in the order of their registration: the router of
\* tickets, then that of the administrators.  help_menu stands for start_ticket as
\* well, manager_queue for my_stats, and panel for the four buttons of the panel.
Registered ==
    <<Rule("cmd_start",         {"start"}, States),
      Rule("help_menu",         {"menu"},  States),
      Rule("enter_text",        Kinds,     {"entering_text"}),
      Rule("my_tickets",        {"mine"},  States),
      Rule("send_canned_reply", {"send"},  {"entering_reply"}),
      Rule("send_reply",        Kinds,     {"entering_reply"}),
      Rule("manager_queue",     {"queue"}, States),
      Rule("cmd_admin",         {"admin"}, States),
      Rule("check_password",    Kinds,     {"waiting_password"}),
      Rule("panel",             {"panel"}, States)>>

Wants(i, kind, state) == kind \in Registered[i].kinds /\ state \in Registered[i].states

\* The handlers that are the first to want such a message: one or none.
Routes(kind, state) ==
    {Registered[i].handler : i \in {j \in DOMAIN Registered :
        /\ Wants(j, kind, state)
        /\ \A h \in 1 .. j - 1 : ~ Wants(h, kind, state)}}

Handlers == {Registered[i].handler : i \in DOMAIN Registered}

\* The state a handler leaves behind.
Target(h) ==
    CASE h = "enter_text" -> "confirming"
      [] h = "cmd_admin"  -> "waiting_password"
      [] h \in {"cmd_start", "send_canned_reply", "send_reply", "check_password"} -> "none"

\* Where a handler begins.
FirstStep(h) ==
    CASE h = "check_password" -> "judge"
      [] h = "panel"          -> "admit"
      [] h \in {"cmd_start", "enter_text", "send_canned_reply", "send_reply", "cmd_admin"}
                              -> "change"
      [] OTHER                -> "answer"

-----------------------------------------------------------------------------
Message == [user : People, kind : Sendable]

\* A handler at work on an update: at which step and attempt.
Task == [handler : Handlers \cup {"idle"},
         at : {"idle", "judge", "admit", "change", "answer"}, try : 1 .. MaxTries]

Idle == [handler |-> "idle", at |-> "idle", try |-> 1]

\* The wall clock of a person never heard of: 0.0, long ago.
Never == -(Interval + MaxBack)

Moment == [now : 0 .. MaxNow, back : -MaxAhead .. MaxBack, known : BOOLEAN]

Unheard == [now |-> 0, back |-> 0, known |-> FALSE]

IntakeTypeOK ==
    /\ sent \in Seq(Message) /\ Len(sent) <= MaxUpdates
    /\ pending \subseteq Updates
    /\ up \in BOOLEAN
    /\ batch \subseteq Updates
    /\ offset \in 0 .. MaxUpdates
    /\ last \in [People -> Int]
    /\ attempts \in [People -> Nat]
    /\ signedIn \subseteq People
    /\ tasks \in [Updates -> Task]
    /\ fsm \in [People -> States]
    /\ now \in 0 .. MaxNow
    /\ back \in -MaxAhead .. MaxBack
    /\ restarts \in 0 .. MaxRestarts
    /\ since \in 0 .. MaxUpdates
    /\ runs \in [Updates -> Nat]
    /\ refused \subseteq Updates
    /\ lost \subseteq Updates
    /\ heard \in [People -> Moment]
    /\ guesses \in [People -> Nat]
    /\ served \subseteq People

\* What a process starts with.
Forgotten ==
    /\ batch' = {}
    /\ offset' = 0
    /\ last' = [u \in People |-> Never]
    /\ attempts' = [u \in People |-> 0]
    /\ signedIn' = {}
    /\ tasks' = [i \in Updates |-> Idle]
    /\ heard' = [u \in People |-> Unheard]

\* The states of the conversations are what earlier processes left in Redis.
Init ==
    /\ sent = <<>>
    /\ pending = {}
    /\ up = TRUE
    /\ batch = {}
    /\ offset = 0
    /\ last = [u \in People |-> Never]
    /\ attempts = [u \in People |-> 0]
    /\ signedIn = {}
    /\ tasks = [i \in Updates |-> Idle]
    /\ fsm \in [People -> States]
    /\ now = 0
    /\ back = 0
    /\ restarts = 0
    /\ since = 0
    /\ runs = [i \in Updates |-> 0]
    /\ refused = {}
    /\ lost = {}
    /\ heard = [u \in People |-> Unheard]
    /\ guesses = [u \in People |-> 0]
    /\ served = {}

-----------------------------------------------------------------------------
(***************************************************************************)
(* The world.                                                              *)
(***************************************************************************)

Send(u, kind) ==
    /\ Len(sent) < MaxUpdates
    /\ sent' = Append(sent, [user |-> u, kind |-> kind])
    /\ pending' = pending \cup {Len(sent) + 1}
    /\ UNCHANGED <<up, fsm, now, back, restarts, memory, history>>

\* The buttons of TicketDialog move a conversation on; they are not throttled.
Converse(u) ==
    /\ up
    /\ \E state \in ByButton : fsm' = [fsm EXCEPT ![u] = state]
    /\ UNCHANGED <<sent, pending, up, now, back, restarts, memory, history>>

Tick ==
    /\ now < MaxNow
    /\ now' = now + 1
    /\ UNCHANGED <<sent, pending, up, fsm, back, restarts, memory, history>>

\* The wall clock is corrected, backwards or forwards.
StepBack ==
    /\ back < MaxBack
    /\ back' = back + 1
    /\ UNCHANGED <<sent, pending, up, fsm, now, restarts, memory, history>>

StepForward ==
    /\ back > -MaxAhead
    /\ back' = back - 1
    /\ UNCHANGED <<sent, pending, up, fsm, now, restarts, memory, history>>

\* A wrong password leaves the window, the oldest first; one from before the last
\* start is no longer remembered.
Expire(u) ==
    /\ guesses[u] > 0
    /\ guesses' = [guesses EXCEPT ![u] = @ - 1]
    /\ attempts' = [attempts EXCEPT ![u] = IF @ = guesses[u] THEN @ - 1 ELSE @]
    /\ UNCHANGED <<sent, pending, up, fsm, now, back, restarts,
                   batch, offset, last, signedIn, tasks, heard,
                   since, runs, refused, lost, served>>

Crash ==
    /\ up
    /\ restarts < MaxRestarts
    /\ restarts' = restarts + 1
    /\ up' = FALSE
    /\ Forgotten
    /\ UNCHANGED <<sent, pending, fsm, now, back, history>>

\* A bug to check against: the updates of the time before are left to be fetched.
BootKeepingPending ==
    /\ ~ up
    /\ up' = TRUE
    /\ since' = Len(sent)
    /\ UNCHANGED <<sent, pending, fsm, now, back, restarts, memory,
                   runs, refused, lost, guesses, served>>

\* _run_polling begins with delete_webhook(drop_pending_updates=True).
Boot ==
    /\ ~ up
    /\ up' = TRUE
    /\ pending' = {}
    /\ since' = Len(sent)
    /\ UNCHANGED <<sent, fsm, now, back, restarts, memory,
                   runs, refused, lost, guesses, served>>

-----------------------------------------------------------------------------
(***************************************************************************)
(* Polling and the middlewares.                                            *)
(***************************************************************************)

\* A bug to check against: only the last update is fetched, which confirms the others.
PollLastOnly ==
    /\ up
    /\ pending # {}
    /\ pending' = {i \in pending : i > offset /\ i = Len(sent)}
    /\ batch' = batch \cup pending'
    /\ offset' = Len(sent)
    /\ UNCHANGED <<sent, up, fsm, now, back, restarts,
                   last, attempts, signedIn, tasks, heard, history>>

\* getUpdates(offset): confirms what was fetched before and fetches the rest, without
\* waiting for the tasks of what was fetched before.
Poll ==
    /\ up
    /\ pending # {}
    /\ pending' = {i \in pending : i > offset}
    /\ batch' = batch \cup pending'
    /\ offset' = Len(sent)
    /\ UNCHANGED <<sent, up, fsm, now, back, restarts,
                   last, attempts, signedIn, tasks, heard, history>>

Wall == now - back

Sender(i) == sent[i].user

\* The handlers that want update i as its sender's conversation stands.
Wanted(i) == Routes(sent[i].kind, fsm[Sender(i)])

Drop(i) ==
    /\ refused' = refused \cup {i}
    /\ UNCHANGED <<last, heard, runs, tasks, lost>>

\* The read of the conversation's state from Redis fails: the update is given to no
\* handler, the error handler logs it, and a later request confirms it.
Misread(i) ==
    /\ lost' = lost \cup {i}
    /\ UNCHANGED <<last, heard, runs, tasks, refused>>

\* RetryMiddleware calls the handler.
Begin(i) ==
    /\ runs' = [runs EXCEPT ![i] = @ + 1]
    /\ heard' = [heard EXCEPT ![Sender(i)] = [now |-> now, back |-> back, known |-> TRUE]]
    /\ \E h \in Wanted(i) :
          tasks' = [tasks EXCEPT ![i] = [handler |-> h, at |-> FirstStep(h), try |-> 1]]
    /\ UNCHANGED <<refused, lost>>

\* A bug to check against: the time of a message is not taken down.
ThrottleForgetting(i) ==
    \/ Wall - last[Sender(i)] < Interval /\ Drop(i)
    \/ Wall - last[Sender(i)] >= Interval /\ Begin(i) /\ UNCHANGED last

\* ThrottlingMiddleware: reads and writes its dictionary without an await between.
Throttle(i) ==
    \/ Wall - last[Sender(i)] < Interval /\ Drop(i)
    \/ /\ Wall - last[Sender(i)] >= Interval
       /\ last' = [last EXCEPT ![Sender(i)] = Wall]
       /\ Begin(i)

\* Every update is a task of its own, so those of a batch come in any order.  The
\* filters are asked only when the state of the conversation has been read.
Dispatch(i) ==
    /\ i \in batch
    /\ batch' = batch \ {i}
    /\ \/ Misread(i)
       \/ Wanted(i) = {} /\ Drop(i)
       \/ Wanted(i) # {} /\ Throttle(i)
    /\ UNCHANGED <<sent, pending, up, fsm, now, back, restarts, offset, attempts, signedIn,
                   since, guesses, served>>

-----------------------------------------------------------------------------
(***************************************************************************)
(* The handlers.                                                           *)
(***************************************************************************)

At(i, step) == tasks[i].at = step

GoTo(i, step) == tasks' = [tasks EXCEPT ![i].at = step]

End(i) == tasks' = [tasks EXCEPT ![i] = Idle]

\* A bug to check against: the password is judged without asking is_throttled.
ThrottledNever(u) == FALSE

\* AdminGate.is_throttled
Throttled(u) == attempts[u] >= Limit

\* AdminGate.authorize: a wrong password is remembered, a right one lets in and
\* clears the attempts.  There is no await between is_throttled and it.
Judge(i) ==
    /\ At(i, "judge")
    /\ LET u == Sender(i)
       IN  CASE Throttled(u) ->
                   UNCHANGED <<attempts, guesses, signedIn>>
             [] ~ Throttled(u) /\ sent[i].kind = "right" ->
                   /\ attempts' = [attempts EXCEPT ![u] = 0]
                   /\ guesses' = [guesses EXCEPT ![u] = 0]
                   /\ signedIn' = signedIn \cup {u}
             [] OTHER ->
                   /\ attempts' = [attempts EXCEPT ![u] = @ + 1]
                   /\ guesses' = [guesses EXCEPT ![u] = @ + 1]
                   /\ UNCHANGED signedIn
    /\ GoTo(i, "change")
    /\ UNCHANGED <<sent, pending, up, fsm, now, back, restarts, batch, offset, last, heard,
                   since, runs, refused, lost, served>>

\* A bug to check against: the panel is shown to whoever asks for it.
AdmitAll(i) ==
    /\ At(i, "admit")
    /\ GoTo(i, "answer")
    /\ served' = served \cup {Sender(i)}
    /\ UNCHANGED <<sent, pending, up, fsm, now, back, restarts,
                   batch, offset, last, attempts, signedIn, heard,
                   since, runs, refused, lost, guesses>>

\* The handlers of the panel return in silence unless is_admin.
Admit(i) ==
    /\ At(i, "admit")
    /\ \/ /\ Sender(i) \in Admins \cup signedIn
          /\ GoTo(i, "answer")
          /\ served' = served \cup {Sender(i)}
       \/ /\ Sender(i) \notin Admins \cup signedIn
          /\ End(i)
          /\ UNCHANGED served
    /\ UNCHANGED <<sent, pending, up, fsm, now, back, restarts,
                   batch, offset, last, attempts, signedIn, heard,
                   since, runs, refused, lost, guesses>>

\* state.set_state or state.clear; for an answer to a ticket, after its row is written
\* (TicketDialog has what is written).
Change(i) ==
    /\ At(i, "change")
    /\ fsm' = [fsm EXCEPT ![Sender(i)] = Target(tasks[i].handler)]
    /\ GoTo(i, "answer")
    /\ UNCHANGED <<sent, pending, up, now, back, restarts,
                   batch, offset, last, attempts, signedIn, heard, history>>

\* A call to Redis or to the database fails: the error handler logs it.
Fail(i) ==
    /\ At(i, "change")
    /\ End(i)
    /\ UNCHANGED <<sent, pending, up, fsm, now, back, restarts,
                   batch, offset, last, attempts, signedIn, heard, history>>

\* The answer is sent, or fails for good: the handler has ended.
Answer(i) ==
    /\ At(i, "answer")
    /\ End(i)
    /\ UNCHANGED <<sent, pending, up, fsm, now, back, restarts,
                   batch, offset, last, attempts, signedIn, heard, history>>

\* A bug to check against: the attempts are not counted.
RetryForEver(i) ==
    /\ At(i, "answer")
    /\ GoTo(i, FirstStep(tasks[i].handler))
    /\ UNCHANGED <<sent, pending, up, fsm, now, back, restarts,
                   batch, offset, last, attempts, signedIn, heard, history>>

\* A bug to check against: the attempts are counted and not limited.
RetryUnlimited(i) ==
    /\ At(i, "answer")
    /\ tasks' = [tasks EXCEPT ![i].at = FirstStep(tasks[i].handler), ![i].try = @ + 1]
    /\ UNCHANGED <<sent, pending, up, fsm, now, back, restarts,
                   batch, offset, last, attempts, signedIn, heard, history>>

\* RetryMiddleware: after a transient Telegram error the handler begins again.
Retry(i) ==
    /\ At(i, "answer")
    /\ tasks[i].try < MaxTries
    /\ tasks' = [tasks EXCEPT ![i].at = FirstStep(tasks[i].handler), ![i].try = @ + 1]
    /\ UNCHANGED <<sent, pending, up, fsm, now, back, restarts,
                   batch, offset, last, attempts, signedIn, heard, history>>

Work(i) == Judge(i) \/ Admit(i) \/ Change(i) \/ Fail(i) \/ Answer(i) \/ Retry(i)

Next ==
    \/ \E u \in People, kind \in Sendable : Send(u, kind)
    \/ \E u \in People : Converse(u) \/ Expire(u)
    \/ Tick
    \/ StepBack
    \/ StepForward
    \/ Crash
    \/ Boot
    \/ Poll
    \/ \E i \in batch : Dispatch(i)
    \/ \E i \in Updates : Work(i)

Spec == Init /\ [][Next]_vars

\* The supervisor starts the process again, aiogram polls and runs its tasks, and
\* every call to Telegram or Redis ends, well or not.
FairSpec ==
    /\ Spec
    /\ WF_vars(Boot)
    /\ WF_vars(Poll)
    /\ WF_vars(\E i \in batch : Dispatch(i))
    /\ \A i \in Updates : WF_vars(Work(i))

-----------------------------------------------------------------------------
(***************************************************************************)
(* Properties.                                                             *)
(***************************************************************************)

Settled(i) == runs[i] > 0 \/ i \in refused

(***************************************************************************)
(* No update is given to a handler twice, though Telegram delivers what it *)
(* has not seen confirmed again: an update of a process that died before   *)
(* its next request is dropped at the start of the next one.               *)
(***************************************************************************)
HandledOnce == \A i \in Updates : runs[i] <= 1

(***************************************************************************)
(* What is sent to a process that runs is lost while it runs only to Redis *)
(* failing as its conversation is read: any other message is held by       *)
(* Telegram or the process until a handler, the throttle or the lack of a  *)
(* handler has settled it.                                                 *)
(***************************************************************************)
NothingIsLostWhileUp ==
    up => \A i \in (since + 1 .. Len(sent)) \ lost : i \in pending \cup batch \/ Settled(i)

\* What Telegram or the process holds and nothing has settled yet.
Waiting == {i \in (pending \cup batch) \ lost : ~ Settled(i)}

Delivery == INSTANCE DeliveryContract
    WITH Messages <- Updates, running <- up, count <- Len(sent),
         waiting <- Waiting, given <- runs, refused <- refused, lost <- lost

(***************************************************************************)
(* Polling, dispatching and throttling implement DeliveryContract: each    *)
(* message is given to a handler or refused, once, or lost to a failing    *)
(* read or with a process, and nothing comes back to what was lost, though *)
(* Telegram still holds what was fetched and not confirmed.                *)
(***************************************************************************)
DeliversAsPromised == Delivery!Spec

(***************************************************************************)
(* Wrong passwords of one person within the window are bounded, though     *)
(* handlers of that person overlap and RetryMiddleware repeats them: by    *)
(* the limit for each life of the process, which forgets them.             *)
(***************************************************************************)
GuessesAreBounded == \A u \in People : guesses[u] <= Limit * (restarts + 1)

\* The messages of a person that were given to a handler.
Heeded(u) == {i \in 1 .. Len(sent) : Sender(i) = u /\ runs[i] > 0}

(***************************************************************************)
(* A wrong password is counted once for each attempt at its message, no    *)
(* more: nobody is locked out by fewer messages than that.                 *)
(***************************************************************************)
GuessesComeFromMessages ==
    \A u \in People : guesses[u] <= MaxTries * Cardinality(Heeded(u))

(***************************************************************************)
(* Whoever is let into the panel is a configured administrator or has sent *)
(* the password in a message that was handled.                             *)
(***************************************************************************)
PanelNeedsThePassword ==
    \A u \in served \ Admins : \E i \in Heeded(u) : sent[i].kind = "right"

(***************************************************************************)
(* The throttle is fair: it drops a message some handler wants only if a   *)
(* handler began for that person less than the interval ago, and lets two  *)
(* pass only if they are the interval apart, both give or take what the    *)
(* wall clock was corrected by in between: only a clock set forward lets   *)
(* two pass too soon, only one set back drops for longer.  A dropped       *)
(* message does not put off the next.                                      *)
(***************************************************************************)
Past(u) == now - heard[u].now

Correction(u) == heard[u].back - back

ThrottleIsFair ==
    [][/\ \A i \in refused' \ refused :
              \/ Wanted(i) = {}
              \/ /\ heard[Sender(i)].known
                 /\ Past(Sender(i)) + Correction(Sender(i)) < Interval
       /\ \A i \in Updates :
              runs'[i] > runs[i] /\ heard[Sender(i)].known =>
                  Past(Sender(i)) + Correction(Sender(i)) >= Interval]_vars

(***************************************************************************)
(* Every message leaves: it is settled or lost, to a failing read or with  *)
(* the process, and the handler it was given to ends, however often        *)
(* Telegram fails it.                                                      *)
(***************************************************************************)
EveryMessageLeaves ==
    \A i \in Updates : i \in pending ~> i \notin pending \cup batch /\ tasks[i] = Idle
=============================================================================
