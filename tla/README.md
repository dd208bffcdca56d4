# A verification of BotKit Support

BotKit Support is a Telegram bot for customer support.  A client opens a ticket
in a conversation, a manager takes it, both write in it, it is closed and rated;
a background loop escalates the tickets whose deadline has passed.  It is one
Python process (aiogram 3 on asyncio) with an SQLite database for the tickets
and Redis for the memory of the conversations.

The modules here are written from the source.  Paths below are relative to the
repository: `src/support/service.py` is the file `PROJECT.json` names as
`src/src/support/service.py`.

## 1. Inventory

| Component | Source | State it keeps | Operations |
|---|---|---|---|
| Ticket database | `src/support/service.py`, `src/core/migrations.py`, `src/core/database.py` | tables `tickets`, `ticket_messages`, `feedback` | `create_ticket`, `take_ticket`, `add_message`, `close_ticket`, `escalate_ticket`, `add_feedback`, `add_ticket_note`, and queries |
| SLA loop | `src/sla/scheduler.py` | the snapshot it is walking through | poll, escalate, tell the client, tell the manager, sleep |
| Conversations | `src/support/handlers.py`, `src/core/fsm.py` | in Redis, per user: a state and a dictionary | open a ticket (category, text, confirm), reply (choose ticket, write or `/send`), cancel, `/start` |
| Ticket buttons | `src/support/handlers.py` | the buttons that stay in the chats | announce, take, skip, ask to close, close, rate, queue, lists |
| Admin panel | `src/admin/handlers.py`, `src/core/auth.py` | failed passwords (in botkit-core's `AdminGate`) | login, read-only pages |
| Update pipeline | `src/bot.py`, `src/app.py`, `src/core/errors.py`, `src/core/throttling.py` | updates fetched, time of each user's last message | poll, route, throttle, retry, log errors |
| Process | `src/bot.py`, `src/core/bot_factory.py` | tasks, servers, signal handlers | start under polling or webhook, shut down |
| Callback parsing | `src/core/callbacks.py` | none | `parse_callback_int` |
| Presentation | `texts.py`, `navigation.py`, `ui.py` | none | formatting |
| Observation | `metrics.py`, `logging.py`, `tracing.py`, `sentry.py`, `webhook.py` | counters | none that the tickets depend on |
| Configuration | `src/core/config.py` | constants | read at start-up |

**How they interact.**  Everything goes through the database and Redis; no
component calls another's internals.  aiogram starts a task per update; a task
passes the middlewares (messages: throttle, then retry), is routed by filters on
the user's conversation state *as it was at dispatch*, and runs a handler, which
awaits Redis, the database and Telegram in turn.  The SLA loop is one more task
of the process, started beside polling.  Nothing serialises two updates of one
user, a handler and the loop, or a handler and itself run again by the retry
middleware: every await is a place where the others run.  The database
operations are the only atomic steps, one `db.transaction()` each.

**What is hard, and what correct means.**

* *Database.*  `take_ticket` is conditional, `close_ticket` and `escalate_ticket`
  write the status without looking at it.  Correct: the status, manager and
  closing time of a row agree, the log tells the same story as the row, the
  deadline is moved only by what should move it, and a ticket's life follows
  `TicketContract` whatever the order of calls.
* *SLA loop.*  It acts on a snapshot, commits, and then sends; it may fail or die
  between any two of these.  Correct: each person is told once at most, the right
  person; what is escalated is overdue, or was when it was selected; a fault costs one
  notice at most; every breach is handled; and the clock runs in business hours (it does not).
* *Conversations.*  State and data are separate writes to Redis, check and use
  are messages apart, handlers run twice, overlap, fail and crash.  Correct: a
  reply is only ever stored in a ticket its writer may write in, the state never
  runs ahead of the data, faults do bounded damage.

* *Buttons.*  Managers press the same button at the same time; a handler speaks
  awaits after its transaction.  Correct: what people are told is true, whether they won or
  came late (the refusal is not always), the buttons shown lead nowhere forbidden, a fault
  keeps one new ticket from a manager at most, and whoever takes a ticket has a button to
  answer in it (he has none).
* *Pipeline and login.*  Updates of one person overlap and come in any order, the
  process dies, Redis fails before a handler is found, the wall clock is corrected back or
  forward, handlers are begun again.  Correct: no message is handled twice, or lost while the
  bot runs but to such a failing read; none is throttled without a reason nor passed too
  early, guesses at the password are bounded, and every message leaves.

`PROJECT.json` lists every hazard at its line, with the properties aimed at it.

## 2. Modules

| Module | Models | Extends |
|---|---|---|
| `TicketContract` | what the bot promises of a ticket's life (abstract) | |
| `DeliveryContract` | what the bot promises of the way of a message (abstract) | |
| `TicketStore` | the tables and every operation of the service, as atomic actions | |
| `SlaEscalation` | the SLA loop, its faults and restarts, beside the handlers | `TicketStore` |
| `TicketDialog` | the conversations, one action per await | `TicketStore` |
| `Desk` | the buttons: who is shown which, what a press does, whom it tells | `TicketStore` |
| `Intake` | the way of a message from Telegram to its handler, and the admin login | |
| `MCTicketStore`, `MCSlaEscalation`, `MCTicketDialog`, `MCDesk`, `MCIntake` | the instances TLC checks; `MCSlaEscalation` also says which hours are business hours | each its module |
| `TicketStore_proofs`, `SlaEscalation_proofs`, `TicketDialog_proofs`, `Desk_proofs`, `Intake_proofs` | the theorems about them | each its module and `TLAPS`; those that use the store, `StoreLog_proofs` |
| `StoreLog_proofs` | the theorems about the logs and deadlines of `TicketStore`; the others that use the store extend it | `TicketStore_proofs` |
| `DialogWaiting_proofs` | the theorems about users of `TicketDialog` who wait | `TicketDialog_proofs` |

**TicketStore.**  `tickets` maps an id to its row (owner, status, manager,
opening and closing time, deadline), with the filler `Absent` for ids not yet
given out; `lastId` is the AUTOINCREMENT counter; `messages` holds the rows of
`ticket_messages` by ticket, in insertion order; `feedback` is the set of rated
tickets; `now` is `datetime('now')`.  Category, subject and the rating's stars
are left out, as nothing depends on them; the subject lives on as the text of the
first message.  An operation that returns `False` or raises rolls back, so its
condition is the guard of the action.  `ticket_messages` also has room under the
id 0, which no ticket has: SQLite does not enforce the declared foreign key, and
one handler does insert there.  The configured windows are natural numbers (the
service formats a negative one into an offset SQLite rejects, which is not a
configuration the bot is run with).

**TicketContract** sees four things only: the owner, the assigned manager, the
tickets that have ended, and those rated.  `TicketStore!Contract` gives the
refinement mapping: the columns, and "`closed_at` is set" for ended.  The status
column is deliberately not part of it, since the loop may change that of an
ended ticket.  `SlaEscalation`, `TicketDialog` and `Desk` do to the tables what
`StoreSpec` allows and nothing else; `OnlyTheService` says so (it is `StoreSpec` with
the stutter tried first, for TLC's sake), and what holds of the store alone then holds
of each of them.

**DeliveryContract** sees which messages wait, how often each was given to a handler,
which were refused, which were lost, and whether there is a process.  A message leaves by being
given to a handler, refused, or lost (`Lose`), each once, or is forgotten in a restart.  For
`Intake` a message waits while Telegram keeps it or the process has fetched it, and nothing has
settled or lost it (`Waiting`);
polling, offsets and the order of dispatch are stutters of the contract.  That a
confirmed offset is never fetched again, and that a restart empties what waits, is
what the refinement has to show.

**SlaEscalation.**  `pc` walks through `poll`, `each`, `tellClient`,
`tellManager`, `sleep`; `off` is a process that never started the loop, `down` a
process that is not running.  `batch` is the rest of the snapshot, `cur` the
ticket in hand, `told` counts the notices that arrived.  The history variable `seen` keeps
how long the log of each ticket was when it was last selected, so that a property can ask
what has been written since.  `EscalateNext` is the
`UPDATE`; `TellClient` and `TellManager` are the sends, each of which may fail
and be only logged; `DatabaseFault` is the outer `except`, which drops the rest
of the snapshot; `Crash` may strike anywhere.  The handlers are the store's
operations under the conditions in which `handlers.py` calls them: anybody may
take, the owner and administrators may reply (in the manager's role, as the code
has it) and close, the owner may rate once the ticket has been closed.

**TicketDialog.**  Each handler is the sequence of its awaits (`cmd_start`,
`confirm_ticket`, ... are such sequences, `Program` collects them), and an action
performs the next await of one task.  aiogram's `update_data` is a read and a
write, `state.clear` is a write of the state and a write of the data; these are
the external part of the map.  `Dispatch` applies the state filters; `Retry` is
`RetryMiddleware` running a message handler again, `Abort` any other exception,
`Crash` the death of the process (the conversations survive in Redis).  Three
history variables let properties speak of the past: `asked` (the ticket last
chosen for a reply), `spent` (whether the current draft has become a ticket) and
`copies` (tickets made from a spent draft).  They are kept for users who wait.

*Users who wait.*  The constant `Patient` names the users who act only when the
bot has finished with their last action.  Most properties of a conversation need
this, and say so in their comments; what does not need it is checked without.

**Desk.**  `buttons` is what each person has ever been shown, `jobs` the handlers
at work, `told` the news that were sent of each ticket (`News`): who was told that it was
created, that it is his, that it is taken already, that it is closed, and how often its client
heard of a manager and was thanked.  A press needs a button the
presser was shown; since a press may be under way when `edit_text` takes the
keyboard off, and a list asked for twice shows a button twice, no button is ever
taken away.  An update and the first transaction of its handler are one action
(`Create`, `Take`, `Close`, `Rate`), because nothing before it can be seen; every
later await that touches the database or a chat is an action of its own.  A press of a take
button that `take_ticket` refuses goes to the place `late`, where it is answered
(`RefuseTake`).  A refused closing is no step: the buttons are shown to the owner only
(`OwnButtonsWork`), whom nothing refuses.  Nor is a second rating, which raises in the
transaction and answers nobody, nor a list asked for when it is empty.  The loop
of `confirm_ticket` over the managers has a `try` around each send (`Announce`), the
answer to the client and the query for the managers before it have none, so that failing
ends the handler before the loop (`Abort` at `confirm`, or at `announce` with all managers
still to come).  The lists are handlers of messages, which
`RetryMiddleware` begins again (`Retry`); presses are not retried, since only
`dp.message` has that middleware.  The loop's escalations appear as `Escalate`.
The conversation that a reply button opens is in `TicketDialog`.

**Intake.**  `pending` is what Telegram keeps, `batch` what polling has fetched,
`tasks` the handler at work on each update.  `Poll` confirms what was fetched before
by its offset and does not wait for the tasks; `Dispatch` reads the conversation's state from
Redis, and if that fails the update is gone (`Misread`, recorded in `lost`): the error is logged,
no handler sees it, and the next request confirms it.  Else it asks the filters
(`Registered` is the list of message handlers in the order in which `handlers.py` and
`app.py` register them) and only then the throttle, as aiogram runs inner
middlewares after the filters.  A handler is `judge` or `admit` (the part with
`AdminGate`), `change` (its calls to Redis), `answer` (its call to Telegram, after
which `Retry` may begin it again).  `last`, `attempts`, `signedIn`, `batch` and `tasks`
are lost in a `Crash`; `fsm` is in Redis and survives; `Boot` drops what is pending.
What is written in the database is left to `TicketDialog`.  The wall clock is `now -
back`, which `StepBack` sets back and `StepForward` forward; `back` is negative when the clock is
ahead.  The window of `AdminGate` is `Expire`, which
may come at any time.  History variables (`since`, `runs`, `refused`, `lost`, `heard`,
`guesses`, `served`) only serve the properties; `heard` holds the true time at which a
handler began for a person, to compare with the throttle's.

## 3. Runs

Passing:

| Run | Instance | Shows |
|---|---|---|
| `store` | 2 people, one an administrator; 2 tickets, 4 messages, clock 0..2 | types; `StatusTellsTheRow`, `LogTellsTheRow`, `DeadlineFollowsTheLog`, refinement of `TicketContract` |
| `sla` | the same, with 2 faults, under polling | `AddresseesAreCurrent`, `OneNotice`, `FaultsLoseOneNoticeEach`, `NoEarlyEscalation` and `OnlySnapshotsReopen` (action properties), the inductive invariant `SlaInv`, and the liveness property `BreachIsHandled`; no deadlock |
| `dialog` | a client who waits, a second person's tickets; 3 tickets, 5 messages, 2 updates at work, 2 faults, 3 attempts | `ReplyAuthorised`, `StateHasItsData`, `ReplyGoesWhereAsked`, `DuplicatesNeedAFault`, `OrphansNeedARetry`, `WaitersDescribe` |
| `dialog_overlap` | a client who does not wait; 2 tickets, 2 messages, 1 fault | `ReplyAuthorised` and its inductive invariant `DialogInv` under every overlap of two updates, and the refinement of the service (`OnlyTheService`) |
| `desk` | 2 people, each a client of the other, both managers and administrators; 2 tickets, 3 messages, 2 handlers at work, 1 fault | `NewsIsTrue`, `OwnButtonsWork`, `FaultsHideOneTicketEach`, the inductive invariant `DeskInv` |
| `intake` | one person who writes, 2 messages of which both may be at work; 3 wrong passwords, 2 attempts, 1 restart, the clock set forward and back, any read of a conversation's state failing | `HandledOnce`, `NothingIsLostWhileUp`, `GuessesAreBounded`, `GuessesComeFromMessages`, `PanelNeedsThePassword`, `ThrottleIsFair`, refinement of `DeliveryContract` (`DeliversAsPromised`), and the liveness property `EveryMessageLeaves` |

Violated, each a disagreement of the code with what it says of itself:

| Run | Property | What happens |
|---|---|---|
| `sla_stale_snapshot` | `ClosedStaysClosed` | the client closes a ticket that is waiting in the snapshot; the loop then escalates it |
| `sla_webhook` | `BreachIsHandled` | under the production transport nothing starts the loop |
| `sla_business_hours` | `CountsBusinessTime` | a ticket is opened before the only business hour, or after it, and is escalated when the window has passed on the wall clock |
| `dialog_impatient` | `DescriptionIsGiven` | two overlapping presses of the confirm button; the second opens a ticket with no description |
| `dialog_retried_reply` | `NoOrphans` | a reply whose acknowledgement fails is inserted again under the id 0 |
| `desk_refusal` | `RefusalNamesATaker` | the client closes a ticket that nobody took; a manager presses the take button of its announcement and is told that it is taken already |

The refinement of `TicketContract` and the agreement of the columns (`StatusTellsTheRow`) are
checked once, in `store`: whatever `SlaEscalation`, `TicketDialog` and `Desk` do to the tables is an
operation checked there (`OnlyTheService`, section 4).

**The SLA's clock.**  The repository's `README.md` says that elapsed time is measured "against
business hours rather than against wall-clock time alone" (line 28) and lists "SLA accounting with
business hours" (line 37).  The code has no business hours: `create_ticket` and `add_message` set
the deadline to `datetime('now', '+N ...')` and the query compares it with `datetime('now')`.
`DeadlineFollowsTheLog` and `NoEarlyEscalation` are about that deadline, the one the code sets;
`CountsBusinessTime` is the documented one, and is violated.  `NoEarlyEscalation` has
one exception, which the code has: a ticket that is overdue when the loop selects it, and is
answered before the loop comes to it, is escalated although its deadline lies ahead again, and its
client and manager are told that it is overdue ("просрочен", `scheduler.py:21,29`).

Disagreements that have no run of their own, being plain from the definitions:

* A client's reply is stored in the role `manager` (`handlers.py:199,214`; `Reply`) and moves the
  deadline, which the service and a test keep for the manager's answer (`service.py:110`,
  `tests/test_sla_due.py:50`, `assert after == before`).
* A manager who has taken a ticket is never shown a button to answer in it: by `OwnButtonsWork`,
  which is proved, only its client is, and `start_reply` would refuse the manager unless he is
  an administrator.  Yet the client is told "Менеджер поможет вам" (`handlers.py:324`) and
  promised his answer (`texts.py:92`).
* `send_reply` answers the writer that the reply has been sent (`reply_sent`, "Ответ менеджера ушёл
  клиенту", `texts.py:101`) but sends nothing to the client; its notice "Клиент ответил" also goes to a manager about his own message, if he
  is an administrator.
* A menu button or `/admin` pressed while a description is awaited becomes the description (the
  order of `Registered` shows it).
* "Timers are scheduled, not polled" (`README.md:38`), while the loop polls every minute.
* A second rating is not refused but raises in the handler, which answers nothing.

**Bounds.**  Two tickets are enough for a snapshot that holds one ticket while
another is in hand, and for the order in which ids are given out; a clock of
three instants lets a deadline be set, moved and passed, `ReplyWindow` (1) and
`CloseWindow` (2) being different.  Four messages let a ticket be opened, taken,
answered and closed, or closed twice, in one behaviour; the `sla` run was also
made with five.  Two faults let the process crash, restart, and lose one more
send.  In `dialog`, a duplicated draft and an orphaned reply need at most three
tickets and five messages, and two faults show that damage adds up and no faster
than the faults.  `MaxTickets`, `MaxRows`, `MaxNow`, `MaxFaults` and `Slots` bound
the state and stand for nothing in the code; `MaxTries` is `max_retries`.  The
dialogs and the desk do not look at the clock, so it stands still there.  The slots
of `TicketDialog` and `Desk`, and the people of `desk`, who have the same roles, are
interchangeable, hence the symmetry.  In `desk`, two tickets and a list of one
(`ListLimit`) make a list shorter than the queue; three messages let one ticket be
opened, taken and closed, or closed before anybody took it, or two be opened and one of them
taken, so that every answer of the desk is given.  One fault shows that a fault hides no
more than one ticket; that several hide no more than their number is the theorem
`FaultsHideLittle`.  In `intake`, two messages at work at the same time with two attempts each
judge a password four times, one more than the `Limit`.  The interval and the clock
are one instant each; the wall clock may be an instant ahead and come back to time, which is
enough for a message that is dropped for the clock alone, and for two that pass too soon by it
alone.  `MaxUpdates`, `MaxBack`, `MaxAhead` and `MaxRestarts` bound the state; `Interval` is
`min_interval`.  In `sla_business_hours` one of the two hours is a business hour.  In the runs that do not
check for deadlock the system may stop: people need not write, and the bounds
exhaust what they can do.

**Fairness.**  `FairSpec` asks that the loop takes a step when it can (a ready
task is run, a send returns or raises, a sleep ends) and that a dead process is
started again (`restart: always` in the compose files).  Nothing is asked of people, of the
clock, or of faults, which are finite in number.  An overdue ticket may be dropped
from a round by a failing database call or a crash, and is found by a later round.

`Intake!FairSpec` asks that a dead process is started again, that polling goes on and
runs its tasks (aiogram), and that a handler's calls to Redis and Telegram end, well
or not.  It does not ask for a call ever to succeed: `EveryMessageLeaves` holds with
Telegram failing each answer, because attempts are counted.  `Desk` has no liveness
property: every handler there is a straight line or a loop over a finite list, and
what it brings about may be lost to a fault.

**Mutants.**  The definitions marked "a bug to check against" replace a mapped
definition by a plausible wrong one; for every property of every passing run one
of them is listed in `PROJECT.json` and makes TLC find the property violated.

## 4. Proofs

TLAPS proves, for every number of users, tickets, rows, instants and faults:

* `StoreInvariant`: `StoreSpec => [](StoreTypeOK /\ StatusTellsTheRow)`.  The two
  are inductive together; one lemma for the types (`StoreStepType`), one for the
  columns (`StoreStepRows`), a step per operation.
* `StoreImplementsContract`: `StoreSpec => ImplementsContract`.  Each operation is
  a step of the contract or leaves it alone (`StoreStepContract`); the condition
  of `take_ticket` together with `StatusTellsTheRow` is what keeps an assignment
  final and never after the end.
* `SlaInvariant`: `Spec => []SlaInv`.  `SlaInv` adds to the store's invariant that
  no deadline lies before the first one (`DeadlineInv`), that a ticket in the snapshot is still
  overdue or has been answered since it was selected (`BreachInv`), that nobody has been told
  of a ticket that may still be selected (`NoticeInv`), and that the jobs waiting
  in the snapshot are as their rows were, unannounced, and other than the one in
  hand (`LoopInv`).  `OneNotice` alone is not inductive: it holds because an
  announced ticket is `escalated` or `closed`, and no operation leads from there
  back to `taken`; with a stale snapshot, it also needs that the ticket in hand is
  not in the rest of the snapshot.
* from it `SlaTypeCorrect`, `NobodyIsToldTwice`, `NoticesReachTheRightPeople`,
  and two action properties: `EscalationIsNeverEarly`, from `BreachInv`, which lasts because
  a deadline moves only with a line of a manager's in the log (`BreachLasts`), and
  `ShutUnlessInASnapshot`: a closed
  ticket that no snapshot holds stays closed and enters none.  It is the other side of the
  run `sla_stale_snapshot`: the stale snapshot is the only way in which the promise
  of a closed ticket is broken.
* **The three systems on the tables implement the service.**  `SlaIsOnlyTheService`,
  `DialogIsOnlyTheService` and `DeskIsOnlyTheService`: each step of the loop, of a
  conversation and of a press, faults included, is one operation of `TicketStore` or leaves
  the tables alone.  The delicate steps are those that act on what was read earlier: an id
  in a snapshot, in Redis or on a button is one of a ticket (`LoopInv`, `MemoryInv`,
  `DeskInv`), or 0.  By `ServiceIsTheStore` (`OnlyTheService <=> StoreSpec`) what is proved of the
  store once is then true of each system: the contract (`SlaImplementsContract`,
  `DialogImplementsContract`, `DeskImplementsContract`), the logs (`SlaLogsAreFaithful`,
  `DialogLogsAreFaithful`, `DeskLogsAreFaithful`) and the deadlines
  (`SlaDeadlinesFollowTheLog`, `DialogDeadlinesFollowTheLog`).
* `DialogInvariant`: `Spec => []DialogInv`, and from it `DialogTypeCorrect` and
  `RepliesAreAuthorised`.  `start_reply` checks the right to write in a ticket;
  `send_reply` uses the id it finds in Redis messages, failures and restarts later.
  `DialogInv` says why that is safe: every id in a conversation's data, or in what a
  handler has read of it, is 0 or a ticket its user may write in (`MemoryInv`,
  `TaskInv`), since `start_reply` alone stores one, after its check, and a right
  once held is never lost (`RightsLast`, from the finality of the owner); and a new
  ticket starts with an empty log (`LogInv`).

* `LogsAreFaithful` and `DeadlinesFollowTheLog`, for logs of any length.  The invariant
  `StoreLogInv` says the two of a ticket (`LogOK`, `DueOK`) without cardinalities: the line `taken` is at
  one place or at none.  A step appends at most one line to a log, so the proof has
  a lemma for each thing that can happen to a ticket (it idles, opens, speaks, is
  taken, is closed) and one that every operation does one of these to each ticket.
* `DeskInvariant`: `Spec => []DeskInv`, and from it `DeskTypeCorrect`, `NewsAreTrue` and
  `ButtonsWork`.  A handler past its transaction finds the row as it left it
  (`JobIsSound`), because an owner, an assignment, a closing time and a rating are
  final; and it is the only one to say of its ticket what is said once (`OneSpeaker`),
  because the condition of its transaction held for one of them only.  Who is refused finds
  the ticket taken or closed (`Gone`); for an escalated one this needs that only a ticket
  somebody has taken is escalated (`EscalatedWasTaken`).
* `UpdatesAreHandledOnce` and `MessagesAreKept`, from `UpdatesInv`: what is pending or
  in the batch has not been given to a handler (`NotYetGiven`), and what was sent since
  the start is accounted for, among the `lost` if its conversation could not be read.  Both hang on the offset: nothing beyond it has
  been fetched, nothing up to it is fetched again, and `Boot` empties `pending` when the
  process has forgotten it.
* `DeliveryIsAsPromised`: `Intake` implements `DeliveryContract`.  A
  message may be in the batch and, unconfirmed, still at Telegram; settling it takes it out
  of `Waiting` from both at once, and by `UpdatesInv` what is or would be fetched has not been
  settled.  `PlacesInv` adds that it has not been refused or lost, and that a process holds nothing
  from before its start.
* `ThrottleFairness`, from `ClockInv`: the throttle's time of a person is the wall clock
  at the moment a handler last began for him, so the time it finds gone by is the true time
  since and what the clock was corrected by (`Correction`), in either direction.
* `WrongPasswordsAreBounded` and `PanelIsGuarded`, from `TallyInv` (what the gate has
  forgotten is at most the limit for each restart) and from `TasksInv` and `DoorInv` (a
  handler that judges works on a message that was handled); and `IntakeTypeCorrect`.
* `StatesHaveTheirData`, `RepliesGoWhereAsked`, `DuplicatesAreFaults` and
  `OrphansAreRetries`, from `WaitingInv`.  A user who waits has one handler at work at
  most (`Patience`), and the invariant says of the step it stands at what it has read
  and what it will still write (`TaskOfWaiter`); for example, past its read it holds the
  stored data, for nobody else writes them.
  `TicketsOfWaitersAreDescribed` needs it at `create`, where the handler of a waiter holds
  the description it is about to insert (`OpensDescribed`); what a log opens with never changes
  (`FirstWordsStay`).  A lemma for each kind of step of that handler, one for
  the steps of all others (`WaiterUntouched`), which need not wait at all.
* Four of the properties compare the size of a set with a counter of faults or of tries.
  Each proof names a set that covers what may still be lost and shows that a step adds
  at most one element (`OneElementMore`), and only together with the counter:
  `FaultsLoseLittle` the tickets of whose escalation the client, or the manager, will not hear; `FaultsHideLittle`
  the tickets a manager was not told of and nobody owes him any more (`Lost`, `Owes`);
  `OrphansAreRetries` the messages under the id 0; `GuessesAreMessages` the pairs of a message
  and a try that is past its judgement (`TriesInv`).  A retry is the delicate step: the
  handler may do again what it has done, and the counter has already paid for it.

In all of these the users, the handlers or tasks at work, the tickets, restarts and
faults are any number.

The environment of `SlaEscalation` and the faults are covered by two frame lemmas
(`HandlersFrame`, `OthersFrame`), which say once what the loop may rely on.  The
assumptions are `StoreAssumption`, `SlaAssumption` and `DialogAssumption`: windows
and bounds are natural numbers, administrators are users, `NoUser` is nobody, the
empty text is a text, a handler is tried at least once; those of `Desk` and `Intake`
(`DeskAssumption`, `IntakeAssumption`) say the same of their constants.

Every invariant, action property and refinement of the passing runs is stated by one of these theorems.  Only
model-checked: `BreachIsHandled` and `EveryMessageLeaves`, since liveness is out of the
prover's reach, and of course the counterexamples.

## 5. Not modelled

* *The webhook's way of an update.*  `Intake` is the polling transport.  Under the webhook,
  Telegram delivers to an HTTP server that aiogram provides, and what is acknowledged
  when is that library's affair; the handlers and middlewares behind it are the same.
  That the SLA loop is not started there is in `SlaEscalation`.
* *Shutdown* and the registration of the webhook.  Whether `_run_polling` comes to its end
  depends on the signal handlers aiogram installs; nothing it releases outlives the process,
  and the models let the process die at any point.
* *Callback parsing* (`parse_callback_int`): a pure check of characters whose body is its
  own shortest specification.  The models begin with a parsed id; one that fails to parse
  changes nothing.  (`rate_ticket` parses with `int` and raises instead, which is an
  `Abort` before anything has happened.)
* *A conversation that cannot be read* when an update is dispatched is `Misread` in `Intake`;
  in `TicketDialog` and `Desk` such an update begins no handler, so there it is no step.
* *The text of cards and lists* is not among what `Desk` records as told; the sentences
  that report a creation, an assignment, a refusal, a closing or a rating are.
* *Which of two tickets an impatient client's reply goes to.*  Pressing another ticket's reply
  button while `send_reply` is at work changes the id it is about to read, or loses the new choice.
  The overlap is in the model, and `ReplyAuthorised` holds under it; `ReplyGoesWhereAsked` is
  about a client who waits, as no promise of the code covers the other.
* *A clock of the database that is set back.*  `now` of the tables never decreases; it may advance by
  any amount.  The throttle's clock is corrected both ways in `Intake`.
* *Replies that carry no text*: `enter_text` answers a message without text and changes
  nothing; in `Intake` every message has one.
* *Which ten tickets a list shows*: `UpToLimit` is any of them, since the order is by the time
  of opening with a second's resolution.
* Texts and cards, settings storage (a table no handler uses), configuration (its values
  are the constants), metrics, logging, tracing, Sentry, health checks, scripts, CI: they
  keep no state that the tickets or the conversations depend on.
* SQLite and Redis themselves: a transaction is atomic and durable, a call to
  Redis is atomic.  Telegram: a send arrives or fails (one that fails may have
  arrived; nothing in the bot can tell).  `AdminGate` and aiogram are modelled from
  their use in `src/` and marked external in `PROJECT.json`.

## 6. What remains

The modules were written in the order in which the rest depends on them: `TicketContract`,
`TicketStore`, `SlaEscalation`, `TicketDialog`, `Desk`, `Intake`.  What would extend them:

1. `Desk` and `TicketDialog` composed on the same store, should the bot be given a button
   with which a manager answers: only then does a press of the one lead to the other for
   anybody but the owner;
2. the texts, menus and cards, should a property ever be about what a card shows.
