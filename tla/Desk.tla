-------------------------------- MODULE Desk --------------------------------
(***************************************************************************)
(* The buttons of src/support/handlers.py: who is shown which button, what *)
(* pressing it does, and whom it tells.                                    *)
(*                                                                         *)
(* A new ticket is announced to the managers with a button to take it;     *)
(* lists put buttons into the chat of whoever asks for them; closing a     *)
(* ticket leads to a button that rates it.  Every press is handled by a    *)
(* task of its own, which awaits the database and Telegram in turn, so     *)
(* the handlers of many people interleave at the actions below.            *)
(*                                                                         *)
(* An action is one await that touches the database, the chats or what     *)
(* people know.  Until its first transaction a handler has done nothing    *)
(* that anybody could see, so the arrival of an update and that            *)
(* transaction are one action.                                             *)
(*                                                                         *)
(* edit_text takes the buttons off the message it edits.  But a press may  *)
(* already be under way, a list asked for twice shows the same button      *)
(* twice, and an edit may fail: no button is ever taken away here.         *)
(***************************************************************************)
EXTENDS TicketStore

CONSTANTS
    Staff,      \* the active rows of table managers, which no code writes
    Slots,      \* bound: handlers at work at one time
    ListLimit,  \* how many tickets a list shows
    MaxTries,   \* RetryMiddleware's max_retries
    MaxFaults   \* bound: failed sends, failed handlers and handlers killed

ASSUME DeskAssumption ==
    /\ Staff \subseteq Users
    /\ IsFiniteSet(Slots)
    /\ ListLimit \in Nat
    /\ MaxTries \in Nat \ {0}
    /\ MaxFaults \in Nat

VARIABLES
    buttons,  \* the buttons each person has been shown
    jobs,     \* the handlers at work
    told,     \* what people have been told about each ticket
    faults    \* how many faults have happened

deskVars == <<buttons, jobs, told, faults>>
vars == <<storeVars, deskVars>>

\* `skip' and `no' only acknowledge, and `reply' opens the conversation of
\* TicketDialog.
Kinds == {"take", "reply", "close", "yes", "rate"}

Button == [kind : Kinds, ticket : Ids]

\* The places where a handler awaits, named for what it does next.
Places == {"idle",
           "confirm", "announce",    \* confirm_ticket
           "taken", "greet", "late", \* take_ticket_handler
           "closed", "prompt",       \* confirm_close
           "thank",                  \* rate_ticket
           "cardsOwn", "cardsNew"}   \* my_tickets, manager_queue

\* A handler: whose update it handles, on which ticket, where it stands, at which
\* attempt, and the managers or cards its loop has yet to come to.
Job == [user : Users \cup {NoUser}, ticket : MessageIds, at : Places,
        try : 1 .. MaxTries, whom : SUBSET Users, cards : SUBSET Ids]

Idle == [user |-> NoUser, ticket |-> 0, at |-> "idle",
         try |-> 1, whom |-> {}, cards |-> {}]

\* Who has been told that the ticket was created, that it is his, that it is taken
\* already and that it is closed; how often its client has been told of a manager
\* and thanked for a rating.
News == [created : SUBSET Users, winners : SUBSET Users, late : SUBSET Users,
         closed : SUBSET Users, greeted : Nat, thanked : Nat]

NoNews == [created |-> {}, winners |-> {}, late |-> {}, closed |-> {},
           greeted |-> 0, thanked |-> 0]

DeskTypeOK ==
    /\ StoreTypeOK
    /\ buttons \in [Users -> SUBSET Button]
    /\ jobs \in [Slots -> Job]
    /\ told \in [Ids -> News]
    /\ faults \in 0 .. MaxFaults

Init ==
    /\ StoreInit
    /\ buttons = [u \in Users |-> {}]
    /\ jobs = [s \in Slots |-> Idle]
    /\ told = [t \in Ids |-> NoNews]
    /\ faults = 0

-----------------------------------------------------------------------------
(***************************************************************************)
(* An update arrives, and its handler comes to its first transaction.      *)
(***************************************************************************)

Fault ==
    /\ faults < MaxFaults
    /\ faults' = faults + 1

\* A handler for u that has come to its first place of rest.
Started(u, place, t, cards) ==
    [user |-> u, ticket |-> t, at |-> place, try |-> 1, whom |-> {}, cards |-> cards]

Start(u, place, t, cards) ==
    \E s \in Slots :
        /\ jobs[s] = Idle
        /\ jobs' = [jobs EXCEPT ![s] = Started(u, place, t, cards)]

Show(u, shown) == buttons' = [buttons EXCEPT ![u] = @ \cup shown]

On(kind, t) == [kind |-> kind, ticket |-> t]

Has(u, kind, t) == On(kind, t) \in buttons[u]

\* confirm_ticket; its button belongs to the conversation of TicketDialog.
Create(u) ==
    /\ \E x \in Texts : CreateTicket(u, x)
    /\ Start(u, "confirm", lastId + 1, {})
    /\ UNCHANGED <<buttons, told, faults>>

\* A bug to check against: the result of take_ticket is not looked at.
TakeUnasked(u) ==
    /\ \E t \in Ids :
          /\ Has(u, "take", t)
          /\ Start(u, "taken", t, {})
          /\ IF CanTake(t) THEN TakeTicket(t, u) ELSE UNCHANGED storeVars
    /\ UNCHANGED <<buttons, told, faults>>

\* take_ticket_handler: whoever the database refuses is answered that the ticket is
\* taken already, whatever has become of it.
Take(u) ==
    /\ \E t \in Ids :
          /\ Has(u, "take", t)
          /\ \/ Start(u, "taken", t, {}) /\ TakeTicket(t, u)
             \/ Start(u, "late", t, {}) /\ ~ CanTake(t) /\ UNCHANGED storeVars
    /\ UNCHANGED <<buttons, told, faults>>

\* close_ticket_handler: nothing is looked up, the question is put to whoever
\* pressed the button.
AskToClose(u) ==
    /\ \E t \in Ids : Has(u, "close", t) /\ Show(u, {On("yes", t)})
    /\ UNCHANGED <<storeVars, jobs, told, faults>>

\* confirm_close; by OwnButtonsWork nobody who has the button is refused.
Close(u) ==
    /\ \E t \in Ids :
          /\ Has(u, "yes", t)
          /\ Start(u, "closed", t, {})
          /\ CloseTicket(t, u)
    /\ UNCHANGED <<buttons, told, faults>>

\* rate_ticket: a second rating makes the INSERT raise, and nobody is answered.
Rate(u) ==
    /\ \E t \in Ids :
          /\ Has(u, "rate", t)
          /\ Start(u, "thank", t, {})
          /\ AddFeedback(t, u)
    /\ UNCHANGED <<buttons, told, faults>>

\* A bug to check against: the list is not restricted to the user's own tickets.
OwnTicketsOfAnybody(u) == Stored

\* get_user_tickets and get_new_tickets, as sets.
OwnTickets(u) == {t \in Stored : tickets[t].owner = u}

NewTickets == {t \in Stored : tickets[t].status = "new"}

\* Some ListLimit members of S, or all.  The lists are ordered by the time of
\* opening, the tickets of one second in any order: time is not modelled here.
UpToLimit(S) ==
    {C \in SUBSET S :
        Cardinality(C) = IF Cardinality(S) <= ListLimit THEN Cardinality(S) ELSE ListLimit}

\* my_tickets and manager_queue: asked for with a text that anybody may send.  That a
\* list is empty is answered in words, which is no step.
AskForList(u) ==
    /\ \/ \E C \in UpToLimit(OwnTickets(u)) \ {{}} : Start(u, "cardsOwn", 0, C)
       \/ \E C \in UpToLimit(NewTickets) \ {{}} : Start(u, "cardsNew", 0, C)
    /\ UNCHANGED <<storeVars, buttons, told, faults>>

-----------------------------------------------------------------------------
(***************************************************************************)
(* The rest of the handlers.                                               *)
(***************************************************************************)

At(s, place) == jobs[s].at = place

GoTo(s, place) == jobs' = [jobs EXCEPT ![s].at = place]

End(s) == jobs' = [jobs EXCEPT ![s] = Idle]

\* Whoever's update it is, is told something about the ticket.
TellUser(s, news) == told' = [told EXCEPT ![jobs[s].ticket][news] = @ \cup {jobs[s].user}]

\* confirm_ticket answers the client, outside of any try, and reads the managers.
ConfirmCreation(s) ==
    /\ At(s, "confirm")
    /\ TellUser(s, "created")
    /\ jobs' = [jobs EXCEPT ![s].at = "announce", ![s].whom = Staff]
    /\ UNCHANGED <<storeVars, buttons, faults>>

\* A bug to check against: the loop is left after the first manager.
AnnounceToOne(s) ==
    /\ At(s, "announce")
    /\ \E m \in jobs[s].whom :
          \/ Show(m, {On("take", jobs[s].ticket)}) /\ UNCHANGED faults
          \/ Fault /\ UNCHANGED buttons
    /\ End(s)
    /\ UNCHANGED <<storeVars, told>>

\* The managers one by one; a send that fails is only logged.
Announce(s) ==
    /\ At(s, "announce")
    /\ \/ \E m \in jobs[s].whom :
             /\ jobs' = [jobs EXCEPT ![s].whom = @ \ {m}]
             /\ \/ Show(m, {On("take", jobs[s].ticket)}) /\ UNCHANGED faults
                \/ Fault /\ UNCHANGED buttons
       \/ jobs[s].whom = {} /\ End(s) /\ UNCHANGED <<buttons, faults>>
    /\ UNCHANGED <<storeVars, told>>

ConfirmTake(s) ==
    /\ At(s, "taken")
    /\ TellUser(s, "winners")
    /\ GoTo(s, "greet")
    /\ UNCHANGED <<storeVars, buttons, faults>>

\* TICKET_ALREADY_TAKEN
RefuseTake(s) ==
    /\ At(s, "late")
    /\ TellUser(s, "late")
    /\ End(s)
    /\ UNCHANGED <<storeVars, buttons, faults>>

\* The row is read again for its owner, who is told; a send that fails is only logged.
Greet(s) ==
    /\ At(s, "greet")
    /\ \/ told' = [told EXCEPT ![jobs[s].ticket].greeted = @ + 1] /\ UNCHANGED faults
       \/ Fault /\ UNCHANGED told
    /\ End(s)
    /\ UNCHANGED <<storeVars, buttons>>

\* confirm_close edits the question into TICKET_CLOSED.
ConfirmClose(s) ==
    /\ At(s, "closed")
    /\ TellUser(s, "closed")
    /\ GoTo(s, "prompt")
    /\ UNCHANGED <<storeVars, buttons, faults>>

\* It shows the stars in the same chat; a send that fails is only logged.
Prompt(s) ==
    /\ At(s, "prompt")
    /\ \/ Show(jobs[s].user, {On("rate", jobs[s].ticket)}) /\ UNCHANGED faults
       \/ Fault /\ UNCHANGED buttons
    /\ End(s)
    /\ UNCHANGED <<storeVars, told>>

Thank(s) ==
    /\ At(s, "thank")
    /\ told' = [told EXCEPT ![jobs[s].ticket].thanked = @ + 1]
    /\ End(s)
    /\ UNCHANGED <<storeVars, buttons, faults>>

\* One message per ticket of the list, or one that says there is none.
SendCards(s, place, kinds) ==
    /\ At(s, place)
    /\ \/ \E t \in jobs[s].cards :
             /\ Show(jobs[s].user, {On(k, t) : k \in kinds})
             /\ IF jobs[s].cards = {t}
                THEN End(s)
                ELSE jobs' = [jobs EXCEPT ![s].cards = @ \ {t}]
       \/ jobs[s].cards = {} /\ End(s) /\ UNCHANGED buttons
    /\ UNCHANGED <<storeVars, told, faults>>

CardsOwn(s) == SendCards(s, "cardsOwn", {"reply", "close"})

CardsNew(s) == SendCards(s, "cardsNew", {"take"})

-----------------------------------------------------------------------------
(***************************************************************************)
(* Faults, and the rest of the world.                                      *)
(***************************************************************************)

\* The lists are handlers of messages, run again after a transient Telegram error.
Retry(s) ==
    /\ jobs[s].try < MaxTries
    /\ \E C \in SUBSET Ids :
          /\ \/ At(s, "cardsOwn") /\ C \in UpToLimit(OwnTickets(jobs[s].user))
             \/ At(s, "cardsNew") /\ C \in UpToLimit(NewTickets)
          /\ jobs' = [jobs EXCEPT ![s].try = @ + 1, ![s].cards = C]
    /\ Fault
    /\ UNCHANGED <<storeVars, buttons, told>>

\* Any other call that raises ends the handler; the error handler only logs.  The
\* loop of confirm_ticket has a try of its own, the calls before it have none.
Abort(s) ==
    /\ ~ At(s, "idle")
    /\ At(s, "announce") => jobs[s].whom = Staff
    /\ End(s)
    /\ Fault
    /\ UNCHANGED <<storeVars, buttons, told>>

Killed == {s \in Slots : jobs[s] # Idle}

\* The process dies and starts again: one fault for each handler it kills.
Crash ==
    /\ Killed # {}
    /\ faults + Cardinality(Killed) <= MaxFaults
    /\ faults' = faults + Cardinality(Killed)
    /\ jobs' = [s \in Slots |-> Idle]
    /\ UNCHANGED <<storeVars, buttons, told>>

\* What SlaEscalation does to tickets that somebody has taken.
Escalate ==
    /\ \E t \in Stored : tickets[t].manager # NoUser /\ EscalateTicket(t)
    /\ UNCHANGED deskVars

Work(s) ==
    \/ ConfirmCreation(s) \/ Announce(s)
    \/ ConfirmTake(s) \/ Greet(s) \/ RefuseTake(s)
    \/ ConfirmClose(s) \/ Prompt(s)
    \/ Thank(s)
    \/ CardsOwn(s) \/ CardsNew(s)

Next ==
    \/ \E u \in Users :
          \/ Create(u) \/ Take(u)
          \/ AskToClose(u) \/ Close(u) \/ Rate(u)
          \/ AskForList(u)
    \/ \E s \in Slots : Work(s) \/ Retry(s) \/ Abort(s)
    \/ Crash
    \/ Escalate

Spec == Init /\ [][Next]_vars

-----------------------------------------------------------------------------
(***************************************************************************)
(* Properties.                                                             *)
(***************************************************************************)

\* A manager has taken the ticket, or it has been closed: neither is ever undone.
Gone(t) == tickets[t].manager # NoUser \/ tickets[t].closedAt # NoTime

(***************************************************************************)
(* What people are told of a ticket is true, and stays so.  However many   *)
(* managers press at the same time, only the one whom the row names is     *)
(* told that the ticket is his, and whoever is turned away has been        *)
(* forestalled, by a manager or by the closing of the ticket; a creation,  *)
(* a closing and a rating are acknowledged only when they are stored; the  *)
(* client is told once that a manager will help, and only if one is        *)
(* assigned, and is thanked for one rating.  The handlers speak awaits     *)
(* after the row was read or written, so this rests on what is final in    *)
(* it.  What the refusal says of a ticket closed untaken is another        *)
(* matter: see RefusalNamesATaker.                                         *)
(***************************************************************************)
NewsIsTrue ==
    \A t \in Ids :
        /\ told[t].created \subseteq {tickets[t].owner}
        /\ told[t].winners \subseteq {tickets[t].manager}
        /\ told[t].late # {} => Gone(t)
        /\ told[t].closed # {} => tickets[t].closedAt # NoTime
        /\ told[t].greeted <= 1
        /\ told[t].greeted = 1 => tickets[t].manager # NoUser
        /\ told[t].thanked <= 1
        /\ told[t].thanked = 1 => t \in feedback

(***************************************************************************)
(* The buttons the bot shows lead nowhere forbidden: those to answer, to   *)
(* close and to rate a ticket are shown to its owner only, the last one    *)
(* only when the ticket has been closed.  So nobody who keeps to the       *)
(* buttons is ever refused in start_reply or confirm_close, whose checks   *)
(* are for those who do not.                                               *)
(*                                                                         *)
(* The other side of it: nobody but the owner is ever shown a button to    *)
(* answer a ticket.  A manager who has taken one has none, although its    *)
(* client has been told that he will help.                                 *)
(***************************************************************************)
OwnButtonsWork ==
    \A u \in Users : \A b \in buttons[u] :
        /\ b.ticket \in Stored
        /\ b.kind # "take" => tickets[b.ticket].owner = u
        /\ b.kind = "rate" => tickets[b.ticket].closedAt # NoTime

(***************************************************************************)
(* Why the two hold: an inductive invariant.                               *)
(*                                                                         *)
(*   - a handler past its transaction finds the row as the transaction     *)
(*     left it: an assignment, an end, a rating and an owner are final;    *)
(*   - it is the only one to have won that ticket or to have rated it, and *)
(*     has not spoken yet;                                                 *)
(*   - the cards a list has yet to show are of tickets it may show;        *)
(*   - only a ticket that somebody has taken is escalated, so one that can *)
(*     no longer be taken has been taken or closed.                        *)
(***************************************************************************)
Winning(s) == jobs[s].at \in {"taken", "greet"}

JobIsSound(k) ==
    /\ k.at # "idle" => k.user \in Users
    /\ k.at = "confirm" => k.ticket \in OwnTickets(k.user)
    /\ k.at = "announce" => k.ticket \in Stored
    /\ k.at \in {"taken", "greet"} => /\ k.ticket \in Stored
                                     /\ tickets[k.ticket].manager = k.user
                                     /\ told[k.ticket].greeted = 0
    /\ k.at = "late" => k.ticket \in Stored /\ Gone(k.ticket)
    /\ k.at \in {"closed", "prompt"} => /\ k.ticket \in OwnTickets(k.user)
                                        /\ tickets[k.ticket].closedAt # NoTime
    /\ k.at = "thank" => k.ticket \in feedback /\ told[k.ticket].thanked = 0
    /\ k.at = "cardsOwn" => k.cards \subseteq OwnTickets(k.user)
    /\ k.at = "cardsNew" => k.cards \subseteq Stored

OneSpeaker ==
    \A r, s \in Slots :
        /\ jobs[r].ticket = jobs[s].ticket
        /\ \/ Winning(r) /\ Winning(s)
           \/ At(r, "thank") /\ At(s, "thank")
        => r = s

EscalatedWasTaken ==
    \A t \in Ids : tickets[t].status = "escalated" => tickets[t].manager # NoUser

DeskInv ==
    /\ DeskTypeOK
    /\ EscalatedWasTaken
    /\ StatusTellsTheRow
    /\ NewsIsTrue
    /\ OwnButtonsWork
    /\ \A s \in Slots : JobIsSound(jobs[s])
    /\ OneSpeaker

(***************************************************************************)
(* A fault costs a manager the announcement of one ticket at most: once    *)
(* its handler has ended, the tickets whose take button a manager has not  *)
(* been shown are no more than the failed sends, the handlers that failed  *)
(* and those that were killed.                                             *)
(***************************************************************************)
Announcing == {jobs[s].ticket : s \in {r \in Slots :
                    jobs[r].at \in {"confirm", "announce"}}}

Missed(m) == {t \in Stored \ Announcing : On("take", t) \notin buttons[m]}

FaultsHideOneTicketEach == \A m \in Staff : Cardinality(Missed(m)) <= faults

(***************************************************************************)
(* Whoever is told that a ticket is taken already is told so of a ticket   *)
(* that somebody has taken.  The code does not keep this: the answer is    *)
(* the same when the client has closed a ticket that nobody took.          *)
(***************************************************************************)
RefusalNamesATaker ==
    \A t \in Ids : told[t].late # {} => tickets[t].manager # NoUser
=============================================================================
