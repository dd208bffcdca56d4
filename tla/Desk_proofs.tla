---------------------------- MODULE Desk_proofs ----------------------------
(***************************************************************************)
(* What holds of the buttons however many people there are and however     *)
(* their presses interleave, fail, are retried or are cut off: what people *)
(* are told is true and told once, and the buttons of a ticket's owner are *)
(* shown to nobody else.                                                   *)
(***************************************************************************)
EXTENDS Desk, StoreLog_proofs

\* What is final in the tables, as a relation between two states.
RowsGrow ==
    /\ Stored \subseteq Stored'
    /\ feedback \subseteq feedback'
    /\ \A t \in Stored :
          /\ tickets'[t].owner = tickets[t].owner
          /\ tickets[t].manager # NoUser => tickets'[t].manager = tickets[t].manager
          /\ tickets[t].closedAt # NoTime => tickets'[t].closedAt # NoTime

\* Every operation of the service keeps it.
LEMMA StoreStepGrows ==
    ASSUME StoreInv, StoreStep \/ UNCHANGED storeVars
    PROVE  RowsGrow
<1> USE StoreAssumption
<1>1. tickets \in [Ids -> Ticket] /\ Stored \subseteq Ids /\ lastId \in Nat
  BY DEF StoreInv, StoreTypeOK, Stored, Ids
<1>2. \A t \in Ids : RowIsConsistent(t)
  BY DEF StoreInv, StatusTellsTheRow
<1>3. CASE \E u \in Users, x \in Texts : CreateTicket(u, x)
  <2>1. PICK u \in Users : tickets' = [tickets EXCEPT ![lastId + 1] = NewTicket(u)]
    BY <1>3 DEF CreateTicket
  <2>2. lastId' = lastId + 1 /\ feedback' = feedback
    BY <1>3 DEF CreateTicket
  <2>3. \A t \in Stored : t # lastId + 1 /\ tickets'[t] = tickets[t]
    BY <1>1, <2>1 DEF Stored
  <2> QED
    BY <1>1, <2>2, <2>3 DEF RowsGrow, Stored
<1>4. CASE \E t \in Ids, m \in Users : TakeTicket(t, m)
  <2>1. PICK t \in Ids, m \in Users : TakeTicket(t, m)
    BY <1>4
  <2>2. tickets[t].manager = NoUser
    BY <1>2, <2>1 DEF TakeTicket, CanTake, RowIsConsistent
  <2>3. /\ tickets' = [tickets EXCEPT ![t].manager = m, ![t].status = "taken"]
        /\ lastId' = lastId /\ feedback' = feedback
    BY <2>1 DEF TakeTicket
  <2> QED
    BY <1>1, <2>2, <2>3 DEF RowsGrow, Stored, Ticket
<1>5. CASE \E t \in MessageIds, u \in Users, r \in Roles, x \in Texts : AddMessage(t, u, r, x)
  BY <1>1, <1>5 DEF AddMessage, RowsGrow, Stored, Ticket
<1>6. CASE \E t \in Ids, u \in Users \cup {NoUser} : CloseTicket(t, u)
  <2>1. now # NoTime
    BY DEF StoreInv, StoreTypeOK, NoTime
  <2> QED
    BY <1>1, <1>6, <2>1 DEF CloseTicket, RowsGrow, Stored, Ticket
<1>7. CASE \E t \in Ids : EscalateTicket(t)
  BY <1>1, <1>7 DEF EscalateTicket, RowsGrow, Stored, Ticket
<1>8. CASE tickets' = tickets /\ lastId' = lastId /\ feedback \subseteq feedback'
  BY <1>8 DEF RowsGrow, Stored
<1> QED
  BY <1>3, <1>4, <1>5, <1>6, <1>7, <1>8 DEF StoreStep, AddFeedback, AddNote, Tick, storeVars

-----------------------------------------------------------------------------
(***************************************************************************)
(* The shape of the steps.                                                 *)
(***************************************************************************)

\* What a step does to the tables is an operation of the service.
LEMMA DeskStoreStep ==
    ASSUME DeskTypeOK, Next
    PROVE  StoreNext \/ UNCHANGED storeVars
<1>1. ASSUME NEW u \in Users, Create(u) \/ Take(u) \/ AskToClose(u) \/ Close(u) \/ Rate(u)
                                \/ AskForList(u)
      PROVE  StoreNext \/ UNCHANGED storeVars
  BY <1>1 DEF Create, Take, AskToClose, Close, Rate, AskForList, StoreNext
<1>2. ASSUME NEW s \in Slots, Work(s) \/ Retry(s) \/ Abort(s)
      PROVE  UNCHANGED storeVars
  BY <1>2 DEF Work, ConfirmCreation, Announce, ConfirmTake, Greet, RefuseTake, ConfirmClose, Prompt,
              Thank, CardsOwn, CardsNew, SendCards, Retry, Abort
<1>3. CASE Crash
  BY <1>3 DEF Crash
<1>4. CASE Escalate
  <2>1. Stored \subseteq Ids
    BY StoreAssumption DEF DeskTypeOK, StoreTypeOK, Stored, Ids
  <2> QED
    BY <1>4, <2>1 DEF Escalate, StoreNext
<1> QED
  BY <1>1, <1>2, <1>3, <1>4 DEF Next

LEMMA IdleIsAJob == Idle \in Job
BY DeskAssumption, StoreAssumption DEF Idle, Job, MessageIds, Places

LEMMA StartsOne ==
    ASSUME NEW u \in Users, NEW place \in Places, NEW t \in MessageIds, NEW C \in SUBSET Ids,
           Start(u, place, t, C)
    PROVE  /\ Started(u, place, t, C) \in Job
           /\ \E s \in Slots : /\ jobs[s] = Idle
                               /\ jobs' = [jobs EXCEPT ![s] = Started(u, place, t, C)]
<1>1. 1 \in 1 .. MaxTries /\ {} \in SUBSET Users
  BY DeskAssumption
<1>2. Started(u, place, t, C) \in Job
  BY <1>1 DEF Started, Job
<1> QED
  BY <1>2 DEF Start

-----------------------------------------------------------------------------
(***************************************************************************)
(* The handlers at work.                                                   *)
(***************************************************************************)

\* What the handlers of the slots rely on.
JobsInv == (\A s \in Slots : JobIsSound(jobs[s])) /\ OneSpeaker

\* Nothing is told of a ticket by anybody but the handler whose turn it is.
SpeaksFor(k) ==
    \A t \in Ids :
        /\ told'[t].greeted # told[t].greeted => k.at = "greet" /\ k.ticket = t
        /\ told'[t].thanked # told[t].thanked => k.at = "thank" /\ k.ticket = t

\* Two handlers that would both speak for one ticket.
Rivals(j, k) ==
    /\ j.ticket = k.ticket
    /\ \/ j.at \in {"taken", "greet"} /\ k.at \in {"taken", "greet"}
       \/ j.at = "thank" /\ k.at = "thank"

\* A sound handler stays so while it is silent and others speak for other tickets.
LEMMA SoundLasts ==
    ASSUME StoreInv, RowsGrow, NEW j \in Job, JobIsSound(j),
           j.at \in {"taken", "greet"} => told'[j.ticket].greeted = told[j.ticket].greeted,
           j.at = "thank" => told'[j.ticket].thanked = told[j.ticket].thanked
    PROVE  JobIsSound(j)'
<1>1. j.at # "idle" => j.user \in Users
  BY DEF JobIsSound
<1>2. j.at = "announce" => j.ticket \in Stored'
  BY DEF JobIsSound, RowsGrow
<1>3. ASSUME j.at \in {"taken", "greet"}
      PROVE  /\ j.ticket \in Stored'
             /\ tickets'[j.ticket].manager = j.user
             /\ told'[j.ticket].greeted = 0
  <2>1. j.user # NoUser
    BY <1>1, <1>3, StoreAssumption
  <2> QED
    BY <1>3, <2>1 DEF JobIsSound, RowsGrow
<1>4. ASSUME NEW t \in OwnTickets(j.user)
      PROVE  t \in OwnTickets(j.user)'
  BY <1>4 DEF OwnTickets, RowsGrow
<1>5. /\ j.at = "confirm" => j.ticket \in OwnTickets(j.user)'
      /\ j.at = "late" => j.ticket \in Stored' /\ Gone(j.ticket)'
      /\ j.at \in {"closed", "prompt"} => /\ j.ticket \in OwnTickets(j.user)'
                                          /\ tickets'[j.ticket].closedAt # NoTime
  BY <1>4 DEF JobIsSound, RowsGrow, OwnTickets, Gone
<1>6. j.at = "thank" => j.ticket \in feedback' /\ told'[j.ticket].thanked = 0
  BY DEF JobIsSound, RowsGrow
<1>7. j.at = "cardsOwn" => j.cards \subseteq OwnTickets(j.user)'
  BY <1>4 DEF JobIsSound
<1>8. j.at = "cardsNew" => j.cards \subseteq Stored'
  BY DEF JobIsSound, RowsGrow
<1> QED
  BY <1>1, <1>2, <1>3, <1>5, <1>6, <1>7, <1>8 DEF JobIsSound

\* A step that moves one handler to a sound place without rivals keeps them sound.
LEMMA JobMoves ==
    ASSUME DeskInv, RowsGrow, NEW s \in Slots, NEW k \in Job,
           jobs' = [jobs EXCEPT ![s] = k],
           JobIsSound(k)',
           SpeaksFor(jobs[s]),
           \A r \in Slots : r # s => ~ Rivals(jobs[r], k)
    PROVE  jobs' \in [Slots -> Job] /\ JobsInv'
<1>1. jobs \in [Slots -> Job] /\ StoreInv
  BY DEF DeskInv, DeskTypeOK, StoreInv
<1>2. jobs' \in [Slots -> Job]
  BY <1>1
<1>3. ASSUME NEW r \in Slots
      PROVE  JobIsSound(jobs[r])'
  <2>1. CASE r = s
    <3>1. jobs'[r] = k
      BY <1>1, <2>1
    <3> QED
      BY <3>1 DEF JobIsSound, OwnTickets, Stored, Gone
  <2>2. CASE r # s
    <3>0. PICK j \in Job : j = jobs[r]
      BY <1>1
    <3>1. jobs'[r] = j /\ JobIsSound(j)
      BY <1>1, <2>2, <3>0 DEF DeskInv
    <3>2. ~ Rivals(j, jobs[s])
      BY <2>2, <3>0 DEF DeskInv, OneSpeaker, Rivals, Winning, At
    <3>3. j.at \in {"taken", "greet"} => j.ticket \in Ids
      BY <1>1, <3>1, StoreAssumption DEF JobIsSound, StoreInv, StoreTypeOK, Stored, Ids
    <3>4. j.at = "thank" => j.ticket \in Ids
      BY <1>1, <3>1 DEF JobIsSound, StoreInv, StoreTypeOK
    <3>5. j.at \in {"taken", "greet"} => told'[j.ticket].greeted = told[j.ticket].greeted
      <4> DEFINE i == jobs[s]
      <4>1. SpeaksFor(i) /\ ~ Rivals(j, i)
        BY <3>2
      <4> HIDE DEF i
      <4> QED
        BY <3>3, <4>1 DEF SpeaksFor, Rivals
    <3>6. j.at = "thank" => told'[j.ticket].thanked = told[j.ticket].thanked
      <4> DEFINE i == jobs[s]
      <4>1. SpeaksFor(i) /\ ~ Rivals(j, i)
        BY <3>2
      <4> HIDE DEF i
      <4> QED
        BY <3>4, <4>1 DEF SpeaksFor, Rivals
    <3>7. JobIsSound(j)'
      BY <1>1, <3>1, <3>5, <3>6, SoundLasts
    <3> QED
      BY <3>1, <3>7 DEF JobIsSound, OwnTickets, Stored, Gone
  <2> QED
    BY <2>1, <2>2
<1>4. ASSUME NEW r \in Slots, NEW q \in Slots, Rivals(jobs'[r], jobs'[q])
      PROVE  r = q
  BY <1>1, <1>4 DEF DeskInv, OneSpeaker, Rivals, Winning, At
<1>5. OneSpeaker'
  BY <1>4 DEF OneSpeaker, Rivals, Winning, At
<1> QED
  BY <1>2, <1>3, <1>5 DEF JobsInv

\* A handler that starts, in silence.
LEMMA StartKeeps ==
    ASSUME DeskInv, RowsGrow, told' = told,
           NEW u \in Users, NEW place \in Places, NEW t \in MessageIds, NEW C \in SUBSET Ids,
           Start(u, place, t, C),
           \A k \in Job : k = Started(u, place, t, C)
               => /\ JobIsSound(k)'
                  /\ \A r \in Slots : ~ Rivals(jobs[r], k)
    PROVE  jobs' \in [Slots -> Job] /\ JobsInv'
<1>1. PICK k \in Job : k = Started(u, place, t, C)
  BY StartsOne
<1>2. PICK s \in Slots : jobs' = [jobs EXCEPT ![s] = k]
  BY <1>1, StartsOne
<1>3. SpeaksFor(jobs[s])
  BY DEF SpeaksFor
<1> QED
  BY <1>1, <1>2, <1>3, JobMoves

\* Only a handler past the winning transaction names the manager of a ticket.
LEMMA NobodyWonYet ==
    ASSUME DeskInv, NEW t \in Ids, tickets[t].manager = NoUser
    PROVE  /\ \A r \in Slots : jobs[r].at \in {"taken", "greet"} => jobs[r].ticket # t
           /\ told[t].greeted = 0
           /\ told[t].winners = {}
<1>1. ASSUME NEW r \in Slots, jobs[r].at \in {"taken", "greet"}, jobs[r].ticket = t
      PROVE  FALSE
  <2>1. JobIsSound(jobs[r]) /\ NoUser \notin Users
    BY StoreAssumption DEF DeskInv
  <2>2. jobs[r].user \in Users /\ tickets[t].manager = jobs[r].user
    BY <1>1, <2>1 DEF JobIsSound
  <2> QED
    BY <2>1, <2>2
<1>2. told[t].winners \subseteq Users /\ told[t].greeted \in Nat
  BY DEF DeskInv, DeskTypeOK, News
<1>3. told[t].greeted = 0
  BY <1>2 DEF DeskInv, NewsIsTrue
<1>4. told[t].winners \subseteq {NoUser}
  BY <1>2 DEF DeskInv, NewsIsTrue
<1> QED
  BY <1>1, <1>2, <1>3, <1>4, StoreAssumption

\* Who has won a ticket, or ended or rated one, is where the rows say.
LEMMA ArrivalsAreSound ==
    ASSUME DeskInv, RowsGrow, NEW u \in Users,
           Create(u) \/ Take(u) \/ Close(u) \/ Rate(u) \/ AskForList(u)
    PROVE  jobs' \in [Slots -> Job] /\ JobsInv'
<1> USE StoreAssumption
<1>1. /\ StoreTypeOK /\ NewsIsTrue /\ OwnButtonsWork
      /\ \A t \in Ids : RowIsConsistent(t)
      /\ tickets \in [Ids -> Ticket]
      /\ Ids \subseteq MessageIds /\ Stored \subseteq Ids /\ 0 \in MessageIds
  BY DEF DeskInv, DeskTypeOK, StatusTellsTheRow, StoreTypeOK, Ids, MessageIds, Stored
<1>2. Places = {"idle", "confirm", "announce", "taken", "greet", "late", "closed", "prompt",
                "thank", "cardsOwn", "cardsNew"}
  BY DEF Places
<1>3. CASE Create(u)
  <2>1. /\ Start(u, "confirm", lastId + 1, {}) /\ told' = told
        /\ lastId' = lastId + 1 /\ lastId < MaxTickets
    BY <1>3 DEF Create, CreateTicket
  <2>2. lastId + 1 \in MessageIds /\ lastId + 1 \in OwnTickets(u)'
    <3>1. lastId + 1 \in Ids /\ lastId + 1 \in MessageIds /\ lastId + 1 \in Stored'
      BY <1>1, <2>1 DEF StoreTypeOK, Ids, MessageIds, Stored
    <3>2. tickets'[lastId + 1].owner = u
      BY <1>1, <1>3, <3>1 DEF Create, CreateTicket, NewTicket
    <3> QED
      BY <3>1, <3>2 DEF OwnTickets
  <2>3. ASSUME NEW k \in Job, k = Started(u, "confirm", lastId + 1, {})
        PROVE  JobIsSound(k)' /\ \A r \in Slots : ~ Rivals(jobs[r], k)
    BY <2>2, <2>3 DEF Started, JobIsSound, Rivals
  <2> QED
    BY <1>2, <2>1, <2>2, <2>3, StartKeeps
<1>4. ASSUME NEW t \in Ids, Start(u, "taken", t, {}), TakeTicket(t, u), told' = told
      PROVE  jobs' \in [Slots -> Job] /\ JobsInv'
  <2>1. tickets[t].manager = NoUser /\ t \in Stored
    BY <1>1, <1>4 DEF TakeTicket, CanTake, RowIsConsistent
  <2>2. tickets'[t].manager = u /\ t \in Stored'
    BY <1>1, <1>4, <2>1 DEF TakeTicket, Stored, Ticket
  <2>3. ASSUME NEW k \in Job, k = Started(u, "taken", t, {})
        PROVE  JobIsSound(k)' /\ \A r \in Slots : ~ Rivals(jobs[r], k)
    <3>1. k.at = "taken" /\ k.ticket = t /\ k.user = u
      BY <2>3 DEF Started
    <3>2. told'[t].greeted = 0
      BY <1>4, <2>1, NobodyWonYet
    <3>3. JobIsSound(k)'
      BY <2>2, <3>1, <3>2 DEF JobIsSound
    <3>4. \A r \in Slots : ~ Rivals(jobs[r], k)
      BY <2>1, <3>1, NobodyWonYet DEF Rivals
    <3> QED
      BY <3>3, <3>4
  <2> QED
    BY <1>1, <1>2, <1>4, <2>3, StartKeeps
<1>8. ASSUME NEW t \in Ids, Has(u, "take", t), Start(u, "late", t, {}), ~ CanTake(t),
             UNCHANGED storeVars, told' = told
      PROVE  jobs' \in [Slots -> Job] /\ JobsInv'
  <2>1. t \in Stored
    BY <1>1, <1>8 DEF Has, On, OwnButtonsWork
  <2>2. Gone(t)
    <3>1. RowIsConsistent(t) /\ tickets[t].status \in Statuses /\ tickets[t].status # "new"
      BY <1>1, <1>8, <2>1 DEF CanTake, Ticket
    <3> QED
      BY <2>1, <3>1 DEF RowIsConsistent, Statuses, Gone, DeskInv, EscalatedWasTaken
  <2>3. t \in Stored' /\ Gone(t)'
    BY <1>8, <2>1, <2>2 DEF storeVars, Stored, Gone
  <2>4. ASSUME NEW k \in Job, k = Started(u, "late", t, {})
        PROVE  JobIsSound(k)' /\ \A r \in Slots : ~ Rivals(jobs[r], k)
    <3>1. k.at = "late" /\ k.ticket = t /\ k.user = u
      BY <2>4 DEF Started
    <3> QED
      BY <2>3, <3>1 DEF JobIsSound, Rivals
  <2> QED
    BY <1>1, <1>2, <1>8, <2>4, StartKeeps
<1>5. CASE Close(u)
  <2>1. PICK t \in Ids : /\ Has(u, "yes", t)
                         /\ Start(u, "closed", t, {})
                         /\ CloseTicket(t, u)
    BY <1>5 DEF Close
  <2>2. t \in Stored /\ tickets[t].owner = u /\ now # NoTime
    BY <1>1, <2>1 DEF Has, On, OwnButtonsWork, StoreTypeOK, NoTime
  <2>3. told' = told /\ t \in OwnTickets(u)' /\ tickets'[t].closedAt # NoTime
    BY <1>1, <1>5, <2>1, <2>2 DEF Close, CloseTicket, OwnTickets, Stored, Ticket
  <2>4. ASSUME NEW k \in Job, k = Started(u, "closed", t, {})
        PROVE  JobIsSound(k)' /\ \A r \in Slots : ~ Rivals(jobs[r], k)
    <3>1. k.at = "closed" /\ k.ticket = t /\ k.user = u
      BY <2>4 DEF Started
    <3> QED
      BY <2>3, <3>1 DEF JobIsSound, Rivals
  <2> QED
    BY <1>1, <1>2, <2>1, <2>3, <2>4, StartKeeps
<1>6. CASE Rate(u)
  <2>1. PICK t \in Ids : Start(u, "thank", t, {}) /\ AddFeedback(t, u)
    BY <1>6 DEF Rate
  <2>2. told' = told /\ t \notin feedback /\ t \in feedback'
    BY <1>6, <2>1 DEF Rate, AddFeedback, MayRate
  <2>3. told[t].thanked \in Nat
    BY DEF DeskInv, DeskTypeOK, News
  <2>4. told'[t].thanked = 0
    BY <1>1, <2>2, <2>3 DEF NewsIsTrue
  <2>5. ASSUME NEW k \in Job, k = Started(u, "thank", t, {})
        PROVE  JobIsSound(k)' /\ \A r \in Slots : ~ Rivals(jobs[r], k)
    <3>1. k.at = "thank" /\ k.ticket = t /\ k.user = u
      BY <2>5 DEF Started
    <3>2. JobIsSound(k)'
      BY <2>2, <2>4, <3>1 DEF JobIsSound
    <3>3. \A r \in Slots : ~ Rivals(jobs[r], k)
      BY <2>2, <3>1 DEF Rivals, DeskInv, JobIsSound
    <3> QED
      BY <3>2, <3>3
  <2> QED
    BY <1>1, <1>2, <2>1, <2>2, <2>5, StartKeeps
<1>7. CASE AskForList(u)
  <2>1. told' = told /\ UNCHANGED storeVars
    BY <1>7 DEF AskForList
  <2>2. OwnTickets(u) \subseteq Ids /\ NewTickets \subseteq Ids
    BY <1>1 DEF OwnTickets, NewTickets
  <2>3. ASSUME NEW C \in SUBSET Ids, NEW place \in {"cardsOwn", "cardsNew"},
               Start(u, place, 0, C),
               place = "cardsOwn" => C \subseteq OwnTickets(u),
               place = "cardsNew" => C \subseteq NewTickets
        PROVE  jobs' \in [Slots -> Job] /\ JobsInv'
    <3>1. ASSUME NEW k \in Job, k = Started(u, place, 0, C)
          PROVE  JobIsSound(k)' /\ \A r \in Slots : ~ Rivals(jobs[r], k)
      <4>1. k.at = place /\ k.user = u /\ k.cards = C
        BY <3>1 DEF Started
      <4>2. OwnTickets(u)' = OwnTickets(u) /\ NewTickets \subseteq Stored'
        BY <2>1 DEF storeVars, OwnTickets, NewTickets, Stored
      <4> QED
        BY <2>3, <4>1, <4>2 DEF JobIsSound, Rivals
    <3> QED
      BY <1>1, <1>2, <2>1, <2>3, <3>1, StartKeeps
  <2>4. CASE \E C \in UpToLimit(OwnTickets(u)) : Start(u, "cardsOwn", 0, C)
    BY <2>2, <2>3, <2>4 DEF UpToLimit
  <2>5. CASE \E C \in UpToLimit(NewTickets) : Start(u, "cardsNew", 0, C)
    BY <2>2, <2>3, <2>5 DEF UpToLimit
  <2> QED
    BY <1>7, <2>4, <2>5 DEF AskForList
<1> QED
  BY <1>3, <1>4, <1>5, <1>6, <1>7, <1>8 DEF Take

\* News to whoever's update it is, of a ticket: the rest of what is told stays.
Spreads(s, news) ==
    /\ told' \in [Ids -> News]
    /\ \A t \in Ids : /\ told'[t].greeted = told[t].greeted
                      /\ told'[t].thanked = told[t].thanked
    /\ \A t \in Ids, n \in {"created", "winners", "late", "closed"} :
          told'[t][n] = IF t = jobs[s].ticket /\ n = news
                        THEN told[t][n] \cup {jobs[s].user} ELSE told[t][n]

LEMMA NewsSpreads ==
    ASSUME DeskTypeOK, NEW s \in Slots, NEW news \in {"created", "winners", "late", "closed"},
           TellUser(s, news), jobs[s].ticket \in Ids, jobs[s].user \in Users
    PROVE  Spreads(s, news)
<1> DEFINE c == jobs[s].ticket
           more == [told[c] EXCEPT ![news] = @ \cup {jobs[s].user}]
<1>1. told \in [Ids -> News] /\ c \in Ids /\ told[c] \in News /\ jobs[s].user \in Users
  BY DEF DeskTypeOK
<1>2. told' = [told EXCEPT ![c] = more]
  BY DEF TellUser
<1>3. /\ more \in News
      /\ more.greeted = told[c].greeted /\ more.thanked = told[c].thanked
      /\ \A n \in {"created", "winners", "late", "closed"} :
            more[n] = IF n = news THEN told[c][n] \cup {jobs[s].user} ELSE told[c][n]
  BY <1>1 DEF News
<1> HIDE DEF more, c
<1>4. \A t \in Ids : told'[t] = IF t = c THEN more ELSE told[t]
  BY <1>1, <1>2
<1>5. told' \in [Ids -> News]
  BY <1>1, <1>2, <1>3
<1> QED
  BY <1>3, <1>4, <1>5 DEF c, Spreads

\* A handler that goes on, or is run again, or ends.
LEMMA WorkIsSound ==
    ASSUME DeskInv, RowsGrow, NEW s \in Slots, Work(s) \/ Retry(s) \/ Abort(s)
    PROVE  jobs' \in [Slots -> Job] /\ JobsInv'
<1>1. /\ jobs \in [Slots -> Job] /\ JobIsSound(jobs[s])
      /\ told \in [Ids -> News] /\ \A t \in Ids : told[t] \in News
      /\ Stored \subseteq Ids /\ DeskTypeOK
  BY StoreAssumption DEF DeskInv, DeskTypeOK, StoreTypeOK, Stored, Ids
<1>2. PICK j \in Job : j = jobs[s]
  BY <1>1
<1>3. storeVars' = storeVars
  BY DEF Work, ConfirmCreation, Announce, ConfirmTake, Greet, RefuseTake, ConfirmClose, Prompt,
         Thank, CardsOwn, CardsNew, SendCards, Retry, Abort
<1>4. Stored' = Stored /\ tickets' = tickets /\ \A u : OwnTickets(u)' = OwnTickets(u)
  BY <1>3 DEF storeVars, Stored, OwnTickets
<1>5. ASSUME NEW k \in Job, jobs' = [jobs EXCEPT ![s] = k], SpeaksFor(j), JobIsSound(k)',
             \A r \in Slots : Rivals(jobs[r], k) => Rivals(jobs[r], j)
      PROVE  jobs' \in [Slots -> Job] /\ JobsInv'
  <2>1. \A r \in Slots : r # s => ~ Rivals(jobs[r], k)
    BY <1>2, <1>5 DEF DeskInv, OneSpeaker, Rivals, Winning, At
  <2> QED
    BY <1>2, <1>5, <2>1, JobMoves
<1>6. ASSUME End(s), SpeaksFor(j)
      PROVE  jobs' \in [Slots -> Job] /\ JobsInv'
  <2>1. PICK k \in Job : k = Idle
    BY IdleIsAJob
  <2>2. k.at = "idle"
    BY <2>1 DEF Idle
  <2>3. JobIsSound(k)' /\ \A r \in Slots : ~ Rivals(jobs[r], k)
    BY <2>2 DEF JobIsSound, Rivals
  <2> QED
    BY <1>5, <1>6, <2>1, <2>3 DEF End
<1>7. CASE told' = told /\ (Announce(s) \/ Prompt(s) \/ Greet(s) \/ Abort(s) \/ CardsOwn(s)
                               \/ CardsNew(s) \/ Retry(s))
  <2>1. SpeaksFor(j)
    BY <1>7 DEF SpeaksFor
  <2>3. CASE Announce(s)
    <3>1. CASE End(s)
      BY <1>6, <2>1, <3>1
    <3>2. CASE \E m \in jobs[s].whom : jobs' = [jobs EXCEPT ![s].whom = @ \ {m}]
      <4>1. PICK m : jobs' = [jobs EXCEPT ![s].whom = @ \ {m}]
        BY <3>2
      <4>2. PICK k \in Job : k = [j EXCEPT !.whom = @ \ {m}]
        BY DEF Job
      <4>3. k.at = "announce" /\ k.ticket = j.ticket /\ j.at = "announce" /\ k.user = j.user
        BY <1>2, <2>3, <4>2 DEF Job, Announce, At
      <4>4. JobIsSound(k)' /\ \A r \in Slots : ~ Rivals(jobs[r], k)
        BY <1>1, <1>2, <1>4, <4>3 DEF JobIsSound, Rivals
      <4>5. jobs' = [jobs EXCEPT ![s] = k]
        BY <1>1, <1>2, <4>1, <4>2
      <4> QED
        BY <1>5, <2>1, <4>4, <4>5
    <3> QED
      BY <2>3, <3>1, <3>2 DEF Announce
  <2>4. CASE Greet(s) \/ Prompt(s) \/ Abort(s)
    BY <1>6, <2>1, <2>4 DEF Greet, Prompt, Abort
  <2>5. CASE CardsOwn(s) \/ CardsNew(s)
    <3>1. CASE End(s)
      BY <1>6, <2>1, <3>1
    <3>2. CASE \E t \in jobs[s].cards : jobs' = [jobs EXCEPT ![s].cards = @ \ {t}]
      <4>1. PICK t : jobs' = [jobs EXCEPT ![s].cards = @ \ {t}]
        BY <3>2
      <4>2. PICK k \in Job : k = [j EXCEPT !.cards = @ \ {t}]
        BY DEF Job
      <4>3. /\ k.at \in {"cardsOwn", "cardsNew"} /\ k.at = j.at
            /\ k.cards \subseteq j.cards /\ k.user = j.user
        BY <1>2, <2>5, <4>2 DEF Job, CardsOwn, CardsNew, SendCards, At
      <4>4. JobIsSound(k)' /\ \A r \in Slots : ~ Rivals(jobs[r], k)
        BY <1>1, <1>2, <1>4, <4>3 DEF JobIsSound, Rivals
      <4>5. jobs' = [jobs EXCEPT ![s] = k]
        BY <1>1, <1>2, <4>1, <4>2
      <4> QED
        BY <1>5, <2>1, <4>4, <4>5
    <3> QED
      BY <2>5, <3>1, <3>2 DEF CardsOwn, CardsNew, SendCards
  <2>6. CASE Retry(s)
    <3>1. PICK C \in SUBSET Ids :
            /\ \/ At(s, "cardsOwn") /\ C \in UpToLimit(OwnTickets(jobs[s].user))
               \/ At(s, "cardsNew") /\ C \in UpToLimit(NewTickets)
            /\ jobs' = [jobs EXCEPT ![s].try = @ + 1, ![s].cards = C]
      BY <2>6 DEF Retry
    <3>2. j.try + 1 \in 1 .. MaxTries
      BY <1>2, <2>6, DeskAssumption DEF Retry, Job
    <3>3. PICK k \in Job : k = [j EXCEPT !.try = @ + 1, !.cards = C]
      BY <3>2 DEF Job
    <3>4. k.at = j.at /\ k.user = j.user /\ k.cards = C /\ j.at \in {"cardsOwn", "cardsNew"}
      BY <1>2, <3>1, <3>3 DEF Job, At
    <3>5. /\ j.at = "cardsOwn" => C \subseteq OwnTickets(j.user)
          /\ j.at = "cardsNew" => C \subseteq Stored
      BY <1>2, <3>1 DEF At, UpToLimit, NewTickets
    <3>6. JobIsSound(k)' /\ \A r \in Slots : ~ Rivals(jobs[r], k)
      BY <1>1, <1>2, <1>4, <3>4, <3>5 DEF JobIsSound, Rivals
    <3>7. jobs' = [jobs EXCEPT ![s] = k]
      BY <1>1, <1>2, <3>1, <3>3
    <3> QED
      BY <1>5, <2>1, <3>6, <3>7
  <2> QED
    BY <1>7, <2>3, <2>4, <2>5, <2>6
\* A handler answers whoever pressed, and goes on or ends.
<1>8. ASSUME NEW news \in {"created", "winners", "late", "closed"}, TellUser(s, news),
             j.ticket \in Ids, j.user \in Users
      PROVE  SpeaksFor(j) /\ \A t \in Ids : told'[t].greeted = told[t].greeted
  BY <1>1, <1>2, <1>8, NewsSpreads DEF SpeaksFor, Spreads
<1>10. CASE ConfirmCreation(s)
  <2>1. PICK k \in Job : k = [j EXCEPT !.at = "announce", !.whom = Staff]
    BY DeskAssumption DEF Job, Places
  <2>2. k.at = "announce" /\ k.ticket = j.ticket /\ j.at = "confirm" /\ k.user = j.user
    BY <1>2, <1>10, <2>1 DEF Job, ConfirmCreation, At
  <2>3. j.ticket \in Stored /\ j.ticket \in Ids /\ j.user \in Users
    BY <1>1, <1>2, <2>2 DEF JobIsSound, OwnTickets
  <2>4. SpeaksFor(j)
    BY <1>8, <1>10, <2>3 DEF ConfirmCreation
  <2>5. JobIsSound(k)' /\ \A r \in Slots : ~ Rivals(jobs[r], k)
    BY <1>4, <2>2, <2>3 DEF JobIsSound, Rivals
  <2>6. jobs' = [jobs EXCEPT ![s] = k]
    BY <1>1, <1>2, <1>10, <2>1 DEF ConfirmCreation
  <2> QED
    BY <1>5, <2>4, <2>5, <2>6
<1>11. CASE ConfirmTake(s)
  <2>1. PICK k \in Job : k = [j EXCEPT !.at = "greet"]
    BY DEF Job, Places
  <2>2. k.at = "greet" /\ j.at = "taken" /\ k.ticket = j.ticket /\ k.user = j.user
    BY <1>2, <1>11, <2>1 DEF Job, ConfirmTake, At
  <2>3. j.ticket \in Ids /\ j.user \in Users
    BY <1>1, <1>2, <2>2 DEF JobIsSound
  <2>4. SpeaksFor(j) /\ told'[j.ticket].greeted = told[j.ticket].greeted
    BY <1>8, <1>11, <2>3 DEF ConfirmTake
  <2>5. JobIsSound(k)'
    BY <1>1, <1>2, <1>4, <2>2, <2>3, <2>4 DEF JobIsSound
  <2>6. \A r \in Slots : Rivals(jobs[r], k) => Rivals(jobs[r], j)
    BY <2>2 DEF Rivals
  <2>7. jobs' = [jobs EXCEPT ![s] = k]
    BY <1>1, <1>2, <1>11, <2>1 DEF ConfirmTake, GoTo
  <2> QED
    BY <1>5, <2>4, <2>5, <2>6, <2>7
<1>12. CASE RefuseTake(s)
  <2>1. j.ticket \in Ids /\ j.user \in Users
    BY <1>1, <1>2, <1>12 DEF RefuseTake, At, JobIsSound
  <2>2. SpeaksFor(j)
    BY <1>8, <1>12, <2>1 DEF RefuseTake
  <2> QED
    BY <1>6, <1>12, <2>2 DEF RefuseTake
<1>13. CASE ConfirmClose(s)
  <2>1. PICK k \in Job : k = [j EXCEPT !.at = "prompt"]
    BY DEF Job, Places
  <2>2. k.at = "prompt" /\ j.at = "closed" /\ k.ticket = j.ticket /\ k.user = j.user
    BY <1>2, <1>13, <2>1 DEF Job, ConfirmClose, At
  <2>3. j.ticket \in Ids /\ j.user \in Users
    BY <1>1, <1>2, <2>2 DEF JobIsSound, OwnTickets
  <2>4. SpeaksFor(j)
    BY <1>8, <1>13, <2>3 DEF ConfirmClose
  <2>5. JobIsSound(k)' /\ \A r \in Slots : ~ Rivals(jobs[r], k)
    BY <1>1, <1>2, <1>4, <2>2 DEF JobIsSound, Rivals
  <2>6. jobs' = [jobs EXCEPT ![s] = k]
    BY <1>1, <1>2, <1>13, <2>1 DEF ConfirmClose, GoTo
  <2> QED
    BY <1>5, <2>4, <2>5, <2>6
<1>9. CASE Greet(s) \/ Thank(s)
  <2>1. End(s)
    BY <1>9 DEF Greet, Thank
  <2>2. \/ told' = told
        \/ j.at = "greet" /\ told' = [told EXCEPT ![j.ticket].greeted = @ + 1]
        \/ j.at = "thank" /\ told' = [told EXCEPT ![j.ticket].thanked = @ + 1]
    BY <1>2, <1>9 DEF Greet, Thank, At
  <2>3. SpeaksFor(j)
    BY <1>1, <2>2 DEF SpeaksFor, News
  <2> QED
    BY <1>6, <2>1, <2>3
<1> QED
  BY <1>7, <1>9, <1>10, <1>11, <1>12, <1>13
  DEF Work, Announce, Prompt, CardsOwn, CardsNew, SendCards, Retry, Abort

\* Every step leaves the handlers sound.
LEMMA JobsStep ==
    ASSUME DeskInv, RowsGrow, Next
    PROVE  jobs' \in [Slots -> Job] /\ JobsInv'
<1>1. jobs \in [Slots -> Job] /\ StoreInv
  BY DEF DeskInv, DeskTypeOK, StoreInv
<1>2. CASE \E u \in Users : Create(u) \/ Take(u) \/ Close(u) \/ Rate(u) \/ AskForList(u)
  BY <1>2, ArrivalsAreSound
<1>3. CASE \E s \in Slots : Work(s) \/ Retry(s) \/ Abort(s)
  BY <1>3, WorkIsSound
<1>4. CASE jobs' = jobs /\ told' = told
  <2>1. ASSUME NEW s \in Slots
        PROVE  JobIsSound(jobs[s])'
    <3>1. PICK j \in Job : j = jobs[s]
      BY <1>1
    <3>2. JobIsSound(j)'
      BY <1>1, <1>4, <3>1, SoundLasts DEF DeskInv
    <3> QED
      BY <1>4, <3>1, <3>2 DEF JobIsSound, OwnTickets, Stored, Gone
  <2>2. OneSpeaker'
    BY <1>4 DEF DeskInv, OneSpeaker, Winning, At
  <2> QED
    BY <1>1, <1>4, <2>1, <2>2 DEF JobsInv
<1>5. CASE Crash
  <2>1. jobs' = [s \in Slots |-> Idle]
    BY <1>5 DEF Crash
  <2>2. \A s \in Slots : jobs'[s].at = "idle"
    BY <2>1 DEF Idle
  <2> QED
    BY <2>1, <2>2, IdleIsAJob DEF JobsInv, JobIsSound, OneSpeaker, Winning, At
<1> QED
  BY <1>2, <1>3, <1>4, <1>5 DEF Next, AskToClose, Escalate, deskVars

-----------------------------------------------------------------------------
(***************************************************************************)
(* What people are told, and the buttons they see.                         *)
(***************************************************************************)

\* Somebody is answered, the client or the owner is told, or nobody is.
LEMMA Telling ==
    ASSUME Next
    PROVE  \/ told' = told
           \/ \E s \in Slots :
                 \/ At(s, "confirm") /\ TellUser(s, "created")
                 \/ At(s, "taken") /\ TellUser(s, "winners")
                 \/ At(s, "late") /\ TellUser(s, "late")
                 \/ At(s, "closed") /\ TellUser(s, "closed")
                 \/ At(s, "greet") /\ told' = [told EXCEPT ![jobs[s].ticket].greeted = @ + 1]
                 \/ At(s, "thank") /\ told' = [told EXCEPT ![jobs[s].ticket].thanked = @ + 1]
BY DEF Next, Create, Take, AskToClose, Close, Rate, AskForList, Work, ConfirmCreation, Announce,
       ConfirmTake, Greet, RefuseTake, ConfirmClose, Prompt, Thank, CardsOwn, CardsNew, SendCards,
       Retry, Abort, Crash, Escalate, deskVars

\* What is told is true, and told once.
LEMMA NewsStep ==
    ASSUME DeskInv, RowsGrow, Next
    PROVE  told' \in [Ids -> News] /\ NewsIsTrue'
<1> USE StoreAssumption
<1>1. /\ told \in [Ids -> News] /\ NewsIsTrue /\ DeskTypeOK /\ Stored \subseteq Ids
      /\ \A t \in Ids : told[t] \in News
  BY DEF DeskInv, DeskTypeOK, StoreTypeOK, Stored, Ids
\* What has been told stays true.
<1>2. ASSUME NEW t \in Ids
      PROVE  /\ told[t].created \subseteq {tickets'[t].owner}
             /\ told[t].winners \subseteq {tickets'[t].manager}
             /\ told[t].late # {} => Gone(t)'
             /\ told[t].closed # {} => tickets'[t].closedAt # NoTime
             /\ told[t].greeted <= 1
             /\ told[t].greeted = 1 => tickets'[t].manager # NoUser
             /\ told[t].thanked <= 1
             /\ told[t].thanked = 1 => t \in feedback'
  <2>1. RowIsConsistent(t)
    BY DEF DeskInv, StatusTellsTheRow
  <2>2. CASE t \in Stored
    <3>1. told[t].winners \subseteq {tickets'[t].manager}
      BY <1>1, <2>2, NobodyWonYet DEF RowsGrow, NewsIsTrue
    <3> QED
      BY <1>1, <2>2, <3>1 DEF RowsGrow, NewsIsTrue, Gone
  <2>3. CASE t \notin Stored
    <3>1. /\ tickets[t].owner = NoUser /\ tickets[t].manager = NoUser
          /\ tickets[t].closedAt = NoTime
      BY <2>1, <2>3 DEF RowIsConsistent
    <3>2. told[t].created \subseteq Users /\ told[t].created \subseteq {NoUser}
      BY <1>1, <3>1 DEF News, NewsIsTrue
    <3>3. told[t].created = {}
      BY <3>2
    <3> QED
      BY <1>1, <3>1, <3>3, NobodyWonYet DEF RowsGrow, NewsIsTrue, Gone
  <2> QED
    BY <2>2, <2>3
<1>3. CASE told' = told
  BY <1>1, <1>2, <1>3 DEF NewsIsTrue
\* What a handler is about to tell is true.
<1>4. ASSUME NEW s \in Slots
      PROVE  /\ JobIsSound(jobs[s])
             /\ At(s, "confirm") => tickets'[jobs[s].ticket].owner = jobs[s].user
             /\ At(s, "taken") => tickets'[jobs[s].ticket].manager = jobs[s].user
             /\ At(s, "late") => \/ tickets'[jobs[s].ticket].manager # NoUser
                                 \/ tickets'[jobs[s].ticket].closedAt # NoTime
             /\ At(s, "closed") => tickets'[jobs[s].ticket].closedAt # NoTime
             /\ At(s, "greet") => tickets'[jobs[s].ticket].manager # NoUser
             /\ At(s, "thank") => jobs[s].ticket \in feedback'
  <2>1. JobIsSound(jobs[s])
    BY DEF DeskInv
  <2>2. jobs[s].at \in {"taken", "greet"} => tickets'[jobs[s].ticket].manager = jobs[s].user
                                              /\ jobs[s].user \in Users
    BY <2>1 DEF JobIsSound, RowsGrow
  <2> QED
    BY <2>1, <2>2 DEF JobIsSound, RowsGrow, At, OwnTickets, Gone
<1>5. ASSUME NEW s \in Slots, NEW news \in {"created", "winners", "late", "closed"},
             TellUser(s, news),
             \/ At(s, "confirm") /\ news = "created"
             \/ At(s, "taken") /\ news = "winners"
             \/ At(s, "late") /\ news = "late"
             \/ At(s, "closed") /\ news = "closed"
      PROVE  told' \in [Ids -> News] /\ NewsIsTrue'
  <2>1. jobs[s].user \in Users /\ jobs[s].ticket \in Ids
    BY <1>1, <1>4, <1>5 DEF At, JobIsSound, OwnTickets
  <2>2. /\ told' \in [Ids -> News]
        /\ \A t \in Ids : /\ told'[t].greeted = told[t].greeted
                          /\ told'[t].thanked = told[t].thanked
        /\ \A t \in Ids, n \in {"created", "winners", "late", "closed"} :
              told'[t][n] = IF t = jobs[s].ticket /\ n = news
                            THEN told[t][n] \cup {jobs[s].user} ELSE told[t][n]
    <3>1. DeskTypeOK /\ TellUser(s, news)
      BY <1>1, <1>5
    <3>2. Spreads(s, news)
      BY <2>1, <3>1, NewsSpreads
    <3> QED
      BY <3>2 DEF Spreads
  <2>3. ASSUME NEW t \in Ids
        PROVE  /\ told'[t].created \subseteq {tickets'[t].owner}
               /\ told'[t].winners \subseteq {tickets'[t].manager}
               /\ told'[t].late # {} => Gone(t)'
               /\ told'[t].closed # {} => tickets'[t].closedAt # NoTime
    <3>1. \A n \in {"created", "winners", "late", "closed"} :
             told'[t][n] = IF t = jobs[s].ticket /\ n = news
                           THEN told[t][n] \cup {jobs[s].user} ELSE told[t][n]
      BY <2>2
    <3>2. CASE t # jobs[s].ticket
      BY <1>2, <3>1, <3>2
    <3>3. CASE t = jobs[s].ticket
      <4>1. CASE At(s, "confirm") /\ news = "created"
        BY <1>2, <1>4, <3>1, <3>3, <4>1
      <4>2. CASE At(s, "taken") /\ news = "winners"
        BY <1>2, <1>4, <3>1, <3>3, <4>2
      <4>3. CASE At(s, "late") /\ news = "late"
        BY <1>2, <1>4, <3>1, <3>3, <4>3 DEF Gone
      <4>4. CASE At(s, "closed") /\ news = "closed"
        BY <1>2, <1>4, <3>1, <3>3, <4>4
      <4> QED
        BY <1>5, <4>1, <4>2, <4>3, <4>4
    <3> QED
      BY <3>2, <3>3
  <2> QED
    BY <1>2, <2>2, <2>3 DEF NewsIsTrue
\* The notice to the client and the thanks.
<1>6. ASSUME NEW s \in Slots, NEW f \in {"greeted", "thanked"},
             told' = [told EXCEPT ![jobs[s].ticket][f] = @ + 1],
             \/ At(s, "greet") /\ f = "greeted"
             \/ At(s, "thank") /\ f = "thanked"
      PROVE  told' \in [Ids -> News] /\ NewsIsTrue'
  <2> DEFINE c == jobs[s].ticket
             more == [told[c] EXCEPT ![f] = @ + 1]
  <2>1. c \in Ids /\ told[c] \in News /\ told[c][f] = 0
    BY <1>1, <1>4, <1>6 DEF At, JobIsSound, DeskTypeOK, StoreTypeOK
  <2>2. /\ more \in News
        /\ more.created = told[c].created /\ more.winners = told[c].winners
        /\ more.late = told[c].late /\ more.closed = told[c].closed
        /\ more.greeted = IF f = "greeted" THEN 1 ELSE told[c].greeted
        /\ more.thanked = IF f = "thanked" THEN 1 ELSE told[c].thanked
    BY <2>1 DEF News
  <2> HIDE DEF more
  <2>3. told' \in [Ids -> News] /\ \A t \in Ids : told'[t] = IF t = c THEN more ELSE told[t]
    BY <1>1, <1>6, <2>1, <2>2 DEF more
  <2>4. /\ f = "greeted" => tickets'[c].manager # NoUser
        /\ f = "thanked" => c \in feedback'
    BY <1>4, <1>6
  <2> HIDE DEF c
  <2> QED
    BY <1>2, <2>1, <2>2, <2>3, <2>4 DEF NewsIsTrue
<1> QED
  BY <1>3, <1>5, <1>6, Telling

\* A button that works, in the chat of u.
Works(u, b) ==
    /\ b.ticket \in Stored
    /\ b.kind # "take" => tickets[b.ticket].owner = u
    /\ b.kind = "rate" => tickets[b.ticket].closedAt # NoTime

\* Whoever is shown buttons is shown such as work.
LEMMA ShownButtonsWork ==
    ASSUME DeskInv, Next
    PROVE  \/ buttons' = buttons
           \/ \E u \in Users, B \in SUBSET Button :
                 /\ Show(u, B)
                 /\ \A b \in B : Works(u, b)
<1> USE DEF Show, On, Works
<1>1. /\ \A s \in Slots : JobIsSound(jobs[s]) /\ jobs[s] \in Job
      /\ Stored \subseteq Ids /\ OwnButtonsWork
  BY StoreAssumption DEF DeskInv, DeskTypeOK, StoreTypeOK, Stored, Ids
<1>2. CASE \E u \in Users : AskToClose(u)
  <2>1. PICK u \in Users, t \in Ids : Has(u, "close", t) /\ Show(u, {On("yes", t)})
    BY <1>2 DEF AskToClose
  <2>2. t \in Stored /\ tickets[t].owner = u
    BY <1>1, <2>1 DEF Has, OwnButtonsWork
  <2>3. {On("yes", t)} \in SUBSET Button
    BY DEF Button, Kinds
  <2>4. \A b \in {On("yes", t)} : Works(u, b)
    BY <2>2
  <2> QED
    BY <2>1, <2>3, <2>4
<1>3. CASE \E s \in Slots : Announce(s)
  <2>1. PICK s \in Slots : Announce(s)
    BY <1>3
  <2> DEFINE t == jobs[s].ticket
             B == {On("take", t)}
  <2>2. jobs[s].whom \subseteq Users /\ t \in Stored
    BY <1>1, <2>1 DEF Announce, At, JobIsSound, Job
  <2>3. B \in SUBSET Button
    BY <1>1, <2>2 DEF Button, Kinds
  <2>4. \A u \in Users, b \in B : Works(u, b)
    BY <2>2
  <2>5. buttons' = buttons \/ \E u \in Users : Show(u, B)
    BY <2>1, <2>2 DEF Announce
  <2> QED
    BY <2>3, <2>4, <2>5
<1>4. CASE \E s \in Slots : Prompt(s)
  <2>1. PICK s \in Slots : Prompt(s)
    BY <1>4
  <2> DEFINE t == jobs[s].ticket
             u == jobs[s].user
             B == {On("rate", t)}
  <2>2. /\ u \in Users /\ t \in Stored /\ tickets[t].owner = u
        /\ tickets[t].closedAt # NoTime
    BY <1>1, <2>1 DEF Prompt, At, JobIsSound, OwnTickets
  <2>3. B \in SUBSET Button
    BY <1>1, <2>2 DEF Button, Kinds
  <2>4. \A b \in B : Works(u, b)
    BY <2>2
  <2>5. Show(u, B) \/ buttons' = buttons
    BY <2>1 DEF Prompt
  <2> QED
    BY <2>2, <2>3, <2>4, <2>5
<1>5. CASE \E s \in Slots : CardsOwn(s)
  <2>1. PICK s \in Slots : CardsOwn(s)
    BY <1>5
  <2> DEFINE u == jobs[s].user
  <2>2. u \in Users /\ jobs[s].cards \subseteq OwnTickets(u)
    BY <1>1, <2>1 DEF CardsOwn, SendCards, At, JobIsSound
  <2>3. CASE \E t \in jobs[s].cards : Show(u, {On(k, t) : k \in {"reply", "close"}})
    <3>1. PICK t \in jobs[s].cards : Show(u, {On(k, t) : k \in {"reply", "close"}})
      BY <2>3
    <3> DEFINE B == {On(k, t) : k \in {"reply", "close"}}
    <3>2. t \in Stored /\ tickets[t].owner = u
      BY <2>2 DEF OwnTickets
    <3>3. B \in SUBSET Button
      BY <1>1, <3>2 DEF Button, Kinds
    <3>4. \A b \in B : Works(u, b)
      BY <3>2
    <3> QED
      BY <2>2, <3>1, <3>3, <3>4
  <2> QED
    BY <2>1, <2>3 DEF CardsOwn, SendCards
<1>6. CASE \E s \in Slots : CardsNew(s)
  <2>1. PICK s \in Slots : CardsNew(s)
    BY <1>6
  <2> DEFINE u == jobs[s].user
  <2>2. u \in Users /\ jobs[s].cards \subseteq Stored
    BY <1>1, <2>1 DEF CardsNew, SendCards, At, JobIsSound
  <2>3. CASE \E t \in jobs[s].cards : Show(u, {On(k, t) : k \in {"take"}})
    <3>1. PICK t \in jobs[s].cards : Show(u, {On(k, t) : k \in {"take"}})
      BY <2>3
    <3> DEFINE B == {On(k, t) : k \in {"take"}}
    <3>2. t \in Stored
      BY <2>2
    <3>3. B \in SUBSET Button
      BY <1>1, <3>2 DEF Button, Kinds
    <3>4. \A b \in B : Works(u, b)
      BY <3>2
    <3> QED
      BY <2>2, <3>1, <3>3, <3>4
  <2> QED
    BY <2>1, <2>3 DEF CardsNew, SendCards
<1> QED
  BY <1>2, <1>3, <1>4, <1>5, <1>6
  DEF Next, Create, Take, Close, Rate, AskForList, Work, ConfirmCreation, ConfirmTake, Greet,
      RefuseTake, ConfirmClose, Thank, Retry, Abort, Crash, Escalate, deskVars

\* The buttons go on leading where they led.
LEMMA ButtonsStep ==
    ASSUME DeskInv, RowsGrow, Next
    PROVE  buttons' \in [Users -> SUBSET Button] /\ OwnButtonsWork'
<1>1. buttons \in [Users -> SUBSET Button]
  BY DEF DeskInv, DeskTypeOK
<1>2. ASSUME NEW u \in Users, NEW b \in Button, Works(u, b)
      PROVE  Works(u, b)'
  BY <1>2 DEF Works, RowsGrow
<1>3. \A u \in Users : \A b \in buttons[u] : Works(u, b)
  BY DEF DeskInv, OwnButtonsWork, Works
<1>4. /\ buttons' \in [Users -> SUBSET Button]
      /\ \A u \in Users : \A b \in buttons'[u] : Works(u, b)
  <2>1. CASE buttons' = buttons
    BY <1>1, <1>3, <2>1
  <2>2. CASE \E u \in Users, B \in SUBSET Button : Show(u, B) /\ \A b \in B : Works(u, b)
    <3>1. PICK u \in Users, B \in SUBSET Button : Show(u, B) /\ \A b \in B : Works(u, b)
      BY <2>2
    <3>2. /\ buttons' \in [Users -> SUBSET Button]
          /\ \A v \in Users : buttons'[v] = IF v = u THEN buttons[v] \cup B ELSE buttons[v]
      BY <1>1, <3>1 DEF Show
    <3> QED
      BY <1>3, <3>1, <3>2
  <2> QED
    BY <2>1, <2>2, ShownButtonsWork
<1>5. \A u \in Users : \A b \in buttons'[u] : Works(u, b)'
  BY <1>2, <1>4
<1> QED
  BY <1>4, <1>5 DEF OwnButtonsWork, Works

-----------------------------------------------------------------------------
(***************************************************************************)
(* The theorems.                                                           *)
(***************************************************************************)

\* A crash costs as many faults as it kills handlers.
LEMMA FaultsStep ==
    ASSUME DeskInv, Next
    PROVE  faults' \in 0 .. MaxFaults
<1>1. faults \in 0 .. MaxFaults /\ MaxFaults \in Nat
  BY DeskAssumption DEF DeskInv, DeskTypeOK
<1>2. CASE faults' = faults \/ Fault
  BY <1>1, <1>2 DEF Fault
<1>3. CASE Crash
  <2>1. Cardinality(Killed) \in Nat
    BY DeskAssumption, FS_Subset, FS_CardinalityType DEF Killed
  <2> QED
    BY <1>1, <1>3, <2>1 DEF Crash
<1> QED
  BY <1>2, <1>3
  DEF Next, Create, Take, AskToClose, Close, Rate, AskForList, Work, ConfirmCreation, Announce,
      ConfirmTake, Greet, RefuseTake, ConfirmClose, Prompt, Thank, CardsOwn, CardsNew, SendCards,
      Retry, Abort, Escalate, deskVars

\* In the beginning nobody has been told or shown anything.
LEMMA DeskInitInv == Init => DeskInv
<1> SUFFICES ASSUME Init
             PROVE  DeskInv
  OBVIOUS
<1>1. StoreTypeOK /\ StatusTellsTheRow
  BY StoreInitInv DEF Init, StoreInv
<1>2. DeskTypeOK
  BY <1>1, IdleIsAJob, DeskAssumption DEF Init, DeskTypeOK, News, NoNews
<1>3. NewsIsTrue /\ OwnButtonsWork /\ EscalatedWasTaken
  BY DEF Init, NewsIsTrue, NoNews, OwnButtonsWork, EscalatedWasTaken, StoreInit, Absent
<1>4. \A s \in Slots : jobs[s].at = "idle"
  BY DEF Init, Idle
<1> QED
  BY <1>1, <1>2, <1>3, <1>4 DEF DeskInv, JobIsSound, OneSpeaker, Winning, At

\* The status `escalated' is only given to a ticket that has a manager.
LEMMA EscalatedStep ==
    ASSUME DeskInv, Next
    PROVE  EscalatedWasTaken'
<1> USE StoreAssumption
<1>1. /\ tickets \in [Ids -> Ticket] /\ Stored \subseteq Ids /\ lastId \in Nat
      /\ \A t \in Ids : tickets[t] \in Ticket
      /\ \A t \in Ids : tickets[t].status = "escalated" => tickets[t].manager # NoUser
  BY DEF DeskInv, DeskTypeOK, StoreTypeOK, EscalatedWasTaken, Stored, Ids
<1>2. ASSUME NEW n \in Ids, NEW row, tickets' = [tickets EXCEPT ![n] = row],
             row.status = "escalated" => row.manager # NoUser
      PROVE  EscalatedWasTaken'
  BY <1>1, <1>2 DEF EscalatedWasTaken
<1>3. CASE tickets' = tickets
  BY <1>1, <1>3 DEF EscalatedWasTaken
<1>4. CASE \E u \in Users : Create(u)
  <2>1. PICK u \in Users : tickets' = [tickets EXCEPT ![lastId + 1] = NewTicket(u)]
    BY <1>4 DEF Create, CreateTicket
  <2>2. lastId + 1 \in Ids /\ NewTicket(u).status = "new"
    BY <1>1, <1>4 DEF Create, CreateTicket, Ids, NewTicket
  <2> QED
    BY <1>2, <2>1, <2>2
<1>5. CASE \E u \in Users, t \in Ids : TakeTicket(t, u)
  <2>1. PICK u \in Users, t \in Ids :
            tickets' = [tickets EXCEPT ![t] = [@ EXCEPT !.manager = u, !.status = "taken"]]
    BY <1>1, <1>5 DEF TakeTicket
  <2> DEFINE row == [tickets[t] EXCEPT !.manager = u, !.status = "taken"]
  <2>2. tickets' = [tickets EXCEPT ![t] = row] /\ row.status = "taken"
    BY <1>1, <2>1 DEF Ticket
  <2> HIDE DEF row
  <2> QED
    BY <1>2, <2>2
<1>6. CASE \E u \in Users, t \in Ids : CloseTicket(t, u)
  <2>1. PICK u \in Users, t \in Ids :
            tickets' = [tickets EXCEPT ![t] = [@ EXCEPT !.status = "closed", !.closedAt = now]]
    BY <1>1, <1>6 DEF CloseTicket
  <2> DEFINE row == [tickets[t] EXCEPT !.status = "closed", !.closedAt = now]
  <2>2. tickets' = [tickets EXCEPT ![t] = row] /\ row.status = "closed"
    BY <1>1, <2>1 DEF Ticket
  <2> HIDE DEF row
  <2> QED
    BY <1>2, <2>2
<1>7. CASE Escalate
  <2>1. PICK t \in Stored : /\ tickets[t].manager # NoUser
                            /\ tickets' = [tickets EXCEPT ![t] = [@ EXCEPT !.status = "escalated"]]
    BY <1>7 DEF Escalate, EscalateTicket
  <2> DEFINE row == [tickets[t] EXCEPT !.status = "escalated"]
  <2>2. tickets' = [tickets EXCEPT ![t] = row] /\ row.manager # NoUser /\ t \in Ids
    BY <1>1, <2>1 DEF Ticket
  <2> HIDE DEF row
  <2> QED
    BY <1>2, <2>2
<1> QED
  BY <1>3, <1>4, <1>5, <1>6, <1>7
  DEF Next, Take, AskToClose, Close, Rate, AddFeedback, AskForList, Work, ConfirmCreation, Announce,
      ConfirmTake, Greet, RefuseTake, ConfirmClose, Prompt, Thank, CardsOwn, CardsNew, SendCards,
      Retry, Abort, Crash, storeVars

(***************************************************************************)
(* The inductive invariant: what a handler relies on past its transaction  *)
(* is what no other handler can undo.                                      *)
(***************************************************************************)
THEOREM DeskInvariant == Spec => []DeskInv
<1>1. ASSUME DeskInv, [Next]_vars
      PROVE  DeskInv'
  <2>1. StoreInv
    BY <1>1 DEF DeskInv, DeskTypeOK, StoreInv
  <2>2. CASE Next
    <3>1. StoreStep \/ UNCHANGED storeVars
      BY <1>1, <2>2, DeskStoreStep, StoreNextSteps DEF DeskInv, DeskTypeOK
    <3>2. RowsGrow
      BY <2>1, <3>1, StoreStepGrows
    <3>3. StoreTypeOK' /\ StatusTellsTheRow'
      <4>1. CASE StoreStep
        BY <2>1, <4>1, StoreStepType, StoreStepRows DEF StoreInv
      <4>2. CASE UNCHANGED storeVars
        BY <2>1, <4>2
        DEF storeVars, StoreInv, StoreTypeOK, StatusTellsTheRow, RowIsConsistent, Stored
      <4> QED
        BY <3>1, <4>1, <4>2
    <3>4. DeskTypeOK'
      BY <1>1, <2>2, <3>2, <3>3, JobsStep, NewsStep, ButtonsStep, FaultsStep DEF DeskTypeOK
    <3> QED
      BY <1>1, <2>2, <3>2, <3>3, <3>4, JobsStep, NewsStep, ButtonsStep, EscalatedStep
      DEF DeskInv, JobsInv
  <2>3. CASE UNCHANGED vars
    BY <1>1, <2>3
    DEF vars, deskVars, storeVars, DeskInv, DeskTypeOK, StoreTypeOK, StatusTellsTheRow,
        RowIsConsistent, Stored, NewsIsTrue, OwnButtonsWork, JobIsSound, OwnTickets, OneSpeaker,
        Winning, At, Gone, EscalatedWasTaken
  <2> QED
    BY <1>1, <2>2, <2>3
<1> QED
  BY <1>1, DeskInitInv, PTL DEF Spec

(***************************************************************************)
(* The variables of the desk keep their types.                             *)
(***************************************************************************)
THEOREM DeskTypeCorrect == Spec => []DeskTypeOK
<1>1. DeskInv => DeskTypeOK
  BY DEF DeskInv
<1> QED
  BY <1>1, DeskInvariant, PTL

(***************************************************************************)
(* What people are told of a ticket is true and stays true, however many   *)
(* press at the same time: the one manager whose the ticket is, those whom *)
(* he or the closing of the ticket forestalled, the client who created,    *)
(* closed or rated it, once it is stored, and the client who is told of a  *)
(* manager, once.                                                          *)
(***************************************************************************)
THEOREM NewsAreTrue == Spec => []NewsIsTrue
<1>1. DeskInv => NewsIsTrue
  BY DEF DeskInv
<1> QED
  BY <1>1, DeskInvariant, PTL

(***************************************************************************)
(* Only the owner of a ticket is ever shown a button to answer, to close   *)
(* or to rate it, and the last one only when it has been closed.           *)
(***************************************************************************)
THEOREM ButtonsWork == Spec => []OwnButtonsWork
<1>1. DeskInv => OwnButtonsWork
  BY DEF DeskInv
<1> QED
  BY <1>1, DeskInvariant, PTL

(***************************************************************************)
(* However the presses of any number of people interleave, fail or are cut *)
(* off, their handlers do to the tables what the service alone might have  *)
(* done.                                                                   *)
(***************************************************************************)
THEOREM DeskIsOnlyTheService == Spec => OnlyTheService
<1>1. Init => StoreInit
  BY DEF Init
<1>2. DeskInv /\ [Next]_vars => [UNCHANGED storeVars \/ StoreNext]_storeVars
  BY DeskStoreStep DEF DeskInv, vars
<1> QED
  BY <1>1, <1>2, DeskInvariant, PTL DEF Spec, OnlyTheService

(***************************************************************************)
(* So managers racing for a ticket, and owners for its end and its rating, *)
(* keep the contract of a ticket's life: one manager, one end, one rating. *)
(***************************************************************************)
THEOREM DeskImplementsContract == Spec => ImplementsContract
BY DeskIsOnlyTheService, ServiceIsTheStore, StoreImplementsContract

(***************************************************************************)
(* And the log of a ticket tells which of the racing managers has it.      *)
(***************************************************************************)
THEOREM DeskLogsAreFaithful == Spec => []LogTellsTheRow
BY DeskIsOnlyTheService, ServiceIsTheStore, LogsAreFaithful

-----------------------------------------------------------------------------
(***************************************************************************)
(* How many new tickets a number of faults can hide from a manager.        *)
(***************************************************************************)

\* The handler at s has yet to announce its ticket to m.
Owes(s, m) == At(s, "confirm") \/ (At(s, "announce") /\ m \in jobs[s].whom)

\* The tickets whose take button m has not been shown and never will be by a handler
\* now at work.
Lost(m) ==
    {t \in Stored : /\ On("take", t) \notin buttons[m]
                    /\ \A s \in Slots : ~ (Owes(s, m) /\ jobs[s].ticket = t)}

\* Nobody is shown fewer buttons.
LEMMA ButtonsStay ==
    ASSUME DeskInv, Next
    PROVE  \A m \in Users : buttons[m] \subseteq buttons'[m]
<1>1. buttons \in [Users -> SUBSET Button]
  BY DEF DeskInv, DeskTypeOK
<1> QED
  BY <1>1, ShownButtonsWork DEF Show

\* A step of one handler: what it owed is paid, still owed, or lost.
LEMMA OneHandlerLoses ==
    ASSUME DeskInv, NEW m \in Users, NEW s \in Slots, Stored' = Stored,
           buttons[m] \subseteq buttons'[m],
           \A r \in Slots : r # s => jobs'[r] = jobs[r]
    PROVE  /\ Lost(m)' \subseteq Lost(m) \cup {jobs[s].ticket}
           /\ (\/ ~ Owes(s, m)
               \/ Owes(s, m)' /\ jobs'[s].ticket = jobs[s].ticket
               \/ On("take", jobs[s].ticket) \in buttons'[m])
              => Lost(m)' \subseteq Lost(m)
<1>1. ASSUME NEW t \in Lost(m)'
      PROVE  /\ t \in Stored /\ On("take", t) \notin buttons[m] /\ On("take", t) \notin buttons'[m]
             /\ \A r \in Slots : r # s => ~ (Owes(r, m) /\ jobs[r].ticket = t)
             /\ ~ (Owes(s, m)' /\ jobs'[s].ticket = t)
  <2>1. t \in Stored' /\ On("take", t) \notin buttons'[m]
    BY <1>1 DEF Lost, On
  <2>2. \A r \in Slots : ~ (Owes(r, m)' /\ jobs'[r].ticket = t)
    BY <1>1 DEF Lost
  <2>3. \A r \in Slots : r # s => (Owes(r, m)' <=> Owes(r, m)) /\ jobs'[r].ticket = jobs[r].ticket
    BY DEF Owes, At
  <2> QED
    BY <2>1, <2>2, <2>3
<1>2. ASSUME NEW t \in Lost(m)', ~ (Owes(s, m) /\ jobs[s].ticket = t)
      PROVE  t \in Lost(m)
  BY <1>1, <1>2 DEF Lost
<1> QED
  BY <1>1, <1>2

\* The arrival of an update loses nothing.
LEMMA ArrivalsLoseNothing ==
    ASSUME DeskInv, NEW m \in Users, NEW u \in Users,
           Create(u) \/ Take(u) \/ AskToClose(u) \/ Close(u) \/ Rate(u) \/ AskForList(u)
    PROVE  Lost(m)' \subseteq Lost(m)
<1>1. buttons[m] \subseteq buttons'[m]
  <2>1. Next
    BY DEF Next
  <2> QED
    BY <2>1, ButtonsStay
<1>2. jobs \in [Slots -> Job] /\ lastId \in Nat
  BY DEF DeskInv, DeskTypeOK, StoreTypeOK
<1>3. CASE Create(u)
  <2>1. lastId' = lastId + 1 /\ buttons' = buttons
    BY <1>3 DEF Create, CreateTicket
  <2>2. PICK s \in Slots : /\ jobs[s] = Idle
                           /\ jobs' = [jobs EXCEPT ![s] = Started(u, "confirm", lastId + 1, {})]
    BY <1>3 DEF Create, Start
  <2>3. Owes(s, m)' /\ jobs'[s].ticket = lastId + 1
    BY <1>2, <2>2 DEF Owes, At, Started
  <2>4. Stored' = Stored \cup {lastId + 1}
    BY <1>2, <2>1 DEF Stored
  <2>5. ASSUME NEW t \in Lost(m)' PROVE t \in Lost(m)
    <3>1. /\ t \in Stored /\ On("take", t) \notin buttons[m]
          /\ \A r \in Slots : ~ (Owes(r, m)' /\ jobs'[r].ticket = t)
      <4>1. t \in Stored' /\ On("take", t) \notin buttons'[m]
        BY <2>5 DEF Lost, On
      <4>2. \A r \in Slots : ~ (Owes(r, m)' /\ jobs'[r].ticket = t)
        BY <2>5 DEF Lost
      <4> QED
        BY <2>1, <2>3, <2>4, <4>1, <4>2
    <3>2. ASSUME NEW r \in Slots, Owes(r, m) PROVE Owes(r, m)' /\ jobs'[r].ticket = jobs[r].ticket
      <4>1. r # s
        BY <2>2, <3>2 DEF Owes, At, Idle
      <4> QED
        BY <1>2, <2>2, <3>2, <4>1 DEF Owes, At
    <3> QED
      BY <3>1, <3>2 DEF Lost
  <2> QED
    BY <2>5
<1>4. CASE Take(u) \/ Close(u) \/ Rate(u) \/ AskForList(u)
  <2>1. Stored' = Stored
    BY <1>4 DEF Take, TakeTicket, Close, CloseTicket, Rate, AddFeedback, AskForList, storeVars, Stored
  <2>2. PICK s \in Slots : jobs[s] = Idle /\ \E k : jobs' = [jobs EXCEPT ![s] = k]
    BY <1>4 DEF Take, Close, Rate, AskForList, Start
  <2>3. ~ Owes(s, m)
    BY <2>2 DEF Owes, At, Idle
  <2> QED
    BY <1>1, <1>2, <2>1, <2>2, <2>3, OneHandlerLoses
<1>5. CASE AskToClose(u)
  BY <1>1, <1>5 DEF AskToClose, Lost, Owes, At, On, storeVars, Stored
<1> QED
  BY <1>3, <1>4, <1>5

\* A handler at work loses its ticket to a manager by a fault, or not at all.
LEMMA WorkLosesByFault ==
    ASSUME DeskInv, NEW m \in Staff, NEW s \in Slots, Work(s) \/ Retry(s) \/ Abort(s)
    PROVE  /\ Lost(m)' \subseteq Lost(m) \cup {jobs[s].ticket}
           /\ \/ Lost(m)' \subseteq Lost(m) /\ faults' \in {faults, faults + 1}
              \/ faults' = faults + 1
<1>1. m \in Users /\ jobs \in [Slots -> Job] /\ buttons \in [Users -> SUBSET Button]
  BY DeskAssumption DEF DeskInv, DeskTypeOK
<1>2. Stored' = Stored /\ buttons[m] \subseteq buttons'[m] /\ \E k : jobs' = [jobs EXCEPT ![s] = k]
  <2>1. Next
    BY DEF Next
  <2>2. buttons[m] \subseteq buttons'[m]
    BY <1>1, <2>1, ButtonsStay
  <2>3. lastId' = lastId /\ \E k : jobs' = [jobs EXCEPT ![s] = k]
    BY DEF Work, ConfirmCreation, Announce, ConfirmTake, Greet, RefuseTake, ConfirmClose, Prompt, Thank,
           CardsOwn, CardsNew, SendCards, Retry, Abort, GoTo, End, storeVars
  <2> QED
    BY <2>2, <2>3 DEF Stored
<1>3. \A r \in Slots : r # s => jobs'[r] = jobs[r]
  BY <1>1, <1>2
<1>4. Lost(m)' \subseteq Lost(m) \cup {jobs[s].ticket}
  BY <1>1, <1>2, <1>3, OneHandlerLoses
<1>5. faults' = faults \/ faults' = faults + 1
  BY DEF Work, ConfirmCreation, Announce, ConfirmTake, Greet, RefuseTake, ConfirmClose, Prompt, Thank,
         CardsOwn, CardsNew, SendCards, Retry, Abort, Fault
<1>6. CASE Announce(s)
  <2>1. At(s, "announce")
    BY <1>6 DEF Announce
  <2>2. ASSUME NEW w \in jobs[s].whom, jobs' = [jobs EXCEPT ![s].whom = @ \ {w}], w # m
        PROVE  Owes(s, m) => Owes(s, m)' /\ jobs'[s].ticket = jobs[s].ticket
    BY <1>1, <2>1, <2>2 DEF Owes, At, Job
  <2>3. \/ faults' = faults + 1
        \/ Owes(s, m) => \/ Owes(s, m)' /\ jobs'[s].ticket = jobs[s].ticket
                         \/ On("take", jobs[s].ticket) \in buttons'[m]
    <3>1. CASE jobs[s].whom = {}
      BY <2>1, <3>1 DEF Owes, At
    <3>2. ASSUME NEW w \in jobs[s].whom, jobs' = [jobs EXCEPT ![s].whom = @ \ {w}],
                 Show(w, {On("take", jobs[s].ticket)})
          PROVE  Owes(s, m) => \/ Owes(s, m)' /\ jobs'[s].ticket = jobs[s].ticket
                               \/ On("take", jobs[s].ticket) \in buttons'[m]
      <4>1. CASE w = m
        BY <1>1, <3>2, <4>1 DEF Show
      <4>2. CASE w # m
        BY <2>2, <3>2, <4>2
      <4> QED
        BY <4>1, <4>2
    <3> QED
      BY <1>6, <3>1, <3>2 DEF Announce, Fault
  <2> QED
    BY <1>1, <1>2, <1>3, <1>4, <1>5, <2>3, OneHandlerLoses
<1>7. CASE ConfirmCreation(s)
  <2>1. Owes(s, m)' /\ jobs'[s].ticket = jobs[s].ticket
    BY <1>1, <1>7 DEF ConfirmCreation, Owes, At, Job
  <2> QED
    BY <1>1, <1>2, <1>3, <1>4, <1>5, <2>1, OneHandlerLoses
<1>8. CASE Abort(s)
  BY <1>4, <1>8 DEF Abort, Fault
<1>9. CASE \/ ConfirmTake(s) \/ Greet(s) \/ RefuseTake(s) \/ ConfirmClose(s) \/ Prompt(s)
           \/ Thank(s) \/ CardsOwn(s) \/ CardsNew(s) \/ Retry(s)
  <2>1. ~ Owes(s, m)
    BY <1>9 DEF ConfirmTake, Greet, RefuseTake, ConfirmClose, Prompt, Thank, CardsOwn, CardsNew,
                SendCards, Retry, Owes, At
  <2> QED
    BY <1>1, <1>2, <1>3, <1>4, <1>5, <2>1, OneHandlerLoses
<1> QED
  BY <1>6, <1>7, <1>8, <1>9 DEF Work

\* When the process dies each handler it kills loses one ticket at most.
LEMMA CrashLosesOneEach ==
    ASSUME DeskInv, NEW m \in Users, Crash, IsFiniteSet(Lost(m)), Cardinality(Lost(m)) <= faults
    PROVE  Cardinality(Lost(m)') <= faults'
<1> DEFINE f == [s \in Killed |-> jobs[s].ticket]
           T == {f[s] : s \in Killed}
<1>1. IsFiniteSet(Killed) /\ Cardinality(Killed) \in Nat
  BY DeskAssumption, FS_Subset, FS_CardinalityType DEF Killed
<1>2. f \in Surjection(Killed, T)
  BY DEF Surjection
<1>3. IsFiniteSet(T) /\ Cardinality(T) <= Cardinality(Killed) /\ Cardinality(T) \in Nat
  BY <1>1, <1>2, FS_Surjection, FS_CardinalityType
<1>4. \A s \in Slots : Owes(s, m) => jobs[s].ticket \in T
  BY DEF Owes, At, Killed, Idle
<1> HIDE DEF f, T
<1>5. Lost(m)' \subseteq Lost(m) \cup T
  BY <1>4 DEF Crash, Lost, On, storeVars, Stored
<1>6. /\ IsFiniteSet(Lost(m) \cup T)
      /\ Cardinality(Lost(m) \cup T) <= Cardinality(Lost(m)) + Cardinality(T)
  <2>1. /\ IsFiniteSet(Lost(m) \cup T)
        /\ Cardinality(Lost(m) \cup T) =
               Cardinality(Lost(m)) + Cardinality(T) - Cardinality(Lost(m) \cap T)
    BY <1>3, FS_Union
  <2>2. Cardinality(Lost(m) \cap T) \in Nat /\ Cardinality(Lost(m)) \in Nat
    BY FS_Intersection, FS_CardinalityType
  <2> QED
    BY <1>3, <2>1, <2>2
<1>7. /\ Cardinality(Lost(m)') <= Cardinality(Lost(m) \cup T) /\ Cardinality(Lost(m)') \in Nat
      /\ Cardinality(Lost(m) \cup T) \in Nat /\ Cardinality(Lost(m)) \in Nat
  BY <1>5, <1>6, FS_Subset, FS_CardinalityType
<1>8. faults' = faults + Cardinality(Killed) /\ faults \in Nat
  BY DeskAssumption DEF Crash, DeskInv, DeskTypeOK
<1> QED
  BY <1>1, <1>3, <1>6, <1>7, <1>8

(***************************************************************************)
(* However many people press and open tickets at the same time, a manager  *)
(* misses the announcement of no more tickets than there have been faults. *)
(***************************************************************************)
THEOREM FaultsHideLittle == Spec => []FaultsHideOneTicketEach
<1> DEFINE LostInv == \A m \in Staff : Cardinality(Lost(m)) <= faults
<1>1. Init => LostInv
  <2> SUFFICES ASSUME Init, NEW m \in Staff PROVE Lost(m) = {} /\ faults = 0
    BY FS_EmptySet
  <2>1. Stored = {}
    BY DEF Init, StoreInit, Stored
  <2> QED
    BY <2>1 DEF Init, Lost
<1>2. ASSUME DeskInv, LostInv, [Next]_vars
      PROVE  LostInv'
  <2> SUFFICES ASSUME NEW m \in Staff PROVE Cardinality(Lost(m)') <= faults'
    OBVIOUS
  <2> DEFINE n == Cardinality(Lost(m))
             k == Cardinality(Lost(m)')
  <2>1. IsFiniteSet(Lost(m)) /\ faults \in Nat /\ m \in Users /\ n <= faults
    <3>1. m \in Users /\ n <= faults
      BY <1>2, DeskAssumption
    <3>2. lastId \in 0 .. MaxTickets /\ faults \in Nat
      BY <1>2, DeskAssumption DEF DeskInv, DeskTypeOK, StoreTypeOK
    <3>3. Lost(m) \subseteq Ids
      BY <3>2, StoreAssumption DEF Lost, Stored, Ids
    <3> QED
      BY <3>1, <3>2, <3>3, IdsAreFinite
  <2>2. ASSUME NEW x, Lost(m)' \subseteq Lost(m) \cup {x},
               \/ Lost(m)' \subseteq Lost(m) /\ faults' \in {faults, faults + 1}
               \/ faults' = faults + 1
        PROVE  k <= faults'
    <3>1. n \in Nat /\ k \in Nat /\ k <= n + 1 /\ (Lost(m)' \subseteq Lost(m) => k <= n)
      BY <2>1, <2>2, OneElementMore
    <3> HIDE DEF n, k
    <3> QED
      BY <2>1, <2>2, <3>1
  <2>3. ASSUME Lost(m)' \subseteq Lost(m), faults' = faults
        PROVE  k <= faults'
    BY <2>2, <2>3
  <2>4. ASSUME NEW u \in Users,
               Create(u) \/ Take(u) \/ AskToClose(u) \/ Close(u) \/ Rate(u) \/ AskForList(u)
        PROVE  k <= faults'
    <3>1. faults' = faults
      BY <2>4 DEF Create, Take, AskToClose, Close, Rate, AskForList
    <3> QED
      BY <1>2, <2>1, <2>3, <2>4, <3>1, ArrivalsLoseNothing
  <2>5. ASSUME NEW s \in Slots, Work(s) \/ Retry(s) \/ Abort(s)
        PROVE  k <= faults'
    BY <1>2, <2>2, <2>5, WorkLosesByFault
  <2>6. CASE Crash
    BY <1>2, <2>1, <2>6, CrashLosesOneEach
  <2>7. CASE Escalate \/ UNCHANGED vars
    <3>1. Lost(m)' \subseteq Lost(m) /\ faults' = faults
      BY <2>7 DEF Escalate, EscalateTicket, vars, deskVars, storeVars, Lost, Owes, At, On, Stored
    <3> QED
      BY <2>3, <3>1
  <2> QED
    BY <1>2, <2>4, <2>5, <2>6, <2>7 DEF Next
<1>3. DeskInv /\ LostInv => FaultsHideOneTicketEach
  <2> SUFFICES ASSUME DeskInv, LostInv, NEW m \in Staff PROVE Cardinality(Missed(m)) <= faults
    BY DEF FaultsHideOneTicketEach
  <2>1. Missed(m) \subseteq Lost(m)
    BY DEF Missed, Lost, Announcing, Owes, At
  <2>2. IsFiniteSet(Lost(m)) /\ faults \in Nat
    BY IdsAreFinite, StoreAssumption, DeskAssumption
    DEF Lost, DeskInv, DeskTypeOK, StoreTypeOK, Stored, Ids
  <2>3. /\ Cardinality(Missed(m)) <= Cardinality(Lost(m))
        /\ Cardinality(Missed(m)) \in Nat /\ Cardinality(Lost(m)) \in Nat
    BY <2>1, <2>2, OneElementMore
  <2>4. Cardinality(Lost(m)) <= faults
    OBVIOUS
  <2> QED
    BY <2>2, <2>3, <2>4
<1> HIDE DEF LostInv
<1> QED
  BY <1>1, <1>2, <1>3, DeskInvariant, PTL DEF Spec
=============================================================================
