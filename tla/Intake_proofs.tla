--------------------------- MODULE Intake_proofs ---------------------------
(***************************************************************************)
(* What holds of the messages' way to their handlers for any number of     *)
(* people, messages, restarts and attempts, however the clock is corrected.*)
(***************************************************************************)
EXTENDS Intake, TLAPS, FiniteSetTheorems

\* What no step of a handler touches.
LEMMA WorkIsQuiet ==
    ASSUME NEW i \in Updates, Work(i)
    PROVE  UNCHANGED <<sent, pending, up, now, back, restarts, batch, offset, last, heard,
                       since, runs, refused, lost>>
<1>1. CASE Judge(i)
  BY <1>1 DEF Judge
<1>2. CASE Admit(i)
  BY <1>2 DEF Admit
<1>3. CASE Change(i) \/ Fail(i) \/ Answer(i) \/ Retry(i)
  BY <1>3 DEF Change, Fail, Answer, Retry, history
<1> QED
  BY <1>1, <1>2, <1>3 DEF Work

-----------------------------------------------------------------------------
(***************************************************************************)
(* The updates.  Those fetched, and those the next request would fetch,    *)
(* have not been given to a handler; those sent since the start are        *)
(* settled or lost, or are fetched, or the next request would fetch them.  *)
(***************************************************************************)
UpdatesOK ==
    /\ Len(sent) \in 0 .. MaxUpdates
    /\ pending \subseteq 1 .. Len(sent)
    /\ batch \subseteq 1 .. offset
    /\ offset \in 0 .. Len(sent)
    /\ since \in 0 .. Len(sent)
    /\ up \in BOOLEAN
    /\ sent \in Seq(Message)
    /\ runs \in [Updates -> Nat]

Fetchable(i) == i \in pending /\ i > offset

Gone(i) == Settled(i) \/ i \in lost

NotYetGiven ==
    /\ \A i \in Updates : i > Len(sent) => runs[i] = 0
    /\ \A i \in Updates : i \in batch \/ (up /\ Fetchable(i)) => runs[i] = 0
    /\ ~ up => batch = {} /\ offset = 0

Accounted ==
    up => \A i \in since + 1 .. Len(sent) : Gone(i) \/ i \in batch \/ Fetchable(i)

UpdatesInv == UpdatesOK /\ NotYetGiven /\ Accounted /\ HandledOnce

LEMMA UpdatesInvInit == Init => UpdatesInv
<1> SUFFICES ASSUME Init PROVE UpdatesInv
  OBVIOUS
<1>1. Len(sent) = 0 /\ sent \in Seq(Message) /\ runs = [i \in Updates |-> 0]
  BY DEF Init
<1> QED
  BY <1>1, IntakeAssumption DEF Init, UpdatesInv, UpdatesOK, NotYetGiven, Accounted, HandledOnce,
     Updates

\* A step that leaves the updates where they are.
LEMMA UpdatesInvUnchanged ==
    ASSUME UpdatesInv, UNCHANGED <<sent, pending, up, batch, offset, since, runs, refused, lost>>
    PROVE  UpdatesInv'
BY DEF UpdatesInv, UpdatesOK, NotYetGiven, Accounted, HandledOnce, Gone, Settled, Fetchable, Updates

LEMMA UpdatesInvSend ==
    ASSUME UpdatesInv, NEW u \in People, NEW kind \in Sendable, Send(u, kind)
    PROVE  UpdatesInv'
<1> USE IntakeAssumption
<1>1. /\ sent' \in Seq(Message) /\ Len(sent') = Len(sent) + 1
      /\ Len(sent) < MaxUpdates /\ pending' = pending \cup {Len(sent) + 1}
      /\ UNCHANGED <<up, batch, offset, since, runs, refused, lost>>
  <2>1. [user |-> u, kind |-> kind] \in Message
    BY DEF Message
  <2> QED
    BY <2>1 DEF Send, memory, history, UpdatesInv, UpdatesOK
<1>2. UpdatesOK'
  <2>1. 1 .. Len(sent) \cup {Len(sent) + 1} \subseteq 1 .. Len(sent')
    BY <1>1 DEF UpdatesInv, UpdatesOK
  <2>2. pending' \subseteq 1 .. Len(sent')
    BY <1>1, <2>1 DEF UpdatesInv, UpdatesOK
  <2> QED
    BY <1>1, <2>2 DEF UpdatesInv, UpdatesOK
<1>3. NotYetGiven'
  BY <1>1 DEF UpdatesInv, UpdatesOK, NotYetGiven, Fetchable, Updates
<1>4. Accounted'
  BY <1>1 DEF UpdatesInv, UpdatesOK, Accounted, Fetchable, Gone, Settled, Updates
<1> QED
  BY <1>1, <1>2, <1>3, <1>4 DEF UpdatesInv, HandledOnce

LEMMA UpdatesInvCrash ==
    ASSUME UpdatesInv, Crash
    PROVE  UpdatesInv'
<1>1. up' = FALSE /\ batch' = {} /\ offset' = 0 /\ UNCHANGED <<sent, pending, since, runs, refused, lost>>
  BY DEF Crash, Forgotten, history
<1>2. UpdatesOK'
  <2>1. 0 \in 0 .. Len(sent) /\ Len(sent) \in Int
    BY IntakeAssumption DEF UpdatesInv, UpdatesOK
  <2>2. batch' \subseteq 1 .. offset' /\ offset' \in 0 .. Len(sent)
    BY <1>1, <2>1
  <2>3. sent' = sent /\ pending' = pending /\ since' = since /\ runs' = runs /\ up' \in BOOLEAN
    BY <1>1
  <2> QED
    BY <2>2, <2>3 DEF UpdatesInv, UpdatesOK
<1>3. NotYetGiven' /\ Accounted'
  BY <1>1 DEF UpdatesInv, NotYetGiven, Accounted
<1> QED
  BY <1>1, <1>2, <1>3 DEF UpdatesInv, HandledOnce

LEMMA UpdatesInvBoot ==
    ASSUME UpdatesInv, Boot
    PROVE  UpdatesInv'
<1>1. /\ ~ up /\ up' /\ pending' = {} /\ since' = Len(sent)
      /\ UNCHANGED <<sent, batch, offset, runs, refused, lost>>
  BY DEF Boot, memory
<1> QED
  BY <1>1 DEF UpdatesInv, UpdatesOK, NotYetGiven, Accounted, HandledOnce, Fetchable

LEMMA UpdatesInvPoll ==
    ASSUME UpdatesInv, Poll
    PROVE  UpdatesInv'
<1> USE IntakeAssumption
<1>1. /\ up /\ pending' = {i \in pending : i > offset} /\ batch' = batch \cup pending'
      /\ offset' = Len(sent)
      /\ UNCHANGED <<sent, up, since, runs, refused, lost>>
  BY DEF Poll, history
<1>2. UpdatesOK'
  <2>1. batch \subseteq 1 .. Len(sent)
    BY DEF UpdatesInv, UpdatesOK
  <2>2. batch' \subseteq 1 .. Len(sent) /\ pending' \subseteq 1 .. Len(sent)
    BY <1>1, <2>1 DEF UpdatesInv, UpdatesOK
  <2> QED
    BY <1>1, <2>2 DEF UpdatesInv, UpdatesOK
<1>3. NotYetGiven'
  BY <1>1 DEF UpdatesInv, UpdatesOK, NotYetGiven, Fetchable, Updates
<1>4. Accounted'
  BY <1>1 DEF UpdatesInv, UpdatesOK, Accounted, Fetchable, Gone, Settled, Updates
<1> QED
  BY <1>1, <1>2, <1>3, <1>4 DEF UpdatesInv, HandledOnce

\* What becomes of an update at its dispatch.
LEMMA DispatchSettles ==
    ASSUME NEW i \in batch, Dispatch(i), UpdatesOK
    PROVE  /\ batch' = batch \ {i}
           /\ \/ lost' = lost \cup {i} /\ UNCHANGED <<runs, refused>>
              \/ refused' = refused \cup {i} /\ UNCHANGED <<runs, lost>>
              \/ runs' = [runs EXCEPT ![i] = @ + 1] /\ UNCHANGED <<refused, lost>>
           /\ UNCHANGED <<sent, pending, up, offset, since>>
BY DEF Dispatch, Misread, Drop, Throttle, Begin

LEMMA UpdatesInvDispatch ==
    ASSUME UpdatesInv, NEW i \in batch, Dispatch(i)
    PROVE  UpdatesInv'
<1> USE IntakeAssumption
<1>1. /\ batch' = batch \ {i}
      /\ \/ lost' = lost \cup {i} /\ UNCHANGED <<runs, refused>>
         \/ refused' = refused \cup {i} /\ UNCHANGED <<runs, lost>>
         \/ runs' = [runs EXCEPT ![i] = @ + 1] /\ UNCHANGED <<refused, lost>>
      /\ UNCHANGED <<sent, pending, up, offset, since>>
  BY DispatchSettles DEF UpdatesInv
<1>2. i \in Updates /\ i <= offset /\ i <= Len(sent) /\ runs[i] = 0
  <2>1. i \in 1 .. offset
    BY DEF UpdatesInv, UpdatesOK
  <2>2. i \in Updates /\ i <= offset /\ i <= Len(sent)
    BY <2>1 DEF UpdatesInv, UpdatesOK, Updates
  <2>3. \A j \in Updates : j \in batch => runs[j] = 0
    BY DEF UpdatesInv, NotYetGiven
  <2> QED
    BY <2>2, <2>3
<1>3. UpdatesOK'
  BY <1>1, <1>2 DEF UpdatesInv, UpdatesOK
<1>4. \A j \in Updates : j # i => runs'[j] = runs[j]
  BY <1>1, <1>2 DEF UpdatesInv, UpdatesOK
<1>5. Gone(i)' /\ runs'[i] <= 1
  BY <1>1, <1>2 DEF UpdatesInv, UpdatesOK, Gone, Settled
<1>6. NotYetGiven'
  BY <1>1, <1>2, <1>4 DEF UpdatesInv, UpdatesOK, NotYetGiven, Fetchable, Updates
<1>7. Accounted'
  <2> SUFFICES ASSUME up, NEW j \in since + 1 .. Len(sent)
               PROVE  Gone(j)' \/ j \in batch' \/ Fetchable(j)'
    BY <1>1 DEF Accounted
  <2>1. j \in Updates
    BY DEF UpdatesInv, UpdatesOK, Updates
  <2>2. Gone(j) \/ j \in batch \/ Fetchable(j)
    BY DEF UpdatesInv, Accounted
  <2> QED
    BY <1>1, <1>4, <1>5, <2>1, <2>2 DEF Gone, Settled, Fetchable
<1>8. HandledOnce'
  BY <1>4, <1>5 DEF UpdatesInv, HandledOnce, Updates
<1> QED
  BY <1>3, <1>6, <1>7, <1>8 DEF UpdatesInv

LEMMA UpdatesInvNext == UpdatesInv /\ [Next]_vars => UpdatesInv'
<1> SUFFICES ASSUME UpdatesInv, [Next]_vars PROVE UpdatesInv'
  OBVIOUS
<1>1. ASSUME NEW u \in People, Converse(u) \/ Expire(u) PROVE UpdatesInv'
  BY <1>1, UpdatesInvUnchanged DEF Converse, Expire, memory, history
<1>2. CASE Tick \/ StepBack \/ StepForward
  BY <1>2, UpdatesInvUnchanged DEF Tick, StepBack, StepForward, memory, history
<1>3. ASSUME NEW i \in Updates, Work(i) PROVE UpdatesInv'
  BY <1>3, WorkIsQuiet, UpdatesInvUnchanged
<1>4. CASE UNCHANGED vars
  BY <1>4, UpdatesInvUnchanged DEF vars, memory, history
<1> QED
  BY <1>1, <1>2, <1>3, <1>4, UpdatesInvSend, UpdatesInvCrash, UpdatesInvBoot, UpdatesInvPoll,
     UpdatesInvDispatch DEF Next

LEMMA UpdatesInvariant == Spec => []UpdatesInv
BY UpdatesInvInit, UpdatesInvNext, PTL DEF Spec

(***************************************************************************)
(* No update is given to a handler twice: at the start, drop_pending_      *)
(* updates confirms what an earlier process may have worked on, and within *)
(* a process an update is fetched once.                                    *)
(***************************************************************************)
THEOREM UpdatesAreHandledOnce == Spec => []HandledOnce
<1>1. UpdatesInv => HandledOnce
  BY DEF UpdatesInv
<1> QED
  BY <1>1, UpdatesInvariant, PTL

(***************************************************************************)
(* A message sent to a process that runs is held by Telegram or by the     *)
(* process until it is settled, unless Redis fails at its dispatch.        *)
(***************************************************************************)
THEOREM MessagesAreKept == Spec => []NothingIsLostWhileUp
<1>1. UpdatesInv => NothingIsLostWhileUp
  BY DEF UpdatesInv, UpdatesOK, Accounted, NothingIsLostWhileUp, Fetchable, Gone
<1> QED
  BY <1>1, UpdatesInvariant, PTL

-----------------------------------------------------------------------------
(***************************************************************************)
(* The contract of delivery.  Beyond the accounts above it takes that      *)
(* what is fetched, or would be, has not been refused or lost either, and  *)
(* that a process holds nothing from before its start.                     *)
(***************************************************************************)
PlacesInv ==
    /\ refused \cup lost \subseteq 1 .. Len(sent)
    /\ \A i \in Updates : i \in batch \/ (up /\ Fetchable(i)) => i \notin refused \cup lost
    /\ up => pending \cup batch \subseteq since + 1 .. Len(sent)

LEMMA PlacesInvInit == Init => PlacesInv
BY DEF Init, PlacesInv, Fetchable

LEMMA PlacesInvUnchanged ==
    ASSUME PlacesInv, UNCHANGED <<sent, pending, up, batch, offset, since, refused, lost>>
    PROVE  PlacesInv'
BY DEF PlacesInv, Fetchable

LEMMA PlacesInvDispatch ==
    ASSUME UpdatesInv, PlacesInv, NEW i \in batch, Dispatch(i)
    PROVE  PlacesInv'
<1>1. /\ batch' = batch \ {i}
      /\ refused' \cup lost' \subseteq refused \cup lost \cup {i}
      /\ UNCHANGED <<sent, pending, up, offset, since>>
  BY DispatchSettles DEF UpdatesInv
<1>2. offset \in Nat /\ Len(sent) \in Nat /\ i \in 1 .. offset /\ i \in 1 .. Len(sent)
  <2>1. i \in 1 .. offset
    BY DEF UpdatesInv, UpdatesOK
  <2> QED
    BY <2>1 DEF UpdatesInv, UpdatesOK
<1>3. refused' \cup lost' \subseteq 1 .. Len(sent')
  BY <1>1, <1>2 DEF PlacesInv
<1>4. ASSUME NEW j \in Updates, j \in batch' \/ (up' /\ Fetchable(j)')
      PROVE  j \notin refused' \cup lost'
  <2>1. j # i /\ (j \in batch \/ (up /\ Fetchable(j)))
    BY <1>1, <1>2, <1>4 DEF Fetchable
  <2> QED
    BY <1>1, <2>1 DEF PlacesInv
<1>5. up' => pending' \cup batch' \subseteq since' + 1 .. Len(sent')
  <2>1. pending' \cup batch' \subseteq pending \cup batch
    BY <1>1
  <2> QED
    BY <1>1, <2>1 DEF PlacesInv
<1> QED
  BY <1>3, <1>4, <1>5 DEF PlacesInv

LEMMA PlacesInvNext == UpdatesInv /\ PlacesInv /\ [Next]_vars => PlacesInv'
<1> SUFFICES ASSUME UpdatesInv, PlacesInv, [Next]_vars
             PROVE  PlacesInv'
  OBVIOUS
<1> USE IntakeAssumption
<1>1. /\ Len(sent) \in 0 .. MaxUpdates /\ sent \in Seq(Message) /\ since \in 0 .. Len(sent)
      /\ offset \in 0 .. Len(sent) /\ pending \subseteq 1 .. Len(sent) /\ batch \subseteq 1 .. Len(sent)
  BY DEF UpdatesInv, UpdatesOK
<1>2. ASSUME NEW u \in People, NEW kind \in Sendable, Send(u, kind)
      PROVE  PlacesInv'
  <2>1. /\ Len(sent') = Len(sent) + 1 /\ pending' = pending \cup {Len(sent) + 1}
        /\ UNCHANGED <<up, batch, offset, since, refused, lost>>
    BY <1>1, <1>2 DEF Send, memory, history
  <2>2. refused' \cup lost' \subseteq 1 .. Len(sent') /\ Len(sent') \notin refused' \cup lost'
    BY <1>1, <2>1 DEF PlacesInv
  <2>3. up' => pending' \cup batch' \subseteq since' + 1 .. Len(sent')
    <3>1. since + 1 .. Len(sent) \subseteq since' + 1 .. Len(sent')
      BY <1>1, <2>1
    <3>2. Len(sent) + 1 \in since' + 1 .. Len(sent')
      BY <1>1, <2>1
    <3> QED
      BY <2>1, <3>1, <3>2 DEF PlacesInv
  <2> QED
    BY <1>1, <2>1, <2>2, <2>3 DEF PlacesInv, Fetchable
<1>3. CASE Crash
  BY <1>3 DEF Crash, Forgotten, history, PlacesInv
<1>4. CASE Boot
  <2>1. batch' = {} /\ pending' = {} /\ UNCHANGED <<sent, refused, lost>>
    BY <1>4 DEF Boot, memory, UpdatesInv, NotYetGiven
  <2> QED
    BY <2>1 DEF PlacesInv, Fetchable
<1>5. CASE Poll
  <2>1. /\ up /\ pending' = {i \in pending : i > offset} /\ batch' = batch \cup pending'
        /\ offset' = Len(sent) /\ UNCHANGED <<sent, up, since, refused, lost>>
    BY <1>5 DEF Poll, history
  <2> QED
    BY <1>1, <2>1 DEF PlacesInv, Fetchable
<1>6. ASSUME NEW u \in People, Converse(u) \/ Expire(u)
      PROVE  PlacesInv'
  BY <1>6, PlacesInvUnchanged DEF Converse, Expire, memory, history
<1>7. CASE Tick \/ StepBack \/ StepForward
  BY <1>7, PlacesInvUnchanged DEF Tick, StepBack, StepForward, memory, history
<1>8. ASSUME NEW i \in Updates, Work(i)
      PROVE  PlacesInv'
  BY <1>8, WorkIsQuiet, PlacesInvUnchanged
<1>9. CASE UNCHANGED vars
  BY <1>9, PlacesInvUnchanged DEF vars, memory, history
<1> QED
  BY <1>2, <1>3, <1>4, <1>5, <1>6, <1>7, <1>8, <1>9, PlacesInvDispatch DEF Next

\* A step that leaves the messages where they are is a stutter of the contract.
LEMMA DeliveryRests ==
    ASSUME UNCHANGED <<sent, pending, up, batch, runs, refused, lost>>
    PROVE  UNCHANGED Delivery!delivery
BY DEF Delivery!delivery, Waiting, Settled

\* Sending a message is accepting it.
LEMMA SendAccepts ==
    ASSUME UpdatesInv, PlacesInv, NEW u \in People, NEW kind \in Sendable, Send(u, kind)
    PROVE  Delivery!Accept
<1> USE IntakeAssumption
<1> DEFINE n == Len(sent) + 1
<1>1. /\ Len(sent) \in 0 .. MaxUpdates /\ pending \subseteq 1 .. Len(sent)
      /\ batch \subseteq 1 .. Len(sent)
  BY DEF UpdatesInv, UpdatesOK
<1>2. /\ n \in Updates /\ Len(sent') = n /\ pending' = pending \cup {n}
      /\ UNCHANGED <<up, batch, runs, refused, lost>>
  BY <1>1 DEF Send, memory, history, Updates, UpdatesInv, UpdatesOK
<1>3. ~ Settled(n) /\ n \notin lost
  BY <1>1, <1>2 DEF UpdatesInv, NotYetGiven, PlacesInv, Settled
<1>4. Waiting' = Waiting \cup {n}
  BY <1>2, <1>3 DEF Waiting, Settled
<1> QED
  BY <1>2, <1>4 DEF Delivery!Accept

\* Fetching moves what waits from Telegram to the process.
LEMMA PollKeepsWaiting ==
    ASSUME UpdatesInv, PlacesInv, Poll
    PROVE  UNCHANGED Delivery!delivery
<1>1. /\ up /\ pending' = {i \in pending : i > offset} /\ batch' = batch \cup pending'
      /\ UNCHANGED <<sent, up, runs, refused, lost>>
  BY DEF Poll, history
<1>2. \A i \in pending : Gone(i) \/ i \in batch \/ i > offset
  <2>1. pending \subseteq since + 1 .. Len(sent)
    BY <1>1 DEF PlacesInv
  <2> QED
    BY <1>1, <2>1 DEF UpdatesInv, Accounted, Fetchable
<1>3. Waiting' = Waiting
  BY <1>1, <1>2 DEF Waiting, Settled, Gone
<1> QED
  BY <1>1, <1>3 DEF Delivery!delivery

\* A dispatched message is given, refused or lost.
LEMMA DispatchSettlesOrLoses ==
    ASSUME UpdatesInv, PlacesInv, NEW i \in batch, Dispatch(i)
    PROVE  Delivery!Next
<1>1. /\ batch' = batch \ {i}
      /\ \/ lost' = lost \cup {i} /\ UNCHANGED <<runs, refused>>
         \/ refused' = refused \cup {i} /\ UNCHANGED <<runs, lost>>
         \/ runs' = [runs EXCEPT ![i] = @ + 1] /\ UNCHANGED <<refused, lost>>
      /\ UNCHANGED <<sent, pending, up, offset, since>>
  BY DispatchSettles DEF UpdatesInv
<1>2. i \in Updates
  BY IntakeAssumption DEF UpdatesInv, UpdatesOK, Updates
<1>3. up /\ runs[i] = 0 /\ i \notin refused \cup lost /\ runs \in [Updates -> Nat]
      /\ pending \subseteq Updates /\ batch \subseteq Updates
  BY <1>2, IntakeAssumption DEF UpdatesInv, UpdatesOK, NotYetGiven, PlacesInv, Updates
<1>4. i \in Waiting
  BY <1>3 DEF Waiting, Settled
<1>5. Waiting' = Waiting \ {i}
  BY <1>1, <1>2, <1>3 DEF Waiting, Settled
<1>6. Delivery!Settle(i)
  BY <1>1, <1>3, <1>4, <1>5 DEF Delivery!Settle
<1> QED
  BY <1>1, <1>2, <1>6 DEF Delivery!Next, Delivery!Give, Delivery!Refuse, Delivery!Lose

(***************************************************************************)
(* However polls, dispatches, deaths and starts fall, delivery keeps its   *)
(* contract: every message is given once, refused once, or lost once, to a *)
(* failing read, with the process that held it or before the next began.   *)
(***************************************************************************)
THEOREM DeliveryIsAsPromised == Spec => DeliversAsPromised
<1>1. Init => Delivery!Init
  BY DEF Init, Delivery!Init, Waiting
<1>2. ASSUME UpdatesInv, PlacesInv, [Next]_vars
      PROVE  [Delivery!Next]_(Delivery!delivery)
  <2>1. CASE Crash
    <3>1. Waiting' \subseteq Waiting
      BY <2>1 DEF Crash, Forgotten, history, Waiting, Settled
    <3> QED
      BY <2>1, <3>1 DEF Crash, history, Delivery!Next, Delivery!Stop
  <2>2. CASE Boot
    <3>1. Waiting' = {}
      BY <1>2, <2>2 DEF Boot, memory, Waiting, UpdatesInv, NotYetGiven
    <3> QED
      BY <1>2, <2>2, <3>1 DEF Boot, UpdatesInv, UpdatesOK, Delivery!Next, Delivery!Start
  <2>3. ASSUME NEW u \in People, Converse(u) \/ Expire(u)
        PROVE  UNCHANGED Delivery!delivery
    BY <2>3, DeliveryRests DEF Converse, Expire, memory, history
  <2>4. CASE Tick \/ StepBack \/ StepForward
    BY <2>4, DeliveryRests DEF Tick, StepBack, StepForward, memory, history
  <2>5. ASSUME NEW i \in Updates, Work(i)
        PROVE  UNCHANGED Delivery!delivery
    BY <2>5, WorkIsQuiet, DeliveryRests
  <2>6. CASE UNCHANGED vars
    BY <2>6, DeliveryRests DEF vars, memory, history
  <2> QED
    BY <1>2, <2>1, <2>2, <2>3, <2>4, <2>5, <2>6, SendAccepts, PollKeepsWaiting,
       DispatchSettlesOrLoses DEF Next, Delivery!Next
<1> QED
  BY <1>1, <1>2, UpdatesInvariant, PlacesInvInit, PlacesInvNext, PTL
  DEF Spec, DeliversAsPromised, Delivery!Spec

-----------------------------------------------------------------------------
(***************************************************************************)
(* The throttle.  Its dictionary holds the wall clock of the moment a      *)
(* handler last began, and nothing of the messages dropped since.          *)
(***************************************************************************)
LEMMA SenderIsKnown ==
    ASSUME UpdatesInv, NEW i \in batch
    PROVE  i \in Updates /\ i \in 1 .. Len(sent) /\ Sender(i) \in People
<1>1. i \in 1 .. offset
  BY DEF UpdatesInv, UpdatesOK
<1>2. i \in Updates /\ i \in 1 .. Len(sent)
  BY <1>1, IntakeAssumption DEF UpdatesInv, UpdatesOK, Updates
<1>3. sent[i] \in Message
  BY <1>2 DEF UpdatesInv, UpdatesOK
<1> QED
  BY <1>2, <1>3 DEF Sender, Message

ClockInv ==
    /\ now \in 0 .. MaxNow
    /\ back \in -MaxAhead .. MaxBack
    /\ last \in [People -> Int]
    /\ heard \in [People -> Moment]
    /\ \A u \in People :
          last[u] = IF heard[u].known THEN heard[u].now - heard[u].back ELSE Never

LEMMA ClockInvForgotten ==
    ASSUME NEW L, NEW H, L = [u \in People |-> Never], H = [u \in People |-> Unheard]
    PROVE  /\ L \in [People -> Int] /\ H \in [People -> Moment]
           /\ \A u \in People :
                 L[u] = IF H[u].known THEN H[u].now - H[u].back ELSE Never
BY IntakeAssumption DEF Never, Moment, Unheard

LEMMA ClockInvInit == Init => ClockInv
BY ClockInvForgotten, IntakeAssumption DEF Init, ClockInv

LEMMA ClockInvUnchanged ==
    ASSUME ClockInv, UNCHANGED <<last, heard>>, now' \in 0 .. MaxNow,
           back' \in -MaxAhead .. MaxBack
    PROVE  ClockInv'
BY IntakeAssumption DEF ClockInv, Moment

\* A handler begins, at the interval from the one before.
Passes(i) ==
    /\ Wall - last[Sender(i)] >= Interval
    /\ last' = [last EXCEPT ![Sender(i)] = Wall]
    /\ heard' = [heard EXCEPT ![Sender(i)] = [now |-> now, back |-> back, known |-> TRUE]]
    /\ runs' = [runs EXCEPT ![i] = @ + 1]
    /\ UNCHANGED <<refused, lost>>

\* A message is dropped, by the throttle or for want of a handler.
Stays(i) ==
    /\ Wanted(i) = {} \/ Wall - last[Sender(i)] < Interval
    /\ UNCHANGED <<last, heard, runs>>
    /\ refused' = refused \cup {i}

LEMMA DispatchPassesOrStays ==
    ASSUME NEW i \in batch, Dispatch(i)
    PROVE  (Passes(i) \/ Stays(i) \/ Misread(i)) /\ UNCHANGED <<now, back>>
BY DEF Dispatch, Throttle, Begin, Drop, Passes, Stays

LEMMA ClockInvDispatch ==
    ASSUME UpdatesInv, ClockInv, NEW i \in batch, Dispatch(i)
    PROVE  ClockInv'
<1>1. CASE Stays(i) \/ Misread(i)
  BY <1>1, DispatchPassesOrStays, ClockInvUnchanged DEF Stays, Misread, ClockInv
<1>2. CASE Passes(i)
  <2>1. [now |-> now, back |-> back, known |-> TRUE] \in Moment /\ Wall \in Int
    BY IntakeAssumption DEF ClockInv, Moment, Wall
  <2>2. last' \in [People -> Int] /\ heard' \in [People -> Moment]
    BY <1>2, <2>1 DEF ClockInv, Passes
  <2>3. ASSUME NEW u \in People
        PROVE  last'[u] = IF heard'[u].known THEN heard'[u].now - heard'[u].back ELSE Never
    BY <1>2, IntakeAssumption DEF ClockInv, Passes, Wall
  <2> QED
    BY <2>2, <2>3, DispatchPassesOrStays DEF ClockInv
<1> QED
  BY <1>1, <1>2, DispatchPassesOrStays

LEMMA ClockInvNext == UpdatesInv /\ ClockInv /\ [Next]_vars => ClockInv'
<1> SUFFICES ASSUME UpdatesInv, ClockInv, [Next]_vars PROVE ClockInv'
  OBVIOUS
<1>1. ASSUME NEW u \in People, Converse(u) \/ Expire(u) PROVE ClockInv'
  BY <1>1, ClockInvUnchanged DEF Converse, Expire, memory, history, ClockInv
<1>2. CASE Tick \/ StepBack \/ StepForward
  <2>1. now' \in 0 .. MaxNow /\ back' \in -MaxAhead .. MaxBack
    BY <1>2, IntakeAssumption DEF Tick, StepBack, StepForward, ClockInv
  <2> QED
    BY <1>2, <2>1, ClockInvUnchanged DEF Tick, StepBack, StepForward, memory
<1>3. ASSUME NEW i \in Updates, Work(i) PROVE ClockInv'
  BY <1>3, WorkIsQuiet, ClockInvUnchanged DEF ClockInv
<1>4. CASE UNCHANGED vars
  BY <1>4, ClockInvUnchanged DEF vars, memory, ClockInv
<1>5. ASSUME NEW u \in People, NEW kind \in Sendable, Send(u, kind) PROVE ClockInv'
  BY <1>5, ClockInvUnchanged DEF Send, memory, ClockInv
<1>6. CASE Boot \/ Poll
  BY <1>6, ClockInvUnchanged DEF Boot, Poll, memory, ClockInv
<1>7. CASE Crash
  BY <1>7, ClockInvForgotten DEF Crash, Forgotten, ClockInv
<1> QED
  BY <1>1, <1>2, <1>3, <1>4, <1>5, <1>6, <1>7, ClockInvDispatch DEF Next

(***************************************************************************)
(* The throttle drops a message only within the interval after one that    *)
(* passed, and lets two pass only at the interval, as far as the clock was *)
(* not corrected between them.                                             *)
(***************************************************************************)
THEOREM ThrottleFairness == Spec => ThrottleIsFair
<1> DEFINE
      Fair == /\ \A i \in refused' \ refused :
                    \/ Wanted(i) = {}
                    \/ /\ heard[Sender(i)].known
                       /\ Past(Sender(i)) + Correction(Sender(i)) < Interval
              /\ \A i \in Updates :
                    runs'[i] > runs[i] /\ heard[Sender(i)].known =>
                        Past(Sender(i)) + Correction(Sender(i)) >= Interval
<1>1. ASSUME UpdatesInv, UNCHANGED <<refused, runs>> PROVE Fair
  BY <1>1 DEF UpdatesInv, UpdatesOK
<1>2. ASSUME UpdatesInv, ClockInv, NEW i \in batch, Dispatch(i) PROVE Fair
  <2> DEFINE u == Sender(i)
  <2>1. i \in Updates /\ u \in People
    BY <1>2, SenderIsKnown
  <2>2. heard[u] \in Moment /\ Wall = now - back /\ now \in Int /\ back \in Int /\ back <= MaxBack
    BY <1>2, <2>1, IntakeAssumption DEF ClockInv, Wall
  <2>3. last[u] = IF heard[u].known THEN heard[u].now - heard[u].back ELSE Never
    BY <1>2, <2>1 DEF ClockInv
  <2>4. CASE Stays(i)
    <3>1. ASSUME Wanted(i) # {}
          PROVE  heard[u].known /\ Past(u) + Correction(u) < Interval
      <4>1. Wall - last[u] < Interval
        BY <2>4, <3>1 DEF Stays
      <4>2. heard[u].now \in Int /\ heard[u].back \in Int /\ heard[u].known \in BOOLEAN
        BY <2>2, IntakeAssumption DEF Moment
      <4>3. now >= 0
        BY <1>2, IntakeAssumption DEF ClockInv
      <4>4. heard[u].known
        BY <2>2, <2>3, <4>1, <4>2, <4>3, IntakeAssumption DEF Never
      <4> QED
        BY <2>2, <2>3, <4>1, <4>2, <4>4, IntakeAssumption DEF Past, Correction
    <3>2. \A j \in Updates : ~ runs'[j] > runs[j]
      BY <1>2, <2>4 DEF Stays, UpdatesInv, UpdatesOK
    <3> QED
      BY <2>4, <3>1, <3>2 DEF Stays
  <2>5. CASE Passes(i)
    <3>1. ASSUME heard[u].known PROVE Past(u) + Correction(u) >= Interval
      <4>1. heard[u].now \in Int /\ heard[u].back \in Int
        BY <2>2, IntakeAssumption DEF Moment
      <4>2. Wall - last[u] >= Interval
        BY <2>5 DEF Passes
      <4> QED
        BY <2>2, <2>3, <3>1, <4>1, <4>2, IntakeAssumption DEF Past, Correction
    <3>2. \A j \in Updates : j # i => ~ runs'[j] > runs[j]
      BY <1>2, <2>5 DEF Passes, UpdatesInv, UpdatesOK
    <3> QED
      BY <2>5, <3>1, <3>2 DEF Passes
  <2>6. CASE Misread(i)
    BY <1>1, <1>2, <2>6 DEF Misread
  <2> QED
    BY <1>2, <2>4, <2>5, <2>6, DispatchPassesOrStays
<1>3. UpdatesInv /\ ClockInv /\ [Next]_vars => [Fair]_vars
  <2> SUFFICES ASSUME UpdatesInv, ClockInv, Next PROVE Fair
    BY DEF Fair
  <2>1. CASE \E i \in batch : Dispatch(i)
    BY <1>2, <2>1
  <2>2. ASSUME NEW i \in Updates, Work(i) PROVE UNCHANGED <<refused, runs>>
    BY <2>2, WorkIsQuiet
  <2>3. CASE \/ \E u \in People, kind \in Sendable : Send(u, kind)
             \/ \E u \in People : Converse(u) \/ Expire(u)
             \/ Tick \/ StepBack \/ StepForward \/ Crash \/ Boot \/ Poll
    BY <2>3, <1>1 DEF Send, Converse, Expire, Tick, StepBack, StepForward, Crash, Boot, Poll, history
  <2> QED
    BY <1>1, <2>1, <2>2, <2>3 DEF Next
<1>4. Spec => []ClockInv
  BY ClockInvInit, ClockInvNext, UpdatesInvariant, PTL DEF Spec
<1> QED
  BY <1>3, <1>4, UpdatesInvariant, PTL DEF Spec, ThrottleIsFair

-----------------------------------------------------------------------------
(***************************************************************************)
(* The gate.  What it remembers stays within the limit, and what it has    *)
(* forgotten with the lives before stays within the limit for each.        *)
(***************************************************************************)
TallyOK(u) == attempts[u] <= Limit /\ guesses[u] <= Limit * restarts + attempts[u]

TallyInv ==
    /\ restarts \in Nat
    /\ attempts \in [People -> Nat]
    /\ guesses \in [People -> Nat]
    /\ \A u \in People : TallyOK(u)

LEMMA TallyInvInit == Init => TallyInv
<1>1. Limit * 0 = 0
  BY IntakeAssumption
<1> QED
  BY <1>1, IntakeAssumption DEF Init, TallyInv, TallyOK

LEMMA TallyInvUnchanged ==
    ASSUME TallyInv, UNCHANGED <<restarts, attempts, guesses>>
    PROVE  TallyInv'
BY DEF TallyInv, TallyOK

LEMMA TallyInvExpire ==
    ASSUME TallyInv, NEW u \in People, Expire(u)
    PROVE  TallyInv'
<1> USE IntakeAssumption
<1>1. /\ guesses[u] > 0 /\ restarts' = restarts
      /\ guesses' = [guesses EXCEPT ![u] = @ - 1]
      /\ attempts' = [attempts EXCEPT ![u] = IF @ = guesses[u] THEN @ - 1 ELSE @]
  BY DEF Expire
<1>2. Limit * restarts \in Nat
  BY DEF TallyInv
<1>3. ASSUME NEW v \in People
      PROVE  /\ attempts'[v] \in Nat /\ guesses'[v] \in Nat
             /\ attempts'[v] <= Limit /\ guesses'[v] <= Limit * restarts + attempts'[v]
  <2>1. attempts[v] \in Nat /\ guesses[v] \in Nat /\ TallyOK(v)
    BY DEF TallyInv
  <2>2. CASE v # u
    BY <1>1, <2>1, <2>2 DEF TallyInv, TallyOK
  <2>3. CASE v = u /\ attempts[u] = guesses[u]
    BY <1>1, <1>2, <2>1, <2>3 DEF TallyInv, TallyOK
  <2>4. CASE v = u /\ attempts[u] # guesses[u]
    BY <1>1, <1>2, <2>1, <2>4 DEF TallyInv, TallyOK
  <2> QED
    BY <2>2, <2>3, <2>4
<1>4. /\ attempts' = [v \in People |-> attempts'[v]]
      /\ guesses' = [v \in People |-> guesses'[v]]
  BY <1>1 DEF TallyInv
<1>5. attempts' \in [People -> Nat] /\ guesses' \in [People -> Nat]
  BY <1>3, <1>4
<1> QED
  BY <1>1, <1>3, <1>5 DEF TallyInv, TallyOK

LEMMA TallyInvCrash ==
    ASSUME TallyInv, Crash
    PROVE  TallyInv'
<1> USE IntakeAssumption
<1>1. restarts' = restarts + 1 /\ attempts' = [u \in People |-> 0] /\ guesses' = guesses
  BY DEF Crash, Forgotten, history
<1>2. Limit * (restarts + 1) = Limit * restarts + Limit
  BY DEF TallyInv
<1>3. Limit * restarts \in Nat
  BY DEF TallyInv
<1>4. ASSUME NEW u \in People PROVE TallyOK(u)'
  <2>1. attempts[u] \in Nat /\ guesses[u] \in Nat /\ TallyOK(u)
    BY DEF TallyInv
  <2> QED
    BY <1>1, <1>2, <1>3, <2>1 DEF TallyOK
<1> QED
  BY <1>1, <1>4 DEF TallyInv

LEMMA TallyInvJudge ==
    ASSUME TallyInv, NEW i \in Updates, Judge(i)
    PROVE  TallyInv'
<1> USE IntakeAssumption
<1> DEFINE u == Sender(i)
<1>1. restarts' = restarts /\ Limit * restarts \in Nat
  BY DEF Judge, TallyInv
<1>2. CASE Throttled(u)
  BY <1>1, <1>2, TallyInvUnchanged DEF Judge
<1>3. CASE ~ Throttled(u) /\ sent[i].kind = "right"
  <2>1. attempts' = [attempts EXCEPT ![u] = 0] /\ guesses' = [guesses EXCEPT ![u] = 0]
    BY <1>3 DEF Judge
  <2>2. attempts' \in [People -> Nat] /\ guesses' \in [People -> Nat]
    BY <2>1 DEF TallyInv
  <2>3. ASSUME NEW v \in People PROVE TallyOK(v)'
    BY <1>1, <2>1 DEF TallyInv, TallyOK
  <2> QED
    BY <1>1, <2>2, <2>3 DEF TallyInv
<1>4. CASE ~ Throttled(u) /\ sent[i].kind # "right"
  <2>1. /\ attempts' = [attempts EXCEPT ![u] = @ + 1]
        /\ guesses' = [guesses EXCEPT ![u] = @ + 1]
    BY <1>4 DEF Judge
  <2>2. ASSUME NEW v \in People PROVE TallyOK(v)'
    <3>1. attempts[v] \in Nat /\ guesses[v] \in Nat /\ TallyOK(v)
      BY DEF TallyInv
    <3>2. v = u => attempts[v] < Limit
      BY <1>4, <3>1 DEF Throttled
    <3> QED
      BY <1>1, <2>1, <3>1, <3>2 DEF TallyInv, TallyOK
  <2>3. /\ attempts' = [v \in People |-> IF v = u THEN attempts[v] + 1 ELSE attempts[v]]
        /\ guesses' = [v \in People |-> IF v = u THEN guesses[v] + 1 ELSE guesses[v]]
    BY <2>1 DEF TallyInv
  <2>4. attempts' \in [People -> Nat] /\ guesses' \in [People -> Nat]
    BY <2>3 DEF TallyInv
  <2> QED
    BY <1>1, <2>2, <2>4 DEF TallyInv
<1> QED
  BY <1>2, <1>3, <1>4

LEMMA TallyInvNext == TallyInv /\ [Next]_vars => TallyInv'
<1> SUFFICES ASSUME TallyInv, [Next]_vars PROVE TallyInv'
  OBVIOUS
<1>1. CASE \/ \E u \in People, kind \in Sendable : Send(u, kind)
           \/ \E u \in People : Converse(u)
           \/ Tick \/ StepBack \/ StepForward \/ Boot \/ Poll
  BY <1>1, TallyInvUnchanged DEF Send, Converse, Tick, StepBack, StepForward, Boot, Poll, memory, history
<1>2. ASSUME NEW i \in batch, Dispatch(i) PROVE TallyInv'
  BY <1>2, TallyInvUnchanged DEF Dispatch
<1>3. ASSUME NEW i \in Updates, Admit(i) \/ Change(i) \/ Fail(i) \/ Answer(i) \/ Retry(i)
      PROVE  TallyInv'
  BY <1>3, TallyInvUnchanged DEF Admit, Change, Fail, Answer, Retry, history
<1>4. CASE UNCHANGED vars
  BY <1>4, TallyInvUnchanged DEF vars, memory, history
<1> QED
  BY <1>1, <1>2, <1>3, <1>4, TallyInvExpire, TallyInvCrash, TallyInvJudge DEF Next, Work

(***************************************************************************)
(* Nobody has more wrong passwords judged within the window than the limit *)
(* for each life of the process, however their handlers overlap and are    *)
(* retried.                                                                *)
(***************************************************************************)
THEOREM WrongPasswordsAreBounded == Spec => []GuessesAreBounded
<1>1. TallyInv => GuessesAreBounded
  <2> SUFFICES ASSUME TallyInv, NEW u \in People PROVE guesses[u] <= Limit * (restarts + 1)
    BY DEF GuessesAreBounded
  <2>1. Limit * (restarts + 1) = Limit * restarts + Limit /\ Limit * restarts \in Nat
    BY IntakeAssumption DEF TallyInv
  <2>2. attempts[u] \in Nat /\ guesses[u] \in Nat /\ TallyOK(u)
    BY DEF TallyInv
  <2> QED
    BY <2>1, <2>2, IntakeAssumption DEF TallyOK
<1> QED
  BY <1>1, TallyInvInit, TallyInvNext, PTL DEF Spec

-----------------------------------------------------------------------------
(***************************************************************************)
(* The handlers at work: each was given an update that was sent, and is at *)
(* a step that its handler has.                                            *)
(***************************************************************************)
Changing == {"cmd_start", "enter_text", "send_canned_reply", "send_reply", "cmd_admin",
             "check_password"}

TaskOK(i) ==
    /\ tasks[i].at # "idle" => i \in 1 .. Len(sent) /\ runs[i] > 0 /\ tasks[i].handler \in Handlers
    /\ tasks[i].at \in {"judge", "change"} => tasks[i].handler \in Changing

TasksInv == tasks \in [Updates -> Task] /\ \A i \in Updates : TaskOK(i)

LEMMA StepsOfHandlers ==
    ASSUME NEW h
    PROVE  /\ FirstStep(h) \in {"judge", "admit", "change", "answer"}
           /\ FirstStep(h) \in {"judge", "change"} => h \in Changing
BY DEF FirstStep, Changing

LEMMA RoutesAreHandlers ==
    ASSUME NEW kind, NEW state
    PROVE  Routes(kind, state) \subseteq Handlers
BY DEF Routes, Handlers

LEMMA IdleIsATask == Idle \in Task /\ Idle.at = "idle"
BY IntakeAssumption DEF Idle, Task

LEMMA TasksInvInit == Init => TasksInv
BY IdleIsATask DEF Init, TasksInv, TaskOK

LEMMA TasksInvUnchanged ==
    ASSUME UpdatesInv, TasksInv, tasks' = tasks, Len(sent) <= Len(sent'), Len(sent') \in Nat,
           runs' = runs
    PROVE  TasksInv'
BY DEF TasksInv, TaskOK, UpdatesInv, UpdatesOK

\* The task of one update moves on.
LEMMA TasksInvMoves ==
    ASSUME UpdatesInv, TasksInv, NEW i \in Updates, NEW k \in Task, tasks' = [tasks EXCEPT ![i] = k],
           sent' = sent, \A j \in Updates : runs'[j] >= runs[j], runs' \in [Updates -> Nat],
           k.at # "idle" => i \in 1 .. Len(sent) /\ runs'[i] > 0 /\ k.handler \in Handlers,
           k.at \in {"judge", "change"} => k.handler \in Changing
    PROVE  TasksInv'
<1>1. tasks' \in [Updates -> Task] /\ tasks'[i] = k
  BY DEF TasksInv
<1>2. \A j \in Updates : j # i => tasks'[j] = tasks[j]
  BY DEF TasksInv
<1>3. ASSUME NEW j \in Updates PROVE TaskOK(j)'
  <2>1. CASE j = i
    BY <1>1, <2>1 DEF TaskOK
  <2>2. CASE j # i
    <3>1. runs[j] \in Nat /\ runs'[j] \in Nat /\ runs'[j] >= runs[j] /\ tasks'[j] = tasks[j]
      BY <1>2, <2>2 DEF UpdatesInv, UpdatesOK
    <3> QED
      BY <3>1 DEF TasksInv, TaskOK
  <2> QED
    BY <2>1, <2>2
<1> QED
  BY <1>1, <1>3 DEF TasksInv

\* Where the handler at work on an update goes.
Goes(i, k) ==
    /\ tasks' = [tasks EXCEPT ![i] = k]
    /\ \/ k = Idle
       \/ /\ k.handler = tasks[i].handler
          /\ k.at \in {"change", "answer", FirstStep(k.handler)}
          /\ k.at = "change" => tasks[i].at = "judge" \/ FirstStep(k.handler) = "change"

LEMMA WorkGoes ==
    ASSUME TasksInv, NEW i \in Updates, Work(i)
    PROVE  tasks[i].at # "idle" /\ \E k \in Task : Goes(i, k)
<1>1. tasks[i] \in Task
  BY DEF TasksInv
<1>2. ASSUME NEW step \in {"change", "answer"}, GoTo(i, step),
             step = "change" => tasks[i].at = "judge"
      PROVE  \E k \in Task : Goes(i, k)
  <2> DEFINE k == [tasks[i] EXCEPT !.at = step]
  <2>1. k \in Task /\ k.handler = tasks[i].handler /\ k.at = step
    BY <1>1 DEF Task
  <2>2. tasks' = [tasks EXCEPT ![i] = k]
    BY <1>2 DEF GoTo, TasksInv
  <2>3. Goes(i, k)
    BY <1>2, <2>1, <2>2 DEF Goes
  <2> QED
    BY <2>1, <2>3
<1>3. ASSUME End(i) PROVE \E k \in Task : Goes(i, k)
  BY <1>3, IdleIsATask DEF End, Goes
<1>4. CASE Judge(i) \/ Admit(i) \/ Change(i) \/ Fail(i) \/ Answer(i)
  BY <1>2, <1>3, <1>4 DEF Judge, Admit, Change, Fail, Answer, At
<1>5. CASE Retry(i)
  <2> DEFINE k == [tasks[i] EXCEPT !.at = FirstStep(tasks[i].handler), !.try = @ + 1]
  <2>1. tasks[i].try + 1 \in 1 .. MaxTries
    BY <1>1, <1>5, IntakeAssumption DEF Retry, Task
  <2>2. k \in Task /\ k.handler = tasks[i].handler /\ k.at = FirstStep(tasks[i].handler)
    BY <1>1, <2>1, StepsOfHandlers DEF Task
  <2>3. tasks' = [tasks EXCEPT ![i] = k]
    BY <1>1, <1>5 DEF Retry, TasksInv, Task
  <2>4. Goes(i, k)
    BY <2>2, <2>3 DEF Goes
  <2> QED
    BY <1>5, <2>2, <2>4 DEF Retry, At
<1> QED
  BY <1>4, <1>5 DEF Work

LEMMA TasksInvNext == UpdatesInv /\ TasksInv /\ [Next]_vars => TasksInv'
<1> SUFFICES ASSUME UpdatesInv, TasksInv, [Next]_vars PROVE TasksInv'
  OBVIOUS
<1>1. UpdatesInv'
  BY UpdatesInvNext
<1>2. CASE \/ \E u \in People : Converse(u) \/ Expire(u)
           \/ Tick \/ StepBack \/ StepForward \/ Boot \/ Poll \/ UNCHANGED vars
  <2>1. tasks' = tasks /\ sent' = sent /\ runs' = runs
    BY <1>2 DEF Converse, Expire, Tick, StepBack, StepForward, Boot, Poll, vars, memory, history
  <2> QED
    BY <2>1, TasksInvUnchanged DEF UpdatesInv, UpdatesOK
<1>3. ASSUME NEW u \in People, NEW kind \in Sendable, Send(u, kind) PROVE TasksInv'
  <2>1. Len(sent') = Len(sent) + 1 /\ tasks' = tasks /\ runs' = runs
    BY <1>3 DEF Send, memory, history, UpdatesInv, UpdatesOK
  <2> QED
    BY <2>1, TasksInvUnchanged DEF UpdatesInv, UpdatesOK
<1>4. CASE Crash
  BY <1>4, IdleIsATask DEF Crash, Forgotten, TasksInv, TaskOK
<1>5. ASSUME NEW i \in batch, Dispatch(i) PROVE TasksInv'
  <2>1. i \in Updates /\ i \in 1 .. Len(sent)
    BY <1>5, SenderIsKnown
  <2>2. CASE tasks' = tasks /\ runs' = runs
    BY <1>5, <2>2, TasksInvUnchanged DEF Dispatch, UpdatesInv, UpdatesOK
  <2>3. CASE Begin(i)
    <3>1. PICK h \in Wanted(i) :
              tasks' = [tasks EXCEPT ![i] = [handler |-> h, at |-> FirstStep(h), try |-> 1]]
      BY <2>3 DEF Begin
    <3>2. h \in Handlers
      BY <3>1, RoutesAreHandlers DEF Wanted
    <3>3. [handler |-> h, at |-> FirstStep(h), try |-> 1] \in Task
      BY <3>2, StepsOfHandlers, IntakeAssumption DEF Task
    <3>4. /\ runs' \in [Updates -> Nat] /\ runs'[i] > 0 /\ \A j \in Updates : runs'[j] >= runs[j]
      BY <2>1, <2>3 DEF Begin, UpdatesInv, UpdatesOK
    <3>5. sent' = sent
      BY <1>5 DEF Dispatch
    <3> QED
      BY <2>1, <3>1, <3>2, <3>3, <3>4, <3>5, TasksInvMoves, StepsOfHandlers
  <2> QED
    BY <1>5, <2>2, <2>3 DEF Dispatch, Misread, Throttle, Drop
<1>6. ASSUME NEW i \in Updates, Work(i) PROVE TasksInv'
  <2>1. PICK k \in Task : Goes(i, k)
    BY <1>6, WorkGoes
  <2>2. sent' = sent /\ runs' = runs
    BY <1>6, WorkIsQuiet
  <2>3. i \in 1 .. Len(sent) /\ runs[i] > 0 /\ tasks[i].handler \in Handlers
    BY <1>6, WorkGoes DEF TasksInv, TaskOK
  <2>4. k.at # "idle" => k.handler = tasks[i].handler
    BY <2>1, IdleIsATask DEF Goes
  <2>5. k.at \in {"judge", "change"} => k.handler \in Changing
    <3>1. CASE k = Idle
      BY <3>1, IdleIsATask
    <3>2. CASE k # Idle /\ k.at = FirstStep(k.handler)
      BY <3>2, StepsOfHandlers
    <3>3. CASE k # Idle /\ k.at # FirstStep(k.handler)
      BY <2>1, <3>3 DEF Goes, TasksInv, TaskOK
    <3> QED
      BY <3>1, <3>2, <3>3
  <2>6. \A j \in Updates : runs'[j] >= runs[j]
    BY <2>2 DEF UpdatesInv, UpdatesOK
  <2> QED
    BY <2>1, <2>2, <2>3, <2>4, <2>5, <2>6, TasksInvMoves DEF Goes, UpdatesInv, UpdatesOK
<1> QED
  BY <1>2, <1>3, <1>4, <1>5, <1>6 DEF Next

LEMMA TasksInvariant == Spec => []TasksInv
BY TasksInvInit, TasksInvNext, UpdatesInvariant, PTL DEF Spec

\* The sender of an update at work.
LEMMA WorkerIsKnown ==
    ASSUME UpdatesInv, TasksInv, NEW i \in Updates, tasks[i].at # "idle"
    PROVE  i \in 1 .. Len(sent) /\ runs[i] > 0 /\ Sender(i) \in People
<1>1. i \in 1 .. Len(sent) /\ runs[i] > 0
  BY DEF TasksInv, TaskOK
<1>2. sent[i] \in Message
  BY <1>1 DEF UpdatesInv, UpdatesOK
<1> QED
  BY <1>1, <1>2 DEF Message, Sender

-----------------------------------------------------------------------------
(***************************************************************************)
(* The panel.                                                              *)
(***************************************************************************)
Knows(u) == \E i \in Heeded(u) : sent[i].kind = "right"

DoorInv == \A u \in signedIn \cup (served \ Admins) : Knows(u)

\* Nothing makes the password unsaid.
LEMMA KnowingLasts ==
    ASSUME UpdatesInv, [Next]_vars, NEW u, Knows(u)
    PROVE  Knows(u)'
<1>1. PICK i \in 1 .. Len(sent) : Sender(i) = u /\ runs[i] > 0 /\ sent[i].kind = "right"
  BY DEF Knows, Heeded
<1>2. i \in Updates
  BY <1>1, IntakeAssumption DEF UpdatesInv, UpdatesOK, Updates
<1>3. CASE sent' = sent /\ runs' = runs
  BY <1>1, <1>3 DEF Knows, Heeded, Sender
<1>4. ASSUME NEW v \in People, NEW kind \in Sendable, Send(v, kind) PROVE Knows(u)'
  <2>1. runs' = runs /\ Len(sent') = Len(sent) + 1 /\ sent'[i] = sent[i]
    BY <1>1, <1>4 DEF Send, history, UpdatesInv, UpdatesOK
  <2>2. i \in 1 .. Len(sent')
    BY <1>1, <2>1 DEF UpdatesInv, UpdatesOK
  <2> QED
    BY <1>1, <2>1, <2>2 DEF Knows, Heeded, Sender
<1>5. ASSUME NEW j \in batch, Dispatch(j) PROVE Knows(u)'
  <2>1. sent' = sent /\ runs'[i] >= runs[i] /\ runs'[i] \in Nat
    BY <1>2, <1>5, DispatchSettles DEF UpdatesInv, UpdatesOK
  <2>2. runs'[i] > 0
    BY <1>1, <1>2, <2>1 DEF UpdatesInv, UpdatesOK
  <2> QED
    BY <1>1, <2>1, <2>2 DEF Knows, Heeded, Sender
<1>6. CASE \/ \E v \in People : Converse(v) \/ Expire(v)
           \/ Tick \/ StepBack \/ StepForward \/ Crash \/ Boot \/ Poll \/ UNCHANGED vars
  BY <1>3, <1>6 DEF Converse, Expire, Tick, StepBack, StepForward, Crash, Boot, Poll, vars, history
<1>7. ASSUME NEW j \in Updates, Work(j) PROVE Knows(u)'
  BY <1>3, <1>7, WorkIsQuiet
<1> QED
  BY <1>4, <1>5, <1>6, <1>7 DEF Next

LEMMA DoorInvNext == UpdatesInv /\ TasksInv /\ DoorInv /\ [Next]_vars => DoorInv'
<1> SUFFICES ASSUME UpdatesInv, TasksInv, DoorInv, [Next]_vars PROVE DoorInv'
  OBVIOUS
<1>1. \A u : Knows(u) => Knows(u)'
  BY KnowingLasts
<1>2. CASE signedIn' \subseteq signedIn /\ served' = served
  BY <1>1, <1>2 DEF DoorInv
<1>3. CASE \/ \E u \in People, kind \in Sendable : Send(u, kind)
           \/ \E u \in People : Converse(u) \/ Expire(u)
           \/ Tick \/ StepBack \/ StepForward \/ Crash \/ Boot \/ Poll \/ UNCHANGED vars
  BY <1>2, <1>3 DEF Send, Converse, Expire, Tick, StepBack, StepForward, Crash, Forgotten, Boot, Poll,
                    vars, memory, history
<1>4. ASSUME NEW i \in batch, Dispatch(i) PROVE DoorInv'
  BY <1>2, <1>4 DEF Dispatch
<1>5. ASSUME NEW i \in Updates, Judge(i) PROVE DoorInv'
  <2>1. CASE signedIn' = signedIn
    BY <1>2, <1>5, <2>1 DEF Judge
  <2>2. CASE signedIn' = signedIn \cup {Sender(i)} /\ sent[i].kind = "right"
    <3>1. i \in 1 .. Len(sent) /\ runs[i] > 0
      BY <1>5, WorkerIsKnown DEF Judge, At
    <3>2. Knows(Sender(i))
      BY <2>2, <3>1 DEF Knows, Heeded
    <3>3. served' = served
      BY <1>5 DEF Judge
    <3> QED
      BY <1>1, <2>2, <3>2, <3>3 DEF DoorInv
  <2> QED
    BY <1>5, <2>1, <2>2 DEF Judge
<1>6. ASSUME NEW i \in Updates, Admit(i) PROVE DoorInv'
  <2>1. signedIn' = signedIn /\ (\/ served' = served
                                 \/ /\ served' = served \cup {Sender(i)}
                                    /\ Sender(i) \in Admins \cup signedIn)
    BY <1>6 DEF Admit
  <2> QED
    BY <1>1, <2>1 DEF DoorInv
<1>7. ASSUME NEW i \in Updates, Change(i) \/ Fail(i) \/ Answer(i) \/ Retry(i) PROVE DoorInv'
  BY <1>2, <1>7 DEF Change, Fail, Answer, Retry, history
<1> QED
  BY <1>3, <1>4, <1>5, <1>6, <1>7 DEF Next, Work

(***************************************************************************)
(* Whoever is shown the panel is a configured administrator or has sent    *)
(* the password in a message that reached a handler.                       *)
(***************************************************************************)
THEOREM PanelIsGuarded == Spec => []PanelNeedsThePassword
<1>1. Init => DoorInv
  BY DEF Init, DoorInv
<1>2. DoorInv => PanelNeedsThePassword
  BY DEF DoorInv, PanelNeedsThePassword, Knows
<1> QED
  BY <1>1, <1>2, DoorInvNext, UpdatesInvariant, TasksInvariant, PTL DEF Spec

-----------------------------------------------------------------------------
(***************************************************************************)
(* Types.                                                                  *)
(***************************************************************************)
RestOK ==
    /\ signedIn \subseteq People
    /\ served \subseteq People
    /\ refused \cup lost \subseteq Updates
    /\ fsm \in [People -> States]
    /\ restarts \in 0 .. MaxRestarts

LEMMA RestOKUnchanged ==
    ASSUME RestOK, UNCHANGED <<signedIn, served, refused, lost, fsm, restarts>>
    PROVE  RestOK'
BY DEF RestOK

LEMMA RestOKNext == UpdatesInv /\ TasksInv /\ RestOK /\ [Next]_vars => RestOK'
<1> SUFFICES ASSUME UpdatesInv, TasksInv, RestOK, [Next]_vars PROVE RestOK'
  OBVIOUS
<1>1. CASE \/ \E u \in People, kind \in Sendable : Send(u, kind)
           \/ \E u \in People : Expire(u)
           \/ Tick \/ StepBack \/ StepForward \/ Boot \/ Poll \/ UNCHANGED vars
  BY <1>1, RestOKUnchanged DEF Send, Expire, Tick, StepBack, StepForward, Boot, Poll, vars, memory, history
<1>2. ASSUME NEW u \in People, Converse(u) PROVE RestOK'
  <2>1. PICK state \in ByButton : fsm' = [fsm EXCEPT ![u] = state]
    BY <1>2 DEF Converse
  <2>2. state \in States
    BY <2>1, IntakeAssumption DEF States
  <2> QED
    BY <1>2, <2>1, <2>2 DEF Converse, memory, history, RestOK
<1>3. CASE Crash
  BY <1>3, IntakeAssumption DEF Crash, Forgotten, history, RestOK
<1>4. ASSUME NEW i \in batch, Dispatch(i) PROVE RestOK'
  <2>1. i \in Updates
    BY <1>4, SenderIsKnown
  <2>2. refused' \cup lost' \subseteq refused \cup lost \cup {i}
    BY <1>4 DEF Dispatch, Misread, Throttle, Drop, Begin
  <2> QED
    BY <1>4, <2>1, <2>2 DEF Dispatch, RestOK
<1>5. ASSUME NEW i \in Updates, Work(i) PROVE RestOK'
  <2>1. Sender(i) \in People
    BY <1>5, WorkGoes, WorkerIsKnown
  <2>2. refused' = refused /\ lost' = lost /\ restarts' = restarts
    BY <1>5, WorkIsQuiet
  <2>3. signedIn' \subseteq signedIn \cup {Sender(i)} /\ served' \subseteq served \cup {Sender(i)}
    BY <1>5 DEF Work, Judge, Admit, Change, Fail, Answer, Retry, history
  <2>4. fsm' \in [People -> States]
    <3>1. CASE Change(i)
      <4>1. tasks[i].handler \in Changing
        BY <3>1 DEF Change, At, TasksInv, TaskOK
      <4>2. Target(tasks[i].handler) \in States
        BY <4>1 DEF Changing, Target, States
      <4> QED
        BY <3>1, <4>2 DEF Change, RestOK
    <3>2. CASE Judge(i) \/ Admit(i) \/ Fail(i) \/ Answer(i) \/ Retry(i)
      BY <3>2 DEF Judge, Admit, Fail, Answer, Retry, RestOK
    <3> QED
      BY <1>5, <3>1, <3>2 DEF Work
  <2> QED
    BY <2>1, <2>2, <2>3, <2>4 DEF RestOK
<1> QED
  BY <1>1, <1>2, <1>3, <1>4, <1>5 DEF Next

(***************************************************************************)
(* Type correctness: among the rest that a retry stays within the tries    *)
(* RetryMiddleware allows, and that every state a conversation reaches is  *)
(* one some handler sets.                                                  *)
(***************************************************************************)
THEOREM IntakeTypeCorrect == Spec => []IntakeTypeOK
<1>1. Init => RestOK /\ TallyInv /\ ClockInv
  BY TallyInvInit, ClockInvInit, IntakeAssumption DEF Init, RestOK
<1>2. UpdatesInv /\ ClockInv /\ TallyInv /\ TasksInv /\ RestOK => IntakeTypeOK
  <2> SUFFICES ASSUME UpdatesInv, ClockInv, TallyInv, TasksInv, RestOK PROVE IntakeTypeOK
    OBVIOUS
  <2>1. /\ 1 .. Len(sent) \subseteq Updates /\ 1 .. offset \subseteq Updates
        /\ offset \in 0 .. MaxUpdates /\ since \in 0 .. MaxUpdates /\ Len(sent) <= MaxUpdates
    BY IntakeAssumption DEF UpdatesInv, UpdatesOK, Updates
  <2>2. pending \subseteq Updates /\ batch \subseteq Updates
    BY <2>1 DEF UpdatesInv, UpdatesOK
  <2> QED
    BY <2>1, <2>2 DEF UpdatesInv, UpdatesOK, ClockInv, TallyInv, TasksInv, RestOK, IntakeTypeOK
<1> QED
  BY <1>1, <1>2, ClockInvNext, TallyInvNext, RestOKNext, UpdatesInvariant, TasksInvariant,
     PTL DEF Spec

-----------------------------------------------------------------------------
(***************************************************************************)
(* The tries.  A wrong password is judged at most once at each try of a    *)
(* message that was given to a handler.                                    *)
(***************************************************************************)

\* The k-th try of update i is past its judgement, or can no longer come to it.
Spent(i, k) ==
    \/ tasks[i].at = "idle"
    \/ k < tasks[i].try
    \/ k = tasks[i].try /\ tasks[i].at # "judge"

Used(u) == {p \in Heeded(u) \X (1 .. MaxTries) : Spent(p[1], p[2])}

TriesInv == \A u \in People : guesses[u] <= Cardinality(Used(u))

LEMMA UsedIsFinite ==
    ASSUME UpdatesInv, NEW u
    PROVE  /\ IsFiniteSet(Heeded(u)) /\ Cardinality(Heeded(u)) \in Nat
           /\ IsFiniteSet(Used(u)) /\ Cardinality(Used(u)) \in Nat
           /\ Cardinality(Used(u)) <= MaxTries * Cardinality(Heeded(u))
<1>1. IsFiniteSet(Heeded(u)) /\ Cardinality(Heeded(u)) \in Nat
  <2>1. IsFiniteSet(1 .. Len(sent))
    BY FS_Interval DEF UpdatesInv, UpdatesOK
  <2> QED
    BY <2>1, FS_Subset, FS_CardinalityType DEF Heeded
<1>2. IsFiniteSet(1 .. MaxTries) /\ Cardinality(1 .. MaxTries) = MaxTries
  BY FS_Interval, IntakeAssumption
<1>3. /\ IsFiniteSet(Heeded(u) \X (1 .. MaxTries))
      /\ Cardinality(Heeded(u) \X (1 .. MaxTries)) = Cardinality(Heeded(u)) * MaxTries
  BY <1>1, <1>2, FS_Product
<1>4. /\ IsFiniteSet(Used(u)) /\ Cardinality(Used(u)) \in Nat
      /\ Cardinality(Used(u)) <= Cardinality(Heeded(u)) * MaxTries
  BY <1>3, FS_Subset, FS_CardinalityType DEF Used
<1>5. Cardinality(Heeded(u)) * MaxTries = MaxTries * Cardinality(Heeded(u))
  BY <1>1, IntakeAssumption
<1> QED
  BY <1>1, <1>4, <1>5

\* No step of a handler makes a try unspent.
LEMMA WorkSpends ==
    ASSUME TasksInv, NEW i \in Updates, Work(i), NEW j \in Updates, NEW k \in Nat, Spent(j, k)
    PROVE  Spent(j, k)'
<1>1. tasks \in [Updates -> Task] /\ tasks[i] \in Task /\ tasks[i].try \in Nat
  BY IntakeAssumption DEF TasksInv, Task
<1>2. CASE GoTo(i, "change") \/ GoTo(i, "answer")
  <2>1. /\ \A h \in Updates : h # i => tasks'[h] = tasks[h]
        /\ tasks'[i].try = tasks[i].try /\ tasks'[i].at # "judge"
    BY <1>1, <1>2 DEF GoTo, Task
  <2>2. CASE j = i
    <3>1. tasks[i].at # "idle"
      BY WorkGoes
    <3> QED
      BY <2>1, <2>2, <3>1 DEF Spent
  <2>3. CASE j # i
    BY <2>1, <2>3 DEF Spent
  <2> QED
    BY <2>2, <2>3
<1>3. CASE End(i)
  BY <1>1, <1>3, IdleIsATask DEF End, Spent
<1>4. CASE Retry(i)
  <2>1. /\ \A h \in Updates : h # i => tasks'[h] = tasks[h]
        /\ tasks'[i].try = tasks[i].try + 1 /\ tasks[i].at = "answer"
    BY <1>1, <1>4 DEF Retry, Task, At
  <2>2. CASE j = i
    BY <1>1, <2>1, <2>2 DEF Spent
  <2>3. CASE j # i
    BY <2>1, <2>3 DEF Spent
  <2> QED
    BY <2>2, <2>3
<1> QED
  BY <1>2, <1>3, <1>4 DEF Work, Judge, Admit, Change, Fail, Answer

\* Nor does any other step.
LEMMA UsedLasts ==
    ASSUME UpdatesInv, TasksInv, [Next]_vars, NEW u
    PROVE  Used(u) \subseteq Used(u)'
<1>1. ASSUME NEW i \in 1 .. Len(sent)
      PROVE  i \in Updates
  BY IntakeAssumption DEF UpdatesInv, UpdatesOK, Updates
<1>2. ASSUME \A i \in Heeded(u) : i \in Heeded(u)',
             \A i \in Heeded(u), k \in 1 .. MaxTries : Spent(i, k) => Spent(i, k)'
      PROVE  Used(u) \subseteq Used(u)'
  BY <1>2 DEF Used
<1>3. ASSUME sent' = sent, runs' = runs
      PROVE  \A i \in Heeded(u) : i \in Heeded(u)'
  BY <1>3 DEF Heeded, Sender
<1>4. ASSUME tasks' = tasks
      PROVE  \A i, k : Spent(i, k) => Spent(i, k)'
  BY <1>4 DEF Spent
<1>5. CASE \/ \E v \in People : Converse(v) \/ Expire(v)
           \/ Tick \/ StepBack \/ StepForward \/ Boot \/ Poll \/ UNCHANGED vars
  <2>1. sent' = sent /\ runs' = runs /\ tasks' = tasks
    BY <1>5 DEF Converse, Expire, Tick, StepBack, StepForward, Boot, Poll, vars, memory, history
  <2> QED
    BY <1>2, <1>3, <1>4, <2>1
<1>6. CASE Crash
  <2>1. sent' = sent /\ runs' = runs /\ tasks' = [i \in Updates |-> Idle]
    BY <1>6 DEF Crash, Forgotten, history
  <2>2. \A i \in Heeded(u), k \in 1 .. MaxTries : Spent(i, k)'
    BY <1>1, <2>1, IdleIsATask DEF Heeded, Spent
  <2> QED
    BY <1>2, <1>3, <2>1, <2>2
<1>7. ASSUME NEW v \in People, NEW kind \in Sendable, Send(v, kind)
      PROVE  Used(u) \subseteq Used(u)'
  <2>1. /\ runs' = runs /\ tasks' = tasks /\ Len(sent') = Len(sent) + 1 /\ Len(sent) \in Nat
        /\ \A i \in 1 .. Len(sent) : sent'[i] = sent[i]
    BY <1>7 DEF Send, memory, history, UpdatesInv, UpdatesOK
  <2>2. \A i \in 1 .. Len(sent) : i \in 1 .. Len(sent')
    BY <2>1
  <2>3. \A i \in Heeded(u) : i \in Heeded(u)'
    BY <2>1, <2>2 DEF Heeded, Sender
  <2> QED
    BY <1>2, <1>4, <2>1, <2>3
<1>8. ASSUME NEW i \in batch, Dispatch(i)
      PROVE  Used(u) \subseteq Used(u)'
  <2>1. i \in Updates /\ runs[i] = 0
    BY SenderIsKnown DEF UpdatesInv, NotYetGiven
  <2>2. /\ sent' = sent
        /\ \A j \in Updates : j # i => runs'[j] = runs[j] /\ tasks'[j] = tasks[j]
    BY <1>8 DEF Dispatch, Misread, Drop, Throttle, Begin, UpdatesInv, UpdatesOK, TasksInv
  <2>3. i \notin Heeded(u)
    BY <2>1 DEF Heeded
  <2>4. \A j \in Heeded(u) : j \in Heeded(u)' /\ tasks'[j] = tasks[j]
    BY <1>1, <2>2, <2>3 DEF Heeded, Sender
  <2>5. \A j \in Heeded(u), k \in 1 .. MaxTries : Spent(j, k) => Spent(j, k)'
    BY <2>4 DEF Spent
  <2> QED
    BY <1>2, <2>4, <2>5
<1>9. ASSUME NEW i \in Updates, Work(i)
      PROVE  Used(u) \subseteq Used(u)'
  <2>1. sent' = sent /\ runs' = runs
    BY <1>9, WorkIsQuiet
  <2>2. 1 .. MaxTries \subseteq Nat
    BY IntakeAssumption
  <2>3. \A j \in Heeded(u), k \in 1 .. MaxTries : Spent(j, k) => Spent(j, k)'
    BY <1>1, <1>9, <2>2, WorkSpends DEF Heeded
  <2> QED
    BY <1>2, <1>3, <2>1, <2>3
<1> QED
  BY <1>5, <1>6, <1>7, <1>8, <1>9 DEF Next

\* The try at which a password is judged is spent by that.
LEMMA JudgeSpends ==
    ASSUME UpdatesInv, TasksInv, NEW i \in Updates, Judge(i), NEW u, u = Sender(i)
    PROVE  \E p : p \in Used(u)' /\ p \notin Used(u)
<1>1. /\ tasks \in [Updates -> Task] /\ tasks[i] \in Task /\ tasks[i].at = "judge"
      /\ tasks[i].try \in 1 .. MaxTries /\ tasks[i].try \in Nat
  BY IntakeAssumption DEF Judge, At, TasksInv, Task
<1>2. PICK k \in 1 .. MaxTries : k = tasks[i].try
  BY <1>1
<1>3. sent' = sent /\ runs' = runs /\ tasks'[i].at = "change" /\ tasks'[i].try = k
  <2>1. runs' = runs
    BY WorkIsQuiet DEF Work
  <2> QED
    BY <1>1, <1>2, <2>1 DEF Judge, GoTo, Task
<1>4. i \in Heeded(u)
  BY <1>1, WorkerIsKnown DEF Heeded
<1>5. <<i, k>> \notin Used(u)
  <2>1. ~ Spent(i, k)
    BY <1>1, <1>2 DEF Spent
  <2> QED
    BY <2>1 DEF Used
<1>6. <<i, k>> \in Used(u)'
  <2>1. i \in Heeded(u)'
    BY <1>3, <1>4 DEF Heeded, Sender
  <2>2. Spent(i, k)'
    BY <1>3 DEF Spent
  <2> QED
    BY <2>1, <2>2 DEF Used
<1> QED
  BY <1>5, <1>6

LEMMA TriesInvNext == UpdatesInv /\ TasksInv /\ TallyInv /\ TriesInv /\ [Next]_vars => TriesInv'
<1> SUFFICES ASSUME UpdatesInv, TasksInv, TallyInv, TriesInv, [Next]_vars, NEW u \in People
             PROVE  guesses'[u] <= Cardinality(Used(u)')
  BY DEF TriesInv
<1>1. UpdatesInv'
  BY UpdatesInvNext
<1>2. /\ IsFiniteSet(Used(u)') /\ Cardinality(Used(u)') \in Nat
      /\ Cardinality(Used(u)) \in Nat /\ IsFiniteSet(Used(u))
  <2>1. IsFiniteSet(Used(u)) /\ Cardinality(Used(u)) \in Nat
    BY UsedIsFinite
  <2>2. IsFiniteSet(1 .. Len(sent')) /\ IsFiniteSet(1 .. MaxTries)
    <3>1. Len(sent') \in Int /\ MaxTries \in Int /\ 1 \in Int
      BY <1>1, IntakeAssumption DEF UpdatesInv, UpdatesOK
    <3> QED
      BY <3>1, FS_Interval
  <2>3. IsFiniteSet((1 .. Len(sent')) \X (1 .. MaxTries))
    BY <2>2, FS_Product
  <2>4. Used(u)' \subseteq (1 .. Len(sent')) \X (1 .. MaxTries)
    BY DEF Used, Heeded
  <2>5. IsFiniteSet(Used(u)') /\ Cardinality(Used(u)') \in Nat
    BY <2>3, <2>4, FS_Subset, FS_CardinalityType
  <2> QED
    BY <2>1, <2>5
<1>3. Used(u) \subseteq Used(u)'
  BY UsedLasts
<1>4. Cardinality(Used(u)) <= Cardinality(Used(u)')
  BY <1>2, <1>3, FS_Subset
<1>5. guesses[u] \in Nat /\ guesses[u] <= Cardinality(Used(u)) /\ guesses \in [People -> Nat]
  BY DEF TallyInv, TriesInv
<1>6. ASSUME guesses'[u] \in Nat, guesses'[u] <= guesses[u]
      PROVE  guesses'[u] <= Cardinality(Used(u)')
  BY <1>2, <1>4, <1>5, <1>6
<1>7. CASE guesses' = guesses
  BY <1>5, <1>6, <1>7
<1>8. ASSUME NEW v \in People, Expire(v)
      PROVE  guesses'[u] <= Cardinality(Used(u)')
  BY <1>5, <1>6, <1>8 DEF Expire
<1>9. ASSUME NEW i \in Updates, Judge(i)
      PROVE  guesses'[u] <= Cardinality(Used(u)')
  <2>1. CASE Throttled(Sender(i))
    BY <1>7, <1>9, <2>1 DEF Judge
  <2>2. CASE ~ Throttled(Sender(i)) /\ sent[i].kind = "right"
    <3>1. guesses' = [guesses EXCEPT ![Sender(i)] = 0]
      BY <1>9, <2>2 DEF Judge
    <3> QED
      BY <1>5, <1>6, <3>1
  <2>3. CASE ~ Throttled(Sender(i)) /\ sent[i].kind # "right"
    <3>1. guesses' = [guesses EXCEPT ![Sender(i)] = @ + 1]
      BY <1>9, <2>3 DEF Judge
    <3>2. CASE u # Sender(i)
      BY <1>5, <1>6, <3>1, <3>2
    <3>3. CASE u = Sender(i)
      <4>1. PICK p : p \in Used(u)' /\ p \notin Used(u)
        BY <1>9, <3>3, JudgeSpends
      <4>2. Used(u) \cup {p} \subseteq Used(u)'
        BY <1>3, <4>1
      <4>3. Cardinality(Used(u) \cup {p}) = Cardinality(Used(u)) + 1
        BY <1>2, <4>1, FS_AddElement
      <4>4. Cardinality(Used(u) \cup {p}) <= Cardinality(Used(u)')
        BY <1>2, <4>2, FS_Subset
      <4>5. guesses'[u] = guesses[u] + 1
        BY <1>5, <3>1, <3>3
      <4> DEFINE before == Cardinality(Used(u))
                 after == Cardinality(Used(u)')
      <4>6. before \in Nat /\ after \in Nat /\ before + 1 <= after /\ guesses[u] <= before
        BY <1>2, <1>5, <4>3, <4>4
      <4>7. SUFFICES guesses'[u] <= after
        OBVIOUS
      <4> HIDE DEF before, after
      <4> QED
        BY <1>5, <4>5, <4>6
    <3> QED
      BY <3>2, <3>3
  <2> QED
    BY <2>1, <2>2, <2>3
<1>10. CASE \/ \E v \in People, kind \in Sendable : Send(v, kind)
            \/ \E v \in People : Converse(v)
            \/ Tick \/ StepBack \/ StepForward \/ Crash \/ Boot \/ Poll \/ UNCHANGED vars
  BY <1>7, <1>10 DEF Send, Converse, Tick, StepBack, StepForward, Crash, Boot, Poll, vars, memory, history
<1>11. ASSUME NEW i \in batch, Dispatch(i)
       PROVE  guesses' = guesses
  BY <1>11 DEF Dispatch
<1>12. ASSUME NEW i \in Updates, Admit(i) \/ Change(i) \/ Fail(i) \/ Answer(i) \/ Retry(i)
       PROVE  guesses' = guesses
  BY <1>12 DEF Admit, Change, Fail, Answer, Retry, history
<1> QED
  BY <1>7, <1>8, <1>9, <1>10, <1>11, <1>12 DEF Next, Work

(***************************************************************************)
(* Nobody is locked out by fewer messages than their wrong passwords: each *)
(* try of a message that reached a handler counts once at most.            *)
(***************************************************************************)
THEOREM GuessesAreMessages == Spec => []GuessesComeFromMessages
<1>1. Init => TriesInv
  <2> SUFFICES ASSUME Init, NEW u \in People PROVE guesses[u] <= Cardinality(Used(u))
    BY DEF TriesInv
  <2>1. guesses[u] = 0
    BY DEF Init
  <2>2. Cardinality(Used(u)) \in Nat
    BY UpdatesInvInit, UsedIsFinite
  <2> QED
    BY <2>1, <2>2
<1>2. ASSUME UpdatesInv, TallyInv, TriesInv PROVE GuessesComeFromMessages
  <2> SUFFICES ASSUME NEW u \in People
               PROVE  guesses[u] <= MaxTries * Cardinality(Heeded(u))
    BY DEF GuessesComeFromMessages
  <2>1. /\ guesses[u] \in Nat /\ guesses[u] <= Cardinality(Used(u))
        /\ Cardinality(Used(u)) \in Nat /\ Cardinality(Heeded(u)) \in Nat
        /\ Cardinality(Used(u)) <= MaxTries * Cardinality(Heeded(u))
    BY <1>2, UsedIsFinite DEF TallyInv, TriesInv
  <2>2. MaxTries * Cardinality(Heeded(u)) \in Nat
    BY <2>1, IntakeAssumption
  <2> QED
    BY <2>1, <2>2
<1> QED
  BY <1>1, <1>2, TallyInvInit, TallyInvNext, TriesInvNext, UpdatesInvariant, TasksInvariant,
     PTL DEF Spec
=============================================================================
