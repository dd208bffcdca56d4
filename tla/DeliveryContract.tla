-------------------------- MODULE DeliveryContract --------------------------
(***************************************************************************)
(* What the bot promises about the delivery of messages to its handlers,   *)
(* whatever the order of polling, dispatching and throttling:              *)
(*                                                                         *)
(*   - a message that waits is given to a handler or refused, once, and    *)
(*     only by a process that runs;                                        *)
(*   - while the process runs no message stops waiting in another way than *)
(*     these, but that one for which Redis fails is lost, once;            *)
(*   - a process that dies may lose what waits for it, and the next one    *)
(*     starts with nothing waiting and never comes back to what was lost.  *)
(*                                                                         *)
(* Updates, batches, offsets, filters and clocks are left out: Intake maps *)
(* its state to these variables and is shown to take only these steps.     *)
(***************************************************************************)
EXTENDS Integers

CONSTANT Messages  \* the numbers a message can have, 1..n

VARIABLES
    running,  \* whether there is a process
    count,    \* how many messages have been sent
    waiting,  \* those that are yet to be given to a handler
    given,    \* how often each was given to one
    refused,  \* those no handler is to see
    lost      \* those for which Redis failed

delivery == <<running, count, waiting, given, refused, lost>>

Init ==
    /\ running = TRUE
    /\ count = 0
    /\ waiting = {}
    /\ given = [i \in Messages |-> 0]
    /\ refused = {}
    /\ lost = {}

Accept ==
    /\ count + 1 \in Messages
    /\ count' = count + 1
    /\ waiting' = waiting \cup {count + 1}
    /\ UNCHANGED <<running, given, refused, lost>>

Settle(i) ==
    /\ running
    /\ i \in waiting
    /\ waiting' = waiting \ {i}
    /\ UNCHANGED <<running, count>>

Give(i) ==
    /\ Settle(i)
    /\ given' = [given EXCEPT ![i] = @ + 1]
    /\ UNCHANGED <<refused, lost>>

Refuse(i) ==
    /\ Settle(i)
    /\ refused' = refused \cup {i}
    /\ UNCHANGED <<given, lost>>

Lose(i) ==
    /\ Settle(i)
    /\ lost' = lost \cup {i}
    /\ UNCHANGED <<given, refused>>

Stop ==
    /\ running
    /\ running' = FALSE
    /\ waiting' \in SUBSET waiting
    /\ UNCHANGED <<count, given, refused, lost>>

Start ==
    /\ ~ running
    /\ running' = TRUE
    /\ waiting' = {}
    /\ UNCHANGED <<count, given, refused, lost>>

Next ==
    \/ Accept
    \/ \E i \in Messages : Give(i) \/ Refuse(i) \/ Lose(i)
    \/ Stop
    \/ Start

Spec == Init /\ [][Next]_delivery
=============================================================================
