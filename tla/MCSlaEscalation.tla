-------------------------- MODULE MCSlaEscalation --------------------------
(***************************************************************************)
(* The SLA loop with a client and an administrator, and the second of the  *)
(* two hours of the clock the only business hour.                          *)
(***************************************************************************)
EXTENDS SlaEscalation

BusinessHours == {2}

(***************************************************************************)
(* The promise of the documentation: the windows of the SLA are measured   *)
(* in business hours, so a ticket is escalated only when the smaller of    *)
(* the two has gone by in business hours since it was opened.  The code    *)
(* does not keep this: deadlines are set and compared on the wall clock.   *)
(***************************************************************************)
CountsBusinessTime ==
    \A t \in Ids : IsEscalated(t) =>
        Cardinality(BusinessHours \cap tickets[t].openedAt + 1 .. now) >=
            Smaller(ReplyWindow, CloseWindow)
=============================================================================
