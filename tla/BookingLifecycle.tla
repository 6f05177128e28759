-------------------------- MODULE BookingLifecycle --------------------------
(***************************************************************************)
(* The workflow the handlers follow as long as nobody interferes: every    *)
(* decision about a booking is one atomic step on its status, from a       *)
(* status the handler's own test lets through to the one it writes, and    *)
(* a stay is never granted twice.                                          *)
(*                                                                         *)
(* It is not the "simplified" diagram of models.py:49-51, which has        *)
(* neither requested -> cancelled nor confirmed -> cancelled               *)
(* (bookings.py:288 refuses only closed bookings) and draws "declined"     *)
(* under pending_payment (bookings.py:246 declines only requests).         *)
(***************************************************************************)
EXTENDS BookingData

VARIABLE status

Init == status = [b \in Booking |-> "absent"]

Free(b) == \A c \in Booking : Conflict(c, b) => status[c] # "confirmed"

Move(b, from, to) ==
    /\ status[b] \in from
    /\ status' = [status EXCEPT ![b] = to]

\* create_booking: where the landlord wants to approve, a request.
Create(b)  == Free(b) /\ Move(b, {"absent"}, InitialStatus(b))
\* approve_booking, decline_booking: "Only requested bookings can be ..."
Approve(b) == Move(b, {"requested"}, "pending_payment")
Decline(b) == Move(b, {"requested"}, "declined")
\* The three compare-and-sets of payments.py, after the overlap query.
Confirm(b) == Free(b) /\ Move(b, {"pending_payment"}, "confirmed")
\* cancel_booking: any booking that is not closed, a confirmed one too.
Cancel(b)  == Move(b, {"requested", "pending_payment", "confirmed"}, "cancelled")

\* One sweep releases any number of holds in one transaction.
Expire(S) ==
    /\ \A b \in S : status[b] = "pending_payment"
    /\ status' = [b \in Booking |->
                    IF b \in S THEN "cancelled_expired" ELSE status[b]]

Next ==
    \/ \E b \in Booking : \/ Create(b)
                          \/ Approve(b)
                          \/ Decline(b)
                          \/ Confirm(b)
                          \/ Cancel(b)
    \/ \E S \in SUBSET Booking : Expire(S)

Spec == Init /\ [][Next]_status

\* No two bookings of one property with a night in common are ever both
\* confirmed: the rule the overlap queries of bookings.py and payments.py are
\* there to keep.
NoDoubleBooking ==
    \A b, c \in Booking :
        (b # c /\ ShareNight(c, b)) =>
            ~(status[b] = "confirmed" /\ status[c] = "confirmed")
=============================================================================
