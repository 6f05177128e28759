----------------------------- MODULE MCBookings -----------------------------
(***************************************************************************)
(* Small instances of Bookings for TLC: b1 and b2 are stays at property p1 *)
(* that share one night, b3 and b4 are two such stays at property p2.      *)
(***************************************************************************)
EXTENDS Bookings, TLC

CONSTANTS b1, b2, b3, b4, p1, p2, h1, h2, s1   \* model values

AtProperty == [b \in Booking |-> IF b \in {b1, b2} THEN p1 ELSE p2]

\* b1 and b3 take the nights 1 and 2, b2 and b4 the nights 2 and 3.
Starts == [b \in Booking |-> IF b \in {b1, b3} THEN 1 ELSE 2]
Ends   == [b \in Booking |-> IF b \in {b1, b3} THEN 3 ELSE 4]

\* A bound: the bookings of one property are looked at, whichever it is. It
\* restricts only which are created, of which no fairness is assumed.
OneProperty ==
    \A b, c \in Booking : PropertyOf[b] # PropertyOf[c] => Fresh(b) \/ Fresh(c)
=============================================================================
