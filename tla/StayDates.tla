----------------------------- MODULE StayDates -----------------------------
(***************************************************************************)
(* Stay intervals. A booking occupies the half-open range of calendar days *)
(* [start, end): the guest leaves on the morning of the end date. The two  *)
(* copies of the overlap query (bookings.py _has_overlap and payments.py   *)
(* _has_confirmed_overlap) use the same predicate on dates.                *)
(***************************************************************************)
EXTENDS Integers

\* _validate_dates: the start must be strictly before the end.
ValidStay(start, end) == start < end

\* The WHERE clause ~((end_date <= start) | (start_date >= end)), an existing
\* stay [es, ee) against a wanted one [s, e).
Overlaps(es, ee, s, e) == ~(ee <= s \/ es >= e)

\* The nights a stay occupies: what the clause is meant to compare. Nothing but
\* properties and proofs uses it.
Nights(start, end) == start .. (end - 1)
=============================================================================
