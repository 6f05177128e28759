---------------------------- MODULE BookingData ----------------------------
(***************************************************************************)
(* What never changes about a booking row once it is inserted (the columns *)
(* property_id, start_date and end_date of models.Booking, which no code   *)
(* writes again) and about the property it is for.                         *)
(***************************************************************************)
EXTENDS StayDates

CONSTANTS
    Booking,           \* the primary keys the bookings table may hand out
    Property,          \* the properties listed by landlords
    PropertyOf,        \* bookings.property_id
    StartDate,         \* bookings.start_date
    EndDate,           \* bookings.end_date
    RequiresApproval   \* the properties whose requires_approval is true

\* create_booking refuses an unknown property and an empty or inverted range,
\* so that every row has these.
ASSUME BookingDataAssumption ==
    /\ PropertyOf \in [Booking -> Property]
    /\ StartDate \in [Booking -> Int]
    /\ EndDate \in [Booking -> Int]
    /\ \A b \in Booking : ValidStay(StartDate[b], EndDate[b])
    /\ RequiresApproval \subseteq Property

\* What the overlap query compares: booking c stands in the way of booking b.
Conflict(c, b) ==
    /\ PropertyOf[c] = PropertyOf[b]
    /\ Overlaps(StartDate[c], EndDate[c], StartDate[b], EndDate[b])

\* Two bookings that cannot both be honoured. Nothing but properties uses it.
ShareNight(c, b) ==
    /\ PropertyOf[c] = PropertyOf[b]
    /\ Nights(StartDate[c], EndDate[c]) \cap Nights(StartDate[b], EndDate[b]) # {}

\* The values of bookings.status; "absent" stands for no row.
Status == {"absent", "requested", "pending_payment", "confirmed",
           "cancelled", "cancelled_expired", "declined"}

\* The tuple cancel_booking treats as terminal.
Closed == {"cancelled", "cancelled_expired", "declined"}

\* The status create_booking gives to a new row.
InitialStatus(b) ==
    IF PropertyOf[b] \in RequiresApproval THEN "requested" ELSE "pending_payment"
=============================================================================
