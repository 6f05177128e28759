---------------------------- MODULE SerialProofs ----------------------------
(***************************************************************************)
(* What Bookings guarantees as long as work is kept apart, for any number  *)
(* of threads, with crashes, failures of Redis and Stripe's own steps      *)
(* between any two steps. The code does not see to the conditions: they    *)
(* say what overlapping requests have to do before anything goes wrong.    *)
(*                                                                         *)
(*   OneConfirmer     of the payments of one property, one at a time is    *)
(*                    past its overlap check: no night is granted twice    *)
(*   ApartByBooking   no two threads have the same booking in hand: it     *)
(*                    never has two open intents, the intent paid is the   *)
(*                    one on file, and the sweeper and the approval do     *)
(*                    what they say they do                                *)
(*   ApartByProperty  no two threads work at the same property: both of    *)
(*                    the above, and the workflow of BookingLifecycle is   *)
(*                    implemented                                          *)
(***************************************************************************)
EXTENDS BookingsProofs, StayDatesProofs

-----------------------------------------------------------------------------
(* When work is apart.                                                     *)

OneThread == \A t, u \in Thread : t = u

\* A single thread is apart from every other, at every property ...
LEMMA OneThreadApart ==
    ASSUME OneThread
    PROVE  ApartByProperty
  BY DEF OneThread, ApartByProperty

\* ... and threads at different properties have different bookings, and confirm
\* at different properties.
LEMMA PropertyApart ==
    ASSUME ApartByProperty
    PROVE  ApartByBooking /\ OneConfirmer
  BY DEF ApartByProperty, ApartByBooking, OneConfirmer

-----------------------------------------------------------------------------
(* What a thread has in hand is current.                                   *)

\* No other thread writes the row a thread has in hand, and a write of its own
\* is a step of its own.
LEMMA RowStays ==
    ASSUME SafetyInv, ApartByBooking, [Next]_vars,
           NEW t \in Thread, NEW b \in Loaded(t), Stays(t)
    PROVE  rows'[b] = rows[b]
  <1>1. TypeOK /\ b \in Booking /\ pc[t] # "idle"
    BY DEF SafetyInv, PlaceOK, Loaded
  <1>2. ASSUME NEW u \in Thread, Writes(u, b)
        PROVE  FALSE
    <2>1. b \in Loaded(u)
      BY <1>2 DEF Writes, At
    <2>2. u = t
      BY <2>1 DEF ApartByBooking
    <2> QED
      BY <1>1, <1>2, <2>2 DEF Writes, Stays, Ends, At
  <1> QED
    BY <1>1, <1>2, RowStep

\* With no other thread on the booking, every step leaves a current copy.
LEMMA CurrentInvStep ==
    ASSUME SafetyInv, ApartByBooking, CurrentInv, [Next]_vars
    PROVE  CurrentInv'
  <1> SUFFICES ASSUME NEW t \in Thread, NEW b \in Loaded(t)'
               PROVE  CurrentFor(t, b)'
    BY DEF CurrentInv
  <1>1. /\ TypeOK
        /\ b \in Booking
        /\ obj[t] \in [Booking -> Row]
        /\ rows \in [Booking -> Row]
    BY DEF SafetyInv, TypeOK, Loaded
  <1>2. CASE Stays(t)
    <2>1. b \in Loaded(t) /\ CurrentFor(t, b)
      BY <1>2 DEF Stays, Loaded, CurrentInv
    <2>2. rows'[b] = rows[b] /\ voided \subseteq voided'
      BY <1>2, <2>1, RowStays, StripeStep
    <2> QED
      BY <1>2, <2>1, <2>2 DEF Stays, CurrentFor
  <1>3. CASE Ends(t)
    BY <1>3 DEF Ends, Loaded, NoRow
  <1>4. CASE TakesExpired(t)
    <2>1. obj'[t][b] = rows'[b] /\ rows[b].status = "pending_payment"
      BY <1>1, <1>4 DEF TakesExpired, Loaded, NoRow, Sweepable
    <2> QED
      BY <1>4, <2>1 DEF TakesExpired, CurrentFor
  <1>5. ASSUME NEW c \in Booking, Takes(t, c)
        PROVE  CurrentFor(t, b)'
    <2>1. Loaded(t) = {}
      BY <1>5 DEF SafetyInv, PlaceOK, Takes
    <2>2. b = c
      BY <1>1, <1>5, <2>1 DEF Takes, Loaded
    <2>3. pc'[t] = "insert" \/ obj'[t][b] = rows[b]
      BY <1>1, <1>5, <2>2 DEF Takes
    <2> QED
      BY <1>5, <2>2, <2>3 DEF Takes, CurrentFor
  <1>6. ASSUME NEW c \in Booking, GoesOn(t, c)
        PROVE  CurrentFor(t, b)'
    <2>1. c \in Loaded(t) /\ CurrentFor(t, c) /\ \A d \in Loaded(t) : d = c
      BY <1>6 DEF GoesOn, At, CurrentInv, SafetyInv, PlaceOK
    <2>2. b = c
      BY <1>1, <1>6, <2>1 DEF GoesOn, Loaded
    <2>3. CASE pc'[t] = "create_record"
      <3>1. obj'[t][b] = rows[b]
        BY <1>1, <1>6, <2>2, <2>3 DEF GoesOn
      <3> QED
        BY <1>6, <2>2, <2>3, <3>1 DEF GoesOn, CurrentFor
    <2>4. CASE pc'[t] = "refresh"
      BY <1>1, <1>6, <2>2, <2>4 DEF GoesOn, CurrentFor
    <2>5. CASE pc'[t] \notin {"create_record", "refresh"}
      <3>1. voided \subseteq voided'
        BY StripeStep
      <3> QED
        BY <1>6, <2>1, <2>2, <2>5, <3>1 DEF GoesOn, At, CurrentFor
    <2> QED
      BY <2>3, <2>4, <2>5
  <1> QED
    BY <1>1, <1>2, <1>3, <1>4, <1>5, <1>6, SessionStep

\* No thread acts on a stale copy.
LEMMA CurrentInvariant == Spec /\ []ApartByBooking => []CurrentInv
  <1>1. Init => CurrentInv
    BY DEF Init, CurrentInv, Loaded, NoRow
  <1>2. SafetyInv /\ ApartByBooking /\ CurrentInv /\ [Next]_vars => CurrentInv'
    BY CurrentInvStep
  <1> QED
    BY <1>1, <1>2, SafetyInvariant, PTL DEF Spec

-----------------------------------------------------------------------------
(* What dates a thread has found free are free.                            *)

\* A step that leaves the rows of the property alone leaves the overlaps alone.
LEMMA OverlapStays ==
    ASSUME NEW b \in Booking,
           \A c \in Booking : PropertyOf[c] = PropertyOf[b] => rows'[c] = rows[c]
    PROVE  HasConfirmedOverlap(b)' = HasConfirmedOverlap(b)
  BY DEF HasConfirmedOverlap, Conflict

\* A booking becomes confirmed only by the UPDATE of a payment.
LEMMA ConfirmStep ==
    ASSUME SafetyInv, [Next]_vars, NEW b \in Booking,
           rows'[b].status = "confirmed", rows[b].status # "confirmed"
    PROVE  \E t \in Thread : /\ b \in Loaded(t)
                             /\ pc[t] = "confirm"
                             /\ Ends(t)
  <1>1. PICK t \in Thread : Writes(t, b)
    BY RowStep DEF SafetyInv
  <1>2. /\ rows[b] \in Row
        /\ b \in Loaded(t)
        /\ pc[t] = "insert" => obj[t][b].status # "confirmed"
    BY <1>1 DEF SafetyInv, TypeOK, PlaceOK, InitialStatus, Writes, At
  <1> QED
    BY <1>1, <1>2 DEF Writes, At, Approved, Declined, Cancelled, Expired, Row

\* Dates found free before a payment confirms stay free until it does, however
\* much else goes on, if no other payment at the property is as far.
LEMMA FreeToConfirmStep ==
    ASSUME SafetyInv, OneConfirmer, FreeToConfirm, [Next]_vars
    PROVE  FreeToConfirm'
  <1> SUFFICES ASSUME NEW t \in Thread, NEW b \in Loaded(t)',
                      pc'[t] = "confirm"
               PROVE  ~HasConfirmedOverlap(b)'
    BY DEF FreeToConfirm
  <1>1. TypeOK /\ b \in Booking
    BY DEF SafetyInv, Loaded
  <1>2. CASE Stays(t)
    <2>1. b \in Loaded(t) /\ pc[t] = "confirm" /\ ~HasConfirmedOverlap(b)
      BY <1>2 DEF Stays, Loaded, FreeToConfirm
    <2>2. SUFFICES ASSUME NEW c \in Booking, rows'[c].status = "confirmed",
                          Conflict(c, b)
                   PROVE  FALSE
      BY DEF HasConfirmedOverlap, Conflict
    <2>3. rows[c].status # "confirmed"
      BY <2>1, <2>2 DEF HasConfirmedOverlap
    <2>4. PICK u \in Thread : c \in Loaded(u) /\ pc[u] = "confirm" /\ Ends(u)
      BY <2>2, <2>3, ConfirmStep
    <2>5. u = t
      BY <2>1, <2>2, <2>4 DEF OneConfirmer, Conflict
    <2> QED
      BY <1>2, <2>1, <2>4, <2>5 DEF Stays, Ends
  <1>3. CASE Ends(t) \/ TakesExpired(t)
    BY <1>3 DEF Ends, TakesExpired
  <1>4. CASE \E c \in Booking : Takes(t, c)
    BY <1>4 DEF Takes
  <1>5. ASSUME NEW c \in Booking, GoesOn(t, c)
        PROVE  ~HasConfirmedOverlap(b)'
    <2>1. \A d \in Loaded(t) : d = c
      BY <1>5 DEF GoesOn, At, SafetyInv, PlaceOK
    <2>2. b \in Loaded(t) /\ rows' = rows /\ ~HasConfirmedOverlap(c)
      BY <1>5 DEF GoesOn, Loaded
    <2> QED
      BY <1>1, <2>1, <2>2, OverlapStays
  <1> QED
    BY <1>1, <1>2, <1>3, <1>4, <1>5, SessionStep

\* With no other thread at the property, dates found free by create_booking
\* stay free until its INSERT.
LEMMA FreeToInsertStep ==
    ASSUME SafetyInv, ApartByProperty, FreeToInsert, [Next]_vars
    PROVE  FreeToInsert'
  <1> SUFFICES ASSUME NEW t \in Thread, NEW b \in Loaded(t)',
                      pc'[t] = "insert"
               PROVE  ~HasConfirmedOverlap(b)'
    BY DEF FreeToInsert
  <1>1. TypeOK /\ b \in Booking /\ obj[t] \in [Booking -> Row]
    BY DEF SafetyInv, TypeOK, Loaded
  <1>2. CASE Stays(t)
    <2>1. b \in Loaded(t) /\ ~HasConfirmedOverlap(b)
      BY <1>2 DEF Stays, Loaded, FreeToInsert
    <2>2. ASSUME NEW c \in Booking, PropertyOf[c] = PropertyOf[b],
                 NEW u \in Thread, Writes(u, c)
          PROVE  FALSE
      <3>1. c \in Loaded(u)
        BY <2>2 DEF Writes, At
      <3>2. u = t
        BY <2>1, <2>2, <3>1 DEF ApartByProperty
      <3> QED
        BY <1>2, <2>2, <3>2 DEF Writes, Stays, Ends, At
    <2>3. \A c \in Booking : PropertyOf[c] = PropertyOf[b] => rows'[c] = rows[c]
      BY <1>1, <2>2, RowStep
    <2> QED
      BY <1>1, <2>1, <2>3, OverlapStays
  <1>3. CASE Ends(t) \/ TakesExpired(t) \/ \E c \in Booking : GoesOn(t, c)
    BY <1>3 DEF Ends, TakesExpired, GoesOn
  <1>4. ASSUME NEW c \in Booking, Takes(t, c)
        PROVE  ~HasConfirmedOverlap(b)'
    <2>1. Loaded(t) = {}
      BY <1>4 DEF SafetyInv, PlaceOK, Takes
    <2>2. b = c
      BY <1>1, <1>4, <2>1 DEF Takes, Loaded
    <2>3. rows' = rows /\ ~HasConfirmedOverlap(b)
      BY <1>4, <2>2 DEF Takes
    <2> QED
      BY <1>1, <2>3, OverlapStays
  <1> QED
    BY <1>1, <1>2, <1>3, <1>4, SessionStep

\* No payment confirms over dates granted since it looked.
LEMMA FreeToConfirmInvariant == Spec /\ []OneConfirmer => []FreeToConfirm
  <1>1. Init => FreeToConfirm
    BY DEF Init, FreeToConfirm, Loaded, NoRow
  <1>2. SafetyInv /\ OneConfirmer /\ FreeToConfirm /\ [Next]_vars => FreeToConfirm'
    BY FreeToConfirmStep
  <1> QED
    BY <1>1, <1>2, SafetyInvariant, PTL DEF Spec

\* No booking is created over dates granted since create_booking looked.
LEMMA FreeToInsertInvariant == Spec /\ []ApartByProperty => []FreeToInsert
  <1>1. Init => FreeToInsert
    BY DEF Init, FreeToInsert, Loaded, NoRow
  <1>2. SafetyInv /\ ApartByProperty /\ FreeToInsert /\ [Next]_vars => FreeToInsert'
    BY FreeToInsertStep
  <1> QED
    BY <1>1, <1>2, SafetyInvariant, PTL DEF Spec

\* The one race that grants a night twice is that of two payments at one
\* property which are both past the overlap check. Where there is none, no two
\* bookings with a night in common are ever both confirmed, whatever stale
\* copies are written back.
THEOREM OneConfirmerGrantsOnce ==
    Spec /\ []OneConfirmer => []NoDoubleBooking
  <1>1. Init => NoDoubleBooking
    BY DEF Init, NoDoubleBooking, NoRow
  <1>2. SafetyInv /\ OneConfirmer /\ FreeToConfirm /\ NoDoubleBooking /\ [Next]_vars =>
           NoDoubleBooking'
    <2> SUFFICES ASSUME SafetyInv, OneConfirmer, FreeToConfirm, NoDoubleBooking,
                        [Next]_vars,
                        NEW b \in Booking, NEW c \in Booking,
                        b # c, ShareNight(c, b),
                        rows'[b].status = "confirmed", rows'[c].status = "confirmed"
                 PROVE  FALSE
      BY DEF NoDoubleBooking, ShareNight
    <2>1. Conflict(c, b) /\ Conflict(b, c)
      BY OverlapMeansSharedNight, BookingDataAssumption
         DEF ShareNight, Conflict, ValidStay, Overlaps
    <2>2. ASSUME NEW d \in Booking, NEW e \in Booking, Conflict(e, d), d # e,
                 rows'[d].status = "confirmed", rows[d].status # "confirmed",
                 rows'[e].status = "confirmed"
          PROVE  FALSE
      <3>1. PICK t \in Thread : d \in Loaded(t) /\ pc[t] = "confirm"
        BY <2>2, ConfirmStep
      <3>2. rows[e].status # "confirmed"
        BY <2>2, <3>1 DEF FreeToConfirm, HasConfirmedOverlap
      <3>3. PICK u \in Thread : e \in Loaded(u) /\ pc[u] = "confirm"
        BY <2>2, <3>2, ConfirmStep
      <3>4. t = u
        BY <2>2, <3>1, <3>3 DEF OneConfirmer, Conflict
      <3> QED
        BY <2>2, <3>1, <3>3, <3>4 DEF SafetyInv, PlaceOK
    <2>3. rows[b].status = "confirmed" /\ rows[c].status = "confirmed"
      BY <2>1, <2>2
    <2> QED
      BY <2>3 DEF NoDoubleBooking
  <1> QED
    BY <1>1, <1>2, SafetyInvariant, FreeToConfirmInvariant, PTL DEF Spec

-----------------------------------------------------------------------------
(* The docstring and the message that overlapping requests refute.         *)

\* The sweep takes a confirmed booking from its tenant only when it overlaps
\* with other work on that very booking.
THEOREM ApartSweepSparesConfirmed ==
    Spec /\ []ApartByBooking => SweepSparesConfirmed
  <1>1. ASSUME SafetyInv, CurrentInv, [Next]_vars, NEW b \in Booking,
               rows[b].status = "confirmed"
        PROVE  rows'[b].status # "cancelled_expired"
    <2>1. rows[b] \in Row
      BY <1>1 DEF SafetyInv, TypeOK
    <2>2. ASSUME NEW t \in Thread, Writes(t, b)
          PROVE  rows'[b].status # "cancelled_expired"
      <3>1. b \in Loaded(t) /\ CurrentFor(t, b)
        BY <1>1, <2>2 DEF Writes, At, CurrentInv
      <3> QED
        BY <1>1, <2>1, <2>2, <3>1
           DEF Writes, At, CurrentFor, Approved, Declined, Cancelled, Unchanged, Row
    <2> QED
      BY <1>1, <2>2, RowStep DEF SafetyInv
  <1>2. SafetyInv /\ CurrentInv /\ [Next]_vars =>
           [\A b \in Booking :
              rows[b].status = "confirmed" =>
                 rows'[b].status # "cancelled_expired"]_vars
    BY <1>1
  <1> QED
    BY <1>2, SafetyInvariant, CurrentInvariant, PTL DEF Spec, SweepSparesConfirmed

\* Approving acts on a booking that is no longer requested only when it
\* overlaps with other work on that very booking.
THEOREM ApartApproveOnlyRequested ==
    Spec /\ []ApartByBooking => ApproveOnlyRequested
  <1>1. ASSUME SafetyInv, CurrentInv, [Next]_vars, NEW b \in Booking,
               rows[b].status \notin {"absent", "pending_payment"},
               rows'[b].status = "pending_payment"
        PROVE  rows[b].status = "requested"
    <2>1. rows[b] \in Row
      BY <1>1 DEF SafetyInv, TypeOK
    <2>2. PICK t \in Thread : Writes(t, b)
      BY <1>1, RowStep DEF SafetyInv
    <2>3. b \in Loaded(t) /\ CurrentFor(t, b)
      BY <1>1, <2>2 DEF Writes, At, CurrentInv
    <2> QED
      BY <1>1, <2>1, <2>2, <2>3
         DEF Writes, At, CurrentFor, Declined, Cancelled, Expired, Confirmed, Row
  <1>2. SafetyInv /\ CurrentInv /\ [Next]_vars =>
           [\A b \in Booking :
              (/\ rows[b].status \notin {"absent", "pending_payment"}
               /\ rows'[b].status = "pending_payment") =>
                 rows[b].status = "requested"]_vars
    BY <1>1
  <1> QED
    BY <1>2, SafetyInvariant, CurrentInvariant, PTL DEF Spec, ApproveOnlyRequested

-----------------------------------------------------------------------------
(* The intents of a booking.                                               *)

\* Stripe's state makes sense: a secret is that of an intent, and only an open
\* intent whose secret went out is paid.
LEMMA StripeOKStep ==
    ASSUME SafetyInv, StripeOK, [Next]_vars
    PROVE  StripeOK'
  <1>1. ASSUME NEW t \in Handler, NEW b \in Booking, HandlerBegins(t, b)
        PROVE  StripeOK'
    BY <1>1 DEF HandlerBegins, CreateBegin, CreateOverlap, ApproveBegin,
                DeclineBegin, CancelBegin, PaymentInfoBegin, FinalizeBegin,
                WebhookBegin, stripe, StripeOK
  <1>2. ASSUME NEW t \in Handler, NEW b \in Booking, HandlerGoesOn(t, b)
        PROVE  StripeOK'
    <2>1. t \in Thread /\ PlaceOK(t)
      BY DEF Thread, SafetyInv
    <2>2. CASE CreateRefresh(t, b)
      BY <2>2 DEF CreateRefresh, stripe, StripeOK, SafetyInv, RecordOK
    <2>3. CASE RecordIntent(t, b) \/ ReplaceIntent(t, b)
      BY <2>1, <2>3 DEF RecordIntent, ReplaceIntent, At, PlaceOK, StripeOK
    <2>4. CASE InspectOpen(t, b)
      <3>1. obj[t][b].payment_intent_id \in intents
        BY <2>1, <2>4 DEF InspectOpen, At, PlaceOK, SafetyInv, RecordOK
      <3> QED
        BY <2>4, <3>1 DEF InspectOpen, StripeOK
    <2>5. CASE InspectCanceled(t, b)
      BY <2>5 DEF InspectCanceled, StripeOK
    <2>6. CASE \/ CreateInsert(t, b) \/ CreateFail(t, b) \/ ApproveLock(t, b)
               \/ ApproveBusy(t, b) \/ ApproveWrite(t, b) \/ DeclineWrite(t, b)
               \/ CancelWrite(t, b) \/ Settle(t, b) \/ FinalizeUnpaid(t, b)
               \/ Confirm(t, b) \/ Refuse(t, b)
      BY <2>6 DEF CreateInsert, CreateFail, ApproveLock, ApproveBusy,
                  ApproveWrite, DeclineWrite, CancelWrite, Settle,
                  FinalizeUnpaid, Confirm, Refuse, stripe, StripeOK
    <2> QED
      BY <1>2, <2>2, <2>3, <2>4, <2>5, <2>6 DEF HandlerGoesOn
  <1> QED
    BY <1>1, <1>2 DEF Next, SweepBegin, SweepCommit, Abort, LockExpires, Pay,
                      Void, Tick, vars, stripe, StripeOK

\* A step that does nothing to booking b keeps its intents right, whatever
\* Stripe cancels.
LEMMA IntentFrame ==
    ASSUME TypeOK, NEW b \in Booking, IntentOK(b), rows'[b] = rows[b],
           voided \subseteq voided',
           \A pi \in intents' : pi[1] = b => pi \in intents,
           \A pi \in secrets' : pi[1] = b => pi \in secrets
    PROVE  IntentOK(b)'
  <1>1. \A pi \in intents' \ voided' : pi[1] = b => pi \in intents \ voided
    OBVIOUS
  <1>2. \A pi \in secrets' \ voided' : pi[1] = b => pi \in secrets \ voided
    OBVIOUS
  <1>3. ASSUME rows[b].status = "pending_payment",
               NEW pi \in intents' \ voided', pi[1] = b
        PROVE  pi = OnlyOpen(b)'
    <2>1. pi = OnlyOpen(b)
      BY <1>1, <1>3 DEF IntentOK
    <2> QED
      BY <1>3, <2>1 DEF OnlyOpen, FirstKey, NextKey
  <1> QED
    BY <1>1, <1>2, <1>3 DEF IntentOK

\* So does creating the intent that may be open.
LEMMA IntentCreated ==
    ASSUME NEW b \in Booking, IntentOK(b), rows'[b] = rows[b],
           rows[b].status = "pending_payment",
           intents' = intents \cup {OnlyOpen(b)},
           UNCHANGED <<voided, secrets>>
    PROVE  IntentOK(b)'
  <1>1. OnlyOpen(b)' = OnlyOpen(b)
    BY DEF OnlyOpen, FirstKey, NextKey
  <1>2. \A pi \in intents' \ voided' : pi[1] = b => pi = OnlyOpen(b)
    BY DEF IntentOK
  <1> QED
    BY <1>1, <1>2 DEF IntentOK

\* So does recording it, with its secret given out, in a row that pointed to
\* none or to a canceled one.
LEMMA IntentRecorded ==
    ASSUME NEW b \in Booking, IntentOK(b), rows[b].status = "pending_payment",
           StripeOK, None \notin intents,
           rows[b].payment_intent_id \in voided \cup {None},
           rows'[b].status = "pending_payment",
           rows'[b].payment_intent_id = OnlyOpen(b),
           secrets' = secrets \cup {OnlyOpen(b)},
           OnlyOpen(b) # None,
           UNCHANGED <<intents, voided>>
    PROVE  IntentOK(b)'
  <1>1. \A pi \in intents \ voided : pi[1] = b => pi = OnlyOpen(b)
    BY DEF IntentOK
  <1>2. OnlyOpen(b) \notin voided => OnlyOpen(b)' = OnlyOpen(b)
    BY DEF OnlyOpen
  <1>3. \A pi \in secrets \ voided : pi[1] # b
    BY DEF IntentOK, StripeOK
  <1> QED
    BY <1>1, <1>2, <1>3 DEF IntentOK

\* So does a new status, as long as a booking with intents does not go back to
\* a state before payment.
LEMMA IntentMoved ==
    ASSUME NEW b \in Booking, IntentOK(b), StripeOK,
           \/ rows[b].status \in {"absent", "requested"}
           \/ /\ rows'[b].status \in Closed \cup {"confirmed"}
              /\ rows'[b].payment_intent_id = rows[b].payment_intent_id,
           UNCHANGED <<intents, voided, secrets>>
    PROVE  IntentOK(b)'
  <1>1. CASE rows[b].status \in {"absent", "requested"}
    BY <1>1 DEF IntentOK, StripeOK
  <1>2. CASE /\ rows'[b].status \in Closed \cup {"confirmed"}
             /\ rows'[b].payment_intent_id = rows[b].payment_intent_id
    BY <1>2 DEF IntentOK, Closed
  <1> QED
    BY <1>1, <1>2

\* What a handler does for one booking keeps the intents of every booking right.
LEMMA HandlerIntents ==
    ASSUME SafetyInv, CurrentInv, IntentInv,
           NEW t \in Handler, NEW c \in Booking,
           HandlerBegins(t, c) \/ HandlerGoesOn(t, c),
           voided \subseteq voided',
           NEW b \in Booking
    PROVE  IntentOK(b)'
  <1>1. /\ t \in Thread
        /\ TypeOK
        /\ rows \in [Booking -> Row]
        /\ obj[t][c] \in Row
        /\ IntentOK(b)
        /\ StripeOK
        /\ RecordOK(rows[b], b, intents, paid)
        /\ None \notin intents
        /\ None \notin Intent
    BY BookingsAssumption DEF Thread, SafetyInv, TypeOK, IntentInv
  <1>2. c \in Loaded(t) => CurrentFor(t, c)
    BY <1>1 DEF CurrentInv
  <1>3. OnlyOpen(b) \in Intent
    <2>1. FirstKey(b, rows[b]) \in Intent /\ NextKey(b, rows[b]) \in Intent
      BY <1>1, WritesTyped
    <2> QED
      BY <1>1, <2>1 DEF OnlyOpen, Row
  <1>4. CASE /\ rows' = rows
             /\ intents' = intents
             /\ secrets' = secrets
    BY <1>1, <1>4, IntentFrame
  <1>5. CASE PaymentInfoBegin(t, c) /\ intents' # intents
    <2>1. /\ rows' = rows
          /\ rows[c].status = "pending_payment"
          /\ intents' = intents \cup {FirstKey(c, rows[c])}
          /\ rows[c].payment_intent_id = None
          /\ UNCHANGED <<voided, secrets>>
      BY <1>5 DEF PaymentInfoBegin, Payable, stripe
    <2>2. CASE b = c
      BY <1>1, <2>1, <2>2, IntentCreated DEF OnlyOpen
    <2>3. CASE b # c
      BY <1>1, <2>1, <2>3, IntentFrame DEF FirstKey
    <2> QED
      BY <2>2, <2>3
  <1>6. CASE CreateInsert(t, c)
    <2>1. /\ rows[c].status = "absent"
          /\ rows' = [rows EXCEPT ![c] = obj[t][c]]
          /\ UNCHANGED <<intents, voided, secrets>>
      BY <1>2, <1>6 DEF CreateInsert, At, CurrentFor, stripe
    <2>2. CASE b = c
      BY <1>1, <2>1, <2>2, IntentMoved
    <2>3. CASE b # c
      BY <1>1, <2>1, <2>3, IntentFrame
    <2> QED
      BY <2>2, <2>3
  <1>7. CASE CreateRefresh(t, c)
    <2>1. rows' = rows /\ voided' = voided
      BY <1>7 DEF CreateRefresh, stripe
    <2>2. CASE /\ rows[c].status = "pending_payment"
               /\ rows[c].payment_intent_id = None
               /\ intents' = intents \cup {FirstKey(c, rows[c])}
               /\ secrets' = secrets
      <3>1. CASE b = c
        BY <1>1, <2>1, <2>2, <3>1, IntentCreated DEF OnlyOpen
      <3>2. CASE b # c
        BY <1>1, <2>1, <2>2, <3>2, IntentFrame DEF FirstKey
      <3> QED
        BY <3>1, <3>2
    <2>3. CASE /\ secrets' = secrets \cup {rows[c].payment_intent_id}
               /\ rows[c].payment_intent_id # None
               /\ intents' = intents
      <3>1. rows[c].payment_intent_id[1] = c
        BY <2>3 DEF SafetyInv, RecordOK
      <3> QED
        BY <1>1, <2>1, <2>3, <3>1 DEF IntentOK, OnlyOpen, FirstKey, NextKey
    <2> QED
      BY <1>4, <1>7, <2>1, <2>2, <2>3 DEF CreateRefresh, stripe
  <1>8. CASE RecordIntent(t, c) \/ ReplaceIntent(t, c)
    <2>1. /\ rows[c].status = "pending_payment"
          /\ rows[c].payment_intent_id \in voided \cup {None}
          /\ rows[c] = obj[t][c]
      BY <1>2, <1>8 DEF RecordIntent, ReplaceIntent, At, CurrentFor
    <2>2. CASE RecordIntent(t, c)
      <3>1. rows[c].payment_intent_id = None
        BY <1>2, <2>2 DEF RecordIntent, At, CurrentFor
      <3>2. FirstKey(c, obj[t][c]) = OnlyOpen(c)
        BY <2>1, <3>1 DEF OnlyOpen
      <3>3. /\ rows' = [rows EXCEPT ![c].payment_intent_id = OnlyOpen(c)]
            /\ secrets' = secrets \cup {OnlyOpen(c)}
            /\ UNCHANGED <<intents, voided>>
        BY <2>2, <3>2 DEF RecordIntent
      <3>4. CASE b = c
        <4>1. /\ rows'[b].status = "pending_payment"
              /\ rows'[b].payment_intent_id = OnlyOpen(b)
          BY <1>1, <2>1, <3>3, <3>4 DEF Row
        <4> QED
          BY <1>1, <1>3, <2>1, <3>3, <3>4, <4>1, IntentRecorded
      <3>5. CASE b # c
        BY <1>1, <3>2, <3>3, <3>5, IntentFrame DEF FirstKey
      <3> QED
        BY <3>4, <3>5
    <2>3. CASE ReplaceIntent(t, c)
      <3>1. rows[c].payment_intent_id \in voided
        BY <1>2, <2>3 DEF ReplaceIntent, At, CurrentFor
      <3>2. NextKey(c, obj[t][c]) = OnlyOpen(c)
        BY <1>1, <2>1, <3>1 DEF OnlyOpen, TypeOK
      <3>3. /\ rows' = [rows EXCEPT ![c].payment_intent_id = OnlyOpen(c),
                                    ![c].version = obj[t][c].version + 1]
            /\ secrets' = secrets \cup {OnlyOpen(c)}
            /\ UNCHANGED <<intents, voided>>
        BY <2>3, <3>2 DEF ReplaceIntent
      <3>4. CASE b = c
        <4>1. /\ rows'[b].status = "pending_payment"
              /\ rows'[b].payment_intent_id = OnlyOpen(b)
          BY <1>1, <2>1, <3>3, <3>4 DEF Row
        <4> QED
          BY <1>1, <1>3, <2>1, <3>3, <3>4, <4>1, IntentRecorded
      <3>5. CASE b # c
        BY <1>1, <3>2, <3>3, <3>5, IntentFrame DEF NextKey
      <3> QED
        BY <3>4, <3>5
    <2> QED
      BY <1>8, <2>2, <2>3
  <1>9. CASE InspectCanceled(t, c)
    <2>1. /\ rows[c] = obj[t][c]
          /\ rows[c].status = "pending_payment"
          /\ rows[c].payment_intent_id \in voided
          /\ rows' = rows
          /\ intents' = intents \cup {NextKey(c, rows[c])}
          /\ UNCHANGED <<voided, secrets>>
      BY <1>2, <1>9 DEF InspectCanceled, At, CurrentFor
    <2>2. CASE b = c
      BY <1>1, <2>1, <2>2, IntentCreated DEF OnlyOpen, TypeOK
    <2>3. CASE b # c
      BY <1>1, <2>1, <2>3, IntentFrame DEF NextKey
    <2> QED
      BY <2>2, <2>3
  <1>10. CASE InspectOpen(t, c)
    <2>1. /\ secrets' = secrets \cup {rows[c].payment_intent_id}
          /\ rows[c].payment_intent_id[1] = c
          /\ UNCHANGED <<rows, intents, voided>>
      BY <1>1, <1>2, <1>10 DEF InspectOpen, At, CurrentFor, SafetyInv, PlaceOK,
                               RecordOK
    <2> QED
      BY <1>1, <2>1 DEF IntentOK, OnlyOpen, FirstKey, NextKey
  <1>11. CASE \/ ApproveWrite(t, c) \/ DeclineWrite(t, c) \/ CancelWrite(t, c)
              \/ Confirm(t, c)
    <2>1. UNCHANGED <<intents, voided, secrets>>
      BY <1>11 DEF ApproveWrite, DeclineWrite, CancelWrite, Confirm, stripe
    <2>2. CASE b # c
      <3>1. rows'[b] = rows[b]
        BY <1>1, <1>11, <2>2
           DEF ApproveWrite, DeclineWrite, CancelWrite, Confirm
      <3> QED
        BY <1>1, <2>1, <3>1, IntentFrame
    <2>3. CASE b = c /\ rows'[b] = rows[b]
      BY <1>1, <2>1, <2>3, IntentFrame
    <2>4. CASE b = c /\ rows'[b] # rows[b]
      <3>1. \/ rows[b].status \in {"absent", "requested"}
            \/ /\ rows'[b].status \in Closed \cup {"confirmed"}
               /\ rows'[b].payment_intent_id = rows[b].payment_intent_id
        <4>1. CASE ApproveWrite(t, c)
          BY <1>2, <2>4, <4>1 DEF ApproveWrite, At, CurrentFor
        <4>2. CASE DeclineWrite(t, c)
          BY <1>1, <2>4, <4>2 DEF DeclineWrite, Declined, Closed, Row
        <4>3. CASE CancelWrite(t, c)
          BY <1>1, <2>4, <4>3 DEF CancelWrite, Cancelled, Closed, Row
        <4>4. CASE Confirm(t, c)
          BY <1>1, <2>4, <4>4 DEF Confirm, Confirmed, Closed, Row
        <4> QED
          BY <1>11, <4>1, <4>2, <4>3, <4>4
      <3> QED
        BY <1>1, <2>1, <3>1, IntentMoved
    <2> QED
      BY <2>2, <2>3, <2>4
  <1> QED
    BY <1>4, <1>5, <1>6, <1>7, <1>8, <1>9, <1>10, <1>11
       DEF HandlerBegins, CreateBegin, CreateOverlap, ApproveBegin, DeclineBegin,
           CancelBegin, PaymentInfoBegin, FinalizeBegin, WebhookBegin,
           HandlerGoesOn, CreateFail, ApproveLock, ApproveBusy, Settle,
           FinalizeUnpaid, Refuse, stripe

\* IntentInv is inductive while work on each booking is apart.
LEMMA IntentInvStep ==
    ASSUME SafetyInv, CurrentInv, IntentInv, [Next]_vars
    PROVE  IntentInv'
  <1>1. StripeOK'
    BY StripeOKStep DEF IntentInv
  <1> SUFFICES ASSUME NEW b \in Booking PROVE IntentOK(b)'
    BY <1>1 DEF IntentInv
  <1>2. /\ TypeOK
        /\ IntentOK(b)
        /\ StripeOK
        /\ rows[b] \in Row
        /\ voided \subseteq voided'
    BY StripeStep DEF SafetyInv, TypeOK, IntentInv
  <1>3. CASE \E t \in Handler, c \in Booking :
                HandlerBegins(t, c) \/ HandlerGoesOn(t, c)
    BY <1>2, <1>3, HandlerIntents
  <1>4. ASSUME NEW t \in Sweeper, SweepCommit(t)
        PROVE  IntentOK(b)'
    <2>1. UNCHANGED <<intents, voided, secrets>>
      BY <1>4 DEF SweepCommit, stripe
    <2>2. CASE b \in Loaded(t)
      <3>1. /\ rows'[b].status \in Closed
            /\ rows'[b].payment_intent_id = rows[b].payment_intent_id
        BY <1>2, <1>4, <2>2 DEF SweepCommit, Expired, Closed, Row
      <3> QED
        BY <1>2, <2>1, <3>1, IntentMoved
    <2>3. CASE b \notin Loaded(t)
      <3>1. rows'[b] = rows[b]
        BY <1>4, <2>3 DEF SweepCommit
      <3> QED
        BY <1>2, <2>1, <3>1, IntentFrame
    <2> QED
      BY <2>2, <2>3
  <1>5. CASE rows' = rows /\ intents' = intents /\ secrets' = secrets
    BY <1>2, <1>5, IntentFrame
  <1> QED
    BY <1>3, <1>4, <1>5 DEF Next, SweepBegin, Abort, LockExpires, Pay, Void, Tick,
                            vars, stripe

\* While work on each booking is apart, its intents are in order.
LEMMA IntentInvariant == Spec /\ []ApartByBooking => []IntentInv
  <1>1. Init => IntentInv
    BY DEF Init, IntentInv, StripeOK, IntentOK, NoRow
  <1>2. SafetyInv /\ CurrentInv /\ IntentInv /\ [Next]_vars => IntentInv'
    BY IntentInvStep
  <1> QED
    BY <1>1, <1>2, SafetyInvariant, CurrentInvariant, PTL DEF Spec

\* A booking never has two intents the tenant could pay, unless requests or
\* sweeps for that very booking overlap.
THEOREM ApartOneOpenIntent ==
    Spec /\ []ApartByBooking => []OneOpenIntent
  <1>1. IntentInv => OneOpenIntent
    BY DEF IntentInv, IntentOK, OneOpenIntent
  <1> QED
    BY <1>1, IntentInvariant, PTL

\* The intent paid is the one the row points to, so the webhook finds the
\* booking, unless requests or sweeps for that very booking overlap.
THEOREM ApartPaidOnFile ==
    Spec /\ []ApartByBooking => []PaidIntentOnFile
  <1>1. SafetyInv /\ IntentInv => PaidIntentOnFile
    <2> SUFFICES ASSUME SafetyInv, IntentInv, NEW pi \in paid
                 PROVE  rows[pi[1]].payment_intent_id = pi
      BY DEF PaidIntentOnFile
    <2>1. pi \in secrets \ voided
      BY DEF IntentInv, StripeOK
    <2>2. pi[1] \in Booking
      BY DEF SafetyInv, TypeOK, Intent
    <2> QED
      BY <2>1, <2>2 DEF IntentInv, IntentOK
  <1> QED
    BY <1>1, SafetyInvariant, IntentInvariant, PTL

-----------------------------------------------------------------------------
(* The refinement.                                                         *)

Statuses == [b \in Booking |-> rows[b].status]

\* Writing one row moves one status.
LEMMA OneStatus ==
    ASSUME rows \in [Booking -> Row], NEW b \in Booking, NEW r,
           rows' = [rows EXCEPT ![b] = r]
    PROVE  Statuses' = [Statuses EXCEPT ![b] = r.status]
  BY DEF Statuses

\* The dates are free for the workflow when the overlap query finds nothing.
LEMMA NoOverlapIsFree ==
    ASSUME NEW b \in Booking, ~HasConfirmedOverlap(b)
    PROVE  Lifecycle!Free(b)
  BY DEF HasConfirmedOverlap, Lifecycle!Free, Lifecycle!Conflict, Conflict,
         Lifecycle!Overlaps, Overlaps

\* Each write of a handler is the step of the workflow its name says, since
\* the guard read earlier still holds.
LEMMA GoesOnFollows ==
    ASSUME SafetyInv, CurrentInv, FreeToConfirm, FreeToInsert,
           NEW t \in Thread, NEW b \in Booking, HandlerGoesOn(t, b)
    PROVE  Lifecycle!Next \/ Statuses' = Statuses
  <1>1. TypeOK /\ rows \in [Booking -> Row] /\ obj[t][b] \in Row
    BY DEF SafetyInv, TypeOK
  <1>2. b \in Loaded(t) =>
           /\ CurrentFor(t, b)
           /\ pc[t] \in {"insert", "confirm"} => ~HasConfirmedOverlap(b)
    BY DEF CurrentInv, FreeToConfirm, FreeToInsert
  <1>3. CASE CreateInsert(t, b)
    <2>1. /\ b \in Loaded(t)
          /\ pc[t] = "insert"
          /\ CurrentFor(t, b)
          /\ ~HasConfirmedOverlap(b)
      BY <1>2, <1>3 DEF CreateInsert, At
    <2>2. /\ Statuses[b] = "absent"
          /\ obj[t][b].status = InitialStatus(b)
          /\ Lifecycle!Free(b)
      BY <2>1, NoOverlapIsFree DEF CurrentFor, SafetyInv, PlaceOK, Statuses
    <2>3. Statuses' = [Statuses EXCEPT ![b] = InitialStatus(b)]
      BY <1>1, <1>3, <2>2, OneStatus DEF CreateInsert
    <2>4. Lifecycle!Create(b)
      BY <2>2, <2>3 DEF Lifecycle!Create, Lifecycle!Move, Statuses,
                        Lifecycle!InitialStatus, InitialStatus
    <2> QED
      BY <2>4 DEF Lifecycle!Next
  <1>4. CASE RecordIntent(t, b) \/ ReplaceIntent(t, b)
    <2>1. \A c \in Booking : rows'[c].status = rows[c].status
      <3>1. CASE RecordIntent(t, b)
        BY <1>1, <3>1 DEF RecordIntent, Row
      <3>2. CASE ReplaceIntent(t, b)
        BY <1>1, <3>2 DEF ReplaceIntent, Row
      <3> QED
        BY <1>4, <3>1, <3>2
    <2> QED
      BY <2>1 DEF Statuses
  <1>5. CASE ApproveWrite(t, b)
    <2>1. Statuses[b] = "requested"
      BY <1>2, <1>5 DEF ApproveWrite, At, CurrentFor, Statuses
    <2>2. Approved(rows[b], obj[t][b]).status = "pending_payment"
      BY <1>1 DEF Approved, Row
    <2>3. Statuses' = [Statuses EXCEPT ![b] = "pending_payment"]
      BY <1>1, <1>5, <2>2, OneStatus DEF ApproveWrite
    <2> QED
      BY <2>1, <2>3 DEF Lifecycle!Next, Lifecycle!Approve, Lifecycle!Move, Statuses
  <1>6. CASE DeclineWrite(t, b)
    <2>1. Statuses[b] = "requested"
      BY <1>2, <1>6 DEF DeclineWrite, At, CurrentFor, Statuses
    <2>2. Declined(rows[b], obj[t][b]).status = "declined"
      BY <1>1 DEF Declined, Row
    <2>3. Statuses' = [Statuses EXCEPT ![b] = "declined"]
      BY <1>1, <1>6, <2>2, OneStatus DEF DeclineWrite
    <2> QED
      BY <2>1, <2>3 DEF Lifecycle!Next, Lifecycle!Decline, Lifecycle!Move, Statuses
  <1>7. CASE CancelWrite(t, b)
    <2>1. Statuses[b] \in {"requested", "pending_payment", "confirmed"}
      <3>1. /\ obj[t][b].status \in Status
            /\ obj[t][b].status # "absent"
            /\ obj[t][b].status \notin Closed
            /\ rows[b] = obj[t][b]
        BY <1>1, <1>2, <1>7 DEF CancelWrite, At, CurrentFor, Loaded, Row
      <3> QED
        BY <3>1 DEF Statuses, Status, Closed
    <2>2. Cancelled(rows[b], obj[t][b]).status = "cancelled"
      BY <1>1 DEF Cancelled, Row
    <2>3. Statuses' = [Statuses EXCEPT ![b] = "cancelled"]
      BY <1>1, <1>7, <2>2, OneStatus DEF CancelWrite
    <2> QED
      BY <2>1, <2>3 DEF Lifecycle!Next, Lifecycle!Cancel, Lifecycle!Move, Statuses
  <1>8. CASE Confirm(t, b)
    <2>1. CASE rows' = rows
      BY <2>1 DEF Statuses
    <2>2. CASE /\ Unchanged(rows[b], obj[t][b])
               /\ rows' = [rows EXCEPT ![b] = Confirmed(@, obj[t][b])]
      <3>1. Statuses[b] = "pending_payment" /\ Lifecycle!Free(b)
        BY <1>2, <1>8, <2>2, NoOverlapIsFree
           DEF Confirm, At, CurrentFor, Unchanged, Statuses
      <3>2. Confirmed(rows[b], obj[t][b]).status = "confirmed"
        BY <1>1 DEF Confirmed, Row
      <3>3. Statuses' = [Statuses EXCEPT ![b] = "confirmed"]
        BY <1>1, <2>2, <3>2, OneStatus
      <3> QED
        BY <3>1, <3>3 DEF Lifecycle!Next, Lifecycle!Confirm, Lifecycle!Move, Statuses
    <2> QED
      BY <1>8, <2>1, <2>2 DEF Confirm
  <1>9. CASE rows' = rows
    BY <1>9 DEF Statuses
  <1> QED
    BY <1>3, <1>4, <1>5, <1>6, <1>7, <1>8, <1>9
       DEF HandlerGoesOn, CreateRefresh, CreateFail, ApproveLock, ApproveBusy,
           InspectCanceled, InspectOpen, Settle, FinalizeUnpaid, Refuse

\* A sweep expires holds and nothing else.
LEMMA SweepFollows ==
    ASSUME SafetyInv, CurrentInv, NEW t \in Thread, SweepCommit(t)
    PROVE  Lifecycle!Next \/ Statuses' = Statuses
  <1>1. rows \in [Booking -> Row]
    BY DEF SafetyInv, TypeOK
  <1>2. \A b \in Loaded(t) : Statuses[b] = "pending_payment"
    BY DEF SweepCommit, CurrentInv, CurrentFor, Statuses, Loaded
  <1>3. \A b \in Booking : Expired(rows[b], obj[t][b]).status = "cancelled_expired"
    BY <1>1 DEF Expired, Row
  <1>4. Statuses' = [b \in Booking |-> IF b \in Loaded(t) THEN "cancelled_expired"
                                       ELSE Statuses[b]]
    BY <1>3 DEF SweepCommit, Statuses
  <1>5. Lifecycle!Expire(Loaded(t)) /\ Loaded(t) \in SUBSET Booking
    BY <1>2, <1>4 DEF Lifecycle!Expire, Statuses, Loaded
  <1>6. \E S \in SUBSET Booking : Lifecycle!Expire(S)
    BY <1>5 DEF Lifecycle!Expire
  <1> QED
    BY <1>6 DEF Lifecycle!Next

\* As long as no two threads work at the same property, every write makes a
\* transition the handlers' tests allow from the status it finds, and no stay is
\* granted twice: the service implements BookingLifecycle.
THEOREM ApartFollowsLifecycle ==
    Spec /\ []ApartByProperty => FollowsLifecycle
  <1>1. Init => Lifecycle!Init
    BY DEF Init, Lifecycle!Init, NoRow
  <1>2. SafetyInv /\ CurrentInv /\ FreeToConfirm /\ FreeToInsert /\ [Next]_vars =>
           [Lifecycle!Next]_Statuses
    <2> SUFFICES ASSUME SafetyInv, CurrentInv, FreeToConfirm, FreeToInsert,
                        [Next]_vars
                 PROVE  Lifecycle!Next \/ Statuses' = Statuses
      OBVIOUS
    <2>1. CASE \E t \in Handler, b \in Booking : HandlerGoesOn(t, b)
      BY <2>1, GoesOnFollows DEF Thread
    <2>2. CASE \E t \in Sweeper : SweepCommit(t)
      BY <2>2, SweepFollows DEF Thread
    <2>3. CASE rows' = rows
      BY <2>3 DEF Statuses
    <2> QED
      BY <2>1, <2>2, <2>3
         DEF Next, HandlerBegins, CreateBegin, CreateOverlap, ApproveBegin,
             DeclineBegin, CancelBegin, PaymentInfoBegin, FinalizeBegin,
             WebhookBegin, SweepBegin, Abort, LockExpires, Pay, Void, Tick, vars
  <1>3. []ApartByProperty => []ApartByBooking /\ []OneConfirmer
    BY PropertyApart, PTL
  <1> QED
    BY <1>1, <1>2, <1>3, SafetyInvariant, CurrentInvariant,
       FreeToConfirmInvariant, FreeToInsertInvariant, PTL
       DEF Spec, FollowsLifecycle, Lifecycle!Spec, Statuses

\* All of it holds when a single thread does all the work.
THEOREM SerialIsOrderly ==
    ASSUME OneThread
    PROVE  Spec => /\ FollowsLifecycle
                   /\ []NoDoubleBooking
                   /\ []OneOpenIntent
                   /\ []PaidIntentOnFile
  <1>1. []ApartByProperty
    BY OneThreadApart, PTL
  <1>2. []ApartByBooking /\ []OneConfirmer
    BY OneThreadApart, PropertyApart, PTL
  <1> QED
    BY <1>1, <1>2, ApartFollowsLifecycle, OneConfirmerGrantsOnce,
       ApartOneOpenIntent, ApartPaidOnFile, PTL
=============================================================================
