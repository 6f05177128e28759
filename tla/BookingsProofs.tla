--------------------------- MODULE BookingsProofs ---------------------------
(***************************************************************************)
(* Theorems about Bookings, for any bookings, properties, threads and      *)
(* bounds, whether Redis is reliable or not.                               *)
(***************************************************************************)
EXTENDS BookingsInvariant, TLAPS

-----------------------------------------------------------------------------
(* Type correctness.                                                       *)

\* The row of a booking that does not exist is a row.
LEMMA NoRowTyped == NoRow \in Row
  BY DEF NoRow, Row, Status

\* Ending a session and releasing the lock keep the types.
LEMMA DoneTyped ==
    ASSUME TypeOK, NEW t \in Thread, Done(t)
    PROVE  /\ pc' \in [Thread -> PC]
           /\ obj' \in [Thread -> [Booking -> Row]]
           /\ lock' \in [Property -> Thread \cup {"free", "orphan"}]
  BY NoRowTyped DEF TypeOK, Done, EndSession, Released, PC

\* So does loading a row.
LEMMA LoadTyped ==
    ASSUME TypeOK, NEW t \in Thread, NEW b \in Booking, NEW next \in PC,
           Load(t, b, next)
    PROVE  pc' \in [Thread -> PC] /\ obj' \in [Thread -> [Booking -> Row]]
  BY DEF TypeOK, Load

\* So does moving on to the next statement.
LEMMA GotoTyped ==
    ASSUME TypeOK, NEW t \in Thread, NEW next \in PC, Goto(t, next)
    PROVE  pc' \in [Thread -> PC] /\ obj' \in [Thread -> [Booking -> Row]]
  BY DEF TypeOK, Goto

\* So does taking the lock, or failing to.
LEMMA TryLockTyped ==
    ASSUME TypeOK, NEW t \in Thread, NEW p \in Property, TryLock(t, p)
    PROVE  lock' \in [Property -> Thread \cup {"free", "orphan"}]
  BY DEF TypeOK, TryLock

\* What a handler writes is a row, and the keys it derives are intents.
LEMMA WritesTyped ==
    ASSUME TypeOK, NEW row \in Row, NEW copy \in Row, NEW b \in Booking
    PROVE  /\ Approved(row, copy) \in Row
           /\ Declined(row, copy) \in Row
           /\ Cancelled(row, copy) \in Row
           /\ Expired(row, copy) \in Row
           /\ Confirmed(row, copy) \in Row
           /\ NewBooking(b) \in Row
           /\ FirstKey(b, copy) \in Intent
           /\ NextKey(b, copy) \in Intent
  <1>1. now + HOLD \in Nat
    BY BookingsAssumption DEF TypeOK
  <1>2. copy.version + 1 \in Nat /\ copy.version \in Nat
    BY DEF Row
  <1>3. Approved(row, copy) \in Row
    BY <1>1, <1>2 DEF Approved, Row, Status
  <1>4. Declined(row, copy) \in Row
    BY <1>2 DEF Declined, Row, Status
  <1>5. Cancelled(row, copy) \in Row
    BY <1>2 DEF Cancelled, Row, Status
  <1>6. Expired(row, copy) \in Row
    BY <1>2 DEF Expired, Row, Status
  <1>7. Confirmed(row, copy) \in Row
    BY <1>2 DEF Confirmed, Row, Status
  <1>8. NewBooking(b) \in Row
    BY <1>1 DEF NewBooking, InitialStatus, Row, Status
  <1>9. FirstKey(b, copy) \in Intent /\ NextKey(b, copy) \in Intent
    BY <1>2 DEF FirstKey, NextKey, Intent
  <1> QED
    BY <1>3, <1>4, <1>5, <1>6, <1>7, <1>8, <1>9

\* A request that arrives keeps the types.
LEMMA BeginsTyped ==
    ASSUME TypeOK, NEW t \in Handler, NEW b \in Booking, HandlerBegins(t, b)
    PROVE  TypeOK'
  <1>1. t \in Thread
    BY DEF Thread
  <1>2. PropertyOf[b] \in Property /\ rows[b] \in Row
    BY BookingDataAssumption DEF TypeOK
  <1>3. CASE CreateBegin(t, b)
    <2>1. NewBooking(b) \in Row
      BY <1>2, WritesTyped
    <2>2. lock' \in [Property -> Thread \cup {"free", "orphan"}]
      BY <1>1, <1>2, <1>3, TryLockTyped DEF CreateBegin
    <2> QED
      BY <1>1, <1>3, <2>1, <2>2 DEF CreateBegin, TypeOK, stripe, PC, Critical
  <1>4. CASE CreateOverlap(t, b)
    BY <1>2, <1>4 DEF CreateOverlap, TypeOK, stripe
  <1>5. CASE \/ ApproveBegin(t, b) \/ DeclineBegin(t, b) \/ CancelBegin(t, b)
             \/ FinalizeBegin(t, b) \/ WebhookBegin(t, b)
    <2>1. \E next \in PC : Load(t, b, next)
      BY <1>5 DEF ApproveBegin, DeclineBegin, CancelBegin, FinalizeBegin,
                  WebhookBegin, PC
    <2>2. UNCHANGED <<rows, now, stripe, lock>>
      BY <1>5 DEF ApproveBegin, DeclineBegin, CancelBegin, FinalizeBegin,
                  WebhookBegin
    <2> QED
      BY <1>1, <2>1, <2>2, LoadTyped DEF TypeOK, stripe
  <1>6. CASE PaymentInfoBegin(t, b)
    <2>1. \E next \in PC : Load(t, b, next)
      BY <1>6 DEF PaymentInfoBegin, PC
    <2>2. intents' \subseteq Intent
      <3>1. FirstKey(b, rows[b]) \in Intent
        BY <1>2, WritesTyped
      <3> QED
        BY <1>6, <3>1 DEF PaymentInfoBegin, TypeOK, stripe
    <2> QED
      BY <1>1, <1>6, <2>1, <2>2, LoadTyped DEF PaymentInfoBegin, TypeOK, stripe
  <1> QED
    BY <1>3, <1>4, <1>5, <1>6 DEF HandlerBegins

\* A step of a handler that has a booking in hand keeps the types, given that
\* get_payment_info inspects an intent only when there is one.
LEMMA GoesOnTyped ==
    ASSUME TypeOK, NEW t \in Handler, NEW b \in Booking, HandlerGoesOn(t, b),
           PlaceOK(t)
    PROVE  TypeOK'
  <1>1. t \in Thread
    BY DEF Thread
  <1>2. /\ PropertyOf[b] \in Property
        /\ rows[b] \in Row
        /\ obj[t][b] \in Row
    BY <1>1, BookingDataAssumption DEF TypeOK
  <1>3. CASE \/ CreateInsert(t, b) \/ CreateFail(t, b) \/ ApproveLock(t, b)
             \/ InspectCanceled(t, b) \/ Settle(t, b)
    <2>1. \E next \in PC : Goto(t, next)
      BY <1>3 DEF CreateInsert, CreateFail, ApproveLock, InspectCanceled, Settle,
                  PC, Critical
    <2>2. rows' \in [Booking -> Row]
      BY <1>2, <1>3 DEF CreateInsert, CreateFail, ApproveLock, InspectCanceled,
                        Settle, TypeOK
    <2>3. lock' \in [Property -> Thread \cup {"free", "orphan"}]
      BY <1>1, <1>2, <1>3, TryLockTyped
         DEF CreateInsert, CreateFail, ApproveLock, InspectCanceled, Settle,
             Released, TypeOK
    <2>4. intents' \subseteq Intent
      <3>1. NextKey(b, obj[t][b]) \in Intent
        BY <1>2, WritesTyped
      <3> QED
        BY <1>3, <3>1 DEF CreateInsert, CreateFail, ApproveLock, InspectCanceled,
                          Settle, TypeOK, stripe
    <2>5. UNCHANGED <<now, paid, voided, secrets>>
      BY <1>3 DEF CreateInsert, CreateFail, ApproveLock, InspectCanceled, Settle,
                  stripe
    <2> QED
      BY <1>1, <2>1, <2>2, <2>3, <2>4, <2>5, GotoTyped DEF TypeOK
  <1>4. CASE CreateRefresh(t, b)
    <2>1. FirstKey(b, rows[b]) \in Intent
      BY <1>2, WritesTyped
    <2>2. rows[b].payment_intent_id # None => rows[b].payment_intent_id \in Intent
      BY <1>2 DEF Row
    <2>3. CASE Done(t)
      BY <1>1, <1>4, <2>2, <2>3, <2>1, DoneTyped DEF CreateRefresh, TypeOK, stripe
    <2>4. CASE /\ pc' = [pc EXCEPT ![t] = "create_record"]
               /\ obj' = [obj EXCEPT ![t][b] = rows[b]]
               /\ intents' = intents \cup {FirstKey(b, rows[b])}
               /\ UNCHANGED <<rows, now, paid, voided, secrets, lock>>
      BY <1>1, <1>2, <2>1, <2>4 DEF TypeOK, PC, Critical
    <2> QED
      BY <1>4, <2>3, <2>4 DEF CreateRefresh
  <1>5. CASE RecordIntent(t, b) \/ ReplaceIntent(t, b)
    <2>1. FirstKey(b, obj[t][b]) \in Intent /\ NextKey(b, obj[t][b]) \in Intent
      BY <1>2, WritesTyped
    <2>2. obj[t][b].version + 1 \in Nat
      BY <1>2 DEF Row
    <2>3. rows' \in [Booking -> Row]
      <3>1. CASE RecordIntent(t, b)
        BY <1>2, <2>1, <3>1 DEF RecordIntent, TypeOK, Row
      <3>2. CASE ReplaceIntent(t, b)
        BY <1>2, <2>1, <2>2, <3>2 DEF ReplaceIntent, TypeOK, Row
      <3> QED
        BY <1>5, <3>1, <3>2
    <2>4. secrets' \subseteq Intent
      BY <1>5, <2>1 DEF RecordIntent, ReplaceIntent, TypeOK
    <2>5. Done(t) /\ UNCHANGED <<now, intents, paid, voided>>
      BY <1>5 DEF RecordIntent, ReplaceIntent
    <2> QED
      BY <1>1, <2>3, <2>4, <2>5, DoneTyped DEF TypeOK
  <1>6. CASE \/ ApproveWrite(t, b) \/ DeclineWrite(t, b) \/ CancelWrite(t, b)
             \/ Confirm(t, b)
    <2>1. /\ Approved(rows[b], obj[t][b]) \in Row
          /\ Declined(rows[b], obj[t][b]) \in Row
          /\ Cancelled(rows[b], obj[t][b]) \in Row
          /\ Confirmed(rows[b], obj[t][b]) \in Row
      BY <1>2, WritesTyped
    <2>2. rows' \in [Booking -> Row]
      BY <1>6, <2>1 DEF ApproveWrite, DeclineWrite, CancelWrite, Confirm, TypeOK
    <2>3. Done(t) /\ UNCHANGED <<now, stripe>>
      BY <1>6 DEF ApproveWrite, DeclineWrite, CancelWrite, Confirm
    <2> QED
      BY <1>1, <2>2, <2>3, DoneTyped DEF TypeOK, stripe
  <1>7. CASE InspectOpen(t, b)
    <2>1. obj[t][b].payment_intent_id \in Intent
      BY <1>2, <1>7 DEF InspectOpen, At, PlaceOK, Row
    <2> QED
      BY <1>1, <1>7, <2>1, DoneTyped DEF InspectOpen, TypeOK
  <1>8. CASE ApproveBusy(t, b) \/ FinalizeUnpaid(t, b) \/ Refuse(t, b)
    BY <1>1, <1>8, DoneTyped DEF ApproveBusy, FinalizeUnpaid, Refuse, TypeOK, stripe
  <1> QED
    BY <1>3, <1>4, <1>5, <1>6, <1>7, <1>8 DEF HandlerGoesOn

\* The sweeper, the clock, Stripe, failures and Redis keep the types.
LEMMA RestTyped ==
    ASSUME TypeOK,
           \/ \E t \in Sweeper : SweepBegin(t) \/ SweepCommit(t)
           \/ \E t \in Thread : Abort(t)
           \/ \E p \in Property : LockExpires(p)
           \/ Pay
           \/ Void
           \/ Tick
           \/ UNCHANGED vars
    PROVE  TypeOK'
  <1>1. CASE \E t \in Sweeper : SweepBegin(t)
    BY <1>1, NoRowTyped DEF SweepBegin, TypeOK, stripe, PC, Thread
  <1>2. CASE \E t \in Sweeper : SweepCommit(t)
    <2>1. PICK t \in Thread : SweepCommit(t)
      BY <1>2 DEF Thread
    <2>2. \A b \in Booking : Expired(rows[b], obj[t][b]) \in Row
      <3>1. \A b \in Booking : rows[b] \in Row /\ obj[t][b] \in Row
        BY DEF TypeOK
      <3> QED
        BY <3>1, WritesTyped
    <2>3. rows' \in [Booking -> Row]
      BY <2>1, <2>2 DEF SweepCommit, TypeOK
    <2> QED
      BY <2>1, <2>3, DoneTyped DEF SweepCommit, TypeOK, stripe
  <1>3. CASE \E t \in Thread : Abort(t)
    BY <1>3, NoRowTyped DEF Abort, EndSession, Released, TypeOK, stripe, PC
  <1>4. CASE \E p \in Property : LockExpires(p)
    BY <1>4 DEF LockExpires, TypeOK, stripe
  <1>5. CASE Pay \/ Void \/ Tick
    BY <1>5 DEF Pay, Void, Tick, TypeOK, stripe
  <1>6. CASE UNCHANGED vars
    BY <1>6 DEF vars, TypeOK
  <1> QED
    BY <1>1, <1>2, <1>3, <1>4, <1>5, <1>6

\* No step is taken that loses a type.
LEMMA TypeStep ==
    ASSUME TypeOK, [Next]_vars, \A t \in Thread : PlaceOK(t)
    PROVE  TypeOK'
  BY BeginsTyped, GoesOnTyped, RestTyped DEF Next, Thread

-----------------------------------------------------------------------------
(* What one step may do to each part of the state.                         *)

\* Stripe forgets neither an intent nor a payment nor a cancellation.
LEMMA StripeStep ==
    ASSUME [Next]_vars
    PROVE  /\ intents \subseteq intents'
           /\ paid \subseteq paid'
           /\ voided \subseteq voided'
  <1> DEFINE Grows == /\ intents \subseteq intents'
                      /\ paid \subseteq paid'
                      /\ voided \subseteq voided'
  <1>1. ASSUME NEW t \in Handler, NEW b \in Booking, HandlerBegins(t, b)
        PROVE  Grows
    BY <1>1 DEF HandlerBegins, CreateBegin, CreateOverlap, ApproveBegin,
                DeclineBegin, CancelBegin, PaymentInfoBegin, FinalizeBegin,
                WebhookBegin, stripe
  <1>2. ASSUME NEW t \in Handler, NEW b \in Booking, HandlerGoesOn(t, b)
        PROVE  Grows
    BY <1>2 DEF HandlerGoesOn, CreateInsert, CreateRefresh, RecordIntent,
                CreateFail, ApproveLock, ApproveBusy, ApproveWrite, DeclineWrite,
                CancelWrite, InspectCanceled, ReplaceIntent, InspectOpen, Settle,
                FinalizeUnpaid, Confirm, Refuse, stripe
  <1> QED
    BY <1>1, <1>2 DEF Next, SweepBegin, SweepCommit, Abort, LockExpires, Pay,
                      Void, Tick, vars, stripe

Stays(t) == pc'[t] = pc[t] /\ obj'[t] = obj[t]
Ends(t)  == pc'[t] = "idle" /\ obj'[t] = [b \in Booking |-> NoRow]

\* The ways in which thread t may change the row of booking b.
Writes(t, b) ==
    \/ /\ At(t, b, {"insert"})
       /\ rows'[b] = obj[t][b]
       /\ pc'[t] = "refresh"
    \/ /\ Ends(t)
       /\ \/ /\ At(t, b, {"create_record", "record_pi"})
             /\ rows'[b] = [rows[b] EXCEPT
                              !.payment_intent_id = FirstKey(b, obj[t][b])]
          \/ /\ At(t, b, {"replace_pi"})
             /\ rows'[b] = [rows[b] EXCEPT
                              !.payment_intent_id = NextKey(b, obj[t][b]),
                              !.version = obj[t][b].version + 1]
          \/ At(t, b, {"approve_write"}) /\ rows'[b] = Approved(rows[b], obj[t][b])
          \/ At(t, b, {"decline"}) /\ rows'[b] = Declined(rows[b], obj[t][b])
          \/ At(t, b, {"cancel"}) /\ rows'[b] = Cancelled(rows[b], obj[t][b])
          \/ At(t, b, {"sweep"}) /\ rows'[b] = Expired(rows[b], obj[t][b])
          \/ /\ At(t, b, {"confirm"})
             /\ Unchanged(rows[b], obj[t][b])
             /\ rows'[b] = Confirmed(rows[b], obj[t][b])

\* The session is over when the handler returns.
LEMMA DoneEnds ==
    ASSUME TypeOK, NEW t \in Thread, Done(t)
    PROVE  Ends(t)
  BY DEF Done, EndSession, Ends, TypeOK

\* A row changes only by the write of a thread that has a copy of it and
\* whose session ends with that write (the insert excepted).
LEMMA RowStep ==
    ASSUME TypeOK, [Next]_vars, NEW b \in Booking
    PROVE  rows'[b] = rows[b] \/ \E t \in Thread : Writes(t, b)
  <1>1. ASSUME NEW t \in Handler, NEW c \in Booking, HandlerBegins(t, c)
        PROVE  rows' = rows
    BY <1>1 DEF HandlerBegins, CreateBegin, CreateOverlap, ApproveBegin,
                DeclineBegin, CancelBegin, PaymentInfoBegin, FinalizeBegin,
                WebhookBegin
  <1>2. ASSUME NEW t \in Handler, NEW c \in Booking, HandlerGoesOn(t, c)
        PROVE  rows'[b] = rows[b] \/ Writes(t, b)
    <2> t \in Thread
      BY DEF Thread
    <2> USE <1>2 DEF TypeOK, Writes
    <2>1. CASE CreateInsert(t, c)
      BY <2>1 DEF CreateInsert, Goto
    <2>2. CASE RecordIntent(t, c)
      BY <2>2, DoneEnds DEF RecordIntent
    <2>3. CASE ReplaceIntent(t, c)
      BY <2>3, DoneEnds DEF ReplaceIntent
    <2>4. CASE ApproveWrite(t, c)
      BY <2>4, DoneEnds DEF ApproveWrite
    <2>5. CASE DeclineWrite(t, c)
      BY <2>5, DoneEnds DEF DeclineWrite
    <2>6. CASE CancelWrite(t, c)
      BY <2>6, DoneEnds DEF CancelWrite
    <2>7. CASE Confirm(t, c)
      BY <2>7, DoneEnds DEF Confirm
    <2>8. CASE \/ CreateRefresh(t, c) \/ CreateFail(t, c) \/ ApproveLock(t, c)
               \/ ApproveBusy(t, c) \/ InspectCanceled(t, c) \/ InspectOpen(t, c)
               \/ Settle(t, c) \/ FinalizeUnpaid(t, c) \/ Refuse(t, c)
      BY <2>8 DEF CreateRefresh, CreateFail, ApproveLock, ApproveBusy,
                  InspectCanceled, InspectOpen, Settle, FinalizeUnpaid, Refuse
    <2> QED
      BY <2>1, <2>2, <2>3, <2>4, <2>5, <2>6, <2>7, <2>8 DEF HandlerGoesOn
  <1>3. ASSUME NEW t \in Sweeper, SweepCommit(t)
        PROVE  rows'[b] = rows[b] \/ Writes(t, b)
    BY <1>3, DoneEnds DEF SweepCommit, Writes, At, Thread
  <1> QED
    BY <1>1, <1>2, <1>3
       DEF Next, SweepBegin, Abort, LockExpires, Pay, Void, Tick, vars, Thread

\* Thread t, idle, takes booking b in hand: a new one, or the committed row.
Takes(t, b) ==
    /\ pc[t] = "idle"
    /\ rows' = rows
    /\ \/ /\ pc'[t] = "insert"
          /\ obj'[t] = [obj[t] EXCEPT ![b] = NewBooking(b)]
          /\ rows[b].status = "absent"
          /\ ~HasConfirmedOverlap(b)
       \/ /\ rows[b].status # "absent"
          /\ obj'[t] = [obj[t] EXCEPT ![b] = rows[b]]
          /\ \/ pc'[t] \in {"approve_lock", "decline"} /\ rows[b].status = "requested"
             \/ pc'[t] = "cancel" /\ rows[b].status \notin Closed
             \/ pc'[t] = "settle"
             \/ /\ rows[b].status = "pending_payment"
                /\ \/ /\ pc'[t] = "record_pi"
                      /\ rows[b].payment_intent_id = None
                      /\ FirstKey(b, rows[b]) \in intents'
                   \/ pc'[t] = "inspect" /\ rows[b].payment_intent_id # None

\* Thread t goes on with booking b.
GoesOn(t, b) ==
    \/ /\ At(t, b, {"refresh"})
       /\ rows' = rows
       /\ pc'[t] = "create_record"
       /\ obj'[t] = [obj[t] EXCEPT ![b] = rows[b]]
       /\ rows[b].status = "pending_payment"
       /\ rows[b].payment_intent_id = None
       /\ FirstKey(b, rows[b]) \in intents'
    \/ /\ obj'[t] = obj[t]
       /\ \/ /\ At(t, b, {"insert"})
             /\ pc'[t] = "refresh"
             /\ rows' = [rows EXCEPT ![b] = obj[t][b]]
          \/ /\ At(t, b, {"insert", "refresh", "create_record"})
             /\ pc'[t] = "create_failed"
             /\ rows' = rows
          \/ /\ At(t, b, {"approve_lock"})
             /\ pc'[t] = "approve_write"
             /\ rows' = rows
          \/ /\ At(t, b, {"inspect", "settle"})
             /\ pc'[t] = "conflict"
             /\ rows' = rows
          \/ /\ At(t, b, {"inspect"})
             /\ pc'[t] = "replace_pi"
             /\ obj[t][b].payment_intent_id \in voided
             /\ NextKey(b, obj[t][b]) \in intents'
             /\ rows' = rows
          \/ /\ At(t, b, {"inspect", "settle"})
             /\ pc'[t] = "confirm"
             /\ obj[t][b].payment_intent_id \in paid
             /\ ~HasConfirmedOverlap(b)
             /\ rows' = rows

\* The sweeper loads the holds that have run out.
TakesExpired(t) ==
    /\ pc[t] = "idle"
    /\ pc'[t] = "sweep"
    /\ obj'[t] = [b \in Booking |-> IF Sweepable(b) THEN rows[b] ELSE NoRow]
    /\ rows' = rows

\* What the step of a handler means for its own session ...
LEMMA OwnStep ==
    ASSUME TypeOK, NEW t \in Handler, NEW b \in Booking,
           HandlerBegins(t, b) \/ HandlerGoesOn(t, b)
    PROVE  Stays(t) \/ Ends(t) \/ Takes(t, b) \/ GoesOn(t, b)
  <1> t \in Thread
    BY DEF Thread
  <1>1. CASE CreateBegin(t, b) \/ CreateOverlap(t, b)
    BY <1>1 DEF CreateBegin, CreateOverlap, Fresh, Takes, Stays, TypeOK
  <1>2. CASE \/ ApproveBegin(t, b) \/ DeclineBegin(t, b) \/ CancelBegin(t, b)
             \/ FinalizeBegin(t, b) \/ WebhookBegin(t, b)
    BY <1>2 DEF ApproveBegin, DeclineBegin, CancelBegin, FinalizeBegin,
                WebhookBegin, Payable, Load, Takes, TypeOK
  <1>3. CASE PaymentInfoBegin(t, b)
    BY <1>3 DEF PaymentInfoBegin, Payable, Load, Takes, TypeOK
  <1>4. CASE \/ RecordIntent(t, b) \/ ApproveBusy(t, b) \/ ApproveWrite(t, b)
             \/ DeclineWrite(t, b) \/ CancelWrite(t, b) \/ ReplaceIntent(t, b)
             \/ InspectOpen(t, b) \/ FinalizeUnpaid(t, b) \/ Confirm(t, b)
             \/ Refuse(t, b)
    <2>1. Done(t)
      BY <1>4 DEF RecordIntent, ApproveBusy, ApproveWrite, DeclineWrite,
                  CancelWrite, ReplaceIntent, InspectOpen, FinalizeUnpaid,
                  Confirm, Refuse
    <2> QED
      BY <2>1 DEF Done, EndSession, Ends, TypeOK
  <1>5. CASE CreateRefresh(t, b)
    BY <1>5 DEF CreateRefresh, Done, EndSession, Ends, GoesOn, TypeOK
  <1>6. CASE CreateInsert(t, b) \/ CreateFail(t, b) \/ ApproveLock(t, b)
    BY <1>6 DEF CreateInsert, CreateFail, ApproveLock, Goto, GoesOn, At, PC,
                Critical, TypeOK
  <1>7. CASE InspectCanceled(t, b) \/ Settle(t, b)
    BY <1>7 DEF InspectCanceled, Settle, Goto, GoesOn, At, PC, TypeOK
  <1> QED
    BY <1>1, <1>2, <1>3, <1>4, <1>5, <1>6, <1>7 DEF HandlerBegins, HandlerGoesOn

\* ... and for the sessions of the other threads: nothing.
LEMMA OthersStay ==
    ASSUME TypeOK, NEW t \in Handler, NEW b \in Booking,
           HandlerBegins(t, b) \/ HandlerGoesOn(t, b),
           NEW u \in Thread, u # t
    PROVE  Stays(u)
  <1> t \in Thread
    BY DEF Thread
  <1>1. ASSUME HandlerBegins(t, b)
        PROVE  Stays(u)
    BY <1>1 DEF HandlerBegins, CreateBegin, CreateOverlap, ApproveBegin,
                DeclineBegin, CancelBegin, PaymentInfoBegin, FinalizeBegin,
                WebhookBegin, Load, Stays, TypeOK
  <1>2. ASSUME HandlerGoesOn(t, b)
        PROVE  Stays(u)
    BY <1>2 DEF HandlerGoesOn, CreateInsert, CreateRefresh, RecordIntent,
                CreateFail, ApproveLock, ApproveBusy, ApproveWrite, DeclineWrite,
                CancelWrite, InspectCanceled, ReplaceIntent, InspectOpen, Settle,
                FinalizeUnpaid, Confirm, Refuse, Goto, Done, EndSession, Stays,
                TypeOK
  <1> QED
    BY <1>1, <1>2

\* A session changes only as its own thread moves.
LEMMA SessionStep ==
    ASSUME TypeOK, [Next]_vars, NEW t \in Thread
    PROVE  \/ Stays(t)
           \/ Ends(t)
           \/ TakesExpired(t)
           \/ \E b \in Booking : Takes(t, b) \/ GoesOn(t, b)
  <1>1. CASE \E u \in Handler, b \in Booking :
                HandlerBegins(u, b) \/ HandlerGoesOn(u, b)
    BY <1>1, OwnStep, OthersStay
  <1>2. CASE \E u \in Sweeper : SweepBegin(u)
    BY <1>2 DEF SweepBegin, TakesExpired, Stays, TypeOK, Thread
  <1>3. CASE \/ \E u \in Sweeper : SweepCommit(u)
             \/ \E u \in Thread : Abort(u)
    BY <1>3 DEF SweepCommit, Abort, Done, EndSession, Ends, Stays, TypeOK, Thread
  <1>4. CASE \/ \E p \in Property : LockExpires(p)
             \/ Pay
             \/ Void
             \/ Tick
             \/ UNCHANGED vars
    BY <1>4 DEF LockExpires, Pay, Void, Tick, vars, Stays
  <1> QED
    BY <1>1, <1>2, <1>3, <1>4 DEF Next

-----------------------------------------------------------------------------
(* The inductive invariant.                                                *)

\* Where there is no row there is nothing to require.
LEMMA NoRowOK ==
    ASSUME NEW b \in Booking, NEW created, NEW settled
    PROVE  RecordOK(NoRow, b, created, settled)
  BY DEF RecordOK, NoRow

\* A record that was right stays right as intents are created and paid.
LEMMA RecordMonotone ==
    ASSUME NEW r, NEW b, NEW created, NEW settled, NEW created2, NEW settled2,
           created \subseteq created2, settled \subseteq settled2,
           RecordOK(r, b, created, settled)
    PROVE  RecordOK(r, b, created2, settled2)
  BY DEF RecordOK

\* A new booking is right.
LEMMA NewBookingOK ==
    ASSUME TypeOK, NEW b \in Booking, NEW created, NEW settled
    PROVE  RecordOK(NewBooking(b), b, created, settled)
  <1>1. now + HOLD \in Nat /\ now + HOLD # None
    BY BookingsAssumption DEF TypeOK
  <1> QED
    BY <1>1 DEF RecordOK, NewBooking, InitialStatus

\* Writing back a copy that is right keeps the row right, however stale the
\* copy is.
LEMMA WriteBackOK ==
    ASSUME TypeOK, NEW b \in Booking, NEW created, NEW settled,
           NEW row \in Row, NEW copy \in Row, copy.status # "absent",
           RecordOK(row, b, created, settled),
           RecordOK(copy, b, created, settled)
    PROVE  /\ RecordOK(Approved(row, copy), b, created, settled)
           /\ RecordOK(Declined(row, copy), b, created, settled)
           /\ RecordOK(Cancelled(row, copy), b, created, settled)
           /\ RecordOK(Expired(row, copy), b, created, settled)
  <1>1. now + HOLD \in Nat /\ now + HOLD # None
    BY BookingsAssumption DEF TypeOK
  <1>2. copy.version \in Nat /\ copy.version + 1 >= 2
    BY DEF Row, RecordOK
  <1>3. copy.version + 1 >= 1
    BY <1>2
  <1>4. RecordOK(Approved(row, copy), b, created, settled)
    BY <1>1, <1>2, <1>3 DEF RecordOK, Approved, Row
  <1>5. RecordOK(Declined(row, copy), b, created, settled)
    BY <1>2, <1>3 DEF RecordOK, Declined, Row
  <1>6. RecordOK(Cancelled(row, copy), b, created, settled)
    BY <1>2, <1>3 DEF RecordOK, Cancelled, Row
  <1>7. RecordOK(Expired(row, copy), b, created, settled)
    BY <1>2, <1>3 DEF RecordOK, Expired, Row
  <1> QED
    BY <1>4, <1>5, <1>6, <1>7

\* So does confirming it, once one of its intents is paid.
LEMMA ConfirmedOK ==
    ASSUME NEW b \in Booking, NEW created, NEW settled,
           NEW row \in Row, NEW copy \in Row, copy.status # "absent",
           RecordOK(row, b, created, settled),
           RecordOK(copy, b, created, settled),
           copy.payment_intent_id # None, copy.payment_intent_id \in settled
    PROVE  RecordOK(Confirmed(row, copy), b, created, settled)
  <1>1. copy.version \in Nat /\ copy.version + 1 >= 2 /\ copy.version + 1 >= 1
    BY DEF Row, RecordOK
  <1> QED
    BY <1>1 DEF RecordOK, Confirmed, Row

\* So does pointing the row to another intent of the booking.
LEMMA RepointedOK ==
    ASSUME NEW b \in Booking, NEW created, NEW settled,
           NEW row \in Row, NEW copy \in Row, copy.status # "absent",
           RecordOK(row, b, created, settled),
           RecordOK(copy, b, created, settled)
    PROVE  /\ FirstKey(b, copy) \in created =>
                RecordOK([row EXCEPT !.payment_intent_id = FirstKey(b, copy)],
                         b, created, settled)
           /\ NextKey(b, copy) \in created =>
                RecordOK([row EXCEPT !.payment_intent_id = NextKey(b, copy),
                                     !.version = copy.version + 1],
                         b, created, settled)
  <1>1. copy.version \in Nat /\ copy.version + 1 >= 2 /\ copy.version + 1 >= 1
    BY DEF Row, RecordOK
  <1>2. FirstKey(b, copy)[1] = b /\ NextKey(b, copy)[1] = b
    BY DEF FirstKey, NextKey
  <1>3. ASSUME FirstKey(b, copy) \in created
        PROVE  RecordOK([row EXCEPT !.payment_intent_id = FirstKey(b, copy)],
                        b, created, settled)
    BY <1>2, <1>3 DEF RecordOK, Row
  <1>4. ASSUME NextKey(b, copy) \in created
        PROVE  RecordOK([row EXCEPT !.payment_intent_id = NextKey(b, copy),
                                    !.version = copy.version + 1],
                        b, created, settled)
    BY <1>1, <1>2, <1>4 DEF RecordOK, Row
  <1> QED
    BY <1>3, <1>4

\* The committed rows stay right.
LEMMA RowsKept ==
    ASSUME SafetyInv, [Next]_vars, NEW b \in Booking
    PROVE  RecordOK(rows'[b], b, intents', paid')
  <1>1. RecordOK(rows[b], b, intents, paid) /\ rows[b] \in Row
    BY DEF SafetyInv, TypeOK
  <1>2. RecordOK(rows'[b], b, intents, paid)
    <2>1. CASE rows'[b] = rows[b]
      BY <1>1, <2>1
    <2>2. ASSUME NEW t \in Thread, Writes(t, b)
          PROVE  RecordOK(rows'[b], b, intents, paid)
      <3>1. /\ obj[t][b] \in Row
            /\ obj[t][b].status # "absent"
            /\ RecordOK(obj[t][b], b, intents, paid)
            /\ b \in Loaded(t)
            /\ PlaceOK(t)
        BY <2>2 DEF SafetyInv, TypeOK, Writes, At, Loaded
      <3>2. pc[t] = "confirm" =>
               /\ obj[t][b].payment_intent_id \in paid
               /\ obj[t][b].payment_intent_id # None
        BY <3>1, BookingsAssumption DEF PlaceOK, SafetyInv, TypeOK
      <3>3. /\ pc[t] \in {"create_record", "record_pi"} =>
                 FirstKey(b, obj[t][b]) \in intents
            /\ pc[t] = "replace_pi" => NextKey(b, obj[t][b]) \in intents
        BY <3>1 DEF PlaceOK
      <3>4. \/ rows'[b] = obj[t][b]
            \/ rows'[b] \in {Approved(rows[b], obj[t][b]),
                             Declined(rows[b], obj[t][b]),
                             Cancelled(rows[b], obj[t][b]),
                             Expired(rows[b], obj[t][b])}
            \/ /\ FirstKey(b, obj[t][b]) \in intents
               /\ rows'[b] = [rows[b] EXCEPT
                                !.payment_intent_id = FirstKey(b, obj[t][b])]
            \/ /\ NextKey(b, obj[t][b]) \in intents
               /\ rows'[b] = [rows[b] EXCEPT
                                !.payment_intent_id = NextKey(b, obj[t][b]),
                                !.version = obj[t][b].version + 1]
            \/ pc[t] = "confirm" /\ rows'[b] = Confirmed(rows[b], obj[t][b])
        BY <2>2, <3>3 DEF Writes, At
      <3>5. TypeOK
        BY DEF SafetyInv
      <3>6. /\ RecordOK(Approved(rows[b], obj[t][b]), b, intents, paid)
            /\ RecordOK(Declined(rows[b], obj[t][b]), b, intents, paid)
            /\ RecordOK(Cancelled(rows[b], obj[t][b]), b, intents, paid)
            /\ RecordOK(Expired(rows[b], obj[t][b]), b, intents, paid)
        BY <1>1, <3>1, <3>5, WriteBackOK
      <3>7. pc[t] = "confirm" =>
               RecordOK(Confirmed(rows[b], obj[t][b]), b, intents, paid)
        BY <1>1, <3>1, <3>2, ConfirmedOK
      <3>8. /\ FirstKey(b, obj[t][b]) \in intents =>
                 RecordOK([rows[b] EXCEPT
                             !.payment_intent_id = FirstKey(b, obj[t][b])],
                          b, intents, paid)
            /\ NextKey(b, obj[t][b]) \in intents =>
                 RecordOK([rows[b] EXCEPT
                             !.payment_intent_id = NextKey(b, obj[t][b]),
                             !.version = obj[t][b].version + 1],
                          b, intents, paid)
        BY <1>1, <3>1, RepointedOK
      <3> QED
        BY <3>1, <3>4, <3>6, <3>7, <3>8
    <2> QED
      BY <2>1, <2>2, RowStep DEF SafetyInv
  <1> QED
    BY <1>2, StripeStep, RecordMonotone

\* A copy comes from nowhere but the session, a committed row or a new booking.
LEMMA CopyStep ==
    ASSUME TypeOK, [Next]_vars, NEW t \in Thread, NEW b \in Booking
    PROVE  \/ obj'[t][b] = obj[t][b]
           \/ obj'[t][b] = NoRow
           \/ obj'[t][b] = rows[b]
           \/ obj'[t][b] = NewBooking(b)
  <1>1. obj \in [Thread -> [Booking -> Row]]
    BY DEF TypeOK
  <1>2. CASE \E c \in Booking : Takes(t, c) \/ GoesOn(t, c)
    BY <1>1, <1>2 DEF Takes, GoesOn
  <1>3. CASE Stays(t) \/ Ends(t) \/ TakesExpired(t)
    BY <1>3 DEF Stays, Ends, TakesExpired
  <1> QED
    BY <1>2, <1>3, SessionStep

\* The copies stay right.
LEMMA CopiesKept ==
    ASSUME SafetyInv, [Next]_vars, NEW t \in Thread, NEW b \in Booking
    PROVE  RecordOK(obj'[t][b], b, intents', paid')
  <1>1. RecordOK(obj'[t][b], b, intents, paid)
    BY CopyStep, NoRowOK, NewBookingOK DEF SafetyInv
  <1> QED
    BY <1>1, StripeStep, RecordMonotone

\* Wherever a thread arrives it has established what the place requires.
LEMMA PlacesKept ==
    ASSUME SafetyInv, [Next]_vars, NEW t \in Thread
    PROVE  PlaceOK(t)'
  <1>1. TypeOK /\ PlaceOK(t)
    BY DEF SafetyInv
  <1>2. intents \subseteq intents' /\ paid \subseteq paid'
    BY StripeStep
  <1>3. CASE Stays(t)
    BY <1>1, <1>2, <1>3 DEF Stays, PlaceOK, Loaded, FirstKey, NextKey
  <1>4. CASE Ends(t)
    BY <1>4 DEF Ends, PlaceOK, Loaded, NoRow
  <1>5. CASE TakesExpired(t)
    BY <1>5 DEF TakesExpired, PlaceOK
  <1>6. ASSUME NEW b \in Booking, Takes(t, b)
        PROVE  PlaceOK(t)'
    <2>1. obj[t] \in [Booking -> Row] /\ Loaded(t) = {}
      BY <1>1, <1>6 DEF TypeOK, Takes, PlaceOK
    <2>2. \A c \in Loaded(t)' : c = b
      BY <1>6, <2>1 DEF Takes, Loaded
    <2>3. CASE /\ pc'[t] = "insert"
               /\ obj'[t] = [obj[t] EXCEPT ![b] = NewBooking(b)]
      <3>1. obj'[t][b].status = InitialStatus(b)
        BY <2>1, <2>3 DEF NewBooking
      <3> QED
        BY <2>2, <2>3, <3>1 DEF PlaceOK
    <2>4. CASE /\ obj'[t] = [obj[t] EXCEPT ![b] = rows[b]]
               /\ \/ pc'[t] \in {"approve_lock", "decline", "cancel", "settle"}
                  \/ pc'[t] = "record_pi" /\ FirstKey(b, rows[b]) \in intents'
                  \/ pc'[t] = "inspect" /\ rows[b].payment_intent_id # None
      <3>1. obj'[t][b] = rows[b]
        BY <2>1, <2>4
      <3> QED
        BY <2>2, <2>4, <3>1 DEF PlaceOK, FirstKey
    <2> QED
      BY <1>6, <2>3, <2>4 DEF Takes
  <1>7. ASSUME NEW b \in Booking, GoesOn(t, b)
        PROVE  PlaceOK(t)'
    <2>1. /\ obj[t] \in [Booking -> Row]
          /\ b \in Loaded(t)
          /\ \A c \in Loaded(t) : c = b
      BY <1>1, <1>7 DEF TypeOK, GoesOn, At, PlaceOK
    <2>2. \A c \in Loaded(t)' : c = b
      BY <1>7, <2>1 DEF GoesOn, Loaded
    <2>3. CASE /\ pc'[t] = "create_record"
               /\ obj'[t] = [obj[t] EXCEPT ![b] = rows[b]]
               /\ FirstKey(b, rows[b]) \in intents'
      <3>1. obj'[t][b] = rows[b]
        BY <2>1, <2>3
      <3> QED
        BY <2>2, <2>3, <3>1 DEF PlaceOK, FirstKey
    <2>4. CASE /\ obj'[t] = obj[t]
               /\ \/ pc'[t] \in {"refresh", "create_failed", "approve_write",
                                 "conflict"}
                  \/ pc'[t] = "replace_pi" /\ NextKey(b, obj[t][b]) \in intents'
                  \/ pc'[t] = "confirm" /\ obj[t][b].payment_intent_id \in paid
      BY <1>2, <2>2, <2>4 DEF PlaceOK, NextKey
    <2> QED
      BY <1>7, <2>3, <2>4 DEF GoesOn
  <1> QED
    BY <1>1, <1>3, <1>4, <1>5, <1>6, <1>7, SessionStep

\* An intent is created for a row that waits for payment, or from a copy whose
\* intent is canceled.
LEMMA IntentStep ==
    ASSUME [Next]_vars
    PROVE  \/ intents' = intents
           \/ \E b \in Booking :
                /\ rows[b].status = "pending_payment"
                /\ intents' = intents \cup {FirstKey(b, rows[b])}
           \/ \E t \in Thread, b \in Booking :
                /\ b \in Loaded(t)
                /\ obj[t][b].payment_intent_id \in voided
                /\ intents' = intents \cup {NextKey(b, obj[t][b])}
  <1> DEFINE P == \/ intents' = intents
                  \/ \E b \in Booking :
                       /\ rows[b].status = "pending_payment"
                       /\ intents' = intents \cup {FirstKey(b, rows[b])}
                  \/ \E t \in Thread, b \in Booking :
                       /\ b \in Loaded(t)
                       /\ obj[t][b].payment_intent_id \in voided
                       /\ intents' = intents \cup {NextKey(b, obj[t][b])}
  <1>1. ASSUME NEW t \in Handler, NEW b \in Booking, HandlerBegins(t, b)
        PROVE  P
    BY <1>1 DEF HandlerBegins, CreateBegin, CreateOverlap, ApproveBegin,
                DeclineBegin, CancelBegin, PaymentInfoBegin, Payable,
                FinalizeBegin, WebhookBegin, stripe
  <1>2. ASSUME NEW t \in Handler, NEW b \in Booking, HandlerGoesOn(t, b)
        PROVE  P
    <2>1. CASE CreateRefresh(t, b)
      BY <2>1 DEF CreateRefresh, stripe
    <2>2. CASE InspectCanceled(t, b)
      BY <2>2 DEF InspectCanceled, At, Thread
    <2>3. CASE ~CreateRefresh(t, b) /\ ~InspectCanceled(t, b)
      BY <1>2, <2>3 DEF HandlerGoesOn, CreateInsert, RecordIntent, CreateFail,
                ApproveLock, ApproveBusy, ApproveWrite, DeclineWrite, CancelWrite,
                ReplaceIntent, InspectOpen, Settle, FinalizeUnpaid, Confirm,
                Refuse, stripe
    <2> QED
      BY <2>1, <2>2, <2>3
  <1> QED
    BY <1>1, <1>2 DEF Next, SweepBegin, SweepCommit, Abort, LockExpires, Pay,
                      Void, Tick, vars, stripe

\* The landlord still comes first.
LEMMA ApprovalKept ==
    ASSUME SafetyInv, [Next]_vars
    PROVE  ApprovalPrecedesPayment'
  <1>1. ApprovalPrecedesPayment
    BY DEF SafetyInv
  <1>2. CASE intents' = intents
    BY <1>1, <1>2 DEF ApprovalPrecedesPayment
  <1>3. ASSUME NEW b \in Booking, rows[b].status = "pending_payment",
               intents' = intents \cup {FirstKey(b, rows[b])}
        PROVE  ApprovalPrecedesPayment'
    <2>1. InitialStatus(b) = "requested" => rows[b].version > 1
      BY <1>3 DEF SafetyInv, RecordOK, TypeOK, Row
    <2> QED
      BY <1>1, <1>3, <2>1 DEF ApprovalPrecedesPayment, FirstKey
  <1>4. ASSUME NEW t \in Thread, NEW b \in Loaded(t),
               intents' = intents \cup {NextKey(b, obj[t][b])}
        PROVE  ApprovalPrecedesPayment'
    <2>1. obj[t][b].version + 1 > 1
      BY <1>4 DEF SafetyInv, RecordOK, TypeOK, Row, Loaded
    <2> QED
      BY <1>1, <1>4, <2>1 DEF ApprovalPrecedesPayment, NextKey
  <1> QED
    BY <1>2, <1>3, <1>4, IntentStep

\* SafetyInv is inductive.
LEMMA SafetyInvInit == Init => SafetyInv
  <1> SUFFICES ASSUME Init PROVE SafetyInv
    OBVIOUS
  <1>1. TypeOK
    BY NoRowTyped DEF Init, TypeOK, PC
  <1>2. \A b \in Booking : RecordOK(rows[b], b, intents, paid)
    BY NoRowOK DEF Init
  <1>3. \A t \in Thread, b \in Booking : RecordOK(obj[t][b], b, intents, paid)
    BY NoRowOK DEF Init
  <1>4. \A t \in Thread : PlaceOK(t)
    BY DEF Init, PlaceOK, Loaded, NoRow
  <1>5. ApprovalPrecedesPayment
    BY DEF Init, ApprovalPrecedesPayment
  <1> QED
    BY <1>1, <1>2, <1>3, <1>4, <1>5 DEF SafetyInv

\* Every step of the service keeps SafetyInv.
LEMMA SafetyInvStep == SafetyInv /\ [Next]_vars => SafetyInv'
  <1> SUFFICES ASSUME SafetyInv, [Next]_vars PROVE SafetyInv'
    OBVIOUS
  <1>1. TypeOK'
    BY TypeStep DEF SafetyInv
  <1>2. \A b \in Booking : RecordOK(rows[b], b, intents, paid)'
    BY RowsKept DEF RecordOK
  <1>3. \A t \in Thread, b \in Booking : RecordOK(obj[t][b], b, intents, paid)'
    BY CopiesKept DEF RecordOK
  <1>4. \A t \in Thread : PlaceOK(t)'
    BY PlacesKept
  <1>5. ApprovalPrecedesPayment'
    BY ApprovalKept
  <1> QED
    BY <1>1, <1>2, <1>3, <1>4, <1>5 DEF SafetyInv

\* SafetyInv holds in every reachable state: rows and session copies record only
\* what happened, and each thread has established what its place requires.
THEOREM SafetyInvariant == Spec => []SafetyInv
  BY SafetyInvInit, SafetyInvStep, PTL DEF Spec

-----------------------------------------------------------------------------
(* The safety properties.                                                  *)

\* Every variable always holds a value of its type.
THEOREM TypeCorrect == Spec => []TypeOK
  <1>1. SafetyInv => TypeOK
    BY DEF SafetyInv
  <1> QED
    BY <1>1, SafetyInvariant, PTL

\* However many requests overlap, a booking that waits for payment has a
\* deadline, so that no hold escapes the sweep.
THEOREM HoldsHaveDeadlines == Spec => []HoldHasDeadline
  <1>1. SafetyInv => HoldHasDeadline
    BY DEF SafetyInv, RecordOK, HoldHasDeadline
  <1> QED
    BY <1>1, SafetyInvariant, PTL

\* No interleaving confirms a booking for which nothing has been paid.
THEOREM NoFreeStay == Spec => []ConfirmedIsPaid
  <1>1. SafetyInv => ConfirmedIsPaid
    BY DEF SafetyInv, RecordOK, ConfirmedIsPaid
  <1> QED
    BY <1>1, SafetyInvariant, PTL

\* No payment can be started before the landlord has approved.
THEOREM NoPaymentBeforeApproval == Spec => []ApprovalPrecedesPayment
  <1>1. SafetyInv => ApprovalPrecedesPayment
    BY DEF SafetyInv
  <1> QED
    BY <1>1, SafetyInvariant, PTL

\* No step confirms a booking that is closed: of the writes only the
\* compare-and-set confirms, and it asks for a row that waits for payment.
THEOREM ClosedNeverConfirmed == Spec => ClosedStaysUnconfirmed
  <1>1. ASSUME SafetyInv, [Next]_vars, NEW b \in Booking,
               rows[b].status \in Closed
        PROVE  rows'[b].status # "confirmed"
    <2>1. rows[b] \in Row
      BY <1>1 DEF SafetyInv, TypeOK
    <2>2. rows[b].status # "confirmed" /\ rows[b].status # "pending_payment"
      BY <1>1 DEF Closed
    <2>3. ASSUME NEW t \in Thread, Writes(t, b)
          PROVE  rows'[b].status # "confirmed"
      <3>1. At(t, b, {"insert"}) => obj[t][b].status # "confirmed"
        BY <1>1 DEF At, SafetyInv, PlaceOK, InitialStatus
      <3> QED
        BY <2>1, <2>2, <2>3, <3>1
           DEF Writes, Approved, Declined, Cancelled, Expired, Unchanged, Row
    <2> QED
      BY <1>1, <2>2, <2>3, RowStep DEF SafetyInv
  <1>2. SafetyInv /\ [Next]_vars =>
           [\A b \in Booking :
              rows[b].status \in Closed => rows'[b].status # "confirmed"]_vars
    BY <1>1
  <1> QED
    BY <1>2, SafetyInvariant, PTL DEF Spec, ClosedStaysUnconfirmed

-----------------------------------------------------------------------------
(* Retries share an intent.                                                *)

\* What was right of a copy stays right as Stripe cancels intents.
LEMMA VersionMonotone ==
    ASSUME NEW r, NEW b, NEW canceled, NEW canceled2, canceled \subseteq canceled2,
           VersionOK(r, b, canceled)
    PROVE  VersionOK(r, b, canceled2)
  BY DEF VersionOK, NeverVoided

\* The intent a copy points to, once canceled, is a canceled one of its booking.
LEMMA CanceledIsItsOwn ==
    ASSUME SafetyInv, NEW t \in Thread, NEW b \in Booking,
           obj[t][b].payment_intent_id \in voided
    PROVE  ~NeverVoided(b, voided)
  <1>1. obj[t][b].payment_intent_id # None
    BY BookingsAssumption DEF SafetyInv, TypeOK
  <1>2. obj[t][b].payment_intent_id[1] = b
    BY <1>1 DEF SafetyInv, RecordOK
  <1> QED
    BY <1>2 DEF NeverVoided

\* The committed rows keep the version on which they wait for payment.
LEMMA RowVersionsKept ==
    ASSUME SafetyInv, KeyInv, [Next]_vars, NEW b \in Booking
    PROVE  VersionOK(rows'[b], b, voided')
  <1>1. VersionOK(rows[b], b, voided) /\ rows[b] \in Row
    BY DEF KeyInv, SafetyInv, TypeOK
  <1>2. ASSUME NEW t \in Thread, Writes(t, b)
        PROVE  VersionOK(rows'[b], b, voided)
    <2>1. /\ VersionOK(obj[t][b], b, voided)
          /\ obj[t][b] \in Row
          /\ CauseOK(t)
      BY DEF KeyInv, SafetyInv, TypeOK
    <2>2. CASE rows'[b] = obj[t][b]
      BY <2>1, <2>2
    <2>3. CASE rows'[b] = [rows[b] EXCEPT
                             !.payment_intent_id = FirstKey(b, obj[t][b])]
      BY <1>1, <2>3 DEF VersionOK, Row
    <2>4. CASE At(t, b, {"replace_pi"})
      <3>1. ~NeverVoided(b, voided)
        BY <2>1, <2>4, CanceledIsItsOwn DEF CauseOK, At
      <3> QED
        BY <3>1 DEF VersionOK
    <2>5. CASE /\ At(t, b, {"approve_write"})
               /\ rows'[b] = Approved(rows[b], obj[t][b])
      <3>1. obj[t][b].status = "requested"
        BY <2>1, <2>5 DEF CauseOK, At
      <3> QED
        BY <1>1, <2>1, <2>5, <3>1 DEF VersionOK, Approved, Row
    <2>6. CASE rows'[b] \in {Declined(rows[b], obj[t][b]),
                             Cancelled(rows[b], obj[t][b]),
                             Expired(rows[b], obj[t][b]),
                             Confirmed(rows[b], obj[t][b])}
      BY <1>1, <2>6
         DEF VersionOK, Declined, Cancelled, Expired, Confirmed, Row
    <2> QED
      BY <1>2, <2>2, <2>3, <2>4, <2>5, <2>6 DEF Writes
  <1>3. VersionOK(rows'[b], b, voided)
    BY <1>1, <1>2, RowStep DEF SafetyInv
  <1> QED
    BY <1>3, StripeStep, VersionMonotone

\* A new booking is on the way to it.
LEMMA NewBookingVersion ==
    ASSUME NEW b \in Booking
    PROVE  VersionOK(NewBooking(b), b, voided)
  BY DEF VersionOK, NewBooking, PayVersion

\* So are the copies.
LEMMA CopyVersionsKept ==
    ASSUME SafetyInv, KeyInv, [Next]_vars, NEW t \in Thread, NEW b \in Booking
    PROVE  VersionOK(obj'[t][b], b, voided')
  <1>1. VersionOK(NoRow, b, voided)
    BY DEF VersionOK, NoRow
  <1>2. VersionOK(obj'[t][b], b, voided)
    BY <1>1, CopyStep, NewBookingVersion DEF SafetyInv, KeyInv
  <1> QED
    BY <1>2, StripeStep, VersionMonotone

\* A thread comes to the write of an approval with a request in hand, and to
\* that of a replacement with a canceled intent.
LEMMA CausesKept ==
    ASSUME SafetyInv, KeyInv, [Next]_vars, NEW t \in Thread
    PROVE  CauseOK(t)'
  <1>1. /\ obj \in [Thread -> [Booking -> Row]]
        /\ PlaceOK(t)
        /\ CauseOK(t)
        /\ voided \subseteq voided'
    BY StripeStep DEF SafetyInv, TypeOK, KeyInv
  <1>2. CASE Stays(t)
    BY <1>1, <1>2 DEF Stays, CauseOK, Loaded
  <1>3. CASE Ends(t) \/ TakesExpired(t)
    BY <1>3 DEF Ends, TakesExpired, CauseOK
  <1>4. ASSUME NEW b \in Booking, Takes(t, b)
        PROVE  CauseOK(t)'
    <2>1. Loaded(t) = {}
      BY <1>1, <1>4 DEF Takes, PlaceOK
    <2> QED
      BY <1>1, <1>4, <2>1 DEF Takes, CauseOK, Loaded
  <1>5. ASSUME NEW b \in Booking, GoesOn(t, b)
        PROVE  CauseOK(t)'
    <2>1. b \in Loaded(t) /\ \A c \in Loaded(t) : c = b
      BY <1>1, <1>5 DEF GoesOn, At, PlaceOK
    <2> QED
      BY <1>1, <1>5, <2>1 DEF GoesOn, At, CauseOK, Loaded
  <1> QED
    BY <1>2, <1>3, <1>4, <1>5, SessionStep DEF SafetyInv

\* Before a cancellation every intent has the one key of its booking.
LEMMA KeysKept ==
    ASSUME SafetyInv, KeyInv, [Next]_vars, NEW pi \in intents',
           NeverVoided(pi[1], voided')
    PROVE  pi[2] = PayVersion(pi[1])
  <1>1. NeverVoided(pi[1], voided)
    BY StripeStep DEF NeverVoided
  <1>2. CASE pi \in intents
    BY <1>1, <1>2 DEF KeyInv
  <1>3. ASSUME NEW b \in Booking, rows[b].status = "pending_payment",
               pi = FirstKey(b, rows[b])
        PROVE  pi[2] = PayVersion(pi[1])
    BY <1>1, <1>3 DEF KeyInv, VersionOK, FirstKey
  <1>4. ASSUME NEW t \in Thread, NEW b \in Booking,
               obj[t][b].payment_intent_id \in voided,
               pi = NextKey(b, obj[t][b])
        PROVE  FALSE
    BY <1>1, <1>4, CanceledIsItsOwn DEF NextKey
  <1> QED
    BY <1>2, <1>3, <1>4, IntentStep

\* A booking gets a second intent only after one of its intents was canceled:
\* until then whatever a handler reads, however stale, leads to the same key.
THEOREM RetriesFindTheirIntent == Spec => []RetriesShareIntent
  <1>1. Init => KeyInv
    BY DEF Init, KeyInv, VersionOK, CauseOK, NoRow
  <1>2. SafetyInv /\ KeyInv /\ [Next]_vars => KeyInv'
    <2> SUFFICES ASSUME SafetyInv, KeyInv, [Next]_vars PROVE KeyInv'
      OBVIOUS
    <2>1. \A b \in Booking : VersionOK(rows[b], b, voided)'
      BY RowVersionsKept DEF VersionOK, NeverVoided
    <2>2. \A t \in Thread, b \in Booking : VersionOK(obj[t][b], b, voided)'
      BY CopyVersionsKept DEF VersionOK, NeverVoided
    <2>3. \A t \in Thread : CauseOK(t)'
      BY CausesKept
    <2> QED
      BY <2>1, <2>2, <2>3, KeysKept DEF KeyInv, NeverVoided
  <1>3. SafetyInv /\ KeyInv => RetriesShareIntent
    <2> SUFFICES ASSUME SafetyInv, KeyInv, NEW pi \in intents, NEW qi \in intents,
                        pi[1] = qi[1], NeverVoided(pi[1], voided)
                 PROVE  pi = qi
      BY DEF RetriesShareIntent, NeverVoided
    <2>1. pi[2] = qi[2]
      BY DEF KeyInv
    <2>2. pi \in Booking \X Nat /\ qi \in Booking \X Nat
      BY DEF SafetyInv, TypeOK, Intent
    <2> QED
      BY <2>1, <2>2
  <1> QED
    BY <1>1, <1>2, <1>3, SafetyInvariant, PTL DEF Spec

-----------------------------------------------------------------------------
(* The lock of a property.                                                 *)

\* No step takes the key away from a thread that stays in its critical
\* section: it is taken when free, released by its owner, and only an orphan
\* expires.
LEMMA KeyIsKept ==
    ASSUME TypeOK, ~LockFaults, [Next]_vars,
           NEW u \in Thread, NEW p \in Property, lock[p] = u
    PROVE  lock'[p] = u \/ Ends(u) \/ pc'[u] = "create_failed"
  <1>1. u # "free" /\ u # "orphan"
    BY BookingsAssumption
  <1>2. ASSUME NEW t \in Handler, NEW b \in Booking, HandlerBegins(t, b)
        PROVE  lock'[p] = u
    <2>1. lock'[p] = lock[p] \/ lock[p] = "free"
      BY <1>2, BookingDataAssumption
         DEF HandlerBegins, CreateBegin, CreateOverlap, ApproveBegin,
             DeclineBegin, CancelBegin, PaymentInfoBegin, FinalizeBegin,
             WebhookBegin, TryLock, TypeOK
    <2> QED
      BY <1>1, <2>1
  <1>3. ASSUME NEW t \in Handler, NEW b \in Booking, HandlerGoesOn(t, b)
        PROVE  lock'[p] = u \/ Ends(u) \/ pc'[u] = "create_failed"
    <2>1. t \in Thread
      BY DEF Thread
    <2>2. CASE Done(t)
      BY <2>1, <2>2 DEF Done, EndSession, Released, Ends, TypeOK
    <2>3. CASE CreateFail(t, b)
      BY <2>1, <2>3 DEF CreateFail, Goto, Released, TypeOK
    <2>4. CASE ApproveLock(t, b)
      BY <1>1, <2>4 DEF ApproveLock, TryLock, TypeOK
    <2>5. CASE UNCHANGED lock
      BY <2>5
    <2> QED
      BY <1>3, <2>2, <2>3, <2>4, <2>5
         DEF HandlerGoesOn, CreateInsert, CreateRefresh, RecordIntent, ApproveBusy,
             ApproveWrite, DeclineWrite, CancelWrite, InspectCanceled,
             ReplaceIntent, InspectOpen, Settle, FinalizeUnpaid, Confirm, Refuse
  <1>4. ASSUME NEW t \in Thread, SweepBegin(t) \/ SweepCommit(t) \/ Abort(t)
        PROVE  lock'[p] = u \/ Ends(u)
    BY <1>4 DEF SweepBegin, SweepCommit, Abort, Done, EndSession, Released, Ends,
                TypeOK
  <1>5. CASE \E q \in Property : LockExpires(q)
    BY <1>1, <1>5 DEF LockExpires, TypeOK
  <1>6. CASE Pay \/ Void \/ Tick \/ UNCHANGED vars
    BY <1>6 DEF Pay, Void, Tick, vars
  <1> QED
    BY <1>2, <1>3, <1>4, <1>5, <1>6 DEF Next, Thread

\* A thread enters the critical section of a property with its key.
LEMMA EntersWithKey ==
    ASSUME TypeOK, ~LockFaults, [Next]_vars, NEW u \in Thread,
           pc[u] \notin Critical, pc'[u] \in Critical
    PROVE  \E b \in Booking :
             /\ pc[u] = "idle" \/ b \in Loaded(u)
             /\ lock'[PropertyOf[b]] = u
             /\ Loaded(u)' \subseteq Loaded(u) \cup {b}
  <1>1. ~Stays(u)
    BY DEF Stays
  <1>2. ASSUME NEW b \in Booking, HandlerBegins(u, b), u \in Handler
        PROVE  /\ pc[u] = "idle"
               /\ lock'[PropertyOf[b]] = u
               /\ Loaded(u)' \subseteq Loaded(u) \cup {b}
    <2>1. CreateBegin(u, b)
      BY <1>2 DEF HandlerBegins, CreateOverlap, ApproveBegin, DeclineBegin,
                  CancelBegin, PaymentInfoBegin, FinalizeBegin, WebhookBegin,
                  Load, Critical, TypeOK
    <2> QED
      BY <2>1, BookingDataAssumption DEF CreateBegin, TryLock, Loaded, TypeOK
  <1>3. ASSUME NEW b \in Booking, HandlerGoesOn(u, b), u \in Handler
        PROVE  /\ b \in Loaded(u)
               /\ lock'[PropertyOf[b]] = u
               /\ Loaded(u)' \subseteq Loaded(u) \cup {b}
    <2>1. ApproveLock(u, b)
      BY <1>3 DEF HandlerGoesOn, CreateInsert, CreateRefresh, RecordIntent,
                  CreateFail, ApproveBusy, ApproveWrite, DeclineWrite, CancelWrite,
                  InspectCanceled, ReplaceIntent, InspectOpen, Settle,
                  FinalizeUnpaid, Confirm, Refuse, Goto, Done, EndSession, At,
                  Critical, TypeOK
    <2> QED
      BY <2>1, BookingDataAssumption
         DEF ApproveLock, TryLock, Goto, At, Loaded, TypeOK
  <1>4. ~ \E t \in Thread : SweepBegin(t) \/ SweepCommit(t) \/ Abort(t)
    BY DEF SweepBegin, SweepCommit, Abort, Done, EndSession, Critical, TypeOK
  <1>5. ~ \/ \E p \in Property : LockExpires(p)
          \/ Pay
          \/ Void
          \/ Tick
          \/ UNCHANGED vars
    BY DEF LockExpires, Pay, Void, Tick, vars
  <1>6. PICK t \in Handler, b \in Booking : HandlerBegins(t, b) \/ HandlerGoesOn(t, b)
    BY <1>4, <1>5 DEF Next, Thread
  <1>7. t = u
    BY <1>1, <1>6, OthersStay
  <1> QED
    BY <1>2, <1>3, <1>6, <1>7

\* Every step keeps the key of a critical section with the thread inside.
LEMMA LockInvStep == SafetyInv /\ LockInv /\ [Next]_vars => LockInv'
  <1> SUFFICES ASSUME SafetyInv, LockInv, [Next]_vars, ~LockFaults,
                      NEW u \in Thread, NEW b \in Loaded(u)', pc'[u] \in Critical
               PROVE  lock'[PropertyOf[b]] = u
    BY DEF LockInv
  <1>1. TypeOK /\ PlaceOK(u) /\ b \in Booking
    BY DEF SafetyInv, Loaded
  <1>2. CASE pc[u] \in Critical
    <2>1. ~Ends(u) /\ pc'[u] # "create_failed"
      BY DEF Ends, Critical
    <2>2. b \in Loaded(u)
      <3>1. Stays(u) \/ \E c \in Booking : GoesOn(u, c)
        <4>1. ~TakesExpired(u) /\ \A c \in Booking : ~Takes(u, c)
          BY <1>2 DEF TakesExpired, Takes, Critical
        <4> QED
          BY <1>1, <2>1, <4>1, SessionStep
      <3>2. CASE Stays(u)
        BY <3>2 DEF Stays, Loaded
      <3>3. CASE \E c \in Booking : GoesOn(u, c)
        <4>1. PICK c \in Booking : GoesOn(u, c)
          BY <3>3
        <4>2. c \in Loaded(u) /\ obj[u] \in [Booking -> Row]
          BY <1>1, <4>1 DEF GoesOn, At, TypeOK
        <4> QED
          BY <4>1, <4>2 DEF GoesOn, Loaded
      <3> QED
        BY <3>1, <3>2, <3>3
    <2>3. lock[PropertyOf[b]] = u /\ PropertyOf[b] \in Property
      BY <1>1, <1>2, <2>2, BookingDataAssumption DEF LockInv
    <2> QED
      BY <1>1, <2>1, <2>3, KeyIsKept
  <1>3. CASE pc[u] \notin Critical
    <2>1. PICK c \in Booking : /\ pc[u] = "idle" \/ c \in Loaded(u)
                               /\ lock'[PropertyOf[c]] = u
                               /\ Loaded(u)' \subseteq Loaded(u) \cup {c}
      BY <1>1, <1>3, EntersWithKey
    <2>2. b = c
      <3>1. pc[u] # "sweep"
        <4>1. pc[u] = "sweep" => Stays(u) \/ Ends(u)
          BY <1>1, SessionStep DEF TakesExpired, Takes, GoesOn, At
        <4> QED
          BY <4>1 DEF Stays, Ends, Critical
      <3> QED
        BY <1>1, <2>1, <3>1 DEF PlaceOK
    <2> QED
      BY <2>1, <2>2
  <1> QED
    BY <1>2, <1>3

\* While Redis answers in time, no two threads are in the critical section of
\* one property.
THEOREM CriticalSectionsExclude == Spec => []LockExclusion
  <1>1. Init => LockInv
    BY DEF Init, LockInv, Critical
  <1>2. LockInv => LockExclusion
    BY DEF LockInv, LockExclusion
  <1> QED
    BY <1>1, <1>2, LockInvStep, SafetyInvariant, PTL DEF Spec
=============================================================================
