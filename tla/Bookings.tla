------------------------------ MODULE Bookings ------------------------------
(***************************************************************************)
(* The booking workflow of the service: the bookings table, the handlers   *)
(* of bookings.py and payments.py that read and write it, the sweeper      *)
(* thread of sweepers.py, Stripe's PaymentIntents and the per-property     *)
(* Redis lock.                                                             *)
(*                                                                         *)
(* Handlers run in parallel: in the thread pool of one worker and in the   *)
(* several worker processes of the Dockerfile. A handler is cut at every   *)
(* database statement, Stripe call and lock operation; between two of them *)
(* it keeps the row as it read it (the ORM object in its session) and      *)
(* writes back columns computed from that copy. An UPDATE and the COMMIT   *)
(* after it are one step, because the row lock is held from one to the     *)
(* other. A request refused by its first checks changes nothing and is a   *)
(* stuttering step.                                                        *)
(***************************************************************************)
EXTENDS BookingData

CONSTANTS
    Handler,      \* threads that run request handlers
    Sweeper,      \* threads that run sweep_expired_bookings
    None,         \* a NULL column
    HOLD,         \* HOLD_MINUTES, in ticks of the clock
    LockFaults,   \* TRUE: Redis may fail or be off, a critical section outlast the TTL
    MaxTime,      \* bound on the clock
    MaxVersion    \* bound on the intents Stripe cancels, hence on versions

Thread == Handler \cup Sweeper

VARIABLES
    rows,      \* the committed bookings table
    now,       \* datetime.now(timezone.utc)
    intents,   \* the PaymentIntents created at Stripe
    paid,      \* ... whose status is succeeded
    voided,    \* ... whose status is canceled
    secrets,   \* ... whose client_secret a tenant has been given
    pc,        \* where each thread is in its handler
    obj,       \* the rows each thread holds in its session, as read
    lock       \* the key lock:booking:property:{id} of each property

vars == <<rows, now, intents, paid, voided, secrets, pc, obj, lock>>
stripe == <<intents, paid, voided, secrets>>

\* The idempotency key booking:{id}:v{version}: Stripe answers two creations
\* with one key with the same PaymentIntent, so the key names the intent.
Intent == Booking \X Nat

Row == [status            : Status,
        version           : Nat,
        payment_intent_id : Intent \cup {None},
        expires_at        : Nat \cup {None},
        cancel_reason     : {"cancelled", "declined", "expired", None}]

NoRow == [status |-> "absent", version |-> 0, payment_intent_id |-> None,
          expires_at |-> None, cancel_reason |-> None]

\* The code executed inside "with redis_try_lock(...)", by program counter.
Critical == {"insert", "refresh", "create_record", "approve_write"}

PC == Critical \cup
      {"idle", "create_failed", "approve_lock", "decline", "cancel",
       "record_pi", "inspect", "replace_pi", "settle", "confirm", "conflict",
       "sweep"}

ASSUME BookingsAssumption ==
    /\ None \notin Nat
    /\ None \notin Intent
    /\ None \notin {"cancelled", "declined", "expired"}
    /\ HOLD \in Nat \ {0}
    /\ LockFaults \in BOOLEAN
    /\ MaxTime \in Nat
    /\ MaxVersion \in Nat
    /\ "free" \notin Thread
    /\ "orphan" \notin Thread

Init ==
    /\ rows = [b \in Booking |-> NoRow]
    /\ now = 0
    /\ intents = {} /\ paid = {} /\ voided = {} /\ secrets = {}
    /\ pc = [t \in Thread |-> "idle"]
    /\ obj = [t \in Thread |-> [b \in Booking |-> NoRow]]
    /\ lock = [p \in Property |-> "free"]

-----------------------------------------------------------------------------
(* Sessions and the lock.                                                  *)

\* The rows thread t has loaded in its session.
Loaded(t) == {b \in Booking : obj[t][b].status # "absent"}

\* The thread goes on at "next" with booking b, as committed now, in hand.
Load(t, b, next) ==
    /\ pc[t] = "idle"
    /\ pc' = [pc EXCEPT ![t] = next]
    /\ obj' = [obj EXCEPT ![t][b] = rows[b]]

\* The thread is at one of these places with booking b in hand.
At(t, b, places) == pc[t] \in places /\ b \in Loaded(t)

Goto(t, next) == pc' = [pc EXCEPT ![t] = next] /\ UNCHANGED obj

EndSession(t) ==
    /\ pc' = [pc EXCEPT ![t] = "idle"]
    /\ obj' = [obj EXCEPT ![t] = [b \in Booking |-> NoRow]]

\* SET key token NX PX: the three outcomes after which the body of the "with"
\* statement runs. When Redis fails the code proceeds without the lock, and
\* a SET whose reply was lost leaves a key nobody will release.
TryLock(t, p) ==
    \/ lock[p] = "free" /\ lock' = [lock EXCEPT ![p] = t]
    \/ LockFaults /\ UNCHANGED lock
    \/ LockFaults /\ lock[p] = "free" /\ lock' = [lock EXCEPT ![p] = "orphan"]

\* Mutant: the key is deleted without comparing the token.
ReleasedAnyones(t, leaving) == [p \in Property |-> leaving]

Released(t, leaving) ==
    [p \in Property |-> IF lock[p] = t THEN leaving ELSE lock[p]]

\* The handler returns; the token-checked script deletes the key if it is
\* still the thread's own, or fails and leaves the key to its TTL. The second
\* is also what remains of a handler cut short after its last commit.
Done(t) ==
    /\ EndSession(t)
    /\ \E leaving \in {"free", "orphan"} : lock' = Released(t, leaving)

\* The handler leaves by an exception or its process dies: the session is
\* rolled back. The key stays until its TTL runs out or until the generator
\* of redis_try_lock, which has yielded a second time, is collected.
Abort(t) ==
    /\ pc[t] # "idle"
    /\ EndSession(t)
    /\ lock' = Released(t, "orphan")
    /\ UNCHANGED <<rows, now, stripe>>

LockExpires(p) ==
    /\ lock[p] # "free"
    /\ lock[p] = "orphan" \/ LockFaults
    /\ lock' = [lock EXCEPT ![p] = "free"]
    /\ UNCHANGED <<rows, now, stripe, pc, obj>>

-----------------------------------------------------------------------------
(* What the handlers write. A flush updates the columns that were assigned *)
(* another value than the one in the session's copy, whatever the row      *)
(* holds by now.                                                           *)

\* Mutants: the hold gets no deadline; the version is not incremented.
ApprovedNoDeadline(row, copy) ==
    [row EXCEPT !.status = "pending_payment", !.version = copy.version + 1]
ApprovedNoBump(row, copy) ==
    [row EXCEPT !.status = "pending_payment", !.expires_at = now + HOLD]

Approved(row, copy) ==
    [row EXCEPT !.status = "pending_payment",
                !.expires_at = now + HOLD,
                !.version = copy.version + 1]

Declined(row, copy) ==
    [row EXCEPT !.status = "declined",
                !.cancel_reason = "declined",
                !.version = copy.version + 1]

\* A reason that was already there is kept.
Cancelled(row, copy) ==
    [row EXCEPT !.status = "cancelled",
                !.cancel_reason = IF copy.cancel_reason = None
                                  THEN "cancelled" ELSE @,
                !.version = copy.version + 1]

\* Mutant: the status is written in the column of the reason.
ExpiredStatusAsReason(row, copy) ==
    [row EXCEPT !.status = "cancelled_expired",
                !.cancel_reason = "cancelled_expired",
                !.version = copy.version + 1]

Expired(row, copy) ==
    [row EXCEPT !.status = "cancelled_expired",
                !.cancel_reason = IF copy.cancel_reason = None
                                  THEN "expired" ELSE @,
                !.version = copy.version + 1]

\* Mutant: the WHERE clause without the status.
UnchangedVersionOnly(row, copy) == row.version = copy.version

\* UPDATE ... WHERE id AND version AND status = 'pending_payment'
Unchanged(row, copy) ==
    /\ row.status = "pending_payment"
    /\ row.version = copy.version

Confirmed(row, copy) ==
    [row EXCEPT !.status = "confirmed", !.version = copy.version + 1]

\* The idempotency key of the intent created for a row without one, and of
\* the one that replaces a canceled intent.
FirstKey(b, copy) == <<b, copy.version>>
NextKey(b, copy)  == <<b, copy.version + 1>>

-----------------------------------------------------------------------------
(* create_booking                                                          *)

\* The new object: its hold runs from now when no approval is needed.
NewBooking(b) ==
    [status            |-> InitialStatus(b),
     version           |-> 1,
     payment_intent_id |-> None,
     expires_at        |-> IF InitialStatus(b) = "pending_payment"
                           THEN now + HOLD ELSE None,
     cancel_reason     |-> None]

\* _has_overlap and _has_confirmed_overlap: the query does not leave out the
\* booking it is asked for.
HasConfirmedOverlap(b) ==
    \E c \in Booking : rows[c].status = "confirmed" /\ Conflict(c, b)

\* A primary key no row and no insert in progress uses.
Fresh(b) == rows[b].status = "absent" /\ \A u \in Thread : b \notin Loaded(u)

\* Under the lock: the dates are free; the new object is built.
CreateBegin(t, b) ==
    /\ pc[t] = "idle"
    /\ Fresh(b)
    /\ TryLock(t, PropertyOf[b])
    /\ ~HasConfirmedOverlap(b)
    /\ pc' = [pc EXCEPT ![t] = "insert"]
    /\ obj' = [obj EXCEPT ![t][b] = NewBooking(b)]
    /\ UNCHANGED <<rows, now, stripe>>

\* Dates taken: the 409 is raised inside the "with", so the key lingers.
CreateOverlap(t, b) ==
    /\ pc[t] = "idle"
    /\ Fresh(b)
    /\ HasConfirmedOverlap(b)
    /\ lock[PropertyOf[b]] = "free"
    /\ lock' = [lock EXCEPT ![PropertyOf[b]] = "orphan"]
    /\ UNCHANGED <<rows, now, stripe, pc, obj>>

\* db.add(obj); db.commit()
CreateInsert(t, b) ==
    /\ At(t, b, {"insert"})
    /\ rows' = [rows EXCEPT ![b] = obj[t][b]]
    /\ Goto(t, "refresh")
    /\ UNCHANGED <<now, stripe, lock>>

\* db.refresh(obj) reads the row again, then the next action is chosen on
\* what was read: nothing to pay yet, or an intent to create, or one that
\* payment_info has recorded meanwhile.
CreateRefresh(t, b) ==
    /\ At(t, b, {"refresh"})
    /\ \/ /\ rows[b].status # "pending_payment"
          /\ Done(t)
          /\ UNCHANGED stripe
       \/ /\ rows[b].status = "pending_payment"
          /\ rows[b].payment_intent_id = None
          /\ intents' = intents \cup {FirstKey(b, rows[b])}
          /\ pc' = [pc EXCEPT ![t] = "create_record"]
          /\ obj' = [obj EXCEPT ![t][b] = rows[b]]
          /\ UNCHANGED <<paid, voided, secrets, lock>>
       \/ /\ rows[b].status = "pending_payment"
          /\ rows[b].payment_intent_id # None
          /\ secrets' = secrets \cup {rows[b].payment_intent_id}
          /\ Done(t)
          /\ UNCHANGED <<intents, paid, voided>>
    /\ UNCHANGED <<rows, now>>

\* obj.payment_intent_id = pi_id; commit; the secret goes out with the reply.
\* The same three statements end get_payment_info for a booking without one.
RecordIntent(t, b) ==
    /\ At(t, b, {"create_record", "record_pi"})
    /\ LET pi == FirstKey(b, obj[t][b]) IN
         /\ rows' = [rows EXCEPT ![b].payment_intent_id = pi]
         /\ secrets' = secrets \cup {pi}
    /\ Done(t)
    /\ UNCHANGED <<now, intents, paid, voided>>

\* except Exception: db.rollback() and a 500, "Failed to create booking".
CreateFail(t, b) ==
    /\ At(t, b, {"insert", "refresh", "create_record"})
    /\ Goto(t, "create_failed")
    /\ lock' = Released(t, "orphan")
    /\ UNCHANGED <<rows, now, stripe>>

-----------------------------------------------------------------------------
(* approve_booking, decline_booking, cancel_booking                        *)

ApproveBegin(t, b) ==
    /\ rows[b].status = "requested"
    /\ Load(t, b, "approve_lock")
    /\ UNCHANGED <<rows, now, stripe, lock>>

ApproveLock(t, b) ==
    /\ At(t, b, {"approve_lock"})
    /\ TryLock(t, PropertyOf[b])
    /\ Goto(t, "approve_write")
    /\ UNCHANGED <<rows, now, stripe>>

\* Another request holds the key: refused.
ApproveBusy(t, b) ==
    /\ At(t, b, {"approve_lock"})
    /\ lock[PropertyOf[b]] # "free"
    /\ Done(t)
    /\ UNCHANGED <<rows, now, stripe>>

ApproveWrite(t, b) ==
    /\ At(t, b, {"approve_write"})
    /\ rows' = [rows EXCEPT ![b] = Approved(@, obj[t][b])]
    /\ Done(t)
    /\ UNCHANGED <<now, stripe>>

DeclineBegin(t, b) ==
    /\ rows[b].status = "requested"
    /\ Load(t, b, "decline")
    /\ UNCHANGED <<rows, now, stripe, lock>>

DeclineWrite(t, b) ==
    /\ At(t, b, {"decline"})
    /\ rows' = [rows EXCEPT ![b] = Declined(@, obj[t][b])]
    /\ Done(t)
    /\ UNCHANGED <<now, stripe>>

\* Mutant: the test for a terminal status is dropped.
CancelBeginAlways(t, b) ==
    /\ rows[b].status # "absent"
    /\ Load(t, b, "cancel")
    /\ UNCHANGED <<rows, now, stripe, lock>>

CancelBegin(t, b) ==
    /\ rows[b].status \notin Closed \cup {"absent"}
    /\ Load(t, b, "cancel")
    /\ UNCHANGED <<rows, now, stripe, lock>>

CancelWrite(t, b) ==
    /\ At(t, b, {"cancel"})
    /\ rows' = [rows EXCEPT ![b] = Cancelled(@, obj[t][b])]
    /\ Done(t)
    /\ UNCHANGED <<now, stripe>>

-----------------------------------------------------------------------------
(* Payments                                                                *)

\* pending_payment with a hold that has not run out: the checks shared by
\* get_payment_info, finalize_payment and stripe_webhook.
Payable(b) ==
    /\ rows[b].status = "pending_payment"
    /\ rows[b].expires_at # None
    /\ rows[b].expires_at > now

\* Mutant: the first intent gets the key of the next version, as a replacement.
PaymentInfoBeginNext(t, b) ==
    /\ Payable(b)
    /\ \/ /\ rows[b].payment_intent_id = None
          /\ intents' = intents \cup {NextKey(b, rows[b])}
          /\ Load(t, b, "record_pi")
          /\ UNCHANGED <<paid, voided, secrets>>
       \/ /\ rows[b].payment_intent_id # None
          /\ Load(t, b, "inspect")
          /\ UNCHANGED stripe
    /\ UNCHANGED <<rows, now, lock>>

\* get_payment_info: create the first intent, or look at the existing one.
PaymentInfoBegin(t, b) ==
    /\ Payable(b)
    /\ \/ /\ rows[b].payment_intent_id = None
          /\ intents' = intents \cup {FirstKey(b, rows[b])}
          /\ Load(t, b, "record_pi")
          /\ UNCHANGED <<paid, voided, secrets>>
       \/ /\ rows[b].payment_intent_id # None
          /\ Load(t, b, "inspect")
          /\ UNCHANGED stripe
    /\ UNCHANGED <<rows, now, lock>>

\* Mutant: any intent that is not paid is replaced.
InspectUnpaid(t, b) ==
    /\ At(t, b, {"inspect"})
    /\ obj[t][b].payment_intent_id \notin paid
    /\ intents' = intents \cup {NextKey(b, obj[t][b])}
    /\ Goto(t, "replace_pi")
    /\ UNCHANGED <<rows, now, paid, voided, secrets, lock>>

\* A canceled intent is replaced by one with the next version's key ...
InspectCanceled(t, b) ==
    /\ At(t, b, {"inspect"})
    /\ obj[t][b].payment_intent_id \in voided
    /\ intents' = intents \cup {NextKey(b, obj[t][b])}
    /\ Goto(t, "replace_pi")
    /\ UNCHANGED <<rows, now, paid, voided, secrets, lock>>

\* Mutant: the row goes on pointing to the canceled intent.
ReplaceIntentUnrecorded(t, b) ==
    /\ At(t, b, {"replace_pi"})
    /\ rows' = [rows EXCEPT ![b].version = obj[t][b].version + 1]
    /\ secrets' = secrets \cup {NextKey(b, obj[t][b])}
    /\ Done(t)
    /\ UNCHANGED <<now, intents, paid, voided>>

\* ... and the row points to it.
ReplaceIntent(t, b) ==
    /\ At(t, b, {"replace_pi"})
    /\ LET pi == NextKey(b, obj[t][b]) IN
         /\ rows' = [rows EXCEPT ![b].payment_intent_id = pi,
                                 ![b].version = obj[t][b].version + 1]
         /\ secrets' = secrets \cup {pi}
    /\ Done(t)
    /\ UNCHANGED <<now, intents, paid, voided>>

\* Neither canceled nor succeeded, or the status could not be retrieved
\* (any exception is swallowed): the client secret is returned.
InspectOpen(t, b) ==
    /\ At(t, b, {"inspect"})
    /\ secrets' = secrets \cup {obj[t][b].payment_intent_id}
    /\ Done(t)
    /\ UNCHANGED <<rows, now, intents, paid, voided>>

FinalizeBegin(t, b) ==
    /\ Payable(b)
    /\ rows[b].payment_intent_id # None
    /\ Load(t, b, "settle")
    /\ UNCHANGED <<rows, now, stripe, lock>>

\* Stripe delivers payment_intent.succeeded at any time after the payment,
\* any number of times.
WebhookBegin(t, b) ==
    /\ rows[b].payment_intent_id \in paid
    /\ Payable(b)
    /\ Load(t, b, "settle")
    /\ UNCHANGED <<rows, now, stripe, lock>>

\* Mutants: an intent in progress counts as paid; no second overlap check.
SettleUnpaid(t, b) ==
    /\ At(t, b, {"inspect", "settle"})
    /\ Goto(t, IF HasConfirmedOverlap(b) THEN "conflict" ELSE "confirm")
    /\ UNCHANGED <<rows, now, stripe, lock>>
SettleUnguarded(t, b) ==
    /\ At(t, b, {"inspect", "settle"})
    /\ obj[t][b].payment_intent_id \in paid
    /\ Goto(t, "confirm")
    /\ UNCHANGED <<rows, now, stripe, lock>>

\* The intent has succeeded: look for a confirmed overlap.
Settle(t, b) ==
    /\ At(t, b, {"inspect", "settle"})
    /\ obj[t][b].payment_intent_id \in paid
    /\ Goto(t, IF HasConfirmedOverlap(b) THEN "conflict" ELSE "confirm")
    /\ UNCHANGED <<rows, now, stripe, lock>>

\* finalize_payment: not paid yet, canceled, or Stripe out of reach.
FinalizeUnpaid(t, b) ==
    /\ At(t, b, {"settle"})
    /\ obj[t][b].payment_intent_id \notin paid
    /\ Done(t)
    /\ UNCHANGED <<rows, now, stripe>>

\* The compare-and-set, and the rollback when it matched no row.
Confirm(t, b) ==
    /\ At(t, b, {"confirm"})
    /\ \/ /\ Unchanged(rows[b], obj[t][b])
          /\ rows' = [rows EXCEPT ![b] = Confirmed(@, obj[t][b])]
       \/ /\ ~Unchanged(rows[b], obj[t][b])
          /\ UNCHANGED rows
    /\ Done(t)
    /\ UNCHANGED <<now, stripe>>

\* The refusal goes out: 409 "Overlap conflict", or the 500 of a create.
Refuse(t, b) ==
    /\ At(t, b, {"conflict", "create_failed"})
    /\ Done(t)
    /\ UNCHANGED <<rows, now, stripe>>

-----------------------------------------------------------------------------
(* sweep_expired_bookings                                                  *)

\* Mutant: holds whose payment has been started are left alone.
SweepableUnstarted(b) ==
    /\ rows[b].status = "pending_payment"
    /\ rows[b].payment_intent_id = None
    /\ rows[b].expires_at # None
    /\ rows[b].expires_at < now

Sweepable(b) ==
    /\ rows[b].status = "pending_payment"
    /\ rows[b].expires_at # None
    /\ rows[b].expires_at < now

SweepBegin(t) ==
    /\ pc[t] = "idle"
    /\ \E b \in Booking : Sweepable(b)
    /\ pc' = [pc EXCEPT ![t] = "sweep"]
    /\ obj' = [obj EXCEPT ![t] =
                [b \in Booking |-> IF Sweepable(b) THEN rows[b] ELSE NoRow]]
    /\ UNCHANGED <<rows, now, stripe, lock>>

\* One transaction for all the rows loaded; the guards inside the loop test
\* the copies, so they always hold.
SweepCommit(t) ==
    /\ pc[t] = "sweep"
    /\ rows' = [b \in Booking |->
                  IF b \in Loaded(t) THEN Expired(rows[b], obj[t][b])
                  ELSE rows[b]]
    /\ Done(t)
    /\ UNCHANGED <<now, stripe>>

-----------------------------------------------------------------------------
(* The world outside: the clock, the tenant's card, Stripe.                *)

Tick ==
    /\ now < MaxTime
    /\ now' = now + 1
    /\ UNCHANGED <<rows, stripe, pc, obj, lock>>

\* A tenant who has the client secret completes the payment.
Pay ==
    \E pi \in secrets \ (paid \cup voided) :
        /\ paid' = paid \cup {pi}
        /\ UNCHANGED <<rows, now, intents, voided, secrets, pc, obj, lock>>

\* Stripe, or the landlord from its dashboard, cancels an unpaid intent.
Void ==
    \E pi \in intents \ (paid \cup voided) :
        /\ pi[2] < MaxVersion
        /\ voided' = voided \cup {pi}
        /\ UNCHANGED <<rows, now, intents, paid, secrets, pc, obj, lock>>

-----------------------------------------------------------------------------
\* A request arrives.
HandlerBegins(t, b) ==
    \/ CreateBegin(t, b)
    \/ CreateOverlap(t, b)
    \/ ApproveBegin(t, b)
    \/ DeclineBegin(t, b)
    \/ CancelBegin(t, b)
    \/ PaymentInfoBegin(t, b)
    \/ FinalizeBegin(t, b)
    \/ WebhookBegin(t, b)

\* A handler that holds booking b goes on.
HandlerGoesOn(t, b) ==
    \/ CreateInsert(t, b)
    \/ CreateRefresh(t, b)
    \/ RecordIntent(t, b)
    \/ CreateFail(t, b)
    \/ ApproveLock(t, b)
    \/ ApproveBusy(t, b)
    \/ ApproveWrite(t, b)
    \/ DeclineWrite(t, b)
    \/ CancelWrite(t, b)
    \/ InspectCanceled(t, b)
    \/ ReplaceIntent(t, b)
    \/ InspectOpen(t, b)
    \/ Settle(t, b)
    \/ FinalizeUnpaid(t, b)
    \/ Confirm(t, b)
    \/ Refuse(t, b)

Next ==
    \/ \E t \in Handler, b \in Booking : HandlerBegins(t, b) \/ HandlerGoesOn(t, b)
    \/ \E t \in Sweeper : SweepBegin(t) \/ SweepCommit(t)
    \/ \E t \in Thread : Abort(t)
    \/ \E p \in Property : LockExpires(p)
    \/ Pay
    \/ Void
    \/ Tick

Spec == Init /\ [][Next]_vars

\* The sweeper loop of main.py never stops and outlives every exception
\* (WF); the database does not fail every one of its transactions (SF). The
\* clock runs. Nothing is assumed of requests, payments or Redis.
Fairness ==
    /\ WF_vars(Tick)
    /\ \A t \in Sweeper : WF_vars(SweepBegin(t)) /\ SF_vars(SweepCommit(t))

FairSpec == Spec /\ Fairness

-----------------------------------------------------------------------------
(* What holds however the handlers interleave.                             *)

\* Every row, session copy and lock holds a value its column or key can hold.
TypeOK ==
    /\ rows \in [Booking -> Row]
    /\ now \in Nat
    /\ intents \subseteq Intent
    /\ paid \subseteq Intent
    /\ voided \subseteq Intent
    /\ secrets \subseteq Intent
    /\ pc \in [Thread -> PC]
    /\ obj \in [Thread -> [Booking -> Row]]
    /\ lock \in [Property -> Thread \cup {"free", "orphan"}]

\* A booking that waits for payment has a deadline, whichever stale copies
\* were written back: the sweep skips rows without one, so such a hold would
\* never be released.
HoldHasDeadline ==
    \A b \in Booking :
        rows[b].status = "pending_payment" => rows[b].expires_at # None

\* Retries are safe ("we derive a stable key from booking/version to make
\* retries safe", payments.py:75): whatever crashes between Stripe and the row,
\* overlapping requests and approvals written twice, a booking gets a second
\* intent only after Stripe has canceled one of its intents.
RetriesShareIntent ==
    \A pi, qi \in intents :
        (pi[1] = qi[1] /\ pi # qi) => \E vi \in voided : vi[1] = pi[1]

\* No booking is confirmed unless its tenant has paid one of its intents,
\* although the check of the intent and the compare-and-set are steps apart.
ConfirmedIsPaid ==
    \A b \in Booking :
        rows[b].status = "confirmed" => \E pi \in paid : pi[1] = b

\* The landlord comes first: where approval is required, no intent is created
\* on the version the tenant's request was inserted with.
ApprovalPrecedesPayment ==
    \A pi \in intents : InitialStatus(pi[1]) = "requested" => pi[2] > 1

\* While Redis answers and critical sections end within the TTL, no two
\* handlers are in the critical section of one property.
LockExclusion ==
    ~LockFaults =>
        \A t, u \in Thread : \A b \in Loaded(t), c \in Loaded(u) :
            (/\ pc[t] \in Critical
             /\ pc[u] \in Critical
             /\ PropertyOf[b] = PropertyOf[c]) => t = u

\* A payment that arrives late never confirms a booking that has already been
\* cancelled, declined or released (the WHERE clause of the three updates).
ClosedStaysUnconfirmed ==
    [][\A b \in Booking :
        rows[b].status \in Closed => rows'[b].status # "confirmed"]_vars

\* A hold that runs out does not block the dates for ever: it is released,
\* paid, cancelled or extended.
HoldEnds(b) ==
    /\ rows[b].status = "pending_payment"
    /\ rows[b].expires_at < MaxTime

HoldsAreReleased == \A b \in Booking : HoldEnds(b) ~> ~HoldEnds(b)

-----------------------------------------------------------------------------
(* What holds as long as requests and sweeps do not overlap.               *)

\* No two bookings of a property with a night in common are both confirmed
\* (_has_overlap, _has_confirmed_overlap).
NoDoubleBooking ==
    \A b, c \in Booking :
        (b # c /\ ShareNight(c, b)) =>
            ~(rows[b].status = "confirmed" /\ rows[c].status = "confirmed")

\* A booking never has two intents the tenant could pay ("we derive a stable
\* key from booking/version to make retries safe").
OneOpenIntent ==
    \A b \in Booking : \A pi, qi \in intents \ voided :
        (pi[1] = b /\ qi[1] = b) => pi = qi

\* The intent the tenant has paid is the one the row points to; otherwise
\* the webhook answers "unknown_intent" and the payment confirms nothing.
PaidIntentOnFile == \A pi \in paid : rows[pi[1]].payment_intent_id = pi

\* Every change of a row is one decision of the handlers' workflow: its write
\* makes a transition the tests before it allow, from the status the row has
\* when it is written (bookings.py:205, :246, :288, the overlap queries, the
\* compare-and-sets of payments.py and the query of sweepers.py).
Lifecycle == INSTANCE BookingLifecycle
                 WITH status <- [b \in Booking |-> rows[b].status]

FollowsLifecycle == Lifecycle!Spec

-----------------------------------------------------------------------------
(* What comments, docstrings and messages of the code say, and overlapping *)
(* requests break.                                                         *)

\* sweep_expired_bookings "only processes rows with status ==
\* 'pending_payment'": it never takes a confirmed booking from a tenant who
\* has paid it.
SweepSparesConfirmed ==
    [][\A b \in Booking :
        rows[b].status = "confirmed" =>
            rows'[b].status # "cancelled_expired"]_vars

\* "Only requested bookings can be approved."
ApproveOnlyRequested ==
    [][\A b \in Booking :
        (/\ rows[b].status \notin {"absent", "pending_payment"}
         /\ rows'[b].status = "pending_payment") =>
            rows[b].status = "requested"]_vars
=============================================================================
