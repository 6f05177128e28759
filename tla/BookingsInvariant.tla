-------------------------- MODULE BookingsInvariant --------------------------
(***************************************************************************)
(* The strengthening that makes the safety properties of Bookings          *)
(* inductive. The properties speak of the committed rows; a stale copy     *)
(* written back can break them only if the copy is bad, or if the thread   *)
(* has gone on without what it was to check. So the same is required of    *)
(* every copy in a session, and of every place in the code.                *)
(***************************************************************************)
EXTENDS Bookings

\* What is known of a row of booking b, committed or copied. It stays true as
\* intents are created and paid.
RecordOK(r, b, created, settled) ==
    /\ r.payment_intent_id # None =>
         r.payment_intent_id \in created /\ r.payment_intent_id[1] = b
    /\ r.status = "pending_payment" => r.expires_at # None
    /\ r.status = "confirmed" => \E pi \in settled : pi[1] = b
    /\ r.status # "absent" => r.version >= 1
    /\ (/\ r.status \notin {"absent", "requested"}
        /\ InitialStatus(b) = "requested") => r.version >= 2

\* What thread t has established where it stands.
PlaceOK(t) ==
    /\ pc[t] = "idle" => Loaded(t) = {}
    /\ pc[t] # "sweep" => \A b, c \in Loaded(t) : b = c
    /\ \A b \in Loaded(t) :
         /\ pc[t] = "insert" => obj[t][b].status = InitialStatus(b)
         /\ pc[t] \in {"create_record", "record_pi"} =>
              FirstKey(b, obj[t][b]) \in intents
         /\ pc[t] = "replace_pi" => NextKey(b, obj[t][b]) \in intents
         /\ pc[t] = "inspect" => obj[t][b].payment_intent_id # None
         /\ pc[t] = "confirm" => obj[t][b].payment_intent_id \in paid

SafetyInv ==
    /\ TypeOK
    /\ \A b \in Booking : RecordOK(rows[b], b, intents, paid)
    /\ \A t \in Thread, b \in Booking : RecordOK(obj[t][b], b, intents, paid)
    /\ \A t \in Thread : PlaceOK(t)
    /\ ApprovalPrecedesPayment

\* The lock: the thread inside the critical section has the key.
LockInv ==
    ~LockFaults =>
        \A t \in Thread : \A b \in Loaded(t) :
            pc[t] \in Critical => lock[PropertyOf[b]] = t

\* The key: Stripe has canceled no intent of booking b.
NeverVoided(b, canceled) == \A vi \in canceled : vi[1] # b

\* The version on which booking b waits for payment: approval takes one.
PayVersion(b) == IF InitialStatus(b) = "requested" THEN 2 ELSE 1

\* While no intent of b is canceled, a row of b, committed or copied, that can
\* still be paid is on the way to that version, so one key serves all retries.
VersionOK(r, b, canceled) ==
    NeverVoided(b, canceled) =>
        /\ r.status = "requested" => r.version + 1 = PayVersion(b)
        /\ r.status = "pending_payment" => r.version = PayVersion(b)

\* An approval is computed from a request, a replacement from a canceled intent.
CauseOK(t) ==
    \A b \in Loaded(t) :
        /\ pc[t] \in {"approve_lock", "approve_write"} =>
             obj[t][b].status = "requested"
        /\ pc[t] = "replace_pi" => obj[t][b].payment_intent_id \in voided

KeyInv ==
    /\ \A b \in Booking : VersionOK(rows[b], b, voided)
    /\ \A t \in Thread, b \in Booking : VersionOK(obj[t][b], b, voided)
    /\ \A t \in Thread : CauseOK(t)
    /\ \A pi \in intents :
         NeverVoided(pi[1], voided) => pi[2] = PayVersion(pi[1])

-----------------------------------------------------------------------------
(* What is so while the work on a booking, or at a property, is done one   *)
(* piece at a time.                                                        *)

\* No two threads have the same booking in hand.
ApartByBooking ==
    \A t, u \in Thread : \A b \in Loaded(t) : b \in Loaded(u) => t = u

\* No two threads have bookings of the same property in hand.
ApartByProperty ==
    \A t, u \in Thread : \A b \in Loaded(t), c \in Loaded(u) :
        PropertyOf[b] = PropertyOf[c] => t = u

\* No two payments at one property are past the overlap check and before the
\* UPDATE that confirms.
OneConfirmer ==
    \A t, u \in Thread : \A b \in Loaded(t), c \in Loaded(u) :
        (/\ pc[t] = "confirm"
         /\ pc[u] = "confirm"
         /\ PropertyOf[b] = PropertyOf[c]) => t = u

\* What thread t has in hand for booking b is still so.
CurrentFor(t, b) ==
    /\ pc[t] = "insert" => rows[b].status = "absent"
    /\ pc[t] \notin {"insert", "create_failed"} => obj[t][b] = rows[b]
    /\ pc[t] \in {"approve_lock", "approve_write", "decline"} =>
         obj[t][b].status = "requested"
    /\ pc[t] = "cancel" => obj[t][b].status \notin Closed
    /\ pc[t] \in {"create_record", "record_pi", "inspect", "replace_pi", "sweep"} =>
         obj[t][b].status = "pending_payment"
    /\ pc[t] \in {"create_record", "record_pi"} =>
         obj[t][b].payment_intent_id = None
    /\ pc[t] = "replace_pi" => obj[t][b].payment_intent_id \in voided

CurrentInv == \A t \in Thread : \A b \in Loaded(t) : CurrentFor(t, b)

\* The dates thread t has found free for booking b still are: when it is about
\* to confirm, and when it is about to insert.
FreeToConfirm ==
    \A t \in Thread : \A b \in Loaded(t) :
        pc[t] = "confirm" => ~HasConfirmedOverlap(b)

FreeToInsert ==
    \A t \in Thread : \A b \in Loaded(t) :
        pc[t] = "insert" => ~HasConfirmedOverlap(b)

\* The only intent of a booking waiting for payment that may be open: the one
\* the row points to or, when there is none or it is canceled, the one with
\* the key a handler would use next. A handler that died between creating an
\* intent and recording it has left it open at Stripe: the same key finds it.
OnlyOpen(b) ==
    IF rows[b].payment_intent_id = None THEN FirstKey(b, rows[b])
    ELSE IF rows[b].payment_intent_id \in voided THEN NextKey(b, rows[b])
    ELSE rows[b].payment_intent_id

IntentOK(b) ==
    /\ rows[b].status \in {"absent", "requested"} =>
         \A pi \in intents : pi[1] # b
    /\ rows[b].status = "pending_payment" =>
         \A pi \in intents \ voided : pi[1] = b => pi = OnlyOpen(b)
    /\ \A pi, qi \in intents \ voided : (pi[1] = b /\ qi[1] = b) => pi = qi
    /\ \A pi \in secrets \ voided :
         pi[1] = b => rows[b].payment_intent_id = pi

\* Only an intent whose secret went out is paid, and Stripe cancels no intent
\* that is paid.
StripeOK ==
    /\ secrets \subseteq intents
    /\ paid \subseteq secrets \ voided

IntentInv ==
    /\ StripeOK
    /\ \A b \in Booking : IntentOK(b)
=============================================================================
