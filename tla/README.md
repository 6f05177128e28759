# StayCircle: specification and proofs

StayCircle-Backend is a FastAPI service for booking stays: landlords list properties, tenants request
and pay for stays through Stripe, and both chat in one room per property. It runs as several uvicorn
workers over one SQL database and one Redis (`src/Dockerfile`). This directory holds TLA+ modules for
the parts of it that run concurrently, the configurations under which TLC checks them, and theorems
that TLAPS proves for every value of the constants.

    tlasany M.tla                           parse
    tlc -workers 2 -config concurrent.cfg MCBookings
                                            check a configuration (see "Runs")
    tlapm BookingsProofs.tla                check proofs

## 1. The system

| Component | Source | State | Operations |
|---|---|---|---|
| Bookings | `routes/bookings.py`, `models.py` | table `bookings`: status, version, expires_at, payment_intent_id, cancel_reason | create, approve, decline, cancel, list |
| Payments | `payments.py` | PaymentIntents at Stripe, the intent column of the row | payment_info, finalize_payment, stripe_webhook |
| Expiry sweeper | `sweepers.py`, `main.py:18-37` | none of its own; a thread in every worker | one sweep every 60 s |
| Redis lock | `locks.py` | key `lock:booking:property:{id}` with a TTL | acquire, release with token |
| Rate limiter | `rate_limit.py` | key `rl:v1:ip:{ip}:{scope}` with a TTL | INCR, EXPIRE, TTL |
| Redis client | `redis_client.py` | process globals `_initialized`, `_client` | lazy initialisation |
| Chat | `routes/chat_ws.py` | rooms and token buckets of each worker, table `messages`, Pub/Sub channels | connect, receive, broadcast, publish, relay, disconnect |
| Message history | `routes/messages.py` | reads `messages` | page by since_id |
| Authentication | `routes/auth.py` | table `users` | signup, login, token checks |
| Properties | `routes/properties.py` | table `properties`, never updated | create, list |
| Sessions and pool | `db.py` | one session per request, at most 30 connections per worker | checkout, return |

**How they interact.** The handlers of bookings and payments are plain functions that FastAPI runs in a
thread pool (the webhook is a coroutine), so requests overlap inside a worker and between workers. They
share the database rows, Stripe's intents and the Redis keys. Create and approve take the property's
Redis lock; nothing else does. Payments confirm by a compare-and-set on version and status, written out in
each of the three handlers (`payments.py:185-199`, `:276-290`, `:404-418`); approve, decline, cancel and the sweeper write the columns of the
object they loaded earlier, by id only. A sweeper thread in each worker expires holds. Chat handlers are
coroutines of the worker's event loop; a thread per worker relays messages of other workers into it. Every
write request passes `get_redis` and the limiter, create and approve also the lock. Requests and chats take
their database connections from one pool per worker, the former from threads, the latter on the event loop.

**What is hard.** Handlers act on copies that are stale by the time they are written back. Calls to Stripe
and Redis lie between a check and the write it guards. Redis can fail at any call, and the code then goes
on without it. Processes die between two commits. Deliveries from Stripe repeat and come late. Broadcasts
overlap with each other and with joins and departures. Threads initialise the Redis client together without a
lock. Requests, threads, connections and the event loop can wait for each other in a circle.

**What makes each part correct.**

* Bookings: no night is granted twice; a booking is confirmed only when it has been paid and approved where
  needed; a closed booking is never confirmed; a hold has a deadline and ends.
* Payments: retries find the intent they created; at most one intent of a booking can be paid; a paid intent
  can be traced to its row.
* Lock: two critical sections of one property exclude each other while Redis answers and they end in time.
* Rate limiter: at most the limit per window; windows are not prolonged and do end.
* Chat: every member of the room hears each message; at most one duplicate; rooms hold the live connections.
* Token bucket: burst plus rate in every stretch of time; refused attempts do not starve a sender.
* Message history: a reader who goes on from the last id misses nothing and catches up.
* Redis client: the first calls settle on one client or none, and none only after an attempt that failed by
  itself, not by the interleaving.
* Pool: its limits hold, no ended session keeps a connection, and no wait lasts for ever.

The hazards, each at its line with the properties that cover it, are in `PROJECT.json`.

## 2. The modules

    StayDates           date ranges and the overlap clause
      BookingData       the immutable columns of bookings, statuses
        BookingLifecycle  abstract: each decision about a booking is one atomic step
        Bookings          detailed: handlers, sweeper, Stripe and lock, statement by statement
          BookingsInvariant  the inductive strengthening
          MCBookings         instances for TLC
    Requests            the requests a process has in progress
      RedisClient       get_redis and its globals
      RateLimit         the fixed-window counter of one key (MCRateLimit)
      RedisLock         redis_try_lock on one key
        WriteGate       the composition: what a write request passes (MCWriteGate)
    Chat                the room of one property over several workers (MCChat)
    TokenBucket         the limiter of one chat connection
    MessageHistory      the messages table and a reader by since_id
      ChatLog           the composition: from a frame to the history (MCChatLog)
    ConnPool            threads, connections and the event loop of one worker (MCConnPool)

    StayDatesProofs, BookingLifecycleProofs, BookingsProofs, SerialProofs, WriteGateProofs,
    ChatProofs, ChatLogProofs, ConnPoolProofs

### Bookings

`rows` is the committed table. Each thread has a program counter `pc` and `obj`, the ORM objects its session
holds, as they were read. A handler is cut at each database statement, each Stripe call and each lock
operation. `XBegin` is the arrival of a request that passes the first checks, up to the first statement
whose outcome another thread can change; the actions after it are named for what they do (`CreateInsert`,
`ApproveWrite`, `Settle`, `Confirm`). What a flush writes is a function of the committed row and the copy
(`Approved(row, copy)`, `Cancelled(row, copy)`, ...): SQLAlchemy emits only the columns that were assigned,
with values computed from the copy, under `WHERE id`. `Unchanged` is the WHERE clause of the
compare-and-set. The idempotency key `booking:{id}:v{version}` determines the intent Stripe returns, so an
intent *is* the pair `<<booking, version>>`.

`TryLock` has the three outcomes after which the body of the `with` runs: the key was set; Redis is off or
failed and the code goes on; the SET was done but its reply lost. `Done` is the normal return, with the
release that may fail. `Abort` is an exception or the death of the process at any point: the session is
rolled back and the key, if held, is left ("orphan") to `LockExpires`. An exception raised in the body of
the `with` makes the generator of `redis_try_lock` yield a second time (`locks.py:50-54`), contextlib
answers with a RuntimeError, and the client gets a 500 for what was to be a 409; hence `CreateOverlap`
leaves a key behind.

Why the grain is right:

* UPDATE and COMMIT are one step, because the row lock is held from one to the other and the writes are
  computed from the copy whichever of the two others see.
* Reads see the last commit. This is how SQLite, the default, behaves. Under MySQL's REPEATABLE READ a handler
  reads from the snapshot of its first query. For the load of the row the model covers that, because a handler
  may stand for as long as it likes between the load and what follows. It does not for the overlap query of a
  payment, which comes after the load and would miss a confirmation committed between the two: there the window
  of `double_booking` opens at the load of the row, and what is proved from `OneConfirmer` and
  `ApartByProperty` about overlaps is about databases that read the last commit.
* The read of a row and the Stripe creation keyed by it are one step: the key depends only on the copy, and
  creation is idempotent, so it commutes with the steps of others.
* Requests that are refused by their first checks change nothing: stuttering. Authorization, amounts, the
  wording of answers and `list_my_bookings` are left out.
* `SELECT ... FOR UPDATE` in create (`bookings.py:91-97`) is left out: it does nothing on SQLite, its
  failures are swallowed, and where it works it only orders creates that the lock already orders.
* The check of the hold repeated inside `payment_info` after retrieving the intent (`payments.py:179-180`)
  compares the same two local values; it is part of the first.
* `STRIPE_SECRET` unset (offline mode for development) is not modelled.

### BookingLifecycle

The workflow of the handlers' own tests as a state machine on statuses alone, each decision in one step: approve
and decline from `requested` (`bookings.py:205`, `:246`), cancel from anything that is not closed (`:288`), confirm
from `pending_payment` when no confirmed stay conflicts (the compare-and-sets and overlap queries of
`payments.py`), expire from `pending_payment` (`sweepers.py`). What it promises is that no write makes a transition
its handler would have refused, had the test been made at the write. It is *not* the diagram in the docstring of
`models.Booking` (`models.py:49-51`, "simplified"): see the observations. `Bookings` maps to it by
`status <- [b \in Booking |-> rows[b].status]`. The mapping is a refinement when requests at one
property do not overlap (run `serial`, theorem `ApartFollowsLifecycle`) and is not one when they do: the runs
`double_booking`, `sweep_confirmed` and `stale_approval` are three ways in which it fails, each against a sentence
of the code.

### RateLimit

INCR and EXPIRE are two calls. `Hit` decides a request that did not get 1; the one that did goes on to
`InitTTL`. `HitUnanswered` and `InitTTLFails` are lost calls: the code lets the request through. `count`
saturates above LIMIT + 1, where all values are alike.

### RedisClient, RedisLock and WriteGate

`RedisClient` cuts `get_redis` at every access to `_client` and `_initialized`: the two tests, the assignment of
the client before its ping, the ping of whatever client is published by then, the record of the attempt, and the
`return _client`, which reads the global again. The `try` covers the import and `from_url` as well as the ping
(`redis_client.py:50-62`): each may fail, the first two before anything is published. The history variable `broken`
says that one of them has failed by itself; a ping that finds None where another thread has withdrawn the client
fails too, but not by itself. `RedisLock` has SET NX PX, the body, and the token-checked
script, each of which may fail; `Raise` leaves the generator suspended at its second yield (`locks.py:50`), and
`Collect` is its `finally`, run when it is collected. `lease` is a history variable: what is left of the time a
caller was granted. `WriteGate` threads a request through both: `Ask` and `Asking` for a client, `Count` in the
limiter, `Lock` in the critical section; without a client it passes both. `Restart` is the death of the process:
its globals and its requests are gone, the counter and the key stay. One process is modelled, because the
requests of other processes meet these only in the two keys, where they act as its own do. `SettledForLife` says
nothing across a restart.

### Chat

`rooms` is `ConnectionManager.rooms[property_id]` of each worker. Coroutines interleave only where they
await, so receiving, validating and committing a frame and taking the copy of the room is one action
(`Receive`), and each `send_text` is one (`Send`). `Publish` reaches the workers subscribed at that moment, or
fails. A relayed message is a second broadcast, to the room as it is when it starts (`Relay`, `SendRelay`).
A message waiting in `channel` is in Redis's buffer, the thread or the queue of the loop; when the subscriber
loses its connection any suffix of it is lost. A client may go away at any time (`ClientLeaves`); its handler
leaves the room when it reads next. `WorkerDies` empties everything a process held. A frame refused for its
form, by the token bucket, or because the insert failed changes nothing here. When the commit succeeds and the
refresh after it fails, the message is stored and sent to nobody (`ReceiveUnreported`). Authorization is a precondition
of `Connect`. Messages are their ids.

### TokenBucket, MessageHistory and ChatLog

`TokenBucket` counts tokens in ticks of the clock, COST to a message, so that the float arithmetic of
`chat_ws.py:41-50` is exact; a refusal refills too and moves `ts`. `since` and `admitted` belong to an observer
who may start to count at any time, which turns a bound over every interval into an invariant. `MessageHistory`
gives a message its id and time at the INSERT and shows it at the COMMIT. `Page` is
the query of `list_messages`. The reader starts at 0, which stands for a first call without `since_id`, and goes
on from the last id of a page, as `tests/test_messages.py` does. `ChatLog` joins them: one clock, one connection
with its bucket, and others of whose buckets nothing is known.

`OneWriter` tells the databases of `db.py:14-24` apart. SQLite admits one writing transaction at a time, so ids
become visible in their order, and hands the id of a transaction that failed out again (the column has no
AUTOINCREMENT). On MySQL and Postgres inserts overlap and an id is used once. The run `history` is about the former,
`history_gap` about the latter.

### ConnPool

A request runs in hops: FastAPI hands each plain dependency and the endpoint to its thread pool separately,
while the session, and the connection it took in the first hop, stay with the request. One hop
(`get_current_user`) before the endpoint stands for all such dependencies. A commit returns the connection and
the refresh after it takes one anew; a second commit meets the same wait. A chat calls the database inside the
event loop, so `loop` is held from its query to its next `await`; it keeps its connection between frames. A chat
that is turned away keeps it while `websocket.close` is awaited, with the loop free (`TurnAway`, `EndRefused`;
`chat_ws.py:239-250`). The
webhook is a shorter coroutine of the same kind. The sweeper is one more holder that needs neither the loop
nor a thread of the pool. After `pool_timeout` (30 s, SQLAlchemy's default) a wait ends with an error.

## 3. Runs

| Run | Instance | Shows |
|---|---|---|
| `concurrent` | 1 booking, at a property that requires approval or at one that does not; 2 handlers, sweeper, Redis that answers (`LockFaults = FALSE`), clock to 2, versions to 3, fair | `TypeOK`, `HoldHasDeadline`, `RetriesShareIntent`, `ConfirmedIsPaid`, `ApprovalPrecedesPayment`, `LockExclusion`, `ClosedStaysUnconfirmed`, `HoldsAreReleased` |
| `serial` | 2 overlapping bookings, at a property that requires approval or at one that does not; one thread for requests and sweeps, Redis that fails | `NoDoubleBooking`, `OneOpenIntent`, `PaidIntentOnFile`, `FollowsLifecycle` (refinement of the workflow) |
| `rate_limit` | `WriteGate`: 3 requests, 1 admitted per window of 2 ticks, a lock of 1 tick | `GateTypeOK`, `WindowCap`, `WindowNotProlonged`, `WindowEnds`; `LeaseExclusion`, `KeyEnds`; `NoneMeansBroken`, `SettledForLife` |
| `chat` | 2 connections on one worker, 1 on another, 1 message, fair | `TypeOK`, `RoomsAreLive`, `AtMostTwice`, `RecipientsKept`, `RelayKept`, `EveryoneHears`, `RelayDelivers` |
| `history` | SQLite; 2 senders, 3 ids, pages of 2, a bucket of 2 messages of 2 ticks, clock to 4, fair reader | `TypeOK`, `BurstBound`, `PatienceAdmits`, `CatchesUp` |
| `pool` | 3 requests, 2 chats, 2 threads, 2 connections | `TypeOK`, `NothingLeaks`, `EveryRequestEnds`, `LoopResumes` |
| `double_booking` | 2 overlapping bookings, 2 handlers | violates `NoDoubleBooking` |
| `sweep_confirmed` | 1 booking, handler and sweeper | violates `SweepSparesConfirmed` |
| `stale_approval` | 1 booking with approval, 2 handlers | violates `ApproveOnlyRequested` |
| `two_intents` | 1 booking, 2 handlers | violates `OneOpenIntent` |
| `rate_stuck` | 2 requests | violates `CounterExpires` |
| `history_gap` | the instance of `history` on MySQL or Postgres | violates `NoSkip` |

The six violations are disagreements between the code and what it says of itself:

* **double_booking.** The overlap query and the compare-and-set of a payment are two statements, and the
  latter names only its own row. Two payments settle together; each sees no confirmed overlap; both confirm.
  The lock is not taken by payments. (`payments.py:398`)
* **sweep_confirmed.** The sweeper loads an expired hold, a payment that passed its check in time confirms
  it, the sweeper writes `cancelled_expired` by id. (`sweepers.py:51`)
* **stale_approval.** `approve_booking` checks the status before the lock and not again; a request declined
  or cancelled in between is revived. (`bookings.py:216`)
* **two_intents.** Storing an intent writes the row without comparing or counting the version, so a late
  write can undo a replacement and the next replacement takes another key. (`payments.py:139`)
* **rate_stuck.** Only the request that got 1 sets the expiry; if it fails, the counter stays for ever and past
  the limit refuses the client for ever. (`rate_limit.py:95`)
* **history_gap.** Two messages are inserted; the one with the later id is committed and read; the other is
  committed behind the cursor, and no page by `since_id` shows it, although "since_id paginates strictly forward"
  (`tests/test_messages.py:60`, whose messages are all committed before the first page is read). It needs inserts
  that overlap, so it does not happen on SQLite (`NothingSkipped`). (`messages.py:57`)

Further observations from building the model, without a run. The "simplified" diagram of `models.py:49-51` and the
handlers disagree: `cancel_booking` takes requests and confirmed bookings to `cancelled` (`bookings.py:288`), neither
of which is drawn, and `decline_booking` declines requests only (`:246`), while the diagram has `declined` under
`pending_payment`. Storing an intent id does not count a version
(`models.py:68` lists what does), so a compare-and-set may confirm a row whose intent has changed since;
`_has_confirmed_overlap` does not leave out the booking itself, so `finalize_payment` racing the webhook can
answer 409 for a booking that is confirmed (`payments.py:226`, `:271`); a create that answers 500 may have
committed its booking (`bookings.py:122`, `:154`); a payment that comes after the hold is acknowledged and
neither confirmed nor refunded (`payments.py:396`); the Redis client's `socket_timeout` of 0.25 s applies to the
subscriber's `listen()` too, so a quiet room makes each worker drop its subscription and sleep before it returns
(`redis_client.py:56`, `chat_ws.py:153-156`), and what is published in between is not relayed.

From the modules of the Redis client, the history and the pool: `get_redis` promises that after a failed attempt
"subsequent calls also return None" (`redis_client.py:36`), which two threads that meet in the first calls can
break, one publishing a client after the other has recorded its failure; conversely a failed ping withdraws a
good client another thread has made, for the life of the process (`:68`). A process without a client passes the
limiter and the lock, while others go on counting and locking. A clock that is set back breaks the order of pages too, as pages are
cut by `created_at` and continued by id. A client that reconnects gets a full bucket. When the refresh after a
commit fails, the sender is told "Failed to persist message" of one that is stored (`chat_ws.py:296-300`).
While one chat waits for a connection, the whole worker stands still, up to 30 s (`chat_ws.py:231`, `:295`).

**Bounds.** `MaxTime` bounds the clock: with HOLD = 1 a hold can run out, be found by the sweep, and an
approved one start anew. `MaxVersion` bounds the intents Stripe cancels, hence replacements; two replacements
are enough for a stale handler to meet both an older and a newer intent. Two bookings with one night in common
are the smallest conflict; what distinguishes dates is proved for all integers (`OverlapMeansSharedNight`).
No run has stays that meet without a night in common; for that edge there is the theorem only.
Two handlers and the sweeper are the smallest set in which each pair of stale writers meets. In `concurrent` one
booking suffices because its properties speak of one booking each, and the other booking's only influence,
an overlap, leads to refusals; the create of the booking and its approvals contend for the lock (`LockExclusion` for
several bookings of a property is the theorem `CriticalSectionsExclude`). The constraint `OneProperty` of `concurrent`
and `serial` has each behaviour look at the bookings of one property, with approval or without. It restricts only
which bookings are created, of which no fairness is assumed, so liveness is not affected; bookings of different
properties meet only in the sweep, which the theorems cover. Every safety property of `concurrent` is also proved
without bounds. Stripe remembers an idempotency key for 24 hours; a hold lasts minutes, so keys do not expire in the
model. `MaxMessage` bounds the messages of a chat; one message is
enough for a broadcast and its relay to overlap with each other, with joins, departures and deaths, and the
theorems cover any number. Three connections give a room with a neighbour and a remote member. `rate_limit` needs
three requests: one that overstays its lock, its successor, and one let in by a wrong release; a window of two
ticks is the shortest that can be prolonged. `history`: with three ids and pages of two, a page is cut while a
message is in hand, and the reader goes on from it; `MaxId` and `MaxTime` end the run. `pool`: with two
connections and two threads, a chat and a request between hops can hold both connections while two requests hold
both threads, which is the circle. No run uses symmetry.
`CHECK_DEADLOCK FALSE` is set where the bounded clock and the finite number of primary keys, requests or
connections make an end state legitimate; `rate_limit` is checked for deadlock.

**Fairness.** `concurrent`: the loop of `main.py:18-37` catches every exception and sleeps in between, so a sweep
that can begin begins (WF); a transaction may fail but not every one (SF on the commit, because a failed sweep
starts again). The clock runs. Requests, payments and Redis are not assumed fair. `rate_limit`: time passes at
Redis. `chat`: the event loop resumes each coroutine that can run, and a send to a client that has
stopped reading ends when uvicorn's ping times out, which the model sees as the client's departure; clients,
subscriptions and Redis are not assumed to do anything. `history`: the reader polls (WF); senders need not send,
nor transactions commit. `pool`: threads and coroutines that can run do (WF); the waiters for a thread and the
tasks of the loop are queues (anyio's limiter and asyncio are first come, first served), so one that can be
served again and again is served (SF); a wait for a connection ends, with one or with the timeout (WF on the two
together, never on getting one). Clients need not send or leave, and the close of a refused chat's socket need not end.

## 4. Proofs

The assumptions are the named ASSUMEs on constants (`BookingDataAssumption`: rows have a property and valid
dates; `BookingsAssumption`: sentinels are distinct, HOLD is positive; `RateLimitAssumption`, `RedisLockAssumption`:
the window and the TTL are positive; `ChatAssumption`: every connection has a worker; `TokenBucketAssumption`,
`MessageHistoryAssumption`, `ConnPoolAssumption`: sizes are positive, the sets of the pool finite). Everything
holds for any sets of threads, bookings, requests and connections and any bounds.

* `StayDatesProofs`: the overlap clause is true exactly of stays that share a night.
* `BookingsProofs`: the safety properties of `concurrent`, for `Spec`. They speak of committed rows,
  and none is inductive alone: a stale copy can be written back. `SafetyInv` therefore requires of every copy in
  every session what it requires of a row (`RecordOK`), which is monotone in the intents created and paid, so
  that age does not spoil a copy; and of every place in the code what the handler has established by then
  (`PlaceOK`): at "confirm" the copy's intent is paid, at "record_pi" the intent exists, and so on. The step lemma
  splits by actions into what a step does to a row (`RowStep`), to a session (`SessionStep`) and to the intents
  (`IntentStep`). `RetriesFindTheirIntent` needs `KeyInv`: as long as Stripe has canceled no intent of a booking, every
  row and every copy from which a key can be derived carries one version, 1 or, after an approval, 2
  (`VersionOK`), although approvals, intents and holds are written from stale copies; an approval is computed from a
  request and a replacement from a canceled intent (`CauseOK`). `LockInv` says that the thread inside a critical section owns the key; exclusion follows because
  a key has one owner.
* `SerialProofs`: how far the code is from what it promises. The properties of `serial` are false for requests
  that overlap (the runs that expect a violation), so the theorems have a condition on the *behaviour*, defined in
  `BookingsInvariant`, for any number of threads. It is not an assumption: nothing in the code enforces it, and a
  theorem reads "nothing goes wrong before the condition is broken".
  * `OneConfirmer`: of the payments of one property, at most one is past its overlap check. Then no night is
    granted twice (`OneConfirmerGrantsOnce`), whatever else overlaps, stale writes and expired locks included. A
    payment that held the property's lock from the overlap query to the compare-and-set would establish it while
    the lock lasts. The invariant is `FreeToConfirm`: at "confirm", no confirmed stay conflicts.
  * `ApartByBooking`: no two threads have the same booking in hand. Then a copy is current (`CurrentInv`), a
    booking has never two open intents (`ApartOneOpenIntent`), every payment is on file (`ApartPaidOnFile`), and the two
    sentences of the code hold that `sweep_confirmed` and `stale_approval` refute. `OneOpenIntent` is not inductive: between
    the call that creates an intent and the commit that records it the row names another, or none. `IntentInv` names, in
    each state of the row, the only intent of the booking that may be open (`OnlyOpen`): the one on file or, where
    there is none or it is canceled, the one with the key a handler would use next, which a handler that died may
    have left behind. Before a booking waits for payment it has no intent, and a secret that went out is that of
    the intent on file as long as that is open (`IntentOK`); only such an intent is paid (`StripeOK`).
  * `ApartByProperty`: no two threads work at the same property. It implies the two others, and each write is then
    a move of the workflow (`ApartFollowsLifecycle`, step by step: `GoesOnFollows` for handlers, `SweepFollows`).
  * One thread satisfies all three; `SerialIsOrderly` states what the run `serial` checks without a condition.
* `BookingLifecycleProofs`: the workflow never grants a night twice.
* `WriteGateProofs`, for the composed gate. `LimitInv` ties what is admitted to the count (`admitted <= count`)
  and to the single request that may still set the expiry; the cap and the fixed window follow. Each step of the
  gate is to the limiter one of its own, a restart or a stutter (`LimiterSteps`), likewise for the client
  (`ClientSteps`). `ClientInv` says that whoever is past its assignment of the client sees one, or an attempt has
  failed by itself. `LeaseInv` says that a caller with time left owns the key, and that the key has exactly as much left.
  `KeyIsTimed`: a key exists exactly as long as it has time left, which no caller prolongs. With that, `KeyEnds`
  needs only that time passes.
* `ChatProofs`: `ChatInv` counts, for every message and connection, the ways by which it can still be sent:
  own worker's broadcast and relay, each a place the message passes once (a worker's channel holds it once, and
  it is in no channel while its handler still broadcasts). What has been sent plus what can still be sent never
  exceeds the bound of `AtMostTwice`. `BroadcastForgetsNobody` and `RelayForgetsNobody` use the same invariant, and
  `AcceptedInv` for the death of a worker: a step that takes away something that could still be sent has sent it,
  or the recipient has left, or the subscriber has lost its connection. They are the safety halves of
  `EveryoneHears` and `RelayDelivers`; the rest is that the event loop goes on. Nothing is assumed but the types of
  the constants.
* `ChatLogProofs`: `BucketInv` bounds what the observer has counted plus what the bucket would hold now by a full
  bucket and the time elapsed; `PatienceAdmits` needs that, without an admission, the bucket holds at least the
  time elapsed or is full. `HistoryInv`, for one writer (SQLite): the order of ids is the order of times, all ids
  in the table precede the one in hand, and the reader has seen the table up to its cursor. `ReadersAdvance`: while
  a message is unread, the next page has a first and a last message (both found by well-founded induction on ids,
  `LeastNumber`), and reading it moves the cursor on; `CatchesUp` adds that the client polls.
* `ConnPoolProofs`: `TypeOK` and `NothingLeaks` are inductive together. `PlacesStep` is about places, `HoldersStep` and
  `ThreadsStep` about the two limits, with the library's theorems on cardinality.

Only model-checked: the liveness properties (`HoldsAreReleased`, `WindowEnds`, `KeyEnds`, `EveryoneHears`,
`RelayDelivers`, `CatchesUp`, `EveryRequestEnds`, `LoopResumes`), because the prover does not reason about fairness and
ENABLED. Every invariant and every action property of the runs that pass is stated by a theorem.

## 5. What is not modelled, and why

The plan was followed in this order: the booking workflow with payments and sweeper, its abstract specification
and theorems; the rate limiter; the chat room; the pool; token bucket and history; the Redis client and the lock,
composed with the limiter.

* Signup (`auth.py:130-154`): the check for an existing email and the insert are two statements, but which of two
  inserts wins is decided by the unique index in one step of the database; what remains, a 500 instead of a 409,
  is the status code of one handler. Tokens and roles are stateless checks.
* Properties: two reads and one insert that shares no state with others; nothing updates a property.
* Schemas and migrations (`schemas.py`, `app/alembic`): data without behaviour at run time.
* Stripe's offline mode for development, amounts and currencies, the verification of webhook signatures.
* `retry_after` and all other wording of answers, logging, CORS and the health check.
* How long a blocked event loop or the gap in a subscription lasts: real time.
* `get-pip.py`: a vendored installer, most of the lines of the repository and no part of the service.

Next: the safety halves of `EveryRequestEnds` and `HoldsAreReleased` (that someone in the pool can always go on; that
only a payment, an extension or an end takes a hold from the sweep), and the lock of `Bookings` as an abstraction of
`RedisLock`, which needs one clock for both.
