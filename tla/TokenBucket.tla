---------------------------- MODULE TokenBucket ----------------------------
(***************************************************************************)
(* The limiter of one chat connection (TokenBucket in chat_ws.py): tokens  *)
(* that grow with time up to a capacity, and one of which each message     *)
(* takes. Time and tokens are counted in ticks: a message costs COST of    *)
(* them, so the rate is one message in COST ticks, however fine the clock. *)
(* A bucket is full when its connection is accepted and would be full then *)
(* had it existed before, so it exists from the start.                     *)
(***************************************************************************)
EXTENDS Naturals

CONSTANTS
    COST,      \* ticks a token takes to grow
    CAPACITY,  \* messages a full bucket lets through at once
    MaxTime    \* bound on the clock

VARIABLES
    now,       \* the clock
    tokens,    \* TokenBucket.tokens, in ticks
    ts,        \* TokenBucket.ts
    since,     \* history: when an observer began to count
    admitted   \* history: messages let through since then

bucket == <<tokens, ts, since, admitted>>

ASSUME TokenBucketAssumption ==
    COST \in Nat \ {0} /\ CAPACITY \in Nat \ {0} /\ MaxTime \in Nat

FULL == CAPACITY * COST

BucketInit ==
    /\ now = 0
    /\ tokens = FULL
    /\ ts = 0
    /\ since = 0
    /\ admitted = 0

\* Mutant: the refill forgets the capacity.
RefilledUncapped == tokens + (now - ts)

\* What consume finds after its refill.
Refilled == LET grown == tokens + (now - ts) IN IF grown > FULL THEN FULL ELSE grown

Admit ==
    /\ Refilled >= COST
    /\ tokens' = Refilled - COST
    /\ ts' = now
    /\ admitted' = admitted + 1
    /\ UNCHANGED <<now, since>>

\* Mutant: a refusal moves the clock of the bucket and forgets its refill.
RefuseForgetting ==
    /\ Refilled < COST
    /\ ts' = now
    /\ UNCHANGED <<now, tokens, since, admitted>>

\* A refusal refills too.
Refuse ==
    /\ Refilled < COST
    /\ tokens' = Refilled
    /\ ts' = now
    /\ UNCHANGED <<now, since, admitted>>

Tick ==
    /\ now < MaxTime
    /\ now' = now + 1
    /\ UNCHANGED bucket

\* An observer may begin to count at any time.
Observe ==
    /\ since' = now
    /\ admitted' = 0
    /\ UNCHANGED <<now, tokens, ts>>

-----------------------------------------------------------------------------
BucketTypeOK ==
    /\ now \in 0 .. MaxTime
    /\ tokens \in 0 .. FULL
    /\ ts \in 0 .. now
    /\ since \in 0 .. now
    /\ admitted \in Nat

\* In any stretch of time a connection gets through at most a burst and what
\* the rate allows for the stretch, however it spreads its attempts: the
\* "1 msg/s with burst capacity of 5" of property_chat.
BurstBound == admitted * COST <= FULL + (now - since)

\* A client none of whose messages was let through for as long as a token takes
\* to grow is let through now, whatever it tried in between: refused attempts
\* do not keep the bucket empty.
PatienceAdmits == (admitted = 0 /\ now - since >= COST) => Refilled >= COST
=============================================================================
