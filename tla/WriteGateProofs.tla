-------------------------- MODULE WriteGateProofs --------------------------
(***************************************************************************)
(* The client settles, the limiter caps a window and lets it end, and the  *)
(* lock excludes and its key always has an end: for any limit, any window, *)
(* any TTL and any number of requests at once.                             *)
(***************************************************************************)
EXTENDS WriteGate, TLAPS

\* Each variable has its type, and a request is in one place at a time.
LEMMA TypeStep == GateTypeOK /\ [GateNext]_gateVars => GateTypeOK'
  <1> SUFFICES ASSUME GateTypeOK, [GateNext]_gateVars PROVE GateTypeOK'
    OBVIOUS
  <1> USE RateLimitAssumption, RedisLockAssumption
  <1> USE DEF GateTypeOK, ClientTypeOK, TypeOK, LockTypeOK
  <1>1. ASSUME NEW r \in Request, Ask(r) PROVE GateTypeOK'
    BY <1>1 DEF Ask, Call, At, Goes, globals, vars, lockVars
  <1>2. ASSUME NEW r \in Request, Asking(r) PROVE GateTypeOK'
    <2>1. CASE Working(r) /\ UNCHANGED step
      BY <1>2, <2>1 DEF Asking, Working, Recheck, Connect, Ping, Succeed, Withdraw, At,
                        globals, vars, lockVars
    <2>2. CASE Found(r) /\ (Goes(r, "limiter", "counting") \/ Goes(r, "locker", "locking"))
      BY <1>2, <2>2 DEF Asking, Found, Return, At, Goes, globals, vars, lockVars
    <2>3. CASE FoundNone(r) /\ (Goes(r, "limiter", "limited") \/ Goes(r, "locker", "idle"))
      BY <1>2, <2>3 DEF Asking, FoundNone, FindNone, Return, GiveUp, At, Goes, globals, vars, lockVars
    <2> QED
      BY <1>2, <2>1, <2>2, <2>3 DEF Asking
  <1>3. ASSUME NEW r \in Request, Count(r) PROVE GateTypeOK'
    <2>1. CASE Hit(r)
      BY <1>3, <2>1 DEF Count, Hit, Decide, Current, Goes, clientVars, globals, lockVars,
                        InitTTL, HitUnanswered, InitTTLFails, vars
    <2>2. CASE ~Hit(r)
      BY <1>3, <2>2 DEF Count, Decide, Current, Goes, clientVars, globals, lockVars,
                        InitTTL, HitUnanswered, InitTTLFails, vars
    <2> QED
      BY <2>1, <2>2
  <1>4. ASSUME NEW r \in Request, Skip(r) PROVE GateTypeOK'
    BY <1>4 DEF Skip, Goes, clientVars, globals, vars, lockVars
  <1>5. ASSUME NEW r \in Request, Lock(r) PROVE GateTypeOK'
    BY <1>5 DEF Lock, Acquire, AcquireFails, Refused, Leave, Raise, Collect, Delete, Enters, Exits,
                Goes, clientVars, globals, vars, lockVars
  <1>6. CASE GateTick
    BY <1>6 DEF GateTick, LockTick, Tick, clientVars, globals, vars
  <1>7. CASE Restart
    <2>1. ClientTypeOK'
      BY <1>7 DEF Restart
    <2>2. TypeOK' /\ LockTypeOK'
      BY <1>7 DEF Restart
    <2> QED
      BY <1>7, <2>1, <2>2 DEF Restart
  <1>8. CASE UNCHANGED gateVars
    BY <1>8 DEF gateVars, clientVars, globals, vars, lockVars
  <1> QED
    BY <1>1, <1>2, <1>3, <1>4, <1>5, <1>6, <1>7, <1>8 DEF GateNext

\* Type correctness of the gate.
THEOREM TypeCorrect == GateSpec => []GateTypeOK
  <1>1. GateInit => GateTypeOK
    <2>1. GateInit => ClientTypeOK
      BY DEF GateInit, ClientInit, ClientTypeOK
    <2>2. GateInit => TypeOK /\ LockTypeOK
      BY RateLimitAssumption, RedisLockAssumption DEF GateInit, Init, LockInit, TypeOK, LockTypeOK
    <2> QED
      BY <2>1, <2>2 DEF GateInit, ClientInit, Init, LockInit, GateTypeOK
  <1> QED
    BY <1>1, TypeStep, PTL DEF GateSpec

-----------------------------------------------------------------------------
\* A client is withdrawn only after an attempt has failed by itself: a thread
\* past its assignment that sees none was preceded by such a failure.
ClientInv ==
    /\ NoneMeansBroken
    /\ \A r \in Request :
         /\ at[r] \in {"failed", "withdrawn"} => broken
         /\ at[r] \in {"ping", "succeeded", "return"} => client \/ broken

\* What the steps of a gate are to the client: a step of get_redis, a start
\* of the process, or nothing.
LEMMA ClientSteps ==
    ASSUME [GateNext]_gateVars
    PROVE  \/ \E r \in Request : Call(r) \/ Working(r) \/ Found(r) \/ FoundNone(r)
           \/ Restart
           \/ UNCHANGED clientVars
  BY DEF GateNext, Ask, Asking, Count, Skip, Lock, GateTick, gateVars

\* Every step keeps ClientInv.
LEMMA ClientInvStep == GateTypeOK /\ ClientInv /\ [GateNext]_gateVars => ClientInv'
  <1> SUFFICES ASSUME GateTypeOK, ClientInv, [GateNext]_gateVars PROVE ClientInv'
    OBVIOUS
  <1> USE DEF GateTypeOK, ClientTypeOK, ClientInv, NoneMeansBroken
  <1>1. ASSUME NEW r \in Request, Call(r) PROVE ClientInv'
    BY <1>1 DEF Call, At, globals
  <1>2. ASSUME NEW r \in Request, Working(r) PROVE ClientInv'
    BY <1>2 DEF Working, Recheck, Connect, Ping, Succeed, Withdraw, At, globals
  <1>3. ASSUME NEW r \in Request, Found(r) \/ FoundNone(r) PROVE ClientInv'
    BY <1>3 DEF Found, FoundNone, FindNone, Return, GiveUp, At, globals
  <1>4. CASE Restart
    BY <1>4 DEF Restart
  <1>5. CASE UNCHANGED clientVars
    BY <1>5 DEF clientVars, globals
  <1> QED
    BY <1>1, <1>2, <1>3, <1>4, <1>5, ClientSteps

\* A process has given up on Redis only if the import, from_url or the ping of a
\* client has failed: however many threads meet in the first calls, none takes
\* another's unfinished attempt for a failed one, or fails on its account alone.
THEOREM NoneOnlyIfBroken == GateSpec => []NoneMeansBroken
  <1>1. GateInit => ClientInv
    BY DEF GateInit, ClientInit, ClientInv, NoneMeansBroken
  <1>2. ClientInv => NoneMeansBroken
    BY DEF ClientInv
  <1> QED
    BY <1>1, <1>2, ClientInvStep, TypeCorrect, PTL DEF GateSpec

\* After the first calls the process keeps its client, or none, until it is
\* started anew.
THEOREM ClientSettles == GateSpec => SettledForLife
  <1>1. GateTypeOK /\ [GateNext]_gateVars
           => [Settled /\ initialized' => Settled' /\ UNCHANGED client]_clientVars
    <2> SUFFICES ASSUME GateTypeOK, [GateNext]_gateVars, Settled, initialized'
                 PROVE  (Settled' /\ UNCHANGED client) \/ UNCHANGED clientVars
      OBVIOUS
    <2> USE DEF GateTypeOK, ClientTypeOK, Settled
    <2>1. ASSUME NEW r \in Request, Call(r) PROVE Settled' /\ UNCHANGED client
      BY <2>1 DEF Call, At, globals
    <2>2. ASSUME NEW r \in Request, Working(r) PROVE FALSE
      BY <2>2 DEF Working, Recheck, Connect, Ping, Succeed, Withdraw, At
    <2>3. ASSUME NEW r \in Request, Found(r) \/ FoundNone(r) PROVE Settled' /\ UNCHANGED client
      BY <2>3 DEF Found, FoundNone, FindNone, Return, GiveUp, At, globals
    <2>4. CASE Restart
      BY <2>4 DEF Restart
    <2> QED
      BY <2>1, <2>2, <2>3, <2>4, ClientSteps
  <1> QED
    BY <1>1, TypeCorrect, PTL DEF GateSpec, SettledForLife

-----------------------------------------------------------------------------
\* Only the request that created the counter sets its expiry, and until then
\* the counter has none; what is admitted has been counted.
LimitInv ==
    /\ TypeOK
    /\ count = 0 => ttl = 0 /\ admitted = 0
    /\ \A r \in Request : pc[r] = "expire" =>
         /\ ttl = 0
         /\ admitted < count
         /\ LIMIT > 0 => admitted < LIMIT
         /\ \A q \in Request : pc[q] = "expire" => q = r
    /\ admitted <= count
    /\ WindowCap

\* What the steps of a gate are to the limiter: its own, or a start of the
\* process, at which the request that was to set the expiry is gone.
LEMMA LimiterSteps ==
    ASSUME [GateNext]_gateVars
    PROVE  [Next]_vars \/ Restart
  BY DEF GateNext, Next, Ask, Asking, Count, Skip, Lock, GateTick, gateVars

\* Every step of the limiter keeps LimitInv.
LEMMA LimitInvStep == LimitInv /\ ([Next]_vars \/ Restart) => LimitInv'
  <1> SUFFICES ASSUME LimitInv, [Next]_vars \/ Restart PROVE LimitInv'
    OBVIOUS
  <1> USE RateLimitAssumption
  <1>1. ASSUME NEW r \in Request, Hit(r) PROVE LimitInv'
    BY <1>1 DEF Hit, Decide, Current, LimitInv, TypeOK, WindowCap
  <1>2. ASSUME NEW r \in Request, InitTTL(r) PROVE LimitInv'
    BY <1>2 DEF InitTTL, Decide, LimitInv, TypeOK, WindowCap
  <1>3. ASSUME NEW r \in Request, HitUnanswered(r) PROVE LimitInv'
    BY <1>3 DEF HitUnanswered, Current, LimitInv, TypeOK, WindowCap
  <1>4. ASSUME NEW r \in Request, InitTTLFails(r) PROVE LimitInv'
    BY <1>4 DEF InitTTLFails, LimitInv, TypeOK, WindowCap
  <1>5. CASE Tick
    BY <1>5 DEF Tick, LimitInv, TypeOK, WindowCap
  <1>6. CASE UNCHANGED vars
    BY <1>6 DEF vars, LimitInv, TypeOK, WindowCap
  <1>7. CASE Restart
    BY <1>7 DEF Restart, LimitInv, TypeOK, WindowCap
  <1> QED
    BY <1>1, <1>2, <1>3, <1>4, <1>5, <1>6, <1>7 DEF Next

\* LimitInv holds in every reachable state.
LEMMA LimitInvariant == GateSpec => []LimitInv
  <1>1. GateInit => LimitInv
    BY RateLimitAssumption DEF GateInit, Init, LimitInv, TypeOK, WindowCap
  <1>2. LimitInv /\ [GateNext]_gateVars => LimitInv'
    BY LimiterSteps, LimitInvStep
  <1> QED
    BY <1>1, <1>2, PTL DEF GateSpec

\* At most LIMIT requests are admitted per window, whatever calls are lost and
\* whenever the process dies.
THEOREM CapHolds == GateSpec => []WindowCap
  <1>1. LimitInv => WindowCap
    BY DEF LimitInv
  <1> QED
    BY <1>1, LimitInvariant, PTL

\* No request prolongs a window that is running: at most one is to set the
\* expiry, and it finds a key without one.
THEOREM WindowFixed == GateSpec => WindowNotProlonged
  <1>1. LimitInv /\ [GateNext]_gateVars => [ttl > 0 => ttl' <= ttl]_vars
    <2> SUFFICES ASSUME LimitInv, [GateNext]_gateVars, ttl > 0 PROVE ttl' <= ttl
      BY DEF vars
    <2>1. CASE [Next]_vars
      BY <2>1 DEF LimitInv, TypeOK, Next, Hit, InitTTL, HitUnanswered, InitTTLFails, Tick, vars
    <2>2. CASE Restart
      BY <2>2 DEF Restart, LimitInv, TypeOK
    <2> QED
      BY <2>1, <2>2, LimiterSteps
  <1> QED
    BY <1>1, LimitInvariant, PTL DEF GateSpec, WindowNotProlonged

-----------------------------------------------------------------------------
\* A caller with time left owns the key, and the key has as much left.
LeaseInv ==
    \A r \in Request : inside[r] = "locked" /\ lease[r] > 0 => key = r /\ keyTtl = lease[r]

\* Every step keeps LeaseInv.
LEMMA LeaseInvStep == GateTypeOK /\ LeaseInv /\ [GateNext]_gateVars => LeaseInv'
  <1> SUFFICES ASSUME GateTypeOK, LeaseInv, [GateNext]_gateVars PROVE LeaseInv'
    OBVIOUS
  <1> USE RedisLockAssumption DEF GateTypeOK, LockTypeOK, LeaseInv
  <1>1. ASSUME NEW r \in Request, Acquire(r) \/ AcquireFails(r) PROVE LeaseInv'
    BY <1>1 DEF Acquire, AcquireFails, Enters
  <1>2. ASSUME NEW r \in Request, Leave(r) \/ Raise(r) \/ Collect(r) PROVE LeaseInv'
    BY <1>2 DEF Leave, Raise, Collect, Exits, Delete
  <1>3. CASE LockTick
    BY <1>3 DEF LockTick
  <1>4. CASE UNCHANGED lockVars
    BY <1>4 DEF lockVars
  <1>5. CASE Restart
    BY <1>5 DEF Restart
  <1> QED
    BY <1>1, <1>2, <1>3, <1>4, <1>5
       DEF GateNext, Ask, Asking, Count, Skip, Lock, Refused, GateTick, gateVars

\* Of the callers that were granted the lock, at most one is inside with time
\* left, whatever fails, overstays, is released late or dies.
THEOREM LeasesExclude == GateSpec => []LeaseExclusion
  <1>1. GateInit => LeaseInv
    BY DEF GateInit, LockInit, LeaseInv
  <1>2. LeaseInv => LeaseExclusion
    BY DEF LeaseInv, LeaseExclusion
  <1> QED
    BY <1>1, <1>2, LeaseInvStep, TypeCorrect, PTL DEF GateSpec

\* A key exists exactly as long as it has time left.
KeyInv == key # Nobody <=> keyTtl > 0

\* The key of the lock always has a time left that no caller can prolong, its
\* owner included: whoever dies, fails or forgets it, only the clock stands
\* between a key and its end (KeyEnds).
THEOREM KeyIsTimed ==
    GateSpec => /\ [](key # Nobody <=> keyTtl > 0)
                /\ [][keyTtl > 0 => keyTtl' <= keyTtl]_gateVars
  <1>1. GateInit => KeyInv
    BY DEF GateInit, LockInit, KeyInv
  <1>2. GateTypeOK /\ KeyInv /\ [GateNext]_gateVars
          => KeyInv' /\ [keyTtl > 0 => keyTtl' <= keyTtl]_gateVars
    <2> SUFFICES ASSUME GateTypeOK, KeyInv, [GateNext]_gateVars
                 PROVE  KeyInv' /\ (keyTtl > 0 => keyTtl' <= keyTtl)
      OBVIOUS
    <2> USE RedisLockAssumption DEF GateTypeOK, LockTypeOK, KeyInv
    <2>1. ASSUME NEW r \in Request, Acquire(r) \/ AcquireFails(r)
          PROVE  KeyInv' /\ (keyTtl > 0 => keyTtl' <= keyTtl)
      BY <2>1 DEF Acquire, AcquireFails
    <2>2. ASSUME NEW r \in Request, Leave(r) \/ Raise(r) \/ Collect(r)
          PROVE  KeyInv' /\ (keyTtl > 0 => keyTtl' <= keyTtl)
      BY <2>2 DEF Leave, Raise, Collect, Delete
    <2>3. CASE LockTick
      BY <2>3 DEF LockTick
    <2>4. CASE UNCHANGED <<key, keyTtl>>
      BY <2>4
    <2> QED
      BY <2>1, <2>2, <2>3, <2>4
         DEF GateNext, Ask, Asking, Count, Skip, Lock, Refused, GateTick, Restart, gateVars, lockVars
  <1>3. KeyInv <=> (key # Nobody <=> keyTtl > 0)
    BY DEF KeyInv
  <1> QED
    BY <1>1, <1>2, <1>3, TypeCorrect, PTL DEF GateSpec
=============================================================================
