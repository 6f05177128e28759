----------------------------- MODULE WriteGate -----------------------------
(***************************************************************************)
(* What a write request passes before its handler's critical section: the  *)
(* limiter and then, for create and approve, the lock, each with a call of *)
(* get_redis. Without a client both let it through. The requests are those *)
(* of one process, from one address and for one property.                  *)
(***************************************************************************)
EXTENDS RedisClient, RateLimit, RedisLock

VARIABLE step   \* what each request is doing

gateVars == <<clientVars, vars, lockVars, step>>

GateInit ==
    /\ ClientInit /\ Init /\ LockInit
    /\ step = [r \in Request |-> "idle"]

Goes(r, from, to) ==
    /\ step[r] = from
    /\ step' = [step EXCEPT ![r] = to]

\* A request arrives, or goes on to the lock: each asks for a client.
Ask(r) ==
    /\ Goes(r, "idle", "limiter") \/ Goes(r, "limited", "locker")
    /\ inside[r] = "no"
    /\ Call(r)
    /\ UNCHANGED <<vars, lockVars>>

\* get_redis; without a client the limiter and the lock are passed.
Asking(r) ==
    /\ \/ Working(r) /\ UNCHANGED step
       \/ Found(r) /\ (Goes(r, "limiter", "counting") \/ Goes(r, "locker", "locking"))
       \/ FoundNone(r) /\ (Goes(r, "limiter", "limited") \/ Goes(r, "locker", "idle"))
    /\ UNCHANGED <<vars, lockVars>>

\* The limiter's calls: past the limit the request is refused; where a call
\* fails it is let through.
Count(r) ==
    /\ \/ Hit(r) /\ pc'[r] = "expire" /\ step[r] = "counting" /\ UNCHANGED step
       \/ Hit(r) /\ pc'[r] = "idle" /\ Goes(r, "counting", IF Current > LIMIT THEN "idle" ELSE "limited")
       \/ InitTTL(r) /\ Goes(r, "counting", IF 1 > LIMIT THEN "idle" ELSE "limited")
       \/ (HitUnanswered(r) \/ InitTTLFails(r)) /\ Goes(r, "counting", "limited")
       \/ pc[r] = "idle" /\ UNCHANGED vars /\ Goes(r, "counting", "limited")
    /\ UNCHANGED <<clientVars, lockVars>>

\* The handler takes no lock, or the request ends before it.
Skip(r) ==
    /\ Goes(r, "limited", "idle")
    /\ UNCHANGED <<clientVars, vars, lockVars>>

Lock(r) ==
    /\ \/ (Acquire(r) \/ AcquireFails(r)) /\ Goes(r, "locking", "critical")
       \/ Refused(r) /\ Goes(r, "locking", "idle")
       \/ (Leave(r) \/ Raise(r)) /\ Goes(r, "critical", "idle")
       \/ Collect(r) /\ UNCHANGED step
    /\ UNCHANGED <<clientVars, vars>>

\* A tick at Redis, for both keys.
GateTick ==
    /\ ttl > 0 \/ keyTtl > 0
    /\ LockTick
    /\ Tick \/ (ttl = 0 /\ UNCHANGED vars)
    /\ UNCHANGED <<clientVars, step>>

\* The process dies and starts anew. Redis keeps the counter and the key.
Restart ==
    /\ client' = FALSE /\ initialized' = FALSE /\ broken' = FALSE
    /\ at' = [r \in Request |-> "out"]
    /\ pc' = [r \in Request |-> "idle"]
    /\ inside' = [r \in Request |-> "no"]
    /\ lease' = [r \in Request |-> 0]
    /\ step' = [r \in Request |-> "idle"]
    /\ UNCHANGED <<count, ttl, admitted, key, keyTtl>>

GateNext ==
    \/ \E r \in Request : Ask(r) \/ Asking(r) \/ Count(r) \/ Skip(r) \/ Lock(r)
    \/ GateTick
    \/ Restart

\* Time does not stop. Nothing is assumed of requests or of calls to Redis.
GateSpec == GateInit /\ [][GateNext]_gateVars /\ WF_gateVars(GateTick)

-----------------------------------------------------------------------------
\* Each variable keeps its type, and a request is in one place at a time: in
\* the limiter's window only while it counts, inside the lock only in its
\* critical section.
GateTypeOK ==
    /\ ClientTypeOK /\ TypeOK /\ LockTypeOK
    /\ step \in [Request -> {"idle", "limiter", "counting", "limited", "locker", "locking", "critical"}]
    /\ \A r \in Request :
          /\ pc[r] = "expire" => step[r] = "counting"
          /\ at[r] # "out" <=> step[r] \in {"limiter", "locker"}
          /\ inside[r] \in {"locked", "open"} <=> step[r] = "critical"
=============================================================================
