------------------------------ MODULE ConnPool ------------------------------
(***************************************************************************)
(* The database connections of one worker process (db.py) and what waits   *)
(* for them. A request runs in hops: its dependencies and its handler are  *)
(* plain functions that the event loop hands to the thread pool, one after *)
(* the other, and its session keeps the connection it took from one hop to *)
(* the next. A chat (or the webhook) is a coroutine that calls the         *)
(* database on the event loop itself, so the loop stands still while the   *)
(* coroutine waits for a connection.                                       *)
(*                                                                         *)
(* A request waits for a thread while it holds a connection, and another   *)
(* waits for a connection while it holds a thread; both need the loop,     *)
(* which a chat that waits for a connection holds. The pool's timeout is   *)
(* what ends such a circle.                                                *)
(***************************************************************************)
EXTENDS Naturals, FiniteSets

CONSTANTS
    Request,   \* requests to handlers that are plain functions
    Chat,      \* chat connections
    THREADS,   \* threads of the pool the handlers run in
    POOL,      \* pool_size + max_overflow
    Free       \* the event loop is idle

VARIABLES
    at,        \* where each request and chat is
    holds,     \* whose session has a connection checked out
    loop       \* the chat inside which the event loop is, or Free

vars == <<at, holds, loop>>

ASSUME ConnPoolAssumption ==
    /\ THREADS \in Nat \ {0} /\ POOL \in Nat \ {0}
    /\ IsFiniteSet(Request) /\ IsFiniteSet(Chat)
    /\ Request \cap Chat = {} /\ Free \notin Chat

\* Places at which the session needs a connection to go on; "reload" is the
\* refresh of the row after the commit, which has returned the connection.
Querying == {"auth", "endpoint", "join", "frame", "reload", "leave"}

Waiting == {x \in Request \cup Chat : at[x] \in Querying /\ x \notin holds}

\* The requests that occupy a thread.
Running == {r \in Request : at[r] \in {"auth", "endpoint", "reload"}}

Full == Cardinality(holds) >= POOL

Init ==
    /\ at = [x \in Request \cup Chat |-> IF x \in Request THEN "queued" ELSE "new"]
    /\ holds = {}
    /\ loop = Free

Goes(x, place) == at' = [at EXCEPT ![x] = place]

-----------------------------------------------------------------------------
\* Mutant: the pool has no limit (max_overflow=-1).
CheckOutOverflowing(x) ==
    /\ x \in Waiting
    /\ holds' = holds \cup {x}
    /\ UNCHANGED <<at, loop>>

CheckOut(x) ==
    /\ x \in Waiting
    /\ ~Full
    /\ holds' = holds \cup {x}
    /\ UNCHANGED <<at, loop>>

\* The loop hands the next function of a request to a thread.
Hop(r, from, to) ==
    /\ at[r] = from
    /\ loop = Free
    /\ Cardinality(Running) < THREADS
    /\ Goes(r, to)
    /\ UNCHANGED <<holds, loop>>

\* get_current_user, which loads the user; a request without a token, or to an
\* endpoint without this dependency, passes on with no connection.
StartAuth(r) == Hop(r, "queued", "auth") \/ Hop(r, "queued", "authed")

\* The thread is given back, the session keeps its connection: for the handler,
\* or to be closed after a 401 or 403.
Authenticated(r) ==
    /\ at[r] = "auth" /\ r \in holds
    /\ Goes(r, "authed") \/ Goes(r, "closing")
    /\ UNCHANGED <<holds, loop>>

StartEndpoint(r) == Hop(r, "authed", "endpoint")

\* commit returns the connection to the pool; the refresh takes one anew.
Commit(r) ==
    /\ at[r] = "endpoint" /\ r \in holds
    /\ Goes(r, "reload")
    /\ holds' = holds \ {r}
    /\ UNCHANGED loop

Reply(r) ==
    /\ at[r] \in {"endpoint", "reload"} /\ r \in holds
    /\ Goes(r, "closing")
    /\ UNCHANGED <<holds, loop>>

\* Mutant: no pool_timeout; the thread waits for ever.
RequestTimesOutNever(r) == FALSE /\ Goes(r, "closing") /\ UNCHANGED <<holds, loop>>

\* 30 seconds without a connection: TimeoutError, a 500.
RequestTimesOut(r) ==
    /\ r \in Waiting
    /\ Full
    /\ Goes(r, "closing")
    /\ UNCHANGED <<holds, loop>>

\* The finally of get_db, run by the loop in a thread outside the limit.
CloseSession(r) ==
    /\ at[r] = "closing"
    /\ loop = Free
    /\ Goes(r, "done")
    /\ holds' = holds \ {r}
    /\ UNCHANGED loop

-----------------------------------------------------------------------------
\* The loop enters the chat's coroutine, and leaves it at the next await. A chat
\* without a token never queries and is left out.
Enter(c, from, to) ==
    /\ at[c] = from
    /\ loop = Free
    /\ Goes(c, to)
    /\ loop' = c
    /\ UNCHANGED holds

Join(c) == Enter(c, "new", "join")
Frame(c) == Enter(c, "open", "frame")
Leave(c) == Enter(c, "open", "leave")

\* The user is loaded and may join: the session keeps the connection.
Accept(c) ==
    /\ at[c] = "join" /\ c \in holds
    /\ Goes(c, "open")
    /\ loop' = Free
    /\ UNCHANGED holds

\* The user is loaded and may not join: the loop goes on with others while
\* websocket.close is awaited, and the session keeps the connection.
TurnAway(c) ==
    /\ at[c] = "join" /\ c \in holds
    /\ Goes(c, "refused")
    /\ loop' = Free
    /\ UNCHANGED holds

\* Mutant: the refusal returns past db.close().
EndRefusedLeaking(c) ==
    /\ at[c] = "refused"
    /\ loop = Free
    /\ Goes(c, "gone")
    /\ UNCHANGED <<holds, loop>>

\* The socket is closed: the finally of property_chat.
EndRefused(c) ==
    /\ at[c] = "refused"
    /\ loop = Free
    /\ Goes(c, "gone")
    /\ holds' = holds \ {c}
    /\ UNCHANGED loop

\* The same finally when the client has left: disconnect finds the lock of the
\* rooms free, so it does not wait, and the log line that follows reads the
\* user, which a commit has expired.
End(c) ==
    /\ at[c] = "leave" /\ c \in holds
    /\ Goes(c, "gone")
    /\ holds' = holds \ {c}
    /\ loop' = Free

\* The message is inserted and committed: the connection is returned.
Persist(c) ==
    /\ at[c] = "frame" /\ c \in holds
    /\ Goes(c, "reload")
    /\ holds' = holds \ {c}
    /\ UNCHANGED loop

\* Refreshed: the session keeps the connection until the next commit.
EndFrame(c) ==
    /\ at[c] = "reload" /\ c \in holds
    /\ Goes(c, "open")
    /\ loop' = Free
    /\ UNCHANGED holds

\* Mutant: no pool_timeout; the loop waits for ever.
ChatTimesOutNever(c) == FALSE /\ Goes(c, "gone") /\ UNCHANGED <<holds, loop>>

\* 30 seconds without a connection, in which the loop ran nothing else. A join
\* is refused, a frame answered with an error, a farewell cut short.
ChatTimesOut(c) ==
    /\ c \in Waiting
    /\ Full
    /\ \/ at[c] = "join" /\ Goes(c, "refused")
       \/ at[c] \in {"frame", "reload"} /\ Goes(c, "open")
       \/ at[c] = "leave" /\ Goes(c, "gone")
    /\ loop' = Free
    /\ UNCHANGED holds

-----------------------------------------------------------------------------
Handle(r) ==
    \/ CheckOut(r) \/ RequestTimesOut(r)
    \/ StartAuth(r) \/ Authenticated(r) \/ StartEndpoint(r)
    \/ Commit(r) \/ Reply(r) \/ CloseSession(r)

Converse(c) ==
    \/ CheckOut(c) \/ ChatTimesOut(c)
    \/ Join(c) \/ Accept(c) \/ TurnAway(c) \/ EndRefused(c)
    \/ Frame(c) \/ Persist(c) \/ EndFrame(c)
    \/ Leave(c) \/ End(c)

Next == (\E r \in Request : Handle(r)) \/ (\E c \in Chat : Converse(c))

Spec == Init /\ [][Next]_vars

\* Threads and coroutines that can run do. The waiters for a thread and the
\* tasks of the loop queue in order (SF). A wait for a connection ends, with
\* one or with the timeout. Clients need not send or leave, and closing the
\* socket of a refused one need not end.
Fairness ==
    /\ \A r \in Request :
          /\ WF_vars(CheckOut(r) \/ RequestTimesOut(r))
          /\ WF_vars(Authenticated(r) \/ Commit(r) \/ Reply(r))
          /\ SF_vars(StartAuth(r) \/ StartEndpoint(r))
          /\ SF_vars(CloseSession(r))
    /\ \A c \in Chat :
          /\ WF_vars(CheckOut(c) \/ ChatTimesOut(c))
          /\ WF_vars(Accept(c) \/ TurnAway(c) \/ Persist(c) \/ EndFrame(c) \/ End(c))

FairSpec == Spec /\ Fairness

-----------------------------------------------------------------------------
\* The variables keep their types, neither limit is exceeded, and the loop is
\* inside a chat exactly when one uses the database (chat_ws.py has no await
\* between its queries).
TypeOK ==
    /\ at \in [Request \cup Chat -> Querying \cup
                  {"queued", "authed", "closing", "done", "new", "open", "refused", "gone"}]
    /\ holds \subseteq Request \cup Chat
    /\ Cardinality(holds) <= POOL
    /\ Cardinality(Running) <= THREADS
    /\ \A c \in Chat : (loop = c) <=> (at[c] \in Querying)
    /\ loop \in Chat \cup {Free}

\* No session that has ended, in whatever way (refused, timed out, left), keeps
\* a connection: the finally of get_db and of property_chat.
NothingLeaks == \A x \in holds : at[x] \notin {"queued", "new", "done", "gone"}

\* Every request is answered, with a result or a 500, whatever the chats do:
\* requests that hold connections and wait for threads, requests that hold
\* threads and wait for connections, and a loop that waits with them do not
\* wait for each other for ever.
EveryRequestEnds == \A r \in Request : <>(at[r] = "done")

\* The loop that has entered a chat's database call comes back from it.
LoopResumes == (loop # Free) ~> (loop = Free)
=============================================================================
