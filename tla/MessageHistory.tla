--------------------------- MODULE MessageHistory ---------------------------
(***************************************************************************)
(* The messages table and a client that reads it page by page with         *)
(* since_id (list_messages). A message gets its id and created_at when it  *)
(* is inserted, and can be read once it is committed. A page holds the     *)
(* first LIMIT messages by (created_at, id) whose id is past the cursor,   *)
(* and the client goes on from the id of the last.                         *)
(*                                                                         *)
(* OneWriter tells the databases of db.py apart. SQLite lets one           *)
(* transaction write at a time, and gives the id of one that failed to the *)
(* next. MySQL and Postgres let inserts overlap and give no id twice.      *)
(***************************************************************************)
EXTENDS Naturals, FiniteSets

CONSTANTS
    Conn,      \* connections that send messages
    LIMIT,     \* page size
    OneWriter, \* the database is SQLite
    MaxId,     \* bound on the ids handed out
    None       \* no message in hand

VARIABLES
    lastId,    \* the last id handed out
    inHand,    \* the message each connection's handler is storing
    table,     \* the committed messages
    cursor,    \* the client's since_id
    seen       \* the ids the client has read

history == <<lastId, inHand, table, cursor, seen>>

Message == [id : 1 .. MaxId, at : Nat]

\* A handler whose frame has passed the checks, before its INSERT has run.
Accepted == [id |-> 0, at |-> 0]

ASSUME MessageHistoryAssumption ==
    /\ LIMIT \in Nat \ {0} /\ MaxId \in Nat /\ OneWriter \in BOOLEAN
    /\ None \notin Message \cup {Accepted}

Inserted == {c \in Conn : inHand[c] \in Message}

HistoryInit ==
    /\ lastId = 0
    /\ inHand = [c \in Conn |-> None]
    /\ table = {}
    /\ cursor = 0
    /\ seen = {}

-----------------------------------------------------------------------------
Accept(c) ==
    /\ inHand[c] = None
    /\ inHand' = [inHand EXCEPT ![c] = Accepted]
    /\ UNCHANGED <<lastId, table, cursor, seen>>

\* The INSERT runs at the database: the message has its id and its time, and
\* nobody sees it.
Insert(c, time) ==
    /\ inHand[c] = Accepted
    /\ OneWriter => Inserted = {}
    /\ lastId < MaxId
    /\ lastId' = lastId + 1
    /\ inHand' = [inHand EXCEPT ![c] = [id |-> lastId + 1, at |-> time]]
    /\ UNCHANGED <<table, cursor, seen>>

Commit(c) ==
    /\ c \in Inserted
    /\ table' = table \cup {inHand[c]}
    /\ inHand' = [inHand EXCEPT ![c] = None]
    /\ UNCHANGED <<lastId, cursor, seen>>

\* The database is busy for too long, the commit fails or the worker dies. An id
\* that was handed out is lost, or on SQLite (no AUTOINCREMENT) the next one.
Fail(c) ==
    /\ inHand[c] # None
    /\ inHand' = [inHand EXCEPT ![c] = None]
    /\ lastId' = IF OneWriter /\ c \in Inserted THEN inHand[c].id - 1 ELSE lastId
    /\ UNCHANGED <<table, cursor, seen>>

Before(m, n) == m.at < n.at \/ (m.at = n.at /\ m.id < n.id)

\* Mutant: since_id counts from the message after the next.
LaterSkipping == {m \in table : m.id > cursor + 1}

Later == {m \in table : m.id > cursor}

Page == {m \in Later : Cardinality({n \in Later : Before(n, m)}) < LIMIT}

Poll ==
    /\ \E m \in Page : /\ \A n \in Page \ {m} : Before(n, m)
                       /\ cursor' = m.id
    /\ seen' = seen \cup {m.id : m \in Page}
    /\ UNCHANGED <<lastId, inHand, table>>

-----------------------------------------------------------------------------
HistoryTypeOK ==
    /\ lastId \in 0 .. MaxId
    /\ inHand \in [Conn -> Message \cup {Accepted, None}]
    /\ table \subseteq Message
    /\ cursor \in 0 .. MaxId
    /\ seen \subseteq 1 .. MaxId

\* A client that pages by since_id has read every message its cursor has
\* passed: none is committed behind it, and no page leaves a gap ("since_id
\* paginates strictly forward", tests/test_messages.py:60). Inserts that overlap
\* break it: see the run history_gap.
NoSkip == \A m \in table : m.id <= cursor => m.id \in seen

\* Every message that is stored is read by a client that keeps polling, on
\* SQLite: where the cursor can pass a message, it is not.
CatchesUp == \A i \in 1 .. MaxId : (\E m \in table : m.id = i) ~> (i \in seen)
=============================================================================
