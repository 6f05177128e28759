--------------------------- MODULE ConnPoolProofs ---------------------------
(***************************************************************************)
(* For any requests, chats and limits: neither pool is exceeded, and a     *)
(* session that has ended has given its connection back.                   *)
(***************************************************************************)
EXTENDS ConnPool, FiniteSetTheorems, TLAPS

Actor == Request \cup Chat

\* Sets of requests and chats are finite.
LEMMA Sizes ==
    ASSUME NEW S, S \subseteq Actor
    PROVE  IsFiniteSet(S) /\ Cardinality(S) \in Nat
  BY ConnPoolAssumption, FS_Union, FS_Subset, FS_CardinalityType DEF Actor

\* A subset is no larger.
LEMMA SizeMonotone ==
    ASSUME NEW S, NEW T, T \subseteq Actor, S \subseteq T
    PROVE  Cardinality(S) <= Cardinality(T)
  BY Sizes, FS_Subset

\* One more element is at most one more.
LEMMA SizeOneMore ==
    ASSUME NEW S, NEW x \in Actor, S \subseteq Actor
    PROVE  Cardinality(S \cup {x}) <= Cardinality(S) + 1
  BY Sizes, FS_AddElement

\* The parts of TypeOK that are not about sizes.
PlacesOK ==
    /\ at \in [Actor -> Querying \cup {"queued", "authed", "closing", "done", "new", "open",
                           "refused", "gone"}]
    /\ holds \subseteq Actor
    /\ \A c \in Chat : (loop = c) <=> (at[c] \in Querying)
    /\ loop \in Chat \cup {Free}

\* Every step keeps the places and the connections of sessions in order.
LEMMA PlacesStep ==
    ASSUME PlacesOK, NothingLeaks, [Next]_vars
    PROVE  PlacesOK' /\ NothingLeaks'
<1> USE ConnPoolAssumption DEF PlacesOK, NothingLeaks, Actor, Querying, Goes
<1>1. ASSUME NEW x \in Actor, CheckOut(x)
      PROVE  PlacesOK' /\ NothingLeaks'
  BY <1>1 DEF CheckOut, Waiting
<1>2. ASSUME NEW r \in Request, StartAuth(r) \/ StartEndpoint(r)
      PROVE  PlacesOK' /\ NothingLeaks'
  BY <1>2 DEF StartAuth, StartEndpoint, Hop
<1>3. ASSUME NEW r \in Request, Authenticated(r) \/ Commit(r) \/ Reply(r)
      PROVE  PlacesOK' /\ NothingLeaks'
  BY <1>3 DEF Authenticated, Commit, Reply
<1>4. ASSUME NEW r \in Request, RequestTimesOut(r) \/ CloseSession(r)
      PROVE  PlacesOK' /\ NothingLeaks'
  BY <1>4 DEF RequestTimesOut, CloseSession, Waiting
<1>5. ASSUME NEW c \in Chat, Join(c) \/ Frame(c) \/ Leave(c)
      PROVE  PlacesOK' /\ NothingLeaks'
  BY <1>5 DEF Join, Frame, Leave, Enter
<1>6. ASSUME NEW c \in Chat, Accept(c) \/ TurnAway(c) \/ EndFrame(c) \/ Persist(c)
      PROVE  PlacesOK' /\ NothingLeaks'
  BY <1>6 DEF Accept, TurnAway, EndFrame, Persist
<1>7. ASSUME NEW c \in Chat, EndRefused(c) \/ End(c) \/ ChatTimesOut(c)
      PROVE  PlacesOK' /\ NothingLeaks'
  BY <1>7 DEF EndRefused, End, ChatTimesOut, Waiting
<1>8. CASE UNCHANGED vars
  BY <1>8 DEF vars
<1> QED
  BY <1>1, <1>2, <1>3, <1>4, <1>5, <1>6, <1>7, <1>8 DEF Next, Handle, Converse

\* Only a check-out makes the holders more, and only below the limit.
LEMMA HoldersStep ==
    ASSUME PlacesOK, Cardinality(holds) <= POOL, [Next]_vars
    PROVE  Cardinality(holds') <= POOL
<1> USE ConnPoolAssumption DEF PlacesOK
<1>1. ASSUME NEW x \in Actor, CheckOut(x)
      PROVE  Cardinality(holds') <= POOL
  <2>1. Cardinality(holds) \in Nat /\ Cardinality(holds) < POOL
    BY <1>1, Sizes DEF CheckOut, Full
  <2>2. Cardinality(holds') <= Cardinality(holds) + 1 /\ Cardinality(holds') \in Nat
    BY <1>1, Sizes, SizeOneMore DEF CheckOut
  <2> QED
    BY <2>1, <2>2
<1>2. CASE holds' \subseteq holds
  BY <1>2, Sizes, SizeMonotone
<1> QED
  BY <1>1, <1>2
     DEF Next, Handle, Converse, vars, StartAuth, StartEndpoint, Hop, Authenticated, Commit,
         Reply, RequestTimesOut, CloseSession, Join, Frame, Leave, Enter, Accept, TurnAway,
         EndFrame, Persist, EndRefused, End, ChatTimesOut, Actor

\* Only the start of a hop occupies a thread, and only a free one.
LEMMA ThreadsStep ==
    ASSUME PlacesOK, Cardinality(Running) <= THREADS, [Next]_vars
    PROVE  Cardinality(Running') <= THREADS
<1> USE ConnPoolAssumption DEF PlacesOK, Goes
<1>0. Running \subseteq Actor /\ Running' \subseteq Actor
  BY DEF Running, Actor
<1>1. ASSUME NEW r \in Request, StartAuth(r) \/ StartEndpoint(r)
      PROVE  Cardinality(Running') <= THREADS
  <2>1. Running' \subseteq Running \cup {r}
    BY <1>1 DEF StartAuth, StartEndpoint, Hop, Running, Actor
  <2>2. Cardinality(Running) \in Nat /\ Cardinality(Running) < THREADS
    BY <1>0, <1>1, Sizes DEF StartAuth, StartEndpoint, Hop
  <2>3. Cardinality(Running') <= Cardinality(Running \cup {r})
    BY <1>0, <2>1, SizeMonotone DEF Actor
  <2>4. Cardinality(Running \cup {r}) <= Cardinality(Running) + 1
    BY <1>0, SizeOneMore DEF Actor
  <2>5. Cardinality(Running') \in Nat /\ Cardinality(Running \cup {r}) \in Nat
    BY <1>0, Sizes DEF Actor
  <2> QED
    BY <2>2, <2>3, <2>4, <2>5
<1>2. ASSUME Running' \subseteq Running
      PROVE  Cardinality(Running') <= THREADS
  BY <1>0, <1>2, Sizes, SizeMonotone
<1>3. ASSUME NEW r \in Request,
             \/ Authenticated(r) \/ Commit(r) \/ Reply(r)
             \/ RequestTimesOut(r) \/ CloseSession(r)
      PROVE  Running' \subseteq Running
  BY <1>3 DEF Authenticated, Commit, Reply, RequestTimesOut, CloseSession, Running, Actor, Waiting
<1>4. ASSUME NEW c \in Chat, Converse(c)
      PROVE  Running' \subseteq Running
  BY <1>4 DEF Converse, CheckOut, Join, Frame, Leave, Enter, Accept, TurnAway, EndFrame,
              Persist, EndRefused, End, ChatTimesOut, Running, Actor
<1>5. CASE (\E x \in Actor : CheckOut(x)) \/ UNCHANGED vars
  BY <1>2, <1>5 DEF CheckOut, Running, vars
<1> QED
  BY <1>1, <1>2, <1>3, <1>4, <1>5 DEF Next, Handle, Actor

\* The types, the limits and NothingLeaks hold in every reachable state.
LEMMA PoolInvariant == Spec => [](TypeOK /\ NothingLeaks)
<1>1. Init => PlacesOK /\ NothingLeaks /\ holds = {} /\ Running = {}
  BY ConnPoolAssumption DEF Init, PlacesOK, NothingLeaks, Actor, Querying, Running
<1>2. Cardinality({}) = 0
  BY FS_EmptySet
<1> DEFINE Inv == /\ PlacesOK /\ NothingLeaks
                  /\ Cardinality(holds) <= POOL /\ Cardinality(Running) <= THREADS
<1>3. Init => Inv
  BY <1>1, <1>2, ConnPoolAssumption
<1>4. Inv /\ [Next]_vars => Inv'
  BY PlacesStep, HoldersStep, ThreadsStep
<1>5. Inv => TypeOK /\ NothingLeaks
  BY DEF TypeOK, PlacesOK, Actor
<1> QED
  BY <1>3, <1>4, <1>5, PTL DEF Spec

\* Neither the connections nor the threads are ever exceeded, and the loop is
\* inside a chat exactly when one uses the database.
THEOREM LimitsKept == Spec => []TypeOK
  BY PoolInvariant, PTL

\* No session that has ended keeps a connection.
THEOREM NoConnectionLeaks == Spec => []NothingLeaks
  BY PoolInvariant, PTL
=============================================================================
