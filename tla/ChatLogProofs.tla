--------------------------- MODULE ChatLogProofs ---------------------------
(***************************************************************************)
(* For any connections, rates, capacities, page sizes and bounds: the      *)
(* limiter's two promises, and that paging by since_id skips nothing and   *)
(* never stops short when the database lets one transaction write at a     *)
(* time.                                                                   *)
(***************************************************************************)
EXTENDS ChatLog, FiniteSetTheorems, WellFoundedInduction, TLAPS

\* A full bucket holds at least one message.
LEMMA FullOfTokens == FULL \in Nat /\ FULL >= COST
<1>1. \A m, n \in Nat : (m + 1) * n = m * n + n /\ m * n \in Nat /\ m * n >= 0
  BY SMT
<1>2. CAPACITY - 1 \in Nat /\ COST \in Nat /\ (CAPACITY - 1) + 1 = CAPACITY
  BY TokenBucketAssumption
<1>3. CAPACITY * COST = (CAPACITY - 1) * COST + COST
  BY <1>1, <1>2
<1> QED
  BY <1>1, <1>2, <1>3 DEF FULL

\* What the bucket holds now, what it has paid since the observer began, and
\* what the rate has brought since then.
BucketInv ==
    /\ BucketTypeOK
    /\ admitted * COST + Refilled <= FULL + (now - since)
    /\ admitted = 0 => Refilled >= FULL \/ Refilled >= now - since

\* The refill is between nothing and full, and at least the tokens it began with.
LEMMA RefillBounds ==
    ASSUME BucketTypeOK
    PROVE  Refilled \in 0 .. FULL /\ Refilled >= tokens
  BY FullOfTokens DEF BucketTypeOK, Refilled

\* One message more costs COST more.
LEMMA OneMore ==
    ASSUME NEW n \in Nat
    PROVE  (n + 1) * COST = n * COST + COST /\ n * COST \in Nat /\ 0 * COST = 0
  BY TokenBucketAssumption, SMT

\* The bucket starts full and nothing has been counted.
LEMMA BucketInit_Inv == Init => BucketInv
<1> SUFFICES ASSUME Init PROVE BucketInv
  OBVIOUS
<1> USE FullOfTokens DEF Init, BucketInit
<1>1. BucketTypeOK
  BY TokenBucketAssumption DEF BucketTypeOK
<1>2. Refilled = FULL
  BY DEF Refilled
<1>3. admitted * COST = 0
  BY OneMore
<1> QED
  BY <1>1, <1>2, <1>3 DEF BucketInv

\* A step on the bucket alone.
BucketStep == Admit \/ Refuse \/ Tick \/ Observe \/ UNCHANGED <<now, bucket>>

\* Every step of the bucket keeps BucketInv.
LEMMA BucketStep_Inv ==
    ASSUME BucketInv, BucketStep
    PROVE  BucketInv'
<1> DEFINE paid == admitted * COST
<1>0. FULL' = FULL
  BY DEF FULL
<1>1. BucketTypeOK /\ paid \in Nat /\ Refilled \in 0 .. FULL
  BY OneMore, RefillBounds DEF BucketInv, BucketTypeOK
<1>2. CASE Admit
  <2>1. BucketTypeOK'
    BY <1>0, <1>1, <1>2, FullOfTokens, TokenBucketAssumption DEF BucketTypeOK, Admit
  <2>2. Refilled' = Refilled - COST
    BY <1>0, <1>1, <1>2, FullOfTokens, TokenBucketAssumption DEF Admit, Refilled, BucketTypeOK
  <2>3. paid' = paid + COST
    BY <1>0, <1>1, <1>2, OneMore DEF Admit, BucketTypeOK
  <2>4. admitted' # 0
    BY <1>0, <1>1, <1>2 DEF Admit, BucketTypeOK
  <2> HIDE DEF paid
  <2>5. paid' + Refilled' <= FULL + (now' - since')
    BY <1>0, <1>1, <1>2, <2>2, <2>3, FullOfTokens, TokenBucketAssumption
       DEF Admit, BucketInv, BucketTypeOK, paid
  <2> QED
    BY <1>0, <2>1, <2>4, <2>5 DEF BucketInv, paid
<1>3. CASE Refuse
  <2>1. BucketTypeOK'
    BY <1>0, <1>1, <1>3 DEF BucketTypeOK, Refuse
  <2>2. Refilled' = Refilled
    BY <1>0, <1>1, <1>3, FullOfTokens DEF Refuse, Refilled, BucketTypeOK
  <2> QED
    BY <1>0, <1>3, <2>1, <2>2 DEF Refuse, BucketInv
<1>4. CASE Tick
  <2>1. BucketTypeOK'
    BY <1>0, <1>1, <1>4, TokenBucketAssumption DEF BucketTypeOK, Tick, bucket
  <2>2. Refilled' = (IF Refilled = FULL THEN FULL ELSE Refilled + 1)
    BY <1>0, <1>1, <1>4, FullOfTokens DEF Tick, bucket, Refilled, BucketTypeOK
  <2>3. paid' = paid
    BY <1>4 DEF Tick, bucket
  <2> HIDE DEF paid
  <2>4. paid' + Refilled' <= FULL + (now' - since')
    BY <1>0, <1>1, <1>4, <2>2, <2>3, FullOfTokens DEF Tick, bucket, BucketInv, BucketTypeOK, paid
  <2>5. admitted' = 0 => Refilled' >= FULL \/ Refilled' >= now' - since'
    BY <1>0, <1>1, <1>4, <2>2, FullOfTokens DEF Tick, bucket, BucketInv, BucketTypeOK
  <2> QED
    BY <1>0, <2>1, <2>4, <2>5 DEF BucketInv, paid
<1>5. CASE Observe
  <2>1. BucketTypeOK'
    BY <1>0, <1>1, <1>5 DEF BucketTypeOK, Observe
  <2>2. Refilled' = Refilled
    BY <1>0, <1>5 DEF Observe, Refilled
  <2>3. paid' = 0
    BY <1>0, <1>5, OneMore DEF Observe
  <2> HIDE DEF paid
  <2>4. paid' + Refilled' <= FULL + (now' - since')
    BY <1>0, <1>1, <1>5, <2>2, <2>3, FullOfTokens DEF Observe, BucketTypeOK
  <2>5. Refilled' >= now' - since'
    BY <1>0, <1>1, <1>5, <2>2 DEF Observe, BucketTypeOK
  <2> QED
    BY <1>0, <2>1, <2>4, <2>5 DEF BucketInv, paid
<1>6. CASE UNCHANGED <<now, bucket>>
  BY <1>0, <1>6 DEF BucketInv, BucketTypeOK, Refilled, bucket
<1> QED
  BY <1>2, <1>3, <1>4, <1>5, <1>6 DEF BucketStep

\* What the steps of the composition are to the bucket.
LEMMA NextIsBucketStep ==
    ASSUME [Next]_vars
    PROVE  BucketStep
  BY DEF Next, vars, Frame, Store, Watch, Read, BucketStep

\* BucketInv holds in every reachable state.
LEMMA BucketInvariant == Spec => []BucketInv
<1>1. BucketInv /\ [Next]_vars => BucketInv'
  BY BucketStep_Inv, NextIsBucketStep
<1> QED
  BY <1>1, BucketInit_Inv, PTL DEF Spec

\* No stretch of time lets more through than a burst and the rate.
THEOREM BurstsBounded == Spec => []BurstBound
<1>1. BucketInv => BurstBound
  <2> SUFFICES ASSUME BucketInv PROVE BurstBound
    OBVIOUS
  <2> DEFINE paid == admitted * COST
  <2>1. paid \in Nat /\ Refilled \in 0 .. FULL /\ paid + Refilled <= FULL + (now - since)
    BY OneMore, RefillBounds DEF BucketInv, BucketTypeOK
  <2>2. paid <= FULL + (now - since)
    <3> HIDE DEF paid
    <3> QED
      BY <2>1, FullOfTokens DEF BucketInv, BucketTypeOK
  <2> QED
    BY <2>2 DEF BurstBound
<1> QED
  BY <1>1, BucketInvariant, PTL

\* Refused attempts do not starve a client that has waited for one token.
THEOREM PatienceRewarded == Spec => []PatienceAdmits
<1>1. BucketInv => PatienceAdmits
  BY FullOfTokens, RefillBounds, TokenBucketAssumption
     DEF BucketInv, BucketTypeOK, PatienceAdmits
<1> QED
  BY <1>1, BucketInvariant, PTL

-----------------------------------------------------------------------------
\* With one writer at a time, what is committed comes in the order of the ids,
\* the message being written comes after all of them, and the cursor is behind
\* what it has passed.
HistoryInv ==
    /\ HistoryTypeOK
    /\ now \in Nat
    /\ IsFiniteSet(table)
    /\ \A c, d \in Inserted : c = d
    /\ \A m \in table : m.id <= lastId /\ m.at <= now
    /\ \A m, n \in table : m.id < n.id => m.at <= n.at
    /\ \A m, n \in table : m.id = n.id => m = n
    /\ \A c \in Inserted : /\ inHand[c].id <= lastId /\ inHand[c].at <= now
                          /\ cursor < inHand[c].id
                          /\ \A m \in table : m.id < inHand[c].id /\ m.at <= inHand[c].at
    /\ cursor <= lastId
    /\ NoSkip

\* The empty history satisfies HistoryInv.
LEMMA HistoryInit_Inv == Init => HistoryInv
<1> SUFFICES ASSUME Init PROVE HistoryInv
  OBVIOUS
<1> USE DEF Init, HistoryInit, BucketInit
<1>1. HistoryTypeOK
  BY MessageHistoryAssumption DEF HistoryTypeOK
<1>2. Inserted = {}
  BY MessageHistoryAssumption DEF Inserted
<1>3. IsFiniteSet(table)
  BY FS_EmptySet
<1> QED
  BY <1>1, <1>2, <1>3 DEF HistoryInv, NoSkip

\* Committed messages are in the order of their ids.
LEMMA OrderOfIds ==
    ASSUME HistoryInv, NEW m \in table, NEW n \in table
    PROVE  Before(m, n) <=> m.id < n.id
  BY DEF HistoryInv, HistoryTypeOK, Message, Before

\* A page holds every message between the cursor and its last.
LEMMA PageHasNoGap ==
    ASSUME HistoryInv, NEW last \in Page, NEW m \in Later, m.id <= last.id
    PROVE  m \in Page
<1> DEFINE Preceding(x) == {n \in Later : Before(n, x)}
<1>1. Later \subseteq table /\ last \in Later
  BY DEF Later, Page
<1>2. Preceding(m) \subseteq Preceding(last)
  BY <1>1, OrderOfIds DEF HistoryInv, HistoryTypeOK, Message
<1>3. IsFiniteSet(Preceding(last))
  BY <1>1, FS_Subset DEF HistoryInv
<1>4. /\ Cardinality(Preceding(m)) \in Nat /\ Cardinality(Preceding(last)) \in Nat
      /\ Cardinality(Preceding(m)) <= Cardinality(Preceding(last))
  BY <1>2, <1>3, FS_Subset, FS_CardinalityType
<1>5. Cardinality(Preceding(last)) < LIMIT
  BY DEF Page
<1>6. Cardinality(Preceding(m)) < LIMIT
  BY <1>4, <1>5, MessageHistoryAssumption
<1> QED
  BY <1>6 DEF Page

\* A step of the clock or of the table and its reader.
HistoryStep ==
    \/ \E c \in Conn : (Accept(c) \/ Insert(c, now) \/ Commit(c) \/ Fail(c)) /\ now' = now
    \/ Poll /\ now' = now
    \/ now' = now + 1 /\ UNCHANGED history
    \/ now' = now /\ UNCHANGED history

\* What the steps of the composition are to the history.
LEMMA NextIsHistoryStep ==
    ASSUME [Next]_vars
    PROVE  HistoryStep
  BY DEF Next, vars, Frame, Store, Watch, Read, Admit, Refuse, Tick, Observe, HistoryStep

\* Every step of the history keeps the types, for any number of writers.
LEMMA HistoryStep_Type ==
    ASSUME HistoryTypeOK, now \in Nat, HistoryStep
    PROVE  HistoryTypeOK'
<1> USE DEF HistoryTypeOK
<1>1. CASE \E c \in Conn : Accept(c) \/ Fail(c)
  <2> PICK c \in Conn : Accept(c) \/ Fail(c)
    BY <1>1
  <2>1. CASE Accept(c)
    BY <2>1 DEF Accept
  <2>2. CASE Fail(c)
    <3>1. c \in Inserted => inHand[c].id - 1 \in 0 .. MaxId
      BY MessageHistoryAssumption DEF Inserted, Message
    <3>2. lastId' \in 0 .. MaxId
      BY <2>2, <3>1 DEF Fail
    <3> QED
      BY <2>2, <3>2 DEF Fail
  <2> QED
    BY <2>1, <2>2
<1>2. CASE \E c \in Conn : Insert(c, now)
  <2> PICK c \in Conn : Insert(c, now)
    BY <1>2
  <2>1. [id |-> lastId + 1, at |-> now] \in Message /\ lastId' \in 0 .. MaxId
    BY MessageHistoryAssumption DEF Insert, Message
  <2> QED
    BY <2>1 DEF Insert
<1>3. CASE \E c \in Conn : Commit(c)
  BY <1>3 DEF Commit, Inserted
<1>4. CASE Poll
  <2>1. PICK last \in Page : cursor' = last.id
    BY <1>4 DEF Poll
  <2>2. seen' = seen \cup {m.id : m \in Page} /\ UNCHANGED <<lastId, inHand, table>>
    BY <1>4 DEF Poll
  <2>3. \A m \in Page : m.id \in 1 .. MaxId
    BY DEF Page, Later, Message
  <2>4. cursor' \in 0 .. MaxId
    BY <2>1, <2>3, MessageHistoryAssumption
  <2> QED
    BY <2>2, <2>3, <2>4
<1>5. CASE UNCHANGED history
  BY <1>5 DEF history
<1> QED
  BY <1>1, <1>2, <1>3, <1>4, <1>5 DEF HistoryStep

\* With one writer, every step of the history keeps HistoryInv.
LEMMA HistoryStep_Inv ==
    ASSUME HistoryInv, HistoryStep, OneWriter
    PROVE  HistoryInv'
<1> USE MessageHistoryAssumption
<1>0. HistoryTypeOK'
  BY HistoryStep_Type DEF HistoryInv
<1>1. CASE \E c \in Conn : Accept(c) /\ now' = now
  <2> PICK c \in Conn : Accept(c) /\ now' = now
    BY <1>1
  <2>1. Accepted \notin Message
    BY DEF Accepted, Message
  <2>2. Inserted' = Inserted /\ \A d \in Inserted : inHand'[d] = inHand[d]
    BY <2>1 DEF Inserted, Accept, HistoryInv, HistoryTypeOK
  <2> QED
    BY <1>0, <2>2 DEF Accept, HistoryInv, HistoryTypeOK, NoSkip
<1>2. CASE \E c \in Conn : Insert(c, now) /\ now' = now
  <2> PICK c \in Conn : Insert(c, now) /\ now' = now
    BY <1>2
  <2> DEFINE new == [id |-> lastId + 1, at |-> now]
  <2>1. new \in Message /\ lastId' = lastId + 1 /\ lastId' \in 0 .. MaxId
    BY DEF Insert, HistoryInv, HistoryTypeOK, Message
  <2>2. inHand'[c] = new
    BY DEF Insert, HistoryInv, HistoryTypeOK
  <2>3. Inserted' = {c}
    BY <2>1 DEF Inserted, Insert, HistoryInv, HistoryTypeOK
  <2>4. \A m \in table : m.id < new.id /\ m.at <= new.at /\ m.id <= lastId'
    BY <2>1 DEF HistoryInv, HistoryTypeOK, Message
  <2>5. new.id = lastId' /\ new.at = now /\ cursor < new.id
    BY <2>1 DEF HistoryInv, HistoryTypeOK
  <2> QED
    BY <1>0, <2>2, <2>3, <2>4, <2>5 DEF Insert, HistoryInv, HistoryTypeOK, NoSkip
<1>3. CASE \E c \in Conn : Commit(c) /\ now' = now
  <2> PICK c \in Conn : Commit(c) /\ now' = now
    BY <1>3
  <2>1. c \in Inserted /\ inHand[c] \in Message /\ table' = table \cup {inHand[c]}
    BY DEF Commit, Inserted
  <2>2. Inserted' = {}
    BY <2>1 DEF Commit, Inserted, HistoryInv, HistoryTypeOK
  <2>3. IsFiniteSet(table')
    BY <2>1, FS_AddElement DEF HistoryInv
  <2>4. /\ \A m \in table' : m.id <= lastId' /\ m.at <= now'
        /\ \A m, n \in table' : m.id < n.id => m.at <= n.at
        /\ \A m, n \in table' : m.id = n.id => m = n
    BY <2>1 DEF Commit, HistoryInv, HistoryTypeOK, Message
  <2>5. NoSkip'
    BY <2>1 DEF Commit, HistoryInv, HistoryTypeOK, Message, NoSkip
  <2> QED
    BY <1>0, <2>2, <2>3, <2>4, <2>5 DEF Commit, HistoryInv
<1>4. CASE \E c \in Conn : Fail(c) /\ now' = now
  <2> PICK c \in Conn : Fail(c) /\ now' = now
    BY <1>4
  <2>1. Inserted' = Inserted \ {c} /\ \A d \in Inserted' : inHand'[d] = inHand[d]
    BY DEF Fail, Inserted, HistoryInv, HistoryTypeOK
  <2>2. CASE c \in Inserted
    <3>1. inHand[c].id \in 1 .. MaxId /\ lastId' = inHand[c].id - 1
      BY <2>2 DEF Fail, Inserted, Message
    <3>2. Inserted' = {}
      BY <2>1, <2>2 DEF HistoryInv
    <3>3. /\ \A m \in table : m.id <= lastId' /\ m.at <= now
          /\ cursor <= lastId'
      BY <2>2, <3>1 DEF HistoryInv, HistoryTypeOK, Message
    <3> QED
      BY <1>0, <3>2, <3>3 DEF Fail, HistoryInv, NoSkip
  <2>3. CASE c \notin Inserted
    BY <1>0, <2>1, <2>3 DEF Fail, HistoryInv, HistoryTypeOK, NoSkip
  <2> QED
    BY <2>2, <2>3
<1>5. CASE Poll /\ now' = now
  <2>1. PICK last \in Page : cursor' = last.id
    BY <1>5 DEF Poll
  <2>2. last \in table /\ last \in Message /\ cursor < last.id
    BY <2>1 DEF Page, Later, HistoryInv, HistoryTypeOK
  <2>3. seen' = seen \cup {m.id : m \in Page} /\ UNCHANGED <<lastId, inHand, table>>
    BY <1>5 DEF Poll
  <2>4. NoSkip'
    <3> SUFFICES ASSUME NEW m \in table', m.id <= cursor'
                 PROVE  m.id \in seen'
      BY DEF NoSkip
    <3>1. CASE m.id <= cursor
      BY <2>3, <3>1 DEF HistoryInv, NoSkip
    <3>2. CASE ~(m.id <= cursor)
      <4>1. m \in Later
        BY <2>3, <3>2 DEF Later, HistoryInv, HistoryTypeOK, Message
      <4>2. m \in Page
        BY <2>1, <4>1, PageHasNoGap
      <4> QED
        BY <2>3, <4>2
    <3> QED
      BY <3>1, <3>2
  <2>5. Inserted' = Inserted
    BY <2>3 DEF Inserted
  <2>6. cursor' <= lastId' /\ \A c \in Inserted : cursor' < inHand[c].id
    BY <2>1, <2>2, <2>3 DEF HistoryInv
  <2> QED
    BY <1>0, <1>5, <2>3, <2>4, <2>5, <2>6 DEF HistoryInv
<1>6. CASE now' = now + 1 /\ UNCHANGED history
  <2>1. Inserted' = Inserted
    BY <1>6 DEF Inserted, history
  <2>2. \A c \in Inserted : inHand[c].at \in Nat
    BY DEF Inserted, Message
  <2>3. \A m \in table : m.at \in Nat
    BY DEF HistoryInv, HistoryTypeOK, Message
  <2> QED
    BY <1>0, <1>6, <2>1, <2>2, <2>3 DEF history, HistoryInv, HistoryTypeOK, NoSkip
<1>7. CASE now' = now /\ UNCHANGED history
  <2>1. Inserted' = Inserted
    BY <1>7 DEF Inserted, history
  <2> QED
    BY <1>0, <1>7, <2>1 DEF history, HistoryInv, HistoryTypeOK, NoSkip
<1> QED
  BY <1>1, <1>2, <1>3, <1>4, <1>5, <1>6, <1>7 DEF HistoryStep

\* Every variable always holds a value of its type, however many write at once.
THEOREM TypeCorrect == Spec => []TypeOK
<1>1. Init => HistoryTypeOK
  BY MessageHistoryAssumption DEF Init, HistoryInit, HistoryTypeOK
<1>2. BucketInv /\ HistoryTypeOK /\ [Next]_vars => HistoryTypeOK'
  BY HistoryStep_Type, NextIsHistoryStep, TokenBucketAssumption DEF BucketInv, BucketTypeOK
<1>3. BucketInv /\ HistoryTypeOK => TypeOK
  BY DEF BucketInv, TypeOK
<1> QED
  BY <1>1, <1>2, <1>3, BucketInvariant, PTL DEF Spec

\* On SQLite no message is committed behind a reader's cursor and no page leaves
\* one out: what the run history_gap finds needs inserts that overlap, and no
\* other step of a sender, of the clock or of the reader makes a gap.
THEOREM NothingSkipped == OneWriter => (Spec => []NoSkip)
<1> SUFFICES ASSUME OneWriter PROVE Spec => []NoSkip
  OBVIOUS
<1>1. HistoryInv /\ [Next]_vars => HistoryInv'
  BY HistoryStep_Inv, NextIsHistoryStep
<1>2. HistoryInv => NoSkip
  BY DEF HistoryInv
<1> QED
  BY <1>1, <1>2, HistoryInit_Inv, PTL DEF Spec

-----------------------------------------------------------------------------
(* A reader that polls does not stop short of the end.                     *)

\* A set of numbers has a least one.
LEMMA LeastNumber ==
    ASSUME NEW T \in SUBSET Nat, T # {}
    PROVE  \E x \in T : \A y \in T : x <= y
<1>1. PICK x \in T : \A y \in T : <<y, x>> \notin OpToRel(<, Nat)
  <2> HIDE DEF OpToRel
  <2> QED
    BY NatLessThanWellFounded, WFMin, Zenon
<1>2. \A y \in T : ~(y < x)
  BY <1>1 DEF OpToRel
<1> QED
  BY <1>2

\* When something lies past the cursor, the page has its first message.
LEMMA PageIsNotEmpty ==
    ASSUME HistoryInv, Later # {}
    PROVE  Page # {}
<1>1. Later \subseteq table /\ \A m \in table : m.id \in Nat
  BY DEF Later, HistoryInv, HistoryTypeOK, Message
<1> DEFINE Ids == {m.id : m \in Later}
<1>2. Ids \in SUBSET Nat /\ Ids # {}
  BY <1>1
<1>3. PICK first \in Later : \A m \in Later : first.id <= m.id
  <2> HIDE DEF Ids
  <2>1. PICK x \in Ids : \A y \in Ids : x <= y
    BY <1>2, LeastNumber
  <2> QED
    BY <2>1 DEF Ids
<1>4. {n \in Later : Before(n, first)} = {}
  BY <1>1, <1>3, OrderOfIds
<1>5. Cardinality({n \in Later : Before(n, first)}) < LIMIT
  BY <1>4, FS_EmptySet, MessageHistoryAssumption
<1> QED
  BY <1>3, <1>5 DEF Page

\* A page that is not empty has a last message: the ids are in order.
LEMMA PageHasLast ==
    ASSUME HistoryInv, Page # {}
    PROVE  \E last \in Page : \A n \in Page \ {last} : Before(n, last)
<1>1. Page \subseteq table /\ \A m \in table : m.id \in 1 .. MaxId /\ MaxId - m.id \in Nat
  BY MessageHistoryAssumption DEF Page, Later, HistoryInv, HistoryTypeOK, Message
<1> DEFINE Distance == {MaxId - m.id : m \in Page}
<1>2. Distance \in SUBSET Nat /\ Distance # {}
  BY <1>1
<1>3. PICK last \in Page : \A n \in Page : MaxId - last.id <= MaxId - n.id
  <2> HIDE DEF Distance
  <2>1. PICK x \in Distance : \A y \in Distance : x <= y
    BY <1>2, LeastNumber
  <2> QED
    BY <2>1 DEF Distance
<1>4. \A n \in Page \ {last} : n.id < last.id
  <2> SUFFICES ASSUME NEW n \in Page \ {last} PROVE n.id < last.id
    OBVIOUS
  <2>1. n.id \in Nat /\ last.id \in Nat /\ n.id # last.id /\ MaxId \in Nat
    BY <1>1, MessageHistoryAssumption DEF HistoryInv
  <2> QED
    BY <1>3, <2>1
<1> QED
  BY <1>1, <1>4, OrderOfIds

\* As long as a stored message is unread, the reader's next poll returns a page,
\* and every poll that does moves the cursor forward. With ids that are bounded,
\* only the scheduling of the polls is then left to CatchesUp.
THEOREM ReadersAdvance ==
    OneWriter => (Spec => /\ [](\A m \in table : m.id \notin seen =>
                                   \E last \in Page : \A n \in Page \ {last} : Before(n, last))
                          /\ [][Read => cursor' > cursor]_vars)
<1> SUFFICES ASSUME OneWriter
             PROVE  Spec => /\ [](\A m \in table : m.id \notin seen =>
                                     \E last \in Page : \A n \in Page \ {last} : Before(n, last))
                            /\ [][Read => cursor' > cursor]_vars
  OBVIOUS
<1>1. HistoryInv /\ [Next]_vars => HistoryInv'
  BY HistoryStep_Inv, NextIsHistoryStep
<1>2. HistoryInv => \A m \in table : m.id \notin seen =>
                       \E last \in Page : \A n \in Page \ {last} : Before(n, last)
  <2> SUFFICES ASSUME HistoryInv, NEW m \in table, m.id \notin seen
               PROVE  \E last \in Page : \A n \in Page \ {last} : Before(n, last)
    OBVIOUS
  <2>1. m \in Later
    BY DEF Later, HistoryInv, NoSkip, HistoryTypeOK, Message
  <2> QED
    BY <2>1, PageIsNotEmpty, PageHasLast
<1>3. HistoryInv => [Read => cursor' > cursor]_vars
  <2> SUFFICES ASSUME HistoryInv, Read PROVE cursor' > cursor
    OBVIOUS
  <2>1. PICK last \in Page : cursor' = last.id
    BY DEF Read, Poll
  <2> QED
    BY <2>1 DEF Page, Later, HistoryInv, HistoryTypeOK, Message
<1> QED
  BY <1>1, <1>2, <1>3, HistoryInit_Inv, PTL DEF Spec
=============================================================================
