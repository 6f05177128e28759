----------------------------- MODULE ChatProofs -----------------------------
(***************************************************************************)
(* For any workers, connections and number of messages: the rooms hold the *)
(* live connections, nobody is sent a message more often than once by its  *)
(* sender's worker and once by the relay, and no recipient is forgotten.   *)
(***************************************************************************)
EXTENDS Chat, SequenceTheorems, TLAPS

-----------------------------------------------------------------------------
(* Sequences without duplicates. *)

Elements(s) == {s[i] : i \in 1 .. Len(s)}

Distinct(s) == \A i, j \in 1 .. Len(s) : s[i] = s[j] => i = j

\* Appending something new keeps the elements of a sequence distinct.
LEMMA AppendDistinct ==
    ASSUME NEW S, NEW s \in Seq(S), NEW e \in S, Distinct(s), e \notin Elements(s)
    PROVE  /\ Append(s, e) \in Seq(S)
           /\ Distinct(Append(s, e))
           /\ Elements(Append(s, e)) = Elements(s) \cup {e}
<1>1. Len(s) \in Nat /\ Len(Append(s, e)) = Len(s) + 1 /\ Append(s, e) \in Seq(S)
  BY AppendProperties, LenProperties
<1>2. /\ \A i \in 1 .. Len(s) : Append(s, e)[i] = s[i]
      /\ Append(s, e)[Len(s) + 1] = e
  BY AppendProperties
<1> QED
  BY <1>1, <1>2 DEF Elements, Distinct

\* The tail of such a sequence lacks its head.
LEMMA TailDistinct ==
    ASSUME NEW S, NEW s \in Seq(S), s # <<>>, Distinct(s)
    PROVE  /\ Head(s) \in S /\ Head(s) \in Elements(s)
           /\ Tail(s) \in Seq(S)
           /\ Distinct(Tail(s))
           /\ Elements(Tail(s)) = Elements(s) \ {Head(s)}
<1>1. /\ Len(s) \in Nat \ {0} /\ Len(Tail(s)) = Len(s) - 1
      /\ Tail(s) \in Seq(S) /\ Head(s) \in S /\ Head(s) = s[1]
  BY HeadTailProperties, EmptySeq, LenProperties
<1>2. \A i \in 1 .. Len(s) - 1 : Tail(s)[i] = s[i + 1]
  BY <1>1, HeadTailProperties
<1>3. \A i \in 2 .. Len(s) : i - 1 \in 1 .. Len(s) - 1 /\ Tail(s)[i - 1] = s[i]
  BY <1>1, <1>2
<1> QED
  BY <1>1, <1>2, <1>3 DEF Elements, Distinct

\* A prefix keeps the elements distinct.
LEMMA PrefixDistinct ==
    ASSUME NEW S, NEW s \in Seq(S), NEW n \in 0 .. Len(s), Distinct(s)
    PROVE  /\ SubSeq(s, 1, n) \in Seq(S)
           /\ Distinct(SubSeq(s, 1, n))
           /\ Elements(SubSeq(s, 1, n)) \subseteq Elements(s)
<1>1. Len(s) \in Nat /\ \A i \in 1 .. n : s[i] \in S
  BY LenProperties, ElementOfSeq
<1>2. /\ SubSeq(s, 1, n) \in Seq(S)
      /\ Len(SubSeq(s, 1, n)) = n
      /\ \A i \in 1 .. n : SubSeq(s, 1, n)[i] = s[i]
  BY <1>1, SubSeqProperties
<1> QED
  BY <1>1, <1>2 DEF Elements, Distinct

-----------------------------------------------------------------------------
(* The message that a handler is sending. *)

Sending == {"broadcast", "publish"}

\* The last message of a handler that has still to publish it.
Unpublished(m) ==
    /\ m \in 1 .. Len(messages)
    /\ phase[messages[m]] \in Sending
    /\ \A n \in 1 .. Len(messages) : messages[n] = messages[m] => n <= m

SendersHaveMessage ==
    \A c \in Conn : phase[c] \in Sending => \E m \in Id : Unpublished(m) /\ messages[m] = c

\* The sender of a stored message is a connection.
LEMMA MessagesType ==
    ASSUME TypeOK
    PROVE  /\ Len(messages) \in Nat /\ DOMAIN messages = 1 .. Len(messages)
           /\ 1 .. Len(messages) \subseteq Id
           /\ \A m \in 1 .. Len(messages) : messages[m] \in Conn
<1>1. Len(messages) \in Nat /\ DOMAIN messages = 1 .. Len(messages)
  BY LenProperties DEF TypeOK
<1>2. \A m \in 1 .. Len(messages) : messages[m] \in Conn
  BY ElementOfSeq DEF TypeOK
<1>3. 1 .. Len(messages) \subseteq 1 .. MaxMessage
  BY <1>1, ChatAssumption DEF TypeOK
<1> QED
  BY <1>1, <1>2, <1>3 DEF Id

\* What a handler broadcasts is a message of its own, stored and not yet published.
LEMMA CurrentIsUnpublished ==
    ASSUME TypeOK, SendersHaveMessage, NEW c \in Conn, phase[c] \in Sending
    PROVE  /\ Current(c) \in Id /\ Unpublished(Current(c)) /\ messages[Current(c)] = c
           /\ \A m : Unpublished(m) /\ messages[m] = c => m = Current(c)
<1> DEFINE IsLast(m) == /\ messages[m] = c
                        /\ \A n \in DOMAIN messages : messages[n] = c => n <= m
<1>1. PICK m \in Id : Unpublished(m) /\ messages[m] = c
  BY DEF SendersHaveMessage
<1>2. m \in DOMAIN messages /\ IsLast(m)
  BY <1>1, MessagesType DEF Unpublished
<1>3. Current(c) = CHOOSE k \in DOMAIN messages : IsLast(k)
  BY Zenon DEF Current
<1>4. Current(c) \in DOMAIN messages /\ IsLast(Current(c))
  <2> HIDE DEF IsLast
  <2> QED
    BY <1>2, <1>3, Zenon
<1>5. Unpublished(Current(c)) /\ Current(c) \in Id
  BY <1>4, MessagesType DEF Unpublished
<1>6. \A k : Unpublished(k) /\ messages[k] = c => k = Current(c)
  <2> SUFFICES ASSUME NEW k, Unpublished(k), messages[k] = c PROVE k = Current(c)
    OBVIOUS
  <2>1. k \in 1 .. Len(messages) /\ Current(c) \in 1 .. Len(messages)
    BY <1>5 DEF Unpublished
  <2>2. k <= Current(c) /\ Current(c) <= k
    BY <1>4, <2>1, MessagesType DEF Unpublished
  <2> QED
    BY <2>1, <2>2, MessagesType
<1> QED
  BY <1>4, <1>5, <1>6

-----------------------------------------------------------------------------
(* The inductive invariant: what may still be sent to d of message m, by   *)
(* the broadcast of its sender's worker and by the relay of d's own.       *)

Members(w) == {c \in Conn : WorkerOf[c] = w}

Local(d, m) == IF Unpublished(m) /\ d \in todo[messages[m]] THEN 1 ELSE 0

Remote(d, m) ==
    IF \/ Unpublished(m)
       \/ m \in Elements(channel[WorkerOf[d]])
       \/ d \in relay[WorkerOf[d]][m]
    THEN 1 ELSE 0

Allowed(d, m) == IF WorkerOf[d] = WorkerOf[messages[m]] THEN 2 ELSE 1

PlacesInv ==
    /\ \A w \in Worker : rooms[w] \subseteq Members(w)
    /\ \A c \in Conn : todo[c] \subseteq Members(WorkerOf[c])
    /\ \A w \in Worker : \A m \in Id : relay[w][m] \subseteq Members(w)

\* A message is unpublished, queued for a worker or being relayed by it, in this
\* order and never two of them.
ChannelInv ==
    /\ \A w \in Worker : Distinct(channel[w])
    /\ \A w \in Worker : \A m \in Elements(channel[w]) :
          m \in 1 .. Len(messages) /\ ~Unpublished(m) /\ relay[w][m] = {}
    /\ \A w \in Worker : \A m \in Id :
          relay[w][m] # {} => m \in 1 .. Len(messages) /\ ~Unpublished(m)

CountInv ==
    \A d \in Conn : \A m \in Id :
        IF m \in 1 .. Len(messages)
        THEN got[d][m] + Local(d, m) + Remote(d, m) <= Allowed(d, m)
        ELSE got[d][m] = 0

ChatInv == TypeOK /\ SendersHaveMessage /\ PlacesInv /\ ChannelInv /\ CountInv

\* The empty system satisfies ChatInv.
LEMMA Init_Inv == Init => ChatInv
<1> SUFFICES ASSUME Init PROVE ChatInv
  OBVIOUS
<1>1. TypeOK
  BY ChatAssumption, EmptySeq DEF Init, TypeOK, Active, NoRelay
<1>2. Len(messages) = 0 /\ \A w \in Worker : Len(channel[w]) = 0
  BY EmptySeq DEF Init
<1>3. \A w \in Worker : Elements(channel[w]) = {} /\ Distinct(channel[w])
  <2>1. 1 .. 0 = {}
    OBVIOUS
  <2> QED
    BY <1>2, <2>1 DEF Elements, Distinct
<1>4. SendersHaveMessage /\ PlacesInv /\ CountInv
  BY <1>2 DEF Init, SendersHaveMessage, Sending, PlacesInv, CountInv, NoRelay
<1>5. ChannelInv
  BY <1>3 DEF ChannelInv, Init, NoRelay
<1> QED
  BY <1>1, <1>4, <1>5 DEF ChatInv

\* A step that sends nothing and only forgets what was to be sent.
Forgets ==
    /\ UNCHANGED <<messages, got>>
    /\ \A c \in Conn : phase'[c] \in Sending => phase[c] \in Sending
    /\ \A c \in Conn : todo'[c] \subseteq todo[c]
    /\ \A w \in Worker : rooms'[w] \subseteq Members(w)
    /\ \A w \in Worker : \A m \in Id : relay'[w][m] \subseteq relay[w][m]
    /\ \A w \in Worker : Distinct(channel'[w]) /\ Elements(channel'[w]) \subseteq Elements(channel[w])

\* A step that only forgets (recipients, queued messages, connections) keeps what ChatInv counts.
LEMMA Forgets_Inv ==
    ASSUME ChatInv, TypeOK', Forgets
    PROVE  ChatInv'
<1>1. /\ Len(messages') = Len(messages) /\ 1 .. Len(messages) \subseteq Id
      /\ \A m \in 1 .. Len(messages) : messages[m] \in Conn
  BY MessagesType DEF ChatInv, Forgets
<1>2. \A m : Unpublished(m)' => Unpublished(m)
  BY <1>1 DEF Forgets, Unpublished
<1>3. SendersHaveMessage'
  BY <1>1 DEF SendersHaveMessage, ChatInv, Forgets, Unpublished
<1>4. PlacesInv'
  BY DEF PlacesInv, ChatInv, Forgets, Members
<1>5. ChannelInv'
  BY <1>1, <1>2 DEF ChannelInv, ChatInv, Forgets
<1>6. \A d \in Conn : \A m \in 1 .. Len(messages) :
          Local(d, m)' <= Local(d, m) /\ Remote(d, m)' <= Remote(d, m)
  <2> SUFFICES ASSUME NEW d \in Conn, NEW m \in 1 .. Len(messages)
               PROVE  Local(d, m)' <= Local(d, m) /\ Remote(d, m)' <= Remote(d, m)
    OBVIOUS
  <2>1. WorkerOf[d] \in Worker /\ m \in Id /\ messages[m] \in Conn
    BY <1>1, ChatAssumption
  <2>2. Local(d, m)' <= Local(d, m)
    BY <1>2, <2>1 DEF Local, Forgets
  <2>3. Remote(d, m)' <= Remote(d, m)
    <3>1. /\ Elements(channel'[WorkerOf[d]]) \subseteq Elements(channel[WorkerOf[d]])
          /\ relay'[WorkerOf[d]][m] \subseteq relay[WorkerOf[d]][m]
      BY <2>1 DEF Forgets
    <3>2. Remote(d, m) = 0 => Remote(d, m)' = 0
      BY <1>2, <3>1, Zenon DEF Remote
    <3>3. Remote(d, m) \in {0, 1} /\ Remote(d, m)' \in {0, 1}
      BY DEF Remote
    <3> QED
      BY <3>2, <3>3
  <2> QED
    BY <2>2, <2>3
<1>7. CountInv'
  <2> SUFFICES ASSUME NEW d \in Conn, NEW m \in Id, m \in 1 .. Len(messages)
               PROVE  (got[d][m] + Local(d, m) + Remote(d, m) <= Allowed(d, m))'
    BY <1>1 DEF CountInv, ChatInv, Forgets
  <2>1. got[d][m] \in Nat /\ got[d][m] + Local(d, m) + Remote(d, m) <= Allowed(d, m)
    BY DEF CountInv, ChatInv, TypeOK
  <2>2. Local(d, m) \in {0, 1} /\ Remote(d, m) \in {0, 1} /\ Allowed(d, m) \in {1, 2}
        /\ Local(d, m)' \in {0, 1} /\ Remote(d, m)' \in {0, 1}
    BY DEF Local, Remote, Allowed
  <2>3. Allowed(d, m)' = Allowed(d, m) /\ got' = got
    BY DEF Allowed, Forgets
  <2> QED
    BY <1>6, <2>1, <2>2, <2>3
<1> QED
  BY <1>3, <1>4, <1>5, <1>7 DEF ChatInv

-----------------------------------------------------------------------------
(* Types. *)

\* Every step keeps the types.
LEMMA Step_Type ==
    ASSUME TypeOK, SendersHaveMessage, PlacesInv, ChannelInv, [Next]_vars
    PROVE  TypeOK'
<1> USE ChatAssumption DEF TypeOK, Active
<1>1. ASSUME NEW c \in Conn, Connect(c) \/ ClientLeaves(c) \/ Leave(c)
      PROVE  TypeOK'
  <2>1. CASE Connect(c)
    BY <2>1 DEF Connect
  <2>2. CASE ClientLeaves(c)
    BY <2>2 DEF ClientLeaves
  <2>3. CASE Leave(c)
    BY <2>3 DEF Leave
  <2> QED
    BY <1>1, <2>1, <2>2, <2>3
<1>2. ASSUME NEW c \in Conn, Receive(c) \/ ReceiveUnreported(c)
      PROVE  TypeOK'
  <2>1. messages' \in Seq(Conn) /\ Len(messages') <= MaxMessage
    <3>1. messages' = Append(messages, c) /\ Len(messages) < MaxMessage
      BY <1>2 DEF Receive, ReceiveUnreported
    <3>2. Len(messages) \in Nat /\ Len(Append(messages, c)) = Len(messages) + 1
          /\ Append(messages, c) \in Seq(Conn)
      BY AppendProperties, LenProperties
    <3> QED
      BY <3>1, <3>2
  <2>2. rooms[WorkerOf[c]] \in SUBSET Conn
    OBVIOUS
  <2> QED
    BY <1>2, <2>1, <2>2 DEF Receive, ReceiveUnreported
<1>3. ASSUME NEW d \in Conn, NEW m \in Id
      PROVE  Sent(d, m) \in [Conn -> [Id -> Nat]]
  <2>1. [got[d] EXCEPT ![m] = @ + 1] \in [Id -> Nat]
    OBVIOUS
  <2>2. [got EXCEPT ![d][m] = @ + 1] = [got EXCEPT ![d] = [got[d] EXCEPT ![m] = @ + 1]]
    OBVIOUS
  <2> QED
    BY <2>1, <2>2 DEF Sent
<1>4. ASSUME NEW c \in Conn, NEW d \in Conn, Send(c, d)
      PROVE  TypeOK'
  <2>1. Current(c) \in Id
    BY <1>4, CurrentIsUnpublished DEF Send, Sending
  <2> QED
    BY <1>3, <1>4, <2>1 DEF Send
<1>5. ASSUME NEW c \in Conn, EndBroadcast(c)
      PROVE  TypeOK'
  BY <1>5 DEF EndBroadcast
<1>6. ASSUME NEW c \in Conn, Publish(c)
      PROVE  TypeOK'
  <2>1. Current(c) \in Id
    BY <1>6, CurrentIsUnpublished DEF Publish, Sending
  <2>2. \A w \in Worker : Append(channel[w], Current(c)) \in Seq(Id)
    BY <2>1, AppendProperties
  <2>3. channel' \in [Worker -> Seq(Id)]
    BY <1>6, <2>2 DEF Publish
  <2> QED
    BY <1>6, <2>3 DEF Publish
<1>7. ASSUME NEW w \in Worker, Subscribe(w)
      PROVE  TypeOK'
  BY <1>7 DEF Subscribe
<1>8. ASSUME NEW w \in Worker, SubscriberDrops(w)
      PROVE  TypeOK'
  <2> PICK n \in 0 .. Len(channel[w]) : channel' = [channel EXCEPT ![w] = SubSeq(@, 1, n)]
    BY <1>8 DEF SubscriberDrops
  <2>1. SubSeq(channel[w], 1, n) \in Seq(Id)
    BY PrefixDistinct DEF ChannelInv
  <2> QED
    BY <1>8, <2>1 DEF SubscriberDrops
<1>9. ASSUME NEW w \in Worker, Relay(w)
      PROVE  TypeOK'
  <2>1. Tail(channel[w]) \in Seq(Id) /\ Head(channel[w]) \in Id
    BY <1>9, HeadTailProperties DEF Relay
  <2> QED
    BY <1>9, <2>1 DEF Relay
<1>10. ASSUME NEW w \in Worker, NEW m \in Id, NEW d \in Conn, SendRelay(w, m, d)
       PROVE  TypeOK'
  BY <1>3, <1>10 DEF SendRelay
<1>11. ASSUME NEW w \in Worker, WorkerDies(w)
       PROVE  TypeOK'
  BY <1>11, EmptySeq DEF WorkerDies, NoRelay
<1>12. CASE UNCHANGED vars
  BY <1>12 DEF vars
<1> QED
  BY <1>1, <1>2, <1>4, <1>5, <1>6, <1>7, <1>8, <1>9, <1>10, <1>11, <1>12
     DEF Next, Handler, Subscriber

-----------------------------------------------------------------------------
(* The steps that only forget. *)

\* The steps that only forget keep ChatInv.
LEMMA StepsThatForget ==
    ASSUME ChatInv, TypeOK',
           \/ \E c \in Conn : Connect(c) \/ ClientLeaves(c) \/ Leave(c) \/ EndBroadcast(c)
           \/ \E w \in Worker : Subscribe(w) \/ SubscriberDrops(w) \/ WorkerDies(w)
           \/ UNCHANGED vars
    PROVE  ChatInv'
<1> USE ChatAssumption DEF ChatInv, Sending, Members
<1>0. /\ \A w \in Worker : Distinct(channel[w]) /\ rooms[w] \subseteq Members(w)
      /\ channel \in [Worker -> Seq(Id)] /\ phase \in [Conn -> Active \cup {"new", "gone"}]
      /\ rooms \in [Worker -> SUBSET Conn] /\ todo \in [Conn -> SUBSET Conn]
      /\ relay \in [Worker -> [Id -> SUBSET Conn]]
  BY DEF ChannelInv, PlacesInv, TypeOK
<1>1. ASSUME NEW c \in Conn, Connect(c) \/ ClientLeaves(c) \/ Leave(c) \/ EndBroadcast(c)
      PROVE  Forgets
  BY <1>0, <1>1 DEF Connect, ClientLeaves, Leave, EndBroadcast, Forgets
<1>2. ASSUME NEW w \in Worker, Subscribe(w)
      PROVE  Forgets
  BY <1>0, <1>2 DEF Subscribe, Forgets
<1>3. ASSUME NEW w \in Worker, SubscriberDrops(w)
      PROVE  Forgets
  <2> PICK n \in 0 .. Len(channel[w]) : channel' = [channel EXCEPT ![w] = SubSeq(@, 1, n)]
    BY <1>3 DEF SubscriberDrops
  <2>1. Distinct(SubSeq(channel[w], 1, n))
        /\ Elements(SubSeq(channel[w], 1, n)) \subseteq Elements(channel[w])
    BY <1>0, PrefixDistinct
  <2>2. \A v \in Worker : Distinct(channel'[v]) /\ Elements(channel'[v]) \subseteq Elements(channel[v])
    BY <1>0, <2>1
  <2> QED
    BY <1>0, <1>3, <2>2 DEF SubscriberDrops, Forgets
<1>4. ASSUME NEW w \in Worker, WorkerDies(w)
      PROVE  Forgets
  <2>1. Distinct(<<>>) /\ Elements(<<>>) = {}
    BY EmptySeq DEF Distinct, Elements
  <2>2. channel' = [channel EXCEPT ![w] = <<>>]
    BY <1>4 DEF WorkerDies
  <2>3. \A v \in Worker : Distinct(channel'[v]) /\ Elements(channel'[v]) \subseteq Elements(channel[v])
    BY <1>0, <2>1, <2>2
  <2>4. /\ UNCHANGED <<messages, got>>
        /\ \A c \in Conn : phase'[c] \in {phase[c], "gone"}
        /\ \A c \in Conn : todo'[c] \in {todo[c], {}}
        /\ \A v \in Worker : rooms'[v] \in {rooms[v], {}}
        /\ \A v \in Worker : \A m \in Id : relay'[v][m] \in {relay[v][m], {}}
    BY <1>0, <1>4 DEF WorkerDies, NoRelay
  <2> QED
    BY <1>0, <2>3, <2>4 DEF Forgets
<1>5. ASSUME UNCHANGED vars
      PROVE  Forgets
  BY <1>0, <1>5 DEF vars, Forgets
<1> QED
  BY <1>1, <1>2, <1>3, <1>4, <1>5, Forgets_Inv

-----------------------------------------------------------------------------
(* The steps that take a message on its way. *)

\* The two ways in which a message may still come count at most one each.
LEMMA Bits ==
    \A d, m : /\ Local(d, m) \in {0, 1} /\ Remote(d, m) \in {0, 1} /\ Allowed(d, m) \in {1, 2}
              /\ Local(d, m)' \in {0, 1} /\ Remote(d, m)' \in {0, 1} /\ Allowed(d, m)' \in {1, 2}
  BY DEF Local, Remote, Allowed

\* A new message; its sender had none on the way.
LEMMA Receive_Inv ==
    ASSUME ChatInv, TypeOK', NEW c \in Conn, Receive(c) \/ ReceiveUnreported(c)
    PROVE  ChatInv'
<1> USE ChatAssumption
<1>0. Len(messages) + 1 \in Nat
  BY MessagesType DEF ChatInv
<1> PICK new \in Nat : new = Len(messages) + 1
  BY <1>0
<1>1. /\ messages' = Append(messages, c) /\ phase[c] = "open"
      /\ UNCHANGED <<rooms, channel, relay, got>>
      /\ \A x \in Conn \ {c} : phase'[x] = phase[x] /\ todo'[x] = todo[x]
      /\ todo'[c] \in {todo[c], rooms[WorkerOf[c]]}
      /\ phase'[c] \in {"open", "broadcast"}
  BY DEF Receive, ReceiveUnreported, ChatInv, TypeOK
<1>2. /\ Len(messages) \in Nat /\ Len(messages') = new /\ messages'[new] = c
      /\ \A n \in 1 .. Len(messages) : messages'[n] = messages[n] /\ messages[n] \in Conn
      /\ 1 .. new \subseteq Id
  <2>1. messages \in Seq(Conn)
    BY DEF ChatInv, TypeOK
  <2>2. Len(messages') \in Nat /\ Len(messages') <= MaxMessage
    BY LenProperties DEF TypeOK
  <2> QED
    BY <1>1, <2>1, <2>2, AppendProperties, MessagesType DEF ChatInv, Id
<1>3. \A m \in 1 .. Len(messages) : Unpublished(m)' <=> Unpublished(m)
  <2> SUFFICES ASSUME NEW m \in 1 .. Len(messages) PROVE Unpublished(m)' <=> Unpublished(m)
    OBVIOUS
  <2>1. CASE messages[m] = c
    BY <1>1, <1>2, <2>1 DEF Unpublished, Sending
  <2>2. CASE messages[m] # c
    BY <1>1, <1>2, <2>2 DEF Unpublished
  <2> QED
    BY <2>1, <2>2
<1>4. phase'[c] \in Sending => Unpublished(new)'
  BY <1>2 DEF Unpublished
<1>5. SendersHaveMessage'
  <2> SUFFICES ASSUME NEW x \in Conn, phase'[x] \in Sending
               PROVE  \E m \in Id : Unpublished(m)' /\ messages'[m] = x
    BY DEF SendersHaveMessage
  <2>1. CASE x = c
    BY <1>2, <1>4, <2>1
  <2>2. CASE x # c
    <3>1. PICK m \in Id : Unpublished(m) /\ messages[m] = x
      BY <1>1, <2>2 DEF ChatInv, SendersHaveMessage
    <3>2. m \in 1 .. Len(messages)
      BY <3>1 DEF Unpublished
    <3> QED
      BY <1>2, <1>3, <3>1, <3>2
  <2> QED
    BY <2>1, <2>2
<1>6. PlacesInv'
  BY <1>1 DEF ChatInv, PlacesInv, Members
<1>7. ChannelInv'
  BY <1>1, <1>2, <1>3 DEF ChatInv, ChannelInv
<1>8. CountInv'
  <2> SUFFICES ASSUME NEW d \in Conn, NEW m \in Id
               PROVE  IF m \in 1 .. new
                      THEN got[d][m] + Local(d, m)' + Remote(d, m)' <= Allowed(d, m)'
                      ELSE got[d][m] = 0
    BY <1>1, <1>2 DEF CountInv
  <2>0. got[d][m] \in Nat
    BY DEF ChatInv, TypeOK
  <2>1. CASE m \in 1 .. Len(messages)
    <3>1. Local(d, m)' = Local(d, m)
      BY <1>1, <1>2, <1>3, <2>1 DEF Local, Unpublished, Sending
    <3>2. Remote(d, m)' = Remote(d, m) /\ Allowed(d, m)' = Allowed(d, m)
      BY <1>1, <1>2, <1>3, <2>1 DEF Remote, Allowed
    <3> QED
      BY <1>2, <2>1, <3>1, <3>2 DEF ChatInv, CountInv
  <2>2. CASE m = new
    <3>1. got[d][m] = 0
      BY <1>2, <2>2 DEF ChatInv, CountInv
    <3>2. Local(d, m)' = 1 => Allowed(d, m)' = 2
      BY <1>1, <1>2, <2>2 DEF Local, Allowed, ChatInv, PlacesInv, Members
    <3> QED
      BY <1>2, <2>2, <3>1, <3>2, Bits
  <2>3. CASE m \notin 1 .. new
    BY <1>2, <2>3 DEF ChatInv, CountInv
  <2> QED
    BY <1>2, <2>1, <2>2, <2>3
<1> QED
  BY <1>5, <1>6, <1>7, <1>8 DEF ChatInv

\* One recipient of a broadcast less, who may have been sent the message.
LEMMA Send_Inv ==
    ASSUME ChatInv, TypeOK', NEW c \in Conn, NEW d \in Conn, Send(c, d)
    PROVE  ChatInv'
<1> USE ChatAssumption
<1> DEFINE m == Current(c)
<1>1. /\ phase[c] \in Sending /\ d \in todo[c] /\ got' = Sent(d, m)
      /\ UNCHANGED <<messages, rooms, phase, channel, relay>>
      /\ \A x \in Conn : todo'[x] = IF x = c THEN todo[x] \ {d} ELSE todo[x]
  BY DEF Send, ChatInv, TypeOK, Sending
<1>2. /\ m \in Id /\ m \in 1 .. Len(messages) /\ Unpublished(m) /\ messages[m] = c
      /\ \A n : Unpublished(n) /\ messages[n] = c => n = m
  BY <1>1, CurrentIsUnpublished DEF ChatInv, Unpublished
<1> HIDE DEF m
<1>3. \A n : Unpublished(n)' <=> Unpublished(n)
  BY <1>1 DEF Unpublished
<1>4. SendersHaveMessage' /\ PlacesInv' /\ ChannelInv'
  <2>1. SendersHaveMessage'
    BY <1>1, <1>3 DEF ChatInv, SendersHaveMessage
  <2>2. PlacesInv'
    BY <1>1 DEF ChatInv, PlacesInv, Members
  <2>3. ChannelInv'
    BY <1>1, <1>3 DEF ChatInv, ChannelInv
  <2> QED
    BY <2>1, <2>2, <2>3
<1>5. CountInv'
  <2> SUFFICES ASSUME NEW x \in Conn, NEW n \in Id
               PROVE  IF n \in 1 .. Len(messages)
                      THEN got'[x][n] + Local(x, n)' + Remote(x, n)' <= Allowed(x, n)'
                      ELSE got'[x][n] = 0
    BY <1>1 DEF CountInv
  <2>1. got[x][n] \in Nat /\ got'[x][n] \in Nat
    BY DEF ChatInv, TypeOK
  <2>2. Remote(x, n)' = Remote(x, n) /\ Allowed(x, n)' = Allowed(x, n)
    BY <1>1, <1>3 DEF Remote, Allowed
  <2>3. CASE x = d /\ n = m
    <3>1. got'[x][n] <= got[x][n] + 1
      BY <1>1, <2>1, <2>3 DEF Sent, ChatInv, TypeOK
    <3>2. Local(x, n) = 1 /\ Local(x, n)' = 0
      BY <1>1, <1>2, <2>3 DEF Local
    <3> QED
      BY <1>1, <1>2, <2>1, <2>2, <2>3, <3>1, <3>2, Bits DEF ChatInv, CountInv
  <2>4. CASE ~(x = d /\ n = m)
    <3>1. got'[x][n] = got[x][n]
      BY <1>1, <1>2, <2>4 DEF Sent, ChatInv, TypeOK
    <3>2. Local(x, n)' = 0 \/ Local(x, n)' = Local(x, n)
      <4>1. CASE ~Unpublished(n)
        BY <1>3, <4>1 DEF Local
      <4>2. CASE Unpublished(n)
        <5>1. messages[n] \in Conn
          BY <4>2, MessagesType DEF Unpublished, ChatInv
        <5> QED
          BY <1>1, <1>2, <1>3, <2>4, <4>2, <5>1 DEF Local
      <4> QED
        BY <4>1, <4>2
    <3> QED
      BY <2>1, <2>2, <3>1, <3>2, Bits DEF ChatInv, CountInv
  <2> QED
    BY <2>3, <2>4
<1> QED
  BY <1>4, <1>5 DEF ChatInv

\* The handler's message goes from unpublished to the queues, or is lost.
LEMMA Publish_Inv ==
    ASSUME ChatInv, TypeOK', NEW c \in Conn, Publish(c)
    PROVE  ChatInv'
<1> USE ChatAssumption
<1> PICK m \in Id : m = Current(c) /\ Unpublished(m) /\ messages[m] = c
  BY CurrentIsUnpublished DEF Publish, Sending, ChatInv
<1>1. /\ UNCHANGED <<messages, rooms, todo, relay, got>>
      /\ \A x \in Conn : phase'[x] = IF x = c THEN "open" ELSE phase[x]
      /\ \A w \in Worker : channel'[w] \in {channel[w], Append(channel[w], m)}
  BY DEF Publish, ChatInv, TypeOK
<1>2. \A n : Unpublished(n)' <=> Unpublished(n) /\ n # m
  <2>1. \A n : Unpublished(n) /\ messages[n] = c => n = m
    BY CurrentIsUnpublished DEF Publish, Sending, ChatInv
  <2>2. \A n \in 1 .. Len(messages) : messages[n] \in Conn
    BY MessagesType DEF ChatInv
  <2> QED
    BY <1>1, <2>1, <2>2 DEF Unpublished, Sending
<1>3. m \in 1 .. Len(messages)
  BY DEF Unpublished
<1>4. \A w \in Worker : /\ Distinct(channel'[w])
                        /\ Elements(channel'[w]) \subseteq Elements(channel[w]) \cup {m}
  <2> SUFFICES ASSUME NEW w \in Worker
               PROVE  /\ Distinct(channel'[w])
                      /\ Elements(channel'[w]) \subseteq Elements(channel[w]) \cup {m}
    OBVIOUS
  <2>1. channel[w] \in Seq(Id) /\ Distinct(channel[w]) /\ m \notin Elements(channel[w])
    BY DEF ChatInv, ChannelInv, TypeOK
  <2>2. /\ Distinct(Append(channel[w], m))
        /\ Elements(Append(channel[w], m)) = Elements(channel[w]) \cup {m}
    BY <2>1, AppendDistinct
  <2> QED
    BY <1>1, <2>1, <2>2
<1>5. SendersHaveMessage'
  BY <1>1, <1>2 DEF ChatInv, SendersHaveMessage, Sending
<1>6. PlacesInv'
  BY <1>1 DEF ChatInv, PlacesInv, Members
<1>7. \A w \in Worker : relay[w][m] = {}
  BY DEF ChatInv, ChannelInv
<1>8. ChannelInv'
  BY <1>1, <1>2, <1>3, <1>4, <1>7 DEF ChatInv, ChannelInv
<1>9. CountInv'
  <2> SUFFICES ASSUME NEW d \in Conn, NEW n \in Id, n \in 1 .. Len(messages)
               PROVE  got[d][n] + Local(d, n)' + Remote(d, n)' <= Allowed(d, n)'
    BY <1>1 DEF CountInv, ChatInv
  <2>1. got[d][n] \in Nat
    BY DEF ChatInv, TypeOK
  <2>2. Local(d, n)' = 0 \/ Local(d, n)' = Local(d, n)
    BY <1>1, <1>2 DEF Local
  <2>3. Remote(d, n)' = 0 \/ Remote(d, n) = 1
    <3>1. WorkerOf[d] \in Worker
      OBVIOUS
    <3> QED
      BY <1>1, <1>2, <1>4, <3>1 DEF Remote
  <2>4. Allowed(d, n)' = Allowed(d, n)
    BY <1>1 DEF Allowed
  <2> QED
    BY <2>1, <2>2, <2>3, <2>4, Bits DEF ChatInv, CountInv
<1> QED
  BY <1>5, <1>6, <1>8, <1>9 DEF ChatInv

\* The first message of a queue becomes a broadcast to the worker's room.
LEMMA Relay_Inv ==
    ASSUME ChatInv, TypeOK', NEW w \in Worker, Relay(w)
    PROVE  ChatInv'
<1> USE ChatAssumption
<1>0. channel[w] \in Seq(Id) /\ channel[w] # <<>> /\ Distinct(channel[w])
  BY DEF ChatInv, ChannelInv, TypeOK, Relay
<1> PICK m \in Id : m = Head(channel[w]) /\ m \in Elements(channel[w])
  BY <1>0, TailDistinct
<1>1. /\ UNCHANGED <<messages, rooms, phase, todo, got>>
      /\ channel' = [channel EXCEPT ![w] = Tail(channel[w])]
      /\ relay' = [relay EXCEPT ![w][m] = rooms[w]]
  BY DEF Relay
<1>2. /\ \A v \in Worker \ {w} : channel'[v] = channel[v] /\ relay'[v] = relay[v]
      /\ Distinct(channel'[w]) /\ Elements(channel'[w]) = Elements(channel[w]) \ {m}
      /\ \A n \in Id : relay'[w][n] = IF n = m THEN rooms[w] ELSE relay[w][n]
  BY <1>0, <1>1, TailDistinct DEF ChatInv, TypeOK
<1>3. \A n : Unpublished(n)' <=> Unpublished(n)
  BY <1>1 DEF Unpublished
<1>4. SendersHaveMessage'
  BY <1>1, <1>3 DEF ChatInv, SendersHaveMessage
<1>5. PlacesInv'
  BY <1>1, <1>2 DEF ChatInv, PlacesInv, Members
<1>6. ChannelInv'
  BY <1>1, <1>2, <1>3 DEF ChatInv, ChannelInv
<1>7. CountInv'
  <2> SUFFICES ASSUME NEW d \in Conn, NEW n \in Id, n \in 1 .. Len(messages)
               PROVE  got[d][n] + Local(d, n)' + Remote(d, n)' <= Allowed(d, n)'
    BY <1>1 DEF CountInv, ChatInv
  <2>1. got[d][n] \in Nat /\ WorkerOf[d] \in Worker
    BY DEF ChatInv, TypeOK
  <2>2. Local(d, n)' = Local(d, n) /\ Allowed(d, n)' = Allowed(d, n)
    BY <1>1, <1>3 DEF Local, Allowed
  <2>3. Remote(d, n)' = 0 \/ Remote(d, n) = 1
    BY <1>2, <1>3, <2>1 DEF Remote
  <2> QED
    BY <2>1, <2>2, <2>3, Bits DEF ChatInv, CountInv
<1> QED
  BY <1>4, <1>5, <1>6, <1>7 DEF ChatInv

\* One recipient of a relayed message less.
LEMMA SendRelay_Inv ==
    ASSUME ChatInv, TypeOK', NEW w \in Worker, NEW m \in Id, NEW d \in Conn, SendRelay(w, m, d)
    PROVE  ChatInv'
<1> USE ChatAssumption
<1>1. /\ d \in relay[w][m] /\ got' = Sent(d, m)
      /\ UNCHANGED <<messages, rooms, phase, todo, channel>>
      /\ \A v \in Worker : \A n \in Id :
            relay'[v][n] = IF v = w /\ n = m THEN relay[v][n] \ {d} ELSE relay[v][n]
  BY DEF SendRelay, ChatInv, TypeOK
<1>2. /\ WorkerOf[d] = w /\ m \in 1 .. Len(messages)
      /\ ~Unpublished(m) /\ m \notin Elements(channel[w])
  BY <1>1 DEF ChatInv, PlacesInv, Members, ChannelInv
<1>3. \A n : Unpublished(n)' <=> Unpublished(n)
  BY <1>1 DEF Unpublished
<1>4. SendersHaveMessage'
  BY <1>1, <1>3 DEF ChatInv, SendersHaveMessage
<1>5. \A v \in Worker : \A n \in Id : relay'[v][n] \subseteq relay[v][n]
  BY <1>1
<1>6. PlacesInv'
  <2>1. \A v \in Worker : \A n \in Id : relay'[v][n] \subseteq Members(v)
    BY <1>5 DEF ChatInv, PlacesInv
  <2> QED
    BY <1>1, <2>1 DEF ChatInv, PlacesInv, Members
<1>7. ChannelInv'
  BY <1>1, <1>3, <1>5, MessagesType DEF ChatInv, ChannelInv
<1>8. CountInv'
  <2> SUFFICES ASSUME NEW x \in Conn, NEW n \in Id
               PROVE  IF n \in 1 .. Len(messages)
                      THEN got'[x][n] + Local(x, n)' + Remote(x, n)' <= Allowed(x, n)'
                      ELSE got'[x][n] = 0
    BY <1>1 DEF CountInv
  <2>1. got[x][n] \in Nat /\ got'[x][n] \in Nat /\ WorkerOf[x] \in Worker
    BY DEF ChatInv, TypeOK
  <2>2. Local(x, n)' = Local(x, n) /\ Allowed(x, n)' = Allowed(x, n)
    BY <1>1, <1>3 DEF Local, Allowed
  <2>3. CASE x = d /\ n = m
    <3>1. got'[x][n] <= got[x][n] + 1
      BY <1>1, <2>1, <2>3 DEF Sent, ChatInv, TypeOK
    <3>2. Remote(x, n) = 1 /\ Remote(x, n)' = 0
      BY <1>1, <1>2, <1>3, <2>3 DEF Remote
    <3> QED
      BY <1>2, <2>1, <2>2, <2>3, <3>1, <3>2, Bits DEF ChatInv, CountInv
  <2>4. CASE ~(x = d /\ n = m)
    <3>1. got'[x][n] = got[x][n]
      BY <1>1, <2>4 DEF Sent, ChatInv, TypeOK
    <3>2. Remote(x, n)' = Remote(x, n)
      BY <1>1, <1>3, <2>1, <2>4 DEF Remote
    <3> QED
      BY <2>1, <2>2, <3>1, <3>2, Bits DEF ChatInv, CountInv
  <2> QED
    BY <2>3, <2>4
<1> QED
  BY <1>4, <1>6, <1>7, <1>8 DEF ChatInv

-----------------------------------------------------------------------------
(* The theorems. *)

\* Every step keeps ChatInv.
LEMMA Next_Inv == ChatInv /\ [Next]_vars => ChatInv'
<1> SUFFICES ASSUME ChatInv, [Next]_vars PROVE ChatInv'
  OBVIOUS
<1>1. TypeOK'
  BY Step_Type DEF ChatInv
<1>2. CASE \E c \in Conn : Receive(c) \/ ReceiveUnreported(c)
  BY <1>1, <1>2, Receive_Inv
<1>3. CASE \E c \in Conn : \E d \in Conn : Send(c, d)
  BY <1>1, <1>3, Send_Inv
<1>4. CASE \E c \in Conn : Publish(c)
  BY <1>1, <1>4, Publish_Inv
<1>5. CASE \E w \in Worker : Relay(w)
  BY <1>1, <1>5, Relay_Inv
<1>6. CASE \E w \in Worker : \E m \in Id, d \in Conn : SendRelay(w, m, d)
  BY <1>1, <1>6, SendRelay_Inv
<1>7. CASE \/ \E c \in Conn : Connect(c) \/ ClientLeaves(c) \/ Leave(c) \/ EndBroadcast(c)
           \/ \E w \in Worker : Subscribe(w) \/ SubscriberDrops(w) \/ WorkerDies(w)
           \/ UNCHANGED vars
  BY <1>1, <1>7, StepsThatForget
<1> QED
  BY <1>2, <1>3, <1>4, <1>5, <1>6, <1>7 DEF Next, Handler, Subscriber

\* ChatInv holds in every reachable state.
LEMMA ChatInvariant == Spec => []ChatInv
  BY Init_Inv, Next_Inv, PTL DEF Spec

\* Every variable always holds a value of its type, and only broadcasting
\* handlers have recipients.
THEOREM TypeCorrect == Spec => []TypeOK
<1>1. ChatInv => TypeOK
  BY DEF ChatInv
<1> QED
  BY <1>1, ChatInvariant, PTL

\* However handlers, relays, failures and deaths of workers interleave, nobody is
\* sent a message more than once by each of the two ways.
THEOREM DuplicatesBounded == Spec => []AtMostTwice
<1>1. ChatInv => AtMostTwice
  <2> SUFFICES ASSUME ChatInv, NEW d \in Conn, NEW m \in DOMAIN messages
               PROVE  got[d][m] <= Allowed(d, m)
    BY DEF AtMostTwice, Allowed
  <2>1. m \in 1 .. Len(messages) /\ m \in Id
    BY MessagesType DEF ChatInv
  <2>2. got[d][m] \in Nat
    BY <2>1 DEF ChatInv, TypeOK
  <2> QED
    BY <2>1, <2>2, Bits DEF ChatInv, CountInv
<1> QED
  BY <1>1, ChatInvariant, PTL

\* A room is exactly the connections its worker's handlers serve.
THEOREM RoomsHoldTheLiving == Spec => []RoomsAreLive
<1>1. Init => RoomsAreLive
  BY DEF Init, RoomsAreLive, Active
<1>2. TypeOK /\ RoomsAreLive /\ [Next]_vars => RoomsAreLive'
  <2> SUFFICES ASSUME TypeOK, RoomsAreLive, [Next]_vars PROVE RoomsAreLive'
    OBVIOUS
  <2> USE ChatAssumption DEF RoomsAreLive, Active
  <2>0. /\ phase \in [Conn -> {"open", "broadcast", "publish", "new", "gone"}]
        /\ rooms \in [Worker -> SUBSET Conn]
    BY DEF TypeOK
  <2>1. ASSUME NEW c \in Conn, Connect(c) PROVE RoomsAreLive'
    BY <2>0, <2>1 DEF Connect
  <2>2. ASSUME NEW c \in Conn, Leave(c) PROVE RoomsAreLive'
    BY <2>0, <2>2 DEF Leave
  <2>3. ASSUME NEW c \in Conn, Receive(c) \/ EndBroadcast(c) \/ Publish(c)
        PROVE  RoomsAreLive'
    BY <2>0, <2>3 DEF Receive, EndBroadcast, Publish
  <2>4. ASSUME NEW w \in Worker, WorkerDies(w) PROVE RoomsAreLive'
    BY <2>0, <2>4 DEF WorkerDies
  <2>5. CASE UNCHANGED <<rooms, phase>>
    BY <2>5
  <2> QED
    BY <2>1, <2>2, <2>3, <2>4, <2>5
       DEF Next, Handler, Subscriber, vars, ClientLeaves, ReceiveUnreported, Send,
           Subscribe, SubscriberDrops, Relay, SendRelay
<1> QED
  BY <1>1, <1>2, TypeCorrect, PTL DEF Spec
-----------------------------------------------------------------------------
(* Recipients are not forgotten. *)

\* Only a client that was accepted is there.
AcceptedInv == \A d \in connected : phase[d] # "new"

\* A client is there only after Connect, and its handler never becomes new again.
LEMMA AcceptedInvariant == Spec => []AcceptedInv
<1>1. Init => AcceptedInv
  BY DEF Init, AcceptedInv
<1>2. TypeOK /\ AcceptedInv /\ [Next]_vars => AcceptedInv'
  <2> SUFFICES ASSUME TypeOK, AcceptedInv, [Next]_vars PROVE AcceptedInv'
    OBVIOUS
  <2> USE DEF AcceptedInv
  <2>0. phase \in [Conn -> {"open", "broadcast", "publish", "new", "gone"}] /\ connected \subseteq Conn
    BY DEF TypeOK, Active
  <2>1. ASSUME NEW c \in Conn, \/ Connect(c) \/ ClientLeaves(c) \/ Leave(c)
                               \/ Receive(c) \/ EndBroadcast(c) \/ Publish(c)
        PROVE  AcceptedInv'
    BY <2>0, <2>1 DEF Connect, ClientLeaves, Leave, Receive, EndBroadcast, Publish
  <2>2. ASSUME NEW w \in Worker, WorkerDies(w) PROVE AcceptedInv'
    BY <2>0, <2>2 DEF WorkerDies
  <2>3. CASE UNCHANGED <<phase, connected>>
    BY <2>3
  <2> QED
    BY <2>1, <2>2, <2>3
       DEF Next, Handler, Subscriber, vars, ReceiveUnreported, Send,
           Subscribe, SubscriberDrops, Relay, SendRelay
<1> QED
  BY <1>1, <1>2, TypeCorrect, PTL DEF Spec

\* A send counts for a client that is there, and for nobody else.
LEMMA SentCounts ==
    ASSUME TypeOK, NEW d \in Conn, NEW m \in Id, got' = Sent(d, m), d \in connected
    PROVE  got'[d][m] > got[d][m]
<1>1. got[d][m] \in Nat /\ got'[d][m] = got[d][m] + 1
  BY DEF TypeOK, Sent
<1> QED
  BY <1>1

\* The message a handler broadcasts is the same after a step of another: its own
\* next message waits for the end of the broadcast.
LEMMA CurrentStays ==
    ASSUME ChatInv, TypeOK', [Next]_vars,
           NEW c \in Conn, phase[c] = "broadcast", phase'[c] = "broadcast"
    PROVE  Current(c)' = Current(c)
<1>1. CASE messages' = messages
  BY <1>1 DEF Current
<1>2. CASE messages' # messages
  <2>1. PICK e \in Conn : phase[e] = "open" /\ messages' = Append(messages, e)
    BY <1>2 DEF Next, Handler, Subscriber, vars, Connect, ClientLeaves, Leave, Receive,
                ReceiveUnreported, Send, EndBroadcast, Publish, Subscribe,
                SubscriberDrops, Relay, SendRelay, WorkerDies
  <2>2. /\ Len(messages) \in Nat /\ Len(messages') = Len(messages) + 1
        /\ messages'[Len(messages) + 1] = e /\ e # c
        /\ \A n \in 1 .. Len(messages) : messages'[n] = messages[n]
    <3>1. messages \in Seq(Conn)
      BY DEF ChatInv, TypeOK
    <3> QED
      BY <2>1, <3>1, AppendProperties, LenProperties
  <2>3. Unpublished(Current(c)) /\ messages[Current(c)] = c
    BY CurrentIsUnpublished DEF ChatInv, Sending
  <2> DEFINE IsLast(m) == /\ messages'[m] = c
                          /\ \A n \in DOMAIN messages' : messages'[n] = c => n <= m
  <2>4. DOMAIN messages' = 1 .. Len(messages) + 1
    BY <2>2, LenProperties DEF TypeOK
  <2>5. Current(c) \in DOMAIN messages' /\ IsLast(Current(c))
    BY <2>2, <2>3, <2>4 DEF Unpublished
  <2>6. Current(c)' = CHOOSE m \in DOMAIN messages' : IsLast(m)
    BY Zenon DEF Current
  <2>7. Current(c)' \in DOMAIN messages' /\ IsLast(Current(c)')
    <3> HIDE DEF IsLast
    <3> QED
      BY <2>5, <2>6, Zenon
  <2>8. Current(c)' <= Current(c) /\ Current(c) <= Current(c)'
    BY <2>5, <2>7
  <2> QED
    BY <2>2, <2>4, <2>5, <2>7, <2>8
<1> QED
  BY <1>1, <1>2

\* RecipientsKept: a recipient is sent the message, or leaves, or waits on.
THEOREM BroadcastForgetsNobody == Spec => RecipientsKept
<1> DEFINE Kept(c, d) == \/ d \in todo'[c] /\ Current(c)' = Current(c)
                         \/ got'[d][Current(c)] > got[d][Current(c)]
                         \/ d \notin connected'
<1>1. ASSUME ChatInv, ChatInv', AcceptedInv, [Next]_vars, NEW c \in Conn, NEW d \in todo[c]
      PROVE  Kept(c, d)
  <2>0. /\ d \in Conn /\ phase[c] = "broadcast" /\ WorkerOf[d] = WorkerOf[c]
        /\ Current(c) \in Id
    BY <1>1, CurrentIsUnpublished DEF ChatInv, TypeOK, PlacesInv, Members, Sending
  <2>1. ASSUME d \in todo'[c]
        PROVE  Kept(c, d)
    <3>1. TypeOK' /\ todo'[c] # {}
      BY <1>1, <2>1 DEF ChatInv
    <3>2. phase'[c] = "broadcast"
      BY <3>1 DEF TypeOK
    <3> QED
      BY <1>1, <2>0, <2>1, <3>1, <3>2, CurrentStays
  <2>2. ASSUME NEW e \in Conn, NEW f \in Conn, Send(e, f), d \notin todo'[c]
        PROVE  Kept(c, d)
    <3>1. e = c /\ f = d
      BY <1>1, <2>2 DEF Send, ChatInv, TypeOK
    <3>2. got' = Sent(d, Current(c)) /\ connected' = connected
      BY <2>2, <3>1 DEF Send
    <3> QED
      BY <1>1, <2>0, <3>2, SentCounts DEF ChatInv
  <2>3. ASSUME NEW w \in Worker, WorkerDies(w), d \notin todo'[c]
        PROVE  Kept(c, d)
    <3>1. WorkerOf[c] = w
      BY <1>1, <2>3 DEF WorkerDies, ChatInv, TypeOK
    <3>2. d \notin connected'
      BY <1>1, <2>0, <2>3, <3>1 DEF WorkerDies, AcceptedInv
    <3> QED
      BY <3>2
  <2>4. ASSUME NEW e \in Conn, Receive(e)
        PROVE  d \in todo'[c]
    BY <1>1, <2>0, <2>4 DEF Receive, ChatInv, TypeOK
  <2>5. CASE UNCHANGED todo
    BY <1>1, <2>1, <2>5
  <2> QED
    BY <1>1, <2>1, <2>2, <2>3, <2>4, <2>5
       DEF Next, Handler, Subscriber, vars, Connect, ClientLeaves, Leave, ReceiveUnreported,
           EndBroadcast, Publish, Subscribe, SubscriberDrops, Relay, SendRelay
<1>2. ChatInv /\ ChatInv' /\ AcceptedInv /\ [Next]_vars
        => \A c \in Conn : \A d \in todo[c] : Kept(c, d)
  BY <1>1
<1> QED
  BY <1>2, ChatInvariant, AcceptedInvariant, PTL DEF Spec, RecipientsKept

\* RelayKept: who is due a message that Redis has handed to a worker is sent it,
\* or leaves, or is due it still, as long as the subscriber keeps its connection.
THEOREM RelayForgetsNobody == Spec => RelayKept
<1> DEFINE Kept(w, m, d) == \/ Due(w, m, d)'
                            \/ got'[d][m] > got[d][m]
                            \/ d \notin connected'
                            \/ w \notin subscribed' /\ d \notin relay[w][m]
<1>1. ASSUME ChatInv, AcceptedInv, [Next]_vars,
             NEW w \in Worker, NEW m \in Id, NEW d \in Conn, Due(w, m, d)
      PROVE  Kept(w, m, d)
  <2> USE ChatAssumption
  <2>0. /\ WorkerOf[d] = w /\ channel[w] \in Seq(Id)
        /\ DOMAIN channel[w] = 1 .. Len(channel[w])
        /\ (Due(w, m, d) <=> (m \in Elements(channel[w]) /\ d \in rooms[w]) \/ d \in relay[w][m])
    <3>1. channel[w] \in Seq(Id)
      BY <1>1 DEF ChatInv, TypeOK
    <3>2. DOMAIN channel[w] = 1 .. Len(channel[w])
      BY <3>1, LenProperties
    <3>3. WorkerOf[d] = w
      BY <1>1 DEF ChatInv, PlacesInv, Members, Due
    <3> QED
      BY <3>1, <3>2, <3>3 DEF Due, Elements
  <2>1. CASE /\ rooms'[w] = rooms[w] /\ channel'[w] = channel[w]
             /\ relay'[w][m] = relay[w][m]
    BY <1>1, <2>1 DEF Due
  <2>2. ASSUME NEW c \in Conn, Connect(c) \/ Leave(c)
        PROVE  Kept(w, m, d)
    <3>1. /\ UNCHANGED <<channel, relay>>
          /\ rooms'[w] = rooms[w] \/ rooms'[w] = rooms[w] \cup {c}
             \/ (rooms'[w] = rooms[w] \ {c} /\ connected' = connected \ {c})
      BY <1>1, <2>2 DEF Connect, Leave, ChatInv, TypeOK
    <3> QED
      BY <1>1, <3>1 DEF Due
  <2>3. ASSUME NEW c \in Conn, Publish(c)
        PROVE  Kept(w, m, d)
    <3>1. /\ UNCHANGED <<rooms, relay>>
          /\ channel'[w] = channel[w] \/ channel'[w] = Append(channel[w], Current(c))
      BY <1>1, <2>3 DEF Publish, ChatInv, TypeOK
    <3>2. CASE channel'[w] = Append(channel[w], Current(c))
      <4>1. /\ Len(channel[w]) \in Nat
            /\ DOMAIN channel'[w] = 1 .. Len(channel[w]) + 1
            /\ \A i \in 1 .. Len(channel[w]) : channel'[w][i] = channel[w][i]
        <5>1. Current(c) \in Id
          BY <1>1, <2>3, CurrentIsUnpublished DEF Publish, Sending, ChatInv
        <5> QED
          BY <2>0, <3>2, <5>1, AppendProperties, LenProperties
      <4> QED
        BY <1>1, <2>0, <3>1, <4>1 DEF Due
    <3> QED
      BY <2>1, <3>1, <3>2
  <2>4. ASSUME NEW v \in Worker, SubscriberDrops(v)
        PROVE  Kept(w, m, d)
    <3>1. UNCHANGED <<rooms, relay>> /\ subscribed' = subscribed \ {v}
          /\ (v # w => channel'[w] = channel[w])
      BY <1>1, <2>4 DEF SubscriberDrops, ChatInv, TypeOK
    <3> QED
      BY <1>1, <3>1 DEF Due
  <2>5. ASSUME NEW v \in Worker, Relay(v)
        PROVE  Kept(w, m, d)
    <3>1. CASE v # w
      BY <1>1, <2>1, <2>5, <3>1 DEF Relay, ChatInv, TypeOK
    <3>2. CASE v = w
      <4> DEFINE h == Head(channel[w])
      <4>1. /\ h \in Id /\ h \in Elements(channel[w]) /\ Tail(channel[w]) \in Seq(Id)
            /\ Elements(Tail(channel[w])) = Elements(channel[w]) \ {h}
        BY <1>1, <2>0, <2>5, <3>2, TailDistinct DEF Relay, ChatInv, ChannelInv
      <4>2. /\ UNCHANGED <<rooms, got>> /\ channel'[w] = Tail(channel[w])
            /\ relay'[w][h] = rooms[w]
            /\ (m # h => relay'[w][m] = relay[w][m])
        BY <1>1, <2>5, <3>2, <4>1 DEF Relay, ChatInv, TypeOK
      <4>3. relay[w][h] = {}
        BY <1>1, <4>1 DEF ChatInv, ChannelInv
      <4>4. m # h /\ m \in Elements(channel[w]) => m \in {channel'[w][i] : i \in DOMAIN channel'[w]}
        <5>1. DOMAIN channel'[w] = 1 .. Len(channel'[w])
          BY <4>1, <4>2, LenProperties
        <5>2. {channel'[w][i] : i \in DOMAIN channel'[w]} = Elements(channel[w]) \ {h}
          BY <4>1, <4>2, <5>1, Zenon DEF Elements
        <5> QED
          BY <5>2
      <4> QED
        BY <1>1, <2>0, <4>2, <4>3, <4>4 DEF Due
    <3> QED
      BY <3>1, <3>2
  <2>6. ASSUME NEW v \in Worker, NEW n \in Id, NEW f \in Conn, SendRelay(v, n, f)
        PROVE  Kept(w, m, d)
    <3>1. CASE v = w /\ n = m /\ f = d
      <4>1. got' = Sent(d, m) /\ connected' = connected
        BY <2>6, <3>1 DEF SendRelay
      <4> QED
        BY <1>1, <4>1, SentCounts DEF ChatInv
    <3>2. CASE ~(v = w /\ n = m /\ f = d)
      <4>1. UNCHANGED <<rooms, channel>> /\ (d \in relay[w][m] => d \in relay'[w][m])
        BY <1>1, <2>6, <3>2 DEF SendRelay, ChatInv, TypeOK
      <4> QED
        BY <1>1, <4>1 DEF Due
    <3> QED
      BY <3>1, <3>2
  <2>7. ASSUME NEW v \in Worker, WorkerDies(v)
        PROVE  Kept(w, m, d)
    <3>1. CASE v # w
      BY <1>1, <2>1, <2>7, <3>1 DEF WorkerDies, ChatInv, TypeOK
    <3>2. CASE v = w
      BY <1>1, <2>0, <2>7, <3>2 DEF WorkerDies, AcceptedInv
    <3> QED
      BY <3>1, <3>2
  <2>8. CASE UNCHANGED <<rooms, channel, relay>>
    BY <2>1, <2>8
  <2> QED
    BY <1>1, <2>2, <2>3, <2>4, <2>5, <2>6, <2>7, <2>8
       DEF Next, Handler, Subscriber, vars, ClientLeaves, Receive, ReceiveUnreported,
           Send, EndBroadcast, Subscribe
<1>2. ChatInv /\ AcceptedInv /\ [Next]_vars
        => \A w \in Worker : \A m \in Id : \A d \in Conn : Due(w, m, d) => Kept(w, m, d)
  BY <1>1
<1> QED
  BY <1>2, ChatInvariant, AcceptedInvariant, PTL DEF Spec, RelayKept
=============================================================================
