------------------------------- MODULE Chat -------------------------------
(***************************************************************************)
(* The chat room of one property: the WebSocket handler of chat_ws.py, the *)
(* ConnectionManager of each worker process, and the fan-out between       *)
(* workers over Redis Pub/Sub. Rooms of different properties do not        *)
(* interact.                                                               *)
(*                                                                         *)
(* The coroutines of a worker interleave where they await, that is at each *)
(* send_text of a broadcast. A frame that is malformed, refused by the     *)
(* limiter (TokenBucket) or that cannot be persisted is answered with an   *)
(* error and is a stuttering step.                                         *)
(***************************************************************************)
EXTENDS Naturals, Sequences

CONSTANTS
    Worker,      \* worker processes
    Conn,        \* WebSocket connections, each accepted once
    WorkerOf,    \* the worker that accepts a connection
    MaxMessage   \* bound on the messages persisted

Id == 1 .. MaxMessage

VARIABLES
    messages,    \* the messages table: the connection that sent each message
    rooms,       \* ConnectionManager.rooms of each worker
    phase,       \* where the handler of each connection is
    connected,   \* the connections whose client is still there
    todo,        \* the recipients a handler's broadcast has still to send to
    subscribed,  \* the workers whose subscriber thread listens
    channel,     \* published messages on their way to each worker
    relay,       \* the recipients each relayed broadcast has still to send to
    got          \* history: how often each connection was sent each message

vars == <<messages, rooms, phase, connected, todo, subscribed, channel, relay, got>>

ASSUME ChatAssumption == WorkerOf \in [Conn -> Worker] /\ MaxMessage \in Nat

\* A handler in its receive loop, between two frames or with a frame.
Active == {"open", "broadcast", "publish"}

NoRelay == [m \in Id |-> {}]

Init ==
    /\ messages = <<>>
    /\ rooms = [w \in Worker |-> {}]
    /\ phase = [c \in Conn |-> "new"]
    /\ connected = {}
    /\ todo = [c \in Conn |-> {}]
    /\ subscribed = {}
    /\ channel = [w \in Worker |-> <<>>]
    /\ relay = [w \in Worker |-> NoRelay]
    /\ got = [c \in Conn |-> [m \in Id |-> 0]]

-----------------------------------------------------------------------------
\* The token is good, the user may join: accept, and enter the room.
Connect(c) ==
    /\ phase[c] = "new"
    /\ phase' = [phase EXCEPT ![c] = "open"]
    /\ connected' = connected \cup {c}
    /\ rooms' = [rooms EXCEPT ![WorkerOf[c]] = @ \cup {c}]
    /\ UNCHANGED <<messages, todo, subscribed, channel, relay, got>>

\* The client goes away; its handler learns it at its next receive.
ClientLeaves(c) ==
    /\ c \in connected
    /\ connected' = connected \ {c}
    /\ UNCHANGED <<messages, rooms, phase, todo, subscribed, channel, relay, got>>

\* Mutant: the handler ends without leaving the room.
LeaveSilently(c) ==
    /\ phase[c] = "open"
    /\ phase' = [phase EXCEPT ![c] = "gone"]
    /\ connected' = connected \ {c}
    /\ UNCHANGED <<messages, rooms, todo, subscribed, channel, relay, got>>

\* The receive loop ends, because the client left or by an exception the loop
\* does not catch (a frame that is JSON but not an object): leave the room.
Leave(c) ==
    /\ phase[c] = "open"
    /\ phase' = [phase EXCEPT ![c] = "gone"]
    /\ connected' = connected \ {c}
    /\ rooms' = [rooms EXCEPT ![WorkerOf[c]] = @ \ {c}]
    /\ UNCHANGED <<messages, todo, subscribed, channel, relay, got>>

\* A frame passes all checks: it is committed, and the broadcast begins with
\* the room as it is now.
Receive(c) ==
    /\ phase[c] = "open"
    /\ Len(messages) < MaxMessage
    /\ messages' = Append(messages, c)
    /\ todo' = [todo EXCEPT ![c] = rooms[WorkerOf[c]]]
    /\ phase' = [phase EXCEPT ![c] = "broadcast"]
    /\ UNCHANGED <<rooms, connected, subscribed, channel, relay, got>>

\* The commit succeeds and the refresh after it does not: the message is in the
\* table, its sender is told that it is not, and nobody is sent it.
ReceiveUnreported(c) ==
    /\ phase[c] = "open"
    /\ Len(messages) < MaxMessage
    /\ messages' = Append(messages, c)
    /\ UNCHANGED <<rooms, phase, connected, todo, subscribed, channel, relay, got>>

\* The message a handler is broadcasting: its last.
Current(c) == CHOOSE m \in DOMAIN messages :
                 /\ messages[m] = c
                 /\ \A n \in DOMAIN messages : messages[n] = c => n <= m

\* send_text reaches a client that is there; otherwise it raises, and the
\* broadcast goes on with the next one.
Sent(d, m) == IF d \in connected THEN [got EXCEPT ![d][m] = @ + 1] ELSE got

\* Mutant: the broadcast ends at the first recipient that is gone.
SendAborting(c, d) ==
    /\ phase[c] = "broadcast"
    /\ d \in todo[c]
    /\ todo' = [todo EXCEPT ![c] = IF d \in connected THEN @ \ {d} ELSE {}]
    /\ got' = Sent(d, Current(c))
    /\ UNCHANGED <<messages, rooms, phase, connected, subscribed, channel, relay>>

Send(c, d) ==
    /\ phase[c] = "broadcast"
    /\ d \in todo[c]
    /\ todo' = [todo EXCEPT ![c] = @ \ {d}]
    /\ got' = Sent(d, Current(c))
    /\ UNCHANGED <<messages, rooms, phase, connected, subscribed, channel, relay>>

\* Mutant: the handler publishes without waiting for the broadcast.
EndBroadcastEarly(c) ==
    /\ phase[c] = "broadcast"
    /\ phase' = [phase EXCEPT ![c] = "publish"]
    /\ UNCHANGED <<messages, rooms, connected, todo, subscribed, channel, relay, got>>

EndBroadcast(c) ==
    /\ phase[c] = "broadcast"
    /\ todo[c] = {}
    /\ phase' = [phase EXCEPT ![c] = "publish"]
    /\ UNCHANGED <<messages, rooms, connected, todo, subscribed, channel, relay, got>>

\* PUBLISH reaches the workers that listen, the handler's own among them; or
\* Redis is off or fails, which is logged.
Publish(c) ==
    /\ phase[c] = "publish"
    /\ phase' = [phase EXCEPT ![c] = "open"]
    /\ \/ channel' = [w \in Worker |-> IF w \in subscribed
                                       THEN Append(channel[w], Current(c))
                                       ELSE channel[w]]
       \/ UNCHANGED channel
    /\ UNCHANGED <<messages, rooms, connected, todo, subscribed, relay, got>>

-----------------------------------------------------------------------------
\* psubscribe succeeds.
Subscribe(w) ==
    /\ w \notin subscribed
    /\ subscribed' = subscribed \cup {w}
    /\ UNCHANGED <<messages, rooms, phase, connected, todo, channel, relay, got>>

\* listen raises: what the thread had not yet handed to the event loop is
\* lost, and it will subscribe anew.
SubscriberDrops(w) ==
    /\ w \in subscribed
    /\ subscribed' = subscribed \ {w}
    /\ \E n \in 0 .. Len(channel[w]) :
          channel' = [channel EXCEPT ![w] = SubSeq(@, 1, n)]
    /\ UNCHANGED <<messages, rooms, phase, connected, todo, relay, got>>

\* Mutant: the message stays first in line.
RelayKeeping(w) ==
    /\ channel[w] # <<>>
    /\ relay' = [relay EXCEPT ![w][Head(channel[w])] = rooms[w]]
    /\ UNCHANGED <<messages, rooms, phase, connected, todo, subscribed, channel, got>>

\* Mutant: the worker drops what its own handlers sent.
RelayForeignOnly(w) ==
    /\ channel[w] # <<>>
    /\ channel' = [channel EXCEPT ![w] = Tail(@)]
    /\ LET m == Head(channel[w]) IN
       relay' = [relay EXCEPT ![w][m] = IF WorkerOf[messages[m]] = w THEN {} ELSE rooms[w]]
    /\ UNCHANGED <<messages, rooms, phase, connected, todo, subscribed, got>>

\* The broadcast scheduled for the oldest message starts, to the room as it is
\* now; it runs beside the handlers' broadcasts and those of later messages.
Relay(w) ==
    /\ channel[w] # <<>>
    /\ channel' = [channel EXCEPT ![w] = Tail(@)]
    /\ relay' = [relay EXCEPT ![w][Head(channel[w])] = rooms[w]]
    /\ UNCHANGED <<messages, rooms, phase, connected, todo, subscribed, got>>

\* Mutant: the relayed broadcast ends at the first recipient that is gone.
SendRelayAborting(w, m, d) ==
    /\ d \in relay[w][m]
    /\ relay' = [relay EXCEPT ![w][m] = IF d \in connected THEN @ \ {d} ELSE {}]
    /\ got' = Sent(d, m)
    /\ UNCHANGED <<messages, rooms, phase, connected, todo, subscribed, channel>>

SendRelay(w, m, d) ==
    /\ d \in relay[w][m]
    /\ relay' = [relay EXCEPT ![w][m] = @ \ {d}]
    /\ got' = Sent(d, m)
    /\ UNCHANGED <<messages, rooms, phase, connected, todo, subscribed, channel>>

\* The worker is killed or redeployed: its sockets, rooms and tasks are gone.
WorkerDies(w) ==
    LET lost == {c \in Conn : WorkerOf[c] = w /\ phase[c] # "new"} IN
    /\ lost # {}
    /\ phase' = [c \in Conn |-> IF c \in lost THEN "gone" ELSE phase[c]]
    /\ connected' = connected \ lost
    /\ todo' = [c \in Conn |-> IF c \in lost THEN {} ELSE todo[c]]
    /\ rooms' = [rooms EXCEPT ![w] = {}]
    /\ subscribed' = subscribed \ {w}
    /\ channel' = [channel EXCEPT ![w] = <<>>]
    /\ relay' = [relay EXCEPT ![w] = NoRelay]
    /\ UNCHANGED <<messages, got>>

-----------------------------------------------------------------------------
Handler(c) ==
    \/ Connect(c) \/ ClientLeaves(c) \/ Leave(c)
    \/ Receive(c) \/ ReceiveUnreported(c)
    \/ \E d \in Conn : Send(c, d)
    \/ EndBroadcast(c) \/ Publish(c)

Subscriber(w) ==
    \/ Subscribe(w) \/ SubscriberDrops(w) \/ Relay(w)
    \/ \E m \in Id, d \in Conn : SendRelay(w, m, d)

Next ==
    \/ \E c \in Conn : Handler(c)
    \/ \E w \in Worker : Subscriber(w) \/ WorkerDies(w)

Spec == Init /\ [][Next]_vars

\* A worker's event loop resumes every coroutine that can run, and a send to a
\* client that no longer reads ends when the server's ping times out.
Fairness ==
    /\ \A c \in Conn : /\ \A d \in Conn : WF_vars(Send(c, d))
                       /\ WF_vars(EndBroadcast(c) \/ Publish(c))
    /\ \A w \in Worker : /\ WF_vars(Relay(w))
                         /\ \A m \in Id, d \in Conn : WF_vars(SendRelay(w, m, d))

FairSpec == Spec /\ Fairness

-----------------------------------------------------------------------------
\* The variables keep their types, and only a handler inside a broadcast has
\* recipients left (the loop of broadcast ends before the handler publishes).
TypeOK ==
    /\ messages \in Seq(Conn) /\ Len(messages) <= MaxMessage
    /\ rooms \in [Worker -> SUBSET Conn]
    /\ phase \in [Conn -> Active \cup {"new", "gone"}]
    /\ connected \subseteq Conn
    /\ todo \in [Conn -> SUBSET Conn]
    /\ \A c \in Conn : todo[c] # {} => phase[c] = "broadcast"
    /\ subscribed \subseteq Worker
    /\ channel \in [Worker -> Seq(Id)]
    /\ relay \in [Worker -> [Id -> SUBSET Conn]]
    /\ got \in [Conn -> [Id -> Nat]]

\* A room holds exactly the connections its worker's handlers still serve: the
\* finally of property_chat takes every connection out, so that broadcasts do
\* not go on to sockets that have ended and the room does not grow for ever.
RoomsAreLive ==
    \A w \in Worker :
        rooms[w] = {c \in Conn : WorkerOf[c] = w /\ phase[c] \in Active}

\* A client is sent a message at most twice, once by the sender's own worker
\* and once by the relay, and at most once when another worker relays it: this
\* is the duplicate clients are told to drop by id (chat_ws.py:138).
AtMostTwice ==
    \A d \in Conn : \A m \in DOMAIN messages :
        got[d][m] <= IF WorkerOf[d] = WorkerOf[messages[m]] THEN 2 ELSE 1

\* Every member of the room at the time of a broadcast is sent the message or
\* has left, whatever happens to the other recipients in the middle of it: a
\* send that fails does not end the loop of broadcast, and a member that leaves
\* while it runs does not disturb the copy it iterates.
EveryoneHears ==
    \A c \in Conn : \A d \in Conn : \A m \in Id :
        (phase[c] = "broadcast" /\ d \in todo[c] /\ Current(c) = m)
            ~> (got[d][m] > 0 \/ d \notin connected)

\* A message that Redis has accepted for a worker reaches everyone in its room,
\* late joiners of the sender's worker included, unless they leave or the
\* subscriber loses its connection.
RelayDelivers ==
    \A w \in Worker : \A d \in Conn : \A m \in Id :
        (m \in {channel[w][i] : i \in DOMAIN channel[w]} /\ d \in rooms[w])
            ~> (got[d][m] > 0 \/ d \notin connected \/ w \notin subscribed)

\* The recipients of a broadcast are not forgotten: whatever step is taken, by
\* this handler, by others of its worker or by a dying worker, who was still to
\* be sent the message is still to be sent the same one, has just been sent it,
\* or has left. This is what EveryoneHears rests on: nothing else than the
\* scheduling of the event loop stands between a recipient and its message.
RecipientsKept ==
    [][\A c \in Conn : \A d \in todo[c] :
          \/ d \in todo'[c] /\ Current(c)' = Current(c)
          \/ got'[d][Current(c)] > got[d][Current(c)]
          \/ d \notin connected']_vars

\* Worker w has message m from Redis, and d is to be sent it: the message is in
\* line and d is in the room, or the broadcast of it has still to reach d.
Due(w, m, d) ==
    \/ m \in {channel[w][i] : i \in DOMAIN channel[w]} /\ d \in rooms[w]
    \/ d \in relay[w][m]

\* A message taken over from Redis is not lost between the subscriber thread and
\* the sockets: who is due it stays due it until sent it, unless the client
\* leaves or the subscriber loses its connection. A later message does not
\* displace it, and a broadcast that runs is not touched by the lost connection.
RelayKept ==
    [][\A w \in Worker : \A m \in Id : \A d \in Conn :
          Due(w, m, d) =>
             \/ Due(w, m, d)'
             \/ got'[d][m] > got[d][m]
             \/ d \notin connected'
             \/ w \notin subscribed' /\ d \notin relay[w][m]]_vars
=============================================================================
