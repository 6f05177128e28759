\* Two connections on one worker, one on another, one message.
\* Each connection is accepted once, so the system may stop.
SPECIFICATION FairSpec
CONSTANTS
    c1 = c1  c2 = c2  c3 = c3
    w1 = w1  w2 = w2
    Worker = {w1, w2}
    Conn = {c1, c2, c3}
    WorkerOf <- Placed
    MaxMessage = 1
INVARIANTS TypeOK RoomsAreLive AtMostTwice
PROPERTIES RecipientsKept RelayKept EveryoneHears RelayDelivers
CHECK_DEADLOCK FALSE
