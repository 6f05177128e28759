\* Three requests and two chats share two connections and two threads.
\* Requests and chats come once, so the system may stop.
SPECIFICATION FairSpec
CONSTANTS
    r1 = r1  r2 = r2  r3 = r3
    c1 = c1  c2 = c2
    Request = {r1, r2, r3}
    Chat = {c1, c2}
    THREADS = 2
    POOL = 2
    Free = Free
INVARIANTS TypeOK NothingLeaks
PROPERTIES EveryRequestEnds LoopResumes
CHECK_DEADLOCK FALSE
