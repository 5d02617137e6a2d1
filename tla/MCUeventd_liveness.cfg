SPECIFICATION FairSpec
CONSTANTS
    q1 = q1
    q2 = q2
    e1 = e1
    e2 = e2
    p1 = p1
    p2 = p2
    p3 = p3
    All = All
    NoEvent = NoEvent
    NoPid = NoPid
    Queue = {q1}
    Event = {e1, e2}
    QueueOf <- OneQueue
    Pid = {p1, p2}
    Dues = {}
    Env = {"pause"}
    MaxGen = 1
    MaxWd = 1
    MaxInotify = 3
    MaxTime = 0
    MaxFaults = 0
CHECK_DEADLOCK FALSE
INVARIANT OneHandlerPerQueue
PROPERTIES ReadyServed LeftoverRetried
