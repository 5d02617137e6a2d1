SPECIFICATION FairSpec
CONSTANTS
    q1 = q1
    q2 = q2
    e1 = e1
    e2 = e2
    p1 = p1
    p2 = p2
    p3 = p3
    All = All
    NoEvent = NoEvent
    NoPid = NoPid
    Queue = {q1, q2}
    Event = {e1, e2}
    QueueOf <- TwoQueues
    Pid = {p1, p2}
    Dues = {}
    Env = {}
    MaxGen = 1
    MaxWd = 2
    MaxInotify = 2
    MaxTime = 0
    MaxFaults = 0
CHECK_DEADLOCK FALSE
PROPERTY ImplementsFairQueue
