SPECIFICATION FairSpec
CONSTANTS
    e1 = e1
    e2 = e2
    e3 = e3
    bill = bill
    w1 = w1
    w2 = w2
    NoEvent = NoEvent
    NoResource = NoResource
    Event = {e1}
    Poison = {e1}
    Resource = {bill}
    Subject <- MCSubject
    Worker = {w1}
    MaxAttempts = 1
    QueueLimit = 1
    Durable = FALSE
    MaxQueued = 1
    MaxDeliveries = 1
    MaxFaults = 0
PROPERTIES
    FailuresEndInDeadLetter
