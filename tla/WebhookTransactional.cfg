SPECIFICATION FairSpec
CONSTANTS
    e1 = e1
    e2 = e2
    e3 = e3
    bill = bill
    w1 = w1
    w2 = w2
    NoEvent = NoEvent
    NoResource = NoResource
    Event = {e1, e2}
    Poison = {}
    Resource = {bill}
    Subject <- MCSubject
    Worker = {w1, w2}
    MaxAttempts = 2
    QueueLimit = 1
    Durable = FALSE
    MaxQueued = 1
    MaxDeliveries = 1
    MaxFaults = 2
INVARIANTS
    OnlyOutcomesVisible
PROPERTIES
    EventsSettle
    DoneStaysDone
    ImplementsLedger
