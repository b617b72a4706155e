SPECIFICATION Spec
CONSTANTS
    e1 = e1
    e2 = e2
    e3 = e3
    bill = bill
    w1 = w1
    w2 = w2
    NoEvent = NoEvent
    NoResource = NoResource
    Event = {e1}
    Poison = {}
    Resource = {bill}
    Subject <- MCSubject
    Worker = {w1, w2}
    MaxAttempts = 2
    QueueLimit = 1
    Durable = TRUE
    MaxQueued = 2
    MaxDeliveries = 2
    MaxFaults = 2
SYMMETRY WorkerSymmetry
INVARIANTS
    RowsOutliveJobs
    AttemptsCounted
    NoPrematureDeadLetter
    ResultIsBooked
