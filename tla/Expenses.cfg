SPECIFICATION Spec
CONSTANTS
    c1 = c1
    c2 = c2
    x1 = x1
    x2 = x2
    w1 = w1
    w2 = w2
    Connection = {c1}
    Expense = {x1, x2}
    Owner <- OneOwner
    Unnamed = {x2}
    Place <- MCPlace
    Aging = {x1}
    MaxItems = 1
    Worker = {w1, w2}
    ByHand = ByHand
    NoSupplier = NoSupplier
    NoConnection = NoConnection
    Choice <- MCChoice
    NamedByMerchant = FALSE
    MaxEdits = 1
    MaxFaults = 1
SYMMETRY Symmetry
INVARIANTS
    TypeOK
    SyncedIsBooked
    OneSupplier
