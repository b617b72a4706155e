SPECIFICATION FairSpec
CONSTANTS
    c1 = c1
    c2 = c2
    x1 = x1
    x2 = x2
    w1 = w1
    w2 = w2
    Connection = {c1}
    Expense = {x1}
    Owner <- OneOwner
    Unnamed = {}
    Place <- MCPlace
    Aging = {x1}
    MaxItems = 1
    Worker = {w1, w2}
    ByHand = ByHand
    NoSupplier = NoSupplier
    NoConnection = NoConnection
    Choice <- AnyPosting
    NamedByMerchant = FALSE
    MaxEdits = 0
    MaxFaults = 2
PROPERTIES
    CreatedIsImported
    ApprovedAreBooked
