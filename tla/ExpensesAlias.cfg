SPECIFICATION FairSpec
CONSTANTS
    c1 = c1
    c2 = c2
    x1 = x1
    x2 = x2
    w1 = w1
    w2 = w2
    Connection = {c1, c2}
    Expense = {x1, x2}
    Owner <- TwoOwners
    Unnamed = {}
    Place <- MCPlace
    Aging = {x1, x2}
    MaxItems = 2
    Worker = {w1}
    ByHand = ByHand
    NoSupplier = NoSupplier
    NoConnection = NoConnection
    Choice <- OnlyInvoicing
    NamedByMerchant = FALSE
    MaxEdits = 0
    MaxFaults = 0
PROPERTIES
    ApprovedAreBooked
