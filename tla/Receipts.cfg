SPECIFICATION Spec
CONSTANTS
    x1 = x1
    x2 = x2
    a1 = a1
    m1 = m1
    m2 = m2
    m3 = m3
    p1 = p1
    p2 = p2
    c1 = c1
    w1 = w1
    w2 = w2
    Expense = {x1, x2}
    Attachment = {a1}
    OwnerOf <- MCOwnerOf
    Content = {c1}
    ContentOf <- MCContentOf
    Message = {m1, m2, m3}
    Part = {p1, p2}
    PartsOf <- MCPartsOf
    DateOf <- MCDateOf
    LastVersion <- MCLastVersion
    MaxMessages = 2
    MaxFetched = 2
    Likeness <- MCLikeness
    Unnamed = {m2}
    Provider <- MCProvider
    Worker = {w1, w2}
    NoExpense = NoExpense
    NoId = NoId
    NoMessage = NoMessage
    MaxImports = 3
    MaxFaults = 1
SYMMETRY WorkerSymmetry
INVARIANTS
    TypeOK
    
    HeldIsRecorded
    CompetitorsNotBoth
PROPERTIES
    EvidenceStays
