SPECIFICATION Spec
CONSTANTS
    p1 = p1
    p2 = p2
    Payment = {p1, p2}
    NoImport = NoImport
    Total = 3
    Observation <- MCObservation
SYMMETRY PaymentSymmetry
INVARIANTS
    TypeOK
    NeverOverallocated
    DraftsFit
    NotBookedTwice
    TransfersBooked
    SecondImportSettles
PROPERTIES
    CancelledByHandStays
