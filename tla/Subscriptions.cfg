SPECIFICATION FairSpec
CONSTANTS
    expenses = expenses
    both = both
    admin = admin
    Config = {expenses, both}
    NoEvents = NoEvents
    Administrator = {admin}
    Hourly = Hourly
    MaxEdits = 2
    MaxFaults = 1
INVARIANTS
    TypeOK
    ConfiguredVerifies
PROPERTIES
    RepairedForGood
