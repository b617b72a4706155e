SPECIFICATION FairSpec
CONSTANTS
    b1 = b1
    x1 = x1
    r1 = r1
    r2 = r2
    NoDate = NoDate
    Item = {b1}
    Module = {"bills", "expenses"}
    ModuleOf <- MCModuleOf
    Runner = {r1, r2}
    OnDemand = {}
    Overlap = 2
    StartDate = 1
    Lookback = 3
    RunLimit = 1
    MaxItems = 1
    MaxClock = 6
    MaxFaults = 2
INVARIANTS
    TypeOK
    NothingSkipped
PROPERTIES
    PromptIsImported
