SPECIFICATION Spec
CONSTANTS
    Pool <- MCPool
    Floor <- MCFloor
    Capacity <- MCCapacity
    Carbon <- MCCarbon
    Reliability <- MCReliability
    Spot = 1000
    Target = 4
    Baseline = 20
    CarbonCap = 40
    MaxTurns = 4
    Requests = {"r1", "r2"}
    Sessions = {"r1", "r2"}
    SessionOf <- MCSessionOf
    Rfqs <- MCRfqs
    Luck <- MCLuck
    Shortlisted = 2
    Genesis <- MCGenesis
    Money = 2000
    MaxFaults = 1
INVARIANTS TypeOK AwardGrounded NoLoss MemoryFolds
PROPERTIES LedgerIsChain
CHECK_DEADLOCK FALSE
