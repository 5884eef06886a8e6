SPECIFICATION Spec
CONSTANTS
    r1 = r1
    r2 = r2
    s1 = s1
    n1 = n1
    None = None
    Driver = Driver
    Runs = {r1, r2}
    Crew <- OneNegotiator
    Null = Null
    Suppliers = {s1}
    Templates <- OneSupplier
    Scouts = 1
    Asked <- TwoUnits
    Budgets <- BudgetSets
    Pools <- MadeUp
    FloorPrices = {4}
    Replies <- Quotes
    MaxAttempts = 2
    MaxPrice = 10
    MaxLead = 2
    DiscoveryLimit = 4
    RequirementLimit = 1
    DealLimit = 2
    MaxScores = 1
    MaxActive = 2
    MaxCrashes = 0
    MaxStarts = 1
PROPERTIES LearningSaved
CHECK_DEADLOCK FALSE
