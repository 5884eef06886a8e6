SPECIFICATION LiveSpec
CONSTANTS
    Suppliers = {"cheap", "dear", "late"}
    Price <- MCPrice
    Carbon <- MCCarbon
    Score <- MCScore
    Contracts <- MCContracts
    RequireContract = FALSE
    Policy <- MCPolicy
    Baseline = 20
    Requests = {"a", "b"}
    Quantity <- MCQuantity
    Limit <- MCLimit
    Outcomes <- MCOutcomes
    Provider = "mock"
    Overrides = {"sap"}
    Stage <- MCStage
    MaxStates = 1
    MaxOutcomes = 2
    MaxFaults = 1
INVARIANTS TypeOK OrdersVetted PlacedAgainIfLost Audited
PROPERTIES Idempotent 
CHECK_DEADLOCK FALSE
