SPECIFICATION Spec
CONSTANTS
    Suppliers = {"cheap", "dear", "late"}
    Price <- MCPrice
    Carbon <- MCCarbon
    Score <- MCScore
    Contracts <- MCContracts
    RequireContract = FALSE
    Policy <- MCPolicy
    Baseline = 20
    Requests = {"a", "b"}
    Quantity <- MCQuantity
    Limit <- MCLimit
    Outcomes <- MCOutcomes
    Provider = "mock"
    Overrides = {"sap"}
    Stage <- MCStage
    MaxStates = 1
    MaxOutcomes = 1
    MaxFaults = 1
INVARIANT OrderAwarded
CHECK_DEADLOCK FALSE
