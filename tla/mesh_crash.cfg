CONSTANTS
    s1 = s1
    s2 = s2
    Runs = {r1, r2}
    Corrs = {c1}
    Scouts = {sc1}
    Evaluators = {ev1}
    Negotiators = {ng1}
    BadQuantity = {}
    BadBudget = {}
    Fallible = {sc1, ev1, ng1, buyer, kernel}
    CorrOf <- SameCorr
    Pool <- OneSupplier
    PolicyOk <- AcceptAll
    Composite <- Tied
    Initial <- SameInitial
    Buyer = buyer
    Kernel = kernel
    NoCorr = NoCorr
    NoSupplier = NoSupplier
    MaxActive = 1
    MaxMortal = 3
    MaxRestarts = 1
    MaxRetries = 1
    ReqLimit = 10
    DiscLimit = 50
    PoolLimit = 20
    SizeLimit = 5
    ScoreLimit = 50
    BuyerLimit = 100
    DecisionLimit = 5
SPECIFICATION FairSpec
INVARIANTS
    AnsweredWithDecision
PROPERTIES
    RunsReturn
\* every call returns: the runs end
CHECK_DEADLOCK FALSE
