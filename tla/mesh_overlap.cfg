CONSTANTS
    s1 = s1
    s2 = s2
    Runs = {r1, r2}
    Corrs = {r1, r2}
    Scouts = {sc1}
    Evaluators = {ev1}
    Negotiators = {ng1}
    BadQuantity = {}
    BadBudget = {}
    Fallible = {}
    CorrOf <- OwnCorr
    Pool <- OneSupplier
    PolicyOk <- AcceptAll
    Composite <- Tied
    Initial <- SameInitial
    Buyer = buyer
    Kernel = kernel
    NoCorr = NoCorr
    NoSupplier = NoSupplier
    MaxActive = 2
    MaxMortal = 0
    MaxRestarts = 1
    MaxRetries = 1
    ReqLimit = 10
    DiscLimit = 50
    PoolLimit = 20
    SizeLimit = 5
    ScoreLimit = 50
    BuyerLimit = 100
    DecisionLimit = 5
SPECIFICATION Spec
SYMMETRY RunSymmetry
INVARIANTS
    AwardedOnce
    AwardGrounded
    Lineage
    NeverInsufficient
    MarksAreAnswered
PROPERTIES
    AppendOnly
\* every call returns: the runs end
CHECK_DEADLOCK FALSE
