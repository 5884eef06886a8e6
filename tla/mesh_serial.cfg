CONSTANTS
    s1 = s1
    s2 = s2
    Runs = {r1, r2, r3, r4}
    Corrs = {r1, r2, r3, r4}
    Scouts = {sc1, sc2}
    Evaluators = {ev1}
    Negotiators = {ng1}
    BadQuantity = {r3}
    BadBudget = {r4}
    Fallible = {}
    CorrOf <- OwnCorr
    Pool <- TwoSuppliers
    PolicyOk <- AcceptSecond
    Composite <- FirstBetter
    Initial <- SameInitial
    Buyer = buyer
    Kernel = kernel
    NoCorr = NoCorr
    NoSupplier = NoSupplier
    MaxActive = 1
    MaxMortal = 0
    MaxRestarts = 1
    MaxRetries = 1
    ReqLimit = 10
    DiscLimit = 50
    PoolLimit = 20
    SizeLimit = 5
    ScoreLimit = 50
    BuyerLimit = 100
    DecisionLimit = 5
SPECIFICATION Spec
SYMMETRY SoundSymmetry
INVARIANTS
    TypeOK
    AnsweredWithDecision
    AwardRankedAll
    FailuresShow
\* every call returns: the runs end
CHECK_DEADLOCK FALSE
