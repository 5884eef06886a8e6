SPECIFICATION LiveSpec
CONSTANTS
    Pool <- MCPool
    Template <- MCTemplate
    Spot = 1000
    Baseline = 20
    History <- MCHistory
    Requests = {"green", "broken", "plain"}
    Payload <- MCPayload
    Later <- MCLater
    Ranks <- MCRanks
    Overlap = FALSE
    MaxReplays = 1
INVARIANTS TypeOK HistoryInOrder ClosedOnce CoversAll Explained NobodyWaits
PROPERTIES ComesToRest
CHECK_DEADLOCK FALSE
