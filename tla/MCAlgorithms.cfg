SPECIFICATION PureParts
CONSTANTS
    None = None
    Nil = Nil
    PrefixOf <- PrefixesHere
    Matching <- PrefixesHere
    BadPatterns = {"bad"}
    Number <- Weights
    HalfRange = 1048576
    Timeout = 2
    Threshold = 2
    Scale = 64
    MaxDuration = 63
    MaxRelapses = 9
CHECK_DEADLOCK FALSE
INVARIANTS
    Routes
    ABTests
    FastestChosen
    Waits
    Rates
    Averages
    Answers
PROPERTIES
    PeriodsGrowWhileTheyFit
    OutageForgotten
