CONSTANTS
    Leader = child
    Descendants = {d1, d2}
SPECIFICATION StopFairSpec
CHECK_DEADLOCK FALSE
INVARIANT SilentMeansSettled
INVARIANT OutcomeTruthful
PROPERTY TeardownReturns
