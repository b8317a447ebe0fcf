SPECIFICATION FairSpec
CONSTANTS
    Workers = {w1, w2}
    Emails = {"ann", "bob", "bot"}
    RuleOnly = {"bot"}
    MaxAttempts = 2
    MaxRetries = 1
    MaxFaults = 1
    MaxUpsets = 1
CHECK_DEADLOCK FALSE
INVARIANTS TypeOK PaidOnce JudgedAsHashed
PROPERTY EventuallyEnded
