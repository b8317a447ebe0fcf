SPECIFICATION MCSpec
CONSTANTS
    Workers = {w1, w2}
    Emails = {"first", "second"}
    Inputs <- MCInputs
    MaxRuns = 2
    MaxRequests = 2
INVARIANTS TypeOK OneActionPerEmail NobodyDepartsOnHearsay
PROPERTY RollbackSeesNoChange
SYMMETRY Symmetry
CHECK_DEADLOCK FALSE
