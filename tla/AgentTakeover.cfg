SPECIFICATION Spec
CONSTANTS
    Workers = {w1}
    Clerks = {c1}
    Queries = {q1, q2}
    First = First
    MaxAttempts = 2
    MaxVersion = 2
    MaxRequests = 1
    MaxDecisions = 1
    MaxFaults = 0
    None = None
PROPERTY TakeoverLasts
