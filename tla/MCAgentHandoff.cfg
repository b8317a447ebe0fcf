SPECIFICATION FairSpec
CONSTANTS
    Workers = {w1, w2}
    Clerks = {c1}
    Queries = {q1}
    First = First
    MaxAttempts = 2
    MaxVersion = 3
    MaxRequests = 2
    MaxDecisions = 1
    MaxFaults = 1
    None = None
INVARIANTS TypeOK OneMessagePerAnswer NoLostAnswer
PROPERTIES AgentSendsOnAnswer AnswerIsProcessed
