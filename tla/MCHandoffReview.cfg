SPECIFICATION Spec
CONSTANTS
    Clerks = {c1, c2}
    Handoffs <- MCHandoffs
    Products <- MCProducts
    Drafts <- MCDrafts
    Cases <- MCCases
    MaxPolicies = 2
    MaxEdits = 2
    None = None
INVARIANTS TypeOK OneAnswerEach RoundsInOrder
PROPERTIES SentToContact
SYMMETRY Symmetry
