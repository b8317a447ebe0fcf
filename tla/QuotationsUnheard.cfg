SPECIFICATION Spec
CONSTANTS
    Workers = {w1, w2}
    Emails <- MCEmails
    Inbox <- MCInbox
    Setups <- MCSetups
    Cases <- MCCases
    Faults <- MCFaults
    MaxAttempts = 1
    MaxWeeks = 1
    MaxPrices = 1
    MaxTroubles = 0
    None = None
INVARIANTS QuoteIsHeard
