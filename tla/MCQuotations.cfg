SPECIFICATION FairSpec
CONSTANTS
    Workers = {w1, w2}
    Emails <- MCEmails
    Inbox <- MCInbox
    Setups <- MCSetups
    Cases <- MCCases
    Faults <- MCFaults
    MaxAttempts = 1
    MaxWeeks = 2
    MaxPrices = 2
    MaxTroubles = 1
    None = None
INVARIANTS TypeOK QuotesAreCurrent NobodyForgotten
PROPERTIES EventuallySettled
