SPECIFICATION FairSpec
CONSTANTS
    Workers = {w1, w2}
    Desk = desk
    Msgs <- MCMsgs
    Recipients <- MCRecipients
    RecipientOf <- MCRecipientOf
    HumanApproved <- MCHuman
    Bulk <- MCBulk
    MaxAttempts = 2
    MaxTroubles = 1
    MaxEdits = 1
    None = None
    r1 = r1
INVARIANTS TypeOK SentIsDelivered
PROPERTIES ImplementsPromise EventuallyFinished LastAttemptIsNotLost
