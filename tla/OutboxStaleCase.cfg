SPECIFICATION Spec
CONSTANTS
    Workers = {w1, w2}
    Desk = desk
    Msgs <- MCMsgs
    Recipients <- MCRecipients
    RecipientOf <- MCRecipientOf
    HumanApproved <- MCHuman
    Bulk <- MCBulk
    MaxAttempts = 2
    MaxTroubles = 2
    MaxEdits = 2
    None = None
    r1 = r1

PROPERTIES GuardSeesCurrentCase
