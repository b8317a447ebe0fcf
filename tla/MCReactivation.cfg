SPECIFICATION FairSpec
CONSTANTS
    Workers = {w1, w2}
    Admins = {a1, a2}
    Campaigns = {"autumn", "winter"}
    Contacts = {"ann"}
    Recipients <- MCRecipients
    CampaignOf <- MCCampaignOf
    ContactOf <- MCContactOf
    MaxRequests = 3
    MaxFaults = 1
INVARIANTS TypeOK ScheduledOnce SentAgainOnlyByResume HeldOnlyWhilePaused
PROPERTY RecipientsSettle
