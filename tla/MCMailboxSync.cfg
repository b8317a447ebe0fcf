SPECIFICATION FairSyncSpec
CONSTANTS
  Thread = Thread
  Campaign = Campaign
  NoHeader = NoHeader
  ActiveProducts = {"p"}
  PriceCurrencies <- MCPriceCurrencies
  Interests <- MCInterests
  Company <- MCCompany
  Messages <- MCMessages
  Mail <- MCMail
  Uploads = {3}
  Barred = {}
  Recipient = "bob"
  FirstCase <- MCFirstCase
  BatchSize = 1
  DailyLimit = 2
  Decisions = {"resolve"}
  MaxFaults = 1
CHECK_DEADLOCK FALSE
INVARIANTS SyncTypeOK NothingLost OneCasePerCampaign
PROPERTY EverythingIngested
