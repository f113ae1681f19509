\* Two projects on two pages, two events and one fault.
SPECIFICATION FairSpec
CONSTANTS
  None = None
  Projects = {1, 2}
  ListedAtStart = {{2}, {1, 2}}
  PageSize = 1
  MaxAttempts = 2
  MaxEvents = 2
  MaxFaults = 1
INVARIANTS TokenSubmittedOnce StoredTokenGood RenewalKept CatalogueMatches
PROPERTIES WebhookRenewed
CHECK_DEADLOCK FALSE
