CONSTANTS
  MaxExponent = 4
  FirstNumber = 0
  MaxNumber = 5
  MaxErrors = 9
SPECIFICATION FeedFairSpec
INVARIANTS GapsAreTheLostMessages
PROPERTIES BackupOnlyAfterFailures EndpointsSuffice
