CONSTANTS
  Period = 3
  MaxDelay = 2
  MaxLead = 3
SPECIFICATION FairSpec
INVARIANTS
  CommandsHeardAsSent
  ChecksumIsRemainder
  HostAgreesWhenQuiet
PROPERTIES
  StatusArrives
