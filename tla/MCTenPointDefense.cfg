SPECIFICATION Spec
CONSTANTS
  Server = {"s1"}
  Address = {"ann", "bob"}
  Domain = {"corp.com"}
  DomainOf <- MCDomainOf
  Token = {"key"}
  Call <- MCCall
  Connection <- MCConnection
  SendLimit = 1
  SendWindow = 1
  MaxAge = 1
  MaxEntries = 1
  MaxVerdicts = 2
  AutoLearn = TRUE
  Payload <- MCPayload
  MaxSteps = 5
  MaxNow = 2
CHECK_DEADLOCK FALSE
INVARIANT RegistryHolds
PROPERTY CallsAreHeld
