SPECIFICATION Spec
CONSTANTS
  r1 = r1
  r2 = r2
  Requests <- TwoRequests
  Claims <- SomeClaims
  Keys <- SomeKeys
  KeysOf <- TheirKeys
  NoClaim = NoClaim
  MaxConnections = 1
INVARIANTS AnswersTrue AtMostOneClaimed CleanRelease NoLeak
PROPERTIES ImplementsRegister Answered
CHECK_DEADLOCK FALSE
