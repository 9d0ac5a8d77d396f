SPECIFICATION Spec
CONSTANTS
  chainA = chainA
  chainB = chainB
  chainC = chainC
  d1 = d1
  d2 = d2
  NotFound = NotFound
  ChainIds = {chainA, chainB, chainC}
  Denoms = {d1, d2}
  Senders = {controller, stranger}
  ControllerAddr = controller
  DataExpirySeconds = 1
  DecimalFractional = 2
  MaxUint128 = 442
  ChainsInfos <- SomeChainsInfos
  Requests <- SomeRequests
  MaxTime = 3
INVARIANTS
  QueriesAgree
  ChainValueExact
  EmissionsAnswered
  EmissionsShareChainValue
  
