\* Three clients of the container, in each language.
SPECIFICATION ContainerSpec
CONSTANTS
  c1 = c1  c2 = c2  c3 = c3
  GreetingClients = {c1, c2, c3}
  GreetingRequests <- MCGreetingRequests
  GreetingHandlers <- MCGreetingHandlers
  SettlementClients = {c1, c2, c3}
  SettlementRequests <- MCSettlementRequests
  SettlementHandlers <- MCSettlementHandlers
  BPS_DENOMINATOR = 7
  MaxTotal = 9
  pol1 = pol1  pol2 = pol2  alice = alice  bob = bob  carol = carol
  NoAction = NoAction  NoRequest = NoRequest  NoAnswer = NoAnswer
INVARIANTS ContainerInv AllocationIsExact
PROPERTIES GoKeepsContract PythonKeepsContract TypeScriptKeepsContract
CHECK_DEADLOCK FALSE
