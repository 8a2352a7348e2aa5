\* One policy is enough to settle a result after it has expired.
CONSTANTS
  p1 = p1  p2 = p2  owner = owner  bob = bob
  d1 = d1  d2 = d2  d3 = d3  t1 = t1  h1 = h1  i1 = i1  i2 = i2
  admin = admin  ad = ad  tee = tee  ZeroAddress = ZeroAddress  None = None
  Operators = {admin}  Deployer = admin  Adapters = {ad}  Tees = {tee}
  MaxExtensions = 1
  PolicyIds = {p1}  Accounts = {owner, bob}  Rejecting = {}
  CreateParams <- MCParams  FundingValues = {0, 1, 2}  EvmProofs <- MCProofs
  PrivateInputHashes = {h1}  InstructionIds = {i1, i2}
  SettlementResults <- StaleResults
  BPS_DENOMINATOR = 4  MAX_PARTICIPANTS = 2  MaxTime = 2
SPECIFICATION Spec
PROPERTIES StaleResultRejected
