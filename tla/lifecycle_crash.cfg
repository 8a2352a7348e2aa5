\* One crash anywhere.
CONSTANTS
  pol = pol  owner = owner  bob = bob  carol = carol
  d1 = d1  d2 = d2  d3 = d3  t1 = t1  h1 = h1  i1 = i1  i2 = i2
  admin = admin  ad = ad  tee = tee  ZeroAddress = ZeroAddress  None = None
  Operators = {admin}  Deployer = admin  Adapters = {ad}  Tees = {tee}
  MaxExtensions = 1
  PolicyIds = {pol}  Accounts = {owner, bob, carol}  Rejecting = {}
  CreateParams = {}  FundingValues = {1, 4}  EvmProofs <- MCProofs
  PrivateInputHashes = {h1}  InstructionIds = {i1, i2}
  SettlementResults <- MCResults
  BPS_DENOMINATOR = 4  MAX_PARTICIPANTS = 2  MaxTime = 1
  POLICY_ID = pol  Owner = owner  Draft <- MCDraft  PRIVATE_INPUT_HASH = h1
  OtherMessages = {}  AnswerStatuses = {1}  MaxCrashes = 1
  Interference = FALSE
SPECIFICATION LiveLifecycle
PROPERTIES CrashOnlyDelays
