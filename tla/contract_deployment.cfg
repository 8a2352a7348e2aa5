\* Three operators, two adapters, up to three registered extensions.
CONSTANTS
  Operators = {a1, a2, a3}  Deployer = a1  ZeroAddress = ZeroAddress
  Adapters = {ad1, ad2}  Tees = {tee}  MaxExtensions = 3
  EXTENSION_ID = 2  Configurers = {r1, r2}  NoAdapter = NoAdapter
SPECIFICATION DeploymentSpec
INVARIANTS ManifestIsBound CoreAndAdapterShareTheirExtension BindingTypeOK NominationIsCurrent ResolvedExtensionIsOldestClaim
PROPERTIES BindingWriteOnce
