SPECIFICATION VerifySpec
CONSTANTS
  Chains = {c1, c2}
  Builds = {b1, b2}
  Tests = {t1}
  Verifiers = {v1}
  StepFlags = {"deploy", "register", "services", "version", "test"}
  MaxFaults = 1
  Filters <- ShownIds
  Others = 1
  NoConfig = NoConfig
  Empty = Empty
  NoService = NoService
  NoCounter = NoCounter
INVARIANT VerifyInv ConfigIsReady PassedTestWasServed CleanReportIsReady VerifiedInstructionsReachTheirExtension
SYMMETRY Symmetry
CHECK_DEADLOCK FALSE
