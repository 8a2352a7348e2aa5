\* Runs with and without -resume, single steps, one relaunch, two failures.
SPECIFICATION RegFairSpec
CONSTANTS
  Commands <- SomeCommands
  Resumes = {TRUE, FALSE}
  Codes = {v1, v2}
  Lifetime = 0
  MaxLaunches = 2
  MaxFailures = 2
  MaxTime = 1
  NoFile = NoFile
  Corrupt = Corrupt
CHECK_DEADLOCK FALSE
INVARIANT FileIsTrue FreshReportIsTrue RegInv
PROPERTY RerunsRegister
