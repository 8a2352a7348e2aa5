SPECIFICATION RegSpec
CONSTANTS
  Commands <- OnlyRRap
  Resumes = {TRUE}
  Codes = {v1}
  Lifetime = 0
  MaxLaunches = 2
  MaxFailures = 1
  MaxTime = 1
  NoFile = NoFile
  Corrupt = Corrupt
CHECK_DEADLOCK FALSE
INVARIANT ResumedReportIsTrue
