SPECIFICATION AlertSpec
CONSTANTS
  Watched <- Workflows
  Scheduled = {"smoke"}
  AlertJob <- TwoJobs
  Flips = 2
  Faults = 0
  Overlaps = 1
INVARIANT StillFailingIsListed
