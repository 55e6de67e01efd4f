SPECIFICATION DFairSpec
CONSTANTS
  Files = {f1}
  Recorders = {"trunk-recorder", "sdr-trunk", "default"}
  Detection = {TRUE, FALSE}
  MaxWrites = 2
  Slots = 2
  MaxEdits = 2
  MaxFaults = 1
CHECK_DEADLOCK FALSE
INVARIANT MonitorIsAsSaved
INVARIANT OneCallEach
INVARIANT RemovedIsCalled
PROPERTY FinishedAreTaken
