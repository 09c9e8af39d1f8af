\* Two tasks of one key with requests lost, delayed and retried.
CONSTANTS
  process = process
  embed = embed
  daily = daily
  manual = manual
  Keys = {process}
  JobIds = {j1, j2, j3}
  MaxJob = 1
  Retention = 3
  NoKey = NoKey
  Tasks = {daily, manual}
  TaskKey <- SameJob
  Retries = 0
  WarmUp = 1
  Deadline = 3
  MaxLate = 1
  Prompt = TRUE
  NoJob = NoJob
SYMMETRY IdSymmetry
SPECIFICATION Spec
INVARIANTS
  SingleFlight
  GreenMeansDone
  DeadlineIsSpare
PROPERTIES
  PolledIsKept
  ImplementsService
\* Both tasks end, and then nothing is left to do.
CHECK_DEADLOCK FALSE
