\* One task that Airflow runs again once, on a worker that may be suspended.
CONSTANTS
  process = process
  embed = embed
  daily = daily
  manual = manual
  Keys = {embed}
  JobIds = {j1, j2}
  MaxJob = 1
  Retention = 1
  NoKey = NoKey
  Tasks = {daily}
  TaskKey <- OneTask
  Retries = 1
  WarmUp = 1
  Deadline = 3
  MaxLate = 1
  Prompt = FALSE
  NoJob = NoJob
SPECIFICATION FairSpec
PROPERTY
  TasksEnd
\* The task ends, and then nothing is left to do.
CHECK_DEADLOCK FALSE
