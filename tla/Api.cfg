SPECIFICATION Spec
CONSTANTS
  a1 = a1
  a2 = a2
  a3 = a3
  n1 = n1
  n2 = n2
  r1 = r1
  r2 = r2
  old = old
  k1 = k1
  k2 = k2
  k3 = k3
  t1 = t1
  t2 = t2
  new = new
  Ids = {a1, a2, a3}
  Names = {n1, n2}
  Requests = {r1, r2}
  MaxAge = 0
  Founders <- Two
  NoName = NoName
  NoId = NoId
  Keys = {k1, k2, k3}
  Attempts = {t1, t2}
  Limit = 2
  Window = 2
  MaxKeys = 2
  NoKey = NoKey
  Containers = {old, new}
  Newest <- Heads
  Migrates = {old, new}
  First = 0
  NoBase = NoBase
  Pollers = {daily}
  TailChars = 2
  Width = 2
  MaxBytes = 8
SYMMETRY ApiSymmetry
CONSTRAINT Apart
INVARIANTS
  WindowsHold
  ReadyMeansMigrated
  OutputIsRight
PROPERTIES
  LastAdminStands
  RevokedChangesNothing
  LiveCountsStay
\* The script has exited and every poller has its final answer; the API has
\* started.
CHECK_DEADLOCK FALSE
