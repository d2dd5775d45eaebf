SPECIFICATION Spec
CONSTANTS
  k1 = k1
  k2 = k2
  a1 = a1
  a2 = a2
  r1 = r1
  r2 = r2
  q1 = q1
  q2 = q2
  Keys <- MCKeys
  Assignments = {a1}
  NoAssignment = NoAssignment
  CapturedUnder <- MCCapturedUnder
  OpenFolders = TRUE
  GrantMayFail = FALSE
  Batches <- MCOneBatch
  Clients = {q1, r1, r2}
  Requests = {q1}
  Runs = {r1, r2}
  Feed <- MCFeed
  PageLimit = 2
  CountLimit = 0
  MaxFaults = 1
SYMMETRY Symmetry
INVARIANTS
  TypeOk
  OneLeadPerTap
  CheckpointCovered
  SyncedIsStored
  NoDanglingLink
PROPERTIES
  LedgerSpec
