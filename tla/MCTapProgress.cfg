SPECIFICATION ApartSpec
CONSTANTS
  k1 = k1
  k2 = k2
  a1 = a1
  a2 = a2
  r1 = r1
  r2 = r2
  q1 = q1
  q2 = q2
  Keys <- MCKeys
  Assignments = {a1}
  NoAssignment = NoAssignment
  CapturedUnder <- MCCapturedUnder
  OpenFolders = TRUE
  GrantMayFail = TRUE
  Batches <- MCBatches
  Clients = {q1, q2, r1, r2}
  Requests = {q1, q2}
  Runs = {r1, r2}
  Feed <- MCShortFeed
  PageLimit = 1
  CountLimit = 3
  MaxFaults = 1
PROPERTIES
  TapsAreDelivered
  StreamDrains
  FailuresEscalate

CHECK_DEADLOCK FALSE
