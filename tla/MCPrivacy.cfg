SPECIFICATION Spec
CONSTANTS
  Backends = {"memory", "postgres"}
  Casts <- AllCasts
  MaxRestarts = 1
  Nothing = Nothing
  Leads <- LeadsHere
  Attendees <- AttendeesHere
  Owner <- OwnerHere
  Shared <- SharedHere
  Requests <- RequestsHere
  Subject <- SubjectHere
  Exports <- ExportsHere
  FullOnes = {"x1", "x2"}
  MaxVersion = 3
  Jobs = {"j1"}
  GraceDays = {20, 30}
  LastDay = 30
INVARIANTS PrivacyTypeOk NothingLeftBehind OneTimeLinks OneReportPerVersion
PROPERTIES ErasedStaysErased LifecycleForward ShortGraceKept RequestsSettle ExportsSettle PurgeHappens
CHECK_DEADLOCK FALSE
