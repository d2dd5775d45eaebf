SPECIFICATION Spec
CONSTANTS
  Backends = {"memory"}
  Casts <- GraceCasts
  MaxRestarts = 1
  Nothing = Nothing
  Leads <- LeadsHere
  Attendees <- AttendeesHere
  Owner <- OwnerHere
  Shared <- SharedHere
  Requests <- RequestsHere
  Subject <- SubjectHere
  Exports <- ExportsHere
  FullOnes = {"x1", "x2"}
  MaxVersion = 3
  Jobs = {"j1"}
  GraceDays = {30}
  LastDay = 30
PROPERTY GraceKept
CHECK_DEADLOCK FALSE
