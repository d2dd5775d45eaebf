SPECIFICATION Spec
CONSTANTS
  w1 = w1
  w2 = w2
  n1 = n1
  n2 = n2
  o1 = o1
  p1 = p1
  attendee = attendee
  Actors = {w1, n1, attendee}
  Workers = {w1}
  Notes = {n1}
  Organizers = {}
  Receivers = {}
  Attendee = attendee
  None = None
  MaxAttempts = 2
  MaxFaults = 0
  MaxRequests = 1
  MaxChanges = 1
  ReceiptKinds = {"delivered"}
INVARIANT EveryAttemptTracked
CHECK_DEADLOCK FALSE
