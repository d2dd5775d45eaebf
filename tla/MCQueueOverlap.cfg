SPECIFICATION ApartSpec
CONSTANTS
  w1 = w1
  w2 = w2
  n1 = n1
  n2 = n2
  o1 = o1
  p1 = p1
  attendee = attendee
  Actors = {w1, w2, n1, n2, o1, p1, attendee}
  Workers = {w1, w2}
  Notes = {n1, n2}
  Organizers = {o1}
  Receivers = {p1}
  Attendee = attendee
  None = None
  MaxAttempts = 2
  MaxFaults = 0
  MaxRequests = 2
  MaxChanges = 1
  ReceiptKinds = {"delivered", "bounced", "complained"}
SYMMETRY Symmetry
INVARIANTS
  QueueTypeOk
  NothingClaimedUnsent
  LateSends
  FollowupInStep
  DeadLettersAreExhausted
CHECK_DEADLOCK FALSE
