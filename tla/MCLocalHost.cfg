SPECIFICATION Spec
CHECK_DEADLOCK FALSE
CONSTANTS
  Launches <- MCLaunches
  Messages = {"m1", "m2"}
  Fences = {"f1"}
  Capacity = 2
  MaxAdmissions = 2
INVARIANTS IngressConserved AssertionsHold HonestReport
PROPERTY HostReturns
