SPECIFICATION Spec
CONSTANTS
  c1 = c1
  c2 = c2
  o1 = o1
  t1 = t1
  Ids = {c1, c2}
  Observations = {o1}
  Timers = {t1}
  Plans <- MCPlans
  MaxRoute = 3
  Capacity = 1
CHECK_DEADLOCK FALSE
INVARIANTS
  ChildrenExact
  SignalsExact
  MessageCustody
PROPERTIES
  RetirementReturns
