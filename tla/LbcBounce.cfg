SPECIFICATION Spec
CONSTANTS
  lbcA = lbcA  lbcB = lbcB
  usr1 = usr1  usr2 = usr2  usr3 = usr3  own1 = own1  own2 = own2
  User = User  None = None
  LBC = {lbcA}
  LB = {usr1, usr2}
  UserLB = {usr1, usr2}
  Missing = {usr2}
  Named <- NamedNone
  Edits = {"repin", "repinLost"}
  MaxEdits = 2
  FaultAt = {}
  MaxFaults = 0
INVARIANT NoOutage
CHECK_DEADLOCK FALSE
