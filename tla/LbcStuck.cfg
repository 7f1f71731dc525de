SPECIFICATION FairSpec
CONSTANTS
  lbcA = lbcA  lbcB = lbcB
  usr1 = usr1  usr2 = usr2  usr3 = usr3  own1 = own1  own2 = own2
  User = User  None = None
  LBC = {lbcA}
  LB = {own1, own2}
  UserLB = {}
  Missing = {}
  Named <- NamedNone
  Edits = {}
  MaxEdits = 0
  FaultAt = {"waitActive"}
  MaxFaults = 1
PROPERTY EventuallyServed
CHECK_DEADLOCK FALSE
