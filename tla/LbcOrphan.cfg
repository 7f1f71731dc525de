SPECIFICATION Spec
CONSTANTS
  lbcA = lbcA  lbcB = lbcB
  usr1 = usr1  usr2 = usr2  usr3 = usr3  own1 = own1  own2 = own2
  User = User  None = None
  LBC = {lbcA}
  LB = {own1}
  UserLB = {}
  Missing = {}
  Named <- NamedNone
  Edits = {}
  MaxEdits = 0
  FaultAt = {"recordCreated"}
  MaxFaults = 1
INVARIANT MadeNotForgotten
CHECK_DEADLOCK FALSE
