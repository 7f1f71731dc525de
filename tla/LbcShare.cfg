SPECIFICATION FairSpec
CONSTANTS
  lbcA = lbcA  lbcB = lbcB
  usr1 = usr1  usr2 = usr2  usr3 = usr3  own1 = own1  own2 = own2
  User = User  None = None
  LBC = {lbcA, lbcB}
  LB = {usr1, usr2, own1}
  UserLB = {usr1, usr2}
  Missing = {}
  Named <- NamedNone
  Edits = {"repin"}
  MaxEdits = 1
  FaultAt = {}
  MaxFaults = 0

INVARIANTS OneWriterButLeaving
PROPERTIES ServingLbNeverDeleted
CHECK_DEADLOCK FALSE
