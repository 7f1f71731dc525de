SPECIFICATION FairSpec
CONSTANTS
  lbcA = lbcA  lbcB = lbcB
  usr1 = usr1  usr2 = usr2  usr3 = usr3  own1 = own1  own2 = own2
  User = User  None = None
  LBC = {lbcA}
  LB = {usr1, usr2, usr3, own1, own2}
  UserLB = {usr1, usr2, usr3}
  Missing = {usr3}
  Named <- NamedA
  Edits = {"unpin", "repin"}
  MaxEdits = 1
  FaultAt <- Outside
  MaxFaults = 2
INVARIANTS NoFalseProvenance NoOutage GoneLeavesNothing OwnLbReclaimed
PROPERTIES UserLbNeverDeleted DeletionCompletes PinHonoured EventuallyServed
CHECK_DEADLOCK FALSE
