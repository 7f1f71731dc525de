SPECIFICATION FairSpec
CONSTANTS
  lbcA = lbcA  lbcB = lbcB  poolP = poolP  poolU = poolU  valX = valX  valY = valY  allowed = allowed  blocked = blocked
  User = User  None = None
  LBC = {lbcA, lbcB}
  Pool = {poolP, poolU}
  Value = {valX, valY}
  Field = {allowed, blocked}
  Allowed = allowed
  Neutral <- Opened
  Wanted <- WantedShared
  Brought <- UsersListener
  Ours = {}
  Layer4 = FALSE
  Repins = {lbcA}
  MaxEdits = 1
  MaxFaults = 1
INVARIANTS UserListenerKept LeftAsFound
PROPERTIES AclStable ServingListenerKept ListenerServed
CHECK_DEADLOCK FALSE
