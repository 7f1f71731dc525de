SPECIFICATION FairSpec
CONSTANTS
  glbcA = glbcA  glbcB = glbcB  lbX = lbX  lbY = lbY  poolP = poolP  poolQ = poolQ  nameN = nameN  memM = memM  memH = memH
  User = User  None = None
  GLBC = {glbcA, glbcB}
  LB = {lbX, lbY}
  Port = {1, 2}
  Pool = {poolP, poolQ}
  Member = {memM, memH}
  Name <- SameName
  Wanted <- WantedShared
  Brought <- UsersLb
  Hand = {memH}
  MaxEdits = 1
  MaxFaults = 1
INVARIANTS UserGroupKept Reclaimed
PROPERTIES SiblingKept GlobalServed
CHECK_DEADLOCK FALSE
