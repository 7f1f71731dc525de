SPECIFICATION FairSpec
CONSTANTS
  lbcA = lbcA  lbcB = lbcB  poolP = poolP  poolQ = poolQ  memM = memM  memN = memN  memH = memH
  User = User  None = None
  LBC = {lbcA, lbcB}
  Pool = {poolP, poolQ}
  Member = {memM, memN, memH}
  HandMember = {memH}
  Specs <- SpecsOf
  Brought <- BroughtPools
  Repins = {lbcB}
  MaxEdits = 1
  MaxFaults = 1
INVARIANTS HandKept NoStray
PROPERTIES MembersServed
CHECK_DEADLOCK FALSE
