SPECIFICATION FairSpec
CONSTANTS
  va = va
  vb = vb
  vc = vc
  Validators = {va, vb, vc}
  NoValidator = NoValidator
  Quorums <- TwoOfThree
  Tags = {1, 2}
  BlobTags = {2}
  NoBlock = NoBlock
  Unusable = Unusable
  MaxHeight = 3
  MaxFaults = 2
INVARIANTS TypeOK UnusableNeverDecided DecidedIsHeld HeadIsDecided SafeIsAncestor
PROPERTY AllAdopt
CHECK_DEADLOCK FALSE
