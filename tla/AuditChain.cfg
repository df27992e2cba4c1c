SPECIFICATION FairSpec
CONSTANTS
  s1 = s1
  s2 = s2
  s3 = s3
  chainA = chainA
  chainB = chainB
  Session = {s1, s2, s3}
  Instance = {chainA, chainB}
  InstanceOf <- Mixed
  Change = {x, y}
  Verified = {x}
  None = None
  Retries = 2
  MaxBegins = 2
  MaxTampers = 1
  MaxResets = 1
INVARIANT TypeOK
PROPERTIES ChangeBringsItsBlock ChainOnlyGrows EverySessionEnds
CHECK_DEADLOCK FALSE
