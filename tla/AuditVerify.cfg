SPECIFICATION Spec
CONSTANTS
  s1 = s1
  s2 = s2
  s3 = s3
  chainA = chainA
  chainB = chainB
  Session = {s1, s2}
  Instance = {chainA, chainB}
  InstanceOf <- Apart
  Change = {x, y, z}
  Verified = {x}
  None = None
  Retries = 2
  MaxBegins = 3
  MaxTampers = 2
  MaxResets = 0
INVARIANT VerificationIsExact
CHECK_DEADLOCK FALSE
