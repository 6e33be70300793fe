SPECIFICATION Spec
CONSTANTS
  a = a
  k1 = k1
  r1 = r1
  s1 = s1
  s2 = s2
  s3 = s3
  us = us
  Levels = Levels
  None = None
  Nobody = Nobody
INVARIANT FreshInstallsStart
CHECK_DEADLOCK FALSE
