SPECIFICATION Spec
CONSTANTS
  s1 = s1
  s2 = s2
  s3 = s3
  n1 = n1
  n2 = n2
  n3 = n3
  h1 = h1
  h2 = h2
  h3 = h3
  g1 = g1
  Source = {s1, s2}
  Registered = {s1}
  Nonce = {n1, n2}
  Handler = {h1, h2, h3}
  Reader = {}
  Skew = 2
  NonceTTL = 4
  Live = 1
  Offline = 2
  PublicLimit = 1
  MaxDelay = 2
  ClockError <- Ahead
  SampleError <- Sampled
  MaxTime = 7
  None = None
SYMMETRY Interchangeable
INVARIANT TypeOK
INVARIANT StoresNewest
INVARIANT MutedAtMostTwiceSkew
PROPERTY AcceptedOnce
CHECK_DEADLOCK FALSE
