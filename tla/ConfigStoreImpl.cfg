SPECIFICATION TimelySpec
CONSTANTS
  r1 = r1
  r2 = r2
  m3 = m3
  utc = utc
  bkk = bkk
  main = main
  spare = spare
  Alias = {main}
  AliasOf <- MCSameAlias
  Engine = {e1, e2}
  Recovery = recovery
  Revision = {r1, r2, m3}
  Zone = {utc, bkk}
  ZoneOf <- MCZoneOf
  OnBoot <- MCOnBoot
  ImageZone = utc
  None = None
  Torn = Torn
  Env <- RecordSurvives
  MaxBoots = 2
INVARIANT ZoneMatchesRevision
INVARIANT PublicLinksFollowPointer
PROPERTY ImplementsStore
CHECK_DEADLOCK FALSE
