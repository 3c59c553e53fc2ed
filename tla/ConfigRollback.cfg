SPECIFICATION FairTimelySpec
CONSTANTS
  r1 = r1
  r2 = r2
  m3 = m3
  utc = utc
  bkk = bkk
  main = main
  spare = spare
  Alias = {main}
  AliasOf <- MCSameAlias
  Engine = {e1, e2}
  Recovery = recovery
  Revision = {r1, r2, m3}
  Zone = {utc, bkk}
  ZoneOf <- MCZoneOf
  OnBoot <- MCOnBoot
  ImageZone = utc
  None = None
  Torn = Torn
  Env <- Handled
  MaxBoots = 2
INVARIANT RetainedRecordMeansStopped
PROPERTY RollbackRestores
PROPERTY AppliedTakesEffect
PROPERTY CleanBootMines
CHECK_DEADLOCK FALSE
