SPECIFICATION Spec
CONSTANTS
  r1 = r1
  r2 = r2
  m3 = m3
  utc = utc
  bkk = bkk
  main = main
  spare = spare
  Alias = {main, spare}
  AliasOf <- MCAliasOf
  Engine = {e1, e2}
  Recovery = recovery
  Revision = {r1, r2}
  Zone = {utc, bkk}
  ZoneOf <- MCZoneOf
  OnBoot <- MCOnBoot
  ImageZone = utc
  None = None
  Torn = Torn
  Env <- Unattended
  MaxBoots = 2
INVARIANT TypeOK
INVARIANT PointersComplete
INVARIANT IdentitiesSurvive
INVARIANT TransactionHoldsRecord
INVARIANT MinerRunsCurrent
CHECK_DEADLOCK FALSE
