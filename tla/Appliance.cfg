SPECIFICATION FairSpec
CONSTANTS
  DiskSectors = 11
  Alignment = 2
  Contract <- MCContract
  Final = 3
  Root = 2
  MinimumMedia = 8
  ImageId = "5249474f"
  Fault <- Faults
  Trouble <- Troubles
  MaxBoots = 2
  None = None
INVARIANT TypeOK
INVARIANT ReadyMeansWhole
INVARIANT OwnStickRecognised
INVARIANT UnmountedMeansUntouched
INVARIANT EfiIntact
PROPERTY NodeIsForever
PROPERTY UnconfiguredReachesFirstboot
CHECK_DEADLOCK FALSE
