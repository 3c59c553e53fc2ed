SPECIFICATION Spec
CONSTANTS
  DiskSectors = 11
  Alignment = 2
  Contract <- MCContract
  Final = 3
  Root = 2
  MinimumMedia = 8
  ImageId = "5249474f"
  Fault <- OnlyInit
  Trouble = {}
  MaxBoots = 1
  None = None
INVARIANT NegativeGate
CHECK_DEADLOCK FALSE
