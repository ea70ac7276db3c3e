SPECIFICATION MCSpec
CONSTANTS
  Disks <- MCDisks
  CLUSTER_SIZE = 2
  NAME = 2
  EXT = 1
  Names <- MCNames
  Sizes = {0, 3, 5}
  Offsets <- MCOffsets
  Starts <- MCStarts
  POSITIONS = 16
  Present <- MCDrives
  Drives <- MCDrives
  WORDS = 2
  SECTORS = 2
  Volumes <- MCVolumes
  Blocks = {"b1", "b2", "b3"}
CHECK_DEADLOCK FALSE
INVARIANTS Handshake LookupRight ReadsFile FatOwned GeometryRight
PROPERTIES CallsReturn StopsOnError
