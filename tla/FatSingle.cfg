\* One handle, not in safe mode, on a FAT16.
SPECIFICATION FairSpec
CONSTANTS
  Handles = {1}
  Safe = FALSE
  SectorBytes = 2
  SectorEntries = 2
  FatEntries = 4
  Sizes = {1, 3, 8}
  BootAt = 0
  Boot <- Boot16
  NumSectors = 15
  FatStart = 1
  RootStart = 3
  DataStart = 5
  MaxCluster = 6
  Link <- Links
  Entries <- Entries16
  Wanted = {"a", "none"}
INVARIANT ReadInOrder
PROPERTY CallsReturn
