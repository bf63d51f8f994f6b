\* Two handles in safe mode, on a FAT32 in a partition.
SPECIFICATION Spec
CONSTANTS
  Handles = {1, 2}
  Safe = TRUE
  SectorBytes = 2
  SectorEntries = 2
  FatEntries = 4
  Sizes = {3}
  BootAt = 2
  Boot <- Boot32
  NumSectors = 18
  FatStart = 3
  RootStart = 7
  DataStart = 7
  MaxCluster = 6
  Link <- Links
  Entries <- Entries32
  Wanted = {"b"}
INVARIANTS HandlesSound ReadInOrder
PROPERTY EndIsTheEnd
