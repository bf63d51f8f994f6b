\* A directory with a deleted file.
SPECIFICATION Spec
CONSTANTS
  Handles = {1}
  Safe = FALSE
  SectorBytes = 2
  SectorEntries = 2
  FatEntries = 4
  Sizes = {3}
  BootAt = 0
  Boot <- Boot16
  NumSectors = 15
  FatStart = 1
  RootStart = 3
  DataStart = 5
  MaxCluster = 6
  Link <- Links
  Entries <- EntriesDeleted
  Wanted = {"b"}
INVARIANT ListsInOrder
