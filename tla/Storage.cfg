\* The clock, the SD card and the sessions on files.
SPECIFICATION Spec
CONSTANTS
  WordSize = 3
  Delays = {1, 3}
  Kinds = {"absent", "SD1", "SDHC"}
  Csds <- CardData
  Sectors = 3
  SectorSize = 2
  ByteSize = 3
  Word = 4
  Range = 8
  Timeouts = {0, 2}
  MaxTries = 2
  Starts = {0, 1}
  Counts = {0, 1, 2}
  Files = {"a"}
  IdSize = 2
  MaxMounts = 3
  MaxWrites = 1
  Depth = 2
INVARIANTS TimeInv CardIsServed 
PROPERTIES RefinesClock TimeIsGiven SdCallsReturn AnswersAreTrue
