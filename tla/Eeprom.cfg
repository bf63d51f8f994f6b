\* Both kinds of banking, every failure of a transfer.
SPECIFICATION FairSpec
CONSTANTS
  Chips = 2
  EepromSize = 4
  BlockSize = 2
  ByteSize = 2
  OutputRoom = 4
  Texts <- TextsVal
  Starts = {1, 3, 4}
  MaxRead = 3
INVARIANTS CallsLeaveNothing WrittenIsStored ReadIsStored
PROPERTY CallsReturn
