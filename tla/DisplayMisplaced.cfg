\* A forced status, and the position of the last write.
SPECIFICATION Spec
CONSTANTS
  Width = 2
  Height = 2
  RingSize = 8
  Characters = {"a"}
  Blank = " "
  Unknown = "?"
  Statuses = {"!"}
  Cursor = "_"
  BlinkPeriod = 2
  MaxChanges = 3
  Ops = {"force"}
INVARIANT RemoteIsTrue
