\* All that the program can do, and then it stops.
SPECIFICATION FairSpec
CONSTANTS
  Width = 2
  Height = 2
  RingSize = 8
  Characters = {"a"}
  Blank = " "
  Unknown = "?"
  Statuses = {"!"}
  Cursor = "_"
  BlinkPeriod = 2
  MaxChanges = 2
  Ops = {"status", "cursor", "force", "custom"}
INVARIANTS DisplaySound RemoteIsTrueUnlessMoved
PROPERTY ShowsPage
