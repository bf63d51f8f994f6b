\* Any program, and any faults: tracked and granted tell of each transfer how it
\* was started.
SPECIFICATION FairSpec
CONSTANTS
  InputRoom = 4
  OutputRoom = 3
  MaxRequest = 4
INVARIANT TwiInv
PROPERTIES CompletesInFull TransfersEnd
