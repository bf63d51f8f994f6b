\* A Send after a Request that failed.
SPECIFICATION FairSpec
CONSTANTS
  InputRoom = 4
  OutputRoom = 3
  MaxRequest = 4
PROPERTY WaitReturns
