\* A receive buffer: the handler writes, the main program reads and flushes.
SPECIFICATION Spec
CONSTANTS
  Size = 4
  Values = {a, b}
  NoValue = none
  IsrSide = "producer"
  ProducerOps = {"NonBlockingWrite"}
  ConsumerOps = {"Read", "NonBlockingRead", "Flush"}
INVARIANT RingInv
PROPERTY RefinesFifo
