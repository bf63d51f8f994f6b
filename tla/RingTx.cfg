\* A transmit buffer: the main program writes bytes, or the pairs of nibbles
\* of the LCD, and the handler reads them one by one.
SPECIFICATION TxSpec
CONSTANTS
  Size = 4
  Values = {a, b}
  NoValue = none
  IsrSide = "consumer"
  ProducerOps = {"Write", "NonBlockingWrite"}
  ConsumerOps = {"NonBlockingRead"}
INVARIANT InBounds
PROPERTIES RefinesFifo WriteReturns
