\* The drivers and utilities that share no state.
SPECIFICATION Spec
CONSTANTS
  Bits = 4
  Bounce = 1
  Dwell = 5
  MaxTurns = 2
  MaxClicks = 1
  Inputs = 2
  AdcByte = 4
  Threshold = 2
  LockLevels = {4}
  Readings <- PotReadings
  QueueSize = 4
  Types = {0, 15}
  Ids = {6}
  Nibble = 4
  EvByte = 2
  MaxDue = 4
  Leds = 2
  Levels = 4
  Intensities <- PixelPairs
  Switches = 2
  Wires = 3
  Samples = 4
  Slots = 4
  ValueBytes = 2
  DmaByte = 8
  Numbers = 6
  Replies = {"x", "y"}
  UsartBytes = {"x", "y"}
  Pins = {0, 1, 2, 3}
  FirstPin = 1
  LastPin = 2
  HandlerPin = 3
  InvertedPin = 0
  Channels = {0, 1, 2}
  HandlerChannel = 1
  Modes = {0, 3}
  IntLevels = {0, 2}
  Sources = {"internal", "crystal"}
  Factors = {0, 4}
  NibbleBits = 2
  FirstSeed = 33
  Seeds = {0, 4660}
  IntTypes <- IntegerTypes
  HandlerDigits <- DigitsOfHandler
INVARIANTS
  KnobIsCounted PotsAreTrue UserIsHeard ChainsAgree DmaIsAQueue
  UsedWhenReady RegistersAsAsked OperatorsRight PeriodIsWhole TextStaysWhole
