SPECIFICATION PacketSpec
CONSTANTS
  MaxSize = 8
  Base = 5
  Chunk = 3
  MaxByte = 2
  Width = 32
  Shift = 6
  MaxLength = 9
  Block = 8
  Digit = 8
  WordBytes = 2
  MaxPassword = 40
INVARIANTS
  DigestsPadded
PROPERTIES
  ImplementsAdler
CHECK_DEADLOCK FALSE
