SPECIFICATION Spec
CONSTANTS
  MaxMessages = 3
  Blank <- MCBlank
INVARIANTS
  NothingRefused
  InOnePlace
  TakenOnlyWhenRaced
  OnlineInOrder
PROPERTIES
  OnlineIsHandled
  StartsUnlessRaced
CHECK_DEADLOCK FALSE
