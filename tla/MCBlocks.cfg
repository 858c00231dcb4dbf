CONSTANTS
  MaxSize = 24590
  MaxString = 8192
  Scalars <- MCScalars
  Strings <- MCStrings
  Motds = {21}
  SessionKeys <- MCSessionKeys
  Characters <- MCCharacters
  MaxCharacters = 4
  CountWidth = 4
  Messages = {0, 8192, 8193}
SPECIFICATION ReplySpec
INVARIANTS
  BlocksAreWhole
