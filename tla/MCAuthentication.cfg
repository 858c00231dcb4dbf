CONSTANTS
  MaxSize = 200
  Sizes <- MCSizes
  Lengths <- MCLengths
  Scalars <- MCScalars
  c1 = c1
  c2 = c2
  c3 = c3
  AccountId <- MCAccountId
  Character <- MCCharacter
  MaxNumber = 2
SPECIFICATION AuthSpec
INVARIANTS
  DecipheredWasReceived
  BodyWasReceived
  AcceptedIsAsked
  ListIsOwn
SYMMETRY Alike
