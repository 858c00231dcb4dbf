CONSTANTS
  login = login
  chat = chat
  Names <- MCNames
  MaxModules = 3
  MaxFiles <- MCMaxFiles
SPECIFICATION Spec
SYMMETRY Symmetry
INVARIANTS
  SandboxedUnlessDisturbed
  RegisteredAreAlive
  InitIsOwn
CHECK_DEADLOCK FALSE
