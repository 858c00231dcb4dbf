CONSTANTS
  m1 = m1
  m2 = m2
  m3 = m3
  e1 = e1
  i1 = i1
  Modules <- MCModules
  Events <- MCEvents
  Identifiers <- MCIdentifiers
  Refs <- MCRefs
  MaxMarks = 1
SPECIFICATION EventsSpec
SYMMETRY Symmetry
INVARIANTS
  RegistryAgrees
  RefsAreHeld
  
  EmissionIsComplete
