--------------------------- MODULE MCModuleEvents ---------------------------
(* ModuleEvents with few references, so that they are used again.  Modules   *)
(* are kept apart by their order in the vectors only, identifiers by name.   *)
EXTENDS ModuleEvents

CONSTANTS m1, m2, m3, e1, i1

MCModules     == {m1, m2, m3}
MCEvents      == {e1}
MCIdentifiers == {i1}
MCRefs        == 1 .. 3
Symmetry      == Permutations(MCModules)
=============================================================================
