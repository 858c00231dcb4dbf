--------------------------- MODULE MCModuleLoading ---------------------------
(* ModuleLoading with two names, so that a name may be listed twice.  Names   *)
(* are only compared with each other.                                        *)
EXTENDS ModuleLoading, TLC

CONSTANTS login, chat

MCNames  == {login, chat}

\* The second module, which callbacks of the first may disturb, has two files.
MCMaxFiles == <<1, 2, 1>>

Symmetry == Permutations(MCNames)
=============================================================================
