---------------------------- MODULE MCLuaStack ----------------------------
(* Three frames: the program's, an emission in it, and a call in that. *)
EXTENDS LuaStack
=============================================================================
