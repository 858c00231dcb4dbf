--------------------------- MODULE MCLoginPacket ---------------------------
(* The checksum in five bits, with a modulus of 5 and bytes up to 2: a chunk of *)
(* 3 is the longest that fits, as 5552 is in the code, and messages have up to  *)
(* three.  The digest with blocks of eight bytes, of which four are the length, *)
(* and passwords of up to five blocks: the low word of the length wraps five   *)
(* times.                                                                      *)
EXTENDS LoginPacket
=============================================================================
