-------------------------- MODULE MCAuthentication --------------------------
(* Authentication in a smaller buffer: its limits are relative to MaxSize but *)
(* for RSA's 128 bytes, which fit with room for credentials.  Two accounts    *)
(* have an id that can be read and one an id that cannot; three characters.     *)
EXTENDS Authentication, TLC

CONSTANTS c1, c2, c3

MCAccountId == {1, 2, 4}
MCCharacter == {c1, c2, c3}
Alike       == Permutations(MCCharacter)

MCSizes   == 0 .. 30 \cup {148, 149, 153, 154, 172, 183, 184}
MCLengths == {0, 1, 7, 8, 14, 15, 16, 17, 200}
MCScalars == {1, 2, 4, 8}
=============================================================================
