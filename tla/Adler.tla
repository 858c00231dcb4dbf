------------------------------- MODULE Adler -------------------------------
(***************************************************************************)
(* The checksum of a packet by its definition: two sums, of the bytes and   *)
(* of the sums so far, each kept below Base after every byte.  Client and    *)
(* server must agree on it, however each of them computes it.               *)
(***************************************************************************)
EXTENDS Naturals

CONSTANTS Base,       \* what the sums are taken modulo
          MaxByte,    \* the largest byte
          Shift,      \* the weight of the second sum in the checksum
          MaxLength,  \* bound: length of a message
          MaxSize,    \* a longer message has the checksum 0
          Unknown     \* no checksum

VARIABLES left,   \* bytes that are still to be added
          a, b,   \* the two sums
          result  \* the checksum, or Unknown

vars == <<left, a, b, result>>

Init == /\ left \in 0 .. MaxLength
        /\ a = 1 /\ b = 0
        /\ result = Unknown

Add(byte) == /\ left > 0 /\ left <= MaxSize
             /\ left' = left - 1
             /\ a' = (a + byte) % Base
             /\ b' = (b + (a + byte)) % Base
             /\ UNCHANGED result

Finish == /\ left = 0 /\ result = Unknown
          /\ result' = b * Shift + a
          /\ UNCHANGED <<left, a, b>>

Refuse == /\ left > MaxSize /\ result = Unknown
          /\ result' = 0
          /\ UNCHANGED <<left, a, b>>

Next == (\E byte \in 0 .. MaxByte : Add(byte)) \/ Finish \/ Refuse

SafeSpec == Init /\ [][Next]_vars

\* A checksum is computed in the end.
Spec == SafeSpec /\ WF_vars(Next)
=============================================================================
