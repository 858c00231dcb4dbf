------------------------------ MODULE Checksum ------------------------------
(***************************************************************************)
(* adlerChecksum, which every packet passes through on its way in and on     *)
(* its way out.  It takes its sums modulo Base once in a chunk of the        *)
(* message, in 32 bits: the chunk must be short enough for the sums not to   *)
(* overflow before that.  Bytes are read as they come.                      *)
(***************************************************************************)
EXTENDS Naturals

(* A definition whose comment begins with "Mutant" is not part of the model:  *)
(* it is the definition after it with a slip that is easy to make in the     *)
(* code, and is there to see a property fail.                                 *)

CONSTANTS MaxSize,    \* NETWORKMESSAGE_MAXSIZE
          Base,       \* adler, 65521
          Chunk,      \* 5552
          MaxByte,    \* 255
          Width,      \* values of a uint32_t
          Shift,      \* b << 16
          MaxLength   \* bound: length of a message

\* What the code's numbers have in common; ChecksumProofs shows that they do.
ASSUME ChecksumAssumption ==
  /\ MaxSize \in Nat /\ MaxLength \in Nat /\ MaxByte \in Nat
  /\ Base \in Nat /\ Base > 1 /\ Chunk \in Nat \ {0}
  /\ Width \in Nat /\ Shift \in Nat
  /\ Base <= Shift /\ Base * Shift <= Width
  /\ 2 * (Base - 1) * (Chunk + 1) + MaxByte * Chunk * (Chunk + 1) < 2 * Width

VARIABLES pc,      \* "while", "do" or "mod" of the loops, "done"
          length,  \* bytes after this chunk
          tmp,     \* bytes of this chunk that are not yet added
          a, b,    \* the two sums
          result   \* what is returned, or Unknown

vars == <<pc, length, tmp, a, b, result>>

Unknown == Width    \* no uint32_t

Init == /\ length \in 0 .. MaxLength
        /\ pc = "while" /\ tmp = 0
        /\ a = 1 /\ b = 0 /\ result = Unknown

TooLong == /\ pc = "while" /\ length > MaxSize
           /\ pc' = "done" /\ result' = 0
           /\ UNCHANGED <<length, tmp, a, b>>

\* Mutant: a chunk is one byte longer.
ChunkOfMore(n) == IF n > Chunk + 1 THEN Chunk + 1 ELSE n

ChunkOf(n) == IF n > Chunk THEN Chunk ELSE n

TakeChunk == /\ pc = "while" /\ length \in 1 .. MaxSize
             /\ tmp' = ChunkOf(length)
             /\ length' = length - tmp'
             /\ pc' = "do"
             /\ UNCHANGED <<a, b, result>>

AddByte(byte) == /\ pc = "do"
                 /\ a' = (a + byte) % Width
                 /\ b' = (b + a') % Width
                 /\ tmp' = tmp - 1
                 /\ pc' = IF tmp' = 0 THEN "mod" ELSE "do"
                 /\ UNCHANGED <<length, result>>

Reduce == /\ pc = "mod"
          /\ a' = a % Base /\ b' = b % Base
          /\ pc' = "while"
          /\ UNCHANGED <<length, tmp, result>>

Return == /\ pc = "while" /\ length = 0
          /\ result' = ((b * Shift) % Width) + a
          /\ pc' = "done"
          /\ UNCHANGED <<length, tmp, a, b>>

Next == \/ TooLong \/ TakeChunk \/ Reduce \/ Return
        \/ \E byte \in 0 .. MaxByte : AddByte(byte)

SafeSpec == Init /\ [][Next]_vars
Spec     == SafeSpec /\ WF_vars(Next)

-----------------------------------------------------------------------------
(* Properties *)

\* A chunk has bytes while it is added, and the sums are in range.
TypeOK == /\ pc \in {"while", "do", "mod", "done"}
          /\ length \in 0 .. MaxLength /\ tmp \in 0 .. Chunk
          /\ a \in 0 .. Width - 1 /\ b \in 0 .. Width - 1
          /\ result \in 0 .. Width
          /\ tmp > 0 <=> pc = "do"

\* The next byte fits, whatever it is: neither sum can pass 32 bits before it
\* is next reduced (the 5552 of adlerChecksum).
SumsFit == pc = "do" => /\ a + MaxByte < Width
                        /\ b + a + MaxByte < Width

A == INSTANCE Adler WITH left <- length + tmp, a <- a % Base, b <- b % Base

\* Reducing the sums once in a chunk, in 32 bits, computes the checksum of the
\* definition, for every message.
ImplementsAdler     == A!Spec
ImplementsAdlerSafe == A!SafeSpec
=============================================================================
