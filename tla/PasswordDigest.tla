--------------------------- MODULE PasswordDigest ---------------------------
(***************************************************************************)
(* transformToSHA1, whose result getAccountInfo compares with the password   *)
(* in the database: how it cuts its input into blocks and pads the last one. *)
(* What a block does to the five words of the digest is arithmetic, and so is *)
(* writing them in hexadecimal; here the digest is the bytes that went into   *)
(* it, block after block.  No branch of the code looks at a byte of the input, *)
(* so each byte is its place in the input.                                    *)
(***************************************************************************)
EXTENDS Integers, SequencesExt

(* A definition whose comment begins with "Mutant" is not part of the model:  *)
(* it is the definition after it with a slip that is easy to make in the     *)
(* code, and is there to see a property fail.                                 *)

CONSTANTS Block,       \* 64 bytes
          Digit,       \* values of a byte: 256
          WordBytes,   \* bytes of a uint32_t
          MaxPassword  \* bound: length of the input, the salt and the password

Word     == Digit ^ WordBytes        \* values of a uint32_t

\* Two words fit in a block and count the bits of the longest input.
ASSUME PasswordDigestAssumption ==
  /\ Block \in Nat /\ Digit \in Nat \ {0} /\ WordBytes \in Nat /\ MaxPassword \in Nat
  /\ 2 * WordBytes < Block
  /\ \A n \in 0 .. WordBytes : Digit ^ n \in Nat \ {0}
  /\ Word % 8 = 0 /\ 8 * MaxPassword < Word * Word

LengthAt == Block - 2 * WordBytes    \* 56
Mark     == Digit \div 2             \* 0x80
Garbage  == Digit                    \* what is in an array that nothing was written to

VARIABLES size,         \* input.length()
          taken,        \* bytes of the input that were read
          messageBlock, \* its contents
          index,        \* the next byte of it
          lengthLow, lengthHigh,
          digest,       \* H: the bytes of the blocks that were processed
          at            \* "input", "pad", "end", "done"

digestVars == <<size, taken, messageBlock, index, lengthLow, lengthHigh, digest, at>>

Data(i) == -i

DigestInit == /\ size \in 0 .. MaxPassword
              /\ messageBlock = [i \in 0 .. Block - 1 |-> Garbage]
              /\ taken = 0 /\ index = 0 /\ lengthLow = 0 /\ lengthHigh = 0
              /\ digest = <<>> /\ at = "input"

\* processSHA1MessageBlock: the whole block goes into the digest.
Process(block) == digest' = digest \o [i \in 1 .. Block |-> block[i - 1]]

CountBits == /\ lengthLow' = (lengthLow + 8) % Word
             /\ lengthHigh' = IF lengthLow' = 0 THEN (lengthHigh + 1) % Word ELSE lengthHigh

TakeByte == /\ at = "input" /\ taken < size
            /\ taken' = taken + 1
            /\ messageBlock' = [messageBlock EXCEPT ![index] = Data(taken')]
            /\ CountBits
            /\ \/ /\ index + 1 = Block
                  /\ Process(messageBlock') /\ index' = 0
               \/ /\ index + 1 < Block
                  /\ index' = index + 1 /\ UNCHANGED digest
            /\ UNCHANGED <<size, at>>

\* Mutant: a mark that is the last byte before the length is thought to be behind it.
LengthFitsBehind(next) == next < LengthAt

\* The length still fits behind what is in the block.
LengthFits(next) == next <= LengthAt

PutMark == /\ at = "input" /\ taken = size
           /\ messageBlock' = [messageBlock EXCEPT ![index] = Mark]
           /\ index' = index + 1
           /\ at' = IF LengthFits(index') THEN "end" ELSE "pad"
           /\ UNCHANGED <<size, taken, lengthLow, lengthHigh, digest>>

\* The bytes from index on, up to the one before last, are 0.
ZeroedTo(last) == [i \in DOMAIN messageBlock |-> IF i \in index .. last - 1 THEN 0
                                                                  ELSE messageBlock[i]]

\* No room for the length: the block ends in zeros, and there is one more.
PadBlock == /\ at = "pad"
            /\ messageBlock' = ZeroedTo(Block)
            /\ Process(messageBlock')
            /\ index' = 0 /\ at' = "end"
            /\ UNCHANGED <<size, taken, lengthLow, lengthHigh>>

\* The bytes of a word, the highest first.
Bytes(word) == [i \in 1 .. WordBytes |-> (word \div Digit ^ (WordBytes - i)) % Digit]

EndBlock == /\ at = "end"
            /\ LET lengths == Bytes(lengthHigh) \o Bytes(lengthLow)
               IN  messageBlock' = [i \in DOMAIN messageBlock |->
                                      IF i < LengthAt THEN ZeroedTo(LengthAt)[i]
                                                      ELSE lengths[i - LengthAt + 1]]
            /\ Process(messageBlock')
            /\ index' = LengthAt /\ at' = "done"
            /\ UNCHANGED <<size, taken, lengthLow, lengthHigh>>

DigestNext == TakeByte \/ PutMark \/ PadBlock \/ EndBlock

DigestSpec == DigestInit /\ [][DigestNext]_digestVars

-----------------------------------------------------------------------------
(* Properties *)

Zeros(n) == [i \in 1 .. n |-> 0]

\* Padding as SHA-1 defines it: the input, a mark, as few zeros as it takes to
\* fill the last block, and the number of bits in two words.
Padded ==
  LET body   == [i \in 1 .. size |-> Data(i)] \o <<Mark>>
      bits   == Bytes((8 * size) \div Word) \o Bytes((8 * size) % Word)
      zeros  == CHOOSE n \in 0 .. Block - 1 : (Len(body) + n + Len(bits)) % Block = 0
  IN  body \o Zeros(zeros) \o bits

\* What goes into the digest is the padded input, block after block: nothing of
\* an earlier block or of an array that was not written to, for every length on
\* either side of the boundaries (the index > 56 of transformToSHA1).
DigestsPadded == /\ IsPrefix(digest, Padded)
                 /\ at = "done" => digest = Padded
=============================================================================
