--------------------------- MODULE ChecksumProofs --------------------------
(* The checksum in chunks is the checksum of the definition, for every width, *)
(* modulus and chunk that satisfy ChecksumAssumption, as the code's do; and   *)
(* what goes into the digest of a password is the padded password, for every  *)
(* size of block and length.                                                  *)
EXTENDS LoginPacket, TLAPS

-----------------------------------------------------------------------------
(* Arithmetic modulo m *)

\* Quotient and remainder.
LEMMA Division ==
  ASSUME NEW x \in Nat, NEW m \in Nat \ {0}
  PROVE  /\ x % m \in Nat /\ x % m < m
         /\ x \div m \in Nat
         /\ x = m * (x \div m) + (x % m)
BY SMT

\* A remainder is determined.
LEMMA RemainderUnique ==
  ASSUME NEW m \in Nat \ {0}, NEW p \in Int, NEW q \in Int,
         NEW r \in Nat, NEW s \in Nat, r < m, s < m, m * p + r = m * q + s
  PROVE  r = s
<1>1. CASE p = q
  BY <1>1
<1>2. CASE p < q
  <2>1. m * q >= m * (p + 1)
    BY <1>2
  <2> QED BY <2>1
<1>3. CASE q < p
  <2>1. m * p >= m * (q + 1)
    BY <1>3
  <2> QED BY <2>1
<1> QED BY <1>1, <1>2, <1>3

\* A sum may be reduced before something is added to it.
LEMMA ModSum ==
  ASSUME NEW x \in Nat, NEW y \in Nat, NEW m \in Nat \ {0}
  PROVE  ((x % m) + y) % m = (x + y) % m
<1> DEFINE r == x % m
           d == x \div m
           p == (r + y) \div m
           q == (x + y) \div m
           s == (r + y) % m
           t == (x + y) % m
<1>1. r \in Nat /\ d \in Nat /\ x = m * d + r
  BY Division
<1>2. s \in Nat /\ s < m /\ p \in Nat /\ r + y = m * p + s
  BY <1>1, Division
<1>3. t \in Nat /\ t < m /\ q \in Nat /\ x + y = m * q + t
  BY Division
<1> HIDE DEF r, d, p, q, s, t
<1>4. m * (p + d) + s = m * q + t
  BY <1>1, <1>2, <1>3
<1>5. p + d \in Int /\ q \in Int
  BY <1>1, <1>2, <1>3
<1>6. s = t
  BY <1>2, <1>3, <1>4, <1>5, RemainderUnique
<1> QED BY <1>6 DEF r, s, t

\* So may both summands of the second sum.
LEMMA ModSums ==
  ASSUME NEW x \in Nat, NEW y \in Nat, NEW d \in Nat, NEW m \in Nat \ {0}
  PROVE  (y + (x + d)) % m = ((y % m) + ((x % m) + d)) % m
<1> DEFINE u == x % m
           v == y % m
<1>1. u \in Nat /\ v \in Nat
  BY Division
<1> HIDE DEF u, v
<1>2. u + d \in Nat /\ d + y \in Nat
  BY <1>1
<1>3. (v + (u + d)) % m = (y + (u + d)) % m
  BY <1>2, ModSum DEF v
<1>4. (u + (d + y)) % m = (x + (d + y)) % m
  BY <1>2, ModSum DEF u
<1>5. y + (u + d) = u + (d + y) /\ y + (x + d) = x + (d + y)
  BY <1>1
<1> QED BY <1>3, <1>4, <1>5 DEF u, v

\* What is smaller than the modulus is its own remainder.
LEMMA ModSmall ==
  ASSUME NEW x \in Nat, NEW m \in Nat \ {0}, x < m
  PROVE  x % m = x
<1>1. x = m * 0 + x
  OBVIOUS
<1> QED BY <1>1, Division, RemainderUnique

-----------------------------------------------------------------------------
(* How far the sums get in a chunk *)

\* What the sums are at most when k bytes of a chunk have been added: each byte
\* adds MaxByte to the first one, and the first one to the second.
FirstBound(k)  == (Base - 1) + MaxByte * k
SecondBound(k) == 2 * (Base - 1) * (k + 1) + MaxByte * k * (k + 1)

Below(x, y, k) == x <= FirstBound(k) /\ 2 * y <= SecondBound(k)

\* One byte takes the sums from one bound to the next.
LEMMA ByteKeepsBound ==
  ASSUME NEW k \in Nat, NEW x \in Nat, NEW y \in Nat, NEW d \in 0 .. MaxByte,
         Below(x, y, k)
  PROVE  Below(x + d, y + (x + d), k + 1)
<1> DEFINE c == Base - 1
<1>1. c \in Nat /\ MaxByte \in Nat /\ d \in Nat /\ d <= MaxByte
  BY ChecksumAssumption DEF ChecksumAssumption
<1>2. x <= c + MaxByte * k /\ 2 * y <= 2 * c * (k + 1) + MaxByte * k * (k + 1)
  BY DEF Below, FirstBound, SecondBound
<1> HIDE DEF c
<1>3. MaxByte * (k + 1) = MaxByte * k + MaxByte
  BY <1>1
<1>4. x + d <= c + MaxByte * (k + 1)
  BY <1>1, <1>2, <1>3
<1>5. 2 * c * (k + 1) + 2 * c = 2 * c * (k + 2)
  BY <1>1
<1>6. MaxByte * k * (k + 1) + 2 * (MaxByte * (k + 1)) = MaxByte * (k + 1) * (k + 2)
  BY <1>1
<1>7. 2 * (y + (x + d)) <= 2 * c * (k + 2) + MaxByte * (k + 1) * (k + 2)
  <2> DEFINE u == 2 * c * (k + 1)
             v == MaxByte * k * (k + 1)
             w == MaxByte * (k + 1)
  <2>1. u \in Nat /\ v \in Nat /\ w \in Nat
    BY <1>1
  <2>2. 2 * y <= u + v /\ x + d <= c + w
    BY <1>2, <1>4
  <2> HIDE DEF u, v, w
  <2>3. 2 * (y + (x + d)) <= (u + 2 * c) + (v + 2 * w)
    BY <1>1, <2>1, <2>2
  <2> QED BY <1>5, <1>6, <2>3 DEF u, v, w
<1> QED BY <1>4, <1>7 DEF Below, FirstBound, SecondBound, c

\* The sums of a chunk stay below the bound for a whole one, which fits.
LEMMA BoundFits ==
  ASSUME NEW k \in 0 .. Chunk, NEW x \in Nat, NEW y \in Nat, Below(x, y, k)
  PROVE  x < Width /\ y < Width
<1> DEFINE c == Base - 1
<1>1. /\ c \in Nat /\ MaxByte \in Nat /\ Width \in Nat /\ Chunk \in Nat /\ Chunk >= 1
      /\ k \in Nat /\ k <= Chunk
      /\ 2 * c * (Chunk + 1) + MaxByte * Chunk * (Chunk + 1) < 2 * Width
  BY ChecksumAssumption DEF ChecksumAssumption
<1>2. x <= c + MaxByte * k /\ 2 * y <= 2 * c * (k + 1) + MaxByte * k * (k + 1)
  BY DEF Below, FirstBound, SecondBound
<1> HIDE DEF c
<1>3. MaxByte * k <= MaxByte * Chunk
  BY <1>1
<1>4. 2 * c * (k + 1) <= 2 * c * (Chunk + 1)
  BY <1>1
<1>5. MaxByte * k * (k + 1) <= MaxByte * Chunk * (Chunk + 1)
  <2>1. MaxByte * k * (k + 1) <= MaxByte * Chunk * (k + 1)
    BY <1>1, <1>3
  <2>2. MaxByte * Chunk * (k + 1) <= MaxByte * Chunk * (Chunk + 1)
    BY <1>1
  <2> QED BY <1>1, <2>1, <2>2
<1>6. 2 * c <= 2 * c * (Chunk + 1)
  BY <1>1
<1>7. 2 * (MaxByte * Chunk) <= MaxByte * Chunk * (Chunk + 1)
  BY <1>1
<1> DEFINE u == 2 * c * (Chunk + 1)
           v == MaxByte * Chunk * (Chunk + 1)
           w == MaxByte * Chunk
           p == 2 * c * (k + 1)
           q == MaxByte * k * (k + 1)
           r == MaxByte * k
<1>8. {u, v, w, p, q, r} \subseteq Nat
  BY <1>1
<1>9. /\ u + v < 2 * Width /\ x <= c + r /\ 2 * y <= p + q
      /\ r <= w /\ p <= u /\ q <= v /\ 2 * c <= u /\ 2 * w <= v
  BY <1>1, <1>2, <1>3, <1>4, <1>5, <1>6, <1>7
<1> HIDE DEF u, v, w, p, q, r
<1> QED BY <1>1, <1>8, <1>9

-----------------------------------------------------------------------------
(* The invariant *)

\* The sums are reduced between chunks, and bounded by what was added since.
Bounded == /\ pc \in {"while", "done"} => a < Base /\ b < Base
           /\ pc \in {"do", "mod"} => Below(a, b, Chunk - tmp)

\* A result is there when the function has returned, and not before.
Returned == result = Unknown <=> pc # "done"

\* A message is added only if it is no longer than a packet.
Checked == pc \in {"do", "mod"} => length + tmp <= MaxSize

IInv == TypeOK /\ Bounded /\ Returned /\ Checked

\* No bytes added: what is below Base is within the bounds.
LEMMA ReducedIsBelow ==
  ASSUME NEW k \in Nat, NEW x \in Nat, NEW y \in Nat, x < Base, y < Base
  PROVE  Below(x, y, k)
<1>1. Base - 1 \in Nat /\ MaxByte \in Nat /\ x <= Base - 1 /\ y <= Base - 1
  BY ChecksumAssumption DEF ChecksumAssumption
<1>2. MaxByte * k >= 0 /\ MaxByte * k * (k + 1) >= 0
  BY <1>1
<1>3. 2 * (Base - 1) * (k + 1) >= 2 * (Base - 1)
  BY <1>1
<1> QED BY <1>1, <1>2, <1>3 DEF Below, FirstBound, SecondBound

\* So it is however many bytes of a chunk there are to add.
LEMMA ChunkIsBelow ==
  ASSUME NEW t \in 1 .. Chunk, NEW x \in Nat, NEW y \in Nat, x < Base, y < Base
  PROVE  Below(x, y, Chunk - t)
<1>1. Chunk \in Nat
  BY ChecksumAssumption DEF ChecksumAssumption
<1>2. Chunk - t \in Nat
  BY <1>1
<1> QED BY <1>2, ReducedIsBelow

\* What a byte makes of the sums, which do not overflow.
LEMMA ByteFits ==
  ASSUME IInv, pc = "do", NEW byte \in 0 .. MaxByte
  PROVE  /\ a + byte < Width /\ b + (a + byte) < Width
         /\ Below(a + byte, b + (a + byte), Chunk - (tmp - 1))
<1> DEFINE k == Chunk - tmp
<1>1. /\ Chunk \in Nat /\ tmp \in 1 .. Chunk /\ k \in Nat /\ k + 1 \in 0 .. Chunk
      /\ Chunk - (tmp - 1) = k + 1
      /\ a \in Nat /\ b \in Nat /\ a + byte \in Nat /\ b + (a + byte) \in Nat
  BY ChecksumAssumption DEF ChecksumAssumption, IInv, TypeOK
<1>2. Below(a, b, k)
  BY DEF IInv, Bounded
<1> HIDE DEF k
<1>3. Below(a + byte, b + (a + byte), k + 1)
  BY <1>1, <1>2, ByteKeepsBound
<1> QED BY <1>1, <1>3, BoundFits

\* The second sum, shifted, fits beside the first one.
LEMMA ShiftFits ==
  ASSUME NEW x \in Nat, NEW y \in Nat, x < Base, y < Base
  PROVE  /\ (y * Shift) % Width = y * Shift
         /\ y * Shift + x \in 0 .. Width - 1
<1>1. /\ Base \in Nat /\ Shift \in Nat /\ Width \in Nat
      /\ Base <= Shift /\ Base * Shift <= Width /\ Base > 1
  BY ChecksumAssumption DEF ChecksumAssumption
<1>2. /\ y * Shift \in Nat /\ y * Shift <= (Base - 1) * Shift
      /\ (Base - 1) * Shift = Base * Shift - Shift
  BY <1>1
<1>3. y * Shift + x < Width /\ y * Shift < Width
  BY <1>1, <1>2
<1> QED BY <1>1, <1>2, <1>3, ModSmall

\* The invariant holds at the call.
LEMMA InitIInv == Init => IInv
<1> SUFFICES ASSUME Init PROVE IInv
  OBVIOUS
<1>1. Base * Shift >= 4
  BY ChecksumAssumption DEF ChecksumAssumption
<1> QED BY <1>1, ChecksumAssumption
        DEF ChecksumAssumption, Init, IInv, TypeOK, Bounded, Returned, Checked, Unknown

\* Each step of the loops keeps it.
LEMMA NextIInv == IInv /\ [Next]_vars => IInv'
<1> SUFFICES ASSUME IInv, [Next]_vars PROVE IInv'
  OBVIOUS
<1> USE ChecksumAssumption DEF ChecksumAssumption, Unknown
<1>1. CASE TooLong
  <2>1. Base * Shift >= 4
    OBVIOUS
  <2> QED BY <1>1, <2>1 DEF TooLong, IInv, TypeOK, Bounded, Returned, Checked
<1>2. CASE TakeChunk
  <2>1. /\ pc = "while" /\ pc' = "do" /\ length \in Nat /\ length > 0
        /\ length <= MaxSize /\ tmp' = ChunkOf(length) /\ length' = length - tmp'
        /\ a \in Nat /\ b \in Nat /\ a < Base /\ b < Base
        /\ UNCHANGED <<a, b, result>>
    BY <1>2 DEF TakeChunk, IInv, TypeOK, Bounded
  <2>2. tmp' \in 1 .. Chunk /\ tmp' <= length
    BY <2>1 DEF ChunkOf
  <2>3. TypeOK' /\ Returned'
    BY <2>1, <2>2 DEF IInv, TypeOK, Returned
  <2>4. Below(a, b, Chunk - tmp')
    BY <2>1, <2>2, ChunkIsBelow
  <2>5. Checked'
    BY <2>1, <2>2 DEF Checked
  <2> QED BY <2>1, <2>3, <2>4, <2>5 DEF IInv, Bounded
<1>3. ASSUME NEW byte \in 0 .. MaxByte, AddByte(byte) PROVE IInv'
  <2>1. /\ pc = "do" /\ a' = (a + byte) % Width /\ b' = (b + a') % Width
        /\ tmp' = tmp - 1 /\ pc' = (IF tmp' = 0 THEN "mod" ELSE "do")
        /\ UNCHANGED <<length, result>>
        /\ a \in Nat /\ b \in Nat /\ tmp \in 1 .. Chunk
    BY <1>3 DEF AddByte, IInv, TypeOK
  <2>2. /\ a + byte < Width /\ b + (a + byte) < Width
        /\ Below(a + byte, b + (a + byte), Chunk - tmp')
    BY <2>1, ByteFits
  <2>3. /\ a + byte \in Nat /\ b + (a + byte) \in Nat /\ Width \in Nat \ {0}
    BY <2>1, <2>2
  <2>4. a' = a + byte
    BY <2>1, <2>2, <2>3, ModSmall
  <2>5. b' = b + (a + byte)
    BY <2>1, <2>2, <2>3, <2>4, ModSmall
  <2>6. TypeOK' /\ Returned'
    <3>1. tmp' \in 0 .. Chunk /\ (tmp' > 0 <=> pc' = "do") /\ pc' \in {"do", "mod"}
      BY <2>1
    <3>2. a' \in 0 .. Width - 1 /\ b' \in 0 .. Width - 1
      BY <2>2, <2>3, <2>4, <2>5
    <3> QED BY <2>1, <3>1, <3>2 DEF IInv, TypeOK, Returned
  <2>7. Checked'
    BY <2>1 DEF IInv, TypeOK, Checked
  <2> QED BY <2>1, <2>2, <2>4, <2>5, <2>6, <2>7 DEF IInv, Bounded
<1>4. CASE Reduce
  <2>1. /\ a' \in Nat /\ a' < Base /\ b' \in Nat /\ b' < Base /\ Base <= Width
    <3>1. a \in Nat /\ b \in Nat /\ Base \in Nat \ {0}
      BY DEF IInv, TypeOK
    <3>2. Shift >= 1 /\ Base <= Base * Shift
      OBVIOUS
    <3> QED BY <1>4, <3>1, <3>2, Division DEF Reduce
  <2> QED BY <1>4, <2>1 DEF Reduce, IInv, TypeOK, Bounded, Returned, Checked
<1>5. CASE Return
  <2>1. /\ a \in Nat /\ b \in Nat /\ a < Base /\ b < Base
    BY <1>5 DEF Return, IInv, TypeOK, Bounded
  <2>2. result' \in 0 .. Width - 1
    BY <1>5, <2>1, ShiftFits DEF Return
  <2> QED BY <1>5, <2>2 DEF Return, IInv, TypeOK, Bounded, Returned, Checked
<1>6. CASE UNCHANGED vars
  BY <1>6 DEF vars, IInv, TypeOK, Bounded, Returned, Checked, Below, FirstBound, SecondBound
<1> QED BY <1>1, <1>2, <1>3, <1>4, <1>5, <1>6 DEF Next

\* The invariant holds throughout.
LEMMA Invariance == SafeSpec => []IInv
BY InitIInv, NextIInv, PTL DEF SafeSpec

\* Type correctness, for every modulus, chunk and width that fit together.
THEOREM TypeCorrect == Spec => []TypeOK
BY Invariance, PTL DEF Spec, IInv

\* The invariant leaves room for a byte.
LEMMA BoundedSums == IInv => SumsFit
<1> SUFFICES ASSUME IInv, pc = "do" PROVE a + MaxByte < Width /\ b + a + MaxByte < Width
  BY DEF SumsFit
<1>1. MaxByte \in 0 .. MaxByte /\ a \in Nat /\ b \in Nat
  BY ChecksumAssumption DEF ChecksumAssumption, IInv, TypeOK
<1>2. a + MaxByte < Width /\ b + (a + MaxByte) < Width
  BY <1>1, ByteFits
<1> QED BY <1>1, <1>2

\* The sums never pass 32 bits before they are reduced, whatever the bytes are
\* (adlerChecksum reduces them once in 5552 bytes).
THEOREM NoOverflow == Spec => []SumsFit
BY Invariance, BoundedSums, PTL DEF Spec

(* What is computed *)

\* Every step of the loops is one of the definition, or none.
LEMMA StepRefines == IInv /\ [Next]_vars => [A!Next]_(A!vars)
<1> SUFFICES ASSUME IInv, [Next]_vars PROVE [A!Next]_(A!vars)
  OBVIOUS
<1>1. /\ Base \in Nat \ {0} /\ a \in Nat /\ b \in Nat
      /\ length \in Nat /\ tmp \in Nat /\ (tmp > 0 <=> pc = "do")
  BY ChecksumAssumption DEF ChecksumAssumption, IInv, TypeOK
<1>2. CASE TooLong
  <2>1. tmp = 0 /\ result = Unknown /\ length + tmp > MaxSize
    BY <1>1, <1>2 DEF TooLong, IInv, Returned
  <2>2. A!Refuse
    BY <1>2, <2>1 DEF TooLong, A!Refuse
  <2> QED BY <2>2 DEF A!Next
<1>3. CASE TakeChunk
  <2>1. /\ UNCHANGED <<a, b, result>> /\ tmp' = ChunkOf(length)
        /\ length' = length - tmp' /\ tmp = 0 /\ ChunkOf(length) \in Nat
    BY <1>1, <1>3, ChecksumAssumption DEF TakeChunk, ChunkOf, ChecksumAssumption
  <2>2. length' + tmp' = length + tmp
    BY <1>1, <2>1
  <2> QED BY <2>1, <2>2 DEF A!vars
<1>4. ASSUME NEW byte \in 0 .. MaxByte, AddByte(byte) PROVE A!Next
  <2>1. /\ pc = "do" /\ a' = (a + byte) % Width /\ b' = (b + a') % Width
        /\ tmp' = tmp - 1 /\ UNCHANGED <<length, result>>
    BY <1>4 DEF AddByte
  <2>2. /\ byte \in Nat /\ a + byte \in Nat /\ b + (a + byte) \in Nat /\ Width \in Nat \ {0}
        /\ a + byte < Width /\ b + (a + byte) < Width
    <3>1. a + byte < Width /\ b + (a + byte) < Width
      BY <2>1, ByteFits
    <3>2. byte \in Nat /\ Width \in Nat
      BY ChecksumAssumption DEF ChecksumAssumption
    <3> QED BY <1>1, <3>1, <3>2
  <2>3. a' = a + byte /\ b' = b + (a + byte)
    BY <2>1, <2>2, ModSmall
  <2>4. a' % Base = ((a % Base) + byte) % Base
    BY <1>1, <2>2, <2>3, ModSum
  <2>5. b' % Base = ((b % Base) + ((a % Base) + byte)) % Base
    BY <1>1, <2>2, <2>3, ModSums
  <2>6. length + tmp > 0 /\ length + tmp <= MaxSize /\ length' + tmp' = (length + tmp) - 1
    BY <1>1, <2>1 DEF IInv, Checked
  <2>7. A!Add(byte)
    BY <2>1, <2>4, <2>5, <2>6 DEF A!Add
  <2> QED BY <2>7 DEF A!Next
<1>5. CASE Reduce
  <2>1. a % Base \in Nat /\ a % Base < Base /\ b % Base \in Nat /\ b % Base < Base
    BY <1>1, Division
  <2>2. (a % Base) % Base = a % Base /\ (b % Base) % Base = b % Base
    BY <1>1, <2>1, ModSmall
  <2> QED BY <1>5, <2>2 DEF Reduce, A!vars
<1>6. CASE Return
  <2>1. /\ a < Base /\ b < Base /\ length = 0 /\ tmp = 0 /\ result = Unknown
    BY <1>1, <1>6 DEF Return, IInv, Bounded, Returned
  <2>2. a % Base = a /\ b % Base = b
    BY <1>1, <2>1, ModSmall
  <2>3. (b * Shift) % Width = b * Shift
    BY <1>1, <2>1, ShiftFits
  <2>4. A!Finish
    BY <1>6, <2>1, <2>2, <2>3 DEF Return, A!Finish
  <2> QED BY <2>4 DEF A!Next
<1>7. CASE UNCHANGED vars
  BY <1>7 DEF vars, A!vars
<1> QED BY <1>2, <1>3, <1>4, <1>5, <1>6, <1>7 DEF Next

\* Reducing the sums once in a chunk, in 32 bits, computes the checksum of the
\* definition (adlerChecksum), for every message and all numbers that fit.
THEOREM Refinement == SafeSpec => ImplementsAdlerSafe
<1>1. Init => A!Init
  <2> SUFFICES ASSUME Init PROVE A!Init
    OBVIOUS
  <2>1. Base \in Nat /\ Base > 1 /\ 1 % Base = 1 /\ 0 % Base = 0
    <3>1. Base \in Nat \ {0} /\ 1 < Base /\ 0 < Base
      BY ChecksumAssumption DEF ChecksumAssumption
    <3> QED BY <3>1, ModSmall
  <2>2. length + tmp = length
    BY ChecksumAssumption DEF Init, ChecksumAssumption
  <2> QED BY <2>1, <2>2 DEF Init, A!Init
<1> QED BY <1>1, StepRefines, Invariance, PTL DEF SafeSpec, ImplementsAdlerSafe, A!SafeSpec

\* The code's own numbers satisfy what is assumed of them: adlerChecksum's, and
\* the block and the words of transformToSHA1.
THEOREM CodeFits ==
  /\ 65521 <= 65536 /\ 65521 * 65536 <= 4294967296
  /\ 2 * (65521 - 1) * (5552 + 1) + 255 * 5552 * (5552 + 1) < 2 * 4294967296
  /\ 2 * 4 < 64 /\ 4294967296 % 8 = 0
<1>1. /\ 65521 <= 65536 /\ 65521 * 65536 <= 4294967296
      /\ 2 * (65521 - 1) * (5552 + 1) + 255 * 5552 * (5552 + 1) < 2 * 4294967296
  OBVIOUS
<1>2. 2 * 4 < 64
  OBVIOUS
<1>3. 4294967296 % 8 = 0
  <2>1. 4294967296 = 8 * 536870912
    OBVIOUS
  <2> QED BY <2>1
<1> QED BY <1>1, <1>2, <1>3

-----------------------------------------------------------------------------
(* PasswordDigest *)

\* What the assumption says of the sizes of blocks and words.
LEMMA Sizes ==
  /\ Block \in Nat \ {0} /\ LengthAt \in 1 .. Block /\ WordBytes \in Nat
  /\ LengthAt + 2 * WordBytes = Block
  /\ Word \in Nat \ {0} /\ Word % 8 = 0 /\ MaxPassword \in Nat
  /\ 8 * MaxPassword < Word * Word
  /\ Mark \in Int /\ Garbage \in Int
<1>1. Word \in Nat \ {0}
  BY PasswordDigestAssumption DEF PasswordDigestAssumption, Word
<1> HIDE DEF Word
<1>2. /\ Block \in Nat /\ Digit \in Nat /\ WordBytes \in Nat /\ MaxPassword \in Nat
      /\ 2 * WordBytes < Block /\ Word % 8 = 0 /\ 8 * MaxPassword < Word * Word
  BY PasswordDigestAssumption DEF PasswordDigestAssumption
<1> QED BY <1>1, <1>2 DEF LengthAt, Mark, Garbage

\* Where the elements of two sequences are when they are joined.
LEMMA JoinedAt ==
  \A s, t \in Seq(Int) :
    /\ s \o t \in Seq(Int) /\ Len(s \o t) = Len(s) + Len(t)
    /\ \A i \in 1 .. Len(s) : (s \o t)[i] = s[i]
    /\ \A j \in 1 .. Len(t) : (s \o t)[Len(s) + j] = t[j]
OBVIOUS

\* A word has WordBytes bytes.
LEMMA BytesType ==
  ASSUME NEW word \in Nat
  PROVE  Bytes(word) \in Seq(Int) /\ Len(Bytes(word)) = WordBytes
<1>1. ASSUME NEW i \in 1 .. WordBytes
      PROVE  (word \div Digit ^ (WordBytes - i)) % Digit \in Int
  <2> DEFINE power == Digit ^ (WordBytes - i)
  <2>1. WordBytes - i \in 0 .. WordBytes
    BY Sizes
  <2>2. power \in Nat \ {0}
    BY <2>1, PasswordDigestAssumption DEF PasswordDigestAssumption
  <2> HIDE DEF power
  <2>3. Digit \in Nat \ {0}
    BY PasswordDigestAssumption DEF PasswordDigestAssumption
  <2>4. word \div power \in Nat
    BY <2>2, Division
  <2>5. (word \div power) % Digit \in Int
    BY <2>3, <2>4, Division
  <2> QED BY <2>5 DEF power
<1>2. Bytes(word) \in [1 .. WordBytes -> Int]
  BY <1>1 DEF Bytes
<1> HIDE <1>1
<1> QED BY <1>2, Sizes

\* The bits in front of the last two words, and those behind.
Lengths == Bytes((8 * size) \div Word) \o Bytes((8 * size) % Word)

\* Up to the length, the padded input is this.
Content(i) == IF i <= size THEN Data(i) ELSE IF i = size + 1 THEN Mark ELSE 0

\* z zeros fill the last block.
Fills(z) == z \in 0 .. Block - 1 /\ (size + 1 + z + 2 * WordBytes) % Block = 0

\* Multiples of m that are less than m apart are equal.
LEMMA MultiplesApart ==
  ASSUME NEW m \in Nat \ {0}, NEW p \in Nat, NEW q \in Nat, NEW d \in Nat,
         d < m, m * q = m * p + d
  PROVE  d = 0
<1>1. CASE p = q
  BY <1>1
<1>2. CASE p < q
  <2>1. m * q >= m * (p + 1)
    BY <1>2
  <2> QED BY <2>1
<1>3. CASE q < p
  <2>1. m * p >= m * (q + 1)
    BY <1>3
  <2> QED BY <2>1
<1> QED BY <1>1, <1>2, <1>3

\* There is one such number.
LEMMA FillsOnce ==
  ASSUME size \in Nat, NEW y, NEW z, Fills(y), Fills(z)
  PROVE  y = z
<1> DEFINE c == size + 1 + 2 * WordBytes
           p == (c + y) \div Block
           q == (c + z) \div Block
<1>1. /\ Block \in Nat \ {0} /\ c \in Nat /\ y \in 0 .. Block - 1 /\ z \in 0 .. Block - 1
      /\ size + 1 + y + 2 * WordBytes = c + y /\ size + 1 + z + 2 * WordBytes = c + z
  BY Sizes DEF Fills
<1>2. (c + y) % Block = 0 /\ (c + z) % Block = 0
  BY <1>1 DEF Fills
<1> HIDE DEF c
<1>3. /\ p \in Nat /\ c + y = Block * p
      /\ q \in Nat /\ c + z = Block * q
  BY <1>1, <1>2, Division
<1> HIDE DEF p, q
<1>4. CASE y <= z
  <2> DEFINE d == z - y
  <2>1. Block * q = Block * p + d
    BY <1>1, <1>3
  <2>2. d \in Nat /\ d < Block /\ (z = y <=> d = 0)
    BY <1>1, <1>4
  <2> HIDE DEF d
  <2>3. d = 0
    BY <1>1, <1>3, <2>1, <2>2, MultiplesApart
  <2> QED BY <2>2, <2>3
<1>5. CASE z <= y
  <2> DEFINE d == y - z
  <2>1. Block * p = Block * q + d
    BY <1>1, <1>3
  <2>2. d \in Nat /\ d < Block /\ (y = z <=> d = 0)
    BY <1>1, <1>5
  <2> HIDE DEF d
  <2>3. d = 0
    BY <1>1, <1>3, <2>1, <2>2, MultiplesApart
  <2> QED BY <2>2, <2>3
<1> QED BY <1>1, <1>4, <1>5

\* Some number of zeros does.
LEMMA SomeFill ==
  ASSUME size \in Nat
  PROVE  \E z : Fills(z)
<1> DEFINE c == size + 1 + 2 * WordBytes
           r == c % Block
           q == c \div Block
<1>1. Block \in Nat \ {0} /\ c \in Nat /\ WordBytes \in Nat
  BY Sizes
<1> HIDE DEF c
<1>2. r \in Nat /\ r < Block /\ q \in Nat /\ c = Block * q + r
  BY <1>1, Division
<1> HIDE DEF r, q
<1>3. \A n \in Nat : (Block * n) % Block = 0
  <2> SUFFICES ASSUME NEW n \in Nat PROVE (Block * n) % Block = 0
    OBVIOUS
  <2> DEFINE x == Block * n
             s == x % Block
             d == x \div Block
  <2>1. x \in Nat
    BY <1>1
  <2> HIDE DEF x
  <2>2. s \in Nat /\ s < Block /\ d \in Nat /\ x = Block * d + s
    BY <1>1, <2>1, Division
  <2> HIDE DEF s, d
  <2>3. Block * d + s = Block * n + 0
    BY <1>1, <2>1, <2>2 DEF x
  <2>4. s = 0
    BY <1>1, <2>2, <2>3, RemainderUnique
  <2> QED BY <2>4 DEF s, x
<1>4. CASE r = 0
  <2>1. c + 0 = Block * q
    BY <1>1, <1>2, <1>4
  <2>2. size + 1 + 0 + 2 * WordBytes = c + 0
    BY <1>1 DEF c
  <2>3. (size + 1 + 0 + 2 * WordBytes) % Block = 0
    BY <1>2, <1>3, <2>1, <2>2
  <2>4. Fills(0)
    BY <1>1, <2>3 DEF Fills
  <2> QED BY <2>4
<1>5. CASE r # 0
  <2> DEFINE z == Block - r
  <2>1. c + z = Block * (q + 1) /\ q + 1 \in Nat /\ z \in 0 .. Block - 1
    BY <1>1, <1>2, <1>5
  <2>2. size + 1 + z + 2 * WordBytes = c + z
    BY <1>1, <2>1 DEF c
  <2> HIDE DEF z
  <2>3. Fills(z)
    BY <1>3, <2>1, <2>2 DEF Fills
  <2> QED BY <2>3
<1> QED BY <1>4, <1>5

\* What the padded input is, for the number of zeros that fills it.
LEMMA PaddedIs ==
  ASSUME size \in Nat, NEW z, Fills(z)
  PROVE  /\ Padded \in Seq(Int) /\ Len(Padded) = size + 1 + z + 2 * WordBytes
         /\ \A i \in 1 .. size + 1 + z : Padded[i] = Content(i)
         /\ Lengths \in Seq(Int) /\ Len(Lengths) = 2 * WordBytes
         /\ \A j \in 1 .. 2 * WordBytes : Padded[size + 1 + z + j] = Lengths[j]
<1> DEFINE data == [i \in 1 .. size |-> Data(i)]
           body == data \o <<Mark>>
           zeros == CHOOSE n \in 0 .. Block - 1 : (Len(body) + n + Len(Lengths)) % Block = 0
<1>1. Lengths \in Seq(Int) /\ Len(Lengths) = 2 * WordBytes
  <2>1. (8 * size) \div Word \in Nat /\ (8 * size) % Word \in Nat
    <3>1. Word \in Nat \ {0} /\ 8 * size \in Nat
      BY Sizes
    <3> QED BY <3>1, Division
  <2> DEFINE high == (8 * size) \div Word
             low == (8 * size) % Word
  <2> HIDE DEF high, low
  <2>2. /\ Bytes(high) \in Seq(Int) /\ Len(Bytes(high)) = WordBytes
        /\ Bytes(low) \in Seq(Int) /\ Len(Bytes(low)) = WordBytes
    BY <2>1, BytesType DEF high, low
  <2>3. WordBytes \in Nat
    BY Sizes
  <2>4. /\ Bytes(high) \o Bytes(low) \in Seq(Int)
        /\ Len(Bytes(high) \o Bytes(low)) = 2 * WordBytes
    BY <2>2, <2>3
  <2> QED BY <2>4 DEF Lengths, high, low
<1>2. data \in Seq(Int) /\ Len(data) = size /\ \A i \in 1 .. size : data[i] = Data(i)
  BY DEF Data
<1> HIDE DEF data
<1>3. /\ body \in Seq(Int) /\ Len(body) = size + 1
      /\ \A i \in 1 .. size : body[i] = Data(i)
      /\ body[size + 1] = Mark
  BY <1>2, Sizes
<1> HIDE DEF body
<1>4. zeros = z
  <2>1. \A n \in 0 .. Block - 1 : Len(body) + n + Len(Lengths) = size + 1 + n + 2 * WordBytes
    BY <1>1, <1>3
  <2>2. \A n \in 0 .. Block - 1 : (Len(body) + n + Len(Lengths)) % Block = 0 <=> Fills(n)
    BY <2>1 DEF Fills
  <2>3. z \in 0 .. Block - 1
    BY DEF Fills
  <2>4. zeros \in 0 .. Block - 1 /\ (Len(body) + zeros + Len(Lengths)) % Block = 0
    BY <2>2, <2>3
  <2> HIDE DEF zeros
  <2>5. Fills(zeros)
    BY <2>2, <2>4
  <2> QED BY <2>5, FillsOnce
<1>5. Padded = body \o Zeros(zeros) \o Lengths
  BY DEF Padded, body, data, Lengths
<1> HIDE DEF zeros
<1>6. z \in Nat
  BY Sizes DEF Fills
<1>7. /\ Zeros(z) \in Seq(Int) /\ Len(Zeros(z)) = z
      /\ \A i \in 1 .. z : Zeros(z)[i] = 0
  BY <1>6 DEF Zeros
<1> DEFINE front == body \o Zeros(z)
<1>8. /\ front \in Seq(Int) /\ Len(front) = size + 1 + z
      /\ \A i \in 1 .. size + 1 : front[i] = body[i]
      /\ \A i \in 1 .. z : front[size + 1 + i] = Zeros(z)[i]
  BY <1>3, <1>6, <1>7
<1> HIDE DEF front
<1>9. /\ front \o Lengths \in Seq(Int) /\ Len(front \o Lengths) = size + 1 + z + 2 * WordBytes
      /\ \A i \in 1 .. size + 1 + z : (front \o Lengths)[i] = front[i]
      /\ \A j \in 1 .. 2 * WordBytes : (front \o Lengths)[size + 1 + z + j] = Lengths[j]
  <2>2. /\ front \o Lengths \in Seq(Int) /\ Len(front \o Lengths) = Len(front) + Len(Lengths)
        /\ \A i \in 1 .. Len(front) : (front \o Lengths)[i] = front[i]
        /\ \A j \in 1 .. Len(Lengths) : (front \o Lengths)[Len(front) + j] = Lengths[j]
    BY <1>1, <1>8, JoinedAt, Zenon
  <2> QED BY <1>1, <1>8, <2>2, Zenon
<1>10. Padded = front \o Lengths
  BY <1>4, <1>5 DEF front
<1>11. ASSUME NEW i \in 1 .. size + 1 + z PROVE front[i] = Content(i)
  <2>1. CASE i \in 1 .. size
    <3>1. front[i] = body[i]
      BY <1>8, <2>1
    <3> QED BY <1>3, <2>1, <3>1 DEF Content
  <2>2. CASE i = size + 1
    <3>1. front[size + 1] = body[size + 1]
      BY <1>8
    <3> QED BY <1>3, <2>2, <3>1 DEF Content
  <2>3. CASE i > size + 1
    <3>1. i - (size + 1) \in 1 .. z /\ size + 1 + (i - (size + 1)) = i
      BY <1>6, <2>3
    <3>2. front[i] = 0
      BY <1>7, <1>8, <3>1
    <3> QED BY <1>6, <2>3, <3>2 DEF Content
  <2> QED BY <1>6, <2>1, <2>2, <2>3
<1> QED BY <1>1, <1>9, <1>10, <1>11

\* Two sequences of one length that agree at every place are one.
LEMMA SameSequence ==
  ASSUME NEW s \in Seq(Int), NEW t \in Seq(Int), Len(s) = Len(t),
         \A i \in 1 .. Len(t) : s[i] = t[i]
  PROVE  s = t
OBVIOUS

\* The two words count the bits of what was read.
Counted == /\ lengthLow \in Nat /\ lengthHigh \in Nat
           /\ lengthLow < Word /\ lengthLow % 8 = 0
           /\ Word * lengthHigh + lengthLow = 8 * taken

\* The blocks that were processed, and the one that is filled, are what the
\* padded input begins with, and there are no more zeros than are needed.
Placed == /\ \E k \in Nat : Len(digest) = Block * k
          /\ \A i \in 1 .. Len(digest) : digest[i] = Content(i)
          /\ \A j \in 0 .. index - 1 : messageBlock[j] = Content(Len(digest) + j + 1)
          /\ at = "input" => index < Block /\ Len(digest) + index = taken
          /\ at = "pad" => /\ taken = size /\ index \in LengthAt + 1 .. Block
                          /\ Len(digest) + index = size + 1
          /\ at = "end" => /\ taken = size /\ index <= LengthAt
                          /\ size + 1 <= Len(digest) + index
                          /\ Len(digest) + LengthAt < size + 1 + Block

DigestInv == /\ size \in 0 .. MaxPassword /\ taken \in 0 .. size /\ index \in Nat
             /\ messageBlock \in [0 .. Block - 1 -> Int] /\ digest \in Seq(Int)
             /\ at \in {"input", "pad", "end", "done"}
             /\ Counted
             /\ at # "done" => Placed
             /\ at = "done" => digest = Padded

\* A block that is processed goes behind those before it.
LEMMA ProcessAppends ==
  ASSUME NEW s \in Seq(Int), NEW block \in [0 .. Block - 1 -> Int]
  PROVE  LET t == s \o [i \in 1 .. Block |-> block[i - 1]]
         IN  /\ t \in Seq(Int) /\ Len(t) = Len(s) + Block
             /\ \A i \in 1 .. Len(s) : t[i] = s[i]
             /\ \A j \in 0 .. Block - 1 : t[Len(s) + j + 1] = block[j]
<1> DEFINE bytes == [i \in 1 .. Block |-> block[i - 1]]
           t == s \o bytes
<1>1. /\ bytes \in Seq(Int) /\ Len(bytes) = Block
      /\ \A i \in 1 .. Block : bytes[i] = block[i - 1]
  BY Sizes
<1> HIDE DEF bytes
<1>2. /\ t \in Seq(Int) /\ Len(t) = Len(s) + Len(bytes)
      /\ \A i \in 1 .. Len(s) : t[i] = s[i]
      /\ \A i \in 1 .. Len(bytes) : t[Len(s) + i] = bytes[i]
  BY <1>1, JoinedAt, Zenon
<1> HIDE DEF t
<1>3. ASSUME NEW j \in 0 .. Block - 1 PROVE t[Len(s) + j + 1] = block[j]
  <2>1. j + 1 \in 1 .. Block /\ Len(s) + j + 1 = Len(s) + (j + 1) /\ (j + 1) - 1 = j
    BY Sizes
  <2> QED BY <1>1, <1>2, <2>1
<1> QED BY <1>1, <1>2, <1>3 DEF t, bytes

\* Nothing is processed to begin with.
LEMMA DigestInvInit == DigestInit => DigestInv
<1> SUFFICES ASSUME DigestInit PROVE DigestInv
  OBVIOUS
<1>1. Counted
  BY Sizes DEF DigestInit, Counted
<1>2. Placed
  <2>1. Len(digest) = Block * 0
    BY Sizes DEF DigestInit
  <2> QED BY <2>1, Sizes DEF DigestInit, Placed
<1>3. messageBlock \in [0 .. Block - 1 -> Int]
  BY Sizes DEF DigestInit
<1> QED BY <1>1, <1>2, <1>3, Sizes DEF DigestInit, DigestInv

\* A byte is eight bits more, and they fit in the two words.
LEMMA CountKeeps ==
  ASSUME DigestInv, CountBits, taken < size, taken' = taken + 1
  PROVE  Counted'
<1>1. /\ Word \in Nat \ {0} /\ Word % 8 = 0 /\ 8 * MaxPassword < Word * Word
      /\ MaxPassword \in Nat /\ size \in 0 .. MaxPassword /\ taken \in Nat
  BY Sizes DEF DigestInv
<1>2. /\ lengthLow \in Nat /\ lengthHigh \in Nat /\ lengthLow < Word
      /\ lengthLow % 8 = 0 /\ Word * lengthHigh + lengthLow = 8 * taken
  BY DEF DigestInv, Counted
<1>3. /\ lengthLow' = (lengthLow + 8) % Word
      /\ lengthLow' = 0 => lengthHigh' = (lengthHigh + 1) % Word
      /\ lengthLow' # 0 => lengthHigh' = lengthHigh
  BY DEF CountBits
<1> HIDE DEF Word
<1>4. CASE lengthLow + 8 < Word
  <2>1. (lengthLow + 8) % Word = lengthLow + 8
    BY <1>1, <1>2, <1>4, ModSmall
  <2> QED BY <1>1, <1>2, <1>3, <2>1, <1>4 DEF Counted
<1>5. CASE ~(lengthLow + 8 < Word)
  <2>1. lengthLow + 8 = Word
    BY <1>1, <1>2, <1>5
  <2>2. Word % Word = 0
    BY <1>1
  <2>3. lengthLow' = 0 /\ lengthHigh' = (lengthHigh + 1) % Word
    BY <1>3, <2>1, <2>2
  <2>4. Word * (lengthHigh + 1) = 8 * (taken + 1)
    BY <1>1, <1>2, <2>1
  <2>5. lengthHigh + 1 < Word
    <3>1. 8 * (taken + 1) < Word * Word
      BY <1>1
    <3> SUFFICES ASSUME lengthHigh + 1 >= Word PROVE FALSE
      BY <1>1, <1>2
    <3>2. Word * (lengthHigh + 1) >= Word * Word
      BY <1>1, <1>2
    <3> QED BY <1>1, <1>2, <2>4, <3>1, <3>2
  <2>6. lengthHigh' = lengthHigh + 1
    BY <1>1, <1>2, <2>3, <2>5, ModSmall
  <2> QED BY <1>1, <1>2, <2>3, <2>4, <2>6 DEF Counted
<1> QED BY <1>4, <1>5

\* Processing a block that continues the input, and is not its last, keeps what
\* is said of those before it.
LEMMA ProcessKeeps ==
  ASSUME DigestInv, Placed, NEW block \in [0 .. Block - 1 -> Int], Process(block), size' = size,
         \A j \in 0 .. Block - 1 : block[j] = Content(Len(digest) + j + 1)
  PROVE  /\ digest' \in Seq(Int) /\ Len(digest') = Len(digest) + Block
         /\ \E k \in Nat : Len(digest') = Block * k
         /\ \A i \in 1 .. Len(digest') : digest'[i] = Content(i)'
<1>1. /\ digest \in Seq(Int) /\ Len(digest) \in Nat /\ Block \in Nat \ {0}
      /\ \A i \in 1 .. Len(digest) : digest[i] = Content(i)
  BY Sizes DEF DigestInv, Placed
<1>2. /\ digest' \in Seq(Int) /\ Len(digest') = Len(digest) + Block
      /\ \A i \in 1 .. Len(digest) : digest'[i] = digest[i]
      /\ \A j \in 0 .. Block - 1 : digest'[Len(digest) + j + 1] = block[j]
  BY <1>1, ProcessAppends DEF Process
<1>3. \E k \in Nat : Len(digest') = Block * k
  <2>1. PICK k \in Nat : Len(digest) = Block * k
    BY DEF Placed
  <2>2. Len(digest') = Block * (k + 1) /\ k + 1 \in Nat
    BY <1>1, <1>2, <2>1
  <2> QED BY <2>2
<1>4. \A i \in Nat : Content(i)' = Content(i)
  BY DEF Content, Data
<1>5. ASSUME NEW i \in 1 .. Len(digest') PROVE digest'[i] = Content(i)
  <2>1. CASE i \in 1 .. Len(digest)
    BY <1>1, <1>2, <2>1
  <2>2. CASE i > Len(digest)
    <3> DEFINE j == i - Len(digest) - 1
    <3>1. j \in 0 .. Block - 1 /\ Len(digest) + j + 1 = i
      BY <1>1, <1>2, <2>2
    <3> HIDE DEF j
    <3>2. digest'[Len(digest) + j + 1] = block[j] /\ block[j] = Content(Len(digest) + j + 1)
      BY <1>2, <3>1
    <3> QED BY <3>1, <3>2
  <2> QED BY <1>1, <1>2, <2>1, <2>2
<1> QED BY <1>2, <1>3, <1>4, <1>5

\* A byte of the input goes into the block.
LEMMA TakeByteKeeps == ASSUME DigestInv, TakeByte PROVE DigestInv'
<1>1. /\ at = "input" /\ taken < size /\ taken' = taken + 1 /\ size' = size /\ at' = at
      /\ messageBlock' = [messageBlock EXCEPT ![index] = Data(taken')] /\ CountBits
  BY DEF TakeByte
<1>2. /\ Placed /\ index \in Nat /\ index < Block /\ Len(digest) + index = taken
      /\ Len(digest) \in Nat /\ Block \in Nat \ {0}
      /\ messageBlock \in [0 .. Block - 1 -> Int]
      /\ size \in 0 .. MaxPassword /\ taken \in 0 .. size /\ MaxPassword \in Nat
  BY <1>1, Sizes DEF DigestInv, Placed
<1>3. messageBlock' \in [0 .. Block - 1 -> Int]
  BY <1>1, <1>2 DEF Data
<1>4. \A j \in 0 .. index : messageBlock'[j] = Content(Len(digest) + j + 1)
  <2> SUFFICES ASSUME NEW j \in 0 .. index
               PROVE  messageBlock'[j] = Content(Len(digest) + j + 1)
    OBVIOUS
  <2>1. CASE j = index
    <3>1. Len(digest) + j + 1 = taken' /\ taken' <= size /\ messageBlock'[j] = Data(taken')
      BY <1>1, <1>2, <2>1
    <3> QED BY <3>1 DEF Content
  <2>2. CASE j \in 0 .. index - 1
    <3>1. messageBlock'[j] = messageBlock[j]
      BY <1>1, <1>2, <2>2
    <3> QED BY <1>2, <2>2, <3>1 DEF Placed
  <2> QED BY <1>2, <2>1, <2>2
<1>5. Counted'
  BY <1>1, CountKeeps
<1>6. \A i \in Nat : Content(i)' = Content(i)
  BY <1>1 DEF Content, Data
<1>7. taken' \in 0 .. size'
  BY <1>1, <1>2
<1>8. CASE index + 1 = Block
  <2>1. Process(messageBlock') /\ index' = 0
    BY <1>2, <1>8 DEF TakeByte
  <2>2. \A j \in 0 .. Block - 1 : messageBlock'[j] = Content(Len(digest) + j + 1)
    BY <1>2, <1>4, <1>8
  <2>3. /\ digest' \in Seq(Int) /\ Len(digest') = Len(digest) + Block
        /\ \E k \in Nat : Len(digest') = Block * k
        /\ \A i \in 1 .. Len(digest') : digest'[i] = Content(i)'
    BY <1>1, <1>2, <1>3, <2>1, <2>2, ProcessKeeps
  <2>4. Len(digest') + index' = taken' /\ index' < Block
    BY <1>1, <1>2, <1>8, <2>1, <2>3
  <2>5. Placed'
    BY <1>1, <2>1, <2>3, <2>4 DEF Placed
  <2> QED BY <1>1, <1>2, <1>3, <1>5, <1>7, <2>1, <2>3, <2>5 DEF DigestInv
<1>9. CASE index + 1 < Block
  <2>1. digest' = digest /\ index' = index + 1
    BY <1>2, <1>9 DEF TakeByte
  <2>2. \A i \in 1 .. Len(digest') : digest'[i] = Content(i)'
    BY <1>2, <1>6, <2>1 DEF Placed
  <2>3. ASSUME NEW j \in 0 .. index' - 1
        PROVE  messageBlock'[j] = Content(Len(digest) + j + 1)'
    <3>1. j \in 0 .. index
      BY <1>2, <2>1
    <3>2. messageBlock'[j] = Content(Len(digest) + j + 1)
      BY <1>4, <3>1
    <3> QED BY <1>1, <2>1, <3>2 DEF Content, Data
  <2>4. Len(digest') + index' = taken' /\ index' < Block /\ index' \in Nat
    BY <1>1, <1>2, <1>9, <2>1
  <2>5. \E k \in Nat : Len(digest') = Block * k
    BY <1>2, <2>1 DEF Placed
  <2>6. Placed'
    BY <1>1, <2>2, <2>3, <2>4, <2>5 DEF Placed
  <2> QED BY <1>1, <1>2, <1>3, <1>5, <1>7, <2>1, <2>4, <2>6 DEF DigestInv
<1> QED BY <1>8, <1>9 DEF TakeByte

\* The byte that ends the input.
LEMMA PutMarkKeeps == ASSUME DigestInv, PutMark PROVE DigestInv'
<1>1. /\ at = "input" /\ taken = size /\ size' = size /\ taken' = taken /\ index' = index + 1
      /\ messageBlock' = [messageBlock EXCEPT ![index] = Mark]
      /\ digest' = digest /\ lengthLow' = lengthLow /\ lengthHigh' = lengthHigh
      /\ index' <= LengthAt => at' = "end"
      /\ ~(index' <= LengthAt) => at' = "pad"
  BY DEF PutMark, LengthFits
<1>2. /\ Placed /\ index \in Nat /\ index < Block /\ Len(digest) + index = size
      /\ Len(digest) \in Nat /\ Block \in Nat \ {0} /\ LengthAt \in 1 .. Block
      /\ messageBlock \in [0 .. Block - 1 -> Int] /\ Mark \in Int
      /\ size \in 0 .. MaxPassword /\ taken \in 0 .. size /\ MaxPassword \in Nat
  BY <1>1, Sizes DEF DigestInv, Placed
<1>3. messageBlock' \in [0 .. Block - 1 -> Int]
  BY <1>1, <1>2
<1>4. Counted'
  BY <1>1 DEF DigestInv, Counted
<1>5. \A i \in 1 .. Len(digest) : digest'[i] = Content(i)'
  BY <1>1 DEF DigestInv, Placed, Content, Data
<1>6. ASSUME NEW j \in 0 .. index' - 1
      PROVE  messageBlock'[j] = Content(Len(digest) + j + 1)'
  <2>1. CASE j = index
    <3>1. Len(digest) + j + 1 = size + 1 /\ messageBlock'[j] = Mark
      BY <1>1, <1>2, <2>1
    <3>2. Content(size + 1) = Mark
      BY <1>2 DEF Content
    <3> QED BY <1>1, <3>1, <3>2 DEF Content, Data
  <2>2. CASE j \in 0 .. index - 1
    <3>1. messageBlock'[j] = messageBlock[j]
      BY <1>1, <1>2, <2>2
    <3>2. messageBlock[j] = Content(Len(digest) + j + 1)
      BY <1>2, <2>2 DEF Placed
    <3> QED BY <1>1, <3>1, <3>2 DEF Content, Data
  <2> QED BY <1>1, <1>2, <2>1, <2>2
<1>7. \E k \in Nat : Len(digest') = Block * k
  BY <1>1, <1>2 DEF Placed
<1>8. /\ index' \in Nat /\ Len(digest') + index' = size' + 1 /\ index' \in 1 .. Block
      /\ taken' = size' /\ at' \in {"end", "pad"}
  <2>1. at' \in {"end", "pad"}
    BY <1>1, Zenon
  <2>2. index' \in Nat /\ index' \in 1 .. Block
    <3>1. index' = index + 1 /\ index \in Nat /\ index < Block /\ Block \in Nat
      BY <1>1, <1>2, Zenon
    <3> QED BY ONLY <3>1
  <2>3. Len(digest') + index' = size' + 1
    <3>1. /\ index' = index + 1 /\ digest' = digest /\ size' = size
          /\ index \in Nat /\ Len(digest) \in Nat /\ Len(digest) + index = size
      BY <1>1, <1>2, Zenon
    <3> HIDE <1>1, <1>2
    <3> QED BY <3>1
  <2>4. taken' = size'
    BY <1>1, Zenon
  <2> QED BY <2>1, <2>2, <2>3, <2>4, Zenon
<1>9. at' = "pad" => index' \in LengthAt + 1 .. Block
  BY <1>1, <1>2, <1>8
<1>10. at' = "end" => /\ index' <= LengthAt /\ size' + 1 <= Len(digest') + index'
                     /\ Len(digest') + LengthAt < size' + 1 + Block
  BY <1>1, <1>2, <1>8
<1>11. Placed'
  BY <1>1, <1>5, <1>6, <1>7, <1>8, <1>9, <1>10 DEF Placed
<1>12. size' \in 0 .. MaxPassword /\ taken' \in 0 .. size' /\ digest' \in Seq(Int)
  BY <1>1, <1>2 DEF DigestInv
<1> QED BY <1>3, <1>4, <1>8, <1>11, <1>12 DEF DigestInv

\* The rest of a block behind what was written is zeros.
LEMMA ZeroedContinues ==
  ASSUME DigestInv, Placed, at \in {"pad", "end"}, NEW last \in index .. Block
  PROVE  /\ ZeroedTo(last) \in [0 .. Block - 1 -> Int]
         /\ \A j \in 0 .. last - 1 : ZeroedTo(last)[j] = Content(Len(digest) + j + 1)
<1>1. /\ index \in Nat /\ Len(digest) \in Nat /\ Block \in Nat \ {0} /\ size \in Nat
      /\ messageBlock \in [0 .. Block - 1 -> Int] /\ size + 1 <= Len(digest) + index
  BY Sizes DEF DigestInv, Placed
<1>2. ZeroedTo(last) \in [0 .. Block - 1 -> Int]
  BY <1>1 DEF ZeroedTo
<1>3. ASSUME NEW j \in 0 .. last - 1
      PROVE  ZeroedTo(last)[j] = Content(Len(digest) + j + 1)
  <2>1. j \in 0 .. Block - 1
    BY <1>1
  <2>2. CASE j < index
    <3>1. ZeroedTo(last)[j] = messageBlock[j]
      BY <1>1, <2>1, <2>2 DEF ZeroedTo
    <3> QED BY <1>1, <2>2, <3>1 DEF Placed
  <2>3. CASE j >= index
    <3>1. ZeroedTo(last)[j] = 0
      BY <1>1, <2>1, <2>3 DEF ZeroedTo
    <3>2. Content(Len(digest) + j + 1) = 0
      BY <1>1, <2>1, <2>3 DEF Content
    <3> QED BY <3>1, <3>2
  <2> QED BY <1>1, <2>1, <2>2, <2>3
<1> QED BY <1>2, <1>3

\* Zeros end a block that has no room for the length.
LEMMA PadBlockKeeps == ASSUME DigestInv, PadBlock PROVE DigestInv'
<1>1. /\ at = "pad" /\ messageBlock' = ZeroedTo(Block) /\ Process(messageBlock')
      /\ index' = 0 /\ at' = "end" /\ size' = size /\ taken' = taken
      /\ lengthLow' = lengthLow /\ lengthHigh' = lengthHigh
  BY DEF PadBlock
<1>2. /\ Placed /\ index \in LengthAt + 1 .. Block /\ Len(digest) + index = size + 1
      /\ Len(digest) \in Nat /\ Block \in Nat \ {0} /\ LengthAt \in 1 .. Block
      /\ size \in 0 .. MaxPassword /\ taken = size /\ MaxPassword \in Nat
  BY <1>1, Sizes DEF DigestInv, Placed
<1>3. /\ messageBlock' \in [0 .. Block - 1 -> Int]
      /\ \A j \in 0 .. Block - 1 : messageBlock'[j] = Content(Len(digest) + j + 1)
  <2>1. Block \in index .. Block
    BY <1>2
  <2> QED BY <1>1, <1>2, <2>1, ZeroedContinues
<1>4. /\ digest' \in Seq(Int) /\ Len(digest') = Len(digest) + Block
      /\ \E k \in Nat : Len(digest') = Block * k
      /\ \A i \in 1 .. Len(digest') : digest'[i] = Content(i)'
  BY <1>1, <1>2, <1>3, ProcessKeeps
<1>5. /\ index' <= LengthAt /\ size' + 1 <= Len(digest') + index'
      /\ Len(digest') + LengthAt < size' + 1 + Block
  BY <1>1, <1>2, <1>4
<1>6. Placed'
  <2>1. \A j \in 0 .. index' - 1 : messageBlock'[j] = Content(Len(digest) + j + 1)'
    <3>1. 0 .. index' - 1 = {}
      BY <1>1
    <3> QED BY <3>1
  <2>2. at' = "end" /\ taken' = size'
    BY <1>1, <1>2
  <2> HIDE <1>1, <1>2
  <2> QED BY <1>4, <1>5, <2>1, <2>2 DEF Placed
<1>7. Counted'
  BY <1>1 DEF DigestInv, Counted
<1> QED BY <1>1, <1>2, <1>3, <1>4, <1>6, <1>7 DEF DigestInv

\* The two words are the number of bits.
LEMMA BitsCounted ==
  ASSUME DigestInv, taken = size
  PROVE  Bytes(lengthHigh) \o Bytes(lengthLow) = Lengths
<1> DEFINE bits == 8 * size
           d == bits \div Word
           r == bits % Word
<1>1. /\ Word \in Nat \ {0} /\ size \in Nat /\ lengthHigh \in Nat /\ lengthLow \in Nat
      /\ lengthLow < Word /\ Word * lengthHigh + lengthLow = bits /\ bits \in Nat
  BY Sizes DEF DigestInv, Counted
<1> HIDE DEF bits, Word
<1>2. r \in Nat /\ r < Word /\ d \in Nat /\ bits = Word * d + r
  BY <1>1, Division
<1> HIDE DEF d, r
<1>3. lengthLow = r
  BY <1>1, <1>2, RemainderUnique
<1>4. Word * lengthHigh = Word * d
  BY <1>1, <1>2, <1>3
<1>5. lengthHigh = d
  <2>1. Word * lengthHigh = Word * d + 0
    BY <1>1, <1>2, <1>4
  <2>2. CASE lengthHigh < d
    <3>1. Word * d >= Word * (lengthHigh + 1)
      BY <1>1, <1>2, <2>2
    <3> QED BY <1>1, <1>2, <1>4, <3>1
  <2>3. CASE d < lengthHigh
    <3>1. Word * lengthHigh >= Word * (d + 1)
      BY <1>1, <1>2, <2>3
    <3> QED BY <1>1, <1>2, <1>4, <3>1
  <2> QED BY <1>1, <1>2, <2>2, <2>3
<1> QED BY <1>3, <1>5 DEF Lengths, d, r, bits

\* What has been processed before the last block is within the zeros that fill it.
LEMMA EndFills ==
  ASSUME DigestInv, Placed, at = "end"
  PROVE  Fills(Len(digest) + LengthAt - (size + 1))
<1> DEFINE z == Len(digest) + LengthAt - (size + 1)
<1>1. /\ size + 1 <= Len(digest) + index /\ index <= LengthAt /\ index \in Nat
      /\ Len(digest) + LengthAt < size + 1 + Block
      /\ Len(digest) \in Nat /\ Block \in Nat \ {0} /\ LengthAt \in 1 .. Block
      /\ LengthAt + 2 * WordBytes = Block /\ WordBytes \in Nat /\ size \in Nat
  BY Sizes DEF DigestInv, Placed
<1>2. z \in 0 .. Block - 1
  BY <1>1
<1>3. size + 1 + z + 2 * WordBytes = Len(digest) + Block
  BY <1>1
<1>4. PICK k \in Nat : Len(digest) = Block * k
  BY DEF Placed
<1>5. Len(digest) + Block = Block * (k + 1) /\ k + 1 \in Nat
  BY <1>1, <1>4
<1> DEFINE x == Block * (k + 1)
           s == x % Block
           d == x \div Block
<1>6. x \in Nat
  BY <1>1, <1>5
<1>7. (Len(digest) + Block) % Block = 0
  <2>1. s \in Nat /\ s < Block /\ d \in Nat /\ x = Block * d + s
    <3> HIDE DEF x
    <3> QED BY <1>1, <1>6, Division
  <2> HIDE DEF s, d
  <2>2. Block * (k + 1) = Block * d + s
    BY <2>1
  <2>3. s = 0
    BY <1>1, <1>5, <2>1, <2>2, MultiplesApart
  <2>4. (Block * (k + 1)) % Block = 0
    BY <2>3 DEF s
  <2> QED BY <1>5, <2>4
<1> HIDE DEF z, x, s, d
<1>8. Fills(z)
  BY <1>2, <1>3, <1>7 DEF Fills
<1> QED BY <1>8 DEF z

\* Zeros and the length end the last block.
LEMMA EndBlockKeeps == ASSUME DigestInv, EndBlock PROVE DigestInv'
<1> DEFINE n == Len(digest)
           z == n + LengthAt - (size + 1)
<1>1. /\ at = "end" /\ Process(messageBlock') /\ index' = LengthAt /\ at' = "done"
      /\ size' = size /\ taken' = taken /\ lengthLow' = lengthLow /\ lengthHigh' = lengthHigh
      /\ messageBlock' = [i \in DOMAIN messageBlock |->
                           IF i < LengthAt THEN ZeroedTo(LengthAt)[i]
                           ELSE (Bytes(lengthHigh) \o Bytes(lengthLow))[i - LengthAt + 1]]
  BY DEF EndBlock
<1>2. /\ Placed /\ index \in Nat /\ index <= LengthAt /\ n \in Nat /\ digest \in Seq(Int)
      /\ Block \in Nat \ {0} /\ LengthAt \in 1 .. Block /\ WordBytes \in Nat
      /\ LengthAt + 2 * WordBytes = Block
      /\ messageBlock \in [0 .. Block - 1 -> Int]
      /\ size \in 0 .. MaxPassword /\ taken = size /\ MaxPassword \in Nat
  <2>1. /\ Placed /\ index \in Nat /\ digest \in Seq(Int)
        /\ messageBlock \in [0 .. Block - 1 -> Int] /\ size \in 0 .. MaxPassword
    BY <1>1 DEF DigestInv
  <2>2. index <= LengthAt /\ taken = size
    BY <1>1, <2>1 DEF Placed
  <2>3. n \in Nat
    BY <2>1
  <2> HIDE <1>1
  <2> QED BY <2>1, <2>2, <2>3, Sizes
<1>3. Bytes(lengthHigh) \o Bytes(lengthLow) = Lengths
  BY <1>2, BitsCounted
<1>4. Fills(z) /\ z \in 0 .. Block - 1
  BY <1>1, <1>2, EndFills DEF Fills
<1>5. /\ Padded \in Seq(Int) /\ Len(Padded) = size + 1 + z + 2 * WordBytes
      /\ \A i \in 1 .. size + 1 + z : Padded[i] = Content(i)
      /\ Lengths \in Seq(Int) /\ Len(Lengths) = 2 * WordBytes
      /\ \A j \in 1 .. 2 * WordBytes : Padded[size + 1 + z + j] = Lengths[j]
  <2>1. size \in Nat
    BY <1>2
  <2> HIDE DEF z
  <2> QED BY <2>1, <1>4, PaddedIs, Zenon
<1>6. size + 1 + z = n + LengthAt /\ Len(Padded) = n + Block
  <2>1. size + 1 + z = n + LengthAt
    BY <1>2
  <2> HIDE DEF z, n
  <2>2. Len(Padded) = n + LengthAt + 2 * WordBytes
    BY <1>5, <2>1, Zenon
  <2> QED BY <1>2, <2>1, <2>2
<1>7. \A j \in 0 .. LengthAt - 1 : ZeroedTo(LengthAt)[j] = Content(n + j + 1)
  <2>1. LengthAt \in index .. Block
    BY <1>2
  <2> QED BY <1>1, <1>2, <2>1, ZeroedContinues
<1> HIDE DEF z
<1>8. \A j \in 0 .. LengthAt - 1 : messageBlock'[j] = Padded[n + j + 1]
  <2> SUFFICES ASSUME NEW j \in 0 .. LengthAt - 1 PROVE messageBlock'[j] = Padded[n + j + 1]
    OBVIOUS
  <2>1. messageBlock'[j] = ZeroedTo(LengthAt)[j]
    BY <1>1, <1>2
  <2>2. n + j + 1 \in 1 .. size + 1 + z
    BY <1>2, <1>6
  <2> QED BY <1>5, <1>7, <2>1, <2>2
<1>9. \A j \in LengthAt .. Block - 1 : messageBlock'[j] = Padded[n + j + 1]
  <2> SUFFICES ASSUME NEW j \in LengthAt .. Block - 1 PROVE messageBlock'[j] = Padded[n + j + 1]
    OBVIOUS
  <2> DEFINE m == j - LengthAt + 1
  <2>1. messageBlock'[j] = Lengths[m]
    <3>1. j \in DOMAIN messageBlock /\ ~(j < LengthAt)
      BY <1>2
    <3> QED BY <1>1, <1>3, <3>1
  <2>2. m \in 1 .. 2 * WordBytes /\ (n + LengthAt) + m = n + j + 1
    BY <1>2
  <2> HIDE DEF m
  <2>3. Padded[(n + LengthAt) + m] = Lengths[m]
    BY <1>5, <1>6, <2>2
  <2> QED BY <2>1, <2>2, <2>3
<1>10. messageBlock' \in [0 .. Block - 1 -> Int]
  <2>1. \A j \in 0 .. Block - 1 : messageBlock'[j] = Padded[n + j + 1] /\ n + j + 1 \in 1 .. Len(Padded)
    <3> SUFFICES ASSUME NEW j \in 0 .. Block - 1
                 PROVE  messageBlock'[j] = Padded[n + j + 1] /\ n + j + 1 \in 1 .. Len(Padded)
      OBVIOUS
    <3>1. j \in 0 .. LengthAt - 1 \/ j \in LengthAt .. Block - 1
      BY <1>2
    <3>2. messageBlock'[j] = Padded[n + j + 1]
      BY <1>8, <1>9, <3>1, Zenon
    <3>3. n + j + 1 \in 1 .. Len(Padded)
      BY <1>2, <1>6
    <3> QED BY <3>2, <3>3
  <2>2. \A j \in 0 .. Block - 1 : messageBlock'[j] \in Int
    BY <1>5, <2>1
  <2>3. \E f : messageBlock' = [j \in 0 .. Block - 1 |-> f[j]]
    <3>1. messageBlock' = [j \in 0 .. Block - 1 |-> messageBlock'[j]]
      BY <1>1, <1>2
    <3> QED BY <3>1
  <2> QED BY <2>2, <2>3
<1>11. /\ digest' \in Seq(Int) /\ Len(digest') = n + Block
       /\ \A i \in 1 .. n : digest'[i] = digest[i]
       /\ \A j \in 0 .. Block - 1 : digest'[n + j + 1] = messageBlock'[j]
  BY <1>1, <1>2, <1>10, ProcessAppends DEF Process
<1>12. Padded' = Padded
  BY <1>1 DEF Padded, Data, Zeros, Bytes
<1>13. digest' = Padded
  <2>1. ASSUME NEW i \in 1 .. n + Block PROVE digest'[i] = Padded[i]
    <3>1. CASE i \in 1 .. n
      <4>1. digest[i] = Content(i)
        BY <1>2, <3>1 DEF Placed
      <4>2. i \in 1 .. size + 1 + z
        BY <1>2, <1>6, <3>1
      <4> QED BY <1>5, <1>11, <3>1, <4>1, <4>2
    <3>2. CASE i > n
      <4> DEFINE j == i - n - 1
      <4>1. j \in 0 .. Block - 1 /\ n + j + 1 = i
        BY <1>2, <3>2
      <4> HIDE DEF j
      <4>2. messageBlock'[j] = Padded[n + j + 1]
        <5>1. j \in 0 .. LengthAt - 1 \/ j \in LengthAt .. Block - 1
          BY <1>2, <4>1
        <5> QED BY <1>8, <1>9, <5>1, Zenon
      <4> QED BY <1>11, <4>1, <4>2
    <3> QED BY <1>2, <3>1, <3>2
  <2> HIDE DEF n
  <2>2. Len(digest') = Len(Padded) /\ \A i \in 1 .. Len(Padded) : digest'[i] = Padded[i]
    BY <1>6, <1>11, <2>1
  <2>3. digest' \in Seq(Int) /\ Padded \in Seq(Int)
    BY <1>5, <1>11
  <2> QED BY <2>2, <2>3, SameSequence, Zenon
<1>14. Counted'
  BY <1>1 DEF DigestInv, Counted
<1>15. /\ size' \in 0 .. MaxPassword /\ taken' \in 0 .. size' /\ index' \in Nat
       /\ digest' \in Seq(Int)
  BY <1>1, <1>2, <1>11
<1>16. at' = "done"
  BY <1>1
<1>17. messageBlock' \in [0 .. Block - 1 -> Int] /\ digest' = Padded'
  BY <1>10, <1>12, <1>13
<1> HIDE <1>1, <1>2
<1> QED BY <1>14, <1>15, <1>16, <1>17 DEF DigestInv

\* Every step keeps the invariant.
LEMMA DigestInvNext == DigestInv /\ [DigestNext]_digestVars => DigestInv'
<1> SUFFICES ASSUME DigestInv, [DigestNext]_digestVars PROVE DigestInv'
  OBVIOUS
<1>1. CASE UNCHANGED digestVars
  BY <1>1 DEF digestVars, DigestInv, Counted, Placed, Content, Data, Padded, Bytes, Zeros
<1> QED BY <1>1, TakeByteKeeps, PutMarkKeeps, PadBlockKeeps, EndBlockKeeps DEF DigestNext

\* The invariant says of every state what was processed of the padded input.
LEMMA PrefixOfPadded == DigestInv => DigestsPadded
<1> SUFFICES ASSUME DigestInv PROVE DigestsPadded
  OBVIOUS
<1>1. size \in Nat /\ digest \in Seq(Int) /\ Block \in Nat \ {0} /\ WordBytes \in Nat
  BY Sizes DEF DigestInv
<1>2. PICK z : Fills(z)
  BY <1>1, SomeFill
<1>3. /\ Padded \in Seq(Int) /\ Len(Padded) = size + 1 + z + 2 * WordBytes /\ z \in Nat
      /\ \A i \in 1 .. size + 1 + z : Padded[i] = Content(i)
  <2>1. z \in Nat
    BY <1>1, <1>2, Sizes DEF Fills
  <2> QED BY <1>1, <1>2, <2>1, PaddedIs, Zenon
<1>4. CASE at = "done"
  <2>1. digest = Padded
    BY <1>4 DEF DigestInv
  <2> QED BY <1>1, <1>4, <2>1 DEF DigestsPadded, IsPrefix
<1>5. CASE at # "done"
  <2>1. /\ Placed /\ Len(digest) \in Nat /\ taken <= size /\ taken \in Nat /\ index \in Nat
        /\ LengthAt \in Nat
    BY <1>1, <1>5, Sizes DEF DigestInv
  <2>2. Len(digest) <= size + 1 + z
    <3>1. CASE at = "end"
      <4>1. Fills(Len(digest) + LengthAt - (size + 1))
        BY <2>1, <3>1, EndFills
      <4>2. z = Len(digest) + LengthAt - (size + 1)
        BY <1>1, <1>2, <4>1, FillsOnce
      <4> QED BY <1>1, <2>1, <4>2
    <3>2. CASE at \in {"input", "pad"}
      BY <1>1, <1>3, <2>1, <3>2 DEF Placed
    <3> QED BY <1>5, <3>1, <3>2 DEF DigestInv
  <2>3. ASSUME NEW i \in 1 .. Len(digest) PROVE digest[i] = Padded[i]
    <3>1. i \in 1 .. size + 1 + z
      BY <1>1, <1>3, <2>1, <2>2
    <3> QED BY <1>3, <2>1, <3>1 DEF Placed
  <2>4. Len(digest) <= Len(Padded)
    BY <1>1, <1>3, <2>1, <2>2
  <2>5. SubSeq(digest, 1, Len(digest)) = SubSeq(Padded, 1, Len(digest))
    BY <1>1, <1>3, <2>1, <2>3, <2>4
  <2> QED BY <1>5, <2>4, <2>5 DEF DigestsPadded, IsPrefix
<1> QED BY <1>4, <1>5
-----------------------------------------------------------------------------
(* Both computations of a packet *)

\* A packet's password is digested so.
LEMMA PacketIsDigest == PacketSpec => []DigestInv
<1>1. PacketInit => DigestInv
  BY DigestInvInit DEF PacketInit
<1>2. DigestInv /\ [PacketNext]_<<vars, digestVars>> => DigestInv'
  <2>1. [PacketNext]_<<vars, digestVars>> => [DigestNext]_digestVars
    BY DEF PacketNext, ComputeChecksum, ComputeDigest
  <2> QED BY <2>1, DigestInvNext
<1> QED BY <1>1, <1>2, PTL DEF PacketSpec

\* transformToSHA1, once a packet's checksum is known: what it processed is at
\* every moment a prefix of the padded input, and all of it in the end, for
\* every length of input and size of block.
THEOREM DigestOfPadded == PacketSpec => []DigestsPadded
BY PacketIsDigest, PrefixOfPadded, PTL

\* A packet's checksum is the checksum's specification.
LEMMA PacketIsChecksum == PacketSpec => SafeSpec
<1>1. PacketInit => Init
  BY DEF PacketInit
<1>2. [PacketNext]_<<vars, digestVars>> => [Next]_vars
  BY DEF PacketNext, ComputeChecksum, ComputeDigest, vars
<1> QED BY <1>1, <1>2, PTL DEF PacketSpec, SafeSpec

\* adlerChecksum next to it computes the checksum of the definition, and its sums
\* never pass 32 bits on the way.
THEOREM ChecksumOfPacket == PacketSpec => [](TypeOK /\ SumsFit) /\ ImplementsAdlerSafe
BY PacketIsChecksum, Invariance, BoundedSums, Refinement, PTL DEF IInv
=============================================================================
