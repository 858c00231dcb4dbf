------------------------- MODULE LoginReplyProofs -------------------------
(***************************************************************************)
(* Theorems about the end of a login: the message that carries the answer,   *)
(* for every buffer size that, like the code's, leaves six over when it is   *)
(* divided by eight, and for every choice of the integers and strings that   *)
(* are added; and the account and the characters that the answer is about,   *)
(* for any number of them and any width of the id.                           *)
(***************************************************************************)
EXTENDS LoginReply, AccountQuery, FiniteSetTheorems, WellFoundedInduction, TLAPS

-----------------------------------------------------------------------------
(* OutputMessage *)

\* The cursors of a message that is being filled, and of one that is framed.
Filling == /\ position = InitialPosition + length /\ start = InitialPosition
           /\ inner = 0 /\ enciphered = 0 /\ outer = 0
           /\ position < MaxBody

Framed == /\ inner \in Nat /\ InitialPosition + inner < MaxBody
          /\ position = InitialPosition + inner /\ start = 0
          /\ enciphered \in Nat /\ outer = enciphered + 4 /\ length = enciphered + 6
          /\ inner + 2 <= enciphered /\ enciphered < inner + 10
          /\ enciphered % 8 # 0 => inner + InitialPosition = MaxBody - 1

IInv == /\ length \in Nat /\ position \in Nat
        /\ sent \in BOOLEAN
        /\ ~sent => Filling
        /\ sent => Framed

\* The padding completes the last block.
LEMMA PaddingFacts ==
  ASSUME NEW size \in Nat
  PROVE  /\ PaddingFor(size) \in 0 .. 7
         /\ (size + PaddingFor(size)) % 8 = 0
BY DEF PaddingFor

\* It is refused only at the last byte canAdd allows: what it would fill up to
\* leaves six over eight, as MaxBody - 2 does.
LEMMA PaddedFacts ==
  ASSUME length \in Nat, position = InitialPosition + length, position < MaxBody
  PROVE  LET e == Padded(length + 2)
         IN /\ e \in Nat /\ length + 2 <= e /\ e < length + 10
            /\ e % 8 # 0 => length + InitialPosition = MaxBody - 1
<1> DEFINE p == PaddingFor(length + 2)
<1>1. p \in 0 .. 7 /\ (length + 2 + p) % 8 = 0
  BY PaddingFacts
<1>2. MaxSize \in Nat /\ MaxSize % 8 = 6
  BY OutputMessageAssumption DEF OutputMessageAssumption
<1> HIDE DEF p
<1>3. CASE CanAdd(p)
  <2>1. Padded(length + 2) = (length + 2) + p
    BY <1>3 DEF Padded, p
  <2> QED BY <1>1, <2>1
<1>4. CASE ~CanAdd(p)
  <2>1. Padded(length + 2) = length + 2
    BY <1>4 DEF Padded, p
  <2>2. /\ p + 8 + length >= MaxSize - 14 /\ 8 + length < MaxSize - 14
    BY <1>1, <1>2, <1>4 DEF CanAdd, MaxBody, InitialPosition
  <2> DEFINE k == MaxSize \div 8
             j == (length + 2 + p) \div 8
  <2>3. k \in Nat /\ MaxSize = 8 * k + 6
    BY <1>2
  <2>4. j \in Nat /\ length + 2 + p = 8 * j
    BY <1>1
  <2> HIDE DEF k, j
  <2>5. 8 * j + 6 >= 8 * k - 8
    BY <1>1, <2>2, <2>3, <2>4
  <2>6. j >= k - 1
    BY <2>3, <2>4, <2>5
  <2>7. length + 8 = MaxSize - 15
    BY <1>1, <2>2, <2>3, <2>4, <2>6
  <2> QED BY <2>1, <2>7, <1>2 DEF MaxBody, InitialPosition
<1> QED BY <1>3, <1>4

\* A new message has room for more.
LEMMA IInvInit == Init => IInv
<1> SUFFICES ASSUME Init PROVE IInv
  OBVIOUS
<1>1. MaxSize \in Nat /\ MaxSize >= 32
  BY OutputMessageAssumption DEF OutputMessageAssumption
<1>2. length \in Nat /\ position \in Nat /\ Filling
  BY <1>1 DEF Init, Filling, MaxBody, InitialPosition
<1>3. ~sent /\ sent \in BOOLEAN
  BY DEF Init
<1> QED BY <1>2, <1>3 DEF IInv

\* A field of any size may be added: there is room for it, or nothing happens.
LEMMA AddKeeps ==
  ASSUME IInv, NEW size \in Nat, Add(size)
  PROVE  IInv'
<1>0. MaxSize \in Nat /\ MaxSize >= 32
  BY OutputMessageAssumption DEF OutputMessageAssumption
<1> QED BY <1>0 DEF Add, Extend, CanAdd, IInv, Filling, MaxBody, InitialPosition

\* The same of a string, with the two bytes of its length.
LEMMA AddStringKeeps ==
  ASSUME IInv, NEW size \in Nat, AddString(size)
  PROVE  IInv'
<1>0. MaxSize \in Nat /\ MaxSize >= 32
  BY OutputMessageAssumption DEF OutputMessageAssumption
<1> QED BY <1>0 DEF AddString, Extend, CanAdd, IInv, Filling, MaxBody, InitialPosition

\* Framing adds to what is filled no more than the buffer keeps free for it.
LEMMA EncryptKeeps ==
  ASSUME IInv, EncryptMessage
  PROVE  IInv'
<1>1. /\ length \in Nat /\ position = InitialPosition + length
      /\ position < MaxBody /\ start = InitialPosition
  BY DEF EncryptMessage, IInv, Filling
<1>2. /\ enciphered' \in Nat /\ length + 2 <= enciphered' /\ enciphered' < length + 10
      /\ enciphered' % 8 # 0 => length + InitialPosition = MaxBody - 1
  BY <1>1, PaddedFacts DEF EncryptMessage
<1>3. start' = 0
  BY <1>1 DEF EncryptMessage, InitialPosition
<1>4. /\ inner' = length /\ position' = position /\ sent'
      /\ outer' = enciphered' + 4 /\ length' = enciphered' + 6
  BY <1>2 DEF EncryptMessage, OuterLength
<1>5. Framed'
  <2>1. /\ inner' \in Nat /\ InitialPosition + inner' < MaxBody
        /\ position' = InitialPosition + inner'
    BY <1>1, <1>4
  <2>2. inner' + 2 <= enciphered' /\ enciphered' < inner' + 10
    BY <1>2, <1>4
  <2>3. enciphered' % 8 # 0 => inner' + InitialPosition = MaxBody - 1
    BY <1>2, <1>4
  <2> QED BY <1>2, <1>3, <1>4, <2>1, <2>2, <2>3 DEF Framed
<1>7. length' \in Nat /\ position' \in Nat
  <2>1. position' \in Nat
    BY <1>4 DEF IInv
  <2>2. enciphered' \in Nat /\ length' = enciphered' + 6
    BY <1>2, <1>4
  <2>3. \A n \in Nat : n + 6 \in Nat
    OBVIOUS
  <2> QED BY <2>1, <2>2, <2>3, Zenon
<1>6. sent' = TRUE
  BY DEF EncryptMessage
<1> QED BY <1>5, <1>6, <1>7 DEF IInv

\* A new message starts again.
LEMMA NextMessageKeeps ==
  ASSUME IInv, NextMessage
  PROVE  IInv'
<1>0. MaxSize \in Nat /\ MaxSize >= 32
  BY OutputMessageAssumption DEF OutputMessageAssumption
<1>1. length' \in Nat /\ position' \in Nat /\ Filling'
  BY <1>0 DEF NextMessage, Filling, MaxBody, InitialPosition
<1>2. sent' = FALSE
  BY DEF NextMessage
<1> QED BY <1>1, <1>2 DEF IInv

\* Every step of OutputMessage keeps the invariant.
LEMMA IInvNext == IInv /\ [Next]_vars => IInv'
<1> SUFFICES ASSUME IInv, [Next]_vars PROVE IInv'
  OBVIOUS
<1>0. Scalars \subseteq Nat /\ Strings \subseteq Nat
  BY OutputMessageAssumption DEF OutputMessageAssumption
<1>1. ASSUME NEW size \in Scalars, Add(size) PROVE IInv'
  BY <1>0, <1>1, AddKeeps
<1>2. ASSUME NEW size \in Strings, AddString(size) PROVE IInv'
  BY <1>0, <1>2, AddStringKeeps
<1>3. CASE UNCHANGED vars
  BY <1>3 DEF vars, IInv, Filling, Framed
<1> QED BY <1>1, <1>2, <1>3, EncryptKeeps, NextMessageKeeps DEF Next

\* Every reachable state of OutputMessage satisfies the invariant.
THEOREM Invariance == Spec => []IInv
BY IInvInit, IInvNext, PTL DEF Spec

\* The cursors that the invariant allows are inside the buffer.
LEMMA CursorsInside == IInv => TypeOK
<1> SUFFICES ASSUME IInv PROVE TypeOK
  OBVIOUS
<1>1. MaxSize \in Nat /\ MaxSize >= 32
  BY OutputMessageAssumption DEF OutputMessageAssumption
<1>2. CASE sent
  BY <1>1, <1>2 DEF IInv, Framed, TypeOK, MaxBody, InitialPosition
<1>3. CASE ~sent
  BY <1>1, <1>3 DEF IInv, Filling, TypeOK, MaxBody, InitialPosition
<1> QED BY <1>2, <1>3

\* What is enciphered ends fourteen bytes before the buffer, rounded up seven.
LEMMA CipherInside == IInv => CipherInBuffer
<1> SUFFICES ASSUME IInv, sent PROVE CipherEnd <= MaxSize
  BY DEF CipherInBuffer
<1>1. MaxSize \in Nat /\ MaxSize >= 32
  BY OutputMessageAssumption DEF OutputMessageAssumption
<1>2. enciphered \in Nat /\ enciphered + 14 <= MaxSize
  BY <1>1 DEF IInv, Framed, MaxBody, InitialPosition
<1>3. 8 * ((enciphered + 7) \div 8) <= enciphered + 7
  BY <1>2
<1> QED BY <1>1, <1>2, <1>3 DEF CipherEnd

\* A framed message is complete.
LEMMA FramedWhole == IInv => FrameIsComplete /\ OnlyFullIsUnpadded
BY DEF IInv, Framed, FrameIsComplete, OnlyFullIsUnpadded

\* No cursor leaves the buffer; 16 bits are enough for each of them.
THEOREM TypeCorrect == Spec => []TypeOK
BY CursorsInside, Invariance, PTL

\* Whole-block enciphering stays in the buffer, padded or not.
THEOREM CipherStaysInside == Spec => []CipherInBuffer
BY CipherInside, Invariance, PTL

\* Every packet can be taken apart again.
THEOREM FramesAreComplete == Spec => []FrameIsComplete
BY FramedWhole, Invariance, PTL

\* A message is enciphered unpadded only when it fills the buffer exactly.
THEOREM OnlyFullUnpadded == Spec => []OnlyFullIsUnpadded
BY FramedWhole, Invariance, PTL

-----------------------------------------------------------------------------
(* Numbers, sums and concatenations *)

\* A nonempty set of natural numbers has a least element.
LEMMA LeastNumber ==
  ASSUME NEW T \in SUBSET Nat, T # {}
  PROVE  \E n \in T : \A m \in T : n <= m
<1> DEFINE R == OpToRel(<, Nat)
<1>1. IsWellFoundedOn(R, Nat)
  BY NatLessThanWellFounded
<1>2. PICK n \in T : \A m \in T : <<m, n>> \notin R
  <2> HIDE DEF R
  <2> QED BY <1>1, WFMin
<1>3. \A m \in T : ~(m < n)
  BY <1>2 DEF OpToRel
<1> QED BY <1>3

RoomStep(fields, room, n) == room[n] = IF n = 0 THEN 0 ELSE room[n - 1] + SizeOf(fields[n])

Kind == {"byte", "uint16", "uint32", "string"}

Field == [kind: Kind, size: Nat, value: Nat]

\* A field takes a number of bytes.
LEMMA SizeType == ASSUME NEW field \in Field PROVE SizeOf(field) \in Nat
<1>1. field.size \in Nat
  BY DEF Field
<1> QED BY <1>1 DEF SizeOf

\* The sums that RoomOf names exist.
LEMMA RoomExists ==
  ASSUME NEW fields \in Seq(Field), NEW k \in 0 .. Len(fields)
  PROVE  \E room \in [0 .. k -> Nat] : \A n \in 0 .. k : RoomStep(fields, room, n)
<1> DEFINE Summed(i) == \E room \in [0 .. i -> Nat] : \A n \in 0 .. i : RoomStep(fields, room, n)
           Unsummed == {i \in 0 .. Len(fields) : ~Summed(i)}
<1>1. Summed(0)
  <2>1. [n \in 0 .. 0 |-> 0] \in [0 .. 0 -> Nat]
    OBVIOUS
  <2>2. \A n \in 0 .. 0 : RoomStep(fields, [m \in 0 .. 0 |-> 0], n)
    BY DEF RoomStep
  <2> QED BY <2>1, <2>2
<1>2. ASSUME NEW i \in 1 .. Len(fields), Summed(i - 1) PROVE Summed(i)
  <2>1. PICK room \in [0 .. i - 1 -> Nat] : \A n \in 0 .. i - 1 : RoomStep(fields, room, n)
    BY <1>2
  <2> DEFINE more == [n \in 0 .. i |-> IF n = i THEN room[i - 1] + SizeOf(fields[i]) ELSE room[n]]
  <2>2. SizeOf(fields[i]) \in Nat
    BY SizeType
  <2>3. more \in [0 .. i -> Nat]
    BY <2>2
  <2>4. \A n \in 0 .. i : RoomStep(fields, more, n)
    BY <2>1 DEF RoomStep
  <2> QED BY <2>3, <2>4
<1>3. Unsummed = {}
  <2> SUFFICES ASSUME Unsummed # {} PROVE FALSE
    OBVIOUS
  <2>1. Unsummed \in SUBSET Nat
    OBVIOUS
  <2>2. PICK i \in Unsummed : \A j \in Unsummed : i <= j
    <3> HIDE DEF Unsummed
    <3> QED BY <2>1, LeastNumber
  <2> HIDE DEF Summed
  <2>3. i \in 1 .. Len(fields) /\ ~Summed(i)
    BY <1>1, <2>2
  <2>4. Summed(i - 1)
    BY <2>2, <2>3
  <2> QED BY <1>2, <2>3, <2>4
<1> QED BY <1>3

\* What RoomOf computes: a sum of natural numbers from the left.
LEMMA RoomSteps ==
  ASSUME NEW fields \in Seq(Field)
  PROVE  /\ RoomOf(fields)[0] = 0
         /\ \A n \in 1 .. Len(fields) :
              RoomOf(fields)[n] = RoomOf(fields)[n - 1] + SizeOf(fields[n])
<1> DEFINE N == Len(fields)
           Summing(room) ==
             room = [n \in 0 .. N |-> IF n = 0 THEN 0 ELSE room[n - 1] + SizeOf(fields[n])]
<1>1. PICK room \in [0 .. N -> Nat] : \A n \in 0 .. N : RoomStep(fields, room, n)
  BY RoomExists
<1>2. Summing(room)
  <2> DEFINE other == [n \in 0 .. N |-> IF n = 0 THEN 0 ELSE room[n - 1] + SizeOf(fields[n])]
  <2>1. \A n \in 0 .. N : room[n] = other[n]
    BY <1>1 DEF RoomStep
  <2>2. DOMAIN room = 0 .. N /\ DOMAIN other = 0 .. N
    OBVIOUS
  <2> QED BY <2>1, <2>2
<1>3. RoomOf(fields) = CHOOSE r : Summing(r)
  BY DEF RoomOf
<1>4. Summing(RoomOf(fields))
  <2> HIDE DEF Summing
  <2> QED BY <1>2, <1>3
<1>5. N \in Nat
  OBVIOUS
<1> QED BY <1>4, <1>5

\* The sums are numbers of bytes.
LEMMA RoomType ==
  ASSUME NEW fields \in Seq(Field), NEW n \in 0 .. Len(fields)
  PROVE  RoomOf(fields)[n] \in Nat
<1> DEFINE Strange == {i \in 0 .. Len(fields) : RoomOf(fields)[i] \notin Nat}
<1>1. Strange = {}
  <2> SUFFICES ASSUME Strange # {} PROVE FALSE
    OBVIOUS
  <2>1. Strange \in SUBSET Nat
    OBVIOUS
  <2>2. PICK i \in Strange : \A j \in Strange : i <= j
    <3> HIDE DEF Strange
    <3> QED BY <2>1, LeastNumber
  <2>3. i \in 1 .. Len(fields)
    BY RoomSteps, <2>2
  <2>4. RoomOf(fields)[i - 1] \in Nat
    BY <2>2, <2>3
  <2>5. SizeOf(fields[i]) \in Nat
    BY <2>3, SizeType
  <2> QED BY <2>2, <2>3, <2>4, <2>5, RoomSteps
<1> QED BY <1>1

\* More fields take no less room.
LEMMA RoomGrows ==
  ASSUME NEW fields \in Seq(Field), NEW m \in 0 .. Len(fields), NEW n \in m .. Len(fields)
  PROVE  RoomOf(fields)[m] <= RoomOf(fields)[n]
<1> DEFINE Shrunk == {i \in m .. Len(fields) : ~(RoomOf(fields)[m] <= RoomOf(fields)[i])}
<1>1. Shrunk = {}
  <2> SUFFICES ASSUME Shrunk # {} PROVE FALSE
    OBVIOUS
  <2>1. Shrunk \in SUBSET Nat
    OBVIOUS
  <2>2. PICK i \in Shrunk : \A j \in Shrunk : i <= j
    <3> HIDE DEF Shrunk
    <3> QED BY <2>1, LeastNumber
  <2>3. RoomOf(fields)[m] \in Nat /\ RoomOf(fields)[i] \in Nat
    BY <2>2, RoomType
  <2>4. i \in 1 .. Len(fields) /\ i # m
    BY <2>2, <2>3
  <2>5. RoomOf(fields)[m] <= RoomOf(fields)[i - 1]
    BY <2>2, <2>4
  <2>6. SizeOf(fields[i]) \in Nat /\ RoomOf(fields)[i - 1] \in Nat
    BY <2>4, SizeType, RoomType
  <2> QED BY <2>2, <2>3, <2>4, <2>5, <2>6, RoomSteps
<1> QED BY <1>1

-----------------------------------------------------------------------------
\* f holds the concatenations of the first i of seqs, for i \in 1 .. k.
FlattenStep(seqs, f, i) == /\ i = 1 => f[i] = seqs[i]
                           /\ i # 1 => f[i] = f[i - 1] \o seqs[i]

Table(n, T) == [1 .. n -> T]
Extends(g, n, f, x) == g[n] = x /\ \A i \in 1 .. n - 1 : g[i] = f[i]

\* A table can be extended by an entry.
LEMMA OneMore ==
  ASSUME NEW T, NEW n \in Nat \ {0}, NEW f \in Table(n - 1, T), NEW x \in T
  PROVE  \E g \in Table(n, T) : Extends(g, n, f, x)
<1> DEFINE g == [i \in 1 .. n |-> IF i = n THEN x ELSE f[i]]
<1>1. g \in [1 .. n -> T]
  BY DEF Table
<1>2. g[n] = x /\ \A i \in 1 .. n - 1 : g[i] = f[i]
  OBVIOUS
<1> HIDE DEF g
<1> QED BY <1>1, <1>2 DEF Table, Extends

\* Where the elements of two sequences are when they are joined.
LEMMA ConcatPlaces ==
  ASSUME NEW S, NEW s \in Seq(S), NEW t \in Seq(S)
  PROVE  /\ Len(s \o t) = Len(s) + Len(t)
         /\ \A q \in 1 .. Len(s) : (s \o t)[q] = s[q]
         /\ \A j \in 1 .. Len(t) : (s \o t)[Len(s) + j] = t[j]
OBVIOUS

\* The concatenations that FlattenSeq names exist.
LEMMA FlattenExists ==
  ASSUME NEW S, NEW seqs \in Seq(Seq(S)), NEW k \in 1 .. Len(seqs)
  PROVE  \E f \in [1 .. k -> Seq(S)] : \A i \in 1 .. k : FlattenStep(seqs, f, i)
<1> DEFINE Joined(n) == \E f \in [1 .. n -> Seq(S)] : \A i \in 1 .. n : FlattenStep(seqs, f, i)
           Apart == {n \in 1 .. Len(seqs) : ~Joined(n)}
<1>1. ASSUME Len(seqs) # 0 PROVE Joined(1)
  <2>1. [n \in 1 .. 1 |-> seqs[1]] \in [1 .. 1 -> Seq(S)]
    BY <1>1
  <2>2. \A i \in 1 .. 1 : FlattenStep(seqs, [n \in 1 .. 1 |-> seqs[1]], i)
    BY DEF FlattenStep
  <2> QED BY <2>1, <2>2
<1>2. ASSUME NEW n \in 2 .. Len(seqs), Joined(n - 1) PROVE Joined(n)
  <2>1. PICK f \in [1 .. n - 1 -> Seq(S)] : \A i \in 1 .. n - 1 : FlattenStep(seqs, f, i)
    BY <1>2
  <2> DEFINE x == f[n - 1] \o seqs[n]
  <2>2. x \in Seq(S)
    <3>1. f[n - 1] \in Seq(S) /\ seqs[n] \in Seq(S)
      OBVIOUS
    <3> HIDE <2>1
    <3> QED BY <3>1
  <2> HIDE DEF x
  <2>3. PICK more \in [1 .. n -> Seq(S)] : more[n] = x /\ \A i \in 1 .. n - 1 : more[i] = f[i]
    <3>1. f \in Table(n - 1, Seq(S)) /\ n \in Nat \ {0}
      BY DEF Table
    <3>2. \E more \in Table(n, Seq(S)) : Extends(more, n, f, x)
      <4> HIDE <2>1
      <4> QED BY <2>2, <3>1, OneMore
    <3> QED BY <3>2 DEF Table, Extends
  <2>4. \A i \in 1 .. n - 1 : more[i] = f[i]
    BY <2>3
  <2>5. more[n] = more[n - 1] \o seqs[n]
    <3>1. n - 1 \in 1 .. n - 1
      OBVIOUS
    <3>2. more[n - 1] = f[n - 1]
      BY <2>3, <3>1
    <3> QED BY <2>3, <3>2, Zenon DEF x
  <2>6. ASSUME NEW i \in 1 .. n PROVE FlattenStep(seqs, more, i)
    <3>1. CASE i = n
      <4>1. n # 1
        OBVIOUS
      <4>2. FlattenStep(seqs, more, n)
        BY <2>5, <4>1, Zenon DEF FlattenStep
      <4> QED BY <3>1, <4>2, Zenon
    <3>2. CASE i \in 1 .. n - 1
      <4>1. FlattenStep(seqs, f, i) /\ more[i] = f[i]
        BY <2>1, <2>4, <3>2
      <4>2. i # 1 => i - 1 \in 1 .. n - 1
        BY <3>2
      <4>3. i # 1 => more[i - 1] = f[i - 1]
        BY <2>4, <4>2, Zenon
      <4> QED BY <4>1, <4>3, Zenon DEF FlattenStep
    <3> QED BY <3>1, <3>2
  <2> QED BY <2>3, <2>6
<1>3. Apart = {}
  <2> SUFFICES ASSUME Apart # {} PROVE FALSE
    OBVIOUS
  <2>1. Apart \in SUBSET Nat
    OBVIOUS
  <2>2. PICK n \in Apart : \A j \in Apart : n <= j
    <3> HIDE DEF Apart
    <3> QED BY <2>1, LeastNumber
  <2> HIDE DEF Joined
  <2>3. n \in 2 .. Len(seqs) /\ ~Joined(n)
    BY <1>1, <2>2
  <2>4. Joined(n - 1)
    BY <2>2, <2>3
  <2> QED BY <1>2, <2>3, <2>4
<1> QED BY <1>3

\* What FlattenSeq returns is the last of such concatenations.
LEMMA FlattenSteps ==
  ASSUME NEW S, NEW seqs \in Seq(Seq(S)), Len(seqs) # 0
  PROVE  \E f \in [1 .. Len(seqs) -> Seq(S)] :
            /\ \A i \in 1 .. Len(seqs) : FlattenStep(seqs, f, i)
            /\ FlattenSeq(seqs) = f[Len(seqs)]
<1> DEFINE N == Len(seqs)
           Joining(f) == f = [i \in 1 .. N |-> IF i = 1 THEN seqs[i] ELSE f[i - 1] \o seqs[i]]
           flat == CHOOSE f : Joining(f)
<1>0. N \in 1 .. N
  OBVIOUS
<1>1. PICK f \in [1 .. N -> Seq(S)] : \A i \in 1 .. N : FlattenStep(seqs, f, i)
  BY <1>0, FlattenExists
<1>2. Joining(f)
  <2> DEFINE other == [i \in 1 .. N |-> IF i = 1 THEN seqs[i] ELSE f[i - 1] \o seqs[i]]
  <2>1. \A i \in 1 .. N : f[i] = other[i]
    BY <1>1 DEF FlattenStep
  <2>2. DOMAIN f = 1 .. N /\ DOMAIN other = 1 .. N
    OBVIOUS
  <2> QED BY <2>1, <2>2
<1>3. FlattenSeq(seqs) = flat[N]
  BY DEF FlattenSeq
<1>4. Joining(flat)
  <2> HIDE DEF Joining
  <2> QED BY <1>2
<1> HIDE DEF flat
<1>5. N \in Nat
  OBVIOUS
<1>6. \A i \in 1 .. N : FlattenStep(seqs, flat, i)
  BY <1>4, <1>5 DEF FlattenStep
<1>7. \A i \in 1 .. N : flat[i] = f[i]
  <2> DEFINE Differ == {i \in 1 .. N : flat[i] # f[i]}
  <2> SUFFICES ASSUME Differ # {} PROVE FALSE
    OBVIOUS
  <2>1. Differ \in SUBSET Nat
    OBVIOUS
  <2>2. PICK i \in Differ : \A j \in Differ : i <= j
    <3> HIDE DEF Differ
    <3> QED BY <2>1, LeastNumber
  <2>3. i = 1 \/ flat[i - 1] = f[i - 1]
    BY <1>5, <2>2
  <2> QED BY <1>1, <1>6, <2>2, <2>3 DEF FlattenStep
<1>8. FlattenSeq(seqs) = f[N]
  BY <1>0, <1>3, <1>7
<1> QED BY <1>1, <1>8

\* Concatenated blocks of five keep their places.
LEMMA FlattenBlocks ==
  ASSUME NEW S, NEW seqs \in Seq(Seq(S)), \A i \in 1 .. Len(seqs) : Len(seqs[i]) = 5
  PROVE  /\ FlattenSeq(seqs) \in Seq(S)
         /\ Len(FlattenSeq(seqs)) = 5 * Len(seqs)
         /\ \A i \in 1 .. Len(seqs), j \in 1 .. 5 :
              FlattenSeq(seqs)[5 * (i - 1) + j] = seqs[i][j]
<1> DEFINE N == Len(seqs)
<1>1. CASE N = 0
  <2>1. FlattenSeq(seqs) = seqs
    BY <1>1 DEF FlattenSeq
  <2>2. seqs = <<>>
    BY <1>1
  <2> QED BY <2>1, <2>2
<1>2. CASE N # 0
  <2>1. PICK f \in [1 .. N -> Seq(S)] :
          /\ \A i \in 1 .. N : FlattenStep(seqs, f, i)
          /\ FlattenSeq(seqs) = f[N]
    BY <1>2, FlattenSteps
  <2> DEFINE Placed(n) == /\ Len(f[n]) = 5 * n
                          /\ \A i \in 1 .. n, j \in 1 .. 5 : f[n][5 * (i - 1) + j] = seqs[i][j]
             Misplaced == {n \in 1 .. N : ~Placed(n)}
  <2>2. Placed(1)
    <3>1. 1 \in 1 .. N
      BY <1>2
    <3>2. f[1] = seqs[1]
      BY <2>1, <3>1 DEF FlattenStep
    <3>3. Len(seqs[1]) = 5
      BY <3>1
    <3> QED BY <3>2, <3>3
  <2>3. ASSUME NEW n \in 2 .. N, Placed(n - 1) PROVE Placed(n)
    <3>0. n \in 1 .. N /\ n # 1 /\ n - 1 \in 1 .. N
      OBVIOUS
    <3>1. f[n] = f[n - 1] \o seqs[n]
      BY <2>1, <3>0 DEF FlattenStep
    <3>2. f[n - 1] \in Seq(S) /\ seqs[n] \in Seq(S)
      <4>1. f \in [1 .. N -> Seq(S)] /\ seqs \in [1 .. N -> Seq(S)]
        OBVIOUS
      <4> QED BY <3>0, <4>1, Zenon
    <3>6. Len(seqs[n]) = 5
      BY <3>0
    <3>5. Len(f[n - 1]) = 5 * (n - 1)
      BY <2>3
    <3>3. /\ Len(f[n]) = 5 * n
          /\ \A q \in 1 .. 5 * (n - 1) : f[n][q] = f[n - 1][q]
          /\ \A j \in 1 .. 5 : f[n][5 * (n - 1) + j] = seqs[n][j]
      <4> DEFINE u == f[n - 1]
                 v == seqs[n]
      <4>1. /\ Len(u \o v) = Len(u) + Len(v)
            /\ \A q \in 1 .. Len(u) : (u \o v)[q] = u[q]
            /\ \A j \in 1 .. Len(v) : (u \o v)[Len(u) + j] = v[j]
        <5>1. \A s, t \in Seq(S) :
                /\ Len(s \o t) = Len(s) + Len(t)
                /\ \A q \in 1 .. Len(s) : (s \o t)[q] = s[q]
                /\ \A j \in 1 .. Len(t) : (s \o t)[Len(s) + j] = t[j]
          BY ConcatPlaces
        <5> QED BY <3>2, <5>1, Zenon
      <4>2. Len(u) = 5 * (n - 1) /\ Len(v) = 5 /\ f[n] = u \o v
        BY <3>1, <3>6, <3>5, Zenon
      <4> HIDE DEF u, v
      <4>3. Len(f[n]) = 5 * (n - 1) + 5
        BY <4>1, <4>2
      <4>4. \A j \in 1 .. 5 : f[n][5 * (n - 1) + j] = v[j]
        BY <4>1, <4>2
      <4>5. \A q \in 1 .. 5 * (n - 1) : f[n][q] = u[q]
        BY <4>1, <4>2
      <4> QED BY <4>3, <4>4, <4>5 DEF u, v
    <3>4. ASSUME NEW i \in 1 .. n, NEW j \in 1 .. 5
          PROVE  f[n][5 * (i - 1) + j] = seqs[i][j]
      <4>1. CASE i = n
        BY <3>3, <4>1
      <4>2. CASE i \in 1 .. n - 1
        <5>1. 5 * (i - 1) + j \in 1 .. 5 * (n - 1)
          BY <4>2
        <5> QED BY <2>3, <3>3, <4>2, <5>1
      <4> QED BY <4>1, <4>2
    <3> QED BY <3>3, <3>4
  <2>4. Misplaced = {}
    <3> SUFFICES ASSUME Misplaced # {} PROVE FALSE
      OBVIOUS
    <3>1. Misplaced \in SUBSET Nat
      OBVIOUS
    <3>2. PICK n \in Misplaced : \A m \in Misplaced : n <= m
      <4> HIDE DEF Misplaced
      <4> QED BY <3>1, LeastNumber
    <3> HIDE DEF Placed
    <3>3. n \in 2 .. N /\ ~Placed(n)
      BY <2>2, <3>2
    <3>4. Placed(n - 1)
      BY <3>2, <3>3
    <3> QED BY <2>3, <3>3, <3>4
  <2>5. N \in 1 .. N
    BY <1>2
  <2>6. Placed(N)
    <3> HIDE DEF Placed
    <3> QED BY <2>4, <2>5
  <2> QED BY <2>1, <2>5, <2>6
<1> QED BY <1>1, <1>2

-----------------------------------------------------------------------------
BlockKinds == <<"string", "string", "string", "uint16", "byte">>

\* K names the kinds of a header of six, n blocks of five, and three more.
Listed(K, n) ==
  /\ K \in Seq(Kind) /\ Len(K) = 9 + 5 * n
  /\ K[1] = "byte" /\ K[2] = "string" /\ K[3] = "byte" /\ K[4] = "string"
  /\ K[5] = "byte" /\ K[6] = "byte"
  /\ \A i \in 1 .. n, j \in 1 .. 5 : K[6 + (5 * (i - 1) + j)] = BlockKinds[j]
  /\ K[6 + 5 * n + 1] = "byte" /\ K[6 + 5 * n + 2] = "byte" /\ K[6 + 5 * n + 3] = "uint32"

\* There is one such sequence for every n.
LEMMA ListedOnce ==
  ASSUME NEW n \in Nat, NEW K, NEW L, Listed(K, n), Listed(L, n)
  PROVE  K = L
<1>1. ASSUME NEW m \in 1 .. 9 + 5 * n PROVE K[m] = L[m]
  <2>1. CASE m \in 1 .. 6
    BY <2>1 DEF Listed
  <2>2. CASE m \in 7 .. 6 + 5 * n
    <3> DEFINE i == (m - 7) \div 5 + 1
               j == ((m - 7) % 5) + 1
    <3>1. i \in 1 .. n /\ j \in 1 .. 5 /\ m = 6 + (5 * (i - 1) + j)
      BY <2>2
    <3> HIDE DEF i, j
    <3>2. \A a \in 1 .. n, b \in 1 .. 5 : K[6 + (5 * (a - 1) + b)] = L[6 + (5 * (a - 1) + b)]
      BY DEF Listed
    <3> QED BY <3>1, <3>2, Zenon
  <2>3. CASE m \in 6 + 5 * n + 1 .. 9 + 5 * n
    <3>1. m = 6 + 5 * n + 1 \/ m = 6 + 5 * n + 2 \/ m = 6 + 5 * n + 3
      BY <2>3
    <3> QED BY <3>1, Zenon DEF Listed
  <2> QED BY <2>1, <2>2, <2>3
<1>2. Len(K) = 9 + 5 * n /\ Len(L) = 9 + 5 * n /\ K \in Seq(Kind) /\ L \in Seq(Kind)
  BY DEF Listed
<1>3. K \in [1 .. 9 + 5 * n -> Kind] /\ L \in [1 .. 9 + 5 * n -> Kind]
  BY <1>2
<1> QED BY <1>1, <1>3

Places(w, s, t, u) ==
  /\ Len(w) = Len(s) + Len(t) + Len(u)
  /\ \A q \in 1 .. Len(s) : w[q] = s[q]
  /\ \A q \in 1 .. Len(t) : w[Len(s) + q] = t[q]
  /\ \A q \in 1 .. Len(u) : w[Len(s) + Len(t) + q] = u[q]

\* The same places when the parts are joined.
LEMMA JoinedPlaces ==
  ASSUME NEW S, NEW s \in Seq(S), NEW t \in Seq(S), NEW u \in Seq(S)
  PROVE  (s \o t) \o u \in Seq(S) /\ Places((s \o t) \o u, s, t, u)
<1> DEFINE v == s \o t
<1>1. /\ v \in Seq(S) /\ Len(v) = Len(s) + Len(t)
      /\ \A q \in 1 .. Len(s) : v[q] = s[q]
      /\ \A j \in 1 .. Len(t) : v[Len(s) + j] = t[j]
  OBVIOUS
<1> HIDE DEF v
<1>2. /\ v \o u \in Seq(S) /\ Len(v \o u) = Len(v) + Len(u)
      /\ \A q \in 1 .. Len(v) : (v \o u)[q] = v[q]
      /\ \A j \in 1 .. Len(u) : (v \o u)[Len(v) + j] = u[j]
  <2>1. \A x, y \in Seq(S) :
          /\ x \o y \in Seq(S) /\ Len(x \o y) = Len(x) + Len(y)
          /\ \A q \in 1 .. Len(x) : (x \o y)[q] = x[q]
          /\ \A j \in 1 .. Len(y) : (x \o y)[Len(x) + j] = y[j]
    BY ConcatPlaces
  <2> QED BY <1>1, <2>1, Zenon
<1> DEFINE w == v \o u
<1> HIDE DEF w
<1>3. /\ w \in Seq(S) /\ Len(w) = Len(v) + Len(u)
      /\ \A q \in 1 .. Len(v) : w[q] = v[q]
      /\ \A j \in 1 .. Len(u) : w[Len(v) + j] = u[j]
  BY <1>2 DEF w
<1>4. Len(s) \in Nat /\ Len(t) \in Nat /\ Len(u) \in Nat
  OBVIOUS
<1>5. /\ w \in Seq(S) /\ Len(w) = Len(s) + Len(t) + Len(u)
      /\ \A q \in 1 .. Len(s) : w[q] = s[q]
      /\ \A q \in 1 .. Len(t) : w[Len(s) + q] = t[q]
      /\ \A q \in 1 .. Len(u) : w[Len(s) + Len(t) + q] = u[q]
  BY <1>1, <1>3, <1>4
<1> QED BY <1>5 DEF v, w, Places

\* What a client expects is such a sequence.
LEMMA ListKindsListed == ASSUME NEW n \in Nat PROVE Listed(ListKinds(n), n)
<1> DEFINE blocks == [i \in 1 .. n |-> <<"string", "string", "string", "uint16", "byte">>]
           s == <<"byte", "string", "byte", "string", "byte", "byte">>
           t == FlattenSeq(blocks)
           u == <<"byte", "byte", "uint32">>
<1>1. blocks \in Seq(Seq(Kind)) /\ Len(blocks) = n
  <2>1. BlockKinds \in Seq(Kind)
    BY DEF BlockKinds, Kind
  <2>2. blocks \in [1 .. n -> Seq(Kind)]
    BY <2>1 DEF BlockKinds
  <2> QED BY <2>2
<1>2. \A i \in 1 .. n : blocks[i] = BlockKinds /\ Len(blocks[i]) = 5
  BY DEF BlockKinds
<1> HIDE DEF blocks
<1>3. /\ t \in Seq(Kind) /\ Len(t) = 5 * n
      /\ \A i \in 1 .. n, j \in 1 .. 5 : t[5 * (i - 1) + j] = blocks[i][j]
  <2>1. \A i \in 1 .. Len(blocks) : Len(blocks[i]) = 5
    BY <1>1, <1>2
  <2>2. /\ t \in Seq(Kind) /\ Len(t) = 5 * Len(blocks)
        /\ \A i \in 1 .. Len(blocks), j \in 1 .. 5 : t[5 * (i - 1) + j] = blocks[i][j]
    BY <1>1, <2>1, FlattenBlocks, Zenon
  <2> QED BY <1>1, <2>2
<1> HIDE DEF t
<1>4. s \in Seq(Kind) /\ u \in Seq(Kind) /\ Len(s) = 6 /\ Len(u) = 3
  BY DEF Kind
<1>5. /\ s[1] = "byte" /\ s[2] = "string" /\ s[3] = "byte" /\ s[4] = "string"
      /\ s[5] = "byte" /\ s[6] = "byte"
      /\ u[1] = "byte" /\ u[2] = "byte" /\ u[3] = "uint32"
  OBVIOUS
<1> DEFINE w == (s \o t) \o u
<1>6. ListKinds(n) = w
  BY DEF ListKinds, t, blocks
<1> HIDE DEF s, u
<1>7. /\ w \in Seq(Kind) /\ Len(w) = Len(s) + Len(t) + Len(u)
      /\ \A q \in 1 .. Len(s) : w[q] = s[q]
      /\ \A q \in 1 .. Len(t) : w[Len(s) + q] = t[q]
      /\ \A q \in 1 .. Len(u) : w[Len(s) + Len(t) + q] = u[q]
  <2>1. \A x, y, z \in Seq(Kind) :
          (x \o y) \o z \in Seq(Kind) /\ Places((x \o y) \o z, x, y, z)
    BY JoinedPlaces
  <2>2. w \in Seq(Kind) /\ Places(w, s, t, u)
    BY <1>3, <1>4, <2>1, Zenon
  <2> QED BY <2>2 DEF Places
<1> HIDE DEF w
<1>8. Len(w) = 9 + 5 * n
  BY <1>3, <1>4, <1>7
<1>9. \A q \in 1 .. 6 : w[q] = s[q]
  BY <1>4, <1>7
<1>10. w[6 + 5 * n + 1] = u[1] /\ w[6 + 5 * n + 2] = u[2] /\ w[6 + 5 * n + 3] = u[3]
  BY <1>3, <1>4, <1>7
<1>11. ASSUME NEW i \in 1 .. n, NEW j \in 1 .. 5
       PROVE  w[6 + (5 * (i - 1) + j)] = BlockKinds[j]
  <2>1. 5 * (i - 1) + j \in 1 .. 5 * n
    OBVIOUS
  <2>2. w[6 + (5 * (i - 1) + j)] = t[5 * (i - 1) + j]
    BY <1>3, <1>4, <1>7, <2>1
  <2>3. t[5 * (i - 1) + j] = blocks[i][j]
    BY <1>3
  <2>4. blocks[i] = BlockKinds
    BY <1>2
  <2> QED BY <2>2, <2>3, <2>4, Zenon
<1>12. /\ w[1] = "byte" /\ w[2] = "string" /\ w[3] = "byte" /\ w[4] = "string"
       /\ w[5] = "byte" /\ w[6] = "byte"
  BY <1>5, <1>9
<1> QED BY <1>5, <1>6, <1>7, <1>8, <1>10, <1>11, <1>12, Zenon DEF Listed

\* A character is five fields.
LEMMA CharacterBlock ==
  ASSUME NEW c \in Characters
  PROVE  /\ CharacterFields(c) \in Seq(Field) /\ Len(CharacterFields(c)) = 5
         /\ \A j \in 1 .. 5 : CharacterFields(c)[j].kind = BlockKinds[j]
<1>1. c.name \in Nat /\ c.instanceName \in Nat /\ c.instanceId \in Nat
  BY LoginReplyAssumption DEF LoginReplyAssumption
<1>2. \A len \in Nat : String(len) \in Field /\ String(len).kind = "string"
  BY DEF String, Field, Kind
<1>3. Uint16 \in Field /\ Uint16.kind = "uint16" /\ Byte(0) \in Field /\ Byte(0).kind = "byte"
  BY DEF Uint16, Byte, Field, Kind
<1> DEFINE r == String(c.name)
           s == String(c.instanceName)
           t == String(c.instanceId)
           u == Uint16
           v == Byte(0)
<1>4. /\ r \in Field /\ s \in Field /\ t \in Field /\ u \in Field /\ v \in Field
      /\ r.kind = "string" /\ s.kind = "string" /\ t.kind = "string"
      /\ u.kind = "uint16" /\ v.kind = "byte"
  BY <1>1, <1>2, <1>3
<1>5. CharacterFields(c) = <<r, s, t, u, v>>
  BY DEF CharacterFields
<1> HIDE DEF r, s, t, u, v
<1>6. <<r, s, t, u, v>> \in Seq(Field) /\ Len(<<r, s, t, u, v>>) = 5
  BY <1>4
<1>7. \A j \in 1 .. 5 : <<r, s, t, u, v>>[j].kind = BlockKinds[j]
  BY <1>4 DEF BlockKinds
<1> QED BY <1>5, <1>6, <1>7

\* The characters of a list, one after the other.
LEMMA CharacterBlocks ==
  ASSUME NEW roster \in Seq(Characters)
  PROVE  LET flat == FlattenSeq([i \in DOMAIN roster |-> CharacterFields(roster[i])])
         IN  /\ flat \in Seq(Field) /\ Len(flat) = 5 * Len(roster)
             /\ \A i \in 1 .. Len(roster), j \in 1 .. 5 :
                   flat[5 * (i - 1) + j].kind = BlockKinds[j]
<1> DEFINE n == Len(roster)
           blocks == [i \in DOMAIN roster |-> CharacterFields(roster[i])]
           flat == FlattenSeq(blocks)
<1>1. \A i \in 1 .. n : /\ CharacterFields(roster[i]) \in Seq(Field)
                        /\ Len(CharacterFields(roster[i])) = 5
                        /\ \A j \in 1 .. 5 : CharacterFields(roster[i])[j].kind = BlockKinds[j]
  BY CharacterBlock
<1>2. blocks \in Seq(Seq(Field)) /\ Len(blocks) = n
  <2>1. blocks \in [1 .. n -> Seq(Field)] /\ n \in Nat
    BY <1>1
  <2> HIDE DEF blocks, n
  <2> QED BY <2>1
<1>3. \A i \in 1 .. n : blocks[i] = CharacterFields(roster[i])
  OBVIOUS
<1>4. \A i \in 1 .. Len(blocks) : Len(blocks[i]) = 5
  BY <1>1, <1>2, <1>3
<1> HIDE DEF blocks
<1>5. /\ flat \in Seq(Field) /\ Len(flat) = 5 * Len(blocks)
      /\ \A i \in 1 .. Len(blocks), j \in 1 .. 5 : flat[5 * (i - 1) + j] = blocks[i][j]
  BY <1>2, <1>4, FlattenBlocks
<1> HIDE DEF flat
<1>6. ASSUME NEW i \in 1 .. n, NEW j \in 1 .. 5
      PROVE  flat[5 * (i - 1) + j].kind = BlockKinds[j]
  <2>1. flat[5 * (i - 1) + j] = blocks[i][j]
    BY <1>2, <1>5
  <2>2. blocks[i] = CharacterFields(roster[i])
    BY <1>3
  <2>3. CharacterFields(roster[i])[j].kind = BlockKinds[j]
    BY <1>1
  <2> QED BY <2>1, <2>2, <2>3, Zenon
<1>7. /\ flat \in Seq(Field) /\ Len(flat) = 5 * n
      /\ \A i \in 1 .. n, j \in 1 .. 5 : flat[5 * (i - 1) + j].kind = BlockKinds[j]
  BY <1>2, <1>5, <1>6
<1> QED BY <1>7 DEF flat, blocks

\* The fields of an answer to a login, and the number that it announces.
LoginFields(motd, key, roster) == MOTD(motd) \o SessionKey(key) \o CharacterList(roster)

\* What the server writes is such a sequence, for the number it announces.
LEMMA LoginListed ==
  ASSUME NEW motd \in Motds, NEW key \in SessionKeys, NEW roster \in Seq(Characters)
  PROVE  LET fields == LoginFields(motd, key, roster)
         IN  /\ fields \in Seq(Field)
             /\ fields[6].value = Len(roster) % CountWidth
             /\ Listed(Kinds(fields), Len(roster))
<1> DEFINE n == Len(roster)
           flat == FlattenSeq([i \in DOMAIN roster |-> CharacterFields(roster[i])])
           p == <<Byte(0), String(motd)>>
           q == <<Byte(0), String(key)>>
           s == <<Byte(0), CountByte(roster)>>
           u == <<Byte(0), Byte(0), Uint32>>
           list == (s \o flat) \o u
           fields == (p \o q) \o list
<1>1. LoginFields(motd, key, roster) = fields
  BY DEF LoginFields, MOTD, SessionKey, CharacterList
<1>2. n \in Nat /\ n % CountWidth \in Nat
  <2>1. CountWidth \in Nat \ {0} /\ n \in Nat
    BY LoginReplyAssumption DEF LoginReplyAssumption
  <2> HIDE DEF n
  <2> QED BY <2>1
<1>3. /\ flat \in Seq(Field) /\ Len(flat) = 5 * n
      /\ \A i \in 1 .. n, j \in 1 .. 5 : flat[5 * (i - 1) + j].kind = BlockKinds[j]
  BY CharacterBlocks
<1>4. /\ Byte(0) \in Field /\ Byte(0).kind = "byte"
      /\ String(motd) \in Field /\ String(motd).kind = "string"
      /\ String(key) \in Field /\ String(key).kind = "string"
      /\ CountByte(roster) \in Field /\ CountByte(roster).kind = "byte"
      /\ CountByte(roster).value = n % CountWidth
      /\ Uint32 \in Field /\ Uint32.kind = "uint32"
  BY <1>2, LoginReplyAssumption
     DEF LoginReplyAssumption, Byte, String, CountByte, Uint32, Field, Kind
<1>5. /\ p \in Seq(Field) /\ Len(p) = 2 /\ p[1].kind = "byte" /\ p[2].kind = "string"
      /\ q \in Seq(Field) /\ Len(q) = 2 /\ q[1].kind = "byte" /\ q[2].kind = "string"
      /\ s \in Seq(Field) /\ Len(s) = 2 /\ s[1].kind = "byte" /\ s[2].kind = "byte"
      /\ s[2].value = n % CountWidth
      /\ u \in Seq(Field) /\ Len(u) = 3
      /\ u[1].kind = "byte" /\ u[2].kind = "byte" /\ u[3].kind = "uint32"
  <2> DEFINE b == Byte(0)
             c == CountByte(roster)
             d == String(motd)
             e == String(key)
             f == Uint32
  <2> HIDE DEF b, c, d, e, f
  <2> QED BY <1>4 DEF b, c, d, e, f
<1> HIDE DEF flat, p, q, s, u, n
<1>6. \A x, y, z \in Seq(Field) :
        (x \o y) \o z \in Seq(Field) /\ Places((x \o y) \o z, x, y, z)
  BY JoinedPlaces
<1>7. list \in Seq(Field) /\ Places(list, s, flat, u)
  BY <1>3, <1>5, <1>6, Zenon
<1> HIDE DEF list
<1>8. fields \in Seq(Field) /\ Places(fields, p, q, list)
  BY <1>5, <1>6, <1>7, Zenon
<1> HIDE DEF fields
<1>9. /\ Len(list) = 5 + 5 * n /\ list[1] = s[1] /\ list[2] = s[2]
      /\ \A m \in 1 .. 5 * n : list[2 + m] = flat[m]
      /\ \A r \in 1 .. 3 : list[2 + 5 * n + r] = u[r]
  BY <1>2, <1>3, <1>5, <1>7 DEF Places
<1>10. /\ Len(fields) = 9 + 5 * n
       /\ fields[1] = p[1] /\ fields[2] = p[2] /\ fields[3] = q[1] /\ fields[4] = q[2]
       /\ \A m \in 1 .. 5 + 5 * n : fields[4 + m] = list[m]
  BY <1>2, <1>5, <1>8, <1>9 DEF Places
<1>11. fields[5] = s[1] /\ fields[6] = s[2]
  BY <1>2, <1>9, <1>10
<1>12. ASSUME NEW i \in 1 .. n, NEW j \in 1 .. 5
       PROVE  fields[6 + (5 * (i - 1) + j)].kind = BlockKinds[j]
  <2>1. 5 * (i - 1) + j \in 1 .. 5 * n
    BY <1>2
  <2> DEFINE m == 5 * (i - 1) + j
  <2>2. flat[m].kind = BlockKinds[j]
    BY <1>3
  <2> HIDE DEF m
  <2>3. m \in 1 .. 5 * n
    BY <2>1 DEF m
  <2>4. list[2 + m] = flat[m] /\ 2 + m \in 1 .. 5 + 5 * n
    BY <1>2, <1>9, <2>3
  <2>5. fields[4 + (2 + m)] = flat[m]
    BY <1>10, <2>4
  <2>6. 4 + (2 + m) = 6 + m
    BY <2>3
  <2>7. fields[6 + m].kind = BlockKinds[j]
    BY <2>2, <2>5, <2>6, Zenon
  <2> QED BY <2>7 DEF m
<1>13. ASSUME NEW r \in 1 .. 3 PROVE fields[6 + 5 * n + r] = u[r]
  <2>1. list[2 + 5 * n + r] = u[r]
    BY <1>9
  <2>4. 2 + 5 * n + r \in 1 .. 5 + 5 * n
    BY <1>2
  <2>2. fields[4 + (2 + 5 * n + r)] = u[r]
    BY <1>10, <2>1, <2>4
  <2>3. 4 + (2 + 5 * n + r) = 6 + 5 * n + r
    BY <1>2
  <2> QED BY <2>2, <2>3, Zenon
<1> DEFINE kinds == Kinds(fields)
<1>14. kinds \in Seq(Kind) /\ Len(kinds) = 9 + 5 * n
       /\ \A m \in 1 .. 9 + 5 * n : kinds[m] = fields[m].kind
  <2>1. fields \in [1 .. 9 + 5 * n -> Field] /\ 9 + 5 * n \in Nat
    BY <1>2, <1>8, <1>10
  <2>2. kinds = [m \in 1 .. 9 + 5 * n |-> fields[m].kind]
    BY <2>1 DEF Kinds
  <2>3. \A m \in 1 .. 9 + 5 * n : fields[m].kind \in Kind
    BY <2>1 DEF Field
  <2> HIDE DEF kinds
  <2> QED BY <2>1, <2>2, <2>3
<1> HIDE DEF kinds
<1>15. /\ kinds[1] = "byte" /\ kinds[2] = "string" /\ kinds[3] = "byte" /\ kinds[4] = "string"
       /\ kinds[5] = "byte" /\ kinds[6] = "byte"
  BY <1>2, <1>5, <1>10, <1>11, <1>14
<1>16. ASSUME NEW i \in 1 .. n, NEW j \in 1 .. 5
       PROVE  kinds[6 + (5 * (i - 1) + j)] = BlockKinds[j]
  <2>1. 6 + (5 * (i - 1) + j) \in 1 .. 9 + 5 * n
    BY <1>2
  <2> QED BY <1>12, <1>14, <2>1
<1>17. /\ kinds[6 + 5 * n + 1] = "byte" /\ kinds[6 + 5 * n + 2] = "byte"
       /\ kinds[6 + 5 * n + 3] = "uint32"
  <2>1. \A r \in 1 .. 3 : 6 + 5 * n + r \in 1 .. 9 + 5 * n
    BY <1>2
  <2>2. \A r \in 1 .. 3 : kinds[6 + 5 * n + r] = u[r].kind
    BY <1>13, <1>14, <2>1
  <2> QED BY <1>5, <2>2
<1>18. Listed(kinds, n)
  BY <1>14, <1>15, <1>16, <1>17, Zenon DEF Listed
<1>19. fields[6].value = n % CountWidth
  BY <1>5, <1>11, Zenon
<1> QED BY <1>1, <1>8, <1>18, <1>19, Zenon DEF kinds, n
-----------------------------------------------------------------------------
(* LoginReply *)

\* The fields that were considered so far; k of them.
Considered == Len(reply.fields) - Len(todo)

\* What addString asks of a string besides the room.
ShortEnough(field) == field.kind = "string" => field.size <= MaxString

\* All of them were written, and the message is as long as the room they take.
Whole == /\ Len(written) = Considered
         /\ \A i \in 1 .. Considered :
              /\ written[i] = reply.fields[i]
              /\ ShortEnough(reply.fields[i])
         /\ reply.of # "script" =>
              /\ ~sent => length = RoomOf(reply.fields)[Considered]
              /\ sent => inner = RoomOf(reply.fields)[Considered]

\* One of them was left out, and it did not fit.
Short == Len(written) < Considered /\ ~Fits

ReplyInv == /\ IInv
            /\ reply \in Replies
            /\ todo \in Seq(Field) /\ written \in Seq(Field)
            /\ Len(todo) <= Len(reply.fields)
            /\ \A i \in 1 .. Len(todo) : todo[i] = reply.fields[Considered + i]
            /\ sent => todo = <<>>
            /\ Whole \/ Short

\* What there is to say is a sequence of fields.
LEMMA RepliesAreFields ==
  ASSUME NEW r \in Replies
  PROVE  /\ r.fields \in Seq(Field)
         /\ r.of = "script" => r.fields = <<>>
         /\ r.of = "login" /\ r.number < CountWidth =>
               Kinds(r.fields) = ListKinds(r.fields[6].value)
<1>1. CASE r \in LoginReplies
  <2>1. PICK motd \in Motds, key \in SessionKeys,
             roster \in BoundedSeq(Characters, MaxCharacters) :
          r = [fields |-> LoginFields(motd, key, roster),
               of |-> "login", number |-> Len(roster)]
    BY <1>1 DEF LoginReplies, LoginFields
  <2>2. roster \in Seq(Characters)
    BY DEF BoundedSeq, SeqOf
  <2> DEFINE fields == LoginFields(motd, key, roster)
             n == Len(roster)
  <2>3. /\ fields \in Seq(Field) /\ fields[6].value = n % CountWidth
        /\ Listed(Kinds(fields), n)
    BY <2>2, LoginListed
  <2>4. n \in Nat
    BY <2>2
  <2> HIDE DEF fields, n
  <2>5. ASSUME n < CountWidth PROVE Kinds(fields) = ListKinds(fields[6].value)
    <3>1. n % CountWidth = n
      BY <2>4, <2>5, LoginReplyAssumption DEF LoginReplyAssumption
    <3>2. Listed(ListKinds(n), n)
      BY <2>4, ListKindsListed
    <3>3. Kinds(fields) = ListKinds(n)
      BY <2>3, <2>4, <3>2, ListedOnce
    <3> QED BY <2>3, <3>1, <3>3, Zenon
  <2>6. r.fields = fields /\ r.of = "login" /\ r.number = n
    BY <2>1 DEF fields, n
  <2> QED BY <2>3, <2>5, <2>6
<1>2. CASE r \in MessageReplies
  <2>1. PICK len \in Messages :
          r = [fields |-> <<Byte(0), String(len)>>, of |-> "message", number |-> 0]
    BY <1>2 DEF MessageReplies
  <2>2. Byte(0) \in Field /\ String(len) \in Field
    BY LoginReplyAssumption DEF LoginReplyAssumption, Byte, String, Field, Kind
  <2> QED BY <2>1, <2>2
<1>3. CASE r = ScriptReply
  BY <1>3 DEF ScriptReply
<1> QED BY <1>1, <1>2, <1>3 DEF Replies

\* The invariant holds when a reply is about to be written.
Fresh == /\ IInv /\ ~sent /\ length = 0
         /\ reply \in Replies /\ todo = reply.fields /\ written = <<>>

\* A reply of which nothing is written satisfies the invariant.
LEMMA FreshReply == Fresh => ReplyInv
<1> SUFFICES ASSUME Fresh PROVE ReplyInv
  OBVIOUS
<1> USE DEF Fresh
<1>1. reply.fields \in Seq(Field)
  BY RepliesAreFields
<1>2. Considered = 0
  BY <1>1 DEF Considered
<1>3. RoomOf(reply.fields)[0] = 0
  BY <1>1, RoomSteps
<1>4. Whole
  BY <1>2, <1>3 DEF Whole
<1>5. \A i \in 1 .. Len(todo) : todo[i] = reply.fields[Considered + i]
  BY <1>1, <1>2
<1> QED BY <1>1, <1>4, <1>5 DEF ReplyInv

\* The first reply does.
LEMMA ReplyInvInit == ReplyInit => ReplyInv
<1> SUFFICES ASSUME ReplyInit PROVE ReplyInv
  OBVIOUS
<1>1. ~sent /\ length = 0
  BY DEF ReplyInit, Init
<1> QED BY <1>1, IInvInit, FreshReply DEF ReplyInit, Fresh

\* The next field is the one behind those considered.
LEMMA HeadIsNext ==
  ASSUME ReplyInv, todo # <<>>
  PROVE  /\ Considered \in Nat /\ Considered + 1 \in 1 .. Len(reply.fields)
         /\ Head(todo) = reply.fields[Considered + 1] /\ Head(todo) \in Field
         /\ Tail(todo) \in Seq(Field) /\ Len(Tail(todo)) = Len(todo) - 1
         /\ \A i \in 1 .. Len(Tail(todo)) : Tail(todo)[i] = reply.fields[Considered + 1 + i]
<1>1. todo \in Seq(Field) /\ Len(todo) \in Nat /\ Len(todo) # 0
  BY DEF ReplyInv
<1>2. reply.fields \in Seq(Field) /\ Len(reply.fields) \in Nat
  BY RepliesAreFields DEF ReplyInv
<1>3. Len(todo) <= Len(reply.fields) /\ Considered = Len(reply.fields) - Len(todo)
  BY DEF ReplyInv, Considered
<1>4. Considered \in Nat /\ Considered + 1 \in 1 .. Len(reply.fields)
  BY <1>1, <1>2, <1>3
<1>5. /\ Head(todo) = todo[1] /\ Tail(todo) \in Seq(Field) /\ Len(Tail(todo)) = Len(todo) - 1
      /\ \A i \in 1 .. Len(Tail(todo)) : Tail(todo)[i] = todo[i + 1]
  BY <1>1
<1>6. \A i \in 1 .. Len(todo) : todo[i] = reply.fields[Considered + i]
  BY DEF ReplyInv
<1>7. ASSUME NEW i \in 1 .. Len(Tail(todo)) PROVE Tail(todo)[i] = reply.fields[Considered + 1 + i]
  <2>1. i + 1 \in 1 .. Len(todo) /\ Considered + (i + 1) = Considered + 1 + i
    BY <1>1, <1>4, <1>5
  <2> QED BY <1>5, <1>6, <2>1
<1> QED BY <1>1, <1>2, <1>4, <1>5, <1>6, <1>7

\* A field that is taken keeps the reply whole.
LEMMA TakenKeeps ==
  ASSUME ReplyInv, WriteField, Takes(Head(todo)), Put(Head(todo)),
         written' = Append(written, Head(todo))
  PROVE  ReplyInv'
<1> DEFINE field == Head(todo)
           k == Considered
<1>0. todo # <<>> /\ todo' = Tail(todo) /\ reply' = reply
  BY DEF WriteField
<1>1. /\ k \in Nat /\ k + 1 \in 1 .. Len(reply.fields)
      /\ field = reply.fields[k + 1] /\ field \in Field
      /\ todo' \in Seq(Field) /\ Len(todo') = Len(todo) - 1
      /\ \A i \in 1 .. Len(todo') : todo'[i] = reply.fields[k + 1 + i]
  BY <1>0, HeadIsNext
<1>2. /\ field.size \in Nat /\ reply \in Replies /\ reply.fields \in Seq(Field)
      /\ written \in Seq(Field) /\ IInv /\ Len(todo) <= Len(reply.fields)
      /\ Len(todo) \in Nat /\ Len(reply.fields) \in Nat
  <2>1. field.size \in Nat
    BY <1>1 DEF Field
  <2>2. reply \in Replies /\ todo \in Seq(Field) /\ written \in Seq(Field) /\ IInv
    BY DEF ReplyInv
  <2>3. reply.fields \in Seq(Field)
    BY <2>2, RepliesAreFields
  <2>4. Len(todo) <= Len(reply.fields)
    BY DEF ReplyInv
  <2> QED BY <2>1, <2>2, <2>3, <2>4
<1>3. IInv' /\ sent' = sent /\ ~sent /\ inner' = inner
  BY <1>2, AddKeeps, AddStringKeeps DEF Put, Add, AddString, Extend
<1>4. length' = length + SizeOf(field)
  <2>1. length \in Nat
    BY <1>2 DEF IInv
  <2>2. CASE field.kind = "string"
    BY <1>2, <2>1, <2>2 DEF Put, AddString, Extend, SizeOf
  <2>3. CASE field.kind # "string"
    BY <1>2, <2>1, <2>3 DEF Put, Add, Extend, SizeOf
  <2> QED BY <2>2, <2>3
<1>5. ShortEnough(field)
  BY DEF Takes, ShortEnough
<1>6. Considered' = k + 1
  BY <1>0, <1>1, <1>2 DEF Considered
<1>7. /\ written' \in Seq(Field) /\ Len(written') = Len(written) + 1
      /\ \A i \in 1 .. Len(written) : written'[i] = written[i]
      /\ written'[Len(written) + 1] = field
  BY <1>1, <1>2
<1>8. RoomOf(reply.fields)[k + 1] = RoomOf(reply.fields)[k] + SizeOf(field)
  <2>1. RoomOf(reply.fields)[k + 1] = RoomOf(reply.fields)[(k + 1) - 1] + SizeOf(reply.fields[k + 1])
    BY <1>1, <1>2, RoomSteps
  <2>2. (k + 1) - 1 = k
    BY <1>1
  <2> QED BY <1>1, <2>1, <2>2
<1>9. Whole' \/ Short'
  <2>1. CASE Whole
    <3>1. Len(written) = k
      BY <2>1 DEF Whole
    <3>2. \A i \in 1 .. k : /\ written[i] = reply.fields[i]
                           /\ ShortEnough(reply.fields[i])
      BY <2>1 DEF Whole
    <3>3. ASSUME NEW i \in 1 .. k + 1
          PROVE  /\ written'[i] = reply.fields[i]
                 /\ ShortEnough(reply.fields[i])
      <4>1. CASE i = k + 1
        <5>1. written'[k + 1] = field
          BY <1>7, <3>1
        <5>2. written'[k + 1] = reply.fields[k + 1]
          BY <1>1, <5>1
        <5>3. ShortEnough(reply.fields[k + 1])
          BY <1>1, <1>5
        <5> HIDE DEF k
        <5> QED BY <4>1, <5>2, <5>3, Zenon
      <4>2. CASE i \in 1 .. k
        <5>1. written'[i] = written[i]
          BY <1>7, <3>1, <4>2
        <5>2. /\ written[i] = reply.fields[i]
              /\ ShortEnough(reply.fields[i])
          BY <3>2, <4>2
        <5> QED BY <5>1, <5>2, Zenon
      <4>3. i = k + 1 \/ i \in 1 .. k
        BY <1>1
      <4> HIDE DEF k
      <4> QED BY <4>1, <4>2, <4>3, Zenon
    <3>4. reply.of # "script" => length' = RoomOf(reply.fields)[k + 1]
      BY <1>3, <1>4, <1>8, <2>1 DEF Whole
    <3>5. Len(written') = k + 1
      BY <1>7, <3>1
    <3> HIDE DEF k
    <3> QED BY <1>0, <1>3, <1>6, <3>3, <3>4, <3>5 DEF Whole
  <2>2. CASE Short
    <3>1. Fits' <=> Fits
      BY <1>0 DEF Fits
    <3>2. Len(written) < k /\ ~Fits /\ Len(written) \in Nat
      BY <1>2, <2>2 DEF Short
    <3>3. Len(written') < k + 1
      BY <1>1, <1>7, <3>2
    <3> QED BY <1>6, <3>1, <3>2, <3>3 DEF Short
  <2> QED BY <2>1, <2>2 DEF ReplyInv
<1>10. ASSUME NEW i \in 1 .. Len(todo') PROVE todo'[i] = reply'.fields[Considered' + i]
  BY <1>0, <1>1, <1>6
<1>11. Len(todo') <= Len(reply'.fields)
  BY <1>0, <1>1, <1>2
<1> QED BY <1>0, <1>1, <1>2, <1>3, <1>7, <1>9, <1>10, <1>11 DEF ReplyInv

\* A field that is left out does not fit, and with it the reply does not.
LEMMA RefusedDoesNotFit ==
  ASSUME ReplyInv, ~sent, reply.of # "script", Whole, todo # <<>>, ~Takes(Head(todo))
  PROVE  ~Fits
<1> DEFINE field == Head(todo)
           k == Considered
           N == Len(reply.fields)
<1>1. k \in Nat /\ k + 1 \in 1 .. N /\ field = reply.fields[k + 1] /\ field \in Field
  BY HeadIsNext
<1>2. reply.fields \in Seq(Field) /\ N \in Nat /\ field.size \in Nat
  <2>1. field.size \in Nat
    BY <1>1 DEF Field
  <2>2. reply.fields \in Seq(Field)
    BY RepliesAreFields DEF ReplyInv
  <2> QED BY <2>1, <2>2
<1>3. CASE field.kind = "string" /\ ~(field.size <= MaxString)
  BY <1>1, <1>2, <1>3 DEF Fits
<1>4. CASE ~CanAdd(SizeOf(field))
  <2>1. position = InitialPosition + length /\ length \in Nat
    BY DEF ReplyInv, IInv, Filling
  <2>2. SizeOf(field) \in Nat
    BY <1>1, SizeType
  <2>3. MaxBody \in Nat /\ InitialPosition \in Nat
    BY OutputMessageAssumption DEF OutputMessageAssumption, MaxBody, InitialPosition
  <2>4. ~(length + SizeOf(field) < MaxBody - InitialPosition)
    BY <1>4, <2>1, <2>2, <2>3 DEF CanAdd
  <2>5. RoomOf(reply.fields)[k + 1] = length + SizeOf(field)
    <3>1. RoomOf(reply.fields)[k + 1]
            = RoomOf(reply.fields)[(k + 1) - 1] + SizeOf(reply.fields[k + 1])
      BY <1>1, <1>2, RoomSteps
    <3>2. (k + 1) - 1 = k
      BY <1>1
    <3>3. RoomOf(reply.fields)[k] = length
      BY DEF Whole
    <3> QED BY <1>1, <3>1, <3>2, <3>3
  <2>6. RoomOf(reply.fields)[k + 1] <= RoomOf(reply.fields)[N]
    <3>1. k + 1 \in 0 .. N /\ N \in k + 1 .. N
      BY <1>1, <1>2
    <3> QED BY <1>2, <3>1, RoomGrows
  <2>7. RoomOf(reply.fields)[N] \in Nat
    BY <1>2, RoomType
  <2>8. ~(RoomOf(reply.fields)[N] < MaxBody - InitialPosition)
    BY <2>1, <2>2, <2>3, <2>4, <2>5, <2>6, <2>7
  <2> QED BY <2>8 DEF Fits
<1>5. field.kind = "string" => SizeOf(field) = field.size + 2
  BY DEF SizeOf
<1>6. field.kind # "string" => SizeOf(field) = field.size
  BY <1>2 DEF SizeOf
<1> QED BY <1>3, <1>4, <1>5, <1>6 DEF Takes

\* A field that is left out makes the reply short.
LEMMA RefusedKeeps ==
  ASSUME ReplyInv, WriteField, ~Takes(Head(todo)), UNCHANGED <<vars, written>>
  PROVE  ReplyInv'
<1> DEFINE k == Considered
<1>0. todo # <<>> /\ todo' = Tail(todo) /\ reply' = reply /\ written' = written
  BY DEF WriteField
<1>1. /\ k \in Nat /\ k + 1 \in 1 .. Len(reply.fields)
      /\ todo' \in Seq(Field) /\ Len(todo') = Len(todo) - 1
      /\ \A i \in 1 .. Len(todo') : todo'[i] = reply.fields[k + 1 + i]
  BY <1>0, HeadIsNext
<1>2. /\ reply \in Replies /\ reply.fields \in Seq(Field)
      /\ written \in Seq(Field) /\ Len(written) \in Nat /\ Len(todo) <= Len(reply.fields)
      /\ Len(todo) \in Nat /\ Len(reply.fields) \in Nat
  BY RepliesAreFields DEF ReplyInv
<1>3. IInv' /\ sent' = sent
  BY DEF vars, ReplyInv, IInv, Filling, Framed
<1>4. ~sent
  BY <1>0 DEF ReplyInv
<1>5. Considered' = k + 1
  BY <1>0, <1>1, <1>2 DEF Considered
<1>6. reply.of # "script"
  BY <1>1, RepliesAreFields DEF ReplyInv
<1>7. Fits' <=> Fits
  BY <1>0 DEF Fits
<1>8. Short'
  <2>1. CASE Whole
    <3>1. ~Fits
      BY <1>0, <1>4, <1>6, <2>1, RefusedDoesNotFit
    <3>2. Len(written) = k
      BY <2>1 DEF Whole
    <3>3. Len(written') < Considered'
      BY <1>0, <1>1, <1>5, <3>2
    <3> QED BY <1>7, <3>1, <3>3 DEF Short
  <2>2. CASE Short
    <3>1. Len(written) < k /\ ~Fits
      BY <2>2 DEF Short
    <3>2. Len(written') < Considered'
      BY <1>0, <1>1, <1>2, <1>5, <3>1
    <3> QED BY <1>7, <3>1, <3>2 DEF Short
  <2> QED BY <2>1, <2>2 DEF ReplyInv
<1>9. ASSUME NEW i \in 1 .. Len(todo') PROVE todo'[i] = reply'.fields[Considered' + i]
  BY <1>0, <1>1, <1>5
<1>10. Len(todo') <= Len(reply'.fields)
  BY <1>0, <1>1, <1>2
<1> QED BY <1>0, <1>1, <1>2, <1>3, <1>4, <1>8, <1>9, <1>10 DEF ReplyInv

\* Every step keeps the invariant.
LEMMA ReplyInvNext == ReplyInv /\ [ReplyNext]_<<vars, replyVars>> => ReplyInv'
<1> SUFFICES ASSUME ReplyInv, [ReplyNext]_<<vars, replyVars>> PROVE ReplyInv'
  OBVIOUS
<1>1. CASE WriteField
  BY <1>1, TakenKeeps, RefusedKeeps DEF WriteField
<1>2. CASE ScriptWrites
  <2>1. reply.of = "script" /\ UNCHANGED replyVars
    BY <1>2 DEF ScriptWrites
  <2>2. IInv' /\ ~sent /\ ~sent'
    <3>1. Scalars \subseteq Nat /\ Strings \subseteq Nat
      BY OutputMessageAssumption DEF OutputMessageAssumption
    <3>2. ASSUME NEW size \in Scalars, Add(size) PROVE IInv' /\ ~sent /\ ~sent'
      BY <3>1, <3>2, AddKeeps DEF ReplyInv, Add, Extend
    <3>3. ASSUME NEW size \in Strings, AddString(size) PROVE IInv' /\ ~sent /\ ~sent'
      BY <3>1, <3>3, AddStringKeeps DEF ReplyInv, AddString, Extend
    <3> QED BY <1>2, <3>2, <3>3 DEF ScriptWrites
  <2> QED BY <2>1, <2>2 DEF replyVars, ReplyInv, Considered, Whole, Short, Fits
<1>3. CASE Send
  <2>1. /\ todo = <<>> /\ UNCHANGED replyVars /\ EncryptMessage
        /\ ~sent /\ sent' /\ inner' = length
    BY <1>3 DEF Send, EncryptMessage
  <2>2. IInv'
    BY <2>1, EncryptKeeps DEF ReplyInv
  <2> QED BY <2>1, <2>2 DEF replyVars, ReplyInv, Considered, Whole, Short, Fits
<1>4. CASE NextReply
  <2>1. IInv' /\ ~sent' /\ length' = 0
    BY <1>4, NextMessageKeeps DEF ReplyInv, NextReply, NextMessage
  <2>2. reply' \in Replies /\ todo' = reply'.fields /\ written' = <<>>
    BY <1>4 DEF NextReply
  <2>3. Fresh' => ReplyInv'
    BY FreshReply, PTL
  <2> QED BY <2>1, <2>2, <2>3 DEF Fresh
<1>5. CASE UNCHANGED <<vars, replyVars>>
  BY <1>5 DEF vars, replyVars, ReplyInv, IInv, Filling, Framed, Considered, Whole, Short, Fits
<1> QED BY <1>1, <1>2, <1>3, <1>4, <1>5 DEF ReplyNext

\* Every reachable state of LoginReply satisfies the invariant.
THEOREM ReplyInvariance == ReplySpec => []ReplyInv
BY ReplyInvInit, ReplyInvNext, PTL DEF ReplySpec

\* The buffer holds every message of a Protocol, written field by field, and it
\* is framed as a client expects, whatever the fields (encryptMessage).
THEOREM RepliesAreFramed ==
  ReplySpec => [](TypeOK /\ CipherInBuffer /\ FrameIsComplete /\ OnlyFullIsUnpadded)
<1>1. ReplyInv => TypeOK /\ CipherInBuffer /\ FrameIsComplete /\ OnlyFullIsUnpadded
  BY CursorsInside, CipherInside, FramedWhole DEF ReplyInv
<1> QED BY <1>1, ReplyInvariance, PTL

\* When all fields are considered, all are written or the reply does not fit.
LEMMA WholeIffFits ==
  ASSUME ReplyInv, sent, reply.of # "script"
  PROVE  written = reply.fields <=> Fits
<1> DEFINE N == Len(reply.fields)
<1>1. /\ reply.fields \in Seq(Field) /\ written \in Seq(Field) /\ todo = <<>>
      /\ N \in Nat /\ Len(written) \in Nat
  BY RepliesAreFields DEF ReplyInv
<1>2. Considered = N
  BY <1>1 DEF Considered
<1>3. CASE Whole
  <2>1. /\ Len(written) = N /\ inner = RoomOf(reply.fields)[N]
        /\ \A i \in 1 .. N : /\ written[i] = reply.fields[i]
                            /\ ShortEnough(reply.fields[i])
    BY <1>2, <1>3 DEF Whole
  <2>2. written = reply.fields
    BY <1>1, <2>1
  <2>3. RoomOf(reply.fields)[N] < MaxBody - InitialPosition
    <3>1. inner \in Nat /\ InitialPosition + inner < MaxBody
      BY DEF ReplyInv, IInv, Framed
    <3>2. MaxBody \in Nat /\ InitialPosition \in Nat
      BY OutputMessageAssumption DEF OutputMessageAssumption, MaxBody, InitialPosition
    <3>3. inner < MaxBody - InitialPosition
      BY <3>1, <3>2
    <3> QED BY <2>1, <3>3
  <2>4. \A i \in DOMAIN reply.fields : ShortEnough(reply.fields[i])
    BY <1>1, <2>1
  <2> QED BY <2>2, <2>3, <2>4 DEF Fits, ShortEnough
<1>4. CASE Short
  <2>1. Len(written) < N /\ ~Fits
    BY <1>2, <1>4 DEF Short
  <2> QED BY <1>1, <2>1
<1> QED BY <1>3, <1>4 DEF ReplyInv

\* A reply is sent whole if it fits, and only then: each field alone is measured
\* by canAdd, and together that is right (Protocol's add functions).
THEOREM SentWholeIffFits == ReplySpec => []CompleteIffFits
<1>1. ReplyInv => CompleteIffFits
  BY WholeIffFits DEF CompleteIffFits
<1> QED BY <1>1, ReplyInvariance, PTL

\* The list of characters is read back by the number in front of it, for any
\* account whose list fits and whose number fits in its byte (addCharacterList).
THEOREM ListsReadBack == ReplySpec => []ListReadsBack
<1>1. ReplyInv => ListReadsBack
  <2> SUFFICES ASSUME ReplyInv, sent, reply.of = "login", Fits, reply.number < CountWidth
               PROVE  ReadsBack
    BY DEF ListReadsBack
  <2>1. written = reply.fields
    BY WholeIffFits
  <2>2. Kinds(reply.fields) = ListKinds(reply.fields[6].value)
    BY RepliesAreFields DEF ReplyInv
  <2> QED BY <2>1, <2>2 DEF ReadsBack, Announced
<1> QED BY <1>1, ReplyInvariance, PTL

-----------------------------------------------------------------------------
(* AccountQuery *)

\* An id that was read is the asked account's, or nothing.
IdInv ==
  /\ step \in {"idle", "info"} => id = None
  /\ id # None => asked # None /\ id = asked

\* The list is what has been read of the rows, and in the end all of them.
ListInv ==
  /\ Len(characters) = index
  /\ \A i \in 1 .. index : characters[i] = rows[i]
  /\ step \in {"check", "accepted", "refused"} => index = Len(rows)

\* The rows are the account's characters, each once.
RowsInv ==
  /\ step \in {"idle", "info", "list"} => rows = <<>> /\ owned = {}
  /\ id # None =>
       /\ \A i \in 1 .. Len(rows) : rows[i] \in owned
       /\ \A c \in owned : \E i \in 1 .. Len(rows) : rows[i] = c
       /\ \A i, j \in 1 .. Len(rows) : rows[i] = rows[j] => i = j

QueryInv == /\ QueryTypeOK /\ IdInv /\ ListInv /\ RowsInv
            /\ step = "accepted" => id # None

\* What MySQL gives for a set of characters is a sequence of them, with each
\* once.
LEMMA ListingsAreSequences ==
  ASSUME NEW S \in SUBSET Character, NEW r \in Listings(S)
  PROVE  /\ r \in Seq(Character)
         /\ \A i \in 1 .. Len(r) : r[i] \in S
         /\ \A c \in S : \E i \in 1 .. Len(r) : r[i] = c
         /\ \A i, j \in 1 .. Len(r) : r[i] = r[j] => i = j
<1> DEFINE n == Cardinality(S)
<1>1. n \in Nat
  BY FS_Subset, FS_CardinalityType, AccountQueryAssumption DEF AccountQueryAssumption
<1>2. /\ r \in [1 .. n -> S]
      /\ \A c \in S : \E i \in 1 .. n : r[i] = c
      /\ \A i, j \in 1 .. n : r[i] = r[j] => i = j
  BY DEF Listings
<1> HIDE DEF n
<1>3. r \in Seq(Character) /\ Len(r) = n
  BY <1>1, <1>2
<1> QED BY <1>2, <1>3

\* Reading a number gives the number or nothing.
LEMMA NumberIsExact ==
  ASSUME NEW n \in Nat
  PROVE  Number(n) \in 0 .. MaxNumber /\ Number(n) \in {n, None}
BY AccountQueryAssumption DEF AccountQueryAssumption, Number, None

\* The invariant holds at the start.
LEMMA QueryInvInit == QueryInit => QueryInv
BY AccountQueryAssumption
   DEF AccountQueryAssumption, QueryInit, QueryInv, QueryTypeOK, IdInv, ListInv, RowsInv, Owner, None

\* Every step keeps the invariant.
LEMMA QueryInvNext == QueryInv /\ [QueryNext]_queryVars => QueryInv'
<1> SUFFICES ASSUME QueryInv, [QueryNext]_queryVars PROVE QueryInv'
  OBVIOUS
<1> USE DEF QueryInv
<1>1. CASE Ask
  BY <1>1, AccountQueryAssumption
     DEF AccountQueryAssumption, Ask, QueryTypeOK, IdInv, ListInv, RowsInv, Owner, None
<1>2. CASE NoAccountInfo
  BY <1>2 DEF NoAccountInfo, QueryTypeOK, IdInv, ListInv, RowsInv
<1>3. CASE AccountInfo
  <2>1. asked \in Nat /\ asked # None
    BY <1>3, AccountQueryAssumption DEF AccountQueryAssumption, AccountInfo, QueryTypeOK, Owner, None
  <2>2. id' \in 0 .. MaxNumber /\ id' \in {asked, None}
    BY <1>3, <2>1, NumberIsExact DEF AccountInfo
  <2> QED BY <1>3, <2>1, <2>2 DEF AccountInfo, QueryTypeOK, IdInv, ListInv, RowsInv
<1>4. CASE GetCharacterList
  <2>1. /\ rows' \in Seq(Character)
        /\ \A i \in 1 .. Len(rows') : rows'[i] \in CharactersOf(id)
        /\ \A c \in CharactersOf(id) : \E i \in 1 .. Len(rows') : rows'[i] = c
        /\ \A i, j \in 1 .. Len(rows') : rows'[i] = rows'[j] => i = j
    <3>1. CharactersOf(id) \in SUBSET Character
      BY DEF CharactersOf
    <3> QED BY <1>4, <3>1, ListingsAreSequences DEF GetCharacterList
  <2>2. id # None => owned' = CharactersOf(id)
    BY <1>4 DEF GetCharacterList, IdInv
  <2>3. index = 0
    BY <1>4 DEF GetCharacterList, QueryTypeOK, RowsInv
  <2>4. QueryTypeOK'
    BY <1>4, <2>1, <2>3 DEF GetCharacterList, QueryTypeOK, CharactersOf
  <2>5. ListInv'
    BY <1>4, <2>3 DEF GetCharacterList, ListInv
  <2>6. RowsInv'
    BY <1>4, <2>1, <2>2 DEF GetCharacterList, RowsInv
  <2> QED BY <1>4, <2>4, <2>5, <2>6 DEF GetCharacterList, IdInv
<1>5. CASE GetCharacterListFails
  BY <1>5 DEF GetCharacterListFails, QueryTypeOK, IdInv, ListInv, RowsInv
<1>6. CASE ReadCharacter
  <2>1. index + 1 \in 1 .. Len(rows) /\ rows[index + 1] \in Character
    BY <1>6 DEF ReadCharacter, HasNext, QueryTypeOK
  <2>2. QueryTypeOK'
    BY <1>6, <2>1 DEF ReadCharacter, QueryTypeOK
  <2>3. ListInv'
    BY <1>6, <2>1 DEF ReadCharacter, ListInv, QueryTypeOK
  <2> QED BY <1>6, <2>2, <2>3 DEF ReadCharacter, IdInv, RowsInv
<1>7. CASE ListEnds
  BY <1>7 DEF ListEnds, HasNext, QueryTypeOK, IdInv, ListInv, RowsInv
<1>8. CASE Check
  BY <1>8 DEF Check, QueryTypeOK, IdInv, ListInv, RowsInv
<1>9. CASE CharacterMoves
  BY <1>9 DEF CharacterMoves, QueryTypeOK, IdInv, ListInv, RowsInv
<1>10. CASE UNCHANGED queryVars
  BY <1>10 DEF queryVars, QueryTypeOK, IdInv, ListInv, RowsInv
<1> QED
  BY <1>1, <1>2, <1>3, <1>4, <1>5, <1>6, <1>7, <1>8, <1>9, <1>10 DEF QueryNext, GetAccount

\* Every reachable state satisfies the invariant.
THEOREM QueryInvariance == QuerySpec => []QueryInv
BY QueryInvInit, QueryInvNext, PTL DEF QuerySpec

\* The cursor never passes the rows and every number keeps its width
\* (DBResult::hasNext, getNumber).
THEOREM QueryTypeCorrect == QuerySpec => []QueryTypeOK
<1>1. QueryInv => QueryTypeOK
  BY DEF QueryInv
<1> QED BY <1>1, QueryInvariance, PTL

\* Who is accepted is accepted as the account whose password was given
\* (getAccount's narrowed id, authenticate's check).
THEOREM AcceptedAsAsked == QuerySpec => []AcceptedIsAsked
<1>1. QueryInv => AcceptedIsAsked
  BY DEF QueryInv, IdInv, AcceptedIsAsked
<1> QED BY <1>1, QueryInvariance, PTL

\* Who is accepted gets the characters of its account at one moment, each once
\* (getCharacterList's loop over DBResult).
THEOREM ListsOwn == QuerySpec => []ListIsOwn
<1>1. QueryInv => ListIsOwn
  <2> SUFFICES ASSUME QueryInv, step = "accepted" PROVE ListIsOwn
    BY DEF ListIsOwn
  <2>1. /\ Len(characters) = Len(rows)
        /\ \A i \in 1 .. Len(rows) : characters[i] = rows[i]
    BY DEF QueryInv, ListInv
  <2> QED BY <2>1 DEF QueryInv, RowsInv, ListIsOwn
<1> QED BY <1>1, QueryInvariance, PTL
=============================================================================
