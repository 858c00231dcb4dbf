--------------------------- MODULE OutputMessage ---------------------------
(***************************************************************************)
(* How an OutputMessage is filled and framed: the cursor arithmetic of      *)
(* NetworkMessage's add functions, and of Protocol::encryptMessage, which   *)
(* puts a length in front, pads, enciphers in blocks of eight bytes and     *)
(* puts a checksum and the packet's length in front of that.  The bytes are *)
(* left out; the cursors and lengths are the code's.  Every message is      *)
(* built afresh and sent once, as all callers of send do.                   *)
(***************************************************************************)
EXTENDS Naturals

(* A definition whose comment begins with "Mutant" is not part of the model:  *)
(* it is the definition after it with a slip that is easy to make in the     *)
(* code, and is there to see a property fail.                                 *)

CONSTANTS MaxSize,    \* NETWORKMESSAGE_MAXSIZE
          MaxString,  \* the longest string addString takes
          Scalars,    \* sizes of the integers that are added
          Strings     \* lengths of the strings that are added

ASSUME OutputMessageAssumption ==
  /\ MaxSize \in Nat /\ MaxSize >= 32 /\ MaxSize < 65536   \* MsgSize_t is 16 bits
  /\ MaxSize % 8 = 6
  /\ MaxString \in Nat
  /\ Scalars \subseteq 1 .. 8
  /\ Strings \subseteq Nat

InitialPosition == 8      \* INITIAL_BUFFER_POSITION
MaxBody == MaxSize - 14   \* MAX_BODY_LENGTH

VARIABLES length,      \* m_info.length
          position,    \* m_info.position
          start,       \* m_outputBufferStart
          inner,       \* the length written in front of the body
          enciphered,  \* bytes of the message when XTEA::encrypt ran its loop
          outer,       \* the length written in front of the packet
          sent         \* encryptMessage has run

vars == <<length, position, start, inner, enciphered, outer, sent>>

Init == /\ length = 0
        /\ position = InitialPosition
        /\ start = InitialPosition
        /\ inner = 0 /\ enciphered = 0 /\ outer = 0
        /\ sent = FALSE

CanAdd(size) == size + position < MaxBody

Extend(size) == /\ length' = length + size
                /\ position' = position + size
                /\ UNCHANGED <<start, inner, enciphered, outer, sent>>

\* addByte and add<T>; what does not fit is left out without a word.
Add(size) == /\ ~sent
             /\ CanAdd(size)
             /\ Extend(size)

\* Mutant: addString looks at the string's own limit only.
AddStringUnchecked(size) == /\ ~sent
                            /\ size <= MaxString
                            /\ Extend(size + 2)

\* addString writes a length of two bytes and the characters, or nothing.
AddString(size) == /\ ~sent
                   /\ CanAdd(size + 2)
                   /\ size <= MaxString
                   /\ Extend(size + 2)

\* XTEA::encrypt pads through addPaddingBytes, which refuses what does not fit;
\* padding moves the length and not the position.

PaddingFor(size) == IF size % 8 = 0 THEN 0 ELSE 8 - (size % 8)

Padded(size) == IF CanAdd(PaddingFor(size)) THEN size + PaddingFor(size) ELSE size

\* Mutant: the packet's length is taken before the checksum is in front of it.
OuterLengthEarly(size) == size

\* addCryptoHeader: a checksum, and then the length of all that.
OuterLength(size) == size + 4

\* Protocol::encryptMessage: writeMessageLength, XTEA::encrypt, addCryptoHeader.
EncryptMessage ==
  /\ ~sent
  /\ inner' = length
  /\ enciphered' = Padded(length + 2)
  /\ outer' = OuterLength(enciphered')
  /\ length' = enciphered' + 4 + 2
  /\ start' = start - 2 - 4 - 2
  /\ sent' = TRUE
  /\ UNCHANGED position

\* The next message is another object.
NextMessage ==
  /\ sent
  /\ length' = 0 /\ position' = InitialPosition /\ start' = InitialPosition
  /\ inner' = 0 /\ enciphered' = 0 /\ outer' = 0
  /\ sent' = FALSE

Next == \/ \E size \in Scalars : Add(size)
        \/ \E size \in Strings : AddString(size)
        \/ EncryptMessage
        \/ NextMessage

Spec == Init /\ [][Next]_vars

-----------------------------------------------------------------------------
(* Properties *)

\* Every cursor and length stays inside the buffer, framing included: addString
\* and encryptMessage add several pieces after one check of the room left.
TypeOK == /\ length \in 0 .. MaxSize
          /\ position \in 0 .. MaxSize
          /\ start \in 0 .. InitialPosition
          /\ inner \in 0 .. MaxSize /\ enciphered \in 0 .. MaxSize /\ outer \in 0 .. MaxSize
          /\ sent \in BOOLEAN

\* What XTEA enciphers in place, rounded up to whole blocks, from the inner
\* length on.
CipherEnd == 6 + 8 * ((enciphered + 7) \div 8)

\* Enciphering in whole blocks never leaves the buffer, not even for a message
\* whose padding was refused (XTEA::encrypt has no check of its own).
CipherInBuffer == sent => CipherEnd <= MaxSize

\* The receiver of a packet can find the body: the packet starts at the start
\* of the buffer, its header counts what follows it, and the length in front of
\* the body fits what was enciphered, with less than a block to spare.
FrameIsComplete ==
  sent => /\ start = 0
          /\ length = outer + 2
          /\ inner + 2 <= enciphered /\ enciphered < inner + 2 + 8
          /\ enciphered + 6 = length

\* "The message must be a multiple of 8" (XTEA::encrypt) when it is enciphered.
BlocksAreWhole == sent => enciphered % 8 = 0

\* It is for every message but the longest: the padding is left out only for one
\* filled to the last byte that canAdd allows.
OnlyFullIsUnpadded ==
  sent /\ enciphered % 8 # 0 => inner + InitialPosition = MaxBody - 1
=============================================================================
