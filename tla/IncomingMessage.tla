-------------------------- MODULE IncomingMessage --------------------------
(***************************************************************************)
(* How a Connection's one NetworkMessage is read: parseHeader and           *)
(* parsePacket set its length and its cursor, RSA or XTEA deciphers a part  *)
(* of the buffer in place, and Protocol and the Lua modules read on from    *)
(* there.  The same object serves packet after packet, and its buffer keeps *)
(* the bytes of earlier ones.  The bytes are left out: what a length, a     *)
(* checksum or a deciphered byte says is any value a client can cause.      *)
(***************************************************************************)
EXTENDS Integers

(* A definition whose comment begins with "Mutant" is not part of the model:  *)
(* it is the definition after it with a slip that is easy to make in the     *)
(* code, and is there to see a property fail.                                 *)

CONSTANTS MaxSize,   \* NETWORKMESSAGE_MAXSIZE
          Sizes,     \* what a packet's header may say
          Lengths,   \* what the length in front of a body or a string may say
          Scalars    \* sizes of the integers that are read

ASSUME IncomingMessageAssumption ==
  /\ MaxSize \in Nat /\ MaxSize >= 64 /\ MaxSize < 65536   \* MsgSize_t is 16 bits
  /\ Sizes \subseteq Nat /\ Lengths \subseteq Nat
  /\ Scalars \subseteq 1 .. 8

VARIABLES stage,      \* what is done with the message next
          expects,    \* "login" until m_receivedFirst is set
          length,     \* m_info.length
          position,   \* m_info.position
          received,   \* bytes of the buffer that belong to this packet
          deciphered  \* end of the part deciphered in place, 0 if there is none

messageVars == <<stage, expects, length, position, received, deciphered>>

Stage == {"header", "checksum", "packet", "email", "password",
          "account", "body", "closed"}

MessageInit ==
  /\ stage = "header"
  /\ expects = "login"
  /\ length = 0 /\ position = 8
  /\ received = 0 /\ deciphered = 0

-----------------------------------------------------------------------------
\* NetworkMessage::canRead from a given position
CanReadAt(p, size) == p + size <= length + 8 /\ size < MaxSize - p

\* The position after get<T>(), which reads nothing when it cannot read all.
After(p, size) == IF CanReadAt(p, size) THEN p + size ELSE p

\* The positions after getString(): a length of two bytes and that many
\* characters, if they can be read.
AfterString(p) ==
  LET q == After(p, 2) IN IF q = p THEN {p} ELSE {After(q, n) : n \in Lengths}

CloseReading ==
  /\ stage' = "closed"
  /\ UNCHANGED <<expects, length, position, received, deciphered>>

\* parseHeader or parsePacket is told of an error, or finds itself closed.
ReadFails == stage \in {"header", "checksum"} /\ CloseReading

\* Another client gets another Connection and another message.
NextConnection == stage = "closed" /\ stage' = "header" /\ expects' = "login"
                  /\ length' = 0 /\ position' = 8 /\ received' = 0 /\ deciphered' = 0

-----------------------------------------------------------------------------
(* Connection *)

AcceptsSize(size) == size # 0 /\ size < MaxSize - 16

\* parseHeader; the body follows the header's two bytes.
ParseMessageHeader(size) ==
  /\ stage = "header"
  /\ IF AcceptsSize(size)
     THEN /\ length' = size + 2
          /\ position' = 2
          /\ received' = size + 2
          /\ deciphered' = 0
          /\ stage' = "checksum"
          /\ UNCHANGED expects
     ELSE CloseReading

\* parsePacket reads a checksum and steps back if that is not what it was.
ParseChecksum ==
  /\ stage = "checksum"
  /\ position' \in {After(position, 4), After(position, 4) - 4}
  /\ stage' = "packet"
  /\ UNCHANGED <<expects, length, received, deciphered>>

-----------------------------------------------------------------------------
(* Protocol::authenticate, for the first packet *)

\* Mutant: RSA asks for a packet of 128 bytes and not for 128 more bytes.
HoldsBlockAnywhere(p) == length >= 128

HoldsBlock(p) == length - p >= 128

\* Protocol identifier, system, version, what is skipped, then the RSA block:
\* it is refused unless it is there and its first byte is 0; then the four
\* words of the key are read, and the version may be refused.
AuthenticateMessage ==
  LET p == After(position + 1 + 2, 2) + 17
      q == After(p, 1)
  IN /\ stage = "packet"
     /\ expects = "login"
     /\ expects' = "request"
     /\ \/ /\ ~HoldsBlock(p)
           /\ stage' = "closed" /\ position' = p
           /\ UNCHANGED deciphered
        \/ /\ HoldsBlock(p)
           /\ deciphered' = p + 128
           /\ \/ stage' = "closed" /\ position' = q
              \/ /\ stage' \in {"email", "closed"}
                 /\ position' = After(After(After(After(q, 4), 4), 4), 4)
     /\ UNCHANGED <<length, received>>

\* An empty email or password, or one that cannot be read, is refused.
ReadCredential(now, nexts) ==
  /\ stage = now
  /\ position' \in AfterString(position)
  /\ stage' \in IF position' > After(position, 2) THEN nexts ELSE {"closed"}
  /\ UNCHANGED <<expects, length, received, deciphered>>

\* getAccount is called when both were read.
ReadPassword == ReadCredential("password", {"account"})

\* The client is sent its characters and read on from, or told why not.
EndLogin(next) ==
  /\ stage = "account"
  /\ stage' = next
  /\ UNCHANGED <<expects, length, position, received, deciphered>>

-----------------------------------------------------------------------------
(* Protocol::parsePacket, for the other packets *)

Drop == stage' = "header" /\ UNCHANGED <<expects, received>>

\* Mutant: the body may fill everything behind the checksum.
InnerFitsLoosely(inner) == inner <= length - 6

InnerFits(inner) == inner <= length - 8

\* XTEA::decrypt
Decrypt ==
  /\ stage = "packet"
  /\ expects = "request"
  /\ \/ /\ (length - 6) % 8 # 0
        /\ Drop /\ UNCHANGED <<length, position, deciphered>>
     \/ /\ (length - 6) % 8 = 0
        /\ deciphered' = position + length - 6
        /\ position' = After(position, 2)
        /\ \E inner \in Lengths :
              \/ ~InnerFits(inner) /\ Drop /\ UNCHANGED length
              \/ /\ InnerFits(inner)
                 /\ length' = inner
                 /\ stage' = "body"
                 /\ UNCHANGED <<expects, received>>

\* The opcode, and what the modules read through getU8 ... getString.
ReadBody ==
  /\ stage = "body"
  /\ position' \in {After(position, size) : size \in Scalars} \cup AfterString(position)
  /\ UNCHANGED <<stage, expects, length, received, deciphered>>

BodyDone == stage = "body" /\ Drop /\ UNCHANGED <<length, position, deciphered>>

-----------------------------------------------------------------------------
ReadMessage ==
  \/ \E size \in Sizes : ParseMessageHeader(size)
  \/ ParseChecksum
  \/ AuthenticateMessage
  \/ ReadCredential("email", {"password"})
  \/ Decrypt
  \/ ReadBody
  \/ BodyDone
  \/ ReadFails
  \/ NextConnection

MessageNext == \/ ReadMessage
               \/ ReadPassword
               \/ \E next \in {"header", "closed"} : EndLogin(next)

MessageSpec == MessageInit /\ [][MessageNext]_messageVars

-----------------------------------------------------------------------------
(* Properties *)

\* The cursor never leaves the buffer, in either direction: it moves by
\* unchecked skips, a step back and checked reads, and skips after a read that
\* failed.
MessageTypeOK ==
  /\ stage \in Stage
  /\ expects \in {"login", "request"}
  /\ length \in 0 .. MaxSize
  /\ position \in 0 .. MaxSize
  /\ received \in 0 .. MaxSize
  /\ deciphered \in 0 .. MaxSize

\* RSA and XTEA change bytes of the current packet only, with or without a
\* checksum in front of them.
DecipheredWasReceived == deciphered <= received

\* However many fields a module asks for, a deciphered body yields bytes of the
\* current packet only, never what an earlier packet left in the buffer: the
\* eight bytes canRead allows past the length are covered by what XTEA::decrypt
\* asks of the inner length.
BodyWasReceived == stage = "body" => position <= received
=============================================================================
