----------------------------- MODULE LoginReply -----------------------------
(***************************************************************************)
(* What the messages of a Protocol say: the answer to a login, with the      *)
(* message of the day, the session key and the list of characters, and the   *)
(* messages of sendError and sendLoadingMessage.  Each is written field by    *)
(* field into an OutputMessage, whose add functions leave out, without a      *)
(* word, what there is no room for; then it is framed and sent.  Scripts      *)
(* write messages of their own, field by field as they like.                 *)
(***************************************************************************)
EXTENDS OutputMessage, SequencesExt

(* A definition whose comment begins with "Mutant" is not part of the model:  *)
(* it is the definition after it with a slip that is easy to make in the     *)
(* code, and is there to see a property fail.                                 *)

CONSTANTS Motds,          \* lengths of the message of the day, with its number
          SessionKeys,    \* lengths of email, password and ticks together
          Characters,     \* characters: [name, instanceName, instanceId: length]
          MaxCharacters,  \* bound: characters of an account
          CountWidth,     \* values of the byte that holds their number
          Messages        \* lengths of an error or a loading message

ASSUME LoginReplyAssumption ==
  /\ Motds \subseteq Nat /\ SessionKeys \subseteq Nat /\ Messages \subseteq Nat
  /\ Characters \subseteq [name: Nat, instanceName: Nat, instanceId: Nat]
  /\ MaxCharacters \in Nat
  /\ CountWidth \in Nat \ {0}

VARIABLES reply,    \* all the fields there are to write, and what for
          todo,     \* those that are still to come
          written   \* those that were written

replyVars == <<reply, todo, written>>

Byte(value)    == [kind |-> "byte", size |-> 1, value |-> value]
Uint16         == [kind |-> "uint16", size |-> 2, value |-> 0]
Uint32         == [kind |-> "uint32", size |-> 4, value |-> 0]
String(len)    == [kind |-> "string", size |-> len, value |-> 0]

\* addMOTD and addSessionKey: an opcode and a string.
MOTD(motd)      == <<Byte(0), String(motd)>>
SessionKey(key) == <<Byte(0), String(key)>>

\* Mutant: a character without an instance has no instance id.
CharacterFieldsSparse(c) == <<String(c.name), String(c.instanceName)>>
                            \o (IF c.instanceId = 0 THEN <<>> ELSE <<String(c.instanceId)>>)
                            \o <<Uint16, Byte(0)>>

CharacterFields(c) == <<String(c.name), String(c.instanceName), String(c.instanceId),
                        Uint16, Byte(0)>>

CountByte(characters) == Byte(Len(characters) % CountWidth)

\* addCharacterList: the number of characters, each of them, and the premium days.
CharacterList(characters) ==
  <<Byte(0), CountByte(characters)>>
  \o FlattenSeq([i \in DOMAIN characters |-> CharacterFields(characters[i])])
  \o <<Byte(0), Byte(0), Uint32>>

\* What Protocol::authenticate sends to a client that it accepts.
LoginReplies ==
  {[fields |-> MOTD(motd) \o SessionKey(key) \o CharacterList(characters),
    of |-> "login", number |-> Len(characters)] :
     motd \in Motds, key \in SessionKeys,
     characters \in BoundedSeq(Characters, MaxCharacters)}

\* sendError, sendLoadingMessage.
MessageReplies ==
  {[fields |-> <<Byte(0), String(len)>>, of |-> "message", number |-> 0] : len \in Messages}

\* OutputMessage() in a script, which then writes what it likes.
ScriptReply == [fields |-> <<>>, of |-> "script", number |-> 0]

Replies == LoginReplies \cup MessageReplies \cup {ScriptReply}

ReplyInit == /\ Init
             /\ reply \in Replies
             /\ todo = reply.fields /\ written = <<>>

\* Mutant: canAdd compares with MAX_PROTOCOL_BODY_LENGTH.
TakesProtocol(field) == IF field.kind = "string"
                        THEN CanAdd(field.size + 2 + 10) /\ field.size <= MaxString
                        ELSE CanAdd(field.size + 10)

\* Whether addByte, add or addString writes the field.
Takes(field) == IF field.kind = "string"
                THEN CanAdd(field.size + 2) /\ field.size <= MaxString
                ELSE CanAdd(field.size)

Put(field) == IF field.kind = "string" THEN AddString(field.size) ELSE Add(field.size)

WriteField == /\ todo # <<>>
              /\ todo' = Tail(todo)
              /\ \/ /\ Takes(Head(todo))
                    /\ Put(Head(todo))
                    /\ written' = Append(written, Head(todo))
                 \/ /\ ~Takes(Head(todo))
                    /\ UNCHANGED <<vars, written>>
              /\ UNCHANGED reply

ScriptWrites == /\ reply.of = "script"
                /\ \/ \E size \in Scalars : Add(size)
                   \/ \E size \in Strings : AddString(size)
                /\ UNCHANGED replyVars

Send == /\ todo = <<>>
        /\ EncryptMessage
        /\ UNCHANGED replyVars

\* The next one is another OutputMessage.
NextReply == /\ NextMessage
             /\ reply' \in Replies
             /\ todo' = reply'.fields /\ written' = <<>>

ReplyNext == WriteField \/ ScriptWrites \/ Send \/ NextReply

ReplySpec == ReplyInit /\ [][ReplyNext]_<<vars, replyVars>>

-----------------------------------------------------------------------------
(* Properties *)

SizeOf(field) == field.size + (IF field.kind = "string" THEN 2 ELSE 0)

\* The room that the first n of some fields take.
RoomOf(fields) ==
  LET room[n \in 0 .. Len(fields)] == IF n = 0 THEN 0 ELSE room[n - 1] + SizeOf(fields[n])
  IN  room

\* Whether the whole reply fits, which no single check of the code sums up.
Fits == /\ \A i \in DOMAIN reply.fields : reply.fields[i].kind = "string"
                                     => reply.fields[i].size <= MaxString
        /\ RoomOf(reply.fields)[Len(reply.fields)] < MaxBody - InitialPosition

\* A reply is sent whole if all of it fits, and only then: no field is refused
\* early, and one that is left out is a field that had no room (addString).
CompleteIffFits == sent /\ reply.of # "script" => (written = reply.fields <=> Fits)

\* What a client finds after the number of characters, if it believes it.
Kinds(fields) == [i \in DOMAIN fields |-> fields[i].kind]

ListKinds(number) ==
  <<"byte", "string", "byte", "string", "byte", "byte">>
  \o FlattenSeq([i \in 1 .. number |-> <<"string", "string", "string", "uint16", "byte">>])
  \o <<"byte", "byte", "uint32">>

Announced == written[6].value

ReadsBack == Kinds(written) = ListKinds(Announced)

\* The answer to a login can be read back by the number of characters it
\* announces, as long as it fits and the number fits in a byte (addCharacterList).
ListReadsBack == sent /\ reply.of = "login" /\ Fits /\ reply.number < CountWidth => ReadsBack
=============================================================================
