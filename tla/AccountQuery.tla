---------------------------- MODULE AccountQuery ----------------------------
(***************************************************************************)
(* Database::getAccount and what authenticate does with it.  One query       *)
(* finds the account for an email and a password, another its characters;    *)
(* each takes the database's lock for itself, and either may fail.  Numbers  *)
(* come as text and are read into 16 bits.  Meanwhile the game servers       *)
(* change the same tables.  A client's email and password are modelled by    *)
(* the account they belong to.                                               *)
(***************************************************************************)
EXTENDS Integers, Sequences, FiniteSets

(* A definition whose comment begins with "Mutant" is not part of the model:  *)
(* it is the definition after it with a slip that is easy to make in the     *)
(* code, and is there to see a property fail.                                 *)

CONSTANTS AccountId,   \* ids of the rows of `accounts`
          Character,   \* rows of `players`
          MaxNumber    \* the largest uint16_t

ASSUME AccountQueryAssumption ==
  /\ AccountId \subseteq Nat \ {0}
  /\ IsFiniteSet(Character)
  /\ MaxNumber \in Nat

None == 0    \* no account, and a number that was not read
Owner == AccountId \cup {None}

VARIABLES
  owner,       \* players.account_id, by character
  step,        \* what getAccount or authenticate does next
  asked,       \* the account whose email and password the client gave, or None
  id,          \* account.id
  characters,  \* account.characters
  rows,        \* DBResult::m_rows of the second query
  index,       \* DBResult::m_index
  owned        \* the characters that asked had when the second query was answered

queryVars == <<owner, step, asked, id, characters, rows, index, owned>>

QueryInit == /\ owner \in [Character -> Owner]
             /\ step = "idle"
             /\ asked = None
             /\ id = None /\ characters = <<>>
             /\ rows = <<>> /\ index = 0
             /\ owned = {}

-----------------------------------------------------------------------------
\* Mutant: the number is cut to its low bits.
NumberCut(n) == n % (MaxNumber + 1)

\* DBResult::getNumber<uint16_t>: text that lexical_cast refuses is read as 0.
Number(n) == IF n <= MaxNumber THEN n ELSE None

CharactersOf(a) == {c \in Character : owner[c] = a}

\* MySQL gives the rows in any order.
Listings(S) == {r \in [1 .. Cardinality(S) -> S] :
                  /\ \A c \in S : \E i \in 1 .. Cardinality(S) : r[i] = c
                  /\ \A i, j \in 1 .. Cardinality(S) : r[i] = r[j] => i = j}

\* authenticate has an email and a password; m_account is set anew.
Ask ==
  /\ step \in {"idle", "accepted", "refused"}
  /\ asked' \in Owner
  /\ step' = "info"
  /\ id' = None /\ characters' = <<>>
  /\ rows' = <<>> /\ index' = 0 /\ owned' = {}
  /\ UNCHANGED owner

\* getAccountInfo; a query that fails and one without rows are the same nullptr.
NoAccountInfo ==
  /\ step = "info"
  /\ step' = "check"
  /\ UNCHANGED <<owner, asked, id, characters, rows, index, owned>>

AccountInfo ==
  /\ step = "info"
  /\ asked # None
  /\ id' = Number(asked)
  /\ step' = "list"
  /\ UNCHANGED <<owner, asked, characters, rows, index, owned>>

\* getCharacterList asks with the id as it was read, if that is 0 also.
GetCharacterList ==
  /\ step = "list"
  /\ rows' \in Listings(CharactersOf(id))
  /\ owned' = CharactersOf(asked)
  /\ step' = "fetch"
  /\ UNCHANGED <<owner, asked, id, characters, index>>

GetCharacterListFails ==
  /\ step = "list"
  /\ step' = "check"
  /\ UNCHANGED <<owner, asked, id, characters, rows, index, owned>>

\* Mutant: the last row is not reached.
HasNextButLast == index + 1 < Len(rows)

HasNext == index < Len(rows)

ReadCharacter ==
  /\ step = "fetch"
  /\ HasNext
  /\ characters' = Append(characters, rows[index + 1])
  /\ index' = index + 1
  /\ UNCHANGED <<owner, step, asked, id, rows, owned>>

ListEnds ==
  /\ step = "fetch"
  /\ ~HasNext
  /\ step' = "check"
  /\ UNCHANGED <<owner, asked, id, characters, rows, index, owned>>

\* authenticate sends the list, or an error if there is no account.
Check ==
  /\ step = "check"
  /\ step' = IF id # None THEN "accepted" ELSE "refused"
  /\ UNCHANGED <<owner, asked, id, characters, rows, index, owned>>

\* A character is made, deleted or given to another account.
CharacterMoves ==
  /\ \E c \in Character : \E a \in Owner : owner' = [owner EXCEPT ![c] = a]
  /\ UNCHANGED <<step, asked, id, characters, rows, index, owned>>

\* Database::getAccount
GetAccount == \/ NoAccountInfo
              \/ AccountInfo
              \/ GetCharacterList
              \/ GetCharacterListFails
              \/ ReadCharacter
              \/ ListEnds

QueryNext == Ask \/ GetAccount \/ Check \/ CharacterMoves

QuerySpec == QueryInit /\ [][QueryNext]_queryVars

-----------------------------------------------------------------------------
(* Properties *)

QueryTypeOK == /\ owner \in [Character -> Owner]
               /\ step \in {"idle", "info", "list", "fetch", "check", "accepted", "refused"}
               /\ asked \in Owner
               /\ id \in 0 .. MaxNumber
               /\ characters \in Seq(Character)
               /\ rows \in Seq(Character)
               /\ index \in 0 .. Len(rows)
               /\ owned \subseteq Character

\* A client is accepted as the account whose email and password it gave, and
\* as no other: the id is narrowed between the two queries (getAccount).
AcceptedIsAsked == step = "accepted" => asked # None /\ id = asked

\* An accepted client is sent the characters its account had at one moment,
\* each once, whatever the tables went through since the account was found; or
\* none, if the second query failed (getCharacterList, DBResult).
ListIsOwn ==
  step = "accepted" =>
    /\ \A i \in 1 .. Len(characters) : characters[i] \in owned
    /\ \A c \in owned : \E i \in 1 .. Len(characters) : characters[i] = c
    /\ \A i, j \in 1 .. Len(characters) : characters[i] = characters[j] => i = j

=============================================================================
