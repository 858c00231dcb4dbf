--------------------------- MODULE Authentication ---------------------------
(***************************************************************************)
(* A login from the first packet to its answer, and the requests behind it: *)
(* Protocol::authenticate reads the email and the password out of the       *)
(* message and has the database look for the account.  The io thread does   *)
(* nothing else until getAccount returns, so the message stays as it was    *)
(* read; the game servers go on changing the tables.                        *)
(***************************************************************************)
EXTENDS IncomingMessage, AccountQuery

authVars == <<messageVars, queryVars>>

AuthInit == MessageInit /\ QueryInit

\* An email and a password are given to getAccount; without them the client is
\* refused and nothing is asked.
AskForAccount == /\ ReadPassword
                 /\ \/ stage' = "account" /\ Ask
                    \/ stage' # "account" /\ UNCHANGED queryVars

WaitForAccount == stage = "account" /\ GetAccount /\ UNCHANGED messageVars

AnswerLogin == Check /\ EndLogin(IF id # None THEN "header" ELSE "closed")

AuthNext == \/ AskForAccount
            \/ WaitForAccount
            \/ AnswerLogin
            \/ ReadMessage /\ UNCHANGED queryVars
            \/ CharacterMoves /\ UNCHANGED messageVars

AuthSpec == AuthInit /\ [][AuthNext]_authVars
=============================================================================
