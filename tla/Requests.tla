------------------------------ MODULE Requests ------------------------------
(***************************************************************************)
(* What requestCentralAnswer promises its caller, without threads, Redis or  *)
(* a table of callbacks.  A client asks, under a number no request before it *)
(* in this life of the process has had.  The request is open until one answer *)
(* is taken for it, or until it is dropped; the answer that was taken is told *)
(* to the client that asked, or kept from it, once.  An answer from an        *)
(* earlier life may be taken for a request it is not about; one of this life *)
(* is about the request, and so its client.                                  *)
(***************************************************************************)
EXTENDS Naturals, Sequences

CONSTANTS Client, Id, Life,
          None,     \* no client
          Nothing   \* no answer is taken

VARIABLES life,   \* which start of the process this is
          given,  \* the numbers that requests of this life have had
          asker,  \* asker[i]: the client that waits for the answer to i, or None
          taken,  \* the answer that was taken, and whom it is for, or Nothing
          sent    \* what was told, in order

vars == <<life, given, asker, taken, sent>>

Answer == [life : Life, id : Id, client : Client]

Init == /\ life = 1
        /\ given = {} /\ asker = [i \in Id |-> None]
        /\ taken = Nothing /\ sent = <<>>

Ask(i, c) == /\ i \notin given
             /\ given' = given \cup {i}
             /\ asker' = [asker EXCEPT ![i] = c]
             /\ UNCHANGED <<life, taken, sent>>

\* No answer is waited for any more.
Drop(i) == /\ asker[i] # None
           /\ asker' = [asker EXCEPT ![i] = None]
           /\ UNCHANGED <<life, given, taken, sent>>

\* The first answer under the request's number closes the request.
TakeAnswer(a) == /\ taken = Nothing
                 /\ asker[a.id] # None
                 /\ a.life <= life
                 /\ a.life = life => a.client = asker[a.id]
                 /\ taken' = [to |-> asker[a.id], answer |-> a]
                 /\ asker' = [asker EXCEPT ![a.id] = None]
                 /\ UNCHANGED <<life, given, sent>>

\* The client is told, or it is gone, or the answer is a refusal.
Tell == /\ taken # Nothing
        /\ sent' \in {sent, Append(sent, [life |-> life, id |-> taken.answer.id,
                                          to |-> taken.to, answer |-> taken.answer])}
        /\ taken' = Nothing
        /\ UNCHANGED <<life, given, asker>>

\* The process starts again: nobody waits any more, and all numbers are free.
Restart == /\ life' = life + 1
           /\ given' = {} /\ asker' = [i \in Id |-> None]
           /\ taken' = Nothing
           /\ UNCHANGED sent

Next == \/ \E i \in Id, c \in Client : Ask(i, c)
        \/ \E i \in Id : Drop(i)
        \/ \E a \in Answer : TakeAnswer(a)
        \/ Tell
        \/ Restart

Spec == Init /\ [][Next]_vars
=============================================================================
