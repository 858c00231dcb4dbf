----------------------------- MODULE TaskQueue -----------------------------
(***************************************************************************)
(* What the dispatcher promises to the threads that give it work.  A task  *)
(* is refused or taken on; tasks taken on are finished one at a time, each *)
(* once, in the order in which they were taken on; finishing a task means  *)
(* running it or, when it is too late, dropping it.  The worker may retire *)
(* only after the task that asks for it was run, and what is then still    *)
(* pending is abandoned.                                                    *)
(***************************************************************************)
EXTENDS Sequences

CONSTANTS Task, Farewell   \* Farewell: the task that asks the worker to retire

VARIABLES fate,     \* fate[t]: what became of the task
          pending,  \* the tasks taken on and not finished, oldest first
          worker    \* "away" until it arrives, "present", "retired"

vars == <<fate, pending, worker>>

Fates == {"new", "refused", "pending", "run", "dropped"}

Init == /\ fate    = [t \in Task \cup {Farewell} |-> "new"]
        /\ pending = <<>>
        /\ worker  = "away"

Refuse(t) == /\ fate[t] = "new"
             /\ fate' = [fate EXCEPT ![t] = "refused"]
             /\ UNCHANGED <<pending, worker>>

TakeOn(t) == /\ fate[t] = "new"
             /\ fate' = [fate EXCEPT ![t] = "pending"]
             /\ pending' = Append(pending, t)
             /\ UNCHANGED worker

Arrive == /\ worker = "away"
          /\ worker' = "present"
          /\ UNCHANGED <<fate, pending>>

Finish == /\ worker = "present"
          /\ pending # <<>>
          /\ \E how \in {"run", "dropped"} : fate' = [fate EXCEPT ![Head(pending)] = how]
          /\ pending' = Tail(pending)
          /\ UNCHANGED worker

Retire == /\ worker = "present"
          /\ fate[Farewell] = "run"
          /\ worker' = "retired"
          /\ UNCHANGED <<fate, pending>>

Next == \/ \E t \in Task \cup {Farewell} : Refuse(t) \/ TakeOn(t)
        \/ Arrive
        \/ Finish
        \/ Retire

SafeSpec == Init /\ [][Next]_vars

\* While the worker is present, work taken on gets finished.
Spec == SafeSpec /\ WF_vars(Finish)
=============================================================================
