----------------------------- MODULE Dispatcher -----------------------------
(***************************************************************************)
(* The dispatcher of core/tasks.cpp: one thread runs the tasks that other   *)
(* threads add.  Everything under m_taskLock is one step, because only the  *)
(* lock's holder reads or writes m_taskList; what the code does outside of  *)
(* it (the notification after addTask, the check of the thread's state, the *)
(* run of a swapped batch) are steps of their own.                          *)
(***************************************************************************)
EXTENDS Naturals, Sequences

(* A definition whose comment begins with "Mutant" is not part of the model:  *)
(* it is the definition after it with a slip that is easy to make in the     *)
(* code, and is there to see a property fail.                                 *)

CONSTANTS Task,       \* the tasks other threads add, each of them once
          Expirable,  \* those created with an expiration
          Producer,   \* the threads that call addTask
          Farewell    \* the task shutdown() creates

ASSUME DispatcherAssumption == Expirable \subseteq Task /\ Farewell \notin Task

AnyTask == Task \cup {Farewell}

VARIABLES
  threadState,  \* m_threadState
  pc,           \* where threadMain is
  taskList,     \* m_taskList
  tmpTaskList,  \* the swapped batch, without the tasks already deleted
  notifying,    \* the producers between unlock() and notify_one()
  fate          \* fate[t]: what became of the task (TaskQueue)

vars == <<threadState, pc, taskList, tmpTaskList, notifying, fate>>

ThreadState == {"Running", "Closing", "Terminated"}

\* "check": at the loop's condition; "lock": about to lock; "waiting": in
\* m_taskSignal.wait; "woken": about to lock again inside it; "run": in the
\* for loop; "returned": threadMain is over.
PC == {"unstarted", "check", "lock", "waiting", "woken", "run", "returned"}

Init == /\ threadState = "Terminated"
        /\ pc = "unstarted"
        /\ taskList = <<>>
        /\ tmpTaskList = <<>>
        /\ notifying = {}
        /\ fate = [t \in AnyTask |-> "new"]

-----------------------------------------------------------------------------
(* ThreadHolder *)

Start == /\ pc = "unstarted"
         /\ threadState' = "Running"
         /\ pc' = "check"
         /\ UNCHANGED <<taskList, tmpTaskList, notifying, fate>>

\* stop() is a plain store that would overwrite Terminated: its callers are
\* taken to call it before shutdown().
Stop == /\ pc # "unstarted"
        /\ fate[Farewell] = "new"
        /\ threadState' = "Closing"
        /\ UNCHANGED <<pc, taskList, tmpTaskList, notifying, fate>>

-----------------------------------------------------------------------------
(* addTask and shutdown *)

\* pc after m_taskSignal.notify_one()
Notified == IF pc = "waiting" THEN "woken" ELSE pc

\* Mutant: do_signal is computed after the push.
DoSignalAfterPush(list) == Append(list, Farewell) = <<>>

DoSignal(list) == list = <<>>

\* addTask, under the lock: a task is queued while the thread is Running and
\* deleted otherwise; only the first task of an empty list needs a signal.
AddTask(p, t) ==
  /\ p \notin notifying
  /\ fate[t] = "new"
  /\ IF threadState = "Running"
     THEN /\ taskList' = Append(taskList, t)
          /\ fate' = [fate EXCEPT ![t] = "pending"]
          /\ notifying' = IF DoSignal(taskList) THEN notifying \cup {p} ELSE notifying
     ELSE /\ fate' = [fate EXCEPT ![t] = "refused"]
          /\ UNCHANGED <<taskList, notifying>>
  /\ UNCHANGED <<threadState, pc, tmpTaskList>>

\* addTask, after the unlock
Notify(p) ==
  /\ p \in notifying
  /\ notifying' = notifying \ {p}
  /\ pc' = Notified
  /\ UNCHANGED <<threadState, taskList, tmpTaskList, fate>>

\* Mutant: shutdown() does not notify.
ShutdownUnnotified ==
  /\ fate[Farewell] = "new"
  /\ taskList' = Append(taskList, Farewell)
  /\ fate' = [fate EXCEPT ![Farewell] = "pending"]
  /\ UNCHANGED <<threadState, pc, tmpTaskList, notifying>>

\* shutdown() queues its task whatever the state is, and notifies before it
\* unlocks.
Shutdown ==
  /\ fate[Farewell] = "new"
  /\ taskList' = Append(taskList, Farewell)
  /\ fate' = [fate EXCEPT ![Farewell] = "pending"]
  /\ pc' = Notified
  /\ UNCHANGED <<threadState, tmpTaskList, notifying>>

-----------------------------------------------------------------------------
(* threadMain *)

CheckState ==
  /\ pc = "check"
  /\ pc' = IF threadState = "Terminated" THEN "returned" ELSE "lock"
  /\ UNCHANGED <<threadState, taskList, tmpTaskList, notifying, fate>>

\* Mutant: the list is copied and not emptied.
SwapCopies == /\ tmpTaskList' = taskList
              /\ pc' = "run"
              /\ UNCHANGED <<threadState, taskList, notifying, fate>>

\* The batch is swapped out whatever woke the thread: wait() has no predicate
\* and no loop around it, so the batch may be empty.
Swap == /\ tmpTaskList' = taskList
        /\ taskList' = <<>>
        /\ pc' = "run"
        /\ UNCHANGED <<threadState, notifying, fate>>

LockAndSwap == pc = "lock" /\ taskList # <<>> /\ Swap

LockAndWait == /\ pc = "lock"
               /\ taskList = <<>>
               /\ pc' = "waiting"
               /\ UNCHANGED <<threadState, taskList, tmpTaskList, notifying, fate>>

SpuriousWakeup == /\ pc = "waiting"
                  /\ pc' = "woken"
                  /\ UNCHANGED <<threadState, taskList, tmpTaskList, notifying, fate>>

RelockAndSwap == pc = "woken" /\ Swap

\* One turn of the for loop: an expired task is deleted without being run.
\* shutdown()'s task terminates the thread's state; the batch is still run to
\* its end.
RunTask ==
  /\ pc = "run"
  /\ tmpTaskList # <<>>
  /\ LET t == Head(tmpTaskList)
     IN \/ /\ fate' = [fate EXCEPT ![t] = "run"]
           /\ threadState' = IF t = Farewell THEN "Terminated" ELSE threadState
        \/ /\ t \in Expirable
           /\ fate' = [fate EXCEPT ![t] = "dropped"]
           /\ UNCHANGED threadState
  /\ tmpTaskList' = Tail(tmpTaskList)
  /\ UNCHANGED <<pc, taskList, notifying>>

BatchDone ==
  /\ pc = "run"
  /\ tmpTaskList = <<>>
  /\ pc' = "check"
  /\ UNCHANGED <<threadState, taskList, tmpTaskList, notifying, fate>>

ThreadMain == CheckState \/ LockAndSwap \/ LockAndWait \/ RelockAndSwap \/ RunTask \/ BatchDone

-----------------------------------------------------------------------------
Next == \/ Start \/ Stop \/ Shutdown \/ SpuriousWakeup
        \/ \E p \in Producer : Notify(p) \/ \E t \in Task : AddTask(p, t)
        \/ ThreadMain

SafeSpec == Init /\ [][Next]_vars

\* A started thread and a producer inside addTask go on; nobody has to add a
\* task, to stop or to wake spuriously.
Fairness == WF_vars(ThreadMain) /\ \A p \in Producer : WF_vars(Notify(p))

Spec == SafeSpec /\ Fairness

-----------------------------------------------------------------------------
(* Properties *)

\* Every variable has its type, and the thread holds a batch in its for loop
\* only: no task is left behind in a batch that is over.
TypeOK == /\ threadState \in ThreadState
          /\ pc \in PC
          /\ taskList \in Seq(AnyTask)
          /\ tmpTaskList \in Seq(AnyTask)
          /\ notifying \subseteq Producer
          /\ fate \in [AnyTask -> {"new", "refused", "pending", "run", "dropped"}]
          /\ tmpTaskList # <<>> => pc = "run"

\* No wakeup is lost: while the thread waits and there is a task for it, some
\* producer is about to notify it (do_signal is computed from the list before
\* the push, and two producers and a spurious wakeup may interleave with it).
NoLostWakeup == pc = "waiting" /\ taskList # <<>> => notifying # {}

\* The thread is not gone, nor is its state Terminated, before shutdown()'s
\* task was run; after start() nothing else terminates it, stop() included.
EndsOnFarewell ==
  /\ pc # "unstarted" => (threadState = "Terminated" <=> fate[Farewell] = "run")
  /\ pc = "returned" => threadState = "Terminated"

\* The dispatcher keeps TaskQueue's promise: the tasks of the batch and then
\* those of the list are what is pending, so tasks are finished once, in
\* order, and none is lost between the two lists.
Q == INSTANCE TaskQueue WITH pending <- tmpTaskList \o taskList,
                             worker  <- CASE pc = "unstarted" -> "away"
                                          [] pc = "returned"  -> "retired"
                                          [] OTHER            -> "present"

ImplementsTaskQueue == Q!Spec
ImplementsTaskQueueSafe == Q!SafeSpec

\* A shutdown ends the thread once it was started.
ShutdownEndsThread == fate[Farewell] = "pending" /\ pc # "unstarted" ~> pc = "returned"
=============================================================================
