-------------------------- MODULE DispatcherProofs --------------------------
(***************************************************************************)
(* Theorems about Dispatcher for every set of tasks and of producers.       *)
(***************************************************************************)
EXTENDS Dispatcher, SequenceTheorems, TLAPS

\* The inductive invariant: a thread not yet started has run nothing.
IInv == /\ TypeOK /\ NoLostWakeup /\ EndsOnFarewell
        /\ pc = "unstarted" => fate[Farewell] # "run"

\* The thread has not started to begin with.
LEMMA IInvInit == Init => IInv
BY DEF Init, IInv, TypeOK, NoLostWakeup, EndsOnFarewell, ThreadState, PC, AnyTask

\* A task joins the end of the list.
LEMMA AppendType ==
  ASSUME NEW t \in AnyTask, NEW s \in Seq(AnyTask)
  PROVE  Append(s, t) \in Seq(AnyTask) /\ Append(s, t) # <<>>
BY AppendProperties

\* Every step keeps the invariant.
LEMMA IInvNext == IInv /\ [Next]_vars => IInv'
<1> SUFFICES ASSUME IInv, [Next]_vars PROVE IInv'
  OBVIOUS
<1> USE DEF IInv, NoLostWakeup, EndsOnFarewell
<1>1. CASE Start
  BY <1>1 DEF Start, TypeOK, ThreadState, PC
<1>2. CASE Stop
  BY <1>2 DEF Stop, TypeOK, ThreadState, PC
<1>3. ASSUME NEW p \in Producer, NEW t \in Task, AddTask(p, t) PROVE IInv'
  <2>1. t \in AnyTask /\ t # Farewell
    BY DispatcherAssumption DEF DispatcherAssumption, AnyTask
  <2>2. TypeOK'
    BY <1>3, <2>1, AppendType DEF AddTask, TypeOK
  <2>3. fate'[Farewell] = fate[Farewell]
    <3>1. \/ fate' = [fate EXCEPT ![t] = "pending"]
          \/ fate' = [fate EXCEPT ![t] = "refused"]
      BY <1>3 DEF AddTask
    <3> QED BY <2>1, <3>1 DEF TypeOK, AnyTask
  <2> QED BY <1>3, <2>2, <2>3 DEF AddTask, DoSignal
<1>4. ASSUME NEW p \in Producer, Notify(p) PROVE IInv'
  BY <1>4 DEF Notify, Notified, TypeOK, PC
<1>5. CASE Shutdown
  <2>1. TypeOK'
    BY <1>5, AppendType DEF Shutdown, Notified, TypeOK, PC, AnyTask
  <2>2. fate'[Farewell] = "pending"
    BY <1>5 DEF Shutdown, TypeOK, AnyTask
  <2> QED BY <1>5, <2>1, <2>2 DEF Shutdown, Notified
<1>6. CASE CheckState
  BY <1>6 DEF CheckState, TypeOK, PC
<1>7. CASE LockAndSwap \/ RelockAndSwap
  BY <1>7 DEF LockAndSwap, RelockAndSwap, Swap, TypeOK, PC
<1>8. CASE LockAndWait
  BY <1>8 DEF LockAndWait, TypeOK, PC
<1>9. CASE SpuriousWakeup
  BY <1>9 DEF SpuriousWakeup, TypeOK, PC
<1>10. CASE RunTask
  <2> DEFINE t == Head(tmpTaskList)
  <2>1. t \in AnyTask /\ Tail(tmpTaskList) \in Seq(AnyTask)
    BY <1>10, HeadTailProperties DEF RunTask, TypeOK
  <2>2. CASE /\ fate' = [fate EXCEPT ![t] = "run"]
             /\ threadState' = IF t = Farewell THEN "Terminated" ELSE threadState
    BY <1>10, <2>1, <2>2 DEF RunTask, TypeOK, ThreadState, AnyTask
  <2>3. CASE /\ t \in Expirable /\ UNCHANGED threadState
             /\ fate' = [fate EXCEPT ![t] = "dropped"]
    <3>1. t # Farewell
      BY <2>3, DispatcherAssumption DEF DispatcherAssumption
    <3> QED BY <1>10, <2>1, <2>3, <3>1 DEF RunTask, TypeOK, ThreadState, AnyTask
  <2> QED BY <1>10, <2>2, <2>3 DEF RunTask
<1>11. CASE BatchDone
  BY <1>11 DEF BatchDone, TypeOK, PC
<1>12. CASE UNCHANGED vars
  BY <1>12 DEF vars, TypeOK
<1> QED BY <1>1, <1>2, <1>3, <1>4, <1>5, <1>6, <1>7, <1>8, <1>9, <1>10, <1>11,
           <1>12 DEF Next, ThreadMain

-----------------------------------------------------------------------------
\* The invariant holds of every run.
THEOREM Invariance == SafeSpec => []IInv
BY IInvInit, IInvNext, PTL DEF SafeSpec

\* Type correctness, for every set of tasks and producers.
THEOREM TypeCorrect == SafeSpec => []TypeOK
<1>1. IInv => TypeOK
  BY DEF IInv
<1> QED BY <1>1, Invariance, PTL

\* However many producers push and notify, no wakeup is lost.
THEOREM WakeupsKept == SafeSpec => []NoLostWakeup
<1>1. IInv => NoLostWakeup
  BY DEF IInv
<1> QED BY <1>1, Invariance, PTL

\* The thread ends, and is told to end, by shutdown()'s task only.
THEOREM EndsOnlyOnFarewell == SafeSpec => []EndsOnFarewell
<1>1. IInv => EndsOnFarewell
  BY DEF IInv
<1> QED BY <1>1, Invariance, PTL

-----------------------------------------------------------------------------
(* The refinement of TaskQueue.                                              *)

\* Appending to the list appends to what is pending; finishing the head of the
\* batch finishes the head of what is pending.
LEMMA ConcatFacts ==
  ASSUME NEW b \in Seq(AnyTask), NEW l \in Seq(AnyTask)
  PROVE  /\ \A t \in AnyTask : b \o Append(l, t) = Append(b \o l, t)
         /\ b # <<>> => /\ b \o l # <<>> /\ Head(b \o l) = Head(b)
                        /\ Tail(b) \o l = Tail(b \o l)
         /\ <<>> \o l = l /\ b \o <<>> = b
<1>1. \A t \in AnyTask : b \o Append(l, t) = Append(b \o l, t)
  BY DEF AnyTask
<1>2. ASSUME b # <<>>
      PROVE  /\ b \o l # <<>> /\ Head(b \o l) = Head(b)
             /\ Tail(b) \o l = Tail(b \o l)
  BY <1>2
<1>3. <<>> \o l = l /\ b \o <<>> = b
  BY ConcatEmptySeq
<1> QED BY <1>1, <1>2, <1>3

\* The dispatcher implements TaskQueue: every step accepts, refuses or finishes
\* one task in order, starts or ends the thread, or changes nothing of it.
THEOREM Refinement == SafeSpec => ImplementsTaskQueueSafe
<1>1. Init => Q!Init
  BY ConcatFacts DEF Init, Q!Init, AnyTask
<1>2. ASSUME IInv, [Next]_vars PROVE [Q!Next]_(Q!vars)
  <2> DEFINE pend == tmpTaskList \o taskList
  <2> USE <1>2 DEF IInv, TypeOK
  <2>1. CASE Start
    <3>1. Q!Arrive
      BY <2>1 DEF Start, Q!Arrive
    <3> QED BY <3>1 DEF Q!Next
  <2>2. ASSUME NEW p \in Producer, NEW t \in Task, AddTask(p, t) PROVE Q!Next
    <3>1. t \in AnyTask
      BY DEF AnyTask
    <3>2. CASE threadState = "Running"
      <4>1. pend' = Append(pend, t)
        <5>1. taskList' = Append(taskList, t) /\ tmpTaskList' = tmpTaskList
          BY <2>2, <3>2 DEF AddTask
        <5> QED BY <3>1, <5>1, ConcatFacts
      <4>2. Q!TakeOn(t)
        BY <2>2, <3>2, <4>1 DEF AddTask, Q!TakeOn
      <4> QED BY <4>2 DEF Q!Next
    <3>3. CASE threadState # "Running"
      <4>1. Q!Refuse(t)
        BY <2>2, <3>3 DEF AddTask, Q!Refuse
      <4> QED BY <4>1 DEF Q!Next
    <3> QED BY <3>2, <3>3
  <2>3. CASE Shutdown
    <3>1. pend' = Append(pend, Farewell)
      BY <2>3, ConcatFacts DEF Shutdown, AnyTask
    <3>2. Q!TakeOn(Farewell)
      BY <2>3, <3>1 DEF Shutdown, Notified, Q!TakeOn
    <3> QED BY <3>2 DEF Q!Next
  <2>4. CASE CheckState
    <3>1. CASE threadState = "Terminated"
      <4>1. Q!Retire
        BY <2>4, <3>1 DEF CheckState, EndsOnFarewell, Q!Retire
      <4> QED BY <4>1 DEF Q!Next
    <3>2. CASE threadState # "Terminated"
      BY <2>4, <3>2 DEF CheckState, Q!vars
    <3> QED BY <3>1, <3>2
  <2>5. CASE RunTask
    <3>1. /\ pend # <<>> /\ Head(pend) = Head(tmpTaskList) /\ pend' = Tail(pend)
      BY <2>5, ConcatFacts DEF RunTask
    <3>2. Q!Finish
      BY <2>5, <3>1 DEF RunTask, Q!Finish
    <3> QED BY <3>2 DEF Q!Next
  <2>6. CASE LockAndSwap \/ RelockAndSwap
    <3>1. tmpTaskList = <<>>
      BY <2>6 DEF LockAndSwap, RelockAndSwap
    <3>2. pend' = pend
      BY <2>6, <3>1, ConcatFacts DEF LockAndSwap, RelockAndSwap, Swap
    <3> QED BY <2>6, <3>2 DEF LockAndSwap, RelockAndSwap, Swap, Q!vars
  <2>7. CASE Stop \/ LockAndWait \/ SpuriousWakeup \/ BatchDone \/ UNCHANGED vars
    BY <2>7 DEF Stop, LockAndWait, SpuriousWakeup, BatchDone, vars, Q!vars
  <2>8. ASSUME NEW p \in Producer, Notify(p) PROVE UNCHANGED Q!vars
    BY <2>8 DEF Notify, Notified, Q!vars
  <2> QED BY <2>1, <2>2, <2>3, <2>4, <2>5, <2>6, <2>7, <2>8 DEF Next, ThreadMain
<1>3. IInv /\ [Next]_vars => [Q!Next]_(Q!vars)
  BY <1>2
<1> QED BY <1>1, <1>3, Invariance, PTL DEF SafeSpec, ImplementsTaskQueueSafe, Q!SafeSpec
=============================================================================
