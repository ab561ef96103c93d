------------------------- MODULE ThreadPool_proofs -------------------------
(***************************************************************************)
(* The pool for any number of workers: who holds the mutex, that no        *)
(* wake-up for a task is lost, and that no task is lost or run twice.      *)
(***************************************************************************)
EXTENDS ThreadPool, TLAPS

\* The mutex is held by whoever is between taking and releasing it.
MutexInv == \A w \in Workers : mutex = w <=> pc[w] \in {"test", "block", "take"}

\* A worker goes to sleep only on an empty queue, and leaves only from one that
\* stays empty.
SleepInv ==
  /\ \A w \in Workers : pc[w] = "block" => tasks = <<>>
  /\ \A w \in Workers : pc[w] = "exit" => stop /\ tasks = <<>>
  /\ stop <=> owner \in {"notifyAll", "join", "joined"}

\* How many tasks have left the queue.
Out == enqueued - Len(tasks)

\* The queue holds the last tasks enqueued, in order; the first Out are with
\* one worker each, or have been run once.
QueueInv ==
  /\ Out \in Nat
  /\ \A i \in 1 .. Len(tasks) : tasks[i] = Out + i
  /\ \A w \in Workers : pc[w] = "run" => task[w] \in 1 .. Out
  /\ \A i \in 1 .. Len(ran) : ran[i] \in 1 .. Out
  /\ \A t \in 1 .. Out : Running(t) \/ Finished(t)
  /\ \A v, w \in Workers : pc[v] = "run" /\ pc[w] = "run" /\ task[v] = task[w] => v = w
  /\ \A i, j \in 1 .. Len(ran) : ran[i] = ran[j] => i = j
  /\ \A w \in Workers, i \in 1 .. Len(ran) : pc[w] = "run" => ran[i] # task[w]

IInv == TypeOK /\ MutexInv /\ SleepInv /\ QueueInv /\ PopFindsTask /\ NoTaskSleptOn

LEMMA InitIInv == Init => IInv
<1> USE NobodyAssumption, PoolBounds, WorkersAssumption DEF Init, NoTask
<1> SUFFICES ASSUME Init PROVE IInv
  OBVIOUS
<1>1. stop \in BOOLEAN /\ ~stop
  BY Zenon
<1>2. TypeOK
  BY <1>1 DEF TypeOK, Task, Point, OwnerPoint
<1>3. MutexInv /\ SleepInv
  BY <1>1 DEF MutexInv, SleepInv
<1>4. QueueInv
  BY DEF QueueInv, Out
<1>5. PopFindsTask /\ NoTaskSleptOn
  BY DEF PopFindsTask, NoTaskSleptOn
<1> QED  BY <1>2, <1>3, <1>4, <1>5 DEF IInv

\* A step that leaves the tasks where they are, and nobody at "run" before or after
\* who was not, keeps the queue's part.
LEMMA QueueKept ==
  ASSUME QueueInv, UNCHANGED <<tasks, task, enqueued, ran>>,
         \A w \in Workers : pc'[w] = "run" <=> pc[w] = "run"
  PROVE  QueueInv'
  BY DEF QueueInv, Out, Running, Finished

LEMMA PushSafe ==
  ASSUME IInv, Push
  PROVE  IInv'
<1> USE DEF IInv, TypeOK, Push
<1>1. enqueued \in Nat /\ enqueued + 1 \in Task
  BY PoolBounds DEF Task
<1>2. tasks' \in Seq(Task) /\ Len(tasks') = Len(tasks) + 1 /\ Len(tasks) \in Nat
      /\ tasks'[Len(tasks) + 1] = enqueued + 1
      /\ \A i \in 1 .. Len(tasks) : tasks'[i] = tasks[i]
  BY <1>1
<1>3. TypeOK'
  BY <1>1, <1>2, PoolBounds DEF OwnerPoint
<1>4. MutexInv'
  BY DEF MutexInv
<1>5. \A w \in Workers : pc[w] \notin {"test", "block", "take", "exit"}
  BY NobodyAssumption DEF MutexInv, SleepInv
<1>6. SleepInv'
  BY <1>5 DEF SleepInv
<1>7. Out' = Out
  BY <1>1, <1>2 DEF Out
<1>8. ASSUME NEW i \in 1 .. Len(tasks') PROVE tasks'[i] = Out' + i
  <2>1. CASE i = Len(tasks) + 1
    BY <2>1, <1>1, <1>2, <1>7 DEF Out
  <2>2. CASE i \in 1 .. Len(tasks)
    BY <2>2, <1>2, <1>7 DEF QueueInv
  <2> QED  BY <2>1, <2>2, <1>2
<1>9. QueueInv'
  BY <1>7, <1>8 DEF QueueInv, Running, Finished
<1>10. PopFindsTask' /\ NoTaskSleptOn'
  BY <1>5 DEF PopFindsTask, NoTaskSleptOn
<1> QED  BY <1>3, <1>4, <1>6, <1>9, <1>10

LEMMA NotifyOneSafe ==
  ASSUME IInv, NotifyOne
  PROVE  IInv'
<1> USE DEF IInv, NotifyOne
<1>1. TypeOK'
  BY DEF TypeOK, Goto, Asleep, Point, OwnerPoint
<1>2. MutexInv'
  BY DEF MutexInv, TypeOK, Goto, Asleep
<1>3. SleepInv'
  BY DEF SleepInv, TypeOK, Goto, Asleep
<1>4. QueueInv'
  BY QueueKept DEF TypeOK, Goto, Asleep
<1>5. PopFindsTask'
  BY DEF PopFindsTask, TypeOK, Goto, Asleep
<1>6. NoTaskSleptOn'
  <2> SUFFICES ASSUME tasks # <<>>
               PROVE  \E w \in Workers : pc'[w] \notin {"block", "asleep", "exit"}
    BY DEF NoTaskSleptOn
  <2>1. CASE Asleep = {}
    BY <2>1, WorkersAssumption DEF Asleep, SleepInv
  <2>2. ASSUME NEW w \in Asleep, Goto(w, "woken")
        PROVE  pc'[w] = "woken" /\ w \in Workers
    BY <2>2 DEF Goto, Asleep, TypeOK
  <2> QED  BY <2>1, <2>2
<1> QED  BY <1>1, <1>2, <1>3, <1>4, <1>5, <1>6

LEMMA DestroySafe ==
  ASSUME IInv, Destroy
  PROVE  IInv'
<1> USE DEF IInv, Destroy, SetStop, NotifyAll, Join
<1>1. UNCHANGED <<tasks, mutex, task, enqueued, ran, spurious>>
  OBVIOUS
<1>2. stop' \in BOOLEAN /\ owner' \in OwnerPoint /\ pc' \in [Workers -> Point]
  <2>1. stop' \in BOOLEAN
    BY Zenon DEF TypeOK
  <2> QED  BY <2>1 DEF TypeOK, OwnerPoint, Point, Asleep
<1>3. TypeOK'
  BY <1>1, <1>2 DEF TypeOK
<1>4. \A w \in Workers : pc'[w] = pc[w] \/ (pc[w] = "asleep" /\ pc'[w] = "woken")
  <2>1. CASE NotifyAll
    BY <2>1 DEF Asleep
  <2>2. CASE UNCHANGED pc
    BY <2>2
  <2> QED  BY <2>1, <2>2
<1>5. MutexInv' /\ PopFindsTask' /\ NoTaskSleptOn'
  BY <1>1, <1>4 DEF MutexInv, PopFindsTask, NoTaskSleptOn, SleepInv
<1>6. SleepInv'
  BY <1>1, <1>4 DEF SleepInv
<1>7. QueueInv'
  BY <1>1, <1>4, QueueKept
<1> QED  BY <1>3, <1>5, <1>6, <1>7

LEMMA LockSafe ==
  ASSUME IInv, NEW w \in Workers, Lock(w)
  PROVE  IInv'
<1> USE DEF IInv, Lock, Goto, UnchangedOwner
<1>1. TypeOK'
  BY DEF TypeOK, Point
<1>2. MutexInv'
  BY NobodyAssumption DEF MutexInv, TypeOK
<1>3. SleepInv' /\ PopFindsTask' /\ NoTaskSleptOn'
  BY DEF SleepInv, PopFindsTask, NoTaskSleptOn, TypeOK
<1>4. QueueInv'
  BY QueueKept DEF TypeOK
<1> QED  BY <1>1, <1>2, <1>3, <1>4

LEMMA TestSafe ==
  ASSUME IInv, NEW w \in Workers, Test(w)
  PROVE  IInv'
<1> USE DEF IInv, Test, Goto, UnchangedOwner
<1>1. TypeOK'
  BY DEF TypeOK, Point
<1>2. MutexInv'
  BY DEF MutexInv, TypeOK
<1>3. SleepInv' /\ PopFindsTask' /\ NoTaskSleptOn'
  BY DEF SleepInv, PopFindsTask, NoTaskSleptOn, TypeOK
<1>4. QueueInv'
  BY QueueKept DEF TypeOK
<1> QED  BY <1>1, <1>2, <1>3, <1>4

LEMMA BlockSafe ==
  ASSUME IInv, NEW w \in Workers, Block(w)
  PROVE  IInv'
<1> USE DEF IInv, Block, Goto, UnchangedOwner
<1>1. TypeOK'
  BY DEF TypeOK, Point
<1>2. MutexInv'
  BY NobodyAssumption DEF MutexInv, TypeOK
<1>3. SleepInv' /\ PopFindsTask' /\ NoTaskSleptOn'
  BY DEF SleepInv, PopFindsTask, NoTaskSleptOn, TypeOK
<1>4. QueueInv'
  BY QueueKept DEF TypeOK
<1> QED  BY <1>1, <1>2, <1>3, <1>4

LEMMA SpuriousSafe ==
  ASSUME IInv, NEW w \in Workers, Spurious(w)
  PROVE  IInv'
<1> USE DEF IInv, Spurious, Goto, UnchangedOwner
<1>1. TypeOK'
  BY PoolBounds DEF TypeOK, Point
<1>2. MutexInv'
  BY DEF MutexInv, TypeOK
<1>3. SleepInv' /\ PopFindsTask' /\ NoTaskSleptOn'
  BY DEF SleepInv, PopFindsTask, NoTaskSleptOn, TypeOK
<1>4. QueueInv'
  BY QueueKept DEF TypeOK
<1> QED  BY <1>1, <1>2, <1>3, <1>4

LEMMA TakeSafe ==
  ASSUME IInv, NEW w \in Workers, Take(w)
  PROVE  IInv'
<1> USE DEF IInv, Take, Goto, UnchangedOwner
<1>1. CASE stop /\ tasks = <<>> /\ Goto(w, "exit") /\ UNCHANGED <<tasks, task>>
  <2>1. TypeOK'
    BY <1>1 DEF TypeOK, Point
  <2>2. MutexInv'
    BY <1>1, NobodyAssumption DEF MutexInv, TypeOK
  <2>3. SleepInv' /\ PopFindsTask' /\ NoTaskSleptOn'
    BY <1>1 DEF SleepInv, PopFindsTask, NoTaskSleptOn, TypeOK
  <2>4. QueueInv'
    BY <1>1, QueueKept DEF TypeOK
  <2> QED  BY <2>1, <2>2, <2>3, <2>4
<1>2. CASE /\ tasks # <<>> /\ Goto(w, "run")
           /\ task' = [task EXCEPT ![w] = Head(tasks)]
           /\ tasks' = Tail(tasks)
  <2>1. Head(tasks) \in Task /\ Head(tasks) = tasks[1] /\ tasks' \in Seq(Task)
        /\ Len(tasks) \in Nat \ {0} /\ Len(tasks') = Len(tasks) - 1
        /\ \A i \in 1 .. Len(tasks') : tasks'[i] = tasks[i + 1]
    BY <1>2 DEF TypeOK
  <2>2. TypeOK'
    BY <1>2, <2>1 DEF TypeOK, Point
  <2>3. MutexInv'
    BY <1>2, NobodyAssumption DEF MutexInv, TypeOK
  <2>4. \A v \in Workers : pc[v] \notin {"block", "exit"} /\ (pc[v] = "take" => v = w)
    BY <1>2 DEF SleepInv, MutexInv
  <2>5. SleepInv' /\ PopFindsTask' /\ NoTaskSleptOn'
    BY <1>2, <2>4 DEF SleepInv, PopFindsTask, NoTaskSleptOn, TypeOK
  <2>6. enqueued \in Nat
    BY PoolBounds DEF TypeOK
  <2>7. Out \in Nat /\ Out' = Out + 1 /\ Head(tasks) = Out + 1
    BY <2>1, <2>6 DEF Out, QueueInv
  <2>8. \A i \in 1 .. Len(tasks') : tasks'[i] = Out' + i
    BY <2>1, <2>6, <2>7 DEF QueueInv
  <2>9. /\ pc'[w] = "run" /\ task'[w] = Out + 1 /\ ran' = ran /\ pc[w] = "take"
        /\ \A v \in Workers : v # w => pc'[v] = pc[v] /\ task'[v] = task[v]
    BY <1>2, <2>7 DEF TypeOK
  <2>10. /\ \A v \in Workers : pc'[v] = "run" => task'[v] \in 1 .. Out'
         /\ \A i \in 1 .. Len(ran') : ran'[i] \in 1 .. Out'
    BY <2>7, <2>9 DEF QueueInv
  <2>11. \A t \in 1 .. Out' : (Running(t) \/ Finished(t))'
    <3> SUFFICES ASSUME NEW t \in 1 .. Out + 1 PROVE (Running(t) \/ Finished(t))'
      BY <2>7
    <3>1. CASE t = Out + 1
      BY <3>1, <2>9 DEF Running
    <3>2. CASE Finished(t)
      BY <3>2, <2>9 DEF Finished
    <3>3. CASE Running(t)
      <4>1. PICK v \in Workers : pc[v] = "run" /\ task[v] = t
        BY <3>3 DEF Running
      <4> QED  BY <4>1, <2>9 DEF Running
    <3>4. CASE t \in 1 .. Out
      BY <3>2, <3>3, <3>4 DEF QueueInv
    <3> QED  BY <3>1, <3>4, <2>7
  <2>12. \A u, v \in Workers : pc'[u] = "run" /\ pc'[v] = "run" /\ task'[u] = task'[v] => u = v
    <3>1. \A v \in Workers : v # w /\ pc'[v] = "run" => task'[v] # Out + 1
      BY <2>7, <2>9 DEF QueueInv
    <3> QED  BY <3>1, <2>9 DEF QueueInv
  <2>13. \A i, j \in 1 .. Len(ran') : ran'[i] = ran'[j] => i = j
    BY <2>9 DEF QueueInv
  <2>14. \A v \in Workers, i \in 1 .. Len(ran') : pc'[v] = "run" => ran'[i] # task'[v]
    <3>1. \A i \in 1 .. Len(ran) : ran[i] # Out + 1
      BY <2>7 DEF QueueInv
    <3> QED  BY <3>1, <2>9 DEF QueueInv
  <2>15. QueueInv'
    BY <2>7, <2>8, <2>10, <2>11, <2>12, <2>13, <2>14 DEF QueueInv
  <2> QED  BY <2>2, <2>3, <2>5, <2>15
<1> QED  BY <1>1, <1>2

LEMMA RunSafe ==
  ASSUME IInv, NEW w \in Workers, Run(w)
  PROVE  IInv'
<1> USE DEF IInv, Run, Goto, UnchangedOwner
<1>1. enqueued \in Nat /\ Out \in Nat /\ Out <= enqueued /\ task[w] \in 1 .. Out
  BY PoolBounds DEF TypeOK, QueueInv, Out
<1>2. task[w] \in Task
  BY <1>1, PoolBounds DEF TypeOK, Task
<1>3. ran' \in Seq(Task) /\ Len(ran) \in Nat /\ Len(ran') = Len(ran) + 1
      /\ ran'[Len(ran) + 1] = task[w] /\ \A i \in 1 .. Len(ran) : ran'[i] = ran[i]
  BY <1>2 DEF TypeOK
<1>4. TypeOK'
  BY <1>3 DEF TypeOK, Point, NoTask
<1>5. MutexInv' /\ SleepInv' /\ PopFindsTask' /\ NoTaskSleptOn'
  BY DEF MutexInv, SleepInv, PopFindsTask, NoTaskSleptOn, TypeOK
<1>6. /\ pc[w] = "run" /\ pc'[w] = "lock"
      /\ \A v \in Workers : v # w => pc'[v] = pc[v] /\ task'[v] = task[v]
      /\ Out' = Out /\ UNCHANGED <<tasks, enqueued>>
  BY DEF TypeOK, Out
<1>7. \A t \in 1 .. Out : (Running(t) \/ Finished(t))'
  <2> SUFFICES ASSUME NEW t \in 1 .. Out PROVE (Running(t) \/ Finished(t))'
    OBVIOUS
  <2>1. CASE Finished(t)
    BY <2>1, <1>3 DEF Finished
  <2>2. CASE Running(t)
    <3>1. PICK v \in Workers : pc[v] = "run" /\ task[v] = t
      BY <2>2 DEF Running
    <3>2. CASE v = w
      BY <3>1, <3>2, <1>3 DEF Finished
    <3>3. CASE v # w
      BY <3>1, <3>3, <1>6 DEF Running
    <3> QED  BY <3>2, <3>3
  <2> QED  BY <2>1, <2>2 DEF QueueInv
<1>8. \A i \in 1 .. Len(ran') : ran'[i] \in 1 .. Out'
  BY <1>1, <1>3, <1>6 DEF QueueInv
<1>9. \A i, j \in 1 .. Len(ran') : ran'[i] = ran'[j] => i = j
  BY <1>3, <1>6 DEF QueueInv
<1>10. \A v \in Workers, i \in 1 .. Len(ran') : pc'[v] = "run" => ran'[i] # task'[v]
  BY <1>3, <1>6 DEF QueueInv
<1>11. QueueInv'
  BY <1>1, <1>6, <1>7, <1>8, <1>9, <1>10 DEF QueueInv
<1> QED  BY <1>4, <1>5, <1>11

LEMMA Inductive == Spec => []IInv
<1>1. IInv /\ [Next]_vars => IInv'
  <2> SUFFICES ASSUME IInv, [Next]_vars PROVE IInv'
    OBVIOUS
  <2>1. ASSUME NEW w \in Workers, Work(w) PROVE IInv'
    BY <2>1, LockSafe, TestSafe, BlockSafe, TakeSafe, RunSafe DEF Work
  <2>2. CASE Done \/ UNCHANGED vars
    <3>1. UNCHANGED vars
      BY <2>2 DEF Done
    <3>2. TypeOK' /\ MutexInv' /\ SleepInv' /\ PopFindsTask' /\ NoTaskSleptOn'
      BY <3>1 DEF vars, IInv, TypeOK, MutexInv, SleepInv, PopFindsTask, NoTaskSleptOn
    <3>3. QueueInv'
      BY <3>1, QueueKept DEF vars, IInv
    <3> QED  BY <3>2, <3>3 DEF IInv
  <2> QED  BY <2>1, <2>2, PushSafe, NotifyOneSafe, DestroySafe, SpuriousSafe DEF Next
<1> QED  BY <1>1, InitIInv, PTL DEF Spec

\* Types, for any number of workers and tasks.
THEOREM PoolTypes == Spec => []TypeOK
<1>1. IInv => TypeOK
  BY DEF IInv
<1> QED  BY <1>1, Inductive, PTL

\* worker(): a thread that comes to pop a task finds one, or the pool is being
\* destroyed, however the wake-ups fell.
THEOREM PoolPopFindsTask == Spec => []PopFindsTask
<1>1. IInv => PopFindsTask
  BY DEF IInv
<1> QED  BY <1>1, Inductive, PTL

\* enqueue: testing the queue and going to sleep under the mutex loses no wake-up
\* for a task.
THEOREM PoolNoTaskSleptOn == Spec => []NoTaskSleptOn
<1>1. IInv => NoTaskSleptOn
  BY DEF IInv
<1> QED  BY <1>1, Inductive, PTL

\* No task is lost or handed out twice.
THEOREM PoolHandsOutOnce == Spec => []HandedOutOnce
<1>1. ASSUME IInv PROVE HandedOutOnce
  <2> USE <1>1 DEF IInv
  <2>1. enqueued \in Nat /\ Out \in Nat /\ Len(tasks) \in Nat /\ enqueued = Out + Len(tasks)
    BY PoolBounds DEF TypeOK, QueueInv, Out
  <2>2. \A t : Queued(t) => t \in Out + 1 .. enqueued
    BY <2>1 DEF Queued, QueueInv
  <2>3. \A t : Running(t) \/ Finished(t) => t \in 1 .. Out
    BY DEF Running, Finished, QueueInv
  <2>4. ASSUME NEW t \in 1 .. enqueued PROVE Queued(t) \/ Running(t) \/ Finished(t)
    <3>1. CASE t \in 1 .. Out
      BY <3>1 DEF QueueInv
    <3>2. CASE t \in Out + 1 .. enqueued
      <4>1. t - Out \in 1 .. Len(tasks) /\ tasks[t - Out] = t
        BY <3>2, <2>1 DEF QueueInv
      <4> QED  BY <4>1 DEF Queued
    <3> QED  BY <3>1, <3>2, <2>1
  <2>5. \A t \in Task : ~(Queued(t) /\ (Running(t) \/ Finished(t)))
    BY <2>1, <2>2, <2>3
  <2>6. \A t \in Task : ~(Running(t) /\ Finished(t))
    BY DEF Running, Finished, QueueInv
  <2> QED  BY <2>4, <2>5, <2>6 DEF HandedOutOnce, QueueInv
<1> QED  BY <1>1, Inductive, PTL
=============================================================================
