----------------------------- MODULE ThreadPool -----------------------------
(***************************************************************************)
(* ThreadPool.cpp: a fixed set of threads that take tasks from one queue   *)
(* under a mutex and wait on one condition variable, and the thread that   *)
(* owns the pool, which enqueues tasks and in the end destroys it.         *)
(*                                                                         *)
(* The queue is touched only with the mutex held; m_stop is atomic and is  *)
(* read and written without it.  A wait on a condition variable releases   *)
(* the mutex and blocks in one step, and may end without a notification.   *)
(***************************************************************************)
EXTENDS Naturals, Sequences, FiniteSets

CONSTANTS
  Workers,       \* m_workers
  Nobody,        \* the mutex is free
  MaxTasks,      \* bound: tasks enqueued in a behaviour
  MaxSpurious    \* bound: wake-ups nobody asked for

ASSUME WorkersAssumption == Workers # {}
ASSUME NobodyAssumption  == Nobody \notin Workers
ASSUME PoolBounds        == MaxTasks \in Nat /\ MaxSpurious \in Nat

Task == 1 .. MaxTasks

VARIABLES
  tasks,      \* m_tasks
  stop,       \* m_stop
  mutex,      \* who holds m_mutex between two steps
  pc,         \* the workers' program points
  task,       \* the task a worker has taken
  owner,      \* the owner's program point
  enqueued,   \* tasks enqueued so far
  ran,        \* history: the tasks in the order they were finished
  spurious

vars == <<tasks, stop, mutex, pc, task, owner, enqueued, ran, spurious>>

\* "asleep" is blocked in wait, "woken" about to take the mutex back there.
Point      == {"lock", "test", "block", "asleep", "woken", "take", "run", "exit"}
OwnerPoint == {"idle", "notify", "notifyAll", "join", "joined"}

NoTask == 0

Init ==
  /\ tasks = <<>>
  /\ stop = FALSE
  /\ mutex = Nobody
  /\ pc = [w \in Workers |-> "lock"]
  /\ task = [w \in Workers |-> NoTask]
  /\ owner = "idle"
  /\ enqueued = 0
  /\ ran = <<>>
  /\ spurious = 0

TypeOK ==
  /\ tasks \in Seq(Task)
  /\ stop \in BOOLEAN
  /\ mutex \in Workers \cup {Nobody}
  /\ pc \in [Workers -> Point]
  /\ task \in [Workers -> Task \cup {NoTask}]
  /\ owner \in OwnerPoint
  /\ enqueued \in 0 .. MaxTasks
  /\ ran \in Seq(Task)
  /\ spurious \in 0 .. MaxSpurious

Asleep == {w \in Workers : pc[w] = "asleep"}

Goto(w, p) == pc' = [pc EXCEPT ![w] = p]

UnchangedOwner == UNCHANGED <<stop, owner, enqueued>>
-----------------------------------------------------------------------------
(* The owner.                                                              *)

\* Mutant: an empty function is enqueued.
PushNull ==
  /\ owner = "idle"
  /\ ~stop
  /\ enqueued < MaxTasks
  /\ mutex = Nobody
  /\ enqueued' = enqueued + 1
  /\ tasks' = Append(tasks, NoTask)
  /\ owner' = "notify"
  /\ UNCHANGED <<stop, mutex, pc, task, ran, spurious>>

\* enqueue: with m_stop set it throws; else the task goes in under the mutex.
Push ==
  /\ owner = "idle"
  /\ ~stop
  /\ enqueued < MaxTasks
  /\ mutex = Nobody
  /\ enqueued' = enqueued + 1
  /\ tasks' = Append(tasks, enqueued + 1)
  /\ owner' = "notify"
  /\ UNCHANGED <<stop, mutex, pc, task, ran, spurious>>

\* Mutant: the notification is forgotten.
NotifyNobody ==
  /\ owner = "notify"
  /\ owner' = "idle"
  /\ UNCHANGED <<tasks, stop, mutex, pc, task, enqueued, ran, spurious>>

\* notify_one: one sleeper wakes, if there is any.
NotifyOne ==
  /\ owner = "notify"
  /\ \/ Asleep = {} /\ UNCHANGED pc
     \/ \E w \in Asleep : Goto(w, "woken")
  /\ owner' = "idle"
  /\ UNCHANGED <<tasks, stop, mutex, task, enqueued, ran, spurious>>

\* The destructor sets the flag without the mutex ...
SetStop ==
  /\ owner = "idle"
  /\ stop' = TRUE
  /\ owner' = "notifyAll"
  /\ UNCHANGED <<tasks, mutex, pc, task, enqueued, ran, spurious>>

\* ... wakes whoever sleeps at that moment ...
NotifyAll ==
  /\ owner = "notifyAll"
  /\ pc' = [w \in Workers |-> IF w \in Asleep THEN "woken" ELSE pc[w]]
  /\ owner' = "join"
  /\ UNCHANGED <<tasks, stop, mutex, task, enqueued, ran, spurious>>

\* ... and joins every worker.
Join ==
  /\ owner = "join"
  /\ \A w \in Workers : pc[w] = "exit"
  /\ owner' = "joined"
  /\ UNCHANGED <<tasks, stop, mutex, pc, task, enqueued, ran, spurious>>

Destroy == SetStop \/ NotifyAll \/ Join
-----------------------------------------------------------------------------
(* worker().                                                               *)

\* The mutex is taken, at the top of the loop or on the way out of wait.
Lock(w) ==
  /\ pc[w] \in {"lock", "woken"}
  /\ mutex = Nobody
  /\ mutex' = w
  /\ Goto(w, "test")
  /\ UNCHANGED <<tasks, task, ran, spurious>> /\ UnchangedOwner

\* Mutant: a stopped pool drops what is queued.
TestStopFirst(w) ==
  /\ pc[w] = "test"
  /\ \/ /\ stop
        /\ mutex' = Nobody
        /\ Goto(w, "exit")
     \/ /\ ~stop
        /\ Goto(w, IF tasks # <<>> THEN "take" ELSE "block")
        /\ UNCHANGED mutex
  /\ UNCHANGED <<tasks, task, ran, spurious>> /\ UnchangedOwner

\* The predicate of the wait: m_stop || !m_tasks.empty().
Test(w) ==
  /\ pc[w] = "test"
  /\ Goto(w, IF stop \/ tasks # <<>> THEN "take" ELSE "block")
  /\ UNCHANGED <<tasks, mutex, task, ran, spurious>> /\ UnchangedOwner

Block(w) ==
  /\ pc[w] = "block"
  /\ mutex' = Nobody
  /\ Goto(w, "asleep")
  /\ UNCHANGED <<tasks, task, ran, spurious>> /\ UnchangedOwner

\* Mutant: a wait without the predicate.
SpuriousUntested(w) ==
  /\ pc[w] = "asleep"
  /\ spurious < MaxSpurious
  /\ mutex = Nobody
  /\ mutex' = w
  /\ spurious' = spurious + 1
  /\ Goto(w, "take")
  /\ UNCHANGED <<tasks, task, ran>> /\ UnchangedOwner

\* A wait may end for no reason.
Spurious(w) ==
  /\ pc[w] = "asleep"
  /\ spurious < MaxSpurious
  /\ spurious' = spurious + 1
  /\ Goto(w, "woken")
  /\ UNCHANGED <<tasks, mutex, task, ran>> /\ UnchangedOwner

\* Mutant: the front task is copied and stays in the queue.
TakeWithoutPop(w) ==
  /\ pc[w] = "take"
  /\ mutex' = Nobody
  /\ tasks # <<>>
  /\ task' = [task EXCEPT ![w] = Head(tasks)]
  /\ Goto(w, "run")
  /\ UNCHANGED <<tasks, ran, spurious>> /\ UnchangedOwner

\* Stopped and nothing left: the thread ends.  Else it takes the front task.
Take(w) ==
  /\ pc[w] = "take"
  /\ mutex' = Nobody
  /\ \/ /\ stop /\ tasks = <<>>
        /\ Goto(w, "exit")
        /\ UNCHANGED <<tasks, task>>
     \/ /\ tasks # <<>>
        /\ task' = [task EXCEPT ![w] = Head(tasks)]
        /\ tasks' = Tail(tasks)
        /\ Goto(w, "run")
  /\ UNCHANGED <<ran, spurious>> /\ UnchangedOwner

\* The task runs outside the mutex and returns.
Run(w) ==
  /\ pc[w] = "run"
  /\ ran' = Append(ran, task[w])
  /\ task' = [task EXCEPT ![w] = NoTask]
  /\ Goto(w, "lock")
  /\ UNCHANGED <<tasks, mutex, spurious>> /\ UnchangedOwner

Work(w) == Lock(w) \/ Test(w) \/ Block(w) \/ Take(w) \/ Run(w)

\* Everything is over, or the owner has nothing more to ask.
Done ==
  /\ \/ owner = "joined"
     \/ owner = "idle" /\ enqueued = MaxTasks /\ Asleep = Workers
  /\ UNCHANGED vars

Next ==
  \/ Push \/ NotifyOne \/ Destroy
  \/ \E w \in Workers : Work(w) \/ Spurious(w)
  \/ Done

\* Threads run on; neither a new task nor the end of the pool nor a spurious
\* wake-up has to come.  Nobody is promised the mutex while others contend for it.
Fairness ==
  /\ WF_vars(NotifyOne) /\ WF_vars(NotifyAll) /\ WF_vars(Join)
  /\ \A w \in Workers : WF_vars(Work(w))

Spec == Init /\ [][Next]_vars /\ Fairness
-----------------------------------------------------------------------------
(* Properties.                                                             *)

Queued(t)   == \E i \in 1 .. Len(tasks) : tasks[i] = t
Running(t)  == \E w \in Workers : pc[w] = "run" /\ task[w] = t
Finished(t) == \E i \in 1 .. Len(ran) : ran[i] = t

\* worker(): whatever woke a thread up and whichever thread was faster, it finds
\* a task when it comes to pop one, or the pool is being destroyed.
PopFindsTask == \A w \in Workers : pc[w] = "take" => tasks # <<>> \/ stop

\* A task is handed to one thread once: it is queued, or with one thread, or has
\* been run, and run one time.
HandedOutOnce ==
  /\ \A t \in 1 .. enqueued : Queued(t) \/ Running(t) \/ Finished(t)
  /\ \A t \in Task : ~(Queued(t) /\ (Running(t) \/ Finished(t))) /\ ~(Running(t) /\ Finished(t))
  /\ \A v, w \in Workers : pc[v] = "run" /\ pc[w] = "run" /\ task[v] = task[w] => v = w
  /\ \A i, j \in 1 .. Len(ran) : ran[i] = ran[j] => i = j

\* enqueue: with a task in the queue and no notification under way, some thread
\* is on its way to it; the wake-up for it cannot have been lost.
NoTaskSleptOn ==
  tasks # <<>> /\ owner # "notify" =>
    \E w \in Workers : pc[w] \notin {"block", "asleep", "exit"}

\* ThreadPool.cpp: every task enqueued is run, also when the pool is destroyed
\* while it is queued.
EveryTaskRuns == \A t \in Task : Queued(t) ~> Finished(t)

\* ThreadPool.cpp, ~ThreadPool: every worker leaves once the tasks are done, so
\* that the destructor returns.
DestructorReturns == stop ~> owner = "joined"
=============================================================================
