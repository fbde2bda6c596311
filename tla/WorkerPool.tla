----------------------------- MODULE WorkerPool -----------------------------
(***************************************************************************)
(* The worker thread pools (src/src/common/WorkerThread.cpp).              *)
(*                                                                         *)
(* Every task has a client thread that posts it and waits for its event;   *)
(* the threads of an AsyncWorkerPool run threadLoop().  What happens under *)
(* mMutex, or under the mutex of an event, is one step; notifications,     *)
(* which are outside mMutex, are steps of their own, and a thread waiting  *)
(* for a condition variable may wake for no reason.                        *)
(***************************************************************************)
EXTENDS Integers, Sequences, FiniteSets

CONSTANTS
  Tasks,             \* closures, each posted at most once
  Workers,           \* threads of an AsyncWorkerPool (mDesiredThreadCount)
  Pools              \* subset of {"single", "async", "delegate"}

VARIABLES
  pool,              \* the kind of pool that Create() returned
  mTerminated,
  mTaskQueue,
  worker,            \* where each thread is in threadLoop()
  task,              \* the local variable task of each thread
  client,            \* where the thread that posts and waits is, for each task
  mIsReady,          \* of the AsyncWaitableEvent of each task
  ran,               \* the tasks whose closure has returned
  platform,          \* tasks handed to PlatformMethods::postWorkerTask
  destructor         \* where ~AsyncWorkerPool() is

vars == <<pool, mTerminated, mTaskQueue, worker, task, client, mIsReady, ran, platform, destructor>>

None == "none"

\* "ASSERT(numThreads != 0)"
ASSUME PoolAssumption ==
  /\ IsFiniteSet(Tasks) /\ None \notin Tasks
  /\ IsFiniteSet(Workers) /\ Workers # {}
  /\ Pools \subseteq {"single", "async", "delegate"}

Init ==
  /\ pool \in Pools
  /\ mTerminated = FALSE /\ mTaskQueue = <<>>
  /\ worker = [w \in Workers |-> "notCreated"]
  /\ task = [w \in Workers |-> None]
  /\ client = [t \in Tasks |-> "new"]
  /\ mIsReady = [t \in Tasks |-> FALSE]
  /\ ran = {} /\ platform = {}
  /\ destructor = "alive"

-----------------------------------------------------------------------------
(* postWorkerTask()                                                        *)

\* A caller holds a reference to the pool, so it is not being destroyed.
referenced(t) == client[t] = "new" /\ destructor = "alive"

\* SingleThreadedWorkerPool, and DelegateWorkerPool when the platform has lost its
\* method: the closure runs in the caller and the event is a WaitableEventDone.
runInCaller(t) ==
  /\ pool \in {"single", "delegate"} /\ referenced(t)
  /\ ran' = ran \cup {t}
  /\ client' = [client EXCEPT ![t] = "returned"]
  /\ UNCHANGED <<pool, mTerminated, mTaskQueue, worker, task, mIsReady, platform, destructor>>

\* AsyncWorkerPool: the first task creates the threads.
createThreads ==
  [w \in Workers |-> IF worker[w] = "notCreated" THEN "check" ELSE worker[w]]

postWorkerTask(t) ==
  /\ pool = "async" /\ referenced(t)
  /\ worker' = createThreads
  /\ mTaskQueue' = Append(mTaskQueue, t)
  /\ client' = [client EXCEPT ![t] = "notify"]
  /\ UNCHANGED <<pool, mTerminated, task, mIsReady, ran, platform, destructor>>

\* Mutant of notifyOne: notifies only when the queue was empty before.
notifyWhenFirst(t) ==
  /\ client[t] = "notify"
  /\ client' = [client EXCEPT ![t] = "wait"]
  /\ \/ Len(mTaskQueue) = 1 /\ \E w \in Workers :
            worker[w] = "waiting" /\ worker' = [worker EXCEPT ![w] = "check"]
     \/ (Len(mTaskQueue) # 1 \/ \A w \in Workers : worker[w] # "waiting") /\ UNCHANGED worker
  /\ UNCHANGED <<pool, mTerminated, mTaskQueue, task, mIsReady, ran, platform, destructor>>

\* mCondVar.notify_one() wakes one of the waiting threads, if there is one.
notifyOne(t) ==
  /\ client[t] = "notify"
  /\ client' = [client EXCEPT ![t] = "wait"]
  /\ \/ \E w \in Workers : worker[w] = "waiting" /\ worker' = [worker EXCEPT ![w] = "check"]
     \/ (\A w \in Workers : worker[w] # "waiting") /\ UNCHANGED worker
  /\ UNCHANGED <<pool, mTerminated, mTaskQueue, task, mIsReady, ran, platform, destructor>>

\* DelegateWorkerPool: the platform is given a DelegateWorkerTask.
delegate(t) ==
  /\ pool = "delegate" /\ referenced(t)
  /\ platform' = platform \cup {t}
  /\ client' = [client EXCEPT ![t] = "wait"]
  /\ UNCHANGED <<pool, mTerminated, mTaskQueue, worker, task, mIsReady, ran, destructor>>

-----------------------------------------------------------------------------
(* AsyncWaitableEvent                                                      *)

\* Mutant of markAsReady: sets the flag but does not notify.
markAsReadySilently(t) ==
  /\ mIsReady' = [mIsReady EXCEPT ![t] = TRUE]
  /\ UNCHANGED client

\* Called by the thread that ran the closure.
markAsReady(t) ==
  /\ mIsReady' = [mIsReady EXCEPT ![t] = TRUE]
  /\ client' = IF client[t] = "blocked" THEN [client EXCEPT ![t] = "wait"] ELSE client

wait(t) ==
  /\ client[t] = "wait"
  /\ client' = [client EXCEPT ![t] = IF mIsReady[t] THEN "returned" ELSE "blocked"]
  /\ UNCHANGED <<pool, mTerminated, mTaskQueue, worker, task, mIsReady, ran, platform, destructor>>

\* Mutant of spuriousReturn: the flag is not looked at again.
returnUnchecked(t) ==
  /\ client[t] = "blocked"
  /\ client' = [client EXCEPT ![t] = "returned"]
  /\ UNCHANGED <<pool, mTerminated, mTaskQueue, worker, task, mIsReady, ran, platform, destructor>>

spuriousReturn(t) ==
  /\ client[t] = "blocked"
  /\ client' = [client EXCEPT ![t] = "wait"]
  /\ UNCHANGED <<pool, mTerminated, mTaskQueue, worker, task, mIsReady, ran, platform, destructor>>

-----------------------------------------------------------------------------
(* threadLoop(), and RunTask() on a thread of the platform                 *)

\* Mutant of takeTask: the task stays in the queue.
takeNoPop(w) ==
  /\ worker[w] = "check"
  /\ IF mTerminated \/ mTaskQueue = <<>>
       THEN /\ worker' = [worker EXCEPT ![w] = IF mTerminated THEN "exited" ELSE "waiting"]
            /\ UNCHANGED task
       ELSE /\ task' = [task EXCEPT ![w] = Head(mTaskQueue)]
            /\ worker' = [worker EXCEPT ![w] = "run"]
  /\ UNCHANGED <<pool, mTerminated, mTaskQueue, client, mIsReady, ran, platform, destructor>>

\* Under mMutex: leave, take the first task, or wait for mCondVar.
takeTask(w) ==
  /\ worker[w] = "check"
  /\ IF mTerminated \/ mTaskQueue = <<>>
       THEN /\ worker' = [worker EXCEPT ![w] = IF mTerminated THEN "exited" ELSE "waiting"]
            /\ UNCHANGED <<task, mTaskQueue>>
       ELSE /\ task' = [task EXCEPT ![w] = Head(mTaskQueue)]
            /\ mTaskQueue' = Tail(mTaskQueue)
            /\ worker' = [worker EXCEPT ![w] = "run"]
  /\ UNCHANGED <<pool, mTerminated, client, mIsReady, ran, platform, destructor>>

\* The predicate is evaluated again after a wake-up for no reason.
spuriousWakeup(w) ==
  /\ worker[w] = "waiting"
  /\ worker' = [worker EXCEPT ![w] = "check"]
  /\ UNCHANGED <<pool, mTerminated, mTaskQueue, task, client, mIsReady, ran, platform, destructor>>

runClosure(w) ==
  /\ worker[w] = "run"
  /\ ran' = ran \cup {task[w]}
  /\ worker' = [worker EXCEPT ![w] = "mark"]
  /\ UNCHANGED <<pool, mTerminated, mTaskQueue, task, client, mIsReady, platform, destructor>>

finish(w) ==
  /\ worker[w] = "mark"
  /\ markAsReady(task[w])
  /\ worker' = [worker EXCEPT ![w] = "check"]
  /\ task' = [task EXCEPT ![w] = None]
  /\ UNCHANGED <<pool, mTerminated, mTaskQueue, ran, platform, destructor>>

\* The platform runs the task some time, on some thread: the closure, then the event.
RunTask(t) ==
  /\ t \in platform
  /\ IF t \notin ran
       THEN ran' = ran \cup {t} /\ UNCHANGED <<mIsReady, client, platform>>
       ELSE markAsReady(t) /\ platform' = platform \ {t} /\ UNCHANGED ran
  /\ UNCHANGED <<pool, mTerminated, mTaskQueue, worker, task, destructor>>

-----------------------------------------------------------------------------
(* ~AsyncWorkerPool(), once nobody refers to the pool                      *)

terminate ==
  /\ pool = "async" /\ destructor = "alive"
  /\ \A t \in Tasks : client[t] # "notify"
  /\ mTerminated' = TRUE
  /\ destructor' = "notify"
  /\ UNCHANGED <<pool, mTaskQueue, worker, task, client, mIsReady, ran, platform>>

\* Mutant of notifyAll: only one thread is told.
notifyOnlyOne ==
  /\ destructor = "notify"
  /\ destructor' = "join"
  /\ \/ \E w \in Workers : worker[w] = "waiting" /\ worker' = [worker EXCEPT ![w] = "check"]
     \/ (\A w \in Workers : worker[w] # "waiting") /\ UNCHANGED worker
  /\ UNCHANGED <<pool, mTerminated, mTaskQueue, task, client, mIsReady, ran, platform>>

notifyAll ==
  /\ destructor = "notify"
  /\ destructor' = "join"
  /\ worker' = [w \in Workers |-> IF worker[w] = "waiting" THEN "check" ELSE worker[w]]
  /\ UNCHANGED <<pool, mTerminated, mTaskQueue, task, client, mIsReady, ran, platform>>

join ==
  /\ destructor = "join"
  /\ \A w \in Workers : worker[w] \in {"notCreated", "exited"}
  /\ destructor' = "destroyed"
  /\ UNCHANGED <<pool, mTerminated, mTaskQueue, worker, task, client, mIsReady, ran, platform>>

clientStep(t) == runInCaller(t) \/ postWorkerTask(t) \/ notifyOne(t) \/ delegate(t) \/ wait(t)
workerStep(w) == takeTask(w) \/ runClosure(w) \/ finish(w)
destroyStep == notifyAll \/ join

Next ==
  \/ \E t \in Tasks : clientStep(t) \/ spuriousReturn(t) \/ RunTask(t)
  \/ \E w \in Workers : workerStep(w) \/ spuriousWakeup(w)
  \/ terminate
  \/ destroyStep

\* Threads that can run do run: every worker, a client once it has posted, the
\* platform's threads, and the destructor once begun.  Nobody has to post a task or
\* to destroy the pool, and no thread has to wake for no reason.
Fairness ==
  /\ \A w \in Workers : WF_vars(workerStep(w))
  /\ \A t \in Tasks : WF_vars(notifyOne(t) \/ wait(t)) /\ WF_vars(RunTask(t))
  /\ WF_vars(destroyStep)

Spec == Init /\ [][Next]_vars /\ Fairness

-----------------------------------------------------------------------------
(* Properties                                                              *)

\* Type invariant of the pools.
TypeOK ==
  /\ pool \in {"single", "async", "delegate"}
  /\ mTerminated \in BOOLEAN /\ mTaskQueue \in Seq(Tasks)
  /\ worker \in [Workers -> {"notCreated", "check", "waiting", "run", "mark", "exited"}]
  /\ task \in [Workers -> Tasks \cup {None}]
  /\ \A w \in Workers : task[w] \in Tasks <=> worker[w] \in {"run", "mark"}
  /\ client \in [Tasks -> {"new", "notify", "wait", "blocked", "returned"}]
  /\ mIsReady \in [Tasks -> BOOLEAN]
  /\ ran \subseteq Tasks /\ platform \subseteq Tasks
  /\ destructor \in {"alive", "notify", "join", "destroyed"}

Queued == {mTaskQueue[i] : i \in DOMAIN mTaskQueue}
Held == {task[w] : w \in Workers} \ {None}

\* A posted task is in one place at a time - once in the queue, with one thread, or
\* with the platform - and nowhere once its event is ready, so no closure runs twice.
RunsOnce ==
  /\ \A i, j \in DOMAIN mTaskQueue : mTaskQueue[i] = mTaskQueue[j] => i = j
  /\ \A v, w \in Workers : task[v] = task[w] /\ task[v] # None => v = w
  /\ Queued \cap (Held \cup ran) = {}
  /\ platform \cap (Queued \cup Held) = {}
  /\ \A w \in Workers : task[w] # None => (task[w] \in ran <=> worker[w] = "mark")
  /\ \A t \in Queued \cup Held \cup platform : client[t] # "new" /\ ~mIsReady[t]
  /\ \A t \in ran : client[t] # "new"

\* "If ready, wait() will not block", and wait() returns only after the closure has.
ReadyAfterRun ==
  \A t \in Tasks :
    /\ mIsReady[t] => t \in ran /\ client[t] # "blocked"
    /\ client[t] = "returned" => t \in ran

\* No wake-up is lost: while a thread sleeps, every task in the queue has an awake
\* thread of its own on its way to the queue, or a notification under way.
InState(s) == {w \in Workers : worker[w] = s}
Notifying == {t \in Tasks : client[t] = "notify"}
NoLostWakeup ==
  ~mTerminated /\ InState("waiting") # {} =>
    Len(mTaskQueue) <= Cardinality(InState("check")) + Cardinality(Notifying)

\* Once threads are told to leave none of them is forgotten: after notify_all()
\* no thread waits for mCondVar, so the join in the destructor cannot hang.
NobodySleepsAtJoin == destructor \in {"join", "destroyed"} => InState("waiting") = {}

\* "Returns an event to wait on for the task to finish": unless the pool is
\* destroyed first, the wait for a posted task returns.
TasksFinish ==
  \A t \in Tasks : client[t] # "new" ~> client[t] = "returned" \/ mTerminated

\* A task that a thread has taken finishes and wakes its client even if the pool
\* is destroyed meanwhile, and the destructor returns.
TakenTasksFinish ==
  \A t \in Tasks : t \in ran \cup Held ~> client[t] = "returned"
DestructorReturns == mTerminated ~> destructor = "destroyed"
=============================================================================
