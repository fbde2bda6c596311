---------------------------- MODULE ThreadProofs ----------------------------
(***************************************************************************)
(* What holds of the two utilities that threads share, the worker pools    *)
(* and FixedQueue.                                                         *)
(*                                                                         *)
(* The pools, for any number of threads and tasks: KindInv says which part *)
(* of the state each kind of pool uses; with TypeOK, RunsOnce,             *)
(* ReadyAfterRun and NobodySleepsAtJoin it is inductive.  NoLostWakeup is  *)
(* a count of threads, tasks and notifications and is proved from it.      *)
(*                                                                         *)
(* The queue, for every capacity and any number of operations, is a        *)
(* first-in first-out queue.  The argument is arithmetic: two virtual      *)
(* indices less than mMaxSize apart have different slots (ModDistinct),    *)
(* and SizeInv keeps the indices in use that close together.               *)
(***************************************************************************)
EXTENDS WorkerPool, FixedQueue, FiniteSetTheorems, SequenceTheorems, TLAPS

-----------------------------------------------------------------------------
(* The worker pools                                                        *)

KindInv ==
  /\ pool = "async" => platform = {}
  /\ pool # "async" => mTaskQueue = <<>> /\ task = [w \in Workers |-> None] /\ destructor = "alive"
  /\ mTerminated <=> destructor # "alive"

PoolInv == TypeOK /\ KindInv /\ RunsOnce /\ ReadyAfterRun /\ NobodySleepsAtJoin

USE DEF None

Elements(q) == {q[i] : i \in DOMAIN q}
Injective(q) == \A i, j \in DOMAIN q : q[i] = q[j] => i = j

\* Popping the front of a queue without repetitions removes that element.
LEMMA PopFront ==
  ASSUME NEW S, NEW q \in Seq(S), q # <<>>, Injective(q)
  PROVE  /\ Head(q) \in S /\ Head(q) \in Elements(q)
         /\ Elements(Tail(q)) \subseteq Elements(q) \ {Head(q)}
         /\ Injective(Tail(q))
<1>1. PICK n \in Nat : n = Len(q) /\ n >= 1 OBVIOUS
<1>2. /\ DOMAIN q = 1..n /\ DOMAIN Tail(q) = 1..(n - 1) /\ Head(q) = q[1]
      /\ \A i \in 1..(n - 1) : Tail(q)[i] = q[i + 1]
  BY <1>1
<1>3. Head(q) \in S /\ Head(q) \in Elements(q) BY <1>1, <1>2 DEF Elements
<1>4. ASSUME NEW s \in Elements(Tail(q)) PROVE s \in Elements(q) /\ s # Head(q)
  <2>1. PICK i \in 1..(n - 1) : s = q[i + 1] BY <1>2 DEF Elements
  <2>2. i + 1 \in 1..n /\ 1 \in 1..n /\ i + 1 # 1 BY <1>1
  <2> QED BY <1>2, <2>1, <2>2 DEF Elements, Injective
<1>5. ASSUME NEW i \in 1..(n - 1), NEW j \in 1..(n - 1), q[i + 1] = q[j + 1] PROVE i = j
  <2>1. i + 1 \in 1..n /\ j + 1 \in 1..n BY <1>1
  <2> QED BY <1>2, <1>5, <2>1 DEF Injective
<1>6. Injective(Tail(q)) BY <1>2, <1>5 DEF Injective
<1> QED BY <1>3, <1>4, <1>6

\* Every step preserves the type invariant.
LEMMA TypeStep == TypeOK /\ [Next]_vars => TypeOK'
<1> SUFFICES ASSUME TypeOK, [Next]_vars PROVE TypeOK' OBVIOUS
<1> USE PoolAssumption DEF TypeOK
<1>1. ASSUME NEW t \in Tasks, runInCaller(t) PROVE TypeOK' BY <1>1 DEF runInCaller
<1>2. ASSUME NEW t \in Tasks, postWorkerTask(t) PROVE TypeOK'
  BY <1>2 DEF postWorkerTask, createThreads
<1>3. ASSUME NEW t \in Tasks, notifyOne(t) PROVE TypeOK'
  <2>1. CASE UNCHANGED worker BY <1>3, <2>1 DEF notifyOne
  <2>2. ASSUME NEW w \in Workers, worker[w] = "waiting", worker' = [worker EXCEPT ![w] = "check"]
        PROVE TypeOK'
    BY <1>3, <2>2 DEF notifyOne
  <2> QED BY <1>3, <2>1, <2>2 DEF notifyOne
<1>4. ASSUME NEW t \in Tasks, delegate(t) PROVE TypeOK' BY <1>4 DEF delegate
<1>5. ASSUME NEW t \in Tasks, wait(t) PROVE TypeOK' BY <1>5 DEF wait
<1>6. ASSUME NEW t \in Tasks, spuriousReturn(t) PROVE TypeOK' BY <1>6 DEF spuriousReturn
<1>7. ASSUME NEW t \in Tasks, RunTask(t) PROVE TypeOK' BY ZenonT(40), <1>7 DEF RunTask, markAsReady
<1>8. ASSUME NEW w \in Workers, takeTask(w) PROVE TypeOK'
  <2>1. CASE mTerminated \/ mTaskQueue = <<>> BY <1>8, <2>1 DEF takeTask
  <2>2. CASE ~(mTerminated \/ mTaskQueue = <<>>)
    <3>1. Head(mTaskQueue) \in Tasks /\ Tail(mTaskQueue) \in Seq(Tasks) BY <2>2
    <3>2. task' = [task EXCEPT ![w] = Head(mTaskQueue)] /\ worker' = [worker EXCEPT ![w] = "run"]
      BY <1>8, <2>2 DEF takeTask
    <3>3. /\ task' \in [Workers -> Tasks \cup {None}]
          /\ worker' \in [Workers -> {"notCreated", "check", "waiting", "run", "mark", "exited"}]
      BY <3>1, <3>2
    <3>4. \A v \in Workers : task'[v] \in Tasks <=> worker'[v] \in {"run", "mark"}
      BY <3>1, <3>2
    <3>5. mTaskQueue' \in Seq(Tasks) BY Zenon, <1>8, <2>2, <3>1 DEF takeTask
    <3> QED BY <1>8, <3>3, <3>4, <3>5 DEF takeTask
  <2> QED BY <2>1, <2>2
<1>9. ASSUME NEW w \in Workers, spuriousWakeup(w) PROVE TypeOK' BY <1>9 DEF spuriousWakeup
<1>10. ASSUME NEW w \in Workers, runClosure(w) PROVE TypeOK' BY <1>10 DEF runClosure
<1>11. ASSUME NEW w \in Workers, finish(w) PROVE TypeOK' BY <1>11 DEF finish, markAsReady
<1>12. CASE terminate BY <1>12 DEF terminate
<1>13. CASE notifyAll BY <1>13 DEF notifyAll
<1>14. CASE join BY <1>14 DEF join
<1>15. CASE UNCHANGED vars BY <1>15 DEF vars
<1> HIDE DEF TypeOK
<1>16. QED
  BY <1>1, <1>2, <1>3, <1>4, <1>5, <1>6, <1>7, <1>8, <1>9, <1>10, <1>11, <1>12, <1>13, <1>14,
     <1>15 DEF Next, clientStep, workerStep, destroyStep

\* Each kind of pool keeps to its own part of the state.
LEMMA KindStep == PoolInv /\ TypeOK' /\ [Next]_vars => KindInv'
<1> SUFFICES ASSUME PoolInv, TypeOK', [Next]_vars PROVE KindInv' OBVIOUS
<1> USE PoolAssumption DEF PoolInv, KindInv, TypeOK
<1>1. ASSUME NEW t \in Tasks, runInCaller(t) PROVE KindInv' BY <1>1 DEF runInCaller
<1>2. ASSUME NEW t \in Tasks, postWorkerTask(t) PROVE KindInv' BY <1>2 DEF postWorkerTask, createThreads
<1>3. ASSUME NEW t \in Tasks, notifyOne(t) PROVE KindInv' BY <1>3 DEF notifyOne
<1>4. ASSUME NEW t \in Tasks, delegate(t) PROVE KindInv' BY <1>4 DEF delegate
<1>5. ASSUME NEW t \in Tasks, wait(t) PROVE KindInv' BY <1>5 DEF wait
<1>6. ASSUME NEW t \in Tasks, spuriousReturn(t) PROVE KindInv' BY <1>6 DEF spuriousReturn
<1>7. ASSUME NEW t \in Tasks, RunTask(t) PROVE KindInv' BY <1>7 DEF RunTask, markAsReady
<1>8. ASSUME NEW w \in Workers, takeTask(w) PROVE KindInv' BY <1>8 DEF takeTask
<1>9. ASSUME NEW w \in Workers, spuriousWakeup(w) PROVE KindInv' BY <1>9 DEF spuriousWakeup
<1>10. ASSUME NEW w \in Workers, runClosure(w) PROVE KindInv' BY <1>10 DEF runClosure
<1>11. ASSUME NEW w \in Workers, finish(w) PROVE KindInv' BY <1>11 DEF finish, markAsReady
<1>12. CASE terminate BY <1>12 DEF terminate
<1>13. CASE notifyAll BY <1>13 DEF notifyAll
<1>14. CASE join BY <1>14 DEF join
<1>15. CASE UNCHANGED vars BY <1>15 DEF vars
<1> HIDE DEF PoolInv, KindInv, TypeOK
<1>16. QED
  BY <1>1, <1>2, <1>3, <1>4, <1>5, <1>6, <1>7, <1>8, <1>9, <1>10, <1>11, <1>12, <1>13, <1>14,
     <1>15 DEF Next, clientStep, workerStep, destroyStep

\* A step moves a task from one place to the next and never copies it.
LEMMA OnceStep == PoolInv /\ TypeOK' /\ [Next]_vars => RunsOnce'
<1> SUFFICES ASSUME PoolInv, TypeOK', [Next]_vars PROVE RunsOnce' OBVIOUS
<1> USE PoolAssumption DEF PoolInv, RunsOnce, Queued, Held, TypeOK, KindInv
<1>1. ASSUME NEW t \in Tasks, runInCaller(t) PROVE RunsOnce' BY <1>1 DEF runInCaller
<1>2. ASSUME NEW t \in Tasks, postWorkerTask(t) PROVE RunsOnce'
  <2>1. /\ t \notin Queued \cup Held \cup platform \cup ran /\ ~mIsReady[t]
        /\ platform = {} /\ mTaskQueue \in Seq(Tasks)
    BY Zenon, <1>2 DEF postWorkerTask, referenced, ReadyAfterRun
  <2>2. /\ DOMAIN mTaskQueue' = DOMAIN mTaskQueue \cup {Len(mTaskQueue) + 1}
        /\ \A i \in DOMAIN mTaskQueue : mTaskQueue'[i] = mTaskQueue[i]
        /\ mTaskQueue'[Len(mTaskQueue) + 1] = t
    BY <1>2 DEF postWorkerTask
  <2>3. Queued' = Queued \cup {t} /\ Held' = Held BY <1>2, <2>2 DEF postWorkerTask
  <2>4. \A i, j \in DOMAIN mTaskQueue' : mTaskQueue'[i] = mTaskQueue'[j] => i = j
    BY <2>1, <2>2
  <2>5. \A w \in Workers : worker'[w] = "mark" <=> worker[w] = "mark"
    BY <1>2 DEF postWorkerTask, createThreads
  <2>6. /\ task' = task /\ ran' = ran /\ platform' = platform /\ mIsReady' = mIsReady
        /\ client' = [client EXCEPT ![t] = "notify"]
    BY <1>2 DEF postWorkerTask
  <2>7. Queued' \cap (Held' \cup ran') = {} BY <2>1, <2>3, <2>6
  <2>8. \A s \in Queued' \cup Held' \cup platform' : client'[s] # "new" /\ ~mIsReady'[s]
    <3>1. \A s \in Queued \cup Held \cup platform : client[s] # "new" /\ ~mIsReady[s] /\ s # t
      BY <2>1
    <3>2. client'[t] = "notify" /\ \A s \in Tasks \ {t} : client'[s] = client[s] BY <2>6
    <3>3. Queued \cup Held \cup platform \subseteq Tasks OBVIOUS
    <3> HIDE DEF Queued, Held
    <3> QED BY <2>1, <2>3, <2>6, <3>1, <3>2, <3>3
  <2>9. \A s \in ran' : client'[s] # "new" BY <2>6
  <2>10. \A w \in Workers : task'[w] # None => (task'[w] \in ran' <=> worker'[w] = "mark")
    BY <2>5, <2>6
  <2>11. \A v, w \in Workers : task'[v] = task'[w] /\ task'[v] # None => v = w BY <2>6
  <2>12. platform' \cap (Queued' \cup Held') = {} BY <2>1, <2>6
  <2> HIDE DEF Queued, Held
  <2> QED BY <2>4, <2>7, <2>8, <2>9, <2>10, <2>11, <2>12
<1>3. ASSUME NEW t \in Tasks, notifyOne(t) PROVE RunsOnce' BY <1>3 DEF notifyOne
<1>4. ASSUME NEW t \in Tasks, delegate(t) PROVE RunsOnce'
  BY <1>4 DEF delegate, referenced, ReadyAfterRun
<1>5. ASSUME NEW t \in Tasks, wait(t) PROVE RunsOnce' BY <1>5 DEF wait
<1>6. ASSUME NEW t \in Tasks, spuriousReturn(t) PROVE RunsOnce' BY <1>6 DEF spuriousReturn
<1>7. ASSUME NEW t \in Tasks, RunTask(t) PROVE RunsOnce' BY <1>7 DEF RunTask, markAsReady
<1>8. ASSUME NEW w \in Workers, takeTask(w) PROVE RunsOnce'
  <2>1. CASE mTerminated \/ mTaskQueue = <<>>
    <3>1. UNCHANGED <<task, mTaskQueue, client, mIsReady, ran, platform>>
      BY <1>8, <2>1 DEF takeTask
    <3>2. worker'[w] # "mark" /\ task[w] = None
          /\ \A v \in Workers \ {w} : worker'[v] = worker[v]
      BY <1>8, <2>1 DEF takeTask
    <3>3. Queued' = Queued /\ Held' = Held BY <3>1
    <3> QED BY <3>1, <3>2, <3>3
  <2>2. CASE ~(mTerminated \/ mTaskQueue = <<>>)
    <3>1. Injective(mTaskQueue) BY DEF Injective
    <3>2. PICK t \in Tasks : t = Head(mTaskQueue) BY <2>2, <3>1, PopFront
    <3>3. mTaskQueue' = Tail(mTaskQueue) BY <1>8, <2>2 DEF takeTask
    <3>4. task' = [task EXCEPT ![w] = t] /\ worker' = [worker EXCEPT ![w] = "run"]
      BY <1>8, <2>2, <3>2 DEF takeTask
    <3>5. t \in Queued /\ Queued' \subseteq Queued /\ t \notin Queued'
      <4>1. Elements(mTaskQueue) = Queued /\ Elements(Tail(mTaskQueue)) = Queued'
        BY <3>3 DEF Elements
      <4> QED BY Zenon, <2>2, <3>1, <3>2, <4>1, PopFront
    <3>6. task[w] = None BY <1>8 DEF takeTask
    <3>7. Held' = Held \cup {t}
      <4>1. \A v \in Workers : task'[v] = IF v = w THEN t ELSE task[v] BY <3>4
      <4>2. t # None BY <3>2
      <4> QED BY <3>6, <4>1, <4>2
    <3>8. \A i, j \in DOMAIN mTaskQueue' : mTaskQueue'[i] = mTaskQueue'[j] => i = j
      <4>1. Injective(Tail(mTaskQueue)) BY <2>2, <3>1, PopFront
      <4> QED BY <3>3, <4>1 DEF Injective
    <3>9. ran' = ran /\ platform' = platform /\ mIsReady' = mIsReady /\ client' = client
      BY <1>8 DEF takeTask
    <3>10. t \notin Held \cup ran BY <3>5
    <3>11. \A v \in Workers : task'[v] = (IF v = w THEN t ELSE task[v])
                              /\ worker'[v] = (IF v = w THEN "run" ELSE worker[v])
      BY <3>4
    <3>12. \A u, v \in Workers : task'[u] = task'[v] /\ task'[u] # None => u = v
      BY <3>10, <3>11
    <3>13. \A v \in Workers : task'[v] # None => (task'[v] \in ran' <=> worker'[v] = "mark")
      BY <3>9, <3>10, <3>11
    <3>14. /\ Queued \cap (Held \cup ran) = {} /\ platform \cap (Queued \cup Held) = {}
           /\ \A s \in Queued \cup Held \cup platform : client[s] # "new" /\ ~mIsReady[s]
           /\ \A s \in ran : client[s] # "new"
      OBVIOUS
    <3> HIDE DEF Queued, Held
    <3>15. /\ Queued' \cap (Held' \cup ran') = {} /\ platform' \cap (Queued' \cup Held') = {}
           /\ \A s \in Queued' \cup Held' \cup platform' : client'[s] # "new" /\ ~mIsReady'[s]
           /\ \A s \in ran' : client'[s] # "new"
      BY <3>5, <3>7, <3>9, <3>14
    <3> QED BY <3>8, <3>12, <3>13, <3>15
  <2> QED BY <2>1, <2>2
<1>9. ASSUME NEW w \in Workers, spuriousWakeup(w) PROVE RunsOnce' BY <1>9 DEF spuriousWakeup
<1>10. ASSUME NEW w \in Workers, runClosure(w) PROVE RunsOnce' BY <1>10 DEF runClosure
<1>11. ASSUME NEW w \in Workers, finish(w) PROVE RunsOnce' BY <1>11 DEF finish, markAsReady
<1>12. CASE terminate BY <1>12 DEF terminate
<1>13. CASE notifyAll BY <1>13 DEF notifyAll
<1>14. CASE join BY <1>14 DEF join
<1>15. CASE UNCHANGED vars BY SMTT(30), <1>15 DEF vars
<1> HIDE DEF PoolInv, RunsOnce, Queued, Held, TypeOK, KindInv
<1>16. QED
  BY <1>1, <1>2, <1>3, <1>4, <1>5, <1>6, <1>7, <1>8, <1>9, <1>10, <1>11, <1>12, <1>13, <1>14,
     <1>15 DEF Next, clientStep, workerStep, destroyStep

\* An event is marked, and a wait returns, after the closure only.
LEMMA ReadyStep == PoolInv /\ TypeOK' /\ [Next]_vars => ReadyAfterRun'
<1> SUFFICES ASSUME PoolInv, TypeOK', [Next]_vars PROVE ReadyAfterRun' OBVIOUS
<1> USE PoolAssumption DEF PoolInv, ReadyAfterRun, RunsOnce, Queued, Held, TypeOK, KindInv
<1>1. ASSUME NEW t \in Tasks, runInCaller(t) PROVE ReadyAfterRun' BY <1>1 DEF runInCaller
<1>2. ASSUME NEW t \in Tasks, postWorkerTask(t) PROVE ReadyAfterRun' BY <1>2 DEF postWorkerTask, createThreads
<1>3. ASSUME NEW t \in Tasks, notifyOne(t) PROVE ReadyAfterRun' BY <1>3 DEF notifyOne
<1>4. ASSUME NEW t \in Tasks, delegate(t) PROVE ReadyAfterRun' BY <1>4 DEF delegate
<1>5. ASSUME NEW t \in Tasks, wait(t) PROVE ReadyAfterRun' BY <1>5 DEF wait
<1>6. ASSUME NEW t \in Tasks, spuriousReturn(t) PROVE ReadyAfterRun' BY <1>6 DEF spuriousReturn
<1>7. ASSUME NEW t \in Tasks, RunTask(t) PROVE ReadyAfterRun' BY <1>7 DEF RunTask, markAsReady
<1>8. ASSUME NEW w \in Workers, takeTask(w) PROVE ReadyAfterRun' BY <1>8 DEF takeTask
<1>9. ASSUME NEW w \in Workers, spuriousWakeup(w) PROVE ReadyAfterRun' BY <1>9 DEF spuriousWakeup
<1>10. ASSUME NEW w \in Workers, runClosure(w) PROVE ReadyAfterRun' BY <1>10 DEF runClosure
<1>11. ASSUME NEW w \in Workers, finish(w) PROVE ReadyAfterRun' BY <1>11 DEF finish, markAsReady
<1>12. CASE terminate BY <1>12 DEF terminate
<1>13. CASE notifyAll BY <1>13 DEF notifyAll
<1>14. CASE join BY <1>14 DEF join
<1>15. CASE UNCHANGED vars BY SMTT(30), <1>15 DEF vars
<1> HIDE DEF PoolInv, ReadyAfterRun, RunsOnce, Queued, Held, TypeOK, KindInv
<1>16. QED
  BY <1>1, <1>2, <1>3, <1>4, <1>5, <1>6, <1>7, <1>8, <1>9, <1>10, <1>11, <1>12, <1>13, <1>14,
     <1>15 DEF Next, clientStep, workerStep, destroyStep

\* After notify_all() no thread goes back to sleep.
LEMMA SleepStep == PoolInv /\ TypeOK' /\ [Next]_vars => NobodySleepsAtJoin'
<1> SUFFICES ASSUME PoolInv, TypeOK', [Next]_vars PROVE NobodySleepsAtJoin' OBVIOUS
<1> USE PoolAssumption DEF PoolInv, NobodySleepsAtJoin, InState, TypeOK, KindInv
<1>1. ASSUME NEW t \in Tasks, runInCaller(t) PROVE NobodySleepsAtJoin' BY <1>1 DEF runInCaller
<1>2. ASSUME NEW t \in Tasks, postWorkerTask(t) PROVE NobodySleepsAtJoin' BY <1>2 DEF postWorkerTask, createThreads
<1>3. ASSUME NEW t \in Tasks, notifyOne(t) PROVE NobodySleepsAtJoin' BY <1>3 DEF notifyOne
<1>4. ASSUME NEW t \in Tasks, delegate(t) PROVE NobodySleepsAtJoin' BY <1>4 DEF delegate
<1>5. ASSUME NEW t \in Tasks, wait(t) PROVE NobodySleepsAtJoin' BY <1>5 DEF wait
<1>6. ASSUME NEW t \in Tasks, spuriousReturn(t) PROVE NobodySleepsAtJoin' BY <1>6 DEF spuriousReturn
<1>7. ASSUME NEW t \in Tasks, RunTask(t) PROVE NobodySleepsAtJoin' BY <1>7 DEF RunTask, markAsReady
<1>8. ASSUME NEW w \in Workers, takeTask(w) PROVE NobodySleepsAtJoin' BY <1>8 DEF takeTask
<1>9. ASSUME NEW w \in Workers, spuriousWakeup(w) PROVE NobodySleepsAtJoin' BY <1>9 DEF spuriousWakeup
<1>10. ASSUME NEW w \in Workers, runClosure(w) PROVE NobodySleepsAtJoin' BY <1>10 DEF runClosure
<1>11. ASSUME NEW w \in Workers, finish(w) PROVE NobodySleepsAtJoin' BY <1>11 DEF finish, markAsReady
<1>12. CASE terminate BY <1>12 DEF terminate
<1>13. CASE notifyAll BY <1>13 DEF notifyAll
<1>14. CASE join BY <1>14 DEF join
<1>15. CASE UNCHANGED vars BY <1>15 DEF vars
<1> HIDE DEF PoolInv, NobodySleepsAtJoin, InState, TypeOK, KindInv
<1>16. QED
  BY <1>1, <1>2, <1>3, <1>4, <1>5, <1>6, <1>7, <1>8, <1>9, <1>10, <1>11, <1>12, <1>13, <1>14,
     <1>15 DEF Next, clientStep, workerStep, destroyStep

\* The threads and the notifications counted by NoLostWakeup are finitely many.
LEMMA Finite ==
  /\ IsFiniteSet(Workers) /\ IsFiniteSet(Tasks)
  /\ \A S \in SUBSET Workers : IsFiniteSet(S) /\ Cardinality(S) \in Nat
  /\ \A S \in SUBSET Tasks : IsFiniteSet(S) /\ Cardinality(S) \in Nat
BY PoolAssumption, FS_Subset, FS_CardinalityType

\* How the count changes: with more threads awake or more notifications it does not
\* fall, and one thread or notification less costs one.
LEMMA Count ==
  ASSUME NEW U, IsFiniteSet(U), NEW S \in SUBSET U, NEW T \in SUBSET U
  PROVE  /\ S \subseteq T => Cardinality(S) <= Cardinality(T)
         /\ \A x \in U \ S : T = S \cup {x} => Cardinality(T) = Cardinality(S) + 1
         /\ \A x \in S : T = S \ {x} => Cardinality(T) = Cardinality(S) - 1
<1>1. IsFiniteSet(S) /\ IsFiniteSet(T) BY FS_Subset
<1>2. S \subseteq T => Cardinality(S) <= Cardinality(T) BY <1>1, FS_Subset
<1>3. ASSUME NEW x \in U \ S PROVE Cardinality(S \cup {x}) = Cardinality(S) + 1
  BY Zenon, <1>1, FS_AddElement
<1>4. ASSUME NEW x \in S PROVE Cardinality(S \ {x}) = Cardinality(S) - 1
  BY Zenon, <1>1, FS_RemoveElement
<1> QED BY <1>2, <1>3, <1>4

\* No step loses a wake-up.
LEMMA WakeStep == PoolInv /\ TypeOK' /\ NoLostWakeup /\ [Next]_vars => NoLostWakeup'
<1> SUFFICES ASSUME PoolInv, TypeOK', NoLostWakeup, [Next]_vars PROVE NoLostWakeup' OBVIOUS
<1> DEFINE C == InState("check")
           I == InState("waiting")
           N == Notifying
<1>1. /\ C \in SUBSET Workers /\ C' \in SUBSET Workers /\ N \in SUBSET Tasks /\ N' \in SUBSET Tasks
      /\ Cardinality(C) \in Nat /\ Cardinality(C') \in Nat
      /\ Cardinality(N) \in Nat /\ Cardinality(N') \in Nat
      /\ Len(mTaskQueue) \in Nat /\ Len(mTaskQueue') \in Nat
  <2>1. /\ C \in SUBSET Workers /\ C' \in SUBSET Workers
        /\ N \in SUBSET Tasks /\ N' \in SUBSET Tasks
    BY DEF InState, Notifying
  <2>2. Len(mTaskQueue) \in Nat /\ Len(mTaskQueue') \in Nat BY DEF PoolInv, TypeOK
  <2> HIDE DEF C, N
  <2> QED BY <2>1, <2>2, Finite
<1>2. ASSUME mTerminated' = mTerminated, mTaskQueue' = mTaskQueue,
             I' \subseteq I, C \subseteq C', N' = N
      PROVE  NoLostWakeup'
  <2>1. Cardinality(C) <= Cardinality(C') BY <1>1, <1>2, Finite, Count
  <2> QED BY <1>1, <1>2, <2>1 DEF NoLostWakeup
<1>3. ASSUME NEW t \in Tasks, postWorkerTask(t) PROVE NoLostWakeup'
  <2>1. t \notin N /\ N' = N \cup {t} /\ C \subseteq C' /\ I' = I
    BY <1>3 DEF postWorkerTask, referenced, createThreads, InState, Notifying, PoolInv, TypeOK
  <2>2. Len(mTaskQueue') = Len(mTaskQueue) + 1 /\ mTerminated' = mTerminated
    BY <1>3 DEF postWorkerTask, PoolInv, TypeOK
  <2>3. Cardinality(N') = Cardinality(N) + 1 BY <1>1, <2>1, Finite, Count
  <2>4. Cardinality(C) <= Cardinality(C') BY <1>1, <2>1, Finite, Count
  <2> QED BY <1>1, <2>1, <2>2, <2>3, <2>4 DEF NoLostWakeup
<1>4. ASSUME NEW t \in Tasks, notifyOne(t) PROVE NoLostWakeup'
  <2>1. t \in N /\ N' = N \ {t} /\ mTaskQueue' = mTaskQueue /\ mTerminated' = mTerminated
    BY <1>4 DEF notifyOne, Notifying, PoolInv, TypeOK
  <2>2. Cardinality(N') = Cardinality(N) - 1 BY <1>1, <2>1, Finite, Count
  <2>3. ASSUME NEW w \in Workers, worker[w] = "waiting", worker' = [worker EXCEPT ![w] = "check"]
        PROVE  NoLostWakeup'
    <3>1. w \in Workers \ C /\ C' = C \cup {w} /\ w \in I
      BY <2>3 DEF InState, PoolInv, TypeOK
    <3>2. Cardinality(C') = Cardinality(C) + 1 BY <1>1, <3>1, Finite, Count
    <3> QED BY <1>1, <2>1, <2>2, <3>1, <3>2 DEF NoLostWakeup
  <2>4. ASSUME \A w \in Workers : worker[w] # "waiting", UNCHANGED worker PROVE NoLostWakeup'
    BY <2>4 DEF NoLostWakeup, InState
  <2> QED BY <1>4, <2>3, <2>4 DEF notifyOne
<1>5. ASSUME NEW w \in Workers, takeTask(w) PROVE NoLostWakeup'
  <2>1. CASE mTerminated BY <1>5, <2>1 DEF takeTask, NoLostWakeup
  <2>2. CASE mTaskQueue = <<>> BY <1>1, <1>5, <2>2 DEF takeTask, NoLostWakeup
  <2>3. CASE ~mTerminated /\ mTaskQueue # <<>>
    <3>1. w \in C /\ C' = C \ {w} /\ I' = I /\ N' = N /\ mTerminated' = mTerminated
      BY <1>5, <2>3 DEF takeTask, InState, Notifying, PoolInv, TypeOK
    <3>2. Len(mTaskQueue') = Len(mTaskQueue) - 1
      BY <1>5, <2>3 DEF takeTask, PoolInv, TypeOK
    <3>3. Cardinality(C') = Cardinality(C) - 1 BY <1>1, <3>1, Finite, Count
    <3> QED BY <1>1, <3>1, <3>2, <3>3 DEF NoLostWakeup
  <2> QED BY <2>1, <2>2, <2>3
<1>6. ASSUME NEW t \in Tasks,
             runInCaller(t) \/ delegate(t) \/ wait(t) \/ spuriousReturn(t) \/ RunTask(t)
      PROVE  NoLostWakeup'
  <2>1. mTerminated' = mTerminated /\ mTaskQueue' = mTaskQueue /\ worker' = worker
    BY <1>6 DEF runInCaller, delegate, wait, spuriousReturn, RunTask
  <2>2. N' = N
    BY <1>6 DEF runInCaller, delegate, wait, spuriousReturn, RunTask, markAsReady, referenced,
                Notifying, PoolInv, TypeOK
  <2> QED BY <1>2, <2>1, <2>2 DEF InState
<1>7. ASSUME NEW w \in Workers, spuriousWakeup(w) \/ runClosure(w) \/ finish(w)
      PROVE  NoLostWakeup'
  <2>1. mTerminated' = mTerminated /\ mTaskQueue' = mTaskQueue
    BY <1>7 DEF spuriousWakeup, runClosure, finish
  <2>2. N' = N
    BY <1>7 DEF spuriousWakeup, runClosure, finish, markAsReady, Notifying, PoolInv, TypeOK
  <2>3. I' \subseteq I /\ C \subseteq C'
    BY <1>7 DEF spuriousWakeup, runClosure, finish, InState, PoolInv, TypeOK
  <2> QED BY <1>2, <2>1, <2>2, <2>3
<1>8. CASE terminate \/ notifyAll
  BY <1>8 DEF terminate, notifyAll, NoLostWakeup, PoolInv, KindInv
<1>9. CASE join \/ UNCHANGED vars
  <2>1. /\ mTerminated' = mTerminated /\ mTaskQueue' = mTaskQueue /\ worker' = worker
        /\ client' = client
    BY <1>9 DEF join, vars
  <2> QED BY <1>2, <2>1 DEF InState, Notifying
<1> QED
  BY <1>3, <1>4, <1>5, <1>6, <1>7, <1>8, <1>9 DEF Next, clientStep, workerStep, destroyStep

\* The inductive invariant holds in every reachable state.
LEMMA PoolInvariant == Spec => [](PoolInv /\ NoLostWakeup)
<1>1. ASSUME Init PROVE PoolInv /\ NoLostWakeup
  <2>1. TypeOK
    <3>1. pool \in {"single", "async", "delegate"} BY <1>1, PoolAssumption DEF Init
    <3>2. \A w \in Workers : task[w] \notin Tasks /\ worker[w] = "notCreated"
      BY <1>1, PoolAssumption DEF Init
    <3>3. mTaskQueue \in Seq(Tasks) BY <1>1 DEF Init
    <3>4. task \in [Workers -> Tasks \cup {None}] BY <1>1 DEF Init
    <3> QED BY Zenon, <1>1, <3>1, <3>2, <3>3, <3>4 DEF Init, TypeOK
  <2>2. KindInv /\ ReadyAfterRun BY <1>1 DEF Init, KindInv, ReadyAfterRun
  <2>3. InState("waiting") = {} BY <1>1 DEF Init, InState
  <2>4. Queued = {} /\ Held = {} BY <1>1 DEF Init, Queued, Held
  <2>5. RunsOnce BY <1>1, <2>4 DEF Init, RunsOnce
  <2> QED BY <2>1, <2>2, <2>3, <2>5 DEF PoolInv, NoLostWakeup, NobodySleepsAtJoin
<1>2. PoolInv /\ NoLostWakeup /\ [Next]_vars => (PoolInv /\ NoLostWakeup)'
  BY TypeStep, KindStep, OnceStep, ReadyStep, SleepStep, WakeStep DEF PoolInv
<1> QED BY <1>1, <1>2, PTL DEF Spec, PoolInv

\* The state of a pool keeps its type, and a thread has a task exactly while it runs one.
THEOREM TypeCorrect == Spec => []TypeOK
BY PoolInvariant, PTL DEF PoolInv

\* No closure is run twice, by any number of threads.
THEOREM OnceCorrect == Spec => []RunsOnce
BY PoolInvariant, PTL DEF PoolInv

\* A wait returns only after the closure has, and never sleeps through the event.
THEOREM ReadyCorrect == Spec => []ReadyAfterRun
BY PoolInvariant, PTL DEF PoolInv

\* While a thread sleeps, every queued task has an awake thread or a notification.
THEOREM WakeupCorrect == Spec => []NoLostWakeup
BY PoolInvariant, PTL

\* The destructor joins threads that are all awake.
THEOREM JoinCorrect == Spec => []NobodySleepsAtJoin
BY PoolInvariant, PTL DEF PoolInv

-----------------------------------------------------------------------------
(* FixedQueue: slots                                                       *)

\* Quotient and remainder.
LEMMA DivMod ==
  ASSUME NEW a \in Nat, NEW n \in Nat \ {0}
  PROVE  /\ a \div n \in Nat /\ a = n * (a \div n) + (a % n)
         /\ a % n \in 0..(n - 1)
OBVIOUS

\* A positive multiple of n is at least n.
LEMMA Multiple == ASSUME NEW n \in Nat, NEW k \in Nat, k >= 1 PROVE n * k >= n
OBVIOUS

\* Indices less than n apart have different slots.
LEMMA ModDistinct ==
  ASSUME NEW n \in Nat \ {0}, NEW a \in Nat, NEW b \in Nat, a < b, b < a + n
  PROVE  a % n # b % n
<1> SUFFICES ASSUME a % n = b % n PROVE FALSE OBVIOUS
<1>1. PICK p \in Nat : a = n * p + (a % n) BY Zenon, DivMod
<1>2. PICK q \in Nat : b = n * q + (b % n) BY Zenon, DivMod
<1>3. b - a = n * q - n * p BY <1>1, <1>2
<1>4. n * q - n * p = n * (q - p) OBVIOUS
<1>5. CASE q <= p
  <2>1. n * (p - q) >= 0 BY <1>5
  <2> QED BY <1>3, <1>4, <2>1
<1>6. CASE q > p
  <2>1. q - p \in Nat /\ q - p >= 1 BY <1>6
  <2>2. n * (q - p) >= n BY <2>1, Multiple
  <2> QED BY <1>3, <1>4, <2>2
<1> QED BY <1>5, <1>6

\* Going round once leads to the same slot.
LEMMA ModRound == ASSUME NEW n \in Nat \ {0}, NEW a \in Nat PROVE (a + n) % n = a % n
<1>1. PICK p \in Nat : a = n * p + (a % n) BY Zenon, DivMod
<1> DEFINE b == a + n
<1>b. b \in Nat OBVIOUS
<1> HIDE DEF b
<1>2. PICK q \in Nat : b = n * q + (b % n) BY Zenon, <1>b, DivMod
<1>3. a % n \in 0..(n - 1) /\ b % n \in 0..(n - 1) BY <1>b, DivMod
<1>4. n * p + n = n * (p + 1) OBVIOUS
<1>5. n * (p + 1) + (a % n) = n * q + (b % n) BY <1>1, <1>2, <1>4 DEF b
<1>6. CASE q = p + 1 BY <1>3, <1>5, <1>6 DEF b
<1>7. CASE q > p + 1
  <2>1. n * q - n * (p + 1) = n * (q - (p + 1)) OBVIOUS
  <2>2. n * (q - (p + 1)) >= n BY <1>7, Multiple
  <2> QED BY <1>3, <1>5, <2>1, <2>2
<1>8. CASE q < p + 1
  <2>1. n * (p + 1) - n * q = n * ((p + 1) - q) OBVIOUS
  <2>2. n * ((p + 1) - q) >= n BY <1>8, Multiple
  <2> QED BY <1>3, <1>5, <2>1, <2>2
<1> QED BY <1>6, <1>7, <1>8

-----------------------------------------------------------------------------
(* The elements between two indices                                        *)

View(d, m, a, b) == [i \in 1..(b - a) |-> d[(a + i - 1) % m]]

\* Only the slots of the elements matter.
LEMMA ViewSame ==
  ASSUME NEW a \in Nat, NEW b \in Nat, NEW d, NEW e, NEW m, NEW n,
         \A j \in a..(b - 1) : d[j % m] = e[j % n]
  PROVE  View(d, m, a, b) = View(e, n, a, b)
<1>1. ASSUME NEW i \in 1..(b - a) PROVE d[(a + i - 1) % m] = e[(a + i - 1) % n]
  <2>1. a + i - 1 \in a..(b - 1) OBVIOUS
  <2> QED BY <2>1
<1> QED BY <1>1 DEF View

\* The slots of the view, as a set, and the view as a sequence.
ViewElements(d, m, a, b) == {d[j % m] : j \in a..(b - 1)}

\* The view is a sequence of these.
LEMMA ViewSeq ==
  ASSUME NEW m, NEW d, NEW a \in Nat, NEW b \in Nat, a <= b
  PROVE  View(d, m, a, b) \in Seq(ViewElements(d, m, a, b))
<1>1. \A i \in 1..(b - a) : a + i - 1 \in a..(b - 1) OBVIOUS
<1>2. View(d, m, a, b) \in [1..(b - a) -> ViewElements(d, m, a, b)] BY <1>1 DEF View, ViewElements
<1>3. b - a \in Nat OBVIOUS
<1> QED BY <1>2, <1>3

\* Its length.
LEMMA ViewLen ==
  ASSUME NEW m, NEW d, NEW a \in Nat, NEW b \in Nat, a <= b
  PROVE  Len(View(d, m, a, b)) = b - a
<1>1. DOMAIN View(d, m, a, b) = 1..(b - a) BY DEF View
<1>2. PICK s \in Seq(ViewElements(d, m, a, b)) : s = View(d, m, a, b) BY ViewSeq
<1>3. b - a \in Nat OBVIOUS
<1>4. Len(s) = b - a BY <1>1, <1>2, <1>3
<1> QED BY <1>2, <1>4

\* The view with an element more.
LEMMA ViewAppend ==
  ASSUME NEW m, NEW d, NEW a \in Nat, NEW b \in Nat, a <= b
  PROVE  View(d, m, a, b + 1) = Append(View(d, m, a, b), d[b % m])
<1>1. PICK s \in Seq(ViewElements(d, m, a, b)) : s = View(d, m, a, b) BY ViewSeq
<1>2. PICK n \in Nat : n = b - a OBVIOUS
<1>3. Len(s) = n
  <2>1. a <= b OBVIOUS
  <2>2. Len(View(d, m, a, b)) = b - a BY <2>1, ViewLen
  <2> QED BY <1>1, <1>2, <2>2
<1>4. Append(s, d[b % m]) = [i \in 1..(n + 1) |-> IF i = n + 1 THEN d[b % m] ELSE s[i]]
  BY <1>1, <1>3
<1>5. ASSUME NEW i \in 1..(n + 1)
      PROVE  d[(a + i - 1) % m] = IF i = n + 1 THEN d[b % m] ELSE s[i]
  <2>1. CASE i = n + 1
    <3>1. a + i - 1 = b BY <1>2, <2>1
    <3> QED BY <2>1, <3>1
  <2>2. CASE i # n + 1
    <3>1. i \in 1..(b - a) BY <1>2, <2>2
    <3> QED BY <1>1, <2>2, <3>1 DEF View
  <2> QED BY <2>1, <2>2
<1>6. b + 1 - a = n + 1 BY <1>2
<1>7. View(d, m, a, b + 1) = Append(s, d[b % m])
  <2>1. View(d, m, a, b + 1) = [i \in 1..(n + 1) |-> d[(a + i - 1) % m]] BY <1>6 DEF View
  <2>2. [i \in 1..(n + 1) |-> d[(a + i - 1) % m]]
          = [i \in 1..(n + 1) |-> IF i = n + 1 THEN d[b % m] ELSE s[i]]
    BY Zenon, <1>5
  <2> QED BY Zenon, <1>4, <2>1, <2>2
<1> QED BY <1>1, <1>7

\* Its first element.
LEMMA ViewHead ==
  ASSUME NEW m, NEW d, NEW a \in Nat, NEW b \in Nat, a < b
  PROVE  Head(View(d, m, a, b)) = d[a % m]
<1>1. PICK s \in Seq(ViewElements(d, m, a, b)) : s = View(d, m, a, b) BY ViewSeq
<1>2. 1 \in 1..(b - a) /\ a + 1 - 1 = a OBVIOUS
<1>3. s[1] = d[a % m] BY <1>1, <1>2 DEF View
<1>4. Head(s) = d[a % m] BY <1>3
<1> QED BY <1>1, <1>4

\* Its last element.
LEMMA ViewLast ==
  ASSUME NEW m, NEW d, NEW a \in Nat, NEW b \in Nat, a < b
  PROVE  View(d, m, a, b)[Len(View(d, m, a, b))] = d[(b - 1) % m]
<1>1. Len(View(d, m, a, b)) = b - a BY ViewLen
<1>2. b - a \in 1..(b - a) /\ a + (b - a) - 1 = b - 1 OBVIOUS
<1>3. View(d, m, a, b)[b - a] = d[(b - 1) % m] BY <1>2 DEF View
<1> QED BY <1>1, <1>3

\* The view without its first element.
LEMMA ViewTail ==
  ASSUME NEW m, NEW d, NEW a \in Nat, NEW b \in Nat, a < b
  PROVE  Tail(View(d, m, a, b)) = View(d, m, a + 1, b)
<1>1. PICK s \in Seq(ViewElements(d, m, a, b)) : s = View(d, m, a, b) BY ViewSeq
<1>2. PICK n \in Nat : n = b - a /\ n >= 1 OBVIOUS
<1>3. Len(s) = n
  <2>1. a <= b OBVIOUS
  <2>2. Len(View(d, m, a, b)) = b - a BY <2>1, ViewLen
  <2> QED BY <1>1, <1>2, <2>2
<1>4. Len(Tail(s)) = n - 1 /\ Tail(s) \in Seq(ViewElements(d, m, a, b)) BY <1>1, <1>2, <1>3
<1>5. \A i \in 1..(n - 1) : Tail(s)[i] = s[i + 1] BY <1>1, <1>2, <1>3
<1>6. Tail(s) \in [1..(n - 1) -> ViewElements(d, m, a, b)] BY Zenon, <1>4, LenProperties
<1>7. ASSUME NEW i \in 1..(n - 1) PROVE s[i + 1] = d[((a + 1) + i - 1) % m]
  <2>1. i + 1 \in 1..(b - a) /\ a + (i + 1) - 1 = (a + 1) + i - 1 BY <1>2
  <2> QED BY <1>1, <2>1 DEF View
<1>8. b - (a + 1) = n - 1 BY <1>2
<1>9. Tail(s) = View(d, m, a + 1, b) BY Zenon, <1>5, <1>6, <1>7, <1>8 DEF View
<1> QED BY <1>1, <1>9

\* It is empty only between equal indices.
LEMMA ViewNotEmpty ==
  ASSUME NEW m, NEW d, NEW a \in Nat, NEW b \in Nat, a < b
  PROVE  View(d, m, a, b) # <<>>
<1>1. PICK s \in Seq(ViewElements(d, m, a, b)) : s = View(d, m, a, b) BY ViewSeq
<1>2. Len(s) = b - a
  <2>1. a <= b OBVIOUS
  <2>2. Len(View(d, m, a, b)) = b - a BY <2>1, ViewLen
  <2> QED BY <1>1, <2>2
<1>3. s # <<>> BY <1>2
<1> QED BY <1>1, <1>3

-----------------------------------------------------------------------------
(* The inductive invariant                                                 *)

\* mSize counts the elements, one that is being popped included and one that is
\* being pushed not; a push under way has a free slot, a pop under way an element.
SizeInv ==
  /\ mSize = mEndIndex - mFrontIndex - (IF producer = "count" THEN 1 ELSE 0)
                                     + (IF consumer = "count" THEN 1 ELSE 0)
  /\ mSize <= mMaxSize
  /\ producer # "idle" => mSize < mMaxSize
  /\ consumer # "idle" => 1 <= toPop /\ toPop <= mSize

\* What push() has written stays until it counts.
WriteInv ==
  /\ producer = "advance" => mData[mEndIndex % mMaxSize] = value
  /\ producer = "count" => mData[(mEndIndex - 1) % mMaxSize] = value

QueueInv == QueueTypeOK /\ SizeInv /\ WriteInv

\* The indices that are in use are in order and less than mMaxSize apart.
LEMMA Bounds ==
  ASSUME QueueTypeOK, SizeInv
  PROVE  /\ mMaxSize \in Nat /\ First \in Nat /\ End \in Nat /\ First <= End
         /\ End - First <= mMaxSize
         /\ producer # "idle" => mMaxSize # 0 /\ End - First < mMaxSize
         /\ consumer \in {"front", "erase"} =>
              mMaxSize # 0 /\ First = mFrontIndex /\ First < End
BY QueueAssumption DEF QueueTypeOK, SizeInv, First, End

\* No step but a resize changes the size of the storage, and every step keeps the type.
LEMMA QueueTypeStep == QueueInv /\ [QueueNext]_queueVars => QueueTypeOK'
<1> SUFFICES ASSUME QueueInv, [QueueNext]_queueVars PROVE QueueTypeOK' OBVIOUS
<1>0. QueueTypeOK /\ SizeInv BY DEF QueueInv
<1>1. ASSUME NEW v \in Values, push(v) PROVE QueueTypeOK' BY <1>0, <1>1 DEF push, QueueTypeOK
<1>2. CASE pushWrite
  <2>1. mEndIndex % mMaxSize \in 0..(mMaxSize - 1)
    BY Zenon, <1>0, <1>2, Bounds, DivMod DEF pushWrite, QueueTypeOK
  <2>2. mData' \in Storage(mMaxSize) BY <1>0, <1>2, <2>1 DEF pushWrite, QueueTypeOK, Storage
  <2> QED BY <1>0, <1>2, <2>2 DEF pushWrite, QueueTypeOK
<1>3. CASE pushAdvance BY <1>0, <1>3 DEF pushAdvance, QueueTypeOK
<1>4. CASE pushCount BY <1>0, <1>4 DEF pushCount, QueueTypeOK
<1>5. CASE take BY <1>0, <1>5 DEF take, QueueTypeOK
<1>6. CASE front BY <1>0, <1>6 DEF front, QueueTypeOK
<1>7. CASE clear BY <1>0, <1>7 DEF clear, QueueTypeOK
<1>8. CASE popErase
  <2>1. mData' \in Storage(mMaxSize) BY Zenon, <1>0, <1>8 DEF popErase, QueueTypeOK, Storage
  <2> QED BY <1>0, <1>8, <2>1 DEF popErase, QueueTypeOK
<1>9. CASE popAdvance BY <1>0, <1>9 DEF popAdvance, QueueTypeOK
<1>10. CASE popCount BY <1>0, <1>10 DEF popCount, QueueTypeOK, SizeInv
<1>11. CASE back BY <1>0, <1>11 DEF back, QueueTypeOK
<1>12. ASSUME NEW n \in Capacities, updateCapacity(n) PROVE QueueTypeOK'
  <2>1. ASSUME NEW i \in mFrontIndex..(mEndIndex - 1) PROVE mData[i % mMaxSize] \in Values \cup {NoValue}
    <3>1. mMaxSize \in Nat \ {0} /\ i \in Nat
      BY <1>0, <1>12, Bounds DEF updateCapacity, bothIdle, QueueTypeOK, First, End
    <3>2. i % mMaxSize \in 0..(mMaxSize - 1) BY <3>1, DivMod
    <3> QED BY <1>0, <3>2 DEF QueueTypeOK, Storage
  <2>2. moved(n) \in Storage(n) BY <2>1 DEF moved, Storage
  <2> QED BY <1>0, <1>12, <2>2 DEF updateCapacity, QueueTypeOK
<1>13. CASE UNCHANGED queueVars BY <1>0, <1>13 DEF queueVars, QueueTypeOK
<1> QED
  BY <1>1, <1>2, <1>3, <1>4, <1>5, <1>6, <1>7, <1>8, <1>9, <1>10, <1>11, <1>12, <1>13 DEF QueueNext

\* Every step keeps the count right.
LEMMA SizeStep == QueueInv /\ QueueTypeOK' /\ [QueueNext]_queueVars => SizeInv'
<1> SUFFICES ASSUME QueueInv, QueueTypeOK', [QueueNext]_queueVars PROVE SizeInv' OBVIOUS
<1> USE QueueAssumption DEF QueueInv, QueueTypeOK, SizeInv
<1>1. ASSUME NEW v \in Values, push(v) PROVE SizeInv' BY <1>1 DEF push, full
<1>2. CASE pushWrite BY <1>2 DEF pushWrite
<1>3. CASE pushAdvance BY <1>3 DEF pushAdvance
<1>4. CASE pushCount BY <1>4 DEF pushCount
<1>5. CASE take BY <1>5 DEF take, empty
<1>6. CASE front BY <1>6 DEF front
<1>7. CASE clear BY <1>7 DEF clear, empty
<1>8. CASE popErase BY <1>8 DEF popErase
<1>9. CASE popAdvance BY <1>9 DEF popAdvance
<1>10. CASE popCount BY <1>10 DEF popCount
<1>11. CASE back BY <1>11 DEF back
<1>12. ASSUME NEW n \in Capacities, updateCapacity(n) PROVE SizeInv'
  BY <1>12 DEF updateCapacity, bothIdle
<1>13. CASE UNCHANGED queueVars BY <1>13 DEF queueVars
<1> HIDE DEF QueueInv, QueueTypeOK, SizeInv
<1> QED
  BY <1>1, <1>2, <1>3, <1>4, <1>5, <1>6, <1>7, <1>8, <1>9, <1>10, <1>11, <1>12, <1>13 DEF QueueNext

\* The consumer never erases what push() has written and not yet counted.
LEMMA WriteStep == QueueInv /\ QueueTypeOK' /\ [QueueNext]_queueVars => WriteInv'
<1> SUFFICES ASSUME QueueInv, QueueTypeOK', [QueueNext]_queueVars PROVE WriteInv' OBVIOUS
<1>0. QueueTypeOK /\ SizeInv /\ WriteInv BY DEF QueueInv
<1>1. ASSUME NEW v \in Values, push(v) PROVE WriteInv' BY <1>0, <1>1 DEF push, WriteInv
<1>2. CASE pushWrite
  <2>1. mEndIndex % mMaxSize \in 0..(mMaxSize - 1)
    BY <1>0, <1>2, Bounds, DivMod DEF pushWrite, QueueTypeOK
  <2> QED BY <1>0, <1>2, <2>1 DEF pushWrite, WriteInv, QueueTypeOK, Storage
<1>3. CASE pushAdvance
  <2>1. mEndIndex' - 1 = mEndIndex BY <1>0, <1>3 DEF pushAdvance, QueueTypeOK
  <2> QED BY <1>0, <1>3, <2>1 DEF pushAdvance, WriteInv
<1>4. CASE pushCount BY <1>0, <1>4 DEF pushCount, WriteInv
<1>5. CASE take \/ front \/ clear \/ popAdvance \/ popCount \/ back \/ UNCHANGED queueVars
  BY <1>0, <1>5 DEF take, front, clear, popAdvance, popCount, back, queueVars, WriteInv
<1>6. CASE popErase
  <2>1. /\ mMaxSize \in Nat \ {0} /\ mFrontIndex \in Nat /\ mFrontIndex < End
        /\ producer # "idle" => End < mFrontIndex + mMaxSize
    BY <1>0, <1>6, Bounds DEF popErase, QueueTypeOK
  <2>2. producer # "idle" => End % mMaxSize # mFrontIndex % mMaxSize
    <3>1. PICK n \in Nat \ {0}, f \in Nat, e \in Nat : n = mMaxSize /\ f = mFrontIndex /\ e = End
      BY <1>0, <2>1, Bounds
    <3>2. f < e /\ (producer # "idle" => e < f + n) BY <2>1, <3>1
    <3>3. producer # "idle" => f % n # e % n BY Zenon, <3>2, ModDistinct
    <3> QED BY <3>1, <3>3
  <2>3. /\ producer = "advance" => mEndIndex = End
        /\ producer = "count" => mEndIndex - 1 = End
    BY DEF End
  <2>4. producer \in {"advance", "count"} => mData'[End % mMaxSize] = mData[End % mMaxSize]
    <3>1. End % mMaxSize \in 0..(mMaxSize - 1)
      <4>1. End \in Nat /\ mMaxSize \in Nat \ {0} BY <1>0, <2>1, Bounds
      <4> QED BY <4>1, DivMod
    <3> QED BY <1>0, <1>6, <2>2, <3>1 DEF popErase, QueueTypeOK, Storage
  <2> QED BY <1>0, <1>6, <2>3, <2>4 DEF popErase, WriteInv
<1>7. ASSUME NEW n \in Capacities, updateCapacity(n) PROVE WriteInv'
  BY <1>7 DEF updateCapacity, bothIdle, WriteInv
<1> QED BY <1>1, <1>2, <1>3, <1>4, <1>5, <1>6, <1>7 DEF QueueNext

-----------------------------------------------------------------------------
(* What follows                                                            *)

\* The inductive invariant holds in every reachable state.
LEMMA QueueInvariant == QueueSpec => []QueueInv
<1>1. QueueInit => QueueInv
  BY QueueAssumption DEF QueueInit, QueueInv, QueueTypeOK, SizeInv, WriteInv, Storage
<1>2. QueueInv /\ [QueueNext]_queueVars => QueueInv'
  BY QueueTypeStep, SizeStep, WriteStep DEF QueueInv
<1> QED BY <1>1, <1>2, PTL DEF QueueSpec

\* The state of the queue keeps its type, for every capacity.
THEOREM QueueTypeCorrect == QueueSpec => []QueueTypeOK
BY QueueInvariant, PTL DEF QueueInv

\* The assertions of push(), pop() and front() hold, whatever the other thread does.
THEOREM AssertionsCorrect == QueueSpec => []AssertionsHold
<1>1. QueueInv => AssertionsHold BY DEF QueueInv, QueueTypeOK, SizeInv, AssertionsHold
<1> QED BY <1>1, QueueInvariant, PTL

\* The two threads never use the same slot at the same time.
THEOREM SlotsCorrect == QueueSpec => []NoSlotRace
<1>1. ASSUME QueueInv PROVE NoSlotRace
  <2> SUFFICES ASSUME producer = "write", consumer \in {"front", "erase"}
               PROVE mEndIndex % mMaxSize # mFrontIndex % mMaxSize
    BY DEF NoSlotRace
  <2>1. QueueTypeOK /\ SizeInv BY <1>1 DEF QueueInv
  <2>2. PICK n \in Nat \ {0}, f \in Nat, e \in Nat :
          n = mMaxSize /\ f = mFrontIndex /\ e = mEndIndex
    BY <2>1, Bounds DEF QueueTypeOK
  <2>3. f < e /\ e < f + n BY <2>1, <2>2, Bounds DEF First, End
  <2> QED BY Zenon, <2>2, <2>3, ModDistinct
<1> QED BY <1>1, QueueInvariant, PTL

\* Every step is a step of the abstract queue, or changes nothing of it.
LEMMA StepRefines ==
  QueueInv /\ QueueTypeOK' /\ [QueueNext]_queueVars => [F!Next]_<<Contents, mMaxSize, seen>>
<1> SUFFICES ASSUME QueueInv, QueueTypeOK', [QueueNext]_queueVars
             PROVE  [F!Next]_<<Contents, mMaxSize, seen>>
  OBVIOUS
<1>0. QueueTypeOK /\ SizeInv /\ WriteInv BY DEF QueueInv
<1>1. PICK m \in Nat, a \in Nat, b \in Nat : m = mMaxSize /\ a = First /\ b = End
  BY <1>0, Bounds
<1>2. /\ a <= b /\ b - a <= m
      /\ producer # "idle" => m # 0 /\ b - a < m
      /\ consumer \in {"front", "erase"} => m # 0 /\ a = mFrontIndex /\ a < b
  BY <1>0, <1>1, Bounds
<1>3. Contents = View(mData, m, a, b) BY <1>1 DEF Contents, View
<1>4. m # 0 => \A j \in Nat : j % m \in 0..(m - 1)
  BY <1>1, DivMod
<1>5. ASSUME UNCHANGED <<mData, mMaxSize, seen>>, First' = First, End' = End
      PROVE  UNCHANGED <<Contents, mMaxSize, seen>>
  BY <1>5 DEF Contents
<1>6. CASE (\E v \in Values : push(v)) \/ take \/ clear \/ popCount \/ UNCHANGED queueVars
  BY <1>5, <1>6 DEF push, take, clear, popCount, queueVars, First, End
<1>7. CASE pushAdvance \/ popAdvance
  <2>1. CASE pushAdvance BY <1>0, <1>5, <2>1 DEF pushAdvance, First, End, QueueTypeOK
  <2>2. CASE popAdvance BY <1>0, <1>5, <2>2 DEF popAdvance, First, End, QueueTypeOK
  <2> QED BY <1>7, <2>1, <2>2
<1>8. CASE pushWrite
  <2>1. m # 0 /\ b = mEndIndex BY <1>1, <1>2, <1>8 DEF pushWrite, End
  <2>2. First' = a /\ End' = b BY <1>1, <1>8 DEF pushWrite, First, End
  <2>3. ASSUME NEW j \in a..(b - 1) PROVE mData[j % m] = mData'[j % m]
    <3>1. j \in Nat /\ j < b /\ b < j + m BY <1>2, <1>8, <2>1 DEF pushWrite
    <3>2. j % m # b % m /\ j % m \in 0..(m - 1) BY Zenon, <1>4, <2>1, <3>1, ModDistinct
    <3> QED BY <1>0, <1>1, <1>8, <2>1, <3>2 DEF pushWrite, QueueTypeOK, Storage
  <2>4. View(mData, m, a, b) = View(mData', m, a, b) BY <2>3, ViewSame
  <2>5. Contents' = View(mData', m, a, b) BY <1>1, <1>8, <2>2 DEF Contents, View, pushWrite
  <2> QED BY Zenon, <1>3, <1>8, <2>4, <2>5 DEF pushWrite
<1>9. CASE pushCount
  <2>1. m # 0 /\ b = mEndIndex - 1 BY <1>1, <1>2, <1>9 DEF pushCount, End
  <2>2. First' = a /\ End' = b + 1 BY <1>0, <1>1, <1>9, <2>1 DEF pushCount, First, End, QueueTypeOK
  <2>3. Contents' = View(mData, m, a, b + 1) BY <1>1, <1>9, <2>2 DEF Contents, View, pushCount
  <2>4. mData[b % m] = value /\ value \in Values
    BY <1>0, <1>1, <1>9, <2>1 DEF pushCount, WriteInv, QueueTypeOK
  <2>6. Len(Contents) = b - a /\ Contents' = Append(Contents, value)
    <3>1. a <= b BY <1>2
    <3>2. Len(Contents) = b - a BY ZenonT(40), <1>3, <3>1, ViewLen
    <3>3. Contents' = Append(Contents, mData[b % m]) BY <1>3, <2>3, <3>1, ViewAppend
    <3> QED BY <2>4, <3>2, <3>3
  <2>7. Len(Contents) < mMaxSize BY <1>1, <1>2, <1>9, <2>6 DEF pushCount
  <2>8. F!push BY <1>9, <2>4, <2>6, <2>7 DEF F!push, pushCount
  <2> QED BY <2>8 DEF F!Next
<1>10. ASSUME m # 0, a < b
       PROVE  /\ Contents # <<>> /\ Head(Contents) = mData[a % m]
              /\ Tail(Contents) = View(mData, m, a + 1, b)
              /\ Contents[Len(Contents)] = mData[(b - 1) % m]
  <2>1. Contents # <<>> BY <1>3, <1>10, ViewNotEmpty
  <2>2. Head(Contents) = mData[a % m] BY Zenon, <1>3, <1>10, ViewHead
  <2>3. Tail(Contents) = View(mData, m, a + 1, b) BY <1>3, <1>10, ViewTail
  <2>4. Contents[Len(Contents)] = mData[(b - 1) % m] BY <1>3, <1>10, ViewLast
  <2> QED BY <2>1, <2>2, <2>3, <2>4
<1>11. CASE front
  <2>1. m # 0 /\ a = mFrontIndex /\ a < b BY <1>2, <1>11 DEF front
  <2>2. UNCHANGED <<Contents, mMaxSize>> BY <1>11 DEF front, Contents, First, End
  <2>3. F!front BY <1>1, <1>10, <1>11, <2>1, <2>2 DEF F!front, front
  <2> QED BY <2>3 DEF F!Next
<1>12. CASE popErase
  <2>1. m # 0 /\ a = mFrontIndex /\ a < b BY Zenon, <1>2, <1>12 DEF popErase
  <2>2. First' = a + 1 /\ End' = b BY <1>1, <1>12, <2>1 DEF popErase, First, End
  <2>3. ASSUME NEW j \in (a + 1)..(b - 1) PROVE mData[j % m] = mData'[j % m]
    <3>1. j \in Nat /\ a < j /\ j < a + m BY <1>2
    <3>2. j % m # a % m /\ j % m \in 0..(m - 1) BY Zenon, <1>4, <2>1, <3>1, ModDistinct
    <3> QED BY <1>0, <1>1, <1>12, <2>1, <3>2 DEF popErase, QueueTypeOK, Storage
  <2>4. View(mData, m, a + 1, b) = View(mData', m, a + 1, b)
    <3>1. a + 1 \in Nat OBVIOUS
    <3> QED BY <2>3, <3>1, ViewSame
  <2>5. Contents' = View(mData', m, a + 1, b)
    BY <1>1, <1>12, <2>2 DEF Contents, View, popErase
  <2>6. F!pop BY Zenon, <1>10, <1>12, <2>1, <2>4, <2>5 DEF F!pop, popErase
  <2> QED BY <2>6 DEF F!Next
<1>13. CASE back
  <2>1. m # 0 /\ a = mFrontIndex /\ b = mEndIndex /\ a < b
    BY <1>0, <1>1, <1>2, <1>13 DEF back, bothIdle, First, End, SizeInv, QueueTypeOK
  <2>2. UNCHANGED <<Contents, mMaxSize>> BY <1>13 DEF back, Contents, First, End
  <2>3. (b + (m - 1)) % m = (b - 1) % m
    <3>1. b - 1 \in Nat /\ (b - 1) + m = b + (m - 1) BY <2>1
    <3>2. ((b - 1) + m) % m = (b - 1) % m BY Zenon, <2>1, <3>1, ModRound
    <3> QED BY <3>1, <3>2
  <2>4. F!back BY Zenon, <1>1, <1>10, <1>13, <2>1, <2>2, <2>3 DEF F!back, back
  <2> QED BY <2>4 DEF F!Next
<1>14. ASSUME NEW n \in Capacities, updateCapacity(n)
       PROVE  [F!Next]_<<Contents, mMaxSize, seen>>
  <2>1. a = mFrontIndex /\ b = mEndIndex /\ b - a <= n /\ n \in Nat /\ First' = a /\ End' = b
    BY <1>0, <1>1, <1>14, QueueAssumption
       DEF updateCapacity, bothIdle, First, End, SizeInv, QueueTypeOK
  <2>2. ASSUME NEW j \in a..(b - 1) PROVE mData[j % m] = mData'[j % n]
    <3>1. n # 0 /\ j \in Nat BY <2>1
    <3>2. j % n \in 0..(n - 1) BY <2>1, <3>1, DivMod
    <3>3. ASSUME NEW i \in a..(b - 1), i % n = j % n PROVE i = j
      <4>1. i \in Nat /\ i < j + n /\ j < i + n BY <2>1
      <4>2. CASE i < j BY Zenon, <2>1, <3>1, <3>3, <4>1, <4>2, ModDistinct
      <4>3. CASE j < i BY Zenon, <2>1, <3>1, <3>3, <4>1, <4>3, ModDistinct
      <4> QED BY <4>1, <4>2, <4>3, <3>1
    <3>4. (CHOOSE i \in a..(b - 1) : i % n = j % n) = j BY <3>3
    <3>5. moved(n)[j % n] = mData[j % m]
      BY Zenon, <1>1, <2>1, <3>2, <3>4 DEF moved
    <3> QED BY <1>14, <3>5 DEF updateCapacity
  <2>3. View(mData, m, a, b) = View(mData', n, a, b) BY <2>2, ViewSame
  <2>4. Contents' = View(mData', n, a, b) BY <1>14, <2>1 DEF Contents, View, updateCapacity
  <2>5. Len(Contents) = b - a
    BY <1>2, <1>3 DEF View
  <2>6. F!updateCapacity
    BY <1>3, <1>14, <2>1, <2>3, <2>4, <2>5 DEF F!updateCapacity, updateCapacity
  <2> QED BY <2>6 DEF F!Next
<1> QED
  BY <1>6, <1>7, <1>8, <1>9, <1>11, <1>12, <1>13, <1>14 DEF QueueNext

\* FixedQueue implements a first-in first-out queue, for every capacity.
THEOREM Refinement == QueueSpec => ImplementsFifo
<1>1. QueueInit => F!Init
  <2> SUFFICES ASSUME QueueInit PROVE F!Init OBVIOUS
  <2>1. End - First = 0 BY DEF QueueInit, End, First
  <2>2. Contents = <<>> BY <2>1 DEF Contents
  <2> QED BY <2>2 DEF QueueInit, F!Init, NotSeen, F!NotSeen
<1>2. QueueInv /\ QueueInv' /\ [QueueNext]_queueVars => [F!Next]_<<Contents, mMaxSize, seen>>
  BY StepRefines DEF QueueInv
<1> QED BY <1>1, <1>2, QueueInvariant, PTL DEF QueueSpec, ImplementsFifo, F!Spec
=============================================================================
