----------------------------- MODULE FixedQueue -----------------------------
(***************************************************************************)
(* The queue for one producer and one consumer (common/FixedQueue.h).      *)
(*                                                                         *)
(* push() and pop() are modelled memory access by memory access.  As the   *)
(* header asks, the producer looks at full() before it pushes, the         *)
(* consumer at empty() before it takes, and updateCapacity() is called     *)
(* while neither is inside an operation (both locks are held).             *)
(***************************************************************************)
EXTENDS Integers, Sequences

CONSTANTS
  Values,
  Capacities,
  SizeMax            \* bound: the virtual indices stay below it

ASSUME QueueAssumption == Capacities \subseteq Nat /\ SizeMax \in Nat

VARIABLES
  mData, mFrontIndex, mEndIndex, mSize, mMaxSize,
  producer,          \* the next access of the producer
  value,             \* the argument of push()
  consumer,          \* the next access of the consumer
  toPop,             \* pops left in clear(), this one included
  seen               \* what front() or back() last returned

queueVars == <<mData, mFrontIndex, mEndIndex, mSize, mMaxSize, producer, value, consumer, toPop, seen>>
NoValue == "noValue"      \* value_type()
NotSeen == "notSeen"

Storage(n) == [0..(n - 1) -> Values \cup {NoValue}]

QueueInit ==
  /\ mMaxSize \in Capacities
  /\ mData = [i \in 0..(mMaxSize - 1) |-> NoValue]
  /\ mFrontIndex = 0 /\ mEndIndex = 0 /\ mSize = 0
  /\ producer = "idle" /\ value = NoValue
  /\ consumer = "idle" /\ toPop = 0
  /\ seen = NotSeen

empty == mSize = 0

full == mSize >= mMaxSize

-----------------------------------------------------------------------------
(* The producer: if (!full()) push(v)                                      *)

push(v) ==
  /\ producer = "idle" /\ ~full
  /\ mEndIndex < SizeMax
  /\ producer' = "write" /\ value' = v
  /\ UNCHANGED <<mData, mFrontIndex, mEndIndex, mSize, mMaxSize, consumer, toPop, seen>>

pushWrite ==
  /\ producer = "write"
  /\ mData' = [mData EXCEPT ![mEndIndex % mMaxSize] = value]
  /\ producer' = "advance"
  /\ UNCHANGED <<mFrontIndex, mEndIndex, mSize, mMaxSize, value, consumer, toPop, seen>>

pushAdvance ==
  /\ producer = "advance"
  /\ mEndIndex' = mEndIndex + 1
  /\ producer' = "count"
  /\ UNCHANGED <<mData, mFrontIndex, mSize, mMaxSize, value, consumer, toPop, seen>>

pushCount ==
  /\ producer = "count"
  /\ mSize' = mSize + 1
  /\ producer' = "idle"
  /\ UNCHANGED <<mData, mFrontIndex, mEndIndex, mMaxSize, value, consumer, toPop, seen>>

-----------------------------------------------------------------------------
(* The consumer: if (!empty()) { s = front(); pop(); }  or  clear()        *)

\* Mutant of take: the size is lowered before the element is read and erased.
takeCounts ==
  /\ consumer = "idle" /\ ~empty
  /\ consumer' = "front" /\ toPop' = 1 /\ mSize' = mSize - 1
  /\ UNCHANGED <<mData, mFrontIndex, mEndIndex, mMaxSize, producer, value, seen>>

take ==
  /\ consumer = "idle" /\ ~empty
  /\ consumer' = "front" /\ toPop' = 1
  /\ UNCHANGED <<mData, mFrontIndex, mEndIndex, mSize, mMaxSize, producer, value, seen>>

front ==
  /\ consumer = "front"
  /\ seen' = mData[mFrontIndex % mMaxSize]
  /\ consumer' = "erase"
  /\ UNCHANGED <<mData, mFrontIndex, mEndIndex, mSize, mMaxSize, producer, value, toPop>>

\* localSize is read once; elements pushed later stay.
clear ==
  /\ consumer = "idle" /\ ~empty
  /\ consumer' = "erase" /\ toPop' = mSize
  /\ UNCHANGED <<mData, mFrontIndex, mEndIndex, mSize, mMaxSize, producer, value, seen>>

popErase ==
  /\ consumer = "erase"
  /\ mData' = [mData EXCEPT ![mFrontIndex % mMaxSize] = NoValue]
  /\ consumer' = "advance"
  /\ UNCHANGED <<mFrontIndex, mEndIndex, mSize, mMaxSize, producer, value, toPop, seen>>

popAdvance ==
  /\ consumer = "advance"
  /\ mFrontIndex' = mFrontIndex + 1
  /\ consumer' = "count"
  /\ UNCHANGED <<mData, mEndIndex, mSize, mMaxSize, producer, value, toPop, seen>>

\* Mutant of popCount: clear() pops once too often.
popCountAll ==
  /\ consumer = "count"
  /\ mSize' = mSize - 1
  /\ toPop' = toPop - 1
  /\ consumer' = IF toPop' >= 0 THEN "erase" ELSE "idle"
  /\ UNCHANGED <<mData, mFrontIndex, mEndIndex, mMaxSize, producer, value, seen>>

popCount ==
  /\ consumer = "count"
  /\ mSize' = mSize - 1
  /\ toPop' = toPop - 1
  /\ consumer' = IF toPop' > 0 THEN "erase" ELSE "idle"
  /\ UNCHANGED <<mData, mFrontIndex, mEndIndex, mMaxSize, producer, value, seen>>

-----------------------------------------------------------------------------
(* With both locks                                                         *)

bothIdle == producer = "idle" /\ consumer = "idle"

back ==
  /\ bothIdle /\ mSize > 0
  /\ seen' = mData[(mEndIndex + (mMaxSize - 1)) % mMaxSize]
  /\ UNCHANGED <<mData, mFrontIndex, mEndIndex, mSize, mMaxSize, producer, value, consumer, toPop>>

\* Mutant of moved: elements keep their places in the storage.
movedInPlace(n) ==
  [j \in 0..(n - 1) |-> IF j < mMaxSize THEN mData[j] ELSE NoValue]

\* The new storage: element i moves from i % mMaxSize to i % newCapacity.
moved(n) ==
  [j \in 0..(n - 1) |->
     IF \E i \in mFrontIndex..(mEndIndex - 1) : i % n = j
       THEN mData[(CHOOSE i \in mFrontIndex..(mEndIndex - 1) : i % n = j) % mMaxSize]
       ELSE NoValue]

updateCapacity(newCapacity) ==
  /\ bothIdle /\ newCapacity >= mSize
  /\ mData' = moved(newCapacity)
  /\ mMaxSize' = newCapacity
  /\ UNCHANGED <<mFrontIndex, mEndIndex, mSize, producer, value, consumer, toPop, seen>>

QueueNext ==
  \/ \E v \in Values : push(v)
  \/ pushWrite \/ pushAdvance \/ pushCount
  \/ take \/ front \/ clear \/ popErase \/ popAdvance \/ popCount
  \/ back
  \/ \E n \in Capacities : updateCapacity(n)

QueueSpec == QueueInit /\ [][QueueNext]_queueVars

-----------------------------------------------------------------------------
(* Properties                                                              *)

\* Type invariant of the queue.
QueueTypeOK ==
  /\ mMaxSize \in Capacities /\ mData \in Storage(mMaxSize)
  /\ mFrontIndex \in Nat /\ mEndIndex \in Nat /\ mSize \in Nat
  /\ producer \in {"idle", "write", "advance", "count"}
  /\ value \in Values \cup {NoValue} /\ (producer # "idle" => value \in Values)
  /\ consumer \in {"idle", "front", "erase", "advance", "count"}
  /\ toPop \in Nat

\* Whenever push(), pop() or front() touches the storage its assertion holds, also
\* after the other thread has gone on: there is room, or there is an element.
AssertionsHold ==
  /\ producer = "write" => mSize < mMaxSize
  /\ consumer \in {"front", "erase"} => mSize > 0

\* "We must increment size last": the two threads never touch the same slot at the
\* same time, so the unsynchronised accesses to mData are not a data race.
NoSlotRace ==
  producer = "write" /\ consumer \in {"front", "erase"} =>
    mEndIndex % mMaxSize # mFrontIndex % mMaxSize

\* The elements: a push takes effect when it raises mSize, a pop when it erases.
First == IF consumer = "advance" THEN mFrontIndex + 1 ELSE mFrontIndex
End == IF producer = "count" THEN mEndIndex - 1 ELSE mEndIndex
Contents == [i \in 1..(End - First) |-> mData[(First + i - 1) % mMaxSize]]

F == INSTANCE Fifo WITH queue <- Contents, capacity <- mMaxSize

\* Seen from outside FixedQueue is a first-in first-out queue: front() and back()
\* return its ends, whatever the other thread is doing and across every resize.
ImplementsFifo == F!Spec
=============================================================================
