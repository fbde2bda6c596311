------------------------ MODULE RingBufferAllocator -------------------------
(***************************************************************************)
(* The ring buffer allocator and its shared check point                    *)
(* (src/src/common/RingBufferAllocator.cpp).                               *)
(*                                                                         *)
(* Pointers into mBuffer are offsets from mBuffer.data().  The owner       *)
(* allocates and takes check points; other threads hand finished check     *)
(* points back through the shared one, in the order they were taken, and   *)
(* the owner releases up to the last one handed back.                      *)
(***************************************************************************)
EXTENDS Integers, Sequences, FiniteSets

CONSTANTS
  Sizes,                             \* sizes of allocations
  Reserves,                          \* arguments of setFragmentReserve()
  DecaySpeedFactors,                 \* arguments of setDecaySpeedFactor()
  kMinRingBufferAllocationCapacity,
  kDefaultDecaySpeedFactor,
  kBaseOffset,
  MaxBuffers,                        \* bound on the buffer id
  MaxCapacity,                       \* bound on the capacity asked for by a growth
  MaxLive,                           \* bound on blocks that are not released
  MaxCheckPoints                     \* bound on check points not handed back

ASSUME AllocatorAssumption ==
  /\ Sizes \subseteq Nat \ {0} /\ Reserves \subseteq Nat /\ DecaySpeedFactors \subseteq Nat
  /\ kMinRingBufferAllocationCapacity \in Nat \ {0}
  /\ kDefaultDecaySpeedFactor \in Nat \ {0}
  /\ kBaseOffset \in Nat /\ MaxBuffers \in Nat /\ MaxCapacity \in Nat
  /\ MaxLive \in Nat /\ MaxCheckPoints \in Nat

VARIABLES
  mOldBuffers,         \* [id, size] of the buffers that were replaced
  mBufferId, mDataBegin, mDataEnd, mFragmentEnd, mFragmentEndR,
  mFragmentReserve, mCurrentCapacity, mAllocationMargin, mDecaySpeedFactor,
  live,                \* blocks not released, in the order of allocation (auxiliary)
  fresh,               \* something was allocated since the last check point (auxiliary)
  checkPoints,         \* check points not handed back: [id, ptr, covers]
  mValue,              \* the shared check point, {} when it is not valid
  releasing            \* what pop() returned in releaseToSharedCP()

pointers == <<mDataBegin, mDataEnd, mFragmentEnd, mFragmentEndR>>
bufferVars == <<mOldBuffers, mBufferId, mCurrentCapacity>>
settings == <<mFragmentReserve, mDecaySpeedFactor>>
shared == <<checkPoints, mValue, releasing>>
vars == <<bufferVars, pointers, settings, mAllocationMargin, live, fresh, shared>>

-----------------------------------------------------------------------------
(* Helpers                                                                 *)

larger(a, b) == IF a >= b THEN a ELSE b

decClamped(ptr, offset) == ptr - (IF offset <= ptr + kBaseOffset THEN offset ELSE ptr + kBaseOffset)

\* mDataEnd is set by the caller: allocateInNewFragment() moves it on at once.
resetPointers(capacity, reserve) ==
  /\ mDataBegin' = 0
  /\ mFragmentEnd' = capacity
  /\ mFragmentEndR' = decClamped(capacity, reserve)

\* oldBuffers is mOldBuffers as the caller leaves it.
resize(newCapacity, oldBuffers) ==
  /\ mOldBuffers' = Append(oldBuffers, [id |-> mBufferId, size |-> mCurrentCapacity])
  /\ mBufferId' = mBufferId + 1
  /\ mCurrentCapacity' = newCapacity
  /\ mAllocationMargin' = newCapacity
  /\ resetPointers(newCapacity, mFragmentReserve)

wrapped == mFragmentEnd = mDataBegin

getNumAllocatedInBuffer ==
  IF ~wrapped THEN mDataEnd - mDataBegin ELSE mCurrentCapacity - (mDataBegin - mDataEnd)

\* What release() decides before it moves the pointers.
atMargin == getNumAllocatedInBuffer >= mAllocationMargin

shrinks == /\ atMargin
           /\ mCurrentCapacity > kMinRingBufferAllocationCapacity
           /\ getNumAllocatedInBuffer * 6 <= mCurrentCapacity

Init ==
  /\ mOldBuffers = <<>> /\ mBufferId = 1
  /\ mCurrentCapacity = kMinRingBufferAllocationCapacity
  /\ mAllocationMargin = kMinRingBufferAllocationCapacity
  /\ mDataBegin = 0 /\ mDataEnd = 0
  /\ mFragmentEnd = kMinRingBufferAllocationCapacity
  /\ mFragmentEndR = kMinRingBufferAllocationCapacity
  /\ mFragmentReserve = 0 /\ mDecaySpeedFactor = kDefaultDecaySpeedFactor
  /\ live = <<>> /\ fresh = FALSE
  /\ checkPoints = {} /\ mValue = {} /\ releasing = {}

-----------------------------------------------------------------------------
(* The owner: settings and allocation                                      *)

\* Between pop() and the end of release() the owner does nothing else.
ownerIdle == releasing = {}

\* The blocks are given up with the buffers, and with them the check points that
\* were not handed back; the shared check point stays and now covers nothing.
reset ==
  /\ ownerIdle /\ mBufferId < MaxBuffers
  /\ mFragmentReserve' = 0 /\ mDecaySpeedFactor' = kDefaultDecaySpeedFactor
  /\ mBufferId' = mBufferId + 1
  /\ mCurrentCapacity' = kMinRingBufferAllocationCapacity
  /\ mAllocationMargin' = kMinRingBufferAllocationCapacity
  /\ resetPointers(kMinRingBufferAllocationCapacity, 0) /\ mDataEnd' = 0
  /\ mOldBuffers' = <<>>
  /\ live' = <<>> /\ fresh' = FALSE
  /\ checkPoints' = {} /\ mValue' = {[cp EXCEPT !.covers = 0] : cp \in mValue}
  /\ UNCHANGED releasing

setDecaySpeedFactor(factor) ==
  /\ ownerIdle
  /\ mDecaySpeedFactor' = larger(factor, 1)
  /\ UNCHANGED <<bufferVars, pointers, mFragmentReserve, mAllocationMargin, live, fresh, shared>>

setFragmentReserve(reserve) ==
  /\ ownerIdle
  /\ mFragmentReserve' = reserve
  /\ mFragmentEndR' = decClamped(mFragmentEnd, reserve)
  /\ UNCHANGED <<bufferVars, mDataBegin, mDataEnd, mFragmentEnd, mDecaySpeedFactor,
                 mAllocationMargin, live, fresh, shared>>

\* Mutant of fits: forgets the reserve.
fitsFragment(size) == mFragmentEnd - mDataEnd >= size

fits(size) == mFragmentEndR - mDataEnd >= size

\* The block that allocate() returns.
handOut(id, begin, size) ==
  /\ Len(live) < MaxLive
  /\ mDataEnd' = begin + size
  /\ live' = Append(live, [buffer |-> id, begin |-> begin, end |-> begin + size])
  /\ fresh' = TRUE
  /\ UNCHANGED <<settings, shared>>

allocate(size) ==
  /\ ownerIdle /\ fits(size)
  /\ handOut(mBufferId, mDataEnd, size)
  /\ UNCHANGED <<bufferVars, mDataBegin, mFragmentEnd, mFragmentEndR, mAllocationMargin>>

\* Mutant of canWrap: wraps a second time.
canWrapAgain(size) == decClamped(mDataBegin, mFragmentReserve) >= size

\* "It should wrap around only if it can allocate."
canWrap(size) == ~wrapped /\ decClamped(mDataBegin, mFragmentReserve) >= size

allocateInNewFragment(size) ==
  /\ ownerIdle /\ ~fits(size)
  /\ \/ /\ canWrap(size)
        /\ mFragmentEnd' = mDataBegin
        /\ mFragmentEndR' = decClamped(mDataBegin, mFragmentReserve)
        /\ handOut(mBufferId, 0, size)
        /\ UNCHANGED <<bufferVars, mDataBegin, mAllocationMargin>>
     \/ LET newCapacity == larger(mCurrentCapacity + mCurrentCapacity \div 2, size + mFragmentReserve)
        IN  /\ ~canWrap(size)
            /\ mBufferId < MaxBuffers /\ newCapacity <= MaxCapacity
            /\ resize(newCapacity, mOldBuffers)
            /\ handOut(mBufferId', 0, size)

-----------------------------------------------------------------------------
(* Check points                                                            *)

getReleaseCheckPoint ==
  /\ ownerIdle
  /\ Cardinality(checkPoints) < MaxCheckPoints
  /\ checkPoints' = checkPoints \cup {[id |-> mBufferId, ptr |-> mDataEnd, covers |-> Len(live)]}
  /\ fresh' = FALSE
  /\ UNCHANGED <<bufferVars, pointers, settings, mAllocationMargin, live, mValue, releasing>>

\* The caller takes a check point for what it has allocated since the one before.
takeCheckPoint == fresh /\ getReleaseCheckPoint

\* SharedRingBufferAllocatorCheckPoint::releaseAndUpdate(), on any thread: the
\* value that is there is overwritten.
releaseAndUpdate ==
  \E cp \in checkPoints :
    /\ \A other \in checkPoints : cp.covers <= other.covers
    /\ mValue' = {cp}
    /\ checkPoints' = checkPoints \ {cp}
    /\ UNCHANGED <<bufferVars, pointers, settings, mAllocationMargin, live, fresh, releasing>>

\* The first half of releaseToSharedCP().
pop ==
  /\ ownerIdle /\ mValue # {}
  /\ shrinks => mBufferId < MaxBuffers
  /\ releasing' = mValue /\ mValue' = {}
  /\ UNCHANGED <<bufferVars, pointers, settings, mAllocationMargin, live, fresh, checkPoints>>

\* Mutant of removeCount: drops the buffer of the check point too.
removeCountInclusive(id) ==
  CHOOSE n \in 0..Len(mOldBuffers) :
    /\ \A i \in 1..n : mOldBuffers[i].id <= id
    /\ n < Len(mOldBuffers) => mOldBuffers[n + 1].id > id

\* Old buffers are dropped from the front up to the one of the check point.
removeCount(id) ==
  CHOOSE n \in 0..Len(mOldBuffers) :
    /\ \A i \in 1..n : mOldBuffers[i].id < id
    /\ n < Len(mOldBuffers) => mOldBuffers[n + 1].id >= id

removeOld(id) == SubSeq(mOldBuffers, removeCount(id) + 1, Len(mOldBuffers))

\* Mutant of releasePointer: the fragment does not extend to the end of the buffer
\* again when the data before the wrap is gone.
releaseKeepsFragment(releasePtr) ==
  \/ /\ releasePtr = mDataEnd
     /\ resetPointers(mCurrentCapacity, mFragmentReserve) /\ mDataEnd' = 0
  \/ /\ releasePtr # mDataEnd
     /\ mDataBegin' = releasePtr
     /\ mFragmentEnd' = IF wrapped THEN releasePtr ELSE mFragmentEnd
     /\ mFragmentEndR' = IF wrapped THEN decClamped(mFragmentEnd', mFragmentReserve) ELSE mFragmentEndR
     /\ UNCHANGED mDataEnd

\* Mutant of releasePointer: an empty buffer is not reset.
releaseNoReset(releasePtr) ==
  /\ mDataBegin' = releasePtr
  /\ mFragmentEnd' = IF ~wrapped THEN mFragmentEnd
                     ELSE IF releasePtr < mDataBegin THEN mCurrentCapacity ELSE releasePtr
  /\ mFragmentEndR' = IF wrapped THEN decClamped(mFragmentEnd', mFragmentReserve) ELSE mFragmentEndR
  /\ UNCHANGED mDataEnd

\* release(uint8_t *)
releasePointer(releasePtr) ==
  \/ /\ releasePtr = mDataEnd
     /\ resetPointers(mCurrentCapacity, mFragmentReserve) /\ mDataEnd' = 0
  \/ /\ releasePtr # mDataEnd
     /\ mDataBegin' = releasePtr
     /\ mFragmentEnd' = IF ~wrapped THEN mFragmentEnd
                        ELSE IF releasePtr < mDataBegin THEN mCurrentCapacity ELSE releasePtr
     /\ mFragmentEndR' = IF wrapped THEN decClamped(mFragmentEnd', mFragmentReserve) ELSE mFragmentEndR
     /\ UNCHANGED mDataEnd

\* How far mAllocationMargin goes down.
decay(numReleased, distanceToMargin) ==
  larger(((numReleased * distanceToMargin) \div mAllocationMargin) \div mDecaySpeedFactor, 1)

\* What the other check points cover of the blocks that stay.
uncovered(points, n) == {[cp EXCEPT !.covers = @ - n] : cp \in points}

\* release(const RingBufferAllocatorCheckPoint &)
release ==
  \E cp \in releasing :
    /\ live' = SubSeq(live, cp.covers + 1, Len(live))
    /\ checkPoints' = uncovered(checkPoints, cp.covers)
    /\ mValue' = uncovered(mValue, cp.covers)
    /\ releasing' = {}
    /\ UNCHANGED <<fresh, settings>>
    /\ \/ /\ cp.id # mBufferId
          /\ mOldBuffers' = removeOld(cp.id)
          /\ UNCHANGED <<mBufferId, mCurrentCapacity, mAllocationMargin, pointers>>
       \/ /\ cp.id = mBufferId /\ shrinks
          /\ resize(larger(getNumAllocatedInBuffer * 3, kMinRingBufferAllocationCapacity), removeOld(cp.id))
          /\ mDataEnd' = 0
       \/ /\ cp.id = mBufferId /\ ~shrinks
          /\ mOldBuffers' = removeOld(cp.id)
          /\ UNCHANGED <<mBufferId, mCurrentCapacity>>
          /\ releasePointer(cp.ptr)
          /\ mAllocationMargin' =
               IF atMargin THEN mCurrentCapacity
               ELSE mAllocationMargin - decay(getNumAllocatedInBuffer - getNumAllocatedInBuffer',
                                              mAllocationMargin - getNumAllocatedInBuffer)

Next ==
  \/ reset
  \/ \E factor \in DecaySpeedFactors : setDecaySpeedFactor(factor)
  \/ \E reserve \in Reserves : setFragmentReserve(reserve)
  \/ \E size \in Sizes : allocate(size) \/ allocateInNewFragment(size)
  \/ takeCheckPoint \/ releaseAndUpdate \/ pop \/ release

Spec == Init /\ [][Next]_vars

\* The same with a caller that also takes check points with nothing allocated
\* since the one before, which getReleaseCheckPoint() allows.
AnyNext == Next \/ getReleaseCheckPoint
AnySpec == Init /\ [][AnyNext]_vars

-----------------------------------------------------------------------------
(* Properties                                                              *)

CheckPoint == [id : Nat, ptr : Nat, covers : Nat]

\* Type invariant of the allocator; the margin, which is only ever lowered by an
\* unsigned subtraction, never wraps below zero.
TypeOK ==
  /\ mOldBuffers \in Seq([id : Nat, size : Nat]) /\ mBufferId \in Nat
  /\ mDataBegin \in Nat /\ mDataEnd \in Nat /\ mFragmentEnd \in Nat /\ mFragmentEndR \in Int
  /\ mFragmentReserve \in Nat /\ mDecaySpeedFactor \in Nat \ {0}
  /\ mCurrentCapacity \in Nat \ {0} /\ mAllocationMargin \in 0..mCurrentCapacity
  /\ live \in Seq([buffer : Nat, begin : Nat, end : Nat]) /\ fresh \in BOOLEAN
  /\ {checkPoints, mValue, releasing} \subseteq SUBSET CheckPoint

Blocks == DOMAIN live

\* Memory that has been handed out and not released is handed out once: no two
\* live blocks of a buffer overlap, whatever wraps, growths and releases happened.
LiveDisjoint ==
  \A i, j \in Blocks : i < j /\ live[i].buffer = live[j].buffer =>
    live[i].end <= live[j].begin \/ live[j].end <= live[i].begin

\* A live block lies inside the current buffer or inside one of mOldBuffers: a
\* release never drops the storage of something allocated after its check point.
LiveStored ==
  \A i \in Blocks :
    \/ live[i].buffer = mBufferId /\ live[i].end <= mCurrentCapacity
    \/ \E k \in DOMAIN mOldBuffers :
         mOldBuffers[k].id = live[i].buffer /\ live[i].end <= mOldBuffers[k].size

\* The assertions: those of release() for the check point about to be released, of
\* getNumAllocatedInBuffer(), of getFragmentSize() and of decClamped().  And the
\* margin, an unsigned number, never passes below zero, although each release may
\* lower it by a quotient of itself (RingBufferAllocator.cpp:122).
AssertionsHold ==
  /\ mAllocationMargin \in 0..mCurrentCapacity
  /\ mFragmentEnd <= mCurrentCapacity /\ mDataEnd <= mFragmentEnd
  /\ IF wrapped THEN mDataBegin >= mDataEnd ELSE mDataEnd >= mDataBegin
  /\ \A cp \in releasing : cp.id = mBufferId /\ cp.ptr # mDataEnd =>
       IF wrapped THEN cp.ptr < mDataEnd \/ (cp.ptr >= mDataBegin /\ cp.ptr <= mCurrentCapacity)
                  ELSE cp.ptr >= mDataBegin /\ cp.ptr < mDataEnd

\* "Ensures "mDataEnd == mBuffer.data()" with 0 allocations": when everything has been
\* released the whole buffer is free again.
EmptyIsReset == live = <<>> => mDataBegin = 0 /\ mDataEnd = 0

\* Behind a block that was just allocated the fragment has room for the reserve.
ReserveKept ==
  [][Len(live') > Len(live) => mFragmentEnd' - mDataEnd' >= mFragmentReserve]_vars
=============================================================================
