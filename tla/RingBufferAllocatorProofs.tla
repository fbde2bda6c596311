--------------------- MODULE RingBufferAllocatorProofs ----------------------
(***************************************************************************)
(* The inductive invariant of the ring buffer allocator, the proof, for    *)
(* all sizes, reserves and capacities, that every action keeps it, and the *)
(* properties of RingBufferAllocator that follow from it.                  *)
(*                                                                         *)
(* The data is one stretch [mDataBegin, mDataEnd), or two after a wrap:    *)
(* [mDataBegin, capacity) and then [0, mDataEnd).  Every live block of the *)
(* current buffer is in its place, and every check point splits the blocks *)
(* into those before and those after it, in the order of the laps.         *)
(***************************************************************************)
EXTENDS RingBufferAllocator, SequenceTheorems, NaturalsInduction, WellFoundedInduction, TLAPS

AllPoints == checkPoints \cup mValue \cup releasing

Geometry ==
  /\ mDataEnd <= mFragmentEnd /\ mFragmentEnd <= mCurrentCapacity
  /\ mFragmentEndR = decClamped(mFragmentEnd, mFragmentReserve)
  /\ wrapped => 0 < mDataBegin
  /\ ~wrapped => /\ mFragmentEnd = mCurrentCapacity
                 /\ mDataBegin < mDataEnd \/ (mDataBegin = 0 /\ mDataEnd = 0)

\* Where a block of the current buffer is.
Place(b) ==
  \/ mDataBegin <= b.begin /\ b.end <= (IF wrapped THEN mCurrentCapacity ELSE mDataEnd)
  \/ wrapped /\ b.end <= mDataEnd

StoredInOld(b) == \E k \in DOMAIN mOldBuffers : mOldBuffers[k].id = b.buffer /\ b.end <= mOldBuffers[k].size

BlockInv ==
  \A i \in Blocks :
    /\ live[i].buffer <= mBufferId /\ live[i].begin < live[i].end
    /\ live[i].buffer = mBufferId => Place(live[i])
    /\ live[i].buffer # mBufferId => StoredInOld(live[i])

\* A pointer behind the wrap.
Low(ptr) == wrapped /\ ptr <= mDataEnd

\* How a check point of the current buffer splits its blocks.
SplitsHigh(cp) ==
  /\ mDataBegin <= cp.ptr /\ cp.ptr <= (IF wrapped THEN mCurrentCapacity ELSE mDataEnd)
  /\ cp.ptr = mDataBegin => ~wrapped /\ mDataBegin = 0
  /\ \A i \in Blocks : live[i].buffer = mBufferId =>
       IF i <= cp.covers THEN mDataBegin <= live[i].begin /\ live[i].end <= cp.ptr
       ELSE cp.ptr <= live[i].begin \/ (wrapped /\ live[i].end <= mDataEnd)

SplitsLow(cp) ==
  \A i \in Blocks : live[i].buffer = mBufferId =>
    IF i <= cp.covers THEN mDataBegin <= live[i].begin \/ live[i].end <= cp.ptr
    ELSE cp.ptr <= live[i].begin /\ live[i].end <= mDataEnd

PointInv(cp) ==
  /\ cp.id <= mBufferId /\ cp.covers <= Len(live)
  /\ \A i \in Blocks : IF i <= cp.covers THEN live[i].buffer <= cp.id ELSE cp.id <= live[i].buffer
  /\ cp.id = mBufferId => IF Low(cp.ptr) THEN SplitsLow(cp) ELSE SplitsHigh(cp)
  /\ cp.covers = Len(live) =>
       IF cp.id = mBufferId THEN cp.ptr = mDataEnd ELSE mDataBegin = 0 /\ mDataEnd = 0

\* Pointers of check points in the order of the laps.
Before(c, d) ==
  /\ Low(c.ptr) => Low(d.ptr)
  /\ (Low(c.ptr) <=> Low(d.ptr)) => c.ptr < d.ptr

PointsInv ==
  /\ \A cp \in AllPoints : PointInv(cp)
  /\ \A c, d \in AllPoints : c.covers < d.covers /\ c.id = mBufferId /\ d.id = mBufferId => Before(c, d)

\* The order in which check points are handed back and released.
ChainInv ==
  /\ \A c \in releasing, d \in mValue \cup checkPoints : c.covers < d.covers
  /\ \A c \in mValue, d \in checkPoints : c.covers < d.covers
  /\ \A c, d \in checkPoints : c.covers = d.covers => c = d
  /\ fresh => live # <<>> /\ \A c \in AllPoints : c.covers < Len(live)

RingInv ==
  TypeOK /\ Geometry /\ BlockInv /\ LiveDisjoint /\ PointsInv /\ ChainInv /\ EmptyIsReset
-----------------------------------------------------------------------------
(* Helpers                                                                 *)

\* Every non-empty set of naturals has a least element.
LEMMA LeastElement ==
  ASSUME NEW S, S \subseteq Nat, S # {}
  PROVE  \E m \in S : \A n \in S : m <= n
<1>1. PICK m \in S : \A n \in S : <<n, m>> \notin OpToRel(<, Nat) BY Zenon, NatLessThanWellFounded, WFMin
<1>2. \A n \in S : ~(n < m) BY Zenon, <1>1 DEF OpToRel
<1> QED BY <1>2

\* decClamped() stays below its pointer; when the result is positive it was not
\* clamped.
LEMMA Clamp ==
  ASSUME NEW p \in Nat, NEW r \in Nat
  PROVE  /\ decClamped(p, r) \in Int /\ decClamped(p, r) <= p
         /\ decClamped(p, r) > 0 => decClamped(p, r) = p - r
BY AllocatorAssumption DEF decClamped

\* A sequence with an element more.
LEMMA AppendFacts ==
  ASSUME NEW S, NEW s \in Seq(S), NEW e \in S
  PROVE  /\ Append(s, e) \in Seq(S) /\ Len(Append(s, e)) = Len(s) + 1
         /\ DOMAIN Append(s, e) = 1..(Len(s) + 1)
         /\ \A i \in 1..Len(s) : Append(s, e)[i] = s[i]
         /\ Append(s, e)[Len(s) + 1] = e
OBVIOUS

\* A sequence without its first elements.
LEMMA SuffixFacts ==
  ASSUME NEW S, NEW s \in Seq(S), NEW n \in 0..Len(s)
  PROVE  /\ SubSeq(s, n + 1, Len(s)) \in Seq(S)
         /\ Len(SubSeq(s, n + 1, Len(s))) = Len(s) - n
         /\ DOMAIN SubSeq(s, n + 1, Len(s)) = 1..(Len(s) - n)
         /\ \A j \in 1..(Len(s) - n) : SubSeq(s, n + 1, Len(s))[j] = s[j + n]
OBVIOUS

\* removeCount() counts old buffers with smaller ids.
LEMMA RemoveCountFacts ==
  ASSUME mOldBuffers \in Seq([id : Nat, size : Nat]), NEW b \in Nat
  PROVE  /\ removeCount(b) \in 0..Len(mOldBuffers)
         /\ \A i \in 1..removeCount(b) : mOldBuffers[i].id < b
<1> DEFINE Later == {k \in 1..Len(mOldBuffers) : mOldBuffers[k].id >= b}
<1>0. Len(mOldBuffers) \in Nat /\ \A k \in 1..Len(mOldBuffers) : mOldBuffers[k].id \in Nat
  <2>1. \A k \in 1..Len(mOldBuffers) : mOldBuffers[k] \in [id : Nat, size : Nat] BY Zenon, ElementOfSeq
  <2> QED BY <2>1
<1>1. \E n \in 0..Len(mOldBuffers) :
        /\ \A i \in 1..n : mOldBuffers[i].id < b
        /\ n < Len(mOldBuffers) => mOldBuffers[n + 1].id >= b
  <2>1. CASE Later = {}
    <3>1. \A i \in 1..Len(mOldBuffers) : mOldBuffers[i].id < b BY <1>0, <2>1
    <3>2. Len(mOldBuffers) \in 0..Len(mOldBuffers) BY <1>0
    <3> QED BY <1>0, <3>1, <3>2
  <2>2. CASE Later # {}
    <3>0. Later \subseteq Nat BY <1>0
    <3>1. PICK k \in Later : \A m \in Later : k <= m
      <4> HIDE DEF Later
      <4> QED BY Zenon, <2>2, <3>0, LeastElement
    <3>2. k \in 1..Len(mOldBuffers) /\ mOldBuffers[k].id >= b BY <3>1
    <3> HIDE DEF Later
    <3>n. k \in Nat /\ 1 <= k /\ k <= Len(mOldBuffers) BY <1>0, <3>2
    <3>3. k - 1 \in 0..Len(mOldBuffers) /\ (k - 1) + 1 = k BY <1>0, <3>n
    <3>4. ASSUME NEW i \in 1..(k - 1) PROVE mOldBuffers[i].id < b
      <4>1. i \in 1..Len(mOldBuffers) /\ ~(k <= i) BY <1>0, <3>n
      <4>2. i \notin Later BY <3>1, <4>1
      <4>3. ~(mOldBuffers[i].id >= b) BY <4>1, <4>2 DEF Later
      <4> QED BY <1>0, <4>1, <4>3
    <3>5. mOldBuffers[(k - 1) + 1].id >= b BY <3>2, <3>3
    <3> QED BY <3>3, <3>4, <3>5
  <2> QED BY <2>1, <2>2
<1> QED BY Zenon, <1>1 DEF removeCount

\* What stays in mOldBuffers: the buffers with ids that are not smaller.
LEMMA RemoveOldFacts ==
  ASSUME mOldBuffers \in Seq([id : Nat, size : Nat]), NEW b \in Nat
  PROVE  /\ removeOld(b) \in Seq([id : Nat, size : Nat])
         /\ \A k \in DOMAIN mOldBuffers : mOldBuffers[k].id >= b =>
              \E l \in DOMAIN removeOld(b) : removeOld(b)[l] = mOldBuffers[k]
<1>0. PICK S : S = [id : Nat, size : Nat] BY Zenon
<1>1. PICK n \in 0..Len(mOldBuffers) : n = removeCount(b) /\ \A i \in 1..n : mOldBuffers[i].id < b
  BY Zenon, RemoveCountFacts
<1>2. removeOld(b) = SubSeq(mOldBuffers, n + 1, Len(mOldBuffers)) BY <1>1 DEF removeOld
<1>s. mOldBuffers \in Seq(S) BY <1>0
<1>3. /\ removeOld(b) \in Seq(S)
      /\ DOMAIN removeOld(b) = 1..(Len(mOldBuffers) - n)
      /\ \A j \in 1..(Len(mOldBuffers) - n) : removeOld(b)[j] = mOldBuffers[j + n]
  BY <1>2, <1>s, SuffixFacts
<1>4. ASSUME NEW k \in DOMAIN mOldBuffers, mOldBuffers[k].id >= b
      PROVE  \E l \in DOMAIN removeOld(b) : removeOld(b)[l] = mOldBuffers[k]
  <2>1. k \in 1..Len(mOldBuffers) /\ Len(mOldBuffers) \in Nat OBVIOUS
  <2>2. mOldBuffers[k] \in [id : Nat, size : Nat] BY Zenon, <2>1, ElementOfSeq
  <2>3. mOldBuffers[k].id \in Nat BY <2>2
  <2>4. ~(mOldBuffers[k].id < b) BY <1>4, <2>3
  <2>5. k > n BY <1>1, <2>1, <2>4
  <2>6. k - n \in 1..(Len(mOldBuffers) - n) /\ (k - n) + n = k BY <2>1, <2>5
  <2> QED BY <1>3, <2>6
<1> QED BY <1>0, <1>3, <1>4

\* The margin does not go below zero.
LEMMA DecayBound ==
  ASSUME NEW r \in Nat, NEW d \in Nat, NEW m \in Nat \ {0}, NEW f \in Nat \ {0}, r <= m, d >= 1
  PROVE  /\ ((r * d) \div m) \div f \in Nat
         /\ ((r * d) \div m) \div f <= d
<1>1. r * d \in Nat OBVIOUS
<1>2. r * d <= m * d OBVIOUS
<1>3. PICK a \in Nat : a = r * d BY <1>1
<1>4. PICK q \in Nat : q = a \div m /\ m * q <= a OBVIOUS
<1>5. q <= d
  <2> SUFFICES ASSUME q >= d + 1 PROVE FALSE OBVIOUS
  <2>1. m * q >= m * (d + 1) OBVIOUS
  <2>2. m * (d + 1) = m * d + m OBVIOUS
  <2> QED BY <1>2, <1>3, <1>4, <2>1, <2>2
<1>6. PICK p \in Nat : p = q \div f /\ f * p <= q OBVIOUS
<1>7. p <= f * p OBVIOUS
<1> QED BY <1>3, <1>4, <1>5, <1>6, <1>7

-----------------------------------------------------------------------------
(* Steps that leave the buffers alone                                      *)

Block == [buffer : Nat, begin : Nat, end : Nat]
core == <<mOldBuffers, mBufferId, mDataBegin, mDataEnd, mFragmentEnd, mCurrentCapacity, live>>

\* The parts of the type invariant that the proofs use most.
LEMMA Types ==
  ASSUME TypeOK
  PROVE  /\ live \in Seq(Block) /\ Len(live) \in Nat /\ Blocks = 1..Len(live)
         /\ \A i \in Blocks : live[i] \in Block
         /\ checkPoints \subseteq CheckPoint /\ mValue \subseteq CheckPoint /\ releasing \subseteq CheckPoint
         /\ AllPoints \subseteq CheckPoint
<1>1. live \in Seq(Block) BY DEF TypeOK, Block
<1>2. Len(live) \in Nat /\ Blocks = 1..Len(live) /\ \A i \in Blocks : live[i] \in Block BY <1>1 DEF Blocks
<1>3. checkPoints \subseteq CheckPoint /\ mValue \subseteq CheckPoint /\ releasing \subseteq CheckPoint
  BY DEF TypeOK
<1> QED BY <1>1, <1>2, <1>3 DEF AllPoints

\* A block of the current buffer ends inside it.
LEMMA PlaceEnds ==
  ASSUME RingInv, NEW b \in Block, Place(b)
  PROVE  b.end <= mCurrentCapacity
<1>1. mDataEnd \in Nat /\ mFragmentEnd \in Nat /\ mCurrentCapacity \in Nat /\ b.end \in Nat
  BY DEF RingInv, TypeOK, Block
<1>2. mDataEnd <= mFragmentEnd /\ mFragmentEnd <= mCurrentCapacity BY Zenon DEF RingInv, Geometry
<1> QED BY <1>1, <1>2 DEF Place

\* Arithmetic that the proofs below use for lengths, pointers and ids.
LEMMA Less == \A x, y \in Nat : x < y => x <= y /\ y # x
OBVIOUS

LEMMA NextId == \A x, y \in Nat : x <= y => x <= y + 1 /\ x # y + 1
OBVIOUS

LEMMA InRange == \A x, n \in Nat : x <= n => x \in 0..n
OBVIOUS

LEMMA Above == \A x, y, n \in Nat : x < y /\ y <= n => y \in 1..n /\ ~(y <= x)
OBVIOUS

LEMMA LastOrBefore == \A n \in Nat : \A i \in 1..(n + 1) : i \in 1..n \/ i = n + 1
OBVIOUS

LEMMA Elsewhere == \A x, y, p, q \in Nat : x < y /\ q <= p => ~(p <= x /\ y <= q)
OBVIOUS

\* Without a change of the buffers every fact about blocks and check points stays.
LEMMA Frame ==
  ASSUME UNCHANGED core
  PROVE  /\ (BlockInv => BlockInv') /\ (LiveDisjoint => LiveDisjoint') /\ (EmptyIsReset => EmptyIsReset')
         /\ \A cp : PointInv(cp) => PointInv(cp)'
         /\ \A c, d : Before(c, d) => Before(c, d)'
<1>1. /\ mOldBuffers' = mOldBuffers /\ mBufferId' = mBufferId /\ mDataBegin' = mDataBegin
      /\ mDataEnd' = mDataEnd /\ mFragmentEnd' = mFragmentEnd /\ mCurrentCapacity' = mCurrentCapacity
      /\ live' = live
  BY DEF core
<1>2. BlockInv => BlockInv' BY <1>1 DEF BlockInv, Blocks, Place, StoredInOld, wrapped
<1>3. LiveDisjoint => LiveDisjoint' BY <1>1 DEF LiveDisjoint, Blocks
<1>4. EmptyIsReset => EmptyIsReset' BY <1>1 DEF EmptyIsReset
<1>5. ASSUME NEW cp, PointInv(cp) PROVE PointInv(cp)'
  BY <1>1, <1>5 DEF PointInv, Low, SplitsHigh, SplitsLow, Blocks, wrapped
<1>6. ASSUME NEW c, NEW d, Before(c, d) PROVE Before(c, d)' BY <1>1, <1>6 DEF Before, Low, wrapped
<1> QED BY <1>2, <1>3, <1>4, <1>5, <1>6

\* Nothing is allocated and there are no check points.
LEMMA Empty ==
  ASSUME live = <<>>, AllPoints = {}, fresh = FALSE
  PROVE  BlockInv /\ LiveDisjoint /\ PointsInv /\ ChainInv
<1>1. Blocks = {} BY DEF Blocks
<1>2. checkPoints = {} /\ mValue = {} /\ releasing = {} BY DEF AllPoints
<1> QED BY <1>1, <1>2 DEF BlockInv, LiveDisjoint, PointsInv, ChainInv

\* A new allocator.
LEMMA InitStep == Init => RingInv
<1> SUFFICES ASSUME Init PROVE RingInv OBVIOUS
<1> USE AllocatorAssumption
<1>1. TypeOK
  <2>1. mOldBuffers \in Seq([id : Nat, size : Nat]) /\ live \in Seq([buffer : Nat, begin : Nat, end : Nat])
    BY EmptySeq DEF Init
  <2>2. {checkPoints, mValue, releasing} \subseteq SUBSET CheckPoint BY DEF Init
  <2>3. /\ mBufferId \in Nat /\ mDataBegin \in Nat /\ mDataEnd \in Nat /\ mFragmentEnd \in Nat
        /\ mFragmentEndR \in Int /\ mFragmentReserve \in Nat /\ mDecaySpeedFactor \in Nat \ {0}
        /\ mCurrentCapacity \in Nat \ {0} /\ mAllocationMargin \in 0..mCurrentCapacity
    BY DEF Init
  <2>4. fresh \in BOOLEAN BY Zenon DEF Init
  <2> QED BY <2>1, <2>2, <2>3, <2>4 DEF TypeOK
<1>2. Geometry BY DEF Init, Geometry, decClamped, wrapped
<1>3. AllPoints = {} BY DEF Init, AllPoints
<1>4. live = <<>> /\ fresh = FALSE BY DEF Init
<1>5. EmptyIsReset BY DEF Init, EmptyIsReset
<1> QED BY Zenon, <1>1, <1>2, <1>3, <1>4, <1>5, Empty DEF RingInv

\* reset() makes it new again.
LEMMA ResetStep == RingInv /\ reset => RingInv'
<1> SUFFICES ASSUME RingInv, reset PROVE RingInv' OBVIOUS
<1> USE AllocatorAssumption
<1>t. mBufferId \in Nat /\ mValue \subseteq CheckPoint BY DEF RingInv, TypeOK
<1>1. /\ live' = <<>> /\ fresh' = FALSE /\ checkPoints' = {} /\ releasing' = {}
      /\ mBufferId' = mBufferId + 1 /\ mDataBegin' = 0 /\ mDataEnd' = 0
  BY DEF reset, resetPointers, ownerIdle
<1>2. ASSUME NEW cp \in mValue' PROVE cp \in CheckPoint /\ cp.covers = 0 /\ cp.id <= mBufferId /\ cp.id \in Nat
  <2>1. PICK c \in mValue : cp = [c EXCEPT !.covers = 0] BY DEF reset
  <2>2. c \in AllPoints BY DEF AllPoints
  <2>3. c.id <= mBufferId BY <2>2 DEF RingInv, PointsInv, PointInv
  <2> QED BY <1>t, <2>1, <2>3 DEF CheckPoint
<1>3. AllPoints' = mValue' BY <1>1 DEF AllPoints
<1>4. TypeOK'
  <2>1. mOldBuffers' \in Seq([id : Nat, size : Nat]) /\ live' \in Seq([buffer : Nat, begin : Nat, end : Nat])
    BY <1>1, EmptySeq DEF reset
  <2>2. decClamped(kMinRingBufferAllocationCapacity, 0) \in Int BY Clamp
  <2>3. {checkPoints', mValue', releasing'} \subseteq SUBSET CheckPoint BY <1>1, <1>2
  <2>4. /\ mBufferId' \in Nat /\ mDataBegin' \in Nat /\ mDataEnd' \in Nat /\ mFragmentEnd' \in Nat
        /\ mFragmentEndR' \in Int /\ mFragmentReserve' \in Nat /\ mDecaySpeedFactor' \in Nat \ {0}
        /\ mCurrentCapacity' \in Nat \ {0} /\ mAllocationMargin' \in 0..mCurrentCapacity'
    BY <1>t, <2>2 DEF reset, resetPointers
  <2> QED BY Zenon, <1>1, <2>1, <2>3, <2>4 DEF TypeOK
<1>5. Geometry' BY DEF reset, resetPointers, Geometry, wrapped, decClamped
<1>6. EmptyIsReset' BY DEF reset, resetPointers, EmptyIsReset
<1>7. Blocks' = {} /\ Len(live') = 0 BY <1>1 DEF Blocks
<1>8. (BlockInv /\ LiveDisjoint /\ ChainInv)'
  BY <1>1, <1>7 DEF BlockInv, LiveDisjoint, ChainInv
<1>9. PointsInv'
  <2>1. ASSUME NEW cp \in mValue' PROVE PointInv(cp)' /\ cp.id # mBufferId'
    <3>1. cp.id # mBufferId' /\ cp.id <= mBufferId' BY <1>1, <1>2, <1>t
    <3> QED BY <1>1, <1>2, <1>7, <3>1 DEF PointInv
  <2> QED BY <1>3, <2>1 DEF PointsInv
<1> QED BY <1>4, <1>5, <1>6, <1>8, <1>9 DEF RingInv

\* The settings change the reserve and the speed of decay only.
LEMMA SettingStep ==
  ASSUME RingInv, \/ UNCHANGED vars
                  \/ \E factor \in DecaySpeedFactors : setDecaySpeedFactor(factor)
                  \/ \E reserve \in Reserves : setFragmentReserve(reserve)
  PROVE  RingInv'
<1> USE AllocatorAssumption
<1>1. UNCHANGED core /\ UNCHANGED <<shared, fresh, mAllocationMargin>>
  BY DEF vars, setDecaySpeedFactor, setFragmentReserve, core, bufferVars, pointers, shared
<1>2. AllPoints' = AllPoints BY <1>1 DEF AllPoints, shared
<1>3. TypeOK' /\ Geometry'
  <2>1. CASE UNCHANGED vars
    BY Zenon, <2>1 DEF RingInv, TypeOK, Geometry, wrapped, decClamped, vars, bufferVars, pointers, settings, shared
  <2>2. ASSUME NEW factor \in DecaySpeedFactors, setDecaySpeedFactor(factor) PROVE TypeOK' /\ Geometry'
    <3>1. mDecaySpeedFactor' \in Nat \ {0} BY <2>2 DEF setDecaySpeedFactor, larger
    <3>2. UNCHANGED <<bufferVars, pointers, mFragmentReserve, mAllocationMargin, live, fresh, shared>>
      BY <2>2 DEF setDecaySpeedFactor
    <3> QED BY <3>1, <3>2 DEF RingInv, TypeOK, Geometry, wrapped, decClamped, bufferVars, pointers, shared
  <2>3. ASSUME NEW reserve \in Reserves, setFragmentReserve(reserve) PROVE TypeOK' /\ Geometry'
    <3>1. reserve \in Nat /\ mFragmentEnd \in Nat BY DEF RingInv, TypeOK
    <3>2. decClamped(mFragmentEnd, reserve) \in Int BY <3>1, Clamp
    <3>3. /\ mFragmentReserve' = reserve /\ mFragmentEndR' = decClamped(mFragmentEnd, reserve)
          /\ UNCHANGED <<bufferVars, mDataBegin, mDataEnd, mFragmentEnd, mDecaySpeedFactor,
                         mAllocationMargin, live, fresh, shared>>
      BY <2>3 DEF setFragmentReserve
    <3>4. TypeOK' BY <3>1, <3>2, <3>3 DEF RingInv, TypeOK, bufferVars, shared
    <3>5. Geometry' BY <3>3 DEF RingInv, Geometry, wrapped, decClamped, bufferVars
    <3> QED BY <3>4, <3>5
  <2> QED BY <2>1, <2>2, <2>3
<1>4. PointsInv' BY <1>1, <1>2, Frame DEF RingInv, PointsInv, core
<1>5. ChainInv' BY <1>1, <1>2 DEF RingInv, ChainInv, shared, core
<1> QED BY <1>1, <1>3, <1>4, <1>5, Frame DEF RingInv

-----------------------------------------------------------------------------
(* Allocation                                                              *)

\* The blocks with one more.
LEMMA AppendBlock ==
  ASSUME TypeOK, NEW b \in Block, live' = Append(live, b)
  PROVE  /\ live' \in Seq(Block) /\ Len(live') = Len(live) + 1 /\ live' # <<>>
         /\ Blocks' = 1..(Len(live) + 1)
         /\ \A i \in Blocks : live'[i] = live[i]
         /\ live'[Len(live) + 1] = b
<1>1. live \in Seq(Block) /\ Len(live) \in Nat /\ Blocks = 1..Len(live) BY Types
<1>2. live' \in Seq(Block) /\ Len(live') = Len(live) + 1 /\ DOMAIN live' = 1..(Len(live) + 1)
  BY <1>1, AppendFacts
<1>3. (\A i \in Blocks : live'[i] = live[i]) /\ live'[Len(live) + 1] = b BY <1>1, AppendFacts
<1>4. live' # <<>> BY <1>1, <1>2
<1> QED BY <1>2, <1>3, <1>4 DEF Blocks

\* What an allocation leaves to show: the check points cover none of the new block.
LEMMA AllocatedChain ==
  ASSUME RingInv, NEW b \in Block, live' = Append(live, b), fresh' = TRUE, UNCHANGED shared
  PROVE  /\ ChainInv' /\ EmptyIsReset' /\ AllPoints' = AllPoints
         /\ \A cp \in AllPoints : cp \in CheckPoint /\ cp.covers <= Len(live) /\ cp.covers < Len(live')
<1>1. Len(live) \in Nat /\ Len(live') = Len(live) + 1 /\ live' # <<>> BY Types, AppendBlock DEF RingInv
<1>2. checkPoints' = checkPoints /\ mValue' = mValue /\ releasing' = releasing BY DEF shared
<1>3. AllPoints' = AllPoints BY <1>2 DEF AllPoints
<1>4. ASSUME NEW cp \in AllPoints PROVE cp \in CheckPoint /\ cp.covers <= Len(live) /\ cp.covers < Len(live')
  <2>1. cp \in CheckPoint BY Types DEF RingInv
  <2>2. cp.covers <= Len(live) BY Zenon DEF RingInv, PointsInv, PointInv
  <2> QED BY <1>1, <2>1, <2>2 DEF CheckPoint
<1>5. ChainInv' BY <1>1, <1>2, <1>3, <1>4 DEF RingInv, ChainInv
<1> QED BY <1>1, <1>3, <1>4, <1>5 DEF EmptyIsReset

\* The fast path.
LEMMA AllocateStep ==
  ASSUME RingInv, NEW size \in Sizes, allocate(size)
  PROVE  RingInv'
<1> USE AllocatorAssumption
<1> DEFINE b == [buffer |-> mBufferId, begin |-> mDataEnd, end |-> mDataEnd + size]
<1>t. /\ mBufferId \in Nat /\ mDataBegin \in Nat /\ mDataEnd \in Nat /\ mFragmentEnd \in Nat
      /\ mFragmentReserve \in Nat /\ mCurrentCapacity \in Nat \ {0} /\ size \in Nat \ {0}
  BY DEF RingInv, TypeOK
<1>1. b \in Block /\ b.buffer = mBufferId /\ b.begin = mDataEnd /\ b.end = mDataEnd + size
  BY <1>t DEF Block
<1> HIDE DEF b
<1>2. /\ live' = Append(live, b) /\ fresh' = TRUE /\ UNCHANGED <<settings, shared>>
      /\ mDataEnd' = mDataEnd + size
      /\ UNCHANGED <<bufferVars, mDataBegin, mFragmentEnd, mFragmentEndR, mAllocationMargin>>
  BY DEF allocate, handOut, b
<1>3. mDataEnd + size <= mFragmentEnd
  <2>1. mFragmentEndR <= mFragmentEnd BY <1>t, Clamp DEF RingInv, Geometry
  <2>2. mFragmentEndR \in Int /\ mFragmentEndR - mDataEnd >= size BY DEF allocate, fits, RingInv, TypeOK
  <2> QED BY <1>t, <2>1, <2>2
<1>u. /\ mBufferId' = mBufferId /\ mDataBegin' = mDataBegin /\ mFragmentEnd' = mFragmentEnd
      /\ mCurrentCapacity' = mCurrentCapacity /\ mOldBuffers' = mOldBuffers
  BY <1>2 DEF bufferVars
<1>l. /\ Blocks = 1..Len(live) /\ Len(live) \in Nat /\ \A i \in Blocks : live[i] \in Block
      /\ Blocks' = 1..(Len(live) + 1) /\ (\A i \in Blocks : live'[i] = live[i]) /\ live'[Len(live) + 1] = b
  BY <1>1, <1>2, Types, AppendBlock DEF RingInv
<1>4. TypeOK'
  <2>1. live' \in Seq(Block) BY <1>1, <1>2, AppendBlock DEF RingInv
  <2> QED BY <1>t, <1>2, <2>1 DEF RingInv, TypeOK, Block, settings, shared, bufferVars
<1>5. Geometry' BY <1>t, <1>2, <1>3, <1>u DEF RingInv, Geometry, wrapped, decClamped, settings
<1>g. /\ mDataEnd <= mFragmentEnd /\ mFragmentEnd <= mCurrentCapacity
      /\ ~wrapped => mFragmentEnd = mCurrentCapacity /\ mDataBegin <= mDataEnd
      /\ wrapped <=> mFragmentEnd = mDataBegin
      /\ wrapped' <=> wrapped
  BY <1>t, <1>u DEF RingInv, Geometry, wrapped
<1>6. BlockInv'
  <2> SUFFICES ASSUME NEW i \in Blocks'
               PROVE  /\ live'[i].buffer <= mBufferId /\ live'[i].begin < live'[i].end
                      /\ live'[i].buffer = mBufferId => Place(live[i])'
                      /\ live'[i].buffer # mBufferId => StoredInOld(live[i])'
    BY <1>u DEF BlockInv
  <2>1. CASE i = Len(live) + 1 BY SMTT(30), <1>t, <1>1, <1>2, <1>u, <1>l, <1>g, <2>1 DEF Place, wrapped
  <2>2. CASE i \in Blocks
    <3>1. live'[i] = live[i] BY <1>l, <2>2
    <3>2. live[i].buffer \in Nat /\ live[i].begin \in Nat /\ live[i].end \in Nat BY <1>l, <2>2 DEF Block
    <3>3. Place(live[i]) => Place(live[i])' BY <1>t, <1>2, <1>u, <1>g, <3>1, <3>2 DEF Place
    <3>4. StoredInOld(live[i]) => StoredInOld(live[i])' BY <1>u, <3>1 DEF StoredInOld
    <3> QED BY <2>2, <3>1, <3>3, <3>4 DEF RingInv, BlockInv
  <2> QED BY <1>l, <2>1, <2>2
<1>7. LiveDisjoint'
  <2>1. ASSUME NEW i \in Blocks, live[i].buffer = mBufferId
        PROVE  live[i].end <= b.begin \/ b.end <= live[i].begin
    <3>1. live[i].begin \in Nat /\ live[i].end \in Nat BY <1>l DEF Block
    <3>2. Place(live[i]) BY <2>1 DEF RingInv, BlockInv
    <3> QED BY <1>t, <1>1, <1>3, <1>g, <3>1, <3>2 DEF Place
  <2> QED BY <1>1, <1>l, <2>1 DEF RingInv, LiveDisjoint
<1>c. /\ ChainInv' /\ EmptyIsReset' /\ AllPoints' = AllPoints
      /\ \A cp \in AllPoints : cp \in CheckPoint /\ cp.covers <= Len(live) /\ cp.covers < Len(live')
  BY <1>1, <1>2, AllocatedChain
<1>8. ASSUME NEW cp \in AllPoints, cp.id = mBufferId PROVE Low(cp.ptr)' <=> Low(cp.ptr)
  <2>1. cp.ptr \in Nat BY <1>c DEF CheckPoint
  <2>2. Low(cp.ptr) \/ SplitsHigh(cp) BY <1>8 DEF RingInv, PointsInv, PointInv
  <2>3. ~Low(cp.ptr) /\ wrapped => cp.ptr > mDataBegin BY <1>t, <2>1, <2>2 DEF SplitsHigh
  <2> QED BY <1>t, <1>2, <1>3, <1>g, <2>1, <2>3 DEF Low
<1>9. ASSUME NEW cp \in AllPoints PROVE PointInv(cp)'
  <2>1. cp \in CheckPoint /\ cp.id \in Nat /\ cp.ptr \in Nat /\ cp.covers \in Nat BY <1>c DEF CheckPoint
  <2>2. PointInv(cp) BY DEF RingInv, PointsInv
  <2>3. cp.covers < Len(live) + 1 /\ cp.covers <= Len(live') /\ cp.covers # Len(live')
    BY <1>c, <1>l, <1>1, <1>2, <2>1, AppendBlock DEF RingInv
  <2>4. \A i \in Blocks' : IF i <= cp.covers THEN live'[i].buffer <= cp.id ELSE cp.id <= live'[i].buffer
    <3> SUFFICES ASSUME NEW i \in Blocks'
                 PROVE  IF i <= cp.covers THEN live'[i].buffer <= cp.id ELSE cp.id <= live'[i].buffer
      OBVIOUS
    <3>1. CASE i \in Blocks BY <1>l, <2>2, <3>1 DEF PointInv
    <3>2. CASE i = Len(live) + 1
      <4>1. ~(i <= cp.covers) /\ live'[i].buffer = b.buffer BY <1>l, <2>1, <2>3, <3>2
      <4>2. cp.id <= b.buffer BY <1>1, <2>2 DEF PointInv
      <4> QED BY <4>1, <4>2
    <3> QED BY Zenon, <1>l, <3>1, <3>2, LastOrBefore
  <2>5. CASE cp.id = mBufferId /\ Low(cp.ptr)
    <3>1. SplitsLow(cp) BY <2>2, <2>5 DEF PointInv
    <3>2. cp.ptr <= mDataEnd BY <2>5 DEF Low
    <3>3. SplitsLow(cp)'
      <4> SUFFICES ASSUME NEW i \in Blocks', live'[i].buffer = mBufferId
                   PROVE  IF i <= cp.covers THEN mDataBegin <= live'[i].begin \/ live'[i].end <= cp.ptr
                          ELSE cp.ptr <= live'[i].begin /\ live'[i].end <= mDataEnd'
        BY <1>u DEF SplitsLow
      <4>1. CASE i = Len(live) + 1
        <5>1. ~(i <= cp.covers) /\ live'[i].begin = mDataEnd /\ live'[i].end = mDataEnd'
          BY <1>1, <1>2, <1>l, <2>1, <2>3, <4>1
        <5>2. mDataEnd' \in Nat BY <1>t, <1>2
        <5> QED BY <3>2, <5>1, <5>2
      <4>2. CASE i \in Blocks
        <5>1. live'[i] = live[i] /\ live[i].end \in Nat BY <1>l, <4>2 DEF Block
        <5> QED BY <1>t, <1>2, <3>1, <4>2, <5>1 DEF SplitsLow
      <4> QED BY Zenon, <1>l, <4>1, <4>2, LastOrBefore
    <3> QED BY Zenon, <1>8, <1>u, <2>2, <2>3, <2>4, <2>5, <3>3 DEF PointInv
  <2>6. CASE cp.id = mBufferId /\ ~Low(cp.ptr)
    <3>1. SplitsHigh(cp) BY <2>2, <2>6 DEF PointInv
    <3>2. SplitsHigh(cp)'
      <4>1. /\ mDataBegin <= cp.ptr /\ cp.ptr <= (IF wrapped THEN mCurrentCapacity ELSE mDataEnd')
            /\ cp.ptr = mDataBegin => ~wrapped /\ mDataBegin = 0
        <5>1. /\ mDataBegin <= cp.ptr /\ cp.ptr <= (IF wrapped THEN mCurrentCapacity ELSE mDataEnd)
              /\ cp.ptr = mDataBegin => ~wrapped /\ mDataBegin = 0
          BY Zenon, <3>1 DEF SplitsHigh
        <5>2. cp.ptr <= mDataEnd => cp.ptr <= mDataEnd' BY <1>t, <1>2, <2>1
        <5> QED BY Zenon, <5>1, <5>2
      <4>2. ASSUME NEW i \in Blocks', live'[i].buffer = mBufferId
            PROVE  IF i <= cp.covers THEN mDataBegin <= live'[i].begin /\ live'[i].end <= cp.ptr
                   ELSE cp.ptr <= live'[i].begin \/ (wrapped /\ live'[i].end <= mDataEnd')
        <5>1. CASE i = Len(live) + 1 BY SMTT(30), <1>t, <1>1, <1>2, <1>l, <2>1, <2>3, <3>1, <5>1 DEF SplitsHigh
        <5>2. CASE i \in Blocks
          <6>1. live'[i] = live[i] /\ live[i].end \in Nat BY <1>l, <5>2 DEF Block
          <6> QED BY <1>t, <1>2, <3>1, <4>2, <5>2, <6>1 DEF SplitsHigh
        <5> QED BY Zenon, <1>l, <5>1, <5>2, LastOrBefore
      <4> QED BY SMTT(30), <1>u, <1>g, <4>1, <4>2 DEF SplitsHigh
    <3> QED BY Zenon, <1>8, <1>u, <2>2, <2>3, <2>4, <2>6, <3>2 DEF PointInv
  <2>7. CASE cp.id # mBufferId BY Zenon, <1>u, <2>2, <2>3, <2>4, <2>7 DEF PointInv
  <2> QED BY <2>5, <2>6, <2>7
<1>10. PointsInv' BY <1>c, <1>u, <1>8, <1>9 DEF RingInv, PointsInv, Before
<1> QED BY <1>4, <1>5, <1>6, <1>7, <1>c, <1>10 DEF RingInv

\* Wrapping to the front of the buffer.
LEMMA WrapStep ==
  ASSUME RingInv, NEW size \in Sizes, ownerIdle, canWrap(size),
         mFragmentEnd' = mDataBegin, mFragmentEndR' = decClamped(mDataBegin, mFragmentReserve),
         handOut(mBufferId, 0, size), UNCHANGED <<bufferVars, mDataBegin, mAllocationMargin>>
  PROVE  RingInv'
<1> USE AllocatorAssumption
<1> DEFINE b == [buffer |-> mBufferId, begin |-> 0, end |-> 0 + size]
<1>t. /\ mBufferId \in Nat /\ mDataBegin \in Nat /\ mDataEnd \in Nat /\ mFragmentEnd \in Nat
      /\ mFragmentReserve \in Nat /\ mCurrentCapacity \in Nat \ {0} /\ size \in Nat \ {0}
  BY DEF RingInv, TypeOK
<1>1. b \in Block /\ b.buffer = mBufferId /\ b.begin = 0 /\ b.end = size BY <1>t DEF Block
<1>2. /\ live' = Append(live, b) /\ fresh' = TRUE /\ UNCHANGED <<settings, shared>> /\ mDataEnd' = size
  BY <1>t DEF handOut, b
<1> HIDE DEF b
<1>3. size <= mDataBegin /\ ~wrapped
  <2>1. decClamped(mDataBegin, mFragmentReserve) \in Int /\ decClamped(mDataBegin, mFragmentReserve) <= mDataBegin
    BY <1>t, Clamp
  <2> QED BY <1>t, <2>1 DEF canWrap
<1>u. /\ mBufferId' = mBufferId /\ mDataBegin' = mDataBegin
      /\ mCurrentCapacity' = mCurrentCapacity /\ mOldBuffers' = mOldBuffers
  BY DEF bufferVars
<1>l. /\ Blocks = 1..Len(live) /\ Len(live) \in Nat /\ \A i \in Blocks : live[i] \in Block
      /\ Blocks' = 1..(Len(live) + 1) /\ (\A i \in Blocks : live'[i] = live[i]) /\ live'[Len(live) + 1] = b
  BY <1>1, <1>2, Types, AppendBlock DEF RingInv
<1>g. mDataBegin < mDataEnd /\ mDataEnd <= mCurrentCapacity /\ wrapped' /\ size <= mDataBegin /\ 0 < mDataBegin
  BY <1>t, <1>3, <1>u DEF RingInv, Geometry, wrapped
<1>4. TypeOK'
  <2>1. live' \in Seq(Block) BY <1>1, <1>2, AppendBlock DEF RingInv
  <2>2. decClamped(mDataBegin, mFragmentReserve) \in Int BY <1>t, Clamp
  <2> QED BY <1>t, <1>2, <1>u, <2>1, <2>2 DEF RingInv, TypeOK, Block, settings, shared
<1>5. Geometry' BY <1>t, <1>2, <1>u, <1>g DEF Geometry, wrapped, decClamped, settings
<1>6. BlockInv'
  <2> SUFFICES ASSUME NEW i \in Blocks'
               PROVE  /\ live'[i].buffer <= mBufferId /\ live'[i].begin < live'[i].end
                      /\ live'[i].buffer = mBufferId => Place(live[i])'
                      /\ live'[i].buffer # mBufferId => StoredInOld(live[i])'
    BY Zenon, <1>u DEF BlockInv
  <2>1. CASE i = Len(live) + 1 BY <1>t, <1>1, <1>2, <1>l, <1>g, <2>1 DEF Place
  <2>2. CASE i \in Blocks
    <3>1. live'[i] = live[i] BY Zenon, <1>l, <2>2
    <3>2. live[i].buffer \in Nat /\ live[i].begin \in Nat /\ live[i].end \in Nat BY <1>l, <2>2 DEF Block
    <3>3. Place(live[i]) => Place(live[i])' BY <1>t, <1>3, <1>u, <1>g, <3>1, <3>2 DEF Place
    <3>4. StoredInOld(live[i]) => StoredInOld(live[i])' BY Zenon, <1>u, <3>1 DEF StoredInOld
    <3> QED BY Zenon, <2>2, <3>1, <3>3, <3>4 DEF RingInv, BlockInv
  <2> QED BY <1>l, <2>1, <2>2
<1>7. LiveDisjoint'
  <2>1. ASSUME NEW i \in Blocks, live[i].buffer = mBufferId PROVE b.end <= live[i].begin
    <3>1. live[i].begin \in Nat /\ live[i].end \in Nat BY Zenon, <1>l DEF Block
    <3>2. Place(live[i]) BY Zenon, <2>1 DEF RingInv, BlockInv
    <3> QED BY <1>t, <1>1, <1>3, <3>1, <3>2 DEF Place
  <2> QED BY <1>1, <1>l, <2>1 DEF RingInv, LiveDisjoint
<1>c. /\ ChainInv' /\ EmptyIsReset' /\ AllPoints' = AllPoints
      /\ \A cp \in AllPoints : cp \in CheckPoint /\ cp.covers <= Len(live) /\ cp.covers < Len(live')
  BY <1>1, <1>2, AllocatedChain
<1>8. ASSUME NEW cp \in AllPoints, cp.id = mBufferId PROVE SplitsHigh(cp) /\ ~Low(cp.ptr) /\ ~Low(cp.ptr)'
  <2>1. cp.ptr \in Nat BY <1>c DEF CheckPoint
  <2>2. ~Low(cp.ptr) BY <1>3 DEF Low
  <2>3. SplitsHigh(cp) BY Zenon, <1>8, <2>2 DEF RingInv, PointsInv, PointInv
  <2>4. cp.ptr > mDataBegin BY <1>t, <1>g, <2>1, <2>3 DEF SplitsHigh
  <2> QED BY <1>t, <1>2, <1>g, <2>1, <2>2, <2>3, <2>4 DEF Low
<1>9. ASSUME NEW cp \in AllPoints PROVE PointInv(cp)'
  <2>1. cp \in CheckPoint /\ cp.id \in Nat /\ cp.ptr \in Nat /\ cp.covers \in Nat BY <1>c DEF CheckPoint
  <2>2. PointInv(cp) BY DEF RingInv, PointsInv
  <2>3. cp.covers < Len(live) + 1 /\ cp.covers <= Len(live') /\ cp.covers # Len(live')
    BY <1>c, <1>l, <1>1, <1>2, <2>1, AppendBlock DEF RingInv
  <2>4. \A i \in Blocks' : IF i <= cp.covers THEN live'[i].buffer <= cp.id ELSE cp.id <= live'[i].buffer
    <3> SUFFICES ASSUME NEW i \in Blocks'
                 PROVE  IF i <= cp.covers THEN live'[i].buffer <= cp.id ELSE cp.id <= live'[i].buffer
      BY Zenon
    <3>1. CASE i \in Blocks BY Zenon, <1>l, <2>2, <3>1 DEF PointInv
    <3>2. CASE i = Len(live) + 1
      <4>1. ~(i <= cp.covers) /\ live'[i].buffer = b.buffer BY <1>l, <2>1, <2>3, <3>2
      <4>2. cp.id <= b.buffer BY Zenon, <1>1, <2>2 DEF PointInv
      <4> QED BY Zenon, <4>1, <4>2
    <3> QED BY Zenon, <1>l, <3>1, <3>2, LastOrBefore
  <2>5. CASE cp.id = mBufferId
    <3>1. SplitsHigh(cp) /\ ~Low(cp.ptr)' BY <1>8, <2>5
    <3>2. SplitsHigh(cp)'
      <4>1. mDataBegin <= cp.ptr /\ cp.ptr <= mCurrentCapacity /\ cp.ptr # mDataBegin
        BY SMTT(30), <1>t, <1>3, <1>g, <2>1, <3>1 DEF SplitsHigh
      <4>2. ASSUME NEW i \in Blocks', live'[i].buffer = mBufferId
            PROVE  IF i <= cp.covers THEN mDataBegin <= live'[i].begin /\ live'[i].end <= cp.ptr
                   ELSE cp.ptr <= live'[i].begin \/ live'[i].end <= mDataEnd'
        <5>1. CASE i = Len(live) + 1 BY <1>t, <1>1, <1>2, <1>l, <2>1, <2>3, <5>1
        <5>2. CASE i \in Blocks
          <6>1. live'[i] = live[i] BY Zenon, <1>l, <5>2
          <6> QED BY Zenon, <1>3, <3>1, <4>2, <5>2, <6>1 DEF SplitsHigh
        <5> QED BY Zenon, <1>l, <5>1, <5>2, LastOrBefore
      <4> QED BY Zenon, <1>u, <1>g, <4>1, <4>2 DEF SplitsHigh
    <3> QED BY Zenon, <1>u, <2>2, <2>3, <2>4, <2>5, <3>1, <3>2 DEF PointInv
  <2>6. CASE cp.id # mBufferId BY Zenon, <1>u, <2>2, <2>3, <2>4, <2>6 DEF PointInv
  <2> QED BY <2>5, <2>6
<1>10. PointsInv' BY <1>c, <1>u, <1>8, <1>9 DEF RingInv, PointsInv, Before
<1> QED BY <1>4, <1>5, <1>6, <1>7, <1>c, <1>10 DEF RingInv

\* A buffer that is replaced keeps its blocks: oldBuffers holds the buffers of the
\* blocks that stay.
LEMMA ReplacedStored ==
  ASSUME NEW oldBuffers \in Seq([id : Nat, size : Nat]), NEW id \in Nat, NEW capacity \in Nat,
         NEW b \in Block,
         \/ b.buffer = id /\ b.end <= capacity
         \/ \E k \in DOMAIN oldBuffers : oldBuffers[k].id = b.buffer /\ b.end <= oldBuffers[k].size,
         mOldBuffers' = Append(oldBuffers, [id |-> id, size |-> capacity])
  PROVE  \E k \in DOMAIN mOldBuffers' : mOldBuffers'[k].id = b.buffer /\ b.end <= mOldBuffers'[k].size
<1> DEFINE e == [id |-> id, size |-> capacity]
<1>1. e \in [id : Nat, size : Nat] /\ e.id = id /\ e.size = capacity BY Zenon
<1> HIDE DEF e
<1>2. mOldBuffers' = Append(oldBuffers, e) BY Zenon DEF e
<1>3. /\ DOMAIN mOldBuffers' = 1..(Len(oldBuffers) + 1) /\ DOMAIN oldBuffers = 1..Len(oldBuffers)
      /\ Len(oldBuffers) \in Nat
      /\ (\A i \in 1..Len(oldBuffers) : mOldBuffers'[i] = oldBuffers[i]) /\ mOldBuffers'[Len(oldBuffers) + 1] = e
  BY <1>1, <1>2, AppendFacts
<1>4. CASE b.buffer = id /\ b.end <= capacity
  <2>1. Len(oldBuffers) + 1 \in DOMAIN mOldBuffers' BY <1>3
  <2> QED BY Zenon, <1>1, <1>3, <1>4, <2>1
<1>5. ASSUME NEW k \in DOMAIN oldBuffers, oldBuffers[k].id = b.buffer, b.end <= oldBuffers[k].size
      PROVE  \E l \in DOMAIN mOldBuffers' : mOldBuffers'[l].id = b.buffer /\ b.end <= mOldBuffers'[l].size
  <2>1. k \in DOMAIN mOldBuffers' /\ mOldBuffers'[k] = oldBuffers[k] BY <1>3
  <2> QED BY Zenon, <1>5, <2>1
<1> QED BY Zenon, <1>4, <1>5

\* Growing: the blocks so far are in old buffers.
LEMMA GrowStep ==
  ASSUME RingInv, NEW size \in Sizes, NEW newCapacity \in Nat, newCapacity >= size,
         resize(newCapacity, mOldBuffers), handOut(mBufferId', 0, size)
  PROVE  RingInv'
<1> USE AllocatorAssumption
<1> DEFINE b == [buffer |-> mBufferId + 1, begin |-> 0, end |-> 0 + size]
<1>t. /\ mBufferId \in Nat /\ mDataBegin \in Nat /\ mDataEnd \in Nat /\ mFragmentEnd \in Nat
      /\ mFragmentReserve \in Nat /\ mCurrentCapacity \in Nat \ {0} /\ size \in Nat \ {0}
      /\ mOldBuffers \in Seq([id : Nat, size : Nat])
  BY DEF RingInv, TypeOK
<1>1. b \in Block /\ b.buffer = mBufferId + 1 /\ b.begin = 0 /\ b.end = size BY <1>t DEF Block
<1>u. /\ mBufferId' = mBufferId + 1 /\ mDataBegin' = 0 /\ mFragmentEnd' = newCapacity
      /\ mFragmentEndR' = decClamped(newCapacity, mFragmentReserve)
      /\ mCurrentCapacity' = newCapacity /\ mAllocationMargin' = newCapacity
      /\ mOldBuffers' = Append(mOldBuffers, [id |-> mBufferId, size |-> mCurrentCapacity])
  BY DEF resize, resetPointers
<1>2. /\ live' = Append(live, b) /\ fresh' = TRUE /\ UNCHANGED <<settings, shared>> /\ mDataEnd' = size
  BY <1>t, <1>u DEF handOut, b
<1> HIDE DEF b
<1>l. /\ Blocks = 1..Len(live) /\ Len(live) \in Nat /\ \A i \in Blocks : live[i] \in Block
      /\ Blocks' = 1..(Len(live) + 1) /\ (\A i \in Blocks : live'[i] = live[i]) /\ live'[Len(live) + 1] = b
  BY Zenon, <1>1, <1>2, Types, AppendBlock DEF RingInv
<1>g. ~wrapped' /\ newCapacity > 0 BY SMTT(30), <1>t, <1>u DEF wrapped
<1>4. TypeOK'
  <2>1. live' \in Seq(Block) BY <1>1, <1>2, AppendBlock DEF RingInv
  <2>2. decClamped(newCapacity, mFragmentReserve) \in Int BY <1>t, Clamp
  <2>3. [id |-> mBufferId, size |-> mCurrentCapacity] \in [id : Nat, size : Nat] BY <1>t
  <2>4. mOldBuffers' \in Seq([id : Nat, size : Nat]) BY <1>t, <1>u, <2>3, AppendFacts
  <2> QED BY SMTT(30), <1>t, <1>u, <1>g, <1>2, <2>1, <2>2, <2>4 DEF RingInv, TypeOK, Block, settings, shared
<1>5. Geometry' BY SMTT(30), <1>t, <1>2, <1>u, <1>g DEF Geometry, wrapped, decClamped, settings
<1>6. BlockInv'
  <2> SUFFICES ASSUME NEW i \in Blocks'
               PROVE  /\ live'[i].buffer <= mBufferId + 1 /\ live'[i].begin < live'[i].end
                      /\ live'[i].buffer = mBufferId + 1 => Place(live[i])'
                      /\ live'[i].buffer # mBufferId + 1 => StoredInOld(live[i])'
    BY Zenon, <1>u DEF BlockInv
  <2>1. CASE i = Len(live) + 1
    <3>1. live'[i] = b BY Zenon, <1>l, <2>1
    <3>2. mBufferId + 1 <= mBufferId + 1 /\ 0 < size /\ 0 <= 0 /\ size <= size BY <1>t
    <3>3. Place(live[i])' BY Zenon, <1>1, <1>2, <1>u, <1>g, <3>1, <3>2 DEF Place
    <3> QED BY Zenon, <1>1, <3>1, <3>2, <3>3
  <2>2. CASE i \in Blocks
    <3>1. live'[i] = live[i] BY <1>l, <2>2
    <3>2. live[i] \in Block /\ live[i].buffer \in Nat /\ live[i].begin \in Nat /\ live[i].end \in Nat
      BY <1>l, <2>2 DEF Block
    <3>3. /\ live[i].buffer <= mBufferId /\ live[i].begin < live[i].end
          /\ \/ live[i].buffer = mBufferId /\ Place(live[i])
             \/ StoredInOld(live[i])
      BY <2>2 DEF RingInv, BlockInv
    <3>4. Place(live[i]) => live[i].end <= mCurrentCapacity BY Zenon, <3>2, PlaceEnds
    <3>5. StoredInOld(live[i])'
      <4>1. \E k \in DOMAIN mOldBuffers' :
              mOldBuffers'[k].id = live[i].buffer /\ live[i].end <= mOldBuffers'[k].size
        BY ZenonT(40), <1>t, <1>u, <3>2, <3>3, <3>4, ReplacedStored DEF StoredInOld
      <4> QED BY SMTT(30), <3>1, <4>1 DEF StoredInOld
    <3>6. mBufferId \in Nat BY <1>t
    <3>7. live[i].buffer <= mBufferId + 1 /\ live[i].buffer # mBufferId + 1 BY Zenon, <3>2, <3>3, <3>6, NextId
    <3> QED BY Zenon, <3>1, <3>3, <3>5, <3>7
  <2> QED BY Zenon, <1>l, <2>1, <2>2, LastOrBefore
<1>7. LiveDisjoint'
  <2>1. \A i \in Blocks : live[i].buffer # b.buffer
    <3> SUFFICES ASSUME NEW i \in Blocks PROVE live[i].buffer # b.buffer OBVIOUS
    <3>1. live[i].buffer \in Nat /\ live[i].buffer <= mBufferId BY <1>l DEF Block, RingInv, BlockInv
    <3> QED BY <1>t, <1>1, <3>1
  <2> QED BY SMTT(30), <1>l, <2>1 DEF RingInv, LiveDisjoint
<1>c. /\ ChainInv' /\ EmptyIsReset' /\ AllPoints' = AllPoints
      /\ \A cp \in AllPoints : cp \in CheckPoint /\ cp.covers <= Len(live) /\ cp.covers < Len(live')
  BY SMTT(30), <1>1, <1>2, AllocatedChain
<1>9. ASSUME NEW cp \in AllPoints PROVE PointInv(cp)' /\ cp.id # mBufferId'
  <2>1. cp \in CheckPoint /\ cp.id \in Nat /\ cp.ptr \in Nat /\ cp.covers \in Nat BY <1>c DEF CheckPoint
  <2>2. PointInv(cp) BY DEF RingInv, PointsInv
  <2>3. cp.covers < Len(live) + 1 /\ cp.covers <= Len(live') /\ cp.covers # Len(live')
    BY SMTT(30), <1>c, <1>l, <1>1, <1>2, <2>1, AppendBlock DEF RingInv
  <2>4. cp.id <= mBufferId BY <2>2 DEF PointInv
  <2>5. cp.id <= b.buffer /\ cp.id <= mBufferId + 1 /\ cp.id # mBufferId + 1 BY SMTT(30), <1>t, <1>1, <2>1, <2>4
  <2>6. \A i \in Blocks' : IF i <= cp.covers THEN live'[i].buffer <= cp.id ELSE cp.id <= live'[i].buffer
    <3> SUFFICES ASSUME NEW i \in Blocks'
                 PROVE  IF i <= cp.covers THEN live'[i].buffer <= cp.id ELSE cp.id <= live'[i].buffer
      OBVIOUS
    <3>1. CASE i \in Blocks BY <1>l, <2>2, <3>1 DEF PointInv
    <3>2. CASE i = Len(live) + 1
      <4>1. ~(i <= cp.covers) /\ live'[i].buffer = b.buffer BY <1>l, <2>1, <2>3, <3>2
      <4>2. cp.id <= b.buffer BY <2>5
      <4> QED BY SMTT(30), <4>1, <4>2
    <3> QED BY Zenon, <1>l, <3>1, <3>2, LastOrBefore
  <2> QED BY <1>u, <2>3, <2>5, <2>6 DEF PointInv
<1>10. PointsInv' BY <1>c, <1>9 DEF PointsInv
<1> QED BY <1>4, <1>5, <1>6, <1>7, <1>c, <1>10 DEF RingInv

-----------------------------------------------------------------------------
(* Check points                                                            *)

\* A new check point covers all blocks.
LEMMA CheckPointStep == RingInv /\ takeCheckPoint => RingInv'
<1> SUFFICES ASSUME RingInv, takeCheckPoint PROVE RingInv' OBVIOUS
<1> USE AllocatorAssumption
<1> DEFINE p == [id |-> mBufferId, ptr |-> mDataEnd, covers |-> Len(live)]
<1>t. /\ mBufferId \in Nat /\ mDataBegin \in Nat /\ mDataEnd \in Nat /\ mFragmentEnd \in Nat
      /\ mCurrentCapacity \in Nat \ {0}
      /\ Blocks = 1..Len(live) /\ Len(live) \in Nat /\ \A i \in Blocks : live[i] \in Block
      /\ AllPoints \subseteq CheckPoint /\ checkPoints \subseteq CheckPoint
      /\ mValue \subseteq CheckPoint /\ releasing \subseteq CheckPoint
  BY Types DEF RingInv, TypeOK
<1>1. p \in CheckPoint /\ p.id = mBufferId /\ p.ptr = mDataEnd /\ p.covers = Len(live) BY <1>t DEF CheckPoint
<1>2. /\ checkPoints' = checkPoints \cup {p} /\ fresh /\ fresh' = FALSE /\ releasing = {}
      /\ UNCHANGED <<bufferVars, pointers, settings, mAllocationMargin, live, mValue, releasing>>
  BY DEF takeCheckPoint, getReleaseCheckPoint, ownerIdle
<1> HIDE DEF p
<1>3. UNCHANGED core BY <1>2 DEF core, bufferVars, pointers
<1>4. live # <<>> /\ \A c \in AllPoints : c.covers < Len(live) BY <1>2 DEF RingInv, ChainInv
<1>5. AllPoints' = AllPoints \cup {p} BY <1>2 DEF AllPoints
<1>6. TypeOK'
  <2>1. checkPoints' \subseteq CheckPoint BY <1>1, <1>2, <1>t
  <2> QED BY Zenon, <1>2, <2>1 DEF RingInv, TypeOK, bufferVars, pointers, settings
<1>7. Geometry' BY <1>2 DEF RingInv, Geometry, wrapped, decClamped, bufferVars, pointers, settings
<1>8. PointInv(p)
  <2>1. \A i \in Blocks : i <= p.covers /\ live[i].buffer <= p.id BY <1>1, <1>t DEF RingInv, BlockInv
  <2>2. \A i \in Blocks : live[i].buffer = mBufferId => Place(live[i]) BY SMTT(30) DEF RingInv, BlockInv
  <2>3. CASE wrapped
    <3>1. Low(p.ptr) BY SMTT(30), <1>1, <1>t, <2>3 DEF Low
    <3>2. SplitsLow(p) BY SMTT(30), <1>1, <2>1, <2>2 DEF SplitsLow, Place
    <3> QED BY SMTT(30), <1>1, <1>t, <2>1, <3>1, <3>2 DEF PointInv
  <2>4. CASE ~wrapped
    <3>1. ~Low(p.ptr) BY <2>4 DEF Low
    <3>2. mDataBegin <= mDataEnd /\ (mDataEnd = mDataBegin => mDataBegin = 0)
      BY SMTT(30), <1>t, <2>4 DEF RingInv, Geometry
    <3>3. SplitsHigh(p) BY <1>1, <1>t, <2>1, <2>2, <2>4, <3>2 DEF SplitsHigh, Place
    <3> QED BY <1>1, <1>t, <2>1, <3>1, <3>3 DEF PointInv
  <2> QED BY <2>3, <2>4
<1>9. ASSUME NEW c \in AllPoints, c.id = mBufferId PROVE Before(c, p)
  <2>1. c \in CheckPoint /\ c.ptr \in Nat /\ c.covers \in Nat /\ c.covers < Len(live) BY <1>4, <1>t DEF CheckPoint
  <2>2. PointInv(c) BY DEF RingInv, PointsInv
  <2>3. Len(live) \in Blocks /\ ~(Len(live) <= c.covers) BY <1>t, <2>1
  <2>4. PICK l \in Block : l = live[Len(live)] BY <1>t, <2>3
  <2>5. l.buffer \in Nat /\ l.begin \in Nat /\ l.end \in Nat BY DEF Block
  <2>6. l.begin < l.end /\ l.buffer <= mBufferId /\ (l.buffer = mBufferId => Place(l))
    BY <2>3, <2>4 DEF RingInv, BlockInv
  <2>7. mBufferId <= l.buffer BY <1>9, <2>2, <2>3, <2>4 DEF PointInv
  <2>8. l.buffer = mBufferId /\ Place(l) BY <1>t, <2>5, <2>6, <2>7
  <2>9. CASE Low(c.ptr)
    <3>1. SplitsLow(c) BY SMTT(30), <1>9, <2>2, <2>9 DEF PointInv
    <3>2. c.ptr <= l.begin /\ l.end <= mDataEnd BY <2>3, <2>4, <2>8, <3>1 DEF SplitsLow
    <3>3. c.ptr < mDataEnd BY <1>t, <2>1, <2>5, <2>6, <3>2
    <3> QED BY SMTT(30), <1>1, <1>t, <2>9, <3>3 DEF Before, Low
  <2>10. CASE ~Low(c.ptr) /\ ~wrapped
    <3>1. SplitsHigh(c) BY <1>9, <2>2, <2>10 DEF PointInv
    <3>2. c.ptr <= l.begin BY <2>3, <2>4, <2>8, <2>10, <3>1 DEF SplitsHigh
    <3>3. c.ptr < mDataEnd BY <1>t, <2>1, <2>5, <2>6, <2>8, <2>10, <3>2 DEF Place
    <3> QED BY <1>1, <2>10, <3>3 DEF Before
  <2>11. CASE ~Low(c.ptr) /\ wrapped BY <1>1, <1>t, <2>11 DEF Before, Low
  <2> QED BY <2>9, <2>10, <2>11
<1>10. PointsInv'
  <2>1. mBufferId' = mBufferId BY <1>3 DEF core
  <2>2. \A c \in AllPoints' : PointInv(c)' BY <1>3, <1>5, <1>8, Frame DEF RingInv, PointsInv
  <2>3. ASSUME NEW c \in AllPoints', NEW d \in AllPoints', c.covers < d.covers, c.id = mBufferId, d.id = mBufferId
        PROVE  Before(c, d)
    <3>1. c # p BY <1>1, <1>4, <1>5, <1>t, <2>3 DEF CheckPoint
    <3>2. CASE d = p BY <1>5, <1>9, <2>3, <3>1, <3>2
    <3>3. CASE d # p BY <1>5, <2>3, <3>1, <3>3 DEF RingInv, PointsInv
    <3> QED BY <3>2, <3>3
  <2> QED BY <1>3, <2>1, <2>2, <2>3, Frame DEF PointsInv
<1>11. ChainInv'
  <2>1. \A c \in mValue : c.covers < p.covers BY <1>1, <1>4 DEF AllPoints
  <2>2. \A c \in checkPoints : c.covers < p.covers /\ c.covers \in Nat BY <1>1, <1>4, <1>t DEF AllPoints, CheckPoint
  <2>3. p.covers \in Nat BY <1>1, <1>t
  <2> QED BY <1>2, <2>1, <2>2, <2>3 DEF RingInv, ChainInv
<1> QED BY <1>3, <1>6, <1>7, <1>10, <1>11, Frame DEF RingInv

\* Handing a check point on moves it: the order of check points stays.
LEMMA HandOnStep == RingInv /\ (releaseAndUpdate \/ pop) => RingInv'
<1> SUFFICES ASSUME RingInv, releaseAndUpdate \/ pop PROVE RingInv' OBVIOUS
<1>t. checkPoints \subseteq CheckPoint /\ mValue \subseteq CheckPoint /\ releasing \subseteq CheckPoint
  BY Types DEF RingInv
<1>1. UNCHANGED <<bufferVars, pointers, settings, mAllocationMargin, live, fresh>>
  BY DEF releaseAndUpdate, pop
<1>2. UNCHANGED core BY <1>1 DEF core, bufferVars, pointers
<1>3. AllPoints' \subseteq AllPoints BY DEF releaseAndUpdate, pop, AllPoints
<1>4. TypeOK'
  <2>1. checkPoints' \subseteq CheckPoint /\ mValue' \subseteq CheckPoint /\ releasing' \subseteq CheckPoint
    BY <1>t DEF releaseAndUpdate, pop
  <2> QED BY <1>1, <2>1 DEF RingInv, TypeOK, bufferVars, pointers, settings
<1>5. Geometry' BY <1>1 DEF RingInv, Geometry, wrapped, decClamped, bufferVars, pointers, settings
<1>6. PointsInv'
  <2>1. mBufferId' = mBufferId BY <1>2 DEF core
  <2> QED BY <1>2, <1>3, <2>1, Frame DEF RingInv, PointsInv
<1>7. ChainInv'
  <2>0. live' = live /\ fresh' = fresh BY <1>1
  <2>1. ASSUME NEW cp \in checkPoints, \A other \in checkPoints : cp.covers <= other.covers,
               mValue' = {cp}, checkPoints' = checkPoints \ {cp}, releasing' = releasing
        PROVE  ChainInv'
    <3>1. \A d \in checkPoints' : cp.covers < d.covers
      <4> SUFFICES ASSUME NEW d \in checkPoints' PROVE cp.covers < d.covers OBVIOUS
      <4>1. d \in checkPoints /\ d # cp BY <2>1
      <4>2. d.covers # cp.covers BY <4>1 DEF RingInv, ChainInv
      <4>3. cp.covers \in Nat /\ d.covers \in Nat /\ cp.covers <= d.covers BY <1>t, <2>1, <4>1 DEF CheckPoint
      <4> QED BY <4>2, <4>3
    <3> QED BY <1>3, <2>0, <2>1, <3>1 DEF RingInv, ChainInv
  <2>2. CASE releaseAndUpdate BY <2>1, <2>2 DEF releaseAndUpdate
  <2>3. CASE pop
    <3>1. releasing' = mValue /\ mValue' = {} /\ checkPoints' = checkPoints BY <2>3 DEF pop
    <3> QED BY <1>3, <2>0, <3>1 DEF RingInv, ChainInv
  <2> QED BY <2>2, <2>3
<1> QED BY <1>2, <1>4, <1>5, <1>6, <1>7, Frame DEF RingInv

-----------------------------------------------------------------------------
(* Releasing a check point                                                 *)

\* What every release does to the blocks and the check points.
Releases(cp) ==
  /\ cp \in releasing
  /\ live' = SubSeq(live, cp.covers + 1, Len(live))
  /\ checkPoints' = uncovered(checkPoints, cp.covers) /\ mValue' = uncovered(mValue, cp.covers)
  /\ releasing' = {} /\ UNCHANGED <<fresh, settings>>

\* d is what the check point c becomes when n blocks are released.
Kept(c, d, n) ==
  /\ c \in AllPoints /\ c \in CheckPoint /\ n < c.covers
  /\ d.id = c.id /\ d.ptr = c.ptr /\ d.covers = c.covers - n

\* One check point after the release.
LEMMA Uncovered ==
  ASSUME NEW P, P \subseteq CheckPoint, NEW n \in Nat, \A c \in P : n < c.covers, NEW d \in uncovered(P, n)
  PROVE  d \in CheckPoint /\ \E c \in P : d.id = c.id /\ d.ptr = c.ptr /\ d.covers = c.covers - n
<1>1. PICK c \in P : d = [c EXCEPT !.covers = @ - n] BY DEF uncovered
<1>2. c \in CheckPoint /\ n < c.covers OBVIOUS
<1>3. c.covers - n \in Nat BY <1>2 DEF CheckPoint
<1>4. d = [id |-> c.id, ptr |-> c.ptr, covers |-> c.covers - n] BY <1>1, <1>2 DEF CheckPoint
<1> QED BY <1>2, <1>3, <1>4 DEF CheckPoint

\* The check points that stay were taken after the one that is released.
LEMMA KeptPoints ==
  ASSUME RingInv, NEW cp, Releases(cp)
  PROVE  /\ cp \in CheckPoint /\ cp.covers \in 0..Len(live) /\ PointInv(cp)
         /\ checkPoints' \subseteq CheckPoint /\ mValue' \subseteq CheckPoint
         /\ \A d \in checkPoints' : \E c \in checkPoints : Kept(c, d, cp.covers)
         /\ \A d \in mValue' : \E c \in mValue : Kept(c, d, cp.covers)
         /\ \A d \in AllPoints' : d \in CheckPoint /\ \E c \in AllPoints : Kept(c, d, cp.covers)
<1>1. /\ checkPoints \subseteq CheckPoint /\ mValue \subseteq CheckPoint /\ releasing \subseteq CheckPoint
      /\ cp \in CheckPoint /\ cp.covers \in Nat /\ cp \in AllPoints /\ Len(live) \in Nat
  BY Types DEF RingInv, Releases, CheckPoint, AllPoints
<1>2. PointInv(cp) /\ cp.covers \in 0..Len(live)
  <2>1. PointInv(cp) BY Zenon, <1>1 DEF RingInv, PointsInv
  <2>2. cp.covers <= Len(live) BY Zenon, <2>1 DEF PointInv
  <2> QED BY Zenon, <1>1, <2>1, <2>2, InRange
<1>3. (\A c \in checkPoints : cp.covers < c.covers) /\ \A c \in mValue : cp.covers < c.covers
  BY DEF RingInv, ChainInv, Releases
<1>4. checkPoints' = uncovered(checkPoints, cp.covers) /\ mValue' = uncovered(mValue, cp.covers) /\ releasing' = {}
  BY DEF Releases
<1>5. ASSUME NEW d \in checkPoints' PROVE d \in CheckPoint /\ \E c \in checkPoints : Kept(c, d, cp.covers)
  <2>1. d \in CheckPoint /\ \E c \in checkPoints : d.id = c.id /\ d.ptr = c.ptr /\ d.covers = c.covers - cp.covers
    BY <1>1, <1>3, <1>4, Uncovered
  <2> QED BY <1>1, <1>3, <2>1 DEF Kept, AllPoints
<1>6. ASSUME NEW d \in mValue' PROVE d \in CheckPoint /\ \E c \in mValue : Kept(c, d, cp.covers)
  <2>1. d \in CheckPoint /\ \E c \in mValue : d.id = c.id /\ d.ptr = c.ptr /\ d.covers = c.covers - cp.covers
    BY <1>1, <1>3, <1>4, Uncovered
  <2> QED BY <1>1, <1>3, <2>1 DEF Kept, AllPoints
<1>7. AllPoints' = checkPoints' \cup mValue' BY <1>4 DEF AllPoints
<1>8. checkPoints \subseteq AllPoints /\ mValue \subseteq AllPoints BY DEF AllPoints
<1> QED BY <1>1, <1>2, <1>5, <1>6, <1>7, <1>8

\* The blocks that stay.
LEMMA KeptBlocks ==
  ASSUME RingInv, NEW cp, Releases(cp)
  PROVE  /\ live' \in Seq(Block) /\ Len(live') = Len(live) - cp.covers
         /\ Blocks' = 1..(Len(live) - cp.covers) /\ (live' = <<>> <=> cp.covers = Len(live))
         /\ \A j \in Blocks' : /\ j + cp.covers \in Blocks /\ ~(j + cp.covers <= cp.covers)
                               /\ live'[j] = live[j + cp.covers] /\ live'[j] \in Block
<1>1. live \in Seq(Block) /\ Len(live) \in Nat /\ Blocks = 1..Len(live) /\ \A i \in Blocks : live[i] \in Block
  BY Types DEF RingInv
<1>2. cp.covers \in 0..Len(live) BY KeptPoints
<1>3. PICK n \in 0..Len(live) : n = cp.covers BY <1>2
<1>4. live' = SubSeq(live, n + 1, Len(live)) BY <1>3 DEF Releases
<1>5. /\ live' \in Seq(Block) /\ Len(live') = Len(live) - n /\ DOMAIN live' = 1..(Len(live) - n)
      /\ \A j \in 1..(Len(live) - n) : live'[j] = live[j + n]
  BY <1>1, <1>4, SuffixFacts
<1>6. live' = <<>> <=> n = Len(live)
  <2>1. live' = <<>> <=> Len(live') = 0 BY <1>5, EmptySeq
  <2> QED BY <1>1, <1>5, <2>1
<1>7. ASSUME NEW j \in 1..(Len(live) - n) PROVE j + n \in Blocks /\ ~(j + n <= n) /\ live[j + n] \in Block
  <2>1. j + n \in Blocks /\ ~(j + n <= n) BY <1>1
  <2> QED BY <1>1, <2>1
<1> QED BY <1>3, <1>5, <1>6, <1>7 DEF Blocks

\* Disjointness and the order of check points are not disturbed.
LEMMA KeptOrder ==
  ASSUME RingInv, NEW cp, Releases(cp)
  PROVE  LiveDisjoint' /\ ChainInv'
<1>t. Len(live) \in Nat /\ Blocks = 1..Len(live) /\ cp.covers \in Nat /\ cp \in AllPoints
  BY Types, KeptPoints DEF RingInv, Releases, AllPoints, CheckPoint
<1>1. LiveDisjoint'
  <2> SUFFICES ASSUME NEW i \in Blocks', NEW j \in Blocks', i < j, live'[i].buffer = live'[j].buffer
               PROVE  live'[i].end <= live'[j].begin \/ live'[j].end <= live'[i].begin
    BY DEF LiveDisjoint
  <2>1. i \in Nat /\ j \in Nat BY SMTT(30), <1>t, KeptBlocks
  <2>2. /\ i + cp.covers \in Blocks /\ live'[i] = live[i + cp.covers]
        /\ j + cp.covers \in Blocks /\ live'[j] = live[j + cp.covers]
    BY KeptBlocks
  <2>3. i + cp.covers < j + cp.covers BY <1>t, <2>1
  <2> QED BY <2>2, <2>3 DEF RingInv, LiveDisjoint
<1>2. ChainInv'
  <2>1. releasing' = {} /\ fresh' = fresh BY DEF Releases
  <2>2. ASSUME NEW c \in mValue', NEW d \in checkPoints' PROVE c.covers < d.covers
    <3>1. PICK e \in mValue : Kept(e, c, cp.covers) BY KeptPoints
    <3>2. PICK f \in checkPoints : Kept(f, d, cp.covers) BY KeptPoints
    <3>3. e.covers < f.covers BY DEF RingInv, ChainInv
    <3> QED BY <1>t, <3>1, <3>2, <3>3 DEF Kept, CheckPoint
  <2>3. ASSUME NEW c \in checkPoints', NEW d \in checkPoints', c.covers = d.covers PROVE c = d
    <3>1. PICK e \in checkPoints : Kept(e, c, cp.covers) BY KeptPoints
    <3>2. PICK f \in checkPoints : Kept(f, d, cp.covers) BY KeptPoints
    <3>3. e.covers = f.covers
      <4>1. e.covers \in Nat /\ c.covers = e.covers - cp.covers BY <3>1 DEF Kept, CheckPoint
      <4>2. f.covers \in Nat /\ d.covers = f.covers - cp.covers BY <3>2 DEF Kept, CheckPoint
      <4>3. e.covers - cp.covers = f.covers - cp.covers BY Zenon, <2>3, <4>1, <4>2
      <4> QED BY <1>t, <4>1, <4>2, <4>3
    <3>4. e = f BY <3>3 DEF RingInv, ChainInv
    <3>5. c \in CheckPoint /\ d \in CheckPoint BY KeptPoints
    <3> QED BY <2>3, <3>1, <3>2, <3>4, <3>5 DEF Kept, CheckPoint
  <2>4. ASSUME fresh PROVE live' # <<>> /\ \A c \in AllPoints' : c.covers < Len(live')
    <3>1. \A c \in AllPoints : c.covers < Len(live) BY <2>4 DEF RingInv, ChainInv
    <3>2. live' # <<>> BY <1>t, <3>1, KeptBlocks
    <3>3. ASSUME NEW d \in AllPoints' PROVE d.covers < Len(live')
      <4>1. PICK c \in AllPoints : Kept(c, d, cp.covers) BY KeptPoints
      <4>2. c.covers < Len(live) BY <3>1
      <4>3. Len(live') = Len(live) - cp.covers BY KeptBlocks
      <4> QED BY <1>t, <4>1, <4>2, <4>3 DEF Kept, CheckPoint
    <3> QED BY <3>2, <3>3
  <2> QED BY <2>1, <2>2, <2>3, <2>4 DEF ChainInv
<1> QED BY <1>1, <1>2

\* The part of PointInv that does not depend on the pointers.
LEMMA KeptCovers ==
  ASSUME RingInv, NEW cp, Releases(cp), NEW c, NEW d, Kept(c, d, cp.covers)
  PROVE  /\ PointInv(c) /\ d.covers <= Len(live') /\ (d.covers = Len(live') <=> c.covers = Len(live))
         /\ \A j \in Blocks' : /\ j <= d.covers <=> j + cp.covers <= c.covers
                               /\ IF j <= d.covers THEN live'[j].buffer <= d.id ELSE d.id <= live'[j].buffer
<1>1. /\ Len(live) \in Nat /\ cp.covers \in Nat /\ Len(live') = Len(live) - cp.covers
      /\ Blocks' = 1..(Len(live) - cp.covers)
  BY Types, KeptPoints, KeptBlocks DEF RingInv
<1>2. PointInv(c) /\ c.covers \in Nat /\ d.covers = c.covers - cp.covers /\ d.id = c.id
  BY DEF Kept, RingInv, PointsInv, CheckPoint
<1>3. c.covers <= Len(live) BY <1>2 DEF PointInv
<1>4. ASSUME NEW j \in Blocks'
      PROVE  /\ j <= d.covers <=> j + cp.covers <= c.covers
             /\ IF j <= d.covers THEN live'[j].buffer <= d.id ELSE d.id <= live'[j].buffer
  <2>1. j \in Nat BY <1>1
  <2>2. j <= d.covers <=> j + cp.covers <= c.covers
    <3>1. c.covers \in Nat /\ cp.covers \in Nat /\ d.covers = c.covers - cp.covers
      BY Zenon, <1>1, <1>2
    <3> QED BY <2>1, <3>1
  <2>3. j + cp.covers \in Blocks /\ live'[j] = live[j + cp.covers] BY KeptBlocks
  <2> QED BY Zenon, <1>2, <2>2, <2>3 DEF PointInv
<1>5. d.covers <= Len(live') /\ (d.covers = Len(live') <=> c.covers = Len(live))
  <2>1. Len(live) \in Nat /\ c.covers \in Nat /\ cp.covers \in Nat
    BY Zenon, <1>1, <1>2
  <2>2. d.covers = c.covers - cp.covers /\ Len(live') = Len(live) - cp.covers
    BY Zenon, <1>1, <1>2
  <2> QED BY <1>3, <2>1, <2>2
<1> QED BY Zenon, <1>2, <1>4, <1>5

\* A check point of an older buffer only drops buffers.
LEMMA ReleaseOldStep ==
  ASSUME RingInv, NEW cp, Releases(cp), cp.id # mBufferId, mOldBuffers' = removeOld(cp.id),
         UNCHANGED <<mBufferId, mCurrentCapacity, mAllocationMargin, pointers>>
  PROVE  RingInv'
<1>t. /\ mOldBuffers \in Seq([id : Nat, size : Nat]) /\ mBufferId \in Nat /\ cp.id \in Nat /\ cp.covers \in Nat
      /\ PointInv(cp)
  BY KeptPoints DEF RingInv, TypeOK, CheckPoint
<1>u. /\ mBufferId' = mBufferId /\ mCurrentCapacity' = mCurrentCapacity /\ mDataBegin' = mDataBegin
      /\ mDataEnd' = mDataEnd /\ mFragmentEnd' = mFragmentEnd /\ mFragmentEndR' = mFragmentEndR
      /\ wrapped' = wrapped /\ mAllocationMargin' = mAllocationMargin
  BY DEF pointers, wrapped
<1>o. /\ mOldBuffers' \in Seq([id : Nat, size : Nat])
      /\ \A k \in DOMAIN mOldBuffers : mOldBuffers[k].id >= cp.id =>
           \E l \in DOMAIN mOldBuffers' : mOldBuffers'[l] = mOldBuffers[k]
  BY Zenon, <1>t, RemoveOldFacts
<1>1. TypeOK'
  <2>1. live' \in Seq(Block) /\ checkPoints' \subseteq CheckPoint /\ mValue' \subseteq CheckPoint
    BY KeptBlocks, KeptPoints
  <2>2. releasing' = {} /\ UNCHANGED <<fresh, settings>> BY DEF Releases
  <2> QED BY <1>u, <1>o, <2>1, <2>2 DEF RingInv, TypeOK, Block, settings
<1>2. Geometry'
  <2>1. UNCHANGED settings BY DEF Releases
  <2> QED BY <1>u, <2>1 DEF RingInv, Geometry, decClamped, wrapped, settings
<1>3. BlockInv'
  <2> SUFFICES ASSUME NEW j \in Blocks'
               PROVE  /\ live'[j].buffer <= mBufferId /\ live'[j].begin < live'[j].end
                      /\ live'[j].buffer = mBufferId => Place(live[j])'
                      /\ live'[j].buffer # mBufferId => StoredInOld(live[j])'
    BY Zenon, <1>u DEF BlockInv
  <2>1. PICK i \in Blocks : i = j + cp.covers /\ ~(i <= cp.covers) /\ live'[j] = live[i] /\ live[i] \in Block
    BY Zenon, KeptBlocks
  <2>2. live[i].buffer \in Nat /\ cp.id <= live[i].buffer BY Zenon, <1>t, <2>1 DEF PointInv, Block
  <2>3. Place(live[i]) => Place(live[j])' BY Zenon, <1>u, <2>1 DEF Place
  <2>4. StoredInOld(live[i]) => StoredInOld(live[j])' BY ZenonT(40), <1>t, <1>o, <2>1, <2>2 DEF StoredInOld
  <2> QED BY <2>1, <2>3, <2>4 DEF RingInv, BlockInv
<1>4. ASSUME NEW c, NEW d, Kept(c, d, cp.covers) PROVE PointInv(d)'
  <2>1. /\ PointInv(c) /\ d.covers <= Len(live') /\ (d.covers = Len(live') <=> c.covers = Len(live))
        /\ \A j \in Blocks' : /\ j <= d.covers <=> j + cp.covers <= c.covers
                              /\ IF j <= d.covers THEN live'[j].buffer <= d.id ELSE d.id <= live'[j].buffer
    BY Zenon, <1>4, KeptCovers
  <2>2. d.id = c.id /\ d.ptr = c.ptr BY <1>4 DEF Kept
  <2>3. \A j \in Blocks' : j + cp.covers \in Blocks /\ live'[j] = live[j + cp.covers] BY KeptBlocks
  <2>4. Low(d.ptr)' = Low(c.ptr) BY <1>u, <2>2 DEF Low
  <2>5. SplitsLow(c) => SplitsLow(d)' BY Zenon, <1>u, <2>1, <2>2, <2>3 DEF SplitsLow
  <2>6. SplitsHigh(c) => SplitsHigh(d)' BY Zenon, <1>u, <2>1, <2>2, <2>3 DEF SplitsHigh
  <2> QED BY Zenon, <1>u, <2>1, <2>2, <2>4, <2>5, <2>6 DEF PointInv
<1>5. PointsInv'
  <2>1. \A d \in AllPoints' : PointInv(d)' BY <1>4, KeptPoints
  <2>2. ASSUME NEW d \in AllPoints', NEW f \in AllPoints', d.covers < f.covers, d.id = mBufferId, f.id = mBufferId
        PROVE  Before(d, f)'
    <3>1. PICK c \in AllPoints : Kept(c, d, cp.covers) BY KeptPoints
    <3>2. PICK e \in AllPoints : Kept(e, f, cp.covers) BY KeptPoints
    <3>3. c.covers < e.covers BY <1>t, <2>2, <3>1, <3>2 DEF Kept, CheckPoint
    <3>4. Before(c, e) BY <2>2, <3>1, <3>2, <3>3 DEF Kept, RingInv, PointsInv
    <3> QED BY <1>u, <3>1, <3>2, <3>4 DEF Before, Low, Kept
  <2> QED BY Zenon, <1>u, <2>1, <2>2 DEF PointsInv
<1>6. EmptyIsReset'
  <2>1. live' = <<>> => cp.covers = Len(live) BY KeptBlocks
  <2> QED BY <1>t, <1>u, <2>1 DEF PointInv, EmptyIsReset
<1> QED BY <1>1, <1>2, <1>3, <1>5, <1>6, KeptOrder DEF RingInv

\* A release of the current buffer leaves its blocks and check points only.
LEMMA KeptHere ==
  ASSUME RingInv, NEW cp, Releases(cp), cp.id = mBufferId
  PROVE  /\ \A j \in Blocks' : live'[j].buffer = mBufferId /\ live'[j].begin < live'[j].end /\ Place(live'[j])
         /\ \A c, d : Kept(c, d, cp.covers) => c.id = mBufferId /\ Before(cp, c)
<1>t. /\ mBufferId \in Nat /\ cp.covers \in Nat /\ PointInv(cp) /\ Len(live) \in Nat /\ Blocks = 1..Len(live)
      /\ cp \in AllPoints /\ \A i \in Blocks : live[i].buffer \in Nat
  <2>1. mBufferId \in Nat /\ cp \in AllPoints BY DEF RingInv, TypeOK, Releases, AllPoints
  <2>2. cp.covers \in Nat /\ PointInv(cp) BY KeptPoints DEF CheckPoint
  <2>3. Len(live) \in Nat /\ Blocks = 1..Len(live) /\ \A i \in Blocks : live[i].buffer \in Nat
    BY SMTT(30), Types DEF RingInv, Block
  <2> QED BY <2>1, <2>2, <2>3
<1>1. ASSUME NEW i \in Blocks, ~(i <= cp.covers) PROVE live[i].buffer = mBufferId
  <2>1. mBufferId <= live[i].buffer BY Zenon, <1>1, <1>t DEF PointInv
  <2>2. live[i].buffer <= mBufferId BY Zenon DEF RingInv, BlockInv
  <2> QED BY <1>t, <2>1, <2>2
<1>2. ASSUME NEW j \in Blocks'
      PROVE  live'[j].buffer = mBufferId /\ live'[j].begin < live'[j].end /\ Place(live'[j])
  <2>1. PICK i \in Blocks : ~(i <= cp.covers) /\ live'[j] = live[i] BY KeptBlocks
  <2>2. live[i].buffer = mBufferId BY <1>1, <2>1
  <2> QED BY Zenon, <2>1, <2>2 DEF RingInv, BlockInv
<1>3. ASSUME NEW c, NEW d, Kept(c, d, cp.covers) PROVE c.id = mBufferId /\ Before(cp, c)
  <2>1. c \in AllPoints /\ cp.covers < c.covers /\ c.id \in Nat /\ c.covers \in Nat /\ PointInv(c)
    BY <1>3 DEF Kept, CheckPoint, RingInv, PointsInv
  <2>0. c.covers <= Len(live) BY <2>1 DEF PointInv
  <2>2. c.covers \in Blocks /\ ~(c.covers <= cp.covers) BY Zenon, <1>t, <2>0, <2>1, Above
  <2>3. live[c.covers].buffer = mBufferId BY Zenon, <1>1, <2>2
  <2>4. live[c.covers].buffer <= c.id /\ c.id <= mBufferId
    <3>1. c.covers <= c.covers BY <2>1
    <3> QED BY Zenon, <2>1, <2>2, <3>1 DEF PointInv
  <2>5. c.id = mBufferId BY SMTT(20), <1>t, <2>1, <2>3, <2>4
  <2> QED BY Zenon, <1>t, <2>1, <2>5 DEF RingInv, PointsInv
<1> QED BY <1>2, <1>3

\* Shrinking: what stays is in the buffer that is replaced.
LEMMA ShrinkStep ==
  ASSUME RingInv, NEW cp, Releases(cp), cp.id = mBufferId, NEW newCapacity \in Nat \ {0},
         resize(newCapacity, removeOld(cp.id)), mDataEnd' = 0
  PROVE  RingInv'
<1>t. /\ mOldBuffers \in Seq([id : Nat, size : Nat]) /\ mBufferId \in Nat /\ cp.id \in Nat /\ cp.covers \in Nat
      /\ mCurrentCapacity \in Nat \ {0} /\ mFragmentReserve \in Nat /\ mDataBegin \in Nat /\ mDataEnd \in Nat
      /\ mFragmentEnd \in Nat /\ AllPoints \subseteq CheckPoint
  <2>1. cp.id \in Nat /\ cp.covers \in Nat BY KeptPoints DEF CheckPoint
  <2>2. AllPoints \subseteq CheckPoint BY Zenon, Types DEF RingInv
  <2> QED BY Zenon, <2>1, <2>2 DEF RingInv, TypeOK
<1>u. /\ mBufferId' = mBufferId + 1 /\ mDataBegin' = 0 /\ mFragmentEnd' = newCapacity
      /\ mFragmentEndR' = decClamped(newCapacity, mFragmentReserve)
      /\ mCurrentCapacity' = newCapacity /\ mAllocationMargin' = newCapacity
      /\ mOldBuffers' = Append(removeOld(cp.id), [id |-> mBufferId, size |-> mCurrentCapacity])
  BY DEF resize, resetPointers
<1>s. releasing' = {} /\ fresh' = fresh /\ mFragmentReserve' = mFragmentReserve
      /\ mDecaySpeedFactor' = mDecaySpeedFactor
  BY DEF Releases, settings
<1>o. removeOld(cp.id) \in Seq([id : Nat, size : Nat]) BY Zenon, <1>t, RemoveOldFacts
<1>1. TypeOK'
  <2>1. live' \in Seq(Block) /\ checkPoints' \subseteq CheckPoint /\ mValue' \subseteq CheckPoint
    BY KeptBlocks, KeptPoints
  <2>2. decClamped(newCapacity, mFragmentReserve) \in Int BY <1>t, Clamp
  <2>3. [id |-> mBufferId, size |-> mCurrentCapacity] \in [id : Nat, size : Nat] BY <1>t
  <2>4. mOldBuffers' \in Seq([id : Nat, size : Nat]) BY <1>u, <1>o, <2>3, AppendFacts
  <2> QED BY <1>t, <1>u, <1>s, <2>1, <2>2, <2>4 DEF RingInv, TypeOK, Block
<1>2. Geometry' BY <1>u, <1>s DEF Geometry, decClamped, wrapped
<1>3. BlockInv'
  <2> SUFFICES ASSUME NEW j \in Blocks'
               PROVE  /\ live'[j].buffer <= mBufferId + 1 /\ live'[j].begin < live'[j].end
                      /\ live'[j].buffer # mBufferId + 1 /\ StoredInOld(live[j])'
    BY Zenon, <1>u DEF BlockInv
  <2>1. live'[j] \in Block /\ live'[j].buffer = mBufferId /\ live'[j].begin < live'[j].end /\ Place(live'[j])
    BY Zenon, KeptBlocks, KeptHere
  <2>2. live'[j].end <= mCurrentCapacity BY Zenon, <2>1, PlaceEnds
  <2>3. \E k \in DOMAIN mOldBuffers' :
          mOldBuffers'[k].id = live'[j].buffer /\ live'[j].end <= mOldBuffers'[k].size
    BY Zenon, <1>t, <1>u, <1>o, <2>1, <2>2, ReplacedStored
  <2>4. mBufferId <= mBufferId + 1 /\ mBufferId # mBufferId + 1 BY <1>t
  <2> QED BY Zenon, <2>1, <2>3, <2>4 DEF StoredInOld
<1>4. ASSUME NEW d \in AllPoints' PROVE PointInv(d)' /\ d.id # mBufferId'
  <2>1. PICK c \in AllPoints : Kept(c, d, cp.covers) BY KeptPoints
  <2>2. /\ d.covers <= Len(live')
        /\ \A j \in Blocks' : IF j <= d.covers THEN live'[j].buffer <= d.id ELSE d.id <= live'[j].buffer
    BY Zenon, <2>1, KeptCovers
  <2>3. d.id = mBufferId BY Zenon, <2>1, KeptHere DEF Kept
  <2>4. d.id <= mBufferId + 1 /\ d.id # mBufferId + 1 BY <1>t, <2>3
  <2> QED BY Zenon, <1>u, <2>2, <2>4 DEF PointInv
<1>5. PointsInv' BY <1>4 DEF PointsInv
<1>6. EmptyIsReset' BY <1>u DEF EmptyIsReset
<1> QED BY <1>1, <1>2, <1>3, <1>5, <1>6, KeptOrder DEF RingInv

\* The data now begins at the check point.
MovedTo(ptr) ==
  /\ mDataBegin' = ptr /\ mDataEnd' = mDataEnd
  /\ mFragmentEnd' = IF ~wrapped THEN mFragmentEnd
                     ELSE IF ptr < mDataBegin THEN mCurrentCapacity ELSE ptr
  /\ mFragmentEndR' = IF wrapped THEN decClamped(mFragmentEnd', mFragmentReserve) ELSE mFragmentEndR
  /\ mBufferId' = mBufferId /\ mCurrentCapacity' = mCurrentCapacity

\* The three places of the check point: in the only stretch of data, or before or behind
\* the wrap.  After the last the data is one stretch again.
LEMMA MovedGeometry ==
  ASSUME RingInv, NEW cp, Releases(cp), cp.id = mBufferId, cp.ptr # mDataEnd, MovedTo(cp.ptr)
  PROVE  /\ Geometry' /\ getNumAllocatedInBuffer' \in Nat /\ getNumAllocatedInBuffer' <= getNumAllocatedInBuffer
         /\ \/ /\ ~wrapped /\ ~wrapped' /\ ~Low(cp.ptr) /\ SplitsHigh(cp)
               /\ mDataBegin <= cp.ptr /\ cp.ptr < mDataEnd
            \/ /\ wrapped /\ wrapped' /\ ~Low(cp.ptr) /\ SplitsHigh(cp)
               /\ mDataBegin < cp.ptr /\ cp.ptr <= mCurrentCapacity /\ mDataEnd <= mDataBegin
            \/ /\ wrapped /\ ~wrapped' /\ Low(cp.ptr) /\ SplitsLow(cp)
               /\ cp.ptr < mDataEnd /\ mDataEnd <= mDataBegin
<1>t. /\ mDataBegin \in Nat /\ mDataEnd \in Nat /\ mFragmentEnd \in Nat /\ mCurrentCapacity \in Nat \ {0}
      /\ mFragmentReserve \in Nat /\ mFragmentReserve' = mFragmentReserve
      /\ cp.ptr \in Nat /\ PointInv(cp)
  BY Zenon, KeptPoints DEF RingInv, TypeOK, CheckPoint, Releases, settings
<1>g. /\ mDataEnd <= mFragmentEnd /\ mFragmentEnd <= mCurrentCapacity
      /\ mFragmentEndR = decClamped(mFragmentEnd, mFragmentReserve)
      /\ wrapped <=> mFragmentEnd = mDataBegin
      /\ wrapped => 0 < mDataBegin
      /\ ~wrapped => /\ mFragmentEnd = mCurrentCapacity
                     /\ mDataBegin < mDataEnd \/ (mDataBegin = 0 /\ mDataEnd = 0)
  BY DEF RingInv, Geometry, wrapped
<1>u. /\ mDataBegin' = cp.ptr /\ mDataEnd' = mDataEnd /\ mCurrentCapacity' = mCurrentCapacity
      /\ mFragmentEnd' = IF ~wrapped THEN mFragmentEnd
                         ELSE IF cp.ptr < mDataBegin THEN mCurrentCapacity ELSE cp.ptr
      /\ mFragmentEndR' = IF wrapped THEN decClamped(mFragmentEnd', mFragmentReserve) ELSE mFragmentEndR
      /\ wrapped' <=> mFragmentEnd' = mDataBegin'
  BY DEF MovedTo, wrapped
<1>1. CASE ~wrapped
  <2>1. ~Low(cp.ptr) BY <1>1 DEF Low
  <2>2. SplitsHigh(cp) BY Zenon, <1>t, <2>1 DEF PointInv
  <2>b. mDataBegin <= cp.ptr /\ cp.ptr <= mDataEnd BY Zenon, <1>1, <2>2 DEF SplitsHigh
  <2>d. cp.ptr # mDataEnd OBVIOUS
  <2>3. mDataBegin <= cp.ptr /\ cp.ptr < mDataEnd BY SMTT(20), <1>t, <2>b, <2>d
  <2>4. ~wrapped' /\ mFragmentEnd' = mFragmentEnd BY <1>t, <1>g, <1>u, <1>1, <2>3
  <2>5. Geometry' BY <1>t, <1>g, <1>u, <1>1, <2>3, <2>4 DEF Geometry, decClamped
  <2>6. getNumAllocatedInBuffer = mDataEnd - mDataBegin /\ getNumAllocatedInBuffer' = mDataEnd - cp.ptr
    BY <1>1, <1>u, <2>4 DEF getNumAllocatedInBuffer
  <2> QED BY SMTT(30), <1>t, <1>1, <2>1, <2>2, <2>3, <2>4, <2>5, <2>6
<1>2. CASE wrapped /\ ~Low(cp.ptr)
  <2>1. SplitsHigh(cp) BY <1>t, <1>2 DEF PointInv
  <2>2. mDataBegin < cp.ptr /\ cp.ptr <= mCurrentCapacity /\ mDataEnd <= mDataBegin
    BY SMTT(20), <1>t, <1>g, <1>2, <2>1 DEF SplitsHigh
  <2>3. wrapped' /\ mFragmentEnd' = cp.ptr BY <1>t, <1>u, <1>2, <2>2
  <2>4. Geometry' BY <1>t, <1>g, <1>u, <1>2, <2>2, <2>3 DEF Geometry, decClamped
  <2>5. /\ getNumAllocatedInBuffer = mCurrentCapacity - (mDataBegin - mDataEnd)
        /\ getNumAllocatedInBuffer' = mCurrentCapacity - (cp.ptr - mDataEnd)
    BY <1>2, <1>u, <2>3 DEF getNumAllocatedInBuffer
  <2> QED BY SMTT(30), <1>t, <1>2, <2>1, <2>2, <2>3, <2>4, <2>5
<1>3. CASE wrapped /\ Low(cp.ptr)
  <2>1. SplitsLow(cp) BY Zenon, <1>t, <1>3 DEF PointInv
  <2>2. cp.ptr < mDataEnd /\ mDataEnd <= mDataBegin BY <1>t, <1>g, <1>3 DEF Low
  <2>3. ~wrapped' /\ mFragmentEnd' = mCurrentCapacity BY SMTT(30), <1>t, <1>g, <1>u, <1>3, <2>2
  <2>4. Geometry'
    <3>1. mDataEnd' <= mFragmentEnd' /\ mFragmentEnd' <= mCurrentCapacity' BY <1>t, <1>g, <1>u, <2>3
    <3>2. mFragmentEndR' = decClamped(mFragmentEnd', mFragmentReserve') BY <1>t, <1>u, <1>3
    <3>3. mDataBegin' < mDataEnd' /\ mFragmentEnd' = mCurrentCapacity' BY <1>u, <2>2, <2>3
    <3> QED BY <2>3, <3>1, <3>2, <3>3 DEF Geometry
  <2>5. /\ getNumAllocatedInBuffer = mCurrentCapacity - (mDataBegin - mDataEnd)
        /\ getNumAllocatedInBuffer' = mDataEnd - cp.ptr
    BY <1>3, <1>u, <2>3 DEF getNumAllocatedInBuffer
  <2> QED BY SMTT(30), <1>t, <1>g, <1>3, <2>1, <2>2, <2>3, <2>4, <2>5
<1> QED BY Zenon, <1>1, <1>2, <1>3

\* One block that stays, and how a later check point splits it off.
LEMMA MovedBlock ==
  ASSUME RingInv, NEW cp, Releases(cp), cp.id = mBufferId, cp.ptr # mDataEnd, MovedTo(cp.ptr), NEW j \in Blocks'
  PROVE  /\ Place(live[j])'
         /\ \A c, d : Kept(c, d, cp.covers) =>
              IF Low(d.ptr)'
                THEN IF j <= d.covers THEN mDataBegin' <= live'[j].begin \/ live'[j].end <= d.ptr
                     ELSE d.ptr <= live'[j].begin /\ live'[j].end <= mDataEnd'
                ELSE IF j <= d.covers THEN mDataBegin' <= live'[j].begin /\ live'[j].end <= d.ptr
                     ELSE d.ptr <= live'[j].begin \/ (wrapped' /\ live'[j].end <= mDataEnd')
<1>t. /\ mDataBegin \in Nat /\ mDataEnd \in Nat /\ mCurrentCapacity \in Nat \ {0}
      /\ cp.ptr \in Nat /\ cp.covers \in Nat
  BY KeptPoints DEF RingInv, TypeOK, CheckPoint
<1>u. mDataBegin' = cp.ptr /\ mDataEnd' = mDataEnd /\ mCurrentCapacity' = mCurrentCapacity BY DEF MovedTo
<1>1. PICK b \in Block : b = live'[j] BY SMTT(30), KeptBlocks
<1>2. b.begin \in Nat /\ b.end \in Nat /\ b.begin < b.end /\ b.buffer = mBufferId /\ Place(b)
  BY Zenon, <1>1, KeptHere DEF Block
<1>3. j + cp.covers \in Blocks /\ ~(j + cp.covers <= cp.covers) /\ b = live[j + cp.covers] BY <1>1, KeptBlocks
<1>4. \/ /\ ~wrapped /\ ~wrapped' /\ cp.ptr <= b.begin
      \/ /\ wrapped /\ wrapped' /\ mDataBegin < cp.ptr /\ cp.ptr <= mCurrentCapacity /\ mDataEnd <= mDataBegin
         /\ cp.ptr <= b.begin \/ b.end <= mDataEnd
      \/ /\ wrapped /\ ~wrapped' /\ cp.ptr < mDataEnd /\ mDataEnd <= mDataBegin
         /\ cp.ptr <= b.begin /\ b.end <= mDataEnd
  <2>1. SplitsHigh(cp) => cp.ptr <= b.begin \/ (wrapped /\ b.end <= mDataEnd) BY Zenon, <1>2, <1>3 DEF SplitsHigh
  <2>2. SplitsLow(cp) => cp.ptr <= b.begin /\ b.end <= mDataEnd BY Zenon, <1>2, <1>3 DEF SplitsLow
  <2> QED BY <2>1, <2>2, MovedGeometry
<1>5. Place(live[j])' BY Zenon, <1>t, <1>u, <1>1, <1>2, <1>4 DEF Place
<1>6. ASSUME NEW c, NEW d, Kept(c, d, cp.covers)
      PROVE  IF Low(d.ptr)'
               THEN IF j <= d.covers THEN mDataBegin' <= b.begin \/ b.end <= d.ptr
                    ELSE d.ptr <= b.begin /\ b.end <= mDataEnd'
               ELSE IF j <= d.covers THEN mDataBegin' <= b.begin /\ b.end <= d.ptr
                    ELSE d.ptr <= b.begin \/ (wrapped' /\ b.end <= mDataEnd')
  <2>1. c.id = mBufferId /\ PointInv(c) /\ d.ptr = c.ptr /\ c.ptr \in Nat /\ (j <= d.covers <=> j + cp.covers <= c.covers)
    BY Zenon, <1>6, KeptHere, KeptCovers DEF Kept, CheckPoint
  <2>2. CASE Low(c.ptr)
    <3>1. SplitsLow(c) BY Zenon, <2>1, <2>2 DEF PointInv
    <3>2. IF j <= d.covers THEN mDataBegin <= b.begin \/ b.end <= d.ptr
          ELSE d.ptr <= b.begin /\ b.end <= mDataEnd
      BY Zenon, <1>2, <1>3, <2>1, <3>1 DEF SplitsLow
    <3>3. Low(d.ptr)' <=> wrapped' BY Zenon, <1>u, <2>1, <2>2 DEF Low
    <3>4. wrapped BY <2>2 DEF Low
    <3>5. mDataEnd <= mDataBegin => ~(mDataBegin <= b.begin /\ b.end <= mDataEnd) BY Zenon, <1>t, <1>2, Elsewhere
    <3> QED BY Zenon, <1>u, <1>4, <3>2, <3>3, <3>4, <3>5
  <2>3. CASE ~Low(c.ptr)
    <3>1. SplitsHigh(c) BY Zenon, <2>1, <2>3 DEF PointInv
    <3>2. IF j <= d.covers THEN mDataBegin <= b.begin /\ b.end <= d.ptr
          ELSE d.ptr <= b.begin \/ (wrapped /\ b.end <= mDataEnd)
      BY Zenon, <1>2, <1>3, <2>1, <3>1 DEF SplitsHigh
    <3>3. (wrapped' <=> wrapped) /\ ~Low(d.ptr)'
      <4>1. Before(cp, c) BY Zenon, <1>6, KeptHere
      <4>2. ~Low(cp.ptr) BY <2>3, <4>1 DEF Before
      <4>3. wrapped' <=> wrapped BY <4>2, MovedGeometry
      <4> QED BY Zenon, <1>u, <2>1, <2>3, <4>3 DEF Low
    <3>5. mDataEnd <= mDataBegin => ~(mDataBegin <= b.begin /\ b.end <= mDataEnd) BY Zenon, <1>t, <1>2, Elsewhere
    <3> QED BY Zenon, <1>u, <1>4, <3>2, <3>3, <3>5
  <2> QED BY <2>2, <2>3
<1> QED BY Zenon, <1>1, <1>5, <1>6

\* The later check points after the move.
LEMMA MovedPoint ==
  ASSUME RingInv, NEW cp, Releases(cp), cp.id = mBufferId, cp.ptr # mDataEnd, MovedTo(cp.ptr),
         NEW c, NEW d, Kept(c, d, cp.covers)
  PROVE  /\ PointInv(d)'
         /\ Low(d.ptr)' <=> (Low(c.ptr) /\ ~Low(cp.ptr))
<1>t. /\ mDataBegin \in Nat /\ mDataEnd \in Nat /\ mCurrentCapacity \in Nat \ {0} /\ cp.ptr \in Nat
  BY KeptPoints DEF RingInv, TypeOK, CheckPoint
<1>u. mDataBegin' = cp.ptr /\ mDataEnd' = mDataEnd /\ mCurrentCapacity' = mCurrentCapacity /\ mBufferId' = mBufferId
  BY DEF MovedTo
<1>1. c.id = mBufferId /\ Before(cp, c) /\ d.ptr = c.ptr /\ c.ptr \in Nat /\ d.id = mBufferId
  BY Zenon, KeptHere DEF Kept, CheckPoint
<1>2. /\ PointInv(c) /\ d.covers <= Len(live') /\ (d.covers = Len(live') <=> c.covers = Len(live))
      /\ \A j \in Blocks' : IF j <= d.covers THEN live'[j].buffer <= d.id ELSE d.id <= live'[j].buffer
  BY Zenon, KeptCovers
<1>3. Low(d.ptr)' <=> (Low(c.ptr) /\ ~Low(cp.ptr))
  <2>1. Low(cp.ptr) => Low(c.ptr) BY <1>1 DEF Before
  <2>2. Low(d.ptr)' <=> wrapped' /\ c.ptr <= mDataEnd BY Zenon, <1>u, <1>1 DEF Low
  <2>3. Low(c.ptr) <=> wrapped /\ c.ptr <= mDataEnd BY DEF Low
  <2> QED BY <2>1, <2>2, <2>3, MovedGeometry
<1>4. Low(d.ptr)' => SplitsLow(d)'
  <2> HAVE Low(d.ptr)'
  <2> SUFFICES ASSUME NEW j \in Blocks'
               PROVE  IF j <= d.covers THEN mDataBegin' <= live'[j].begin \/ live'[j].end <= d.ptr
                      ELSE d.ptr <= live'[j].begin /\ live'[j].end <= mDataEnd'
    BY Zenon DEF SplitsLow
  <2> QED BY Zenon, MovedBlock
<1>5. ~Low(d.ptr)' => SplitsHigh(d)'
  <2> SUFFICES ASSUME ~Low(d.ptr)' PROVE SplitsHigh(d)' OBVIOUS
  <2>1. \A j \in Blocks' : IF j <= d.covers THEN mDataBegin' <= live'[j].begin /\ live'[j].end <= d.ptr
                           ELSE d.ptr <= live'[j].begin \/ (wrapped' /\ live'[j].end <= mDataEnd')
    BY Zenon, MovedBlock
  <2>2. cp.ptr < c.ptr BY Zenon, <1>1, <1>3 DEF Before
  <2>3. c.ptr <= (IF wrapped' THEN mCurrentCapacity ELSE mDataEnd)
    <3>1. CASE Low(c.ptr)
      <4>1. c.ptr <= mDataEnd /\ wrapped /\ Low(cp.ptr) BY <1>3, <3>1 DEF Low
      <4>2. ~wrapped' BY <4>1, MovedGeometry
      <4> QED BY <4>1, <4>2
    <3>2. CASE ~Low(c.ptr)
      <4>1. SplitsHigh(c) /\ ~Low(cp.ptr) BY Zenon, <1>1, <1>2, <3>2 DEF PointInv, Before
      <4>2. wrapped' <=> wrapped BY <4>1, MovedGeometry
      <4> QED BY Zenon, <4>1, <4>2 DEF SplitsHigh
    <3> QED BY <3>1, <3>2
  <2>4. cp.ptr <= d.ptr /\ d.ptr # cp.ptr BY Zenon, <1>t, <1>1, <2>2, Less
  <2>5. d.ptr <= (IF wrapped' THEN mCurrentCapacity' ELSE mDataEnd') BY Zenon, <1>u, <1>1, <2>3
  <2> QED BY Zenon, <1>u, <2>1, <2>4, <2>5 DEF SplitsHigh
<1>6. c.covers = Len(live) => c.ptr = mDataEnd BY Zenon, <1>1, <1>2 DEF PointInv
<1>7. mBufferId <= mBufferId BY DEF RingInv, TypeOK
<1>8. PointInv(d)' BY Zenon, <1>u, <1>1, <1>2, <1>4, <1>5, <1>6, <1>7 DEF PointInv
<1> QED BY <1>3, <1>8

\* Everything was released: the check point is at the end of the data.
LEMMA ReleaseAllFacts ==
  ASSUME RingInv, NEW cp, Releases(cp), cp.id = mBufferId, cp.ptr = mDataEnd
  PROVE  live' = <<>> /\ AllPoints' = {}
<1>t. /\ mDataBegin \in Nat /\ mDataEnd \in Nat /\ Len(live) \in Nat /\ cp.covers \in 0..Len(live) /\ PointInv(cp)
  BY Zenon, Types, KeptPoints DEF RingInv, TypeOK
<1>1. cp.covers = Len(live)
  <2> SUFFICES ASSUME cp.covers # Len(live) PROVE FALSE OBVIOUS
  <2>1. 1 \in Blocks' BY <1>t, KeptBlocks
  <2>2. PICK b \in Block : b = live'[1] /\ b = live[1 + cp.covers] BY <2>1, KeptBlocks
  <2>3. /\ 1 + cp.covers \in Blocks /\ ~(1 + cp.covers <= cp.covers) /\ b.buffer = mBufferId
        /\ b.begin < b.end /\ Place(b) /\ b.begin \in Nat /\ b.end \in Nat
    BY Zenon, <2>1, <2>2, KeptBlocks, KeptHere DEF Block
  <2>4. CASE wrapped
    <3>1. SplitsLow(cp) BY SMTT(20), <1>t, <2>4 DEF PointInv, Low
    <3>2. mDataEnd <= b.begin /\ b.end <= mDataEnd BY Zenon, <2>2, <2>3, <3>1 DEF SplitsLow
    <3> QED BY SMTT(20), <1>t, <2>3, <3>2
  <2>5. CASE ~wrapped
    <3>1. SplitsHigh(cp) BY <1>t, <2>5 DEF PointInv, Low
    <3>2. mDataEnd <= b.begin BY Zenon, <2>2, <2>3, <2>5, <3>1 DEF SplitsHigh
    <3>3. b.end <= mDataEnd BY Zenon, <2>3, <2>5 DEF Place
    <3> QED BY <1>t, <2>3, <3>2, <3>3
  <2> QED BY <2>4, <2>5
<1>2. AllPoints' = {}
  <2> SUFFICES ASSUME NEW d \in AllPoints' PROVE FALSE OBVIOUS
  <2>1. PICK c \in AllPoints : Kept(c, d, cp.covers) BY KeptPoints
  <2>2. cp.covers < c.covers /\ c.covers <= Len(live) /\ c.covers \in Nat
    BY Zenon, <2>1 DEF Kept, CheckPoint, RingInv, PointsInv, PointInv
  <2> QED BY <1>t, <1>1, <2>2
<1> QED BY <1>1, <1>2, KeptBlocks

\* release(uint8_t *): the pointers, the blocks and the check points.
LEMMA ReleasePointerFacts ==
  ASSUME RingInv, NEW cp, Releases(cp), cp.id = mBufferId, releasePointer(cp.ptr),
         mBufferId' = mBufferId, mCurrentCapacity' = mCurrentCapacity
  PROVE  /\ Geometry' /\ BlockInv' /\ PointsInv' /\ EmptyIsReset'
         /\ mDataBegin' \in Nat /\ mDataEnd' \in Nat /\ mFragmentEnd' \in Nat /\ mFragmentEndR' \in Int
         /\ getNumAllocatedInBuffer \in Nat
         /\ getNumAllocatedInBuffer' \in Nat /\ getNumAllocatedInBuffer' <= getNumAllocatedInBuffer
<1>t. /\ mDataBegin \in Nat /\ mDataEnd \in Nat /\ mFragmentEnd \in Nat /\ mCurrentCapacity \in Nat \ {0}
      /\ mFragmentReserve \in Nat /\ mFragmentReserve' = mFragmentReserve /\ mFragmentEndR \in Int
      /\ cp.ptr \in Nat /\ mBufferId \in Nat /\ cp.covers \in Nat
  BY Zenon, KeptPoints DEF RingInv, TypeOK, CheckPoint, Releases, settings
<1>0. getNumAllocatedInBuffer \in Nat
  <2>1. mDataEnd <= mFragmentEnd /\ mFragmentEnd <= mCurrentCapacity /\ (~wrapped => mDataBegin <= mDataEnd)
    BY <1>t DEF RingInv, Geometry
  <2> QED BY <1>t, <2>1 DEF getNumAllocatedInBuffer, wrapped
<1>1. CASE cp.ptr = mDataEnd
  <2>1. live' = <<>> /\ AllPoints' = {} BY <1>1, ReleaseAllFacts
  <2>2. /\ mDataBegin' = 0 /\ mFragmentEnd' = mCurrentCapacity /\ mDataEnd' = 0
        /\ mFragmentEndR' = decClamped(mCurrentCapacity, mFragmentReserve)
    BY <1>1 DEF releasePointer, resetPointers
  <2>3. decClamped(mCurrentCapacity, mFragmentReserve) \in Int BY <1>t, Clamp
  <2>4. Geometry' BY <1>t, <2>2 DEF Geometry, decClamped, wrapped
  <2>5. BlockInv' /\ PointsInv' /\ EmptyIsReset'
    <3>1. Blocks' = {} BY <2>1 DEF Blocks
    <3> QED BY <2>1, <2>2, <3>1 DEF BlockInv, PointsInv, EmptyIsReset
  <2>6. getNumAllocatedInBuffer' = 0 BY <1>t, <2>2 DEF getNumAllocatedInBuffer, wrapped
  <2> QED BY <1>t, <1>0, <2>2, <2>3, <2>4, <2>5, <2>6
<1>2. CASE cp.ptr # mDataEnd
  <2>1. MovedTo(cp.ptr) BY Zenon, <1>2 DEF releasePointer, MovedTo
  <2>2. /\ Geometry' /\ getNumAllocatedInBuffer' \in Nat /\ getNumAllocatedInBuffer' <= getNumAllocatedInBuffer
    BY Zenon, <1>2, <2>1, MovedGeometry
  <2>3. BlockInv'
    <3> SUFFICES ASSUME NEW j \in Blocks'
                 PROVE  live'[j].buffer = mBufferId /\ live'[j].begin < live'[j].end /\ Place(live[j])'
      BY SMTT(20), <1>t DEF BlockInv
    <3> QED BY Zenon, <1>2, <2>1, KeptHere, MovedBlock
  <2>4. PointsInv'
    <3>1. \A d \in AllPoints' : PointInv(d)' BY Zenon, <1>2, <2>1, KeptPoints, MovedPoint
    <3>2. ASSUME NEW d \in AllPoints', NEW f \in AllPoints', d.covers < f.covers PROVE Before(d, f)'
      <4>1. PICK c \in AllPoints : Kept(c, d, cp.covers) BY KeptPoints
      <4>2. PICK e \in AllPoints : Kept(e, f, cp.covers) BY KeptPoints
      <4>3. c.covers < e.covers BY SMTT(30), <1>t, <3>2, <4>1, <4>2 DEF Kept, CheckPoint
      <4>4. c.id = mBufferId /\ e.id = mBufferId /\ Before(cp, c) /\ Before(cp, e) BY Zenon, <4>1, <4>2, KeptHere
      <4>5. Before(c, e) BY SMTT(30), <4>3, <4>4 DEF RingInv, PointsInv
      <4>6. PointInv(d)' /\ (Low(d.ptr)' <=> (Low(c.ptr) /\ ~Low(cp.ptr))) BY Zenon, <1>2, <2>1, <4>1, MovedPoint
      <4>8. PointInv(f)' /\ (Low(f.ptr)' <=> (Low(e.ptr) /\ ~Low(cp.ptr))) BY Zenon, <1>2, <2>1, <4>2, MovedPoint
      <4>7. d.ptr = c.ptr /\ f.ptr = e.ptr BY <4>1, <4>2 DEF Kept
      <4> QED BY Zenon, <4>4, <4>5, <4>6, <4>7, <4>8 DEF Before
    <3> QED BY Zenon, <3>1, <3>2 DEF PointsInv
  <2>5. EmptyIsReset'
    <3>1. live' # <<>>
      <4>1. cp.covers # Len(live) BY Zenon, <1>2, KeptPoints DEF PointInv
      <4> QED BY SMTT(30), <4>1, KeptBlocks
    <3> QED BY <3>1 DEF EmptyIsReset
  <2>6. mDataBegin' \in Nat /\ mDataEnd' \in Nat /\ mFragmentEnd' \in Nat /\ mFragmentEndR' \in Int
    <3>1. mDataBegin' \in Nat /\ mDataEnd' \in Nat /\ mFragmentEnd' \in Nat BY <1>t, <2>1 DEF MovedTo
    <3>2. PICK fe \in Nat : fe = mFragmentEnd' BY <3>1
    <3>3. decClamped(fe, mFragmentReserve) \in Int BY <1>t, Clamp
    <3>4. mFragmentEndR' = IF wrapped THEN decClamped(fe, mFragmentReserve) ELSE mFragmentEndR
      BY <2>1, <3>2 DEF MovedTo
    <3> QED BY <1>t, <3>1, <3>3, <3>4
  <2> QED BY Zenon, <1>0, <2>2, <2>3, <2>4, <2>5, <2>6
<1> QED BY <1>1, <1>2

\* A check point of the current buffer moves the pointers and lowers the margin.
LEMMA ReleaseHereStep ==
  ASSUME RingInv, NEW cp, Releases(cp), cp.id = mBufferId, mOldBuffers' = removeOld(cp.id),
         UNCHANGED <<mBufferId, mCurrentCapacity>>, releasePointer(cp.ptr),
         mAllocationMargin' =
           IF atMargin THEN mCurrentCapacity
           ELSE mAllocationMargin - decay(getNumAllocatedInBuffer - getNumAllocatedInBuffer',
                                          mAllocationMargin - getNumAllocatedInBuffer)
  PROVE  RingInv'
<1>1. /\ Geometry' /\ BlockInv' /\ PointsInv' /\ EmptyIsReset'
      /\ mDataBegin' \in Nat /\ mDataEnd' \in Nat /\ mFragmentEnd' \in Nat /\ mFragmentEndR' \in Int
      /\ getNumAllocatedInBuffer \in Nat
      /\ getNumAllocatedInBuffer' \in Nat /\ getNumAllocatedInBuffer' <= getNumAllocatedInBuffer
  BY ReleasePointerFacts
<1>t. /\ mOldBuffers \in Seq([id : Nat, size : Nat]) /\ cp.id \in Nat /\ mBufferId \in Nat
      /\ mCurrentCapacity \in Nat \ {0} /\ mAllocationMargin \in 0..mCurrentCapacity /\ mDecaySpeedFactor \in Nat \ {0}
  BY KeptPoints DEF RingInv, TypeOK, CheckPoint
<1>2. mAllocationMargin' \in 0..mCurrentCapacity
  <2>1. CASE atMargin BY <1>t, <2>1
  <2>2. CASE ~atMargin
    <3>x. PICK x \in Nat : x = getNumAllocatedInBuffer BY <1>1
    <3>y. PICK y \in Nat : y = getNumAllocatedInBuffer' /\ y <= x BY <1>1, <3>x
    <3>w. y <= x BY <3>y
    <3>z. x - y \in Nat /\ x - y <= x BY <3>w
    <3>1. PICK r \in Nat : r = x - y /\ r <= x BY <3>z
    <3>2. x < mAllocationMargin BY <1>t, <2>2, <3>x DEF atMargin
    <3>3. PICK d \in Nat : d = mAllocationMargin - x BY <1>t, <3>2
    <3>4. r <= mAllocationMargin /\ d >= 1 /\ d <= mAllocationMargin /\ mAllocationMargin \in Nat \ {0}
      BY <1>t, <3>1, <3>2, <3>3
    <3>5. PICK q : q = ((r * d) \div mAllocationMargin) \div mDecaySpeedFactor OBVIOUS
    <3>6. q \in Nat /\ q <= d BY Zenon, <1>t, <3>4, <3>5, DecayBound
    <3>7. mAllocationMargin' = mAllocationMargin - larger(q, 1) BY <2>2, <3>x, <3>y, <3>1, <3>3, <3>5 DEF decay
    <3> QED BY <1>t, <3>4, <3>6, <3>7 DEF larger
  <2> QED BY <2>1, <2>2
<1>3. TypeOK'
  <2>1. live' \in Seq(Block) /\ checkPoints' \subseteq CheckPoint /\ mValue' \subseteq CheckPoint
    BY KeptBlocks, KeptPoints
  <2>2. releasing' = {} /\ UNCHANGED <<fresh, settings>> BY DEF Releases
  <2>3. mOldBuffers' \in Seq([id : Nat, size : Nat]) BY <1>t, RemoveOldFacts
  <2>4. {checkPoints', mValue', releasing'} \subseteq SUBSET CheckPoint BY <2>1, <2>2
  <2>5. fresh' \in BOOLEAN /\ mFragmentReserve' \in Nat /\ mDecaySpeedFactor' \in Nat \ {0}
    BY <2>2 DEF RingInv, TypeOK, settings
  <2> QED BY SMTT(30), <1>t, <1>1, <1>2, <2>1, <2>3, <2>4, <2>5 DEF TypeOK, Block
<1> QED BY <1>1, <1>3, KeptOrder DEF RingInv

\* The three cases of release().
LEMMA ReleaseStep == RingInv /\ release => RingInv'
<1> SUFFICES ASSUME RingInv, release PROVE RingInv' OBVIOUS
<1>1. PICK cp \in releasing :
        /\ Releases(cp)
        /\ \/ /\ cp.id # mBufferId
              /\ mOldBuffers' = removeOld(cp.id)
              /\ UNCHANGED <<mBufferId, mCurrentCapacity, mAllocationMargin, pointers>>
           \/ /\ cp.id = mBufferId
              /\ resize(larger(getNumAllocatedInBuffer * 3, kMinRingBufferAllocationCapacity), removeOld(cp.id))
              /\ mDataEnd' = 0
           \/ /\ cp.id = mBufferId
              /\ mOldBuffers' = removeOld(cp.id)
              /\ UNCHANGED <<mBufferId, mCurrentCapacity>>
              /\ releasePointer(cp.ptr)
              /\ mAllocationMargin' =
                   IF atMargin THEN mCurrentCapacity
                   ELSE mAllocationMargin - decay(getNumAllocatedInBuffer - getNumAllocatedInBuffer',
                                                  mAllocationMargin - getNumAllocatedInBuffer)
  BY Zenon DEF release, Releases
<1>2. larger(getNumAllocatedInBuffer * 3, kMinRingBufferAllocationCapacity) \in Nat \ {0}
  <2>1. getNumAllocatedInBuffer \in Int
    BY DEF RingInv, TypeOK, getNumAllocatedInBuffer
  <2> QED BY <2>1, AllocatorAssumption DEF larger
<1> QED BY <1>1, <1>2, ReleaseOldStep, ShrinkStep, ReleaseHereStep

-----------------------------------------------------------------------------
(* Theorems                                                                *)

\* RingInv is inductive.
LEMMA RingStep == RingInv /\ [Next]_vars => RingInv'
<1> SUFFICES ASSUME RingInv, [Next]_vars PROVE RingInv' OBVIOUS
<1> USE AllocatorAssumption
<1>1. CASE reset BY <1>1, ResetStep
<1>2. ASSUME NEW size \in Sizes, allocate(size) PROVE RingInv' BY <1>2, AllocateStep
<1>3. ASSUME NEW size \in Sizes, allocateInNewFragment(size) PROVE RingInv'
  <2> DEFINE newCapacity == larger(mCurrentCapacity + mCurrentCapacity \div 2, size + mFragmentReserve)
  <2>1. newCapacity \in Nat /\ newCapacity >= size
    <3>1. mCurrentCapacity \in Nat /\ mFragmentReserve \in Nat /\ size \in Nat BY DEF RingInv, TypeOK
    <3>2. mCurrentCapacity \div 2 \in Nat BY <3>1
    <3> QED BY <3>1, <3>2 DEF larger
  <2>2. \/ /\ ownerIdle /\ canWrap(size) /\ mFragmentEnd' = mDataBegin
           /\ mFragmentEndR' = decClamped(mDataBegin, mFragmentReserve)
           /\ handOut(mBufferId, 0, size) /\ UNCHANGED <<bufferVars, mDataBegin, mAllocationMargin>>
        \/ resize(newCapacity, mOldBuffers) /\ handOut(mBufferId', 0, size)
    BY <1>3 DEF allocateInNewFragment
  <2> HIDE DEF newCapacity
  <2> QED BY <2>1, <2>2, WrapStep, GrowStep
<1>4. CASE takeCheckPoint BY <1>4, CheckPointStep
<1>5. CASE releaseAndUpdate \/ pop BY <1>5, HandOnStep
<1>6. CASE release BY <1>6, ReleaseStep
<1> QED BY <1>1, <1>2, <1>3, <1>4, <1>5, <1>6, SettingStep DEF Next

\* RingInv holds in every reachable state.
LEMMA RingInvariant == Spec => []RingInv
<1> QED BY InitStep, RingStep, PTL DEF Spec

\* The margin and the pointers keep their types, in particular the margin is never lowered
\* below zero by a release.
THEOREM TypeCorrect == Spec => []TypeOK
<1>1. RingInv => TypeOK BY DEF RingInv
<1> QED BY <1>1, RingInvariant, PTL

\* Memory handed out by allocate() is not handed out again before it is released.
THEOREM DisjointCorrect == Spec => []LiveDisjoint
<1>1. RingInv => LiveDisjoint BY SMTT(30) DEF RingInv
<1> QED BY <1>1, RingInvariant, PTL

\* release() never drops the buffer of a block that was allocated after its check point.
THEOREM StoredCorrect == Spec => []LiveStored
<1>1. RingInv => LiveStored
  <2> SUFFICES ASSUME RingInv, NEW i \in Blocks
               PROVE  \/ live[i].buffer = mBufferId /\ live[i].end <= mCurrentCapacity
                      \/ \E k \in DOMAIN mOldBuffers :
                           mOldBuffers[k].id = live[i].buffer /\ live[i].end <= mOldBuffers[k].size
    BY DEF LiveStored
  <2>1. live[i] \in Block BY Types DEF RingInv
  <2>2. Place(live[i]) => live[i].end <= mCurrentCapacity BY Zenon, <2>1, PlaceEnds
  <2> QED BY Zenon, <2>2 DEF RingInv, BlockInv, StoredInOld
<1> QED BY <1>1, RingInvariant, PTL

\* The assertions of release(), getNumAllocatedInBuffer(), getFragmentSize() and decClamped() hold,
\* and the margin stays a natural number.
THEOREM AssertionsCorrect == Spec => []AssertionsHold
<1>1. RingInv => AssertionsHold
  <2> SUFFICES ASSUME RingInv PROVE AssertionsHold OBVIOUS
  <2>t. mDataBegin \in Nat /\ mDataEnd \in Nat /\ mFragmentEnd \in Nat /\ mCurrentCapacity \in Nat
    BY DEF RingInv, TypeOK
  <2>1. /\ mFragmentEnd <= mCurrentCapacity /\ mDataEnd <= mFragmentEnd
        /\ IF wrapped THEN mDataBegin >= mDataEnd ELSE mDataEnd >= mDataBegin
    BY <2>t DEF RingInv, Geometry, wrapped
  <2>2. ASSUME NEW cp \in releasing, cp.id = mBufferId, cp.ptr # mDataEnd
        PROVE  IF wrapped THEN cp.ptr < mDataEnd \/ (cp.ptr >= mDataBegin /\ cp.ptr <= mCurrentCapacity)
                          ELSE cp.ptr >= mDataBegin /\ cp.ptr < mDataEnd
    <3>1. cp \in AllPoints /\ cp.ptr \in Nat BY Types DEF RingInv, AllPoints, CheckPoint
    <3>2. Low(cp.ptr) \/ SplitsHigh(cp) BY Zenon, <2>2, <3>1 DEF RingInv, PointsInv, PointInv
    <3> QED BY <2>t, <2>2, <3>1, <3>2 DEF Low, SplitsHigh
  <2>3. mAllocationMargin \in 0..mCurrentCapacity BY Zenon DEF RingInv, TypeOK
  <2> QED BY Zenon, <2>1, <2>2, <2>3 DEF AssertionsHold
<1> QED BY <1>1, RingInvariant, PTL

\* An allocator whose blocks are all released begins again at the front of its buffer.
THEOREM EmptyCorrect == Spec => []EmptyIsReset
<1>1. RingInv => EmptyIsReset BY DEF RingInv
<1> QED BY <1>1, RingInvariant, PTL

\* Each of the three ways to allocate leaves the reserve behind the block.
THEOREM ReserveCorrect == Spec => ReserveKept
<1>1. RingInv /\ [Next]_vars => [Len(live') > Len(live) => mFragmentEnd' - mDataEnd' >= mFragmentReserve]_vars
  <2> SUFFICES ASSUME RingInv, Next, Len(live') > Len(live)
               PROVE  mFragmentEnd' - mDataEnd' >= mFragmentReserve
    OBVIOUS
  <2> USE AllocatorAssumption
  <2>t. /\ mDataBegin \in Nat /\ mDataEnd \in Nat /\ mFragmentEnd \in Nat /\ mFragmentReserve \in Nat
        /\ mCurrentCapacity \in Nat /\ Len(live) \in Nat
    BY Types DEF RingInv, TypeOK
  <2>1. ASSUME NEW size \in Sizes, allocate(size) PROVE mFragmentEnd' - mDataEnd' >= mFragmentReserve
    <3>1. mDataEnd' = mDataEnd + size /\ mFragmentEnd' = mFragmentEnd /\ mFragmentEndR - mDataEnd >= size
      BY SMTT(30), <2>1 DEF allocate, handOut, fits
    <3>2. mFragmentEndR = decClamped(mFragmentEnd, mFragmentReserve) /\ size \in Nat \ {0} /\ mFragmentEndR \in Int
      BY DEF RingInv, Geometry, TypeOK
    <3>3. mFragmentEndR > 0 BY <2>t, <3>1, <3>2
    <3>4. mFragmentEndR = mFragmentEnd - mFragmentReserve BY <2>t, <3>2, <3>3, Clamp
    <3> QED BY SMTT(30), <2>t, <3>1, <3>2, <3>4
  <2>2. ASSUME NEW size \in Sizes, allocateInNewFragment(size) PROVE mFragmentEnd' - mDataEnd' >= mFragmentReserve
    <3>s. size \in Nat \ {0} OBVIOUS
    <3>1. CASE canWrap(size)
      <4>1. mDataEnd' = 0 + size /\ mFragmentEnd' = mDataBegin BY <2>2, <3>1 DEF allocateInNewFragment, handOut
      <4>2. PICK e \in Int : e = decClamped(mDataBegin, mFragmentReserve) BY Zenon, <2>t, Clamp
      <4>3. e >= size BY <3>1, <4>2 DEF canWrap
      <4>4. e = mDataBegin - mFragmentReserve BY <2>t, <3>s, <4>2, <4>3, Clamp
      <4> QED BY SMTT(30), <2>t, <3>s, <4>1, <4>3, <4>4
    <3>2. CASE ~canWrap(size)
      <4>1. /\ mDataEnd' = 0 + size
            /\ mFragmentEnd' = larger(mCurrentCapacity + mCurrentCapacity \div 2, size + mFragmentReserve)
        BY Zenon, <2>2, <3>2 DEF allocateInNewFragment, handOut, resize, resetPointers
      <4>2. mCurrentCapacity + mCurrentCapacity \div 2 \in Nat BY <2>t
      <4>3. mFragmentEnd' \in Nat /\ mFragmentEnd' >= size + mFragmentReserve
        BY <2>t, <3>s, <4>1, <4>2 DEF larger
      <4> QED BY SMTT(30), <2>t, <3>s, <4>1, <4>3
    <3> QED BY <3>1, <3>2
  <2>3. CASE reset BY <2>t, <2>3 DEF reset
  <2>4. ASSUME NEW cp \in releasing, live' = SubSeq(live, cp.covers + 1, Len(live)) PROVE FALSE
    <3>1. live \in Seq(Block) BY Types DEF RingInv
    <3>2. cp \in AllPoints /\ cp \in CheckPoint BY Types DEF RingInv, AllPoints
    <3>3. cp.covers \in 0..Len(live)
      <4>1. PointInv(cp) BY Zenon, <3>2 DEF RingInv, PointsInv
      <4>2. cp.covers <= Len(live) BY Zenon, <4>1 DEF PointInv
      <4>3. cp.covers \in Nat /\ Len(live) \in Nat BY <2>t, <3>2 DEF CheckPoint
      <4> QED BY Zenon, <4>2, <4>3, InRange
    <3>4. Len(live') = Len(live) - cp.covers BY Zenon, <2>4, <3>1, <3>3, SuffixFacts
    <3> QED BY <2>t, <3>3, <3>4
  <2>5. CASE live' = live BY <2>t, <2>5
  <2> QED BY Zenon, <2>1, <2>2, <2>3, <2>4, <2>5
        DEF Next, setDecaySpeedFactor, setFragmentReserve, takeCheckPoint, getReleaseCheckPoint,
            releaseAndUpdate, pop, release
<1> QED BY <1>1, RingInvariant, PTL DEF Spec, ReserveKept
=============================================================================
