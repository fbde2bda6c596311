------------------------ MODULE PoolAllocatorProofs ------------------------
(***************************************************************************)
(* The pool allocator keeps its promises for every page size, header,      *)
(* alignment, request size, nesting of marks and address of the pages; the *)
(* end of a block is another matter (BlocksWithin).  The invariant places  *)
(* each mark and each block by the position of its page in mInUseList: the *)
(* positions of the marks do not decrease, a block belongs to the marks    *)
(* below its page, and a page with a mark on it takes no block any more.   *)
(***************************************************************************)
EXTENDS PoolAllocator, SequenceTheorems, TLAPS

-----------------------------------------------------------------------------
(* Sizes                                                                   *)

\* Quotient and remainder.
LEMMA DivMod ==
  ASSUME NEW x \in Nat, NEW a \in Nat \ {0}
  PROVE  /\ x \div a \in Nat /\ x = a * (x \div a) + (x % a)
         /\ x % a \in 0..(a - 1)
OBVIOUS

\* Rounding up adds less than the alignment, and gives a multiple of it.
LEMMA RoundUp ==
  ASSUME NEW x \in Nat, NEW a \in Nat \ {0}
  PROVE  /\ roundUpPow2(x, a) \in Nat
         /\ x <= roundUpPow2(x, a) /\ roundUpPow2(x, a) < x + a
         /\ roundUpPow2(x, a) % a = 0
<1> DEFINE y == x + a - 1
           p == y \div a
           r == y % a
           z == a * p
           q == z \div a
           m == z % a
<1>y. y \in Nat OBVIOUS
<1>1. p \in Nat /\ y = a * p + r /\ r \in 0..(a - 1) BY Zenon, <1>y, DivMod
<1>c. p * a = a * p BY <1>1
<1>3. roundUpPow2(x, a) = z BY <1>c DEF roundUpPow2
<1> HIDE DEF p, r
<1>4. z \in Nat /\ x <= z /\ z < x + a BY <1>1
<1>2. q \in Nat /\ z = a * q + m /\ m \in 0..(a - 1) BY Zenon, <1>4, DivMod
<1>z. z = a * p OBVIOUS
<1>m. m = z % a OBVIOUS
<1> HIDE DEF z, q, m
<1>5. m = 0
  <2>1. a * p = a * q + m BY <1>2, <1>z
  <2>2. CASE p = q BY <1>1, <1>2, <2>1, <2>2
  <2>3. CASE p < q
    <3>1. a * q - a * p = a * (q - p) BY <1>1, <1>2
    <3>2. q - p \in Nat /\ q - p >= 1 BY <1>1, <1>2, <2>3
    <3>3. a * (q - p) >= a BY <3>2
    <3> QED BY <2>1, <3>1, <3>3, <1>1, <1>2
  <2>4. CASE p > q
    <3>1. a * p - a * q = a * (p - q) BY <1>1, <1>2
    <3>2. p - q \in Nat /\ p - q >= 1 BY <1>1, <1>2, <2>4
    <3>3. a * (p - q) >= a BY <3>2
    <3> QED BY <2>1, <3>1, <3>3, <1>1, <1>2
  <2> QED BY <1>1, <1>2, <2>2, <2>3, <2>4
<1> QED BY <1>3, <1>4, <1>5, <1>m

\* The layout of an allocation at offset at of a page: less than mAlignment bytes
\* of padding, behind which the data is aligned.
LEMMA Layout ==
  ASSUME mAlignment \in Alignments, NEW page \in Page \cup {NoPage}, NEW at \in Nat,
         NEW n \in Nat
  PROVE  /\ preAllocationPadding(page, at) \in Nat
         /\ preAllocationPadding(page, at) < mAlignment
         /\ Aligned(page, at + preAllocationPadding(page, at))
         /\ AllocationSize(page, at, n) =
              preAllocationPadding(page, at) + HeaderSize + GuardSize + n + GuardSize
<1> DEFINE base == Base(page)
           x == base + at + GuardSize + HeaderSize
           up == roundUpPow2(x, mAlignment)
           pad == preAllocationPadding(page, at)
<1>1. mAlignment \in Nat \ {0} /\ HeaderSize \in Nat /\ GuardSize \in Nat BY PoolAssumption
<1>2. base \in Nat BY PoolAssumption DEF Base
<1>3. x \in Nat BY <1>1, <1>2
<1>4. up \in Nat /\ x <= up /\ up < x + mAlignment /\ up % mAlignment = 0
  BY Zenon, <1>1, <1>3, RoundUp
<1>5. pad = up - (base + at) - HeaderSize - GuardSize
  BY DEF preAllocationPadding, AlignedHeaderSize
<1>6. AllocationSize(page, at, n) = up - (base + at) + n + GuardSize
  BY DEF AllocationSize, AlignedHeaderSize
<1>7. Aligned(page, at + pad) <=> (base + (at + pad) + HeaderSize + GuardSize) % mAlignment = 0
  BY DEF Aligned
<1>8. x = base + at + GuardSize + HeaderSize OBVIOUS
<1> HIDE DEF base, x, up, pad
<1>9. base + (at + pad) + HeaderSize + GuardSize = up BY <1>1, <1>2, <1>4, <1>5
<1>10. Aligned(page, at + pad) BY Zenon, <1>4, <1>7, <1>9
<1>11. pad \in Nat /\ pad < mAlignment
       /\ AllocationSize(page, at, n) = pad + HeaderSize + GuardSize + n + GuardSize
  BY <1>1, <1>2, <1>4, <1>5, <1>6, <1>8
<1> QED BY <1>10, <1>11 DEF pad

\* The alignment of a pool never changes.
LEMMA AlignmentKept ==
  ASSUME UNCHANGED mAlignment
  PROVE  /\ Snug' <=> Snug
         /\ \A page, from : Aligned(page, from)' <=> Aligned(page, from)
BY Zenon DEF Snug, preAllocationPadding, AlignedHeaderSize, roundUpPow2, Aligned

-----------------------------------------------------------------------------
(* Positions in the list of pages                                          *)

Distinct(list) == \A i, j \in 1 .. Len(list) : list[i] = list[j] => i = j

\* Depth finds the one position of a page.
LEMMA DepthPosition ==
  ASSUME NEW list \in Seq(Page), Distinct(list), NEW page \in PagesOf(list)
  PROVE  /\ Depth(list, page) \in 1 .. Len(list)
         /\ list[Depth(list, page)] = page
         /\ \A k \in 1 .. Len(list) : list[k] = page => k = Depth(list, page)
<1>1. page \in Page /\ page # NoPage BY PoolAssumption DEF PagesOf
<1>2. PICK k \in 1 .. Len(list) : list[k] = page BY DEF PagesOf
<1>3. Depth(list, page) = CHOOSE d \in 1 .. Len(list) : list[d] = page BY <1>1 DEF Depth
<1>4. Depth(list, page) \in 1 .. Len(list) /\ list[Depth(list, page)] = page
  BY Zenon, <1>2, <1>3
<1> QED BY <1>4 DEF Distinct

\* A new head changes no position.
LEMMA DepthAppend ==
  ASSUME NEW list \in Seq(Page), Distinct(list), NEW new \in Page, new \notin PagesOf(list)
  PROVE  /\ Append(list, new) \in Seq(Page) /\ Distinct(Append(list, new))
         /\ PagesOf(Append(list, new)) = PagesOf(list) \cup {new}
         /\ Head0(Append(list, new)) = new
         /\ Depth(Append(list, new), new) = Len(list) + 1
         /\ \A page \in PagesOf(list) \cup {NoPage} :
              Depth(Append(list, new), page) = Depth(list, page)
<1> DEFINE l == Append(list, new)
<1>1. /\ l \in Seq(Page) /\ Len(l) = Len(list) + 1 /\ l[Len(list) + 1] = new
      /\ \A k \in 1 .. Len(list) : l[k] = list[k]
      /\ Len(list) \in Nat
  BY AppendProperties
<1> HIDE DEF l
<1>2. \A k \in 1 .. Len(list) : list[k] # new BY DEF PagesOf
<1>3. Distinct(l) BY <1>1, <1>2 DEF Distinct
<1>4. PagesOf(l) = PagesOf(list) \cup {new} BY <1>1 DEF PagesOf
<1>5. Head0(l) = new BY <1>1 DEF Head0
<1>6. Depth(l, new) = Len(list) + 1 BY <1>1, <1>3, <1>4, DepthPosition
<1>7. ASSUME NEW page \in PagesOf(list) PROVE Depth(l, page) = Depth(list, page)
  <2>1. Depth(list, page) \in 1 .. Len(list) /\ list[Depth(list, page)] = page
    BY <1>7, DepthPosition
  <2>2. page \in PagesOf(l) BY <1>4, <1>7
  <2> QED BY <1>1, <1>3, <2>1, <2>2, DepthPosition
<1>8. Depth(l, NoPage) = 0 /\ Depth(list, NoPage) = 0 BY DEF Depth
<1> QED BY <1>1, <1>3, <1>4, <1>5, <1>6, <1>7, <1>8 DEF l

\* Dropping the pages above a position changes none of the positions below.
LEMMA DepthSubSeq ==
  ASSUME NEW list \in Seq(Page), Distinct(list), NEW keep \in 0 .. Len(list)
  PROVE  /\ SubSeq(list, 1, keep) \in Seq(Page) /\ Distinct(SubSeq(list, 1, keep))
         /\ Len(SubSeq(list, 1, keep)) = keep
         /\ PagesOf(SubSeq(list, 1, keep)) = {p \in PagesOf(list) : Depth(list, p) <= keep}
         /\ {list[k] : k \in (keep + 1) .. Len(list)} =
              {p \in PagesOf(list) : Depth(list, p) > keep}
         /\ keep > 0 => Head0(SubSeq(list, 1, keep)) = list[keep]
         /\ \A page \in PagesOf(SubSeq(list, 1, keep)) :
              Depth(SubSeq(list, 1, keep), page) = Depth(list, page)
<1> DEFINE l == SubSeq(list, 1, keep)
<1>1. /\ l \in Seq(Page) /\ Len(l) = keep
      /\ \A k \in 1 .. keep : l[k] = list[k]
      /\ Len(list) \in Nat /\ keep <= Len(list) /\ keep \in Nat
  BY SubSeqProperties
<1> HIDE DEF l
<1>2. Distinct(l) BY <1>1 DEF Distinct
<1>3. \A p \in PagesOf(list) : /\ Depth(list, p) \in 1 .. Len(list)
                               /\ list[Depth(list, p)] = p
  BY DepthPosition
<1>4. \A k \in 1 .. Len(list) : list[k] \in PagesOf(list) /\ Depth(list, list[k]) = k
  <2> SUFFICES ASSUME NEW k \in 1 .. Len(list)
               PROVE  list[k] \in PagesOf(list) /\ Depth(list, list[k]) = k
    OBVIOUS
  <2>1. list[k] \in PagesOf(list) BY DEF PagesOf
  <2> QED BY <2>1, DepthPosition
<1>5. PagesOf(l) = {p \in PagesOf(list) : Depth(list, p) <= keep}
  <2>1. ASSUME NEW p \in PagesOf(l) PROVE p \in PagesOf(list) /\ Depth(list, p) <= keep
    <3>1. PICK k \in 1 .. keep : p = list[k] BY <1>1, <2>1 DEF PagesOf
    <3> QED BY <1>1, <1>4, <3>1
  <2>2. ASSUME NEW p \in PagesOf(list), Depth(list, p) <= keep PROVE p \in PagesOf(l)
    <3>1. Depth(list, p) \in 1 .. keep /\ l[Depth(list, p)] = p BY <1>1, <1>3, <2>2
    <3> QED BY <1>1, <3>1 DEF PagesOf
  <2> QED BY <2>1, <2>2
<1>6. {list[k] : k \in (keep + 1) .. Len(list)} = {p \in PagesOf(list) : Depth(list, p) > keep}
  <2>1. ASSUME NEW k \in (keep + 1) .. Len(list)
        PROVE  list[k] \in PagesOf(list) /\ Depth(list, list[k]) > keep
    BY <1>1, <1>4
  <2>2. ASSUME NEW p \in PagesOf(list), Depth(list, p) > keep
        PROVE  \E k \in (keep + 1) .. Len(list) : p = list[k]
    BY <1>1, <1>3, <2>2
  <2> QED BY <2>1, <2>2
<1>7. keep > 0 => Head0(l) = list[keep] BY <1>1 DEF Head0
<1>8. ASSUME NEW page \in PagesOf(l) PROVE Depth(l, page) = Depth(list, page)
  <2>1. Depth(list, page) \in 1 .. keep /\ list[Depth(list, page)] = page
    BY <1>1, <1>3, <1>5, <1>8
  <2> QED BY <1>1, <1>2, <1>8, <2>1, DepthPosition
<1> QED BY <1>1, <1>2, <1>5, <1>6, <1>7, <1>8 DEF l

-----------------------------------------------------------------------------
(* The invariant                                                           *)

Mark(i) == Depth(mInUseList, mStack[i].page)

Marks == 1 .. Len(mStack)

\* The pages in use: single pages are whole, and the current offset lies in one
\* or behind it, unless it is PageSize.
PageInv ==
  /\ \A p \in PagesOf(mInUseList) : /\ pageCount[p] >= 1
                                    /\ pageCount[p] = 1 => extent[p] = PageSize
  /\ PageHeaderSkip <= mCurrentPageOffset
  /\ mCurrentPageOffset # PageSize =>
       mInUseList # <<>> /\ pageCount[Head0(mInUseList)] = 1

MarkInv ==
  \A i \in Marks :
    /\ mStack[i].page \in PagesOf(mInUseList) \cup {NoPage}
    /\ PageHeaderSkip <= mStack[i].offset
    /\ mStack[i].offset # PageSize =>
         mStack[i].page # NoPage /\ pageCount[mStack[i].page] = 1
    /\ Mark(i) = Len(mInUseList) => mCurrentPageOffset = PageSize
    /\ \A j \in Marks : i < j => /\ Mark(i) <= Mark(j)
                                 /\ Mark(i) = Mark(j) => mStack[j].offset = PageSize

BlockInv ==
  \A b \in blocks :
    /\ b.page \in PagesOf(mInUseList)
    /\ PageHeaderSkip <= b.from /\ b.from < b.to
    /\ b.level <= Len(mStack)
    /\ b.page = Head0(mInUseList) => b.to <= mCurrentPageOffset \/ mCurrentPageOffset = PageSize
    /\ \A i \in Marks :
         /\ i <= b.level <=> Mark(i) < Depth(mInUseList, b.page)
         /\ b.page = mStack[i].page => b.to <= mStack[i].offset \/ mStack[i].offset = PageSize

\* Blocks are aligned, and where padding is no surprise they and the offsets stay
\* within the page.
FitInv ==
  /\ Snug => mCurrentPageOffset <= PageSize /\ \A i \in Marks : mStack[i].offset <= PageSize
  /\ BlocksWithin
  /\ DataAligned

NoOverlap ==
  \A b, c \in blocks : b # c /\ b.page = c.page => b.to <= c.from \/ c.to <= b.from

Owned ==
  /\ Distinct(mInUseList)
  /\ PagesOf(mInUseList) \cap mFreeList = {}
  /\ \A p \in Page : extent[p] > 0 <=> p \in PagesOf(mInUseList) \cup mFreeList
  /\ \A p \in mFreeList : extent[p] = PageSize /\ pageCount[p] = 1

PoolInv == TypeOK /\ Owned /\ PageInv /\ MarkInv /\ BlockInv /\ NoOverlap /\ FitInv

-----------------------------------------------------------------------------
(* Steps                                                                   *)

\* The position of a mark, and of the head of the list.
LEMMA MarkPosition ==
  ASSUME TypeOK, Owned, MarkInv, NEW i \in Marks
  PROVE  /\ i \in Nat /\ mStack[i] \in AllocState
         /\ Mark(i) \in 0 .. Len(mInUseList)
         /\ mStack[i].page = NoPage => Mark(i) = 0
         /\ mStack[i].page # NoPage => Mark(i) > 0 /\ mInUseList[Mark(i)] = mStack[i].page
<1>1. i \in Nat /\ mStack[i] \in AllocState /\ mInUseList \in Seq(Page) BY DEF TypeOK, Marks
<1>2. CASE mStack[i].page = NoPage
  <2>1. Mark(i) = 0 BY Zenon, <1>2 DEF Mark, Depth
  <2>2. Len(mInUseList) \in Nat BY <1>1, LenProperties
  <2> QED BY <1>1, <1>2, <2>1, <2>2
<1>3. CASE mStack[i].page # NoPage
  <2>1. mStack[i].page \in PagesOf(mInUseList) BY Zenon, <1>3 DEF MarkInv
  <2>2. Mark(i) \in 1 .. Len(mInUseList) /\ mInUseList[Mark(i)] = mStack[i].page
    BY <1>1, <2>1, DepthPosition DEF Owned, Mark
  <2> QED BY <1>1, <1>3, <2>2
<1> QED BY <1>2, <1>3

\* The head of the list is its last page.
LEMMA HeadPosition ==
  ASSUME TypeOK, Owned, mInUseList # <<>>
  PROVE  /\ Len(mInUseList) \in Nat \ {0}
         /\ Head0(mInUseList) = mInUseList[Len(mInUseList)]
         /\ Head0(mInUseList) \in PagesOf(mInUseList)
         /\ Depth(mInUseList, Head0(mInUseList)) = Len(mInUseList)
<1>1. mInUseList \in Seq(Page) BY DEF TypeOK
<1>2. Len(mInUseList) \in Nat \ {0} BY <1>1, EmptySeq, LenProperties
<1>3. Head0(mInUseList) = mInUseList[Len(mInUseList)] BY DEF Head0
<1>4. Head0(mInUseList) \in PagesOf(mInUseList) BY <1>2, <1>3 DEF PagesOf
<1>5. Depth(mInUseList, Head0(mInUseList)) = Len(mInUseList)
  BY <1>1, <1>2, <1>3, <1>4, DepthPosition DEF Owned
<1> QED BY <1>2, <1>3, <1>4, <1>5

\* A block of the current page: allocate() and fastAllocate() with room.
LEMMA InPlace ==
  ASSUME PoolInv, NEW from \in Nat, NEW to \in Nat,
         mCurrentPageOffset <= from, from <= to,
         to <= PageSize \/ PageSize < mCurrentPageOffset, Snug => to <= PageSize,
         Aligned(Head0(mInUseList), from),
         mCurrentPageOffset' = to,
         blocks' = HandOut(Head0(mInUseList), from, to),
         UNCHANGED <<mAlignment, mInUseList, mFreeList, mStack, mLocked, pageCount, extent>>
  PROVE  PoolInv'
<1> DEFINE new == [page |-> Head0(mInUseList), from |-> from, to |-> to, level |-> Len(mStack)]
<1>0. /\ PageSize \in Nat /\ PageHeaderSkip \in Nat /\ mCurrentPageOffset \in Nat
      /\ Len(mStack) \in Nat
      /\ \A b \in blocks : b \in Block
  BY PoolAssumption, LenProperties DEF PoolInv, TypeOK
<1>a. /\ Snug' <=> Snug
      /\ \A page, at : Aligned(page, at)' <=> Aligned(page, at)
  BY AlignmentKept
<1>1. CASE from = to
  <2>1. blocks' = blocks BY <1>1 DEF HandOut
  <2>2. mCurrentPageOffset = PageSize => mCurrentPageOffset' = PageSize BY <1>0
  <2>3. TypeOK' /\ Owned' /\ NoOverlap' BY <2>1 DEF PoolInv, TypeOK, Owned, NoOverlap
  <2>4. PageInv' BY <1>0, <2>2 DEF PoolInv, PageInv
  <2>5. MarkInv' BY <2>2 DEF PoolInv, MarkInv, Marks, Mark
  <2>6. BlockInv' BY <1>0, <2>1, <2>2 DEF PoolInv, BlockInv, Marks, Mark, Block
  <2>7. FitInv'
    <3>1. \A i \in Marks : Snug => mStack[i].offset <= PageSize BY DEF PoolInv, FitInv
    <3>2. BlocksWithin' /\ DataAligned' BY Zenon, <1>a, <2>1 DEF PoolInv, FitInv, BlocksWithin, DataAligned
    <3> QED BY Zenon, <1>a, <3>1, <3>2 DEF FitInv, Marks
  <2> QED BY <2>3, <2>4, <2>5, <2>6, <2>7 DEF PoolInv
<1>2. CASE from < to
  <2>1. blocks' = blocks \cup {new} BY <1>2 DEF HandOut
  <2>2. mCurrentPageOffset # PageSize BY <1>0, <1>2
  <2>3. mInUseList # <<>> /\ pageCount[Head0(mInUseList)] = 1
    BY <2>2 DEF PoolInv, PageInv
  <2>4. Head0(mInUseList) \in PagesOf(mInUseList) /\ Head0(mInUseList) \in Page
        /\ Depth(mInUseList, Head0(mInUseList)) = Len(mInUseList) /\ Len(mInUseList) \in Nat
    BY <2>3, HeadPosition DEF PoolInv, PagesOf, TypeOK
  <2>5. \A i \in Marks : Mark(i) < Len(mInUseList) /\ mStack[i].page # Head0(mInUseList)
                         /\ i <= Len(mStack)
    <3> SUFFICES ASSUME NEW i \in Marks
                 PROVE  Mark(i) < Len(mInUseList) /\ mStack[i].page # Head0(mInUseList)
      BY <1>0 DEF Marks
    <3>1. Mark(i) \in 0 .. Len(mInUseList) BY MarkPosition DEF PoolInv
    <3>2. Mark(i) # Len(mInUseList) BY <1>0, <2>2 DEF PoolInv, MarkInv
    <3>3. mStack[i].page # Head0(mInUseList) BY <2>4, <3>2 DEF Mark
    <3> QED BY <2>4, <3>1, <3>2, <3>3
  <2>6. \A b \in blocks : b.page = Head0(mInUseList) => b.to <= mCurrentPageOffset
    BY <1>0, <2>2 DEF PoolInv, BlockInv
  <2>7. TypeOK' BY <1>0, <2>1, <2>4 DEF PoolInv, TypeOK, Block
  <2>8. Owned' BY DEF PoolInv, Owned
  <2>9. PageInv' BY <1>0, <2>3 DEF PoolInv, PageInv
  <2>10. MarkInv' BY <2>2, <2>5, <1>0 DEF PoolInv, MarkInv, Marks, Mark
  <2>11. BlockInv'
    <3> SUFFICES ASSUME NEW b \in blocks'
                 PROVE  /\ b.page \in PagesOf(mInUseList)
                        /\ PageHeaderSkip <= b.from /\ b.from < b.to
                        /\ b.level <= Len(mStack)
                        /\ b.page = Head0(mInUseList) => b.to <= to \/ to = PageSize
                        /\ \A i \in Marks :
                             /\ i <= b.level <=> Mark(i) < Depth(mInUseList, b.page)
                             /\ b.page = mStack[i].page =>
                                  b.to <= mStack[i].offset \/ mStack[i].offset = PageSize
      BY DEF BlockInv, Marks, Mark
    <3>1. CASE b = new
      BY <1>0, <1>2, <2>3, <2>4, <2>5, <3>1 DEF PoolInv, PageInv
    <3>2. CASE b \in blocks
      <4>1. b.to <= mCurrentPageOffset => b.to <= to BY <1>0, <3>2 DEF Block
      <4> QED BY <2>6, <3>2, <4>1 DEF PoolInv, BlockInv
    <3> QED BY <2>1, <3>1, <3>2
  <2>12. NoOverlap'
    <3> SUFFICES ASSUME NEW b \in blocks', NEW c \in blocks', b # c, b.page = c.page
                 PROVE  b.to <= c.from \/ c.to <= b.from
      BY DEF NoOverlap
    <3>1. CASE b \in blocks /\ c \in blocks BY <3>1 DEF PoolInv, NoOverlap
    <3>2. CASE b = new /\ c \in blocks BY <1>0, <2>6, <3>2 DEF Block
    <3>3. CASE c = new /\ b \in blocks BY <1>0, <2>6, <3>3 DEF Block
    <3> QED BY <2>1, <3>1, <3>2, <3>3
  <2>13. FitInv'
    <3>1. \A i \in Marks : Snug => mStack[i].offset <= PageSize BY DEF PoolInv, FitInv
    <3>2. extent[Head0(mInUseList)] = PageSize BY <2>3, <2>4 DEF PoolInv, PageInv
    <3>3. Snug \/ pageCount[new.page] > 1 => new.to <= extent[new.page] BY <2>3, <3>2
    <3>4. BlocksWithin' BY Zenon, <1>a, <2>1, <3>3 DEF PoolInv, FitInv, BlocksWithin
    <3>5. Aligned(new.page, new.from) BY Zenon
    <3>6. DataAligned' BY Zenon, <1>a, <2>1, <3>5 DEF PoolInv, FitInv, DataAligned
    <3> QED BY Zenon, <1>a, <3>1, <3>4, <3>6 DEF FitInv, Marks
  <2> QED BY <2>7, <2>8, <2>9, <2>10, <2>11, <2>12, <2>13 DEF PoolInv
<1> QED BY <1>1, <1>2

\* A page put at the head of the list, with at most one block on it: a new page,
\* a page of the free list, or a multi-page allocation.
PutHead(memory, size, count, from, to) ==
  /\ memory \in mFreeList \/ extent[memory] = 0
  /\ size > 0 /\ count >= 1
  /\ count = 1 => size = PageSize
  /\ PageHeaderSkip <= from
  /\ Snug \/ count > 1 => to <= size
  /\ Aligned(memory, from)
  /\ mCurrentPageOffset' \in Nat
  /\ PageHeaderSkip <= mCurrentPageOffset'
  /\ Snug => mCurrentPageOffset' <= PageSize
  /\ mCurrentPageOffset' # PageSize => count = 1
  /\ to <= mCurrentPageOffset' \/ mCurrentPageOffset' = PageSize
  /\ mInUseList' = Append(mInUseList, memory)
  /\ mFreeList' = mFreeList \ {memory}
  /\ extent' = [extent EXCEPT ![memory] = size]
  /\ pageCount' = [pageCount EXCEPT ![memory] = count]
  /\ blocks' = HandOut(memory, from, to)
  /\ UNCHANGED <<mAlignment, mStack, mLocked>>

\* A page put at the head of the list with one block, above every mark.
LEMMA NewHead ==
  ASSUME PoolInv, NEW memory \in Page, NEW size \in Nat, NEW count \in Nat,
         NEW from \in Nat, NEW to \in Nat, PutHead(memory, size, count, from, to)
  PROVE  PoolInv'
<1> USE DEF PutHead
<1> DEFINE new == [page |-> memory, from |-> from, to |-> to, level |-> Len(mStack)]
<1>0. /\ PageSize \in Nat /\ PageHeaderSkip \in Nat /\ mCurrentPageOffset \in Nat
      /\ Len(mStack) \in Nat /\ Len(mInUseList) \in Nat /\ mInUseList \in Seq(Page)
      /\ Distinct(mInUseList)
      /\ \A b \in blocks : b \in Block
  BY PoolAssumption, LenProperties DEF PoolInv, TypeOK, Owned
<1>1. memory \notin PagesOf(mInUseList) /\ memory # NoPage
  BY PoolAssumption DEF PoolInv, TypeOK, Owned
<1>2. /\ mInUseList' \in Seq(Page) /\ Distinct(mInUseList')
      /\ PagesOf(mInUseList') = PagesOf(mInUseList) \cup {memory}
      /\ Head0(mInUseList') = memory
      /\ Depth(mInUseList', memory) = Len(mInUseList) + 1
      /\ \A page \in PagesOf(mInUseList) \cup {NoPage} :
           Depth(mInUseList', page) = Depth(mInUseList, page)
  BY <1>0, <1>1, DepthAppend
<1>3. mInUseList' # <<>> /\ Len(mInUseList') = Len(mInUseList) + 1
  BY <1>0, AppendProperties
<1>4. /\ extent' \in [Page -> Nat] /\ extent'[memory] = size
      /\ \A p \in Page : p # memory => extent'[p] = extent[p]
      /\ pageCount' \in [Page -> Nat] /\ pageCount'[memory] = count
      /\ \A p \in Page : p # memory => pageCount'[p] = pageCount[p]
  BY DEF PoolInv, TypeOK
<1>5. PagesOf(mInUseList) \subseteq Page BY <1>0 DEF PagesOf
<1>6. \A b \in blocks' : b \in blocks \/ (b = new /\ from < to) BY DEF HandOut
<1>7. \A i \in Marks : /\ i \in Nat /\ i <= Len(mStack)
                       /\ Mark(i)' = Mark(i) /\ Mark(i) \in 0 .. Len(mInUseList)
                       /\ mStack[i].page \in PagesOf(mInUseList) \cup {NoPage}
  <2> SUFFICES ASSUME NEW i \in Marks
               PROVE  /\ i \in Nat /\ i <= Len(mStack)
                      /\ Mark(i)' = Mark(i) /\ Mark(i) \in 0 .. Len(mInUseList)
                      /\ mStack[i].page \in PagesOf(mInUseList) \cup {NoPage}
    OBVIOUS
  <2>1. mStack[i].page \in PagesOf(mInUseList) \cup {NoPage} BY Zenon DEF PoolInv, MarkInv
  <2>2. Mark(i)' = Mark(i) BY <1>2, <2>1 DEF Mark
  <2>3. Mark(i) \in 0 .. Len(mInUseList) BY MarkPosition DEF PoolInv
  <2> QED BY <1>0, <2>1, <2>2, <2>3 DEF Marks
<1>8. TypeOK'
  <2>1. new \in Block BY <1>0 DEF Block
  <2>2. blocks' \subseteq Block BY <1>0, <1>6, <2>1
  <2> QED BY <1>2, <1>4, <2>2 DEF PoolInv, TypeOK
<1>9. Owned'
  <2>1. \A p \in Page : extent'[p] > 0 <=> p \in PagesOf(mInUseList') \cup mFreeList'
    BY <1>2, <1>4 DEF PoolInv, Owned
  <2>2. \A p \in mFreeList' : extent'[p] = PageSize /\ pageCount'[p] = 1
    BY <1>4 DEF PoolInv, Owned, TypeOK
  <2>3. PagesOf(mInUseList') \cap mFreeList' = {} BY <1>2 DEF PoolInv, Owned
  <2> QED BY <1>2, <2>1, <2>2, <2>3 DEF Owned
<1>10. PageInv'
  <2>1. \A p \in PagesOf(mInUseList') : /\ pageCount'[p] >= 1
                                        /\ pageCount'[p] = 1 => extent'[p] = PageSize
    BY <1>1, <1>2, <1>4, <1>5 DEF PoolInv, PageInv
  <2> QED BY <1>2, <1>3, <1>4, <2>1 DEF PageInv
<1>11. MarkInv'
  <2> SUFFICES ASSUME NEW i \in Marks
               PROVE  /\ mStack[i].page \in PagesOf(mInUseList') \cup {NoPage}
                      /\ PageHeaderSkip <= mStack[i].offset
                      /\ mStack[i].offset # PageSize =>
                           mStack[i].page # NoPage /\ pageCount'[mStack[i].page] = 1
                      /\ Mark(i)' # Len(mInUseList')
                      /\ \A j \in Marks : i < j =>
                           /\ Mark(i)' <= Mark(j)'
                           /\ Mark(i)' = Mark(j)' => mStack[j].offset = PageSize
    BY Zenon DEF MarkInv, Marks
  <2>1. mStack[i].page \in PagesOf(mInUseList') \cup {NoPage} BY <1>2, <1>7
  <2>2. mStack[i].offset # PageSize =>
          mStack[i].page # NoPage /\ pageCount'[mStack[i].page] = 1
    <3>1. mStack[i].offset # PageSize => mStack[i].page # NoPage /\ pageCount[mStack[i].page] = 1
      BY Zenon DEF PoolInv, MarkInv
    <3> QED BY <1>1, <1>4, <1>5, <1>7, <3>1
  <2>3. Mark(i)' # Len(mInUseList') BY <1>0, <1>3, <1>7
  <2>4. \A j \in Marks : i < j => /\ Mark(i)' <= Mark(j)'
                                  /\ Mark(i)' = Mark(j)' => mStack[j].offset = PageSize
    BY <1>7 DEF PoolInv, MarkInv
  <2>5. PageHeaderSkip <= mStack[i].offset BY Zenon DEF PoolInv, MarkInv
  <2> QED BY <2>1, <2>2, <2>3, <2>4, <2>5
<1>12. BlockInv'
  <2> SUFFICES ASSUME NEW b \in blocks'
               PROVE  /\ b.page \in PagesOf(mInUseList')
                      /\ PageHeaderSkip <= b.from /\ b.from < b.to
                      /\ b.level <= Len(mStack)
                      /\ b.page = memory =>
                           b.to <= mCurrentPageOffset' \/ mCurrentPageOffset' = PageSize
                      /\ \A i \in Marks :
                           /\ i <= b.level <=> Mark(i)' < Depth(mInUseList', b.page)
                           /\ b.page = mStack[i].page =>
                                b.to <= mStack[i].offset \/ mStack[i].offset = PageSize
    BY <1>2 DEF BlockInv, Marks
  <2>1. CASE b = new /\ from < to
    <3>1. \A i \in Marks : Mark(i)' < Depth(mInUseList', memory) /\ mStack[i].page # memory
      BY <1>0, <1>1, <1>2, <1>7
    <3> QED BY <1>0, <1>2, <1>4, <1>7, <2>1, <3>1
  <2>2. CASE b \in blocks
    <3>1. b.page \in PagesOf(mInUseList) BY <2>2 DEF PoolInv, BlockInv
    <3>2. b.page # memory /\ Depth(mInUseList', b.page) = Depth(mInUseList, b.page)
      BY <1>1, <1>2, <3>1
    <3> QED BY <1>2, <1>7, <2>2, <3>1, <3>2 DEF PoolInv, BlockInv
  <2> QED BY <1>6, <2>1, <2>2
<1>13. NoOverlap'
  <2> SUFFICES ASSUME NEW b \in blocks', NEW c \in blocks', b # c, b.page = c.page
               PROVE  b.to <= c.from \/ c.to <= b.from
    BY DEF NoOverlap
  <2>1. \A d \in blocks : d.page # memory BY <1>1 DEF PoolInv, BlockInv
  <2>2. b \in blocks /\ c \in blocks BY <1>6, <2>1
  <2> QED BY <2>2 DEF PoolInv, NoOverlap
<1>14. FitInv'
  <2>1. /\ Snug' <=> Snug
        /\ \A page, at : Aligned(page, at)' <=> Aligned(page, at)
    BY AlignmentKept
  <2>2. \A i \in Marks : Snug => mStack[i].offset <= PageSize BY DEF PoolInv, FitInv
  <2>3. \A b \in blocks : extent'[b.page] = extent[b.page] /\ pageCount'[b.page] = pageCount[b.page]
    BY <1>1, <1>4, <1>5 DEF PoolInv, BlockInv
  <2>4. Snug \/ pageCount'[new.page] > 1 => new.to <= extent'[new.page] BY <1>4
  <2>5. BlocksWithin' BY Zenon, <1>6, <2>1, <2>3, <2>4 DEF PoolInv, FitInv, BlocksWithin
  <2>6. Aligned(new.page, new.from) BY Zenon
  <2>7. DataAligned' BY Zenon, <1>6, <2>1, <2>6 DEF PoolInv, FitInv, DataAligned
  <2> QED BY Zenon, <2>1, <2>2, <2>5, <2>7 DEF FitInv, Marks
<1> QED BY <1>8, <1>9, <1>10, <1>11, <1>12, <1>13, <1>14 DEF PoolInv

\* push(): the new mark is at the head of the list.
LEMMA PushStep == ASSUME PoolInv, push PROVE PoolInv'
<1>n. PICK n : n = Len(mStack) BY Zenon
<1> DEFINE mark == [offset |-> mCurrentPageOffset, page |-> Head0(mInUseList)]
<1>0. /\ PageSize \in Nat /\ PageHeaderSkip \in Nat /\ PageHeaderSkip < PageSize
      /\ mCurrentPageOffset \in Nat /\ mStack \in Seq(AllocState) /\ mInUseList \in Seq(Page)
      /\ n \in Nat /\ Len(mInUseList) \in Nat
      /\ \A b \in blocks : b \in Block
  BY <1>n, PoolAssumption, LenProperties DEF PoolInv, TypeOK
<1>1. /\ mStack' = Append(mStack, mark) /\ mCurrentPageOffset' = PageSize
      /\ UNCHANGED <<mAlignment, mInUseList, mFreeList, mLocked, pageCount, extent, blocks>>
  BY DEF push
<1>2. Head0(mInUseList) \in PagesOf(mInUseList) \cup {NoPage}
      /\ Depth(mInUseList, Head0(mInUseList)) = Len(mInUseList)
      /\ (mCurrentPageOffset # PageSize => Head0(mInUseList) # NoPage)
      /\ Head0(mInUseList) \in Page \cup {NoPage}
  <2>1. CASE mInUseList = <<>>
    <3>1. Head0(mInUseList) = NoPage /\ Len(mInUseList) = 0 BY <2>1 DEF Head0
    <3>2. Depth(mInUseList, NoPage) = 0 BY DEF Depth
    <3> QED BY <1>0, <2>1, <3>1, <3>2 DEF PoolInv, PageInv
  <2>2. CASE mInUseList # <<>>
    <3>1. Head0(mInUseList) \in PagesOf(mInUseList)
          /\ Depth(mInUseList, Head0(mInUseList)) = Len(mInUseList)
      BY <2>2, HeadPosition DEF PoolInv
    <3>2. Head0(mInUseList) \in Page BY <1>0, <3>1 DEF PagesOf
    <3> QED BY <3>1, <3>2, PoolAssumption
  <2> QED BY <2>1, <2>2
<1>3. mark \in AllocState BY <1>0, <1>2 DEF AllocState
<1>4. /\ mStack' \in Seq(AllocState) /\ Len(mStack') = n + 1 /\ mStack'[n + 1] = mark
      /\ \A i \in 1 .. n : mStack'[i] = mStack[i]
  BY <1>n, <1>0, <1>1, <1>3, AppendProperties
<1> HIDE DEF mark
<1>m. mark.offset = mCurrentPageOffset /\ mark.page = Head0(mInUseList) BY DEF mark
<1>5. Marks' = Marks \cup {n + 1} /\ \A i \in Marks : i \in Nat /\ i <= n
  BY <1>n, <1>0, <1>4 DEF Marks
<1>6. \A i \in Marks : mStack'[i] = mStack[i] /\ Mark(i)' = Mark(i)
                       /\ Mark(i) \in 0 .. Len(mInUseList)
  <2> SUFFICES ASSUME NEW i \in Marks
               PROVE  mStack'[i] = mStack[i] /\ Mark(i)' = Mark(i)
                      /\ Mark(i) \in 0 .. Len(mInUseList)
    OBVIOUS
  <2>1. mStack'[i] = mStack[i] BY <1>n, <1>4 DEF Marks
  <2>2. Mark(i) \in 0 .. Len(mInUseList) BY MarkPosition DEF PoolInv
  <2> QED BY <1>1, <2>1, <2>2 DEF Mark
<1>7. Mark(n + 1)' = Len(mInUseList) BY <1>1, <1>2, <1>4, <1>m DEF Mark
<1>8. TypeOK' BY <1>0, <1>1, <1>4 DEF PoolInv, TypeOK
<1>9. Owned' /\ NoOverlap' BY <1>1 DEF PoolInv, Owned, NoOverlap
<1>10. PageInv' BY <1>0, <1>1 DEF PoolInv, PageInv
<1>11. MarkInv'
  <2> SUFFICES ASSUME NEW i \in Marks'
               PROVE  /\ mStack'[i].page \in PagesOf(mInUseList) \cup {NoPage}
                      /\ PageHeaderSkip <= mStack'[i].offset
                      /\ mStack'[i].offset # PageSize =>
                           mStack'[i].page # NoPage /\ pageCount[mStack'[i].page] = 1
                      /\ \A j \in Marks' : i < j =>
                           /\ Mark(i)' <= Mark(j)'
                           /\ Mark(i)' = Mark(j)' => mStack'[j].offset = PageSize
    BY Zenon, <1>1 DEF MarkInv
  <2>1. CASE i = n + 1
    <3>1. \A j \in Marks' : ~(i < j) BY <1>0, <1>5, <2>1
    <3>2. mark.offset # PageSize => mark.page # NoPage /\ pageCount[mark.page] = 1
      BY <1>2, <1>m DEF PoolInv, PageInv
    <3>3. PageHeaderSkip <= mark.offset BY <1>m DEF PoolInv, PageInv
    <3> QED BY <1>2, <1>4, <1>m, <2>1, <3>1, <3>2, <3>3
  <2>2. CASE i \in Marks
    <3>1. \A j \in Marks : i < j => /\ Mark(i)' <= Mark(j)'
                                    /\ Mark(i)' = Mark(j)' => mStack'[j].offset = PageSize
      BY <1>6, <2>2 DEF PoolInv, MarkInv
    <3>2. Mark(i)' <= Mark(n + 1)' BY <1>0, <1>6, <1>7, <2>2
    <3>3. Mark(i)' = Mark(n + 1)' => mark.offset = PageSize
      BY <1>6, <1>7, <1>m, <2>2 DEF PoolInv, MarkInv
    <3>4. \A j \in Marks' : i < j => /\ Mark(i)' <= Mark(j)'
                                     /\ Mark(i)' = Mark(j)' => mStack'[j].offset = PageSize
      BY <1>4, <1>5, <3>1, <3>2, <3>3
    <3> QED BY <1>6, <2>2, <3>4 DEF PoolInv, MarkInv
  <2> QED BY <1>5, <2>1, <2>2
<1>12. BlockInv'
  <2> SUFFICES ASSUME NEW b \in blocks
               PROVE  /\ b.page \in PagesOf(mInUseList)
                      /\ PageHeaderSkip <= b.from /\ b.from < b.to
                      /\ b.level <= n + 1
                      /\ \A i \in Marks' :
                           /\ i <= b.level <=> Mark(i)' < Depth(mInUseList, b.page)
                           /\ b.page = mStack'[i].page =>
                                b.to <= mStack'[i].offset \/ mStack'[i].offset = PageSize
    BY Zenon, <1>1, <1>4 DEF BlockInv
  <2>1. b \in Block /\ b.level \in Nat /\ b.level <= n /\ b.page \in PagesOf(mInUseList)
    BY <1>n, <1>0 DEF PoolInv, BlockInv, Block
  <2>2. Depth(mInUseList, b.page) \in 1 .. Len(mInUseList)
    BY <1>0, <2>1, DepthPosition DEF PoolInv, Owned
  <2>3. ~(n + 1 <= b.level) /\ ~(Mark(n + 1)' < Depth(mInUseList, b.page))
    BY <1>0, <1>7, <2>1, <2>2
  <2>4. b.page = mStack'[n + 1].page =>
          b.to <= mStack'[n + 1].offset \/ mStack'[n + 1].offset = PageSize
    BY <1>4, <1>m DEF PoolInv, BlockInv
  <2>5. \A i \in Marks : /\ i <= b.level <=> Mark(i)' < Depth(mInUseList, b.page)
                         /\ b.page = mStack'[i].page =>
                              b.to <= mStack'[i].offset \/ mStack'[i].offset = PageSize
    BY <1>6 DEF PoolInv, BlockInv
  <2>6. /\ PageHeaderSkip <= b.from /\ b.from < b.to
        /\ b.level <= n + 1
    BY <1>0, <2>1 DEF PoolInv, BlockInv
  <2> QED BY <1>5, <2>1, <2>3, <2>4, <2>5, <2>6
<1>13. FitInv'
  <2>1. /\ Snug' <=> Snug
        /\ \A page, at : Aligned(page, at)' <=> Aligned(page, at)
    BY <1>1, AlignmentKept
  <2>2. BlocksWithin' /\ DataAligned'
    BY Zenon, <1>1, <2>1 DEF PoolInv, FitInv, BlocksWithin, DataAligned
  <2>3. ASSUME Snug, NEW i \in Marks' PROVE mStack'[i].offset <= PageSize
    BY <1>4, <1>5, <1>6, <1>m, <2>3 DEF PoolInv, FitInv
  <2>4. mCurrentPageOffset' <= PageSize BY <1>0, <1>1
  <2> QED BY Zenon, <2>1, <2>2, <2>3, <2>4 DEF FitInv
<1> QED BY <1>8, <1>9, <1>10, <1>11, <1>12, <1>13 DEF PoolInv

\* pop() and popAll(): the pages above the mark go, and with them the blocks
\* that were allocated since.
LEMMA PopStep ==
  ASSUME PoolInv, NEW i \in Marks, popTo(i)
  PROVE  PoolInv' /\ blocks' = {b \in blocks : b.level <= Len(mStack')}
<1> DEFINE keep == Mark(i)
           gone == {mInUseList[k] : k \in (keep + 1) .. Len(mInUseList)}
           multi == {p \in gone : pageCount[p] > 1}
<1>0. /\ PageSize \in Nat /\ PageHeaderSkip \in Nat
      /\ mStack \in Seq(AllocState) /\ Len(mStack) \in Nat
      /\ mInUseList \in Seq(Page) /\ Len(mInUseList) \in Nat /\ Distinct(mInUseList)
      /\ pageCount \in [Page -> Nat] /\ extent \in [Page -> Nat]
      /\ i \in Nat /\ 1 <= i /\ i <= Len(mStack)
      /\ \A b \in blocks : b \in Block /\ b.level \in Nat
  BY PoolAssumption, LenProperties DEF PoolInv, TypeOK, Owned, Marks, Block
<1>1. /\ mCurrentPageOffset' = mStack[i].offset
      /\ mInUseList' = SubSeq(mInUseList, 1, keep)
      /\ mFreeList' = mFreeList \cup (gone \ multi)
      /\ extent' = [p \in Page |-> IF p \in multi THEN 0 ELSE extent[p]]
      /\ mStack' = SubSeq(mStack, 1, i - 1)
      /\ blocks' = {b \in blocks : b.page \notin gone}
      /\ UNCHANGED <<mAlignment, mLocked, pageCount>>
  BY Zenon DEF popTo, Mark
<1>2. /\ keep \in 0 .. Len(mInUseList) /\ mStack[i] \in AllocState
      /\ mStack[i].page = NoPage => keep = 0
      /\ mStack[i].page # NoPage => keep > 0 /\ mInUseList[keep] = mStack[i].page
  BY MarkPosition DEF PoolInv
<1>k. keep = Mark(i) OBVIOUS
<1> HIDE DEF keep
<1>3. /\ mInUseList' \in Seq(Page) /\ Distinct(mInUseList') /\ Len(mInUseList') = keep
      /\ PagesOf(mInUseList') = {p \in PagesOf(mInUseList) : Depth(mInUseList, p) <= keep}
      /\ gone = {p \in PagesOf(mInUseList) : Depth(mInUseList, p) > keep}
      /\ keep > 0 => Head0(mInUseList') = mInUseList[keep]
      /\ \A page \in PagesOf(mInUseList') : Depth(mInUseList', page) = Depth(mInUseList, page)
  BY Zenon, <1>0, <1>1, <1>2, DepthSubSeq
<1>g. multi = {p \in gone : pageCount[p] > 1} OBVIOUS
<1> HIDE DEF gone, multi
<1>4. /\ mStack' \in Seq(AllocState) /\ Len(mStack') = i - 1
      /\ \A j \in 1 .. (i - 1) : mStack'[j] = mStack[j]
  BY <1>0, <1>1, SubSeqProperties
<1>5. /\ PagesOf(mInUseList) \subseteq Page
      /\ \A p \in PagesOf(mInUseList) : Depth(mInUseList, p) \in 1 .. Len(mInUseList)
  BY <1>0, DepthPosition DEF PagesOf
<1>6. /\ PagesOf(mInUseList') \subseteq PagesOf(mInUseList)
      /\ PagesOf(mInUseList) = PagesOf(mInUseList') \cup gone
      /\ PagesOf(mInUseList') \cap gone = {}
  BY <1>2, <1>3, <1>5
<1>7. /\ extent' \in [Page -> Nat]
      /\ \A p \in Page : p \in multi => extent'[p] = 0
      /\ \A p \in Page : p \notin multi => extent'[p] = extent[p]
  BY <1>0, <1>1
<1>8. blocks' = {b \in blocks : b.level <= Len(mStack')}
  <2> SUFFICES ASSUME NEW b \in blocks PROVE b.page \notin gone <=> b.level <= i - 1
    BY Zenon, <1>1, <1>4
  <2>1. b.page \in PagesOf(mInUseList) /\ (i <= b.level <=> keep < Depth(mInUseList, b.page))
    BY Zenon, <1>k DEF PoolInv, BlockInv
  <2>2. b.page \in gone <=> i <= b.level BY <1>2, <1>3, <1>5, <2>1
  <2> QED BY <1>0, <2>2
<1>9. \A b \in blocks' : b \in blocks /\ b.page \in PagesOf(mInUseList') /\ b.level <= i - 1
  BY <1>1, <1>4, <1>6, <1>8 DEF PoolInv, BlockInv
<1>10. Marks' = 1 .. (i - 1) /\ Marks' \subseteq Marks
  BY <1>0, <1>4 DEF Marks
<1>11. \A j \in Marks' : /\ mStack'[j] = mStack[j] /\ j < i /\ j \in Marks
                         /\ Mark(j) <= keep /\ Mark(j) \in Nat
                         /\ mStack[j].page \in PagesOf(mInUseList') \cup {NoPage}
                         /\ Mark(j)' = Mark(j)
  <2> SUFFICES ASSUME NEW j \in Marks'
               PROVE  /\ mStack'[j] = mStack[j] /\ j < i /\ j \in Marks
                      /\ Mark(j) <= keep /\ Mark(j) \in Nat
                      /\ mStack[j].page \in PagesOf(mInUseList') \cup {NoPage}
                      /\ Mark(j)' = Mark(j)
    OBVIOUS
  <2>1. mStack'[j] = mStack[j] /\ j < i /\ j \in Marks BY <1>0, <1>4, <1>10
  <2>2. Mark(j) \in 0 .. Len(mInUseList) BY <2>1, MarkPosition DEF PoolInv
  <2>3. Mark(j) <= keep BY <1>k, <2>1 DEF PoolInv, MarkInv
  <2>4. mStack[j].page \in PagesOf(mInUseList) \cup {NoPage} BY Zenon, <2>1 DEF PoolInv, MarkInv
  <2>5. mStack[j].page \in PagesOf(mInUseList') \cup {NoPage}
    BY <1>3, <2>3, <2>4 DEF Mark
  <2>6. Depth(mInUseList', mStack[j].page) = Depth(mInUseList, mStack[j].page)
    <3>1. CASE mStack[j].page = NoPage BY Zenon, <3>1 DEF Depth
    <3>2. CASE mStack[j].page \in PagesOf(mInUseList') BY <1>3, <3>2
    <3> QED BY <2>5, <3>1, <3>2
  <2>7. Mark(j)' = Mark(j) BY <2>1, <2>6 DEF Mark
  <2>8. Mark(j) \in Nat BY <2>2
  <2> QED BY Zenon, <2>1, <2>3, <2>5, <2>7, <2>8
<1>12. TypeOK'
  <2>1. mStack[i].offset \in Nat BY <1>2 DEF AllocState
  <2>2. blocks' \subseteq Block BY <1>0, <1>9
  <2>3. mFreeList' \subseteq Page BY <1>1, <1>5, <1>6 DEF PoolInv, TypeOK
  <2> QED BY Zenon, <1>1, <1>3, <1>4, <1>7, <2>1, <2>2, <2>3 DEF PoolInv, TypeOK
<1>13. Owned'
  <2>1. \A p \in gone : p \in multi \/ (pageCount[p] = 1 /\ extent[p] = PageSize)
    BY <1>0, <1>5, <1>6, <1>g DEF PoolInv, PageInv
  <2>2. multi \subseteq gone BY <1>g
  <2>3. \A p \in Page : extent[p] > 0 <=> p \in PagesOf(mInUseList) \cup mFreeList
    BY DEF PoolInv, Owned
  <2>4. PagesOf(mInUseList) \cap mFreeList = {} BY DEF PoolInv, Owned
  <2>5. PagesOf(mInUseList') \cap mFreeList' = {} BY <1>1, <1>6, <2>4
  <2>6. \A p \in Page : extent'[p] > 0 <=> p \in PagesOf(mInUseList') \cup mFreeList'
    BY <1>0, <1>1, <1>6, <1>7, <2>2, <2>3, <2>4
  <2>7. \A p \in mFreeList' : extent'[p] = PageSize /\ pageCount'[p] = 1
    <3> SUFFICES ASSUME NEW p \in mFreeList' PROVE extent'[p] = PageSize /\ pageCount[p] = 1
      BY <1>1
    <3>1. p \in Page /\ p \notin multi BY SMTT(30), <1>1, <1>5, <1>6, <2>2, <2>4 DEF PoolInv, TypeOK
    <3>2. extent[p] = PageSize /\ pageCount[p] = 1 BY Zenon, <1>1, <2>1 DEF PoolInv, Owned
    <3> QED BY <1>7, <3>1, <3>2
  <2> QED BY Zenon, <1>3, <2>5, <2>6, <2>7 DEF Owned
<1>14. \A p \in PagesOf(mInUseList') : extent'[p] = extent[p]
  BY <1>5, <1>6, <1>7, <1>g
<1>15. PageInv'
  <2>1. \A p \in PagesOf(mInUseList') : /\ pageCount'[p] >= 1
                                        /\ pageCount'[p] = 1 => extent'[p] = PageSize
    BY <1>1, <1>6, <1>14 DEF PoolInv, PageInv
  <2>2. PageHeaderSkip <= mStack[i].offset BY DEF PoolInv, MarkInv
  <2>3. ASSUME mStack[i].offset # PageSize
        PROVE  mInUseList' # <<>> /\ pageCount'[Head0(mInUseList')] = 1
    <3>1. mStack[i].page # NoPage /\ pageCount[mStack[i].page] = 1
      BY <2>3 DEF PoolInv, MarkInv
    <3>2. keep > 0 /\ Head0(mInUseList') = mStack[i].page BY <1>2, <1>3, <3>1
    <3>3. mInUseList' # <<>> BY <1>3, <3>2
    <3> QED BY Zenon, <1>1, <3>1, <3>2, <3>3
  <2> QED BY <1>1, <2>1, <2>2, <2>3 DEF PageInv
<1>16. MarkInv'
  <2> SUFFICES ASSUME NEW j \in Marks'
               PROVE  /\ mStack'[j].page \in PagesOf(mInUseList') \cup {NoPage}
                      /\ PageHeaderSkip <= mStack'[j].offset
                      /\ mStack'[j].offset # PageSize =>
                           mStack'[j].page # NoPage /\ pageCount'[mStack'[j].page] = 1
                      /\ Mark(j)' = Len(mInUseList') => mCurrentPageOffset' = PageSize
                      /\ \A k \in Marks' : j < k =>
                           /\ Mark(j)' <= Mark(k)'
                           /\ Mark(j)' = Mark(k)' => mStack'[k].offset = PageSize
    BY Zenon DEF MarkInv
  <2>1. j \in Marks /\ j < i /\ mStack[j].page \in PagesOf(mInUseList') \cup {NoPage}
        /\ mStack'[j] = mStack[j] /\ Mark(j)' = Mark(j)
    BY Zenon, <1>11
  <2>2. /\ PageHeaderSkip <= mStack[j].offset
        /\ mStack[j].offset # PageSize =>
             mStack[j].page # NoPage /\ pageCount[mStack[j].page] = 1
        /\ \A k \in Marks : j < k => /\ Mark(j) <= Mark(k)
                                     /\ Mark(j) = Mark(k) => mStack[k].offset = PageSize
    BY Zenon, <2>1 DEF PoolInv, MarkInv
  <2>3. Mark(j) = keep => mStack[i].offset = PageSize BY Zenon, <1>k, <2>1, <2>2
  <2>4. pageCount' = pageCount BY Zenon, <1>1
  <2>5. \A k \in Marks' : j < k => /\ Mark(j)' <= Mark(k)'
                                   /\ Mark(j)' = Mark(k)' => mStack'[k].offset = PageSize
    <3> SUFFICES ASSUME NEW k \in Marks', j < k
                 PROVE  /\ Mark(j)' <= Mark(k)'
                        /\ Mark(j)' = Mark(k)' => mStack'[k].offset = PageSize
      OBVIOUS
    <3>1. k \in Marks /\ mStack'[k] = mStack[k] /\ Mark(k)' = Mark(k) BY Zenon, <1>11
    <3> QED BY <2>1, <2>2, <3>1
  <2>6. Mark(j)' = Len(mInUseList') => mCurrentPageOffset' = PageSize
    BY Zenon, <1>1, <1>3, <2>1, <2>3
  <2> QED BY Zenon, <2>1, <2>2, <2>4, <2>5, <2>6
<1>17. BlockInv'
  <2> SUFFICES ASSUME NEW b \in blocks'
               PROVE  /\ b.page \in PagesOf(mInUseList')
                      /\ PageHeaderSkip <= b.from /\ b.from < b.to
                      /\ b.level <= Len(mStack')
                      /\ b.page = Head0(mInUseList') =>
                           b.to <= mCurrentPageOffset' \/ mCurrentPageOffset' = PageSize
                      /\ \A j \in Marks' :
                           /\ j <= b.level <=> Mark(j)' < Depth(mInUseList', b.page)
                           /\ b.page = mStack'[j].page =>
                                b.to <= mStack'[j].offset \/ mStack'[j].offset = PageSize
    BY Zenon DEF BlockInv
  <2>1. b \in blocks /\ b.page \in PagesOf(mInUseList') /\ b.level <= Len(mStack')
    BY Zenon, <1>4, <1>9
  <2>2. /\ PageHeaderSkip <= b.from /\ b.from < b.to
        /\ \A j \in Marks :
             /\ j <= b.level <=> Mark(j) < Depth(mInUseList, b.page)
             /\ b.page = mStack[j].page => b.to <= mStack[j].offset \/ mStack[j].offset = PageSize
    BY Zenon, <2>1 DEF PoolInv, BlockInv
  <2>3. Depth(mInUseList', b.page) = Depth(mInUseList, b.page) BY <1>3, <2>1
  <2>4. keep > 0
    <3>1. Depth(mInUseList, b.page) <= keep /\ Depth(mInUseList, b.page) \in 1 .. Len(mInUseList)
      BY Zenon, <1>3, <1>5, <1>6, <2>1
    <3> QED BY <1>2, <3>1
  <2>5. Head0(mInUseList') = mStack[i].page
    <3>1. keep # 0 BY <2>4
    <3>2. mStack[i].page # NoPage BY Zenon, <1>2, <3>1
    <3> QED BY Zenon, <1>2, <1>3, <2>4, <3>2
  <2>6. \A j \in Marks' : /\ j <= b.level <=> Mark(j)' < Depth(mInUseList', b.page)
                          /\ b.page = mStack'[j].page =>
                               b.to <= mStack'[j].offset \/ mStack'[j].offset = PageSize
    <3> SUFFICES ASSUME NEW j \in Marks'
                 PROVE  /\ j <= b.level <=> Mark(j)' < Depth(mInUseList', b.page)
                        /\ b.page = mStack'[j].page =>
                             b.to <= mStack'[j].offset \/ mStack'[j].offset = PageSize
      OBVIOUS
    <3>1. j \in Marks /\ mStack'[j] = mStack[j] /\ Mark(j)' = Mark(j) BY Zenon, <1>11
    <3> QED BY Zenon, <2>2, <2>3, <3>1
  <2>7. b.page = Head0(mInUseList') => b.to <= mCurrentPageOffset' \/ mCurrentPageOffset' = PageSize
    BY <1>1, <2>2, <2>5
  <2> QED BY Zenon, <2>1, <2>2, <2>3, <2>6, <2>7
<1>18. NoOverlap' BY <1>9 DEF PoolInv, NoOverlap
<1>19. FitInv'
  <2>1. /\ Snug' <=> Snug
        /\ \A page, at : Aligned(page, at)' <=> Aligned(page, at)
    BY <1>1, AlignmentKept
  <2>2. Snug => \A j \in Marks : mStack[j].offset <= PageSize BY Zenon DEF PoolInv, FitInv
  <2>3. Snug => \A j \in Marks' : mStack'[j].offset <= PageSize BY Zenon, <1>11, <2>2
  <2>4. Snug => mCurrentPageOffset' <= PageSize BY Zenon, <1>1, <2>2
  <2>5. BlocksWithin'
    BY Zenon, <1>1, <1>9, <1>14, <2>1 DEF PoolInv, FitInv, BlocksWithin
  <2>6. DataAligned' BY Zenon, <1>9, <2>1 DEF PoolInv, FitInv, DataAligned
  <2> QED BY Zenon, <2>1, <2>3, <2>4, <2>5, <2>6 DEF FitInv
<1> QED BY <1>8, <1>12, <1>13, <1>15, <1>16, <1>17, <1>18, <1>19 DEF PoolInv

\* The destructor: nothing is left.
LEMMA DestroyStep == ASSUME PoolInv, destroy PROVE PoolInv'
<1>1. /\ mInUseList' = <<>> /\ mFreeList' = {} /\ mStack' = <<>> /\ blocks' = {}
      /\ mCurrentPageOffset' = PageSize /\ mLocked' = FALSE
      /\ extent' = [p \in Page |->
                      IF p \in PagesOf(mInUseList) \cup mFreeList THEN 0 ELSE extent[p]]
      /\ UNCHANGED <<mAlignment, pageCount>>
  BY DEF destroy
<1>2. PagesOf(mInUseList') = {} /\ Marks' = {} /\ Distinct(mInUseList')
  BY <1>1 DEF PagesOf, Marks, Distinct
<1>3. extent' \in [Page -> Nat] /\ \A p \in Page : extent'[p] = 0
  BY <1>1 DEF PoolInv, TypeOK, Owned
<1>4. PageSize \in Nat /\ PageHeaderSkip \in Nat /\ PageHeaderSkip < PageSize BY PoolAssumption
<1>5. TypeOK'
  <2>1. <<>> \in Seq(Page) /\ <<>> \in Seq(AllocState) OBVIOUS
  <2> QED BY Zenon, <1>1, <1>3, <1>4, <2>1 DEF PoolInv, TypeOK
<1>6. Owned' BY <1>1, <1>2, <1>3 DEF Owned
<1>7. PageInv' BY <1>1, <1>2, <1>4 DEF PageInv
<1>8. MarkInv' /\ BlockInv' /\ NoOverlap' BY <1>1, <1>2 DEF MarkInv, BlockInv, NoOverlap
<1>9. FitInv' BY <1>1, <1>2, <1>4 DEF FitInv, BlocksWithin, DataAligned
<1> QED BY <1>5, <1>6, <1>7, <1>8, <1>9 DEF PoolInv

\* The constructor: no page, no mark, no block.
LEMMA InitStep == Init => PoolInv
<1> SUFFICES ASSUME Init PROVE PoolInv OBVIOUS
<1>1. PagesOf(mInUseList) = {} /\ Marks = {} /\ Distinct(mInUseList)
  BY DEF Init, PagesOf, Marks, Distinct
<1>2. PageSize \in Nat /\ PageHeaderSkip \in Nat /\ PageHeaderSkip < PageSize BY PoolAssumption
<1>3. TypeOK
  <2>1. <<>> \in Seq(Page) /\ <<>> \in Seq(AllocState) OBVIOUS
  <2>2. [p \in Page |-> 0] \in [Page -> Nat] OBVIOUS
  <2> QED BY Zenon, <1>2, <2>1, <2>2 DEF Init, TypeOK
<1>4. Owned BY <1>1 DEF Init, Owned
<1>5. PageInv BY <1>1, <1>2 DEF Init, PageInv
<1>6. MarkInv /\ BlockInv /\ NoOverlap BY Zenon, <1>1 DEF Init, MarkInv, BlockInv, NoOverlap
<1>7. FitInv BY <1>1, <1>2 DEF Init, FitInv, BlocksWithin, DataAligned
<1> QED BY <1>3, <1>4, <1>5, <1>6, <1>7 DEF PoolInv

\* The page at the head of the list, or none.
LEMMA HeadType == ASSUME TypeOK PROVE Head0(mInUseList) \in Page \cup {NoPage}
<1>1. mInUseList \in Seq(Page) BY DEF TypeOK
<1>2. CASE mInUseList = <<>> BY <1>2 DEF Head0
<1>3. CASE mInUseList # <<>>
  <2>1. Len(mInUseList) \in 1 .. Len(mInUseList) BY <1>1, <1>3, EmptySeq, LenProperties
  <2>2. mInUseList[Len(mInUseList)] \in Page BY <1>1, <2>1, ElementOfSeq
  <2> QED BY Zenon, <1>3, <2>2 DEF Head0
<1> QED BY <1>2, <1>3

\* A page for single allocations: allocateNewPage() and fastAllocate().
LEMMA TakePageStep ==
  ASSUME PoolInv, NEW n \in Nat, NEW memory \in Page, takePage(n, memory),
         NEW to \in Nat,
         to <= PageHeaderSkip + AllocationSize(memory, PageHeaderSkip, n),
         Snug => AllocationSize(memory, PageHeaderSkip, n) <= PageSize - PageHeaderSkip,
         blocks' = HandOut(memory, PageHeaderSkip + preAllocationPadding(memory, PageHeaderSkip), to)
  PROVE  PoolInv'
<1> DEFINE pad == preAllocationPadding(memory, PageHeaderSkip)
           from == PageHeaderSkip + pad
           end == PageHeaderSkip + AllocationSize(memory, PageHeaderSkip, n)
<1>1. /\ PageSize \in Nat /\ PageHeaderSkip \in Nat /\ PageHeaderSkip < PageSize
      /\ HeaderSize \in Nat /\ GuardSize \in Nat
  BY PoolAssumption
<1>2. /\ pad \in Nat /\ Aligned(memory, from)
      /\ AllocationSize(memory, PageHeaderSkip, n) = pad + HeaderSize + GuardSize + n + GuardSize
  <2>1. mAlignment \in Alignments BY DEF PoolInv, TypeOK
  <2> QED BY Zenon, <1>1, <2>1, Layout
<1>h. pad = preAllocationPadding(memory, PageHeaderSkip) OBVIOUS
<1> HIDE DEF pad
<1>3. /\ from \in Nat /\ PageHeaderSkip <= from
      /\ end \in Nat /\ PageHeaderSkip <= end /\ to <= end
      /\ Snug => end <= PageSize
  BY <1>1, <1>2
<1>4. /\ pageCount' = [pageCount EXCEPT ![memory] = 1]
      /\ mInUseList' = Append(mInUseList, memory)
      /\ mCurrentPageOffset' = end
      /\ UNCHANGED <<mAlignment, mStack, mLocked>>
      /\ blocks' = HandOut(memory, from, to)
  BY Zenon, <1>h DEF takePage
<1> HIDE DEF from, end
<1>o. /\ 1 \in Nat /\ 1 >= 1 /\ PageSize > 0
      /\ (Snug \/ 1 > 1 => to <= PageSize)
  BY <1>1, <1>3
<1>5. CASE memory \in mFreeList /\ mFreeList' = mFreeList \ {memory} /\ extent' = extent
  <2>1. extent' = [extent EXCEPT ![memory] = PageSize] BY <1>5 DEF PoolInv, Owned, TypeOK
  <2>2. PutHead(memory, PageSize, 1, from, to)
    BY Zenon, <1>2, <1>3, <1>4, <1>5, <1>o, <2>1 DEF PutHead
  <2> QED BY Zenon, <1>1, <1>3, <1>o, <2>2, NewHead
<1>6. CASE /\ mFreeList = {} /\ extent[memory] = 0 /\ mFreeList' = mFreeList
           /\ extent' = [extent EXCEPT ![memory] = PageSize]
  <2>1. mFreeList' = mFreeList \ {memory} BY <1>6
  <2>2. PutHead(memory, PageSize, 1, from, to)
    BY Zenon, <1>2, <1>3, <1>4, <1>6, <1>o, <2>1 DEF PutHead
  <2> QED BY Zenon, <1>1, <1>3, <1>o, <2>2, NewHead
<1> QED BY Zenon, <1>5, <1>6 DEF takePage

\* More than a page: the padding that is not known yet makes it two pages or more,
\* and leaves room for the padding that turns out to be needed.
LEMMA MultiPageStep ==
  ASSUME PoolInv, NEW n \in Nat, allocateMultiPage(n)
  PROVE  PoolInv'
<1> DEFINE size == numBytesToAlloc(n)
           count == (size + PageSize - 1) \div PageSize
           page == Head0(mInUseList)
           old == preAllocationPadding(page, mCurrentPageOffset)
           guess == preAllocationPadding(NoPage, PageHeaderSkip)
<1>1. /\ PageSize \in Nat /\ PageHeaderSkip \in Nat /\ PageHeaderSkip < PageSize
      /\ HeaderSize \in Nat /\ GuardSize \in Nat /\ mCurrentPageOffset \in Nat
      /\ mAlignment \in Alignments /\ mAlignment \in Nat \ {0}
  BY PoolAssumption DEF PoolInv, TypeOK
<1>p. page \in Page \cup {NoPage} /\ NoPage \in Page \cup {NoPage} BY HeadType DEF PoolInv
<1>2. /\ old \in Nat /\ old < mAlignment
      /\ sizeHere(n) = old + HeaderSize + GuardSize + n + GuardSize
  <2>1. mAlignment \in Alignments /\ mCurrentPageOffset \in Nat BY <1>1
  <2>2. ASSUME NEW q \in Page \cup {NoPage}
        PROVE  /\ preAllocationPadding(q, mCurrentPageOffset) \in Nat
               /\ preAllocationPadding(q, mCurrentPageOffset) < mAlignment
               /\ AllocationSize(q, mCurrentPageOffset, n) =
                    preAllocationPadding(q, mCurrentPageOffset)
                      + HeaderSize + GuardSize + n + GuardSize
    BY Zenon, <2>1, Layout
  <2>3. page \in Page \cup {NoPage} BY <1>p
  <2> QED BY Zenon, <2>2, <2>3 DEF sizeHere
<1>g. /\ guess \in Nat
      /\ AllocationSize(NoPage, PageHeaderSkip, n) =
           guess + HeaderSize + GuardSize + n + GuardSize
  <2>1. \A q \in Page \cup {NoPage} :
          /\ preAllocationPadding(q, PageHeaderSkip) \in Nat
          /\ AllocationSize(q, PageHeaderSkip, n) =
               preAllocationPadding(q, PageHeaderSkip) + HeaderSize + GuardSize + n + GuardSize
    BY Zenon, <1>1, Layout
  <2> QED BY Zenon, <1>p, <2>1
<1>3. size = AllocationSize(NoPage, PageHeaderSkip, n) + PageHeaderSkip + mAlignment
      /\ sizeHere(n) > PageSize - PageHeaderSkip
  BY DEF numBytesToAlloc, allocateMultiPage
<1>4. PICK memory \in Page :
        /\ extent[memory] = 0
        /\ extent' = [extent EXCEPT ![memory] = size]
        /\ pageCount' = [pageCount EXCEPT ![memory] = count]
        /\ mInUseList' = Append(mInUseList, memory)
        /\ blocks' = HandOut(memory,
                             PageHeaderSkip + preAllocationPadding(memory, PageHeaderSkip),
                             PageHeaderSkip + AllocationSize(memory, PageHeaderSkip, n))
  BY Zenon DEF allocateMultiPage
<1>5. mCurrentPageOffset' = PageSize /\ UNCHANGED <<mAlignment, mFreeList, mStack, mLocked>>
  BY Zenon DEF allocateMultiPage
<1> DEFINE pad == preAllocationPadding(memory, PageHeaderSkip)
           from == PageHeaderSkip + pad
           to == PageHeaderSkip + AllocationSize(memory, PageHeaderSkip, n)
<1>l. /\ pad \in Nat /\ pad < mAlignment /\ Aligned(memory, from)
      /\ AllocationSize(memory, PageHeaderSkip, n) = pad + HeaderSize + GuardSize + n + GuardSize
  BY Zenon, <1>1, Layout
<1>f. blocks' = HandOut(memory, from, to) BY Zenon, <1>4
<1> HIDE DEF size, old, guess, pad
<1>6. /\ size \in Nat /\ size > PageSize /\ to \in Nat /\ to <= size
      /\ from \in Nat /\ PageHeaderSkip <= from
  BY <1>1, <1>2, <1>g, <1>3, <1>l
<1>7. count \in Nat /\ count >= 2
  <2> DEFINE y == size + PageSize - 1
  <2>1. y \in Nat /\ y >= 2 * PageSize /\ PageSize \in Nat \ {0} BY <1>1, <1>6
  <2>2. y \div PageSize \in Nat /\ y = PageSize * (y \div PageSize) + (y % PageSize)
        /\ y % PageSize \in 0 .. (PageSize - 1)
    BY Zenon, <2>1, DivMod
  <2>3. PICK q \in Nat : q = y \div PageSize BY <2>2
  <2>4. y = PageSize * q + (y % PageSize) BY <2>2, <2>3
  <2> HIDE DEF y
  <2>5. CASE q >= 2 BY <2>3, <2>5 DEF y
  <2>6. CASE q = 1 BY <2>1, <2>2, <2>4, <2>6
  <2>7. CASE q = 0 BY <2>1, <2>2, <2>4, <2>7
  <2> QED BY <2>3, <2>5, <2>6, <2>7
<1> HIDE DEF count, from, to
<1>8. memory \notin mFreeList BY <1>1, <1>4 DEF PoolInv, Owned
<1>9. mFreeList' = mFreeList \ {memory} BY <1>5, <1>8
<1>10. /\ size > 0 /\ count >= 1 /\ count # 1
       /\ PageSize \in Nat /\ PageHeaderSkip <= PageSize /\ PageSize <= PageSize
  BY <1>1, <1>6, <1>7
<1>11. PutHead(memory, size, count, from, to)
  BY Zenon, <1>4, <1>5, <1>6, <1>9, <1>10, <1>f, <1>l DEF PutHead
<1> QED BY Zenon, <1>6, <1>7, <1>11, NewHead

\* allocate() and fastAllocate() within a page.
LEMMA AllocateStep ==
  ASSUME PoolInv, NEW n \in Nat,
         allocate(n) \/ allocateNewPage(n) \/ fastAllocate(n)
  PROVE  PoolInv'
<1> DEFINE at == mCurrentPageOffset
           page == Head0(mInUseList)
           pad == preAllocationPadding(page, at)
<1>1. /\ PageSize \in Nat /\ PageHeaderSkip \in Nat /\ PageHeaderSkip < PageSize
      /\ HeaderSize \in Nat /\ GuardSize \in Nat /\ at \in Nat
      /\ mAlignment \in Alignments
  BY PoolAssumption DEF PoolInv, TypeOK
<1>p. page \in Page \cup {NoPage} BY HeadType DEF PoolInv
<1>2. /\ pad \in Nat /\ pad < mAlignment /\ Aligned(page, at + pad)
      /\ sizeHere(n) = pad + HeaderSize + GuardSize + n + GuardSize
  BY Zenon, <1>1, <1>p, Layout DEF sizeHere
<1>r. /\ at <= PageSize => room = PageSize - at
      /\ Snug => at <= PageSize
  BY DEF room, PoolInv, FitInv
<1>m. ASSUME NEW memory \in Page
      PROVE  /\ preAllocationPadding(memory, PageHeaderSkip) \in Nat
             /\ preAllocationPadding(memory, PageHeaderSkip) < mAlignment
             /\ AllocationSize(memory, PageHeaderSkip, n) =
                  preAllocationPadding(memory, PageHeaderSkip)
                    + HeaderSize + GuardSize + n + GuardSize
             /\ Snug => preAllocationPadding(memory, PageHeaderSkip) = 0
  <2>1. memory \in Page \cup {NoPage} OBVIOUS
  <2>2. Snug => preAllocationPadding(memory, PageHeaderSkip) = 0 BY Zenon DEF Snug
  <2> QED BY Zenon, <1>1, <2>1, <2>2, Layout
<1>3. CASE allocate(n)
  <2>1. /\ sizeHere(n) <= room
        /\ mCurrentPageOffset' = at + sizeHere(n)
        /\ blocks' = HandOut(page, at + pad, at + sizeHere(n))
        /\ UNCHANGED <<mAlignment, mInUseList, mFreeList, mStack, mLocked, pageCount, extent>>
    BY Zenon, <1>3 DEF allocate
  <2> HIDE DEF pad
  <2>2. PICK from \in Nat, to \in Nat : from = at + pad /\ to = at + sizeHere(n)
    BY <1>1, <1>2
  <2>3. mCurrentPageOffset <= from /\ from <= to
        /\ (to <= PageSize \/ PageSize < mCurrentPageOffset) /\ (Snug => to <= PageSize)
    BY <1>1, <1>2, <1>r, <2>1, <2>2
  <2>4. mCurrentPageOffset' = to /\ blocks' = HandOut(Head0(mInUseList), from, to)
        /\ Aligned(Head0(mInUseList), from)
    BY Zenon, <1>2, <2>1, <2>2
  <2> QED BY Zenon, <2>1, <2>3, <2>4, InPlace
<1>4. CASE allocateNewPage(n)
  <2>1. PICK memory \in Page :
          /\ takePage(n, memory)
          /\ blocks' = HandOut(memory, PageHeaderSkip + preAllocationPadding(memory, PageHeaderSkip),
                               PageHeaderSkip + AllocationSize(memory, PageHeaderSkip, n))
    BY Zenon, <1>4 DEF allocateNewPage
  <2>2. sizeHere(n) <= PageSize - PageHeaderSkip BY Zenon, <1>4 DEF allocateNewPage
  <2> HIDE DEF pad
  <2>3. PICK to \in Nat : to = PageHeaderSkip + AllocationSize(memory, PageHeaderSkip, n)
    BY <1>1, <1>m
  <2>4. Snug => AllocationSize(memory, PageHeaderSkip, n) <= PageSize - PageHeaderSkip
    BY <1>1, <1>2, <1>m, <2>2
  <2>5. to <= PageHeaderSkip + AllocationSize(memory, PageHeaderSkip, n) BY <2>3
  <2> QED BY Zenon, <2>1, <2>3, <2>4, <2>5, TakePageStep
<1>5. CASE fastAllocate(n)
  <2>1. mAlignment = 1 /\ n <= PageSize - PageHeaderSkip
    BY Zenon, <1>5 DEF fastAllocate
  <2>2. CASE /\ n <= room /\ mCurrentPageOffset' = at + n
             /\ blocks' = HandOut(page, at, at + n)
             /\ UNCHANGED <<mAlignment, mInUseList, mFreeList, mStack, mLocked, pageCount, extent>>
    <3>1. PICK to \in Nat : to = at + n BY <1>1
    <3>2. mCurrentPageOffset <= at /\ at <= to
          /\ (to <= PageSize \/ PageSize < mCurrentPageOffset) /\ (Snug => to <= PageSize)
      BY <1>1, <1>r, <2>2, <3>1
    <3>3. Aligned(Head0(mInUseList), at)
      <4>1. pad = 0 BY <1>2, <2>1
      <4>2. at + pad = at BY <1>1, <4>1
      <4> QED BY Zenon, <1>2, <4>2
    <3> QED BY Zenon, <1>1, <2>2, <3>1, <3>2, <3>3, InPlace
  <2>3. CASE \E memory \in Page :
               /\ takePage(n, memory)
               /\ blocks' = HandOut(memory, PageHeaderSkip + preAllocationPadding(memory, PageHeaderSkip),
                                    PageHeaderSkip + preAllocationPadding(memory, PageHeaderSkip) + n)
    <3>1. PICK memory \in Page :
            /\ takePage(n, memory)
            /\ blocks' = HandOut(memory, PageHeaderSkip + preAllocationPadding(memory, PageHeaderSkip),
                                 PageHeaderSkip + preAllocationPadding(memory, PageHeaderSkip) + n)
      BY Zenon, <2>3
    <3>2. PICK to \in Nat : to = PageHeaderSkip + preAllocationPadding(memory, PageHeaderSkip) + n
      BY <1>1, <1>m
    <3>3. to <= PageHeaderSkip + AllocationSize(memory, PageHeaderSkip, n)
      BY <1>1, <1>m, <3>2
    <3>4. Snug => HeaderSize + GuardSize = 0 BY Zenon, <2>1 DEF Snug
    <3>5. Snug => AllocationSize(memory, PageHeaderSkip, n) <= PageSize - PageHeaderSkip
      BY <1>1, <1>m, <2>1, <3>4
    <3> QED BY Zenon, <3>1, <3>2, <3>3, <3>5, TakePageStep
  <2> QED BY Zenon, <1>5, <2>2, <2>3 DEF fastAllocate
<1> QED BY <1>3, <1>4, <1>5

\* lock(), unlock() and a step that changes nothing.
LEMMA Unmoved ==
  ASSUME PoolInv, mLocked' \in BOOLEAN,
         UNCHANGED <<mAlignment, mCurrentPageOffset, mInUseList, mFreeList, mStack, pageCount,
                     extent, blocks>>
  PROVE  PoolInv'
<1>1. TypeOK' BY Zenon DEF PoolInv, TypeOK
<1>2. Owned' BY Zenon DEF PoolInv, Owned
<1>3. PageInv' BY Zenon DEF PoolInv, PageInv
<1>4. MarkInv' BY Zenon DEF PoolInv, MarkInv, Marks, Mark
<1>5. BlockInv' BY Zenon DEF PoolInv, BlockInv, Marks, Mark
<1>6. NoOverlap' BY Zenon DEF PoolInv, NoOverlap
<1>7. FitInv'
  <2>1. /\ Snug' <=> Snug
        /\ \A page, at : Aligned(page, at)' <=> Aligned(page, at)
    BY AlignmentKept
  <2> QED BY Zenon, <2>1 DEF PoolInv, FitInv, Marks, BlocksWithin, DataAligned
<1> QED BY <1>1, <1>2, <1>3, <1>4, <1>5, <1>6, <1>7 DEF PoolInv

-----------------------------------------------------------------------------
(* The theorems                                                            *)

\* A step of the pool preserves the invariant.
LEMMA PoolStep == PoolInv /\ [Next]_vars => PoolInv'
<1> SUFFICES ASSUME PoolInv, [Next]_vars PROVE PoolInv' OBVIOUS
<1>0. Sizes \subseteq Nat BY PoolAssumption
<1>s. mStack # <<>> => 1 \in Marks /\ Len(mStack) \in Marks
  <2>1. mStack \in Seq(AllocState) BY DEF PoolInv, TypeOK
  <2>2. mStack # <<>> => Len(mStack) \in Nat \ {0} BY <2>1, EmptySeq, LenProperties
  <2> QED BY <2>2 DEF Marks
<1>1. CASE push BY <1>1, PushStep
<1>2. CASE pop BY <1>2, <1>s, PopStep DEF pop
<1>3. CASE popAll BY <1>3, <1>s, PopStep DEF popAll
<1>4. ASSUME NEW n \in Sizes, allocate(n) \/ allocateNewPage(n) \/ fastAllocate(n)
      PROVE  PoolInv'
  BY <1>0, <1>4, AllocateStep
<1>5. ASSUME NEW n \in Sizes, allocateMultiPage(n) PROVE PoolInv'
  BY <1>0, <1>5, MultiPageStep
<1>6. CASE lock \/ unlock
  <2>1. UNCHANGED <<mAlignment, mCurrentPageOffset, mInUseList, mFreeList, mStack, pageCount,
                    extent, blocks>> /\ mLocked' \in BOOLEAN
    BY Zenon, <1>6 DEF lock, unlock
  <2> QED BY Zenon, <2>1, Unmoved
<1>7. CASE destroy BY <1>7, DestroyStep
<1>8. CASE UNCHANGED vars
  <2>1. mLocked' \in BOOLEAN BY Zenon, <1>8 DEF vars, PoolInv, TypeOK
  <2> QED BY Zenon, <1>8, <2>1, Unmoved DEF vars
<1> QED BY Zenon, <1>1, <1>2, <1>3, <1>4, <1>5, <1>6, <1>7, <1>8 DEF Next

\* PoolInv holds in every reachable state of the pool.
THEOREM PoolInvariant == Spec => []PoolInv
BY InitStep, PoolStep, PTL DEF Spec

\* For every page size, header and guard size, alignment, request and address of
\* the pages: the live blocks lie in pages in use and never share a byte, whatever
\* allocate(), push() and pop() did (PoolAlloc.cpp:292).
THEOREM BlocksStayApart == Spec => []BlocksApart
<1>1. PoolInv => BlocksApart BY Zenon DEF PoolInv, BlockInv, NoOverlap, BlocksApart
<1> QED BY <1>1, PoolInvariant, PTL

\* The data of every block is aligned, wherever the system puts the pages
\* (PoolAlloc.cpp:93).  Multi-page allocations hold their block, and so do single
\* pages as long as the first block of a page needs no padding
\* (PoolAlloc.cpp:377, :382).
THEOREM BlocksStayUsable == Spec => []BlocksUsable
<1>1. PoolInv => BlocksUsable BY Zenon DEF PoolInv, FitInv, BlocksUsable
<1> QED BY <1>1, PoolInvariant, PTL

\* Every page of the system is on one of the two lists, once, and a page of the
\* free list is a whole single page (PoolAlloc.cpp:310, :387).
THEOREM PagesStayOwned == Spec => []PagesOwnedOnce
<1>1. PoolInv => PagesOwnedOnce BY Zenon DEF PoolInv, Owned, Distinct, PagesOwnedOnce
<1> QED BY <1>1, PoolInvariant, PTL

\* pop() frees exactly the blocks that were allocated since its push(), and
\* popAll() those since the first one (PoolAlloc.cpp:299).
THEOREM PopFreesExactly == Spec => PopFreesSincePush
<1>1. PoolInv /\ [Next]_vars
        => [pop \/ popAll => blocks' = {b \in blocks : b.level <= Len(mStack')}]_vars
  <2> SUFFICES ASSUME PoolInv, pop \/ popAll
               PROVE  blocks' = {b \in blocks : b.level <= Len(mStack')}
    OBVIOUS
  <2>1. mStack \in Seq(AllocState) BY DEF PoolInv, TypeOK
  <2>2. mStack # <<>> => Len(mStack) \in Nat \ {0} BY <2>1, EmptySeq, LenProperties
  <2>3. mStack # <<>> => 1 \in Marks /\ Len(mStack) \in Marks BY <2>2 DEF Marks
  <2>4. CASE pop BY <2>3, <2>4, PopStep DEF pop
  <2>5. CASE popAll BY <2>3, <2>5, PopStep DEF popAll
  <2> QED BY <2>4, <2>5
<1> QED BY <1>1, PoolInvariant, PTL DEF Spec, PopFreesSincePush
=============================================================================
