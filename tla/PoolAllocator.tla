---------------------------- MODULE PoolAllocator ----------------------------
(***************************************************************************)
(* The page pool of common/PoolAlloc.cpp.  Memory is handed out from the   *)
(* head of a list of pages; push() marks a place and pop() gives back all  *)
(* that was allocated since the mark, whole pages at a time.  Single pages *)
(* are kept on a free list, multi-page allocations are deleted.            *)
(*                                                                         *)
(* The padding before a block depends on the address of its page, which    *)
(* need not be a multiple of the alignment.  The test whether a request    *)
(* fits into a new page uses the padding at the old place, so a pool whose *)
(* alignment is larger than that of its pages can be driven past the end   *)
(* of a page; the offset then exceeds mPageSize, and the room that is left *)
(* is the unsigned difference of the two.  mInUseList is the linked list   *)
(* with its head last.  The free list is a set: any of its pages may be    *)
(* the one that was put there last.                                        *)
(***************************************************************************)
EXTENDS Integers, Sequences, FiniteSets

CONSTANTS Page,            \* pages the system may hand out
          NoPage,          \* nullptr
          Address,         \* the address of a page
          PageSize,        \* mPageSize after initialize()
          PageHeaderSkip,  \* sizeof(PageHeader)
          HeaderSize,      \* Allocation::HeaderSize(), 0 without guard blocks
          GuardSize,       \* Allocation::kGuardBlockSize, 0 without guard blocks
          Alignments,      \* values of mAlignment after initialize()
          Sizes,           \* requested numbers of bytes
          SizeRange,       \* the number of values of size_t
          MaxDepth,        \* bound on the number of marks
          MaxOffset        \* bound on the offset at which a block is put in place

ASSUME PoolAssumption ==
  /\ NoPage \notin Page
  /\ PageSize \in Nat /\ PageHeaderSkip \in Nat
  /\ PageHeaderSkip < PageSize
  /\ HeaderSize \in Nat /\ GuardSize \in Nat
  /\ Sizes \subseteq Nat
  /\ MaxDepth \in Nat
  /\ Address \in [Page -> Nat]
  /\ Alignments \subseteq Nat \ {0}
  /\ MaxOffset \in Nat /\ SizeRange \in Nat
  /\ PageSize <= MaxOffset /\ MaxOffset < SizeRange

VARIABLES mAlignment,
          mCurrentPageOffset, \* next offset in the page at the head of mInUseList
          mInUseList,         \* pages in use, the head last
          mFreeList,          \* popped single pages
          mStack,             \* marks [offset, page] made by push()
          mLocked,
          pageCount,          \* PageHeader::pageCount of a page
          extent,             \* bytes the system gave for a page, 0 when it has none
          blocks              \* live allocations [page, from, to, level]

vars == <<mAlignment, mCurrentPageOffset, mInUseList, mFreeList, mStack, mLocked,
          pageCount, extent, blocks>>

Block == [page : Page, from : Nat, to : Nat, level : Nat]
AllocState == [offset : Nat, page : Page \cup {NoPage}]

TypeOK ==
  /\ mAlignment \in Alignments
  /\ mCurrentPageOffset \in Nat
  /\ mInUseList \in Seq(Page)
  /\ mFreeList \subseteq Page
  /\ mStack \in Seq(AllocState)
  /\ mLocked \in BOOLEAN
  /\ pageCount \in [Page -> Nat]
  /\ extent \in [Page -> Nat]
  /\ blocks \subseteq Block

-----------------------------------------------------------------------------
(* The layout of an allocation: <padding>[header][guard][data][guard].     *)

roundUpPow2(x, a) == ((x + a - 1) \div a) * a

\* A PageHeader pointer as a number.
Base(page) == IF page = NoPage THEN 0 ELSE Address[page]

\* Allocation::AlignedHeaderSize, for an allocation that starts at offset at of page.
AlignedHeaderSize(page, at) ==
  roundUpPow2(Base(page) + at + GuardSize + HeaderSize, mAlignment) - (Base(page) + at)

preAllocationPadding(page, at) == AlignedHeaderSize(page, at) - HeaderSize - GuardSize

AllocationSize(page, at, n) == AlignedHeaderSize(page, at) + n + GuardSize

\* mPageSize - mCurrentPageOffset, in size_t.
room ==
  IF mCurrentPageOffset <= PageSize
  THEN PageSize - mCurrentPageOffset
  ELSE SizeRange - (mCurrentPageOffset - PageSize)

-----------------------------------------------------------------------------
\* mInUseList as a pointer: the page at the head of the list.
Head0(list) == IF list = <<>> THEN NoPage ELSE list[Len(list)]

\* The pages of a list.
PagesOf(list) == {list[k] : k \in 1 .. Len(list)}

\* Mutant of Depth: the loop of pop() stops when the page below is the marked one.
DepthTooHigh(list, page) ==
  LET d == IF page = NoPage THEN 0 ELSE CHOOSE k \in 1 .. Len(list) : list[k] = page
  IN IF d < Len(list) THEN d + 1 ELSE d

\* The number of pages below and including page, where the loop of pop() stops.
Depth(list, page) ==
  IF page = NoPage THEN 0 ELSE CHOOSE k \in 1 .. Len(list) : list[k] = page

\* The bytes from .. to - 1 of page are handed out; nothing is recorded for an
\* empty allocation.
HandOut(page, from, to) ==
  IF from < to
  THEN blocks \cup {[page |-> page, from |-> from, to |-> to, level |-> Len(mStack)]}
  ELSE blocks

\* The constructor and initialize(): there is no page to allocate from.
Init ==
  /\ mAlignment \in Alignments
  /\ mCurrentPageOffset = PageSize
  /\ mInUseList = <<>>
  /\ mFreeList = {}
  /\ mStack = <<>>
  /\ mLocked = FALSE
  /\ pageCount = [p \in Page |-> 0]
  /\ extent = [p \in Page |-> 0]
  /\ blocks = {}

\* Mutant of push: mCurrentPageOffset is not reset.
pushKeepsOffset ==
  /\ Len(mStack) < MaxDepth
  /\ mStack' = Append(mStack, [offset |-> mCurrentPageOffset, page |-> Head0(mInUseList)])
  /\ UNCHANGED <<mAlignment, mCurrentPageOffset, mInUseList, mFreeList, mLocked, pageCount,
                 extent, blocks>>

push ==
  /\ Len(mStack) < MaxDepth
  /\ mStack' = Append(mStack, [offset |-> mCurrentPageOffset, page |-> Head0(mInUseList)])
  /\ mCurrentPageOffset' = PageSize
  /\ UNCHANGED <<mAlignment, mInUseList, mFreeList, mLocked, pageCount, extent, blocks>>

\* What pop() leaves when it returns to mark i: the pages above the mark are
\* deleted or put on the free list.
popTo(i) ==
  LET keep == Depth(mInUseList, mStack[i].page)
      gone == {mInUseList[k] : k \in (keep + 1) .. Len(mInUseList)}
      multi == {p \in gone : pageCount[p] > 1}
  IN /\ mCurrentPageOffset' = mStack[i].offset
     /\ mInUseList' = SubSeq(mInUseList, 1, keep)
     /\ mFreeList' = mFreeList \cup (gone \ multi)
     /\ extent' = [p \in Page |-> IF p \in multi THEN 0 ELSE extent[p]]
     /\ mStack' = SubSeq(mStack, 1, i - 1)
     /\ blocks' = {b \in blocks : b.page \notin gone}
     /\ UNCHANGED <<mAlignment, mLocked, pageCount>>

\* Without a mark pop() returns at once.
pop == mStack # <<>> /\ popTo(Len(mStack))

\* pop() until no mark is left: the last one popped decides.
popAll == mStack # <<>> /\ popTo(1)

\* AllocationSize for the next place in the current page.
sizeHere(n) == AllocationSize(Head0(mInUseList), mCurrentPageOffset, n)

\* allocate(): there is room behind mCurrentPageOffset.
allocate(n) ==
  LET page == Head0(mInUseList)
      at == mCurrentPageOffset
  IN /\ ~mLocked
     /\ at <= MaxOffset
     /\ sizeHere(n) <= room
     /\ mCurrentPageOffset' = at + sizeHere(n)
     /\ blocks' = HandOut(page, at + preAllocationPadding(page, at), at + sizeHere(n))
     /\ UNCHANGED <<mAlignment, mInUseList, mFreeList, mStack, mLocked, pageCount, extent>>

\* Mutant of numBytesToAlloc: no room for an alignment that is not known yet.
numBytesExact(n) == AllocationSize(NoPage, PageHeaderSkip, n) + PageHeaderSkip

\* The size of a multi-page allocation, with mAlignment bytes to spare: the
\* code asks for the size at address mPageHeaderSkip.
numBytesToAlloc(n) == AllocationSize(NoPage, PageHeaderSkip, n) + PageHeaderSkip + mAlignment

\* allocate(): more than a page.
allocateMultiPage(n) ==
  /\ ~mLocked
  /\ sizeHere(n) > room
  /\ sizeHere(n) > PageSize - PageHeaderSkip
  /\ \E memory \in Page :
       /\ extent[memory] = 0
       /\ extent' = [extent EXCEPT ![memory] = numBytesToAlloc(n)]
       /\ pageCount' = [pageCount EXCEPT ![memory] =
                          (numBytesToAlloc(n) + PageSize - 1) \div PageSize]
       /\ mInUseList' = Append(mInUseList, memory)
       /\ blocks' = HandOut(memory,
                            PageHeaderSkip + preAllocationPadding(memory, PageHeaderSkip),
                            PageHeaderSkip + AllocationSize(memory, PageHeaderSkip, n))
  /\ mCurrentPageOffset' = PageSize
  /\ UNCHANGED <<mAlignment, mFreeList, mStack, mLocked>>

\* allocateNewPage(): a page of the free list if there is one, else a new one.
takePage(n, memory) ==
  /\ \/ /\ mFreeList # {}
        /\ memory \in mFreeList
        /\ mFreeList' = mFreeList \ {memory}
        /\ extent' = extent
     \/ /\ mFreeList = {}
        /\ extent[memory] = 0
        /\ mFreeList' = mFreeList
        /\ extent' = [extent EXCEPT ![memory] = PageSize]
  /\ pageCount' = [pageCount EXCEPT ![memory] = 1]
  /\ mInUseList' = Append(mInUseList, memory)
  /\ mCurrentPageOffset' = PageHeaderSkip + AllocationSize(memory, PageHeaderSkip, n)
  /\ UNCHANGED <<mAlignment, mStack, mLocked>>

\* Mutant of allocateNewPage: the test forgets the header of the page.
allocateWholePage(n) ==
  /\ ~mLocked
  /\ sizeHere(n) > room
  /\ sizeHere(n) <= PageSize
  /\ \E memory \in Page :
       /\ takePage(n, memory)
       /\ blocks' = HandOut(memory,
                            PageHeaderSkip + preAllocationPadding(memory, PageHeaderSkip),
                            PageHeaderSkip + AllocationSize(memory, PageHeaderSkip, n))

\* allocate(): a page is enough, judged by the padding at the old place.
allocateNewPage(n) ==
  /\ ~mLocked
  /\ sizeHere(n) > room
  /\ sizeHere(n) <= PageSize - PageHeaderSkip
  /\ \E memory \in Page :
       /\ takePage(n, memory)
       /\ blocks' = HandOut(memory,
                            PageHeaderSkip + preAllocationPadding(memory, PageHeaderSkip),
                            PageHeaderSkip + AllocationSize(memory, PageHeaderSkip, n))

\* fastAllocate(), for pools of alignment 1: a block without header and guard.
fastAllocate(n) ==
  LET at == mCurrentPageOffset IN
  /\ mAlignment = 1
  /\ n <= PageSize - PageHeaderSkip
  /\ \/ /\ at <= MaxOffset
        /\ n <= room
        /\ mCurrentPageOffset' = at + n
        /\ blocks' = HandOut(Head0(mInUseList), at, at + n)
        /\ UNCHANGED <<mAlignment, mInUseList, mFreeList, mStack, mLocked, pageCount, extent>>
     \/ /\ n > room
        /\ \E memory \in Page :
             /\ takePage(n, memory)
             /\ blocks' = HandOut(memory, PageHeaderSkip + preAllocationPadding(memory, PageHeaderSkip),
                                  PageHeaderSkip + preAllocationPadding(memory, PageHeaderSkip) + n)

lock ==
  /\ ~mLocked
  /\ mLocked' = TRUE
  /\ UNCHANGED <<mAlignment, mCurrentPageOffset, mInUseList, mFreeList, mStack, pageCount,
                 extent, blocks>>

unlock ==
  /\ mLocked
  /\ mLocked' = FALSE
  /\ UNCHANGED <<mAlignment, mCurrentPageOffset, mInUseList, mFreeList, mStack, pageCount,
                 extent, blocks>>

\* ~PoolAllocator(): the pages of both lists are deleted.  The next pool begins
\* with what the last one has left of the system's pages.
destroy ==
  /\ extent' = [p \in Page |->
                  IF p \in PagesOf(mInUseList) \cup mFreeList THEN 0 ELSE extent[p]]
  /\ mCurrentPageOffset' = PageSize
  /\ mInUseList' = <<>>
  /\ mFreeList' = {}
  /\ mStack' = <<>>
  /\ mLocked' = FALSE
  /\ blocks' = {}
  /\ UNCHANGED <<mAlignment, pageCount>>

Next ==
  \/ push
  \/ pop
  \/ popAll
  \/ \E n \in Sizes : allocate(n)
  \/ \E n \in Sizes : allocateMultiPage(n)
  \/ \E n \in Sizes : allocateNewPage(n)
  \/ \E n \in Sizes : fastAllocate(n)
  \/ lock
  \/ unlock
  \/ destroy

Spec == Init /\ [][Next]_vars

-----------------------------------------------------------------------------
(* What the pool promises.                                                 *)

\* Every live block lies behind the header of a page that is in use, and no two
\* live blocks share a byte, whatever the alignment and the addresses of the
\* pages.  After pop() the offset is that of the mark, so this says in
\* particular that the memory behind the mark is not in use any more, however
\* many pages, multi-page allocations and marks came since (PoolAlloc.cpp:292).
BlocksApart ==
  /\ \A b \in blocks : b.page \in PagesOf(mInUseList) /\ PageHeaderSkip <= b.from
  /\ \A b, c \in blocks :
       b # c /\ b.page = c.page => b.to <= c.from \/ c.to <= b.from

\* The data of a block at offset from of page is aligned.
Aligned(page, from) == (Base(page) + from + HeaderSize + GuardSize) % mAlignment = 0

\* The data of every block is aligned in memory.
DataAligned == \A b \in blocks : Aligned(b.page, b.from)

\* The first block of a page needs no padding, which is so for all alignments up
\* to that of the pages if the headers are multiples of it, and a pool for
\* fastAllocate() has neither headers nor guard blocks.
Snug ==
  /\ \A p \in Page : preAllocationPadding(p, PageHeaderSkip) = 0
  /\ mAlignment = 1 => HeaderSize + GuardSize = 0

\* A block ends within the memory of its page, if padding is no surprise there.
BlocksWithin ==
  \A b \in blocks : Snug \/ pageCount[b.page] > 1 => b.to <= extent[b.page]

\* What allocate() returns can be used.  The data of a block is aligned, in the
\* current page, a new page and a multi-page allocation alike, whatever the
\* addresses the system chose: the assertion of GetDataPointer()
\* (PoolAlloc.cpp:93).  And the block ends within the memory the system gave for
\* its page: always in a multi-page allocation, whose size is fixed before its
\* address and with it the padding is known (PoolAlloc.cpp:382), and in a single
\* page if the pool is snug, although the padding at the old place decides
\* whether a page is enough (PoolAlloc.cpp:377).
BlocksUsable == DataAligned /\ BlocksWithin

\* allocate() returns "a properly aligned pointer to 'numBytes' of memory"
\* (PoolAlloc.h:95) for every alignment a pool may be given.
BlocksFit == \A b \in blocks : b.to <= extent[b.page]

\* Every page the system gave is on exactly one of the two lists, so that the
\* destructor deletes it once, and a page on the free list is a whole page:
\* pop() decides by pageCount alone what may be reused for any allocation that
\* fits a page (PoolAlloc.cpp:310), so a multi-page allocation must never count
\* as one page, whatever its size (PoolAlloc.cpp:387).
PagesOwnedOnce ==
  /\ \A i, j \in 1 .. Len(mInUseList) : i # j => mInUseList[i] # mInUseList[j]
  /\ PagesOf(mInUseList) \cap mFreeList = {}
  /\ \A p \in Page : extent[p] > 0 <=> p \in PagesOf(mInUseList) \cup mFreeList
  /\ \A p \in mFreeList : extent[p] = PageSize /\ pageCount[p] = 1

\* pop() gives back exactly what was allocated since the matching push(), and
\* popAll() what was allocated since the first one: pages go back as a whole, so
\* no page may hold blocks from both sides of a mark (PoolAlloc.cpp:282).  What
\* was allocated before the first push() stays, unlike PopAllFreesAll.
PopFreesSincePush ==
  [][pop \/ popAll => blocks' = {b \in blocks : b.level <= Len(mStack')}]_vars

\* "Call popAll() to free all memory allocated." (PoolAlloc.h:89)
PopAllFreesAll == [][popAll => blocks' = {}]_vars

=============================================================================
