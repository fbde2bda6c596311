--------------------------- MODULE MCPoolAllocator --------------------------
(* A small pool.  Pages lie at multiples of 4, the size of their header, so *)
(* a pool with alignment 1 or 4 is snug; with alignment 8 the first block of *)
(* p1 and p2 is padded and that of p3 is not.  The room behind the header is *)
(* 8, so that the padding decides between a page and a multi-page            *)
(* allocation.  p1 and p2 lie alike for all these alignments.                *)
EXTENDS PoolAllocator, TLC

CONSTANTS p1, p2, p3

MCPage == {p1, p2, p3}
MCAddress == (p1 :> 16) @@ (p2 :> 32) @@ (p3 :> 52)
MCAlignments == {1, 4, 8}
MCSizes == {0, 2, 7, 9}
Symmetry == Permutations({p1, p2})
=============================================================================
