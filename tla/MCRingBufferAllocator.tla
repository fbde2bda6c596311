----------------------- MODULE MCRingBufferAllocator ------------------------
(* Small instances of the ring buffer allocator.                           *)
EXTENDS RingBufferAllocator

\* Small blocks, blocks that make the buffer wrap, and one so large that the
\* buffer can shrink later while two small ones are live.
MCSizes == {1, 5, 12}
MCReserves == {1}
MCFactors == {0}
=============================================================================
