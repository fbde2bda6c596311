---------------------------- MODULE MCFixedQueue ----------------------------
(* Small instances of the queue.                                           *)
EXTENDS FixedQueue

UpToThree == 0..3
=============================================================================
