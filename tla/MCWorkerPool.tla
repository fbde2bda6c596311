---------------------------- MODULE MCWorkerPool ----------------------------
(* Small instances of the worker pools.                                    *)
EXTENDS WorkerPool

AllPools == {"single", "async", "delegate"}
=============================================================================
