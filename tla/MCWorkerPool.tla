---------------------------- MODULE MCWorkerPool ----------------------------
(* A bounded instance of WorkerPool: a worker, two events, and queues of    *)
(* one or two places.  Three configurations are enough for a resize while  *)
(* the worker waits, followed by a stop, or the other way round.           *)
EXTENDS WorkerPool
=============================================================================
