---------------------------- MODULE MCQueuePair ----------------------------
(* A few clients and backends. *)
EXTENDS QueuePairBenchmark
=============================================================================
