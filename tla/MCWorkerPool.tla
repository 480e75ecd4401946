---------------------------- MODULE MCWorkerPool ----------------------------
(***************************************************************************)
(* Three requests for TLC: one whose bytes do not parse, one written in a  *)
(* single transaction (traces, logs) and one in two (metrics).             *)
(***************************************************************************)
EXTENDS WorkerPool, TLC

CONSTANTS bad, single, double, w1, w2

MCItems == {bad, single, double}
MCWorkers == {w1, w2}
MCMalformed == {bad}
MCBatches == [i \in MCItems |-> IF i = double THEN 2 ELSE 1]
=============================================================================
