------------------------------ MODULE MCIngest ------------------------------
(***************************************************************************)
(* Two HTTP requests, one of them invalid, and a gRPC request that takes   *)
(* two transactions to write; a queue of one, two workers.                 *)
(***************************************************************************)
EXTENDS Ingest

CONSTANTS httpBad, httpOk, grpcBig, w1, w2

MCItems == {httpBad, httpOk, grpcBig}
MCHTTP == {httpBad, httpOk}
MCMayBeBare == {httpOk}
MCMalformed == {httpBad}
MCWorkers == {w1, w2}
MCBatches == [i \in MCItems |-> IF i = grpcBig THEN 2 ELSE 1]
=============================================================================
