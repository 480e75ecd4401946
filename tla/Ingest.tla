------------------------------- MODULE Ingest -------------------------------
(***************************************************************************)
(* The ingest path of the all-in-one process: the OTLP receivers           *)
(* (src/internal/otlp/receiver) hand requests to the worker pool, whose    *)
(* workers write to the telemetry store, and the main program              *)
(* (src/cmd/all-in-one/main.go) takes the path down in the reverse order   *)
(* of its defers: HTTP receiver, gRPC receiver, OpAMP server, worker pool, *)
(* telemetry store.  The API and OpAMP servers submit nothing and are left *)
(* out.                                                                    *)
(*                                                                         *)
(* Each request is handled by a goroutine of its own.  The client may be   *)
(* arbitrarily slow in sending the body, and each Stop has a timeout after *)
(* which main goes on while the handlers and workers still run.            *)
(***************************************************************************)
EXTENDS WorkerPool

CONSTANTS
  HTTP,     (* the requests that arrive over HTTP; the others use gRPC        *)
  MayBeBare (* the well-formed requests that may come without a resource or   *)
            (* a scope, which OTLP lets a client leave out                    *)

ASSUME IngestAssumption ==
  /\ HTTP \subseteq Items
  /\ Malformed \subseteq HTTP  \* a decoded gRPC message can be encoded again
  /\ MayBeBare \subseteq Items \ Malformed

VARIABLES
  phase,    (* how far main has come                                          *)
  forced,   (* the receivers whose Stop ran into its timeout                  *)
  handler,  (* handler[i]: the goroutine that handles request i               *)
  reply     (* reply[i]: what the client of request i was told                *)

ingestVars == <<phase, forced, handler, reply>>
allVars == <<poolVars, ingestVars>>

Phases == {"serving", "stop_http", "stop_grpc", "stop_pool", "closed", "exited", "crashed"}

IngestTypeOK ==
  /\ PoolTypeOK
  /\ phase \in Phases
  /\ forced \subseteq {"http", "grpc"}
  /\ handler \in [Items -> {"none", "reading", "submitting", "done"}]
  /\ reply \in [Items -> {"none", "accepted", "busy", "invalid", "reset"}]
  /\ \A i \in Items : call[i] # "none" => handler[i] \in {"submitting", "done"}

IngestInit ==
  /\ PoolInit
  /\ phase = "serving"
  /\ forced = {}
  /\ handler = [i \in Items |-> "none"]
  /\ reply = [i \in Items |-> "none"]

Alive == phase \notin {"exited", "crashed"}
StoreOpen == phase \notin {"closed", "exited"}
Proto(i) == IF i \in HTTP THEN "http" ELSE "grpc"
Via(p) == {i \in Items : Proto(i) = p}

Listening(p) ==
  \/ phase = "serving"
  \/ phase = "stop_http" /\ p = "grpc"

-----------------------------------------------------------------------------
(* Request handlers: handleOTLPTraces/Metrics/Logs and the Export methods *)

Finish(i, answer) ==
  /\ handler' = [handler EXCEPT ![i] = "done"]
  /\ reply' = [reply EXCEPT ![i] = answer]

Arrive(i) ==
  /\ Listening(Proto(i))
  /\ handler[i] = "none"
  /\ handler' = [handler EXCEPT ![i] = "reading"]
  /\ UNCHANGED <<poolVars, phase, forced, reply>>

\* 400: the HTTP handler could not read the body, or it does not unmarshal.
RejectInvalid(i) ==
  /\ Alive
  /\ handler[i] = "reading"
  /\ i \in HTTP
  /\ Finish(i, "invalid")
  /\ UNCHANGED <<poolVars, phase, forced>>

\* Faulty: the handler submits and goes on as if it had not.
HandlerSubmitsTwice(i) ==
  /\ Alive
  /\ handler[i] = "reading"
  /\ i \notin Malformed
  /\ CallSubmit(i)
  /\ UNCHANGED ingestVars

HandlerSubmits(i) ==
  /\ Alive
  /\ handler[i] = "reading"
  /\ i \notin Malformed
  /\ CallSubmit(i)
  /\ handler' = [handler EXCEPT ![i] = "submitting"]
  /\ UNCHANGED <<phase, forced, reply>>

SubmitEnds(i) ==
  /\ Alive
  /\ Enqueue(i) \/ SubmitTimeout(i)
  /\ UNCHANGED ingestVars

\* Faulty: the error of Submit is not looked at.
AnswerAlwaysOk(i) ==
  /\ Alive
  /\ handler[i] = "submitting"
  /\ call[i] # "sending"
  /\ Finish(i, "accepted")
  /\ UNCHANGED <<poolVars, phase, forced>>

\* Submit returned: 202 or 503, or a gRPC response without or with a partial
\* success that says "Queue full".  After a forced stop the gRPC connection
\* is gone and the client sees it reset.
Answer(i) ==
  /\ Alive
  /\ handler[i] = "submitting"
  /\ call[i] # "sending"
  /\ Finish(i, IF Proto(i) \in forced /\ Proto(i) = "grpc" THEN "reset"
               ELSE IF Accepted(i) THEN "accepted"
               ELSE "busy")
  /\ UNCHANGED <<poolVars, phase, forced>>

-----------------------------------------------------------------------------
(* The pool's workers; a closed store fails every transaction *)

\* ParseTraces, ParseMetrics and ParseLogs read the attributes of a resource
\* and of a scope that may be nil; nothing recovers, so the process ends.
ParsePanics(w) ==
  /\ Alive
  /\ hands[w] \in MayBeBare
  /\ ~parsed[w]
  /\ phase' = "crashed"
  /\ UNCHANGED <<poolVars, forced, handler, reply>>

WorkerRuns(w) ==
  /\ Alive
  /\ WorkerStep(w)
  /\ stored' # stored => StoreOpen
  /\ UNCHANGED ingestVars

-----------------------------------------------------------------------------
(* main: the deferred calls, last in first out *)

\* SIGINT or SIGTERM: runLawrence returns and its defers begin to run.
Signal ==
  /\ phase = "serving"
  /\ phase' = "stop_http"
  /\ UNCHANGED <<poolVars, forced, handler, reply>>

NoneHandled(p) == \A i \in Via(p) : handler[i] \in {"none", "done"}

\* Faulty: the receiver is closed without waiting for its handlers.
StopHTTPNoWait ==
  /\ phase = "stop_http"
  /\ phase' = "stop_grpc"
  /\ UNCHANGED <<poolVars, forced, handler, reply>>

\* httpServer.Stop: Shutdown waits for the handlers, at most ten seconds.
StopHTTP ==
  /\ phase = "stop_http"
  /\ phase' = "stop_grpc"
  /\ \/ NoneHandled("http") /\ forced' = forced
     \/ ~NoneHandled("http") /\ forced' = forced \cup {"http"}
  /\ UNCHANGED <<poolVars, handler, reply>>

\* Faulty: GracefulStop without the timeout.
StopGRPCNoTimeout ==
  /\ phase = "stop_grpc"
  /\ phase' = "stop_pool"
  /\ NoneHandled("grpc")
  /\ UNCHANGED <<poolVars, forced, handler, reply>>

\* grpcServer.Stop: GracefulStop, and Stop when the ten seconds are over;
\* Stop closes the connections but not the handlers' goroutines.
StopGRPC ==
  /\ phase = "stop_grpc"
  /\ phase' = "stop_pool"
  /\ \/ NoneHandled("grpc") /\ forced' = forced
     \/ ~NoneHandled("grpc") /\ forced' = forced \cup {"grpc"}
  /\ UNCHANGED <<poolVars, handler, reply>>

\* workerPool.Stop is called, and returns or runs into its 30 seconds.
MainStopsPool ==
  /\ phase = "stop_pool"
  /\ StopStep
  /\ UNCHANGED ingestVars

\* Faulty: the store is closed while Stop of the pool is waiting.
CloseStoreEarly ==
  /\ phase = "stop_pool"
  /\ stop # "none"
  /\ phase' = "closed"
  /\ UNCHANGED <<poolVars, forced, handler, reply>>

\* telemetryStoreFactory.Close, whatever Stop of the pool returned.
CloseStore ==
  /\ phase = "stop_pool"
  /\ stop \in {"drained", "timeout"}
  /\ phase' = "closed"
  /\ UNCHANGED <<poolVars, forced, handler, reply>>

\* main returns: every goroutine that is left ends with the process.
ExitProcess ==
  /\ phase = "closed"
  /\ phase' = "exited"
  /\ UNCHANGED <<poolVars, forced, handler, reply>>

-----------------------------------------------------------------------------
MainStep ==
  Signal \/ StopHTTP \/ StopGRPC \/ MainStopsPool \/ CloseStore \/ ExitProcess

RequestStep(i) ==
  Arrive(i) \/ RejectInvalid(i) \/ HandlerSubmits(i) \/ SubmitEnds(i) \/ Answer(i)

IngestNext ==
  \/ \E i \in Items : RequestStep(i)
  \/ \E w \in Workers : WorkerRuns(w) \/ ParsePanics(w)
  \/ MainStep

IngestSpec == IngestInit /\ [][IngestNext]_allVars

(***************************************************************************)
(* main goes on once it was told to stop; workers, Submit calls and        *)
(* replies go on.  A body may never arrive (no fairness for a handler that *)
(* reads) and the signal may never come.                                   *)
(***************************************************************************)
IngestFairness ==
  /\ WF_allVars(StopHTTP \/ StopGRPC \/ MainStopsPool \/ CloseStore \/ ExitProcess)
  /\ \A w \in Workers : WF_allVars(WorkerRuns(w))
  /\ \A i \in Items : WF_allVars(SubmitEnds(i)) /\ WF_allVars(Answer(i))

FairIngestSpec == IngestSpec /\ IngestFairness

-----------------------------------------------------------------------------
(* Properties *)

CleanShutdown == forced = {} /\ stop # "timeout"

(***************************************************************************)
(* The order of the defers keeps every acknowledged request: if main gets  *)
(* that far (a panic in a worker ends the process before) and no Stop      *)
(* ran into its timeout, a request answered with success has been handled  *)
(* by a worker when the process exits, and was not cut off by the store    *)
(* being closed (main.go, receivers' Stop, Pool.Stop).                     *)
(***************************************************************************)
AckedSurvivesCleanShutdown ==
  phase \in {"closed", "exited"} /\ CleanShutdown =>
    \A i \in Items : reply[i] = "accepted" => outcome[i] \in {"written", "failed"}

(***************************************************************************)
(* The parts stop in the order of the defers: nobody submits to a pool     *)
(* that is stopping, unless a receiver was forced to stop, and the store   *)
(* is closed under a worker that still holds an item only after the        *)
(* timeout of Pool.Stop.                                                   *)
(***************************************************************************)
StopsInOrder ==
  /\ \A i \in Items : call[i] = "late" => Proto(i) \in forced
  /\ ~StoreOpen /\ stop # "timeout" => InHands = {}

(***************************************************************************)
(* What the client was told is true: success means the item is in the      *)
(* pool's care or beyond, "busy" and "invalid" mean it was never taken and *)
(* nothing of it is or will be stored, so a retry duplicates nothing; and  *)
(* what was accepted is not dropped as unparsable afterwards, although the *)
(* worker parses the bytes that the receiver let through once more.        *)
(***************************************************************************)
ReplyTellsTheTruth ==
  \A i \in Items :
    /\ reply[i] = "accepted" => Accepted(i)
    /\ reply[i] \in {"busy", "invalid"} =>
         ~Accepted(i) /\ i \notin InQueue \cup InHands /\ stored[i] = 0
    /\ outcome[i] # "unparsed"

(***************************************************************************)
(* Once signalled the process exits, whatever slow clients, a full queue   *)
(* or workers stuck in long writes do: each Stop is bounded.  (A panic in a *)
(* worker ends it sooner.)                                                 *)
(***************************************************************************)
ShutdownCompletes == (phase = "stop_http") ~> (phase \in {"exited", "crashed"})
=============================================================================
