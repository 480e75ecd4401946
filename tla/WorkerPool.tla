----------------------------- MODULE WorkerPool -----------------------------
(***************************************************************************)
(* The telemetry worker pool, src/internal/worker/pool.go.                 *)
(*                                                                         *)
(* A Go channel of capacity QueueSize holds the items that the OTLP        *)
(* receivers submit; Workers goroutines take items from it, parse and      *)
(* enrich them and write them to the telemetry store.  Stop closes the     *)
(* shutdown channel, the workers drain the queue and exit, and Stop waits  *)
(* for them until its timeout.                                             *)
(*                                                                         *)
(* One Submit call per item: an item stands for one export request.  The   *)
(* payload is abstracted to whether it parses (Malformed) and to the       *)
(* number of transactions its write is made of (Batches): one for traces   *)
(* and logs, one per batch of 50 points of a kind for metrics              *)
(* (src/internal/storage/telemetrystore/duckdb/duckdb.go).  Every timeout  *)
(* may fire at any moment of the wait it bounds.                           *)
(***************************************************************************)
EXTENDS Naturals, Sequences

CONSTANTS Items,      (* the export requests submitted to the pool            *)
          Workers,    (* the worker goroutines                                *)
          QueueSize,  (* capacity of the queue channel                        *)
          Malformed,  (* the items whose bytes do not parse                   *)
          Batches,    (* Batches[i]: transactions that write item i           *)
          NoItem      (* "the worker holds no item"                           *)

ASSUME PoolAssumption ==
  /\ Workers # {}
  /\ QueueSize \in Nat \ {0}
  /\ Malformed \subseteq Items
  /\ Batches \in [Items -> Nat]
  /\ NoItem \notin Items

VARIABLES
  queue,     (* the buffered channel p.queue                                  *)
  call,      (* call[i]: where the Submit call of item i is                   *)
  shutdown,  (* is the channel p.shutdown closed?                             *)
  mode,      (* mode[w]: in which loop worker w is, or exited                 *)
  hands,     (* hands[w]: the item worker w is processing                     *)
  parsed,    (* parsed[w]: has w parsed and enriched the item in its hands?   *)
  outcome,   (* outcome[i]: how the processing of item i ended                *)
  stored,    (* stored[i]: transactions of item i that committed              *)
  stop       (* where the call of Stop is                                     *)

poolVars == <<queue, call, shutdown, mode, hands, parsed, outcome, stored, stop>>

CallStates == {"none", "sending", "early", "late", "refused"}
Outcomes == {"pending", "written", "unparsed", "failed"}

(***************************************************************************)
(* Submit returned nil: before ("early") or after ("late") the shutdown    *)
(* channel was closed.  The code does not tell the two apart; the          *)
(* distinction is a history, read only by the properties.                  *)
(***************************************************************************)
Accepted(i) == call[i] \in {"early", "late"}

InQueue == {queue[k] : k \in 1..Len(queue)}
InHands == {hands[w] : w \in {v \in Workers : hands[v] # NoItem}}

PoolTypeOK ==
  /\ queue \in Seq(Items)
  /\ Len(queue) <= QueueSize
  /\ call \in [Items -> CallStates]
  /\ shutdown \in BOOLEAN
  /\ mode \in [Workers -> {"running", "draining", "exited"}]
  /\ hands \in [Workers -> Items \cup {NoItem}]
  /\ parsed \in [Workers -> BOOLEAN]
  /\ outcome \in [Items -> Outcomes]
  /\ stored \in [Items -> Nat]
  /\ stop \in {"none", "waiting", "drained", "timeout"}

PoolInit ==
  /\ queue = <<>>
  /\ call = [i \in Items |-> "none"]
  /\ shutdown = FALSE
  /\ mode = [w \in Workers |-> "running"]
  /\ hands = [w \in Workers |-> NoItem]
  /\ parsed = [w \in Workers |-> FALSE]
  /\ outcome = [i \in Items |-> "pending"]
  /\ stored = [i \in Items |-> 0]
  /\ stop = "none"

-----------------------------------------------------------------------------
(* Submit *)

\* A caller enters Submit: its select waits on the queue and on the timer.
CallSubmit(i) ==
  /\ call[i] = "none"
  /\ call' = [call EXCEPT ![i] = "sending"]
  /\ UNCHANGED <<queue, shutdown, mode, hands, parsed, outcome, stored, stop>>

\* Faulty: the queue is not bounded.
EnqueueUnbounded(i) ==
  /\ call[i] = "sending"
  /\ queue' = Append(queue, i)
  /\ call' = [call EXCEPT ![i] = IF shutdown THEN "late" ELSE "early"]
  /\ UNCHANGED <<shutdown, mode, hands, parsed, outcome, stored, stop>>

\* The send is chosen.  Nothing looks at p.shutdown, nor at the workers.
Enqueue(i) ==
  /\ call[i] = "sending"
  /\ Len(queue) < QueueSize
  /\ queue' = Append(queue, i)
  /\ call' = [call EXCEPT ![i] = IF shutdown THEN "late" ELSE "early"]
  /\ UNCHANGED <<shutdown, mode, hands, parsed, outcome, stored, stop>>

\* The submit timer is chosen: "queue full, submit timeout".  The runtime may
\* fire it after room appeared, so the guard does not look at the queue.
SubmitTimeout(i) ==
  /\ call[i] = "sending"
  /\ call' = [call EXCEPT ![i] = "refused"]
  /\ UNCHANGED <<queue, shutdown, mode, hands, parsed, outcome, stored, stop>>

-----------------------------------------------------------------------------
(* worker and processItem *)

\* Faulty: the worker looks at the first item and leaves it in the queue.
TakePeeks(w) ==
  /\ mode[w] # "exited"
  /\ hands[w] = NoItem
  /\ queue # <<>>
  /\ hands' = [hands EXCEPT ![w] = Head(queue)]
  /\ parsed' = [parsed EXCEPT ![w] = FALSE]
  /\ UNCHANGED <<queue, call, shutdown, mode, outcome, stored, stop>>

\* Either loop receives an item; in the outer loop the select may choose the
\* queue although shutdown is closed as well.
Take(w) ==
  /\ mode[w] # "exited"
  /\ hands[w] = NoItem
  /\ queue # <<>>
  /\ hands' = [hands EXCEPT ![w] = Head(queue)]
  /\ queue' = Tail(queue)
  /\ parsed' = [parsed EXCEPT ![w] = FALSE]
  /\ UNCHANGED <<call, shutdown, mode, outcome, stored, stop>>

\* The worker is done with its item, whatever came of it.
Release(w, result) ==
  /\ outcome' = [outcome EXCEPT ![hands[w]] = result]
  /\ hands' = [hands EXCEPT ![w] = NoItem]

\* The bytes do not parse: logged, and the item is gone.
ParseFails(w) ==
  /\ hands[w] \in Malformed
  /\ ~parsed[w]
  /\ Release(w, "unparsed")
  /\ UNCHANGED <<queue, call, shutdown, mode, parsed, stored, stop>>

\* Parsing and enrichment, which only fills in fields of the parsed item.
Parse(w) ==
  /\ hands[w] \in Items \ Malformed
  /\ ~parsed[w]
  /\ parsed' = [parsed EXCEPT ![w] = TRUE]
  /\ UNCHANGED <<queue, call, shutdown, mode, hands, outcome, stored, stop>>

\* One transaction of the item's write commits.
WriteBatch(w) ==
  /\ hands[w] # NoItem
  /\ parsed[w]
  /\ stored[hands[w]] < Batches[hands[w]]
  /\ stored' = [stored EXCEPT ![hands[w]] = @ + 1]
  /\ UNCHANGED <<queue, call, shutdown, mode, hands, parsed, outcome, stop>>

\* Faulty: the error of a later transaction is swallowed.
WriteReturnsEarly(w) ==
  /\ hands[w] # NoItem
  /\ parsed[w]
  /\ Release(w, "written")
  /\ UNCHANGED <<queue, call, shutdown, mode, parsed, stored, stop>>

\* The writer returns nil after its last transaction.
WriteReturns(w) ==
  /\ hands[w] # NoItem
  /\ parsed[w]
  /\ stored[hands[w]] = Batches[hands[w]]
  /\ Release(w, "written")
  /\ UNCHANGED <<queue, call, shutdown, mode, parsed, stored, stop>>

\* A transaction fails: the writer returns the error, which is only logged.
\* What earlier transactions of the item committed stays in the store.
WriteFails(w) ==
  /\ hands[w] # NoItem
  /\ parsed[w]
  /\ stored[hands[w]] < Batches[hands[w]]
  /\ Release(w, "failed")
  /\ UNCHANGED <<queue, call, shutdown, mode, parsed, stored, stop>>

\* The outer select chooses the closed shutdown channel.
SeeShutdown(w) ==
  /\ mode[w] = "running"
  /\ hands[w] = NoItem
  /\ shutdown
  /\ mode' = [mode EXCEPT ![w] = "draining"]
  /\ UNCHANGED <<queue, call, shutdown, hands, parsed, outcome, stored, stop>>

\* Faulty: the drain loop has no default case and blocks on the empty queue.
ExitBlocks(w) ==
  /\ mode[w] = "draining"
  /\ hands[w] = NoItem
  /\ queue # <<>>
  /\ mode' = [mode EXCEPT ![w] = "exited"]
  /\ UNCHANGED <<queue, call, shutdown, hands, parsed, outcome, stored, stop>>

\* The drain loop finds the queue empty: its select takes the default case.
Exit(w) ==
  /\ mode[w] = "draining"
  /\ hands[w] = NoItem
  /\ queue = <<>>
  /\ mode' = [mode EXCEPT ![w] = "exited"]
  /\ UNCHANGED <<queue, call, shutdown, hands, parsed, outcome, stored, stop>>

-----------------------------------------------------------------------------
(* Stop *)

\* close(p.shutdown).  A second Stop would panic on the closed channel.
CallStop ==
  /\ stop = "none"
  /\ stop' = "waiting"
  /\ shutdown' = TRUE
  /\ UNCHANGED <<queue, call, mode, hands, parsed, outcome, stored>>

\* Faulty: Stop waits for the first worker only.
StopReturnsFirst ==
  /\ stop = "waiting"
  /\ \E w \in Workers : mode[w] = "exited"
  /\ stop' = "drained"
  /\ UNCHANGED <<queue, call, shutdown, mode, hands, parsed, outcome, stored>>

\* wg.Wait returned: every worker is gone.
StopReturns ==
  /\ stop = "waiting"
  /\ \A w \in Workers : mode[w] = "exited"
  /\ stop' = "drained"
  /\ UNCHANGED <<queue, call, shutdown, mode, hands, parsed, outcome, stored>>

\* The timer of Stop fires first: Stop returns an error, the workers go on.
StopTimeout ==
  /\ stop = "waiting"
  /\ stop' = "timeout"
  /\ UNCHANGED <<queue, call, shutdown, mode, hands, parsed, outcome, stored>>

-----------------------------------------------------------------------------
CallerStep(i) == CallSubmit(i) \/ Enqueue(i) \/ SubmitTimeout(i)

ProcessStep(w) ==
  \/ ParseFails(w)
  \/ Parse(w)
  \/ WriteBatch(w)
  \/ WriteReturns(w)
  \/ WriteFails(w)

WorkerStep(w) == Take(w) \/ ProcessStep(w) \/ SeeShutdown(w) \/ Exit(w)

StopStep == CallStop \/ StopReturns \/ StopTimeout

PoolNext ==
  \/ \E i \in Items : CallerStep(i)
  \/ \E w \in Workers : WorkerStep(w)
  \/ StopStep

PoolSpec == PoolInit /\ [][PoolNext]_poolVars

(***************************************************************************)
(* A goroutine that can run does: each worker goes on, a Submit call in    *)
(* progress ends, by the send or by its timer, and so does Stop.  Nobody   *)
(* is bound to submit or to stop the pool.                                 *)
(***************************************************************************)
PoolFairness ==
  /\ \A w \in Workers : WF_poolVars(WorkerStep(w))
  /\ \A i \in Items : WF_poolVars(Enqueue(i) \/ SubmitTimeout(i))
  /\ WF_poolVars(StopReturns \/ StopTimeout)

FairPoolSpec == PoolSpec /\ PoolFairness

-----------------------------------------------------------------------------
(* Properties *)

(***************************************************************************)
(* Every accepted item is in exactly one place: waiting once in the queue, *)
(* in the hands of one worker, or finished; no other item is anywhere.     *)
(* An acknowledged request is neither lost between two goroutines of the   *)
(* pool nor written twice (Submit, worker, processItem).                   *)
(***************************************************************************)
InOnePlace ==
  /\ \A j, k \in 1..Len(queue) : queue[j] = queue[k] => j = k
  /\ \A v, w \in Workers : hands[v] = hands[w] /\ v # w => hands[v] = NoItem
  /\ InQueue \cap InHands = {}
  /\ \A i \in Items :
       (Accepted(i) /\ outcome[i] = "pending") <=> i \in InQueue \cup InHands

(***************************************************************************)
(* When Stop returns nil, whatever was accepted before Stop was called has *)
(* been processed: the drain loops of the workers leave no such item in    *)
(* the queue, in any interleaving with the submitters that still send.     *)
(***************************************************************************)
GracefulStopLosesNothingEarly ==
  stop = "drained" => \A i \in Items : call[i] = "early" => outcome[i] # "pending"

(***************************************************************************)
(* As soon as ONE worker has left its drain loop, no item accepted before  *)
(* the shutdown is waiting: the others need only finish what they hold.    *)
(***************************************************************************)
ExitMeansDrained ==
  \A w \in Workers : mode[w] = "exited" => \A i \in InQueue : call[i] = "late"

(***************************************************************************)
(* The store holds all the transactions of a written item, none of an item *)
(* that did not parse or was not accepted, and of a failed one a proper    *)
(* part: a failed item is never stored as a whole.                         *)
(***************************************************************************)
StoreMatchesOutcome ==
  \A i \in Items :
    /\ outcome[i] = "written" => stored[i] = Batches[i]
    /\ outcome[i] = "failed" => stored[i] < Batches[i]
    /\ outcome[i] = "unparsed" \/ ~Accepted(i) \/ i \in InQueue => stored[i] = 0

(***************************************************************************)
(* Once Stop is called it returns, and every worker exits once the callers *)
(* stop sending: here, because the items are finitely many.                *)
(***************************************************************************)
WorkersExit ==
  shutdown ~> (stop # "waiting" /\ \A w \in Workers : mode[w] = "exited")

(***************************************************************************)
(* The pool keeps the contract of module PoolContract: Submit, the workers *)
(* and Stop together do nothing the contract does not allow, and process   *)
(* what it says they must (PoolSpec implements SafeSpec, FairPoolSpec the  *)
(* contract with its fairness).                                            *)
(***************************************************************************)
Fate(i) ==
  IF outcome[i] # "pending" THEN "processed"
  ELSE IF call[i] = "early" THEN "held"
  ELSE IF call[i] = "late" THEN "stray"
  ELSE IF call[i] = "refused" THEN "refused"
  ELSE "caller"

Contract == INSTANCE PoolContract WITH
  fate <- [i \in Items |-> Fate(i)],
  closed <- shutdown,
  report <- IF stop \in {"none", "waiting"} THEN "none" ELSE stop

KeepsContract == Contract!Spec
KeepsContractSafely == Contract!SafeSpec

(***************************************************************************)
(* Why the above hold: the invariant that is inductive on its own.  The    *)
(* channel and the calls agree, a worker leaves its outer loop only after  *)
(* the shutdown and exits with empty hands, and what is in a worker's      *)
(* hands is stored exactly as far as its transactions have committed.      *)
(***************************************************************************)
WorkersLeaveInOrder ==
  /\ shutdown <=> stop # "none"
  /\ \A w \in Workers :
       /\ mode[w] # "running" => shutdown
       /\ mode[w] = "exited" => hands[w] = NoItem
  /\ stop = "drained" => \A w \in Workers : mode[w] = "exited"
  /\ \A i \in Items : call[i] = "late" => shutdown
  /\ \A i \in Items : ~Accepted(i) => outcome[i] = "pending"

StoreFollowsHands ==
  \A w \in Workers : hands[w] # NoItem =>
    /\ stored[hands[w]] <= Batches[hands[w]]
    /\ ~parsed[w] => stored[hands[w]] = 0
    /\ parsed[w] => hands[w] \notin Malformed

PoolInv ==
  /\ PoolTypeOK
  /\ InOnePlace
  /\ ExitMeansDrained
  /\ StoreMatchesOutcome
  /\ WorkersLeaveInOrder
  /\ StoreFollowsHands
=============================================================================
