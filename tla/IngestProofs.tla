---------------------------- MODULE IngestProofs ----------------------------
(***************************************************************************)
(* Proofs about the worker pool and about the ingest path around it, for   *)
(* any items, requests and workers, any capacity and any number of         *)
(* transactions per item.                                                  *)
(*                                                                         *)
(* Of the pool alone: each part of PoolInv has a lemma saying that a step  *)
(* preserves it.  Of the path: receivers and main use the pool only as     *)
(* module WorkerPool allows, so that what is proved of the pool holds      *)
(* there; the parts stop in their order; replies are true; and a clean     *)
(* shutdown keeps what was acknowledged.                                   *)
(***************************************************************************)
EXTENDS Ingest, SequenceTheorems, TLAPS

(***************************************************************************)
(* What the two operations of the channel do to its contents: a send adds  *)
(* the item at the end, a receive removes the first.                       *)
(***************************************************************************)
LEMMA AppendFacts ==
  ASSUME NEW q \in Seq(Items), NEW i \in Items
  PROVE  /\ Append(q, i) \in Seq(Items)
         /\ Len(Append(q, i)) = Len(q) + 1
         /\ \A k \in 1..Len(q) : Append(q, i)[k] = q[k]
         /\ Append(q, i)[Len(q) + 1] = i
OBVIOUS

LEMMA TailFacts ==
  ASSUME NEW q \in Seq(Items), q # <<>>
  PROVE  /\ Head(q) \in Items
         /\ Head(q) = q[1]
         /\ Len(q) \in Nat \ {0}
         /\ Tail(q) \in Seq(Items)
         /\ Len(Tail(q)) = Len(q) - 1
         /\ \A k \in 1..Len(Tail(q)) : Tail(q)[k] = q[k + 1]
OBVIOUS

-----------------------------------------------------------------------------
LEMMA InitInv == PoolInit => PoolInv
<1> SUFFICES ASSUME PoolInit PROVE PoolInv
  OBVIOUS
<1> USE PoolAssumption DEF PoolInit
<1>1. PoolTypeOK
  <2>1. queue \in Seq(Items) /\ Len(queue) <= QueueSize
    <3>1. Len(queue) = 0  OBVIOUS
    <3>2. QueueSize >= 0  OBVIOUS
    <3> QED  BY <3>1, <3>2
  <2>2. stored \in [Items -> Nat]  OBVIOUS
  <2> QED  BY <2>1, <2>2 DEF PoolTypeOK, CallStates, Outcomes
<1>2. InQueue = {} /\ InHands = {}  BY DEF InQueue, InHands
<1>3. \A i \in Items : ~Accepted(i)  BY DEF Accepted
<1>4. InOnePlace  BY <1>2, <1>3 DEF InOnePlace
<1>5. ExitMeansDrained  BY DEF ExitMeansDrained
<1>6. StoreMatchesOutcome  BY DEF StoreMatchesOutcome
<1>7. WorkersLeaveInOrder  BY DEF WorkersLeaveInOrder
<1>8. StoreFollowsHands  BY DEF StoreFollowsHands
<1> QED  BY <1>1, <1>4, <1>5, <1>6, <1>7, <1>8 DEF PoolInv

(***************************************************************************)
(* Type correctness: PoolTypeOK is inductive on its own.                   *)
(***************************************************************************)
LEMMA TypeStep == PoolTypeOK /\ [PoolNext]_poolVars => PoolTypeOK'
<1> SUFFICES ASSUME PoolTypeOK, [PoolNext]_poolVars PROVE PoolTypeOK'
  OBVIOUS
<1> USE PoolAssumption DEF PoolTypeOK, CallStates, Outcomes
<1>1. ASSUME NEW i \in Items, CallerStep(i) PROVE PoolTypeOK'
  <2>1. CASE CallSubmit(i)  BY <2>1 DEF CallSubmit
  <2>2. CASE Enqueue(i)  BY <2>2, AppendFacts DEF Enqueue
  <2>3. CASE SubmitTimeout(i)  BY <2>3 DEF SubmitTimeout
  <2> QED  BY <1>1, <2>1, <2>2, <2>3 DEF CallerStep
<1>2. ASSUME NEW w \in Workers, WorkerStep(w) PROVE PoolTypeOK'
  <2>1. CASE Take(w)  BY <2>1, TailFacts DEF Take
  <2>2. CASE ParseFails(w)  BY <2>2 DEF ParseFails, Release
  <2>3. CASE Parse(w)  BY <2>3 DEF Parse
  <2>4. CASE WriteBatch(w)  BY <2>4 DEF WriteBatch
  <2>5. CASE WriteReturns(w)  BY <2>5 DEF WriteReturns, Release
  <2>6. CASE WriteFails(w)  BY <2>6 DEF WriteFails, Release
  <2>7. CASE SeeShutdown(w)  BY <2>7 DEF SeeShutdown
  <2>8. CASE Exit(w)  BY <2>8 DEF Exit
  <2> QED
    BY <1>2, <2>1, <2>2, <2>3, <2>4, <2>5, <2>6, <2>7, <2>8
    DEF WorkerStep, ProcessStep
<1>3. CASE StopStep
  BY <1>3 DEF StopStep, CallStop, StopReturns, StopTimeout
<1>4. CASE UNCHANGED poolVars
  BY <1>4 DEF poolVars
<1> QED  BY <1>1, <1>2, <1>3, <1>4 DEF PoolNext

(***************************************************************************)
(* Type correctness of the worker pool (pool.go), for every value of the   *)
(* constants.                                                              *)
(***************************************************************************)
THEOREM PoolTypeCorrect == PoolSpec => []PoolTypeOK
<1>1. PoolInit => PoolTypeOK
  BY InitInv DEF PoolInv
<1> QED  BY <1>1, TypeStep, PTL DEF PoolSpec
-----------------------------------------------------------------------------
(***************************************************************************)
(* Where the items are, after each of the steps that move one.             *)
(***************************************************************************)
LEMMA EnqueueMoves ==
  ASSUME PoolTypeOK, NEW i \in Items, Enqueue(i)
  PROVE  /\ InQueue' = InQueue \cup {i}
         /\ InHands' = InHands
<1>1. /\ queue \in Seq(Items)
      /\ queue' = Append(queue, i)
  BY DEF PoolTypeOK, Enqueue
<1>2. /\ Len(queue) \in Nat
      /\ Len(queue') = Len(queue) + 1
      /\ \A k \in 1..Len(queue) : queue'[k] = queue[k]
      /\ queue'[Len(queue) + 1] = i
  BY <1>1, AppendFacts
<1>3. InQueue' = InQueue \cup {i}
  <2>1. ASSUME NEW x \in InQueue' PROVE x \in InQueue \cup {i}
    <3>1. PICK k \in 1..Len(queue') : x = queue'[k]  BY <2>1 DEF InQueue
    <3>2. CASE k \in 1..Len(queue)  BY <3>1, <3>2, <1>2 DEF InQueue
    <3>3. CASE k = Len(queue) + 1  BY <3>1, <3>3, <1>2
    <3> QED  BY <3>2, <3>3, <1>2
  <2>2. ASSUME NEW x \in InQueue \cup {i} PROVE x \in InQueue'
    <3>1. CASE x = i
      <4>1. Len(queue) + 1 \in 1..Len(queue')  BY <1>2
      <4> QED  BY <3>1, <4>1, <1>2 DEF InQueue
    <3>2. CASE x \in InQueue
      <4>1. PICK k \in 1..Len(queue) : x = queue[k]  BY <3>2 DEF InQueue
      <4>2. k \in 1..Len(queue')  BY <1>2
      <4> QED  BY <4>1, <4>2, <1>2 DEF InQueue
    <3> QED  BY <2>2, <3>1, <3>2
  <2> QED  BY <2>1, <2>2
<1>4. InHands' = InHands  BY DEF Enqueue, InHands
<1> QED  BY <1>3, <1>4

LEMMA TakeMoves ==
  ASSUME PoolInv, NEW w \in Workers, Take(w)
  PROVE  /\ Head(queue) \in InQueue
         /\ InQueue' = InQueue \ {Head(queue)}
         /\ InHands' = InHands \cup {Head(queue)}
<1> DEFINE h == Head(queue)
<1>1. /\ queue \in Seq(Items)
      /\ queue # <<>>
      /\ queue' = Tail(queue)
      /\ hands' = [hands EXCEPT ![w] = h]
      /\ hands \in [Workers -> Items \cup {NoItem}]
      /\ hands[w] = NoItem
  BY DEF PoolInv, PoolTypeOK, Take
<1>2. /\ h \in Items
      /\ h = queue[1]
      /\ Len(queue) \in Nat \ {0}
      /\ Len(queue') = Len(queue) - 1
      /\ \A k \in 1..Len(queue') : queue'[k] = queue[k + 1]
  BY <1>1, TailFacts
<1>3. \A j, k \in 1..Len(queue) : queue[j] = queue[k] => j = k
  BY DEF PoolInv, InOnePlace
<1>4. h \in InQueue
  <2>1. 1 \in 1..Len(queue)  BY <1>2
  <2> QED  BY <1>2, <2>1 DEF InQueue
<1>5. ASSUME NEW x \in InQueue' PROVE x \in InQueue \ {h}
  <2>1. PICK k \in 1..Len(queue') : x = queue'[k]  BY <1>5 DEF InQueue
  <2>2. /\ k + 1 \in 1..Len(queue)
        /\ 1 \in 1..Len(queue)
        /\ k + 1 # 1
        /\ x = queue[k + 1]
    BY <2>1, <1>2
  <2>3. x # h  BY <2>2, <1>2, <1>3
  <2>4. x \in InQueue  BY <2>2 DEF InQueue
  <2> QED  BY <2>3, <2>4
<1>6. ASSUME NEW x \in InQueue \ {h} PROVE x \in InQueue'
  <2>1. PICK k \in 1..Len(queue) : x = queue[k]  BY <1>6 DEF InQueue
  <2>2. k # 1  BY <2>1, <1>2, <1>6
  <2>3. /\ k - 1 \in 1..Len(queue')
        /\ (k - 1) + 1 = k
    BY <2>2, <1>2
  <2>4. queue'[k - 1] = x  BY <2>1, <2>3, <1>2
  <2> QED  BY <2>3, <2>4 DEF InQueue
<1>7. InQueue' = InQueue \ {h}  BY <1>5, <1>6
<1>8. InHands' = InHands \cup {h}
  <2>1. \A v \in Workers : hands'[v] = IF v = w THEN h ELSE hands[v]
    BY <1>1
  <2>2. h # NoItem  BY <1>2, PoolAssumption
  <2> QED  BY <2>1, <2>2, <1>1 DEF InHands
<1> QED  BY <1>4, <1>7, <1>8

LEMMA ReleaseMoves ==
  ASSUME PoolInv, NEW w \in Workers, NEW result, hands[w] # NoItem, Release(w, result)
  PROVE  /\ hands[w] \in InHands
         /\ hands[w] \in Items
         /\ InHands' = InHands \ {hands[w]}
<1>1. /\ hands' = [hands EXCEPT ![w] = NoItem]
      /\ hands \in [Workers -> Items \cup {NoItem}]
  BY DEF Release, PoolInv, PoolTypeOK
<1>2. \A v \in Workers : hands'[v] = IF v = w THEN NoItem ELSE hands[v]
  BY <1>1
<1>3. \A v \in Workers : hands[v] = hands[w] /\ v # w => hands[v] = NoItem
  BY DEF PoolInv, InOnePlace
<1> QED  BY <1>1, <1>2, <1>3 DEF InHands
-----------------------------------------------------------------------------
(***************************************************************************)
(* The conjuncts of PoolInv, one step at a time.                           *)
(***************************************************************************)
LEMMA OnePlaceStep == PoolInv /\ [PoolNext]_poolVars => InOnePlace'
<1> SUFFICES ASSUME PoolInv, [PoolNext]_poolVars PROVE InOnePlace'
  OBVIOUS
<1> USE PoolAssumption
<1>0. PoolTypeOK /\ InOnePlace /\ WorkersLeaveInOrder /\ PoolTypeOK'
  BY TypeStep DEF PoolInv
<1>1. ASSUME NEW i \in Items, CallerStep(i) PROVE InOnePlace'
  <2>1. CASE CallSubmit(i)
    <3>1. \A j \in Items : Accepted(j)' <=> Accepted(j)
      BY <2>1, <1>0 DEF CallSubmit, Accepted, PoolTypeOK
    <3>2. /\ UNCHANGED <<queue, hands, outcome>>
          /\ InQueue' = InQueue
          /\ InHands' = InHands
      BY <2>1 DEF CallSubmit, InQueue, InHands
    <3> QED  BY <3>1, <3>2, <1>0 DEF InOnePlace
  <2>2. CASE Enqueue(i)
    <3>1. /\ InQueue' = InQueue \cup {i}
          /\ InHands' = InHands
      BY <2>2, <1>0, EnqueueMoves
    <3>2. /\ ~Accepted(i)
          /\ outcome[i] = "pending"
          /\ i \notin InQueue \cup InHands
      BY <2>2, <1>0 DEF Enqueue, Accepted, InOnePlace, WorkersLeaveInOrder
    <3>3. \A j \in Items : Accepted(j)' <=> Accepted(j) \/ j = i
      BY <2>2, <1>0 DEF Enqueue, Accepted, PoolTypeOK
    <3>4. \A j, k \in 1..Len(queue') : queue'[j] = queue'[k] => j = k
      <4>1. /\ Len(queue) \in Nat
            /\ Len(queue') = Len(queue) + 1
            /\ \A k \in 1..Len(queue) : queue'[k] = queue[k]
            /\ queue'[Len(queue) + 1] = i
        BY <2>2, <1>0, AppendFacts DEF Enqueue, PoolTypeOK
      <4>2. \A k \in 1..Len(queue) : queue[k] # i
        BY <3>2 DEF InQueue
      <4>3. \A j, k \in 1..Len(queue) : queue[j] = queue[k] => j = k
        BY <1>0 DEF InOnePlace
      <4> QED  BY <4>1, <4>2, <4>3
    <3>5. UNCHANGED <<hands, outcome>>  BY <2>2 DEF Enqueue
    <3>6. \A j \in Items :
            (Accepted(j)' /\ outcome'[j] = "pending") <=> j \in InQueue' \cup InHands'
      BY <3>1, <3>2, <3>3, <3>5, <1>0 DEF InOnePlace
    <3>7. InQueue' \cap InHands' = {}  BY <3>1, <3>2, <1>0 DEF InOnePlace
    <3>8. \A v, w \in Workers : hands'[v] = hands'[w] /\ v # w => hands'[v] = NoItem
      BY <3>5, <1>0 DEF InOnePlace
    <3> QED  BY <3>4, <3>6, <3>7, <3>8 DEF InOnePlace
  <2>3. CASE SubmitTimeout(i)
    <3>1. \A j \in Items : Accepted(j)' <=> Accepted(j)
      BY <2>3, <1>0 DEF SubmitTimeout, Accepted, PoolTypeOK
    <3>2. /\ UNCHANGED <<queue, hands, outcome>>
          /\ InQueue' = InQueue
          /\ InHands' = InHands
      BY <2>3 DEF SubmitTimeout, InQueue, InHands
    <3> QED  BY <3>1, <3>2, <1>0 DEF InOnePlace
  <2> QED  BY <1>1, <2>1, <2>2, <2>3 DEF CallerStep
<1>2. ASSUME NEW w \in Workers, WorkerStep(w) PROVE InOnePlace'
  <2>1. CASE Take(w)
    <3> DEFINE h == Head(queue)
    <3>1. /\ h \in InQueue
          /\ InQueue' = InQueue \ {h}
          /\ InHands' = InHands \cup {h}
      BY <2>1, TakeMoves
    <3>2. \A j, k \in 1..Len(queue') : queue'[j] = queue'[k] => j = k
      <4>1. /\ Len(queue) \in Nat \ {0}
            /\ Len(queue') = Len(queue) - 1
            /\ \A k \in 1..Len(queue') : queue'[k] = queue[k + 1]
        BY <2>1, <1>0, TailFacts DEF Take, PoolTypeOK
      <4>2. \A j, k \in 1..Len(queue) : queue[j] = queue[k] => j = k
        BY <1>0 DEF InOnePlace
      <4> QED  BY <4>1, <4>2
    <3>3. \A v \in Workers : hands'[v] = IF v = w THEN h ELSE hands[v]
      BY <2>1, <1>0 DEF Take, PoolTypeOK
    <3>4. \A v \in Workers : hands[v] # h
      <4>1. h # NoItem  BY <2>1, <1>0, TailFacts DEF Take, PoolTypeOK
      <4>2. h \notin InHands  BY <3>1, <1>0 DEF InOnePlace
      <4> QED  BY <4>1, <4>2 DEF InHands
    <3>5. UNCHANGED <<call, outcome>>  BY <2>1 DEF Take
    <3>6. \A j \in Items :
            (Accepted(j)' /\ outcome'[j] = "pending") <=> j \in InQueue' \cup InHands'
      BY <3>1, <3>5, <1>0 DEF InOnePlace, Accepted
    <3>7. InQueue' \cap InHands' = {}  BY <3>1, <1>0 DEF InOnePlace
    <3>8. \A v, u \in Workers : hands'[v] = hands'[u] /\ v # u => hands'[v] = NoItem
      BY <3>3, <3>4, <1>0 DEF InOnePlace
    <3> QED  BY <3>2, <3>6, <3>7, <3>8 DEF InOnePlace
  <2>2. ASSUME NEW result \in Outcomes \ {"pending"}, Release(w, result),
               hands[w] # NoItem, UNCHANGED <<queue, call>>
        PROVE InOnePlace'
    <3>1. /\ hands[w] \in InHands
          /\ hands[w] \in Items
          /\ InHands' = InHands \ {hands[w]}
      BY <2>2, ReleaseMoves
    <3>2. InQueue' = InQueue  BY <2>2 DEF InQueue
    <3>3. \A v \in Workers : hands'[v] = IF v = w THEN NoItem ELSE hands[v]
      BY <2>2, <1>0 DEF Release, PoolTypeOK
    <3>4. \A i \in Items : outcome'[i] = IF i = hands[w] THEN result ELSE outcome[i]
      BY <2>2, <3>1, <1>0 DEF Release, PoolTypeOK
    <3>5. hands[w] \notin InQueue  BY <3>1, <1>0 DEF InOnePlace
    <3>6. \A i \in Items : Accepted(i)' <=> Accepted(i)
      BY <2>2 DEF Accepted
    <3>7. \A i \in Items :
            (Accepted(i)' /\ outcome'[i] = "pending") <=> i \in InQueue' \cup InHands'
      BY <3>1, <3>2, <3>4, <3>5, <3>6, <2>2, <1>0 DEF InOnePlace
    <3> QED
      BY <3>1, <3>2, <3>3, <3>7, <2>2, <1>0 DEF InOnePlace
  <2>3. CASE ParseFails(w)
    BY <2>2, <2>3 DEF ParseFails, Outcomes
  <2>4. CASE WriteReturns(w)
    BY <2>2, <2>4 DEF WriteReturns, Outcomes
  <2>5. CASE WriteFails(w)
    BY <2>2, <2>5 DEF WriteFails, Outcomes
  <2>6. CASE Parse(w) \/ WriteBatch(w) \/ SeeShutdown(w) \/ Exit(w)
    BY <2>6, <1>0
    DEF Parse, WriteBatch, SeeShutdown, Exit, InOnePlace, InQueue, InHands, Accepted
  <2> QED
    BY <1>2, <2>1, <2>3, <2>4, <2>5, <2>6 DEF WorkerStep, ProcessStep
<1>3. CASE StopStep
  BY <1>3, <1>0
  DEF StopStep, CallStop, StopReturns, StopTimeout, InOnePlace, InQueue, InHands, Accepted
<1>4. CASE UNCHANGED poolVars
  BY <1>4, <1>0 DEF poolVars, InOnePlace, InQueue, InHands, Accepted
<1> QED  BY <1>1, <1>2, <1>3, <1>4 DEF PoolNext
LEMMA DrainedStep == PoolInv /\ [PoolNext]_poolVars => ExitMeansDrained'
<1> SUFFICES ASSUME PoolInv, [PoolNext]_poolVars PROVE ExitMeansDrained'
  OBVIOUS
<1>0. PoolTypeOK /\ ExitMeansDrained /\ WorkersLeaveInOrder  BY DEF PoolInv
<1>1. ASSUME NEW i \in Items, CallerStep(i) PROVE ExitMeansDrained'
  <2>1. CASE Enqueue(i)
    <3>1. InQueue' = InQueue \cup {i}  BY <2>1, <1>0, EnqueueMoves
    <3>2. \A w \in Workers : mode[w] = "exited" => call'[i] = "late"
      BY <2>1, <1>0 DEF Enqueue, WorkersLeaveInOrder, PoolTypeOK
    <3>3. \A j \in Items : j # i => call'[j] = call[j]
      BY <2>1, <1>0 DEF Enqueue, PoolTypeOK
    <3>4. InQueue \subseteq Items  BY <1>0 DEF InQueue, PoolTypeOK
    <3>5. mode' = mode  BY <2>1 DEF Enqueue
    <3> QED  BY <3>1, <3>2, <3>3, <3>4, <3>5, <1>0 DEF ExitMeansDrained
  <2>2. CASE CallSubmit(i) \/ SubmitTimeout(i)
    <3>1. \A j \in Items : call[j] = "late" => call'[j] = "late"
      BY <2>2, <1>0 DEF CallSubmit, SubmitTimeout, PoolTypeOK
    <3>2. InQueue \subseteq Items  BY <1>0 DEF InQueue, PoolTypeOK
    <3>3. /\ mode' = mode
          /\ InQueue' = InQueue
      BY <2>2 DEF CallSubmit, SubmitTimeout, InQueue
    <3> QED  BY <3>1, <3>2, <3>3, <1>0 DEF ExitMeansDrained
  <2> QED  BY <1>1, <2>1, <2>2 DEF CallerStep
<1>2. ASSUME NEW w \in Workers, WorkerStep(w) PROVE ExitMeansDrained'
  <2>1. CASE Take(w)
    <3>1. InQueue' \subseteq InQueue  BY <2>1, TakeMoves
    <3> QED  BY <2>1, <3>1, <1>0 DEF Take, ExitMeansDrained
  <2>2. CASE ProcessStep(w)
    BY <2>2, <1>0
    DEF ProcessStep, ParseFails, Parse, WriteBatch, WriteReturns, WriteFails,
        ExitMeansDrained, InQueue
  <2>3. CASE SeeShutdown(w)
    BY <2>3, <1>0 DEF SeeShutdown, ExitMeansDrained, InQueue, PoolTypeOK
  <2>4. CASE Exit(w)
    <3>1. InQueue' = {}  BY <2>4 DEF Exit, InQueue
    <3> QED  BY <3>1 DEF ExitMeansDrained
  <2> QED  BY <1>2, <2>1, <2>2, <2>3, <2>4 DEF WorkerStep
<1>3. CASE StopStep \/ UNCHANGED poolVars
  BY <1>3, <1>0
  DEF StopStep, CallStop, StopReturns, StopTimeout, poolVars, ExitMeansDrained, InQueue
<1> QED  BY <1>1, <1>2, <1>3 DEF PoolNext

LEMMA LeaveStep == PoolInv /\ [PoolNext]_poolVars => WorkersLeaveInOrder'
<1> SUFFICES ASSUME PoolInv, [PoolNext]_poolVars PROVE WorkersLeaveInOrder'
  OBVIOUS
<1>0. PoolTypeOK /\ WorkersLeaveInOrder /\ InOnePlace  BY DEF PoolInv
<1> USE DEF WorkersLeaveInOrder, PoolTypeOK, Accepted
<1>1. ASSUME NEW i \in Items, CallerStep(i) PROVE WorkersLeaveInOrder'
  BY <1>1, <1>0 DEF CallerStep, CallSubmit, Enqueue, SubmitTimeout
<1>2. ASSUME NEW w \in Workers, WorkerStep(w) PROVE WorkersLeaveInOrder'
  <2>1. CASE Take(w)  BY <2>1, <1>0 DEF Take
  <2>2. ASSUME NEW result \in Outcomes, Release(w, result), hands[w] # NoItem,
               UNCHANGED <<queue, call, shutdown, mode, parsed, stored, stop>>
        PROVE WorkersLeaveInOrder'
    <3>1. hands[w] \in InHands  BY <2>2 DEF InHands
    <3>2. Accepted(hands[w])  BY <2>2, <3>1, <1>0 DEF InOnePlace
    <3> QED  BY <2>2, <3>2, <1>0 DEF Release
  <2>3. CASE ParseFails(w) \/ WriteReturns(w) \/ WriteFails(w)
    BY <2>2, <2>3, PoolAssumption DEF ParseFails, WriteReturns, WriteFails, Outcomes
  <2>4. CASE Parse(w) \/ WriteBatch(w)  BY <2>4, <1>0 DEF Parse, WriteBatch
  <2>5. CASE SeeShutdown(w)  BY <2>5, <1>0 DEF SeeShutdown
  <2>6. CASE Exit(w)  BY <2>6, <1>0 DEF Exit
  <2> QED
    BY <1>2, <2>1, <2>3, <2>4, <2>5, <2>6 DEF WorkerStep, ProcessStep
<1>3. CASE StopStep
  BY <1>3, <1>0 DEF StopStep, CallStop, StopReturns, StopTimeout
<1>4. CASE UNCHANGED poolVars
  BY <1>4, <1>0 DEF poolVars
<1> QED  BY <1>1, <1>2, <1>3, <1>4 DEF PoolNext
LEMMA StoreStep ==
  PoolInv /\ [PoolNext]_poolVars => StoreMatchesOutcome' /\ StoreFollowsHands'
<1> SUFFICES ASSUME PoolInv, [PoolNext]_poolVars
             PROVE  StoreMatchesOutcome' /\ StoreFollowsHands'
  OBVIOUS
<1>0. /\ PoolTypeOK
      /\ InOnePlace
      /\ StoreMatchesOutcome
      /\ StoreFollowsHands
      /\ InQueue \subseteq Items
  BY DEF PoolInv, PoolTypeOK, InQueue
<1>a. ASSUME NEW w \in Workers, hands[w] # NoItem
      PROVE  /\ hands[w] \in Items \ InQueue
             /\ Accepted(hands[w])
             /\ outcome[hands[w]] = "pending"
             /\ \A v \in Workers : hands[v] = hands[w] => v = w
  <2>1. hands[w] \in InHands  BY <1>a DEF InHands
  <2>2. hands[w] \in Items  BY <1>a, <1>0 DEF PoolTypeOK
  <2> QED  BY <1>a, <2>1, <2>2, <1>0 DEF InOnePlace
<1> USE PoolAssumption
<1>1. ASSUME NEW i \in Items, CallerStep(i)
      PROVE StoreMatchesOutcome' /\ StoreFollowsHands'
  <2>1. /\ UNCHANGED <<hands, parsed, outcome, stored>>
        /\ \A j \in Items : Accepted(j) => Accepted(j)'
    BY <1>1, <1>0
    DEF CallerStep, CallSubmit, Enqueue, SubmitTimeout, Accepted, PoolTypeOK
  <2>2. InQueue' \subseteq InQueue \cup {i}
    <3>1. CASE Enqueue(i)  BY <3>1, <1>0, EnqueueMoves
    <3>2. CASE CallSubmit(i) \/ SubmitTimeout(i)
      BY <3>2 DEF CallSubmit, SubmitTimeout, InQueue
    <3> QED  BY <1>1, <3>1, <3>2 DEF CallerStep
  <2>3. stored[i] = 0
    BY <1>1, <1>0
    DEF CallerStep, CallSubmit, Enqueue, SubmitTimeout, Accepted, StoreMatchesOutcome
  <2>4. StoreMatchesOutcome'
    BY <2>1, <2>2, <2>3, <1>0 DEF StoreMatchesOutcome
  <2>5. StoreFollowsHands'
    BY <2>1, <1>0 DEF StoreFollowsHands
  <2> QED  BY <2>4, <2>5
<1>2. ASSUME NEW w \in Workers, WorkerStep(w)
      PROVE StoreMatchesOutcome' /\ StoreFollowsHands'
  <2>1. CASE Take(w)
    <3>1. /\ Head(queue) \in InQueue
          /\ InQueue' \subseteq InQueue
      BY <2>1, TakeMoves
    <3>2. /\ UNCHANGED <<call, outcome, stored>>
          /\ \A v \in Workers : hands'[v] = IF v = w THEN Head(queue) ELSE hands[v]
          /\ \A v \in Workers : parsed'[v] = IF v = w THEN FALSE ELSE parsed[v]
      BY <2>1, <1>0 DEF Take, PoolTypeOK
    <3>3. StoreMatchesOutcome'
      BY <3>1, <3>2, <1>0 DEF StoreMatchesOutcome, Accepted
    <3>4. stored[Head(queue)] = 0 /\ Batches[Head(queue)] \in Nat
      BY <3>1, <1>0 DEF StoreMatchesOutcome
    <3>5. ASSUME NEW v \in Workers, hands'[v] # NoItem
          PROVE  /\ stored'[hands'[v]] <= Batches[hands'[v]]
                 /\ ~parsed'[v] => stored'[hands'[v]] = 0
                 /\ parsed'[v] => hands'[v] \notin Malformed
      <4>1. CASE v = w
        <5>1. hands'[v] = Head(queue) /\ parsed'[v] = FALSE
          BY <4>1, <3>2
        <5> QED  BY <5>1, <3>2, <3>4
      <4>2. CASE v # w
        BY <4>2, <3>2, <3>5, <1>0 DEF StoreFollowsHands
      <4> QED  BY <4>1, <4>2
    <3>6. StoreFollowsHands'  BY <3>5 DEF StoreFollowsHands
    <3> QED  BY <3>3, <3>6
  <2>2. ASSUME NEW result \in Outcomes, Release(w, result), hands[w] # NoItem,
               UNCHANGED <<queue, call, parsed, stored>>,
               result = "unparsed" => ~parsed[w],
               result = "written" => stored[hands[w]] = Batches[hands[w]],
               result = "failed" => stored[hands[w]] < Batches[hands[w]]
        PROVE StoreMatchesOutcome' /\ StoreFollowsHands'
    <3>1. /\ hands[w] \in Items
          /\ \A v \in Workers : hands'[v] = IF v = w THEN NoItem ELSE hands[v]
          /\ \A i \in Items : outcome'[i] = IF i = hands[w] THEN result ELSE outcome[i]
      BY <2>2, <1>a, <1>0 DEF Release, PoolTypeOK
    <3>2. /\ InQueue' = InQueue
          /\ \A i \in Items : Accepted(i)' <=> Accepted(i)
      BY <2>2 DEF InQueue, Accepted
    <3>3. ~parsed[w] => stored[hands[w]] = 0
      BY <2>2, <1>0 DEF StoreFollowsHands
    <3>4. StoreMatchesOutcome'
      BY <2>2, <3>1, <3>2, <3>3, <1>0 DEF StoreMatchesOutcome
    <3>5. StoreFollowsHands'
      BY <2>2, <3>1, <1>0 DEF StoreFollowsHands
    <3> QED  BY <3>4, <3>5
  <2>3. CASE ParseFails(w)
    BY <2>2, <2>3 DEF ParseFails, Outcomes
  <2>4. CASE WriteReturns(w)
    BY <2>2, <2>4 DEF WriteReturns, Outcomes
  <2>5. CASE WriteFails(w)
    BY <2>2, <2>5 DEF WriteFails, Outcomes
  <2>6. CASE Parse(w)
    <3>1. /\ UNCHANGED <<queue, call, hands, outcome, stored>>
          /\ \A v \in Workers : parsed'[v] = IF v = w THEN TRUE ELSE parsed[v]
          /\ hands[w] \notin Malformed
      BY <2>6, <1>0 DEF Parse, PoolTypeOK
    <3>2. StoreMatchesOutcome'
      BY <3>1, <1>0 DEF StoreMatchesOutcome, Accepted, InQueue
    <3>3. StoreFollowsHands'  BY <3>1, <1>0 DEF StoreFollowsHands
    <3> QED  BY <3>2, <3>3
  <2>7. CASE WriteBatch(w)
    <3>1. /\ UNCHANGED <<queue, call, hands, outcome, parsed>>
          /\ hands[w] # NoItem
          /\ parsed[w]
          /\ hands[w] \in Items
          /\ stored[hands[w]] < Batches[hands[w]]
          /\ \A i \in Items :
                stored'[i] = IF i = hands[w] THEN stored[i] + 1 ELSE stored[i]
      BY <2>7, <1>0, <1>a DEF WriteBatch, PoolTypeOK
    <3>2. StoreMatchesOutcome'
      BY <3>1, <1>0, <1>a DEF StoreMatchesOutcome, Accepted, InQueue
    <3>3. \A v \in Workers : hands[v] # NoItem => hands[v] \in Items
      BY <1>a
    <3>4. stored[hands[w]] \in Nat /\ Batches[hands[w]] \in Nat
      BY <3>1, <1>0 DEF PoolTypeOK
    <3>5. ASSUME NEW v \in Workers, hands[v] # NoItem
          PROVE  /\ stored'[hands[v]] <= Batches[hands[v]]
                 /\ ~parsed[v] => stored'[hands[v]] = 0
                 /\ parsed[v] => hands[v] \notin Malformed
      <4>1. CASE v = w
        BY <4>1, <3>1, <3>4, <1>0 DEF StoreFollowsHands
      <4>2. CASE v # w
        <5>1. hands[v] \in Items /\ hands[v] # hands[w]
          BY <4>2, <3>1, <3>3, <3>5, <1>a
        <5> QED  BY <5>1, <3>1, <3>5, <1>0 DEF StoreFollowsHands
      <4> QED  BY <4>1, <4>2
    <3>6. StoreFollowsHands'
      BY <3>1, <3>5 DEF StoreFollowsHands
    <3> QED  BY <3>2, <3>6
  <2>8. CASE SeeShutdown(w) \/ Exit(w)
    BY <2>8, <1>0
    DEF SeeShutdown, Exit, StoreMatchesOutcome, StoreFollowsHands, InQueue, Accepted
  <2> QED
    BY <1>2, <2>1, <2>3, <2>4, <2>5, <2>6, <2>7, <2>8 DEF WorkerStep, ProcessStep
<1>3. CASE StopStep \/ UNCHANGED poolVars
  BY <1>3, <1>0
  DEF StopStep, CallStop, StopReturns, StopTimeout, poolVars, StoreMatchesOutcome,
      StoreFollowsHands, InQueue, Accepted
<1> QED  BY <1>1, <1>2, <1>3 DEF PoolNext

-----------------------------------------------------------------------------
(***************************************************************************)
(* PoolInv is an invariant of the pool for every value of the constants.   *)
(***************************************************************************)
THEOREM PoolInvariant == PoolSpec => []PoolInv
<1>1. PoolInv /\ [PoolNext]_poolVars => PoolInv'
  <2> SUFFICES ASSUME PoolInv, [PoolNext]_poolVars PROVE PoolInv'
    OBVIOUS
  <2>1. PoolTypeOK'  BY TypeStep DEF PoolInv
  <2> QED
    BY <2>1, OnePlaceStep, DrainedStep, LeaveStep, StoreStep DEF PoolInv
<1> QED  BY InitInv, <1>1, PTL DEF PoolSpec

(***************************************************************************)
(* An accepted item is in one place only, and it stays somewhere until it  *)
(* has been processed (Submit, worker, processItem).                       *)
(***************************************************************************)
THEOREM ItemsAreInOnePlace == PoolSpec => []InOnePlace
<1>1. PoolInv => InOnePlace  BY DEF PoolInv
<1> QED  BY <1>1, PoolInvariant, PTL

(***************************************************************************)
(* What the store holds of an item agrees with how its processing ended.   *)
(***************************************************************************)
THEOREM StoreAgrees == PoolSpec => []StoreMatchesOutcome
<1>1. PoolInv => StoreMatchesOutcome  BY DEF PoolInv
<1> QED  BY <1>1, PoolInvariant, PTL

(***************************************************************************)
(* Stop returning nil means that every item accepted before Stop was       *)
(* called has been processed.  An early item that is still pending is in   *)
(* the queue or in a worker's hands; every worker has exited, so no hands  *)
(* hold it, and an exited worker exists, so the queue holds late items     *)
(* only.                                                                   *)
(***************************************************************************)
THEOREM GracefulStop == PoolSpec => []GracefulStopLosesNothingEarly
<1>1. PoolInv => GracefulStopLosesNothingEarly
  <2> SUFFICES ASSUME PoolInv, stop = "drained", NEW i \in Items,
                      call[i] = "early", outcome[i] = "pending"
               PROVE FALSE
    BY DEF GracefulStopLosesNothingEarly
  <2>1. i \in InQueue \cup InHands  BY DEF PoolInv, InOnePlace, Accepted
  <2>2. \A w \in Workers : mode[w] = "exited" /\ hands[w] = NoItem
    BY DEF PoolInv, WorkersLeaveInOrder
  <2>3. i \notin InHands  BY <2>2 DEF InHands
  <2>4. i \notin InQueue  BY <2>2, PoolAssumption DEF PoolInv, ExitMeansDrained
  <2> QED  BY <2>1, <2>3, <2>4
<1> QED  BY <1>1, PoolInvariant, PTL
-----------------------------------------------------------------------------
(***************************************************************************)
(* The pool implements its contract: every step of the pool is a step of   *)
(* PoolContract or leaves the contract's state alone.                      *)
(***************************************************************************)
LEMMA ContractInit == PoolInit => Contract!Init
  BY DEF PoolInit, Contract!Init, Fate

LEMMA ContractStep == PoolInv /\ [PoolNext]_poolVars => [Contract!Next]_(Contract!vars)
<1> SUFFICES ASSUME PoolInv, [PoolNext]_poolVars
             PROVE  Contract!Next \/ UNCHANGED Contract!vars
  OBVIOUS
<1> DEFINE fate == [i \in Items |-> Fate(i)]
           report == IF stop \in {"none", "waiting"} THEN "none" ELSE stop
<1>0. PoolTypeOK /\ WorkersLeaveInOrder /\ InOnePlace  BY DEF PoolInv
<1>1. ASSUME NEW i \in Items, CallerStep(i)
      PROVE Contract!Next \/ UNCHANGED Contract!vars
  <2>1. UNCHANGED <<shutdown, stop, outcome>> /\ outcome[i] = "pending"
    BY <1>1, <1>0
    DEF CallerStep, CallSubmit, Enqueue, SubmitTimeout, WorkersLeaveInOrder, Accepted
  <2>2. \A j \in Items : j # i => call'[j] = call[j]
    BY <1>1, <1>0 DEF CallerStep, CallSubmit, Enqueue, SubmitTimeout, PoolTypeOK
  <2>3. \A j \in Items : j # i => Fate(j)' = Fate(j)
    BY <2>1, <2>2 DEF Fate
  <2>4. CASE CallSubmit(i)
    <3>1. Fate(i)' = Fate(i)
      BY <2>4, <2>1, <1>0 DEF CallSubmit, Fate, PoolTypeOK
    <3>2. fate' = fate  BY <3>1, <2>3
    <3> QED  BY <3>2, <2>1 DEF Contract!vars
  <2>5. CASE Enqueue(i)
    <3>1. Fate(i) = "caller" /\ Fate(i)' = IF shutdown THEN "stray" ELSE "held"
      BY <2>5, <2>1, <1>0 DEF Enqueue, Fate, PoolTypeOK
    <3>2. fate' = [fate EXCEPT ![i] = IF shutdown THEN "stray" ELSE "held"]
      BY <3>1, <2>3
    <3>3. fate[i] = "caller"  BY <3>1
    <3>4. Contract!Accept(i)  BY <3>2, <3>3, <2>1 DEF Contract!Accept
    <3> QED  BY <3>4 DEF Contract!Next
  <2>6. CASE SubmitTimeout(i)
    <3>1. Fate(i) = "caller" /\ Fate(i)' = "refused"
      BY <2>6, <2>1, <1>0 DEF SubmitTimeout, Fate, PoolTypeOK
    <3>2. fate' = [fate EXCEPT ![i] = "refused"]  BY <3>1, <2>3
    <3>3. fate[i] = "caller"  BY <3>1
    <3>4. Contract!Refuse(i)  BY <3>2, <3>3, <2>1 DEF Contract!Refuse
    <3> QED  BY <3>4 DEF Contract!Next
  <2> QED  BY <1>1, <2>4, <2>5, <2>6 DEF CallerStep
<1>2. ASSUME NEW w \in Workers, WorkerStep(w)
      PROVE Contract!Next \/ UNCHANGED Contract!vars
  <2>1. UNCHANGED <<call, shutdown, stop>>
    BY <1>2
    DEF WorkerStep, ProcessStep, Take, ParseFails, Parse, WriteBatch, WriteReturns,
        WriteFails, SeeShutdown, Exit
  <2>2. ASSUME UNCHANGED outcome PROVE UNCHANGED Contract!vars
    BY <2>1, <2>2 DEF Contract!vars, Fate
  <2>3. ASSUME NEW result \in Outcomes \ {"pending"}, Release(w, result), hands[w] # NoItem
        PROVE Contract!Next
    <3>0. PICK i \in Items : i = hands[w]  BY <2>3, <1>0 DEF PoolTypeOK
    <3>1. i \in InHands  BY <2>3, <3>0 DEF InHands
    <3>2. Accepted(i) /\ outcome[i] = "pending"  BY <3>1, <1>0 DEF InOnePlace
    <3>3. outcome' = [outcome EXCEPT ![i] = result]  BY <2>3, <3>0 DEF Release
    <3>4. Fate(i) \in {"held", "stray"} /\ Fate(i)' = "processed"
      BY <2>1, <2>3, <3>2, <3>3, <1>0 DEF Fate, Accepted, PoolTypeOK
    <3>5. \A j \in Items : j # i => Fate(j)' = Fate(j)
      BY <3>1, <3>3, <2>1, <1>0 DEF Fate, PoolTypeOK
    <3>6. fate' = [fate EXCEPT ![i] = "processed"]  BY <3>1, <3>4, <3>5
    <3>7. fate[i] \in {"held", "stray"}  BY <3>1, <3>4
    <3>8. Contract!Process(i)  BY <3>6, <3>7, <2>1 DEF Contract!Process
    <3> QED  BY <3>1, <3>8 DEF Contract!Next
  <2>4. CASE ParseFails(w)
    BY <2>3, <2>4, PoolAssumption DEF ParseFails, Outcomes
  <2>5. CASE WriteReturns(w)  BY <2>3, <2>5 DEF WriteReturns, Outcomes
  <2>6. CASE WriteFails(w)  BY <2>3, <2>6 DEF WriteFails, Outcomes
  <2>7. CASE Take(w) \/ Parse(w) \/ WriteBatch(w) \/ SeeShutdown(w) \/ Exit(w)
    BY <2>2, <2>7 DEF Take, Parse, WriteBatch, SeeShutdown, Exit
  <2> QED
    BY <1>2, <2>4, <2>5, <2>6, <2>7 DEF WorkerStep, ProcessStep
<1>3. CASE StopStep
  <2>1. fate' = fate
    BY <1>3 DEF StopStep, CallStop, StopReturns, StopTimeout, Fate
  <2>2. CASE CallStop
    <3>1. report' = report /\ ~shutdown /\ shutdown'
      BY <2>2, <1>0 DEF CallStop, WorkersLeaveInOrder
    <3> QED  BY <2>1, <3>1 DEF Contract!Next, Contract!Close
  <2>3. CASE StopTimeout
    <3>1. report = "none" /\ report' = "timeout" /\ shutdown /\ shutdown' = shutdown
      BY <2>3, <1>0 DEF StopTimeout, WorkersLeaveInOrder
    <3> QED  BY <2>1, <3>1 DEF Contract!Next, Contract!Report
  <2>4. CASE StopReturns
    <3>1. report = "none" /\ report' = "drained" /\ shutdown /\ shutdown' = shutdown
      BY <2>4, <1>0 DEF StopReturns, WorkersLeaveInOrder
    <3>2. \A w \in Workers : mode[w] = "exited" /\ hands[w] = NoItem
      BY <2>4, <1>0 DEF StopReturns, WorkersLeaveInOrder
    <3>3. \A i \in Items : call[i] = "early" => outcome[i] # "pending"
      BY <3>2, <1>0, PoolAssumption
      DEF InOnePlace, InHands, Accepted, PoolInv, ExitMeansDrained
    <3>4. \A i \in Items : fate[i] # "held"  BY <3>3 DEF Fate
    <3> QED  BY <2>1, <3>1, <3>4 DEF Contract!Next, Contract!Report
  <2> QED  BY <1>3, <2>2, <2>3, <2>4 DEF StopStep
<1>4. CASE UNCHANGED poolVars
  BY <1>4 DEF poolVars, Contract!vars, Fate
<1> QED  BY <1>1, <1>2, <1>3, <1>4 DEF PoolNext

(***************************************************************************)
(* The pool implements the safety part of its contract, for every value of *)
(* the constants: nothing is accepted twice, refused after it was accepted *)
(* or processed without having been accepted, and Stop reports "drained"   *)
(* only when nothing accepted before it is left.                           *)
(***************************************************************************)
THEOREM PoolKeepsContract == PoolSpec => KeepsContractSafely
  BY ContractInit, ContractStep, PoolInvariant, PTL
  DEF PoolSpec, KeepsContractSafely, Contract!SafeSpec

-----------------------------------------------------------------------------
(* The ingest path.                                                        *)

(* where a request's Submit call is, by where its handler is *)
CallsFollowHandlers ==
  \A i \in Items :
    /\ call[i] = "sending" => handler[i] = "submitting"
    /\ handler[i] = "submitting" => call[i] # "none"
    /\ call[i] # "none" => i \notin Malformed

RepliesFollowCalls ==
  \A i \in Items :
    /\ reply[i] # "none" => handler[i] = "done"
    /\ reply[i] = "accepted" => Accepted(i)
    /\ reply[i] = "busy" => call[i] = "refused"
    /\ reply[i] = "invalid" => call[i] = "none"

(* a receiver that was stopped in time has no handler left *)
StoppedReceiver(p, phases) ==
  phase \in phases => p \in forced \/ NoneHandled(p)

MainInOrder ==
  /\ shutdown => phase \in {"stop_pool", "closed", "exited", "crashed"}
  /\ ~StoreOpen => stop \in {"drained", "timeout"}
  /\ StoppedReceiver("http", {"stop_grpc", "stop_pool", "closed", "exited"})
  /\ StoppedReceiver("grpc", {"stop_pool", "closed", "exited"})

(* nobody submits to a pool that is stopping, unless a receiver was forced *)
LateOnlyIfForced == \A i \in Items : call[i] = "late" => Proto(i) \in forced

NothingUnparsed == \A i \in Items : outcome[i] # "unparsed"

IngestInv ==
  /\ IngestTypeOK
  /\ CallsFollowHandlers
  /\ RepliesFollowCalls
  /\ MainInOrder
  /\ LateOnlyIfForced
  /\ NothingUnparsed

-----------------------------------------------------------------------------
(* Every step of the ingest path is a step of the pool or leaves it alone. *)
LEMMA PoolStepInside == [IngestNext]_allVars => [PoolNext]_poolVars
<1> SUFFICES ASSUME IngestNext PROVE PoolNext \/ UNCHANGED poolVars
  BY DEF allVars
<1>1. ASSUME NEW i \in Items, RequestStep(i) PROVE PoolNext \/ UNCHANGED poolVars
  BY <1>1 DEF RequestStep, Arrive, RejectInvalid, HandlerSubmits, SubmitEnds, Answer,
     PoolNext, CallerStep
<1>2. ASSUME NEW w \in Workers, WorkerRuns(w) \/ ParsePanics(w)
      PROVE  PoolNext \/ UNCHANGED poolVars
  BY <1>2 DEF WorkerRuns, ParsePanics, PoolNext
<1>3. CASE MainStep
  BY <1>3 DEF MainStep, Signal, StopHTTP, StopGRPC, MainStopsPool, CloseStore, ExitProcess,
     PoolNext
<1> QED BY <1>1, <1>2, <1>3 DEF IngestNext

(***************************************************************************)
(* The pool inside the process behaves as the pool on its own: no handler  *)
(* and no deferred stop drives it in a way that WorkerPool leaves out.     *)
(***************************************************************************)
THEOREM PoolInsideIsThePool == IngestSpec => PoolSpec
<1>1. IngestInit => PoolInit
  BY DEF IngestInit
<1> QED BY <1>1, PoolStepInside, PTL DEF IngestSpec, PoolSpec

-----------------------------------------------------------------------------
LEMMA IngestInitInv == IngestInit => IngestInv
<1> SUFFICES ASSUME IngestInit PROVE IngestInv
  OBVIOUS
<1>1. PoolTypeOK
  BY InitInv DEF IngestInit, PoolInv
<1> QED
  BY <1>1 DEF IngestInit, PoolInit, IngestInv, IngestTypeOK, Phases, CallsFollowHandlers,
     RepliesFollowCalls, MainInOrder, StoppedReceiver, StoreOpen, LateOnlyIfForced,
     NothingUnparsed, Accepted

(* What a worker holds was accepted, so that it parses.                    *)
LEMMA HeldParses ==
  ASSUME PoolInv, IngestInv, NEW w \in Workers, hands[w] # NoItem
  PROVE  hands[w] \in Items \ Malformed
<1>1. hands[w] \in Items /\ hands[w] \in InHands
  BY DEF PoolInv, PoolTypeOK, InHands
<1>2. Accepted(hands[w])
  BY <1>1 DEF PoolInv, InOnePlace
<1> QED BY <1>1, <1>2 DEF Accepted, IngestInv, CallsFollowHandlers

(* A step of request i.                                                    *)
LEMMA RequestKeeps ==
  ASSUME PoolInv, PoolTypeOK', IngestInv, NEW i \in Items, RequestStep(i)
  PROVE  IngestInv'
<1> USE DEF IngestInv, IngestTypeOK, PoolTypeOK, CallsFollowHandlers, RepliesFollowCalls,
            MainInOrder, StoppedReceiver, NoneHandled, Via, StoreOpen, LateOnlyIfForced,
            NothingUnparsed, Accepted
<1>1. CASE Arrive(i)
  BY <1>1 DEF Arrive, poolVars, Listening
<1>2. CASE RejectInvalid(i)
  BY <1>2 DEF RejectInvalid, poolVars, Finish
<1>3. CASE HandlerSubmits(i)
  BY <1>3 DEF HandlerSubmits, CallSubmit
<1>4. CASE SubmitEnds(i)
  <2>1. /\ handler[i] = "submitting" /\ phase \in Phases /\ Proto(i) \in {"http", "grpc"}
        /\ i \in Via(Proto(i))
    BY <1>4 DEF SubmitEnds, Enqueue, SubmitTimeout, Proto
  <2>2. shutdown => Proto(i) \in forced
    BY <1>4, <2>1 DEF SubmitEnds, Alive
  <2> QED BY <1>4, <2>1, <2>2 DEF SubmitEnds, Enqueue, SubmitTimeout, ingestVars
<1>5. CASE Answer(i)
  BY <1>5 DEF Answer, poolVars, Finish, CallStates
<1> QED BY <1>1, <1>2, <1>3, <1>4, <1>5 DEF RequestStep

(* A step of a worker.                                                     *)
LEMMA WorkerKeeps ==
  ASSUME PoolInv, PoolTypeOK', IngestInv, NEW w \in Workers,
         WorkerRuns(w) \/ ParsePanics(w)
  PROVE  IngestInv'
<1>1. CASE ParsePanics(w)
  BY <1>1 DEF ParsePanics, poolVars, IngestInv, IngestTypeOK, Phases, PoolTypeOK, CallsFollowHandlers,
     RepliesFollowCalls, MainInOrder, StoppedReceiver, StoreOpen, LateOnlyIfForced,
     NothingUnparsed, Accepted
<1>2. CASE WorkerRuns(w)
  <2>1. UNCHANGED <<call, shutdown, stop, ingestVars>>
    BY <1>2 DEF WorkerRuns, WorkerStep, Take, ProcessStep, ParseFails, Parse, WriteBatch,
       WriteReturns, WriteFails, SeeShutdown, Exit
  <2>2. NothingUnparsed'
    <3>1. ~ParseFails(w)
      BY HeldParses, PoolAssumption DEF ParseFails
    <3>2. CASE UNCHANGED outcome
      BY <3>2 DEF IngestInv, NothingUnparsed
    <3>3. CASE WriteReturns(w) \/ WriteFails(w)
      BY <3>3 DEF WriteReturns, WriteFails, Release, IngestInv, NothingUnparsed, PoolInv,
         PoolTypeOK
    <3> QED
      BY <1>2, <3>1, <3>2, <3>3 DEF WorkerRuns, WorkerStep, ProcessStep, Take, Parse,
         WriteBatch, SeeShutdown, Exit
  <2> QED
    BY <2>1, <2>2 DEF ingestVars, IngestInv, IngestTypeOK, CallsFollowHandlers,
       RepliesFollowCalls, MainInOrder, StoppedReceiver, NoneHandled, StoreOpen,
       LateOnlyIfForced, Accepted
<1> QED BY <1>1, <1>2

(* A step of main.                                                         *)
LEMMA MainKeeps ==
  ASSUME PoolInv, PoolTypeOK', IngestInv, MainStep
  PROVE  IngestInv'
<1> USE DEF IngestInv, IngestTypeOK, Phases, CallsFollowHandlers, RepliesFollowCalls,
            MainInOrder, StoppedReceiver, NoneHandled, StoreOpen, LateOnlyIfForced,
            NothingUnparsed, Accepted
<1>0. shutdown <=> stop # "none"
  BY DEF PoolInv, WorkersLeaveInOrder
<1>1. CASE Signal
  BY <1>1 DEF Signal, poolVars
<1>2. CASE StopHTTP
  BY <1>2 DEF StopHTTP, poolVars
<1>3. CASE StopGRPC
  BY <1>3 DEF StopGRPC, poolVars
<1>4. CASE MainStopsPool
  BY <1>4 DEF MainStopsPool, StopStep, CallStop, StopReturns, StopTimeout, ingestVars
<1>5. CASE CloseStore
  BY <1>5 DEF CloseStore, poolVars
<1>6. CASE ExitProcess
  BY <1>6 DEF ExitProcess, poolVars
<1> QED BY <1>1, <1>2, <1>3, <1>4, <1>5, <1>6 DEF MainStep

(***************************************************************************)
(* Handlers, calls, replies and main agree in every reachable state: the   *)
(* invariant from which the theorems below follow, inductive together with *)
(* that of the pool.                                                       *)
(***************************************************************************)
THEOREM IngestInvariant == IngestSpec => [](PoolInv /\ IngestInv)
<1>1. PoolInv /\ PoolInv' /\ IngestInv /\ [IngestNext]_allVars => IngestInv'
  <2> SUFFICES ASSUME PoolInv, PoolInv', IngestInv, [IngestNext]_allVars PROVE IngestInv'
    OBVIOUS
  <2>0. PoolTypeOK'
    BY DEF PoolInv
  <2>1. CASE UNCHANGED allVars
    BY <2>0, <2>1 DEF allVars, poolVars, ingestVars, IngestInv, IngestTypeOK, CallsFollowHandlers,
       RepliesFollowCalls, MainInOrder, StoppedReceiver, NoneHandled, StoreOpen,
       LateOnlyIfForced, NothingUnparsed, Accepted
  <2> QED BY <2>0, <2>1, RequestKeeps, WorkerKeeps, MainKeeps DEF IngestNext
<1> QED
  BY <1>1, IngestInitInv, PoolInsideIsThePool, PoolInvariant, PTL DEF IngestSpec

(* The types of pool, handlers, replies and main.                          *)
THEOREM IngestTypeCorrect == IngestSpec => []IngestTypeOK
<1>1. IngestInv => IngestTypeOK
  BY DEF IngestInv
<1> QED BY <1>1, IngestInvariant, PTL

(***************************************************************************)
(* Nobody submits to a stopping pool unless a receiver was forced to stop; *)
(* the store is closed under a working worker only after the timeout of    *)
(* Pool.Stop (the order of the defers in main.go).                         *)
(***************************************************************************)
THEOREM PartsStopInOrder == IngestSpec => []StopsInOrder
<1>1. PoolInv /\ IngestInv => StopsInOrder
  <2> SUFFICES ASSUME PoolInv, IngestInv PROVE StopsInOrder
    OBVIOUS
  <2>1. ~StoreOpen /\ stop # "timeout" => \A w \in Workers : hands[w] = NoItem
    BY DEF IngestInv, MainInOrder, PoolInv, WorkersLeaveInOrder
  <2> QED BY <2>1 DEF StopsInOrder, InHands, IngestInv, LateOnlyIfForced
<1> QED BY <1>1, IngestInvariant, PTL

(***************************************************************************)
(* What a client was told of its request is true, and stays true.          *)
(***************************************************************************)
THEOREM RepliesAreTrue == IngestSpec => []ReplyTellsTheTruth
<1>1. PoolInv /\ IngestInv => ReplyTellsTheTruth
  <2> SUFFICES ASSUME PoolInv, IngestInv, NEW i \in Items
               PROVE  /\ reply[i] = "accepted" => Accepted(i)
                      /\ reply[i] \in {"busy", "invalid"} =>
                           ~Accepted(i) /\ i \notin InQueue \cup InHands /\ stored[i] = 0
                      /\ outcome[i] # "unparsed"
    BY DEF ReplyTellsTheTruth
  <2>1. reply[i] \in {"busy", "invalid"} => ~Accepted(i)
    BY DEF IngestInv, RepliesFollowCalls, Accepted
  <2>2. ~Accepted(i) => i \notin InQueue \cup InHands /\ stored[i] = 0
    BY DEF PoolInv, InOnePlace, StoreMatchesOutcome
  <2> QED BY <2>1, <2>2 DEF IngestInv, RepliesFollowCalls, NothingUnparsed
<1> QED BY <1>1, IngestInvariant, PTL

(***************************************************************************)
(* After a shutdown in which no Stop ran into its timeout, every request   *)
(* that was answered with success has been handled by a worker: it was     *)
(* accepted before the pool was stopped, because the receivers, stopped    *)
(* first, had no handler left, and the pool drained its queue.             *)
(***************************************************************************)
THEOREM AcknowledgedIsHandled == IngestSpec => []AckedSurvivesCleanShutdown
<1>1. PoolInv /\ IngestInv /\ GracefulStopLosesNothingEarly => AckedSurvivesCleanShutdown
  <2> SUFFICES ASSUME PoolInv, IngestInv, GracefulStopLosesNothingEarly,
                      ~StoreOpen, CleanShutdown,
                      NEW i \in Items, reply[i] = "accepted"
               PROVE  outcome[i] \in {"written", "failed"}
    BY DEF AckedSurvivesCleanShutdown, StoreOpen
  <2>1. stop = "drained" /\ forced = {}
    BY DEF CleanShutdown, IngestInv, MainInOrder
  <2>2. call[i] = "early"
    BY <2>1 DEF IngestInv, RepliesFollowCalls, LateOnlyIfForced, Accepted
  <2>3. outcome[i] # "pending"
    BY <2>1, <2>2 DEF GracefulStopLosesNothingEarly
  <2> QED
    BY <2>3 DEF IngestInv, NothingUnparsed, PoolInv, PoolTypeOK, Outcomes
<1> QED BY <1>1, IngestInvariant, PoolInsideIsThePool, GracefulStop, PTL
=============================================================================
