---------------------------- MODULE PoolContract ----------------------------
(***************************************************************************)
(* What the worker pool promises to the receivers that submit to it and to *)
(* the main program that stops it, with neither queue nor workers: the     *)
(* abstract specification that WorkerPool implements.                      *)
(*                                                                         *)
(*   - a Submit either takes responsibility for the item or refuses it;    *)
(*   - what was held before Close is processed in the end;                 *)
(*   - Close may be reported complete ("drained") only when nothing that   *)
(*     was taken before it is still held, or it reports a timeout;         *)
(*   - an item taken after Close ("stray") may be processed or not.        *)
(***************************************************************************)
CONSTANT Items

VARIABLES fate,     \* fate[i]: who is responsible for item i
          closed,   \* has the pool been told to stop?
          report    \* what the stop reported: "none", "drained" or "timeout"

vars == <<fate, closed, report>>

Fates == {"caller", "refused", "held", "stray", "processed"}

TypeOK ==
  /\ fate \in [Items -> Fates]
  /\ closed \in BOOLEAN
  /\ report \in {"none", "drained", "timeout"}

Init ==
  /\ fate = [i \in Items |-> "caller"]
  /\ closed = FALSE
  /\ report = "none"

Accept(i) ==
  /\ fate[i] = "caller"
  /\ fate' = [fate EXCEPT ![i] = IF closed THEN "stray" ELSE "held"]
  /\ UNCHANGED <<closed, report>>

Refuse(i) ==
  /\ fate[i] = "caller"
  /\ fate' = [fate EXCEPT ![i] = "refused"]
  /\ UNCHANGED <<closed, report>>

Process(i) ==
  /\ fate[i] \in {"held", "stray"}
  /\ fate' = [fate EXCEPT ![i] = "processed"]
  /\ UNCHANGED <<closed, report>>

Close ==
  /\ ~closed
  /\ closed' = TRUE
  /\ UNCHANGED <<fate, report>>

Report ==
  /\ closed
  /\ report = "none"
  /\ \/ report' = "timeout"
     \/ report' = "drained" /\ \A i \in Items : fate[i] # "held"
  /\ UNCHANGED <<fate, closed>>

Next ==
  \/ \E i \in Items : Accept(i) \/ Refuse(i) \/ Process(i)
  \/ Close
  \/ Report

SafeSpec == Init /\ [][Next]_vars

Fairness ==
  /\ \A i \in Items : WF_vars(fate[i] = "held" /\ Process(i))
  /\ WF_vars(Report)

Spec == SafeSpec /\ Fairness
=============================================================================
