---------------------------- MODULE AgentPresence ----------------------------
(***************************************************************************)
(* What the OpAMP server promises about the agents it shows, without       *)
(* connections, messages or a registry: the abstract specification that    *)
(* AgentSessions implements as long as agents do not speak on two          *)
(* connections at once, the store works and the server does not crash.     *)
(*                                                                         *)
(*   - an agent is shown as online or in error only while it is known;     *)
(*   - it is shown as offline before the server forgets it;                *)
(*   - nothing the agent said is shown once its departure was noticed;     *)
(*   - an agent whose departure was noticed is forgotten in the end.       *)
(***************************************************************************)
CONSTANT Agents

VARIABLES presence,   \* "away", "here" or "leaving"
          shown       \* "absent", "online", "error" or "offline"

vars == <<presence, shown>>

Init ==
  /\ presence = [a \in Agents |-> "away"]
  /\ shown = [a \in Agents |-> "absent"]

Arrive(a) ==
  /\ presence[a] = "away"
  /\ presence' = [presence EXCEPT ![a] = "here"]
  /\ UNCHANGED shown

Show(a) ==
  /\ presence[a] = "here"
  /\ \E s \in {"online", "error"} : shown' = [shown EXCEPT ![a] = s]
  /\ UNCHANGED presence

\* Agents that share a connection leave, and are forgotten, together.
Depart(group) ==
  /\ \A a \in group : presence[a] = "here"
  /\ presence' = [a \in Agents |-> IF a \in group THEN "leaving" ELSE presence[a]]
  /\ UNCHANGED shown

Hide(a) ==
  /\ presence[a] = "leaving"
  /\ shown' = [shown EXCEPT ![a] = "offline"]
  /\ UNCHANGED presence

Forget(group) ==
  /\ \A a \in group : presence[a] = "leaving" /\ shown[a] = "offline"
  /\ presence' = [a \in Agents |-> IF a \in group THEN "away" ELSE presence[a]]
  /\ UNCHANGED shown

Next ==
  \/ \E a \in Agents : Arrive(a) \/ Show(a) \/ Hide(a)
  \/ \E group \in SUBSET Agents : Depart(group) \/ Forget(group)

SafeSpec == Init /\ [][Next]_vars

ForgetWith(a) == \E group \in SUBSET Agents : a \in group /\ Forget(group)

Spec == SafeSpec /\ \A a \in Agents : WF_vars(Hide(a)) /\ WF_vars(ForgetWith(a))
=============================================================================
