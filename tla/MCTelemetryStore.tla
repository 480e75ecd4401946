-------------------------- MODULE MCTelemetryStore --------------------------
(* A request of metrics, whose sums take two transactions and whose gauge  *)
(* names no agent, and one of logs of a host that is no agent and of one   *)
(* that is; times never set, soon to expire and to come.                   *)
EXTENDS TelemetryStore

Point(instance, gid, gname, time) ==
  [instance |-> instance, gid |-> gid, gname |-> gname, time |-> time]

MCPoints ==
  [metrics |->
     [NoRows EXCEPT
       !["metrics_sum"] = <<Point("a1", "group-01", "one", 0), Point("a1", "group-01", "one", 2)>>,
       !["metrics_gauge"] = <<Point("", "short", "", 1)>>],
   logs |->
     [NoRows EXCEPT
       !["logs"] = <<Point("host-7", "", "not a name", 9), Point("a1", "", "one", 1)>>]]

MCBatchSize == [t \in Tables |-> IF t \in {"logs", "traces"} THEN 50 ELSE 1]
MCTexts == {"", "default", "a1", "host-7", "group-01", "group-02", "short", "one", "two", "not a name"}
MCAgentGroups == {[gid |-> "group-02", gname |-> ""]}
=============================================================================
