---------------------------- MODULE MCQueryEngine ----------------------------
(***************************************************************************)
(* Counters of two agents, in a group and in none (two rows differ in      *)
(* nothing else), a metric without a service, an error and an info log, a  *)
(* span; queries of every kind of node.                                    *)
(***************************************************************************)
EXTENDS QueryEngine

Metric(ts, agent, group, name, attrs, n) ==
  [type |-> "metrics", ts |-> ts, cols |-> [agent_id |-> agent, group_id |-> group, name |-> name],
   attrs |-> attrs, val |-> Number(n)]
Log(ts, agent, severity, body) ==
  [type |-> "logs", ts |-> ts, attrs |-> [service |-> "api"], val |-> Text,
   cols |-> [agent_id |-> agent, group_id |-> Missing, severity |-> severity, body |-> body]]
Span(ts, agent, trace) ==
  [type |-> "traces", ts |-> ts, attrs |-> [service |-> "api"], val |-> Text,
   cols |-> [agent_id |-> agent, group_id |-> "g1", trace_id |-> trace]]

api == [service |-> "api"]
web == [service |-> "web"]
zone == [zone |-> "api"]

MCRows == {Metric(1, "a1", Missing, "requests", api, 2), Metric(3, "a1", "g1", "requests", api, 5),
           Metric(2, "a2", Missing, "requests", web, 7), Metric(2, "a2", "g1", "requests", web, 7),
           Metric(3, "a1", "g1", "memory", zone, 4),
           Log(1, "a1", "error", "timeout"), Log(2, "a2", "info", "started"),
           Span(2, "a1", "t1")}

Eq(v) == [op |-> "=", vals |-> {v}, within |-> {v}]
Cmp(op, vs) == [op |-> op, vals |-> vs, within |-> {}]

None == [l \in {} |-> Eq("")]
Read(type, sel) == [kind |-> "telemetry", type |-> type, sel |-> sel]
Call(name) == [kind |-> "call", name |-> name, args |-> 1]
Binary(op) == [kind |-> "binary", op |-> op]
By(name, labels) == [kind |-> "aggregation", name |-> name, by |-> labels]

AllMetrics == Read("metrics", None)
Requests == Read("metrics", [metric |-> Eq("requests")])
OfOneAgent == Read("metrics", [metric |-> Eq("requests"), agent_id |-> Eq("a1")])

MCQueries == {
  <<Read("metrics", [name |-> Eq("requests"), service |-> Cmp("!=", {"web"})])>>,
  <<Read("metrics", [agent_id |-> Eq("a1"), service |-> Cmp("=~", {"api", "web"})])>>,
  <<Read("metrics", [agent_id |-> Eq("nobody"), zone |-> Cmp("!~", {"api"})])>>,
  <<Read("metrics", [group_id |-> Eq("g1"), metric_name |-> Eq("requests")])>>,
  <<Read("metrics", [group_id |-> Cmp("!=", {"g1"}), service |-> Eq("web")])>>,
  <<Read("logs", [severity |-> Eq("error"), level |-> Eq("info")]), Call("max")>>,
  <<Read("logs", [message |-> [op |-> "=~", vals |-> {"timeout"}, within |-> {"timeout"}]]), Call("min")>>,
  <<Read("traces", [trace_id |-> Eq("t1")]), Read("logs", None), Binary("or")>>,
  <<AllMetrics, By("sum", <<"service", "zone">>)>>,
  <<Read("logs", None), AllMetrics, Binary("+"), By("sum", <<"name">>)>>,
  <<OfOneAgent, Call("increase")>>,
  <<OfOneAgent, Call("rate")>>,
  <<AllMetrics, Call("histogram_quantile"), Call("count")>>,
  <<Requests, Call("avg")>>,
  <<Requests, AllMetrics, Binary("and")>>,
  <<Requests, AllMetrics, Binary("-")>>,
  <<[kind |-> "call", name |-> "sum", args |-> 0]>>,
  <<AllMetrics, By("median", <<"service">>)>> }
=============================================================================
