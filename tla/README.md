# Lawrence OSS: a TLA+ verification project

Lawrence is one Go process (`src/cmd/all-in-one/main.go`) that receives
OpenTelemetry data over OTLP, keeps it in DuckDB, manages OpenTelemetry agents over
OpAMP with their configurations in SQLite, and serves an HTTP API. These modules
model its concurrent core, TLC checks them on small instances, and TLAPS proves the
main results for every value of the constants. Every definition follows the source;
`PROJECT.json` maps each one to the lines it stands for.

## 1. Inventory

| component | state | operations | interacts with | modelled |
|---|---|---|---|---|
| worker pool (`internal/worker`) | queue channel, shutdown channel, workers | `Submit`, `worker`, `processItem`, `Stop` | receivers call `Submit`; workers call parser, enricher, telemetry store | `WorkerPool`, `PoolContract` |
| OTLP receivers (`internal/otlp/receiver`) | one goroutine per request, the servers | handlers, `Export`, `Stop` | pool | `Ingest` |
| main program (`cmd/all-in-one`) | the order of its defers, a ticker | start, signal, stop of each part, the hourly clean-up | everything | `Ingest` (ingest path), `TelemetryStore` (clean-up, crash) |
| OTLP parser, enricher (`internal/otlp/parser`, `processor`) | none | `Parse*`, `Enrich*` | pool; enricher reads the application store | `TelemetryStore`; `WorkerPool`, `Ingest` (whether bytes parse) |
| telemetry store (`internal/storage/telemetrystore`) | tables of spans, logs, metrics, rollups | `Write*`, `CreateRollups`, `QueryRollups`, `CleanupOldData`, queries | workers, query services, periodic jobs | `TelemetryStore`, `WorkerPool` (transactions of a write), `QueryEngine` (queries) |
| OpAMP registry (`opamp/agents.go`, `agent_core.go`) | `agentsById`, `connections`, the `Agent` objects | `FindOrCreateAgent`, `RemoveConnection`, lookups and clones | callbacks, sender, API | `AgentSessions` |
| OpAMP callbacks (`opamp/server.go`) | none of their own | `onMessage`, `processAgentGrouping`, `persistAgent`, `onDisconnect` | registry, application store, agents | `AgentSessions`, `ConfigDelivery`, `GroupCommands` |
| configuration delivery (`opamp/agent_config.go`, `agent_status.go`, `config_sender.go`, `agent_connection.go`) | per agent: status, custom and remote configuration, watchers | `SetCustomConfig`, `UpdateStatus`, `SendConfigToAgent(sInGroup)` | API handlers, callbacks, agents | `ConfigDelivery`, `GroupCommands` (groups) |
| restart commands, connection settings (`config_sender.go`, `opamp/agent_connection.go`) | none that is read back | `RestartAgent(sInGroup)`, offers | API handlers, agents | `GroupCommands` (restarts) |
| application store (`internal/storage/applicationstore`: SQLite, memory) | rows of agents, groups, configurations | create, read, update, delete, latest configuration | agent service | `ConfigStore` (configurations, groups), `AgentSessions` (agents) |
| agent service, API handlers | what a request holds between two statements | groups, configurations, agents, restarts, pushes | application store, sender | `ConfigStore` (what is stored), `ConfigDelivery` (what is pushed), `GroupCommands` (calls for a group) |
| query engine (`internal/query`) | per query: the results of operands | lexer, parser, visitor, functions | telemetry query service | `QueryLexer`, `QueryParser`, `QueryText`, `QueryEngine` |
| telemetry query service, metrics, configuration, logger, web UI | none that matters | translation to SQL, counters, wording | | not modelled |

What is hard in this code, and what makes each part correct:

- **Pool.** `Submit`'s send, the workers' `select` and the drain loop race with the
  closing of the shutdown channel; the queue is bounded; every wait has a timeout.
  Correct: an accepted item is in one place and processed once; a `Stop` that
  returns nil left nothing behind; the store holds whole items or proper parts.
- **Receivers and main.** Slow clients, forced stops, and the order of the defers.
  Correct: a client told "accepted" on a clean shutdown has had its data handled;
  nobody submits to a stopped pool; the store is closed last; the process ends.
- **Telemetry store.** A request is enriched record by record while its agent registers,
  and committed batch by batch while the hourly clean-up deletes table by table, by the
  clients' timestamps; a statement may fail, the process may crash. Correct: what is
  committed stays until its own time has expired, and goes then; records follow the
  group of their agent.
- **Registry and callbacks.** One goroutine per connection; callbacks of two
  connections of an agent interleave between the registry's critical sections and
  the store's calls; the store may fail, the process may crash. Correct: the two
  maps agree; a closed connection is forgotten; the store shows the last report;
  who is gone is shown as offline.
- **Delivery.** Message handler and pushes set the same fields; a `Send` follows
  the critical section and may be overtaken or fail silently; a push waits for a
  notification with a timeout on an object that may be out of use. Correct: no
  wakeup is lost; what is offered is what was set; agents come to run it.
- **Calls for a group.** A push or a restart works off a copy of the registry, one agent
  after the other, each for up to 30 seconds, while agents join, leave, reconnect and
  speak. Correct: the answer accounts for the members; who joins meanwhile is not missed.
- **Stored configurations.** A handler reads the latest version in one statement and
  writes the next in another; users type versions of their own; two stores find the
  latest row in two ways; groups are deleted under their configurations. Correct: what
  was sent to an agent supersedes all that was stored before, and both stores agree.
- **Query engine.** A text is cut, parsed and visited; each telemetry query is a
  statement of its own while workers write; selectors are applied partly by the
  statement and partly after it. Correct: the parser accepts the language and groups
  one way; what is answered is what was selected; groups, rates and quantiles are
  right at their boundaries.

## 2. Modules

```
PoolContract <--refined by-- WorkerPool <--EXTENDS-- Ingest          (MCWorkerPool, MCIngest)
AgentPresence <--refined by-- AgentSessions                          (MCAgentSessions)
                              TelemetryStore                         (MCTelemetryStore)
                              ConfigDelivery                         (MCConfigDelivery)
                              GroupCommands                          (MCGroupCommands)
                              ConfigStore                            (MCConfigStore)
QueryLexer, QueryParser <--EXTENDS-- QueryText                       (MCQueryText)
                              QueryEngine                            (MCQueryEngine)
IngestProofs (also of WorkerPool), AgentSessionsProofs, ConfigDeliveryProofs, ConfigStoreProofs,
GroupCommandsProofs, TelemetryStoreProofs, QueryTextProofs, QueryEngineProofs: the theorems
```

**WorkerPool.** `queue` is the channel, `call[i]` the state of the one `Submit` call
for item `i`, `mode[w]` the loop a worker is in, `hands[w]` its item, `stored[i]` the
transactions committed. `CallSubmit`/`Enqueue`/`SubmitTimeout` are the entry and the
two branches of `Submit`'s select; `Take`, `SeeShutdown` and `Exit` the receive, the
shutdown case and the drain loop's default; `ParseFails`, `Parse`, `WriteBatch`,
`WriteReturns`, `WriteFails` are `processItem`; `CallStop`, `StopReturns`,
`StopTimeout` are `Stop`. Whether an item was accepted before or after the shutdown
("early", "late") is history that the code does not record. An item is abstracted to
whether it parses and to its number of transactions, because `WriteMetricsFromOTLP`
commits one per batch and a failure in the middle keeps the earlier ones.

**PoolContract** is what a caller may rely on: an item is accepted once or refused,
a held item is processed, and `Stop` reports "drained" only when no item accepted
before it is held. `WorkerPool` implements it under a refinement mapping (`Fate`).

**Ingest** extends the pool by the handlers of both receivers and by main: `phase` is
how far the defers have come, `forced` the receivers whose `Stop` ran into its
timeout, `reply` what the client was told. `Enqueue` of the pool becomes part of
`SubmitEnds`, `Stop` of `MainStopsPool`; the workers go on in every phase
(`WorkerRuns`) until the process exits, or ends at once because an item has no resource or
no scope (`ParsePanics`). The HTTP receiver rejects a body that it cannot
read or unmarshal; a gRPC message was decoded before, so its bytes always parse.

**TelemetryStore** follows the records of a request to their rows. `Take` receives and
parses: the agent is `service.instance.id` or "default", id and name of the group are the
resource's, each if it passes its validation (`ExtractGroupInfo`). `Enrich` is one lookup of
the loop over the records: if the agent is a UUID with a stored row, its group goes before
the record's own, id and name each on its own (`Overlay`); a failing lookup leaves the
record alone (`LookupFails`). `CommitBatch` is a transaction, table after table in the
order of `processMetrics`, `WriteFails` ends the request. `Tick` is the ticker, whose
channel holds one tick; `StartCleanup` reads the clock, `DeleteOld` is one statement for
each of five tables, `CleanupFails` ends the round. `Register` is a new agent's row, and
`Crash` loses what workers hold, while the rows of both stores, which are files, stay.
`known`, `missed` and `found` are history. `WorkerPool` and `Ingest` tell items apart by
their number of transactions; here the transactions have contents.

**AgentSessions.** A connection's goroutine has a program counter `pc[c]` over the
statements between two critical sections or store calls: `OnMessage`
(`FindOrCreateAgent`), `ProcessAgentGrouping`, `GetAgent`, `GetGroupByName`,
`CreateGroup`, `CreateAgent`, `UpdateAgent`, then `OnDisconnect`, `MarkOffline` per
agent in the order of a map iteration, `RemoveConnection`. An object is named by
agent and connection. `Crash` loses the registry and keeps the store. `heard` and
`told` are history. `Overlaps` says whether an agent may speak on a new connection
before the server has seen the end of the old one, which TCP does not prevent.

**AgentPresence** is what a user of the agents' list may expect: an agent arrives, is
shown as it reports, leaves together with the others of its connection, is shown
offline, and only then is forgotten. `AgentSessions` implements it.

**ConfigDelivery** takes one agent over successive connections, each with an object
of its own. `onMessage` is split where `server.go` leaves a critical section:
grouping, the two queries of `getConfigForAgent`, setting the result, `UpdateStatus`,
answering. A push `p` is `StoreConfig`, `CloneAgents` (group pushes), `FindAgent`,
`SetCustomConfig`, `SendToAgent`, then `Succeed` or `TimeOut`. The agent
(`AgentSends`, `AgentReceives`, `Regroup`, `Reconnect`) is the opamp-go client,
external to this repository and modelled from what the server relies on: it reports
what changed, applies what it is sent, reports everything on a new connection or on
request, and may send an empty message at any time. Hashes are injective. Which of
two stored rows is the latest is left open, because concurrent stores can give them
the same version.

**GroupCommands** has many agents and a call that works through a group, where
`ConfigDelivery` has one agent and what it does with what it is sent. An agent's object
is numbered, so that a call may hold one that is out of use; `pc[a]` is the statement of
`onMessage` that the agent's message has come to. A call stores its row (`StoreRow`), copies the map
(`CopyMap`) and clones each object under its own lock (`CloneReadonly`), then comes to the
agents whose clone is in the group, in any order: `Refuse`, `RestartAgent`, or
`FindAgent`, `SetCustomConfig`, and `Confirmed` or `TimesOut`. A call that is refused
before, or whose insert fails, does not begin. Agents describe their group by `group.id`
and have one connection at a time. Configurations that no call pushes, an agent's own or
the default, are one value, `Other`. `given`, `informed`, `steady` and `seen` are history.

**ConfigStore** has the tables `configs` and `groups`, and for each request of the API
the handler it runs, the statement it has come to and the row it is building (`call`).
`HandleCreateConfig` and `HandleUpdateConfig` insert rows with a version that the user
types, `HandleSendConfigToAgent` computes it from the agent's latest row,
`HandleAssignConfig` from the row it copies. Every statement is an action
(`GetAgent`, `GetLatestConfigForAgent`, `GetGroup`, `GetConfig`, `CreateConfig`), so
that requests interleave between them, and each may fail; an error of the query for
the latest row is dropped by the code (`LatestUnknown`). `clock` may stand still
between two rows. Whether a foreign key is enforced is a choice of each statement: the
memory store has none, and SQLite enforces them only on the pooled connection that ran
the PRAGMA. `before` and `knew` are history.

**QueryLexer, QueryParser, QueryEngine** are the stages of a query; each takes what
the one before it hands over. The first two are pure: a behaviour of `QueryText` types
a text, or a query's tokens, one at a time, and every state compares what the code
makes of it with a declared language (`LongestWords`, `IsQuery`). Characters and tokens
are abstracted to the classes that the code tells apart. In both a position is a
recursive function's argument. Each of the parser's mutually recursive methods has
consumed a token when it calls another, so `Results` computes at each position what every
method would return there from what they return at later ones; a result has the position
of the offending token, and the loop of `parseBinaryOp` is the list of operators and
operands it reads (`ParseOperands`), from which it builds the tree (`Grouped`).
`QueryEngine` is the visitor:
`query` is the list of nodes in the order in which `Accept` evaluates them, `stack` the
operands' results, one action per `Visit` method, and `Write` a worker's commit
between two of them. Map iterations and the order of rows of one time are choices;
values are exact fractions. A loop that skips elements is `Keep`, one that adds up `Total`.
A label's value is one token: none has a bar inside, as a text may.
`execCtx` holds the agent and the group that the request names, or `Unset`. A special label
stands for a column (`SpecialLabels`, the aliases included); what is pushed into the
statement is a condition on the column (`ColumnConditions`), that of the request if it names
the agent or the group (`FromRequest`), otherwise the selector's if its operator is pushed
at all; a condition does not hold of a null column, as `group_id` may be (`Where`).

## 3. Runs

| run | instance | shows |
|---|---|---|
| `worker_pool` | 3 items (one malformed, one of two transactions), queue of 2, 2 workers | the pool's invariants, that workers exit, and that it implements `PoolContract` with its liveness |
| `ingest` | an invalid and a valid HTTP request, a gRPC request of two transactions, queue of 1, 2 workers | nothing acknowledged is lost on a clean shutdown, replies are true, the store closes last, the process ends; any valid HTTP request may make a worker panic |
| `agent_sessions` | 2 agents, 2 connections, one shared; orderly | status and presence: what the callbacks store is the last report, and they implement `AgentPresence` |
| `sessions_faulty` | 1 agent on both connections at once, 1 failing store call, 1 crash | the registry stays consistent, closed connections are forgotten; while the store works, an agent that was heard has a row, whatever overlaps |
| `config_delivery` | a push to the agent and one to its group, 1 connection, 1 lost Send | offers, wakeups, quiet states, convergence, notification |
| `config_roaming` | a group push, 2 connections, 1 change of group, 1 lost Send | convergence while the agent moves |
| `telemetry_store` | a request of metrics (2 sums in 2 transactions, 1 gauge of no agent) and one of logs, 2 workers, 1 agent, 1 fault | committed rows stay until they expire and then go, a round of the clean-up leaves nothing behind, records follow their agent's group |
| `group_commands` | 2 agents, one of which cannot be restarted, comes twice and moves; a push or a restart of their group | who joins around a push is not missed, the answer accounts for the members |
| `config_store` | 3 requests of any kind, 1 agent, 1 group, typed versions 1 and 3 | ids are stored once, a sent configuration supersedes earlier ones, memory and SQLite agree on the latest row |
| `query_text` | every text of up to 5 characters of 16 classes, every query of up to 12 tokens of 15 kinds | tokens are the longest words, the parser accepts the declared language, operators group from the left |
| `query_engine` | 18 queries, 8 rows of 2 agents, with a group and without, any of them stored before or meanwhile; a request that names an agent, a group, both or neither; limit 3 | selection, grouping, rates and quantiles against their definitions |

`closed_not_offline` shows where the code and its comment disagree (the finding in
`PROJECT.json`): server.go:145 says "Mark all agents on this connection as offline in
storage", but an agent that reconnected before its old connection was removed is in no
connection's set, and when it leaves, its row stays online for ever.

The models show further behaviours that differ from what a comment, a name or a test
says. They are in the modules as the code has them, without a property or a run of their own:

- http_server.go:124 "Submit raw bytes to worker pool for async processing": an accepted
  item that leaves out a resource or a scope makes parser.go:57 or 66 read through a nil pointer;
  nothing recovers, and what the pool held is lost (`ParsePanics`).
- server.go:427 "Auto-create group if it doesn't exist": lookup and insert are two
  calls and names are not unique, so two agents can create a group twice (`CreateGroup`).
- groups.go:215 "Send config to all agents in the group": `GroupID` in memory is
  overwritten by each description, so members that name their group only by name are
  missed (`ProcessAgentGrouping` of `AgentSessions`).
- server.go:331 "Apply config on first connect": grouping runs before the status is
  known, so a connection's first message finds no capability and is offered the empty
  configuration (`ProcessAgentGrouping` of `ConfigDelivery`).
- agent_config.go:11 "notified after the remote config is applied": the next message
  of any kind notifies, even if the Send failed (`UpdateStatus`).
- group_config_propagation_test.go:235, the agent's configuration takes priority: a
  push to the group replaces it (`SetCustomConfig`).
- groups.go:231 "Config assigned to group successfully": the version is that of the
  source plus one, so a configuration the group already had may stay its latest one
  (`HandleAssignConfig`; `StoreRow` of `GroupCommands`).
- config_sender.go:88 "Find agents in this group": an agent that left the group after it
  was cloned still gets the group's configuration, on whatever object it has by then (`FindAgent`).
- server.go:337 to 340: a grouping that read the group's latest row before a push stored
  its own may set it after the push has set the new one. So `JoinersMissNothing` says that a
  member was given the configuration, not that it ends with it (`GetConfigForAgent`, `SetInitialConfig`).
- server.go:411: an error of the lookup is taken for "no such agent", and the insert of one of two
  overlapping callbacks fails; the status they carried is lost until the next message
  (`GetAgent`, `CreateAgent`). `HeardIsStored` says that a row is left, not which status it has.
- groups.go:143: a group may be deleted between a handler's lookup and its insert, and takes
  its configurations along only where foreign keys are enforced, so rows may be left that
  belong to no group (`DeleteGroup`).
- config_sender.go:118 "successfully restarted": an agent counts as such once its object
  was found, the error of the Send is dropped (`RestartAgent`).
- main.go:331, the clean-up waits for its first tick: a process that is restarted more
  often than hourly never deletes anything (`Crash`, and why `ExpiredRowsGo` bounds crashes).
- duckdb.go:734 deletes by the client's timestamp: a record without one goes with the
  next round, one from the future outlives the retention (`DeleteOld`).
- enricher.go:76 overlays id and name separately: a row may have the id of the agent's
  stored group and the name of another group (`Overlay`).
- executor.go:490 makes a group's key of texts and bars: values that are empty or hold a
  bar may put results that differ into one group, which gets the labels of the first of
  them (`GroupKey`; `GroupedSumsAddUp` is about the other values, `PlainValues`).
- duckdb.go:488 "QueryTraces queries traces from DuckDB": `status_message` is never
  written and read into a string, so any span that matches makes the query fail (`Unscannable`).
- parser.go:70 "returns the AST": `count() by (x)` indexes an empty argument list
  (`QueryParser`).
- parser.go:542 "validates a Lawrence QL query string": what follows a complete query
  is ignored (`ParseQuery`, `Valid`).
- lawrence_ql.go:215 "Query error logs": the selector is applied again to attributes
  that lack the label (`ReadBy`).
- executor.go:138 "already applied in the query": only `=` was (`PushedOps`).
- lawrence_ql.go:97 "Parse agent ID if provided", :106 "Set group ID if provided": the request's
  agent and group replace what a selector of that name says; a query without one is not
  narrowed down (`PushedLabels`). Its limit (:111) is read by nothing; a query's is 1000.
- executor.go:138 "Apply additional filters": the statement has cut off what is beyond the
  limit by then, so rows that all selectors want may be missing from a short answer
  (`NewestFirst`; `SelectsWhatIsWanted` says which).
- executor.go:454 "based on timestamp and labels": the key has no labels (`ResultKey`).
- lawrence_ql.go:250 "per-second rate of requests": counters of several series are
  subtracted from each other (`ApplyIncrease`).

**Bounds.** The instances are the smallest in which the interesting cases meet. Three
items against a queue of one or two and two workers give a full queue, a worker that
drains while another still writes, and a submitter that comes late; a fourth item
would repeat one of these. Two connections are needed, and enough, for an agent to
overlap with itself and for two agents to share one. Two pushes overtake each other;
two connections make one object stale. `MaxUp = 1` lets a message wait while the
handler works, `MaxDown = 2` lets two messages to the agent be reordered with a
third that is still to be sent. `MaxFailures`, `MaxCrashes`, `MaxLost`,
`MaxRegroups` and `MaxConnections` bound only how often the environment acts. Requests
of `ConfigStore` are symmetric, since its runs have invariants only; elsewhere temporal
properties are checked in the same runs, and no symmetry is used. Deadlock checking is
off: pool and main may end, agents may stay silent, queries and requests end.

In `TelemetryStore`, `Retention = 1`, `StartTime = 2` and `MaxNow = 3` make a record of
time 0 expired at once, one of time 1 young at the start and expired at `MaxNow`, where the clock
stands still and the ticker does not; one fault (`MaxFaults`) is a failing lookup, write or
deletion, or a crash. Two requests of two and three records meet in two workers, one of
them with transactions in two tables. In `GroupCommands` an agent with two objects
(`MaxObjects`) can leave and come back under a call, a second one is a member that the
call comes to before or after; one call of either kind (`MaxCalls`) is enough for both
properties, which relate a call to the agents, not to another call. Overlapping pushes
are in `ConfigDelivery`.

Three requests are two that interleave and one whose row they both find; versions 1
and 3 are below, equal to and above those that are computed from them; `MaxClock = 2`
gives rows of equal and of different times.

Five characters are an operator or a word between two others, a string with an
escaped character, a number with a point and a unit. Twelve tokens hold a telemetry
query of a selector and a range as an operand or an argument, an aggregation by two
labels, and three operands. The rows of the engine have two series of one metric and
two times in common, two of them differ in the group only; a limit of three cuts five
metrics off, before or after what is left for the second filter.

**Fairness.** Weak fairness throughout, of goroutines that can run: a worker that
can take or must exit, a `Submit` or `Stop` whose timer runs, main after the signal,
the callbacks of a connection once called, a push once stored, the ticker and the
clean-up's goroutine. Nothing is assumed of
clients that send bodies, of signals, of agents that leave, or of pushes that start.
In `ConfigDelivery` the agent keeps sending, since OpAMP clients poll or send
heartbeats; without it, `Converges` fails when a Send is lost. `Handle` and
`Deliver(p)` are each one goroutine, so weak fairness of their disjunction is right.

## 4. Proofs

All are about the specifications without fairness and for any constants that satisfy
the modules' assumptions (`PoolAssumption`, `IngestAssumption`, `SessionAssumption`,
`DeliveryAssumption`, `GroupAssumption`, `StoreAssumption`, `TelemetryAssumption`, and of
the query engine `RowsAreTyped`, `LimitIsNumber`, `UnsetIsNoValue` and `QueriesAreTrees`; the
lexer and the parser have none). The assumptions say that sets are disjoint where the code tells their
members apart, that functions have their domains, that bounds are numbers, that rows have
the columns that the store's tables have, and that a query is a tree whose operands come first; TLC
evaluates each of them on the instances. The longest inductive invariants, `GroupInv` and
those of `TelemetryStore`, also hold on the instances of their runs according to TLC.

*IngestProofs, the pool.* `PoolInv` is inductive: an accepted, unprocessed item is once in
the queue or in one pair of hands (`InOnePlace`); once one worker has exited only late
items are queued (`ExitMeansDrained`); workers leave in order and exit empty-handed;
the store follows what is in hands. From it: `GracefulStop` (a `Stop` that returned
nil lost nothing accepted before it), `StoreAgrees`, and `PoolKeepsContract`, the
step simulation of `PoolContract`. `ExitMeansDrained` is the point: a worker takes
the default branch of its drain loop only on an empty queue, and what enters later is late.

*IngestProofs, the path.* `PoolInsideIsThePool` shows that handlers and main drive the pool only
by steps that `WorkerPool` has, so `PoolInv` and `GracefulStop` hold in the process as
well. `IngestInv` adds where a handler stands by where its `Submit` call stands
(`CallsFollowHandlers`), that a reply follows the call's end (`RepliesFollowCalls`), how
far the defers have come (`MainInOrder`: a receiver that was stopped in time has no
handler left), and that a late submission needs a receiver that was forced to stop
(`LateOnlyIfForced`). From it `PartsStopInOrder` and `RepliesAreTrue`, and, with
`GracefulStop`, `AcknowledgedIsHandled`: in a shutdown where nothing ran into a timeout
all accepted calls are early ones, and these the pool drains.

*AgentSessionsProofs.* `RegistryAgrees` and `ClosedForgotten` hold in every
environment, with overlaps, failures and crashes; so does `HeardStored`, which asks only
that no store call failed. It needs `RowsInv`: who is about to update has a row to update,
and the only agent of a connection that may lack one is the one its callback is at. The rest assumes `Orderly`: no
overlap, no failing store, no crash. Then `PresenceInv` is inductive: an agent speaks
on one connection, a handler at work carries its agent's last message and nobody
else writes its row, and `onDisconnect` has marked all but those it still has to.
From it `SpeakerReachable` (who speaks is registered with that connection),
`LastReportIsShown`, `ForgottenIsOffline` (who is not registered is not shown as connected), and
`SessionsKeepPresence`, the step simulation of `AgentPresence`. Without `Orderly` the
last three of these are false, as `closed_not_offline` shows for overlaps.

*ConfigDeliveryProofs.* `OfferAlwaysSet` and `NoWakeupIsLost` are inductive with the
type invariant. `QuietAgentsAreInSync` needs `SyncInv`, which follows two chains: a
report that is outdated or missing is followed by a later report or by a request for
one (`ReportsFollow`), and where the known report differs from the offer, a
comparison is still to come or the offer is under way (`OffersFollow`). When nothing
is under way both chains are closed, and the agent runs the offer.

*GroupCommandsProofs.* `AnswersAreComplete` and `JoinersAreNotMissed`. The first rests on
`AnswerInv`: in every stage of a call an agent is in exactly one place, to be cloned, to
be served, in hand or in the answer (`ServedOnce`); all that are in one of them were
members at some time of the call (`ServedWereMembers`); and who is a member throughout
is in one of them (`MembersAreServed`); an object that is still to be made is in no group
(`FreshObjects`). The second adds
`JoinersAreServed`: to a member that joined with its capability known, the push that
stored the latest row is owed in one of five ways (`Promised`): the callback is still to
read the row, or to set what it read, the push is still to come to the agent's object, or
has come, or has reported a failure. Storing a row turns all members into the third case,
joining starts with the first, and no step leaves the five.

*ConfigStoreProofs.* `SentSupersedes` says that none of the rows stored for an agent
before a request began to send it a configuration is its latest one once that request
has stored its row, for any number of requests. It is not inductive: `StoreInv` adds
that the version a sender has computed and not yet inserted is above those rows
(`VersionIsAbove`), that it still is when inserted (`StoredAbove`), and that rows
belong to requests that are done, so that no row is added later to what a request
found. Rows of others that come in between, with whatever version, are not concerned,
and deletions only take rows away. `StoresAgree` says that the loop of the memory store
finds what SQLite's `ORDER BY` may put first, whatever order the map is visited in: after
k rows the loop holds one of them that no other supersedes (`LoopFindsGreatest`).

*TelemetryStoreProofs.* `CommittedStays` needs that a worker's rows are the records of its
request, in order, and that it writes only what it has enriched (`WorkersInv`), so that a
row in the store never changes; that rows are records (`WrittenInv`); and that a cutoff
lies in the past by the retention. `RoundsAreClean` adds that what a round found is
committed (`FoundIsCommitted`): its place is not written again, although the records that
workers commit during the round may be as old. `RowsFollowTheRegistry` speaks of all rows
that have been looked up, in the store or in a worker's hands (`IsEnriched`): each is the
resource's own or overlaid by its agent's row (`OwnGroup`), the latter if the row was
known when the request was taken (`KnownGroup`) or if an earlier record of the agent has
found it (`Follows`), unless its own lookup failed. It is about hands as well as about the store because the rows of
one request are committed in batches, long after they were looked up.

*QueryTextProofs.* `EveryTextIsCut` is about any text: no bound on its length, any
alphabet, characters that start nothing included. `NextTokenFacts` says what one token
is, class by class of its first character; the strings need that the scan of
`ClosingQuote` stops at the first quote with an even number of backslashes before it
(`ClosingQuoteFacts`). `TokenizeCuts` carries this over the text, from its end backwards.
`EveryQueryIsParsed` is about any sequence of any kinds of tokens. Both the descent and the
declared language exist as functions (`ResultsFacts`, by position; `PhrasesFacts`, by the
length of the stretch). What a method returns without an error is a phrase of its kind
(`AllSound`, from the last position backwards). Conversely every phrase is read up to its
end, if no token follows that the method would go on with (`AllComplete`, from the shortest
phrase on): after a query no operator, after a primary no range and no `by`, after a list's
elements its closer. So what is accepted is the language (`AcceptedIsLanguage`). That a tree
groups from the left compares two runs of the parser, of a query and of what comes before
its last operator: the results at a position agree or the shorter run ends at the operator
(`AllSame`), hence the longer run makes one more turn of the loop on the same operands
(`GroupedOneMore`).

*QueryEngineProofs.* The four properties of the engine hold for any rows, queries, agents,
groups and limit. `EngineInv` says that the stack holds as many lists of results as the query's
tree says (`Heights`, the witness of `IsTree`), each a list of typed results, so that the
operands of a node are there when it is visited; `EngineTypeCorrect` follows.
`SelectionIsWhatIsWanted` rests on `WhereIsWanted`: for plain selectors the conditions that
went into the statement and the filter behind it together say what the selectors say,
neither more nor less. Column by column, the condition is the request's (`RequestFacts`: it
is never null, so a null column fails both) or that of the one selector about it. That each
row comes once, newest first, and that a missing row has as many others before it as the
limit, is counting (`NewestFacts`): a list without repetitions that reaches all of a finite
set has its length (`CountedList`), so a row that the statement found and cut off comes
after a full list.
`FunctionBounds` is about sorted lists of fractions, compared by cross products: an
interpolated value lies between its two neighbours (`Between`), so that quantiles grow along
the list (`QuantilesGrow`), and a sum lies between the least and the greatest number times
how many there are (`SumsAgainst`), which bounds the mean (`MeanWithin`).
`GroupSums` needs that a key has one reading (`KeysTell`, from the last label backwards: what
ends with a bar has no value for the last label, what ends otherwise has that value). So
groups and combinations of values are in bijection (`GroupCount`), and a group is the list of
those that are alike (`AlikeIsGroup`).

*Recursion.* The recursive functions of `tokenize`, of the parser and of the engine's loops
(`Keep`, `Total`, the extremes), and the folds of the memory store's loop and of
`FlattenSeq` are `CHOOSE` of a function that satisfies an equation. Each proof first constructs
such a function, then shows the fact by the least counterexample (`Least`, from the
library's theorem about minimal elements of well-founded orders, which, unlike its
induction rules, takes a set and no predicate).

Only model-checked: all liveness (`WorkersExit`, `ShutdownCompletes`,
`Converges`, `WaitersAreNotified`, `ExpiredRowsGo`) and the liveness
part of the two refinements, which need fairness and ENABLED, out of the proof system's reach.

## 5. Left out, and the plan

Not modelled, and why:

- *Outside the properties:* a second `Stop` of the pool (it panics; main calls it once);
  the columns of a record besides agent, group and time in `TelemetryStore`; health, effective
  configuration, and the description of an agent besides its group; connection settings
  and certificate requests, which are computed from one message, sent with its answer and
  read back by nothing; text, routing, SQL wording, logging, metrics.
- *Without a caller:* rollups (`CreateRollups`, `QueryRollups`, and main's job is
  empty), the first interface's `WriteMetrics`, `WriteLogs` and `WriteTraces`,
  `DeleteAgent`, `UpdateConfig` of the OpAMP server, `OfferAgentConnectionSettings`.
- *Read-only handlers* (lists, statistics, topology): a few statements each, which
  change nothing, and whose answers promise no common point in time. In the topology
  an edge may lead to a group that was deleted, or that only its agent's description names.
- *Of queries:* time ranges, floating-point rounding, the completion of half-typed texts,
  the letters and digits of Unicode. *Of stored configurations:* a clock that is set
  back, versions at the end of 64 bits, names and hashes.
- *Assumed:* hashes do not collide, `SequenceNum` does not wrap, an agent does not change
  its capabilities on a connection (the code keeps those of the first message), and one
  row per id is what a table's primary key enforces.

In `ConfigDelivery` a configuration that an agent rejects is not told apart from one it
accepts, since the server compares hashes only; `HandleUpdateConfig` and
`HandleCreateConfig` for an agent store and do not push, which leaves the delivery as it is.

The modules, most important first; all are written:

1. `WorkerPool`, `PoolContract`, `Ingest`: what happens to data a client was told is accepted.
2. `AgentSessions`, `AgentPresence`: what the server believes of its agents.
3. `ConfigDelivery`: how a configuration reaches an agent.
4. `QueryLexer`, `QueryParser`, `QueryText`, `QueryEngine`: what a query means.
5. `ConfigStore`: which configuration is an agent's or a group's.
6. `TelemetryStore`: what becomes of the records, and when they go.
7. `GroupCommands`: calls for a group while its agents come and go.

Every invariant and every action property that a passing run checks is a theorem. Planned:

8. Composition of `AgentSessions` with `ConfigDelivery`: overlapping connections of an
   agent with pushes under way.
