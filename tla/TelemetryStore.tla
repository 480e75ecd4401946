--------------------------- MODULE TelemetryStore ---------------------------
(***************************************************************************)
(* What becomes of the records of a request: the parser converts them, the *)
(* enricher looks up the group of each record's agent, the store commits   *)
(* them batch by batch, and the hourly clean-up deletes what is older than *)
(* the retention (internal/otlp/parser, internal/otlp/processor,           *)
(* internal/storage/telemetrystore/duckdb, startCleanupTask of             *)
(* cmd/all-in-one/main.go).  Workers, clean-up and the registration of     *)
(* agents interleave, statements fail and the process crashes.             *)
(***************************************************************************)
EXTENDS Integers, Sequences

CONSTANTS
  Workers,
  Items,         \* requests in the pool's queue
  Points,        \* Points[i][t]: the records of request i for table t
  BatchSize,     \* rows of a transaction, by table
  Texts,         \* values of attributes
  Agents,        \* the texts that are UUIDs
  GroupIDs,      \* the texts that may be a group's id (8 to 128 bytes)
  GroupNames,    \* the texts that may be a group's name
  AgentGroups,   \* the groups an agent may be stored with
  NoText,        \* the empty text, or no attribute
  DefaultAgent,  \* the text "default"
  NoItem, NoRow,
  Retention,     \* in hours
  StartTime, MaxNow,  \* bounds of the clock
  MaxFaults      \* bound of failing statements and crashes

(* The tables in the order of the clean-up's statements, which for metrics *)
(* is also the order of enriching and writing.                             *)
Order == <<"metrics_sum", "metrics_gauge", "metrics_histogram", "logs", "traces">>
Tables == {Order[j] : j \in 1..5}

Groups == [gid : Texts, gname : Texts]
Attributes == [instance : Texts, gid : Texts, gname : Texts, time : Int]
Row == [item : Items, table : Tables, pos : Nat, time : Int,
        agent : Texts, gid : Texts, gname : Texts]

ASSUME TelemetryAssumption ==
  /\ Points \in [Items -> [Tables -> Seq(Attributes)]]
  /\ BatchSize \in [Tables -> Nat \ {0}]
  /\ {NoText, DefaultAgent} \subseteq Texts
  /\ Agents \cup GroupIDs \cup GroupNames \subseteq Texts
  /\ DefaultAgent \notin Agents /\ NoText \notin Agents \cup GroupIDs \cup GroupNames
  /\ AgentGroups \subseteq Groups /\ NoRow \notin Groups
  /\ NoItem \notin Items
  /\ Retention \in Nat /\ StartTime \in Nat /\ MaxNow \in Nat /\ MaxFaults \in Nat
  /\ StartTime <= MaxNow

VARIABLES
  item,       \* [Workers -> the request a worker processes]
  rows,       \* [Workers -> by table, the parsed records]
  looked,     \* [Workers -> by table, how many of them are enriched]
  fate,       \* [Items -> "queued", "taken", "written", "failed", "lost"]
  committed,  \* [Items -> by table, how many records were committed]
  store,      \* the rows of the five tables
  agents,     \* the agents' rows in the application store
  now,        \* the clock
  due,        \* the ticker's channel holds a tick
  round,      \* the clean-up: "none", "running", "done", "failed"
  step,       \* the statement it has come to
  cutoff,     \* its cutoffTime
  faults,
  known,      \* history: agents stored when a request was taken
  missed,     \* history: records whose lookup failed
  found       \* history: the rows stored when the clean-up began

workVars == <<item, rows, looked, fate, committed>>
cleanVars == <<due, round, step, cutoff, found>>
telemetryVars ==
  <<workVars, store, agents, now, cleanVars, faults, known, missed>>

NoCounts == [t \in Tables |-> 0]
NoRows == [t \in Tables |-> <<>>]

TelemetryInit ==
  /\ item = [w \in Workers |-> NoItem]
  /\ rows = [w \in Workers |-> NoRows]
  /\ looked = [w \in Workers |-> NoCounts]
  /\ fate = [i \in Items |-> "queued"]
  /\ committed = [i \in Items |-> NoCounts]
  /\ store = {}
  /\ agents = [a \in Agents |-> NoRow]
  /\ now = StartTime
  /\ due = FALSE
  /\ round = "none"
  /\ step = 1
  /\ cutoff = 0
  /\ faults = 0
  /\ known = [i \in Items |-> {}]
  /\ missed = {}
  /\ found = {}

Id(r) == <<r.item, r.table, r.pos>>

(* The table at which work that goes through lists of the given lengths,   *)
(* one table after the other, has arrived after the given counts.          *)
At(t, counts, lists) ==
  \E j \in 1..5 :
    /\ Order[j] = t
    /\ counts[t] < Len(lists[t])
    /\ \A h \in 1..(j - 1) : counts[Order[h]] = Len(lists[Order[h]])

Through(counts, lists) == \A t \in Tables : counts[t] = Len(lists[t])

-----------------------------------------------------------------------------
(* The parser.                                                             *)

GetAgentID(p) == IF p.instance = NoText THEN DefaultAgent ELSE p.instance

ExtractGroupInfo(p) ==
  [gid |-> IF p.gid \in GroupIDs THEN p.gid ELSE NoText,
   gname |-> IF p.gname \in GroupNames THEN p.gname ELSE NoText]

ParsedRow(i, t, k) ==
  LET p == Points[i][t][k]
      group == ExtractGroupInfo(p)
  IN  [item |-> i, table |-> t, pos |-> k, time |-> p.time,
       agent |-> GetAgentID(p), gid |-> group.gid, gname |-> group.gname]

Parsed(i) == [t \in Tables |-> [k \in DOMAIN Points[i][t] |-> ParsedRow(i, t, k)]]

(* a worker receives the request and parses it *)
Take(w, i) ==
  /\ item[w] = NoItem
  /\ fate[i] = "queued"
  /\ item' = [item EXCEPT ![w] = i]
  /\ rows' = [rows EXCEPT ![w] = Parsed(i)]
  /\ looked' = [looked EXCEPT ![w] = NoCounts]
  /\ fate' = [fate EXCEPT ![i] = "taken"]
  /\ known' = [known EXCEPT ![i] = {a \in Agents : agents[a] # NoRow}]
  /\ UNCHANGED <<committed, store, agents, now, cleanVars, faults, missed>>

-----------------------------------------------------------------------------
(* The enricher: one lookup per record.                                    *)

Overlay(r, group) ==
  [r EXCEPT !.gid = IF group.gid # NoText THEN group.gid ELSE @,
            !.gname = IF group.gname # NoText THEN group.gname ELSE @]

(* what the lookup makes of row r *)
Enriched(r) ==
  IF r.agent \in Agents /\ agents[r.agent] # NoRow THEN Overlay(r, agents[r.agent]) ELSE r

\* Faulty: an agent that is not found ends the loop over the records.
EnrichStops(w, t) ==
  LET k == looked[w][t] + 1
      r == rows[w][t][k]
  IN  /\ item[w] # NoItem
      /\ At(t, looked[w], rows[w])
      /\ rows' = [rows EXCEPT ![w][t][k] = Enriched(r)]
      /\ looked' = [looked EXCEPT ![w][t] =
                      IF r.agent \in Agents /\ agents[r.agent] # NoRow THEN k ELSE Len(rows[w][t])]
      /\ UNCHANGED <<item, fate, committed, store, agents, now, cleanVars, faults, known, missed>>

(* enrichTelemetry of the next record, of table t *)
Enrich(w, t) ==
  LET k == looked[w][t] + 1
  IN  /\ item[w] # NoItem
      /\ At(t, looked[w], rows[w])
      /\ rows' = [rows EXCEPT ![w][t][k] = Enriched(rows[w][t][k])]
      /\ looked' = [looked EXCEPT ![w][t] = k]
      /\ UNCHANGED <<item, fate, committed, store, agents, now, cleanVars, faults, known, missed>>

Fault == faults < MaxFaults /\ faults' = faults + 1

(* GetAgent returns an error: the record stays as it is *)
LookupFails(w, t) ==
  LET k == looked[w][t] + 1
  IN  /\ item[w] # NoItem
      /\ At(t, looked[w], rows[w])
      /\ rows[w][t][k].agent \in Agents
      /\ Fault
      /\ looked' = [looked EXCEPT ![w][t] = k]
      /\ missed' = missed \cup {<<item[w], t, k>>}
      /\ UNCHANGED <<item, rows, fate, committed, store, agents, now, cleanVars, known>>

-----------------------------------------------------------------------------
(* The writes.                                                             *)

Min2(m, n) == IF m <= n THEN m ELSE n

(* the end of the transaction that begins after n rows of table t *)
BatchEnd(w, t, n) == Min2(n + BatchSize[t], Len(rows[w][t]))

Writing(w) == item[w] # NoItem /\ Through(looked[w], rows[w])

\* Faulty: the last batch is not cut off at the end of the list.
CommitBatchWhole(w, t) ==
  LET n == committed[item[w]][t]
  IN  /\ Writing(w)
      /\ At(t, committed[item[w]], rows[w])
      /\ store' = store \cup {rows[w][t][k] : k \in (n + 1)..BatchEnd(w, t, n)}
      /\ committed' = [committed EXCEPT ![item[w]][t] = n + BatchSize[t]]
      /\ UNCHANGED <<item, rows, looked, fate, agents, now, cleanVars, faults, known, missed>>

(* the transaction of the next rows, of table t, commits *)
CommitBatch(w, t) ==
  LET n == committed[item[w]][t]
  IN  /\ Writing(w)
      /\ At(t, committed[item[w]], rows[w])
      /\ store' = store \cup {rows[w][t][k] : k \in (n + 1)..BatchEnd(w, t, n)}
      /\ committed' = [committed EXCEPT ![item[w]][t] = BatchEnd(w, t, n)]
      /\ UNCHANGED <<item, rows, looked, fate, agents, now, cleanVars, faults, known, missed>>

(* processItem returns *)
Release(w, result) ==
  /\ fate' = [fate EXCEPT ![item[w]] = result]
  /\ item' = [item EXCEPT ![w] = NoItem]
  /\ rows' = [rows EXCEPT ![w] = NoRows]
  /\ looked' = [looked EXCEPT ![w] = NoCounts]

\* Faulty: the rows of a failed transaction are passed over.
WriteSkips(w) ==
  /\ Fault
  /\ \E t \in Tables :
       /\ Writing(w)
       /\ At(t, committed[item[w]], rows[w])
       /\ committed' = [committed EXCEPT ![item[w]][t] = BatchEnd(w, t, @)]
  /\ UNCHANGED <<item, rows, looked, fate, store, agents, now, cleanVars, known, missed>>

(* it fails: nothing of it is stored, and the rest is not written *)
WriteFails(w) ==
  /\ Writing(w)
  /\ \E t \in Tables : At(t, committed[item[w]], rows[w])
  /\ Fault
  /\ Release(w, "failed")
  /\ UNCHANGED <<committed, store, agents, now, cleanVars, known, missed>>

WriteReturns(w) ==
  /\ Writing(w)
  /\ Through(committed[item[w]], rows[w])
  /\ Release(w, "written")
  /\ UNCHANGED <<committed, store, agents, now, cleanVars, faults, known, missed>>

-----------------------------------------------------------------------------
(* The clean-up.                                                           *)

(* An hour passes and the ticker sends, unless the tick before is still in *)
(* its channel.  At MaxNow the clock stands still, the ticker does not.    *)
Tick ==
  /\ now' = Min2(now + 1, MaxNow)
  /\ due' = TRUE
  /\ UNCHANGED <<workVars, store, agents, round, step, cutoff, found, faults, known, missed>>

\* Faulty: the task reads the clock when it is started, not in each round.
StartCleanupOnce ==
  /\ due /\ round # "running"
  /\ due' = FALSE
  /\ round' = "running"
  /\ step' = 1
  /\ cutoff' = StartTime - Retention
  /\ found' = {Id(r) : r \in store}
  /\ UNCHANGED <<workVars, store, agents, now, faults, known, missed>>

StartCleanup ==
  /\ due /\ round # "running"
  /\ due' = FALSE
  /\ round' = "running"
  /\ step' = 1
  /\ cutoff' = now - Retention
  /\ found' = {Id(r) : r \in store}
  /\ UNCHANGED <<workVars, store, agents, now, faults, known, missed>>

(* DELETE FROM the next table WHERE timestamp < cutoff *)
DeleteOld ==
  /\ round = "running"
  /\ store' = {r \in store : r.table # Order[step] \/ r.time >= cutoff}
  /\ round' = IF step = 5 THEN "done" ELSE "running"
  /\ step' = IF step = 5 THEN 1 ELSE step + 1
  /\ UNCHANGED <<workVars, agents, now, due, cutoff, found, faults, known, missed>>

\* Faulty: the error is logged and the next table is cleaned up.
CleanupGoesOn ==
  /\ round = "running"
  /\ Fault
  /\ round' = IF step = 5 THEN "done" ELSE "running"
  /\ step' = IF step = 5 THEN 1 ELSE step + 1
  /\ UNCHANGED <<workVars, store, agents, now, due, cutoff, found, known, missed>>

(* the statement fails: the tables that are left wait for the next round *)
CleanupFails ==
  /\ round = "running"
  /\ Fault
  /\ round' = "failed"
  /\ step' = 1
  /\ UNCHANGED <<workVars, store, agents, now, due, cutoff, found, known, missed>>

-----------------------------------------------------------------------------
(* The surroundings.                                                       *)

(* an agent's first message: CreateAgent stores it with its group *)
Register(a, g) ==
  /\ agents[a] = NoRow
  /\ agents' = [agents EXCEPT ![a] = g]
  /\ UNCHANGED <<workVars, store, now, cleanVars, faults, known, missed>>

(* The process ends and is started again: what workers held is lost, what  *)
(* was committed is not; the new ticker waits for an hour.                 *)
Crash ==
  /\ Fault
  /\ item' = [w \in Workers |-> NoItem]
  /\ rows' = [w \in Workers |-> NoRows]
  /\ looked' = [w \in Workers |-> NoCounts]
  /\ fate' = [i \in Items |-> IF fate[i] = "taken" THEN "lost" ELSE fate[i]]
  /\ due' = FALSE
  /\ round' = "none"
  /\ step' = 1
  /\ cutoff' = 0
  /\ found' = {}
  /\ UNCHANGED <<committed, store, agents, now, known, missed>>

-----------------------------------------------------------------------------
WorkerStep(w) ==
  \/ \E i \in Items : Take(w, i)
  \/ \E t \in Tables : Enrich(w, t) \/ LookupFails(w, t) \/ CommitBatch(w, t)
  \/ WriteFails(w)
  \/ WriteReturns(w)

CleanupStep == StartCleanup \/ DeleteOld \/ CleanupFails

TelemetryNext ==
  \/ \E w \in Workers : WorkerStep(w)
  \/ Tick
  \/ CleanupStep
  \/ \E a \in Agents, g \in AgentGroups : Register(a, g)
  \/ Crash

TelemetrySpec == TelemetryInit /\ [][TelemetryNext]_telemetryVars

(* The ticker ticks and the clean-up's goroutine goes on.                  *)
TelemetryFairness == WF_telemetryVars(Tick) /\ WF_telemetryVars(CleanupStep)

FairTelemetrySpec == TelemetrySpec /\ TelemetryFairness

-----------------------------------------------------------------------------
(* Properties.                                                             *)

(* The variables have their types; a worker's request is taken by nobody   *)
(* else, and it is written table by table.                                 *)
TelemetryTypeOK ==
  /\ item \in [Workers -> Items \cup {NoItem}]
  /\ fate \in [Items -> {"queued", "taken", "written", "failed", "lost"}]
  /\ \A v, w \in Workers : item[v] = item[w] /\ v # w => item[v] = NoItem
  /\ \A w \in Workers : item[w] # NoItem =>
       /\ fate[item[w]] = "taken"
       /\ rows[w] \in [Tables -> Seq(Row)]
       /\ \A t \in Tables : /\ Len(rows[w][t]) = Len(Points[item[w]][t])
                            /\ looked[w][t] \in 0..Len(rows[w][t])
  /\ committed \in [Items -> [Tables -> Nat]]
  /\ \A i \in Items, t \in Tables : committed[i][t] <= Len(Points[i][t])
  /\ store \subseteq Row
  /\ agents \in [Agents -> AgentGroups \cup {NoRow}]
  /\ now \in StartTime..MaxNow /\ due \in BOOLEAN
  /\ round \in {"none", "running", "done", "failed"} /\ step \in 1..5 /\ cutoff \in Int
  /\ faults \in 0..MaxFaults
  /\ known \in [Items -> SUBSET Agents]

(***************************************************************************)
(* What is committed stays until it is older than the retention: whatever  *)
(* the clean-up and the workers do at a time, whether rounds fail half-way *)
(* or the process crashes, a committed record has its one row unless its   *)
(* own timestamp has expired, and there are no rows but these.             *)
(***************************************************************************)
Expired(time) == time < now - Retention

CommittedUntilExpired ==
  /\ \A i \in Items, t \in Tables : \A k \in 1..committed[i][t] :
       (\E r \in store : Id(r) = <<i, t, k>>) \/ Expired(Points[i][t][k].time)
  /\ \A r \in store : r.pos \in 1..committed[r.item][r.table]
  /\ \A r, s \in store : Id(r) = Id(s) => r = s

(***************************************************************************)
(* Rows belong to the agent and the group of their resource; the group of  *)
(* the agent's own row goes before, for all records of a request if it was *)
(* stored when the request was taken, and otherwise from some record on:   *)
(* a group once found is not lost again within a request, except where     *)
(* the lookup itself failed.                                               *)
(***************************************************************************)
InGroup(r, group) == Overlay(r, group) = r

GroupsFollowTheRegistry ==
  \A r \in store :
    LET claim == ParsedRow(r.item, r.table, r.pos)
        mine == {s \in store : s.item = r.item /\ s.table = r.table /\ s.agent = r.agent}
        stored == r.agent \in Agents /\ agents[r.agent] # NoRow
    IN  /\ \/ r = claim
           \/ stored /\ r = Overlay(claim, agents[r.agent])
        /\ Id(r) \notin missed /\ stored =>
             /\ r.agent \in known[r.item] => InGroup(r, agents[r.agent])
             /\ \A s \in mine : s.pos < r.pos /\ s # ParsedRow(s.item, s.table, s.pos)
                                => InGroup(r, agents[r.agent])

(***************************************************************************)
(* A round of the clean-up leaves no row behind that it found when it      *)
(* began and that is older than its cutoff, neither in the tables it has   *)
(* come through nor, when it reports success, in any; what workers commit  *)
(* behind its back waits for the next round.                               *)
(***************************************************************************)
Swept(t) ==
  \/ round = "done"
  \/ round = "running" /\ \E j \in 1..(step - 1) : Order[j] = t

SweptIsClean ==
  \A r \in store : Swept(r.table) /\ Id(r) \in found => r.time >= cutoff

(***************************************************************************)
(* Rows that are older than the retention are deleted in the end, if       *)
(* statements do not fail, and the process does not crash, for ever: again *)
(* and again, the store has none.  (The requests are finitely many; a      *)
(* client that goes on sending old records has some stored at any time.)   *)
(***************************************************************************)
ExpiredRowsGo == []<>(\A r \in store : ~Expired(r.time))
=============================================================================
