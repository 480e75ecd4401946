------------------------- MODULE TelemetryStoreProofs -------------------------
(***************************************************************************)
(* Proofs about TelemetryStore, for any workers, requests, batches and     *)
(* agents, and any number of faults: type correctness; that a committed    *)
(* record stays until it expires; that a round of the clean-up leaves none *)
(* behind; and that rows follow the registry.                              *)
(***************************************************************************)
EXTENDS TelemetryStore, TLAPS

Busy(w) == item[w] # NoItem

(* The record that row r has been made of.                                 *)
IsRecord(r) ==
  LET p == Points[r.item][r.table][r.pos]
  IN  /\ r.pos \in 1..Len(Points[r.item][r.table])
      /\ r.time = p.time /\ r.agent = GetAgentID(p)

(* A request that no worker has taken has nothing in the store.            *)
Untouched(i) == \A t \in Tables : committed[i][t] = 0

WorkTyped ==
  /\ TelemetryTypeOK
  /\ rows \in [Workers -> [Tables -> Seq(Row)]]
  /\ looked \in [Workers -> [Tables -> Nat]]
  /\ \A i \in Items : fate[i] = "queued" => Untouched(i)

(* The rows of a worker are those of its request, in order; the ones that  *)
(* are not enriched are as the parser made them; and what it has committed *)
(* it has enriched before.                                                 *)
HandIsRecords(w) ==
  Busy(w) =>
    \A t \in Tables : \A k \in 1..Len(rows[w][t]) :
      /\ Id(rows[w][t][k]) = <<item[w], t, k>>
      /\ IsRecord(rows[w][t][k])
      /\ k > looked[w][t] => rows[w][t][k] = ParsedRow(item[w], t, k)

EnrichedFirst(w) == Busy(w) /\ ~Through(looked[w], rows[w]) => Untouched(item[w])

WorkersInv == \A w \in Workers : HandIsRecords(w) /\ EnrichedFirst(w)

(* a round's cutoff is in the past of the retention *)
CutoffIsPast == round = "running" => cutoff <= now - Retention

WrittenInv ==
  /\ CommittedUntilExpired
  /\ \A r \in store : IsRecord(r)
  /\ CutoffIsPast

(* What a round has found is committed: its place is not written again.    *)
FoundIsCommitted ==
  \A i \in Items, t \in Tables, k \in Nat : <<i, t, k>> \in found => k <= committed[i][t]

(* The rows that have been looked up, in the store or in a worker's hand.  *)
IsEnriched(r) ==
  \/ r \in store
  \/ \E w \in Workers : Busy(w) /\ \E t \in Tables : \E k \in 1..looked[w][t] : r = rows[w][t][k]

Stored(a) == a \in Agents /\ agents[a] # NoRow
Claim(r) == ParsedRow(r.item, r.table, r.pos)

OwnGroup(r) == r = Claim(r) \/ (Stored(r.agent) /\ r = Overlay(Claim(r), agents[r.agent]))

KnownGroup(r) ==
  Id(r) \notin missed /\ Stored(r.agent) /\ r.agent \in known[r.item]
    => InGroup(r, agents[r.agent])

(* s shows that the agent's group had been found before r was looked up *)
Follows(r, s) ==
  s.item = r.item /\ s.table = r.table /\ s.agent = r.agent /\ s.pos < r.pos /\ s # Claim(s)
  /\ Id(r) \notin missed /\ Stored(r.agent)
    => InGroup(r, agents[r.agent])

GroupsInv ==
  /\ \A r \in Row : IsEnriched(r) => OwnGroup(r) /\ KnownGroup(r)
  /\ \A r, s \in Row : IsEnriched(r) /\ IsEnriched(s) => Follows(r, s)
  /\ \A i \in Items : known[i] \subseteq {a \in Agents : agents[a] # NoRow}

-----------------------------------------------------------------------------
(* Records and rows.                                                       *)

LEMMA PointFacts ==
  ASSUME NEW i \in Items, NEW t \in Tables
  PROVE  /\ Points[i][t] \in Seq(Attributes) /\ Len(Points[i][t]) \in Nat
         /\ DOMAIN Points[i][t] = 1..Len(Points[i][t])
         /\ \A k \in 1..Len(Points[i][t]) : Points[i][t][k] \in Attributes
BY TelemetryAssumption

LEMMA ParsedRowFacts ==
  ASSUME NEW i \in Items, NEW t \in Tables, NEW k \in 1..Len(Points[i][t])
  PROVE  /\ ParsedRow(i, t, k) \in Row
         /\ Id(ParsedRow(i, t, k)) = <<i, t, k>>
         /\ IsRecord(ParsedRow(i, t, k))
         /\ Claim(ParsedRow(i, t, k)) = ParsedRow(i, t, k)
<1> DEFINE p == Points[i][t][k]
           gid == IF p.gid \in GroupIDs THEN p.gid ELSE NoText
           gname == IF p.gname \in GroupNames THEN p.gname ELSE NoText
<1>1. /\ p.time \in Int /\ GetAgentID(p) \in Texts /\ gid \in Texts /\ gname \in Texts
  BY PointFacts, TelemetryAssumption DEF Attributes, GetAgentID
<1>2. k \in Nat
  BY PointFacts
<1>3. ParsedRow(i, t, k) = [item |-> i, table |-> t, pos |-> k, time |-> p.time,
                            agent |-> GetAgentID(p), gid |-> gid, gname |-> gname]
  BY DEF ParsedRow, ExtractGroupInfo
<1> HIDE DEF gid, gname
<1> QED BY <1>1, <1>2, <1>3 DEF Row, Id, IsRecord, Claim

LEMMA ParsedFacts ==
  ASSUME NEW i \in Items
  PROVE  /\ Parsed(i) \in [Tables -> Seq(Row)]
         /\ \A t \in Tables :
              /\ Len(Parsed(i)[t]) = Len(Points[i][t])
              /\ \A k \in 1..Len(Points[i][t]) : Parsed(i)[t][k] = ParsedRow(i, t, k)
<1>1. ASSUME NEW t \in Tables
      PROVE  /\ Parsed(i)[t] \in Seq(Row) /\ Len(Parsed(i)[t]) = Len(Points[i][t])
             /\ \A k \in 1..Len(Points[i][t]) : Parsed(i)[t][k] = ParsedRow(i, t, k)
  <2>1. Parsed(i)[t] = [k \in 1..Len(Points[i][t]) |-> ParsedRow(i, t, k)]
    BY PointFacts DEF Parsed
  <2>2. Parsed(i)[t] \in [1..Len(Points[i][t]) -> Row]
    BY <2>1, ParsedRowFacts
  <2> QED BY <2>1, <2>2, PointFacts
<1>2. Parsed(i) = [t \in Tables |-> Parsed(i)[t]]
  BY DEF Parsed
<1> QED BY <1>1, <1>2

(* The group's fields of a row are overlaid, and nothing else.             *)
LEMMA OverlayFacts ==
  ASSUME NEW r \in Row, NEW g \in Groups
  PROVE  /\ Overlay(r, g) \in Row
         /\ Overlay(r, g).item = r.item /\ Overlay(r, g).table = r.table
         /\ Overlay(r, g).pos = r.pos /\ Overlay(r, g).time = r.time
         /\ Overlay(r, g).agent = r.agent
         /\ Overlay(r, g).gid = IF g.gid # NoText THEN g.gid ELSE r.gid
         /\ Overlay(r, g).gname = IF g.gname # NoText THEN g.gname ELSE r.gname
<1>1. Overlay(r, g) = [item |-> r.item, table |-> r.table, pos |-> r.pos, time |-> r.time,
                       agent |-> r.agent,
                       gid |-> IF g.gid # NoText THEN g.gid ELSE r.gid,
                       gname |-> IF g.gname # NoText THEN g.gname ELSE r.gname]
  <2> DEFINE gid == IF g.gid # NoText THEN g.gid ELSE r.gid
             gname == IF g.gname # NoText THEN g.gname ELSE r.gname
  <2>1. Overlay(r, g) = [r EXCEPT !.gid = gid, !.gname = gname]
    BY Zenon DEF Overlay
  <2> HIDE DEF gid, gname
  <2>2. gid \in Texts
    BY DEF gid, Row, Groups
  <2>3. PICK o \in Row : /\ o = [r EXCEPT !.gid = gid]
                         /\ o.item = r.item /\ o.table = r.table /\ o.pos = r.pos
                         /\ o.time = r.time /\ o.agent = r.agent /\ o.gid = gid
    <3> DEFINE o == [item |-> r.item, table |-> r.table, pos |-> r.pos, time |-> r.time,
                     agent |-> r.agent, gid |-> gid, gname |-> r.gname]
    <3>1. o \in Row
      BY <2>2 DEF Row
    <3>2. o = [r EXCEPT !.gid = gid]
      BY DEF Row
    <3> QED BY <3>1, <3>2
  <2>4. Overlay(r, g) = [o EXCEPT !.gname = gname]
    BY <2>1, <2>3, Zenon
  <2>5. [o EXCEPT !.gname = gname] =
          [item |-> o.item, table |-> o.table, pos |-> o.pos, time |-> o.time,
           agent |-> o.agent, gid |-> o.gid, gname |-> gname]
    BY DEF Row
  <2> QED BY <2>3, <2>4, <2>5 DEF gid, gname
<1> QED BY <1>1 DEF Row, Groups

LEMMA OverlaidTwice ==
  ASSUME NEW r \in Row, NEW g \in Groups
  PROVE  InGroup(Overlay(r, g), g)
<1> DEFINE x == Overlay(r, g)
           y == Overlay(x, g)
<1>1. x \in Row /\ y \in Row
  BY OverlayFacts
<1>2. /\ y.item = x.item /\ y.table = x.table /\ y.pos = x.pos /\ y.time = x.time
      /\ y.agent = x.agent /\ y.gid = x.gid /\ y.gname = x.gname
  BY <1>1, OverlayFacts
<1> HIDE DEF x, y
<1>3. y = x
  BY <1>1, <1>2 DEF Row
<1> QED BY <1>3 DEF InGroup, x, y

LEMMA EnrichedFacts ==
  ASSUME NEW r \in Row, agents \in [Agents -> AgentGroups \cup {NoRow}]
  PROVE  /\ Enriched(r) \in Row /\ Id(Enriched(r)) = Id(r)
         /\ Enriched(r).agent = r.agent
         /\ IsRecord(r) => IsRecord(Enriched(r))
<1>1. CASE Stored(r.agent)
  <2>1. agents[r.agent] \in Groups
    BY <1>1, TelemetryAssumption DEF Stored
  <2>2. Enriched(r) = Overlay(r, agents[r.agent])
    BY <1>1 DEF Stored, Enriched
  <2>3. /\ Enriched(r) \in Row
        /\ Enriched(r).item = r.item /\ Enriched(r).table = r.table /\ Enriched(r).pos = r.pos
        /\ Enriched(r).time = r.time /\ Enriched(r).agent = r.agent
    BY <2>1, <2>2, OverlayFacts
  <2>4. Id(Enriched(r)) = Id(r) /\ (IsRecord(r) => IsRecord(Enriched(r)))
    BY <2>3, Zenon DEF Id, IsRecord
  <2> QED BY <2>3, <2>4
<1>2. CASE ~Stored(r.agent)
  BY <1>2 DEF Stored, Enriched
<1> QED BY <1>1, <1>2

(* Writing one row leaves the others, the types and the lengths alone.     *)
LEMMA RowsUpdate ==
  ASSUME rows \in [Workers -> [Tables -> Seq(Row)]],
         NEW w \in Workers, NEW t \in Tables, NEW k \in 1..Len(rows[w][t]), NEW x \in Row,
         rows' = [rows EXCEPT ![w][t][k] = x]
  PROVE  /\ rows' \in [Workers -> [Tables -> Seq(Row)]]
         /\ \A v \in Workers, u \in Tables :
              /\ Len(rows'[v][u]) = Len(rows[v][u])
              /\ \A j \in 1..Len(rows[v][u]) :
                   rows'[v][u][j] = IF v = w /\ u = t /\ j = k THEN x ELSE rows[v][u][j]
<1>1. rows[w][t] \in Seq(Row)
  OBVIOUS
<1> DEFINE q == [rows[w][t] EXCEPT ![k] = x]
<1>2. /\ q \in Seq(Row) /\ Len(q) = Len(rows[w][t])
      /\ \A j \in 1..Len(rows[w][t]) : q[j] = IF j = k THEN x ELSE rows[w][t][j]
  BY <1>1
<1>3. rows' = [rows EXCEPT ![w] = [rows[w] EXCEPT ![t] = q]]
  OBVIOUS
<1> HIDE DEF q
<1>4. \A v \in Workers, u \in Tables :
        rows'[v][u] = IF v = w /\ u = t THEN q ELSE rows[v][u]
  <2> DEFINE f == [rows[w] EXCEPT ![t] = q]
  <2>1. rows[w] \in [Tables -> Seq(Row)]
    OBVIOUS
  <2>2. \A u \in Tables : f[u] = IF u = t THEN q ELSE rows[w][u]
    BY <2>1
  <2> HIDE DEF f
  <2>3. rows' = [rows EXCEPT ![w] = f]
    BY <1>3 DEF f
  <2>4. \A v \in Workers : rows'[v] = IF v = w THEN f ELSE rows[v]
    BY <2>3
  <2> QED BY <2>2, <2>4
<1>5. rows' \in [Workers -> [Tables -> Seq(Row)]]
  BY <1>2, <1>3
<1> QED BY <1>2, <1>4, <1>5

-----------------------------------------------------------------------------
(* What the steps write.                                                   *)

Kept(w) == item'[w] = item[w] /\ rows'[w] = rows[w] /\ looked'[w] = looked[w]

RowsTyped == rows \in [Workers -> [Tables -> Seq(Row)]] /\ looked \in [Workers -> [Tables -> Nat]]

LEMMA NothingFacts ==
  /\ NoRows \in [Tables -> Seq(Row)] /\ NoCounts \in [Tables -> Nat]
  /\ \A t \in Tables : Len(NoRows[t]) = 0 /\ NoCounts[t] = 0
BY DEF NoRows, NoCounts

LEMMA TakeWrites ==
  ASSUME WorkTyped, NEW w \in Workers, NEW i \in Items, Take(w, i)
  PROVE  /\ RowsTyped'
         /\ \A v \in Workers : v # w => Kept(v)
         /\ item'[w] = i /\ rows'[w] = Parsed(i) /\ looked'[w] = NoCounts
         /\ ~Busy(w) /\ fate[i] = "queued"
         /\ \A j \in Items : fate'[j] = IF j = i THEN "taken" ELSE fate[j]
<1>1. /\ item' = [item EXCEPT ![w] = i] /\ rows' = [rows EXCEPT ![w] = Parsed(i)]
      /\ looked' = [looked EXCEPT ![w] = NoCounts] /\ fate' = [fate EXCEPT ![i] = "taken"]
      /\ item[w] = NoItem /\ fate[i] = "queued"
  BY DEF Take
<1> QED BY <1>1, ParsedFacts, NothingFacts DEF WorkTyped, TelemetryTypeOK, RowsTyped, Kept, Busy

LEMMA LookupWrites ==
  ASSUME WorkTyped, NEW w \in Workers, NEW t \in Tables, Enrich(w, t) \/ LookupFails(w, t)
  PROVE  /\ Busy(w) /\ looked[w][t] + 1 \in 1..Len(rows[w][t])
         /\ ~Through(looked[w], rows[w])
         /\ RowsTyped'
         /\ \A v \in Workers, u \in Tables :
              /\ Len(rows'[v][u]) = Len(rows[v][u])
              /\ looked'[v][u] = IF v = w /\ u = t THEN looked[w][t] + 1 ELSE looked[v][u]
              /\ \A j \in 1..Len(rows[v][u]) :
                   ~(v = w /\ u = t /\ j = looked[w][t] + 1) => rows'[v][u][j] = rows[v][u][j]
         /\ Enrich(w, t) => rows'[w][t][looked[w][t] + 1] = Enriched(rows[w][t][looked[w][t] + 1])
         /\ UNCHANGED <<item, fate, committed, store, agents, now, cleanVars, known>>
<1> DEFINE k == looked[w][t] + 1
<1> USE DEF WorkTyped
<1>1. /\ Busy(w) /\ looked[w][t] < Len(rows[w][t])
      /\ looked' = [looked EXCEPT ![w][t] = k]
      /\ UNCHANGED <<item, fate, committed, store, agents, now, cleanVars, known>>
  BY DEF Enrich, LookupFails, At, Busy
<1>2. looked[w][t] \in Nat /\ Len(rows[w][t]) \in Nat
  OBVIOUS
<1>3. k \in 1..Len(rows[w][t]) /\ ~Through(looked[w], rows[w])
  BY <1>1, <1>2 DEF Through
<1>4. /\ looked' \in [Workers -> [Tables -> Nat]]
      /\ \A v \in Workers, u \in Tables :
           looked'[v][u] = IF v = w /\ u = t THEN k ELSE looked[v][u]
  BY <1>1, <1>2
<1> HIDE DEF k
<1>5. rows[w][t][k] \in Row
  BY <1>3
<1>6. CASE Enrich(w, t)
  <2>1. rows' = [rows EXCEPT ![w][t][k] = Enriched(rows[w][t][k])]
    BY <1>6 DEF Enrich, k
  <2>2. Enriched(rows[w][t][k]) \in Row
    BY <1>5, EnrichedFacts DEF TelemetryTypeOK
  <2>3. /\ rows' \in [Workers -> [Tables -> Seq(Row)]]
        /\ \A v \in Workers, u \in Tables :
             /\ Len(rows'[v][u]) = Len(rows[v][u])
             /\ \A j \in 1..Len(rows[v][u]) :
                  rows'[v][u][j] = IF v = w /\ u = t /\ j = k THEN Enriched(rows[w][t][k])
                                   ELSE rows[v][u][j]
    BY <1>3, <2>1, <2>2, RowsUpdate
  <2> QED BY <1>1, <1>3, <1>4, <2>3 DEF RowsTyped, k
<1>7. CASE LookupFails(w, t) /\ ~Enrich(w, t)
  <2>1. rows' = rows
    BY <1>7 DEF LookupFails
  <2> QED BY <1>1, <1>3, <1>4, <1>7, <2>1 DEF RowsTyped, k
<1> QED BY <1>6, <1>7

LEMMA ReleaseWrites ==
  ASSUME WorkTyped, NEW w \in Workers, NEW result, Release(w, result), Busy(w)
  PROVE  /\ RowsTyped'
         /\ \A v \in Workers : v # w => Kept(v)
         /\ ~Busy(w)'
         /\ item[w] \in Items
         /\ fate' = [fate EXCEPT ![item[w]] = result]
BY NothingFacts DEF Release, WorkTyped, TelemetryTypeOK, RowsTyped, Kept, Busy

LEMMA CommitWrites ==
  ASSUME WorkTyped, NEW w \in Workers, NEW t \in Tables, CommitBatch(w, t)
  PROVE  LET i == item[w]
             n == committed[i][t]
             e == BatchEnd(w, t, n)
         IN  /\ Busy(w) /\ i \in Items /\ Through(looked[w], rows[w])
             /\ n \in Nat /\ e \in Nat /\ n < e /\ e <= Len(rows[w][t])
             /\ Len(rows[w][t]) = Len(Points[i][t])
             /\ store' = store \cup {rows[w][t][k] : k \in (n + 1)..e}
             /\ committed' \in [Items -> [Tables -> Nat]]
             /\ \A j \in Items, u \in Tables :
                  committed'[j][u] = IF j = i /\ u = t THEN e ELSE committed[j][u]
             /\ UNCHANGED <<item, rows, looked, fate, agents, now, cleanVars, known, missed>>
<1> USE DEF WorkTyped
<1> DEFINE i == item[w]
           n == committed[i][t]
           e == BatchEnd(w, t, n)
<1>1. /\ Busy(w) /\ Through(looked[w], rows[w]) /\ n < Len(rows[w][t])
      /\ store' = store \cup {rows[w][t][k] : k \in (n + 1)..e}
      /\ committed' = [committed EXCEPT ![i][t] = e]
      /\ UNCHANGED <<item, rows, looked, fate, agents, now, cleanVars, known, missed>>
  BY DEF CommitBatch, Writing, At, Busy
<1>2. /\ i \in Items /\ n \in Nat /\ Len(rows[w][t]) \in Nat
      /\ Len(rows[w][t]) = Len(Points[i][t])
  BY <1>1 DEF TelemetryTypeOK, Busy
<1>3. BatchSize[t] \in Nat /\ BatchSize[t] > 0
  BY TelemetryAssumption
<1>4. e \in Nat /\ n < e /\ e <= Len(rows[w][t])
  BY <1>1, <1>2, <1>3 DEF BatchEnd, Min2
<1> HIDE DEF e, i
<1>5. /\ committed' \in [Items -> [Tables -> Nat]]
      /\ \A j \in Items, u \in Tables :
           committed'[j][u] = IF j = i /\ u = t THEN e ELSE committed[j][u]
  <2>1. committed \in [Items -> [Tables -> Nat]]
    BY DEF TelemetryTypeOK
  <2> QED BY <1>1, <1>2, <1>4, <2>1
<1> QED BY <1>1, <1>2, <1>4, <1>5 DEF e, i

LEMMA CrashWrites ==
  ASSUME WorkTyped, Crash
  PROVE  /\ RowsTyped'
         /\ \A w \in Workers : ~Busy(w)'
         /\ \A i \in Items : fate'[i] = IF fate[i] = "taken" THEN "lost" ELSE fate[i]
         /\ UNCHANGED <<committed, store, agents, now, known, missed>>
BY NothingFacts DEF Crash, RowsTyped, Busy, WorkTyped, TelemetryTypeOK

(* Clock, clean-up and registration leave the requests alone.              *)
OtherStep == Tick \/ CleanupStep \/ \E a \in Agents, g \in AgentGroups : Register(a, g)

LEMMA OtherWrites == OtherStep => UNCHANGED workVars
BY DEF OtherStep, Tick, CleanupStep, StartCleanup, DeleteOld, CleanupFails, Register

-----------------------------------------------------------------------------
(* Types.                                                                  *)

(* what a worker holds is the whole of a request nobody else holds         *)
HandTyped(w) ==
  Busy(w) =>
    /\ fate[item[w]] = "taken"
    /\ rows[w] \in [Tables -> Seq(Row)]
    /\ \A t \in Tables : /\ Len(rows[w][t]) = Len(Points[item[w]][t])
                         /\ looked[w][t] \in 0..Len(rows[w][t])

WorkersTyped ==
  /\ item \in [Workers -> Items \cup {NoItem}]
  /\ fate \in [Items -> {"queued", "taken", "written", "failed", "lost"}]
  /\ \A v, w \in Workers : item[v] = item[w] /\ v # w => item[v] = NoItem
  /\ \A w \in Workers : HandTyped(w)
  /\ RowsTyped

StoreTyped ==
  /\ committed \in [Items -> [Tables -> Nat]]
  /\ \A i \in Items, t \in Tables : committed[i][t] <= Len(Points[i][t])
  /\ \A i \in Items : fate[i] = "queued" => Untouched(i)
  /\ store \subseteq Row
  /\ known \in [Items -> SUBSET Agents]

RestTyped ==
  /\ agents \in [Agents -> AgentGroups \cup {NoRow}]
  /\ now \in StartTime..MaxNow /\ due \in BOOLEAN
  /\ round \in {"none", "running", "done", "failed"} /\ step \in 1..5 /\ cutoff \in Int
  /\ faults \in 0..MaxFaults

LEMMA TypedParts == WorkTyped <=> WorkersTyped /\ StoreTyped /\ RestTyped
BY DEF WorkTyped, TelemetryTypeOK, WorkersTyped, StoreTyped, RestTyped, RowsTyped, HandTyped, Busy

LEMMA TypedPartsNext == WorkersTyped' /\ StoreTyped' /\ RestTyped' => WorkTyped'
BY TypedParts, PTL

LEMMA WorkersTypedStep ==
  ASSUME WorkTyped, NEW w \in Workers, WorkerStep(w)
  PROVE  WorkersTyped'
<1>0. WorkersTyped
  BY TypedParts
<1>1. ASSUME NEW i \in Items, Take(w, i) PROVE WorkersTyped'
  <2>1. /\ RowsTyped'
        /\ \A v \in Workers : v # w => Kept(v)
        /\ item'[w] = i /\ rows'[w] = Parsed(i) /\ looked'[w] = NoCounts
        /\ ~Busy(w) /\ fate[i] = "queued"
        /\ \A j \in Items : fate'[j] = IF j = i THEN "taken" ELSE fate[j]
    BY <1>1, TakeWrites
  <2>2. /\ item' \in [Workers -> Items \cup {NoItem}]
        /\ fate' \in [Items -> {"queued", "taken", "written", "failed", "lost"}]
    BY <1>0, <1>1 DEF Take, WorkersTyped
  <2>3. \A v \in Workers : v # w => item'[v] # i
    <3> SUFFICES ASSUME NEW v \in Workers, v # w, item'[v] = i PROVE FALSE
      OBVIOUS
    <3>1. item[v] = i /\ Busy(v)
      BY <2>1, TelemetryAssumption DEF Kept, Busy
    <3>2. fate[i] = "taken"
      BY <1>0, <3>1 DEF WorkersTyped, HandTyped
    <3> QED BY <2>1, <3>2
  <2>4. ASSUME NEW u \in Workers, NEW v \in Workers, item'[u] = item'[v], u # v
        PROVE  item'[u] = NoItem
    BY <1>0, <2>1, <2>3, <2>4 DEF WorkersTyped, Kept
  <2>5. HandTyped(w)'
    <3>1. /\ rows'[w] \in [Tables -> Seq(Row)]
          /\ \A t \in Tables : Len(rows'[w][t]) = Len(Points[i][t]) /\ looked'[w][t] = 0
      BY <2>1, ParsedFacts, NothingFacts
    <3>2. \A t \in Tables : Len(rows'[w][t]) \in Nat
      BY <3>1, PointFacts
    <3> QED BY <2>1, <3>1, <3>2 DEF HandTyped
  <2>6. \A v \in Workers : v # w => HandTyped(v)'
    BY <1>0, <2>1, <2>3 DEF WorkersTyped, HandTyped, Kept, Busy
  <2> QED BY <2>1, <2>2, <2>4, <2>5, <2>6 DEF WorkersTyped
<1>2. ASSUME NEW t \in Tables, Enrich(w, t) \/ LookupFails(w, t) PROVE WorkersTyped'
  <2>1. /\ looked[w][t] + 1 \in 1..Len(rows[w][t])
        /\ RowsTyped'
        /\ \A v \in Workers, u \in Tables :
             /\ Len(rows'[v][u]) = Len(rows[v][u])
             /\ looked'[v][u] = IF v = w /\ u = t THEN looked[w][t] + 1 ELSE looked[v][u]
        /\ UNCHANGED <<item, fate>>
    BY <1>2, LookupWrites
  <2>2. ASSUME NEW v \in Workers, Busy(v)' PROVE HandTyped(v)'
    <3>1. /\ fate'[item'[v]] = "taken" /\ rows'[v] \in [Tables -> Seq(Row)]
          /\ \A u \in Tables : /\ Len(rows'[v][u]) = Len(Points[item'[v]][u])
                               /\ looked[v][u] \in 0..Len(rows'[v][u])
      BY <1>0, <2>1, <2>2 DEF WorkersTyped, HandTyped, Busy, RowsTyped
    <3>2. \A u \in Tables : looked'[v][u] \in 0..Len(rows'[v][u])
      BY <2>1, <3>1
    <3> QED BY <3>1, <3>2 DEF HandTyped
  <2> QED BY <1>0, <2>1, <2>2 DEF WorkersTyped, HandTyped
<1>3. ASSUME NEW t \in Tables, CommitBatch(w, t) PROVE WorkersTyped'
  BY <1>0, <1>3 DEF CommitBatch, WorkersTyped, HandTyped, RowsTyped, Busy
<1>4. CASE WriteFails(w) \/ WriteReturns(w)
  <2>1. PICK result \in {"failed", "written"} : Release(w, result) /\ Busy(w)
    BY <1>4 DEF WriteFails, WriteReturns, Writing, Busy
  <2>2. /\ RowsTyped' /\ ~Busy(w)' /\ item[w] \in Items
        /\ \A v \in Workers : v # w => Kept(v)
        /\ fate' = [fate EXCEPT ![item[w]] = result]
    BY <2>1, ReleaseWrites
  <2>3. item' \in [Workers -> Items \cup {NoItem}]
    BY <1>0, <2>1 DEF Release, WorkersTyped
  <2>4. fate' \in [Items -> {"queued", "taken", "written", "failed", "lost"}]
    BY <1>0, <2>2 DEF WorkersTyped
  <2>5. ASSUME NEW u \in Workers, NEW v \in Workers, item'[u] = item'[v], u # v
        PROVE  item'[u] = NoItem
    BY <1>0, <2>2, <2>5 DEF WorkersTyped, Kept, Busy
  <2>6. ASSUME NEW v \in Workers, v # w PROVE HandTyped(v)'
    <3>1. Busy(v) => item[v] # item[w]
      BY <1>0, <2>6 DEF WorkersTyped, Busy
    <3>2. Kept(v) /\ HandTyped(v)
      BY <1>0, <2>2, <2>6 DEF WorkersTyped
    <3>3. Busy(v) => fate'[item[v]] = fate[item[v]]
      BY <1>0, <2>2, <3>1 DEF WorkersTyped, Busy
    <3> QED BY <3>2, <3>3 DEF HandTyped, Kept, Busy
  <2>7. HandTyped(w)'
    BY <2>2 DEF HandTyped
  <2> QED BY <2>2, <2>3, <2>4, <2>5, <2>6, <2>7 DEF WorkersTyped
<1> QED BY <1>1, <1>2, <1>3, <1>4 DEF WorkerStep

LEMMA StoreTypedStep ==
  ASSUME WorkTyped, NEW w \in Workers, WorkerStep(w)
  PROVE  StoreTyped' /\ RestTyped'
<1>0. StoreTyped /\ RestTyped /\ WorkersTyped
  BY TypedParts
<1>1. ASSUME NEW i \in Items, Take(w, i) PROVE StoreTyped' /\ RestTyped'
  <2>1. known' = [known EXCEPT ![i] = {a \in Agents : agents[a] # NoRow}]
    BY <1>1 DEF Take
  <2>2. known' \in [Items -> SUBSET Agents]
    BY <1>0, <2>1 DEF StoreTyped
  <2>3. \A j \in Items : fate'[j] = "queued" => fate[j] = "queued"
    BY <1>1, TakeWrites
  <2>4. UNCHANGED <<committed, store, agents, now, cleanVars, faults>>
    BY <1>1 DEF Take
  <2> QED BY <1>0, <2>2, <2>3, <2>4 DEF StoreTyped, RestTyped, Untouched, cleanVars
<1>2. ASSUME NEW t \in Tables, Enrich(w, t) \/ LookupFails(w, t) PROVE StoreTyped' /\ RestTyped'
  <2>1. UNCHANGED <<item, fate, committed, store, agents, now, cleanVars, known>>
    BY <1>2, LookupWrites
  <2>2. faults' \in 0..MaxFaults
    BY <1>0, <1>2, TelemetryAssumption DEF Enrich, LookupFails, Fault, RestTyped
  <2> QED BY <1>0, <2>1, <2>2 DEF StoreTyped, RestTyped, Untouched, cleanVars
<1>3. ASSUME NEW t \in Tables, CommitBatch(w, t) PROVE StoreTyped' /\ RestTyped'
  <2> DEFINE i == item[w]
             n == committed[i][t]
             e == BatchEnd(w, t, n)
  <2>1. /\ Busy(w) /\ i \in Items /\ n \in Nat /\ e \in Nat /\ n < e /\ e <= Len(rows[w][t])
        /\ Len(rows[w][t]) = Len(Points[i][t])
        /\ store' = store \cup {rows[w][t][k] : k \in (n + 1)..e}
        /\ committed' \in [Items -> [Tables -> Nat]]
        /\ \A j \in Items, u \in Tables :
             committed'[j][u] = IF j = i /\ u = t THEN e ELSE committed[j][u]
        /\ UNCHANGED <<fate, agents, now, cleanVars, known>>
    BY <1>3, CommitWrites
  <2>2. \A k \in (n + 1)..e : rows[w][t][k] \in Row
    <3>1. rows[w][t] \in Seq(Row)
      BY <1>0 DEF WorkersTyped, RowsTyped
    <3> QED BY <2>1, <3>1
  <2>3. fate[i] # "queued" /\ UNCHANGED faults
    BY <1>0, <1>3, <2>1 DEF WorkersTyped, HandTyped, CommitBatch
  <2> HIDE DEF i, n, e
  <2>4. store' \subseteq Row
    <3>1. store \subseteq Row
      BY <1>0 DEF StoreTyped
    <3>2. store' = store \cup {rows[w][t][k] : k \in (n + 1)..e}
      BY <2>1
    <3> QED BY <2>2, <3>1, <3>2
  <2>5. \A j \in Items, u \in Tables : committed'[j][u] <= Len(Points[j][u])
    <3> SUFFICES ASSUME NEW j \in Items, NEW u \in Tables
                 PROVE  committed'[j][u] <= Len(Points[j][u])
      OBVIOUS
    <3>1. CASE j = i /\ u = t
      BY <2>1, <3>1
    <3>2. CASE ~(j = i /\ u = t)
      BY <1>0, <2>1, <3>2 DEF StoreTyped
    <3> QED BY <3>1, <3>2
  <2>6. \A j \in Items : fate'[j] = "queued" => Untouched(j)'
    BY <1>0, <2>1, <2>3 DEF StoreTyped, Untouched
  <2> QED BY <1>0, <2>1, <2>3, <2>4, <2>5, <2>6 DEF StoreTyped, RestTyped, cleanVars
<1>4. CASE WriteFails(w) \/ WriteReturns(w)
  <2>1. PICK result \in {"failed", "written"} : Release(w, result) /\ Busy(w)
    BY <1>4 DEF WriteFails, WriteReturns, Writing, Busy
  <2>2. item[w] \in Items /\ fate' = [fate EXCEPT ![item[w]] = result]
    BY <2>1, ReleaseWrites
  <2>3. \A j \in Items : fate'[j] = "queued" => fate[j] = "queued"
    BY <1>0, <2>2 DEF WorkersTyped
  <2>4. UNCHANGED <<committed, store, agents, now, cleanVars, known>>
    BY <1>4 DEF WriteFails, WriteReturns
  <2>5. faults' \in 0..MaxFaults
    BY <1>0, <1>4, TelemetryAssumption DEF WriteFails, WriteReturns, Fault, RestTyped
  <2> QED BY <1>0, <2>3, <2>4, <2>5 DEF StoreTyped, RestTyped, Untouched, cleanVars
<1> QED BY <1>1, <1>2, <1>3, <1>4 DEF WorkerStep

LEMMA OtherTypedStep ==
  ASSUME WorkTyped, OtherStep
  PROVE  WorkTyped'
<1>0. WorkersTyped /\ StoreTyped /\ RestTyped
  BY TypedParts
<1>1. UNCHANGED workVars
  BY OtherWrites
<1>2. store' \subseteq store /\ known' = known
  BY DEF OtherStep, Tick, CleanupStep, StartCleanup, DeleteOld, CleanupFails, Register
<1>3. RestTyped'
  <2>0. StartTime \in Nat /\ MaxNow \in Nat /\ StartTime <= MaxNow /\ Retention \in Nat
        /\ MaxFaults \in Nat
    BY TelemetryAssumption
  <2>1. CASE Tick
    BY <1>0, <2>0, <2>1 DEF Tick, Min2, RestTyped
  <2>2. CASE CleanupStep
    <3>1. CASE StartCleanup
      <4>1. /\ due' = FALSE /\ round' = "running" /\ step' = 1 /\ cutoff' = now - Retention
            /\ UNCHANGED <<agents, now, faults>>
        BY <3>1 DEF StartCleanup
      <4>2. due' \in BOOLEAN
        BY <4>1
      <4>3. cutoff' \in Int
        BY <1>0, <2>0, <4>1 DEF RestTyped
      <4> QED BY <1>0, <4>1, <4>2, <4>3 DEF RestTyped
    <3>2. CASE DeleteOld
      <4>1. /\ step' = IF step = 5 THEN 1 ELSE step + 1
            /\ round' = IF step = 5 THEN "done" ELSE "running"
            /\ UNCHANGED <<agents, now, due, cutoff, faults>>
        BY <3>2 DEF DeleteOld
      <4> QED BY <1>0, <4>1 DEF RestTyped
    <3>3. CASE CleanupFails
      <4>1. /\ step' = 1 /\ round' = "failed" /\ faults < MaxFaults /\ faults' = faults + 1
            /\ UNCHANGED <<agents, now, due, cutoff>>
        BY <3>3 DEF CleanupFails, Fault
      <4> QED BY <1>0, <2>0, <4>1 DEF RestTyped
    <3> QED BY <2>2, <3>1, <3>2, <3>3 DEF CleanupStep
  <2>3. ASSUME NEW a \in Agents, NEW g \in AgentGroups, Register(a, g) PROVE RestTyped'
    BY <1>0, <2>3 DEF Register, RestTyped, cleanVars
  <2> QED BY <2>1, <2>2, <2>3 DEF OtherStep
<1>4. WorkersTyped' /\ StoreTyped'
  BY <1>0, <1>1, <1>2 DEF workVars, WorkersTyped, StoreTyped, HandTyped, RowsTyped, Busy, Untouched
<1> QED BY <1>3, <1>4, TypedPartsNext

LEMMA CrashTypedStep ==
  ASSUME WorkTyped, Crash
  PROVE  WorkTyped'
<1>0. WorkersTyped /\ StoreTyped /\ RestTyped
  BY TypedParts
<1>1. /\ RowsTyped'
      /\ \A w \in Workers : ~Busy(w)'
      /\ \A i \in Items : fate'[i] = IF fate[i] = "taken" THEN "lost" ELSE fate[i]
      /\ UNCHANGED <<committed, store, agents, now, known, missed>>
  BY CrashWrites
<1>2. /\ item' = [w \in Workers |-> NoItem]
      /\ fate' = [i \in Items |-> IF fate[i] = "taken" THEN "lost" ELSE fate[i]]
  BY DEF Crash
<1>3. WorkersTyped'
  BY <1>0, <1>1, <1>2 DEF WorkersTyped, HandTyped
<1>4. StoreTyped'
  BY <1>0, <1>1 DEF StoreTyped, Untouched
<1>5. RestTyped'
  <2>1. /\ due' = FALSE /\ round' = "none" /\ step' = 1 /\ cutoff' = 0
        /\ faults < MaxFaults /\ faults' = faults + 1
    BY DEF Crash, Fault
  <2>2. MaxFaults \in Nat
    BY TelemetryAssumption
  <2>3. due' \in BOOLEAN
    BY <2>1
  <2>4. faults' \in 0..MaxFaults
    BY <1>0, <2>1, <2>2 DEF RestTyped
  <2> QED BY <1>0, <1>1, <2>1, <2>3, <2>4 DEF RestTyped
<1> QED BY <1>3, <1>4, <1>5, TypedPartsNext

LEMMA TypedInit == TelemetryInit => WorkTyped
<1> SUFFICES ASSUME TelemetryInit PROVE WorkTyped
  OBVIOUS
<1>1. WorkersTyped
  BY NothingFacts DEF TelemetryInit, WorkersTyped, HandTyped, RowsTyped, Busy
<1>2. \A i \in Items, t \in Tables : 0 <= Len(Points[i][t])
  BY PointFacts
<1>3. StoreTyped
  BY <1>2, NothingFacts DEF TelemetryInit, StoreTyped, Untouched
<1>4. RestTyped
  <2>1. due \in BOOLEAN
    BY DEF TelemetryInit
  <2>2. /\ agents \in [Agents -> AgentGroups \cup {NoRow}]
        /\ now \in StartTime..MaxNow
        /\ round \in {"none", "running", "done", "failed"} /\ step \in 1..5 /\ cutoff \in Int
        /\ faults \in 0..MaxFaults
    BY TelemetryAssumption DEF TelemetryInit
  <2> QED BY <2>1, <2>2 DEF RestTyped
<1> QED BY <1>1, <1>3, <1>4, TypedParts

LEMMA TypedStep == WorkTyped /\ [TelemetryNext]_telemetryVars => WorkTyped'
<1> SUFFICES ASSUME WorkTyped, [TelemetryNext]_telemetryVars PROVE WorkTyped'
  OBVIOUS
<1>1. ASSUME NEW w \in Workers, WorkerStep(w) PROVE WorkTyped'
  BY <1>1, WorkersTypedStep, StoreTypedStep, TypedPartsNext
<1>2. CASE OtherStep
  BY <1>2, OtherTypedStep
<1>3. CASE Crash
  BY <1>3, CrashTypedStep
<1>4. CASE UNCHANGED telemetryVars
  BY <1>4 DEF telemetryVars, workVars, cleanVars, WorkTyped, TelemetryTypeOK, Untouched
<1> QED BY <1>1, <1>2, <1>3, <1>4 DEF TelemetryNext, OtherStep

(***************************************************************************)
(* The types of the workers' rows, the store and the clean-up; two workers *)
(* never work on one request.                                              *)
(***************************************************************************)
THEOREM TelemetryTypeCorrect == TelemetrySpec => []TelemetryTypeOK
<1>1. WorkTyped => TelemetryTypeOK
  BY DEF WorkTyped
<1> QED BY <1>1, TypedInit, TypedStep, PTL DEF TelemetrySpec

-----------------------------------------------------------------------------
(* The workers' rows.                                                      *)

LEMMA KeptHand ==
  ASSUME NEW w \in Workers, Kept(w), HandIsRecords(w)
  PROVE  HandIsRecords(w)'
<1> SUFFICES ASSUME Busy(w)', NEW t \in Tables, NEW k \in 1..Len(rows[w][t])
             PROVE  (/\ Id(rows[w][t][k]) = <<item[w], t, k>>
                     /\ IsRecord(rows[w][t][k])
                     /\ k > looked[w][t] => rows[w][t][k] = ParsedRow(item[w], t, k))'
  BY DEF Kept, HandIsRecords
<1>1. /\ Id(rows[w][t][k]) = <<item[w], t, k>>
      /\ IsRecord(rows[w][t][k])
      /\ k > looked[w][t] => rows[w][t][k] = ParsedRow(item[w], t, k)
  BY DEF Kept, HandIsRecords, Busy
<1> QED BY <1>1, Zenon DEF Kept, Id, IsRecord

LEMMA KeptEnriched ==
  ASSUME NEW w \in Workers, Kept(w), EnrichedFirst(w), Busy(w) => UNCHANGED committed[item[w]]
  PROVE  EnrichedFirst(w)'
BY DEF Kept, EnrichedFirst, Busy, Untouched, Through

LEMMA TakeWorkers ==
  ASSUME WorkTyped, WorkersInv, NEW w \in Workers, NEW i \in Items, Take(w, i)
  PROVE  WorkersInv'
<1>1. /\ \A v \in Workers : v # w => Kept(v)
      /\ item'[w] = i /\ rows'[w] = Parsed(i) /\ looked'[w] = NoCounts
      /\ fate[i] = "queued" /\ UNCHANGED committed
  BY TakeWrites DEF Take
<1>2. HandIsRecords(w)'
  <2> SUFFICES ASSUME NEW t \in Tables, NEW k \in 1..Len(rows'[w][t])
               PROVE  /\ Id(rows'[w][t][k]) = <<i, t, k>>
                      /\ IsRecord(rows'[w][t][k])
                      /\ rows'[w][t][k] = ParsedRow(i, t, k)
    BY <1>1 DEF HandIsRecords, Id, IsRecord
  <2>1. k \in 1..Len(Points[i][t]) /\ rows'[w][t][k] = ParsedRow(i, t, k)
    BY <1>1, ParsedFacts
  <2> QED BY <2>1, ParsedRowFacts
<1>3. EnrichedFirst(w)'
  BY <1>1 DEF EnrichedFirst, WorkTyped, Untouched
<1>4. ASSUME NEW v \in Workers, v # w PROVE HandIsRecords(v)' /\ EnrichedFirst(v)'
  BY <1>1, <1>4, KeptHand, KeptEnriched DEF WorkersInv, Kept
<1> QED BY <1>2, <1>3, <1>4 DEF WorkersInv

LEMMA LookupWorkers ==
  ASSUME WorkTyped, WorkersInv, NEW w \in Workers, NEW t \in Tables,
         Enrich(w, t) \/ LookupFails(w, t)
  PROVE  WorkersInv'
<1> DEFINE k == looked[w][t] + 1
<1>1. /\ Busy(w) /\ k \in 1..Len(rows[w][t])
      /\ ~Through(looked[w], rows[w])
      /\ \A v \in Workers, u \in Tables :
           /\ Len(rows'[v][u]) = Len(rows[v][u])
           /\ looked'[v][u] = IF v = w /\ u = t THEN k ELSE looked[v][u]
           /\ \A j \in 1..Len(rows[v][u]) :
                ~(v = w /\ u = t /\ j = k) => rows'[v][u][j] = rows[v][u][j]
      /\ Enrich(w, t) => rows'[w][t][k] = Enriched(rows[w][t][k])
      /\ UNCHANGED <<item, committed>>
  BY LookupWrites
<1>2. rows[w][t][k] \in Row /\ looked[w][t] \in Nat
  <2>1. rows[w][t] \in Seq(Row) /\ looked[w][t] \in Nat
    BY DEF WorkTyped
  <2> QED BY <1>1, <2>1
<1>3. rows'[w][t][k] = rows[w][t][k] \/ rows'[w][t][k] = Enriched(rows[w][t][k])
  BY <1>1 DEF LookupFails
<1> HIDE DEF k
<1>4. ASSUME NEW v \in Workers, Busy(v), NEW u \in Tables, NEW j \in 1..Len(rows[v][u])
      PROVE  /\ Id(rows'[v][u][j]) = <<item[v], u, j>>
             /\ IsRecord(rows'[v][u][j])
             /\ j > looked'[v][u] => rows'[v][u][j] = ParsedRow(item[v], u, j)
  <2>1. /\ Id(rows[v][u][j]) = <<item[v], u, j>>
        /\ IsRecord(rows[v][u][j])
        /\ j > looked[v][u] => rows[v][u][j] = ParsedRow(item[v], u, j)
    BY <1>4 DEF WorkersInv, HandIsRecords
  <2>2. CASE v = w /\ u = t /\ j = k
    <3>1. Id(rows'[v][u][j]) = Id(rows[v][u][j]) /\ IsRecord(rows'[v][u][j])
      BY <1>2, <1>3, <2>1, <2>2, EnrichedFacts DEF WorkTyped, TelemetryTypeOK
    <3>2. looked'[v][u] = k /\ ~(k > k)
      BY <1>1, <1>2, <2>2 DEF k
    <3> QED BY <2>1, <2>2, <3>1, <3>2
  <2>3. CASE v = w /\ u = t /\ j # k
    <3>1. rows'[v][u][j] = rows[v][u][j] /\ looked'[v][u] = k
      BY <1>1, <2>3
    <3>2. j > k => j > looked[v][u]
      BY <1>2, <2>3 DEF k
    <3> QED BY <2>1, <3>1, <3>2
  <2>4. CASE ~(v = w /\ u = t)
    <3>1. rows'[v][u][j] = rows[v][u][j] /\ looked'[v][u] = looked[v][u]
      BY <1>1, <2>4
    <3> QED BY <2>1, <3>1
  <2> QED BY <2>2, <2>3, <2>4
<1>5. ASSUME NEW v \in Workers PROVE HandIsRecords(v)'
  <2> SUFFICES ASSUME Busy(v), NEW u \in Tables, NEW j \in 1..Len(rows[v][u])
               PROVE  (/\ Id(rows[v][u][j]) = <<item[v], u, j>>
                       /\ IsRecord(rows[v][u][j])
                       /\ j > looked[v][u] => rows[v][u][j] = ParsedRow(item[v], u, j))'
    BY <1>1 DEF HandIsRecords, Busy
  <2>1. /\ Id(rows'[v][u][j]) = <<item[v], u, j>>
        /\ IsRecord(rows'[v][u][j])
        /\ j > looked'[v][u] => rows'[v][u][j] = ParsedRow(item[v], u, j)
    BY <1>4
  <2> QED BY <1>1, <2>1, Zenon DEF Id, IsRecord
<1>6. ASSUME NEW v \in Workers PROVE EnrichedFirst(v)'
  <2>1. CASE v = w
    BY <1>1, <2>1 DEF WorkersInv, EnrichedFirst, Untouched, Busy
  <2>2. CASE v # w
    BY <1>1, <2>2 DEF WorkersInv, EnrichedFirst, Untouched, Busy, Through
  <2> QED BY <2>1, <2>2
<1> QED BY <1>5, <1>6 DEF WorkersInv

LEMMA CommitWorkers ==
  ASSUME WorkTyped, WorkersInv, NEW w \in Workers, NEW t \in Tables, CommitBatch(w, t)
  PROVE  WorkersInv'
<1>1. /\ Busy(w) /\ item[w] \in Items /\ Through(looked[w], rows[w])
      /\ \A j \in Items, u \in Tables : j # item[w] => committed'[j][u] = committed[j][u]
      /\ UNCHANGED <<item, rows, looked>>
  BY CommitWrites
<1>2. ASSUME NEW v \in Workers PROVE HandIsRecords(v)'
  BY <1>1, KeptHand DEF Kept, WorkersInv
<1>3. ASSUME NEW v \in Workers PROVE EnrichedFirst(v)'
  <2>1. CASE v = w
    BY <1>1, <2>1 DEF EnrichedFirst
  <2>2. CASE v # w
    <3>1. Busy(v) => item[v] # item[w] /\ item[v] \in Items
      BY <2>2 DEF Busy, WorkTyped, TelemetryTypeOK
    <3> QED BY <1>1, <3>1 DEF WorkersInv, EnrichedFirst, Untouched, Busy
  <2> QED BY <2>1, <2>2
<1> QED BY <1>2, <1>3 DEF WorkersInv

LEMMA WorkersStep ==
  WorkTyped /\ WorkersInv /\ [TelemetryNext]_telemetryVars => WorkersInv'
<1> SUFFICES ASSUME WorkTyped, WorkersInv, [TelemetryNext]_telemetryVars PROVE WorkersInv'
  OBVIOUS
<1>1. ASSUME NEW w \in Workers, WriteFails(w) \/ WriteReturns(w) PROVE WorkersInv'
  <2>1. PICK result \in {"failed", "written"} : Release(w, result) /\ Busy(w)
    BY <1>1 DEF WriteFails, WriteReturns, Writing, Busy
  <2>2. ~Busy(w)' /\ \A v \in Workers : v # w => Kept(v)
    BY <2>1, ReleaseWrites
  <2>3. UNCHANGED committed
    BY <1>1 DEF WriteFails, WriteReturns
  <2>4. ASSUME NEW v \in Workers PROVE HandIsRecords(v)' /\ EnrichedFirst(v)'
    <3>1. CASE v = w
      BY <2>2, <3>1 DEF HandIsRecords, EnrichedFirst
    <3>2. CASE v # w
      BY <2>2, <2>3, <3>2, KeptHand, KeptEnriched DEF WorkersInv, Kept
    <3> QED BY <3>1, <3>2
  <2> QED BY <2>4 DEF WorkersInv
<1>2. ASSUME NEW w \in Workers, WorkerStep(w) PROVE WorkersInv'
  BY <1>1, <1>2, TakeWorkers, LookupWorkers, CommitWorkers DEF WorkerStep
<1>3. CASE Crash
  BY <1>3, CrashWrites DEF WorkersInv, HandIsRecords, EnrichedFirst
<1>4. CASE OtherStep \/ UNCHANGED telemetryVars
  <2>1. UNCHANGED workVars
    BY <1>4, OtherWrites DEF telemetryVars
  <2> QED BY <2>1, KeptHand, KeptEnriched DEF workVars, Kept, WorkersInv
<1> QED BY <1>2, <1>3, <1>4 DEF TelemetryNext, OtherStep

-----------------------------------------------------------------------------
(* What is committed.                                                      *)

(* The rows that a transaction adds are the worker's next records.         *)
LEMMA CommitAdds ==
  ASSUME WorkTyped, WorkersInv, NEW w \in Workers, NEW t \in Tables, CommitBatch(w, t),
         NEW k \in (committed[item[w]][t] + 1)..committed'[item[w]][t]
  PROVE  /\ rows[w][t][k] \in store' /\ rows[w][t][k] \in Row
         /\ k \in 1..Len(rows[w][t]) /\ k \in 1..looked[w][t]
         /\ Id(rows[w][t][k]) = <<item[w], t, k>> /\ IsRecord(rows[w][t][k])
<1> DEFINE n == committed[item[w]][t]
           e == BatchEnd(w, t, n)
<1>1. /\ Busy(w) /\ item[w] \in Items /\ Through(looked[w], rows[w])
      /\ n \in Nat /\ e \in Nat /\ e <= Len(rows[w][t])
      /\ store' = store \cup {rows[w][t][j] : j \in (n + 1)..e}
      /\ committed'[item[w]][t] = e
  BY CommitWrites
<1>2. k \in 1..Len(rows[w][t]) /\ k \in (n + 1)..e
  BY <1>1
<1>3. rows[w][t] \in Seq(Row) /\ looked[w][t] = Len(rows[w][t])
  BY <1>1 DEF WorkTyped, Through
<1>4. rows[w][t][k] \in store' /\ rows[w][t][k] \in Row
  BY <1>1, <1>2, <1>3
<1>5. Id(rows[w][t][k]) = <<item[w], t, k>> /\ IsRecord(rows[w][t][k])
  BY <1>1, <1>2 DEF WorkersInv, HandIsRecords
<1> QED BY <1>2, <1>3, <1>4, <1>5

LEMMA CommitAddsOnly ==
  ASSUME WorkTyped, WorkersInv, NEW w \in Workers, NEW t \in Tables, CommitBatch(w, t),
         NEW r \in store', r \notin store
  PROVE  \E k \in (committed[item[w]][t] + 1)..committed'[item[w]][t] :
           /\ r = rows[w][t][k] /\ r \in Row /\ k \in 1..looked[w][t]
           /\ r.item = item[w] /\ r.table = t /\ r.pos = k /\ IsRecord(r)
<1>1. PICK k \in (committed[item[w]][t] + 1)..committed'[item[w]][t] : r = rows[w][t][k]
  BY CommitWrites
<1>2. r \in Row /\ k \in 1..looked[w][t] /\ Id(r) = <<item[w], t, k>> /\ IsRecord(r)
  BY <1>1, CommitAdds
<1> QED BY <1>1, <1>2 DEF Id

(* An identity tells the three fields.                                     *)
LEMMA IdFacts ==
  ASSUME NEW r, NEW s
  PROVE  Id(r) = Id(s) <=> r.item = s.item /\ r.table = s.table /\ r.pos = s.pos
BY DEF Id

CommittedIsStored ==
  \A i \in Items, t \in Tables : \A k \in 1..committed[i][t] :
    (\E r \in store : Id(r) = <<i, t, k>>) \/ Expired(Points[i][t][k].time)

StoredIsCommitted == \A r \in store : r.pos \in 1..committed[r.item][r.table] /\ IsRecord(r)

StoredOnce == \A r, s \in store : Id(r) = Id(s) => r = s

LEMMA WrittenParts ==
  WrittenInv <=> CommittedIsStored /\ StoredIsCommitted /\ StoredOnce /\ CutoffIsPast
BY DEF WrittenInv, CommittedUntilExpired, CommittedIsStored, StoredIsCommitted, StoredOnce

LEMMA WrittenPartsNext ==
  CommittedIsStored' /\ StoredIsCommitted' /\ StoredOnce' /\ CutoffIsPast' => WrittenInv'
BY WrittenParts, PTL

LEMMA CommitKeepsWritten ==
  ASSUME WorkTyped, WorkersInv, WrittenInv, NEW w \in Workers, NEW t \in Tables, CommitBatch(w, t)
  PROVE  WrittenInv'
<1> DEFINE i == item[w]
           n == committed[i][t]
           e == committed'[i][t]
<1>0. CommittedIsStored /\ StoredIsCommitted /\ StoredOnce /\ CutoffIsPast
  BY WrittenParts
<1>1. /\ Busy(w) /\ i \in Items /\ n \in Nat /\ e \in Nat /\ n < e
      /\ store \subseteq store'
      /\ \A j \in Items, u \in Tables : ~(j = i /\ u = t) => committed'[j][u] = committed[j][u]
      /\ UNCHANGED <<now, cleanVars>>
  BY CommitWrites
<1>2. \A k \in (n + 1)..e : rows[w][t][k] \in store' /\ Id(rows[w][t][k]) = <<i, t, k>>
  BY CommitAdds
<1>3. \A r \in store' : r \in store \/
        (/\ r.item = i /\ r.table = t /\ r.pos \in (n + 1)..e /\ IsRecord(r)
         /\ r = rows[w][t][r.pos])
  BY CommitAddsOnly
<1> HIDE DEF i, n, e
<1>4. CommittedIsStored'
  <2> SUFFICES ASSUME NEW j \in Items, NEW u \in Tables, NEW k \in 1..committed'[j][u],
                      ~(Expired(Points[j][u][k].time)')
               PROVE  \E r \in store' : Id(r) = <<j, u, k>>
    BY DEF CommittedIsStored, Id
  <2>1. CASE k \in 1..committed[j][u]
    <3>1. ~Expired(Points[j][u][k].time)
      BY <1>1 DEF Expired
    <3> QED BY <1>0, <1>1, <2>1, <3>1 DEF CommittedIsStored
  <2>2. CASE k \notin 1..committed[j][u]
    <3>1. j = i /\ u = t
      BY <1>1, <2>2
    <3>2. k \in (n + 1)..e
      BY <1>1, <2>2, <3>1 DEF n, e
    <3> QED BY <1>2, <3>1, <3>2
  <2> QED BY <2>1, <2>2
<1>5. StoredIsCommitted'
  <2> SUFFICES ASSUME NEW r \in store' PROVE r.pos \in 1..committed'[r.item][r.table] /\ IsRecord(r)
    BY DEF StoredIsCommitted, IsRecord
  <2>1. CASE r \in store
    <3>1. r \in Row /\ r.pos \in 1..committed[r.item][r.table] /\ IsRecord(r)
      BY <1>0, <2>1 DEF StoredIsCommitted, WorkTyped, TelemetryTypeOK
    <3>2. r.item \in Items /\ r.table \in Tables /\ committed[r.item][r.table] \in Nat
      BY <3>1 DEF Row, WorkTyped, TelemetryTypeOK
    <3>3. CASE r.item = i /\ r.table = t
      BY <1>1, <3>1, <3>3 DEF n, e
    <3>4. CASE ~(r.item = i /\ r.table = t)
      BY <1>1, <3>1, <3>2, <3>4
    <3> QED BY <3>3, <3>4
  <2>2. CASE r \notin store
    <3>1. r.item = i /\ r.table = t /\ r.pos \in (n + 1)..e /\ IsRecord(r)
      BY <1>3, <2>2
    <3>2. r.pos \in 1..e
      BY <1>1, <3>1
    <3> QED BY <3>1, <3>2 DEF e
  <2> QED BY <2>1, <2>2
<1>6. StoredOnce'
  <2> SUFFICES ASSUME NEW r \in store', NEW s \in store', Id(r) = Id(s) PROVE r = s
    BY DEF StoredOnce, Id
  <2>0. r.item = s.item /\ r.table = s.table /\ r.pos = s.pos
    BY IdFacts
  <2>1. CASE r \in store /\ s \in store
    BY <1>0, <2>1 DEF StoredOnce
  <2>2. CASE r \notin store /\ s \notin store
    BY <1>3, <2>0, <2>2
  <2>3. ASSUME NEW x \in store, x.item = i, x.table = t, x.pos \in (n + 1)..e PROVE FALSE
    <3>1. x.pos \in 1..n
      BY <1>0, <2>3 DEF StoredIsCommitted, n
    <3> QED BY <1>1, <2>3, <3>1
  <2> QED BY <1>3, <2>0, <2>1, <2>2, <2>3
<1>7. CutoffIsPast'
  BY <1>0, <1>1 DEF CutoffIsPast, cleanVars
<1> QED BY <1>4, <1>5, <1>6, <1>7, WrittenPartsNext

(* Deleting what is older than a cutoff, and the passing of time.          *)
LEMMA OthersKeepWritten ==
  ASSUME WorkTyped, WorkTyped', WrittenInv, UNCHANGED committed, now' >= now,
         store' \subseteq store, \A r \in store : r \in store' \/ r.time < now - Retention,
         CutoffIsPast'
  PROVE  WrittenInv'
<1>0. CommittedIsStored /\ StoredIsCommitted /\ StoredOnce /\ CutoffIsPast
  BY WrittenParts
<1>1. now \in Int /\ now' \in Int /\ Retention \in Int
  BY TelemetryAssumption DEF WorkTyped, TelemetryTypeOK
<1>2. CommittedIsStored'
  <2> SUFFICES ASSUME NEW i \in Items, NEW t \in Tables, NEW k \in 1..committed[i][t]
               PROVE  (\E r \in store' : Id(r) = <<i, t, k>>) \/ Expired(Points[i][t][k].time)'
    BY DEF CommittedIsStored, Id
  <2>1. Points[i][t][k].time \in Int
    <3>1. committed[i][t] <= Len(Points[i][t]) /\ committed[i][t] \in Nat
      BY DEF WorkTyped, TelemetryTypeOK
    <3>2. k \in 1..Len(Points[i][t])
      BY <3>1, PointFacts
    <3> QED BY <3>2, PointFacts DEF Attributes
  <2>2. CASE Expired(Points[i][t][k].time)
    BY <1>1, <2>1, <2>2 DEF Expired
  <2>3. ASSUME NEW r \in store, Id(r) = <<i, t, k>>
        PROVE  (\E s \in store' : Id(s) = <<i, t, k>>) \/ Expired(Points[i][t][k].time)'
    <3>1. r.item = i /\ r.table = t /\ r.pos = k
      BY <2>3 DEF Id
    <3>2. r.time = Points[i][t][k].time
      BY <1>0, <3>1 DEF StoredIsCommitted, IsRecord
    <3>3. CASE r \in store'
      BY <2>3, <3>3
    <3>4. CASE r.time < now - Retention
      BY <1>1, <2>1, <3>2, <3>4 DEF Expired
    <3> QED BY <3>3, <3>4
  <2> QED BY <1>0, <2>2, <2>3 DEF CommittedIsStored
<1>3. StoredIsCommitted'
  BY <1>0 DEF StoredIsCommitted, IsRecord
<1>4. StoredOnce'
  BY <1>0 DEF StoredOnce, Id
<1> QED BY <1>2, <1>3, <1>4, WrittenPartsNext

LEMMA WrittenStep ==
  WorkTyped /\ WorkersInv /\ WrittenInv /\ [TelemetryNext]_telemetryVars => WrittenInv'
<1> SUFFICES ASSUME WorkTyped, WorkersInv, WrittenInv, [TelemetryNext]_telemetryVars
             PROVE  WrittenInv'
  OBVIOUS
<1>0. WorkTyped' /\ CutoffIsPast
  BY TypedStep DEF WrittenInv
<1>1. now \in Int /\ StartTime \in Int /\ MaxNow \in Int /\ now <= MaxNow /\ Retention \in Int
  BY TelemetryAssumption DEF WorkTyped, TelemetryTypeOK
<1>2. ASSUME UNCHANGED <<committed, store, now, round, cutoff>> PROVE WrittenInv'
  BY <1>0, <1>1, <1>2, OthersKeepWritten DEF CutoffIsPast
<1>3. ASSUME NEW w \in Workers, WorkerStep(w) PROVE WrittenInv'
  <2>1. CASE \E t \in Tables : CommitBatch(w, t)
    BY <2>1, CommitKeepsWritten
  <2>2. CASE ~\E t \in Tables : CommitBatch(w, t)
    <3>1. UNCHANGED <<committed, store, now, round, cutoff>>
      BY <1>3, <2>2 DEF WorkerStep, Take, Enrich, LookupFails, WriteFails, WriteReturns, cleanVars
    <3> QED BY <1>2, <3>1
  <2> QED BY <2>1, <2>2
<1>4. CASE Tick
  <2>1. UNCHANGED <<committed, store, round, cutoff>> /\ now' = Min2(now + 1, MaxNow)
    BY <1>4 DEF Tick, workVars
  <2>2. now' \in Int /\ now' >= now
    BY <1>1, <2>1 DEF Min2
  <2>3. CutoffIsPast'
    BY <1>0, <1>1, <2>1, <2>2 DEF CutoffIsPast, WorkTyped, TelemetryTypeOK
  <2> QED BY <1>0, <2>1, <2>2, <2>3, OthersKeepWritten
<1>5. CASE StartCleanup
  <2>1. UNCHANGED <<committed, store, now>> /\ cutoff' = now - Retention
    BY <1>5 DEF StartCleanup, workVars
  <2>2. CutoffIsPast'
    BY <1>1, <2>1 DEF CutoffIsPast
  <2> QED BY <1>0, <1>1, <2>1, <2>2, OthersKeepWritten
<1>6. CASE DeleteOld
  <2>1. /\ round = "running" /\ UNCHANGED <<committed, now, cutoff>>
        /\ store' = {r \in store : r.table # Order[step] \/ r.time >= cutoff}
    BY <1>6 DEF DeleteOld, workVars
  <2>2. cutoff <= now - Retention /\ cutoff \in Int
    BY <1>0, <2>1 DEF CutoffIsPast, WorkTyped, TelemetryTypeOK
  <2>3. \A r \in store : r.time \in Int
    BY DEF WorkTyped, TelemetryTypeOK, Row
  <2>4. \A r \in store : r \in store' \/ r.time < now - Retention
    BY <1>1, <2>1, <2>2, <2>3
  <2>5. CutoffIsPast'
    BY <2>1, <2>2 DEF CutoffIsPast
  <2> QED BY <1>0, <1>1, <2>1, <2>4, <2>5, OthersKeepWritten
<1>7. CASE CleanupFails \/ Crash
  <2>1. UNCHANGED <<committed, store, now>> /\ round' # "running"
    BY <1>7 DEF CleanupFails, Crash, workVars
  <2> QED BY <1>0, <1>1, <2>1, OthersKeepWritten DEF CutoffIsPast
<1>8. ASSUME NEW a \in Agents, NEW g \in AgentGroups, Register(a, g) PROVE WrittenInv'
  BY <1>2, <1>8 DEF Register, workVars, cleanVars
<1>9. CASE UNCHANGED telemetryVars
  BY <1>2, <1>9 DEF telemetryVars, workVars, cleanVars
<1> QED BY <1>3, <1>4, <1>5, <1>6, <1>7, <1>8, <1>9 DEF TelemetryNext, CleanupStep

LEMMA WrittenInit == TelemetryInit => WorkersInv /\ WrittenInv
<1> SUFFICES ASSUME TelemetryInit PROVE WorkersInv /\ WrittenInv
  OBVIOUS
<1>1. WorkersInv
  BY DEF TelemetryInit, WorkersInv, HandIsRecords, EnrichedFirst, Busy
<1>2. \A i \in Items, t \in Tables : 1..committed[i][t] = {}
  BY NothingFacts DEF TelemetryInit
<1>3. CommittedIsStored /\ StoredIsCommitted /\ StoredOnce /\ CutoffIsPast
  BY <1>2 DEF TelemetryInit, CommittedIsStored, StoredIsCommitted, StoredOnce, CutoffIsPast
<1> QED BY <1>1, <1>3, WrittenParts

(***************************************************************************)
(* What a transaction of the store has committed stays until its own       *)
(* timestamp has expired, and there is one row of it and no other, however *)
(* the workers' transactions, the statements of the clean-up, its failures *)
(* and restarts of the process come in turn.                               *)
(***************************************************************************)
THEOREM CommittedStays == TelemetrySpec => []CommittedUntilExpired
<1>1. TelemetryInit => WorkTyped /\ WorkersInv /\ WrittenInv
  BY TypedInit, WrittenInit
<1>2. WorkTyped /\ WorkersInv /\ WrittenInv /\ [TelemetryNext]_telemetryVars
        => (WorkTyped /\ WorkersInv /\ WrittenInv)'
  BY TypedStep, WorkersStep, WrittenStep
<1>3. WrittenInv => CommittedUntilExpired
  BY DEF WrittenInv
<1> QED BY <1>1, <1>2, <1>3, PTL DEF TelemetrySpec

-----------------------------------------------------------------------------
(* The clean-up.                                                           *)

CleanInv == FoundIsCommitted /\ SweptIsClean

LEMMA CleanKept ==
  ASSUME CleanInv, UNCHANGED <<round, step, cutoff, found, committed>>, store' \subseteq store
  PROVE  CleanInv'
BY DEF CleanInv, FoundIsCommitted, SweptIsClean, Swept, Id

LEMMA CommitKeepsClean ==
  ASSUME WorkTyped, WorkersInv, CleanInv, NEW w \in Workers, NEW t \in Tables, CommitBatch(w, t)
  PROVE  CleanInv'
<1> DEFINE i == item[w]
           n == committed[i][t]
           e == committed'[i][t]
<1>1. /\ i \in Items /\ n \in Nat /\ e \in Nat /\ n < e
      /\ \A j \in Items, u \in Tables : ~(j = i /\ u = t) => committed'[j][u] = committed[j][u]
      /\ UNCHANGED cleanVars
  BY CommitWrites
<1>2. FoundIsCommitted'
  <2> SUFFICES ASSUME NEW j \in Items, NEW u \in Tables, NEW k \in Nat, <<j, u, k>> \in found'
               PROVE  k <= committed'[j][u]
    BY DEF FoundIsCommitted
  <2>1. k <= committed[j][u]
    BY <1>1 DEF CleanInv, FoundIsCommitted, cleanVars
  <2>2. CASE j = i /\ u = t
    BY <1>1, <2>1, <2>2
  <2>3. CASE ~(j = i /\ u = t)
    BY <1>1, <2>1, <2>3
  <2> QED BY <2>2, <2>3
<1>3. SweptIsClean'
  <2> SUFFICES ASSUME NEW r \in store', Swept(r.table), Id(r) \in found PROVE r.time >= cutoff
    BY <1>1 DEF SweptIsClean, Swept, Id, cleanVars
  <2>1. CASE r \in store
    BY <2>1 DEF CleanInv, SweptIsClean
  <2>2. CASE r \notin store
    <3>1. /\ r.item = i /\ r.table = t /\ r.pos \in (n + 1)..e
      BY <2>2, CommitAddsOnly
    <3>2. <<i, t, r.pos>> \in found /\ r.pos \in Nat /\ r.pos > n
      BY <1>1, <3>1 DEF Id
    <3>3. r.pos <= n
      BY <1>1, <3>2 DEF CleanInv, FoundIsCommitted
    <3> QED BY <1>1, <3>2, <3>3
  <2> QED BY <2>1, <2>2
<1> QED BY <1>2, <1>3 DEF CleanInv

LEMMA CleanStep ==
  WorkTyped /\ WorkersInv /\ WrittenInv /\ CleanInv /\ [TelemetryNext]_telemetryVars => CleanInv'
<1> SUFFICES ASSUME WorkTyped, WorkersInv, WrittenInv, CleanInv, [TelemetryNext]_telemetryVars
             PROVE  CleanInv'
  OBVIOUS
<1>1. ASSUME NEW w \in Workers, WorkerStep(w) PROVE CleanInv'
  <2>1. CASE \E t \in Tables : CommitBatch(w, t)
    BY <2>1, CommitKeepsClean
  <2>2. CASE ~\E t \in Tables : CommitBatch(w, t)
    <3>1. UNCHANGED <<round, step, cutoff, found, committed, store>>
      BY <1>1, <2>2 DEF WorkerStep, Take, Enrich, LookupFails, WriteFails, WriteReturns, cleanVars
    <3> QED BY <3>1, CleanKept
  <2> QED BY <2>1, <2>2
<1>2. CASE StartCleanup
  <2>1. /\ round' = "running" /\ step' = 1 /\ found' = {Id(r) : r \in store}
        /\ UNCHANGED <<committed, store>>
    BY <1>2 DEF StartCleanup, workVars
  <2>2. FoundIsCommitted'
    <3> SUFFICES ASSUME NEW j \in Items, NEW u \in Tables, NEW k \in Nat, <<j, u, k>> \in found'
                 PROVE  k <= committed[j][u]
      BY <2>1 DEF FoundIsCommitted
    <3>1. PICK r \in store : Id(r) = <<j, u, k>>
      BY <2>1
    <3>2. k \in 1..committed[j][u]
      BY <3>1, WrittenParts DEF Id, StoredIsCommitted
    <3>3. committed[j][u] \in Nat
      BY DEF WorkTyped, TelemetryTypeOK
    <3> QED BY <3>2, <3>3
  <2>3. SweptIsClean'
    BY <2>1 DEF SweptIsClean, Swept
  <2> QED BY <2>2, <2>3 DEF CleanInv
<1>3. CASE DeleteOld
  <2>1. /\ round = "running" /\ UNCHANGED <<committed, cutoff, found>>
        /\ store' = {r \in store : r.table # Order[step] \/ r.time >= cutoff}
        /\ round' = IF step = 5 THEN "done" ELSE "running"
        /\ step' = IF step = 5 THEN 1 ELSE step + 1
    BY <1>3 DEF DeleteOld, workVars
  <2>2. step \in 1..5
    BY DEF WorkTyped, TelemetryTypeOK
  <2>3. FoundIsCommitted'
    BY <2>1 DEF CleanInv, FoundIsCommitted
  <2>4. SweptIsClean'
    <3> SUFFICES ASSUME NEW r \in store', Swept(r.table)', Id(r) \in found PROVE r.time >= cutoff
      BY <2>1 DEF SweptIsClean, Swept, Id
    <3>1. r \in store /\ (r.table # Order[step] \/ r.time >= cutoff)
      BY <2>1
    <3>2. PICK j \in 1..5 : r.table = Order[j]
      BY <3>1 DEF WorkTyped, TelemetryTypeOK, Row, Tables
    <3>3. CASE j = step
      BY <3>1, <3>2, <3>3
    <3>4. CASE j < step
      BY <2>1, <2>2, <3>1, <3>2, <3>4 DEF CleanInv, SweptIsClean, Swept
    <3>5. CASE j > step
      <4>1. step # 5 /\ round' = "running" /\ step' = step + 1
        BY <2>1, <2>2, <3>5
      <4>2. PICK h \in 1..step : Order[h] = r.table
        BY <2>2, <4>1 DEF Swept
      <4>3. CASE h = step
        BY <3>1, <4>2, <4>3
      <4>4. CASE h < step
        BY <2>1, <2>2, <3>1, <4>2, <4>4 DEF CleanInv, SweptIsClean, Swept
      <4> QED BY <2>2, <4>2, <4>3, <4>4
    <3> QED BY <2>2, <3>3, <3>4, <3>5
  <2> QED BY <2>3, <2>4 DEF CleanInv
<1>4. CASE CleanupFails
  <2>1. round' = "failed" /\ UNCHANGED <<committed, found>>
    BY <1>4 DEF CleanupFails, workVars
  <2> QED BY <2>1 DEF CleanInv, FoundIsCommitted, SweptIsClean, Swept
<1>5. CASE Crash
  <2>1. round' = "none" /\ found' = {}
    BY <1>5 DEF Crash
  <2> QED BY <2>1 DEF CleanInv, FoundIsCommitted, SweptIsClean, Swept
<1>6. ASSUME Tick \/ (\E a \in Agents, g \in AgentGroups : Register(a, g)) \/ UNCHANGED telemetryVars
      PROVE  CleanInv'
  <2>1. UNCHANGED <<round, step, cutoff, found, committed, store>>
    BY <1>6 DEF Tick, Register, telemetryVars, workVars, cleanVars
  <2> QED BY <2>1, CleanKept
<1> QED BY <1>1, <1>2, <1>3, <1>4, <1>5, <1>6 DEF TelemetryNext, CleanupStep

(***************************************************************************)
(* A round of the clean-up deletes in each table that it has come through  *)
(* all rows that it found older than its cutoff, whatever the workers      *)
(* commit in the meantime.                                                 *)
(***************************************************************************)
THEOREM RoundsAreClean == TelemetrySpec => []SweptIsClean
<1>1. TelemetryInit => WorkTyped /\ WorkersInv /\ WrittenInv /\ CleanInv
  <2>1. TelemetryInit => CleanInv
    BY DEF TelemetryInit, CleanInv, FoundIsCommitted, SweptIsClean
  <2> QED BY <2>1, TypedInit, WrittenInit
<1>2. WorkTyped /\ WorkersInv /\ WrittenInv /\ CleanInv /\ [TelemetryNext]_telemetryVars
        => (WorkTyped /\ WorkersInv /\ WrittenInv /\ CleanInv)'
  BY TypedStep, WorkersStep, WrittenStep, CleanStep
<1>3. CleanInv => SweptIsClean
  BY DEF CleanInv
<1> QED BY <1>1, <1>2, <1>3, PTL DEF TelemetrySpec

-----------------------------------------------------------------------------
(* The groups.                                                             *)

InHand(r, w, t, k) == Busy(w) /\ k \in 1..looked[w][t] /\ r = rows[w][t][k]

LEMMA InHandFacts ==
  ASSUME WorkTyped, WorkersInv, NEW r, NEW w \in Workers, NEW t \in Tables, NEW k, InHand(r, w, t, k)
  PROVE  /\ r \in Row /\ item[w] \in Items /\ fate[item[w]] = "taken"
         /\ r.item = item[w] /\ r.table = t /\ r.pos = k
         /\ k \in 1..Len(rows[w][t])
<1>1. k \in 1..Len(rows[w][t]) /\ item[w] \in Items /\ fate[item[w]] = "taken"
  BY DEF InHand, WorkTyped, TelemetryTypeOK, Busy
<1>2. r \in Row
  <2>1. rows[w][t] \in Seq(Row)
    BY DEF WorkTyped
  <2> QED BY <1>1, <2>1 DEF InHand
<1>3. Id(r) = <<item[w], t, k>>
  BY <1>1 DEF InHand, WorkersInv, HandIsRecords
<1> QED BY <1>1, <1>2, <1>3 DEF Id

LEMMA EnrichedRows ==
  ASSUME NEW r
  PROVE  IsEnriched(r) <=> \/ r \in store
                           \/ \E w \in Workers, t \in Tables, k \in Nat : InHand(r, w, t, k)
BY DEF IsEnriched, InHand

LEMMA EnrichedTyped ==
  ASSUME WorkTyped, WorkersInv, NEW r, IsEnriched(r)
  PROVE  r \in Row
BY EnrichedRows, InHandFacts DEF WorkTyped, TelemetryTypeOK

(* Nothing is looked up that was not, and the registry stays.              *)
LEMMA GroupsKept ==
  ASSUME GroupsInv, UNCHANGED <<agents, known, missed>>,
         \A r \in Row : IsEnriched(r)' => IsEnriched(r)
  PROVE  GroupsInv'
<1>1. ASSUME NEW r \in Row, IsEnriched(r)' PROVE OwnGroup(r)' /\ KnownGroup(r)'
  <2>1. OwnGroup(r) /\ KnownGroup(r)
    BY <1>1 DEF GroupsInv
  <2> QED BY <2>1 DEF OwnGroup, KnownGroup, Stored
<1>2. ASSUME NEW r \in Row, NEW s \in Row, IsEnriched(r)', IsEnriched(s)' PROVE Follows(r, s)'
  <2>1. Follows(r, s)
    BY <1>2 DEF GroupsInv
  <2> QED BY <2>1 DEF Follows, Stored
<1>3. \A i \in Items : known'[i] \subseteq {a \in Agents : agents'[a] # NoRow}
  BY DEF GroupsInv
<1> QED BY <1>1, <1>2, <1>3 DEF GroupsInv

LEMMA HandsShrink ==
  ASSUME NEW r, store' \subseteq store, \A w \in Workers : Kept(w) \/ ~Busy(w)',
         IsEnriched(r)'
  PROVE  IsEnriched(r)
BY DEF IsEnriched, Kept, Busy

LEMMA TakeGroups ==
  ASSUME WorkTyped, WorkersInv, WrittenInv, GroupsInv,
         NEW w \in Workers, NEW i \in Items, Take(w, i)
  PROVE  GroupsInv'
<1>1. /\ \A v \in Workers : v # w => Kept(v)
      /\ looked'[w] = NoCounts /\ fate[i] = "queued"
      /\ UNCHANGED <<store, agents, missed>>
      /\ known' = [known EXCEPT ![i] = {a \in Agents : agents[a] # NoRow}]
  BY TakeWrites DEF Take
<1>2. known \in [Items -> SUBSET Agents]
  BY DEF WorkTyped, TelemetryTypeOK
<1>3. \A t \in Tables : 1..looked'[w][t] = {}
  BY <1>1, NothingFacts
<1>4. ASSUME NEW r \in Row, IsEnriched(r)' PROVE IsEnriched(r)
  BY <1>1, <1>3, <1>4 DEF IsEnriched, Kept, Busy
<1>5. ASSUME NEW r \in Row, IsEnriched(r) PROVE r.item # i
  <2>1. CASE r \in store
    <3>1. r.pos \in 1..committed[r.item][r.table] /\ r.table \in Tables
      BY <2>1, WrittenParts DEF StoredIsCommitted, Row
    <3>2. Untouched(i)
      BY <1>1 DEF WorkTyped
    <3> QED BY <3>1, <3>2 DEF Untouched
  <2>2. ASSUME NEW v \in Workers, NEW t \in Tables, NEW k \in Nat, InHand(r, v, t, k)
        PROVE  r.item # i
    BY <1>1, <2>2, InHandFacts
  <2> QED BY <1>5, <2>1, <2>2, EnrichedRows
<1>6. ASSUME NEW r \in Row, IsEnriched(r)' PROVE OwnGroup(r)' /\ KnownGroup(r)'
  <2>1. OwnGroup(r) /\ KnownGroup(r) /\ r.item # i /\ r.item \in Items
    BY <1>4, <1>5, <1>6 DEF GroupsInv, Row
  <2>2. known'[r.item] = known[r.item]
    BY <1>1, <1>2, <2>1
  <2> QED BY <1>1, <2>1, <2>2 DEF OwnGroup, KnownGroup, Stored
<1>7. ASSUME NEW r \in Row, NEW s \in Row, IsEnriched(r)', IsEnriched(s)' PROVE Follows(r, s)'
  <2>1. Follows(r, s)
    BY <1>4, <1>7 DEF GroupsInv
  <2> QED BY <1>1, <2>1 DEF Follows, Stored
<1>8. \A j \in Items : known'[j] \subseteq {a \in Agents : agents'[a] # NoRow}
  BY <1>1, <1>2 DEF GroupsInv
<1> QED BY <1>6, <1>7, <1>8 DEF GroupsInv

(* The record that is looked up comes to the enriched ones, and no other.  *)
LEMMA LookupAdds ==
  ASSUME WorkTyped, WorkersInv, NEW w \in Workers, NEW t \in Tables,
         Enrich(w, t) \/ LookupFails(w, t),
         NEW r \in Row, IsEnriched(r)', ~IsEnriched(r)
  PROVE  LET k == looked[w][t] + 1
             x == ParsedRow(item[w], t, k)
         IN  /\ r = rows'[w][t][k] /\ x = rows[w][t][k] /\ x \in Row
             /\ r.item = item[w] /\ r.table = t /\ r.pos = k /\ Claim(r) = x
<1> DEFINE k == looked[w][t] + 1
           x == ParsedRow(item[w], t, k)
<1>1. /\ Busy(w) /\ k \in 1..Len(rows[w][t])
      /\ \A v \in Workers, u \in Tables :
           /\ looked'[v][u] = IF v = w /\ u = t THEN k ELSE looked[v][u]
           /\ \A j \in 1..Len(rows[v][u]) :
                ~(v = w /\ u = t /\ j = k) => rows'[v][u][j] = rows[v][u][j]
      /\ Enrich(w, t) => rows'[w][t][k] = Enriched(rows[w][t][k])
      /\ UNCHANGED <<item, store>>
  BY LookupWrites
<1>2. looked[w][t] \in Nat /\ rows[w][t] \in Seq(Row)
  BY DEF WorkTyped
<1>3. rows[w][t][k] = x /\ Id(x) = <<item[w], t, k>> /\ x \in Row
  BY <1>1, <1>2 DEF WorkersInv, HandIsRecords
<1>4. rows'[w][t][k] = x \/ rows'[w][t][k] = Enriched(x)
  BY <1>1, <1>3 DEF LookupFails
<1> HIDE DEF k
<1>5. PICK v \in Workers, u \in Tables, j \in Nat :
        Busy(v) /\ j \in 1..looked'[v][u] /\ r = rows'[v][u][j]
  <2>1. UNCHANGED <<item, store>>
    BY <1>1
  <2>2. r \notin store
    BY DEF IsEnriched
  <2>3. \E v \in Workers : Busy(v)' /\ \E u \in Tables : \E j \in 1..looked'[v][u] :
                                                         r = rows'[v][u][j]
    BY <2>1, <2>2 DEF IsEnriched
  <2> QED BY <2>1, <2>3 DEF Busy
<1>6. v = w /\ u = t /\ j = k
  <2> SUFFICES ASSUME ~(v = w /\ u = t /\ j = k) PROVE FALSE
    OBVIOUS
  <2>1. j \in 1..looked[v][u]
    BY <1>1, <1>2, <1>5 DEF k
  <2>2. looked[v][u] \in 0..Len(rows[v][u]) /\ Len(rows[v][u]) \in Nat
    BY <1>5 DEF WorkTyped, TelemetryTypeOK, Busy
  <2>3. j \in 1..Len(rows[v][u])
    BY <2>1, <2>2
  <2>4. r = rows[v][u][j]
    BY <1>1, <1>5, <2>3
  <2> QED BY <1>5, <2>1, <2>4 DEF IsEnriched
<1>7. r = rows'[w][t][k] /\ Id(r) = <<item[w], t, k>>
  BY <1>3, <1>4, <1>5, <1>6, EnrichedFacts DEF WorkTyped, TelemetryTypeOK
<1>8. r.item = item[w] /\ r.table = t /\ r.pos = k
  BY <1>7 DEF Id
<1> QED BY <1>3, <1>7, <1>8 DEF Claim, k

LEMMA EnrichGroups ==
  ASSUME WorkTyped, WorkersInv, WrittenInv, GroupsInv,
         NEW w \in Workers, NEW t \in Tables, Enrich(w, t)
  PROVE  GroupsInv'
<1> DEFINE k == looked[w][t] + 1
           x == ParsedRow(item[w], t, k)
<1>1. /\ UNCHANGED <<agents, known, missed>>
      /\ rows'[w][t][k] = Enriched(rows[w][t][k])
      /\ Busy(w) /\ ~Through(looked[w], rows[w])
  BY LookupWrites DEF Enrich
<1>2. ASSUME NEW r \in Row, IsEnriched(r)', ~IsEnriched(r)
      PROVE  /\ r = Enriched(x) /\ x \in Row /\ Claim(r) = x /\ r.agent = x.agent
             /\ r.item = item[w] /\ r.table = t /\ r.pos = k
  <2>1. /\ r = rows'[w][t][k] /\ x = rows[w][t][k] /\ x \in Row
        /\ r.item = item[w] /\ r.table = t /\ r.pos = k /\ Claim(r) = x
    BY <1>2, LookupAdds
  <2> QED BY <1>1, <2>1, EnrichedFacts DEF WorkTyped, TelemetryTypeOK
<1> HIDE DEF x, k
<1>3. ASSUME NEW r \in Row, IsEnriched(r)', ~IsEnriched(r), Stored(r.agent)
      PROVE  r = Overlay(Claim(r), agents[r.agent]) /\ InGroup(r, agents[r.agent])
  <2>1. r = Overlay(x, agents[r.agent]) /\ x \in Row /\ Claim(r) = x
    BY <1>2, <1>3 DEF Stored, Enriched
  <2>2. agents[r.agent] \in Groups
    BY <1>3, TelemetryAssumption DEF Stored, WorkTyped, TelemetryTypeOK
  <2> QED BY <2>1, <2>2, OverlaidTwice
<1>4. ASSUME NEW r \in Row, IsEnriched(r)' PROVE OwnGroup(r)' /\ KnownGroup(r)'
  <2>1. CASE IsEnriched(r)
    <3>1. OwnGroup(r) /\ KnownGroup(r)
      BY <2>1 DEF GroupsInv
    <3> QED BY <1>1, <3>1 DEF OwnGroup, KnownGroup, Stored
  <2>2. CASE ~IsEnriched(r)
    <3>1. ~Stored(r.agent) => r = Claim(r)
      BY <1>2, <1>4, <2>2 DEF Stored, Enriched
    <3> QED BY <1>1, <1>3, <1>4, <2>2, <3>1 DEF OwnGroup, KnownGroup, Stored
  <2> QED BY <2>1, <2>2
<1>5. ASSUME NEW r \in Row, NEW s \in Row, IsEnriched(r)', IsEnriched(s)' PROVE Follows(r, s)'
  <2>1. CASE ~IsEnriched(r)
    BY <1>1, <1>3, <1>5, <2>1 DEF Follows, Stored
  <2>2. CASE IsEnriched(r) /\ IsEnriched(s)
    <3>1. Follows(r, s)
      BY <2>2 DEF GroupsInv
    <3> QED BY <1>1, <3>1 DEF Follows, Stored
  <2>3. CASE IsEnriched(r) /\ ~IsEnriched(s)
    <3> SUFFICES ASSUME s.item = r.item, s.table = r.table, s.pos < r.pos PROVE FALSE
      BY DEF Follows
    <3>1. s.item = item[w] /\ s.table = t /\ s.pos = k
      BY <1>2, <1>5, <2>3
    <3>2. CASE r \in store
      <4>1. Untouched(item[w])
        BY <1>1 DEF WorkersInv, EnrichedFirst
      <4>2. r.pos \in 1..committed[r.item][r.table]
        BY <3>2, WrittenParts DEF StoredIsCommitted
      <4> QED BY <3>1, <4>1, <4>2 DEF Untouched
    <3>3. ASSUME NEW v \in Workers, NEW u \in Tables, NEW j \in Nat, InHand(r, v, u, j)
          PROVE  FALSE
      <4>1. r.item = item[v] /\ r.table = u /\ r.pos = j
        BY <3>3, InHandFacts
      <4>2. v = w /\ u = t
        BY <1>1, <3>1, <4>1 DEF WorkTyped, TelemetryTypeOK, Busy
      <4>3. looked[w][t] \in Nat /\ j <= looked[w][t]
        BY <3>3, <4>2 DEF WorkTyped, InHand
      <4> QED BY <3>1, <4>1, <4>3 DEF k
    <3> QED BY <2>3, <3>2, <3>3, EnrichedRows
  <2> QED BY <2>1, <2>2, <2>3
<1>6. \A i \in Items : known'[i] \subseteq {a \in Agents : agents'[a] # NoRow}
  BY <1>1 DEF GroupsInv
<1> QED BY <1>4, <1>5, <1>6 DEF GroupsInv

LEMMA LookupFailsGroups ==
  ASSUME WorkTyped, WorkersInv, GroupsInv,
         NEW w \in Workers, NEW t \in Tables, LookupFails(w, t)
  PROVE  GroupsInv'
<1> DEFINE k == looked[w][t] + 1
<1>1. /\ UNCHANGED <<agents, known, rows>>
      /\ missed' = missed \cup {<<item[w], t, k>>}
  BY DEF LookupFails
<1>2. ASSUME NEW r \in Row, IsEnriched(r)', ~IsEnriched(r)
      PROVE  r = Claim(r) /\ Id(r) \in missed'
  <2>1. /\ r = rows'[w][t][k] /\ Claim(r) = rows[w][t][k]
        /\ r.item = item[w] /\ r.table = t /\ r.pos = k
    BY <1>2, LookupAdds
  <2> QED BY <1>1, <2>1 DEF Id
<1> HIDE DEF k
<1>3. ASSUME NEW r \in Row, IsEnriched(r)' PROVE OwnGroup(r)' /\ KnownGroup(r)'
  <2>1. CASE IsEnriched(r)
    <3>1. OwnGroup(r) /\ KnownGroup(r)
      BY <2>1 DEF GroupsInv
    <3> QED BY <1>1, <3>1 DEF OwnGroup, KnownGroup, Stored, Id
  <2>2. CASE ~IsEnriched(r)
    BY <1>2, <1>3, <2>2 DEF OwnGroup, KnownGroup, Id
  <2> QED BY <2>1, <2>2
<1>4. ASSUME NEW r \in Row, NEW s \in Row, IsEnriched(r)', IsEnriched(s)' PROVE Follows(r, s)'
  <2>1. CASE IsEnriched(r) /\ IsEnriched(s)
    <3>1. Follows(r, s)
      BY <2>1 DEF GroupsInv
    <3> QED BY <1>1, <3>1 DEF Follows, Stored, Id
  <2>2. CASE ~IsEnriched(r)
    BY <1>2, <1>4, <2>2 DEF Follows, Id
  <2>3. CASE ~IsEnriched(s)
    BY <1>2, <1>4, <2>3 DEF Follows
  <2> QED BY <2>1, <2>2, <2>3
<1>5. \A i \in Items : known'[i] \subseteq {a \in Agents : agents'[a] # NoRow}
  BY <1>1 DEF GroupsInv
<1> QED BY <1>3, <1>4, <1>5 DEF GroupsInv

(* An agent that registers had no group, and no row has one of it.         *)
LEMMA RegisterGroups ==
  ASSUME WorkTyped, GroupsInv, NEW a \in Agents, NEW g \in AgentGroups, Register(a, g)
  PROVE  GroupsInv'
<1>1. /\ agents[a] = NoRow /\ agents' = [agents EXCEPT ![a] = g]
      /\ UNCHANGED <<workVars, store, known, missed>>
  BY DEF Register
<1>2. agents \in [Agents -> AgentGroups \cup {NoRow}] /\ g # NoRow
  BY TelemetryAssumption DEF WorkTyped, TelemetryTypeOK
<1>3. \A b : b # a => (Stored(b)' <=> Stored(b)) /\ (Stored(b) => agents'[b] = agents[b])
  BY <1>1, <1>2 DEF Stored
<1>4. ~Stored(a)
  BY <1>1 DEF Stored
<1>5. ASSUME NEW r \in Row, IsEnriched(r)'
      PROVE  IsEnriched(r) /\ OwnGroup(r) /\ KnownGroup(r)
  <2>1. IsEnriched(r)
    BY <1>1, <1>5 DEF IsEnriched, Busy, workVars
  <2> QED BY <2>1 DEF GroupsInv
<1>6. ASSUME NEW r \in Row, IsEnriched(r)' PROVE OwnGroup(r)' /\ KnownGroup(r)'
  <2>1. OwnGroup(r) /\ KnownGroup(r)
    BY <1>5, <1>6
  <2>2. CASE r.agent = a
    <3>1. r = Claim(r)
      BY <1>4, <2>1, <2>2 DEF OwnGroup
    <3>2. a \notin known[r.item]
      BY <1>1 DEF GroupsInv, Row
    <3> QED BY <1>1, <2>2, <3>1, <3>2 DEF OwnGroup, KnownGroup
  <2>3. CASE r.agent # a
    BY <1>1, <1>3, <2>1, <2>3 DEF OwnGroup, KnownGroup
  <2> QED BY <2>2, <2>3
<1>7. ASSUME NEW r \in Row, NEW s \in Row, IsEnriched(r)', IsEnriched(s)' PROVE Follows(r, s)'
  <2>1. Follows(r, s) /\ OwnGroup(s)
    BY <1>5, <1>7 DEF GroupsInv
  <2>2. CASE r.agent = a
    <3>1. s.agent = a => s = Claim(s)
      BY <1>4, <2>1 DEF OwnGroup
    <3> QED BY <2>2, <3>1 DEF Follows
  <2>3. CASE r.agent # a
    BY <1>1, <1>3, <2>1, <2>3 DEF Follows
  <2> QED BY <2>2, <2>3
<1>8. \A i \in Items : known'[i] \subseteq {b \in Agents : agents'[b] # NoRow}
  BY <1>1, <1>2 DEF GroupsInv
<1> QED BY <1>6, <1>7, <1>8 DEF GroupsInv

LEMMA GroupsStep ==
  WorkTyped /\ WorkersInv /\ WrittenInv /\ GroupsInv /\ [TelemetryNext]_telemetryVars => GroupsInv'
<1> SUFFICES ASSUME WorkTyped, WorkersInv, WrittenInv, GroupsInv, [TelemetryNext]_telemetryVars
             PROVE  GroupsInv'
  OBVIOUS
<1>1. ASSUME NEW w \in Workers, NEW t \in Tables, CommitBatch(w, t) PROVE GroupsInv'
  <2>1. UNCHANGED <<item, rows, looked, agents, known, missed>>
    BY <1>1 DEF CommitBatch
  <2>2. ASSUME NEW r \in Row, IsEnriched(r)' PROVE IsEnriched(r)
    <3>1. CASE r \in store' /\ r \notin store
      <4>1. \E k \in 1..looked[w][t] : r = rows[w][t][k]
        BY <1>1, <3>1, CommitAddsOnly
      <4>2. Busy(w)
        BY <1>1, CommitWrites
      <4> QED BY <4>1, <4>2 DEF IsEnriched
    <3>2. CASE ~(r \in store' /\ r \notin store)
      BY <2>1, <2>2, <3>2 DEF IsEnriched, Busy
    <3> QED BY <3>1, <3>2
  <2> QED BY <2>1, <2>2, GroupsKept
<1>2. ASSUME NEW w \in Workers, WriteFails(w) \/ WriteReturns(w) PROVE GroupsInv'
  <2>1. PICK result \in {"failed", "written"} : Release(w, result) /\ Busy(w)
    BY <1>2 DEF WriteFails, WriteReturns, Writing, Busy
  <2>2. ~Busy(w)' /\ \A v \in Workers : v # w => Kept(v)
    BY <2>1, ReleaseWrites
  <2>3. UNCHANGED <<store, agents, known, missed>>
    BY <1>2 DEF WriteFails, WriteReturns
  <2> QED BY <2>2, <2>3, HandsShrink, GroupsKept
<1>3. ASSUME NEW w \in Workers, WorkerStep(w) PROVE GroupsInv'
  BY <1>1, <1>2, <1>3, TakeGroups, EnrichGroups, LookupFailsGroups DEF WorkerStep
<1>4. CASE Crash
  <2>1. UNCHANGED <<store, agents, known, missed>> /\ \A w \in Workers : ~Busy(w)'
    BY <1>4, CrashWrites
  <2> QED BY <2>1, HandsShrink, GroupsKept
<1>5. ASSUME Tick \/ CleanupStep \/ UNCHANGED telemetryVars PROVE GroupsInv'
  <2>1. UNCHANGED workVars /\ UNCHANGED <<agents, known, missed>> /\ store' \subseteq store
    BY <1>5 DEF Tick, CleanupStep, StartCleanup, DeleteOld, CleanupFails, telemetryVars
  <2> QED BY <2>1, HandsShrink, GroupsKept DEF workVars, Kept
<1>6. ASSUME NEW a \in Agents, NEW g \in AgentGroups, Register(a, g) PROVE GroupsInv'
  BY <1>6, RegisterGroups
<1> QED BY <1>3, <1>4, <1>5, <1>6 DEF TelemetryNext

(***************************************************************************)
(* Whatever agents register while requests are enriched and written, and   *)
(* whichever lookups fail, a row has the group of its agent's own row if   *)
(* that was stored when the request was taken, or if an earlier record of  *)
(* the agent in the request has found it; and else the resource's.         *)
(***************************************************************************)
THEOREM RowsFollowTheRegistry == TelemetrySpec => []GroupsFollowTheRegistry
<1>1. TelemetryInit => GroupsInv
  BY DEF TelemetryInit, GroupsInv, IsEnriched, Busy
<1>2. WorkTyped /\ GroupsInv => GroupsFollowTheRegistry
  <2> SUFFICES ASSUME WorkTyped, GroupsInv, NEW r \in store
               PROVE  /\ r = Claim(r) \/ (Stored(r.agent) /\ r = Overlay(Claim(r), agents[r.agent]))
                      /\ Id(r) \notin missed /\ Stored(r.agent) /\ r.agent \in known[r.item]
                           => InGroup(r, agents[r.agent])
                      /\ \A s \in store :
                           s.item = r.item /\ s.table = r.table /\ s.agent = r.agent
                           /\ s.pos < r.pos /\ s # Claim(s) /\ Id(r) \notin missed /\ Stored(r.agent)
                             => InGroup(r, agents[r.agent])
    BY Zenon DEF GroupsFollowTheRegistry, Claim, Stored
  <2>1. \A s \in store : s \in Row /\ IsEnriched(s)
    BY DEF WorkTyped, TelemetryTypeOK, IsEnriched
  <2> QED BY <2>1 DEF GroupsInv, OwnGroup, KnownGroup, Follows
<1>3. WorkTyped /\ WorkersInv /\ WrittenInv /\ GroupsInv /\ [TelemetryNext]_telemetryVars
        => (WorkTyped /\ WorkersInv /\ WrittenInv /\ GroupsInv)'
  BY TypedStep, WorkersStep, WrittenStep, GroupsStep
<1> QED BY <1>1, <1>2, <1>3, TypedInit, WrittenInit, PTL DEF TelemetrySpec

=============================================================================
