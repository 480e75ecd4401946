----------------------------- MODULE QueryEngine -----------------------------
(***************************************************************************)
(* The execution of Lawrence QL queries: ExecutorVisitor and the built-in  *)
(* functions (internal/query/executor.go, functions.go) over the telemetry *)
(* store's Query* statements, while workers go on writing to the store.    *)
(*                                                                         *)
(* A query is the list of its nodes in the order in which Accept evaluates *)
(* them (operands before their operator), and the results of the operands  *)
(* are on a stack. Every telemetry query is a statement of its own, so the *)
(* store may change between the two operands of a binary operator. A value *)
(* is a fraction; floating-point rounding is left out.                     *)
(***************************************************************************)
EXTENDS Integers, Sequences, FiniteSets, SequencesExt

CONSTANTS
  Rows,      \* rows that may come to be in the store
  Queries,   \* queries, as lists of nodes
  Agents,    \* agents a request may ask for, the texts that are UUIDs
  Groups,    \* groups a request may ask for
  Unset,     \* no agent, or no group, in the request
  Missing,   \* a label without a value
  Limit      \* TelemetryQuery.Limit

Bar == "|"   \* between the labels of a group's key
Empty == ""  \* adds nothing to it

(* A row has a type, a time, columns (a metric's have agent and name, but  *)
(* group_id may be null), attributes and a value.                          *)
ASSUME RowsAreTyped ==
  IsFiniteSet(Rows) /\ \A r \in Rows :
    /\ r = [type |-> r.type, ts |-> r.ts, cols |-> r.cols, attrs |-> r.attrs, val |-> r.val]
    /\ r.ts \in Int /\ r.val \in [n : Int, d : Nat]
    /\ r.cols = [c \in DOMAIN r.cols |-> r.cols[c]]
    /\ r.type = "metrics" => /\ DOMAIN r.cols = {"agent_id", "group_id", "name"}
                             /\ Missing \notin {r.cols.agent_id, r.cols.name}

ASSUME LimitIsNumber == Limit \in Nat \ {0}

ASSUME UnsetIsNoValue == Unset \notin Agents \cup Groups /\ Missing \notin Agents \cup Groups

(* the operands that a node takes from the stack *)
Arity(node) ==
  CASE node.kind = "telemetry" -> 0
    [] node.kind = "call" -> IF node.args = 0 THEN 0 ELSE 1
    [] node.kind = "aggregation" -> 1
    [] node.kind = "binary" -> 2

(* A query is a tree, operands first: some results are there before each   *)
(* node, enough for its operands, and one after the last. It groups by a   *)
(* list of labels.                                                         *)
IsTree(q) ==
  \E results \in [0..Len(q) -> 0..Len(q)] :
    /\ results[0] = 0 /\ results[Len(q)] = 1
    /\ \A k \in 1..Len(q) :
         /\ q[k].kind \in {"telemetry", "call", "aggregation", "binary"}
         /\ Arity(q[k]) <= results[k - 1]
         /\ results[k] = results[k - 1] - Arity(q[k]) + 1

ASSUME QueriesAreTrees ==
  \A q \in Queries : /\ Len(q) \in Nat /\ IsTree(q)
                     /\ \A k \in 1..Len(q) : q[k].kind = "aggregation" => q[k].by \in Seq(ToSet(q[k].by))

VARIABLES
  store,     \* the rows of the telemetry store
  query,     \* the parsed query of a request
  execCtx,   \* ExecutionContext: AgentID and GroupID of the request
  next,      \* the node of the query to visit next
  stack,     \* the results of operands, innermost last
  status     \* "running", "done", "failed"

engineVars == <<store, query, execCtx, next, stack, status>>

-----------------------------------------------------------------------------
(* Values: fractions [n, d], d > 0; a text that is no number has d = 0.    *)

Number(n) == [n |-> n, d |-> 1]
Text == [n |-> 0, d |-> 0]
IsNumber(v) == v.d # 0
Plus(v, w) == [n |-> v.n * w.d + w.n * v.d, d |-> v.d * w.d]
Minus(v, w) == [n |-> v.n * w.d - w.n * v.d, d |-> v.d * w.d]
Over(v, k) == [n |-> v.n, d |-> v.d * k]
Times(v, k) == [n |-> v.n * k, d |-> v.d]
Less(v, w) == v.n * w.d < w.n * v.d
AtMost(v, w) == ~Less(w, v)
Same(v, w) == AtMost(v, w) /\ AtMost(w, v)

(* the sum so far, after each turn of the loop *)
Total(vs) ==
  LET sum[i \in 0..Len(vs)] == IF i = 0 THEN Number(0) ELSE Plus(sum[i - 1], vs[i])
  IN  sum[Len(vs)]

(* A loop over the elements of s that keeps those at the given positions.  *)
Keep(s, positions) ==
  LET kept[i \in 0..Len(s)] ==
        IF i = 0 THEN <<>>
        ELSE IF i \in positions THEN Append(kept[i - 1], s[i])
        ELSE kept[i - 1]
  IN  kept[Len(s)]

NoLabels == [l \in {} |-> Missing]
LabelOf(labels, l) == IF l \in DOMAIN labels THEN labels[l] ELSE Missing
Overlay(labels, over) ==
  [l \in DOMAIN labels \cup DOMAIN over |-> IF l \in DOMAIN over THEN over[l] ELSE labels[l]]

(* A result: its type, timestamp, Labels, Data and Value. *)
Result(type, ts, labels, val) ==
  [type |-> type, ts |-> ts, labels |-> labels, data |-> NoLabels, val |-> val]

-----------------------------------------------------------------------------
(* Telemetry queries. A row has columns, attributes and a value. Selectors *)
(* map labels to an operator, the values it compares with (one value for = *)
(* and !=, those that the regular expression matches for =~ and !~) and,   *)
(* for the label body, the texts that contain the selector's text.         *)

(* the column each special label stands for *)
SpecialLabels(type) ==
  CASE type = "metrics" -> [agent_id |-> "agent_id", group_id |-> "group_id",
                            metric |-> "name", name |-> "name", metric_name |-> "name"]
    [] type = "logs"    -> [agent_id |-> "agent_id", group_id |-> "group_id",
                            severity |-> "severity", level |-> "severity",
                            body |-> "body", message |-> "body", search |-> "body"]
    [] type = "traces"  -> [agent_id |-> "agent_id", group_id |-> "group_id", trace_id |-> "trace_id"]

(* the request names the agent or the group, whatever the selector says *)
FromRequest(c) == c \in {"agent_id", "group_id"} /\ execCtx[c] # Unset

PushedOps(c) == IF c = "body" THEN {"=", "=~"} ELSE {"="}

(* the special labels of q that are turned into a condition on column c *)
PushedLabels(q, c) ==
  {l \in DOMAIN q.sel \cap DOMAIN SpecialLabels(q.type) :
     SpecialLabels(q.type)[l] = c /\ (FromRequest(c) \/ q.sel[l].op \in PushedOps(c))}

(* The values column c is allowed; when two labels name the column, those  *)
(* of the label that the map iteration comes to last. The column body has  *)
(* to contain the text of the selector, a regular expression or not.       *)
ColumnConditions(q, c) ==
  CASE FromRequest(c) -> {{execCtx[c]}}
    [] c = "body" -> {q.sel[l].within : l \in PushedLabels(q, c)}
    [] OTHER -> {q.sel[l].vals : l \in PushedLabels(q, c)}

Columns(type) == {SpecialLabels(type)[l] : l \in DOMAIN SpecialLabels(type)}

(* the conditions of the WHERE clause, by column *)
WhereClauses(q) ==
  LET pushed == {c \in Columns(q.type) : PushedLabels(q, c) # {}}
  IN  {w \in [pushed -> UNION {ColumnConditions(q, c) : c \in pushed}] :
         \A c \in pushed : w[c] \in ColumnConditions(q, c)}

(* a condition does not hold of null *)
Where(q, w) ==
  {r \in store : r.type = q.type /\ \A c \in DOMAIN w : r.cols[c] # Missing /\ r.cols[c] \in w[c]}

(* ORDER BY timestamp DESC LIMIT: rows of the same time in any order *)
NewestFirst(rows) ==
  {SubSeq(s, 1, Min({Limit, Len(s)})) :
     s \in {s \in SetToSeqs(rows) : \A i, j \in DOMAIN s : i < j => s[i].ts >= s[j].ts}}

Matches(selector, value) ==
  CASE selector.op = "=" -> value # Missing /\ value \in selector.vals
    [] selector.op = "!=" -> value = Missing \/ value \notin selector.vals
    [] selector.op = "=~" -> value # Missing /\ value \in selector.vals
    [] selector.op = "!~" -> value = Missing \/ value \notin selector.vals

MatchesSelectors(attrs, selectors) ==
  \A l \in DOMAIN selectors : Matches(selectors[l], LabelOf(attrs, l))

\* Faulty: special labels are looked up in the attributes as well.
LabelSelectorsAll(q) == q.sel

(* what is filtered again after the statement: for metrics all but the     *)
(* special labels, for logs and traces every selector                      *)
LabelSelectors(q) ==
  IF q.type = "metrics"
  THEN [l \in DOMAIN q.sel \ DOMAIN SpecialLabels("metrics") |-> q.sel[l]]
  ELSE q.sel

DataOf(r) == [c \in DOMAIN r.cols \ {"group_id", "body"} |-> r.cols[c]]
ToResult(r) == [Result(r.type, r.ts, r.attrs, r.val) EXCEPT !.data = DataOf(r)]

ReadBy(q, rows) ==
  LET kept == Keep(rows, {i \in DOMAIN rows : MatchesSelectors(rows[i].attrs, LabelSelectors(q))})
  IN  [i \in DOMAIN kept |-> ToResult(kept[i])]

(* every list of rows that the statement of telemetry query q may find *)
Selected(q) == UNION {NewestFirst(Where(q, w)) : w \in WhereClauses(q)}

(* The status message of a span is not written (WriteTracesFromOTLP) but   *)
(* scanned into a string: the first span that is found ends the query.     *)
Unscannable(q, rows) == q.type = "traces" /\ rows # <<>>

-----------------------------------------------------------------------------
(* Functions: the outcomes that Apply may have.                            *)

Return(rs) == [ok |-> TRUE, rs |-> rs]
Failed == [ok |-> FALSE, rs |-> <<>>]
Numeric(rs) == Keep(rs, {i \in DOMAIN rs : IsNumber(rs[i].val)})
ValuesOf(rs) == [i \in DOMAIN rs |-> rs[i].val]

(* sum and avg take labels and time from the first number that has labels, *)
(* the time from the last number when none has                             *)
LabelSource(rs) ==
  LET nums == Numeric(rs)
      labelled == {i \in DOMAIN nums : DOMAIN nums[i].labels # {}}
  IN  IF nums = <<>> THEN Result("none", 0, NoLabels, Text)
      ELSE nums[IF labelled = {} THEN Len(nums) ELSE Min(labelled)]

ApplySum(rs) ==
  IF rs = <<>> THEN {Return(<<>>)}
  ELSE {Return(<<Result(rs[1].type, LabelSource(rs).ts, LabelSource(rs).labels,
                        Total(ValuesOf(Numeric(rs))))>>)}

ApplyAvg(rs) ==
  LET nums == Numeric(rs)
  IN  IF nums = <<>> THEN {Return(<<>>)}
      ELSE {Return(<<Result(rs[1].type, LabelSource(rs).ts, LabelSource(rs).labels,
                            Over(Total(ValuesOf(nums)), Len(nums)))>>)}

(* min and max return the first of the extreme results: the loop replaces  *)
(* what it has only by a result that is less, or greater, than that        *)
ApplyExtreme(rs, name) ==
  LET nums == Numeric(rs)
      beats(i, j) == IF name = "min" THEN Less(nums[i].val, nums[j].val)
                     ELSE Less(nums[j].val, nums[i].val)
      best[i \in 1..Len(nums)] ==
        IF i = 1 THEN 1 ELSE IF beats(i, best[i - 1]) THEN i ELSE best[i - 1]
      found == nums[best[Len(nums)]]
  IN  IF nums = <<>> THEN {Return(<<>>)}
      ELSE {Return(<<Result(found.type, found.ts, found.labels, found.val)>>)}

ApplyCount(rs) ==
  IF rs = <<>> THEN {Return(<<>>)}
  ELSE {Return(<<Result(rs[1].type, rs[1].ts, rs[1].labels, Number(Len(rs)))>>)}

\* Faulty: the results are taken in the order in which they were read.
EndsUnsorted(rs) == {<<rs[1], rs[Len(rs)]>>}

(* sort.Slice by timestamp: results of the same time in any order, of      *)
(* which only the first and the last are used                              *)
Ends(rs) ==
  {<<rs[p[1]], rs[p[2]]>> : p \in
     {p \in (DOMAIN rs) \X (DOMAIN rs) :
        p[1] # p[2] /\ \A k \in DOMAIN rs : rs[p[1]].ts <= rs[k].ts /\ rs[k].ts <= rs[p[2]].ts}}

ApplyIncrease(rs, perSecond) ==
  IF Len(rs) < 2 \/ rs[1].type # "metrics" THEN {Failed}
  ELSE {LET first == e[1]
            last == e[2]
            grown == Minus(last.val, first.val)
        IN  IF ~IsNumber(first.val) \/ ~IsNumber(last.val) \/ (perSecond /\ first.ts = last.ts)
            THEN Failed
            ELSE Return(<<Result(first.type, last.ts, first.labels,
                                 IF perSecond THEN Over(grown, last.ts - first.ts) ELSE grown)>>)
        : e \in Ends(rs)}

(* sort.Float64s: equal numbers in any order *)
Sorted(vs) ==
  {s \in {[i \in DOMAIN vs |-> vs[p[i]]] : p \in SetToSeqs(DOMAIN vs)} :
     \A i, j \in DOMAIN s : i < j => AtMost(s[i], s[j])}

(* linear interpolation at q percent of the way from the first to the last *)
CalculateQuantile(vs, q) ==
  LET index == q * (Len(vs) - 1)
      lower == (index \div 100) + 1
      weight == index % 100
  IN  IF weight = 0 THEN vs[lower]
      ELSE Over(Plus(Times(vs[lower], 100 - weight), Times(vs[lower + 1], weight)), 100)

Quantiles == [p50 |-> 50, p90 |-> 90, p95 |-> 95, p99 |-> 99]

ApplyQuantiles(rs) ==
  LET vs == ValuesOf(Numeric(rs))
      quantile(s, q) == Result(rs[1].type, rs[1].ts, Overlay(rs[1].labels, [quantile |-> q]),
                               CalculateQuantile(s, Quantiles[q]))
  IN  IF vs = <<>> THEN {Return(<<>>)}
      ELSE {Return([i \in DOMAIN qs |-> quantile(s, qs[i])])
            : s \in Sorted(vs), qs \in SetToSeqs(DOMAIN Quantiles)}

Functions == {"sum", "avg", "min", "max", "count", "rate", "increase", "histogram_quantile"}

Apply(name, rs) ==
  CASE name = "sum" -> ApplySum(rs)
    [] name = "avg" -> ApplyAvg(rs)
    [] name \in {"min", "max"} -> ApplyExtreme(rs, name)
    [] name = "count" -> ApplyCount(rs)
    [] name = "rate" -> ApplyIncrease(rs, TRUE)
    [] name = "increase" -> ApplyIncrease(rs, FALSE)
    [] name = "histogram_quantile" -> ApplyQuantiles(rs)
    [] OTHER -> {Failed}

-----------------------------------------------------------------------------
(* Binary operators and grouping.                                          *)

(* resultKey: type and time, not the labels *)
ResultKey(r) == <<r.type, r.ts>>

IntersectResults(left, right) ==
  Keep(left, {k \in DOMAIN left : \E i \in DOMAIN right : ResultKey(right[i]) = ResultKey(left[k])})

(* the value of a grouping label: of Labels, otherwise of Data *)
GroupValue(r, l) ==
  IF LabelOf(r.labels, l) # Missing THEN LabelOf(r.labels, l) ELSE LabelOf(r.data, l)

(* what a label's value adds to the key: nothing when missing or empty     *)
KeyText(r, l) == IF GroupValue(r, l) \in {Missing, Empty} THEN <<>> ELSE <<GroupValue(r, l)>>

\* Faulty: no bar between the labels.
GroupKeyRunOn(r, by) == FlattenSeq([i \in DOMAIN by |-> KeyText(r, by[i])])

(* the values that were found, with a bar before each label but the first  *)
GroupKey(r, by) ==
  FlattenSeq([i \in DOMAIN by |-> (IF i > 1 THEN <<Bar>> ELSE <<>>) \o KeyText(r, by[i])])

GroupLabels(r, by) ==
  [l \in {m \in ToSet(by) : GroupValue(r, m) # Missing} |-> GroupValue(r, l)]

GroupKeys(rs, by) == {GroupKey(rs[i], by) : i \in DOMAIN rs}

Group(rs, by, k) == Keep(rs, {i \in DOMAIN rs : GroupKey(rs[i], by) = k})

(* the function's outcomes for every group *)
Aggregates(rs, by, name) ==
  LET keys == GroupKeys(rs, by)
  IN  {f \in [keys -> UNION {Apply(name, Group(rs, by, k)) : k \in keys}] :
         \A k \in keys : f[k] \in Apply(name, Group(rs, by, k))}

Labelled(rs, by, k, out) ==
  [i \in DOMAIN out |-> [out[i] EXCEPT !.labels = Overlay(@, GroupLabels(Group(rs, by, k)[1], by))]]

(* every order of the groups, as the iteration of a map *)
GroupAndAggregate(rs, by, name) ==
  LET parts(f, order) == [i \in DOMAIN order |-> Labelled(rs, by, order[i], f[order[i]].rs)]
      failed(f) == \E k \in GroupKeys(rs, by) : ~f[k].ok
  IN  {IF failed(f) THEN Failed ELSE Return(FlattenSeq(parts(f, order)))
       : f \in Aggregates(rs, by, name), order \in SetToSeqs(GroupKeys(rs, by))}

-----------------------------------------------------------------------------
(* The visitor.                                                            *)

EngineInit ==
  /\ store \in SUBSET Rows
  /\ query \in Queries
  /\ execCtx \in [agent_id : Agents \cup {Unset}, group_id : Groups \cup {Unset}]
  /\ next = 1
  /\ stack = <<>>
  /\ status = "running"

Visiting(kind) == status = "running" /\ query[next].kind = kind

Fails ==
  /\ status' = "failed"
  /\ UNCHANGED <<store, query, execCtx, next, stack>>

\* Faulty: the operands stay.
AnswersKeeping(rs, n) ==
  /\ stack' = Append(stack, rs)
  /\ next' = next + 1
  /\ status' = IF next = Len(query) THEN "done" ELSE "running"
  /\ UNCHANGED <<store, query, execCtx>>

(* the results rs replace those of the last n operands *)
Answers(rs, n) ==
  /\ stack' = Append(SubSeq(stack, 1, Len(stack) - n), rs)
  /\ next' = next + 1
  /\ status' = IF next = Len(query) THEN "done" ELSE "running"
  /\ UNCHANGED <<store, query, execCtx>>

Outcome(o, n) == IF o.ok THEN Answers(o.rs, n) ELSE Fails

(* agent_id is compared with something that is no UUID *)
NoUUID(q) ==
  ~FromRequest("agent_id") /\ "agent_id" \in DOMAIN q.sel
    /\ q.sel["agent_id"].op = "=" /\ ~(q.sel["agent_id"].vals \subseteq Agents)

VisitTelemetryQuery ==
  /\ Visiting("telemetry")
  /\ IF NoUUID(query[next]) THEN Fails
     ELSE \E rows \in Selected(query[next]) :
            IF Unscannable(query[next], rows) THEN Fails ELSE Answers(ReadBy(query[next], rows), 0)

(* the statement fails or the request is cancelled *)
StoreFails == Visiting("telemetry") /\ Fails

VisitBinaryOp ==
  LET left == stack[Len(stack) - 1]
      right == stack[Len(stack)]
      op == query[next].op
  IN  /\ Visiting("binary")
      /\ CASE op \in {"+", "or"} -> Answers(left \o right, 2)
           [] op = "and" -> Answers(IntersectResults(left, right), 2)
           [] OTHER -> Fails

(* a call without arguments fails before anything is evaluated; with more  *)
(* than one, only the first is                                             *)
VisitFunctionCall ==
  /\ Visiting("call")
  /\ IF query[next].args = 0 THEN Fails
     ELSE \E o \in Apply(query[next].name, stack[Len(stack)]) : Outcome(o, 1)

VisitAggregation ==
  LET node == query[next]
      rs == stack[Len(stack)]
  IN  /\ Visiting("aggregation")
      /\ IF node.name \notin Functions THEN Fails
         ELSE \E o \in IF node.by = <<>> THEN Apply(node.name, rs)
                        ELSE GroupAndAggregate(rs, node.by, node.name) : Outcome(o, 1)

(* a worker commits a row while the query is executed *)
Write(r) ==
  /\ status = "running"
  /\ r \notin store
  /\ store' = store \cup {r}
  /\ UNCHANGED <<query, execCtx, next, stack, status>>

EngineNext ==
  \/ VisitTelemetryQuery
  \/ StoreFails
  \/ VisitBinaryOp
  \/ VisitFunctionCall
  \/ VisitAggregation
  \/ \E r \in Rows : Write(r)

EngineSpec == EngineInit /\ [][EngineNext]_engineVars

-----------------------------------------------------------------------------
(* Properties.                                                             *)

(* a step by which the node of the given kind answers *)
Answering(kind) == Visiting(kind) /\ next' = next + 1
Answer == stack'[Len(stack')]
Operand == stack[Len(stack)]

EngineTypeOK ==
  /\ store \subseteq Rows /\ query \in Queries
  /\ execCtx \in [agent_id : Agents \cup {Unset}, group_id : Groups \cup {Unset}]
  /\ next \in 1..(Len(query) + 1)
  /\ status \in {"running", "done", "failed"}
  /\ (status = "done") <=> (next = Len(query) + 1)
  /\ status = "done" => Len(stack) = 1

(* what the selectors of a query say of a row: special labels are about    *)
(* its columns, the others about its attributes, and all have to match;    *)
(* the request's agent and group take the place of the selector's          *)
Wanted(q, r) ==
  /\ r.type = q.type
  /\ \A l \in DOMAIN q.sel :
       IF l \in DOMAIN SpecialLabels(q.type)
       THEN LET c == SpecialLabels(q.type)[l]
            IN  IF FromRequest(c) THEN r.cols[c] = execCtx[c] ELSE Matches(q.sel[l], r.cols[c])
       ELSE Matches(q.sel[l], LabelOf(r.attrs, l))

(* the special labels that the request does not name are compared for      *)
(* equality, each column once                                              *)
PlainSelectors(q) ==
  \A l \in DOMAIN q.sel \cap DOMAIN SpecialLabels(q.type) :
    LET c == SpecialLabels(q.type)[l]
    IN  FromRequest(c) \/ (q.sel[l].op = "=" /\ PushedLabels(q, c) = {l})

(* A metrics query with plain selectors answers with rows that the store   *)
(* has and all selectors want, each once and the newest first. The limit   *)
(* cuts the statement off before the other selectors are looked at, so a   *)
(* wanted row may be missing from an answer however short: but only when   *)
(* the statement alone found Limit others that are at least as new.        *)
SelectsWhatIsWanted ==
  [][LET q == query[next]
         wanted == {r \in store : Wanted(q, r)}
         asNew(r, w) == {x \in Where(q, w) \ {r} : x.ts >= r.ts}
     IN  (Answering("telemetry") /\ q.type = "metrics" /\ PlainSelectors(q))
         => \E s \in [DOMAIN Answer -> wanted] :
              /\ \A i \in DOMAIN Answer : Answer[i] = ToResult(s[i])
              /\ \A i, j \in DOMAIN Answer : i < j => s[i] # s[j] /\ s[i].ts >= s[j].ts
              /\ \A r \in wanted \ {s[i] : i \in DOMAIN Answer} :
                   \E w \in WhereClauses(q) : Cardinality(asNew(r, w)) >= Limit
    ]_engineVars

(* values that a key tells apart: others may give two groups one key       *)
PlainValues(r, by) == \A l \in ToSet(by) : GroupValue(r, l) \notin {Bar, Empty}

(* Summing by labels makes one group of the results that agree on all the  *)
(* labels, a label without a value being one way to agree, and no other    *)
(* groups; every group's sum is that of its numbers.                       *)
GroupedSumsAddUp ==
  [][LET node == query[next]
         values(r) == [l \in ToSet(node.by) |-> GroupValue(r, l)]
         alike(i) == Keep(Operand, {j \in DOMAIN Operand : values(Operand[j]) = values(Operand[i])})
     IN  (/\ Answering("aggregation") /\ node.name = "sum" /\ node.by # <<>>
          /\ \A i \in DOMAIN Operand : PlainValues(Operand[i], node.by))
         => /\ Len(Answer) = Cardinality({values(Operand[i]) : i \in DOMAIN Operand})
            /\ \A i \in DOMAIN Operand : \E k \in DOMAIN Answer :
                 /\ \A l \in ToSet(node.by) : LabelOf(Answer[k].labels, l) = values(Operand[i])[l]
                 /\ Same(Answer[k].val, Total(ValuesOf(Numeric(alike(i)))))
    ]_engineVars

(* One counter that never goes down, queried through the store's order     *)
(* (newest first), the functions' own sort and their subtraction, has no   *)
(* negative increase and no negative rate.                                 *)
OneSeries(rs) ==
  \A i, j \in DOMAIN rs : rs[i].labels = rs[j].labels /\ rs[i].data = rs[j].data
NeverFalls(rs) ==
  \A i, j \in DOMAIN rs : rs[i].ts <= rs[j].ts => AtMost(rs[i].val, rs[j].val)
Growth(name) == name \in {"rate", "increase"}
IncreaseIsPositive ==
  (Answering("call") /\ Growth(query[next].name) /\ OneSeries(Operand) /\ NeverFalls(Operand))
  => ~Less(Answer[1].val, Number(0))

(* The quantiles grow with their percentage and lie between the least and  *)
(* the greatest number, however few numbers there are; so does the mean.   *)
QuantilesAreOrdered ==
  LET nums == {r.val : r \in ToSet(Numeric(Operand))}
      within(v) == (\E lo \in nums : AtMost(lo, v)) /\ (\E hi \in nums : AtMost(v, hi))
  IN  (Answering("call") /\ query[next].name \in {"histogram_quantile", "avg"})
      => /\ \A i \in DOMAIN Answer : within(Answer[i].val)
         /\ \A i, j \in DOMAIN Answer :
              (query[next].name = "histogram_quantile"
                 /\ Quantiles[Answer[i].labels.quantile] <= Quantiles[Answer[j].labels.quantile])
              => AtMost(Answer[i].val, Answer[j].val)

(* Both hold of every call of a function that the engine evaluates.        *)
FunctionsKeepTheirBounds == [][IncreaseIsPositive /\ QuantilesAreOrdered]_engineVars
=============================================================================
