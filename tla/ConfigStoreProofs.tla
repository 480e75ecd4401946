-------------------------- MODULE ConfigStoreProofs --------------------------
(***************************************************************************)
(* Proofs about ConfigStore, for any requests, agents, groups and versions *)
(* typed by users: type correctness; that a configuration sent to an agent *)
(* supersedes what was stored before; and that the loop of the memory      *)
(* store finds what SQLite finds.                                          *)
(***************************************************************************)
EXTENDS ConfigStore, FiniteSetTheorems, WellFoundedInduction, TLAPS

(* a request that sends a configuration and has read the latest version *)
Sender(r) == call[r].handler = "send" /\ call[r].knew

(* row c was stored for the agent of `row' before request r began *)
Earlier(c, row, r) == c.agent = row.agent /\ c.id \in call[r].before

RowsAreDone ==
  \A c \in configs : call[c.id].step = "done"

CallsAgree ==
  \A r \in Requests :
    /\ call[r].row.id = r
    /\ \A q \in call[r].before : call[q].step = "done"
    /\ call[r].step \in {"getGroup", "getConfig"} => call[r].handler # "send"

(* the version a sender is going to insert, and the one it inserted *)
VersionIsAbove ==
  \A r \in Requests : (Sender(r) /\ call[r].step \in {"build", "insert"}) =>
    \A c \in configs : Earlier(c, call[r].row, r) => c.version < call[r].row.version

StoredAbove ==
  \A d \in configs : Sender(d.id) =>
    \A c \in configs : Earlier(c, d, d.id) => c.version < d.version

StoreInv == StoreTypeOK /\ RowsAreDone /\ CallsAgree /\ VersionIsAbove /\ StoredAbove

-----------------------------------------------------------------------------
LEMMA NewCallType ==
  ASSUME NEW r \in Requests
  PROVE  /\ NoRow(r) \in Row /\ NoRow(r).id = r
         /\ NewCall(r) \in Call
         /\ NewCall(r).row = NoRow(r) /\ NewCall(r).before = {}
         /\ NewCall(r).step = "new" /\ NewCall(r).handler = "none"
<1>1. NoRow(r) \in Row /\ NoRow(r).id = r
  BY DEF NoRow, Row
<1> QED BY <1>1 DEF NewCall, Call, Handlers, Steps

(* One step of a request changes its own state only. *)
LEMMA BecomesFacts ==
  ASSUME call \in [Requests -> Call], NEW r \in Requests, NEW state \in Call, Becomes(r, state)
  PROVE  /\ call' \in [Requests -> Call]
         /\ call'[r] = state
         /\ \A q \in Requests \ {r} : call'[q] = call[q]
BY DEF Becomes

LEMMA RowFields ==
  ASSUME NEW row \in Row
  PROVE  /\ row.id \in Requests /\ row.agent \in Agents \cup {Nobody}
         /\ row.group \in Groups \cup {Nobody} /\ row.content \in Requests
         /\ row.version \in Int /\ row.at \in Nat
BY DEF Row

LEMMA CallFields ==
  ASSUME NEW c \in Call
  PROVE  /\ c.handler \in Handlers /\ c.step \in Steps /\ c.row \in Row
         /\ c.source \in Requests /\ c.knew \in BOOLEAN /\ c.before \in SUBSET Requests
BY DEF Call

(* A row that nothing comes before has the greatest version. *)
LEMMA LatestIsGreatest ==
  ASSUME NEW rows \in SUBSET Row, NEW c \in LatestOf(rows), NEW d \in rows
  PROVE  c \in rows /\ d.version <= c.version
<1>1. c.version \in Int /\ d.version \in Int
  BY DEF LatestOf, Row
<1> QED BY <1>1 DEF LatestOf

(* The next version is above those of the rows it was computed from. *)
LEMMA NextVersionIsAbove ==
  ASSUME NEW row \in Row, NEW rows \in SUBSET Row, NEW next \in NextVersion(row, rows)
  PROVE  /\ next \in Row
         /\ next.id = row.id /\ next.agent = row.agent
         /\ \A c \in rows : c.version < next.version
<1>1. CASE rows = {}
  BY <1>1 DEF NextVersion, Row
<1>2. CASE rows # {}
  <2>1. PICK c \in LatestOf(rows) : next = [row EXCEPT !.version = c.version + 1]
    BY <1>2 DEF NextVersion
  <2>2. c \in rows /\ \A d \in rows : d.version <= c.version
    BY LatestIsGreatest DEF LatestOf
  <2>3. c.version \in Int
    BY <2>2 DEF Row
  <2>4. next \in Row /\ next.id = row.id /\ next.agent = row.agent /\ next.version = c.version + 1
    BY <2>1, <2>3 DEF Row
  <2>5. \A d \in rows : d.version \in Int
    BY DEF Row
  <2> QED BY <2>2, <2>3, <2>4, <2>5
<1> QED BY <1>1, <1>2

-----------------------------------------------------------------------------
THEOREM StoreInvInit == StoreInit => StoreInv
<1> SUFFICES ASSUME StoreInit PROVE StoreInv
  OBVIOUS
<1>1. \A r \in Requests : call[r] = NewCall(r)
  BY DEF StoreInit
<1>2. StoreTypeOK
  BY NewCallType, StoreAssumption DEF StoreInit, StoreTypeOK
<1>3. RowsAreDone /\ StoredAbove
  BY DEF StoreInit, RowsAreDone, StoredAbove
<1>4. CallsAgree /\ VersionIsAbove
  BY <1>1, NewCallType DEF CallsAgree, VersionIsAbove
<1> QED BY <1>2, <1>3, <1>4 DEF StoreInv

(* What a request that stores nothing in this step has to respect. *)
LEMMA CallStep ==
  ASSUME StoreInv, NEW r \in Requests, NEW state \in Call, Becomes(r, state),
         UNCHANGED <<groups, configs>>, clock' \in 0..MaxClock,
         call[r].step # "done", state.row.id = r,
         \A q \in state.before : call[q].step = "done",
         state.step \in {"getGroup", "getConfig"} => state.handler # "send",
         (state.handler = "send" /\ state.knew /\ state.step \in {"build", "insert"}) =>
           \A c \in configs : (c.agent = state.row.agent /\ c.id \in state.before)
                              => c.version < state.row.version
  PROVE  StoreInv'
<1> USE DEF StoreInv
<1>1. /\ call' \in [Requests -> Call]
      /\ call'[r] = state
      /\ \A q \in Requests \ {r} : call'[q] = call[q]
  BY BecomesFacts DEF StoreTypeOK
<1>2. StoreTypeOK'
  BY <1>1 DEF StoreTypeOK
<1>3. \A c \in configs : c.id \in Requests /\ c.id # r
  BY DEF RowsAreDone, StoreTypeOK, Row
<1>4. \A q \in Requests : call[q].step = "done" => call'[q].step = "done"
  BY <1>1
<1>5. RowsAreDone'
  BY <1>3, <1>4 DEF RowsAreDone
<1>6. \A q \in Requests : call[q].before \in SUBSET Requests
  BY DEF StoreTypeOK, Call
<1>7. CallsAgree'
  <2> SUFFICES ASSUME NEW q \in Requests
               PROVE  /\ call'[q].row.id = q
                      /\ \A b \in call'[q].before : call'[b].step = "done"
                      /\ call'[q].step \in {"getGroup", "getConfig"} => call'[q].handler # "send"
    BY DEF CallsAgree
  <2>1. CASE q = r
    <3>1. state.before \in SUBSET Requests
      BY DEF Call
    <3> QED BY <2>1, <3>1, <1>1, <1>4
  <2>2. CASE q # r
    BY <2>2, <1>1, <1>4, <1>6 DEF CallsAgree
  <2> QED BY <2>1, <2>2
<1>8. VersionIsAbove'
  <2> SUFFICES ASSUME NEW q \in Requests, Sender(q)', call'[q].step \in {"build", "insert"},
                      NEW c \in configs, c.agent = call'[q].row.agent, c.id \in call'[q].before
               PROVE  c.version < call'[q].row.version
    BY DEF VersionIsAbove, Earlier
  <2>1. CASE q = r
    BY <2>1, <1>1 DEF Sender
  <2>2. CASE q # r
    BY <2>2, <1>1 DEF Sender, VersionIsAbove, Earlier
  <2> QED BY <2>1, <2>2
<1>9. StoredAbove'
  BY <1>1, <1>3 DEF StoredAbove, Sender, Earlier
<1> QED BY <1>2, <1>5, <1>7, <1>8, <1>9

-----------------------------------------------------------------------------
(* The steps. *)
LEMMA BeginKeeps ==
  ASSUME StoreInv, NEW r \in Requests, NEW handler \in Handlers, NEW step \in Steps,
         NEW row \in Row, NEW source \in Requests, row.id = r,
         step \notin {"done", "insert"}, step = "build" => handler # "send",
         step \in {"getGroup", "getConfig"} => handler # "send",
         Begin(r, handler, step, row, source)
  PROVE  StoreInv'
<1> DEFINE ids == {c.id : c \in configs}
<1> DEFINE state == [handler |-> handler, step |-> step, row |-> row, source |-> source,
                     knew |-> TRUE, before |-> ids]
<1>1. Becomes(r, state) /\ UNCHANGED <<groups, configs>> /\ clock' = clock /\ call[r].step = "new"
  BY DEF Begin, At
<1>2. ids \in SUBSET Requests /\ \A q \in ids : call[q].step = "done"
  BY DEF StoreInv, StoreTypeOK, RowsAreDone, Row
<1>3. state \in Call
  BY <1>2 DEF Call
<1>4. clock' \in 0..MaxClock
  BY <1>1 DEF StoreInv, StoreTypeOK
<1>5. /\ state.row.id = r /\ state.before = ids /\ state.step = step /\ state.handler = handler
      /\ state.row = row
  OBVIOUS
<1> HIDE DEF state, ids
<1> QED BY <1>1, <1>2, <1>3, <1>4, <1>5, CallStep

LEMMA ArrivesKeeps ==
  ASSUME StoreInv, NEW r \in Requests, Arrives(r)
  PROVE  StoreInv'
<1>1. ASSUME NEW a \in Agents \cup {Nobody}, NEW g \in Groups \cup {Nobody}, NEW v \in Typed,
             HandleCreateConfig(r, a, g, v)
      PROVE  StoreInv'
  <2>1. [NoRow(r) EXCEPT !.agent = a, !.group = g, !.version = v] \in Row
    BY StoreAssumption DEF NoRow, Row
  <2>2. [NoRow(r) EXCEPT !.agent = a, !.group = g, !.version = v].id = r
    BY DEF NoRow
  <2> QED BY <1>1, <2>1, <2>2, BeginKeeps DEF HandleCreateConfig, Handlers, Steps
<1>2. ASSUME NEW id \in Requests, NEW v \in Typed, HandleUpdateConfig(r, id, v)
      PROVE  StoreInv'
  <2>1. [NoRow(r) EXCEPT !.version = v] \in Row /\ [NoRow(r) EXCEPT !.version = v].id = r
    BY StoreAssumption DEF NoRow, Row
  <2> QED BY <1>2, <2>1, BeginKeeps DEF HandleUpdateConfig, Handlers, Steps
<1>3. ASSUME NEW a \in Agents, HandleSendConfigToAgent(r, a)
      PROVE  StoreInv'
  <2>1. [NoRow(r) EXCEPT !.agent = a] \in Row /\ [NoRow(r) EXCEPT !.agent = a].id = r
    BY DEF NoRow, Row
  <2> QED BY <1>3, <2>1, BeginKeeps DEF HandleSendConfigToAgent, Handlers, Steps
<1>4. ASSUME NEW g \in Groups, NEW id \in Requests, HandleAssignConfig(r, g, id)
      PROVE  StoreInv'
  <2>1. [NoRow(r) EXCEPT !.group = g] \in Row /\ [NoRow(r) EXCEPT !.group = g].id = r
    BY DEF NoRow, Row
  <2> QED BY <1>4, <2>1, BeginKeeps DEF HandleAssignConfig, Handlers, Steps
<1> QED BY <1>1, <1>2, <1>3, <1>4 DEF Arrives

(* An error answer forgets the request. *)
LEMMA FailsKeeps ==
  ASSUME StoreInv, NEW r \in Requests, Fails(r), UNCHANGED <<groups, configs, clock>>,
         call[r].step # "done"
  PROVE  StoreInv'
<1>1. clock' \in 0..MaxClock
  BY DEF StoreInv, StoreTypeOK
<1> QED BY <1>1, NewCallType, CallStep DEF Fails

(* A step within a handler, which keeps what is history. *)
LEMMA ProceedKeeps ==
  ASSUME StoreInv, NEW r \in Requests, NEW step \in Steps, NEW row \in Row, NEW knew \in BOOLEAN,
         Becomes(r, [call[r] EXCEPT !.step = step, !.row = row, !.knew = knew]),
         UNCHANGED <<groups, configs>>, clock' \in 0..MaxClock,
         call[r].step # "done", row.id = r,
         step \in {"getGroup", "getConfig"} => call[r].handler # "send",
         (call[r].handler = "send" /\ knew /\ step \in {"build", "insert"}) =>
           \A c \in configs : Earlier(c, row, r) => c.version < row.version
  PROVE  StoreInv'
<1> DEFINE state == [call[r] EXCEPT !.step = step, !.row = row, !.knew = knew]
<1>1. call[r] \in Call
  BY DEF StoreInv, StoreTypeOK
<1>2. /\ state \in Call /\ state.step = step /\ state.row = row /\ state.knew = knew
      /\ state.handler = call[r].handler /\ state.before = call[r].before
  BY <1>1 DEF Call
<1>3. \A q \in call[r].before : call[q].step = "done"
  BY DEF StoreInv, CallsAgree
<1>4. Becomes(r, state)
  OBVIOUS
<1>5. (state.handler = "send" /\ state.knew /\ state.step \in {"build", "insert"}) =>
        \A c \in configs : (c.agent = state.row.agent /\ c.id \in state.before)
                           => c.version < state.row.version
  BY <1>2 DEF Earlier
<1> HIDE DEF state
<1> QED BY <1>2, <1>3, <1>4, <1>5, CallStep

LEMMA GetLatestKeeps ==
  ASSUME StoreInv, NEW r \in Requests, GetLatestConfigForAgent(r)
  PROVE  StoreInv'
<1> DEFINE rows == OfAgent(call[r].row.agent)
<1>1. call[r] \in Call /\ call[r].row \in Row /\ call[r].row.id = r /\ configs \subseteq Row
  BY DEF StoreInv, StoreTypeOK, CallsAgree, Call
<1>2. PICK row \in NextVersion(call[r].row, rows) :
        Becomes(r, [call[r] EXCEPT !.step = "build", !.row = row])
  BY DEF GetLatestConfigForAgent
<1>3. /\ row \in Row /\ row.id = r /\ row.agent = call[r].row.agent
      /\ \A c \in rows : c.version < row.version
  BY <1>1, NextVersionIsAbove DEF OfAgent
<1>4. \A c \in configs : Earlier(c, row, r) => c.version < row.version
  BY <1>3 DEF Earlier, OfAgent
<1>5. [call[r] EXCEPT !.step = "build", !.row = row]
        = [call[r] EXCEPT !.step = "build", !.row = row, !.knew = call[r].knew]
  BY <1>1 DEF Call
<1>6. /\ UNCHANGED <<groups, configs>> /\ clock' \in 0..MaxClock
      /\ call[r].step # "done" /\ call[r].knew \in BOOLEAN
  BY <1>1 DEF GetLatestConfigForAgent, At, StoreInv, StoreTypeOK, Call
<1> QED BY <1>2, <1>3, <1>4, <1>5, <1>6, ProceedKeeps DEF Steps

LEMMA LatestUnknownKeeps ==
  ASSUME StoreInv, NEW r \in Requests, LatestUnknown(r)
  PROVE  StoreInv'
<1> DEFINE row == [call[r].row EXCEPT !.version = 1]
<1>1. call[r] \in Call /\ call[r].row \in Row /\ call[r].row.id = r
  BY DEF StoreInv, StoreTypeOK, CallsAgree, Call
<1>2. row \in Row /\ row.id = r
  BY <1>1 DEF Row
<1>3. [call[r] EXCEPT !.step = "build", !.row.version = 1, !.knew = FALSE]
        = [call[r] EXCEPT !.step = "build", !.row = row, !.knew = FALSE]
  BY <1>1 DEF Call
<1>4. /\ Becomes(r, [call[r] EXCEPT !.step = "build", !.row = row, !.knew = FALSE])
      /\ UNCHANGED <<groups, configs>> /\ clock' \in 0..MaxClock
      /\ call[r].step # "done"
  BY <1>3 DEF LatestUnknown, At, StoreInv, StoreTypeOK
<1> HIDE DEF row
<1> QED BY <1>2, <1>4, ProceedKeeps DEF Steps

LEMMA GoesKeeps ==
  ASSUME StoreInv, NEW r \in Requests, NEW step \in Steps, Goes(r, step),
         UNCHANGED <<groups, configs, clock>>, call[r].step \notin {"done", "build"},
         step \notin {"done", "build", "insert"},
         step \in {"getGroup", "getConfig"} => call[r].handler # "send"
  PROVE  StoreInv'
<1>1. call[r] \in Call /\ call[r].row \in Row /\ call[r].row.id = r /\ call[r].knew \in BOOLEAN
  BY DEF StoreInv, StoreTypeOK, CallsAgree, Call
<1>2. [call[r] EXCEPT !.step = step]
        = [call[r] EXCEPT !.step = step, !.row = call[r].row, !.knew = call[r].knew]
  BY <1>1 DEF Call
<1>3. Becomes(r, [call[r] EXCEPT !.step = step, !.row = call[r].row, !.knew = call[r].knew])
  BY <1>2 DEF Goes
<1>4. clock' \in 0..MaxClock /\ call[r].step # "done"
  BY DEF StoreInv, StoreTypeOK
<1> QED BY <1>1, <1>3, <1>4, ProceedKeeps

LEMMA GetConfigKeeps ==
  ASSUME StoreInv, NEW r \in Requests, GetConfig(r)
  PROVE  StoreInv'
<1>1. /\ call[r] \in Call /\ call[r].row \in Row /\ call[r].row.id = r
      /\ call[r].knew \in BOOLEAN /\ configs \subseteq Row
      /\ call[r].step = "getConfig" /\ call[r].handler # "send"
      /\ UNCHANGED <<groups, configs, clock>> /\ clock' \in 0..MaxClock
  BY DEF GetConfig, At, StoreInv, StoreTypeOK, CallsAgree, Call
<1>2. CASE Fails(r)
  BY <1>1, <1>2, FailsKeeps
<1>3. ASSUME NEW c \in configs,
             Becomes(r, [call[r] EXCEPT !.step = "build", !.row = Copied(@, c, call[r].handler)])
      PROVE  StoreInv'
  <2> DEFINE row == Copied(call[r].row, c, call[r].handler)
  <2>1. c \in Row /\ c.content \in Requests /\ c.version + 1 \in Int
    BY <1>1 DEF Row
  <2>2. row \in Row /\ row.id = r
    <3>1. [call[r].row EXCEPT !.agent = c.agent, !.group = c.group] \in Row
      BY <1>1, <2>1 DEF Row
    <3>2. [call[r].row EXCEPT !.content = c.content, !.version = c.version + 1] \in Row
      BY <1>1, <2>1 DEF Row
    <3> QED BY <1>1, <3>1, <3>2 DEF Copied, Row
  <2>3. [call[r] EXCEPT !.step = "build", !.row = row]
          = [call[r] EXCEPT !.step = "build", !.row = row, !.knew = call[r].knew]
    BY <1>1 DEF Call
  <2>4. Becomes(r, [call[r] EXCEPT !.step = "build", !.row = row, !.knew = call[r].knew])
    BY <1>3, <2>3
  <2> HIDE DEF row
  <2> QED BY <1>1, <2>2, <2>4, ProceedKeeps DEF Steps
<1> QED BY <1>2, <1>3 DEF GetConfig

LEMMA BuildKeeps ==
  ASSUME StoreInv, NEW r \in Requests, Build(r)
  PROVE  StoreInv'
<1>1. /\ call[r] \in Call /\ call[r].row \in Row /\ call[r].row.id = r
      /\ call[r].knew \in BOOLEAN /\ call[r].step = "build"
      /\ UNCHANGED <<groups, configs>>
  BY DEF Build, At, StoreInv, StoreTypeOK, CallsAgree, Call
<1>2. PICK t \in {clock, clock + 1} \cap 0..MaxClock :
        /\ clock' = t
        /\ Becomes(r, [call[r] EXCEPT !.step = "insert", !.row.at = t])
  BY DEF Build
<1> DEFINE row == [call[r].row EXCEPT !.at = t]
<1>3. /\ row \in Row /\ row.id = r /\ row.agent = call[r].row.agent
      /\ row.version = call[r].row.version
  BY <1>1 DEF Row
<1>4. [call[r] EXCEPT !.step = "insert", !.row.at = t]
        = [call[r] EXCEPT !.step = "insert", !.row = row, !.knew = call[r].knew]
  BY <1>1 DEF Call
<1>5. Becomes(r, [call[r] EXCEPT !.step = "insert", !.row = row, !.knew = call[r].knew])
  BY <1>2, <1>4
<1>6. (call[r].handler = "send" /\ call[r].knew) =>
        \A c \in configs : Earlier(c, row, r) => c.version < row.version
  BY <1>1, <1>3 DEF StoreInv, VersionIsAbove, Sender, Earlier
<1> HIDE DEF row
<1> QED BY <1>1, <1>2, <1>3, <1>5, <1>6, ProceedKeeps DEF Steps

(* The new row is not among those stored before another request began, and *)
(* what was stored before its own request began is below it.               *)
LEMMA CreateConfigKeeps ==
  ASSUME StoreInv, NEW r \in Requests, CreateConfig(r)
  PROVE  StoreInv'
<1>1. /\ call[r] \in Call /\ call[r].row \in Row /\ call[r].row.id = r
      /\ call[r].step = "insert"
      /\ UNCHANGED <<groups, clock>>
  BY DEF CreateConfig, At, StoreInv, StoreTypeOK, CallsAgree, Call
<1>2. CASE Fails(r) /\ UNCHANGED configs
  BY <1>1, <1>2, FailsKeeps
<1> DEFINE state == [call[r] EXCEPT !.step = "done", !.row = NoRow(r), !.source = r]
<1>3. CASE configs' = configs \cup {call[r].row} /\ Becomes(r, state)
  <2> DEFINE new == call[r].row
  <2>1. /\ state \in Call /\ state.step = "done" /\ state.row = NoRow(r)
        /\ state.handler = call[r].handler /\ state.knew = call[r].knew
        /\ state.before = call[r].before
    BY <1>1, NewCallType DEF Call, Steps
  <2> HIDE DEF state
  <2>2. /\ call' \in [Requests -> Call]
        /\ call'[r] = state
        /\ \A q \in Requests \ {r} : call'[q] = call[q]
    BY <1>3, <2>1, BecomesFacts DEF StoreInv, StoreTypeOK
  <2>3. \A c \in configs : c \in Row /\ c.id \in Requests /\ c.id # r
    BY <1>1 DEF StoreInv, RowsAreDone, StoreTypeOK, Row
  <2>4. StoreTypeOK'
    BY <1>1, <1>3, <2>2, <2>3 DEF StoreInv, StoreTypeOK
  <2>5. \A q \in Requests : /\ call[q].before \in SUBSET Requests
                            /\ r \notin call[q].before
                            /\ call'[q].before = call[q].before
                            /\ Sender(q)' <=> Sender(q)
    BY <1>1, <2>1, <2>2 DEF StoreInv, StoreTypeOK, CallsAgree, Call, Sender
  <2>6. \A q \in Requests : call[q].step = "done" => call'[q].step = "done"
    BY <2>1, <2>2
  <2>7. RowsAreDone'
    BY <1>1, <1>3, <2>1, <2>2, <2>3, <2>6 DEF StoreInv, RowsAreDone
  <2>8. CallsAgree'
    BY <2>1, <2>2, <2>5, <2>6, NewCallType DEF StoreInv, CallsAgree
  <2>9. VersionIsAbove'
    <3> SUFFICES ASSUME NEW q \in Requests, Sender(q)', call'[q].step \in {"build", "insert"},
                        NEW c \in configs', c.agent = call'[q].row.agent, c.id \in call'[q].before
                 PROVE  c.version < call'[q].row.version
      BY DEF VersionIsAbove, Earlier
    <3>1. q # r /\ call'[q] = call[q] /\ Sender(q)
      BY <2>1, <2>2, <2>5
    <3>2. c \in configs
      BY <1>1, <1>3, <2>5
    <3> QED BY <3>1, <3>2 DEF StoreInv, VersionIsAbove, Earlier
  <2>10. StoredAbove'
    <3> SUFFICES ASSUME NEW d \in configs', Sender(d.id)',
                        NEW c \in configs', c.agent = d.agent, c.id \in call'[d.id].before
                 PROVE  c.version < d.version
      BY DEF StoredAbove, Earlier
    <3>1. d.id \in Requests
      BY <1>1, <1>3, <2>3
    <3>2. c \in configs /\ c.id \in call[d.id].before /\ Sender(d.id)
      BY <1>1, <1>3, <2>5, <3>1
    <3>3. CASE d \in configs
      BY <3>2, <3>3 DEF StoreInv, StoredAbove, Earlier
    <3>4. CASE d = new
      BY <1>1, <3>2, <3>4 DEF StoreInv, VersionIsAbove, Earlier
    <3> QED BY <1>3, <3>3, <3>4
  <2> QED BY <2>4, <2>7, <2>8, <2>9, <2>10 DEF StoreInv
<1> QED BY <1>2, <1>3 DEF CreateConfig

LEMMA DeleteGroupKeeps ==
  ASSUME StoreInv, NEW g \in Groups, DeleteGroup(g)
  PROVE  StoreInv'
<1>1. /\ groups' \subseteq groups /\ configs' \subseteq configs
      /\ call' = call /\ clock' = clock
  BY DEF DeleteGroup
<1>2. StoreTypeOK'
  BY <1>1 DEF StoreInv, StoreTypeOK
<1>3. RowsAreDone' /\ CallsAgree'
  BY <1>1 DEF StoreInv, RowsAreDone, CallsAgree
<1>4. VersionIsAbove' /\ StoredAbove'
  BY <1>1 DEF StoreInv, VersionIsAbove, StoredAbove, Sender, Earlier
<1> QED BY <1>2, <1>3, <1>4 DEF StoreInv

-----------------------------------------------------------------------------
THEOREM StoreInvStep == StoreInv /\ [StoreNext]_storeVars => StoreInv'
<1> SUFFICES ASSUME StoreInv, [StoreNext]_storeVars PROVE StoreInv'
  OBVIOUS
<1>1. ASSUME NEW r \in Requests, GetAgent(r) PROVE StoreInv'
  BY <1>1, GoesKeeps, FailsKeeps DEF GetAgent, At, Steps
<1>2. ASSUME NEW r \in Requests, GetGroup(r) PROVE StoreInv'
  <2>1. call[r].handler # "send"
    BY <1>2 DEF GetGroup, At, StoreInv, CallsAgree
  <2> QED BY <1>2, <2>1, GoesKeeps, FailsKeeps DEF GetGroup, At, Steps
<1>3. ASSUME NEW r \in Requests, StatementFails(r) PROVE StoreInv'
  <2>1. call[r].step # "done" /\ Fails(r) /\ UNCHANGED <<groups, configs, clock>>
    BY <1>3 DEF StatementFails
  <2> QED BY <2>1, FailsKeeps
<1>4. ASSUME NEW r \in Requests, Proceeds(r) PROVE StoreInv'
  BY <1>1, <1>2, <1>3, <1>4, GetLatestKeeps, LatestUnknownKeeps, GetConfigKeeps, BuildKeeps,
     CreateConfigKeeps DEF Proceeds
<1>5. CASE UNCHANGED storeVars
  <2>1. StoreTypeOK' /\ RowsAreDone' /\ CallsAgree'
    BY <1>5 DEF storeVars, StoreInv, StoreTypeOK, RowsAreDone, CallsAgree
  <2>2. VersionIsAbove' /\ StoredAbove'
    BY <1>5 DEF storeVars, StoreInv, VersionIsAbove, StoredAbove, Sender, Earlier
  <2> QED BY <2>1, <2>2 DEF StoreInv
<1> QED BY <1>4, <1>5, ArrivesKeeps, DeleteGroupKeeps DEF StoreNext

(* Every reachable state has the types of the model (ConfigStore).         *)
THEOREM StoreTypeCorrect == StoreSpec => []StoreTypeOK
<1>1. StoreInv => StoreTypeOK
  BY DEF StoreInv
<1> QED BY <1>1, StoreInvInit, StoreInvStep, PTL DEF StoreSpec

(* A configuration sent to an agent supersedes for good what was stored    *)
(* for it before (StoreConfigForAgent, GetLatestConfigForAgent).           *)
THEOREM SentSupersedes == StoreSpec => []LatestIsNotSuperseded
<1>1. StoreInv => LatestIsNotSuperseded
  <2> SUFFICES ASSUME StoreInv, NEW a \in Agents,
                      NEW c \in LatestOf(OfAgent(a)), NEW d \in OfAgent(a),
                      call[d.id].handler = "send", call[d.id].knew,
                      c.id \in call[d.id].before
               PROVE  FALSE
    BY DEF LatestIsNotSuperseded
  <2>1. OfAgent(a) \in SUBSET Row
    BY DEF StoreInv, StoreTypeOK, OfAgent
  <2>2. c \in OfAgent(a) /\ d.version <= c.version
    BY <2>1, LatestIsGreatest
  <2>3. c.version < d.version
    BY <2>2 DEF StoreInv, StoredAbove, Sender, Earlier, OfAgent
  <2>4. c.version \in Int /\ d.version \in Int
    BY <2>1, <2>2 DEF Row
  <2> QED BY <2>2, <2>3, <2>4
<1> QED BY <1>1, StoreInvInit, StoreInvStep, PTL DEF StoreSpec

-----------------------------------------------------------------------------
(* The loop of the memory store. Induction over the rows it visits is by   *)
(* the least number of rows for which a fact would fail.                   *)

LEMMA Least ==
  ASSUME NEW T \in SUBSET Nat, T # {}
  PROVE  \E x \in T : \A y \in T : x <= y
<1>1. PICK x \in T : \A y \in T : ~ (<<y, x>> \in OpToRel(<, Nat))
  BY WFMin, NatLessThanWellFounded
<1>2. \A y \in T : ~(y < x)
  BY <1>1 DEF OpToRel
<1> QED BY <1>2

LEMMA MaxIsLast ==
  ASSUME NEW k \in Nat, NEW s \in SUBSET (1..k), k \in s
  PROVE  Max(s) = k
<1>1. k \in s /\ \A y \in s : k >= y
  OBVIOUS
<1>2. Max(s) \in s /\ \A y \in s : Max(s) >= y
  BY <1>1 DEF Max
<1>3. Max(s) \in 1..k /\ Max(s) >= k
  BY <1>2
<1> QED BY <1>3

(* What the loop has found after k rows, for every k. *)
LEMMA LoopByRows ==
  ASSUME NEW n \in Nat, NEW order \in [1..n -> Row]
  PROVE  \E found :
           /\ found[0] = {}
           /\ \A k \in 1..n :
                found[k] = IF \A l \in found[k - 1] : Supersedes(order[k], l)
                           THEN {order[k]} ELSE found[k - 1]
           /\ LoopFinds(order) = found[n]
<1> DEFINE Visit(h, s) ==
             IF s = {} THEN {}
             ELSE IF \A l \in h[s \ {Max(s)}] : Supersedes(order[Max(s)], l)
                  THEN {order[Max(s)]} ELSE h[s \ {Max(s)}]
           Visits(k) == \E h : h = [s \in SUBSET (1..k) |-> Visit(h, s)]
           iter == CHOOSE h : h = [s \in SUBSET (1..n) |-> Visit(h, s)]
<1>1. Visits(0)
  <2> DEFINE h == [s \in SUBSET (1..0) |-> {}]
  <2>1. \A s \in SUBSET (1..0) : s = {}
    OBVIOUS
  <2>2. h = [s \in SUBSET (1..0) |-> Visit(h, s)]
    BY <2>1
  <2> QED BY <2>2
<1>2. ASSUME NEW k \in 1..n, Visits(k - 1)
      PROVE  Visits(k)
  <2>1. PICK h : h = [s \in SUBSET (1..(k - 1)) |-> Visit(h, s)]
    BY <1>2
  <2> DEFINE g == [s \in SUBSET (1..k) |->
                     IF k \in s
                     THEN IF \A l \in h[s \ {k}] : Supersedes(order[k], l)
                          THEN {order[k]} ELSE h[s \ {k}]
                     ELSE h[s]]
  <2>2. \A s \in SUBSET (1..k) : k \notin s => s \in SUBSET (1..(k - 1))
    OBVIOUS
  <2>3. \A s \in SUBSET (1..(k - 1)) : g[s] = h[s] /\ s \in SUBSET (1..k) /\ k \notin s
    OBVIOUS
  <2>4. ASSUME NEW s \in SUBSET (1..k)
        PROVE  g[s] = Visit(g, s)
    <3>1. CASE k \in s
      <4>1. Max(s) = k /\ s # {}
        BY <3>1, MaxIsLast
      <4>2. s \ {k} \in SUBSET (1..(k - 1)) /\ g[s \ {k}] = h[s \ {k}]
        BY <2>2, <2>3
      <4> QED BY <3>1, <4>1, <4>2
    <3>2. CASE k \notin s
      <4>1. s \in SUBSET (1..(k - 1)) /\ g[s] = Visit(h, s)
        BY <2>1, <2>2, <3>2
      <4>2. CASE s = {}
        BY <4>1, <4>2
      <4>3. CASE s # {}
        <5>1. s \ {Max(s)} \in SUBSET (1..(k - 1))
          BY <4>1
        <5>2. g[s \ {Max(s)}] = h[s \ {Max(s)}]
          BY <5>1, <2>3
        <5> QED BY <4>1, <4>3, <5>2
      <4> QED BY <4>2, <4>3
    <3> QED BY <3>1, <3>2
  <2>5. g = [s \in SUBSET (1..k) |-> g[s]]
    OBVIOUS
  <2> HIDE DEF g, Visit
  <2>6. g = [s \in SUBSET (1..k) |-> Visit(g, s)]
    BY <2>4, <2>5
  <2> QED BY <2>6 DEF Visit
<1>3. Visits(n)
  <2> DEFINE T == {k \in 0..n : ~Visits(k)}
  <2> HIDE DEF Visits
  <2>1. SUFFICES ASSUME T # {} PROVE FALSE
    OBVIOUS
  <2>2. T \in SUBSET Nat
    OBVIOUS
  <2>3. PICK k \in T : \A j \in T : k <= j
    BY <2>1, <2>2, Least
  <2>4. k \in 1..n /\ ~Visits(k) /\ k - 1 \in 0..n /\ k - 1 \notin T
    BY <1>1, <2>3
  <2> QED BY <1>2, <2>4
<1>4. iter = [s \in SUBSET (1..n) |-> Visit(iter, s)]
  BY <1>3
<1>5. LoopFinds(order) = iter[1..n]
  BY DEF LoopFinds, FoldLeft, MapThenFoldSet
<1> HIDE DEF iter
<1> DEFINE found == [k \in 0..n |-> iter[1..k]]
<1>6. found[0] = {}
  BY <1>4
<1>7. ASSUME NEW k \in 1..n
      PROVE  found[k] = IF \A l \in found[k - 1] : Supersedes(order[k], l)
                        THEN {order[k]} ELSE found[k - 1]
  <2>1. k \in Nat /\ k \in 1..k /\ (1..k) \in SUBSET (1..k) /\ (1..k) \in SUBSET (1..n)
    OBVIOUS
  <2>2. Max(1..k) = k
    BY <2>1, MaxIsLast
  <2>3. (1..k) # {} /\ (1..k) \ {k} = 1..(k - 1)
    <3>1. \A j : j \in (1..k) \ {k} <=> j \in 1..(k - 1)
      OBVIOUS
    <3> QED BY <2>1, <3>1
  <2>4. iter[1..k] = Visit(iter, 1..k)
    BY <1>4, <2>1
  <2>5. found[k] = iter[1..k] /\ found[k - 1] = iter[1..(k - 1)]
    OBVIOUS
  <2> QED BY <2>2, <2>3, <2>4, <2>5
<1>8. LoopFinds(order) = found[n]
  BY <1>5
<1> HIDE DEF found
<1> QED BY <1>6, <1>7, <1>8

(* The loop ends with one row, the version and time of none being greater. *)
LEMMA LoopFindsGreatest ==
  ASSUME NEW n \in Nat, NEW order \in [1..n -> Row]
  PROVE  IF n = 0 THEN LoopFinds(order) = {}
         ELSE \E m \in 1..n :
                /\ LoopFinds(order) = {order[m]}
                /\ \A j \in 1..n : ~Supersedes(order[j], order[m])
<1>1. PICK found :
        /\ found[0] = {}
        /\ \A k \in 1..n :
             found[k] = IF \A l \in found[k - 1] : Supersedes(order[k], l)
                        THEN {order[k]} ELSE found[k - 1]
        /\ LoopFinds(order) = found[n]
  BY LoopByRows
<1> DEFINE Greatest(k, m) == found[k] = {order[m]} /\ \A j \in 1..k : ~Supersedes(order[j], order[m])
           T == {k \in 1..n : ~ \E m \in 1..k : Greatest(k, m)}
<1>2. \A j \in 1..n : order[j].version \in Int /\ order[j].at \in Nat
  BY DEF Row
<1>3. T = {}
  <2> SUFFICES ASSUME T # {} PROVE FALSE
    OBVIOUS
  <2>1. T \in SUBSET Nat
    OBVIOUS
  <2>2. PICK k \in T : \A j \in T : k <= j
    BY <2>1, Least
  <2>3. k \in 1..n /\ ~ \E m \in 1..k : Greatest(k, m)
    BY <2>2
  <2>4. CASE k = 1
    <3>1. 1 \in 1..n /\ 1 - 1 = 0
      BY <2>3, <2>4
    <3>2. found[1] = {order[1]}
      BY <1>1, <3>1
    <3> QED BY <1>2, <2>3, <2>4, <3>2 DEF Supersedes
  <2>5. CASE k # 1
    <3>1. k - 1 \in 1..n /\ k - 1 \notin T
      BY <2>2, <2>3, <2>5
    <3>2. PICK m \in 1..(k - 1) : Greatest(k - 1, m)
      BY <3>1
    <3>3. m \in 1..n /\ found[k - 1] = {order[m]} /\ 1..k = 1..(k - 1) \cup {k}
      BY <2>3, <3>2
    <3>4. CASE Supersedes(order[k], order[m])
      <4>1. found[k] = {order[k]}
        BY <1>1, <2>3, <3>3, <3>4
      <4>2. \A j \in 1..(k - 1) : j \in 1..n /\ ~Supersedes(order[j], order[m])
        BY <2>3, <3>2
      <4>3. \A j \in 1..(k - 1) : ~Supersedes(order[j], order[k])
        BY <1>2, <2>3, <3>3, <3>4, <4>2 DEF Supersedes
      <4>4. ~Supersedes(order[k], order[k])
        BY <1>2, <2>3 DEF Supersedes
      <4> QED BY <2>3, <3>3, <4>1, <4>3, <4>4
    <3>5. CASE ~Supersedes(order[k], order[m])
      <4>1. found[k] = {order[m]}
        BY <1>1, <2>3, <3>3, <3>5
      <4> QED BY <2>3, <3>2, <3>3, <3>5, <4>1
    <3> QED BY <3>4, <3>5
  <2> QED BY <2>4, <2>5
<1>4. CASE n = 0
  BY <1>1, <1>4
<1>5. CASE n # 0
  <2>1. n \in 1..n /\ n \notin T
    BY <1>3, <1>5
  <2> QED BY <1>1, <1>5, <2>1
<1> QED BY <1>4, <1>5

(* An order of a finite set has every element. *)
LEMMA OrderIsOnto ==
  ASSUME NEW rows, IsFiniteSet(rows), NEW order \in SetToSeqs(rows)
  PROVE  /\ Cardinality(rows) \in Nat
         /\ order \in [1..Cardinality(rows) -> rows]
         /\ \A c \in rows : \E j \in 1..Cardinality(rows) : order[j] = c
<1> DEFINE n == Cardinality(rows)
<1>1. n \in Nat
  BY FS_CardinalityType
<1>2. order \in Injection(1..n, rows)
  BY DEF SetToSeqs, Injection, IsInjective
<1>3. Cardinality(1..n) = n
  BY <1>1, FS_Interval
<1>4. order \in Surjection(1..n, rows)
  BY <1>2, <1>3, FS_Injection
<1> QED BY <1>1, <1>2, <1>4 DEF Injection, Surjection

(* What the loop finds comes first in ORDER BY version DESC, created_at    *)
(* DESC, whatever order it visits the rows in.                             *)
LEMMA LoopFindsLatest ==
  ASSUME NEW rows \in SUBSET Row, IsFiniteSet(rows), NEW order \in SetToSeqs(rows)
  PROVE  /\ LoopFinds(order) \subseteq LatestOf(rows)
         /\ rows # {} => LoopFinds(order) # {}
<1> DEFINE n == Cardinality(rows)
<1>1. /\ n \in Nat /\ order \in [1..n -> rows]
      /\ \A c \in rows : \E j \in 1..n : order[j] = c
  BY OrderIsOnto
<1>2. order \in [1..n -> Row]
  BY <1>1
<1> HIDE DEF n
<1>3. CASE n = 0
  <2>1. LoopFinds(order) = {}
    BY <1>1, <1>2, <1>3, LoopFindsGreatest
  <2>2. rows = {}
    BY <1>1, <1>3
  <2> QED BY <2>1, <2>2
<1>4. CASE n # 0
  <2>1. PICK m \in 1..n : /\ LoopFinds(order) = {order[m]}
                          /\ \A j \in 1..n : ~Supersedes(order[j], order[m])
    BY <1>1, <1>2, <1>4, LoopFindsGreatest
  <2>2. order[m] \in rows
    BY <1>1
  <2>3. ASSUME NEW d \in rows
        PROVE  \/ order[m].version > d.version
               \/ order[m].version = d.version /\ order[m].at >= d.at
    <3>1. ~Supersedes(d, order[m])
      BY <1>1, <2>1
    <3>2. /\ d.version \in Int /\ d.at \in Nat
          /\ order[m].version \in Int /\ order[m].at \in Nat
      BY <2>2 DEF Row
    <3> QED BY <3>1, <3>2 DEF Supersedes
  <2>4. order[m] \in LatestOf(rows)
    BY <2>2, <2>3 DEF LatestOf
  <2> QED BY <2>1, <2>4
<1> QED BY <1>3, <1>4

LEMMA FiniteStep ==
  ASSUME IsFiniteSet(configs), [StoreNext]_storeVars
  PROVE  IsFiniteSet(configs)'
<1>1. ASSUME NEW r \in Requests, CreateConfig(r) PROVE \E row : configs' \subseteq configs \cup {row}
  BY <1>1 DEF CreateConfig
<1>2. ASSUME NEW g \in Groups, DeleteGroup(g) PROVE configs' \subseteq configs
  BY <1>2 DEF DeleteGroup
<1>3. ASSUME NEW r \in Requests, Arrives(r) PROVE configs' = configs
  BY <1>3 DEF Arrives, HandleCreateConfig, HandleUpdateConfig, HandleSendConfigToAgent,
     HandleAssignConfig, Begin
<1>4. ASSUME NEW r \in Requests, Proceeds(r), ~CreateConfig(r) PROVE configs' = configs
  BY <1>4 DEF Proceeds, GetAgent, GetLatestConfigForAgent, LatestUnknown, GetGroup, GetConfig,
     Build, StatementFails
<1>5. \E row : configs' \subseteq configs \cup {row}
  BY <1>1, <1>2, <1>3, <1>4 DEF StoreNext, storeVars
<1>6. PICK row : configs' \subseteq configs \cup {row}
  BY <1>5
<1>7. IsFiniteSet(configs \cup {row})
  BY FS_AddElement
<1> QED BY <1>6, <1>7, FS_Subset

(* The memory store's loop (GetLatestConfigForAgent, and the one for       *)
(* groups) and SQLite's ORDER BY agree on the latest configuration, in     *)
(* every reachable state, however many rows there are and in whatever      *)
(* order the map is visited.                                               *)
THEOREM StoresAgree == StoreSpec => []MemoryFindsLatest
<1>1. StoreInit => IsFiniteSet(configs)
  BY FS_EmptySet DEF StoreInit
<1>2. IsFiniteSet(configs) /\ [StoreNext]_storeVars => IsFiniteSet(configs)'
  BY FiniteStep
<1>3. StoreTypeOK /\ IsFiniteSet(configs) => MemoryFindsLatest
  <2> SUFFICES ASSUME StoreTypeOK, IsFiniteSet(configs),
                      NEW rows \in {OfAgent(a) : a \in Agents} \cup {OfGroup(g) : g \in Groups},
                      NEW order \in SetToSeqs(rows)
               PROVE  /\ LoopFinds(order) \subseteq LatestOf(rows)
                      /\ rows # {} => LoopFinds(order) # {}
    BY DEF MemoryFindsLatest
  <2>1. rows \in SUBSET configs /\ rows \in SUBSET Row
    BY DEF OfAgent, OfGroup, StoreTypeOK
  <2>2. IsFiniteSet(rows)
    BY <2>1, FS_Subset
  <2> QED BY <2>1, <2>2, LoopFindsLatest
<1> QED BY <1>1, <1>2, <1>3, StoreTypeCorrect, PTL DEF StoreSpec
=============================================================================
