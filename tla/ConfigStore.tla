----------------------------- MODULE ConfigStore -----------------------------
(***************************************************************************)
(* Rows of configurations and groups in the application store, and the API *)
(* handlers that write them. Every statement is atomic, a handler makes    *)
(* one to three of them, and handlers of several requests interleave. What *)
(* a handler pushes to agents when its row is stored is ConfigDelivery's.  *)
(*                                                                         *)
(* A row is named by the request that inserts it, and so is a content; an  *)
(* assignment copies the content of another row.                           *)
(***************************************************************************)
EXTENDS Integers, Sequences, SequencesExt

CONSTANTS
  Requests,   \* calls of the API that may store a configuration
  Agents,     \* agents a request may name
  Known,      \* those with a row in the table agents
  Remote,     \* and those that accept a remote configuration
  Groups,
  Nobody,     \* NULL in the columns agent_id and group_id
  Typed,      \* versions that users type
  MaxClock    \* bound: how far the clock goes

ASSUME StoreAssumption ==
  /\ Nobody \notin Agents \cup Groups
  /\ Remote \subseteq Known /\ Known \subseteq Agents
  /\ Typed \subseteq Int /\ MaxClock \in Nat

VARIABLES
  groups,     \* the ids in the table groups
  configs,    \* the table configs
  call,       \* the state of each request
  clock       \* time.Now()

storeVars == <<groups, configs, call, clock>>

Handlers == {"none", "create", "update", "send", "assign"}
Steps == {"new", "getAgent", "getLatest", "getGroup", "getConfig", "build", "insert", "done"}

Row == [id : Requests, agent : Agents \cup {Nobody}, group : Groups \cup {Nobody},
        content : Requests, version : Int, at : Nat]

(* What a handler holds between two statements: the row it is going to     *)
(* insert, with the version it was given or computed, and the row it was   *)
(* asked to copy. `knew' and `before' are history: whether the latest      *)
(* version was read, and which requests had stored a row when this began.  *)
Call == [handler : Handlers, step : Steps, row : Row, source : Requests,
         knew : BOOLEAN, before : SUBSET Requests]

-----------------------------------------------------------------------------
(* Queries.                                                                *)

OfAgent(a) == {c \in configs : c.agent = a}
OfGroup(g) == {c \in configs : c.group = g}

(* ORDER BY version DESC, created_at DESC LIMIT 1: one of the rows that    *)
(* none comes before                                                       *)
LatestOf(rows) ==
  {c \in rows : \A d \in rows : c.version > d.version \/ (c.version = d.version /\ c.at >= d.at)}

\* Faulty: the time is not looked at.
SupersedesByVersion(c, latest) == c.version > latest.version

(* the loop of the memory store, over its map in some order *)
Supersedes(c, latest) ==
  c.version > latest.version \/ (c.version = latest.version /\ c.at > latest.at)

LoopFinds(order) ==
  FoldLeft(LAMBDA latest, c : IF \A l \in latest : Supersedes(c, l) THEN {c} ELSE latest, {}, order)

-----------------------------------------------------------------------------
(* The handlers.                                                           *)

NoRow(r) == [id |-> r, agent |-> Nobody, group |-> Nobody, content |-> r, version |-> 0, at |-> 0]
NewCall(r) == [handler |-> "none", step |-> "new", row |-> NoRow(r), source |-> r,
               knew |-> TRUE, before |-> {}]

StoreInit ==
  /\ groups = Groups
  /\ configs = {}
  /\ call = [r \in Requests |-> NewCall(r)]
  /\ clock = 0

At(r, step) == call[r].step = step
Becomes(r, state) == call' = [call EXCEPT ![r] = state]
Goes(r, step) == Becomes(r, [call[r] EXCEPT !.step = step])

(* an error answer: nothing is left of the request, its id is free again *)
Fails(r) == Becomes(r, NewCall(r))

Begin(r, handler, step, row, source) ==
  /\ At(r, "new")
  /\ Becomes(r, [handler |-> handler, step |-> step, row |-> row, source |-> source,
                 knew |-> TRUE, before |-> {c.id : c \in configs}])
  /\ UNCHANGED <<groups, configs, clock>>

(* POST /configs: the owner, if any, and the version are the user's *)
HandleCreateConfig(r, a, g, v) ==
  Begin(r, "create", "build", [NoRow(r) EXCEPT !.agent = a, !.group = g, !.version = v], r)

(* PUT /configs/:id: a new row for the owner of the old one *)
HandleUpdateConfig(r, id, v) ==
  Begin(r, "update", "getConfig", [NoRow(r) EXCEPT !.version = v], id)

(* POST /agents/:id/config *)
HandleSendConfigToAgent(r, a) ==
  Begin(r, "send", "getAgent", [NoRow(r) EXCEPT !.agent = a], r)

(* POST /groups/:id/config *)
HandleAssignConfig(r, g, id) ==
  Begin(r, "assign", "getGroup", [NoRow(r) EXCEPT !.group = g], id)

GetAgent(r) ==
  /\ At(r, "getAgent")
  /\ IF call[r].row.agent \in Remote THEN Goes(r, "getLatest") ELSE Fails(r)
  /\ UNCHANGED <<groups, configs, clock>>

\* Faulty: the version of the latest row is taken over.
VersionAgain(row, rows) ==
  IF rows = {} THEN {[row EXCEPT !.version = 1]}
  ELSE {[row EXCEPT !.version = c.version] : c \in LatestOf(rows)}

(* the version is one more than that of the latest row, or one *)
NextVersion(row, rows) ==
  IF rows = {} THEN {[row EXCEPT !.version = 1]}
  ELSE {[row EXCEPT !.version = c.version + 1] : c \in LatestOf(rows)}

GetLatestConfigForAgent(r) ==
  /\ At(r, "getLatest")
  /\ \E row \in NextVersion(call[r].row, OfAgent(call[r].row.agent)) :
       Becomes(r, [call[r] EXCEPT !.step = "build", !.row = row])
  /\ UNCHANGED <<groups, configs, clock>>

(* an error of that query is dropped, as if there were no row *)
LatestUnknown(r) ==
  /\ At(r, "getLatest")
  /\ Becomes(r, [call[r] EXCEPT !.step = "build", !.row.version = 1, !.knew = FALSE])
  /\ UNCHANGED <<groups, configs, clock>>

GetGroup(r) ==
  /\ At(r, "getGroup")
  /\ IF call[r].row.group \in groups THEN Goes(r, "getConfig") ELSE Fails(r)
  /\ UNCHANGED <<groups, configs, clock>>

\* Faulty: an update keeps the id of the old row.
CopiedInPlace(row, c, handler) ==
  IF handler = "update"
  THEN [row EXCEPT !.agent = c.agent, !.group = c.group, !.id = c.id]
  ELSE [row EXCEPT !.content = c.content, !.version = c.version + 1]

(* an update takes over the owner, an assignment the content, with the     *)
(* version after that of the row it copies                                 *)
Copied(row, c, handler) ==
  IF handler = "update"
  THEN [row EXCEPT !.agent = c.agent, !.group = c.group]
  ELSE [row EXCEPT !.content = c.content, !.version = c.version + 1]

GetConfig(r) ==
  /\ At(r, "getConfig")
  /\ \/ \E c \in configs :
          /\ c.id = call[r].source
          /\ Becomes(r, [call[r] EXCEPT !.step = "build", !.row = Copied(@, c, call[r].handler)])
     \/ /\ \A c \in configs : c.id # call[r].source
        /\ Fails(r)
  /\ UNCHANGED <<groups, configs, clock>>

(* CreatedAt: time.Now(); the clock may not have moved since it was read *)
Build(r) ==
  /\ At(r, "build")
  /\ \E t \in {clock, clock + 1} \cap 0..MaxClock :
       /\ clock' = t
       /\ Becomes(r, [call[r] EXCEPT !.step = "insert", !.row.at = t])
  /\ UNCHANGED <<groups, configs>>

(* the row's foreign keys refer to rows *)
OwnersExist(row) ==
  row.agent \in Known \cup {Nobody} /\ row.group \in groups \cup {Nobody}

(* The memory store knows no foreign keys, and SQLite looks at them only   *)
(* on the pooled connection that ran the PRAGMA.                           *)
CreateConfig(r) ==
  /\ At(r, "insert")
  /\ \E enforced \in BOOLEAN :
       IF enforced /\ ~OwnersExist(call[r].row)
       THEN Fails(r) /\ UNCHANGED configs
       ELSE /\ configs' = configs \cup {call[r].row}
            /\ Becomes(r, [call[r] EXCEPT !.step = "done", !.row = NoRow(r), !.source = r])
  /\ UNCHANGED <<groups, clock>>

(* an error of any other statement ends the request *)
StatementFails(r) ==
  /\ call[r].step \in {"getAgent", "getGroup", "getConfig", "insert"}
  /\ Fails(r)
  /\ UNCHANGED <<groups, configs, clock>>

(* DELETE /groups/:id; the rows of the group go with it if foreign keys    *)
(* are enforced                                                            *)
DeleteGroup(g) ==
  /\ g \in groups
  /\ groups' = groups \ {g}
  /\ \E enforced \in BOOLEAN : configs' = configs \ (IF enforced THEN OfGroup(g) ELSE {})
  /\ UNCHANGED <<call, clock>>

Proceeds(r) ==
  \/ GetAgent(r) \/ GetLatestConfigForAgent(r) \/ LatestUnknown(r)
  \/ GetGroup(r) \/ GetConfig(r)
  \/ Build(r) \/ CreateConfig(r) \/ StatementFails(r)

Arrives(r) ==
  \/ \E a \in Agents \cup {Nobody}, g \in Groups \cup {Nobody}, v \in Typed : HandleCreateConfig(r, a, g, v)
  \/ \E id \in Requests, v \in Typed : HandleUpdateConfig(r, id, v)
  \/ \E a \in Agents : HandleSendConfigToAgent(r, a)
  \/ \E g \in Groups, id \in Requests : HandleAssignConfig(r, g, id)

StoreNext ==
  \/ \E r \in Requests : Arrives(r) \/ Proceeds(r)
  \/ \E g \in Groups : DeleteGroup(g)

StoreSpec == StoreInit /\ [][StoreNext]_storeVars

-----------------------------------------------------------------------------
(* Properties.                                                             *)

(* The types of what the store and the handlers hold; no two rows have one *)
(* id, which is the primary key: versions are rows of their own.           *)
StoreTypeOK ==
  /\ groups \subseteq Groups
  /\ configs \subseteq Row
  /\ \A c, d \in configs : c.id = d.id => c = d
  /\ call \in [Requests -> Call]
  /\ clock \in 0..MaxClock

(* A configuration sent to an agent (StoreConfigForAgent) supersedes all   *)
(* that were stored for the agent before the request began, whoever stored *)
(* them, with whatever version, and whatever else is stored meanwhile or   *)
(* later: none of them is the agent's latest configuration again.          *)
LatestIsNotSuperseded ==
  \A a \in Agents : \A c \in LatestOf(OfAgent(a)), d \in OfAgent(a) :
    (call[d.id].handler = "send" /\ call[d.id].knew) => c.id \notin call[d.id].before

(* The memory store's loop, in whatever order it visits its map, ends with *)
(* a row that SQLite's ORDER BY may put first.                             *)
MemoryFindsLatest ==
  \A rows \in {OfAgent(a) : a \in Agents} \cup {OfGroup(g) : g \in Groups} :
    \A order \in SetToSeqs(rows) :
      /\ LoopFinds(order) \subseteq LatestOf(rows)
      /\ rows # {} => LoopFinds(order) # {}
=============================================================================
