---------------------------- MODULE ConfigDelivery ----------------------------
(***************************************************************************)
(* How a configuration reaches an agent: src/internal/opamp/agent_config   *)
(* .go, agent_status.go, config_sender.go and processAgentGrouping in      *)
(* server.go, with the API handlers that start a push.                     *)
(*                                                                         *)
(* One agent and its successive connections; the server makes a new Agent  *)
(* object for each (AgentSessions covers overlapping connections).  A push *)
(* is an API call that stores a configuration and sends it, to the agent   *)
(* itself or to its group.  The message handler, the pushes and the agent  *)
(* interleave between their critical sections; a Send comes after the      *)
(* object's mutex was released, so two of them may overtake each other.    *)
(*                                                                         *)
(* A configuration is a value; its hash is the value itself, which leaves  *)
(* out collisions of SHA-256.  A description is abstracted to the group it *)
(* names, by group.id alone.  The agent accepts remote configurations, and *)
(* it reports their status iff Reports.  The agent is that of the opamp-go *)
(* client library: it merges what it has to report into its next message,  *)
(* it reports a status when it has changed, and it may send a message with *)
(* nothing to report at any time.                                          *)
(***************************************************************************)
EXTENDS Naturals, Sequences, FiniteSets

CONSTANTS
  Pushes,         (* the API calls that push a configuration                  *)
  Content,        (* Content[p]: the configuration that p pushes              *)
  Target,         (* Target[p]: the group that p pushes to, or None           *)
  Groups,         (* the groups' ids                                          *)
  NoGroup,        (* the empty group id of an agent without a group           *)
  Default,        (* DefaultOTelConfig                                        *)
  Empty,          (* the empty configuration, CustomInstanceConfig = ""       *)
  Blank,          (* the hash of an agent that never got a configuration      *)
  None,           (* nil, or no such row                                      *)
  Reports,        (* does the agent report RemoteConfigStatus?                *)
  MaxConnections, (* bound on the connections the agent makes                 *)
  MaxRegroups,    (* bound on the changes of the agent's group                *)
  MaxUp, MaxDown, (* bounds on the messages under way in each direction       *)
  MaxLost         (* bound on the Sends that fail; their error is dropped     *)

Configs == {Content[p] : p \in Pushes} \cup {Default, Empty}
GroupIDs == Groups \cup {NoGroup}

ASSUME DeliveryAssumption ==
  /\ Target \in [Pushes -> Groups \cup {None}]
  /\ Empty \notin {Content[p] : p \in Pushes} \cup {Default}
  /\ Blank \notin Configs
  /\ None \notin Configs \cup GroupIDs \cup Nat \cup {Blank}
  /\ NoGroup \notin Groups
  /\ Reports \in BOOLEAN
  /\ MaxConnections \in Nat \ {0}
  /\ MaxUp \in Nat \ {0} /\ MaxDown \in Nat \ {0}
  /\ MaxRegroups \in Nat
  /\ MaxLost \in Nat

VARIABLES
  conn,         (* the connection in use; agent is the object made for each   *)
  registered,   (* is the object of conn in the registry?                     *)
  agent,        (* agent[k]: the Agent object of connection k                 *)
  pc,           (* the statement onMessage has reached                        *)
  msg,          (* the message it handles                                     *)
  chosen,       (* the configuration getConfigForAgent returned               *)
  response,     (* what it answers                                            *)
  row,          (* has the agent a row in the application store?              *)
  agentConfig,  (* the latest configuration stored for the agent, or None     *)
  groupConfig,  (* groupConfig[g]: the latest one stored for group g, or None *)
  stage,        (* stage[p]: how far push p has come                          *)
  held,         (* held[p]: the connection whose object p found               *)
  notified,     (* the pushes whose channel holds a notification              *)
  up, down,     (* the messages under way to the server and to the agent      *)
  applied,      (* the configuration the agent runs                           *)
  group,        (* the group the agent names in its description               *)
  dirty,        (* what the agent's next message has to include               *)
  regroups, lost

handlerVars == <<pc, msg, chosen, response>>
storeVars == <<row, agentConfig, groupConfig>>
pushVars == <<stage, held, notified>>
agentVars == <<applied, group, dirty, regroups>>
connVars == <<conn, registered>>
deliveryVars == <<connVars, agent, handlerVars, storeVars, pushVars, up, down,
                  agentVars, lost>>

Connections == 1..MaxConnections
Statuses == Configs \cup {Blank}

Object == [known : BOOLEAN,                     \* Status # nil
           described : GroupIDs \cup {None},    \* Status.AgentDescription
           reported : Statuses \cup {None},     \* Status.RemoteConfigStatus
           custom : Configs,                    \* CustomInstanceConfig
           remote : Configs \cup {None},        \* remoteConfig
           member : GroupIDs \cup {None},       \* GroupID
           watchers : SUBSET Pushes]            \* statusUpdateWatchers

NewAgent == [known |-> FALSE, described |-> None, reported |-> None,
             custom |-> Empty, remote |-> None, member |-> None, watchers |-> {}]

ToServer == [group : GroupIDs \cup {None}, status : Statuses \cup {None}]
ToAgent == [config : Configs \cup {None}, full : BOOLEAN]
Silence == [config |-> None, full |-> FALSE]

Stages == {"new", "stored", "member", "found", "sending", "waiting",
           "ok", "failed", "skipped"}

DeliveryTypeOK ==
  /\ conn \in Connections
  /\ registered \in BOOLEAN
  /\ agent \in [Connections -> Object]
  /\ pc \in {"idle", "grouping", "agent_config", "group_config", "setting",
             "updating", "answering"}
  /\ msg \in ToServer \cup {None}
  /\ chosen \in Configs \cup {None}
  /\ response \in ToAgent \cup {None}
  /\ row \in BOOLEAN
  /\ agentConfig \in Configs \cup {None}
  /\ groupConfig \in [Groups -> Configs \cup {None}]
  /\ stage \in [Pushes -> Stages]
  /\ held \in [Pushes -> Connections \cup {None}]
  /\ notified \subseteq Pushes
  /\ up \in Seq(ToServer) /\ down \in Seq(ToAgent)
  /\ applied \in Statuses
  /\ group \in GroupIDs
  /\ dirty \subseteq {"description", "status"}
  /\ regroups \in Nat /\ lost \in Nat
  /\ \A p \in Pushes : stage[p] \in {"found", "sending", "waiting"} => held[p] # None
  /\ pc = "setting" => chosen # None
  /\ pc # "idle" => msg \in ToServer
  /\ pc \in {"grouping", "agent_config", "group_config", "setting"} => msg.group # None
  /\ pc = "answering" => response \in ToAgent

\* A client may report the status of a configuration it never had.
DeliveryInit ==
  /\ conn = 1
  /\ registered = FALSE
  /\ agent = [k \in Connections |-> NewAgent]
  /\ pc = "idle" /\ msg = None /\ chosen = None /\ response = None
  /\ row = FALSE
  /\ agentConfig = None
  /\ groupConfig = [g \in Groups |-> None]
  /\ stage = [p \in Pushes |-> "new"]
  /\ held = [p \in Pushes |-> None]
  /\ notified = {}
  /\ up = <<>> /\ down = <<>>
  /\ applied = Blank
  /\ group \in GroupIDs
  /\ dirty \in {{"description"}} \cup (IF Reports THEN {{"description", "status"}} ELSE {})
  /\ regroups = 0 /\ lost = 0

-----------------------------------------------------------------------------
(* The agent (the opamp-go client) and its connection *)

\* The next message: the description and the status if they are to be reported.
AgentSends ==
  /\ Len(up) < MaxUp
  /\ up' = Append(up, [group |-> IF "description" \in dirty THEN group ELSE None,
                       status |-> IF "status" \in dirty THEN applied ELSE None])
  /\ dirty' = {}
  /\ UNCHANGED <<connVars, agent, handlerVars, storeVars, pushVars, down,
                 applied, group, regroups, lost>>

\* The client applies the configuration and reports a status that is new, or
\* everything when the server asks for the full state.
AgentReceives ==
  /\ down # <<>>
  /\ LET m == Head(down)
     IN /\ applied' = IF m.config = None THEN applied ELSE m.config
        /\ dirty' = dirty
             \cup (IF Reports /\ (m.full \/ applied' # applied) THEN {"status"} ELSE {})
             \cup (IF m.full THEN {"description"} ELSE {})
  /\ down' = Tail(down)
  /\ UNCHANGED <<connVars, agent, handlerVars, storeVars, pushVars, up,
                 group, regroups, lost>>

\* The agent is given another group.
Regroup ==
  /\ regroups < MaxRegroups
  /\ regroups' = regroups + 1
  /\ group' \in GroupIDs \ {group}
  /\ dirty' = dirty \cup {"description"}
  /\ UNCHANGED <<connVars, agent, handlerVars, storeVars, pushVars, up, down,
                 applied, lost>>

\* The connection ends, what was under way is gone, and the client makes
\* another one, on which its first message reports everything.
Reconnect ==
  /\ registered
  /\ pc = "idle"
  /\ conn < MaxConnections
  /\ conn' = conn + 1
  /\ registered' = FALSE
  /\ up' = <<>> /\ down' = <<>>
  /\ dirty' = {"description"} \cup (IF Reports THEN {"status"} ELSE {})
  /\ UNCHANGED <<agent, handlerVars, storeVars, pushVars, applied, group,
                 regroups, lost>>

-----------------------------------------------------------------------------
(* onMessage *)

Current == agent[conn]

\* FindOrCreateAgent; a message without a description is not grouped.
OnMessage ==
  /\ pc = "idle"
  /\ up # <<>>
  /\ msg' = Head(up)
  /\ up' = Tail(up)
  /\ registered' = TRUE
  /\ pc' = IF msg'.group = None THEN "updating" ELSE "grouping"
  /\ UNCHANGED <<conn, agent, chosen, response, storeVars, pushVars, down, agentVars, lost>>

\* processAgentGrouping, up to the test of the capability, which an object
\* without a status does not have.
ProcessAgentGrouping ==
  /\ pc = "grouping"
  /\ LET was == Current.member
         groupChanged == IF was = None THEN msg.group # NoGroup ELSE msg.group # was
         isFirstConnect == ~Current.known \/ Current.custom = Empty
     IN pc' = IF (groupChanged \/ isFirstConnect) /\ Current.known
              THEN "agent_config" ELSE "updating"
  /\ agent' = [agent EXCEPT ![conn].member = msg.group]
  /\ UNCHANGED <<connVars, msg, chosen, response, storeVars, pushVars, up, down,
                 agentVars, lost>>

\* Faulty: the absence of a configuration is not tested for.
GetLatestConfigForAgentNil ==
  /\ pc = "agent_config"
  /\ chosen' = agentConfig /\ pc' = "setting"
  /\ UNCHANGED <<connVars, agent, msg, response, storeVars, pushVars, up, down,
                 agentVars, lost>>

\* getConfigForAgent: an error of the store counts as "no configuration".
GetLatestConfigForAgent ==
  /\ pc = "agent_config"
  /\ \/ agentConfig # None /\ chosen' = agentConfig /\ pc' = "setting"
     \/ chosen' = chosen /\ pc' = "group_config"
  /\ UNCHANGED <<connVars, agent, msg, response, storeVars, pushVars, up, down,
                 agentVars, lost>>

GetLatestConfigForGroup ==
  /\ pc = "group_config"
  /\ pc' = "setting"
  /\ \/ msg.group # NoGroup /\ groupConfig[msg.group] # None
        /\ chosen' = groupConfig[msg.group]
     \/ chosen' = Default
  /\ UNCHANGED <<connVars, agent, msg, response, storeVars, pushVars, up, down,
                 agentVars, lost>>

\* calcRemoteConfig, after CustomInstanceConfig has become c.
Calculated(object, c) == [object EXCEPT !.custom = c, !.remote = c]

\* Faulty: the remote configuration is not calculated again.
SetInitialConfigOnly ==
  /\ pc = "setting"
  /\ agent' = [agent EXCEPT ![conn].custom = chosen]
  /\ pc' = "updating"
  /\ UNCHANGED <<connVars, msg, chosen, response, storeVars, pushVars, up, down,
                 agentVars, lost>>

\* Its result, "changed", is only logged here.
SetInitialConfig ==
  /\ pc = "setting"
  /\ agent' = [agent EXCEPT ![conn] = Calculated(@, chosen)]
  /\ pc' = "updating"
  /\ UNCHANGED <<connVars, msg, chosen, response, storeVars, pushVars, up, down,
                 agentVars, lost>>

\* updateStatusField: what the object knows after the message.
Heard(object) ==
  [object EXCEPT !.known = TRUE,
                 !.described = IF msg.group # None THEN msg.group ELSE @,
                 !.reported = IF msg.status # None THEN msg.status ELSE @]

DescriptionChanged(object) ==
  ~object.known \/ (msg.group # None /\ msg.group # object.described)

\* A message without the status that the agent can report is compressed; no
\* message of a connection is lost, so only its first one has no predecessor.
AsksForFullState(object) == ~object.known /\ Reports /\ msg.status = None

\* Faulty: only a new configuration is offered.
OfferOnce(now, configChanged) ==
  [config |-> IF configChanged THEN now.remote ELSE None,
   full |-> AsksForFullState(Current)]

\* Faulty: only a status in this very message is compared.
OfferThisMessage(now, configChanged) ==
  [config |-> IF configChanged \/ (msg.status # None /\ msg.status # now.remote)
              THEN now.remote ELSE None,
   full |-> AsksForFullState(Current)]

\* What the response says: the offer, if it is new or if the last status that
\* the agent ever reported has another hash.
Offer(now, configChanged) ==
  [config |-> IF configChanged \/ (now.reported # None /\ now.reported # now.remote)
              THEN now.remote ELSE None,
   full |-> AsksForFullState(Current)]

\* Faulty: the watchers are dropped without being notified.
UpdateStatusForgets ==
  /\ pc = "updating"
  /\ LET now == Calculated(Heard(Current), Current.custom)
     IN /\ agent' = [agent EXCEPT ![conn] = [now EXCEPT !.watchers = {}]]
        /\ response' = Offer(now, Current.remote # now.remote)
  /\ pc' = "answering"
  /\ UNCHANGED <<connVars, msg, chosen, storeVars, pushVars, up, down, agentVars, lost>>

\* UpdateStatus, in one critical section; the watchers are notified after it,
\* which nobody can tell from within it.
UpdateStatus ==
  /\ pc = "updating"
  /\ LET heard == Heard(Current)
         described == DescriptionChanged(Current)
         now == IF described THEN Calculated(heard, heard.custom) ELSE heard
     IN /\ agent' = [agent EXCEPT ![conn] = [now EXCEPT !.watchers = {}]]
        /\ notified' = notified \cup Current.watchers
        /\ response' = Offer(now, described /\ heard.remote # heard.custom)
  /\ pc' = "answering"
  /\ UNCHANGED <<connVars, msg, chosen, storeVars, stage, held, up, down, agentVars, lost>>

\* persistAgent, and the library sends the response.
Answer ==
  /\ pc = "answering"
  /\ Len(down) < MaxDown
  /\ down' = IF response = Silence THEN down ELSE Append(down, response)
  /\ row' = TRUE
  /\ pc' = "idle"
  /\ msg' = None /\ chosen' = None /\ response' = None
  /\ UNCHANGED <<connVars, agent, agentConfig, groupConfig, pushVars, up, agentVars, lost>>

-----------------------------------------------------------------------------
(* A push: HandleSendConfigToAgent, HandleAssignConfig, HandleCreateConfig *)

Stage(p, s) == stage' = [stage EXCEPT ![p] = s]

\* Which row is the latest depends on the versions of the rows.
Latest(stored, new) == {new} \cup ({stored} \ {None})

StoreConfig(p) ==
  /\ stage[p] = "new"
  /\ \/ /\ Target[p] = None
        /\ row
        /\ agentConfig' \in Latest(agentConfig, Content[p])
        /\ groupConfig' = groupConfig
        /\ Stage(p, "stored")
     \/ /\ Target[p] # None
        /\ \E c \in Latest(groupConfig[Target[p]], Content[p]) :
             groupConfig' = [groupConfig EXCEPT ![Target[p]] = c]
        /\ agentConfig' = agentConfig
        /\ Stage(p, "stored")
     \/ Stage(p, "failed") /\ UNCHANGED <<agentConfig, groupConfig>>
  /\ UNCHANGED <<connVars, agent, handlerVars, row, held, notified, up, down,
                 agentVars, lost>>

\* SendConfigToAgentsInGroup looks for members in a clone of the registry.
CloneAgents(p) ==
  /\ stage[p] = "stored"
  /\ Target[p] # None
  /\ Stage(p, IF registered /\ Current.member = Target[p] THEN "member" ELSE "skipped")
  /\ UNCHANGED <<connVars, agent, handlerVars, storeVars, held, notified, up, down,
                 agentVars, lost>>

MayFind(p) == stage[p] = IF Target[p] = None THEN "stored" ELSE "member"

\* SendConfigToAgent: FindAgent, and the capability that its status says.
FindAgent(p) ==
  /\ MayFind(p)
  /\ \/ registered /\ Current.known
        /\ Stage(p, "found") /\ held' = [held EXCEPT ![p] = conn]
     \/ ~(registered /\ Current.known) /\ Stage(p, "failed") /\ held' = held
  /\ UNCHANGED <<connVars, agent, handlerVars, storeVars, notified, up, down,
                 agentVars, lost>>

\* Faulty: the channel is left for after the Send.
SetCustomConfigUnwatched(p) ==
  /\ stage[p] = "found"
  /\ agent' = [agent EXCEPT ![held[p]] = Calculated(@, Content[p])]
  /\ Stage(p, "sending")
  /\ UNCHANGED <<connVars, handlerVars, storeVars, held, notified, up, down, agentVars, lost>>

\* SetCustomConfig, under the mutex: the watcher is there before the message
\* is sent.  When nothing changed, the caller's own channel is notified.
SetCustomConfig(p) ==
  /\ stage[p] = "found"
  /\ LET object == agent[held[p]]
         now == Calculated(object, Content[p])
     IN IF now.remote # object.remote
        THEN /\ agent' = [agent EXCEPT ![held[p]] = [now EXCEPT !.watchers = @ \cup {p}]]
             /\ Stage(p, "sending")
             /\ notified' = notified
        ELSE /\ agent' = [agent EXCEPT ![held[p]] = now]
             /\ Stage(p, "waiting")
             /\ notified' = notified \cup {p}
  /\ UNCHANGED <<connVars, handlerVars, storeVars, held, up, down, agentVars, lost>>

\* SendToAgent, after the mutex was released; its error is dropped.
SendToAgent(p) ==
  /\ stage[p] = "sending"
  /\ Stage(p, "waiting")
  /\ \/ /\ held[p] = conn /\ Len(down) < MaxDown
        /\ down' = Append(down, [config |-> Content[p], full |-> FALSE])
        /\ lost' = lost
     \/ /\ held[p] = conn /\ lost < MaxLost
        /\ lost' = lost + 1 /\ down' = down
     \/ held[p] # conn /\ UNCHANGED <<down, lost>>
  /\ UNCHANGED <<connVars, agent, handlerVars, storeVars, held, notified, up, agentVars>>

Succeed(p) ==
  /\ stage[p] = "waiting"
  /\ p \in notified
  /\ Stage(p, "ok")
  /\ UNCHANGED <<connVars, agent, handlerVars, storeVars, held, notified, up, down,
                 agentVars, lost>>

\* The 30 seconds are over; the watcher stays.
TimeOut(p) ==
  /\ stage[p] = "waiting"
  /\ Stage(p, "failed")
  /\ UNCHANGED <<connVars, agent, handlerVars, storeVars, held, notified, up, down,
                 agentVars, lost>>

-----------------------------------------------------------------------------
Handle ==
  \/ ProcessAgentGrouping
  \/ GetLatestConfigForAgent
  \/ GetLatestConfigForGroup
  \/ SetInitialConfig
  \/ UpdateStatus
  \/ Answer

Deliver(p) ==
  \/ CloneAgents(p)
  \/ FindAgent(p)
  \/ SetCustomConfig(p)
  \/ SendToAgent(p)
  \/ Succeed(p)
  \/ TimeOut(p)

DeliveryNext ==
  \/ AgentSends
  \/ AgentReceives
  \/ Regroup
  \/ Reconnect
  \/ OnMessage
  \/ Handle
  \/ \E p \in Pushes : StoreConfig(p) \/ Deliver(p)

DeliverySpec == DeliveryInit /\ [][DeliveryNext]_deliveryVars

(***************************************************************************)
(* Goroutines that can run do, and so does the client, which keeps sending *)
(* (OpAMP clients poll or send heartbeats).  No push has to start.         *)
(***************************************************************************)
FairDeliverySpec ==
  /\ DeliverySpec
  /\ WF_deliveryVars(AgentSends)
  /\ WF_deliveryVars(AgentReceives)
  /\ WF_deliveryVars(OnMessage)
  /\ WF_deliveryVars(Handle)
  /\ \A p \in Pushes : WF_deliveryVars(Deliver(p))

-----------------------------------------------------------------------------
(* Properties *)

(***************************************************************************)
(* An object that has a status has a remote configuration, so the hash     *)
(* comparison in processStatusUpdate finds one, and what is offered to the *)
(* agent is what was last set, whichever of the handler and the pushes set *)
(* it (calcRemoteConfig follows every assignment of CustomInstanceConfig). *)
(***************************************************************************)
OfferIsWhatWasSet ==
  \A k \in Connections :
    /\ agent[k].known => agent[k].remote # None
    /\ agent[k].remote \in {None, agent[k].custom}

(***************************************************************************)
(* No wakeup is lost: a push that has changed the configuration is watched *)
(* for, or has been notified, whatever the handler does between its        *)
(* critical section, its Send and its wait (SetCustomConfig, UpdateStatus).*)
(***************************************************************************)
NoLostWakeup ==
  \A p \in Pushes : stage[p] \in {"sending", "waiting"} =>
    p \in notified \/ p \in agent[held[p]].watchers

(***************************************************************************)
(* When nothing is under way and no Send has failed, the agent that        *)
(* reports runs what the server offers: Sends that overtook each other,    *)
(* and configurations set behind its back by the handler, are made good by *)
(* the comparison of the hash with every message.                          *)
(***************************************************************************)
Quiet ==
  /\ registered /\ pc = "idle"
  /\ up = <<>> /\ down = <<>> /\ dirty = {}
  /\ \A p \in Pushes : stage[p] # "sending"

QuietMeansInSync ==
  Reports /\ lost = 0 /\ Quiet => applied = Current.remote

(***************************************************************************)
(* The agent that reports comes to run what the server offers in the end,  *)
(* and stays with it, even when Sends fail, are reordered, or the agent    *)
(* reconnects or changes its group.                                        *)
(***************************************************************************)
Converges == Reports => <>[](applied = Current.remote)

(***************************************************************************)
(* A push that waits on the agent's present object is notified in the end, *)
(* or the agent reconnects: no message of the agent passes it by.          *)
(***************************************************************************)
WaitersAreNotified ==
  \A p \in Pushes :
    (stage[p] \in {"sending", "waiting"} /\ held[p] = conn)
      ~> (p \in notified \/ held[p] # conn)

(***************************************************************************)
(* Why QuietMeansInSync holds: the invariant that is inductive on its own. *)
(* Wherever the agent's status is known to be out of date, or missing, a   *)
(* later report or the request for one is under way; and where the status  *)
(* the server knows differs from what it offers, the comparison is still   *)
(* to come or the offer is under way.                                      *)
(***************************************************************************)
Handling == pc \in {"grouping", "agent_config", "group_config", "setting", "updating"}

ReportComing ==
  \/ "status" \in dirty
  \/ \E j \in 1..Len(up) : up[j].status # None

RequestComing ==
  \/ pc = "answering" /\ response.full
  \/ \E j \in 1..Len(down) : down[j].full

OfferComing ==
  \/ pc = "answering" /\ response.config = Current.remote
  \/ \E j \in 1..Len(down) : down[j].config = Current.remote
  \/ \E p \in Pushes :
       stage[p] = "sending" /\ held[p] = conn /\ Content[p] = Current.remote

KnownWhenHeard ==
  /\ registered /\ ~Handling => Current.known
  /\ \A k \in Connections : agent[k].known \/ agent[k].reported = None

ReportsFollow ==
  Reports =>
    /\ \A k \in 1..Len(up) : up[k].status \notin {None, applied} =>
         "status" \in dirty \/ \E j \in 1..Len(up) : j > k /\ up[j].status # None
    /\ Handling /\ msg.status \notin {None, applied} => ReportComing
    /\ Current.known /\ Current.reported # applied =>
         \/ ReportComing
         \/ Handling /\ msg.status # None
         \/ Current.reported = None /\ RequestComing

OffersFollow ==
  Reports /\ lost = 0 /\ Current.known /\ Current.reported \notin {None, Current.remote} =>
    Handling \/ ReportComing \/ OfferComing

SyncInv ==
  /\ DeliveryTypeOK
  /\ OfferIsWhatWasSet
  /\ KnownWhenHeard
  /\ ReportsFollow
  /\ OffersFollow
=============================================================================
