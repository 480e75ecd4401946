----------------------------- MODULE GroupCommands -----------------------------
(***************************************************************************)
(* The calls of the API that work through a group: a push of a             *)
(* configuration (HandleAssignConfig, HandleCreateConfig) and a restart    *)
(* (HandleRestartGroup), which run SendConfigToAgentsInGroup and           *)
(* RestartAgentsInGroup of internal/opamp/config_sender.go, while the      *)
(* agents' messages make objects, move them between groups and configure   *)
(* them (onMessage and processAgentGrouping of internal/opamp/server.go).  *)
(*                                                                         *)
(* ConfigDelivery follows one push to one agent and what the agent does    *)
(* with it; here many agents come and go under a call that works off a     *)
(* copy of the registry and may wait for 30 seconds at each of them.  An   *)
(* agent has one connection at a time (AgentSessions has overlapping       *)
(* ones), and describes its group by group.id.                             *)
(***************************************************************************)
EXTENDS Naturals, FiniteSets

CONSTANTS
  Agents,
  Capabilities,  \* Capabilities[a] \subseteq {"push", "restart"}
  Groups,        \* the groups' ids
  NoGroup,       \* the empty id
  Pushes,        \* the calls that push; each has a configuration of its own
  Restarts,      \* the calls that restart
  Target,        \* the group a call is for
  Other,         \* a configuration that no call pushes, DefaultOTelConfig or the agent's own
  Empty,         \* CustomInstanceConfig = ""
  None,          \* nil
  Descriptions,  \* Descriptions[a]: the groups a's messages name, None if they have no description
  MaxObjects,    \* MaxObjects[a]: bound of the connections that a makes
  MaxCalls       \* bound of the calls that are made

Calls == Pushes \cup Restarts
GroupIDs == Groups \cup {NoGroup}
Kind(c) == IF c \in Pushes THEN "push" ELSE "restart"

ASSUME GroupAssumption ==
  /\ Capabilities \in [Agents -> SUBSET {"push", "restart"}]
  /\ NoGroup \notin Groups
  /\ Pushes \cap Restarts = {}
  /\ Target \in [Calls -> Groups]
  /\ Other \notin Pushes \cup {Empty} /\ Empty \notin Pushes
  /\ None \notin GroupIDs \cup Pushes \cup {Other, Empty} \cup (Agents \X Nat)
  /\ Descriptions \in [Agents -> SUBSET (GroupIDs \cup {None})]
  /\ MaxObjects \in [Agents -> Nat \ {0}]
  /\ MaxCalls \in Nat

VARIABLES
  made,        \* [Agents -> how many Agent objects were made for it]
  registered,  \* the agents in agentsById; the object is that made last
  object,      \* [Agents -> by number, its object]
  pc,          \* [Agents -> the statement its message has reached in onMessage]
  named,       \* [Agents -> the group in the description, while that is grouped]
  chosen,      \* [Agents -> what getConfigForAgent returned]
  latest,      \* [Groups -> the push whose row is the group's latest]
  stage,       \* [Calls -> how far the call is]
  copied,      \* [Calls -> objects of its copy of the map not yet cloned]
  todo,        \* [Calls -> agents in the group by their clones, not yet come to]
  held,        \* [Calls -> the object that FindAgent returned]
  succeeded,   \* [Calls -> the agents updated or restarted]
  failed,      \* [Calls -> the agents with an error]
  given,       \* history: the pushed configurations set since the agent joined its group
  informed,    \* history: agents that joined with their capabilities known
  steady,      \* history: [Calls -> the members of the group throughout the call]
  seen         \* history: [Calls -> those that were members at some time]

agentVars == <<made, registered, object>>
handlerVars == <<pc, named, chosen>>
callVars == <<stage, copied, todo, held, succeeded, failed>>
historyVars == <<given, informed, steady, seen>>
groupVars == <<agentVars, handlerVars, latest, callVars, historyVars>>

Configs == Pushes \cup {Other, Empty}
Object == [member : GroupIDs \cup {None}, known : BOOLEAN, custom : Configs]
NewAgent == [member |-> None, known |-> FALSE, custom |-> Empty]

Objects == UNION {{a} \X (1..MaxObjects[a]) : a \in Agents}

GroupInit ==
  /\ made = [a \in Agents |-> 0]
  /\ registered = {}
  /\ object = [a \in Agents |-> [n \in 1..MaxObjects[a] |-> NewAgent]]
  /\ pc = [a \in Agents |-> "idle"]
  /\ named = [a \in Agents |-> None]
  /\ chosen = [a \in Agents |-> None]
  /\ latest = [g \in Groups |-> None]
  /\ stage = [c \in Calls |-> "new"]
  /\ copied = [c \in Calls |-> {}]
  /\ todo = [c \in Calls |-> {}]
  /\ held = [c \in Calls |-> None]
  /\ succeeded = [c \in Calls |-> {}]
  /\ failed = [c \in Calls |-> {}]
  /\ given = [a \in Agents |-> {}]
  /\ informed = {}
  /\ steady = [c \in Calls |-> {}]
  /\ seen = [c \in Calls |-> {}]

Current(a) == object[a][made[a]]

(* hasCapability: an object without a status has none, and the status      *)
(* keeps the capabilities of the object's first message.                   *)
Able(a, kind) == Current(a).known /\ kind \in Capabilities[a]

Members(g) == {a \in registered : Current(a).member = g}

-----------------------------------------------------------------------------
(* The agents' messages.                                                   *)

(* FindOrCreateAgent; g is None in a message without a description *)
OnMessage(a, g) ==
  /\ pc[a] = "idle"
  /\ a \in registered \/ made[a] < MaxObjects[a]
  /\ made' = IF a \in registered THEN made ELSE [made EXCEPT ![a] = @ + 1]
  /\ registered' = registered \cup {a}
  /\ named' = [named EXCEPT ![a] = g]
  /\ pc' = [pc EXCEPT ![a] = IF g = None THEN "updating" ELSE "grouping"]
  /\ given' = IF a \in registered THEN given ELSE [given EXCEPT ![a] = {}]
  /\ informed' = IF a \in registered THEN informed ELSE informed \ {a}
  /\ UNCHANGED <<object, chosen, latest, callVars, steady, seen>>

GroupChanged(a) ==
  IF Current(a).member = None THEN named[a] # NoGroup ELSE Current(a).member # named[a]

IsFirstConnect(a) == ~Current(a).known \/ Current(a).custom = Empty

\* Faulty: a configuration is looked up on the first connect only.
NeedsFirstConfig(a) == IsFirstConnect(a)

NeedsConfig(a) == GroupChanged(a) \/ IsFirstConnect(a)

(* the calls under way for a group, which history tells of leaving and joining it *)
UnderWayFor(g) == {c \in Calls : Target[c] = g /\ stage[c] \notin {"new", "returned"}}

Leaves(a) == steady' = [c \in Calls |-> IF c \in UnderWayFor(Current(a).member)
                                      THEN steady[c] \ {a} ELSE steady[c]]

ProcessAgentGrouping(a) ==
  /\ pc[a] = "grouping"
  /\ object' = [object EXCEPT ![a][made[a]].member = named[a]]
  /\ pc' = [pc EXCEPT ![a] =
              IF NeedsConfig(a) /\ Able(a, "push") THEN "reading" ELSE "updating"]
  /\ IF GroupChanged(a)
     THEN /\ given' = [given EXCEPT ![a] = {}]
          /\ informed' = IF Able(a, "push") THEN informed \cup {a} ELSE informed \ {a}
          /\ Leaves(a)
          /\ seen' = [c \in Calls |->
                        IF c \in UnderWayFor(named[a]) THEN seen[c] \cup {a} ELSE seen[c]]
     ELSE UNCHANGED <<given, informed, steady, seen>>
  /\ named' = [named EXCEPT ![a] = None]
  /\ UNCHANGED <<made, registered, chosen, latest, callVars>>

\* Faulty: the absence of a row is not tested for.
GetConfigForAgentNil(a) ==
  /\ pc[a] = "reading"
  /\ chosen' = [chosen EXCEPT ![a] =
                  IF Current(a).member \in Groups THEN latest[Current(a).member] ELSE Other]
  /\ pc' = [pc EXCEPT ![a] = "setting"]
  /\ UNCHANGED <<agentVars, named, latest, callVars, historyVars>>

(* getConfigForAgent: the latest row of its group, or else the default;    *)
(* but an agent's own configuration goes first, and a failing store counts *)
(* as one without rows.                                                    *)
GetConfigForAgent(a) ==
  /\ pc[a] = "reading"
  /\ \/ /\ chosen' = [chosen EXCEPT ![a] =
                        IF Current(a).member \in Groups /\ latest[Current(a).member] # None
                        THEN latest[Current(a).member] ELSE Other]
        /\ UNCHANGED informed
     \/ /\ chosen' = [chosen EXCEPT ![a] = Other]
        /\ informed' = informed \ {a}
  /\ pc' = [pc EXCEPT ![a] = "setting"]
  /\ UNCHANGED <<agentVars, named, latest, callVars, given, steady, seen>>

SetInitialConfig(a) ==
  /\ pc[a] = "setting"
  /\ object' = [object EXCEPT ![a][made[a]].custom = chosen[a]]
  /\ given' = [given EXCEPT ![a] = @ \cup ({chosen[a]} \cap Pushes)]
  /\ chosen' = [chosen EXCEPT ![a] = None]
  /\ pc' = [pc EXCEPT ![a] = "updating"]
  /\ UNCHANGED <<made, registered, named, latest, callVars, informed, steady, seen>>

(* UpdateStatus, which notifies those who wait on the object, and the rest *)
(* of onMessage.                                                           *)
UpdateStatus(a) ==
  /\ pc[a] = "updating"
  /\ object' = [object EXCEPT ![a][made[a]].known = TRUE]
  /\ stage' = [c \in Calls |-> IF stage[c] = "waiting" /\ held[c] = <<a, made[a]>>
                               THEN "confirmed" ELSE stage[c]]
  /\ pc' = [pc EXCEPT ![a] = "idle"]
  /\ UNCHANGED <<made, registered, named, chosen, latest, copied, todo, held, succeeded,
                 failed, historyVars>>

(* onDisconnect: RemoveConnection *)
OnDisconnect(a) ==
  /\ pc[a] = "idle"
  /\ a \in registered
  /\ registered' = registered \ {a}
  /\ Leaves(a)
  /\ UNCHANGED <<made, object, handlerVars, latest, callVars, given, informed, seen>>

-----------------------------------------------------------------------------
(* The calls.                                                              *)

Begin(c) ==
  /\ stage[c] = "new"
  /\ Cardinality({d \in Calls : stage[d] # "new"}) < MaxCalls
  /\ stage' = [stage EXCEPT ![c] = "begun"]
  /\ steady' = [steady EXCEPT ![c] = Members(Target[c])]
  /\ seen' = [seen EXCEPT ![c] = Members(Target[c])]

(* A push stores its row first, which is the group's latest or not, as its *)
(* version says.  A call that is refused before, or whose insert fails,    *)
(* sends nothing: it does not begin.                                       *)
StoreRow(c) ==
  /\ c \in Pushes
  /\ Begin(c)
  /\ latest' \in {latest, [latest EXCEPT ![Target[c]] = c]}
  /\ UNCHANGED <<agentVars, handlerVars, copied, todo, held, succeeded, failed,
                 given, informed>>

BeginRestart(c) ==
  /\ c \in Restarts
  /\ Begin(c)
  /\ UNCHANGED <<agentVars, handlerVars, latest, copied, todo, held, succeeded, failed,
                 given, informed>>

(* GetAllAgentsReadonlyClone copies the map under the registry's lock, and *)
(* then clones each object under its own.                                  *)
CopyMap(c) ==
  /\ stage[c] = "begun"
  /\ stage' = [stage EXCEPT ![c] = "cloning"]
  /\ copied' = [copied EXCEPT ![c] = {<<a, made[a]>> : a \in registered}]
  /\ UNCHANGED <<agentVars, handlerVars, latest, todo, held, succeeded, failed, historyVars>>

CloneReadonly(c, o) ==
  /\ stage[c] = "cloning"
  /\ o \in copied[c]
  /\ copied' = [copied EXCEPT ![c] = @ \ {o}]
  /\ todo' = [todo EXCEPT ![c] =
                IF object[o[1]][o[2]].member = Target[c] THEN @ \cup {o[1]} ELSE @]
  /\ UNCHANGED <<agentVars, handlerVars, latest, stage, held, succeeded, failed, historyVars>>

Serving(c, a) == stage[c] = "cloning" /\ copied[c] = {} /\ held[c] = None /\ a \in todo[c]

\* Faulty: the first error ends the loop.
RefuseAndStop(c, a) ==
  /\ Serving(c, a)
  /\ a \notin registered \/ ~Able(a, Kind(c))
  /\ todo' = [todo EXCEPT ![c] = {}]
  /\ failed' = [failed EXCEPT ![c] = @ \cup {a}]
  /\ UNCHANGED <<agentVars, handlerVars, latest, stage, copied, held, succeeded, historyVars>>

(* the agent is gone, or it has not the capability *)
Refuse(c, a) ==
  /\ Serving(c, a)
  /\ a \notin registered \/ ~Able(a, Kind(c))
  /\ todo' = [todo EXCEPT ![c] = @ \ {a}]
  /\ failed' = [failed EXCEPT ![c] = @ \cup {a}]
  /\ UNCHANGED <<agentVars, handlerVars, latest, stage, copied, held, succeeded, historyVars>>

(* SendRestartCommand: whether the connection still takes it, nobody looks *)
RestartAgent(c, a) ==
  /\ c \in Restarts
  /\ Serving(c, a)
  /\ a \in registered /\ Able(a, "restart")
  /\ todo' = [todo EXCEPT ![c] = @ \ {a}]
  /\ succeeded' = [succeeded EXCEPT ![c] = @ \cup {a}]
  /\ UNCHANGED <<agentVars, handlerVars, latest, stage, copied, held, failed, historyVars>>

(* SendConfigToAgent finds the object that the agent has by now, of any    *)
(* group, and goes on with it.                                             *)
FindAgent(c, a) ==
  /\ c \in Pushes
  /\ Serving(c, a)
  /\ a \in registered /\ Able(a, "push")
  /\ todo' = [todo EXCEPT ![c] = @ \ {a}]
  /\ held' = [held EXCEPT ![c] = <<a, made[a]>>]
  /\ stage' = [stage EXCEPT ![c] = "found"]
  /\ UNCHANGED <<agentVars, handlerVars, latest, copied, succeeded, failed, historyVars>>

(* SetCustomConfig: a configuration that the object has already needs no   *)
(* confirmation.                                                           *)
SetCustomConfig(c) ==
  /\ stage[c] = "found"
  /\ LET a == held[c][1]
         n == held[c][2]
     IN /\ stage' = [stage EXCEPT ![c] =
                       IF object[a][n].custom = c THEN "confirmed" ELSE "waiting"]
        /\ object' = [object EXCEPT ![a][n].custom = c]
        /\ given' = IF n = made[a] THEN [given EXCEPT ![a] = @ \cup {c}] ELSE given
  /\ UNCHANGED <<made, registered, handlerVars, latest, copied, todo, held, succeeded,
                 failed, informed, steady, seen>>

Answered(c) ==
  /\ held' = [held EXCEPT ![c] = None]
  /\ stage' = [stage EXCEPT ![c] = "cloning"]
  /\ UNCHANGED <<agentVars, handlerVars, latest, copied, todo, historyVars>>

Confirmed(c) ==
  /\ stage[c] = "confirmed"
  /\ succeeded' = [succeeded EXCEPT ![c] = @ \cup {held[c][1]}]
  /\ Answered(c)
  /\ UNCHANGED failed

(* after 30 seconds, when a confirmation may have come as well *)
TimesOut(c) ==
  /\ stage[c] \in {"waiting", "confirmed"}
  /\ failed' = [failed EXCEPT ![c] = @ \cup {held[c][1]}]
  /\ Answered(c)
  /\ UNCHANGED succeeded

Return(c) ==
  /\ stage[c] = "cloning"
  /\ copied[c] = {} /\ todo[c] = {}
  /\ stage' = [stage EXCEPT ![c] = "returned"]
  /\ UNCHANGED <<agentVars, handlerVars, latest, copied, todo, held, succeeded, failed,
                 historyVars>>

-----------------------------------------------------------------------------
AgentStep(a) ==
  \/ \E g \in Descriptions[a] : OnMessage(a, g)
  \/ ProcessAgentGrouping(a)
  \/ GetConfigForAgent(a)
  \/ SetInitialConfig(a)
  \/ UpdateStatus(a)
  \/ OnDisconnect(a)

CallStep(c) ==
  \/ StoreRow(c) \/ BeginRestart(c)
  \/ CopyMap(c)
  \/ \E o \in copied[c] : CloneReadonly(c, o)
  \/ \E a \in todo[c] : Refuse(c, a) \/ RestartAgent(c, a) \/ FindAgent(c, a)
  \/ SetCustomConfig(c) \/ Confirmed(c) \/ TimesOut(c) \/ Return(c)

GroupNext == (\E a \in Agents : AgentStep(a)) \/ (\E c \in Calls : CallStep(c))

GroupSpec == GroupInit /\ [][GroupNext]_groupVars

-----------------------------------------------------------------------------
(* Properties.                                                             *)

(* The variables have their types; a message under way has a registered    *)
(* object, and a call holds an object from FindAgent to the answer.        *)
GroupTypeOK ==
  /\ made \in [Agents -> Nat] /\ \A a \in Agents : made[a] <= MaxObjects[a]
  /\ registered \subseteq {a \in Agents : made[a] > 0}
  /\ \A a \in Agents : object[a] \in [1..MaxObjects[a] -> Object]
  /\ pc \in [Agents -> {"idle", "grouping", "reading", "setting", "updating"}]
  /\ \A a \in Agents : pc[a] # "idle" => a \in registered
  /\ named \in [Agents -> GroupIDs \cup {None}]
  /\ chosen \in [Agents -> Configs \cup {None}]
  /\ \A a \in Agents : pc[a] = "setting" => chosen[a] # None
  /\ latest \in [Groups -> Pushes \cup {None}]
  /\ stage \in [Calls -> {"new", "begun", "cloning", "found", "waiting", "confirmed", "returned"}]
  /\ copied \in [Calls -> SUBSET Objects]
  /\ todo \in [Calls -> SUBSET Agents]
  /\ held \in [Calls -> Objects \cup {None}]
  /\ \A c \in Calls : held[c] # None <=> stage[c] \in {"found", "waiting", "confirmed"}
  /\ succeeded \in [Calls -> SUBSET Agents] /\ failed \in [Calls -> SUBSET Agents]
  /\ given \in [Agents -> SUBSET Pushes] /\ informed \subseteq Agents
  /\ steady \in [Calls -> SUBSET Agents] /\ seen \in [Calls -> SUBSET Agents]

(***************************************************************************)
(* An agent that joins a group around a push does not fall between the     *)
(* two: once the push whose row is the group's latest has returned, every  *)
(* member that joined with its capability known was given the              *)
(* configuration since it joined, by the push or from the store, or the    *)
(* push lists an error for it.                                             *)
(***************************************************************************)
JoinersMissNothing ==
  \A g \in Groups : \A a \in Members(g) :
    LET c == latest[g]
    IN  c # None /\ stage[c] = "returned" /\ a \in informed /\ pc[a] \in {"idle", "updating"}
        => c \in given[a] \/ a \in failed[c]

(***************************************************************************)
(* The answer of a call accounts for the group although agents come, go    *)
(* and move while it works: it names each agent at most once, all that     *)
(* were members throughout the call, and only such as were members at some *)
(* time of it.                                                             *)
(***************************************************************************)
AnswerAccountsForMembers ==
  \A c \in Calls :
    /\ succeeded[c] \cap failed[c] = {}
    /\ succeeded[c] \cup failed[c] \subseteq seen[c]
    /\ stage[c] = "returned" => steady[c] \subseteq succeeded[c] \cup failed[c]
=============================================================================
