---------------------------- MODULE AgentSessions ----------------------------
(***************************************************************************)
(* The OpAMP server's registry of connected agents and what it records of  *)
(* them in the application store: src/internal/opamp/agents.go and the     *)
(* callbacks onMessage, persistAgent and onDisconnect of server.go.        *)
(*                                                                         *)
(* The library serves every connection by a goroutine of its own: it calls *)
(* onMessage for one message after another and onDisconnect once at the    *)
(* end.  Callbacks of different connections interleave between their       *)
(* critical sections and their calls of the store.  An Agent object is     *)
(* named by the agent and the connection it was created for, because a     *)
(* connection creates at most one object per agent.                        *)
(*                                                                         *)
(* A message is abstracted to the agent that sent it, whether it carries a *)
(* description and the status that determineAgentStatus reads from it; a   *)
(* description to its group attributes.  The store is the SQLite one: a    *)
(* call of it may fail (at most MaxFailures times), and a crash (at most   *)
(* MaxCrashes times) loses the registry and keeps the store.               *)
(***************************************************************************)
EXTENDS Naturals, Sequences

CONSTANTS
  Agents,        (* the instance ids                                          *)
  Conns,         (* the connections that are ever made                        *)
  Carries,       (* Carries[c]: the agents that send over connection c        *)
  GroupName,     (* GroupName[a]: group.name in a's description, or NoName    *)
  GroupAttr,     (* GroupAttr[a]: group.id in a's description; 0 stands for ""*)
  NoName,        (* the empty name                                            *)
  None,          (* nil                                                       *)
  Overlaps,      (* may an agent speak on a new connection before the server
                    has seen the end of the old one?                          *)
  MaxFailures,   (* bound on the calls of the store that fail                 *)
  MaxCrashes     (* bound on the crashes of the server                        *)

ASSUME SessionAssumption ==
  /\ Carries \in [Conns -> SUBSET Agents]
  /\ GroupAttr \in [Agents -> Nat]
  /\ None \notin Conns \cup Agents \cup Nat \cup {"online", "error"}
  /\ Overlaps \in BOOLEAN
  /\ MaxFailures \in Nat
  /\ MaxCrashes \in Nat

VARIABLES
  agentsById,   (* the connection of the registered object of a, or None      *)
  connections,  (* connections[c]: the agents associated with c               *)
  groupID,      (* groupID[a, c]: field GroupID of the object of a made for c *)
  pc,           (* pc[c]: the statement c's goroutine has reached             *)
  msg,          (* msg[c]: the message being handled, with its agent's object *)
  marking,      (* marking[c]: the agents onDisconnect has still to mark      *)
  status,       (* status[a]: the status column of a's row, or "absent"       *)
  storedGroup,  (* storedGroup[a]: the group_id column of a's row             *)
  groups,       (* groups[k]: name of the group whose id is k                 *)
  heard,        (* history: the agents that have spoken on c                  *)
  told,         (* history: the status in the last message of a               *)
  failures, crashes

registryVars == <<agentsById, connections>>
storeVars == <<status, storedGroup, groups>>
threadVars == <<pc, msg, marking>>
sessionVars == <<registryVars, groupID, storeVars, threadVars, heard, told,
                 failures, crashes>>

\* what persistAgent reads off a message; names, labels and versions are left out
Reported == {"online", "error"}
InHandler == {"grouping", "looking", "naming", "founding", "creating", "updating"}

Names == {GroupName[a] : a \in Agents}
GroupIDs == Nat \cup {None}
Objects == Agents \X Conns
Messages == [agent : Agents, object : Conns, status : Reported]

SessionTypeOK ==
  /\ agentsById \in [Agents -> Conns \cup {None}]
  /\ connections \in [Conns -> SUBSET Agents]
  /\ groupID \in [Objects -> GroupIDs]
  /\ pc \in [Conns -> InHandler \cup {"idle", "leaving", "closed"}]
  /\ msg \in [Conns -> Messages \cup {None}]
  /\ marking \in [Conns -> SUBSET Agents]
  /\ status \in [Agents -> Reported \cup {"offline", "absent"}]
  /\ storedGroup \in [Agents -> GroupIDs]
  /\ groups \in Seq(Names)
  /\ heard \in [Conns -> SUBSET Agents]
  /\ told \in [Agents -> Reported \cup {None}]
  /\ failures \in Nat
  /\ crashes \in Nat
  /\ \A c \in Conns : pc[c] \in InHandler => msg[c] \in Messages

SessionInit ==
  /\ agentsById = [a \in Agents |-> None]
  /\ connections = [c \in Conns |-> {}]
  /\ groupID = [o \in Objects |-> None]
  /\ pc = [c \in Conns |-> "idle"]
  /\ msg = [c \in Conns |-> None]
  /\ marking = [c \in Conns |-> {}]
  /\ status = [a \in Agents |-> "absent"]
  /\ storedGroup = [a \in Agents |-> None]
  /\ groups = <<>>
  /\ heard = [c \in Conns |-> {}]
  /\ told = [a \in Agents |-> None]
  /\ failures = 0
  /\ crashes = 0

-----------------------------------------------------------------------------
(* Helpers *)

Agent(c) == msg[c].agent
Object(c) == <<msg[c].agent, msg[c].object>>

Goto(c, label) == pc' = [pc EXCEPT ![c] = label]

Return(c) ==
  /\ Goto(c, "idle")
  /\ msg' = [msg EXCEPT ![c] = None]

StoreWorks == failures' = failures
StoreFails == failures < MaxFailures /\ failures' = failures + 1

\* INSERT INTO agents: fails when the row exists.
InsertAgent(a, s, g) ==
  \/ /\ status[a] = "absent"
     /\ status' = [status EXCEPT ![a] = s]
     /\ storedGroup' = [storedGroup EXCEPT ![a] = g]
  \/ status[a] # "absent" /\ UNCHANGED <<status, storedGroup>>

\* UPDATE agents SET status: changes nothing when there is no row.
SetStatus(a, s) ==
  status' = [status EXCEPT ![a] = IF @ = "absent" THEN "absent" ELSE s]

Speaking(a) == {c \in Conns : a \in heard[c] /\ pc[c] # "closed"}

-----------------------------------------------------------------------------
(* onMessage *)

\* Faulty: every connection an agent speaks on is associated with the agent.
FindOrCreateAgentAlways(a, c) ==
  LET object == IF agentsById[a] = None THEN c ELSE agentsById[a]
  IN /\ agentsById' = [agentsById EXCEPT ![a] = object]
     /\ connections' = [connections EXCEPT ![c] = @ \cup {a}]
     /\ \E s \in Reported :
          /\ msg' = [msg EXCEPT ![c] = [agent |-> a, object |-> object, status |-> s]]
          /\ told' = [told EXCEPT ![a] = s]

\* Faulty: a new object is not associated with its connection.
FindOrCreateAgentUnlinked(a, c) ==
  LET object == IF agentsById[a] = None THEN c ELSE agentsById[a]
  IN /\ agentsById' = [agentsById EXCEPT ![a] = object]
     /\ connections' = connections
     /\ \E s \in Reported :
          /\ msg' = [msg EXCEPT ![c] = [agent |-> a, object |-> object, status |-> s]]
          /\ told' = [told EXCEPT ![a] = s]

\* FindOrCreateAgent, under the registry's mutex.  An agent that is registered
\* keeps its object, whichever connection the object was made for.
FindOrCreateAgent(a, c) ==
  LET object == IF agentsById[a] = None THEN c ELSE agentsById[a]
  IN /\ agentsById' = [agentsById EXCEPT ![a] = object]
     /\ connections' = IF agentsById[a] = None
                       THEN [connections EXCEPT ![c] = @ \cup {a}]
                       ELSE connections
     /\ \E s \in Reported :
          /\ msg' = [msg EXCEPT ![c] = [agent |-> a, object |-> object, status |-> s]]
          /\ told' = [told EXCEPT ![a] = s]

\* A message arrives; with or without a description.
OnMessage(c, a) ==
  /\ pc[c] = "idle"
  /\ a \in Carries[c]
  /\ Overlaps \/ Speaking(a) \subseteq {c}
  /\ FindOrCreateAgent(a, c)
  /\ Goto(c, "grouping") \/ Goto(c, "looking")
  /\ heard' = [heard EXCEPT ![c] = @ \cup {a}]
  /\ UNCHANGED <<groupID, marking, storeVars, failures, crashes>>

\* processAgentGrouping: what the description says replaces what was known.
\* (The configuration it calculates next is not the registry's concern.)
ProcessAgentGrouping(c) ==
  /\ pc[c] = "grouping"
  /\ groupID' = [groupID EXCEPT ![Object(c)] = GroupAttr[Agent(c)]]
  /\ Goto(c, "looking")
  /\ UNCHANGED <<registryVars, storeVars, msg, marking, heard, told, failures, crashes>>

-----------------------------------------------------------------------------
(* persistAgent *)

\* An object that has never been described has neither GroupID nor GroupName.
HasGroupName(c) == groupID[Object(c)] # None /\ GroupName[Agent(c)] # NoName

\* Faulty: the message is let go of before the row is written.
GetAgentUnset(c) ==
  /\ pc[c] = "looking"
  /\ StoreWorks
  /\ msg' = [msg EXCEPT ![c] = None]
  /\ Goto(c, IF status[Agent(c)] = "absent" THEN "creating" ELSE "updating")
  /\ UNCHANGED <<registryVars, groupID, storeVars, marking, heard, told, crashes>>

\* Faulty: an agent that another connection registered is taken to have a row.
GetAgentKnown(c) ==
  /\ pc[c] = "looking"
  /\ \/ /\ StoreWorks
        /\ status[Agent(c)] # "absent" \/ msg[c].object # c
        /\ Goto(c, "updating")
     \/ /\ msg[c].object = c
        /\ StoreFails \/ (StoreWorks /\ status[Agent(c)] = "absent")
        /\ Goto(c, IF HasGroupName(c) THEN "naming" ELSE "creating")
  /\ UNCHANGED <<registryVars, groupID, storeVars, msg, marking, heard, told, crashes>>

\* GetAgent; an error is logged and taken for "does not exist".
GetAgent(c) ==
  /\ pc[c] = "looking"
  /\ \/ StoreWorks /\ status[Agent(c)] # "absent" /\ Goto(c, "updating")
     \/ /\ StoreFails \/ (StoreWorks /\ status[Agent(c)] = "absent")
        /\ Goto(c, IF HasGroupName(c) THEN "naming" ELSE "creating")
  /\ UNCHANGED <<registryVars, groupID, storeVars, msg, marking, heard, told, crashes>>

\* GetGroupByName, which searches the list of all groups.
GetGroupByName(c) ==
  /\ pc[c] = "naming"
  /\ \/ \E k \in 1..Len(groups) :
          /\ StoreWorks
          /\ groups[k] = GroupName[Agent(c)]
          /\ groupID' = [groupID EXCEPT ![Object(c)] = k]
          /\ Goto(c, "creating")
     \/ /\ \/ StoreFails
           \/ StoreWorks /\ \A k \in 1..Len(groups) : groups[k] # GroupName[Agent(c)]
        /\ groupID' = groupID
        /\ Goto(c, "founding")
  /\ UNCHANGED <<registryVars, storeVars, msg, marking, heard, told, crashes>>

CreateGroup(c) ==
  /\ pc[c] = "founding"
  /\ \/ /\ StoreWorks
        /\ groups' = Append(groups, GroupName[Agent(c)])
        /\ groupID' = [groupID EXCEPT ![Object(c)] = Len(groups) + 1]
     \/ StoreFails /\ UNCHANGED <<groups, groupID>>
  /\ Goto(c, "creating")
  /\ UNCHANGED <<registryVars, status, storedGroup, msg, marking, heard, told, crashes>>

\* Faulty: a new row starts as offline.
CreateAgentOffline(c) ==
  /\ pc[c] = "creating"
  /\ StoreWorks
  /\ status' = [status EXCEPT ![Agent(c)] = "offline"]
  /\ storedGroup' = [storedGroup EXCEPT ![Agent(c)] = groupID[Object(c)]]
  /\ Return(c)
  /\ UNCHANGED <<registryVars, groupID, groups, marking, heard, told, crashes>>

\* CreateAgent of the service; an error is logged.
CreateAgent(c) ==
  /\ pc[c] = "creating"
  /\ \/ StoreWorks /\ InsertAgent(Agent(c), msg[c].status, groupID[Object(c)])
     \/ StoreFails /\ UNCHANGED <<status, storedGroup>>
  /\ Return(c)
  /\ UNCHANGED <<registryVars, groupID, groups, marking, heard, told, crashes>>

\* UpdateAgentStatus; last_seen and effective_config follow.
UpdateAgent(c) ==
  /\ pc[c] = "updating"
  /\ \/ StoreWorks /\ SetStatus(Agent(c), msg[c].status)
     \/ StoreFails /\ status' = status
  /\ Return(c)
  /\ UNCHANGED <<registryVars, groupID, storedGroup, groups, marking, heard, told,
                 crashes>>

-----------------------------------------------------------------------------
(* onDisconnect *)

OnDisconnect(c) ==
  /\ pc[c] = "idle"
  /\ marking' = [marking EXCEPT ![c] = connections[c]]
  /\ Goto(c, "leaving")
  /\ UNCHANGED <<registryVars, groupID, storeVars, msg, heard, told, failures, crashes>>

\* Faulty: the first failure or the first agent ends the loop.
MarkOneOffline(c, a) ==
  /\ pc[c] = "leaving"
  /\ a \in marking[c]
  /\ marking' = [marking EXCEPT ![c] = {}]
  /\ StoreWorks
  /\ SetStatus(a, "offline")
  /\ UNCHANGED <<registryVars, groupID, storedGroup, groups, pc, msg, heard, told, crashes>>

\* One turn of the loop, in any order of the map; an error is logged.
MarkOffline(c, a) ==
  /\ pc[c] = "leaving"
  /\ a \in marking[c]
  /\ marking' = [marking EXCEPT ![c] = @ \ {a}]
  /\ \/ StoreWorks /\ SetStatus(a, "offline")
     \/ StoreFails /\ status' = status
  /\ UNCHANGED <<registryVars, groupID, storedGroup, groups, pc, msg, heard, told, crashes>>

\* RemoveConnection, under the registry's mutex.
RemoveConnection(c) ==
  /\ pc[c] = "leaving"
  /\ marking[c] = {}
  /\ connections' = [connections EXCEPT ![c] = {}]
  /\ agentsById' = [a \in Agents |-> IF a \in connections[c] THEN None ELSE agentsById[a]]
  /\ Goto(c, "closed")
  /\ UNCHANGED <<groupID, storeVars, msg, marking, heard, told, failures, crashes>>

-----------------------------------------------------------------------------
(* The server crashes or is stopped, and starts again with an empty registry; *)
(* the connections that were in use are gone without an onDisconnect.         *)
Crash ==
  /\ crashes < MaxCrashes
  /\ crashes' = crashes + 1
  /\ agentsById' = [a \in Agents |-> None]
  /\ connections' = [c \in Conns |-> {}]
  /\ pc' = [c \in Conns |-> IF heard[c] = {} /\ pc[c] = "idle" THEN "idle" ELSE "closed"]
  /\ marking' = [c \in Conns |-> {}]
  /\ msg' = [c \in Conns |-> None]
  /\ groupID' = [o \in Objects |-> None]
  /\ UNCHANGED <<storeVars, heard, told, failures>>

-----------------------------------------------------------------------------
Handle(c) ==
  \/ ProcessAgentGrouping(c)
  \/ GetAgent(c)
  \/ GetGroupByName(c)
  \/ CreateGroup(c)
  \/ CreateAgent(c)
  \/ UpdateAgent(c)

Leave(c) == (\E a \in Agents : MarkOffline(c, a)) \/ RemoveConnection(c)

SessionNext ==
  \/ \E c \in Conns :
       \/ \E a \in Agents : OnMessage(c, a)
       \/ Handle(c)
       \/ OnDisconnect(c)
       \/ Leave(c)
  \/ Crash

SessionSpec == SessionInit /\ [][SessionNext]_sessionVars

\* A callback that was called runs to its end; messages need not come.
FairSessionSpec ==
  SessionSpec /\ \A c \in Conns : WF_sessionVars(Handle(c) \/ Leave(c))

-----------------------------------------------------------------------------
(* Properties of every instance *)

(***************************************************************************)
(* The two maps of the registry agree, each being read without the other:  *)
(* an agent is associated with a connection exactly when its registered    *)
(* object was made for it.  So RemoveConnection never removes an agent     *)
(* that another connection registered, and leaves none behind              *)
(* (FindOrCreateAgent and RemoveConnection, in any interleaving).          *)
(***************************************************************************)
RegistryConsistent ==
  \A a \in Agents, c \in Conns : a \in connections[c] <=> agentsById[a] = c

(***************************************************************************)
(* A connection that has ended is forgotten: no later message or command   *)
(* resolves to an object whose connection is closed, so nothing is sent    *)
(* into it for ever and the maps do not grow (onDisconnect).               *)
(***************************************************************************)
ClosedIsForgotten ==
  \A c \in Conns : pc[c] = "closed" =>
    connections[c] = {} /\ \A a \in Agents : agentsById[a] # c

(***************************************************************************)
(* While the store works, an agent has a row once a callback about it has  *)
(* returned: whichever of two overlapping callbacks inserts it, the other, *)
(* which found none either or updates what is not there yet, leaves no     *)
(* agent unrecorded (the lookup, insert and update of persistAgent are     *)
(* separate calls).                                                        *)
(***************************************************************************)
Recorded(a) == status[a] # "absent"

HeardIsStored ==
  failures = 0 => \A c \in Conns : pc[c] \in {"idle", "leaving"} => \A a \in heard[c] : Recorded(a)

\* Why: a callback has a row to update, and inserts when it found none.
UpdatersFindRows ==
  failures = 0 => \A c \in Conns : pc[c] \in InHandler =>
    /\ pc[c] = "updating" => Recorded(Agent(c))
    /\ \A a \in heard[c] : a = Agent(c) \/ Recorded(a)

-----------------------------------------------------------------------------
(* Properties of the instances without overlaps, failures and crashes *)

(***************************************************************************)
(* Between two messages of its connection an agent is registered with that *)
(* connection, so what the API sends to the agent reaches it.              *)
(***************************************************************************)
SpeakerIsReachable ==
  \A c \in Conns : pc[c] = "idle" => \A a \in heard[c] : agentsById[a] = c

(***************************************************************************)
(* Between two messages of its connection the store shows for an agent     *)
(* what its last message said: no earlier callback, of this or of a former *)
(* connection, overwrites it (persistAgent against onDisconnect).          *)
(***************************************************************************)
StatusIsTheLastReport ==
  \A c \in Conns : pc[c] = "idle" => \A a \in heard[c] : status[a] = told[a]

(***************************************************************************)
(* An agent the server does not know any more is not shown as connected:   *)
(* its row is marked before the registry forgets it.                       *)
(***************************************************************************)
UnregisteredIsOffline ==
  \A a \in Agents : agentsById[a] = None => status[a] \in {"absent", "offline"}

(***************************************************************************)
(* What is shown of an agent follows its presence as AgentPresence says:   *)
(* the callbacks of all connections together implement that specification. *)
(***************************************************************************)
Presence(a) ==
  IF agentsById[a] = None THEN "away"
  ELSE IF pc[agentsById[a]] = "leaving" THEN "leaving"
  ELSE "here"

Shown == INSTANCE AgentPresence WITH
  presence <- [a \in Agents |-> Presence(a)],
  shown <- status

KeepsPresence == Shown!Spec
KeepsPresenceSafely == Shown!SafeSpec

(***************************************************************************)
(* Why these hold: the invariant that is inductive on its own.  An agent   *)
(* is registered exactly for the connection it speaks on, a callback at    *)
(* work handles the last message of its agent and has not been overtaken   *)
(* in the store, and onDisconnect has marked all but the agents it still   *)
(* has to mark.                                                            *)
(***************************************************************************)
OneConnectionEach ==
  /\ \A a \in Agents, c \in Conns :
       agentsById[a] = c <=> a \in heard[c] /\ pc[c] # "closed"
  /\ \A c \in Conns : pc[c] \in InHandler => Agent(c) \in heard[c]

HandlerIsCurrent ==
  \A c \in Conns : pc[c] \in InHandler =>
    /\ told[Agent(c)] = msg[c].status
    /\ pc[c] = "updating" => status[Agent(c)] # "absent"
    /\ pc[c] \in {"naming", "founding", "creating"} => status[Agent(c)] = "absent"

OthersAreShown ==
  \A c \in Conns : pc[c] \in InHandler \cup {"idle"} =>
    \A a \in heard[c] :
      pc[c] = "idle" \/ a # Agent(c) => status[a] = told[a] /\ told[a] # None

LeaversAreMarked ==
  \A c \in Conns : pc[c] = "leaving" =>
    /\ marking[c] \subseteq connections[c]
    /\ \A a \in heard[c] : status[a] # "absent"
    /\ \A a \in heard[c] \ marking[c] : status[a] = "offline"

PresenceInv ==
  /\ SessionTypeOK
  /\ RegistryConsistent
  /\ OneConnectionEach
  /\ HandlerIsCurrent
  /\ OthersAreShown
  /\ LeaversAreMarked
  /\ UnregisteredIsOffline

-----------------------------------------------------------------------------
(* What comments of the code say, and what it does not do *)

(***************************************************************************)
(* server.go, onDisconnect: "Mark all agents on this connection as offline *)
(* in storage"; here only for agents that speak on no other connection.    *)
(***************************************************************************)
ClosedMeansOffline ==
  \A c \in Conns : pc[c] = "closed" =>
    \A a \in heard[c] : Speaking(a) = {} => status[a] = "offline"
=============================================================================
