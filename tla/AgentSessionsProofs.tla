------------------------- MODULE AgentSessionsProofs -------------------------
(***************************************************************************)
(* Proofs about AgentSessions, for any number of agents and connections.   *)
(*                                                                         *)
(* The first part makes no assumption on the environment: agents may speak *)
(* on two connections at once, the store may fail, the server may crash.   *)
(* The second assumes that none of the three happens (Orderly) and shows   *)
(* that the recorded presence follows the connections.                     *)
(***************************************************************************)
EXTENDS AgentSessions, TLAPS

(***************************************************************************)
(* Every variable of the server and its store keeps its type.              *)
(***************************************************************************)
LEMMA TypeInit == SessionInit => SessionTypeOK
<1> SUFFICES ASSUME SessionInit
             PROVE  SessionTypeOK
  OBVIOUS
<1>1. None \in GroupIDs
  BY DEF GroupIDs
<1> QED
  BY <1>1 DEF SessionInit, SessionTypeOK, InHandler, Reported

\* The message a callback handles, as the type invariant knows it.
LEMMA MessageType ==
  ASSUME SessionTypeOK, NEW c \in Conns, pc[c] \in InHandler
  PROVE  /\ msg[c] \in Messages
         /\ Agent(c) \in Agents
         /\ Object(c) \in Objects
         /\ msg[c].object \in Conns
         /\ msg[c].status \in Reported
<1>1. msg[c] \in Messages
  BY DEF SessionTypeOK
<1>2. /\ msg[c].agent \in Agents
      /\ msg[c].object \in Conns
      /\ msg[c].status \in Reported
  BY <1>1 DEF Messages
<1> QED
  BY <1>1, <1>2 DEF Agent, Object, Objects

LEMMA FailuresType ==
  ASSUME SessionTypeOK, StoreWorks \/ StoreFails
  PROVE  failures' \in Nat
BY DEF SessionTypeOK, StoreWorks, StoreFails

LEMMA TypeStep == SessionTypeOK /\ [SessionNext]_sessionVars => SessionTypeOK'
<1> SUFFICES ASSUME SessionTypeOK, [SessionNext]_sessionVars
             PROVE  SessionTypeOK'
  OBVIOUS
<1>1. ASSUME NEW c \in Conns, NEW a \in Agents, OnMessage(c, a)
      PROVE  SessionTypeOK'
  <2> DEFINE object == IF agentsById[a] = None THEN c ELSE agentsById[a]
  <2>1. object \in Conns
    BY DEF SessionTypeOK
  <2>2. PICK s \in Reported :
          /\ msg' = [msg EXCEPT ![c] = [agent |-> a, object |-> object, status |-> s]]
          /\ told' = [told EXCEPT ![a] = s]
    BY <1>1 DEF OnMessage, FindOrCreateAgent
  <2>3. [agent |-> a, object |-> object, status |-> s] \in Messages
    BY <2>1 DEF Messages
  <2> HIDE DEF object
  <2>4. /\ msg' \in [Conns -> Messages \cup {None}]
        /\ told' \in [Agents -> Reported \cup {None}]
        /\ msg'[c] \in Messages
        /\ \A d \in Conns \ {c} : msg'[d] = msg[d]
    BY <2>2, <2>3 DEF SessionTypeOK
  <2>5. /\ agentsById' \in [Agents -> Conns \cup {None}]
        /\ connections' \in [Conns -> SUBSET Agents]
    BY <1>1, <2>1 DEF OnMessage, FindOrCreateAgent, SessionTypeOK, object
  <2>6. /\ pc' \in [Conns -> InHandler \cup {"idle", "leaving", "closed"}]
        /\ \A d \in Conns \ {c} : pc'[d] = pc[d]
    BY <1>1 DEF OnMessage, Goto, SessionTypeOK, InHandler
  <2>7. heard' \in [Conns -> SUBSET Agents]
    BY <1>1 DEF OnMessage, SessionTypeOK
  <2> QED
    BY <1>1, <2>4, <2>5, <2>6, <2>7 DEF OnMessage, SessionTypeOK, storeVars
<1>2. ASSUME NEW c \in Conns, ProcessAgentGrouping(c)
      PROVE  SessionTypeOK'
  <2>1. Object(c) \in Objects /\ Agent(c) \in Agents
    BY <1>2, MessageType DEF ProcessAgentGrouping, InHandler
  <2>2. GroupAttr[Agent(c)] \in GroupIDs
    BY <2>1, SessionAssumption DEF GroupIDs
  <2>3. groupID' \in [Objects -> GroupIDs]
    BY <1>2, <2>1, <2>2 DEF ProcessAgentGrouping, SessionTypeOK
  <2> QED
    BY <1>2, <2>3 DEF ProcessAgentGrouping, Goto, SessionTypeOK, InHandler, registryVars,
                      storeVars
<1>3. ASSUME NEW c \in Conns, GetAgent(c)
      PROVE  SessionTypeOK'
  <2>1. failures' \in Nat
    BY <1>3, FailuresType DEF GetAgent
  <2>2. \E label \in InHandler : Goto(c, label)
    BY <1>3 DEF GetAgent, InHandler
  <2> QED
    BY <1>3, <2>1, <2>2 DEF GetAgent, Goto, SessionTypeOK, InHandler, registryVars,
                            storeVars
<1>4. ASSUME NEW c \in Conns, GetGroupByName(c)
      PROVE  SessionTypeOK'
  <2>1. Object(c) \in Objects
    BY <1>4, MessageType DEF GetGroupByName, InHandler
  <2>2. failures' \in Nat
    BY <1>4, FailuresType DEF GetGroupByName
  <2>3. \/ groupID' = groupID
        \/ \E k \in Nat : groupID' = [groupID EXCEPT ![Object(c)] = k]
    BY <1>4 DEF GetGroupByName, SessionTypeOK
  <2>4. groupID' \in [Objects -> GroupIDs]
    BY <2>1, <2>3 DEF SessionTypeOK, GroupIDs
  <2>5. \E label \in InHandler : Goto(c, label)
    BY <1>4 DEF GetGroupByName, InHandler
  <2> QED
    BY <1>4, <2>2, <2>4, <2>5 DEF GetGroupByName, Goto, SessionTypeOK, InHandler,
                                  registryVars, storeVars
<1>5. ASSUME NEW c \in Conns, CreateGroup(c)
      PROVE  SessionTypeOK'
  <2>1. Object(c) \in Objects /\ GroupName[Agent(c)] \in Names
    BY <1>5, MessageType DEF CreateGroup, InHandler, Names
  <2>2. failures' \in Nat
    BY <1>5, FailuresType DEF CreateGroup
  <2>3. groups \in Seq(Names) /\ Len(groups) + 1 \in GroupIDs
    BY DEF SessionTypeOK, GroupIDs
  <2>4. groupID' \in [Objects -> GroupIDs]
    BY <1>5, <2>1, <2>3 DEF CreateGroup, SessionTypeOK
  <2>5. groups' \in Seq(Names)
    BY <1>5, <2>1, <2>3 DEF CreateGroup
  <2> QED
    BY <1>5, <2>2, <2>4, <2>5 DEF CreateGroup, Goto, SessionTypeOK, InHandler,
                                  registryVars
<1>6. ASSUME NEW c \in Conns, CreateAgent(c)
      PROVE  SessionTypeOK'
  <2>1. Object(c) \in Objects /\ Agent(c) \in Agents /\ msg[c].status \in Reported
    BY <1>6, MessageType DEF CreateAgent, InHandler
  <2>2. failures' \in Nat
    BY <1>6, FailuresType DEF CreateAgent
  <2>3. status' \in [Agents -> Reported \cup {"offline", "absent"}]
    BY <1>6, <2>1 DEF CreateAgent, InsertAgent, SessionTypeOK
  <2>4. storedGroup' \in [Agents -> GroupIDs]
    BY <1>6, <2>1 DEF CreateAgent, InsertAgent, SessionTypeOK
  <2> QED
    BY <1>6, <2>2, <2>3, <2>4 DEF CreateAgent, Return, Goto, SessionTypeOK, InHandler,
                                  registryVars
<1>7. ASSUME NEW c \in Conns, UpdateAgent(c)
      PROVE  SessionTypeOK'
  <2>1. Agent(c) \in Agents /\ msg[c].status \in Reported
    BY <1>7, MessageType DEF UpdateAgent, InHandler
  <2>2. failures' \in Nat
    BY <1>7, FailuresType DEF UpdateAgent
  <2>3. status' \in [Agents -> Reported \cup {"offline", "absent"}]
    BY <1>7, <2>1 DEF UpdateAgent, SetStatus, SessionTypeOK
  <2> QED
    BY <1>7, <2>2, <2>3 DEF UpdateAgent, Return, Goto, SessionTypeOK, InHandler,
                            registryVars
<1>8. ASSUME NEW c \in Conns, OnDisconnect(c)
      PROVE  SessionTypeOK'
  BY <1>8 DEF OnDisconnect, Goto, SessionTypeOK, InHandler, registryVars, storeVars
<1>9. ASSUME NEW c \in Conns, NEW a \in Agents, MarkOffline(c, a)
      PROVE  SessionTypeOK'
  <2>1. failures' \in Nat
    BY <1>9, FailuresType DEF MarkOffline
  <2>2. /\ status' \in [Agents -> Reported \cup {"offline", "absent"}]
        /\ marking' \in [Conns -> SUBSET Agents]
    BY <1>9 DEF MarkOffline, SetStatus, SessionTypeOK
  <2> QED
    BY <1>9, <2>1, <2>2 DEF MarkOffline, SessionTypeOK, registryVars
<1>10. ASSUME NEW c \in Conns, RemoveConnection(c)
       PROVE  SessionTypeOK'
  BY <1>10 DEF RemoveConnection, Goto, SessionTypeOK, InHandler, storeVars
<1>11. ASSUME Crash
       PROVE  SessionTypeOK'
  <2>1. groupID' \in [Objects -> GroupIDs]
    BY <1>11 DEF Crash, GroupIDs
  <2> QED
    BY <1>11, <2>1 DEF Crash, SessionTypeOK, InHandler, storeVars
<1>12. ASSUME UNCHANGED sessionVars
       PROVE  SessionTypeOK'
  BY <1>12 DEF sessionVars, registryVars, storeVars, threadVars, SessionTypeOK
<1> QED
  BY <1>1, <1>2, <1>3, <1>4, <1>5, <1>6, <1>7, <1>8, <1>9, <1>10, <1>11, <1>12
  DEF SessionNext, Handle, Leave

THEOREM SessionTypeCorrect == SessionSpec => []SessionTypeOK
BY TypeInit, TypeStep, PTL DEF SessionSpec

-----------------------------------------------------------------------------
(***************************************************************************)
(* The registry: its two maps agree, and a connection that was closed is   *)
(* in neither.  Only FindOrCreateAgent, RemoveConnection and a crash touch *)
(* them, each as a whole; a closed connection receives nothing any more.   *)
(***************************************************************************)
RegistryInv == SessionTypeOK /\ RegistryConsistent /\ ClosedIsForgotten

LEMMA RegistryInit == SessionInit => RegistryInv
BY TypeInit, SessionAssumption
DEF SessionInit, RegistryInv, RegistryConsistent, ClosedIsForgotten

LEMMA RegistryStep == RegistryInv /\ [SessionNext]_sessionVars => RegistryInv'
<1> SUFFICES ASSUME RegistryInv, [SessionNext]_sessionVars
             PROVE  RegistryInv'
  OBVIOUS
<1> USE SessionAssumption
<1>0. SessionTypeOK /\ SessionTypeOK'
  BY TypeStep DEF RegistryInv
<1>1. ASSUME NEW c \in Conns, NEW a \in Agents, OnMessage(c, a)
      PROVE  RegistryInv'
  BY <1>0, <1>1 DEF OnMessage, FindOrCreateAgent, Goto, RegistryInv, RegistryConsistent,
                    ClosedIsForgotten, SessionTypeOK
<1>2. ASSUME NEW c \in Conns, Handle(c)
      PROVE  RegistryInv'
  <2>1. UNCHANGED registryVars
    BY <1>2 DEF Handle, ProcessAgentGrouping, GetAgent, GetGroupByName, CreateGroup,
                CreateAgent, UpdateAgent
  <2>2. \E label \in InHandler \cup {"idle"} : Goto(c, label)
    BY <1>2 DEF Handle, ProcessAgentGrouping, GetAgent, GetGroupByName, CreateGroup,
                CreateAgent, UpdateAgent, Return, InHandler
  <2>3. \A d \in Conns : pc'[d] = "closed" => pc[d] = "closed"
    BY <1>0, <2>2 DEF Goto, SessionTypeOK, InHandler
  <2> QED
    BY <1>0, <2>1, <2>3 DEF RegistryInv, RegistryConsistent, ClosedIsForgotten,
                            registryVars
<1>3. ASSUME NEW c \in Conns, OnDisconnect(c)
      PROVE  RegistryInv'
  BY <1>0, <1>3 DEF OnDisconnect, Goto, RegistryInv, RegistryConsistent,
                    ClosedIsForgotten, SessionTypeOK, registryVars
<1>4. ASSUME NEW c \in Conns, NEW a \in Agents, MarkOffline(c, a)
      PROVE  RegistryInv'
  BY <1>0, <1>4 DEF MarkOffline, RegistryInv, RegistryConsistent, ClosedIsForgotten,
                    registryVars
<1>5. ASSUME NEW c \in Conns, RemoveConnection(c)
      PROVE  RegistryInv'
  BY <1>0, <1>5 DEF RemoveConnection, Goto, RegistryInv, RegistryConsistent,
                    ClosedIsForgotten, SessionTypeOK
<1>6. ASSUME Crash
      PROVE  RegistryInv'
  BY <1>0, <1>6 DEF Crash, RegistryInv, RegistryConsistent, ClosedIsForgotten
<1>7. ASSUME UNCHANGED sessionVars
      PROVE  RegistryInv'
  BY <1>0, <1>7 DEF sessionVars, registryVars, threadVars, RegistryInv,
                    RegistryConsistent, ClosedIsForgotten
<1> QED
  BY <1>1, <1>2, <1>3, <1>4, <1>5, <1>6, <1>7 DEF SessionNext, Leave

THEOREM RegistryInvariant == SessionSpec => []RegistryInv
BY RegistryInit, RegistryStep, PTL DEF SessionSpec

\* The two maps of the registry agree at any time.
THEOREM RegistryAgrees == SessionSpec => []RegistryConsistent
<1>1. RegistryInv => RegistryConsistent
  BY DEF RegistryInv
<1> QED
  BY <1>1, RegistryInvariant, PTL

\* Nothing is ever sent to an object whose connection is closed.
THEOREM ClosedForgotten == SessionSpec => []ClosedIsForgotten
<1>1. RegistryInv => ClosedIsForgotten
  BY DEF RegistryInv
<1> QED
  BY <1>1, RegistryInvariant, PTL

-----------------------------------------------------------------------------
(***************************************************************************)
(* The rows: nothing deletes one, and each callback that inserts or        *)
(* updates leaves one, whatever others did since it looked.                *)
(***************************************************************************)
RowsInv == SessionTypeOK /\ HeardIsStored /\ UpdatersFindRows

LEMMA RowsInit == SessionInit => RowsInv
BY TypeInit DEF SessionInit, RowsInv, HeardIsStored, UpdatersFindRows, InHandler

\* The first failure is remembered.
LEMMA NoFailureBefore ==
  ASSUME SessionTypeOK, [SessionNext]_sessionVars, failures' = 0
  PROVE  failures = 0
<1>1. UNCHANGED failures \/ StoreWorks \/ StoreFails
  BY DEF SessionNext, Handle, Leave, OnMessage, ProcessAgentGrouping, GetAgent, GetGroupByName,
         CreateGroup, CreateAgent, UpdateAgent, OnDisconnect, MarkOffline, RemoveConnection,
         Crash, sessionVars
<1> QED
  BY <1>1 DEF StoreWorks, StoreFails, SessionTypeOK

LEMMA RowsStep == RowsInv /\ [SessionNext]_sessionVars => RowsInv'
<1> SUFFICES ASSUME RowsInv, [SessionNext]_sessionVars, failures' = 0
             PROVE  HeardIsStored' /\ UpdatersFindRows'
  BY TypeStep DEF RowsInv, HeardIsStored, UpdatersFindRows
<1>1. SessionTypeOK /\ SessionTypeOK' /\ failures = 0
  BY TypeStep, NoFailureBefore DEF RowsInv
<1>2. /\ \A d \in Conns : pc[d] \in {"idle", "leaving"} => \A a \in heard[d] : Recorded(a)
      /\ \A d \in Conns : pc[d] \in InHandler =>
           /\ pc[d] = "updating" => Recorded(Agent(d))
           /\ \A a \in heard[d] : a = Agent(d) \/ Recorded(a)
  BY <1>1 DEF RowsInv, HeardIsStored, UpdatersFindRows
<1> DEFINE Kept ==
             /\ \A d \in Conns : pc'[d] \in {"idle", "leaving"} => \A b \in heard'[d] : Recorded(b)'
             /\ \A d \in Conns : pc'[d] \in InHandler =>
                  /\ pc'[d] = "updating" => status'[msg'[d].agent] # "absent"
                  /\ \A b \in heard'[d] : b = msg'[d].agent \/ Recorded(b)'
<1>3. SUFFICES Kept
  BY DEF HeardIsStored, UpdatersFindRows, Agent, Recorded
<1>4. ASSUME NEW c \in Conns, NEW a \in Agents, OnMessage(c, a)
      PROVE  Kept
  <2>1. /\ pc[c] = "idle" /\ pc'[c] \in {"grouping", "looking"}
        /\ heard'[c] = heard[c] \cup {a} /\ status' = status
        /\ \A d \in Conns \ {c} : pc'[d] = pc[d] /\ heard'[d] = heard[d]
    BY <1>1, <1>4 DEF OnMessage, Goto, SessionTypeOK, storeVars
  <2>2. msg'[c].agent = a /\ \A d \in Conns \ {c} : msg'[d] = msg[d]
    BY <1>1, <1>4 DEF OnMessage, FindOrCreateAgent, SessionTypeOK
  <2> QED
    BY <1>2, <2>1, <2>2 DEF Agent, Recorded
<1>5. ASSUME NEW c \in Conns, pc[c] \in InHandler, pc'[c] \in InHandler, msg' = msg,
             pc'[c] = "updating" => Recorded(Agent(c)), UNCHANGED <<status, heard>>,
             \A d \in Conns \ {c} : pc'[d] = pc[d]
      PROVE  Kept
  BY <1>2, <1>5 DEF Agent, Recorded, InHandler
<1>6. ASSUME NEW c \in Conns, pc[c] \in InHandler, Return(c), heard' = heard,
             \A b \in Agents : Recorded(b) => Recorded(b)', status'[Agent(c)] # "absent"
      PROVE  Kept
  <2>1. /\ pc'[c] = "idle"
        /\ \A d \in Conns \ {c} : pc'[d] = pc[d] /\ msg'[d] = msg[d]
    BY <1>1, <1>6 DEF Return, Goto, SessionTypeOK
  <2>2. ASSUME NEW d \in Conns \ {c}
        PROVE  /\ pc'[d] \in {"idle", "leaving"} => \A b \in heard'[d] : Recorded(b)'
               /\ pc'[d] \in InHandler =>
                    /\ pc'[d] = "updating" => Recorded(Agent(d))'
                    /\ \A b \in heard'[d] : b = msg'[d].agent \/ Recorded(b)'
    <3>1. heard[d] \subseteq Agents /\ (pc[d] \in InHandler => Agent(d) \in Agents)
      BY <1>1, MessageType DEF SessionTypeOK
    <3> QED
      BY <1>2, <1>6, <2>1, <3>1 DEF Agent, Recorded
  <2>3. \A b \in heard'[c] : Recorded(b)'
    <3>1. heard[c] \subseteq Agents
      BY <1>1 DEF SessionTypeOK
    <3> QED
      BY <1>2, <1>6, <3>1 DEF Recorded
  <2> QED
    BY <2>1, <2>2, <2>3 DEF Agent, Recorded, InHandler
<1>7. ASSUME NEW c \in Conns, Handle(c)
      PROVE  Kept
  <2>1. ~StoreFails
    BY <1>1 DEF StoreFails
  <2>2. CASE ProcessAgentGrouping(c) \/ GetAgent(c) \/ GetGroupByName(c) \/ CreateGroup(c)
    <3>1. /\ pc[c] \in InHandler /\ msg' = msg /\ UNCHANGED <<status, heard>>
          /\ \E label \in InHandler : Goto(c, label) /\ (label = "updating" => Recorded(Agent(c)))
      BY <2>1, <2>2 DEF ProcessAgentGrouping, GetAgent, GetGroupByName, CreateGroup, InHandler,
                        storeVars, Recorded
    <3>2. /\ pc'[c] \in InHandler /\ (pc'[c] = "updating" => Recorded(Agent(c)))
          /\ \A d \in Conns \ {c} : pc'[d] = pc[d]
      BY <1>1, <3>1 DEF Goto, SessionTypeOK
    <3> QED
      BY <1>5, <3>1, <3>2
  <2>3. CASE CreateAgent(c)
    <3>1. pc[c] \in InHandler /\ Return(c) /\ heard' = heard
      BY <2>3 DEF CreateAgent, InHandler
    <3>2. InsertAgent(Agent(c), msg[c].status, groupID[Object(c)])
      BY <2>1, <2>3 DEF CreateAgent
    <3>3. Agent(c) \in Agents /\ msg[c].status \in Reported
      BY <1>1, <3>1, MessageType
    <3>4. status'[Agent(c)] # "absent" /\ \A b \in Agents : Recorded(b) => Recorded(b)'
      BY <1>1, <3>2, <3>3 DEF InsertAgent, SessionTypeOK, Recorded, Reported
    <3> QED
      BY <1>6, <3>1, <3>4
  <2>4. CASE UpdateAgent(c)
    <3>1. pc[c] \in InHandler /\ Return(c) /\ heard' = heard /\ pc[c] = "updating"
      BY <2>4 DEF UpdateAgent, InHandler
    <3>2. SetStatus(Agent(c), msg[c].status)
      BY <2>1, <2>4 DEF UpdateAgent
    <3>3. Agent(c) \in Agents /\ msg[c].status \in Reported /\ Recorded(Agent(c))
      BY <1>1, <1>2, <3>1, MessageType
    <3>4. status'[Agent(c)] # "absent" /\ \A b \in Agents : Recorded(b) => Recorded(b)'
      BY <1>1, <3>2, <3>3 DEF SetStatus, SessionTypeOK, Recorded, Reported
    <3> QED
      BY <1>6, <3>1, <3>4
  <2> QED
    BY <1>7, <2>2, <2>3, <2>4 DEF Handle
<1>8. ASSUME UNCHANGED <<msg, heard>>, \A b \in Agents : Recorded(b) => Recorded(b)',
             \A d \in Conns : \/ pc'[d] = pc[d]
                              \/ pc[d] = "idle" /\ pc'[d] = "leaving"
                              \/ pc'[d] = "closed"
      PROVE  Kept
  <2>1. ASSUME NEW d \in Conns
        PROVE  /\ pc'[d] \in {"idle", "leaving"} => \A b \in heard'[d] : Recorded(b)'
               /\ pc'[d] \in InHandler =>
                    /\ pc'[d] = "updating" => status'[msg'[d].agent] # "absent"
                    /\ \A b \in heard'[d] : b = msg'[d].agent \/ Recorded(b)'
    <3>1. heard[d] \subseteq Agents /\ (pc[d] \in InHandler => Agent(d) \in Agents)
      BY <1>1, MessageType DEF SessionTypeOK
    <3> QED
      BY <1>2, <1>8, <3>1 DEF Agent, Recorded, InHandler
  <2> QED
    BY <2>1
<1>9. ASSUME NEW c \in Conns, OnDisconnect(c) \/ Leave(c)
      PROVE  /\ UNCHANGED <<msg, heard>> /\ \A b \in Agents : Recorded(b) => Recorded(b)'
             /\ \A d \in Conns : \/ pc'[d] = pc[d]
                                 \/ pc[d] = "idle" /\ pc'[d] = "leaving"
                                 \/ pc'[d] = "closed"
  <2>1. CASE OnDisconnect(c)
    BY <1>1, <2>1 DEF OnDisconnect, Goto, SessionTypeOK, storeVars, Recorded
  <2>2. ASSUME NEW a \in Agents, MarkOffline(c, a)
        PROVE  UNCHANGED <<msg, heard, pc>> /\ \A b \in Agents : Recorded(b) => Recorded(b)'
    BY <1>1, <2>2 DEF MarkOffline, SetStatus, SessionTypeOK, Recorded
  <2>3. CASE RemoveConnection(c)
    BY <1>1, <2>3 DEF RemoveConnection, Goto, SessionTypeOK, storeVars, Recorded
  <2> QED
    BY <1>9, <2>1, <2>2, <2>3 DEF Leave
<1>10. ASSUME Crash
       PROVE  /\ \A d \in Conns : pc'[d] \in {"idle", "leaving"} => \A b \in heard'[d] : Recorded(b)'
              /\ \A d \in Conns : pc'[d] \notin InHandler
  BY <1>10 DEF Crash, InHandler
<1>11. CASE UNCHANGED sessionVars
  BY <1>8, <1>11 DEF sessionVars, threadVars, storeVars, Recorded
<1> QED
  BY <1>4, <1>7, <1>8, <1>9, <1>10, <1>11 DEF SessionNext

(***************************************************************************)
(* Every agent whose callback returned has a row, for any number of        *)
(* connections that the agent speaks on at once (persistAgent).            *)
(***************************************************************************)
THEOREM HeardStored == SessionSpec => []HeardIsStored
<1>1. RowsInv => HeardIsStored
  BY DEF RowsInv
<1> QED
  BY <1>1, RowsInit, RowsStep, PTL DEF SessionSpec

-----------------------------------------------------------------------------
(***************************************************************************)
(* The orderly environment.  Agents change connections only after the      *)
(* server has seen the end of the old one, no call of the store fails and  *)
(* the server does not crash.                                              *)
(***************************************************************************)
Orderly == ~Overlaps /\ MaxFailures = 0 /\ MaxCrashes = 0

LEMMA NothingFails ==
  ASSUME Orderly, SessionTypeOK
  PROVE  ~StoreFails /\ ~Crash
BY DEF Orderly, SessionTypeOK, StoreFails, Crash

LEMMA PresenceGivesRegistry == PresenceInv => RegistryInv
BY DEF PresenceInv, RegistryInv, RegistryConsistent, ClosedIsForgotten,
       OneConnectionEach, SessionTypeOK

\* Two goroutines never serve the same agent.
LEMMA OneSpeaker ==
  ASSUME OneConnectionEach, NEW a \in Agents, NEW c \in Conns, NEW d \in Conns,
         a \in heard[c], a \in heard[d], pc[c] # "closed", pc[d] # "closed"
  PROVE  c = d
BY DEF OneConnectionEach

LEMMA ReportedIsNotNone == None \notin Reported
BY SessionAssumption DEF Reported

LEMMA PresenceInit == SessionInit => PresenceInv
BY TypeInit, SessionAssumption
DEF SessionInit, PresenceInv, RegistryConsistent, OneConnectionEach, HandlerIsCurrent,
    OthersAreShown, LeaversAreMarked, UnregisteredIsOffline, InHandler

LEMMA PresenceStep ==
  ASSUME Orderly, PresenceInv, [SessionNext]_sessionVars
  PROVE  PresenceInv'
<1>1. SessionTypeOK /\ SessionTypeOK'
  BY TypeStep DEF PresenceInv
<1>2. RegistryConsistent /\ RegistryConsistent'
  BY RegistryStep, PresenceGivesRegistry DEF PresenceInv, RegistryInv
<1>3. ~StoreFails /\ ~Crash
  BY <1>1, NothingFails
<1> USE <1>1, <1>2, <1>3 DEF PresenceInv
<1>4. ASSUME NEW c \in Conns, NEW a \in Agents, OnMessage(c, a)
      PROVE  PresenceInv'
  <2>1. /\ pc[c] = "idle" /\ pc'[c] \in {"grouping", "looking"}
        /\ \A d \in Conns : d # c => pc'[d] = pc[d]
    BY <1>4 DEF OnMessage, Goto, SessionTypeOK
  <2>2. /\ heard'[c] = heard[c] \cup {a}
        /\ \A d \in Conns : d # c => heard'[d] = heard[d]
        /\ UNCHANGED <<status, marking>>
    BY <1>4 DEF OnMessage, SessionTypeOK, storeVars
  <2>3. agentsById[a] \in {None, c}
    <3>1. Speaking(a) \subseteq {c}
      BY <1>4 DEF OnMessage, Orderly
    <3>2. ASSUME agentsById[a] # None
          PROVE  agentsById[a] = c
      BY <3>1, <3>2 DEF Speaking, OneConnectionEach, SessionTypeOK
    <3> QED
      BY <3>2
  <2>4. agentsById' = [agentsById EXCEPT ![a] = c]
    BY <1>4, <2>3 DEF OnMessage, FindOrCreateAgent, SessionTypeOK
  <2>5. connections[c] \subseteq connections'[c]
    BY <1>4 DEF OnMessage, FindOrCreateAgent, SessionTypeOK
  <2>6. \A d \in Conns : d # c => connections'[d] = connections[d]
    BY <1>4 DEF OnMessage, FindOrCreateAgent, SessionTypeOK
  <2>7. PICK s \in Reported :
          /\ msg'[c].agent = a /\ msg'[c].status = s
          /\ told'[a] = s
          /\ \A d \in Conns : d # c => msg'[d] = msg[d]
          /\ \A b \in Agents : b # a => told'[b] = told[b]
    BY <1>4 DEF OnMessage, FindOrCreateAgent, SessionTypeOK
  <2>8. \A d \in Conns : d # c /\ a \in heard[d] => pc[d] = "closed"
    BY <1>4 DEF OnMessage, Orderly, Speaking
  <2>9. OneConnectionEach'
    <3>1. ASSUME NEW b \in Agents, NEW d \in Conns
          PROVE  agentsById'[b] = d <=> b \in heard'[d] /\ pc'[d] # "closed"
      <4>1. CASE b = a
        BY <2>1, <2>2, <2>4, <2>8, <4>1 DEF SessionTypeOK
      <4>2. CASE b # a
        <5>1. agentsById'[b] = agentsById[b]
          BY <2>4, <4>2 DEF SessionTypeOK
        <5>2. b \in heard'[d] <=> b \in heard[d]
          BY <2>2, <4>2
        <5>3. pc'[d] # "closed" <=> pc[d] # "closed"
          BY <2>1
        <5> QED
          BY <5>1, <5>2, <5>3 DEF OneConnectionEach
      <4> QED
        BY <4>1, <4>2
    <3>2. ASSUME NEW d \in Conns, pc'[d] \in InHandler
          PROVE  Agent(d)' \in heard'[d]
      BY <2>1, <2>2, <2>7, <3>2 DEF OneConnectionEach, Agent
    <3> QED
      BY <3>1, <3>2 DEF OneConnectionEach
  <2>10. HandlerIsCurrent'
    <3>1. pc'[c] \notin {"updating", "naming", "founding", "creating"}
      BY <2>1
    <3>2. ASSUME NEW d \in Conns, d # c, pc[d] \in InHandler
          PROVE  Agent(d)' = Agent(d) /\ Agent(d) # a /\ Agent(d) \in Agents
      BY <2>7, <2>8, <3>2, MessageType DEF OneConnectionEach, Agent, InHandler
    <3> QED
      BY <2>1, <2>2, <2>7, <3>1, <3>2 DEF HandlerIsCurrent, Agent
  <2>11. OthersAreShown'
    <3>1. \A d \in Conns : d # c => Agent(d)' = Agent(d)
      BY <2>7 DEF Agent
    <3>2. Agent(c)' = a
      BY <2>7 DEF Agent
    <3>3. heard \in [Conns -> SUBSET Agents]
      BY DEF SessionTypeOK
    <3> QED
      BY <2>1, <2>2, <2>7, <2>8, <3>1, <3>2, <3>3 DEF OthersAreShown, InHandler
  <2>12. LeaversAreMarked'
    BY <2>1, <2>2, <2>6 DEF LeaversAreMarked
  <2>13. UnregisteredIsOffline'
    BY <2>2, <2>4, SessionAssumption DEF UnregisteredIsOffline, SessionTypeOK
  <2> QED
    BY <2>9, <2>10, <2>11, <2>12, <2>13
<1>5. ASSUME NEW c \in Conns, ProcessAgentGrouping(c) \/ GetAgent(c)
                               \/ GetGroupByName(c) \/ CreateGroup(c)
      PROVE  PresenceInv'
  <2>1. UNCHANGED <<registryVars, status, msg, marking, heard, told>>
    BY <1>5 DEF ProcessAgentGrouping, GetAgent, GetGroupByName, CreateGroup, storeVars
  <2>2. /\ pc[c] \in InHandler
        /\ \E label \in InHandler : Goto(c, label)
    BY <1>5 DEF ProcessAgentGrouping, GetAgent, GetGroupByName, CreateGroup, InHandler
  <2>3. /\ pc'[c] = "updating" => status[Agent(c)] # "absent"
        /\ pc'[c] \in {"naming", "founding", "creating"} => status[Agent(c)] = "absent"
    <3>1. CASE ProcessAgentGrouping(c)
      BY <3>1 DEF ProcessAgentGrouping, Goto, SessionTypeOK
    <3>2. CASE GetAgent(c)
      BY <3>2 DEF GetAgent, Goto, SessionTypeOK
    <3>3. CASE GetGroupByName(c)
      BY <3>3 DEF GetGroupByName, Goto, SessionTypeOK, HandlerIsCurrent, InHandler
    <3>4. CASE CreateGroup(c)
      BY <3>4 DEF CreateGroup, Goto, SessionTypeOK, HandlerIsCurrent, InHandler
    <3> QED
      BY <1>5, <3>1, <3>2, <3>3, <3>4
  <2>4. /\ pc'[c] \in InHandler
        /\ \A d \in Conns : d # c => pc'[d] = pc[d]
    BY <2>2 DEF Goto, SessionTypeOK
  <2>5. \A d \in Conns : Agent(d)' = Agent(d)
    BY <2>1 DEF Agent
  <2>6. OneConnectionEach'
    BY <2>1, <2>2, <2>4, <2>5 DEF OneConnectionEach, registryVars, InHandler
  <2>7. HandlerIsCurrent'
    BY <2>1, <2>2, <2>3, <2>4, <2>5 DEF HandlerIsCurrent
  <2>8. OthersAreShown'
    BY <2>1, <2>2, <2>4, <2>5 DEF OthersAreShown, InHandler
  <2>9. LeaversAreMarked'
    BY <2>1, <2>2, <2>4 DEF LeaversAreMarked, InHandler, registryVars
  <2>10. UnregisteredIsOffline'
    BY <2>1 DEF UnregisteredIsOffline, registryVars
  <2> QED
    BY <2>6, <2>7, <2>8, <2>9, <2>10
<1>6. ASSUME NEW c \in Conns, CreateAgent(c) \/ UpdateAgent(c)
      PROVE  PresenceInv'
  <2>1. UNCHANGED <<registryVars, marking, heard, told>>
    BY <1>6 DEF CreateAgent, UpdateAgent
  <2>2. /\ pc[c] \in InHandler /\ pc'[c] = "idle"
        /\ \A d \in Conns : d # c => pc'[d] = pc[d] /\ msg'[d] = msg[d]
    BY <1>6 DEF CreateAgent, UpdateAgent, Return, Goto, SessionTypeOK, InHandler
  <2> DEFINE a == Agent(c)
  <2>3. /\ a \in Agents /\ a \in heard[c]
        /\ told[a] = msg[c].status /\ told[a] \in Reported
    BY <2>2, MessageType DEF OneConnectionEach, HandlerIsCurrent
  <2>4. status' = [status EXCEPT ![a] = told[a]]
    BY <1>6, <2>3
    DEF CreateAgent, UpdateAgent, InsertAgent, SetStatus, HandlerIsCurrent, InHandler
  <2> HIDE DEF a
  <2>5. /\ status'[a] = told[a] /\ told[a] # "absent" /\ told[a] # None
        /\ \A b \in Agents : b # a => status'[b] = status[b]
    <3>1. told[a] \notin {"absent", "offline"}
      BY <2>3 DEF Reported
    <3>2. told[a] # None
      BY <2>3, ReportedIsNotNone
    <3> QED
      BY <2>3, <2>4, <3>1, <3>2 DEF SessionTypeOK
  <2>6. \A d \in Conns : d # c /\ a \in heard[d] => pc[d] = "closed"
    BY <2>2, <2>3, OneSpeaker DEF InHandler
  <2>7. \A d \in Conns : d # c => Agent(d)' = Agent(d)
    BY <2>2 DEF Agent
  <2>8. heard \in [Conns -> SUBSET Agents]
    BY DEF SessionTypeOK
  <2>9. OneConnectionEach'
    BY <2>1, <2>2, <2>7 DEF OneConnectionEach, registryVars, InHandler
  <2>10. HandlerIsCurrent'
    <3>1. ASSUME NEW d \in Conns, d # c, pc[d] \in InHandler
          PROVE  Agent(d) \in Agents /\ Agent(d) # a
      BY <2>6, <3>1, MessageType DEF OneConnectionEach, InHandler
    <3> QED
      BY <2>1, <2>2, <2>5, <2>7, <3>1 DEF HandlerIsCurrent, InHandler
  <2>11. OthersAreShown'
    BY <2>1, <2>2, <2>3, <2>5, <2>6, <2>7, <2>8 DEF OthersAreShown, InHandler, a
  <2>12. LeaversAreMarked'
    BY <2>1, <2>2, <2>3, <2>5, <2>6, <2>8 DEF LeaversAreMarked, registryVars
  <2>13. UnregisteredIsOffline'
    <3>1. agentsById[a] = c
      BY <2>2, <2>3 DEF OneConnectionEach, InHandler
    <3> QED
      BY <2>1, <2>5, <3>1, SessionAssumption DEF UnregisteredIsOffline, registryVars
  <2> QED
    BY <2>9, <2>10, <2>11, <2>12, <2>13
<1>7. ASSUME NEW c \in Conns, OnDisconnect(c)
      PROVE  PresenceInv'
  <2>1. UNCHANGED <<registryVars, status, msg, heard, told>>
    BY <1>7 DEF OnDisconnect, storeVars
  <2>2. /\ pc[c] = "idle" /\ pc'[c] = "leaving" /\ marking'[c] = connections[c]
        /\ \A d \in Conns : d # c => pc'[d] = pc[d] /\ marking'[d] = marking[d]
    BY <1>7 DEF OnDisconnect, Goto, SessionTypeOK
  <2>3. heard[c] \subseteq connections[c]
    BY <2>2 DEF OneConnectionEach, RegistryConsistent, SessionTypeOK
  <2>4. \A d \in Conns : Agent(d)' = Agent(d)
    BY <2>1 DEF Agent
  <2>5. \A b \in heard[c] : status[b] # "absent"
    <3>1. ASSUME NEW b \in heard[c]
          PROVE  status[b] # "absent"
      <4>1. b \in Agents /\ told[b] \in Reported \cup {None}
        BY DEF SessionTypeOK
      <4>2. status[b] = told[b] /\ told[b] # None
        BY <2>2 DEF OthersAreShown
      <4> QED
        BY <4>1, <4>2 DEF Reported
    <3> QED
      BY <3>1
  <2>6. OneConnectionEach'
    BY <2>1, <2>2, <2>4 DEF OneConnectionEach, registryVars, InHandler
  <2>7. HandlerIsCurrent'
    BY <2>1, <2>2, <2>4 DEF HandlerIsCurrent, InHandler
  <2>8. OthersAreShown'
    BY <2>1, <2>2, <2>4 DEF OthersAreShown, InHandler
  <2>9. LeaversAreMarked'
    BY <2>1, <2>2, <2>3, <2>5 DEF LeaversAreMarked, registryVars
  <2>10. UnregisteredIsOffline'
    BY <2>1 DEF UnregisteredIsOffline, registryVars
  <2> QED
    BY <2>6, <2>7, <2>8, <2>9, <2>10
<1>8. ASSUME NEW c \in Conns, NEW a \in Agents, MarkOffline(c, a)
      PROVE  PresenceInv'
  <2>1. UNCHANGED <<registryVars, pc, msg, heard, told>>
    BY <1>8 DEF MarkOffline
  <2>2. /\ pc[c] = "leaving" /\ a \in marking[c] /\ marking'[c] = marking[c] \ {a}
        /\ \A d \in Conns : d # c => marking'[d] = marking[d]
    BY <1>8 DEF MarkOffline, SessionTypeOK
  <2>3. a \in heard[c]
    BY <2>2 DEF LeaversAreMarked, RegistryConsistent, OneConnectionEach
  <2>4. /\ status'[a] = "offline"
        /\ \A b \in Agents : b # a => status'[b] = status[b]
    BY <1>8, <2>2, <2>3 DEF MarkOffline, SetStatus, SessionTypeOK, LeaversAreMarked
  <2>5. \A d \in Conns : d # c /\ a \in heard[d] => pc[d] = "closed"
    BY <2>2, <2>3, OneSpeaker
  <2>6. \A d \in Conns : Agent(d)' = Agent(d)
    BY <2>1 DEF Agent
  <2>7. heard \in [Conns -> SUBSET Agents]
    BY DEF SessionTypeOK
  <2>8. OneConnectionEach'
    BY <2>1, <2>6 DEF OneConnectionEach, registryVars
  <2>9. HandlerIsCurrent'
    <3>1. ASSUME NEW d \in Conns, pc[d] \in InHandler
          PROVE  Agent(d) \in Agents /\ Agent(d) # a
      BY <2>2, <2>5, <3>1, MessageType DEF OneConnectionEach, InHandler
    <3> QED
      BY <2>1, <2>4, <2>6, <3>1 DEF HandlerIsCurrent
  <2>10. OthersAreShown'
    BY <2>1, <2>2, <2>4, <2>5, <2>6, <2>7 DEF OthersAreShown, InHandler
  <2>11. LeaversAreMarked'
    BY <2>1, <2>2, <2>4, <2>5, <2>7 DEF LeaversAreMarked, registryVars
  <2>12. UnregisteredIsOffline'
    BY <2>1, <2>4 DEF UnregisteredIsOffline, registryVars
  <2> QED
    BY <2>8, <2>9, <2>10, <2>11, <2>12
<1>9. ASSUME NEW c \in Conns, RemoveConnection(c)
      PROVE  PresenceInv'
  <2>1. UNCHANGED <<status, msg, marking, heard, told>>
    BY <1>9 DEF RemoveConnection, storeVars
  <2>2. /\ pc[c] = "leaving" /\ pc'[c] = "closed" /\ marking[c] = {}
        /\ connections'[c] = {}
        /\ \A d \in Conns : d # c => pc'[d] = pc[d] /\ connections'[d] = connections[d]
    BY <1>9 DEF RemoveConnection, Goto, SessionTypeOK
  <2>3. \A b \in Agents :
          agentsById'[b] = IF agentsById[b] = c THEN None ELSE agentsById[b]
    BY <1>9 DEF RemoveConnection, RegistryConsistent
  <2>4. \A d \in Conns : Agent(d)' = Agent(d)
    BY <2>1 DEF Agent
  <2>5. OneConnectionEach'
    BY <2>1, <2>2, <2>3, <2>4, SessionAssumption DEF OneConnectionEach, InHandler
  <2>6. HandlerIsCurrent'
    BY <2>1, <2>2, <2>4 DEF HandlerIsCurrent, InHandler
  <2>7. OthersAreShown'
    BY <2>1, <2>2, <2>4 DEF OthersAreShown, InHandler
  <2>8. LeaversAreMarked'
    BY <2>1, <2>2 DEF LeaversAreMarked
  <2>9. UnregisteredIsOffline'
    <3>1. \A b \in Agents : agentsById[b] = c => status[b] = "offline"
      BY <2>2 DEF OneConnectionEach, LeaversAreMarked
    <3> QED
      BY <2>1, <2>3, <3>1 DEF UnregisteredIsOffline
  <2> QED
    BY <2>5, <2>6, <2>7, <2>8, <2>9
<1>10. ASSUME UNCHANGED sessionVars
       PROVE  PresenceInv'
  BY <1>10 DEF sessionVars, registryVars, storeVars, threadVars, OneConnectionEach,
               HandlerIsCurrent, OthersAreShown, LeaversAreMarked, UnregisteredIsOffline,
               Agent
<1> QED
  BY <1>4, <1>5, <1>6, <1>7, <1>8, <1>9, <1>10 DEF SessionNext, Handle, Leave

(***************************************************************************)
(* In the orderly environment the presence invariant holds at any time.    *)
(***************************************************************************)
THEOREM PresenceInvariant == ASSUME Orderly PROVE SessionSpec => []PresenceInv
<1>1. PresenceInv /\ [SessionNext]_sessionVars => PresenceInv'
  BY PresenceStep
<1> QED
  BY <1>1, PresenceInit, PTL DEF SessionSpec

\* What the API sends to an agent that has spoken reaches its connection.
THEOREM SpeakerReachable == ASSUME Orderly PROVE SessionSpec => []SpeakerIsReachable
<1>1. PresenceInv => SpeakerIsReachable
  BY DEF PresenceInv, OneConnectionEach, SpeakerIsReachable, SessionTypeOK
<1> QED
  BY <1>1, PresenceInvariant, PTL

\* The store shows what the agent said last.
THEOREM LastReportIsShown == ASSUME Orderly PROVE SessionSpec => []StatusIsTheLastReport
<1>1. PresenceInv => StatusIsTheLastReport
  BY DEF PresenceInv, OthersAreShown, StatusIsTheLastReport
<1> QED
  BY <1>1, PresenceInvariant, PTL

\* An agent that is not registered is not shown as connected.
THEOREM ForgottenIsOffline == ASSUME Orderly PROVE SessionSpec => []UnregisteredIsOffline
<1>1. PresenceInv => UnregisteredIsOffline
  BY DEF PresenceInv
<1> QED
  BY <1>1, PresenceInvariant, PTL

-----------------------------------------------------------------------------
(***************************************************************************)
(* Refinement: in the orderly environment each step of the callbacks is a  *)
(* step of AgentPresence, or leaves presence and status as they are.       *)
(***************************************************************************)
LEMMA ShownInit == SessionInit => Shown!Init
BY DEF SessionInit, Shown!Init, Presence

LEMMA ShownStep ==
  ASSUME Orderly, PresenceInv, [SessionNext]_sessionVars
  PROVE  [Shown!Next]_(Shown!vars)
<1>1. SessionTypeOK /\ RegistryConsistent /\ OneConnectionEach
  BY DEF PresenceInv
<1>2. ~StoreFails /\ ~Crash
  BY <1>1, NothingFails
<1>3. ASSUME UNCHANGED status, \A b \in Agents : Presence(b)' = Presence(b)
      PROVE  UNCHANGED Shown!vars
  BY <1>3 DEF Shown!vars
<1>4. ASSUME NEW c \in Conns, NEW a \in Agents, OnMessage(c, a)
      PROVE  [Shown!Next]_(Shown!vars)
  <2>1. UNCHANGED status
    BY <1>4 DEF OnMessage, storeVars
  <2>2. /\ pc[c] = "idle" /\ pc'[c] \in {"grouping", "looking"}
        /\ \A d \in Conns : d # c => pc'[d] = pc[d]
    BY <1>1, <1>4 DEF OnMessage, Goto, SessionTypeOK
  <2>3. agentsById' = [agentsById EXCEPT ![a] = IF @ = None THEN c ELSE @]
    BY <1>1, <1>4 DEF OnMessage, FindOrCreateAgent
  <2>4. \A b \in Agents : b # a => Presence(b)' = Presence(b)
    BY <1>1, <2>2, <2>3, SessionAssumption DEF Presence, SessionTypeOK
  <2>5. CASE agentsById[a] = None
    <3>1. Presence(a) = "away" /\ Presence(a)' = "here"
      BY <1>1, <2>2, <2>3, <2>5, SessionAssumption DEF Presence, SessionTypeOK
    <3>2. Shown!Arrive(a)
      BY <2>1, <2>4, <3>1 DEF Shown!Arrive
    <3> QED
      BY <3>2 DEF Shown!Next
  <2>6. CASE agentsById[a] # None
    <3>1. Presence(a)' = Presence(a)
      BY <1>1, <2>2, <2>3, <2>6, SessionAssumption DEF Presence, SessionTypeOK
    <3> QED
      BY <1>3, <2>1, <2>4, <3>1
  <2> QED
    BY <2>5, <2>6
<1>5. ASSUME NEW c \in Conns, ProcessAgentGrouping(c) \/ GetAgent(c)
                               \/ GetGroupByName(c) \/ CreateGroup(c)
      PROVE  UNCHANGED Shown!vars
  <2>1. UNCHANGED <<registryVars, status>>
    BY <1>5 DEF ProcessAgentGrouping, GetAgent, GetGroupByName, CreateGroup, storeVars
  <2>2. /\ pc[c] \in InHandler
        /\ \E label \in InHandler : Goto(c, label)
    BY <1>5 DEF ProcessAgentGrouping, GetAgent, GetGroupByName, CreateGroup, InHandler
  <2>3. \A d \in Conns : pc'[d] = "leaving" <=> pc[d] = "leaving"
    BY <1>1, <2>2 DEF Goto, SessionTypeOK, InHandler
  <2>4. \A b \in Agents : Presence(b)' = Presence(b)
    BY <1>1, <2>1, <2>3 DEF Presence, registryVars, SessionTypeOK
  <2> QED
    BY <1>3, <2>1, <2>4
<1>6. ASSUME NEW c \in Conns, CreateAgent(c) \/ UpdateAgent(c)
      PROVE  Shown!Next
  <2>1. UNCHANGED registryVars
    BY <1>6 DEF CreateAgent, UpdateAgent
  <2>2. /\ pc[c] \in InHandler /\ pc'[c] = "idle"
        /\ \A d \in Conns : d # c => pc'[d] = pc[d]
    BY <1>1, <1>6 DEF CreateAgent, UpdateAgent, Return, Goto, SessionTypeOK, InHandler
  <2> DEFINE a == Agent(c)
  <2>3. a \in Agents /\ agentsById[a] = c /\ msg[c].status \in {"online", "error"}
    BY <1>1, <2>2, MessageType DEF OneConnectionEach, InHandler, Reported
  <2>4. status' = [status EXCEPT ![a] = msg[c].status]
    BY <1>2, <1>6
    DEF CreateAgent, UpdateAgent, InsertAgent, SetStatus, PresenceInv, HandlerIsCurrent,
        InHandler
  <2> HIDE DEF a
  <2>5. Presence(a) = "here"
    BY <2>2, <2>3, SessionAssumption DEF Presence, InHandler
  <2>6. \A b \in Agents : Presence(b)' = Presence(b)
    BY <1>1, <2>1, <2>2 DEF Presence, registryVars, SessionTypeOK, InHandler
  <2>7. Shown!Show(a)
    BY <2>3, <2>4, <2>5, <2>6 DEF Shown!Show
  <2> QED
    BY <2>3, <2>7 DEF Shown!Next
<1>7. ASSUME NEW c \in Conns, OnDisconnect(c)
      PROVE  Shown!Next
  <2>1. UNCHANGED <<registryVars, status>>
    BY <1>7 DEF OnDisconnect, storeVars
  <2>2. /\ pc[c] = "idle" /\ pc'[c] = "leaving"
        /\ \A d \in Conns : d # c => pc'[d] = pc[d]
    BY <1>1, <1>7 DEF OnDisconnect, Goto, SessionTypeOK
  <2>3. \A b \in connections[c] : b \in Agents /\ Presence(b) = "here"
    BY <1>1, <2>2, SessionAssumption DEF RegistryConsistent, Presence, SessionTypeOK
  <2>4. \A b \in Agents :
          Presence(b)' = IF b \in connections[c] THEN "leaving" ELSE Presence(b)
    BY <1>1, <2>1, <2>2, SessionAssumption
    DEF RegistryConsistent, Presence, registryVars, SessionTypeOK
  <2>5. Shown!Depart(connections[c])
    BY <2>1, <2>3, <2>4 DEF Shown!Depart
  <2>6. connections[c] \in SUBSET Agents
    BY <1>1 DEF SessionTypeOK
  <2> QED
    BY <2>5, <2>6 DEF Shown!Next
<1>8. ASSUME NEW c \in Conns, NEW a \in Agents, MarkOffline(c, a)
      PROVE  Shown!Next
  <2>1. /\ UNCHANGED <<registryVars, pc>>
        /\ pc[c] = "leaving" /\ a \in marking[c]
    BY <1>8 DEF MarkOffline
  <2>2. agentsById[a] = c /\ a \in heard[c] /\ status[a] # "absent"
    BY <1>1, <2>1 DEF PresenceInv, LeaversAreMarked, RegistryConsistent, OneConnectionEach
  <2>3. status' = [status EXCEPT ![a] = "offline"]
    BY <1>2, <1>8, <2>2 DEF MarkOffline, SetStatus
  <2>4. Presence(a) = "leaving"
    BY <2>1, <2>2, SessionAssumption DEF Presence
  <2>5. \A b \in Agents : Presence(b)' = Presence(b)
    BY <2>1 DEF Presence, registryVars
  <2>6. Shown!Hide(a)
    BY <2>3, <2>4, <2>5 DEF Shown!Hide
  <2> QED
    BY <2>6 DEF Shown!Next
<1>9. ASSUME NEW c \in Conns, RemoveConnection(c)
      PROVE  Shown!Next
  <2>1. UNCHANGED status
    BY <1>9 DEF RemoveConnection, storeVars
  <2>2. /\ pc[c] = "leaving" /\ pc'[c] = "closed" /\ marking[c] = {}
        /\ \A d \in Conns : d # c => pc'[d] = pc[d]
    BY <1>1, <1>9 DEF RemoveConnection, Goto, SessionTypeOK
  <2>3. \A b \in Agents :
          agentsById'[b] = IF b \in connections[c] THEN None ELSE agentsById[b]
    BY <1>9 DEF RemoveConnection
  <2>4. \A b \in connections[c] : b \in Agents /\ Presence(b) = "leaving"
    BY <1>1, <2>2, SessionAssumption DEF RegistryConsistent, Presence, SessionTypeOK
  <2>5. \A b \in connections[c] : status[b] = "offline"
    BY <1>1, <2>2
    DEF RegistryConsistent, OneConnectionEach, PresenceInv, LeaversAreMarked, SessionTypeOK
  <2>6. \A b \in Agents :
          Presence(b)' = IF b \in connections[c] THEN "away" ELSE Presence(b)
    BY <1>1, <2>2, <2>3, SessionAssumption DEF RegistryConsistent, Presence, SessionTypeOK
  <2>7. Shown!Forget(connections[c])
    BY <2>1, <2>4, <2>5, <2>6 DEF Shown!Forget
  <2>8. connections[c] \in SUBSET Agents
    BY <1>1 DEF SessionTypeOK
  <2> QED
    BY <2>7, <2>8 DEF Shown!Next
<1>10. ASSUME UNCHANGED sessionVars
       PROVE  UNCHANGED Shown!vars
  BY <1>10 DEF sessionVars, registryVars, storeVars, threadVars, Shown!vars, Presence
<1> QED
  BY <1>2, <1>4, <1>5, <1>6, <1>7, <1>8, <1>9, <1>10 DEF SessionNext, Handle, Leave

(***************************************************************************)
(* The callbacks of all connections together keep AgentPresence's safety   *)
(* part, for any number of agents and connections.                         *)
(***************************************************************************)
THEOREM SessionsKeepPresence == ASSUME Orderly PROVE SessionSpec => KeepsPresenceSafely
<1>1. PresenceInv /\ [SessionNext]_sessionVars => [Shown!Next]_(Shown!vars)
  BY ShownStep
<1>2. SessionSpec => []PresenceInv
  BY PresenceInvariant
<1> QED
  BY <1>1, <1>2, ShownInit, PTL DEF SessionSpec, KeepsPresenceSafely, Shown!SafeSpec
=============================================================================
