------------------------ MODULE ConfigDeliveryProofs ------------------------
(***************************************************************************)
(* Proofs about ConfigDelivery, for any number of pushes, groups and       *)
(* connections and any bounds: type correctness, that the offer is what    *)
(* was set, that no wakeup is lost, and that a quiet agent runs what the   *)
(* server offers.                                                          *)
(***************************************************************************)
EXTENDS ConfigDelivery, SequenceTheorems, TLAPS

(***************************************************************************)
(* What the values are: the fields of an Agent object after a calculation, *)
(* after a message, and those of the messages themselves.                  *)
(***************************************************************************)
LEMMA ConfigFacts ==
  /\ \A p \in Pushes : Content[p] \in Configs
  /\ Default \in Configs /\ Empty \in Configs
  /\ None \notin Configs /\ None \notin Statuses /\ None \notin GroupIDs
  /\ Configs \subseteq Statuses
  /\ Blank \in Statuses
  /\ Groups \subseteq GroupIDs /\ NoGroup \in GroupIDs
BY DeliveryAssumption DEF Configs, Statuses, GroupIDs

LEMMA NewAgentType == NewAgent \in Object
BY ConfigFacts DEF NewAgent, Object

LEMMA CalculatedType ==
  ASSUME NEW o \in Object, NEW c \in Configs
  PROVE  /\ Calculated(o, c) \in Object
         /\ Calculated(o, c).known = o.known
         /\ Calculated(o, c).reported = o.reported
         /\ Calculated(o, c).watchers = o.watchers
         /\ Calculated(o, c).custom = c
         /\ Calculated(o, c).remote = c
BY DEF Calculated, Object

LEMMA HeardType ==
  ASSUME NEW o \in Object, msg \in ToServer
  PROVE  /\ Heard(o) \in Object
         /\ Heard(o).known = TRUE
         /\ Heard(o).reported = IF msg.status # None THEN msg.status ELSE o.reported
         /\ Heard(o).watchers = o.watchers
         /\ Heard(o).custom = o.custom
         /\ Heard(o).remote = o.remote
<1>1. msg.group \in GroupIDs \cup {None} /\ msg.status \in Statuses \cup {None}
  BY DEF ToServer
<1> QED
  BY <1>1 DEF Heard, Object

LEMMA ObjectFields ==
  ASSUME NEW o \in Object
  PROVE  /\ o.known \in BOOLEAN
         /\ o.custom \in Configs
         /\ o.remote \in Configs \cup {None}
         /\ o.reported \in Statuses \cup {None}
         /\ o.watchers \in SUBSET Pushes
BY DEF Object

\* Changing the watchers changes nothing else.
LEMMA WatchersType ==
  ASSUME NEW o \in Object, NEW w \in SUBSET Pushes
  PROVE  /\ [o EXCEPT !.watchers = w] \in Object
         /\ [o EXCEPT !.watchers = w].known = o.known
         /\ [o EXCEPT !.watchers = w].reported = o.reported
         /\ [o EXCEPT !.watchers = w].custom = o.custom
         /\ [o EXCEPT !.watchers = w].remote = o.remote
         /\ [o EXCEPT !.watchers = w].watchers = w
BY DEF Object

LEMMA MemberType ==
  ASSUME NEW o \in Object, NEW g \in GroupIDs \cup {None}
  PROVE  /\ [o EXCEPT !.member = g] \in Object
         /\ [o EXCEPT !.member = g].known = o.known
         /\ [o EXCEPT !.member = g].reported = o.reported
         /\ [o EXCEPT !.member = g].custom = o.custom
         /\ [o EXCEPT !.member = g].remote = o.remote
         /\ [o EXCEPT !.member = g].watchers = o.watchers
BY DEF Object

LEMMA MessageFields ==
  /\ \A m \in ToServer : m.group \in GroupIDs \cup {None} /\ m.status \in Statuses \cup {None}
  /\ \A m \in ToAgent : m.config \in Configs \cup {None} /\ m.full \in BOOLEAN
BY DEF ToServer, ToAgent

(***************************************************************************)
(* What a queue of messages does: sending adds one at the end, receiving   *)
(* takes the first.                                                        *)
(***************************************************************************)
LEMMA AppendFacts ==
  ASSUME NEW S, NEW q \in Seq(S), NEW m \in S
  PROVE  /\ Append(q, m) \in Seq(S)
         /\ Len(q) \in Nat
         /\ Len(Append(q, m)) = Len(q) + 1
         /\ \A k \in 1..Len(q) : Append(q, m)[k] = q[k]
         /\ Append(q, m)[Len(q) + 1] = m
OBVIOUS

LEMMA TailFacts ==
  ASSUME NEW S, NEW q \in Seq(S), q # <<>>
  PROVE  /\ Head(q) \in S
         /\ Head(q) = q[1]
         /\ Len(q) \in Nat \ {0}
         /\ Tail(q) \in Seq(S)
         /\ Len(Tail(q)) = Len(q) - 1
         /\ \A k \in 1..Len(Tail(q)) : Tail(q)[k] = q[k + 1]
OBVIOUS

LEMMA NoMessages ==
  ASSUME NEW S PROVE <<>> \in Seq(S) /\ Len(<<>>) = 0
OBVIOUS

-----------------------------------------------------------------------------
(***************************************************************************)
(* Type correctness: DeliveryTypeOK is inductive on its own.               *)
(***************************************************************************)
LEMMA TypeInit == DeliveryInit => DeliveryTypeOK
<1> SUFFICES ASSUME DeliveryInit PROVE DeliveryTypeOK
  OBVIOUS
<1>1. 1 \in Connections
  BY DeliveryAssumption DEF Connections
<1>2. agent \in [Connections -> Object]
  BY NewAgentType DEF DeliveryInit
<1>3. up \in Seq(ToServer) /\ down \in Seq(ToAgent)
  BY DEF DeliveryInit
<1>4. dirty \subseteq {"description", "status"}
  BY DEF DeliveryInit
<1>5. groupConfig \in [Groups -> Configs \cup {None}]
  BY DEF DeliveryInit
<1> QED
  BY <1>1, <1>2, <1>3, <1>4, <1>5, ConfigFacts DEF DeliveryInit, DeliveryTypeOK, Stages

\* The steps of the agent and its connection.
LEMMA AgentTypeStep ==
  ASSUME DeliveryTypeOK, AgentSends \/ AgentReceives \/ Regroup \/ Reconnect
  PROVE  DeliveryTypeOK'
<1> USE DEF connVars, handlerVars, storeVars, pushVars, agentVars
<1>1. CASE AgentSends
  <2> DEFINE m == [group |-> IF "description" \in dirty THEN group ELSE None,
                   status |-> IF "status" \in dirty THEN applied ELSE None]
  <2>1. m \in ToServer
    BY DEF ToServer, DeliveryTypeOK
  <2>2. up' = Append(up, m)
    BY <1>1 DEF AgentSends
  <2> HIDE DEF m
  <2>3. up' \in Seq(ToServer)
    BY <2>1, <2>2, AppendFacts DEF DeliveryTypeOK
  <2> QED
    BY <1>1, <2>3 DEF AgentSends, DeliveryTypeOK
<1>2. CASE AgentReceives
  <2>1. Head(down) \in ToAgent /\ down' \in Seq(ToAgent)
    BY <1>2, TailFacts DEF AgentReceives, DeliveryTypeOK
  <2>2. applied' \in Statuses
    BY <1>2, <2>1, MessageFields, ConfigFacts DEF AgentReceives, DeliveryTypeOK
  <2>3. dirty' \subseteq {"description", "status"}
    BY <1>2 DEF AgentReceives, DeliveryTypeOK
  <2> QED
    BY <1>2, <2>1, <2>2, <2>3 DEF AgentReceives, DeliveryTypeOK
<1>3. CASE Regroup
  BY <1>3 DEF Regroup, DeliveryTypeOK
<1>4. CASE Reconnect
  <2>1. conn' \in Connections
    BY <1>4, DeliveryAssumption DEF Reconnect, DeliveryTypeOK, Connections
  <2>2. up' \in Seq(ToServer) /\ down' \in Seq(ToAgent)
    BY <1>4, NoMessages DEF Reconnect
  <2>3. dirty' \subseteq {"description", "status"}
    BY <1>4 DEF Reconnect
  <2> QED
    BY <1>4, <2>1, <2>2, <2>3 DEF Reconnect, DeliveryTypeOK
<1> QED
  BY <1>1, <1>2, <1>3, <1>4

(***************************************************************************)
(* What the handler's two critical sections make of the agent's object.    *)
(***************************************************************************)
LEMMA CurrentType == DeliveryTypeOK => Current \in Object
BY DEF DeliveryTypeOK, Current

LEMMA GroupingObject ==
  ASSUME DeliveryTypeOK, ProcessAgentGrouping
  PROVE  /\ msg \in ToServer
         /\ agent' \in [Connections -> Object]
         /\ \A k \in Connections :
              /\ agent'[k].known = agent[k].known
              /\ agent'[k].reported = agent[k].reported
              /\ agent'[k].custom = agent[k].custom
              /\ agent'[k].remote = agent[k].remote
              /\ agent'[k].watchers = agent[k].watchers
<1>1. msg \in ToServer
  BY DEF ProcessAgentGrouping, DeliveryTypeOK
<1> DEFINE o == [Current EXCEPT !.member = msg.group]
<1>2. agent' = [agent EXCEPT ![conn] = o]
  BY DEF ProcessAgentGrouping, Current, DeliveryTypeOK
<1>3. /\ o \in Object
      /\ o.known = Current.known
      /\ o.reported = Current.reported
      /\ o.custom = Current.custom
      /\ o.remote = Current.remote
      /\ o.watchers = Current.watchers
  BY <1>1, MemberType, CurrentType, MessageFields
<1> HIDE DEF o
<1> QED
  BY <1>1, <1>2, <1>3 DEF DeliveryTypeOK, Current

LEMMA SetInitialObject ==
  ASSUME DeliveryTypeOK, SetInitialConfig
  PROVE  /\ agent' \in [Connections -> Object]
         /\ \A k \in Connections \ {conn} : agent'[k] = agent[k]
         /\ conn \in Connections
         /\ agent'[conn].known = Current.known
         /\ agent'[conn].reported = Current.reported
         /\ agent'[conn].watchers = Current.watchers
         /\ agent'[conn].custom = chosen
         /\ agent'[conn].remote = chosen
         /\ chosen \in Configs
<1>1. chosen \in Configs /\ conn \in Connections
  BY DEF SetInitialConfig, DeliveryTypeOK
<1> DEFINE o == Calculated(Current, chosen)
<1>2. agent' = [agent EXCEPT ![conn] = o]
  BY DEF SetInitialConfig, Current, DeliveryTypeOK
<1>3. /\ o \in Object
      /\ o.known = Current.known
      /\ o.reported = Current.reported
      /\ o.watchers = Current.watchers
      /\ o.custom = chosen
      /\ o.remote = chosen
  BY <1>1, CalculatedType, CurrentType
<1> HIDE DEF o
<1> QED
  BY <1>1, <1>2, <1>3 DEF DeliveryTypeOK, Current

\* The object after UpdateStatus, before its watchers are taken away.
Updated ==
  IF DescriptionChanged(Current) THEN Calculated(Heard(Current), Heard(Current).custom)
  ELSE Heard(Current)

LEMMA UpdatedObject ==
  ASSUME DeliveryTypeOK, UpdateStatus
  PROVE  /\ msg \in ToServer
         /\ conn \in Connections
         /\ Updated \in Object
         /\ Updated.known = TRUE
         /\ Updated.reported = IF msg.status # None THEN msg.status ELSE Current.reported
         /\ Updated.custom = Current.custom
         /\ Updated.remote = IF DescriptionChanged(Current) THEN Current.custom
                             ELSE Current.remote
         /\ agent' = [agent EXCEPT ![conn] = [Updated EXCEPT !.watchers = {}]]
         /\ response' = Offer(Updated, DescriptionChanged(Current) /\
                                       Heard(Current).remote # Heard(Current).custom)
<1>1. msg \in ToServer /\ conn \in Connections
  BY DEF UpdateStatus, DeliveryTypeOK
<1>2. /\ Heard(Current) \in Object
      /\ Heard(Current).known = TRUE
      /\ Heard(Current).reported = IF msg.status # None THEN msg.status ELSE Current.reported
      /\ Heard(Current).custom = Current.custom
      /\ Heard(Current).remote = Current.remote
  BY <1>1, HeardType, CurrentType
<1>3. Current.custom \in Configs
  BY CurrentType, ObjectFields
<1>4. /\ Updated \in Object
      /\ Updated.known = TRUE
      /\ Updated.reported = IF msg.status # None THEN msg.status ELSE Current.reported
      /\ Updated.custom = Current.custom
      /\ Updated.remote = IF DescriptionChanged(Current) THEN Current.custom
                          ELSE Current.remote
  BY <1>2, <1>3, CalculatedType DEF Updated
<1>5. /\ agent' = [agent EXCEPT ![conn] = [Updated EXCEPT !.watchers = {}]]
      /\ response' = Offer(Updated, DescriptionChanged(Current) /\
                                    Heard(Current).remote # Heard(Current).custom)
  BY DEF UpdateStatus, Updated
<1> QED
  BY <1>1, <1>4, <1>5

LEMMA UpdateObject ==
  ASSUME DeliveryTypeOK, UpdateStatus
  PROVE  /\ agent' \in [Connections -> Object]
         /\ \A k \in Connections \ {conn} : agent'[k] = agent[k]
         /\ agent'[conn].known = TRUE
         /\ agent'[conn].reported = Updated.reported
         /\ agent'[conn].custom = Updated.custom
         /\ agent'[conn].remote = Updated.remote
<1> DEFINE o == [Updated EXCEPT !.watchers = {}]
<1>1. agent' = [agent EXCEPT ![conn] = o] /\ conn \in Connections
  BY UpdatedObject
<1>2. /\ o \in Object
      /\ o.known = TRUE
      /\ o.reported = Updated.reported
      /\ o.custom = Updated.custom
      /\ o.remote = Updated.remote
  BY UpdatedObject, WatchersType
<1> HIDE DEF o
<1> QED
  BY <1>1, <1>2 DEF DeliveryTypeOK

LEMMA UpdateResponse ==
  ASSUME DeliveryTypeOK, UpdateStatus
  PROVE  /\ response' \in ToAgent
         /\ response'.full = AsksForFullState(Current)
         /\ Updated.reported \notin {None, Updated.remote} => response'.config = Updated.remote
<1> DEFINE changed == DescriptionChanged(Current) /\
                        Heard(Current).remote # Heard(Current).custom
<1>1. Updated.remote \in Configs \cup {None}
  BY UpdatedObject, ObjectFields
<1>2. AsksForFullState(Current) \in BOOLEAN
  BY DEF AsksForFullState
<1>3. response' = Offer(Updated, changed)
  BY UpdatedObject
<1> HIDE DEF changed
<1> QED
  BY <1>1, <1>2, <1>3 DEF Offer, ToAgent

\* The steps of onMessage.
LEMMA HandlerTypeStep ==
  ASSUME DeliveryTypeOK, OnMessage \/ Handle
  PROVE  DeliveryTypeOK'
<1> USE DEF connVars, handlerVars, storeVars, pushVars, agentVars
<1>1. CASE OnMessage
  <2>1. Head(up) \in ToServer /\ up' \in Seq(ToServer)
    BY <1>1, TailFacts DEF OnMessage, DeliveryTypeOK
  <2> QED
    BY <1>1, <2>1 DEF OnMessage, DeliveryTypeOK
<1>2. CASE ProcessAgentGrouping
  <2>1. pc' \in {"agent_config", "updating"}
    BY <1>2 DEF ProcessAgentGrouping
  <2> QED
    BY <1>2, <2>1, GroupingObject DEF ProcessAgentGrouping, DeliveryTypeOK
<1>3. CASE GetLatestConfigForAgent
  BY <1>3 DEF GetLatestConfigForAgent, DeliveryTypeOK
<1>4. CASE GetLatestConfigForGroup
  <2>1. msg.group # NoGroup => msg.group \in Groups
    BY <1>4, MessageFields DEF GetLatestConfigForGroup, DeliveryTypeOK, GroupIDs
  <2>2. chosen' \in Configs
    <3>1. \/ chosen' = Default
          \/ msg.group \in Groups /\ groupConfig[msg.group] # None
             /\ chosen' = groupConfig[msg.group]
      BY <1>4, <2>1, ConfigFacts DEF GetLatestConfigForGroup, DeliveryTypeOK, GroupIDs
    <3> QED
      BY <3>1, ConfigFacts DEF DeliveryTypeOK
  <2>3. /\ pc = "group_config" /\ pc' = "setting"
        /\ UNCHANGED <<connVars, agent, msg, response, storeVars, pushVars, up, down,
                       agentVars, lost>>
    BY <1>4 DEF GetLatestConfigForGroup
  <2> QED
    BY <1>4, <2>2, <2>3, ConfigFacts DEF DeliveryTypeOK
<1>5. CASE SetInitialConfig
  BY <1>5, SetInitialObject DEF SetInitialConfig, DeliveryTypeOK
<1>6. CASE UpdateStatus
  <2>1. Current.watchers \in SUBSET Pushes
    BY CurrentType, ObjectFields
  <2> QED
    BY <1>6, <2>1, UpdateObject, UpdateResponse DEF UpdateStatus, DeliveryTypeOK
<1>7. CASE Answer
  <2>1. down' \in Seq(ToAgent)
    BY <1>7, AppendFacts DEF Answer, DeliveryTypeOK
  <2> QED
    BY <1>7, <2>1 DEF Answer, DeliveryTypeOK
<1> QED
  BY <1>1, <1>2, <1>3, <1>4, <1>5, <1>6, <1>7 DEF Handle

(***************************************************************************)
(* What a push makes of the object that it found.                          *)
(***************************************************************************)
LEMMA CustomObject ==
  ASSUME DeliveryTypeOK, NEW p \in Pushes, SetCustomConfig(p)
  PROVE  /\ held[p] \in Connections
         /\ agent' \in [Connections -> Object]
         /\ \A k \in Connections \ {held[p]} : agent'[k] = agent[k]
         /\ agent'[held[p]].known = agent[held[p]].known
         /\ agent'[held[p]].reported = agent[held[p]].reported
         /\ agent'[held[p]].custom = Content[p]
         /\ agent'[held[p]].remote = Content[p]
         /\ \/ /\ Content[p] # agent[held[p]].remote
               /\ agent'[held[p]].watchers = agent[held[p]].watchers \cup {p}
               /\ stage' = [stage EXCEPT ![p] = "sending"]
               /\ notified' = notified
            \/ /\ Content[p] = agent[held[p]].remote
               /\ agent'[held[p]].watchers = agent[held[p]].watchers
               /\ stage' = [stage EXCEPT ![p] = "waiting"]
               /\ notified' = notified \cup {p}
<1> DEFINE object == agent[held[p]]
           now == Calculated(object, Content[p])
           watched == [now EXCEPT !.watchers = now.watchers \cup {p}]
<1>1. held[p] \in Connections /\ object \in Object /\ Content[p] \in Configs
  BY ConfigFacts DEF SetCustomConfig, DeliveryTypeOK
<1>2. /\ now \in Object
      /\ now.known = object.known
      /\ now.reported = object.reported
      /\ now.watchers = object.watchers
      /\ now.custom = Content[p]
      /\ now.remote = Content[p]
  BY <1>1, CalculatedType
<1>3. now.watchers \cup {p} \in SUBSET Pushes
  BY <1>2, ObjectFields
<1>4. /\ watched \in Object
      /\ watched.known = object.known
      /\ watched.reported = object.reported
      /\ watched.watchers = object.watchers \cup {p}
      /\ watched.custom = Content[p]
      /\ watched.remote = Content[p]
  BY <1>2, <1>3, WatchersType
<1>5. \/ /\ now.remote # object.remote
         /\ agent' = [agent EXCEPT ![held[p]] = watched]
         /\ stage' = [stage EXCEPT ![p] = "sending"]
         /\ notified' = notified
      \/ /\ now.remote = object.remote
         /\ agent' = [agent EXCEPT ![held[p]] = now]
         /\ stage' = [stage EXCEPT ![p] = "waiting"]
         /\ notified' = notified \cup {p}
  BY DEF SetCustomConfig, Stage
<1> HIDE DEF now, watched
<1> QED
  BY <1>1, <1>2, <1>4, <1>5 DEF DeliveryTypeOK

\* The steps of the pushes.
LEMMA PushTypeStep ==
  ASSUME DeliveryTypeOK, NEW p \in Pushes, StoreConfig(p) \/ Deliver(p)
  PROVE  DeliveryTypeOK'
<1> USE DEF connVars, handlerVars, storeVars, pushVars, agentVars
<1>1. CASE StoreConfig(p)
  <2>1. agentConfig' \in Configs \cup {None}
    BY <1>1, ConfigFacts DEF StoreConfig, Latest, DeliveryTypeOK
  <2>2. groupConfig' \in [Groups -> Configs \cup {None}]
    <3>1. Target[p] \in Groups \cup {None}
      BY DeliveryAssumption
    <3>2. Target[p] # None => Latest(groupConfig[Target[p]], Content[p]) \subseteq Configs
      BY <3>1, ConfigFacts DEF Latest, DeliveryTypeOK
    <3> QED
      BY <1>1, <3>1, <3>2 DEF StoreConfig, DeliveryTypeOK
  <2>3. \/ stage' = [stage EXCEPT ![p] = "stored"]
        \/ stage' = [stage EXCEPT ![p] = "failed"]
    BY <1>1 DEF StoreConfig, Stage
  <2>4. /\ stage' \in [Pushes -> Stages]
        /\ stage'[p] \in {"stored", "failed"}
        /\ \A q \in Pushes \ {p} : stage'[q] = stage[q]
    BY <2>3 DEF DeliveryTypeOK, Stages
  <2> QED
    BY <1>1, <2>1, <2>2, <2>4 DEF StoreConfig, DeliveryTypeOK
<1>2. CASE CloneAgents(p)
  BY <1>2 DEF CloneAgents, Stage, Stages, DeliveryTypeOK
<1>3. CASE FindAgent(p)
  <2>1. conn \in Connections
    BY DEF DeliveryTypeOK
  <2>2. conn # None
    BY <2>1, DeliveryAssumption DEF Connections
  <2> QED
    BY <1>3, <2>1, <2>2 DEF FindAgent, Stage, Stages, DeliveryTypeOK
<1>4. CASE SetCustomConfig(p)
  <2>1. held[p] # None
    BY <1>4 DEF SetCustomConfig, DeliveryTypeOK
  <2>2. /\ stage' \in [Pushes -> Stages]
        /\ notified' \subseteq Pushes
        /\ \A q \in Pushes \ {p} : stage'[q] = stage[q]
    <3>1. /\ \/ stage' = [stage EXCEPT ![p] = "sending"]
             \/ stage' = [stage EXCEPT ![p] = "waiting"]
          /\ notified' \in {notified, notified \cup {p}}
      BY <1>4, CustomObject
    <3> QED
      BY <3>1 DEF DeliveryTypeOK, Stages
  <2> QED
    BY <1>4, <2>1, <2>2, CustomObject DEF SetCustomConfig, DeliveryTypeOK
<1>5. CASE SendToAgent(p)
  <2>1. [config |-> Content[p], full |-> FALSE] \in ToAgent
    BY ConfigFacts DEF ToAgent
  <2>2. down' \in Seq(ToAgent) /\ lost' \in Nat
    <3>1. down \in Seq(ToAgent) /\ lost \in Nat
      BY DEF DeliveryTypeOK
    <3>2. Append(down, [config |-> Content[p], full |-> FALSE]) \in Seq(ToAgent)
      BY <2>1, <3>1, AppendFacts
    <3>3. /\ down' \in {down, Append(down, [config |-> Content[p], full |-> FALSE])}
          /\ lost' \in {lost, lost + 1}
      BY <1>5 DEF SendToAgent
    <3> QED
      BY <3>1, <3>2, <3>3
  <2> QED
    BY <1>5, <2>2 DEF SendToAgent, Stage, Stages, DeliveryTypeOK
<1>6. CASE Succeed(p)
  BY <1>6 DEF Succeed, Stage, Stages, DeliveryTypeOK
<1>7. CASE TimeOut(p)
  BY <1>7 DEF TimeOut, Stage, Stages, DeliveryTypeOK
<1> QED
  BY <1>1, <1>2, <1>3, <1>4, <1>5, <1>6, <1>7 DEF Deliver

LEMMA TypeStep == DeliveryTypeOK /\ [DeliveryNext]_deliveryVars => DeliveryTypeOK'
<1> SUFFICES ASSUME DeliveryTypeOK, [DeliveryNext]_deliveryVars
             PROVE  DeliveryTypeOK'
  OBVIOUS
<1>1. CASE UNCHANGED deliveryVars
  BY <1>1 DEF deliveryVars, connVars, handlerVars, storeVars, pushVars, agentVars,
              DeliveryTypeOK
<1> QED
  BY <1>1, AgentTypeStep, HandlerTypeStep, PushTypeStep DEF DeliveryNext

(***************************************************************************)
(* Every variable keeps its type, and what the message handler and a push  *)
(* need is there when they need it.                                        *)
(***************************************************************************)
THEOREM DeliveryTypeCorrect == DeliverySpec => []DeliveryTypeOK
BY TypeInit, TypeStep, PTL DEF DeliverySpec

-----------------------------------------------------------------------------
(***************************************************************************)
(* Who touches an object: all other steps leave every Agent object alone.  *)
(***************************************************************************)
LEMMA ObjectsChange ==
  ASSUME DeliveryTypeOK, [DeliveryNext]_deliveryVars
  PROVE  \/ ProcessAgentGrouping
         \/ SetInitialConfig
         \/ UpdateStatus
         \/ \E p \in Pushes : SetCustomConfig(p)
         \/ agent' = agent
<1> USE DEF connVars, handlerVars, storeVars, pushVars, agentVars
<1>1. CASE AgentSends \/ AgentReceives \/ Regroup \/ Reconnect \/ OnMessage
  BY <1>1 DEF AgentSends, AgentReceives, Regroup, Reconnect, OnMessage
<1>2. CASE Handle
  BY <1>2 DEF Handle, GetLatestConfigForAgent, GetLatestConfigForGroup, Answer
<1>3. ASSUME NEW p \in Pushes, StoreConfig(p) \/ Deliver(p)
      PROVE  SetCustomConfig(p) \/ agent' = agent
  BY <1>3 DEF StoreConfig, Deliver, CloneAgents, FindAgent, SendToAgent, Succeed, TimeOut
<1>4. CASE UNCHANGED deliveryVars
  BY <1>4 DEF deliveryVars
<1> QED
  BY <1>1, <1>2, <1>3, <1>4 DEF DeliveryNext

LEMMA OfferStep ==
  DeliveryTypeOK /\ OfferIsWhatWasSet /\ [DeliveryNext]_deliveryVars => OfferIsWhatWasSet'
<1> SUFFICES ASSUME DeliveryTypeOK, OfferIsWhatWasSet, [DeliveryNext]_deliveryVars
             PROVE  OfferIsWhatWasSet'
  OBVIOUS
<1>1. CASE ProcessAgentGrouping
  BY <1>1, GroupingObject DEF OfferIsWhatWasSet
<1>2. CASE SetInitialConfig
  <2>1. chosen # None
    BY <1>2, SetInitialObject, ConfigFacts
  <2> QED
    BY <1>2, <2>1, SetInitialObject DEF OfferIsWhatWasSet
<1>3. CASE UpdateStatus
  <2>1. Current.custom # None
    BY CurrentType, ObjectFields, ConfigFacts
  <2>2. Current.known \/ DescriptionChanged(Current)
    BY DEF DescriptionChanged
  <2>3. /\ Current.known => Current.remote # None
        /\ Current.remote \in {None, Current.custom}
    BY DEF OfferIsWhatWasSet, Current, DeliveryTypeOK
  <2>4. Updated.remote = Updated.custom /\ Updated.custom # None
    BY <1>3, <2>1, <2>2, <2>3, UpdatedObject
  <2> QED
    BY <1>3, <2>4, UpdateObject DEF OfferIsWhatWasSet
<1>4. ASSUME NEW p \in Pushes, SetCustomConfig(p)
      PROVE  OfferIsWhatWasSet'
  <2>1. Content[p] # None
    BY ConfigFacts
  <2> QED
    BY <1>4, <2>1, CustomObject DEF OfferIsWhatWasSet
<1>5. CASE agent' = agent
  BY <1>5 DEF OfferIsWhatWasSet
<1> QED
  BY <1>1, <1>2, <1>3, <1>4, <1>5, ObjectsChange

(***************************************************************************)
(* The comparison of hashes in processStatusUpdate always finds a remote   *)
(* configuration, and it is the one that was set last.                     *)
(***************************************************************************)
THEOREM OfferAlwaysSet == DeliverySpec => []OfferIsWhatWasSet
<1>1. DeliveryInit => OfferIsWhatWasSet
  BY DEF DeliveryInit, OfferIsWhatWasSet, NewAgent
<1> QED
  BY <1>1, OfferStep, DeliveryTypeCorrect, PTL DEF DeliverySpec

(***************************************************************************)
(* A watcher is taken from an object only by UpdateStatus, which notifies  *)
(* it, and a push gets to wait only as a watcher or notified.              *)
(***************************************************************************)
LEMMA WakeupStep ==
  DeliveryTypeOK /\ NoLostWakeup /\ [DeliveryNext]_deliveryVars => NoLostWakeup'
<1> SUFFICES ASSUME DeliveryTypeOK, NoLostWakeup, [DeliveryNext]_deliveryVars,
                    NEW q \in Pushes, stage'[q] \in {"sending", "waiting"}
             PROVE  q \in notified' \/ q \in agent'[held'[q]].watchers
  BY DEF NoLostWakeup
<1> DEFINE Watched == q \in notified \/ q \in agent[held[q]].watchers
<1>1. stage[q] \in {"sending", "waiting"} => Watched /\ held[q] \in Connections
  BY DEF NoLostWakeup, DeliveryTypeOK
<1> USE DEF connVars, handlerVars, storeVars, pushVars, agentVars
<1>2. CASE UNCHANGED <<stage, held, notified, agent>>
  BY <1>1, <1>2
<1>3. CASE ProcessAgentGrouping
  <2>1. UNCHANGED <<stage, held, notified>>
    BY <1>3 DEF ProcessAgentGrouping
  <2> QED
    BY <1>1, <1>3, <2>1, GroupingObject
<1>4. CASE SetInitialConfig
  <2>1. UNCHANGED <<stage, held, notified>>
    BY <1>4 DEF SetInitialConfig
  <2> QED
    BY <1>1, <1>4, <2>1, SetInitialObject DEF Current
<1>5. CASE UpdateStatus
  <2>1. UNCHANGED <<stage, held>> /\ notified' = notified \cup agent[conn].watchers
    BY <1>5 DEF UpdateStatus, Current
  <2> QED
    BY <1>1, <1>5, <2>1, UpdateObject
<1>6. ASSUME NEW p \in Pushes, SetCustomConfig(p)
      PROVE  q \in notified' \/ q \in agent'[held'[q]].watchers
  <2>1. held' = held
    BY <1>6 DEF SetCustomConfig
  <2>2. notified \subseteq notified'
        /\ \A k \in Connections : agent[k].watchers \subseteq agent'[k].watchers
    BY <1>6, CustomObject
  <2>3. p \in notified' \/ p \in agent'[held[p]].watchers
    BY <1>6, CustomObject
  <2>4. q # p => stage'[q] = stage[q]
    <3>1. \/ stage' = [stage EXCEPT ![p] = "sending"]
          \/ stage' = [stage EXCEPT ![p] = "waiting"]
      BY <1>6, CustomObject
    <3> QED
      BY <3>1 DEF DeliveryTypeOK
  <2> QED
    BY <1>1, <2>1, <2>2, <2>3, <2>4
<1>7. ASSUME NEW p \in Pushes,
             StoreConfig(p) \/ CloneAgents(p) \/ FindAgent(p) \/ Succeed(p) \/ TimeOut(p)
      PROVE  q \in notified' \/ q \in agent'[held'[q]].watchers
  <2>1. UNCHANGED <<agent, notified>>
    BY <1>7 DEF StoreConfig, CloneAgents, FindAgent, Succeed, TimeOut
  <2>2. \E s \in {"stored", "failed", "member", "skipped", "found", "ok"} :
          stage' = [stage EXCEPT ![p] = s]
    BY <1>7 DEF StoreConfig, CloneAgents, FindAgent, Succeed, TimeOut, Stage
  <2>3. q # p /\ stage'[q] = stage[q]
    BY <2>2 DEF DeliveryTypeOK
  <2>4. held'[q] = held[q]
    BY <1>7, <2>3 DEF StoreConfig, CloneAgents, FindAgent, Succeed, TimeOut, DeliveryTypeOK
  <2> QED
    BY <1>1, <2>1, <2>3, <2>4
<1>8. ASSUME NEW p \in Pushes, SendToAgent(p)
      PROVE  q \in notified' \/ q \in agent'[held'[q]].watchers
  <2>1. UNCHANGED <<agent, notified, held>>
    BY <1>8 DEF SendToAgent
  <2>2. stage[p] = "sending" /\ stage' = [stage EXCEPT ![p] = "waiting"]
    BY <1>8 DEF SendToAgent, Stage
  <2>3. stage[q] \in {"sending", "waiting"}
    BY <2>2 DEF DeliveryTypeOK
  <2> QED
    BY <1>1, <2>1, <2>3
<1>9. CASE AgentSends \/ AgentReceives \/ Regroup \/ Reconnect \/ OnMessage
  BY <1>2, <1>9 DEF AgentSends, AgentReceives, Regroup, Reconnect, OnMessage
<1>10. CASE GetLatestConfigForAgent \/ GetLatestConfigForGroup \/ Answer
  BY <1>2, <1>10 DEF GetLatestConfigForAgent, GetLatestConfigForGroup, Answer
<1>11. CASE UNCHANGED deliveryVars
  BY <1>2, <1>11 DEF deliveryVars
<1> QED
  BY <1>3, <1>4, <1>5, <1>6, <1>7, <1>8, <1>9, <1>10, <1>11 DEF DeliveryNext, Handle, Deliver

(***************************************************************************)
(* No push that changed a configuration waits unwatched and unnotified.    *)
(***************************************************************************)
THEOREM NoWakeupIsLost == DeliverySpec => []NoLostWakeup
<1>1. DeliveryInit => NoLostWakeup
  BY DEF DeliveryInit, NoLostWakeup
<1> QED
  BY <1>1, WakeupStep, DeliveryTypeCorrect, PTL DEF DeliverySpec

-----------------------------------------------------------------------------
(***************************************************************************)
(* The agent that reports is in step when all is quiet.  First, which      *)
(* steps touch what the two links of the invariant speak about.            *)
(***************************************************************************)
LEMMA Elsewhere ==
  ASSUME DeliveryTypeOK, [DeliveryNext]_deliveryVars
  PROVE  \/ AgentSends \/ AgentReceives \/ Regroup \/ Reconnect \/ OnMessage
         \/ UNCHANGED <<connVars, up, dirty, applied>>
<1> USE DEF connVars, handlerVars, storeVars, pushVars, agentVars
<1>1. CASE Handle
  BY <1>1 DEF Handle, ProcessAgentGrouping, GetLatestConfigForAgent, GetLatestConfigForGroup,
              SetInitialConfig, UpdateStatus, Answer
<1>2. ASSUME NEW p \in Pushes, StoreConfig(p) \/ Deliver(p)
      PROVE  UNCHANGED <<connVars, up, dirty, applied>>
  BY <1>2 DEF StoreConfig, Deliver, CloneAgents, FindAgent, SetCustomConfig, SendToAgent,
              Succeed, TimeOut
<1>3. CASE UNCHANGED deliveryVars
  BY <1>3 DEF deliveryVars
<1> QED
  BY <1>1, <1>2, <1>3 DEF DeliveryNext

\* What one step of the handler does to the statement it has reached.
LEMMA HandlerAt ==
  ASSUME DeliveryTypeOK, [DeliveryNext]_deliveryVars
  PROVE  \/ OnMessage
         \/ UpdateStatus
         \/ Answer
         \/ Handling /\ Handling' /\ UNCHANGED <<msg, response, stage, held, down, lost>>
         \/ UNCHANGED <<pc, msg, response>>
<1> USE DEF connVars, handlerVars, storeVars, pushVars, agentVars
<1>1. CASE ProcessAgentGrouping \/ GetLatestConfigForAgent \/ GetLatestConfigForGroup
             \/ SetInitialConfig
  BY <1>1 DEF ProcessAgentGrouping, GetLatestConfigForAgent, GetLatestConfigForGroup,
              SetInitialConfig, Handling
<1>2. CASE AgentSends \/ AgentReceives \/ Regroup \/ Reconnect
  BY <1>2 DEF AgentSends, AgentReceives, Regroup, Reconnect
<1>3. ASSUME NEW p \in Pushes, StoreConfig(p) \/ Deliver(p)
      PROVE  UNCHANGED <<pc, msg, response>>
  BY <1>3 DEF StoreConfig, Deliver, CloneAgents, FindAgent, SetCustomConfig, SendToAgent,
              Succeed, TimeOut
<1>4. CASE UNCHANGED deliveryVars
  BY <1>4 DEF deliveryVars
<1> QED
  BY <1>1, <1>2, <1>3, <1>4 DEF DeliveryNext, Handle

\* The known and the reported of the present object change with UpdateStatus only.
LEMMA StatusStays ==
  ASSUME DeliveryTypeOK, [DeliveryNext]_deliveryVars, ~UpdateStatus
  PROVE  \A k \in Connections :
           agent'[k].known = agent[k].known /\ agent'[k].reported = agent[k].reported
<1>1. CASE ProcessAgentGrouping
  BY <1>1, GroupingObject
<1>2. CASE SetInitialConfig
  BY <1>2, SetInitialObject DEF Current
<1>3. ASSUME NEW p \in Pushes, SetCustomConfig(p)
      PROVE  \A k \in Connections :
               agent'[k].known = agent[k].known /\ agent'[k].reported = agent[k].reported
  BY <1>3, CustomObject
<1> QED
  BY <1>1, <1>2, <1>3, ObjectsChange

LEMMA KnownStep ==
  DeliveryTypeOK /\ KnownWhenHeard /\ [DeliveryNext]_deliveryVars => KnownWhenHeard'
<1> SUFFICES ASSUME DeliveryTypeOK, KnownWhenHeard, [DeliveryNext]_deliveryVars
             PROVE  KnownWhenHeard'
  OBVIOUS
<1>1. conn \in Connections /\ conn' \in Connections
  BY TypeStep DEF DeliveryTypeOK
<1>2. CASE UpdateStatus
  <2>1. conn' = conn
    BY <1>2 DEF UpdateStatus, connVars
  <2> QED
    BY <1>1, <1>2, <2>1, UpdateObject DEF KnownWhenHeard, Current
<1>3. CASE ~UpdateStatus
  <2>1. \A k \in Connections :
          agent'[k].known = agent[k].known /\ agent'[k].reported = agent[k].reported
    BY <1>3, StatusStays
  <2>2. registered' /\ ~Handling' => registered /\ ~Handling /\ conn' = conn
    <3>1. CASE Reconnect
      BY <3>1 DEF Reconnect
    <3>2. CASE OnMessage
      BY <3>2 DEF OnMessage, Handling
    <3>3. CASE ~Reconnect /\ ~OnMessage
      <4>1. UNCHANGED <<conn, registered>>
        BY <3>3, Elsewhere DEF connVars, AgentSends, AgentReceives, Regroup
      <4>2. ~Handling' => ~Handling
        BY <1>3, <3>3, HandlerAt DEF Answer, Handling
      <4> QED
        BY <4>1, <4>2
    <3> QED
      BY <3>1, <3>2, <3>3
  <2> QED
    BY <1>1, <2>1, <2>2 DEF KnownWhenHeard, Current
<1> QED
  BY <1>2, <1>3

\* A report that is under way stays so until the handler has it.
LEMMA ReportStays ==
  ASSUME DeliveryTypeOK, Reports, [DeliveryNext]_deliveryVars
  PROVE  /\ ReportComing => ReportComing' \/ (OnMessage /\ msg'.status # None)
         /\ Reconnect \/ applied' # applied => ReportComing'
<1>1. CASE AgentSends
  <2> DEFINE m == [group |-> IF "description" \in dirty THEN group ELSE None,
                   status |-> IF "status" \in dirty THEN applied ELSE None]
  <2>1. m \in ToServer /\ ("status" \in dirty => m.status # None)
    BY ConfigFacts DEF ToServer, DeliveryTypeOK
  <2>2. up' = Append(up, m) /\ applied' = applied /\ conn' = conn
    BY <1>1 DEF AgentSends, connVars
  <2> HIDE DEF m
  <2>3. /\ Len(up) \in Nat
        /\ Len(up') = Len(up) + 1
        /\ \A k \in 1..Len(up) : up'[k] = up[k]
        /\ up'[Len(up) + 1] = m
    BY <2>1, <2>2, AppendFacts DEF DeliveryTypeOK
  <2>4. ReportComing => ReportComing'
    BY <2>1, <2>3 DEF ReportComing
  <2>5. ~Reconnect
    <3>1. Reconnect => conn' = conn + 1 /\ conn \in Nat
      BY DEF Reconnect, DeliveryTypeOK, Connections
    <3> QED
      BY <2>2, <3>1
  <2> QED
    BY <2>2, <2>4, <2>5
<1>2. CASE AgentReceives
  <2>1. up' = up /\ dirty \subseteq dirty' /\ (applied' # applied => "status" \in dirty')
    BY <1>2 DEF AgentReceives
  <2>2. ~Reconnect
    <3>1. Reconnect => conn' = conn + 1 /\ conn \in Nat
      BY DEF Reconnect, DeliveryTypeOK, Connections
    <3>2. conn' = conn
      BY <1>2 DEF AgentReceives, connVars
    <3> QED
      BY <3>1, <3>2
  <2> QED
    BY <2>1, <2>2 DEF ReportComing
<1>3. CASE Reconnect
  <2>1. "status" \in dirty'
    BY <1>3 DEF Reconnect
  <2> QED
    BY <2>1 DEF ReportComing
<1>4. CASE OnMessage /\ ~Reconnect
  <2>1. /\ msg' = up[1]
        /\ Len(up) \in Nat \ {0}
        /\ Len(up') = Len(up) - 1
        /\ \A k \in 1..Len(up') : up'[k] = up[k + 1]
        /\ dirty' = dirty /\ applied' = applied
    BY <1>4, TailFacts DEF OnMessage, DeliveryTypeOK, agentVars
  <2>2. ASSUME NEW j \in 1..Len(up), up[j].status # None, msg'.status = None
        PROVE  ReportComing'
    <3>1. j - 1 \in 1..Len(up') /\ up'[j - 1] = up[j]
      BY <2>1, <2>2
    <3> QED
      BY <2>2, <3>1 DEF ReportComing
  <2> QED
    BY <1>4, <2>1, <2>2 DEF ReportComing
<1>5. CASE Regroup /\ ~Reconnect
  BY <1>5 DEF Regroup, ReportComing
<1>6. CASE UNCHANGED <<connVars, up, dirty, applied>> /\ ~Reconnect
  BY <1>6 DEF ReportComing
<1> QED
  BY <1>1, <1>2, <1>3, <1>4, <1>5, <1>6, Elsewhere

\* The messages under way to the agent stay so until the agent has them.
LEMMA DownStays ==
  ASSUME DeliveryTypeOK, [DeliveryNext]_deliveryVars
  PROVE  \/ AgentReceives
         \/ Reconnect
         \/ /\ Len(down) \in Nat /\ Len(down') \in Nat
            /\ Len(down') >= Len(down)
            /\ \A k \in 1..Len(down) : down'[k] = down[k]
<1> DEFINE Grows == /\ Len(down) \in Nat /\ Len(down') \in Nat
                    /\ Len(down') >= Len(down)
                    /\ \A k \in 1..Len(down) : down'[k] = down[k]
<1> USE DEF connVars, handlerVars, storeVars, pushVars, agentVars
<1>1. down \in Seq(ToAgent) /\ Len(down) \in Nat
  BY DEF DeliveryTypeOK
<1>2. CASE down' = down
  BY <1>1, <1>2
<1>3. ASSUME NEW m \in ToAgent, down' = Append(down, m)
      PROVE  Grows
  BY <1>1, <1>3, AppendFacts
<1>4. CASE Answer
  <2>1. response \in ToAgent
    BY <1>4 DEF Answer, DeliveryTypeOK
  <2> QED
    BY <1>2, <1>3, <1>4, <2>1 DEF Answer
<1>5. ASSUME NEW p \in Pushes, SendToAgent(p)
      PROVE  Grows
  <2>1. [config |-> Content[p], full |-> FALSE] \in ToAgent
    BY ConfigFacts DEF ToAgent
  <2> QED
    BY <1>2, <1>3, <1>5, <2>1 DEF SendToAgent
<1>6. CASE AgentSends \/ Regroup \/ OnMessage
  BY <1>2, <1>6 DEF AgentSends, Regroup, OnMessage
<1>7. CASE ProcessAgentGrouping \/ GetLatestConfigForAgent \/ GetLatestConfigForGroup
             \/ SetInitialConfig \/ UpdateStatus
  BY <1>2, <1>7 DEF ProcessAgentGrouping, GetLatestConfigForAgent, GetLatestConfigForGroup,
                    SetInitialConfig, UpdateStatus
<1>8. ASSUME NEW p \in Pushes,
             StoreConfig(p) \/ CloneAgents(p) \/ FindAgent(p) \/ SetCustomConfig(p)
               \/ Succeed(p) \/ TimeOut(p)
      PROVE  Grows
  BY <1>2, <1>8 DEF StoreConfig, CloneAgents, FindAgent, SetCustomConfig, Succeed, TimeOut
<1>9. CASE UNCHANGED deliveryVars
  BY <1>2, <1>9 DEF deliveryVars
<1> QED
  BY <1>4, <1>5, <1>6, <1>7, <1>8, <1>9 DEF DeliveryNext, Handle, Deliver

\* Clause of ReportsFollow about the reports under way.
LEMMA OutdatedAreFollowed ==
  ASSUME DeliveryTypeOK, ReportsFollow, Reports, [DeliveryNext]_deliveryVars,
         NEW k \in 1..Len(up'), up'[k].status \notin {None, applied'}
  PROVE  "status" \in dirty' \/ \E j \in 1..Len(up') : j > k /\ up'[j].status # None
<1> DEFINE Follows == "status" \in dirty' \/ \E j \in 1..Len(up') : j > k /\ up'[j].status # None
<1>1. \A i \in 1..Len(up) : up[i].status \notin {None, applied} =>
        "status" \in dirty \/ \E j \in 1..Len(up) : j > i /\ up[j].status # None
  BY DEF ReportsFollow
<1>2. Len(up) \in Nat
  BY DEF DeliveryTypeOK
<1>3. CASE AgentSends
  <2> DEFINE m == [group |-> IF "description" \in dirty THEN group ELSE None,
                   status |-> IF "status" \in dirty THEN applied ELSE None]
  <2>1. /\ m \in ToServer
        /\ m.status \in {None, applied}
        /\ "status" \in dirty => m.status # None
    BY ConfigFacts DEF ToServer, DeliveryTypeOK
  <2>2. up' = Append(up, m) /\ applied' = applied
    BY <1>3 DEF AgentSends
  <2> HIDE DEF m
  <2>3. /\ Len(up') = Len(up) + 1
        /\ \A i \in 1..Len(up) : up'[i] = up[i]
        /\ up'[Len(up) + 1] = m
    BY <2>1, <2>2, AppendFacts DEF DeliveryTypeOK
  <2>4. k \in 1..Len(up)
    BY <1>2, <2>1, <2>2, <2>3
  <2>5. "status" \in dirty \/ \E j \in 1..Len(up) : j > k /\ up[j].status # None
    BY <1>1, <2>2, <2>3, <2>4
  <2>6. CASE "status" \in dirty
    <3>1. Len(up) + 1 \in 1..Len(up') /\ Len(up) + 1 > k
      BY <1>2, <2>3, <2>4
    <3> QED
      BY <2>1, <2>3, <2>6, <3>1
  <2>7. CASE \E j \in 1..Len(up) : j > k /\ up[j].status # None
    BY <1>2, <2>3, <2>7
  <2> QED
    BY <2>5, <2>6, <2>7
<1>4. CASE AgentReceives
  BY <1>1, <1>4 DEF AgentReceives
<1>5. CASE Reconnect
  BY <1>5 DEF Reconnect
<1>6. CASE OnMessage
  <2>1. /\ up # <<>> /\ up' = Tail(up)
        /\ dirty' = dirty /\ applied' = applied
    BY <1>6 DEF OnMessage, agentVars
  <2>2. /\ Len(up') = Len(up) - 1
        /\ \A i \in 1..Len(up') : up'[i] = up[i + 1]
    BY <2>1, TailFacts DEF DeliveryTypeOK
  <2>3. k + 1 \in 1..Len(up) /\ up[k + 1] = up'[k]
    BY <1>2, <2>2
  <2>4. CASE "status" \in dirty
    BY <2>1, <2>4
  <2>5. ASSUME NEW j \in 1..Len(up), j > k + 1, up[j].status # None
        PROVE  Follows
    <3>1. j - 1 \in 1..Len(up') /\ j - 1 > k /\ up'[j - 1] = up[j]
      BY <1>2, <2>2, <2>5
    <3> QED
      BY <2>5, <3>1
  <2> QED
    BY <1>1, <2>1, <2>3, <2>4, <2>5
<1>7. CASE Regroup
  BY <1>1, <1>7 DEF Regroup
<1>8. CASE UNCHANGED <<connVars, up, dirty, applied>>
  BY <1>1, <1>8
<1> QED
  BY <1>3, <1>4, <1>5, <1>6, <1>7, <1>8, Elsewhere

\* Clause about the report in the handler's hands.
LEMMA HandledIsFollowed ==
  ASSUME DeliveryTypeOK, ReportsFollow, Reports, [DeliveryNext]_deliveryVars,
         Handling', msg'.status \notin {None, applied'}
  PROVE  ReportComing'
<1>1. CASE OnMessage
  <2>1. /\ up # <<>> /\ up' = Tail(up) /\ msg' = Head(up)
        /\ dirty' = dirty /\ applied' = applied
    BY <1>1 DEF OnMessage, agentVars
  <2>2. /\ msg' = up[1]
        /\ Len(up) \in Nat \ {0}
        /\ Len(up') = Len(up) - 1
        /\ \A i \in 1..Len(up') : up'[i] = up[i + 1]
    BY <2>1, TailFacts DEF DeliveryTypeOK
  <2>3. "status" \in dirty \/ \E j \in 1..Len(up) : j > 1 /\ up[j].status # None
    BY <2>1, <2>2 DEF ReportsFollow
  <2>4. ASSUME NEW j \in 1..Len(up), j > 1, up[j].status # None
        PROVE  ReportComing'
    <3>1. j - 1 \in 1..Len(up') /\ up'[j - 1] = up[j]
      BY <2>2, <2>4
    <3> QED
      BY <2>4, <3>1 DEF ReportComing
  <2> QED
    BY <2>1, <2>3, <2>4 DEF ReportComing
<1>2. CASE ~OnMessage
  <2>1. Handling /\ msg' = msg
    BY <1>2, HandlerAt DEF UpdateStatus, Answer, Handling
  <2>2. applied' = applied => ReportComing
    BY <2>1 DEF ReportsFollow
  <2> QED
    BY <1>2, <2>2, ReportStays
<1> QED
  BY <1>1, <1>2

\* A request for the full state stays under way, or the agent follows it.
LEMMA RequestStays ==
  ASSUME DeliveryTypeOK, Reports, [DeliveryNext]_deliveryVars, RequestComing
  PROVE  RequestComing' \/ ReportComing'
<1> USE DEF connVars, handlerVars, storeVars, pushVars, agentVars
<1>1. CASE Reconnect
  BY <1>1, ReportStays
<1>2. CASE AgentReceives
  <2>1. /\ down # <<>> /\ down' = Tail(down)
        /\ UNCHANGED <<pc, response>>
        /\ Head(down).full => "status" \in dirty'
    BY <1>2 DEF AgentReceives
  <2>2. /\ Head(down) = down[1]
        /\ Len(down) \in Nat \ {0}
        /\ Len(down') = Len(down) - 1
        /\ \A i \in 1..Len(down') : down'[i] = down[i + 1]
    BY <2>1, TailFacts DEF DeliveryTypeOK
  <2>3. ASSUME NEW j \in 1..Len(down), down[j].full
        PROVE  RequestComing' \/ ReportComing'
    <3>1. CASE j = 1
      BY <2>1, <2>2, <2>3, <3>1 DEF ReportComing
    <3>2. CASE j # 1
      <4>1. j - 1 \in 1..Len(down') /\ down'[j - 1] = down[j]
        BY <2>2, <3>2
      <4> QED
        BY <2>3, <4>1 DEF RequestComing
    <3> QED
      BY <3>1, <3>2
  <2> QED
    BY <2>1, <2>3 DEF RequestComing
<1>3. CASE ~Reconnect /\ ~AgentReceives
  <2>1. /\ Len(down) \in Nat /\ Len(down') \in Nat
        /\ Len(down') >= Len(down)
        /\ \A k \in 1..Len(down) : down'[k] = down[k]
    BY <1>3, DownStays
  <2>2. ASSUME NEW j \in 1..Len(down), down[j].full
        PROVE  RequestComing'
    <3>1. j \in 1..Len(down') /\ down'[j] = down[j]
      BY <2>1
    <3> QED
      BY <2>2, <3>1 DEF RequestComing
  <2>3. ASSUME pc = "answering", response.full
        PROVE  RequestComing'
    <3>1. CASE Answer
      <4>1. response \in ToAgent /\ response # Silence
        BY <2>3 DEF DeliveryTypeOK, Silence
      <4>2. down' = Append(down, response) /\ down \in Seq(ToAgent)
        BY <3>1, <4>1 DEF Answer, DeliveryTypeOK
      <4>3. Len(down') = Len(down) + 1 /\ down'[Len(down) + 1] = response
        BY <4>1, <4>2, AppendFacts
      <4>4. Len(down) + 1 \in 1..Len(down')
        BY <2>1, <4>3
      <4> QED
        BY <2>3, <4>3, <4>4 DEF RequestComing
    <3>2. CASE ~Answer
      <4>1. UNCHANGED <<pc, response>>
        BY <2>3, <3>2, HandlerAt DEF OnMessage, UpdateStatus, Handling
      <4> QED
        BY <2>3, <4>1 DEF RequestComing
    <3> QED
      BY <3>1, <3>2
  <2> QED
    BY <2>2, <2>3 DEF RequestComing
<1> QED
  BY <1>1, <1>2, <1>3

\* Clause about what the server knows.
LEMMA KnownIsFollowed ==
  ASSUME DeliveryTypeOK, KnownWhenHeard, ReportsFollow, Reports, [DeliveryNext]_deliveryVars,
         Current'.known, Current'.reported # applied'
  PROVE  \/ ReportComing'
         \/ Handling' /\ msg'.status # None
         \/ Current'.reported = None /\ RequestComing'
<1>1. conn \in Connections
  BY DEF DeliveryTypeOK
<1>2. CASE Reconnect \/ applied' # applied
  BY <1>2, ReportStays
<1>3. CASE UpdateStatus
  <2>1. UNCHANGED <<conn, applied, up, dirty, down>>
    BY <1>3 DEF UpdateStatus, connVars, agentVars
  <2>2. Current'.reported = IF msg.status # None THEN msg.status ELSE Current.reported
    BY <1>3, <2>1, UpdateObject, UpdatedObject DEF Current
  <2>3. ReportComing <=> ReportComing'
    BY <2>1 DEF ReportComing
  <2>4. CASE msg.status # None
    <3>1. Handling
      BY <1>3 DEF UpdateStatus, Handling
    <3> QED
      BY <2>1, <2>2, <2>3, <2>4, <3>1 DEF ReportsFollow
  <2>5. CASE msg.status = None /\ Current.known
    <3>1. ReportComing \/ (Current.reported = None /\ RequestComing)
      BY <2>1, <2>2, <2>5 DEF ReportsFollow
    <3> QED
      BY <2>2, <2>3, <2>5, <3>1, RequestStays
  <2>6. CASE msg.status = None /\ ~Current.known
    <3>1. Current.reported = None
      BY <1>1, <2>6 DEF KnownWhenHeard, Current
    <3>2. response'.full /\ pc' = "answering"
      <4>1. response'.full = AsksForFullState(Current)
        BY <1>3, UpdateResponse
      <4>2. AsksForFullState(Current)
        BY <2>6 DEF AsksForFullState
      <4>3. pc' = "answering"
        BY <1>3 DEF UpdateStatus
      <4> QED
        BY <4>1, <4>2, <4>3
    <3> QED
      BY <2>2, <2>6, <3>1, <3>2 DEF RequestComing
  <2> QED
    BY <2>4, <2>5, <2>6
<1>4. CASE ~UpdateStatus /\ ~Reconnect /\ applied' = applied
  <2>1. conn' = conn
    BY <1>4, Elsewhere DEF connVars, AgentSends, AgentReceives, Regroup, OnMessage
  <2>2. Current'.known = Current.known /\ Current'.reported = Current.reported
    BY <1>1, <1>4, <2>1, StatusStays DEF Current
  <2>3. \/ ReportComing
        \/ Handling /\ msg.status # None
        \/ Current.reported = None /\ RequestComing
    BY <1>4, <2>2 DEF ReportsFollow
  <2>4. CASE ReportComing
    <3>1. OnMessage => Handling'
      BY DEF OnMessage, Handling
    <3> QED
      BY <2>4, <3>1, ReportStays
  <2>5. CASE Handling /\ msg.status # None
    <3>1. Handling' /\ msg' = msg
      BY <1>4, <2>5, HandlerAt DEF OnMessage, Answer, Handling
    <3> QED
      BY <2>5, <3>1
  <2>6. CASE Current.reported = None /\ RequestComing
    BY <2>2, <2>6, RequestStays
  <2> QED
    BY <2>3, <2>4, <2>5, <2>6
<1> QED
  BY <1>2, <1>3, <1>4

LEMMA ReportsStep ==
  ASSUME DeliveryTypeOK, KnownWhenHeard, ReportsFollow, [DeliveryNext]_deliveryVars
  PROVE  ReportsFollow'
<1> SUFFICES ASSUME Reports
             PROVE  ReportsFollow'
  BY DEF ReportsFollow
<1> QED
  BY OutdatedAreFollowed, HandledIsFollowed, KnownIsFollowed DEF ReportsFollow

(***************************************************************************)
(* The offer that differs from what the agent reported stays under way, or *)
(* the agent receives it: then it runs the offer, and reports it if that   *)
(* is news.                                                                *)
(***************************************************************************)
LEMMA OfferReceived ==
  ASSUME DeliveryTypeOK, OfferIsWhatWasSet, ReportsFollow, Reports, AgentReceives,
         Current.known, Current.reported \notin {None, Current.remote}, OfferComing
  PROVE  Handling' \/ ReportComing' \/ OfferComing'
<1>1. /\ down # <<>> /\ down' = Tail(down)
      /\ UNCHANGED <<conn, agent, pc, msg, response, stage, held, up>>
      /\ applied' = IF Head(down).config = None THEN applied ELSE Head(down).config
      /\ dirty \subseteq dirty'
      /\ applied' # applied => "status" \in dirty'
  BY DEF AgentReceives, connVars, handlerVars, pushVars
<1>2. /\ Head(down) = down[1]
      /\ Len(down) \in Nat \ {0}
      /\ Len(down') = Len(down) - 1
      /\ \A i \in 1..Len(down') : down'[i] = down[i + 1]
  BY <1>1, TailFacts DEF DeliveryTypeOK
<1>3. Current' = Current
  BY <1>1 DEF Current
<1>4. Current.remote # None
  BY DEF OfferIsWhatWasSet, Current, DeliveryTypeOK
<1>5. CASE Head(down).config = Current.remote
  <2>1. CASE applied' # applied
    BY <1>1, <2>1 DEF ReportComing
  <2>2. CASE applied' = applied
    <3>1. Current.reported # applied
      BY <1>1, <1>4, <1>5, <2>2
    <3>2. ReportComing \/ Handling
      BY <3>1 DEF ReportsFollow
    <3> QED
      BY <1>1, <3>2 DEF ReportComing, Handling
  <2> QED
    BY <2>1, <2>2
<1>6. ASSUME NEW j \in 1..Len(down), down[j].config = Current.remote, j # 1
      PROVE  OfferComing'
  <2>1. j - 1 \in 1..Len(down') /\ down'[j - 1] = down[j]
    BY <1>2, <1>6
  <2> QED
    BY <1>3, <1>6, <2>1 DEF OfferComing
<1>7. CASE \/ pc = "answering" /\ response.config = Current.remote
           \/ \E p \in Pushes :
                stage[p] = "sending" /\ held[p] = conn /\ Content[p] = Current.remote
  BY <1>1, <1>3, <1>7 DEF OfferComing
<1> QED
  BY <1>2, <1>5, <1>6, <1>7 DEF OfferComing

\* What a push that is sending becomes with a step: it stays, or has sent, or lost it.
LEMMA SendingStays ==
  ASSUME DeliveryTypeOK, [DeliveryNext]_deliveryVars, NEW q \in Pushes, stage[q] = "sending",
         held[q] = conn, lost' = 0, ~Reconnect
  PROVE  \/ stage'[q] = "sending" /\ held'[q] = conn'
         \/ \E j \in 1..Len(down') : down'[j].config = Content[q]
<1> USE DEF connVars, handlerVars, storeVars, pushVars, agentVars
<1>1. conn' = conn
  BY Elsewhere DEF AgentSends, AgentReceives, Regroup, OnMessage
<1>2. CASE UNCHANGED <<stage, held>>
  BY <1>1, <1>2
<1>3. ASSUME NEW p \in Pushes, SendToAgent(p), p = q
      PROVE  \E j \in 1..Len(down') : down'[j].config = Content[q]
  <2> DEFINE m == [config |-> Content[q], full |-> FALSE]
  <2>1. m \in ToAgent /\ m.config = Content[q]
    BY ConfigFacts DEF ToAgent
  <2>2. lost \in Nat /\ down \in Seq(ToAgent)
    BY DEF DeliveryTypeOK
  <2>3. down' = Append(down, m)
    BY <1>3, <2>2 DEF SendToAgent
  <2> HIDE DEF m
  <2>4. Len(down) \in Nat /\ Len(down') = Len(down) + 1 /\ down'[Len(down) + 1] = m
    BY <2>1, <2>2, <2>3, AppendFacts
  <2>5. Len(down) + 1 \in 1..Len(down')
    BY <2>4
  <2> QED
    BY <2>1, <2>4, <2>5
<1>4. ASSUME NEW p \in Pushes, SendToAgent(p), p # q
      PROVE  stage'[q] = "sending" /\ held'[q] = conn'
  BY <1>1, <1>4 DEF SendToAgent, Stage, DeliveryTypeOK
<1>5. ASSUME NEW p \in Pushes,
             StoreConfig(p) \/ CloneAgents(p) \/ FindAgent(p) \/ Succeed(p) \/ TimeOut(p)
      PROVE  stage'[q] = "sending" /\ held'[q] = conn'
  <2>1. p # q
    BY <1>5 DEF StoreConfig, CloneAgents, FindAgent, Succeed, TimeOut, MayFind
  <2>2. \E s \in Stages : stage' = [stage EXCEPT ![p] = s]
    BY <1>5 DEF StoreConfig, CloneAgents, FindAgent, Succeed, TimeOut, Stage, Stages
  <2>3. held' = held \/ \E k \in Connections : held' = [held EXCEPT ![p] = k]
    BY <1>5 DEF StoreConfig, CloneAgents, FindAgent, Succeed, TimeOut, DeliveryTypeOK
  <2> QED
    BY <1>1, <2>1, <2>2, <2>3 DEF DeliveryTypeOK
<1>6. ASSUME NEW p \in Pushes, SetCustomConfig(p)
      PROVE  stage'[q] = "sending" /\ held'[q] = conn'
  <2>1. stage[p] = "found" /\ held' = held
    BY <1>6 DEF SetCustomConfig
  <2>2. \/ stage' = [stage EXCEPT ![p] = "sending"]
        \/ stage' = [stage EXCEPT ![p] = "waiting"]
    BY <1>6, CustomObject
  <2> QED
    BY <1>1, <2>1, <2>2 DEF DeliveryTypeOK
<1>7. CASE AgentSends \/ AgentReceives \/ Regroup \/ OnMessage
  BY <1>2, <1>7 DEF AgentSends, AgentReceives, Regroup, OnMessage
<1>8. CASE Handle
  BY <1>2, <1>8 DEF Handle, ProcessAgentGrouping, GetLatestConfigForAgent,
                    GetLatestConfigForGroup, SetInitialConfig, UpdateStatus, Answer
<1>9. CASE UNCHANGED deliveryVars
  BY <1>2, <1>9 DEF deliveryVars
<1> QED
  BY <1>3, <1>4, <1>5, <1>6, <1>7, <1>8, <1>9 DEF DeliveryNext, Deliver

\* Steps that leave the present object's offer alone.
LEMMA OfferStays ==
  ASSUME DeliveryTypeOK, OfferIsWhatWasSet, [DeliveryNext]_deliveryVars, OfferComing, Current.known,
         ~Reconnect, ~AgentReceives, ~UpdateStatus, Current'.remote = Current.remote, lost' = 0
  PROVE  OfferComing'
<1>1. /\ Len(down) \in Nat /\ Len(down') \in Nat
      /\ Len(down') >= Len(down)
      /\ \A k \in 1..Len(down) : down'[k] = down[k]
  BY DownStays
<1>2. ASSUME NEW j \in 1..Len(down), down[j].config = Current.remote
      PROVE  OfferComing'
  <2>1. j \in 1..Len(down') /\ down'[j] = down[j]
    BY <1>1
  <2> QED
    BY <1>2, <2>1 DEF OfferComing
<1>3. ASSUME NEW q \in Pushes, stage[q] = "sending", held[q] = conn, Content[q] = Current.remote
      PROVE  OfferComing'
  BY <1>3, SendingStays DEF OfferComing
<1>4. ASSUME pc = "answering", response.config = Current.remote
      PROVE  OfferComing'
  <2>1. CASE Answer
    <3>1. Current.remote # None
      BY DEF OfferIsWhatWasSet, Current, DeliveryTypeOK
    <3>2. response \in ToAgent /\ response # Silence
      BY <1>4, <3>1 DEF DeliveryTypeOK, Silence
    <3>3. down' = Append(down, response) /\ down \in Seq(ToAgent)
      BY <2>1, <3>2 DEF Answer, DeliveryTypeOK
    <3>4. Len(down') = Len(down) + 1 /\ down'[Len(down) + 1] = response
      BY <3>2, <3>3, AppendFacts
    <3>5. Len(down) + 1 \in 1..Len(down')
      BY <1>1, <3>4
    <3> QED
      BY <1>4, <3>4, <3>5 DEF OfferComing
  <2>2. CASE ~Answer
    <3>1. UNCHANGED <<pc, response>>
      BY <1>4, <2>2, HandlerAt DEF OnMessage, Handling
    <3> QED
      BY <1>4, <3>1 DEF OfferComing
  <2> QED
    BY <2>1, <2>2
<1> QED
  BY <1>2, <1>3, <1>4 DEF OfferComing

LEMMA OffersStep ==
  ASSUME DeliveryTypeOK, OfferIsWhatWasSet, KnownWhenHeard, ReportsFollow, OffersFollow,
         [DeliveryNext]_deliveryVars
  PROVE  OffersFollow'
<1> SUFFICES ASSUME Reports, lost' = 0, Current'.known,
                    Current'.reported \notin {None, Current'.remote}
             PROVE  Handling' \/ ReportComing' \/ OfferComing'
  BY DEF OffersFollow
<1> USE DEF connVars, handlerVars, storeVars, pushVars, agentVars
<1>1. conn \in Connections
  BY DEF DeliveryTypeOK
<1>2. lost = 0
  <2>1. lost \in Nat
    BY DEF DeliveryTypeOK
  <2>2. lost' \in {lost, lost + 1}
    <3>1. CASE Handle
      BY <3>1 DEF Handle, ProcessAgentGrouping, GetLatestConfigForAgent,
                  GetLatestConfigForGroup, SetInitialConfig, UpdateStatus, Answer
    <3>2. ASSUME NEW p \in Pushes, StoreConfig(p) \/ Deliver(p)
          PROVE  lost' \in {lost, lost + 1}
      BY <3>2 DEF StoreConfig, Deliver, CloneAgents, FindAgent, SetCustomConfig, SendToAgent,
                  Succeed, TimeOut
    <3>3. CASE AgentSends \/ AgentReceives \/ Regroup \/ Reconnect \/ OnMessage
      BY <3>3 DEF AgentSends, AgentReceives, Regroup, Reconnect, OnMessage
    <3>4. CASE UNCHANGED deliveryVars
      BY <3>4 DEF deliveryVars
    <3> QED
      BY <3>1, <3>2, <3>3, <3>4 DEF DeliveryNext
  <2> QED
    BY <2>1, <2>2
<1>3. CASE Reconnect
  BY <1>3, ReportStays
<1>4. CASE OnMessage
  BY <1>4 DEF OnMessage, Handling
<1>5. CASE UpdateStatus
  <2>1. conn' = conn /\ pc' = "answering"
    BY <1>5 DEF UpdateStatus
  <2>2. Current'.reported = Updated.reported /\ Current'.remote = Updated.remote
    BY <1>5, <2>1, UpdateObject DEF Current
  <2>3. response'.config = Current'.remote
    BY <1>5, <2>2, UpdateResponse
  <2> QED
    BY <2>1, <2>3 DEF OfferComing
<1>6. CASE Handling /\ ~UpdateStatus
  BY <1>4, <1>6, HandlerAt DEF Answer, Handling
<1>7. CASE ~Handling /\ ~Reconnect /\ ~OnMessage /\ ~UpdateStatus
  <2>1. conn' = conn
    BY <1>7, Elsewhere DEF AgentSends, AgentReceives, Regroup
  <2>2. Current'.known = Current.known /\ Current'.reported = Current.reported
    BY <1>1, <1>7, <2>1, StatusStays DEF Current
  <2>3. CASE Current'.remote = Current.remote
    <3>1. ReportComing \/ OfferComing
      BY <1>2, <1>7, <2>2, <2>3 DEF OffersFollow
    <3>2. CASE ReportComing
      BY <1>7, <3>2, ReportStays
    <3>3. CASE OfferComing
      BY <1>7, <2>2, <2>3, <3>3, OfferReceived, OfferStays
    <3> QED
      BY <3>1, <3>2, <3>3
  <2>4. CASE Current'.remote # Current.remote
    <3>1. PICK p \in Pushes : SetCustomConfig(p)
      <4>1. ~ProcessAgentGrouping /\ ~SetInitialConfig
        BY <1>7 DEF ProcessAgentGrouping, SetInitialConfig, Handling
      <4>2. agent' # agent
        BY <2>1, <2>4 DEF Current
      <4> QED
        BY <1>7, <4>1, <4>2, ObjectsChange
    <3>2. held[p] = conn /\ held' = held
      BY <1>1, <2>1, <2>4, <3>1, CustomObject DEF Current, SetCustomConfig
    <3>3. Current'.remote = Content[p]
      BY <2>1, <3>1, <3>2, CustomObject DEF Current
    <3>4. stage' = [stage EXCEPT ![p] = "sending"]
      BY <2>4, <3>1, <3>2, <3>3, CustomObject DEF Current
    <3>5. stage'[p] = "sending"
      BY <3>4 DEF DeliveryTypeOK
    <3> QED
      BY <2>1, <3>2, <3>3, <3>5 DEF OfferComing
  <2> QED
    BY <2>3, <2>4
<1> QED
  BY <1>3, <1>4, <1>5, <1>6, <1>7

-----------------------------------------------------------------------------
LEMMA SyncInit == DeliveryInit => SyncInv
<1> SUFFICES ASSUME DeliveryInit PROVE SyncInv
  OBVIOUS
<1>1. \A k \in Connections : ~agent[k].known /\ agent[k].remote = None /\ agent[k].reported = None
  BY DEF DeliveryInit, NewAgent
<1>2. conn \in Connections /\ ~registered /\ pc = "idle" /\ Len(up) = 0
  BY DeliveryAssumption DEF DeliveryInit, Connections
<1>3. OfferIsWhatWasSet
  BY <1>1 DEF OfferIsWhatWasSet
<1>4. KnownWhenHeard
  BY <1>1, <1>2 DEF KnownWhenHeard
<1>5. ReportsFollow
  BY <1>1, <1>2 DEF ReportsFollow, Handling, Current
<1>6. OffersFollow
  BY <1>1, <1>2 DEF OffersFollow, Current
<1> QED
  BY <1>3, <1>4, <1>5, <1>6, TypeInit DEF SyncInv

LEMMA SyncStep == SyncInv /\ [DeliveryNext]_deliveryVars => SyncInv'
BY TypeStep, OfferStep, KnownStep, ReportsStep, OffersStep DEF SyncInv

LEMMA SyncMeansQuiet == SyncInv => QuietMeansInSync
<1> SUFFICES ASSUME SyncInv, Reports, lost = 0, Quiet
             PROVE  applied = Current.remote
  BY DEF QuietMeansInSync
<1>1. /\ ~Handling
      /\ ~ReportComing
      /\ ~RequestComing
      /\ ~OfferComing
  <2>1. Len(up) = 0 /\ Len(down) = 0
    BY DEF Quiet
  <2> QED
    BY <2>1 DEF Quiet, Handling, ReportComing, RequestComing, OfferComing
<1>2. Current.known
  BY <1>1 DEF SyncInv, KnownWhenHeard, Quiet
<1>3. Current.reported = applied
  BY <1>1, <1>2 DEF SyncInv, ReportsFollow
<1>4. Current.reported # None
  BY <1>3, ConfigFacts DEF SyncInv, DeliveryTypeOK
<1> QED
  BY <1>1, <1>2, <1>3, <1>4 DEF SyncInv, OffersFollow

(***************************************************************************)
(* The inductive invariant: outdated reports are followed, and offers the  *)
(* agent is not known to run are under way or about to be compared.        *)
(***************************************************************************)
THEOREM SyncInvariant == DeliverySpec => []SyncInv
BY SyncInit, SyncStep, PTL DEF DeliverySpec

(***************************************************************************)
(* Whenever nothing is under way and no Send has failed, the agent that    *)
(* reports runs what the server offers, however the pushes, the handler    *)
(* and the agent's reconnections and moves were interleaved.               *)
(***************************************************************************)
THEOREM QuietAgentsAreInSync == DeliverySpec => []QuietMeansInSync
BY SyncInvariant, SyncMeansQuiet, PTL
=============================================================================
