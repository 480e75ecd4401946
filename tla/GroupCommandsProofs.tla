------------------------- MODULE GroupCommandsProofs -------------------------
(***************************************************************************)
(* Proofs about GroupCommands, for any agents, groups, descriptions and    *)
(* calls, and any number of connections: type correctness; that the answer *)
(* of a call accounts for the members of its group; and that an agent that *)
(* joins a group around a push is not missed.                              *)
(***************************************************************************)
EXTENDS GroupCommands, TLAPS

UnderWay(c) == stage[c] \notin {"new", "returned"}
Answer(c) == succeeded[c] \cup failed[c]
Held(c) == held[c] # None

ObjectsHaveOwners == object = [a \in Agents |-> object[a]]
OnlyPushesHold == \A c \in Calls : Held(c) => c \in Pushes
GroupTyped == GroupTypeOK /\ ObjectsHaveOwners /\ OnlyPushesHold

(* An object that is not made yet is in no group.                          *)
FreshObjects ==
  \A a \in Agents : \A n \in 1..MaxObjects[a] : n > made[a] => object[a][n].member = None

(* An agent is in one place of a call: its object is still to be cloned,   *)
(* it is still to be served, it is served, or it is in the answer.         *)
ServedOnce(c) ==
  /\ stage[c] \in {"new", "begun"} => copied[c] = {} /\ todo[c] = {} /\ Answer(c) = {}
  /\ Held(c) \/ stage[c] = "returned" => copied[c] = {}
  /\ stage[c] = "returned" => todo[c] = {}
  /\ \A o, p \in copied[c] : o[1] = p[1] => o = p
  /\ \A o \in copied[c] : o[1] \notin todo[c] \cup Answer(c)
  /\ todo[c] \cap Answer(c) = {}
  /\ Held(c) => held[c][1] \notin todo[c] \cup Answer(c)
  /\ succeeded[c] \cap failed[c] = {}

(* Who is served was a member at some time of the call.                    *)
ServedWereMembers(c) ==
  /\ UnderWay(c) => Members(Target[c]) \subseteq seen[c]
  /\ \A o \in copied[c] : object[o[1]][o[2]].member = Target[c] => o[1] \in seen[c]
  /\ todo[c] \cup Answer(c) \subseteq seen[c]
  /\ Held(c) => held[c][1] \in seen[c]

(* Who is a member throughout is in one of the places.                     *)
MembersAreServed(c) ==
  /\ UnderWay(c) => steady[c] \subseteq Members(Target[c])
  /\ stage[c] \notin {"new", "begun"} =>
       \A a \in steady[c] :
         \/ <<a, made[a]>> \in copied[c]
         \/ a \in todo[c] \cup Answer(c)
         \/ Held(c) /\ a = held[c][1]

LatestWasStored ==
  \A g \in Groups : latest[g] # None => stage[latest[g]] # "new" /\ Target[latest[g]] = g

(* push c has not come yet to the object that agent a has                  *)
IsDue(c, a) ==
  \/ stage[c] = "begun"
  \/ <<a, made[a]>> \in copied[c]
  \/ a \in todo[c]
  \/ stage[c] = "found" /\ held[c] = <<a, made[a]>>

(* A member that joined with its capability known is about to read the     *)
(* latest row or to set what it says, or is still to be served by the push *)
(* that stored it, or has what JoinersMissNothing demands.                 *)
Promised(c, a) ==
  \/ pc[a] = "reading"
  \/ pc[a] = "setting" /\ chosen[a] = c
  \/ IsDue(c, a)
  \/ c \in given[a]
  \/ a \in failed[c]

JoinersAreServed ==
  \A g \in Groups : \A a \in Members(g) :
    latest[g] # None /\ a \in informed => Promised(latest[g], a)

AnswerInv ==
  /\ FreshObjects
  /\ \A c \in Calls : ServedOnce(c) /\ ServedWereMembers(c) /\ MembersAreServed(c)

GroupInv ==
  /\ GroupTyped
  /\ AnswerInv
  /\ LatestWasStored
  /\ JoinersAreServed

-----------------------------------------------------------------------------
LEMMA ObjectsFacts ==
  /\ \A a \in Agents : \A n \in 1..MaxObjects[a] : <<a, n>> \in Objects
  /\ \A o \in Objects : /\ o[1] \in Agents /\ o[2] \in 1..MaxObjects[o[1]]
                        /\ o = <<o[1], o[2]>>
BY DEF Objects

(* A registered agent has an object.                                       *)
LEMMA CurrentFacts ==
  ASSUME GroupTypeOK, NEW a \in registered
  PROVE  /\ a \in Agents /\ made[a] \in 1..MaxObjects[a]
         /\ <<a, made[a]>> \in Objects
         /\ Current(a) \in Object
<1>1. a \in Agents /\ made[a] \in 1..MaxObjects[a]
  BY GroupAssumption DEF GroupTypeOK
<1> QED BY <1>1, ObjectsFacts DEF GroupTypeOK, Current

(* Writing to one object leaves the others and the types alone.            *)
LEMMA ObjectUpdate ==
  ASSUME GroupTypeOK, ObjectsHaveOwners,
         NEW a \in Agents, NEW n \in 1..MaxObjects[a], NEW x \in Object,
         object' = [object EXCEPT ![a][n] = x]
  PROVE  /\ ObjectsHaveOwners'
         /\ \A b \in Agents : object'[b] \in [1..MaxObjects[b] -> Object]
         /\ \A b \in Agents : \A m \in 1..MaxObjects[b] :
              object'[b][m] = IF b = a /\ m = n THEN x ELSE object[b][m]
<1>1. /\ DOMAIN object = Agents
      /\ \A b \in Agents : object[b] \in [1..MaxObjects[b] -> Object]
  BY DEF GroupTypeOK, ObjectsHaveOwners
<1>2. \A b \in Agents : object'[b] = IF b = a THEN [object[a] EXCEPT ![n] = x] ELSE object[b]
  BY <1>1
<1>3. object' = [b \in Agents |-> object'[b]]
  BY <1>1
<1> QED BY <1>1, <1>2, <1>3 DEF ObjectsHaveOwners

ObjectsTyped == \A b \in Agents : object[b] \in [1..MaxObjects[b] -> Object]

(* Of an object, only the grouping changes the member field, and only of   *)
(* the object that the agent has.                                          *)
LEMMA GroupingWrites ==
  ASSUME GroupTypeOK, ObjectsHaveOwners, NEW a \in Agents, ProcessAgentGrouping(a)
  PROVE  /\ a \in registered
         /\ ObjectsHaveOwners' /\ ObjectsTyped'
         /\ \A b \in Agents : \A m \in 1..MaxObjects[b] :
              object'[b][m].member = IF b = a /\ m = made[a] THEN named[a]
                                     ELSE object[b][m].member
<1>1. a \in registered
  BY DEF GroupTypeOK, ProcessAgentGrouping
<1>2. PICK o \in Object : o = object[a][made[a]]
  BY <1>1, CurrentFacts DEF Current
<1> DEFINE x == [member |-> named[a], known |-> o.known, custom |-> o.custom]
<1>3. x \in Object
  BY <1>2 DEF Object, GroupTypeOK
<1>4. x = [object[a][made[a]] EXCEPT !.member = named[a]]
  BY <1>2 DEF Object
<1>5. object' = [object EXCEPT ![a][made[a]] = x]
  BY <1>4 DEF ProcessAgentGrouping
<1> HIDE DEF x
<1>6. x.member = named[a]
  BY DEF x
<1>7. /\ ObjectsHaveOwners'
      /\ \A b \in Agents : object'[b] \in [1..MaxObjects[b] -> Object]
      /\ \A b \in Agents : \A m \in 1..MaxObjects[b] :
           object'[b][m] = IF b = a /\ m = made[a] THEN x ELSE object[b][m]
  BY <1>1, <1>3, <1>5, CurrentFacts, ObjectUpdate
<1>8. ObjectsTyped'
  BY <1>7 DEF ObjectsTyped
<1> QED BY <1>1, <1>6, <1>7, <1>8

(* Writing to another field keeps who is a member. *)
LEMMA KeepsMember ==
  ASSUME GroupTypeOK, ObjectsHaveOwners, NEW a \in Agents, NEW n \in 1..MaxObjects[a],
         NEW x \in Object, x.member = object[a][n].member,
         object' = [object EXCEPT ![a][n] = x]
  PROVE  /\ ObjectsHaveOwners' /\ ObjectsTyped'
         /\ \A b \in Agents : \A m \in 1..MaxObjects[b] :
              object'[b][m].member = object[b][m].member
<1>1. /\ ObjectsHaveOwners'
      /\ \A b \in Agents : object'[b] \in [1..MaxObjects[b] -> Object]
      /\ \A b \in Agents : \A m \in 1..MaxObjects[b] :
           object'[b][m] = IF b = a /\ m = n THEN x ELSE object[b][m]
  BY ObjectUpdate
<1>2. ObjectsTyped'
  BY <1>1 DEF ObjectsTyped
<1> QED BY <1>1, <1>2

LEMMA CustomWritten ==
  ASSUME GroupTypeOK, NEW a \in Agents, NEW n \in 1..MaxObjects[a], NEW c \in Configs,
         object' = [object EXCEPT ![a][n].custom = c]
  PROVE  \E x \in Object : /\ x.member = object[a][n].member
                           /\ object' = [object EXCEPT ![a][n] = x]
<1>1. PICK o \in Object : o = object[a][n]
  <2>1. object[a][n] \in Object
    <3>1. object[a] \in [1..MaxObjects[a] -> Object]
      BY DEF GroupTypeOK
    <3> QED BY <3>1
  <2> QED BY <2>1
<1> DEFINE x == [member |-> o.member, known |-> o.known, custom |-> c]
<1>2. x \in Object
  BY DEF Object
<1>3. x = [o EXCEPT !.custom = c]
  BY DEF Object
<1>4. x.member = o.member
  OBVIOUS
<1> HIDE DEF x
<1>5. object' = [object EXCEPT ![a][n] = x]
  BY <1>1, <1>3, Zenon
<1> QED BY <1>1, <1>2, <1>4, <1>5, Zenon

LEMMA KnownWritten ==
  ASSUME GroupTypeOK, NEW a \in Agents, NEW n \in 1..MaxObjects[a], NEW k \in BOOLEAN,
         object' = [object EXCEPT ![a][n].known = k]
  PROVE  \E x \in Object : /\ x.member = object[a][n].member
                           /\ object' = [object EXCEPT ![a][n] = x]
<1>1. PICK o \in Object : o = object[a][n]
  <2>1. object[a][n] \in Object
    <3>1. object[a] \in [1..MaxObjects[a] -> Object]
      BY DEF GroupTypeOK
    <3> QED BY <3>1
  <2> QED BY <2>1
<1> DEFINE x == [member |-> o.member, known |-> k, custom |-> o.custom]
<1>2. x \in Object
  BY DEF Object
<1>3. x = [o EXCEPT !.known = k]
  BY DEF Object
<1>4. x.member = o.member
  OBVIOUS
<1> HIDE DEF x
<1>5. object' = [object EXCEPT ![a][n] = x]
  BY <1>1, <1>3, Zenon
<1> QED BY <1>1, <1>2, <1>4, <1>5, Zenon

MembershipKept ==
  \A b \in Agents : \A m \in 1..MaxObjects[b] : object'[b][m].member = object[b][m].member

LEMMA SetInitialConfigWrites ==
  ASSUME GroupTypeOK, ObjectsHaveOwners, NEW a \in Agents, SetInitialConfig(a)
  PROVE  a \in registered /\ ObjectsHaveOwners' /\ ObjectsTyped' /\ MembershipKept
<1>1. a \in registered /\ made[a] \in 1..MaxObjects[a] /\ chosen[a] \in Configs
  BY CurrentFacts DEF SetInitialConfig, GroupTypeOK
<1>2. object' = [object EXCEPT ![a][made[a]].custom = chosen[a]]
  BY DEF SetInitialConfig
<1>3. PICK x \in Object : /\ x.member = object[a][made[a]].member
                          /\ object' = [object EXCEPT ![a][made[a]] = x]
  BY <1>1, <1>2, CustomWritten
<1> QED BY <1>1, <1>3, KeepsMember DEF MembershipKept

LEMMA UpdateStatusWrites ==
  ASSUME GroupTypeOK, ObjectsHaveOwners, NEW a \in Agents, UpdateStatus(a)
  PROVE  a \in registered /\ ObjectsHaveOwners' /\ ObjectsTyped' /\ MembershipKept
<1>1. a \in registered /\ made[a] \in 1..MaxObjects[a]
  BY CurrentFacts DEF UpdateStatus, GroupTypeOK
<1>2. object' = [object EXCEPT ![a][made[a]].known = TRUE]
  BY DEF UpdateStatus
<1>3. PICK x \in Object : /\ x.member = object[a][made[a]].member
                          /\ object' = [object EXCEPT ![a][made[a]] = x]
  BY <1>1, <1>2, KnownWritten
<1> QED BY <1>1, <1>3, KeepsMember DEF MembershipKept

(* A call that holds an object holds one of an agent.                      *)
LEMMA HeldFacts ==
  ASSUME GroupTypeOK, NEW c \in Calls, stage[c] \in {"found", "waiting", "confirmed"}
  PROVE  /\ Held(c) /\ held[c] \in Objects
         /\ held[c][1] \in Agents /\ held[c][2] \in 1..MaxObjects[held[c][1]]
         /\ held[c] = <<held[c][1], held[c][2]>>
<1>1. Held(c) /\ held[c] \in Objects
  BY DEF GroupTypeOK, Held
<1> QED BY <1>1, ObjectsFacts

LEMMA SetCustomConfigWrites ==
  ASSUME GroupTypeOK, ObjectsHaveOwners, NEW c \in Calls, SetCustomConfig(c), c \in Pushes
  PROVE  ObjectsHaveOwners' /\ ObjectsTyped' /\ MembershipKept
<1> DEFINE a == held[c][1]
           n == held[c][2]
<1>1. a \in Agents /\ n \in 1..MaxObjects[a] /\ c \in Configs
  BY HeldFacts DEF SetCustomConfig, Configs
<1>2. object' = [object EXCEPT ![a][n].custom = c]
  BY DEF SetCustomConfig
<1> HIDE DEF a, n
<1>3. PICK x \in Object : /\ x.member = object[a][n].member
                          /\ object' = [object EXCEPT ![a][n] = x]
  BY <1>1, <1>2, CustomWritten
<1> QED BY <1>1, <1>3, KeepsMember DEF MembershipKept

-----------------------------------------------------------------------------
LEMMA TypeInit == GroupInit => GroupTyped
<1> SUFFICES ASSUME GroupInit PROVE GroupTyped
  OBVIOUS
<1>1. NewAgent \in Object
  BY DEF NewAgent, Object, Configs
<1>2. ObjectsHaveOwners /\ ObjectsTyped
  BY <1>1 DEF GroupInit, ObjectsHaveOwners, ObjectsTyped
<1> QED
  BY <1>2, GroupAssumption DEF GroupInit, GroupTyped, GroupTypeOK, OnlyPushesHold, Held, ObjectsTyped

LEMMA AgentTypeStep ==
  ASSUME GroupTyped, NEW a \in Agents, AgentStep(a)
  PROVE  GroupTyped'
<1> USE DEF GroupTyped, OnlyPushesHold, Held
<1>0. GroupTypeOK /\ ObjectsHaveOwners /\ ObjectsTyped
  BY DEF GroupTypeOK, ObjectsTyped
<1>1. ASSUME NEW g \in Descriptions[a], OnMessage(a, g) PROVE GroupTyped'
  <2>1. g \in GroupIDs \cup {None}
    BY GroupAssumption
  <2>2. ObjectsHaveOwners' /\ ObjectsTyped' /\ OnlyPushesHold'
    BY <1>0, <1>1 DEF OnMessage, ObjectsHaveOwners, ObjectsTyped, callVars
  <2>3. made' \in [Agents -> Nat] /\ \A b \in Agents : made'[b] <= MaxObjects[b]
    <3>1. made \in [Agents -> Nat] /\ MaxObjects \in [Agents -> Nat \ {0}]
      BY GroupAssumption DEF GroupTypeOK
    <3>2. CASE a \in registered
      BY <1>1, <3>1, <3>2 DEF OnMessage, GroupTypeOK
    <3>3. CASE a \notin registered
      <4>1. made[a] < MaxObjects[a] /\ made' = [made EXCEPT ![a] = @ + 1]
        BY <1>1, <3>3 DEF OnMessage
      <4> QED BY <3>1, <4>1 DEF GroupTypeOK
    <3> QED BY <3>2, <3>3
  <2>4. /\ registered' \subseteq {b \in Agents : made'[b] > 0}
        /\ pc' \in [Agents -> {"idle", "grouping", "reading", "setting", "updating"}]
        /\ \A b \in Agents : pc'[b] # "idle" => b \in registered'
        /\ \A b \in Agents : pc'[b] = "setting" => chosen'[b] # None
    BY <1>0, <1>1, GroupAssumption DEF OnMessage, GroupTypeOK
  <2> QED
    BY <1>0, <1>1, <2>1, <2>2, <2>3, <2>4
    DEF OnMessage, GroupTypeOK, ObjectsTyped, callVars
<1>2. CASE ProcessAgentGrouping(a)
  <2>1. ObjectsHaveOwners' /\ ObjectsTyped' /\ a \in registered
    BY <1>0, <1>2, GroupingWrites
  <2>2. /\ given' \in [Agents -> SUBSET Pushes] /\ informed' \subseteq Agents
        /\ steady' \in [Calls -> SUBSET Agents] /\ seen' \in [Calls -> SUBSET Agents]
    <3>1. CASE GroupChanged(a)
      <4>1. /\ given' = [given EXCEPT ![a] = {}]
            /\ informed' = IF Able(a, "push") THEN informed \cup {a} ELSE informed \ {a}
            /\ seen' = [c \in Calls |->
                          IF c \in UnderWayFor(named[a]) THEN seen[c] \cup {a} ELSE seen[c]]
            /\ steady' = [c \in Calls |-> IF c \in UnderWayFor(Current(a).member)
                                          THEN steady[c] \ {a} ELSE steady[c]]
        BY <1>2, <3>1 DEF ProcessAgentGrouping, Leaves
      <4>2. given' \in [Agents -> SUBSET Pushes] /\ informed' \subseteq Agents
        BY <4>1 DEF GroupTypeOK
      <4> QED BY <4>1, <4>2 DEF GroupTypeOK
    <3>2. CASE ~GroupChanged(a)
      <4>1. UNCHANGED <<given, informed, steady, seen>>
        BY <1>2, <3>2 DEF ProcessAgentGrouping
      <4> QED BY <4>1 DEF GroupTypeOK
    <3> QED BY <3>1, <3>2
  <2>3. UNCHANGED <<made, registered, chosen, latest, callVars>>
    BY <1>2 DEF ProcessAgentGrouping
  <2>4. /\ pc' = [pc EXCEPT ![a] = IF NeedsConfig(a) /\ Able(a, "push") THEN "reading" ELSE "updating"]
        /\ named' = [named EXCEPT ![a] = None]
    BY <1>2 DEF ProcessAgentGrouping
  <2> QED
    BY <1>0, <2>1, <2>2, <2>3, <2>4 DEF GroupTypeOK, ObjectsTyped, callVars
<1>3. CASE GetConfigForAgent(a)
  <2>1. ObjectsHaveOwners' /\ ObjectsTyped'
    BY <1>0, <1>3 DEF GetConfigForAgent, agentVars, ObjectsHaveOwners, ObjectsTyped
  <2>2. PICK x \in Configs : x # None /\ chosen' = [chosen EXCEPT ![a] = x]
    <3>1. \A g \in Groups : latest[g] # None => latest[g] \in Configs
      BY DEF GroupTypeOK, Configs
    <3>2. Other \in Configs /\ Other # None
      BY GroupAssumption DEF Configs
    <3> QED BY <1>3, <3>1, <3>2 DEF GetConfigForAgent
  <2> QED
    BY <1>0, <1>3, <2>1, <2>2
    DEF GetConfigForAgent, GroupTypeOK, ObjectsTyped, agentVars, callVars
<1>4. CASE SetInitialConfig(a)
  <2>1. ObjectsHaveOwners' /\ ObjectsTyped' /\ a \in registered
    BY <1>0, <1>4, SetInitialConfigWrites
  <2>2. /\ given' = [given EXCEPT ![a] = @ \cup ({chosen[a]} \cap Pushes)]
        /\ chosen' = [chosen EXCEPT ![a] = None]
        /\ pc' = [pc EXCEPT ![a] = "updating"]
        /\ UNCHANGED <<made, registered, named, latest, callVars, informed, steady, seen>>
    BY <1>4 DEF SetInitialConfig
  <2> QED BY <1>0, <2>1, <2>2 DEF GroupTypeOK, ObjectsTyped, callVars
<1>5. CASE UpdateStatus(a)
  <2>1. ObjectsHaveOwners' /\ ObjectsTyped' /\ a \in registered
    BY <1>0, <1>5, UpdateStatusWrites
  <2>2. /\ stage' = [c \in Calls |-> IF stage[c] = "waiting" /\ held[c] = <<a, made[a]>>
                                     THEN "confirmed" ELSE stage[c]]
        /\ pc' = [pc EXCEPT ![a] = "idle"]
        /\ UNCHANGED <<made, registered, named, chosen, latest, copied, todo, held, succeeded,
                       failed, historyVars>>
    BY <1>5 DEF UpdateStatus
  <2> QED BY <1>0, <2>1, <2>2 DEF GroupTypeOK, ObjectsTyped, historyVars
<1>6. CASE OnDisconnect(a)
  <2>1. ObjectsHaveOwners' /\ ObjectsTyped'
    BY <1>0, <1>6 DEF OnDisconnect, ObjectsHaveOwners, ObjectsTyped
  <2> QED
    BY <1>0, <1>6, <2>1
    DEF OnDisconnect, Leaves, GroupTypeOK, ObjectsTyped, handlerVars, callVars
<1> QED BY <1>1, <1>2, <1>3, <1>4, <1>5, <1>6 DEF AgentStep

(* Agents are added to one of the two parts of an answer.                  *)
LEMMA AnswerTyped ==
  ASSUME succeeded \in [Calls -> SUBSET Agents], failed \in [Calls -> SUBSET Agents],
         NEW c \in Calls, NEW a \in Agents,
         \/ succeeded' = [succeeded EXCEPT ![c] = @ \cup {a}] /\ failed' = failed
         \/ failed' = [failed EXCEPT ![c] = @ \cup {a}] /\ succeeded' = succeeded
  PROVE  succeeded' \in [Calls -> SUBSET Agents] /\ failed' \in [Calls -> SUBSET Agents]
<1>1. CASE succeeded' = [succeeded EXCEPT ![c] = @ \cup {a}] /\ failed' = failed
  BY <1>1
<1>2. CASE failed' = [failed EXCEPT ![c] = @ \cup {a}] /\ succeeded' = succeeded
  BY <1>2
<1> QED BY <1>1, <1>2

LEMMA CallTypeStep ==
  ASSUME GroupTyped, NEW c \in Calls, CallStep(c)
  PROVE  GroupTyped'
<1> USE DEF GroupTyped, OnlyPushesHold, Held
<1>0. GroupTypeOK /\ ObjectsHaveOwners /\ ObjectsTyped
  BY DEF GroupTypeOK, ObjectsTyped
<1>01. ASSUME UNCHANGED object PROVE ObjectsHaveOwners' /\ ObjectsTyped'
  BY <1>0, <1>01 DEF ObjectsHaveOwners, ObjectsTyped
<1>02. Target \in [Calls -> Groups]
  BY GroupAssumption
<1>1. CASE StoreRow(c) \/ BeginRestart(c)
  <2>1. ObjectsHaveOwners' /\ ObjectsTyped'
    BY <1>1, <1>01 DEF StoreRow, BeginRestart, agentVars
  <2>2. Members(Target[c]) \subseteq Agents
    BY DEF Members, GroupTypeOK
  <2>3. /\ stage[c] = "new" /\ stage' = [stage EXCEPT ![c] = "begun"]
        /\ steady' = [steady EXCEPT ![c] = Members(Target[c])]
        /\ seen' = [seen EXCEPT ![c] = Members(Target[c])]
    BY <1>1 DEF StoreRow, BeginRestart, Begin
  <2>4. latest' \in [Groups -> Pushes \cup {None}]
    BY <1>1, <1>02 DEF StoreRow, BeginRestart, GroupTypeOK
  <2> QED
    BY <1>0, <1>1, <2>1, <2>2, <2>3, <2>4
    DEF StoreRow, BeginRestart, GroupTypeOK, ObjectsTyped, agentVars, handlerVars
<1>2. CASE CopyMap(c)
  <2>1. {<<a, made[a]>> : a \in registered} \subseteq Objects
    BY CurrentFacts
  <2>2. ObjectsHaveOwners' /\ ObjectsTyped'
    BY <1>2, <1>01 DEF CopyMap, agentVars
  <2> QED
    BY <1>0, <1>2, <2>1, <2>2
    DEF CopyMap, GroupTypeOK, ObjectsTyped, agentVars, handlerVars, historyVars
<1>3. ASSUME NEW o \in copied[c], CloneReadonly(c, o) PROVE GroupTyped'
  <2>1. o[1] \in Agents
    BY <1>0, ObjectsFacts DEF GroupTypeOK
  <2>2. ObjectsHaveOwners' /\ ObjectsTyped'
    BY <1>3, <1>01 DEF CloneReadonly, agentVars
  <2>3. todo' \in [Calls -> SUBSET Agents]
    BY <1>3, <2>1 DEF CloneReadonly, GroupTypeOK
  <2> QED
    BY <1>0, <1>3, <2>2, <2>3
    DEF CloneReadonly, GroupTypeOK, ObjectsTyped, agentVars, handlerVars, historyVars
<1>4. ASSUME NEW a \in todo[c], Refuse(c, a) \/ RestartAgent(c, a) PROVE GroupTyped'
  <2>1. ObjectsHaveOwners' /\ ObjectsTyped'
    BY <1>4, <1>01 DEF Refuse, RestartAgent, agentVars
  <2>2. a \in Agents
    BY DEF GroupTypeOK
  <2>3. /\ todo' = [todo EXCEPT ![c] = @ \ {a}]
        /\ \/ succeeded' = [succeeded EXCEPT ![c] = @ \cup {a}] /\ failed' = failed
           \/ failed' = [failed EXCEPT ![c] = @ \cup {a}] /\ succeeded' = succeeded
        /\ UNCHANGED <<agentVars, handlerVars, latest, stage, copied, held, historyVars>>
    BY <1>4 DEF Refuse, RestartAgent
  <2>4. succeeded' \in [Calls -> SUBSET Agents] /\ failed' \in [Calls -> SUBSET Agents]
    BY <2>2, <2>3, AnswerTyped DEF GroupTypeOK
  <2>5. todo' \in [Calls -> SUBSET Agents]
    BY <2>3 DEF GroupTypeOK
  <2>6. UNCHANGED <<agentVars, handlerVars, latest, stage, copied, held, historyVars>>
    BY <2>3
  <2> QED
    BY <1>0, <2>1, <2>4, <2>5, <2>6
    DEF GroupTypeOK, ObjectsTyped, agentVars, handlerVars, historyVars
<1>5. ASSUME NEW a \in todo[c], FindAgent(c, a) PROVE GroupTyped'
  <2>1. ObjectsHaveOwners' /\ ObjectsTyped'
    BY <1>5, <1>01 DEF FindAgent, agentVars
  <2>2. a \in registered /\ <<a, made[a]>> \in Objects /\ <<a, made[a]>> # None
    BY <1>0, <1>5, CurrentFacts, GroupAssumption DEF FindAgent, GroupTypeOK
  <2> QED
    BY <1>0, <1>5, <2>1, <2>2
    DEF FindAgent, Serving, GroupTypeOK, ObjectsTyped, agentVars, handlerVars, historyVars
<1>6. CASE SetCustomConfig(c)
  <2>1. stage[c] = "found" /\ Held(c) /\ c \in Pushes
    BY <1>0, <1>6 DEF SetCustomConfig, GroupTypeOK
  <2>2. ObjectsHaveOwners' /\ ObjectsTyped'
    BY <1>0, <1>6, <2>1, SetCustomConfigWrites
  <2>3. PICK x \in {"confirmed", "waiting"} : stage' = [stage EXCEPT ![c] = x]
    BY <1>6 DEF SetCustomConfig
  <2>4. given' \in [Agents -> SUBSET Pushes]
    BY <1>0, <1>6, <2>1 DEF SetCustomConfig, GroupTypeOK
  <2>5. UNCHANGED <<made, registered, handlerVars, latest, copied, todo, held, succeeded,
                    failed, informed, steady, seen>>
    BY <1>6 DEF SetCustomConfig
  <2> QED
    BY <1>0, <2>1, <2>2, <2>3, <2>4, <2>5 DEF GroupTypeOK, ObjectsTyped, handlerVars
<1>7. CASE Confirmed(c) \/ TimesOut(c)
  <2>1. held[c][1] \in Agents
    BY <1>0, <1>7, HeldFacts DEF Confirmed, TimesOut
  <2>2. ObjectsHaveOwners' /\ ObjectsTyped'
    BY <1>7, <1>01 DEF Confirmed, TimesOut, Answered, agentVars
  <2>3. succeeded' \in [Calls -> SUBSET Agents] /\ failed' \in [Calls -> SUBSET Agents]
    <3>1. \/ succeeded' = [succeeded EXCEPT ![c] = @ \cup {held[c][1]}] /\ failed' = failed
          \/ failed' = [failed EXCEPT ![c] = @ \cup {held[c][1]}] /\ succeeded' = succeeded
      BY <1>7 DEF Confirmed, TimesOut
    <3> QED BY <2>1, <3>1, AnswerTyped DEF GroupTypeOK
  <2>4. Answered(c)
    BY <1>7 DEF Confirmed, TimesOut
  <2> QED
    BY <1>0, <2>2, <2>3, <2>4
    DEF Answered, GroupTypeOK, ObjectsTyped, agentVars, handlerVars, historyVars
<1>8. CASE Return(c)
  <2>1. ObjectsHaveOwners' /\ ObjectsTyped'
    BY <1>8, <1>01 DEF Return, agentVars
  <2>2. ~Held(c)
    BY <1>0, <1>8 DEF Return, GroupTypeOK
  <2> QED
    BY <1>0, <1>8, <2>1, <2>2
    DEF Return, GroupTypeOK, ObjectsTyped, agentVars, handlerVars, historyVars
<1> QED BY <1>1, <1>2, <1>3, <1>4, <1>5, <1>6, <1>7, <1>8 DEF CallStep

LEMMA TypeStep == GroupTyped /\ [GroupNext]_groupVars => GroupTyped'
<1>1. ASSUME GroupTyped, UNCHANGED groupVars PROVE GroupTyped'
  BY <1>1 DEF groupVars, agentVars, handlerVars, callVars, historyVars, GroupTyped,
     GroupTypeOK, ObjectsHaveOwners, OnlyPushesHold, Held
<1> QED BY <1>1, AgentTypeStep, CallTypeStep DEF GroupNext

(***************************************************************************)
(* The types of registry, handlers and calls, and that a call holds an     *)
(* object exactly from FindAgent to the answer.                            *)
(***************************************************************************)
THEOREM GroupTypeCorrect == GroupSpec => []GroupTypeOK
<1>1. GroupTyped => GroupTypeOK
  BY DEF GroupTyped
<1> QED BY <1>1, TypeInit, TypeStep, PTL DEF GroupSpec

-----------------------------------------------------------------------------
(* Messages and the calls.                                                 *)

LEMMA MembersUnchanged ==
  ASSUME GroupTyped, UNCHANGED <<made, registered>>, UNCHANGED object \/ MembershipKept
  PROVE  \A g \in Groups : Members(g)' = Members(g)
<1>1. \A a \in registered : a \in Agents /\ made[a] \in 1..MaxObjects[a]
  BY CurrentFacts DEF GroupTyped
<1>2. \A a \in registered : object'[a][made[a]].member = object[a][made[a]].member
  BY <1>1 DEF MembershipKept
<1> QED BY <1>2 DEF Members, Current

(* A message changes of a call only that it is confirmed.                  *)
LEMMA AgentLeavesCalls ==
  ASSUME GroupTyped, NEW a \in Agents, AgentStep(a)
  PROVE  /\ UNCHANGED <<copied, todo, held, succeeded, failed>>
         /\ \A c \in Calls : \/ stage'[c] = stage[c]
                             \/ stage[c] = "waiting" /\ stage'[c] = "confirmed"
<1>1. ASSUME NEW g \in Descriptions[a], OnMessage(a, g)
      PROVE  UNCHANGED callVars
  BY <1>1 DEF OnMessage
<1>2. CASE UpdateStatus(a)
  <2>1. /\ stage' = [c \in Calls |-> IF stage[c] = "waiting" /\ held[c] = <<a, made[a]>>
                                     THEN "confirmed" ELSE stage[c]]
        /\ UNCHANGED <<copied, todo, held, succeeded, failed>>
    BY <1>2 DEF UpdateStatus
  <2> QED BY <2>1
<1>3. CASE \/ ProcessAgentGrouping(a) \/ GetConfigForAgent(a) \/ SetInitialConfig(a)
           \/ OnDisconnect(a)
  <2>1. UNCHANGED callVars
    BY <1>3 DEF ProcessAgentGrouping, GetConfigForAgent, SetInitialConfig, OnDisconnect
  <2> QED BY <2>1 DEF callVars
<1> QED BY <1>1, <1>2, <1>3 DEF AgentStep, callVars

LEMMA AgentKeepsServedOnce ==
  ASSUME GroupTyped, NEW a \in Agents, AgentStep(a), NEW c \in Calls, ServedOnce(c)
  PROVE  ServedOnce(c)'
BY AgentLeavesCalls DEF ServedOnce, Answer, Held

(* What a message may change of the registry and of who is a member, and   *)
(* what history says of it.                                                *)
RegistryStep(a) ==
  /\ \A b \in Agents : b # a =>
       /\ b \in registered' <=> b \in registered
       /\ made'[b] = made[b]
       /\ \A m \in 1..MaxObjects[b] : object'[b][m].member = object[b][m].member
  /\ \A m \in 1..MaxObjects[a] :
       ~(m = made[a] /\ a \in registered) => object'[a][m].member = object[a][m].member
  /\ made'[a] # made[a] => a \notin registered /\ made'[a] = made[a] + 1

HistoryStep(a) ==
  \A c \in Calls :
    /\ seen[c] \subseteq seen'[c] /\ steady'[c] \subseteq steady[c]
    /\ UnderWay(c) /\ a \in Members(Target[c])' => a \in seen'[c] \/ a \in Members(Target[c])
    /\ UnderWay(c) /\ a \in Members(Target[c]) => a \notin steady'[c] \/ a \in Members(Target[c])'

LEMMA MessageMembership ==
  ASSUME GroupTyped, FreshObjects, NEW a \in Agents, NEW g \in Descriptions[a], OnMessage(a, g)
  PROVE  RegistryStep(a) /\ HistoryStep(a)
<1> USE DEF GroupTyped
<1>1. /\ UNCHANGED <<object, steady, seen, stage>>
      /\ registered' = registered \cup {a}
      /\ made' = IF a \in registered THEN made ELSE [made EXCEPT ![a] = @ + 1]
      /\ a \in registered \/ made[a] < MaxObjects[a]
  BY DEF OnMessage, callVars
<1>2. CASE a \in registered
  <2>1. UNCHANGED <<object, steady, seen, stage, registered, made>>
    BY <1>1, <1>2
  <2>2. \A c \in Calls : Members(Target[c])' = Members(Target[c])
    BY <2>1 DEF Members, Current
  <2>3. RegistryStep(a)
    BY <2>1 DEF RegistryStep
  <2>4. HistoryStep(a)
    BY <2>1, <2>2 DEF HistoryStep
  <2> QED BY <2>3, <2>4
<1>3. CASE a \notin registered
  <2>1. made[a] \in Nat /\ MaxObjects[a] \in Nat /\ made \in [Agents -> Nat]
    BY GroupAssumption DEF GroupTypeOK
  <2>2. made'[a] = made[a] + 1 /\ \A b \in Agents : b # a => made'[b] = made[b]
    BY <1>1, <1>3, <2>1
  <2>3. made'[a] \in 1..MaxObjects[a] /\ made'[a] > made[a]
    BY <1>1, <1>3, <2>1, <2>2
  <2>4. object'[a][made'[a]].member = None
    BY <1>1, <2>3 DEF FreshObjects
  <2>5. \A c \in Calls : a \notin Members(Target[c])'
    BY <2>4, GroupAssumption DEF Members, Current, GroupIDs
  <2>6. \A c \in Calls : a \notin Members(Target[c])
    BY <1>3 DEF Members
  <2>7. RegistryStep(a)
    BY <1>1, <1>3, <2>2 DEF RegistryStep
  <2>8. HistoryStep(a)
    BY <1>1, <2>5, <2>6 DEF HistoryStep
  <2> QED BY <2>7, <2>8
<1> QED BY <1>2, <1>3

LEMMA GroupingMembership ==
  ASSUME GroupTyped, NEW a \in Agents, ProcessAgentGrouping(a)
  PROVE  RegistryStep(a) /\ HistoryStep(a)
<1> USE DEF GroupTyped
<1>1. /\ a \in registered
      /\ \A b \in Agents : \A m \in 1..MaxObjects[b] :
           object'[b][m].member = IF b = a /\ m = made[a] THEN named[a] ELSE object[b][m].member
  BY GroupingWrites
<1>2. UNCHANGED <<made, registered>> /\ made[a] \in 1..MaxObjects[a]
  BY <1>1, CurrentFacts DEF ProcessAgentGrouping
<1>3. RegistryStep(a)
  BY <1>1, <1>2 DEF RegistryStep
<1>4. /\ \A g \in Groups : a \in Members(g) <=> Current(a).member = g
      /\ \A g \in Groups : a \in Members(g)' <=> named[a] = g
  BY <1>1, <1>2 DEF Members, Current
<1>5. Target \in [Calls -> Groups] /\ None \notin Groups /\ NoGroup \notin Groups
  BY GroupAssumption DEF GroupIDs
<1>6. HistoryStep(a)
  <2>1. CASE GroupChanged(a)
    <3>1. /\ seen' = [c \in Calls |->
                        IF c \in UnderWayFor(named[a]) THEN seen[c] \cup {a} ELSE seen[c]]
          /\ steady' = [c \in Calls |-> IF c \in UnderWayFor(Current(a).member)
                                        THEN steady[c] \ {a} ELSE steady[c]]
      BY <1>2, <2>1 DEF ProcessAgentGrouping, Leaves
    <3>2. \A c \in Calls : UnderWay(c) /\ named[a] = Target[c] => c \in UnderWayFor(named[a])
      BY DEF UnderWayFor, UnderWay
    <3>3. \A c \in Calls : UnderWay(c) /\ Current(a).member = Target[c]
                           => c \in UnderWayFor(Current(a).member)
      BY DEF UnderWayFor, UnderWay
    <3> QED BY <1>4, <1>5, <3>1, <3>2, <3>3 DEF HistoryStep
  <2>2. CASE ~GroupChanged(a)
    <3>1. UNCHANGED <<steady, seen>>
      BY <2>2 DEF ProcessAgentGrouping
    <3>2. \A g \in Groups : named[a] = g <=> Current(a).member = g
      BY <2>2, <1>5 DEF GroupChanged
    <3> QED BY <1>4, <1>5, <3>1, <3>2 DEF HistoryStep
  <2> QED BY <2>1, <2>2
<1> QED BY <1>3, <1>6

LEMMA DisconnectMembership ==
  ASSUME GroupTyped, NEW a \in Agents, OnDisconnect(a)
  PROVE  RegistryStep(a) /\ HistoryStep(a)
<1> USE DEF GroupTyped
<1>1. /\ UNCHANGED <<made, object, seen>> /\ registered' = registered \ {a}
      /\ steady' = [c \in Calls |-> IF c \in UnderWayFor(Current(a).member)
                                    THEN steady[c] \ {a} ELSE steady[c]]
  BY DEF OnDisconnect, Leaves
<1>2. RegistryStep(a)
  BY <1>1 DEF RegistryStep
<1>3. \A c \in Calls : a \notin Members(Target[c])'
  BY <1>1 DEF Members
<1>4. \A c \in Calls : UnderWay(c) /\ a \in Members(Target[c])
                       => c \in UnderWayFor(Current(a).member)
  BY DEF Members, UnderWayFor, UnderWay
<1> QED BY <1>1, <1>2, <1>3, <1>4 DEF HistoryStep

(* the rest of a message's statements *)
LEMMA OtherMembership ==
  ASSUME GroupTyped, NEW a \in Agents,
         GetConfigForAgent(a) \/ SetInitialConfig(a) \/ UpdateStatus(a)
  PROVE  RegistryStep(a) /\ HistoryStep(a)
<1>1. UNCHANGED <<made, registered, steady, seen>>
  BY DEF GetConfigForAgent, SetInitialConfig, UpdateStatus, agentVars, historyVars
<1>2. UNCHANGED object \/ MembershipKept
  BY SetInitialConfigWrites, UpdateStatusWrites
  DEF GetConfigForAgent, agentVars, GroupTyped
<1>3. \A c \in Calls : Members(Target[c])' = Members(Target[c])
  BY <1>1, <1>2, MembersUnchanged, GroupAssumption
<1>4. RegistryStep(a)
  BY <1>1, <1>2 DEF RegistryStep, MembershipKept
<1>5. HistoryStep(a)
  BY <1>1, <1>3 DEF HistoryStep
<1> QED BY <1>4, <1>5

LEMMA AgentMembership ==
  ASSUME GroupTyped, FreshObjects, NEW a \in Agents, AgentStep(a)
  PROVE  RegistryStep(a) /\ HistoryStep(a)
BY MessageMembership, GroupingMembership, DisconnectMembership, OtherMembership DEF AgentStep

LEMMA OthersStay ==
  ASSUME GroupTyped, NEW a \in Agents, RegistryStep(a)
  PROVE  \A g : \A b \in Agents : b # a => (b \in Members(g)' <=> b \in Members(g))
<1>1. \A b \in Agents : b # a =>
        /\ b \in registered' <=> b \in registered
        /\ made'[b] = made[b]
        /\ \A m \in 1..MaxObjects[b] : object'[b][m].member = object[b][m].member
  BY DEF RegistryStep
<1>2. \A b \in registered : made[b] \in 1..MaxObjects[b]
  BY CurrentFacts DEF GroupTyped
<1> QED BY <1>1, <1>2 DEF Members, Current

LEMMA AgentKeepsFresh ==
  ASSUME GroupTyped, GroupTyped', FreshObjects, NEW a \in Agents, RegistryStep(a)
  PROVE  FreshObjects'
<1> SUFFICES ASSUME NEW b \in Agents, NEW m \in 1..MaxObjects[b], m > made'[b]
             PROVE  object'[b][m].member = None
  BY DEF FreshObjects
<1>1. made[b] \in Nat /\ MaxObjects[b] \in Nat
  BY GroupAssumption DEF GroupTyped, GroupTypeOK
<1>2. CASE b # a
  BY <1>2 DEF RegistryStep, FreshObjects
<1>3. CASE b = a
  <2>1. m > made[b] /\ m # made[b]
    BY <1>1, <1>3 DEF RegistryStep
  <2> QED BY <1>3, <2>1 DEF RegistryStep, FreshObjects
<1> QED BY <1>2, <1>3

LEMMA AgentKeepsServed ==
  ASSUME GroupTyped, NEW a \in Agents, AgentStep(a), RegistryStep(a), HistoryStep(a),
         NEW c \in Calls, ServedOnce(c), ServedWereMembers(c)
  PROVE  ServedWereMembers(c)'
<1>1. /\ UNCHANGED <<copied, todo, held, succeeded, failed>>
      /\ stage'[c] = stage[c] \/ (stage[c] = "waiting" /\ stage'[c] = "confirmed")
  BY AgentLeavesCalls
<1>2. UnderWay(c)' <=> UnderWay(c)
  BY <1>1 DEF UnderWay
<1>3. seen[c] \subseteq seen'[c] /\ Target[c] \in Groups
  BY GroupAssumption DEF HistoryStep
<1>4. UnderWay(c)' => Members(Target[c])' \subseteq seen'[c]
  <2> SUFFICES ASSUME UnderWay(c), NEW b \in Members(Target[c])' PROVE b \in seen'[c]
    BY <1>2
  <2>1. b \in Agents
    <3>1. GroupTyped'
      BY AgentTypeStep
    <3> QED BY <3>1 DEF Members, GroupTyped, GroupTypeOK
  <2>2. Members(Target[c]) \subseteq seen[c]
    BY DEF ServedWereMembers
  <2>3. CASE b = a
    BY <1>3, <2>2, <2>3 DEF HistoryStep
  <2>4. CASE b # a
    <3>1. b \in Members(Target[c])
      BY <2>1, <2>4, OthersStay
    <3> QED BY <3>1, <1>3, <2>2
  <2> QED BY <2>3, <2>4
<1>5. \A o \in copied'[c] : object'[o[1]][o[2]].member = Target[c] => o[1] \in seen'[c]
  <2> SUFFICES ASSUME NEW o \in copied[c], object'[o[1]][o[2]].member = Target[c]
               PROVE  o[1] \in seen'[c]
    BY <1>1
  <2>1. o[1] \in Agents /\ o[2] \in 1..MaxObjects[o[1]]
    BY ObjectsFacts DEF GroupTyped, GroupTypeOK
  <2>2. UnderWay(c)
    BY DEF ServedOnce, UnderWay
  <2>3. CASE o[1] = a /\ o[2] = made[a] /\ a \in registered
    <3>1. made'[a] = made[a]
      BY <2>3 DEF RegistryStep
    <3>2. CASE a \in registered'
      <4>1. a \in Members(Target[c])'
        BY <2>3, <3>1, <3>2 DEF Members, Current
      <4> QED BY <2>2, <2>3, <4>1, <1>2, <1>4
    <3>3. CASE a \notin registered'
      <4>1. OnDisconnect(a)
        BY <3>3, <2>3 DEF AgentStep, OnMessage, ProcessAgentGrouping, GetConfigForAgent,
           SetInitialConfig, UpdateStatus, agentVars
      <4>2. object' = object
        BY <4>1 DEF OnDisconnect
      <4> QED BY <4>2, <1>3 DEF ServedWereMembers
    <3> QED BY <3>2, <3>3
  <2>4. CASE ~(o[1] = a /\ o[2] = made[a] /\ a \in registered)
    <3>1. object'[o[1]][o[2]].member = object[o[1]][o[2]].member
      BY <2>1, <2>4 DEF RegistryStep
    <3> QED BY <3>1, <1>3 DEF ServedWereMembers
  <2> QED BY <2>3, <2>4
<1>6. todo'[c] \cup Answer(c)' \subseteq seen'[c] /\ (Held(c)' => held'[c][1] \in seen'[c])
  BY <1>1, <1>3 DEF ServedWereMembers, Answer, Held
<1> QED BY <1>4, <1>5, <1>6 DEF ServedWereMembers

LEMMA AgentKeepsMembersServed ==
  ASSUME GroupTyped, NEW a \in Agents, AgentStep(a), RegistryStep(a), HistoryStep(a),
         NEW c \in Calls, ServedOnce(c), MembersAreServed(c)
  PROVE  MembersAreServed(c)'
<1>1. /\ UNCHANGED <<copied, todo, held, succeeded, failed>>
      /\ stage'[c] = stage[c] \/ (stage[c] = "waiting" /\ stage'[c] = "confirmed")
  BY AgentLeavesCalls
<1>2. /\ UnderWay(c)' <=> UnderWay(c)
      /\ stage'[c] \in {"new", "begun"} <=> stage[c] \in {"new", "begun"}
  BY <1>1 DEF UnderWay
<1>3. steady'[c] \subseteq steady[c] /\ steady[c] \subseteq Agents
  BY DEF HistoryStep, GroupTyped, GroupTypeOK
<1>4. UnderWay(c)' => steady'[c] \subseteq Members(Target[c])'
  <2> SUFFICES ASSUME UnderWay(c), NEW b \in steady'[c] PROVE b \in Members(Target[c])'
    BY <1>2
  <2>1. b \in Agents /\ b \in Members(Target[c])
    BY <1>3 DEF MembersAreServed
  <2>2. CASE b = a
    BY <2>1, <2>2 DEF HistoryStep
  <2>3. CASE b # a
    BY <2>1, <2>3, OthersStay
  <2> QED BY <2>2, <2>3
<1>5. ASSUME stage'[c] \notin {"new", "begun"}, NEW b \in steady'[c]
      PROVE  \/ <<b, made'[b]>> \in copied'[c]
             \/ b \in todo'[c] \cup Answer(c)'
             \/ (Held(c) /\ b = held[c][1])'
  <2>1. \/ <<b, made[b]>> \in copied[c]
        \/ b \in todo[c] \cup Answer(c)
        \/ (Held(c) /\ b = held[c][1])
    BY <1>2, <1>3, <1>5 DEF MembersAreServed
  <2>2. CASE <<b, made[b]>> \in copied[c]
    <3>1. UnderWay(c)
      BY <2>2 DEF ServedOnce, UnderWay
    <3>2. b \in registered
      BY <1>3, <1>5, <3>1 DEF MembersAreServed, Members
    <3>3. made'[b] = made[b]
      BY <1>3, <1>5, <3>2 DEF RegistryStep
    <3> QED BY <1>1, <2>2, <3>3
  <2>3. CASE b \in todo[c] \cup Answer(c)
    BY <1>1, <2>3 DEF Answer
  <2>4. CASE Held(c) /\ b = held[c][1]
    BY <1>1, <2>4 DEF Held
  <2> QED BY <2>1, <2>2, <2>3, <2>4
<1> QED BY <1>4, <1>5 DEF MembersAreServed

LEMMA AgentAnswerStep ==
  ASSUME GroupTyped, AnswerInv, NEW a \in Agents, AgentStep(a)
  PROVE  AnswerInv'
<1>1. RegistryStep(a) /\ HistoryStep(a)
  BY AgentMembership DEF AnswerInv
<1>2. FreshObjects'
  BY <1>1, AgentKeepsFresh, AgentTypeStep DEF AnswerInv
<1>3. ASSUME NEW c \in Calls
      PROVE  ServedOnce(c)' /\ ServedWereMembers(c)' /\ MembersAreServed(c)'
  BY <1>1, AgentKeepsServedOnce, AgentKeepsServed, AgentKeepsMembersServed DEF AnswerInv
<1> QED BY <1>2, <1>3 DEF AnswerInv

(* A call changes its own variables only, and the configurations of        *)
(* agents.                                                                 *)
OthersKept(c) ==
  \A d \in Calls : d # c =>
    /\ stage'[d] = stage[d] /\ copied'[d] = copied[d] /\ todo'[d] = todo[d]
    /\ held'[d] = held[d] /\ succeeded'[d] = succeeded[d] /\ failed'[d] = failed[d]
    /\ steady'[d] = steady[d] /\ seen'[d] = seen[d]

LEMMA CallMembership ==
  ASSUME GroupTyped, NEW c \in Calls, CallStep(c)
  PROVE  /\ UNCHANGED <<made, registered, handlerVars, informed>>
         /\ UNCHANGED object \/ MembershipKept
         /\ OthersKept(c)
<1> USE DEF GroupTyped, GroupTypeOK
<1>1. CASE StoreRow(c) \/ BeginRestart(c)
  BY <1>1 DEF StoreRow, BeginRestart, Begin, agentVars, handlerVars, OthersKept
<1>2. CASE CopyMap(c) \/ Return(c)
  BY <1>2 DEF CopyMap, Return, agentVars, handlerVars, historyVars, OthersKept
<1>3. ASSUME NEW o \in copied[c], CloneReadonly(c, o)
      PROVE  /\ UNCHANGED <<agentVars, handlerVars, informed>> /\ OthersKept(c)
  BY <1>3 DEF CloneReadonly, historyVars, OthersKept
<1>4. ASSUME NEW a \in todo[c], Refuse(c, a) \/ RestartAgent(c, a) \/ FindAgent(c, a)
      PROVE  /\ UNCHANGED <<agentVars, handlerVars, informed>> /\ OthersKept(c)
  BY <1>4 DEF Refuse, RestartAgent, FindAgent, historyVars, OthersKept
<1>5. CASE SetCustomConfig(c)
  <2>1. c \in Pushes
    BY <1>5, HeldFacts DEF SetCustomConfig, OnlyPushesHold
  <2>2. MembershipKept
    BY <1>5, <2>1, SetCustomConfigWrites
  <2>3. /\ UNCHANGED <<made, registered, handlerVars, copied, todo, held, succeeded,
                      failed, informed, steady, seen>>
        /\ stage' = [stage EXCEPT ![c] =
                       IF object[held[c][1]][held[c][2]].custom = c THEN "confirmed" ELSE "waiting"]
    BY <1>5 DEF SetCustomConfig
  <2>4. OthersKept(c)
    BY <2>3 DEF OthersKept
  <2> QED BY <2>2, <2>3, <2>4
<1>6. CASE Confirmed(c) \/ TimesOut(c)
  BY <1>6 DEF Confirmed, TimesOut, Answered, agentVars, handlerVars, historyVars, OthersKept
<1> QED BY <1>1, <1>2, <1>3, <1>4, <1>5, <1>6 DEF CallStep, agentVars

LEMMA CallKeepsMembers ==
  ASSUME GroupTyped, NEW c \in Calls, CallStep(c)
  PROVE  \A g \in Groups : Members(g)' = Members(g)
BY CallMembership, MembersUnchanged

LEMMA OtherCallsKept ==
  ASSUME GroupTyped, NEW c \in Calls, CallStep(c), NEW d \in Calls, d # c,
         ServedOnce(d), ServedWereMembers(d), MembersAreServed(d)
  PROVE  ServedOnce(d)' /\ ServedWereMembers(d)' /\ MembersAreServed(d)'
<1>1. /\ UNCHANGED <<made, registered>>
      /\ stage'[d] = stage[d] /\ copied'[d] = copied[d] /\ todo'[d] = todo[d]
      /\ held'[d] = held[d] /\ succeeded'[d] = succeeded[d] /\ failed'[d] = failed[d]
      /\ steady'[d] = steady[d] /\ seen'[d] = seen[d]
  BY CallMembership DEF OthersKept
<1>2. Members(Target[d])' = Members(Target[d])
  BY CallKeepsMembers, GroupAssumption
<1>3. \A o \in copied[d] : object'[o[1]][o[2]].member = object[o[1]][o[2]].member
  <2>1. \A o \in copied[d] : o[1] \in Agents /\ o[2] \in 1..MaxObjects[o[1]]
    BY ObjectsFacts DEF GroupTyped, GroupTypeOK
  <2> QED BY <2>1, CallMembership DEF MembershipKept
<1>4. ServedOnce(d)'
  BY <1>1 DEF ServedOnce, Answer, Held
<1>5. ServedWereMembers(d)'
  BY <1>1, <1>2, <1>3 DEF ServedWereMembers, Answer, Held, UnderWay
<1>6. MembersAreServed(d)'
  BY <1>1, <1>2 DEF MembersAreServed, Answer, Held, UnderWay
<1> QED BY <1>4, <1>5, <1>6

(* the same, for a call's own step *)
LEMMA CallServes ==
  ASSUME GroupTyped, NEW c \in Calls, CallStep(c),
         ServedOnce(c), ServedWereMembers(c), MembersAreServed(c)
  PROVE  ServedOnce(c)' /\ ServedWereMembers(c)' /\ MembersAreServed(c)'
<1> USE DEF GroupTyped, Answer, Held, UnderWay
<1>1. GroupTypeOK /\ Target[c] \in Groups
  BY GroupAssumption
<1>2. Members(Target[c])' = Members(Target[c]) /\ UNCHANGED <<made, registered>>
  BY CallKeepsMembers, CallMembership, <1>1
<1>3. \A o \in copied[c] : /\ o[1] \in Agents /\ o[2] \in 1..MaxObjects[o[1]]
                           /\ o = <<o[1], o[2]>>
  BY ObjectsFacts DEF GroupTypeOK
<1>4. \A o \in copied[c] : object'[o[1]][o[2]].member = object[o[1]][o[2]].member
  BY <1>3, CallMembership DEF MembershipKept
<1>5. Held(c) <=> stage[c] \in {"found", "waiting", "confirmed"}
  BY DEF GroupTypeOK
<1>6. CASE StoreRow(c) \/ BeginRestart(c)
  <2>1. /\ stage[c] = "new" /\ stage'[c] = "begun"
        /\ steady'[c] = Members(Target[c]) /\ seen'[c] = Members(Target[c])
        /\ UNCHANGED <<copied, todo, held, succeeded, failed>>
    BY <1>6 DEF StoreRow, BeginRestart, Begin, GroupTypeOK
  <2> QED BY <1>2, <1>5, <2>1 DEF ServedOnce, ServedWereMembers, MembersAreServed
<1>7. CASE CopyMap(c)
  <2>1. /\ stage[c] = "begun" /\ stage'[c] = "cloning"
        /\ copied'[c] = {<<a, made[a]>> : a \in registered}
        /\ UNCHANGED <<object, todo, held, succeeded, failed, steady, seen>>
    BY <1>7 DEF CopyMap, GroupTypeOK, historyVars, agentVars
  <2>2. ServedOnce(c)'
    BY <1>5, <2>1 DEF ServedOnce
  <2>3. \A a \in registered : object[a][made[a]].member = Target[c] => a \in Members(Target[c])
    BY DEF Members, Current
  <2>4. ServedWereMembers(c)'
    BY <1>2, <1>5, <2>1, <2>3 DEF ServedWereMembers
  <2>5. steady[c] \subseteq registered
    BY <2>1 DEF MembersAreServed, Members
  <2>6. MembersAreServed(c)'
    BY <1>2, <2>1, <2>5 DEF MembersAreServed
  <2> QED BY <2>2, <2>4, <2>6
<1>8. ASSUME NEW o \in copied[c], CloneReadonly(c, o)
      PROVE  ServedOnce(c)' /\ ServedWereMembers(c)' /\ MembersAreServed(c)'
  <2>1. /\ stage[c] = "cloning" /\ stage'[c] = "cloning"
        /\ copied'[c] = copied[c] \ {o}
        /\ todo'[c] = IF object[o[1]][o[2]].member = Target[c] THEN todo[c] \cup {o[1]} ELSE todo[c]
        /\ UNCHANGED <<object, held, succeeded, failed, steady, seen>>
    BY <1>8 DEF CloneReadonly, GroupTypeOK, historyVars, agentVars
  <2>2. ServedOnce(c)'
    BY <1>5, <2>1 DEF ServedOnce
  <2>3. ServedWereMembers(c)'
    BY <1>2, <1>5, <2>1 DEF ServedWereMembers
  <2>4. ASSUME NEW a \in steady[c], o = <<a, made[a]>> PROVE a \in todo'[c]
    <3>1. a \in Members(Target[c])
      BY <2>1 DEF MembersAreServed
    <3> QED BY <2>1, <2>4, <3>1 DEF Members, Current
  <2>5. MembersAreServed(c)'
    BY <1>2, <1>5, <2>1, <2>4 DEF MembersAreServed
  <2> QED BY <2>2, <2>3, <2>5
<1>9. ASSUME NEW a \in todo[c], Refuse(c, a) \/ RestartAgent(c, a)
      PROVE  ServedOnce(c)' /\ ServedWereMembers(c)' /\ MembersAreServed(c)'
  <2>1. /\ stage[c] = "cloning" /\ stage'[c] = "cloning" /\ copied[c] = {}
        /\ todo'[c] = todo[c] \ {a}
        /\ \/ succeeded'[c] = succeeded[c] \cup {a} /\ failed'[c] = failed[c]
           \/ failed'[c] = failed[c] \cup {a} /\ succeeded'[c] = succeeded[c]
        /\ UNCHANGED <<object, copied, held, steady, seen>>
    BY <1>9 DEF Refuse, RestartAgent, Serving, GroupTypeOK, historyVars, agentVars
  <2>2. ServedOnce(c)'
    BY <1>5, <2>1 DEF ServedOnce
  <2>3. ServedWereMembers(c)'
    BY <1>2, <1>5, <2>1 DEF ServedWereMembers
  <2>4. MembersAreServed(c)'
    BY <1>2, <1>5, <2>1 DEF MembersAreServed
  <2> QED BY <2>2, <2>3, <2>4
<1>10. ASSUME NEW a \in todo[c], FindAgent(c, a)
       PROVE  ServedOnce(c)' /\ ServedWereMembers(c)' /\ MembersAreServed(c)'
  <2>1. /\ stage[c] = "cloning" /\ stage'[c] = "found" /\ copied[c] = {}
        /\ todo'[c] = todo[c] \ {a} /\ held'[c] = <<a, made[a]>> /\ held[c] = None
        /\ UNCHANGED <<object, copied, succeeded, failed, steady, seen>>
    BY <1>10 DEF FindAgent, Serving, GroupTypeOK, historyVars, agentVars
  <2>2. held'[c] # None
    BY <1>10, <2>1, CurrentFacts, GroupAssumption DEF FindAgent, GroupTypeOK
  <2>3. ServedOnce(c)'
    BY <2>1 DEF ServedOnce
  <2>4. ServedWereMembers(c)'
    BY <1>2, <2>1 DEF ServedWereMembers
  <2>5. MembersAreServed(c)'
    BY <1>2, <2>1, <2>2 DEF MembersAreServed
  <2> QED BY <2>3, <2>4, <2>5
<1>11. CASE SetCustomConfig(c)
  <2>1. /\ stage[c] = "found" /\ stage'[c] \in {"confirmed", "waiting"}
        /\ UNCHANGED <<copied, todo, held, succeeded, failed, steady, seen>>
    BY <1>11 DEF SetCustomConfig, GroupTypeOK
  <2> QED BY <1>2, <1>4, <1>5, <2>1 DEF ServedOnce, ServedWereMembers, MembersAreServed
<1>12. CASE Confirmed(c) \/ TimesOut(c)
  <2>1. /\ stage[c] \in {"waiting", "confirmed"} /\ stage'[c] = "cloning" /\ held'[c] = None
        /\ \/ succeeded'[c] = succeeded[c] \cup {held[c][1]} /\ failed'[c] = failed[c]
           \/ failed'[c] = failed[c] \cup {held[c][1]} /\ succeeded'[c] = succeeded[c]
        /\ UNCHANGED <<object, copied, todo, steady, seen>>
    BY <1>12 DEF Confirmed, TimesOut, Answered, GroupTypeOK, historyVars, agentVars
  <2>2. ServedOnce(c)'
    BY <1>5, <2>1 DEF ServedOnce
  <2>3. ServedWereMembers(c)'
    BY <1>2, <1>5, <2>1 DEF ServedWereMembers
  <2>4. MembersAreServed(c)'
    BY <1>2, <1>5, <2>1 DEF MembersAreServed
  <2> QED BY <2>2, <2>3, <2>4
<1>13. CASE Return(c)
  <2>1. /\ stage[c] = "cloning" /\ stage'[c] = "returned" /\ copied[c] = {} /\ todo[c] = {}
        /\ UNCHANGED <<object, copied, todo, held, succeeded, failed, steady, seen>>
    BY <1>13 DEF Return, GroupTypeOK, historyVars, agentVars
  <2> QED BY <1>2, <1>5, <2>1 DEF ServedOnce, ServedWereMembers, MembersAreServed
<1> QED BY <1>6, <1>7, <1>8, <1>9, <1>10, <1>11, <1>12, <1>13 DEF CallStep

LEMMA CallAnswerStep ==
  ASSUME GroupTyped, AnswerInv, NEW c \in Calls, CallStep(c)
  PROVE  AnswerInv'
<1>1. FreshObjects'
  BY CallMembership DEF AnswerInv, FreshObjects, MembershipKept
<1>2. ASSUME NEW d \in Calls
      PROVE  ServedOnce(d)' /\ ServedWereMembers(d)' /\ MembersAreServed(d)'
  <2>1. CASE d = c
    BY <2>1, CallServes DEF AnswerInv
  <2>2. CASE d # c
    BY <2>2, OtherCallsKept DEF AnswerInv
  <2> QED BY <2>1, <2>2
<1> QED BY <1>1, <1>2 DEF AnswerInv

LEMMA AnswerInit == GroupInit => AnswerInv
<1> SUFFICES ASSUME GroupInit PROVE AnswerInv
  OBVIOUS
<1>1. FreshObjects
  BY DEF GroupInit, FreshObjects, NewAgent
<1>2. ASSUME NEW c \in Calls PROVE ServedOnce(c) /\ ServedWereMembers(c) /\ MembersAreServed(c)
  BY DEF GroupInit, ServedOnce, ServedWereMembers, MembersAreServed, Answer, Held, UnderWay
<1> QED BY <1>1, <1>2 DEF AnswerInv

LEMMA AnswerStep == GroupTyped /\ AnswerInv /\ [GroupNext]_groupVars => AnswerInv'
<1>1. ASSUME GroupTyped, AnswerInv, UNCHANGED groupVars PROVE AnswerInv'
  BY <1>1 DEF groupVars, agentVars, handlerVars, callVars, historyVars, AnswerInv,
     FreshObjects, ServedOnce, ServedWereMembers, MembersAreServed, Answer, Held, UnderWay,
     Members, Current
<1> QED BY <1>1, AgentAnswerStep, CallAnswerStep DEF GroupNext

(***************************************************************************)
(* SendConfigToAgentsInGroup and RestartAgentsInGroup work off a copy of   *)
(* the registry while agents come, go and move: whatever they do, the      *)
(* answer names nobody twice, all that stayed in the group, and nobody     *)
(* that was not in it.                                                     *)
(***************************************************************************)
THEOREM AnswersAreComplete == GroupSpec => []AnswerAccountsForMembers
<1>1. ASSUME GroupTyped, AnswerInv PROVE AnswerAccountsForMembers
  <2> SUFFICES ASSUME NEW c \in Calls
               PROVE  /\ succeeded[c] \cap failed[c] = {}
                      /\ Answer(c) \subseteq seen[c]
                      /\ stage[c] = "returned" => steady[c] \subseteq Answer(c)
    BY DEF AnswerAccountsForMembers, Answer
  <2>1. ServedOnce(c) /\ ServedWereMembers(c) /\ MembersAreServed(c)
    BY <1>1 DEF AnswerInv
  <2>2. stage[c] = "returned" => ~Held(c)
    BY <1>1 DEF GroupTyped, GroupTypeOK, Held
  <2> QED BY <2>1, <2>2 DEF ServedOnce, ServedWereMembers, MembersAreServed
<1>2. GroupInit => GroupTyped /\ AnswerInv
  BY TypeInit, AnswerInit
<1>3. GroupTyped /\ AnswerInv /\ [GroupNext]_groupVars => (GroupTyped /\ AnswerInv)'
  BY TypeStep, AnswerStep
<1> QED BY <1>1, <1>2, <1>3, PTL DEF GroupSpec

-----------------------------------------------------------------------------
(* The joiners.                                                            *)

(* A message is about its own agent.                                       *)
LEMMA MessagesAreLocal ==
  ASSUME GroupTyped, NEW b \in Agents, AgentStep(b), NEW a \in Agents, a # b
  PROVE  /\ pc'[a] = pc[a] /\ chosen'[a] = chosen[a] /\ given'[a] = given[a]
         /\ a \in informed' <=> a \in informed
<1> USE DEF GroupTyped, GroupTypeOK
<1>1. ASSUME NEW g \in Descriptions[b], OnMessage(b, g)
      PROVE  /\ pc'[a] = pc[a] /\ chosen'[a] = chosen[a] /\ given'[a] = given[a]
             /\ a \in informed' <=> a \in informed
  BY <1>1 DEF OnMessage
<1>2. CASE ProcessAgentGrouping(b)
  <2>1. /\ pc' = [pc EXCEPT ![b] = IF NeedsConfig(b) /\ Able(b, "push") THEN "reading" ELSE "updating"]
        /\ UNCHANGED chosen
        /\ UNCHANGED <<given, informed>>
           \/ /\ given' = [given EXCEPT ![b] = {}]
              /\ informed' = IF Able(b, "push") THEN informed \cup {b} ELSE informed \ {b}
    BY <1>2 DEF ProcessAgentGrouping
  <2>2. pc'[a] = pc[a] /\ chosen'[a] = chosen[a]
    BY <2>1
  <2>3. CASE UNCHANGED <<given, informed>>
    BY <2>2, <2>3
  <2>4. CASE /\ given' = [given EXCEPT ![b] = {}]
             /\ informed' = IF Able(b, "push") THEN informed \cup {b} ELSE informed \ {b}
    BY <2>2, <2>4
  <2> QED BY <2>1, <2>3, <2>4
<1>3. CASE GetConfigForAgent(b)
  BY <1>3 DEF GetConfigForAgent
<1>4. CASE SetInitialConfig(b)
  <2>1. /\ pc' = [pc EXCEPT ![b] = "updating"] /\ chosen' = [chosen EXCEPT ![b] = None]
        /\ given' = [given EXCEPT ![b] = @ \cup ({chosen[b]} \cap Pushes)] /\ UNCHANGED informed
    BY <1>4 DEF SetInitialConfig
  <2> QED BY <2>1
<1>5. CASE UpdateStatus(b)
  <2>1. pc' = [pc EXCEPT ![b] = "idle"] /\ UNCHANGED <<chosen, given, informed>>
    BY <1>5 DEF UpdateStatus, historyVars
  <2> QED BY <2>1
<1>6. CASE OnDisconnect(b)
  BY <1>6 DEF OnDisconnect, handlerVars
<1> QED BY <1>1, <1>2, <1>3, <1>4, <1>5, <1>6 DEF AgentStep

(* The calls go on to come to an agent whose object stays.                 *)
LEMMA DueStays ==
  ASSUME GroupTyped, NEW b \in Agents, AgentStep(b), NEW a \in Agents, made'[a] = made[a],
         NEW c \in Calls, IsDue(c, a)
  PROVE  IsDue(c, a)'
BY AgentLeavesCalls DEF IsDue

LEMMA OtherAgentsKeep ==
  ASSUME GroupTyped, NEW b \in Agents, AgentStep(b), RegistryStep(b),
         NEW a \in Agents, a # b, NEW c \in Calls, Promised(c, a)
  PROVE  Promised(c, a)'
<1>1. /\ pc'[a] = pc[a] /\ chosen'[a] = chosen[a] /\ given'[a] = given[a] /\ failed' = failed
  BY MessagesAreLocal, AgentLeavesCalls
<1>2. IsDue(c, a) => IsDue(c, a)'
  BY DueStays DEF RegistryStep
<1> QED BY <1>1, <1>2 DEF Promised

LEMMA OwnMessageKeeps ==
  ASSUME GroupTyped, JoinersAreServed, NEW a \in Agents, AgentStep(a),
         NEW g \in Groups, a \in Members(g)', a \in informed',
         NEW c \in Pushes, c = latest[g]
  PROVE  Promised(c, a)'
<1> USE DEF GroupTyped
<1>1. c \in Calls /\ c # None
  BY GroupAssumption DEF Calls
<1>2. failed' = failed
  BY AgentLeavesCalls
<1>3. ASSUME made'[a] = made[a], a \in Members(g), a \in informed,
             given[a] \subseteq given'[a], pc[a] \notin {"reading", "setting"}
      PROVE  Promised(c, a)'
  <2>1. Promised(c, a)
    BY <1>1, <1>3 DEF JoinersAreServed
  <2>2. IsDue(c, a) => IsDue(c, a)'
    BY <1>1, <1>3, DueStays
  <2> QED BY <1>2, <1>3, <2>1, <2>2 DEF Promised
<1>4. ASSUME NEW d \in Descriptions[a], OnMessage(a, d) PROVE Promised(c, a)'
  <2>1. a \in registered
    BY <1>4 DEF OnMessage, GroupTypeOK
  <2>2. made' = made /\ object' = object /\ given' = given /\ informed' = informed /\ pc[a] = "idle"
    BY <1>4, <2>1 DEF OnMessage
  <2>3. a \in Members(g)
    BY <2>1, <2>2 DEF Members, Current
  <2> QED BY <1>3, <2>2, <2>3
<1>5. CASE ProcessAgentGrouping(a)
  <2>1. /\ a \in registered
        /\ \A b \in Agents : \A m \in 1..MaxObjects[b] :
             object'[b][m].member = IF b = a /\ m = made[a] THEN named[a] ELSE object[b][m].member
    BY <1>5, GroupingWrites
  <2>2. pc[a] = "grouping" /\ made' = made /\ registered' = registered
        /\ made[a] \in 1..MaxObjects[a]
    BY <1>5, <2>1, CurrentFacts DEF ProcessAgentGrouping
  <2>3. named[a] = g
    BY <2>1, <2>2 DEF Members, Current
  <2>4. CASE GroupChanged(a)
    <3>1. Able(a, "push")
      BY <1>5, <2>4 DEF ProcessAgentGrouping
    <3>2. pc' = [pc EXCEPT ![a] = "reading"]
      BY <1>5, <2>4, <3>1 DEF ProcessAgentGrouping, NeedsConfig
    <3> QED BY <3>2 DEF Promised, GroupTypeOK
  <2>5. CASE ~GroupChanged(a)
    <3>1. given' = given /\ informed' = informed
      BY <1>5, <2>5 DEF ProcessAgentGrouping
    <3>2. Current(a).member = g
      BY <2>3, <2>5, GroupAssumption DEF GroupChanged
    <3>3. a \in Members(g)
      BY <2>1, <3>2 DEF Members
    <3> QED BY <1>3, <2>2, <3>1, <3>3
  <2> QED BY <2>4, <2>5
<1>6. CASE GetConfigForAgent(a)
  <2>1. made' = made /\ registered' = registered /\ object' = object /\ pc[a] = "reading"
    BY <1>6 DEF GetConfigForAgent, agentVars
  <2>2. Current(a).member = g
    BY <2>1 DEF Members, Current
  <2>3. chosen' = [chosen EXCEPT ![a] =
                     IF Current(a).member \in Groups /\ latest[Current(a).member] # None
                     THEN latest[Current(a).member] ELSE Other]
    BY <1>6 DEF GetConfigForAgent
  <2>4. chosen'[a] = c
    BY <1>1, <2>2, <2>3 DEF GroupTypeOK
  <2>5. pc'[a] = "setting"
    BY <1>6 DEF GetConfigForAgent, GroupTypeOK
  <2> QED BY <2>4, <2>5 DEF Promised
<1>7. CASE SetInitialConfig(a)
  <2>1. /\ UNCHANGED <<made, registered, informed>> /\ pc[a] = "setting"
        /\ given' = [given EXCEPT ![a] = @ \cup ({chosen[a]} \cap Pushes)]
    BY <1>7 DEF SetInitialConfig
  <2>2. given'[a] = given[a] \cup ({chosen[a]} \cap Pushes)
    BY <2>1 DEF GroupTypeOK
  <2>3. a \in Members(g)
    BY <1>7, <2>1, MembersUnchanged, SetInitialConfigWrites
  <2>4. Promised(c, a)
    BY <1>1, <2>1, <2>3 DEF JoinersAreServed
  <2>5. IsDue(c, a) => IsDue(c, a)'
    BY <1>1, <2>1, DueStays
  <2> QED BY <1>1, <1>2, <2>1, <2>2, <2>4, <2>5 DEF Promised
<1>8. CASE UpdateStatus(a)
  <2>1. UNCHANGED <<made, registered, given, informed>> /\ pc[a] = "updating"
    BY <1>8 DEF UpdateStatus, historyVars
  <2>2. a \in Members(g)
    BY <1>8, <2>1, MembersUnchanged, UpdateStatusWrites
  <2> QED BY <1>3, <2>1, <2>2
<1>9. CASE OnDisconnect(a)
  BY <1>9 DEF OnDisconnect, Members
<1> QED BY <1>4, <1>5, <1>6, <1>7, <1>8, <1>9 DEF AgentStep

LEMMA AgentLeavesRows == ASSUME NEW a \in Agents, AgentStep(a) PROVE latest' = latest
BY DEF AgentStep, OnMessage, ProcessAgentGrouping, GetConfigForAgent, SetInitialConfig,
   UpdateStatus, OnDisconnect

LEMMA AgentJoinersStep ==
  ASSUME GroupInv, NEW b \in Agents, AgentStep(b)
  PROVE  LatestWasStored' /\ JoinersAreServed'
<1> USE DEF GroupInv
<1>1. RegistryStep(b) /\ latest' = latest
  BY AgentMembership, AgentLeavesRows DEF AnswerInv
<1>2. \A g \in Groups : latest[g] # None => latest[g] \in Pushes /\ latest[g] \in Calls
  BY DEF GroupTyped, GroupTypeOK, Calls
<1>3. LatestWasStored'
  BY <1>1, <1>2, AgentLeavesCalls DEF LatestWasStored
<1>4. ASSUME NEW g \in Groups, NEW a \in Members(g)', a \in informed',
             NEW c \in Pushes, c = latest[g], c # None
      PROVE  Promised(c, a)'
  <2>1. a \in Agents /\ c \in Calls
    BY AgentTypeStep DEF Members, GroupTyped, GroupTypeOK, Calls
  <2>2. CASE a = b
    BY <1>4, <2>2, OwnMessageKeeps
  <2>3. CASE a # b
    <3>1. a \in Members(g) /\ a \in informed
      BY <1>1, <1>4, <2>1, <2>3, OthersStay, MessagesAreLocal
    <3>2. Promised(c, a)
      BY <1>4, <3>1 DEF JoinersAreServed
    <3> QED BY <1>1, <2>1, <2>3, <3>2, OtherAgentsKeep
  <2> QED BY <2>2, <2>3
<1>5. JoinersAreServed'
  BY <1>1, <1>2, <1>4 DEF JoinersAreServed
<1> QED BY <1>3, <1>5

LEMMA StageLeavesNew ==
  ASSUME GroupTyped, NEW d \in Calls, CallStep(d)
  PROVE  stage'[d] # "new"
BY DEF GroupTyped, GroupTypeOK, CallStep, StoreRow, BeginRestart, Begin, CopyMap, CloneReadonly,
   Refuse, RestartAgent, FindAgent, Serving, SetCustomConfig, Confirmed, TimesOut, Answered, Return

(* Only StoreRow writes a row, for its own group.                          *)
LEMMA RowsWritten ==
  ASSUME GroupTyped, NEW d \in Calls, CallStep(d)
  PROVE  \A g \in Groups : latest'[g] = latest[g] \/ (g = Target[d] /\ latest'[g] = d /\ d \in Pushes
                                                     /\ stage'[d] = "begun")
<1>1. CASE StoreRow(d)
  <2>1. /\ latest' = latest \/ latest' = [latest EXCEPT ![Target[d]] = d]
        /\ d \in Pushes /\ stage' = [stage EXCEPT ![d] = "begun"]
    BY <1>1 DEF StoreRow, Begin
  <2> QED BY <2>1 DEF GroupTyped, GroupTypeOK
<1>2. CASE ~StoreRow(d)
  <2>1. latest' = latest
    BY <1>2 DEF CallStep, BeginRestart, CopyMap, CloneReadonly,
       Refuse, RestartAgent, FindAgent, SetCustomConfig, Confirmed, TimesOut, Answered, Return
  <2> QED BY <2>1
<1> QED BY <1>1, <1>2

LEMMA CallRowsStep ==
  ASSUME GroupTyped, LatestWasStored, NEW d \in Calls, CallStep(d)
  PROVE  LatestWasStored'
<1> SUFFICES ASSUME NEW g \in Groups, latest'[g] # None
             PROVE  stage'[latest'[g]] # "new" /\ Target[latest'[g]] = g
  BY DEF LatestWasStored
<1>1. CASE latest'[g] = latest[g]
  <2>1. stage[latest[g]] # "new" /\ Target[latest[g]] = g /\ latest[g] \in Calls
    BY <1>1 DEF LatestWasStored, GroupTyped, GroupTypeOK, Calls
  <2>2. latest[g] # d => stage'[latest[g]] = stage[latest[g]]
    BY <2>1, CallMembership DEF OthersKept
  <2> QED BY <1>1, <2>1, <2>2, StageLeavesNew
<1>2. CASE latest'[g] # latest[g]
  BY <1>2, RowsWritten, StageLeavesNew
<1> QED BY <1>1, <1>2

LEMMA CallGives ==
  ASSUME GroupTyped, NEW d \in Calls, CallStep(d), NEW a \in Agents
  PROVE  given[a] \subseteq given'[a]
<1>1. CASE SetCustomConfig(d)
  <2>1. given' = given \/ given' = [given EXCEPT ![held[d][1]] = @ \cup {d}]
    BY <1>1 DEF SetCustomConfig
  <2>2. given \in [Agents -> SUBSET Pushes]
    BY DEF GroupTyped, GroupTypeOK
  <2>3. CASE given' = [given EXCEPT ![held[d][1]] = @ \cup {d}]
    <3>1. given'[a] = given[a] \/ given'[a] = given[a] \cup {d}
      BY <2>2, <2>3
    <3> QED BY <3>1
  <2> QED BY <2>1, <2>3
<1>2. CASE ~SetCustomConfig(d)
  BY <1>2 DEF CallStep, StoreRow, BeginRestart, CopyMap, CloneReadonly, Refuse, RestartAgent,
     FindAgent, Confirmed, TimesOut, Answered, Return, historyVars
<1> QED BY <1>1, <1>2

(* A push keeps its promise to the members of its group as it works.       *)
LEMMA PushKeeps ==
  ASSUME GroupTyped, AnswerInv, NEW c \in Pushes, c \in Calls, CallStep(c), stage[c] # "new",
         NEW a \in Members(Target[c]), a \in Agents, Promised(c, a)
  PROVE  Promised(c, a)'
<1> USE DEF GroupTyped
<1>0. ServedOnce(c) /\ a \in registered /\ Current(a).member = Target[c]
  BY DEF AnswerInv, Members
<1>1. /\ UNCHANGED <<made, pc, chosen>> /\ given[a] \subseteq given'[a]
  BY CallMembership, CallGives DEF handlerVars
<1>2. ASSUME failed[c] \subseteq failed'[c], IsDue(c, a) => IsDue(c, a)' \/ a \in failed'[c]
                                                             \/ c \in given'[a]
      PROVE  Promised(c, a)'
  BY <1>1, <1>2 DEF Promised
<1>3. CASE CopyMap(c)
  <2>1. /\ failed' = failed /\ stage'[c] = "cloning"
        /\ copied'[c] = {<<b, made[b]>> : b \in registered}
    BY <1>3 DEF CopyMap, GroupTypeOK
  <2>2. <<a, made[a]>> \in copied'[c]
    BY <1>0, <2>1
  <2> QED BY <1>1, <1>2, <2>1, <2>2 DEF IsDue
<1>4. ASSUME NEW o \in copied[c], CloneReadonly(c, o) PROVE Promised(c, a)'
  <2>1. /\ stage[c] = "cloning" /\ failed' = failed /\ copied'[c] = copied[c] \ {o}
        /\ todo'[c] = IF object[o[1]][o[2]].member = Target[c] THEN todo[c] \cup {o[1]} ELSE todo[c]
    BY <1>4 DEF CloneReadonly, GroupTypeOK
  <2>2. o = <<a, made[a]>> => a \in todo'[c]
    BY <1>0, <2>1 DEF Current
  <2> QED BY <1>1, <1>2, <2>1, <2>2 DEF IsDue
<1>5. ASSUME NEW b \in todo[c], Refuse(c, b) PROVE Promised(c, a)'
  <2>1. /\ stage[c] = "cloning" /\ failed'[c] = failed[c] \cup {b} /\ copied' = copied
        /\ todo'[c] = todo[c] \ {b}
    BY <1>5 DEF Refuse, Serving, GroupTypeOK
  <2> QED BY <1>1, <1>2, <2>1 DEF IsDue
<1>6. ASSUME NEW b \in todo[c], FindAgent(c, b) PROVE Promised(c, a)'
  <2>1. /\ stage[c] = "cloning" /\ stage'[c] = "found" /\ failed' = failed /\ copied' = copied
        /\ todo'[c] = todo[c] \ {b} /\ held'[c] = <<b, made[b]>>
    BY <1>6 DEF FindAgent, Serving, GroupTypeOK
  <2> QED BY <1>1, <1>2, <2>1 DEF IsDue
<1>7. CASE SetCustomConfig(c)
  <2>1. stage[c] = "found" /\ UNCHANGED <<copied, todo, failed>>
    BY <1>7 DEF SetCustomConfig
  <2>2. ASSUME held[c] = <<a, made[a]>> PROVE c \in given'[a]
    <3>1. given' = [given EXCEPT ![a] = @ \cup {c}]
      BY <1>7, <2>2 DEF SetCustomConfig
    <3> QED BY <3>1 DEF GroupTypeOK
  <2> QED BY <1>1, <1>2, <2>1, <2>2 DEF IsDue
<1>8. CASE Confirmed(c) \/ TimesOut(c)
  <2>1. /\ stage[c] \in {"waiting", "confirmed"} /\ UNCHANGED <<copied, todo>>
        /\ failed[c] \subseteq failed'[c]
    BY <1>8 DEF Confirmed, TimesOut, Answered, GroupTypeOK
  <2> QED BY <1>1, <1>2, <2>1 DEF IsDue
<1>9. CASE Return(c)
  <2>1. stage[c] = "cloning" /\ UNCHANGED <<copied, todo, failed>>
    BY <1>9 DEF Return
  <2> QED BY <1>1, <1>2, <2>1 DEF IsDue
<1>10. ~StoreRow(c) /\ ~BeginRestart(c)
  BY DEF StoreRow, BeginRestart, Begin
<1>11. \A b \in todo[c] : ~RestartAgent(c, b)
  BY GroupAssumption DEF RestartAgent
<1> QED
  BY <1>3, <1>4, <1>5, <1>6, <1>7, <1>8, <1>9, <1>10, <1>11 DEF CallStep

LEMMA CallJoinersStep ==
  ASSUME GroupInv, NEW d \in Calls, CallStep(d)
  PROVE  JoinersAreServed'
<1> USE DEF GroupInv
<1>1. /\ UNCHANGED <<made, registered, handlerVars, informed>> /\ OthersKept(d)
      /\ \A g \in Groups : Members(g)' = Members(g)
  BY CallMembership, CallKeepsMembers
<1>2. ASSUME NEW g \in Groups, NEW a \in Members(g), a \in informed, latest'[g] # None,
             NEW c \in Pushes, c = latest'[g]
      PROVE  Promised(c, a)'
  <2>0. a \in Agents /\ c \in Calls
    BY DEF Members, GroupTyped, GroupTypeOK, Calls
  <2>1. CASE latest'[g] # latest[g]
    <3>1. stage'[c] = "begun"
      BY <1>2, <2>1, RowsWritten
    <3> QED BY <3>1 DEF Promised, IsDue
  <2>2. CASE latest'[g] = latest[g]
    <3>1. Promised(c, a) /\ stage[c] # "new" /\ Target[c] = g
      BY <1>2, <2>2 DEF JoinersAreServed, LatestWasStored
    <3>2. CASE c = d
      BY <1>2, <2>0, <3>1, <3>2, PushKeeps
    <3>3. CASE c # d
      <4>1. /\ UNCHANGED <<made, pc, chosen>> /\ given[a] \subseteq given'[a]
            /\ stage'[c] = stage[c] /\ copied'[c] = copied[c] /\ todo'[c] = todo[c]
            /\ held'[c] = held[c] /\ failed'[c] = failed[c]
        BY <1>1, <2>0, <3>3, CallGives DEF OthersKept, handlerVars
      <4> QED BY <3>1, <4>1 DEF Promised, IsDue
    <3> QED BY <3>2, <3>3
  <2> QED BY <2>1, <2>2
<1>3. \A g \in Groups : latest'[g] # None => latest'[g] \in Pushes
  BY CallTypeStep DEF GroupTyped, GroupTypeOK
<1> QED BY <1>1, <1>2, <1>3 DEF JoinersAreServed

LEMMA GroupInvInit == GroupInit => GroupInv
<1> SUFFICES ASSUME GroupInit PROVE GroupInv
  OBVIOUS
<1>1. LatestWasStored /\ JoinersAreServed
  BY DEF GroupInit, LatestWasStored, JoinersAreServed, Members
<1> QED BY <1>1, TypeInit, AnswerInit DEF GroupInv

LEMMA GroupInvStep == GroupInv /\ [GroupNext]_groupVars => GroupInv'
<1> SUFFICES ASSUME GroupInv, [GroupNext]_groupVars PROVE GroupInv'
  OBVIOUS
<1>1. GroupTyped' /\ AnswerInv'
  BY TypeStep, AnswerStep DEF GroupInv
<1>2. LatestWasStored' /\ JoinersAreServed'
  <2>1. ASSUME NEW a \in Agents, AgentStep(a) PROVE LatestWasStored' /\ JoinersAreServed'
    BY <2>1, AgentJoinersStep
  <2>2. ASSUME NEW c \in Calls, CallStep(c) PROVE LatestWasStored' /\ JoinersAreServed'
    BY <2>2, CallRowsStep, CallJoinersStep DEF GroupInv
  <2>3. CASE UNCHANGED groupVars
    BY <2>3 DEF groupVars, agentVars, handlerVars, callVars, historyVars, GroupInv,
       LatestWasStored, JoinersAreServed, Promised, IsDue, Members, Current
  <2> QED BY <2>1, <2>2, <2>3 DEF GroupNext
<1> QED BY <1>1, <1>2 DEF GroupInv

(***************************************************************************)
(* Between the row that HandleAssignConfig stores and the agents that its  *)
(* push comes to, processAgentGrouping and getConfigForAgent lose no agent *)
(* that joins the group with its capability known and a store that         *)
(* answers, however many pushes, agents and connections there are.         *)
(***************************************************************************)
THEOREM JoinersAreNotMissed == GroupSpec => []JoinersMissNothing
<1>1. ASSUME GroupInv PROVE JoinersMissNothing
  <2> SUFFICES ASSUME NEW g \in Groups, NEW a \in Members(g), latest[g] # None,
                      stage[latest[g]] = "returned", a \in informed, pc[a] \in {"idle", "updating"}
               PROVE  latest[g] \in given[a] \/ a \in failed[latest[g]]
    BY DEF JoinersMissNothing
  <2>1. Promised(latest[g], a)
    BY <1>1 DEF JoinersAreServed, GroupInv
  <2>2. latest[g] \in Calls
    BY <1>1 DEF GroupInv, GroupTyped, GroupTypeOK, Calls
  <2>3. ~IsDue(latest[g], a)
    BY <1>1, <2>2 DEF GroupInv, AnswerInv, ServedOnce, IsDue
  <2> QED BY <2>1, <2>3 DEF Promised
<1> QED BY <1>1, GroupInvInit, GroupInvStep, PTL DEF GroupSpec

=============================================================================
