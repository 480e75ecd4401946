--------------------------- MODULE MCAgentSessions ---------------------------
(***************************************************************************)
(* Two instances.  In the first, two agents of the same named group:       *)
(* "roamer" has a connection of its own and shares a second one with       *)
(* "lodger", as behind a supervisor.  In the second, "roamer" alone moves  *)
(* over both connections, and also names a group by its id.               *)
(***************************************************************************)
EXTENDS AgentSessions

CONSTANTS roamer, lodger, own, shared, prod

MCAgents == {roamer, lodger}
MCConns == {own, shared}
MCCarries == [c \in MCConns |-> IF c = own THEN {roamer} ELSE MCAgents]
MCGroupName == [a \in MCAgents |-> prod]
MCGroupAttr == [a \in MCAgents |-> 0]

MCRoamer == {roamer}
MCRoams == [c \in MCConns |-> {roamer}]
MCNamed == [a \in MCRoamer |-> prod]
MCAttr == [a \in MCRoamer |-> 7]
=============================================================================
