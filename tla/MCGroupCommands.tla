--------------------------- MODULE MCGroupCommands ---------------------------
(* Two agents, of which one cannot be restarted, two groups, a push and a  *)
(* restart of the same group.                                              *)
EXTENDS GroupCommands

MCCapabilities == [a \in Agents |-> IF a = "a1" THEN {"push", "restart"} ELSE {"push"}]
MCDescriptions == [a \in Agents |-> IF a = "a1" THEN {"g1", "", None} ELSE {"g1"}]
MCMaxObjects == [a \in Agents |-> IF a = "a1" THEN 2 ELSE 1]
MCTarget == [c \in Calls |-> "g1"]
=============================================================================
