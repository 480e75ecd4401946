--------------------------- MODULE MCConfigDelivery ---------------------------
(***************************************************************************)
(* One agent, one group.  First a push to the agent and one to its group,  *)
(* on one connection; then only the second, while the agent reconnects and *)
(* changes its group.                                                      *)
(***************************************************************************)
EXTENDS ConfigDelivery

CONSTANTS mine, ours, prod, newConf, oldConf

MCPushes == {mine, ours}
MCContent == [p \in MCPushes |-> IF p = mine THEN newConf ELSE oldConf]
MCTarget == [p \in MCPushes |-> IF p = mine THEN None ELSE prod]

MCOurs == {ours}
MCOursContent == [p \in MCOurs |-> oldConf]
MCOursTarget == [p \in MCOurs |-> prod]

MCGroups == {prod}
=============================================================================
