--------------------------- MODULE MCCoordinator ---------------------------
(* Small instances of Coordinator for TLC: workflows that compete for one  *)
(* unit of capacity.                                                       *)
EXTENDS Coordinator

MCInput == Workflow \X Reference
MCInputsOf == [w \in Workflow |-> {w} \X Reference]
MCPlan == [x \in MCInput |-> {"unit"}]
MCKey == [i \in {"unit"} |-> "units"]
MCAmount == [i \in {"unit"} |-> 1]
MCCeiling == [k \in {"units"} |-> 1]
=============================================================================
