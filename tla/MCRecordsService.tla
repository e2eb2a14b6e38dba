-------------------------- MODULE MCRecordsService --------------------------
(* Small instances of RecordsService for TLC.  w1 creates a record, w2     *)
(* reads it and w3 creates another; w1 and w2 take one unit each of the    *)
(* two there are, and w3 takes both.                                       *)
EXTENDS RecordsService

MCActionOf == [d \in Delivery |-> CASE d \in {"d1", "d2"} -> "w1" [] d = "d3" -> "w3" [] d = "d4" -> "w2"]
MCTargetOf == [w \in Workflow |-> IF w = "w3" THEN "order" ELSE "customer"]
MCInputsOf == [w \in Workflow |-> {d \in Delivery : MCActionOf[d] = w}]
MCPlan == [d \in Delivery |-> IF d = "d3" THEN {"pair"} ELSE {"unit"}]
MCKey == [i \in {"unit", "pair"} |-> "units"]
MCAmount == [i \in {"unit", "pair"} |-> IF i = "pair" THEN 2 ELSE 1]
TwoUnits == [k \in {"units"} |-> 2]

Delivered(deliveries, overlap, redelivery, n) ==
    [deliveries |-> deliveries, overlap |-> overlap, redelivery |-> redelivery, faults |-> n]

(* Two deliveries of one action, at once and in turn; a create and a read; *)
(* two actions that compete for capacity.                                  *)
MCTraffic == {
    Delivered({"d1", "d2"}, TRUE, FALSE, 2),
    Delivered({"d1", "d2"}, FALSE, TRUE, 2),
    Delivered({"d1", "d4"}, TRUE, FALSE, 1),
    Delivered({"d1", "d3"}, TRUE, FALSE, 1)}

RaceTraffic == {Delivered({"d1", "d2"}, TRUE, FALSE, 0)}
=============================================================================
