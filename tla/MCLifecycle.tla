---------------------------- MODULE MCLifecycle ----------------------------
(* Small instances of Lifecycle for TLC.  Three workflows compete for one  *)
(* additive key of three units and two exclusive keys, one of which is     *)
(* retained after commit.                                                  *)
EXTENDS LifecycleRefinement

MCWorkflow == {"w1", "w2", "w3"}
MCInput == {"x1", "x2", "x3", "bad3"}
MCInputsOf == [w \in MCWorkflow |->
    CASE w = "w1" -> {"x1"} [] w = "w2" -> {"x2"} [] w = "w3" -> {"x3", "bad3"}]
MCEligible == {"x1", "x2", "x3"}
MCCancellable == {"x1", "x3"}

MCIntent == {"one", "two", "ref", "lock"}
MCKey == [i \in MCIntent |->
    CASE i \in {"one", "two"} -> "units" [] i = "ref" -> "ref" [] i = "lock" -> "lock"]
MCAmount == [i \in MCIntent |-> IF i = "two" THEN 2 ELSE 1]
MCPlan == [x \in MCInput |->
    CASE x = "x1" -> {"two", "ref"}
      [] x = "x2" -> {"one", "lock"} [] x = "x3" -> {"two", "lock"}
      [] OTHER -> {"ref"}]
MCCeiling == [k \in {"units"} |-> 3]

(* Two intents of one input on the same additive key. *)
SameKeyPlan == [x \in MCInput |->
    IF x = "x1" THEN {"one", "two"} ELSE MCPlan[x]]
SameKeyCeiling == [k \in {"units"} |-> 2]
=============================================================================
