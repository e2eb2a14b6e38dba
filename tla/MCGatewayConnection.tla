------------------------ MODULE MCGatewayConnection ------------------------
(* Small instances of GatewayConnection for TLC: two hosts that share a    *)
(* connection record, up to three admin commands and two submissions.      *)
EXTENDS GatewayConnection

Do(verb, secret, host) == [verb |-> verb, secret |-> secret, host |-> host, generation |-> 2]
None == Do("none", "none", "h1")

Run(a, b, c, tasks, errors, backups) ==
    [command |-> [s \in Session |-> CASE s = "s1" -> a [] s = "s2" -> b [] s = "s3" -> c],
     tasks |-> tasks, after |-> {}, faults |-> errors, restores |-> backups]

Ordered(run, after) == [run EXCEPT !.after = after]

MCTaskHost == [t \in Task |-> "h1"]

(* Workloads of one host are run with h2 idle.  The second part is what    *)
(* the run is about: a change beside submissions, rotations beside each    *)
(* other, a host that takes a published secret, two-phase rotation and     *)
(* collection, revocation, candidates, and a restored store.               *)
MCWorkload == {
    Ordered(Run(Do("disable", "x", "h1"), Do("enable", "x", "h1"), None, {"t1", "t2"}, 0, 0),
        {<<"s1", "s2">>}),
    Run(Do("rotate", "x", "h1"), Do("disable", "x", "h1"), None, {"t1"}, 1, 0),
    Run(Do("rotate", "x", "h1"), Do("revoke", "x", "h1"), None, {"t1"}, 1, 0),
    Run(Do("rotate", "x", "h1"), Do("rotate", "y", "h1"), Do("rotate", "x", "h2"), {}, 0, 0),
    Run(Do("rotate", "x", "h1"), Do("rotate", "x", "h2"), Do("revoke", "x", "h2"), {}, 1, 0),
    Run(Do("prepare", "x", "h1"), Do("commit", "x", "h1"), Do("collect", "x", "h1"), {}, 1, 0),
    Run(Do("rotate", "x", "h1"), Do("rotate", "y", "h1"), Do("collect", "x", "h1"), {}, 0, 0),
    Run(Do("revoke", "x", "h1"), Do("collect", "x", "h1"), Do("stop_revoke", "x", "h2"), {}, 1, 0),
    Run(Do("stop_disable", "x", "h2"), Do("enable", "x", "h1"), Do("stop_revoke", "x", "h2"), {"t1"}, 0, 0),
    Run(Do("revoke", "x", "h1"), Do("collect", "x", "h1"), Do("rotate", "x", "h1"), {}, 0, 0),
    Run(Do("stage", "x", "h1"), Do("revoke", "x", "h1"), Do("revoke", "x", "h1"), {}, 0, 0),
    Run(Do("rotate", "x", "h1"), Do("disable", "x", "h1"), Do("enable", "x", "h1"), {}, 0, 0),
    Run(Do("rotate", "x", "h1"), Do("disable", "x", "h2"), Do("collect", "x", "h1"), {}, 0, 0),
    Run(Do("rotate", "x", "h2"), Do("rotate", "x", "h1"), None, {"t1"}, 0, 0),
    Run(Do("stage", "x", "h1"), Do("stage", "y", "h1"), Do("publish", "x", "h1"), {}, 1, 0),
    Run(Do("stage", "x", "h1"), Do("publish", "x", "h1"), Do("publish", "x", "h1"), {}, 1, 0),
    Run(Do("stage", "x", "h1"), Do("publish", "x", "h1"), Do("collect", "x", "h1"), {}, 1, 0),
    Run(Do("stage", "x", "h1"), Do("publish", "x", "h1"), Do("revoke", "x", "h1"), {}, 1, 0),
    Run(Do("stage", "x", "h1"), Do("publish", "x", "h1"), Do("disable", "x", "h2"), {"t1"}, 0, 0),
    Ordered(Run(Do("disable", "x", "h1"), Do("enable", "x", "h1"), Do("enable", "x", "h2"), {"t1", "t2"}, 0, 1),
        {<<"s1", "s2">>, <<"s2", "t1">>, <<"t1", "t2">>})}

(* Two rotations through one server, without a fault. *)
RotationsWorkload == {
    Run(Do("rotate", "x", "h1"), Do("rotate", "y", "h1"), None, {}, 0, 0)}

(* A revocation beside a staging, and another one after both. *)
RevocationsWorkload == {
    Ordered(Run(Do("stage", "x", "h1"), Do("revoke", "x", "h1"), Do("revoke", "x", "h1"), {}, 0, 0),
        {<<"s1", "s3">>, <<"s2", "s3">>})}
=============================================================================
