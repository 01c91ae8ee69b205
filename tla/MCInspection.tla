---------------------------- MODULE MCInspection ----------------------------
(***************************************************************************)
(* An instance of Inspection for TLC: two jobs, on two nodes.              *)
(***************************************************************************)
EXTENDS Inspection

MCNodeOf == [j \in Jobs |-> IF j = "j1" THEN "n1" ELSE "n2"]

(* Files that differ in their first line, in a line after a long one, and  *)
(* one that seems to be coloured.                                          *)
MCContents == {<<"a">>, <<"long", "a">>, <<"long", "b">>, <<"colour">>}

(* Two nodes with different files, which edits make equal.                 *)
MCDisks == {[n \in Nodes |-> IF n = "n1" THEN <<"a">> ELSE <<"long", "a">>]}

(* Two jobs of a kind on two nodes, or a job of the cluster beside one of  *)
(* a node: a task has one job for each kind of the cluster.                *)
MCKindChoices ==
    {[j \in Jobs |-> k] : k \in NodeKinds}
    \cup {[j \in Jobs |-> IF j = "j1" THEN "command" ELSE k] : k \in ClusterKinds}

Sample(metric, rule, value, raw) == [metric |-> metric, rule |-> rule, value |-> value, raw |-> raw]

(* None, one, and three samples of two metrics, two of which are merged.   *)
MCSamples ==
    {<<>>, <<Sample("m", "q1", 1, FALSE)>>,
     <<Sample("m", "q1", 2, TRUE), Sample("x", "q2", 3, TRUE), Sample("m", "q1", 1, TRUE)>>}

Pod(phase, containers, ignored) == [phase |-> phase, containers |-> containers, ignored |-> ignored]

MCPodSets ==
    {{}, {Pod("Running", {"ready", "waiting"}, FALSE)}, {Pod("Pending", {"waiting"}, TRUE)},
     {Pod("Running", {"waiting"}, FALSE), Pod("Running", {"ready"}, FALSE)}}

Service(ns, ws, type, ip) == [namespace |-> ns, workspace |-> ws, type |-> type, ip |-> ip]

MCServices ==
    <<Service("a", "w", "ClusterIP", "None"), Service("a", "w", "ClusterIP", "ip"),
      Service("b", "w", "NodePort", "ip")>>

Connect(by, of) == [by |-> by, of |-> of]

MCConnectRules == {<<Connect("name", "a"), Connect("namespace", "b")>>, <<Connect("workspace", "w")>>}

MCNodeSet ==
    {[conditions |-> <<"Pressure", "Ready">>, cordoned |-> FALSE],
     [conditions |-> <<"Ready", "Pressure">>, cordoned |-> TRUE],
     [conditions |-> <<>>, cordoned |-> FALSE]}

(* Three resources of one kind in two namespaces, and a node's statistics. *)
MCKeyOf == [r \in Resources |-> IF r = "s1" THEN "stats" ELSE "pods"]
MCListOf == [r \in Resources |-> CASE r = "s1" -> "node" [] r = "a3" -> "cluster" [] OTHER -> "ns"]
=============================================================================
