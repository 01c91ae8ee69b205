----------------------------- MODULE Inspectors -----------------------------
(***************************************************************************)
(* The inspectors (pkg/inspect): what RunInspect of each makes of what it  *)
(* observes, and how GetResult merges that into the report.                *)
(*                                                                         *)
(* A job has one rule.  An item says whether it asserts a problem and how  *)
(* many issues it lists; its level is set when it asserts.  Values and     *)
(* messages are left out.                                                  *)
(***************************************************************************)
EXTENDS Naturals, Sequences, SequencesExt

CONSTANTS
    Samples,      \* what a query of Prometheus may return: sequences of samples
    PodSets,      \* what the pods of a component may be
    Services,     \* the services of the cluster, in the order of their list
    ConnectRules, \* what the rules for connections may be: sequences of rules
    Long,         \* lines that fill the buffer of a scanner, 64 KiB
    Escaped,      \* lines that contain the bytes a coloured text begins with
    MaxFiltered   \* the most lines a filter lists (1000 in the code)

ASSUME InspectorsAssumption ==
    /\ MaxFiltered \in Nat \ {0}
    /\ Services \in Seq(ToSet(Services)) /\ \A s \in Samples : s \in Seq(ToSet(s))

(* What RunInspect returns: an error, or the data of the result ConfigMap; *)
(* null is the data of a job that is not among the rules, and of a list    *)
(* with no items.                                                          *)
Failure     == [ok |-> FALSE, items |-> <<>>]
Data(items) == [ok |-> TRUE, items |-> items]
Null        == Data(<<>>)

Item(assert, issues) == [node |-> "", assert |-> assert, issues |-> issues]

(* The rule engine's answer to a rule, on a value that is there.           *)
EventRuleEvaluate == {"error", "true", "false"}

-----------------------------------------------------------------------------
(* The inspectors of a node.  found is false when the job is not among the *)
(* rules in the ConfigMaps; o is the value's reading: what the rule says   *)
(* of it, "unruled" if there is no rule, "missing" if there is no value.   *)

Reading == EventRuleEvaluate \cup {"unruled", "missing"}

(* procfs, or the bus of systemd, may be down.                             *)
sysctlRunInspect(found, up, o) ==
    CASE ~up          -> Failure
      [] up /\ ~found -> Null
      [] OTHER        -> Data(<<Item(o \in {"missing", "error", "false"}, 0)>>)

systemdRunInspect(found, up, o) ==
    CASE ~found       -> Null
      [] found /\ ~up -> Failure
      [] OTHER        -> Data(<<Item(o \in {"missing", "error", "false"}, 0)>>)

(* A command that fails is "missing": its item is thrown away.             *)
commandRunInspect(found, o) ==
    IF ~found \/ o = "missing" THEN Null ELSE Data(<<Item(o \in {"error", "true"}, 0)>>)

(* GetCpu, GetMemory, GetLoadAvg, GetFileSystem and GetInodes return nil   *)
(* when they fail, on which no rule can be evaluated.                      *)
NodeData(read) == IF read THEN EventRuleEvaluate ELSE {"error"}

(* "unruled" is a resourcesType nobody knows.                              *)
nodeInfoRunInspect(found, up, o) ==
    CASE ~found       -> Null
      [] found /\ ~up -> Failure
      [] OTHER        -> Data(<<Item(o \in {"error", "true"}, 0)>>)

Least(a, b) == IF a < b THEN a ELSE b

(* Faulty variant: the list has no limit.                                  *)
fileFilterRunInspectAll(found, o, lines) ==
    LET issues == IF o = "missing" THEN 1 ELSE lines
    IN  IF found THEN Data(<<Item(issues > 0, issues)>>) ELSE Null

(* A file that cannot be opened is one issue, and so is a rule that is no  *)
(* regular expression, if the file has a line; else the lines that match   *)
(* are.                                                                    *)
fileFilterRunInspect(found, o, lines) ==
    LET issues == CASE o = "missing" -> 1
                    [] o = "error"   -> Least(lines, 1)
                    [] OTHER         -> Least(lines, MaxFiltered)
    IN  IF found THEN Data(<<Item(issues > 0, issues)>>) ELSE Null

(* fileChange compares the file with its baseline (module Inspection).     *)
(* Both are sequences of lines.                                            *)

(* The places at which they have different lines, or only one has a line.  *)
Changed(base, file) ==
    {i \in DOMAIN base \cup DOMAIN file :
        i \notin DOMAIN base \cap DOMAIN file \/ base[i] # file[i]}

(* No line up to the i-th is too long for the scanner.                     *)
Scanned(base, file, i) ==
    \A k \in 1..i : /\ k \in DOMAIN base => base[k] \notin Long
                    /\ k \in DOMAIN file => file[k] \notin Long

(* diffString goes through the two texts put into one, in which what       *)
(* differs is coloured, and lists the lines with a colour: the first that  *)
(* differs, and the ones before it whose own bytes look like a colour.  A  *)
(* line that is too long ends the scan, and the error is not looked at; if *)
(* it is the first that differs, what is put before it may still be seen.  *)
(* How many lines it may list: lines listed are one here.                  *)
diffString(base, file) ==
    LET first    == {i \in Changed(base, file) : \A k \in Changed(base, file) : i <= k}
        coloured == {i \in DOMAIN base : /\ base[i] \in Escaped
                                         /\ \A k \in Changed(base, file) : i < k}
    IN  CASE \E i \in first \cup coloured : Scanned(base, file, i)      -> {1}
          [] /\ \A i \in first \cup coloured : ~Scanned(base, file, i)
             /\ \E i \in first : Scanned(base, file, i - 1)            -> {0, 1}
          [] OTHER                                                     -> {0}

fileChangeItems(base, file) == {<<Item(n > 0, n)>> : n \in diffString(base, file)}

-----------------------------------------------------------------------------
(* The inspectors of the cluster                                           *)

(* An endpoint that is empty, or transport settings that are not valid.    *)
NewPrometheusAPI == BOOLEAN

(* The endpoint of an item is its own, or that of its rule, if either is   *)
(* given.                                                                  *)
SetPrometheusEndpoint(own, ofRule) == own \/ ofRule

(* The samples of a query become items that all assert.  An item without   *)
(* an endpoint ends the job with no data and no error; an answer that is   *)
(* no vector is "missing".                                                 *)
prometheusRunInspect(found, endpoint, api, o, samples) ==
    CASE ~found \/ ~endpoint                          -> Null
      [] found /\ endpoint /\ (~api \/ o = "error")   -> Failure
      [] found /\ endpoint /\ o = "missing" /\ api    -> Null
      [] OTHER -> Data([i \in DOMAIN samples |->
                            [node |-> "", assert |-> TRUE, issues |-> 0, sample |-> samples[i]]])

(* Any container that is ready is enough.                                  *)
isAllContainersReady(pod) == "ready" \in pod.containers

(* A service of the system, with a selector, neither excluded nor ignored. *)
(* When its namespace's services cannot be listed it has no item; when its *)
(* pods cannot, it is a problem.  The rule has only the exclusions.        *)
componentRunInspect(listed, podsListed, pods) ==
    IF ~listed THEN Null
    ELSE Data(<<Item(\/ ~podsListed
                     \/ \E p \in pods : /\ ~p.ignored
                                        /\ p.phase # "Running" \/ ~isAllContainersReady(p), 0)>>)

(* ExternalName and headless services are left out.                        *)
Reachable(s) == s.type # "ExternalName" /\ s.ip # "None"

GetServicesForNameSpace(ns) ==
    {i \in DOMAIN Services : Services[i].namespace = ns /\ Reachable(Services[i])}

(* A failed list of the namespaces of a workspace is an empty one.         *)
GetNameSpacesForWorkSpace(ws, listed) ==
    IF listed THEN {Services[i].namespace : i \in {k \in DOMAIN Services : Services[k].workspace = ws}}
    ELSE {}

(* The name of the rule is compared with the namespaces of the services.   *)
GetServices(name) ==
    {i \in GetServicesForNameSpace(name) : \A k \in GetServicesForNameSpace(name) : i <= k}

(* The rules fill a map whose keys are the services.                       *)
GetInspectComponent(rules, listed) ==
    LET selected(rule) ==
            CASE rule.by = "workspace" ->
                     UNION {GetServicesForNameSpace(ns) : ns \in GetNameSpacesForWorkSpace(rule.of, listed)}
              [] rule.by = "namespace" -> GetServicesForNameSpace(rule.of)
              [] OTHER                 -> GetServices(rule.of)
    IN  UNION {selected(rules[n]) : n \in DOMAIN rules}

(* checkConnection: the services that answer within three seconds.         *)
checkConnection(i, answering) == i \in answering

(* The map is walked through in any order, here in one.                    *)
serviceConnectRunInspect(found, up, targets, answering) ==
    LET list == SetToSeq(targets)
    IN  CASE ~found       -> Null
          [] found /\ ~up -> Failure
          [] OTHER -> Data([i \in DOMAIN list |-> Item(~checkConnection(list[i], answering), 0)])

-----------------------------------------------------------------------------
(* GetResult: the items of a node are given its name and appended; those   *)
(* of the cluster replace what is there, and an empty list of Prometheus   *)
(* or of the connections leaves it alone.                                  *)

Tagged(items, node) == [i \in DOMAIN items |-> [items[i] EXCEPT !.node = node]]

(* Faulty variant: a node's items replace those of the others.             *)
sysctlGetResultReplaces(list, node, items) == Tagged(items, node)

sysctlGetResult(list, node, items)     == list \o Tagged(items, node)
systemdGetResult(list, node, items)    == list \o Tagged(items, node)
commandGetResult(list, node, items)    == list \o Tagged(items, node)
nodeInfoGetResult(list, node, items)   == list \o Tagged(items, node)
fileFilterGetResult(list, node, items) == list \o Tagged(items, node)
fileChangeGetResult(list, node, items) == list \o Tagged(items, node)

prometheusGetResult(list, items)     == IF items = <<>> THEN list ELSE items
serviceConnectGetResult(list, items) == IF items = <<>> THEN list ELSE items
componentGetResult(list, items)      == items
opaGetResult(list, items)            == items

-----------------------------------------------------------------------------
(* RuleOperatorMap                                                         *)

NodeKinds    == {"sysctl", "systemd", "command", "nodeInfo", "fileFilter", "fileChange"}
ClusterKinds == {"prometheus", "component", "serviceConnect", "opa"}
Kinds == NodeKinds \cup ClusterKinds

(* What RunInspect of a kind may return, for the kinds that need no state. *)
RunInspect(kind, found) ==
    CASE kind = "sysctl"  -> {sysctlRunInspect(found, up, o) : up \in BOOLEAN, o \in Reading}
      [] kind = "systemd" -> {systemdRunInspect(found, up, o) : up \in BOOLEAN, o \in Reading}
      [] kind = "command" -> {commandRunInspect(found, o) : o \in EventRuleEvaluate \cup {"missing"}}
      [] kind = "nodeInfo" -> {nodeInfoRunInspect(found, up, o) : up \in BOOLEAN,
                                   o \in NodeData(TRUE) \cup NodeData(FALSE) \cup {"unruled"}}
      [] kind = "fileFilter" -> {fileFilterRunInspect(found, o, n) :
                                   o \in {"missing", "error", "true"}, n \in 0..(MaxFiltered + 1)}
      [] kind = "prometheus" ->
             {prometheusRunInspect(found, SetPrometheusEndpoint(own, ofRule), api, o, s) :
                  own \in BOOLEAN, ofRule \in BOOLEAN, api \in NewPrometheusAPI,
                  o \in {"error", "missing", "true"}, s \in Samples}
      [] kind = "component" -> {componentRunInspect(l, p, pods) : l \in BOOLEAN, p \in BOOLEAN,
                                                                  pods \in PodSets}
      [] kind = "serviceConnect" ->
             UNION {{serviceConnectRunInspect(found, up, GetInspectComponent(rules, l), up1) :
                         up \in BOOLEAN, l \in BOOLEAN, up1 \in SUBSET DOMAIN Services} : rules \in ConnectRules}

(* Merging the items of a kind into the report's list of that kind.        *)
GetResult(kind, list, node, items) ==
    CASE kind = "sysctl"         -> sysctlGetResult(list, node, items)
      [] kind = "systemd"        -> systemdGetResult(list, node, items)
      [] kind = "command"        -> commandGetResult(list, node, items)
      [] kind = "nodeInfo"       -> nodeInfoGetResult(list, node, items)
      [] kind = "fileFilter"     -> fileFilterGetResult(list, node, items)
      [] kind = "fileChange"     -> fileChangeGetResult(list, node, items)
      [] kind = "prometheus"     -> prometheusGetResult(list, items)
      [] kind = "serviceConnect" -> serviceConnectGetResult(list, items)
      [] kind = "component"      -> componentGetResult(list, items)
      [] kind = "opa"            -> opaGetResult(list, items)
=============================================================================
