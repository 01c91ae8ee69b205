------------------------------- MODULE Report -------------------------------
(***************************************************************************)
(* The report of an inspection as it is shown (pkg/output) and counted     *)
(* (CountLevelNum of the InspectResult controller).  A report has a list   *)
(* of items for each kind of inspector; a page or a sheet of it is the     *)
(* number of its rows.                                                     *)
(***************************************************************************)
EXTENDS Inspectors, Integers, FiniteSets, FiniteSetsExt

NoReport == [k \in Kinds |-> <<>>]

Where(items, Test(_)) == Cardinality({i \in DOMAIN items : Test(items[i])})

(* A row for each issue: the item it is of and its number.                 *)
IssuesOf(items) == Cardinality(UNION {{i} \X (1..items[i].issues) : i \in DOMAIN items})

(* The elements of a list at some of its indices, in their order.          *)
InOrder(I, k) == CHOOSE i \in I : Cardinality({j \in I : j < i}) = k - 1
Select(list, I) == [k \in 1..Cardinality(I) |-> list[InOrder(I, k)]]

-----------------------------------------------------------------------------
(* The tables of the page, without their header                            *)

GetOpaList(items)        == IssuesOf(items)
GetPrometheus(items)     == Len(items)
GetFileChange(items)     == Where(items, LAMBDA it : it.issues > 0)
GetFileFilter(items)     == IssuesOf(items)
GetServiceConnect(items) == Where(items, LAMBDA it : it.assert)
GetSysctl(items)         == Where(items, LAMBDA it : it.assert)
GetNodeInfo(items)       == Where(items, LAMBDA it : it.assert)
GetSystemd(items)        == Where(items, LAMBDA it : it.assert)

GetCommand(items)        == Where(items, LAMBDA it : it.assert)

(* The components have no table.                                           *)
Shown == Kinds \ {"component"}

Rows(kind, items) ==
    CASE kind = "opa"            -> GetOpaList(items)
      [] kind = "prometheus"     -> GetPrometheus(items)
      [] kind = "fileChange"     -> GetFileChange(items)
      [] kind = "fileFilter"     -> GetFileFilter(items)
      [] kind = "serviceConnect" -> GetServiceConnect(items)
      [] kind = "sysctl"         -> GetSysctl(items)
      [] kind = "nodeInfo"       -> GetNodeInfo(items)
      [] kind = "systemd"        -> GetSystemd(items)
      [] kind = "command"        -> GetCommand(items)

(* A kind with no items has no table; the overview has the number of rows, *)
(* the header not counted, of each kind the task has rules of.             *)
HtmlOut(report, ruled) ==
    LET details == {k \in Shown : report[k] # <<>>}
    IN  [details  |-> [k \in details |-> 1 + Rows(k, report[k])],
         overview |-> [k \in ruled |-> IF k \in details THEN Rows(k, report[k]) ELSE 0]]

-----------------------------------------------------------------------------
(* The workbook                                                            *)

(* The last condition of a node decides, whatever its type; a node without *)
(* any has no status.                                                      *)
GetNodesStatus(node) ==
    CASE node.conditions = <<>> -> ""
      [] node.conditions # <<>> /\ Last(node.conditions) = "Ready" -> "Ready"
      [] OTHER -> "NotReady"

GetAbnormalPods(pods) == {p \in pods : p.phase \notin {"Running", "Succeeded"}}

NodeSheet(nodes) == [n \in nodes |-> GetNodesStatus(n)]

PodSheet(pods) == GetAbnormalPods(pods)

(* A sheet for each of the kinds that has items.                           *)
Sheets(report, kinds) ==
    [k \in {j \in kinds : report[j] # <<>>} |-> 1 + Rows(k, report[k])]

GenerateExcel(report, nodes, pods) ==
    [nodes |-> NodeSheet(nodes), pods |-> PodSheet(pods), sheets |-> Sheets(report, Shown)]

-----------------------------------------------------------------------------
(* The count of the InspectResult's status                                 *)

(* An item that asserts counts once for each of its issues, or once.  The  *)
(* JSON of an item leaves a false assert and an empty list of issues out.  *)
Levels(it) == IF it.assert THEN (IF it.issues = 0 THEN 1 ELSE it.issues) ELSE 0

totalResultLevel(items) ==
    Cardinality(UNION {{i} \X (1..Levels(items[i])) : i \in DOMAIN items})

(* The counts of the OPA result are fields that nothing fills.             *)
CountLevelNum(report) ==
    [k \in Kinds |-> IF k = "opa" THEN 0 ELSE totalResultLevel(report[k])]

-----------------------------------------------------------------------------
(* The answer to a request for the result in JSON.  A sample has a metric, *)
(* a rule, a node, a value, and asks for its raw data to be kept, or not.  *)

ParseNodeStatus(nodes) ==
    LET isReady(n) == \E i \in DOMAIN n.conditions : n.conditions[i] = "Ready"
    IN  [total       |-> Cardinality(nodes),
         not_ready   |-> Cardinality({n \in nodes : ~isReady(n)}),
         no_schedule |-> Cardinality({n \in nodes : isReady(n) /\ n.cordoned}),
         ready       |-> Cardinality({n \in nodes : isReady(n) /\ ~n.cordoned})]

(* The last sample of a metric stands for it.                              *)
ParseApiStatus(samples, metric) ==
    LET at == {i \in DOMAIN samples : samples[i].metric = metric}
    IN  IF at = {} THEN {} ELSE {samples[Max(at)].value}

metricComputed(a, b) == IF b = 0 THEN 0 ELSE a \div b

(* A metric that has no sample is zero.                                    *)
ParseResources(samples, usage, total) ==
    LET of(metric) == IF ParseApiStatus(samples, metric) = {} THEN 0
                      ELSE CHOOSE v \in ParseApiStatus(samples, metric) : TRUE
    IN  [usage |-> of(usage), total |-> of(total), percent |-> metricComputed(of(usage), of(total))]

(* The first sample of the greatest value, if there is one.                *)
Higher(top, s, metric) == s.metric = metric /\ (top # <<>> => top[1].value < s.value)

ParseResourcesTop(samples, metric) ==
    LET top[n \in 0..Len(samples)] ==
            IF n = 0 THEN <<>>
            ELSE IF Higher(top[n - 1], samples[n], metric) THEN <<samples[n]>> ELSE top[n - 1]
    IN  top[Len(samples)]

ParseOtherMetric(samples, metric) ==
    Select(samples, {i \in DOMAIN samples : samples[i].metric = metric})

OverviewCount(samples, metric, components) ==
    [metric |-> Len(ParseOtherMetric(samples, metric)), component |-> Where(components, LAMBDA it : it.assert)]

(* The samples whose raw data is kept, by metric and rule.                 *)
ParsePrometheusData(samples) ==
    LET raw    == {i \in DOMAIN samples : samples[i].raw}
        key(i) == <<samples[i].metric, samples[i].rule>>
    IN  [k \in {key(i) : i \in raw} |-> Select(samples, {i \in raw : key(i) = k})]

ParseCustomizedStruct(report, samples, metric, nodes) ==
    [overview_count   |-> OverviewCount(samples, metric, report["component"]),
     component_status |-> report["component"],
     api_status       |-> ParseApiStatus(samples, metric),
     resources_usage  |-> ParseResources(samples, metric, metric),
     resources_top    |-> ParseResourcesTop(samples, metric),
     metric           |-> ParseOtherMetric(samples, metric),
     nodes_status     |-> ParseNodeStatus(nodes)]

-----------------------------------------------------------------------------
(* Properties                                                              *)

(* HtmlOut, GenerateExcel and CountLevelNum: the page, the workbook and    *)
(* the status of the result agree.  A problem counted is a row of its      *)
(* table, and of a file that changed there is one row for all its issues;  *)
(* what OPA found is shown and not counted, the components are counted and *)
(* not shown.                                                              *)
PagesAgree(report) ==
    LET page  == HtmlOut(report, Kinds)
        sheet == GenerateExcel(report, {}, {}).sheets
        count == CountLevelNum(report)
    IN  /\ sheet = page.details
        /\ \A k \in Shown \ {"opa", "fileChange"} : page.overview[k] = count[k]
        /\ page.overview["fileChange"] <= count["fileChange"]
        /\ page.overview["fileChange"] = 0 => count["fileChange"] = 0

(* ParseCustomizedStruct and ParsePrometheusData: of the samples, each     *)
(* whose raw data is kept is in the answer once, the top of a metric is    *)
(* its greatest value, and the nodes are divided up.                       *)
AnswerAgrees(samples, metric, nodes) ==
    LET answer == ParseCustomizedStruct(NoReport, samples, metric, nodes)
        groups == ParsePrometheusData(samples)
        of     == {i \in DOMAIN samples : samples[i].metric = metric}
        status == answer.nodes_status
    IN  /\ Cardinality(UNION {{k} \X DOMAIN groups[k] : k \in DOMAIN groups})
               = Cardinality({i \in DOMAIN samples : samples[i].raw})
        /\ answer.overview_count.metric = Cardinality(of)
        /\ answer.resources_top = <<>> <=> of = {}
        /\ of # {} => answer.resources_top[1].value = Max({samples[i].value : i \in of})
        /\ status.total = status.ready + status.not_ready + status.no_schedule
=============================================================================
