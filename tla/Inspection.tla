----------------------------- MODULE Inspection -----------------------------
(***************************************************************************)
(* The jobs of an inspection at work: each Job's pod runs `ke create job`  *)
(* (cmd/ke/ctl/create/job.go), which calls the job's inspector and stores  *)
(* the data in a ConfigMap; the manager merges what it finds there into    *)
(* the report.  A pod that fails is replaced, BackLimit times; one whose   *)
(* command or query never returns is given up.                             *)
(*                                                                         *)
(* The jobs of fileChange share a baseline, a ConfigMap named after the    *)
(* rule and not after the node: the first of them creates it, and all of   *)
(* them, in this and in later inspections, compare with it.                *)
(***************************************************************************)
EXTENDS Report, OpaChecker

CONSTANTS
    Jobs,         \* the jobs of one inspection
    NodeOf,       \* where each runs
    KindChoices,  \* the kinds the jobs may have
    Contents,     \* what a file may hold: sequences of lines
    Disks,        \* what the file of each node may hold at first
    Missing,      \* no file
    NoBase,       \* no baseline
    Metric,       \* a metric, and ...
    NodeSet,      \* ... nodes, for the answer in JSON
    BackLimit,    \* spec.backoffLimit of the Jobs
    MaxRounds,    \* inspections, one after the other
    MaxEdits,     \* changes of the files
    MaxFaults     \* failed calls

(* Of the kinds of the cluster there is one job each.                      *)
ASSUME InspectionAssumption ==
    /\ \A c \in Contents : c \in Seq(ToSet(c))
    /\ Missing \notin Contents /\ NoBase \notin Contents \cup {Missing}
    /\ KindChoices \subseteq [Jobs -> Kinds]
    /\ \A kinds \in KindChoices : \A i, j \in Jobs : kinds[i] = kinds[j] => i = j \/ kinds[i] \in NodeKinds
    /\ \A s \in Samples : \A i \in DOMAIN s : s[i].value \in Int
    /\ IsFiniteSet(NodeSet)
    /\ Disks \subseteq [{NodeOf[j] : j \in Jobs} -> Contents \cup {Missing}]
    /\ BackLimit \in Nat /\ MaxRounds \in Nat \ {0} /\ MaxEdits \in Nat /\ MaxFaults \in Nat

VARIABLES
    kind,    \* kind[j]: the job's inspector
    pod,     \* pod[j]: how far the job's pod is
    tries,   \* tries[j]: the pods that failed
    seen,    \* seen[j]: the file as the pod read it, if it has
    data,    \* data[j]: what RunInspect returned
    cm,      \* cm[j]: the result ConfigMap: its label and items, if it is there
    took,    \* took[j]: what the manager merged of it
    merged,  \* the jobs that the pool of the manager is done with
    report,  \* the InspectResult
    disk,    \* disk[n]: the file on each node
    base,    \* the baseline
    temp,    \* the ConfigMap with the rules of the task is there
    round, edits, faults

podVars == <<pod, tries, seen, data>>
repVars == <<cm, took, merged, report>>
envVars == <<disk, temp, round, edits>>
vars == <<kind, podVars, repVars, base, envVars, faults, opaVars>>

Nodes == {NodeOf[j] : j \in Jobs}

PodLabel == {"run", "getBase", "createBase", "opa", "hung", "store", "done", "failed"}

Init ==
    /\ kind \in KindChoices
    /\ pod = [j \in Jobs |-> "run"] /\ tries = [j \in Jobs |-> 0]
    /\ seen = [j \in Jobs |-> Missing] /\ data = [j \in Jobs |-> <<>>]
    /\ cm = [j \in Jobs |-> <<>>] /\ took = [j \in Jobs |-> <<>>]
    /\ merged = {} /\ report = NoReport
    /\ disk \in Disks /\ base = NoBase /\ temp = TRUE
    /\ round = 1 /\ edits = 0 /\ faults = 0
    /\ OpaInit

Fault == faults < MaxFaults /\ faults' = faults + 1

-----------------------------------------------------------------------------
(* The pod of job j                                                        *)

(* It exits with an error or panics: the Job starts another one, or fails. *)
PodDies(j) ==
    /\ pod' = [pod EXCEPT ![j] = IF tries[j] < BackLimit THEN "run" ELSE "failed"]
    /\ tries' = [tries EXCEPT ![j] = @ + 1]
    /\ seen' = [seen EXCEPT ![j] = Missing] /\ data' = [data EXCEPT ![j] = <<>>]

(* RunInspect returns the items.                                           *)
Returns(j, items) ==
    /\ pod' = [pod EXCEPT ![j] = "store"] /\ data' = [data EXCEPT ![j] = items]
    /\ UNCHANGED tries

(* jobInspect, for the inspectors that keep nothing between inspections.   *)
jobInspect(j) ==
    /\ pod[j] = "run" /\ kind[j] \notin {"fileChange", "opa"}
    /\ \E out \in RunInspect(kind[j], temp) :
         IF out.ok THEN Returns(j, out.items) /\ UNCHANGED seen ELSE PodDies(j)
    /\ UNCHANGED <<kind, repVars, base, envVars, faults, opaVars>>

(* A custom command is run, and Prometheus asked, without a timeout, and   *)
(* the Job has no deadline either: the pod may never come back.            *)
Hangs(j) ==
    /\ pod[j] = "run" /\ kind[j] \in {"command", "prometheus"} /\ temp
    /\ pod' = [pod EXCEPT ![j] = "hung"]
    /\ UNCHANGED <<kind, tries, seen, data, repVars, base, envVars, faults, opaVars>>

(* fileChange: the file is read.  Without its rule the job fails.          *)
ReadFile(j) ==
    /\ pod[j] = "run" /\ kind[j] = "fileChange"
    /\ IF ~temp THEN PodDies(j)
       ELSE /\ seen' = [seen EXCEPT ![j] = disk[NodeOf[j]]]
            /\ IF seen'[j] = Missing THEN Returns(j, <<Item(TRUE, 1)>>)
               ELSE pod' = [pod EXCEPT ![j] = "getBase"] /\ UNCHANGED <<tries, data>>
    /\ UNCHANGED <<kind, repVars, base, envVars, faults, opaVars>>

(* ... then the baseline.  A Get that fails for another reason than that   *)
(* there is none leaves an empty one to compare with.                      *)
GetBase(j) ==
    /\ pod[j] = "getBase"
    /\ \/ /\ base = NoBase /\ pod' = [pod EXCEPT ![j] = "createBase"]
          /\ UNCHANGED <<tries, data, faults>>
       \/ /\ base # NoBase /\ UNCHANGED faults
          /\ \E items \in fileChangeItems(base, seen[j]) : Returns(j, items)
       \/ Fault /\ \E items \in fileChangeItems(<<>>, seen[j]) : Returns(j, items)
    /\ UNCHANGED <<kind, seen, repVars, base, envVars, opaVars>>

(* Faulty variant: the baseline is written, whether there is one or not.   *)
CreateBaseApply(j) ==
    /\ pod[j] = "createBase"
    /\ base' = seen[j] /\ Returns(j, <<>>)
    /\ UNCHANGED <<kind, seen, repVars, envVars, faults, opaVars>>

(* ... which the first pod creates.  The one that comes second, or whose   *)
(* Create fails, panics: it logs an error that is nil.                     *)
CreateBase(j) ==
    /\ pod[j] = "createBase"
    /\ \/ /\ base = NoBase /\ base' = seen[j] /\ Returns(j, <<>>)
          /\ UNCHANGED <<seen, faults>>
       \/ base # NoBase /\ PodDies(j) /\ UNCHANGED <<base, faults>>
       \/ base = NoBase /\ Fault /\ base' \in {NoBase, seen[j]} /\ PodDies(j)
    /\ UNCHANGED <<kind, repVars, envVars, opaVars>>

(* opa: module OpaChecker.                                                 *)
OpaBegins(j) ==
    /\ pod[j] = "run" /\ kind[j] = "opa"
    /\ IF temp THEN OpaStart /\ pod' = [pod EXCEPT ![j] = "opa"] /\ UNCHANGED <<tries, data>>
       ELSE Returns(j, <<>>) /\ UNCHANGED opaVars
    /\ UNCHANGED <<kind, seen, repVars, base, envVars, faults>>

OpaWorks(j) ==
    /\ pod[j] = "opa" /\ OpaStep
    /\ UNCHANGED <<kind, podVars, repVars, base, envVars, faults>>

OpaEnds(j) ==
    /\ pod[j] = "opa"
    /\ \/ opc = "failed" /\ PodDies(j)
       \/ /\ opc = "returned" /\ UNCHANGED seen
          /\ Returns(j, SetToSeq({[node |-> "", assert |-> TRUE, issues |-> found[r], resource |-> r] :
                                      r \in {x \in Resources : found[x] > 0}}))
    /\ UNCHANGED <<kind, repVars, base, envVars, faults, opaVars>>

(* findJobRunNode and the ConfigMap.  A failed list of the Job's pods is   *)
(* an empty name; a list without any panics, which is a Create that fails  *)
(* with nothing stored.  A ConfigMap that is there, of a pod whose Create  *)
(* succeeded unheard, fails the pod.                                       *)
StoreResult(j) ==
    LET stored(label) == [cm EXCEPT ![j] = <<[label |-> label, items |-> data[j]]>>] IN
    /\ pod[j] = "store"
    /\ \/ /\ cm[j] = <<>> /\ pod' = [pod EXCEPT ![j] = "done"] /\ data' = [data EXCEPT ![j] = <<>>]
          /\ UNCHANGED <<tries, seen>>
          /\ \/ cm' = stored(NodeOf[j]) /\ UNCHANGED faults
             \/ cm' = stored("") /\ Fault
       \/ cm[j] = <<>> /\ Fault /\ cm' \in {cm, stored(NodeOf[j])} /\ PodDies(j)
       \/ cm[j] # <<>> /\ PodDies(j) /\ UNCHANGED <<cm, faults>>
    /\ UNCHANGED <<kind, took, merged, report, base, envVars, opaVars>>

-----------------------------------------------------------------------------
(* The manager, and the environment                                        *)

(* getInspectResultData, under the mutex of the pool: what the ConfigMap   *)
(* of a job has, if it is there, is merged into the report, and it is      *)
(* deleted.                                                                *)
getInspectResultData(j) ==
    /\ j \notin merged /\ merged' = merged \cup {j}
    /\ took' = [took EXCEPT ![j] = cm[j]] /\ cm' = [cm EXCEPT ![j] = <<>>]
    /\ report' = IF cm[j] = <<>> THEN report
                 ELSE [report EXCEPT ![kind[j]] =
                          GetResult(kind[j], @, cm[j][1].label, cm[j][1].items)]
    /\ UNCHANGED <<kind, podVars, base, envVars, faults, opaVars>>

Ended(j) == pod[j] \in {"done", "failed"}

(* The pool finds that the Job has completed or failed ...                 *)
JobEnds(j) == Ended(j) /\ getInspectResultData(j)

(* ... or its timeout runs out, or the Job cannot be read.  Its pod goes   *)
(* on, and may store a ConfigMap that nobody reads.                        *)
GiveUp(j) == ~Ended(j) /\ getInspectResultData(j)

(* The next inspection of the plan: a new task, a new result, new Jobs     *)
(* with ConfigMaps of other names.  It is taken to begin when no pod of    *)
(* the last one works any more.  Only the baseline outlives an inspection: *)
(* without a job that uses it one inspection is enough.                    *)
NextInspection ==
    /\ merged = Jobs /\ \A j \in Jobs : Ended(j) \/ pod[j] = "hung"
    /\ \E j \in Jobs : kind[j] = "fileChange"
    /\ round < MaxRounds /\ round' = round + 1
    /\ pod' = [j \in Jobs |-> "run"] /\ tries' = [j \in Jobs |-> 0]
    /\ seen' = [j \in Jobs |-> Missing] /\ data' = [j \in Jobs |-> <<>>]
    /\ cm' = [j \in Jobs |-> <<>>] /\ took' = [j \in Jobs |-> <<>>]
    /\ merged' = {} /\ report' = NoReport /\ temp' = TRUE
    /\ UNCHANGED <<kind, base, disk, edits, faults, opaVars>>

(* The file that a job reads is changed, or removed.                       *)
EditFile(n) ==
    /\ \E j \in Jobs : kind[j] = "fileChange" /\ NodeOf[j] = n
    /\ edits < MaxEdits /\ edits' = edits + 1
    /\ \E c \in (Contents \cup {Missing}) \ {disk[n]} : disk' = [disk EXCEPT ![n] = c]
    /\ UNCHANGED <<kind, podVars, repVars, base, temp, round, faults, opaVars>>

(* Another attempt of the task deletes the rules, to store them anew.      *)
RulesGo ==
    /\ temp /\ Fault /\ temp' = FALSE
    /\ UNCHANGED <<kind, podVars, repVars, base, disk, round, edits, opaVars>>

JobStep(j) ==
    \/ jobInspect(j) \/ ReadFile(j) \/ GetBase(j) \/ CreateBase(j)
    \/ OpaBegins(j) \/ OpaWorks(j) \/ OpaEnds(j)
    \/ StoreResult(j) \/ JobEnds(j)

Next ==
    \/ \E j \in Jobs : JobStep(j) \/ Hangs(j) \/ GiveUp(j)
    \/ NextInspection \/ RulesGo
    \/ \E n \in Nodes : EditFile(n)

(* Pods go on unless their command or query hangs, and the manager merges  *)
(* what has ended.  The pool's timeout is called for where a pod hangs,    *)
(* and only there: that nothing else needs it is what JobsEnd is about.    *)
Spec ==
    /\ Init /\ [][Next]_vars
    /\ WF_vars(\E j \in Jobs : JobStep(j))
    /\ WF_vars(\E j \in Jobs : pod[j] = "hung" /\ GiveUp(j))

-----------------------------------------------------------------------------
(* Properties                                                              *)

(* No filter lists more than MaxFiltered lines.                            *)
IsItem(it) == it.node \in Nodes \cup {""} /\ it.assert \in BOOLEAN /\ it.issues \in 0..MaxFiltered

TypeOK ==
    /\ kind \in [Jobs -> Kinds] /\ pod \in [Jobs -> PodLabel]
    /\ tries \in [Jobs -> 0..(BackLimit + 1)]
    /\ seen \in [Jobs -> Contents \cup {Missing}]
    /\ merged \subseteq Jobs
    /\ \A j \in Jobs : /\ \A it \in ToSet(data[j]) : IsItem(it)
                       /\ Len(cm[j]) <= 1 /\ Len(took[j]) <= 1
    /\ \A k \in Kinds : \A it \in ToSet(report[k]) : IsItem(it)
    /\ disk \in [Nodes -> Contents \cup {Missing}] /\ base \in Contents \cup {NoBase}
    /\ temp \in BOOLEAN /\ round \in 1..MaxRounds
    /\ edits \in 0..MaxEdits /\ faults \in 0..MaxFaults
    /\ OpaTypeOK

(* The items of job j in the report, and all items of a kind.              *)
ItemsOf(j) ==
    IF took[j] = <<>> THEN <<>>
    ELSE IF kind[j] \in NodeKinds THEN Tagged(took[j][1].items, took[j][1].label)
    ELSE took[j][1].items

AllOf(k) == UNION {{j} \X DOMAIN ItemsOf(j) : j \in {i \in Jobs : kind[i] = k}}

(* GetResult and saveResultFile: once the pool is done with every job, the *)
(* report has each item of each of them, once, whatever the order, and     *)
(* none of a job that was given up before it stored any; the page, the     *)
(* workbook, the status and the answer in JSON made from it agree.         *)
ReportComplete ==
    LET samples == [i \in DOMAIN report["prometheus"] |-> report["prometheus"][i].sample]
    IN  merged = Jobs =>
        /\ \A k \in Kinds :
             /\ Len(report[k]) = Cardinality(AllOf(k))
             /\ \A j \in Jobs : kind[j] = k => ToSet(ItemsOf(j)) \subseteq ToSet(report[k])
        /\ PagesAgree(report)
        /\ AnswerAgrees(samples, Metric, NodeSet)

(* What is to be said of a file, by its baseline: a file that is not there *)
(* is a problem; one that is the baseline is none, unless its own bytes    *)
(* look like a colour; one that differs is, if the first line that differs *)
(* is not, and does not follow, a line of 64 KiB.                          *)
Truthful(asserted, file, baseline) ==
    /\ file = Missing => asserted
    /\ file # Missing =>
         /\ file = baseline /\ (\A i \in DOMAIN file : file[i] \notin Escaped) => ~asserted
         /\ (\E i \in Changed(baseline, file) : Scanned(baseline, file, i)) => asserted

(* fileChange: as long as no call fails, what the report says of a file is *)
(* true by the one baseline: the file of the pod that was the first to     *)
(* create it, on whatever node.  The pods that race for it, and panic, end *)
(* up comparing with that one, in this and in later inspections.           *)
FileChangesTold ==
    faults = 0 =>
        \A j \in Jobs : kind[j] = "fileChange" /\ took[j] # <<>> =>
            Truthful(\E it \in ToSet(took[j][1].items) : it.assert, seen[j], base)

(* `ke create job` and the pool: the pool gets done with every job, and    *)
(* needs its timeout only for a command or a query that hangs: whatever    *)
(* else an inspector meets its pod ends by itself, the workers of OPA and  *)
(* their collector included, and the retries are used up.                  *)
JobsEnd == []<>(merged = Jobs)
=============================================================================
