-------------------------- MODULE InspectionProofs --------------------------
(***************************************************************************)
(* Proofs about OpaChecker, Inspection and Report, for any resources,      *)
(* workers, jobs, files, samples and bounds: what the workers of OPA find, *)
(* that a job runs them as OpaChecker describes, what fileChange tells of  *)
(* a file, and that the report has all that the jobs found, and its page,  *)
(* its workbook, its count and the answer in JSON agree.                   *)
(***************************************************************************)
EXTENDS Inspection, FiniteSetTheorems, FunctionTheorems, SequenceTheorems,
        WellFoundedInduction, TLAPS

-----------------------------------------------------------------------------
(* The inductive invariant of OpaChecker                                   *)

(* A resource on its way to a worker, or in the batch of one.              *)
Waiting(r) == r \in todo \/ \E w \in Workers : r \in work[w]

(* Every resource is in one place.                                         *)
PlaceInv ==
    /\ todo \subseteq held
    /\ \A w \in Workers : work[w] \subseteq held \ todo
    /\ \A w, v \in Workers : w # v => work[w] \cap work[v] = {}

(* A denied resource waits, is in the collector's hand, or has been found. *)
FoundInv ==
    /\ hand # NoOne => hand \in held \cap Denied /\ ~Waiting(hand) /\ found[hand] = 0
    /\ \A r \in Resources : found[r] \in {0, 1}
    /\ \A r \in Resources : found[r] = 1 => r \in held \cap Denied /\ ~Waiting(r)
    /\ \A r \in held \cap Denied : Waiting(r) \/ hand = r \/ found[r] = 1

(* The order in which the channels are closed and the goroutines end.      *)
CloseInv ==
    /\ tasks = "closed" => todo = {}
    /\ \A w \in exited : tasks = "closed" /\ work[w] = {}
    /\ results = "closed" => exited = Workers
    /\ collector = "ended" => results = "closed" /\ hand = NoOne
    /\ opc = "returned" => collector = "ended"

OpaInv ==
    /\ OpaTypeOK
    /\ opc = "collect" => Fresh
    /\ opc \in {"check", "returned"} => PlaceInv /\ FoundInv /\ CloseInv

-----------------------------------------------------------------------------
(* The inductive invariant of Inspection                                   *)

(* Only the job of OPA runs the workers, and there is one.                 *)
OneInv ==
    /\ kind \in KindChoices
    /\ \A j \in Jobs : pod[j] = "opa" => kind[j] = "opa"
    /\ opc \in {"collect", "check"} => \E j \in Jobs : pod[j] = "opa"

(* The node of an item, or none.                                           *)
Labels == Nodes \cup {""}

NodeItem == [node: Labels, assert: BOOLEAN, issues: 0..MaxFiltered]

(* An item of a file asserts when it lists an issue; those of the other    *)
(* kinds list none, or, of Prometheus and OPA, assert always.              *)
ItemOf(k) ==
    CASE k = "prometheus" ->
             [node: {""}, assert: {TRUE}, issues: {0}, sample: UNION {ToSet(s) : s \in Samples}]
      [] k = "opa" -> [node: {""}, assert: {TRUE}, issues: 0..MaxFiltered, resource: Resources]
      [] k \in {"fileFilter", "fileChange"} -> {it \in NodeItem : it.assert <=> it.issues > 0}
      [] OTHER -> {it \in NodeItem : it.issues = 0}

(* The items of a kind.                                                    *)
Sound(k, items) == items \in Seq(ItemOf(k))

SoundMap(k, map) ==
    map # <<>> => /\ map = <<map[1]>> /\ map[1].label \in Labels
                  /\ Sound(k, map[1].items)

(* One of the items is a problem.                                          *)
Asserts(items) == \E it \in ToSet(items) : it.assert

(* What a job of fileChange says of the file it read.                      *)
Told(j, items) ==
    /\ seen[j] # Missing => base # NoBase
    /\ Truthful(Asserts(items), seen[j], base)

(* The retries of a job, its items on their way, and what they tell.       *)
Tries(j) == pod[j] \notin {"failed", "done"} => tries[j] <= BackLimit

Items(j) == Sound(kind[j], data[j]) /\ SoundMap(kind[j], cm[j]) /\ SoundMap(kind[j], took[j])

File(j) ==
    /\ pod[j] \in {"getBase", "createBase"} => kind[j] = "fileChange" /\ seen[j] \in Contents
    /\ faults = 0 /\ kind[j] = "fileChange" =>
         /\ pod[j] = "store" => Told(j, data[j])
         /\ cm[j] # <<>> => pod[j] = "done" /\ Told(j, cm[j][1].items)
         /\ took[j] # <<>> => pod[j] = "done" /\ Told(j, took[j][1].items)

PodTypes ==
    /\ pod \in [Jobs -> PodLabel] /\ tries \in [Jobs -> 0..(BackLimit + 1)]
    /\ seen \in [Jobs -> Contents \cup {Missing}]
    /\ data = [j \in Jobs |-> data[j]]
    /\ cm = [j \in Jobs |-> cm[j]] /\ took = [j \in Jobs |-> took[j]]

EnvTypes ==
    /\ kind \in [Jobs -> Kinds]
    /\ disk \in [Nodes -> Contents \cup {Missing}] /\ base \in Contents \cup {NoBase}
    /\ temp \in BOOLEAN /\ round \in 1..MaxRounds
    /\ edits \in 0..MaxEdits /\ faults \in 0..MaxFaults

ReportInv ==
    /\ merged \subseteq Jobs
    /\ report = [k \in Kinds |-> report[k]] /\ \A k \in Kinds : Sound(k, report[k])

JobInv == \A j \in Jobs : Tries(j) /\ Items(j) /\ File(j)

IInv == PodTypes /\ EnvTypes /\ OpaInv /\ OneInv /\ JobInv /\ ReportInv

-----------------------------------------------------------------------------
(* The workers of OPA                                                      *)

(* The variables of OpaChecker keep their types.                           *)
LEMMA OpaTypeStep ==
    ASSUME OpaTypeOK, OpaStart \/ OpaStep \/ UNCHANGED opaVars
    PROVE  OpaTypeOK'
<1>1. CASE OpaStart
  BY <1>1, OpaAssumption DEF OpaStart, OpaTypeOK
<1>2. CASE AddRuleFails \/ CloseTasks \/ CollectorEnds \/ CloseResults \/ VailOpaRulesResult
  BY <1>2 DEF AddRuleFails, CloseTasks, CollectorEnds, CloseResults, VailOpaRulesResult, OpaTypeOK
<1>3. CASE AddResource
  <2>1. held' \subseteq Resources /\ todo' \subseteq Resources
    BY <1>3 DEF AddResource, CollectNodeStatsSummary, OpaTypeOK
  <2>2. opc' \in {"failed", "check"}
    BY <1>3 DEF AddResource
  <2> QED BY <1>3, <2>1, <2>2 DEF AddResource, OpaTypeOK
<1>4. CASE AppendResult
  BY <1>4 DEF AppendResult, OpaTypeOK
<1>5. ASSUME NEW w \in Workers, SendTask(w) PROVE OpaTypeOK'
  BY <1>5 DEF SendTask, OpaTypeOK
<1>6. ASSUME NEW w \in Workers, WorkerEnds(w) PROVE OpaTypeOK'
  BY <1>6 DEF WorkerEnds, OpaTypeOK
<1>7. ASSUME NEW w \in Workers, NEW r \in Resources, Check(w, r) PROVE OpaTypeOK'
  BY <1>7 DEF Check, OpaTypeOK
<1>8. CASE UNCHANGED opaVars
  BY <1>8 DEF opaVars, OpaTypeOK
<1> QED BY <1>1, <1>2, <1>3, <1>4, <1>5, <1>6, <1>7, <1>8
        DEF OpaStep, checkResource, checkNodeStatsSummary

(* The resources are listed: all of them wait, and nothing is found yet.   *)
LEMMA AddResourceStep ==
    ASSUME OpaInv, AddResource, opc' = "check"
    PROVE  PlaceInv' /\ FoundInv' /\ CloseInv'
<1>1. /\ Fresh /\ todo' = held' /\ held' \subseteq Resources
      /\ UNCHANGED <<tasks, work, exited, hand, collector, results, found>>
  BY DEF AddResource, OpaInv, CollectNodeStatsSummary
<1>2. PlaceInv'
  BY <1>1 DEF PlaceInv, Fresh
<1>3. FoundInv'
  BY <1>1 DEF FoundInv, Fresh, Waiting
<1>4. CloseInv'
  BY <1>1 DEF CloseInv, Fresh
<1> QED BY <1>2, <1>3, <1>4

(* A batch goes to a worker.                                               *)
LEMMA SendTaskStep ==
    ASSUME OpaTypeOK, PlaceInv, FoundInv, CloseInv, NEW w \in Workers, SendTask(w)
    PROVE  PlaceInv' /\ FoundInv' /\ CloseInv'
<1>1. PICK B \in SUBSET todo : work' = [work EXCEPT ![w] = B] /\ todo' = todo \ B
  BY DEF SendTask
<1>2. /\ opc = "check" /\ tasks = "open" /\ w \notin exited /\ work[w] = {}
      /\ UNCHANGED <<opc, held, tasks, exited, hand, collector, results, found>>
  BY DEF SendTask
<1>3. work'[w] = B /\ \A v \in Workers \ {w} : work'[v] = work[v]
  BY <1>1 DEF OpaTypeOK
<1>4. PlaceInv'
  BY <1>1, <1>2, <1>3 DEF PlaceInv
<1>5. \A r : Waiting(r)' <=> Waiting(r)
  BY <1>1, <1>2, <1>3 DEF Waiting
<1>6. FoundInv'
  BY <1>2, <1>5 DEF FoundInv
<1>7. CloseInv'
  BY <1>2, <1>3 DEF CloseInv, OpaTypeOK
<1> QED BY <1>4, <1>6, <1>7

(* A worker checks a resource of its batch, which is in no other batch; if *)
(* it is denied it goes into the hand of the collector.                    *)
LEMMA CheckStep ==
    ASSUME OpaTypeOK, PlaceInv, FoundInv, CloseInv,
           NEW w \in Workers, NEW r \in Resources, Check(w, r)
    PROVE  PlaceInv' /\ FoundInv' /\ CloseInv'
<1>1. /\ opc = "check" /\ r \in work[w] /\ work' = [work EXCEPT ![w] = @ \ {r}]
      /\ UNCHANGED <<opc, held, todo, tasks, exited, collector, results, found>>
  BY DEF Check
<1>2. \/ r \in Denied /\ hand = NoOne /\ collector = "runs" /\ results = "open" /\ hand' = r
      \/ r \notin Denied /\ hand' = hand
  BY DEF Check
<1>3. work'[w] = work[w] \ {r} /\ \A v \in Workers \ {w} : work'[v] = work[v]
  BY <1>1 DEF OpaTypeOK
<1>4. PlaceInv'
  BY <1>1, <1>3 DEF PlaceInv
<1>5. Waiting(r) /\ r \in held /\ ~Waiting(r)' /\ \A x : x # r => (Waiting(x)' <=> Waiting(x))
  BY <1>1, <1>3 DEF Waiting, PlaceInv
<1>6. r # NoOne /\ hand # r /\ found[r] = 0
  BY <1>5, OpaAssumption DEF FoundInv
<1>7. FoundInv'
  <2>1. hand' # NoOne => hand' \in held' \cap Denied /\ ~Waiting(hand)' /\ found'[hand'] = 0
    BY <1>1, <1>2, <1>5, <1>6 DEF FoundInv
  <2>2. \A x \in Resources : found'[x] \in {0, 1}
    BY <1>1 DEF FoundInv
  <2>3. \A x \in Resources : found'[x] = 1 => x \in held' \cap Denied /\ ~Waiting(x)'
    BY <1>1, <1>5, <1>6 DEF FoundInv
  <2>4. \A x \in held' \cap Denied : Waiting(x)' \/ hand' = x \/ found'[x] = 1
    BY <1>1, <1>2, <1>5, <1>6, OpaAssumption DEF FoundInv, OpaTypeOK
  <2> QED BY <2>1, <2>2, <2>3, <2>4 DEF FoundInv
<1>8. CloseInv'
  BY <1>1, <1>2, <1>3 DEF CloseInv, OpaTypeOK
<1> QED BY <1>4, <1>7, <1>8

(* The collector appends what it has in its hand.                          *)
LEMMA AppendStep ==
    ASSUME OpaTypeOK, PlaceInv, FoundInv, CloseInv, AppendResult
    PROVE  PlaceInv' /\ FoundInv' /\ CloseInv'
<1>1. /\ hand # NoOne /\ found' = [found EXCEPT ![hand] = @ + 1] /\ hand' = NoOne
      /\ UNCHANGED <<opc, held, todo, tasks, work, exited, collector, results>>
  BY DEF AppendResult
<1>2. PlaceInv' /\ CloseInv'
  BY <1>1 DEF PlaceInv, CloseInv
<1>3. \A x : Waiting(x)' <=> Waiting(x)
  BY <1>1 DEF Waiting
<1>4. hand \in Resources /\ found'[hand] = 1 /\ \A x \in Resources \ {hand} : found'[x] = found[x]
  BY <1>1 DEF FoundInv, OpaTypeOK
<1>5. FoundInv'
  BY <1>1, <1>3, <1>4 DEF FoundInv, OpaTypeOK
<1> QED BY <1>2, <1>5

(* The channels are closed and the goroutines end.                         *)
LEMMA CloseStep ==
    ASSUME OpaTypeOK, PlaceInv, FoundInv, CloseInv,
           \/ CloseTasks \/ CollectorEnds \/ CloseResults \/ VailOpaRulesResult
           \/ \E w \in Workers : WorkerEnds(w)
    PROVE  PlaceInv' /\ FoundInv' /\ CloseInv'
<1>1. UNCHANGED <<held, todo, work, hand, found>>
  BY DEF CloseTasks, CollectorEnds, CloseResults, VailOpaRulesResult, WorkerEnds
<1>2. PlaceInv'
  BY <1>1 DEF PlaceInv
<1>3. FoundInv'
  BY <1>1 DEF FoundInv, Waiting
<1>4. CloseInv'
  <2>1. CASE CloseTasks
    BY <2>1 DEF CloseTasks, CloseInv
  <2>2. CASE CollectorEnds
    BY <2>2 DEF CollectorEnds, CloseInv
  <2>3. CASE CloseResults
    BY <2>3 DEF CloseResults, CloseInv
  <2>4. CASE VailOpaRulesResult
    BY <2>4 DEF VailOpaRulesResult, CloseInv
  <2>5. ASSUME NEW w \in Workers, WorkerEnds(w) PROVE CloseInv'
    BY <2>5 DEF WorkerEnds, CloseInv, OpaTypeOK
  <2> QED BY <2>1, <2>2, <2>3, <2>4, <2>5
<1> QED BY <1>2, <1>3, <1>4

(* Every step of OpaChecker.                                               *)
LEMMA OpaInvStep ==
    ASSUME OpaInv, OpaStart \/ OpaStep \/ UNCHANGED opaVars
    PROVE  OpaInv'
<1>0. OpaTypeOK'
  BY OpaTypeStep DEF OpaInv
<1>1. CASE OpaStart
  BY <1>0, <1>1 DEF OpaStart, OpaInv, Fresh
<1>2. CASE AddRuleFails
  BY <1>0, <1>2 DEF AddRuleFails, OpaInv
<1>3. CASE AddResource
  <2>1. opc' \in {"failed", "check"}
    BY <1>3 DEF AddResource
  <2> QED BY <1>0, <1>3, <2>1, AddResourceStep DEF OpaInv
<1>4. ASSUME opc = "check", opc' \in {"check", "returned"}, PlaceInv' /\ FoundInv' /\ CloseInv'
      PROVE  OpaInv'
  BY <1>0, <1>4 DEF OpaInv
<1>5. ASSUME NEW w \in Workers, SendTask(w) PROVE OpaInv'
  <2>1. opc = "check" /\ opc' = opc
    BY <1>5 DEF SendTask
  <2> QED BY <1>4, <1>5, <2>1, SendTaskStep DEF OpaInv
<1>6. ASSUME NEW w \in Workers, NEW r \in Resources, Check(w, r) PROVE OpaInv'
  <2>1. opc = "check" /\ opc' = opc
    BY <1>6 DEF Check
  <2> QED BY <1>4, <1>6, <2>1, CheckStep DEF OpaInv
<1>7. CASE AppendResult
  <2>1. opc = "check" /\ opc' = opc
    BY <1>7 DEF AppendResult
  <2> QED BY <1>4, <1>7, <2>1, AppendStep DEF OpaInv
<1>8. CASE \/ CloseTasks \/ CollectorEnds \/ CloseResults \/ VailOpaRulesResult
           \/ \E w \in Workers : WorkerEnds(w)
  <2>1. opc = "check" /\ opc' \in {"check", "returned"}
    BY <1>8 DEF CloseTasks, CollectorEnds, CloseResults, VailOpaRulesResult, WorkerEnds
  <2> QED BY <1>4, <1>8, <2>1, CloseStep DEF OpaInv
<1>9. CASE UNCHANGED opaVars
  BY <1>0, <1>9 DEF opaVars, OpaInv, Fresh, PlaceInv, FoundInv, CloseInv, Waiting
<1> QED BY <1>1, <1>2, <1>3, <1>5, <1>6, <1>7, <1>8, <1>9
        DEF OpaStep, checkResource, checkNodeStatsSummary

(* The invariant that the result of the workers follows from.              *)
THEOREM OpaInvariant == OpaSpec => []OpaInv
<1>1. OpaInit => OpaInv
  BY OpaAssumption DEF OpaInit, Fresh, OpaInv, OpaTypeOK
<1>2. OpaInv /\ [(opc \in {"off", "returned", "failed"} /\ OpaStart) \/ OpaStep]_opaVars => OpaInv'
  BY OpaInvStep
<1> QED BY <1>1, <1>2, PTL DEF OpaSpec

(* VailOpaRulesResult returns every listed resource that is denied, once,  *)
(* and nothing else, for any number of workers, batches and resources.     *)
THEOREM OpaCheckerFindsAll == OpaSpec => []OpaFindsAll
<1>1. OpaInv => OpaFindsAll
  <2> SUFFICES ASSUME OpaInv, opc = "returned", NEW r \in Resources
               PROVE  found[r] = IF r \in held /\ r \in Denied THEN 1 ELSE 0
    BY DEF OpaFindsAll
  <2>1. FoundInv /\ CloseInv
    BY DEF OpaInv
  <2>2. exited = Workers /\ hand = NoOne
    BY <2>1 DEF CloseInv
  <2>3. todo = {} /\ \A w \in Workers : work[w] = {}
    BY <2>1, <2>2, OpaAssumption DEF CloseInv
  <2>4. ~Waiting(r)
    BY <2>3 DEF Waiting
  <2> QED BY <2>1, <2>2, <2>4, OpaAssumption DEF FoundInv
<1> QED BY <1>1, OpaInvariant, PTL

-----------------------------------------------------------------------------
(* What the inspectors return                                              *)

(* Of these kinds an item is what Item makes.                              *)
Plain(k) == k \notin {"prometheus", "opa"}

(* An item that asserts, and lists issues, as those of its kind do.        *)
Fits(k, b, n) ==
    IF k \in {"fileFilter", "fileChange"} THEN b <=> n > 0 ELSE n = 0

(* The items of the plain kinds.                                           *)
LEMMA PlainItems ==
    ASSUME NEW k, Plain(k)
    PROVE  ItemOf(k) = {it \in NodeItem : Fits(k, it.assert, it.issues)}
<1>1. k # "prometheus" /\ k # "opa"
  BY DEF Plain
<1>2. CASE k \in {"fileFilter", "fileChange"}
  <2>1. ItemOf(k) = {it \in NodeItem : it.assert <=> it.issues > 0}
    BY <1>1, <1>2 DEF ItemOf
  <2>2. \A it : Fits(k, it.assert, it.issues) <=> (it.assert <=> it.issues > 0)
    BY <1>2, Zenon DEF Fits
  <2> QED BY <2>1, <2>2, Zenon
<1>3. CASE k \notin {"fileFilter", "fileChange"}
  <2>1. ItemOf(k) = {it \in NodeItem : it.issues = 0}
    BY <1>1, <1>3 DEF ItemOf
  <2>2. \A it : Fits(k, it.assert, it.issues) <=> it.issues = 0
    BY <1>3, Zenon DEF Fits
  <2> QED BY <2>1, <2>2, Zenon
<1> QED BY <1>2, <1>3

(* No item, and one.                                                       *)
LEMMA SoundNone == \A k : Sound(k, <<>>)
  BY EmptySeq DEF Sound

LEMMA SoundOne ==
    ASSUME NEW k, NEW b \in BOOLEAN, NEW n \in 0..MaxFiltered, Plain(k), Fits(k, b, n)
    PROVE  Sound(k, <<Item(b, n)>>)
<1> DEFINE it == Item(b, n)
<1>1. it \in NodeItem /\ it.issues = n
  BY DEF Item, NodeItem, Labels
<1>2. it.assert = b
  BY DEF Item
<1> HIDE DEF it
<1>3. Fits(k, it.assert, it.issues)
  BY <1>1, <1>2, Zenon
<1> DEFINE T == ItemOf(k)
<1>4. it \in T
  BY <1>1, <1>3, PlainItems, Zenon
<1> HIDE DEF T
<1>5. <<it>> \in Seq(T)
  BY <1>4
<1> QED BY <1>5 DEF it, T, Sound

(* The same for what RunInspect returns.                                   *)
LEMMA SoundData ==
    ASSUME NEW k
    PROVE  /\ Sound(k, Failure.items) /\ Sound(k, Null.items)
           /\ \A items : Sound(k, items) => Sound(k, Data(items).items)
  BY SoundNone DEF Failure, Null, Data

(* A list of issues has room for none and for one.                         *)
LEMMA Zero == 0 \in 0..MaxFiltered /\ 1 \in 0..MaxFiltered
  BY InspectorsAssumption

(* RunInspect of a node's inspectors.                                      *)
LEMMA NodeOutcomes ==
    ASSUME NEW k, Plain(k), k \notin {"fileFilter", "fileChange"}, NEW there, NEW up, NEW o
    PROVE  /\ Sound(k, sysctlRunInspect(there, up, o).items)
           /\ Sound(k, systemdRunInspect(there, up, o).items)
           /\ Sound(k, commandRunInspect(there, o).items)
           /\ Sound(k, nodeInfoRunInspect(there, up, o).items)
<1> DEFINE a == o \in {"missing", "error", "false"}
           c == o \in {"error", "true"}
<1>1. a \in BOOLEAN /\ c \in BOOLEAN /\ Fits(k, a, 0) /\ Fits(k, c, 0)
  BY DEF Fits
<1>2. /\ sysctlRunInspect(there, up, o) \in {Failure, Null, Data(<<Item(a, 0)>>)}
      /\ systemdRunInspect(there, up, o) \in {Failure, Null, Data(<<Item(a, 0)>>)}
      /\ commandRunInspect(there, o) \in {Failure, Null, Data(<<Item(c, 0)>>)}
      /\ nodeInfoRunInspect(there, up, o) \in {Failure, Null, Data(<<Item(c, 0)>>)}
  BY Zenon DEF sysctlRunInspect, systemdRunInspect, commandRunInspect, nodeInfoRunInspect
<1> HIDE DEF a, c
<1>3. Sound(k, <<Item(a, 0)>>) /\ Sound(k, <<Item(c, 0)>>)
  BY <1>1, Zero, SoundOne
<1>4. /\ Sound(k, Failure.items) /\ Sound(k, Null.items)
      /\ Sound(k, Data(<<Item(a, 0)>>).items) /\ Sound(k, Data(<<Item(c, 0)>>).items)
  BY <1>3, SoundData
<1> QED BY <1>2, <1>4

(* The item of a filter asserts when it lists a line.                      *)
LEMMA FilterOutcomes ==
    ASSUME NEW there, NEW o, NEW n \in Nat
    PROVE  Sound("fileFilter", fileFilterRunInspect(there, o, n).items)
<1> DEFINE issues == CASE o = "missing" -> 1
                       [] o = "error"   -> Least(n, 1)
                       [] OTHER         -> Least(n, MaxFiltered)
           d == issues > 0
<1>1. issues \in 0..MaxFiltered
  BY InspectorsAssumption DEF Least
<1>2. d \in BOOLEAN /\ Plain("fileFilter") /\ Fits("fileFilter", d, issues)
  BY DEF Plain, Fits
<1>3. fileFilterRunInspect(there, o, n) \in {Null, Data(<<Item(d, issues)>>)}
  BY Zenon DEF fileFilterRunInspect
<1> HIDE DEF issues, d
<1>4. Sound("fileFilter", <<Item(d, issues)>>)
  BY <1>1, <1>2, SoundOne
<1>5. Sound("fileFilter", Null.items) /\ Sound("fileFilter", Data(<<Item(d, issues)>>).items)
  BY <1>4, SoundData
<1> QED BY <1>3, <1>5

(* Items that are made one by one.                                         *)
LEMMA SoundList ==
    ASSUME NEW k, NEW n \in Nat, NEW items, DOMAIN items = 1..n, items = [i \in 1..n |-> items[i]],
           \A i \in 1..n : items[i] \in ItemOf(k)
    PROVE  Sound(k, items)
<1> DEFINE T == ItemOf(k)
<1>1. items \in [1..n -> T]
  OBVIOUS
<1> HIDE DEF T
<1>2. items \in UNION {[1..m -> T] : m \in Nat}
  BY <1>1
<1>3. items \in Seq(T)
  BY <1>2, SeqDef, Zenon
<1> QED BY <1>3 DEF Sound, T

(* What the items of a list are.                                           *)
LEMMA SoundIs ==
    ASSUME NEW k, NEW items, Sound(k, items)
    PROVE  /\ Len(items) \in Nat /\ DOMAIN items = 1..Len(items)
           /\ items = [i \in 1..Len(items) |-> items[i]]
           /\ \A i \in DOMAIN items : items[i] \in ItemOf(k)
<1> DEFINE T == ItemOf(k)
<1>1. items \in Seq(T)
  BY DEF Sound
<1> HIDE DEF T
<1>2. Len(items) \in Nat /\ DOMAIN items = 1..Len(items) /\ items \in [1..Len(items) -> T]
  BY <1>1, LenProperties
<1>3. items = [i \in 1..Len(items) |-> items[i]] /\ \A i \in 1..Len(items) : items[i] \in T
  BY <1>2
<1> QED BY <1>2, <1>3 DEF T

(* Every item has the fields of an item.                                   *)
LEMMA ItemIs ==
    ASSUME NEW k, NEW it \in ItemOf(k)
    PROVE  IsItem(it)
<1>1. it \in ItemOf(k)
  OBVIOUS
<1>2. CASE k = "prometheus"
  <2> DEFINE X == UNION {ToSet(s) : s \in Samples}
  <2>1. it \in [node: {""}, assert: {TRUE}, issues: {0}, sample: X]
    BY <1>1, <1>2 DEF ItemOf
  <2> HIDE DEF X
  <2>2. it.node = "" /\ it.assert = TRUE /\ it.issues = 0
    BY <2>1
  <2> QED BY <2>2, Zero DEF IsItem
<1>3. CASE k = "opa"
  <2> DEFINE A == 0..MaxFiltered
  <2>1. it \in [node: {""}, assert: {TRUE}, issues: A, resource: Resources]
    BY <1>1, <1>3 DEF ItemOf
  <2> HIDE DEF A
  <2>2. it.node = "" /\ it.assert = TRUE /\ it.issues \in A
    BY <2>1
  <2> QED BY <2>2 DEF IsItem, A
<1>4. CASE Plain(k)
  <2>1. it \in NodeItem
    BY <1>1, <1>4, PlainItems
  <2>2. it.node \in Labels /\ it.issues \in 0..MaxFiltered
    BY <2>1 DEF NodeItem
  <2>3. it.assert \in BOOLEAN
    BY <2>1 DEF NodeItem
  <2> QED BY <2>2, <2>3 DEF IsItem, Labels
<1> QED BY <1>2, <1>3, <1>4 DEF Plain

(* ... and so have those of a list.                                        *)
LEMMA SoundItems ==
    ASSUME NEW k, NEW items, Sound(k, items)
    PROVE  \A it \in ToSet(items) : IsItem(it)
  BY SoundIs, ItemIs DEF ToSet

(* The length of a list is the last of its indices.                        *)
LEMMA SoundLen ==
    ASSUME NEW k, NEW items, Sound(k, items), NEW n \in Nat, DOMAIN items = 1..n
    PROVE  Len(items) = n
<1> DEFINE m == Len(items)
<1>1. m \in Nat /\ DOMAIN items = 1..m
  BY SoundIs
<1> HIDE DEF m
<1>2. 1..m = 1..n
  BY <1>1
<1>3. m # 0 => m \in 1..n
  BY <1>1, <1>2
<1>4. n # 0 => n \in 1..m
  <2>1. n # 0 => n \in 1..n
    OBVIOUS
  <2> QED BY <1>2, <2>1, Zenon
<1>5. m = n
  BY <1>1, <1>3, <1>4
<1> QED BY <1>5 DEF m

(* SetToSeq lists elements of its set.                                     *)
LEMMA ListOfSet ==
    ASSUME NEW S, IsFiniteSet(S)
    PROVE  \E n \in Nat : /\ SetToSeq(S) \in [1..n -> S] /\ DOMAIN SetToSeq(S) = 1..n
                          /\ SetToSeq(S) = [i \in 1..n |-> SetToSeq(S)[i]]
<1> DEFINE n == Cardinality(S)
           F == [1..n -> S]
<1>1. \E f \in F : IsInjective(f)
  <2>1. ExistsBijection(1..n, S)
    BY FS_CardinalityType
  <2> QED BY <2>1 DEF ExistsBijection, Bijection, Injection
<1>2. SetToSeq(S) = CHOOSE f \in F : IsInjective(f)
  BY DEF SetToSeq
<1>3. SetToSeq(S) \in F
  BY <1>1, <1>2
<1>4. n \in Nat
  BY FS_CardinalityType
<1> HIDE DEF n
<1> QED BY <1>3, <1>4

(* The services that rules select are services.                            *)
LEMMA TargetsAre ==
    ASSUME NEW rules, NEW listed
    PROVE  IsFiniteSet(GetInspectComponent(rules, listed))
<1>1. IsFiniteSet(DOMAIN Services)
  <2> DEFINE S == ToSet(Services)
  <2>1. Services \in Seq(S)
    BY InspectorsAssumption
  <2> HIDE DEF S
  <2>2. Len(Services) \in Nat /\ DOMAIN Services = 1..Len(Services)
    BY <2>1, LenProperties
  <2> QED BY <2>2, FS_Interval
<1>2. \A ns : GetServicesForNameSpace(ns) \subseteq DOMAIN Services
  BY DEF GetServicesForNameSpace
<1>3. GetInspectComponent(rules, listed) \subseteq DOMAIN Services
  <2> DEFINE sel(rule) ==
            CASE rule.by = "workspace" ->
                     UNION {GetServicesForNameSpace(ns) : ns \in GetNameSpacesForWorkSpace(rule.of, listed)}
              [] rule.by = "namespace" -> GetServicesForNameSpace(rule.of)
              [] OTHER                 -> GetServices(rule.of)
  <2>1. ASSUME NEW rule PROVE sel(rule) \subseteq DOMAIN Services
    <3>1. UNION {GetServicesForNameSpace(ns) : ns \in GetNameSpacesForWorkSpace(rule.of, listed)}
            \subseteq DOMAIN Services
      BY <1>2
    <3>2. GetServices(rule.of) \subseteq DOMAIN Services
      BY <1>2 DEF GetServices
    <3> QED BY <1>2, <3>1, <3>2
  <2>2. GetInspectComponent(rules, listed) = UNION {sel(rules[n]) : n \in DOMAIN rules}
    BY DEF GetInspectComponent
  <2> HIDE DEF sel
  <2> QED BY <2>1, <2>2
<1> QED BY <1>1, <1>3, FS_Subset

(* RunInspect of the cluster's inspectors: any number of items.            *)
LEMMA PrometheusOutcomes ==
    ASSUME NEW there, NEW up, NEW api, NEW o, NEW s \in Samples
    PROVE  Sound("prometheus", prometheusRunInspect(there, up, api, o, s).items)
<1> DEFINE items == [i \in DOMAIN s |->
                       [node |-> "", assert |-> TRUE, issues |-> 0, sample |-> s[i]]]
           n == Len(s)
<1>1. prometheusRunInspect(there, up, api, o, s) \in {Failure, Null, Data(items)}
  BY Zenon DEF prometheusRunInspect
<1>2. n \in Nat /\ DOMAIN s = 1..n
  <2> DEFINE S == ToSet(s)
  <2>1. s \in Seq(S)
    BY InspectorsAssumption
  <2> HIDE DEF S
  <2> QED BY <2>1, LenProperties
<1> HIDE DEF n
<1>3. DOMAIN items = 1..n /\ items = [i \in 1..n |-> items[i]]
  BY <1>2
<1>4. ASSUME NEW i \in 1..n PROVE items[i] \in ItemOf("prometheus")
  <2> DEFINE X == UNION {ToSet(t) : t \in Samples}
  <2>1. s[i] \in X
    BY <1>2 DEF ToSet
  <2> HIDE DEF X
  <2>2. items[i] \in [node: {""}, assert: {TRUE}, issues: {0}, sample: X]
    BY <1>2, <2>1
  <2>3. ItemOf("prometheus") = [node: {""}, assert: {TRUE}, issues: {0}, sample: X]
    BY DEF ItemOf, X
  <2> QED BY <2>2, <2>3
<1> HIDE DEF items
<1>5. Sound("prometheus", items)
  BY <1>2, <1>3, <1>4, SoundList
<1>6. /\ Sound("prometheus", Failure.items) /\ Sound("prometheus", Null.items)
      /\ Sound("prometheus", Data(items).items)
  BY <1>5, SoundData
<1> QED BY <1>1, <1>6

(* The component's one item.                                               *)
LEMMA ComponentOutcomes ==
    ASSUME NEW there, NEW up, NEW pods
    PROVE  Sound("component", componentRunInspect(there, up, pods).items)
<1> DEFINE b == \/ ~up
                \/ \E p \in pods : /\ ~p.ignored
                                   /\ p.phase # "Running" \/ ~isAllContainersReady(p)
<1>1. componentRunInspect(there, up, pods) \in {Null, Data(<<Item(b, 0)>>)}
  BY Zenon DEF componentRunInspect
<1>2. b \in BOOLEAN
  OBVIOUS
<1> HIDE DEF b
<1>3. Plain("component") /\ Fits("component", b, 0)
  BY DEF Plain, Fits
<1>4. Sound("component", <<Item(b, 0)>>)
  BY <1>2, <1>3, Zero, SoundOne
<1>5. Sound("component", Null.items) /\ Sound("component", Data(<<Item(b, 0)>>).items)
  BY <1>4, SoundData
<1> QED BY <1>1, <1>5

(* An item for each of the services.                                       *)
LEMMA ConnectOutcomes ==
    ASSUME NEW there, NEW up, NEW s, IsFiniteSet(s), NEW answering
    PROVE  Sound("serviceConnect", serviceConnectRunInspect(there, up, s, answering).items)
<1> DEFINE k == "serviceConnect"
           list == SetToSeq(s)
           b(i) == ~checkConnection(list[i], answering)
           items == [i \in DOMAIN list |-> Item(b(i), 0)]
<1>1. serviceConnectRunInspect(there, up, s, answering) \in {Failure, Null, Data(items)}
  BY Zenon DEF serviceConnectRunInspect
<1>2. PICK n \in Nat : DOMAIN list = 1..n
  BY ListOfSet
<1>3. DOMAIN items = 1..n /\ items = [i \in 1..n |-> items[i]]
  BY <1>2
<1>4. ASSUME NEW i \in 1..n PROVE items[i] \in ItemOf(k)
  <2> DEFINE c == b(i)
  <2>1. c \in BOOLEAN
    BY DEF checkConnection
  <2>2. items[i] = Item(c, 0)
    BY <1>2
  <2> HIDE DEF items, c
  <2>3. Plain(k) /\ Fits(k, c, 0)
    BY DEF Plain, Fits
  <2>4. Item(c, 0) \in NodeItem /\ Item(c, 0).issues = 0
    BY <2>1, Zero DEF Item, NodeItem, Labels
  <2>5. ItemOf(k) = {it \in NodeItem : it.issues = 0}
    BY DEF ItemOf
  <2> QED BY <2>2, <2>4, <2>5
<1> HIDE DEF items
<1>5. Sound(k, items)
  BY <1>2, <1>3, <1>4, SoundList
<1>6. Sound(k, Failure.items) /\ Sound(k, Null.items) /\ Sound(k, Data(items).items)
  BY <1>5, SoundData
<1> HIDE DEF k
<1>7. Sound(k, serviceConnectRunInspect(there, up, s, answering).items)
  BY <1>1, <1>6
<1> QED BY <1>7 DEF k

(* RunInspect of every kind that keeps nothing between inspections.        *)
LEMMA Outcomes ==
    ASSUME NEW k \in Kinds \ {"fileChange", "opa"}, NEW there, NEW out \in RunInspect(k, there)
    PROVE  Sound(k, out.items)
<1> DEFINE Of(kinds) == k \in kinds => Plain(k) /\ k \notin {"fileFilter", "fileChange"}
<1>0. Of({"sysctl", "systemd", "command", "nodeInfo"})
  BY DEF Plain
<1> HIDE DEF Of
<1>1. CASE k = "sysctl"
  <2>1. \E up \in BOOLEAN, o \in Reading : out = sysctlRunInspect(there, up, o)
    BY <1>1 DEF RunInspect
  <2> QED BY <1>0, <1>1, <2>1, NodeOutcomes DEF Of
<1>2. CASE k = "systemd"
  <2>1. \E up \in BOOLEAN, o \in Reading : out = systemdRunInspect(there, up, o)
    BY <1>2 DEF RunInspect
  <2> QED BY <1>0, <1>2, <2>1, NodeOutcomes DEF Of
<1>3. CASE k = "command"
  <2>1. \E o : out = commandRunInspect(there, o)
    BY <1>3 DEF RunInspect
  <2> QED BY <1>0, <1>3, <2>1, NodeOutcomes DEF Of
<1>4. CASE k = "nodeInfo"
  <2>1. \E up, o : out = nodeInfoRunInspect(there, up, o)
    <3> DEFINE D == NodeData(TRUE) \cup NodeData(FALSE) \cup {"unruled"}
               F(up, o) == nodeInfoRunInspect(there, up, o)
    <3>1. RunInspect(k, there) = {F(up, o) : up \in BOOLEAN, o \in D}
      BY <1>4 DEF RunInspect
    <3> HIDE DEF D, F
    <3>2. \E up, o : out = F(up, o)
      BY <3>1
    <3> QED BY <3>2 DEF F
  <2> QED BY <1>0, <1>4, <2>1, NodeOutcomes DEF Of
<1>5. CASE k = "fileFilter"
  <2>1. \E o, n : n \in 0..(MaxFiltered + 1) /\ out = fileFilterRunInspect(there, o, n)
    <3>1. out \in {fileFilterRunInspect(there, o, n) :
                      o \in {"missing", "error", "true"}, n \in 0..(MaxFiltered + 1)}
      BY <1>5 DEF RunInspect
    <3> DEFINE F(o, n) == fileFilterRunInspect(there, o, n)
    <3> HIDE DEF F
    <3>2. out \in {F(o, n) : o \in {"missing", "error", "true"}, n \in 0..(MaxFiltered + 1)}
      BY <3>1 DEF F
    <3>3. \E o, n : n \in 0..(MaxFiltered + 1) /\ out = F(o, n)
      BY <3>2
    <3> QED BY <3>3 DEF F
  <2>2. \A n \in 0..(MaxFiltered + 1) : n \in Nat
    BY InspectorsAssumption
  <2> QED BY <1>5, <2>1, <2>2, FilterOutcomes
<1>6. CASE k = "prometheus"
  <2>1. \E endpoint, api, o, s : s \in Samples /\ out = prometheusRunInspect(there, endpoint, api, o, s)
    BY <1>6 DEF RunInspect
  <2> QED BY <1>6, <2>1, PrometheusOutcomes
<1>7. CASE k = "component"
  <2>1. \E l, p, pods : out = componentRunInspect(l, p, pods)
    BY <1>7 DEF RunInspect
  <2> QED BY <1>7, <2>1, ComponentOutcomes
<1>8. CASE k = "serviceConnect"
  <2>1. \E up, rules, l, answering :
           out = serviceConnectRunInspect(there, up, GetInspectComponent(rules, l), answering)
    BY <1>8 DEF RunInspect
  <2> QED BY <1>8, <2>1, TargetsAre, ConnectOutcomes
<1> QED BY <1>1, <1>2, <1>3, <1>4, <1>5, <1>6, <1>7, <1>8 DEF Kinds, NodeKinds, ClusterKinds

(* The items of a node with its name.                                      *)
LEMMA TaggedIs ==
    ASSUME NEW k \in NodeKinds, NEW items, Sound(k, items), NEW label \in Labels
    PROVE  Sound(k, Tagged(items, label)) /\ Len(Tagged(items, label)) = Len(items)
<1> DEFINE n == Len(items)
           new == Tagged(items, label)
<1>1. n \in Nat /\ DOMAIN items = 1..n /\ \A i \in 1..n : items[i] \in ItemOf(k)
  BY SoundIs
<1>2. /\ DOMAIN new = 1..n /\ new = [i \in 1..n |-> new[i]]
      /\ \A i \in 1..n : new[i] = [items[i] EXCEPT !.node = label]
  BY <1>1 DEF Tagged
<1>3. Plain(k)
  BY DEF NodeKinds, Plain
<1> HIDE DEF n, new
<1>4. ASSUME NEW i \in 1..n PROVE new[i] \in ItemOf(k)
  <2> DEFINE it == items[i]
             jt == new[i]
  <2>1. it \in NodeItem /\ Fits(k, it.assert, it.issues)
    BY <1>1, <1>3, PlainItems
  <2>2. jt = [it EXCEPT !.node = label]
    BY <1>2
  <2> HIDE DEF it, jt
  <2>3. jt \in NodeItem /\ jt.issues = it.issues /\ jt.assert = it.assert
    <3> DEFINE A == 0..MaxFiltered
               N == Labels
    <3>1. NodeItem = [node: N, assert: BOOLEAN, issues: A] /\ label \in N
      BY DEF NodeItem
    <3> HIDE DEF A, N
    <3> QED BY <2>1, <2>2, <3>1
  <2>4. Fits(k, jt.assert, jt.issues)
    BY <2>1, <2>3, Zenon
  <2>5. jt \in ItemOf(k)
    BY <1>3, <2>3, <2>4, PlainItems
  <2> QED BY <2>5 DEF jt
<1>5. Sound(k, new)
  BY <1>1, <1>2, <1>4, SoundList
<1>6. Len(new) = n
  BY <1>1, <1>2, <1>5, SoundLen
<1> QED BY <1>5, <1>6 DEF n, new

(* GetResult keeps the lists of the report sound.                          *)
LEMMA Merging ==
    ASSUME NEW k \in Kinds, NEW list, Sound(k, list), NEW items, Sound(k, items),
           NEW label \in Labels
    PROVE  /\ k \in NodeKinds => GetResult(k, list, label, items) = list \o Tagged(items, label)
           /\ k \notin NodeKinds /\ list = <<>> => GetResult(k, list, label, items) = items
           /\ Sound(k, GetResult(k, list, label, items))
<1>1. CASE k \in NodeKinds
  <2>1. GetResult(k, list, label, items) = list \o Tagged(items, label)
    BY <1>1 DEF GetResult, NodeKinds, sysctlGetResult, systemdGetResult, commandGetResult,
                nodeInfoGetResult, fileFilterGetResult, fileChangeGetResult
  <2> DEFINE T == ItemOf(k)
  <2>2. list \in Seq(T) /\ Tagged(items, label) \in Seq(T)
    BY <1>1, TaggedIs DEF Sound
  <2> HIDE DEF T
  <2>3. list \o Tagged(items, label) \in Seq(T)
    BY <2>2, ConcatProperties
  <2>4. Sound(k, list \o Tagged(items, label))
    BY <2>3 DEF T, Sound
  <2> QED BY <1>1, <2>1, <2>4
<1>2. CASE k \notin NodeKinds
  <2>1. k \in ClusterKinds
    BY <1>2 DEF Kinds
  <2>2. /\ GetResult(k, list, label, items) \in {list, items}
        /\ list = <<>> => GetResult(k, list, label, items) = items
    BY <2>1 DEF GetResult, ClusterKinds, prometheusGetResult, serviceConnectGetResult,
                componentGetResult, opaGetResult
  <2> QED BY <1>2, <2>2
<1> QED BY <1>1, <1>2

(* What the job of OPA returns.                                            *)
LEMMA OpaItems ==
    ASSUME OpaTypeOK, FoundInv
    PROVE  Sound("opa", SetToSeq({[node |-> "", assert |-> TRUE, issues |-> found[r], resource |-> r] :
                                      r \in {x \in Resources : found[x] > 0}}))
<1> DEFINE R == {x \in Resources : found[x] > 0}
           f == [r \in R |-> [node |-> "", assert |-> TRUE, issues |-> found[r], resource |-> r]]
           S == {f[r] : r \in R}
<1>1. IsFiniteSet(R)
  BY OpaAssumption, FS_Subset
<1>2. \A it \in S : it \in ItemOf("opa")
  <2> SUFFICES ASSUME NEW r \in R PROVE f[r] \in ItemOf("opa")
    OBVIOUS
  <2>1. found[r] \in 0..MaxFiltered
    BY Zero DEF FoundInv
  <2>2. f[r] \in [node: {""}, assert: {TRUE}, issues: 0..MaxFiltered, resource: Resources]
    BY <2>1
  <2> HIDE DEF f
  <2> QED BY <2>2 DEF ItemOf
<1>3. IsFiniteSet(S)
  <2>1. f \in Surjection(R, S)
    BY DEF Surjection
  <2> HIDE DEF f, S, R
  <2> QED BY <1>1, <2>1, FS_Surjection
<1>4. S = {[node |-> "", assert |-> TRUE, issues |-> found[r], resource |-> r] : r \in R}
  OBVIOUS
<1> HIDE DEF S, f
<1>5. PICK n \in Nat : /\ SetToSeq(S) \in [1..n -> S] /\ DOMAIN SetToSeq(S) = 1..n
                       /\ SetToSeq(S) = [i \in 1..n |-> SetToSeq(S)[i]]
  BY <1>3, ListOfSet
<1>6. \A i \in 1..n : SetToSeq(S)[i] \in ItemOf("opa")
  BY <1>2, <1>5
<1>7. Sound("opa", SetToSeq(S))
  BY <1>5, <1>6, SoundList
<1> QED BY <1>4, <1>7

-----------------------------------------------------------------------------
(* The jobs                                                                *)

(* What a step of job j leaves behind.                                     *)
After(j) ==
    /\ PodTypes' /\ Tries(j)' /\ Items(j)' /\ File(j)'
    /\ \A i \in Jobs \ {j} : /\ pod'[i] = pod[i] /\ tries'[i] = tries[i] /\ seen'[i] = seen[i]
                             /\ data'[i] = data[i] /\ cm'[i] = cm[i] /\ took'[i] = took[i]
    /\ UNCHANGED <<kind, envVars>>
    /\ faults' = faults \/ Fault
    /\ base' \in Contents \cup {NoBase}
    /\ faults' = 0 => base' = base \/ (base = NoBase /\ base' \in Contents)

(* A pod dies.                                                             *)
LEMMA DiesIs ==
    ASSUME PodTypes, NEW j \in Jobs, Tries(j), pod[j] \notin {"failed", "done"}, PodDies(j)
    PROVE  /\ pod' \in [Jobs -> PodLabel] /\ tries' \in [Jobs -> 0..(BackLimit + 1)]
           /\ seen' \in [Jobs -> Contents \cup {Missing}]
           /\ data' = [i \in Jobs |-> data'[i]]
           /\ pod'[j] \in {"run", "failed"} /\ seen'[j] = Missing /\ data'[j] = <<>> /\ Tries(j)'
           /\ \A i \in Jobs \ {j} : /\ pod'[i] = pod[i] /\ tries'[i] = tries[i]
                                    /\ seen'[i] = seen[i] /\ data'[i] = data[i]
<1>1. BackLimit \in Nat /\ tries[j] \in Nat /\ tries[j] <= BackLimit
  BY InspectionAssumption DEF PodTypes, Tries
<1>2. pod' \in [Jobs -> PodLabel] /\ pod'[j] \in {"run", "failed"}
  BY DEF PodDies, PodTypes, PodLabel
<1>3. tries' \in [Jobs -> 0..(BackLimit + 1)] /\ tries'[j] = tries[j] + 1
  BY <1>1 DEF PodDies, PodTypes
<1>4. Tries(j)'
  <2>1. pod'[j] = IF tries[j] < BackLimit THEN "run" ELSE "failed"
    BY DEF PodDies, PodTypes
  <2> QED BY <1>1, <1>3, <2>1 DEF Tries
<1>5. seen' \in [Jobs -> Contents \cup {Missing}] /\ seen'[j] = Missing
  BY DEF PodDies, PodTypes
<1>6. data' = [i \in Jobs |-> data'[i]] /\ data'[j] = <<>>
  BY DEF PodDies, PodTypes
<1>7. \A i \in Jobs \ {j} : /\ pod'[i] = pod[i] /\ tries'[i] = tries[i]
                            /\ seen'[i] = seen[i] /\ data'[i] = data[i]
  BY DEF PodDies, PodTypes
<1> QED BY <1>2, <1>3, <1>4, <1>5, <1>6, <1>7

(* RunInspect returns.                                                     *)
LEMMA ReturnsIs ==
    ASSUME PodTypes, NEW j \in Jobs, Tries(j), pod[j] \notin {"failed", "done"},
           NEW items, Returns(j, items)
    PROVE  /\ pod' \in [Jobs -> PodLabel] /\ tries' = tries
           /\ data' = [i \in Jobs |-> data'[i]]
           /\ pod'[j] = "store" /\ data'[j] = items /\ Tries(j)'
           /\ \A i \in Jobs \ {j} : pod'[i] = pod[i] /\ data'[i] = data[i]
  BY DEF Returns, PodTypes, PodLabel, Tries

(* The pod of a job ends RunInspect, or dies, with nothing stored yet.     *)
LEMMA RunStep ==
    ASSUME IInv, NEW j \in Jobs, pod[j] \notin {"failed", "done"},
           UNCHANGED <<kind, cm, took, envVars>>,
           \/ PodDies(j)
           \/ \E items : /\ Returns(j, items) /\ Sound(kind[j], items)
                         /\ seen' \in [Jobs -> Contents \cup {Missing}]
                         /\ \A i \in Jobs \ {j} : seen'[i] = seen[i]
                         /\ faults' = 0 /\ kind[j] = "fileChange" => Told(j, items)',
           faults' = faults \/ Fault,
           base' \in Contents \cup {NoBase},
           faults' = 0 => base' = base \/ (base = NoBase /\ base' \in Contents)
    PROVE  After(j)
<1>1. /\ PodTypes /\ Tries(j) /\ Items(j) /\ File(j) /\ faults \in Nat
  BY InspectionAssumption DEF IInv, JobInv, EnvTypes
<1>2. faults' = 0 => faults = 0
  BY <1>1 DEF Fault
<1>3. SoundMap(kind[j], cm[j])' /\ SoundMap(kind[j], took[j])'
  BY <1>1 DEF Items, SoundMap, Sound
<1>4. faults' = 0 /\ kind[j] = "fileChange" => cm'[j] = <<>> /\ took'[j] = <<>>
  BY <1>1, <1>2 DEF File
<1>5. CASE PodDies(j)
  <2>1. /\ pod' \in [Jobs -> PodLabel] /\ tries' \in [Jobs -> 0..(BackLimit + 1)]
        /\ seen' \in [Jobs -> Contents \cup {Missing}]
        /\ data' = [i \in Jobs |-> data'[i]]
        /\ pod'[j] \in {"run", "failed"} /\ seen'[j] = Missing /\ data'[j] = <<>> /\ Tries(j)'
        /\ \A i \in Jobs \ {j} : /\ pod'[i] = pod[i] /\ tries'[i] = tries[i]
                                 /\ seen'[i] = seen[i] /\ data'[i] = data[i]
    BY <1>1, <1>5, DiesIs
  <2>2. Items(j)'
    BY <1>3, <2>1, SoundNone DEF Items, Sound
  <2>3. File(j)'
    BY <1>4, <2>1 DEF File
  <2>4. PodTypes'
    BY <1>1, <2>1 DEF PodTypes
  <2> QED BY <2>1, <2>2, <2>3, <2>4 DEF After
<1>6. CASE \E items : /\ Returns(j, items) /\ Sound(kind[j], items)
                      /\ seen' \in [Jobs -> Contents \cup {Missing}]
                      /\ \A i \in Jobs \ {j} : seen'[i] = seen[i]
                      /\ faults' = 0 /\ kind[j] = "fileChange" => Told(j, items)'
  <2>0. PICK items : /\ Returns(j, items) /\ Sound(kind[j], items)
                     /\ seen' \in [Jobs -> Contents \cup {Missing}]
                     /\ \A i \in Jobs \ {j} : seen'[i] = seen[i]
                     /\ faults' = 0 /\ kind[j] = "fileChange" => Told(j, items)'
    BY <1>6
  <2>1. /\ pod' \in [Jobs -> PodLabel] /\ tries' = tries
        /\ data' = [i \in Jobs |-> data'[i]]
        /\ pod'[j] = "store" /\ data'[j] = items /\ Tries(j)'
        /\ \A i \in Jobs \ {j} : pod'[i] = pod[i] /\ data'[i] = data[i]
    BY <1>1, <2>0, ReturnsIs
  <2>2. Items(j)'
    BY <1>3, <2>0, <2>1 DEF Items, Sound
  <2>3. File(j)'
    BY <1>4, <2>0, <2>1 DEF File, Told
  <2>4. PodTypes'
    BY <1>1, <2>0, <2>1 DEF PodTypes
  <2> QED BY <2>0, <2>1, <2>2, <2>3, <2>4 DEF After
<1> QED BY <1>5, <1>6

(* A step of the pod that only moves it on.                                *)
LEMMA MoveStep ==
    ASSUME IInv, NEW j \in Jobs, pod[j] \notin {"failed", "done"},
           NEW label \in {"getBase", "createBase", "opa", "hung"}, pod' = [pod EXCEPT ![j] = label],
           UNCHANGED <<kind, tries, data, cm, took, base, envVars, faults>>,
           seen' \in [Jobs -> Contents \cup {Missing}],
           \A i \in Jobs \ {j} : seen'[i] = seen[i],
           label \in {"getBase", "createBase"} => kind[j] = "fileChange" /\ seen'[j] \in Contents
    PROVE  After(j)
<1>1. PodTypes /\ EnvTypes /\ Tries(j) /\ Items(j) /\ File(j)
  BY DEF IInv, JobInv
<1>2. pod' \in [Jobs -> PodLabel] /\ pod'[j] = label /\ \A i \in Jobs \ {j} : pod'[i] = pod[i]
  BY <1>1 DEF PodTypes, PodLabel
<1>3. PodTypes' /\ Tries(j)'
  BY <1>1, <1>2 DEF PodTypes, Tries
<1>4. Items(j)'
  BY <1>1 DEF Items, Sound, SoundMap
<1>5. File(j)'
  BY <1>1, <1>2 DEF File
<1>6. base' \in Contents \cup {NoBase}
  BY <1>1 DEF EnvTypes
<1> QED BY <1>2, <1>3, <1>4, <1>5, <1>6 DEF After

(* jobInspect returns what one of the inspectors makes of what it observes. *)
LEMMA JobInspectStep ==
    ASSUME IInv, NEW j \in Jobs, jobInspect(j)
    PROVE  After(j)
<1>1. PodTypes /\ EnvTypes /\ kind[j] \in Kinds \ {"fileChange", "opa"} /\ pod[j] = "run"
  BY DEF IInv, EnvTypes, jobInspect
<1>2. PICK out \in RunInspect(kind[j], temp) :
        IF out.ok THEN Returns(j, out.items) /\ UNCHANGED seen ELSE PodDies(j)
  BY DEF jobInspect
<1>3. Sound(kind[j], out.items)
  BY <1>1, Outcomes
<1>4. UNCHANGED <<kind, cm, took, base, envVars, faults>>
  BY DEF jobInspect, repVars
<1>5. base' \in Contents \cup {NoBase}
  BY <1>1, <1>4 DEF EnvTypes
<1>6. \/ PodDies(j)
      \/ \E items : /\ Returns(j, items) /\ Sound(kind[j], items)
                    /\ seen' \in [Jobs -> Contents \cup {Missing}]
                    /\ \A i \in Jobs \ {j} : seen'[i] = seen[i]
                    /\ faults' = 0 /\ kind[j] = "fileChange" => Told(j, items)'
  BY <1>1, <1>2, <1>3 DEF PodTypes
<1> QED BY <1>1, <1>4, <1>5, <1>6, RunStep

(* A set of numbers that is not empty has a least one.                     *)
LEMMA Lowest ==
    ASSUME NEW T \in SUBSET Nat, T # {}
    PROVE  \E x \in T : \A y \in T : x <= y
<1> DEFINE R == OpToRel(<, Nat)
<1>1. IsWellFoundedOn(R, Nat)
  BY NatLessThanWellFounded
<1>2. \A x, y \in Nat : x < y => <<x, y>> \in R
  BY DEF OpToRel
<1> HIDE DEF R
<1>3. \E x \in T : \A y \in T : ~(<<y, x>> \in R)
  BY <1>1, WFMin
<1>4. \A x, y \in Nat : ~(y < x) => x <= y
  OBVIOUS
<1> QED BY <1>2, <1>3, <1>4

(* Where two files are first different, and no line before is too long,    *)
(* diffString lists an issue; it lists none of a file that is the baseline *)
(* and has no colours of its own.                                          *)
LEMMA DiffTruthful ==
    ASSUME NEW a \in Contents, NEW b \in Contents, NEW n \in diffString(a, b)
    PROVE  Truthful(n > 0, b, a)
<1> DEFINE C == Changed(a, b)
           F == {i \in C : \A k \in C : i <= k}
           G == {i \in DOMAIN a : a[i] \in Escaped /\ \A k \in C : i < k}
           S(i) == Scanned(a, b, i)
<1>1. diffString(a, b) = CASE \E i \in F \cup G : S(i)  -> {1}
                           [] /\ \A i \in F \cup G : ~S(i)
                              /\ \E i \in F : S(i - 1)  -> {0, 1}
                           [] OTHER                     -> {0}
  BY DEF diffString
<1>2. C \in SUBSET Nat
  <2>1. \A c \in Contents : DOMAIN c \subseteq Nat
    <3> SUFFICES ASSUME NEW c \in Contents PROVE DOMAIN c \subseteq Nat
      OBVIOUS
    <3> DEFINE T == ToSet(c)
    <3>1. c \in Seq(T)
      BY InspectionAssumption
    <3> HIDE DEF T
    <3> QED BY <3>1, LenProperties
  <2> QED BY <2>1 DEF Changed
<1>3. b # Missing
  BY InspectionAssumption
<1>4. ASSUME b = a, \A i \in DOMAIN b : b[i] \notin Escaped PROVE ~(n > 0)
  <2>1. F = {} /\ G = {}
    BY <1>4 DEF Changed
  <2> HIDE DEF F, G, S
  <2>2. n \in {0}
    BY <1>1, <2>1
  <2> QED BY <2>2
<1>5. ASSUME NEW i \in C, S(i) PROVE n > 0
  <2>1. PICK l \in C : \A k \in C : l <= k
    BY <1>2, <1>5, Lowest
  <2>2. l \in Nat /\ i \in Nat /\ l <= i
    BY <1>2, <1>5, <2>1
  <2>3. 1..l \subseteq 1..i
    BY <2>2
  <2>4. l \in F /\ S(l)
    BY <1>5, <2>1, <2>3 DEF Scanned
  <2> HIDE DEF F, G, S, C
  <2>5. n \in {1}
    BY <1>1, <2>4
  <2> QED BY <2>5
<1> HIDE DEF C, S
<1> QED BY <1>3, <1>4, <1>5 DEF Truthful, C, S

(* A command or a query never returns.                                     *)
LEMMA HangsStep ==
    ASSUME IInv, NEW j \in Jobs, Hangs(j)
    PROVE  After(j)
<1>1. PodTypes /\ pod[j] = "run" /\ pod' = [pod EXCEPT ![j] = "hung"]
  BY DEF IInv, Hangs
<1>2. UNCHANGED <<kind, tries, seen, data, cm, took, base, envVars, faults>>
  BY DEF Hangs, repVars
<1>3. seen' \in [Jobs -> Contents \cup {Missing}] /\ \A i \in Jobs \ {j} : seen'[i] = seen[i]
  BY <1>1, <1>2 DEF PodTypes
<1> QED BY <1>1, <1>2, <1>3, MoveStep

(* The one item of fileChange, and whether it asserts.                     *)
LEMMA FileItem ==
    ASSUME NEW a, NEW b, NEW items \in fileChangeItems(a, b)
    PROVE  /\ Sound("fileChange", items)
           /\ a \in Contents /\ b \in Contents => Truthful(Asserts(items), b, a)
<1>1. PICK n \in diffString(a, b) : items = <<Item(n > 0, n)>>
  BY DEF fileChangeItems
<1> DEFINE c == n > 0
           it == Item(c, n)
<1>2. n \in 0..MaxFiltered /\ c \in BOOLEAN
  <2>1. diffString(a, b) \in {{1}, {0, 1}, {0}}
    BY Zenon DEF diffString
  <2> QED BY <2>1, Zero
<1>3. Plain("fileChange") /\ Fits("fileChange", c, n)
  BY DEF Plain, Fits
<1>4. a \in Contents /\ b \in Contents => Truthful(c, b, a)
  BY DiffTruthful
<1>5. items = <<it>>
  BY <1>1
<1> HIDE DEF c
<1>6. Sound("fileChange", <<Item(c, n)>>)
  BY <1>2, <1>3, SoundOne
<1>7. it.assert = c
  BY DEF Item
<1>8. Sound("fileChange", items)
  BY <1>5, <1>6
<1> HIDE DEF it
<1>9. ToSet(<<it>>) = {it}
  <2>1. DOMAIN <<it>> = 1..1 /\ <<it>>[1] = it /\ 1..1 = {1}
    OBVIOUS
  <2> QED BY <2>1 DEF ToSet
<1>10. Asserts(items) <=> c
  BY <1>5, <1>7, <1>9, Zenon DEF Asserts
<1>11. Truthful(c, b, a) <=> Truthful(Asserts(items), b, a)
  BY <1>10, Zenon DEF Truthful
<1> QED BY <1>4, <1>8, <1>11, Zenon

(* The file of fileChange is not there.                                    *)
LEMMA MissingItem ==
    /\ Sound("fileChange", <<Item(TRUE, 1)>>)
    /\ Asserts(<<Item(TRUE, 1)>>)
<1>1. Sound("fileChange", <<Item(TRUE, 1)>>)
  <2>1. Plain("fileChange") /\ Fits("fileChange", TRUE, 1)
    BY DEF Plain, Fits
  <2> QED BY <2>1, Zero, SoundOne
<1> DEFINE it == Item(TRUE, 1)
<1>2. it.assert = TRUE
  BY DEF Item
<1> HIDE DEF it
<1>3. it \in ToSet(<<it>>)
  <2>1. DOMAIN <<it>> = 1..1 /\ <<it>>[1] = it /\ 1 \in 1..1
    OBVIOUS
  <2> QED BY <2>1 DEF ToSet
<1>4. \E x \in ToSet(<<it>>) : x.assert
  BY <1>2, <1>3, Zenon
<1> QED BY <1>1, <1>4 DEF it, Asserts

(* fileChange reads the file.                                              *)
LEMMA ReadFileStep ==
    ASSUME IInv, NEW j \in Jobs, ReadFile(j)
    PROVE  After(j)
<1>1. PodTypes /\ EnvTypes /\ kind[j] = "fileChange" /\ pod[j] = "run"
  BY DEF IInv, ReadFile
<1>2. UNCHANGED <<kind, cm, took, base, envVars, faults>>
  BY DEF ReadFile, repVars
<1>3. base' \in Contents \cup {NoBase}
  BY <1>1, <1>2 DEF EnvTypes
<1>4. CASE PodDies(j)
  BY <1>1, <1>2, <1>3, <1>4, RunStep
<1>5. CASE ~PodDies(j)
  <2>1. /\ seen' = [seen EXCEPT ![j] = disk[NodeOf[j]]]
        /\ IF seen'[j] = Missing THEN Returns(j, <<Item(TRUE, 1)>>)
           ELSE pod' = [pod EXCEPT ![j] = "getBase"] /\ UNCHANGED <<tries, data>>
    BY <1>5 DEF ReadFile
  <2>2. disk[NodeOf[j]] \in Contents \cup {Missing}
    BY <1>1 DEF EnvTypes, Nodes
  <2>3. /\ seen' \in [Jobs -> Contents \cup {Missing}]
        /\ \A i \in Jobs \ {j} : seen'[i] = seen[i]
        /\ seen'[j] = disk[NodeOf[j]]
    BY <1>1, <2>1, <2>2 DEF PodTypes
  <2>4. CASE seen'[j] = Missing
    <3>1. Returns(j, <<Item(TRUE, 1)>>) /\ Sound(kind[j], <<Item(TRUE, 1)>>)
      BY <1>1, <2>1, <2>4, MissingItem
    <3>2. Told(j, <<Item(TRUE, 1)>>)'
      BY <2>4, MissingItem DEF Told, Truthful, Asserts
    <3> QED BY <1>1, <1>2, <1>3, <2>3, <3>1, <3>2, RunStep
  <2>5. CASE seen'[j] # Missing
    <3>1. pod' = [pod EXCEPT ![j] = "getBase"] /\ UNCHANGED <<tries, data>>
      BY <2>1, <2>5
    <3>2. seen'[j] \in Contents
      BY <2>2, <2>3, <2>5
    <3> QED BY <1>1, <1>2, <2>3, <3>1, <3>2, MoveStep
  <2> QED BY <2>4, <2>5
<1> QED BY <1>4, <1>5

(* fileChange gets the baseline.                                           *)
LEMMA GetBaseStep ==
    ASSUME IInv, NEW j \in Jobs, GetBase(j)
    PROVE  After(j)
<1>1. PodTypes /\ EnvTypes /\ pod[j] = "getBase" /\ kind[j] = "fileChange" /\ seen[j] \in Contents
  BY DEF IInv, JobInv, File, GetBase
<1>2. UNCHANGED <<kind, seen, cm, took, base, envVars>>
  BY DEF GetBase, repVars
<1>3. /\ base' \in Contents \cup {NoBase} /\ seen' \in [Jobs -> Contents \cup {Missing}]
      /\ seen'[j] \in Contents
  BY <1>1, <1>2 DEF EnvTypes, PodTypes
<1>4. CASE pod' = [pod EXCEPT ![j] = "createBase"] /\ UNCHANGED <<tries, data, faults>>
  BY <1>1, <1>2, <1>3, <1>4, MoveStep
<1>5. ASSUME NEW items \in fileChangeItems(base, seen[j]),
             base # NoBase, Returns(j, items), UNCHANGED faults
      PROVE  After(j)
  <2>1. Sound(kind[j], items) /\ Truthful(Asserts(items), seen[j], base)
    BY <1>1, <1>5, FileItem DEF EnvTypes
  <2>2. Told(j, items)'
    BY <1>2, <1>5, <2>1 DEF Told, Truthful, Asserts
  <2> QED BY <1>1, <1>2, <1>3, <1>5, <2>1, <2>2, RunStep
<1>6. ASSUME NEW items \in fileChangeItems(<<>>, seen[j]), Fault, Returns(j, items)
      PROVE  After(j)
  <2>1. Sound(kind[j], items)
    BY <1>1, FileItem
  <2>2. faults' # 0
    BY <1>1, <1>6, InspectionAssumption DEF Fault, EnvTypes
  <2> QED BY <1>1, <1>2, <1>3, <1>6, <2>1, <2>2, RunStep
<1> QED BY <1>4, <1>5, <1>6 DEF GetBase

(* fileChange creates the baseline, from the file it has read.             *)
LEMMA CreateBaseStep ==
    ASSUME IInv, NEW j \in Jobs, CreateBase(j)
    PROVE  After(j)
<1>1. PodTypes /\ EnvTypes /\ pod[j] = "createBase" /\ seen[j] \in Contents
  BY DEF IInv, JobInv, File, CreateBase
<1>2. UNCHANGED <<kind, cm, took, envVars>>
  BY DEF CreateBase, repVars
<1>3. CASE base = NoBase /\ base' = seen[j] /\ Returns(j, <<>>) /\ UNCHANGED <<seen, faults>>
  <2>1. Sound(kind[j], <<>>)
    BY SoundNone
  <2>2. seen'[j] = base' /\ base' # NoBase /\ seen'[j] # Missing
    BY <1>1, <1>3, InspectionAssumption
  <2>3. ~Asserts(<<>>) /\ Changed(base', base') = {}
    BY DEF Asserts, ToSet, Changed
  <2>5. Told(j, <<>>)'
    BY <2>2, <2>3 DEF Told, Truthful, Asserts
  <2>4. base' \in Contents \cup {NoBase} /\ seen' \in [Jobs -> Contents \cup {Missing}]
    BY <1>1, <1>3 DEF PodTypes
  <2> QED BY <1>1, <1>2, <1>3, <2>1, <2>4, <2>5, RunStep
<1>4. CASE base # NoBase /\ PodDies(j) /\ UNCHANGED <<base, faults>>
  <2>1. base' \in Contents \cup {NoBase}
    BY <1>1, <1>4 DEF EnvTypes
  <2> QED BY <1>1, <1>2, <1>4, <2>1, RunStep
<1>5. CASE base = NoBase /\ Fault /\ base' \in {NoBase, seen[j]} /\ PodDies(j)
  <2>1. base' \in Contents \cup {NoBase}
    BY <1>1, <1>5
  <2>2. faults' # 0
    BY <1>1, <1>5, InspectionAssumption DEF Fault, EnvTypes
  <2> QED BY <1>1, <1>2, <1>5, <2>1, <2>2, RunStep
<1> QED BY <1>3, <1>4, <1>5 DEF CreateBase

(* opa begins, or finds that its rules are gone.                           *)
LEMMA OpaBeginsStep ==
    ASSUME IInv, NEW j \in Jobs, OpaBegins(j)
    PROVE  After(j)
<1>1. PodTypes /\ EnvTypes /\ pod[j] = "run" /\ kind[j] = "opa"
  BY DEF IInv, OpaBegins
<1>2. UNCHANGED <<kind, seen, cm, took, base, envVars, faults>>
  BY DEF OpaBegins, repVars
<1>3. base' \in Contents \cup {NoBase} /\ seen' \in [Jobs -> Contents \cup {Missing}]
  BY <1>1, <1>2 DEF EnvTypes, PodTypes
<1>4. CASE pod' = [pod EXCEPT ![j] = "opa"] /\ UNCHANGED <<tries, data>>
  BY <1>1, <1>2, <1>3, <1>4, MoveStep
<1>5. CASE Returns(j, <<>>)
  <2>1. Sound(kind[j], <<>>)
    BY SoundNone
  <2> QED BY <1>1, <1>2, <1>3, <1>5, <2>1, RunStep
<1> QED BY <1>4, <1>5 DEF OpaBegins

(* opa ends with what its workers have found.                              *)
LEMMA OpaEndsStep ==
    ASSUME IInv, NEW j \in Jobs, OpaEnds(j)
    PROVE  After(j)
<1>1. PodTypes /\ EnvTypes /\ pod[j] = "opa" /\ kind[j] = "opa"
  BY DEF IInv, OneInv, OpaEnds
<1>2. UNCHANGED <<kind, cm, took, base, envVars, faults>>
  BY DEF OpaEnds, repVars
<1>3. base' \in Contents \cup {NoBase}
  BY <1>1, <1>2 DEF EnvTypes
<1>4. CASE PodDies(j)
  BY <1>1, <1>2, <1>3, <1>4, RunStep
<1>5. CASE ~PodDies(j)
  <2> DEFINE items == SetToSeq({[node |-> "", assert |-> TRUE, issues |-> found[r], resource |-> r] :
                                    r \in {x \in Resources : found[x] > 0}})
  <2>1. opc = "returned" /\ UNCHANGED seen /\ Returns(j, items)
    BY <1>5 DEF OpaEnds
  <2>2. Sound(kind[j], items)
    BY <1>1, <2>1, OpaItems DEF IInv, OpaInv
  <2> HIDE DEF items
  <2> QED BY <1>1, <1>2, <1>3, <2>1, <2>2, RunStep DEF PodTypes
<1> QED BY <1>4, <1>5

(* The result is stored, the pod dies of it, or both.                      *)
LEMMA StoreResultStep ==
    ASSUME IInv, NEW j \in Jobs, StoreResult(j)
    PROVE  After(j)
<1> DEFINE map(label) == <<[label |-> label, items |-> data[j]]>>
           stored(label) == [cm EXCEPT ![j] = map(label)]
<1>1. /\ PodTypes /\ EnvTypes /\ pod[j] = "store" /\ Tries(j) /\ Items(j) /\ File(j)
      /\ NodeOf[j] \in Labels /\ "" \in Labels
  BY DEF IInv, JobInv, StoreResult, Nodes, Labels
<1>0. faults \in Nat
  <2>1. faults \in 0..MaxFaults
    BY <1>1 DEF EnvTypes
  <2> QED BY <2>1, InspectionAssumption
<1>2. UNCHANGED <<kind, took, base, envVars>> /\ base' \in Contents \cup {NoBase}
  BY <1>1 DEF StoreResult, EnvTypes
<1>3. faults' = faults \/ Fault
  BY DEF StoreResult
<1>4. ASSUME NEW label \in Labels
      PROVE  /\ SoundMap(kind[j], map(label))
             /\ stored(label) = [i \in Jobs |-> stored(label)[i]]
             /\ stored(label)[j] = map(label) /\ map(label)[1].items = data[j]
             /\ \A i \in Jobs \ {j} : stored(label)[i] = cm[i]
  <2>1. /\ map(label) = <<map(label)[1]>> /\ map(label)[1].label = label
        /\ map(label)[1].items = data[j]
    OBVIOUS
  <2>2. SoundMap(kind[j], map(label))
    BY <1>1, <2>1 DEF SoundMap, Items
  <2>3. /\ stored(label) = [i \in Jobs |-> stored(label)[i]] /\ stored(label)[j] = map(label)
        /\ \A i \in Jobs \ {j} : stored(label)[i] = cm[i]
    BY <1>1 DEF PodTypes
  <2> QED BY <2>1, <2>2, <2>3
<1>5. \/ /\ pod' = [pod EXCEPT ![j] = "done"] /\ data' = [data EXCEPT ![j] = <<>>]
         /\ UNCHANGED <<tries, seen>> /\ \E label \in Labels : cm' = stored(label)
      \/ /\ PodDies(j) /\ cm' = cm
         /\ faults' = 0 => cm[j] # <<>>
      \/ PodDies(j) /\ faults' # 0 /\ \E label \in Labels : cm' = stored(label)
  <2>1. Fault => faults' # 0
    BY <1>0 DEF Fault
  <2> QED BY <1>1, <2>1 DEF StoreResult
<1> HIDE DEF map, stored
<1>6. /\ cm' = [i \in Jobs |-> cm'[i]] /\ SoundMap(kind[j], cm[j])'
      /\ \A i \in Jobs \ {j} : cm'[i] = cm[i]
  <2>1. CASE cm' = cm
    BY <1>1, <1>2, <2>1 DEF PodTypes, Items, SoundMap, Sound
  <2>2. ASSUME NEW label \in Labels, cm' = stored(label)
        PROVE  /\ cm' = [i \in Jobs |-> cm'[i]] /\ SoundMap(kind[j], cm[j])'
               /\ \A i \in Jobs \ {j} : cm'[i] = cm[i]
    <3>1. cm'[j] = map(label) /\ SoundMap(kind[j], map(label))
      BY <1>4, <2>2
    <3>2. SoundMap(kind[j], cm[j])'
      BY <1>2, <3>1 DEF SoundMap, Sound
    <3> QED BY <1>4, <2>2, <3>2
  <2> QED BY <1>5, <2>1, <2>2
<1>7. SoundMap(kind[j], took[j])'
  BY <1>1, <1>2 DEF Items, SoundMap, Sound
<1>8. faults' = 0 => faults = 0
  BY <1>0, <1>3 DEF Fault
<1>9. CASE /\ pod' = [pod EXCEPT ![j] = "done"] /\ data' = [data EXCEPT ![j] = <<>>]
           /\ UNCHANGED <<tries, seen>> /\ \E label \in Labels : cm' = stored(label)
  <2>1. /\ pod' \in [Jobs -> PodLabel] /\ data' = [i \in Jobs |-> data'[i]]
        /\ pod'[j] = "done" /\ data'[j] = <<>>
        /\ \A i \in Jobs \ {j} : pod'[i] = pod[i] /\ data'[i] = data[i]
    BY <1>1, <1>9 DEF PodTypes, PodLabel
  <2>2. PodTypes' /\ Tries(j)'
    BY <1>1, <1>2, <1>6, <1>9, <2>1 DEF PodTypes, Tries
  <2>3. Items(j)'
    BY <1>2, <1>6, <1>7, <2>1, SoundNone DEF Items, Sound
  <2>4. File(j)'
    <3>1. PICK label \in Labels : cm' = stored(label)
      BY <1>9
    <3>2. cm'[j] = map(label) /\ cm'[j][1].items = data[j]
      BY <1>4, <3>1
    <3>3. faults = 0 /\ kind[j] = "fileChange" => Told(j, data[j]) /\ took[j] = <<>>
      BY <1>1 DEF File
    <3>4. cm'[j][1].items = data[j] /\ seen'[j] = seen[j] /\ base' = base
      BY <1>2, <1>9, <3>2
    <3>5. faults = 0 /\ kind[j] = "fileChange" =>
            /\ seen'[j] # Missing => base' # NoBase
            /\ Truthful(Asserts(cm'[j][1].items), seen'[j], base')
      BY <3>3, <3>4 DEF Told
    <3>6. faults' = 0 /\ kind'[j] = "fileChange" =>
            pod'[j] = "done" /\ Told(j, cm[j][1].items)' /\ took'[j] = <<>>
      BY <1>2, <1>8, <2>1, <3>3, <3>5 DEF Told, Truthful, Asserts
    <3> QED BY <2>1, <3>6 DEF File
  <2> QED BY <1>2, <1>3, <1>6, <1>9, <2>1, <2>2, <2>3, <2>4 DEF After
<1>10. CASE PodDies(j) /\ (faults' = 0 => cm' = cm /\ cm[j] # <<>>)
  <2>1. /\ pod' \in [Jobs -> PodLabel] /\ tries' \in [Jobs -> 0..(BackLimit + 1)]
        /\ seen' \in [Jobs -> Contents \cup {Missing}]
        /\ data' = [i \in Jobs |-> data'[i]]
        /\ pod'[j] \in {"run", "failed"} /\ seen'[j] = Missing /\ data'[j] = <<>> /\ Tries(j)'
        /\ \A i \in Jobs \ {j} : /\ pod'[i] = pod[i] /\ tries'[i] = tries[i]
                                 /\ seen'[i] = seen[i] /\ data'[i] = data[i]
    BY <1>1, <1>10, DiesIs
  <2>2. PodTypes'
    BY <1>1, <1>2, <1>6, <2>1 DEF PodTypes
  <2>3. Items(j)'
    BY <1>2, <1>6, <1>7, <2>1, SoundNone DEF Items, Sound
  <2>4. File(j)'
    BY <1>1, <1>2, <1>8, <1>10, <2>1 DEF File
  <2> QED BY <1>2, <1>3, <1>6, <2>1, <2>2, <2>3, <2>4 DEF After
<1> QED BY <1>5, <1>9, <1>10

(* The manager merges a job.                                               *)
LEMMA MergeStep ==
    ASSUME IInv, NEW j \in Jobs, getInspectResultData(j)
    PROVE  After(j) /\ ReportInv'
<1>1. PodTypes /\ EnvTypes /\ Tries(j) /\ Items(j) /\ File(j) /\ ReportInv
  BY DEF IInv, JobInv
<1>2. /\ UNCHANGED <<kind, pod, tries, seen, data, base, envVars, faults>>
      /\ base' \in Contents \cup {NoBase}
  BY <1>1 DEF getInspectResultData, EnvTypes, podVars
<1>3. /\ took' = [took EXCEPT ![j] = cm[j]] /\ cm' = [cm EXCEPT ![j] = <<>>]
      /\ merged' = merged \cup {j}
  BY DEF getInspectResultData
<1>4. /\ took' = [i \in Jobs |-> took'[i]] /\ took'[j] = cm[j]
      /\ cm' = [i \in Jobs |-> cm'[i]] /\ cm'[j] = <<>>
      /\ \A i \in Jobs \ {j} : took'[i] = took[i] /\ cm'[i] = cm[i]
  BY <1>1, <1>3 DEF PodTypes
<1>5. PodTypes' /\ Tries(j)'
  BY <1>1, <1>2, <1>4 DEF PodTypes, Tries
<1>6. Items(j)'
  BY <1>1, <1>2, <1>4 DEF Items, Sound, SoundMap
<1>7. File(j)'
  <2>1. /\ pod[j] \in {"getBase", "createBase"} => kind[j] = "fileChange" /\ seen[j] \in Contents
        /\ faults = 0 /\ kind[j] = "fileChange" =>
             /\ pod[j] = "store" => Told(j, data[j])
             /\ cm[j] # <<>> => pod[j] = "done" /\ Told(j, cm[j][1].items)
    BY <1>1 DEF File
  <2>2. \A items : Told(j, items)' <=> Told(j, items)
    BY <1>2 DEF Told, Truthful, Asserts
  <2>3. faults' = 0 /\ kind'[j] = "fileChange" =>
          /\ pod'[j] = "store" => Told(j, data[j])'
          /\ took'[j] # <<>> => pod'[j] = "done" /\ Told(j, took[j][1].items)'
    BY <1>2, <1>4, <2>1, <2>2
  <2> QED BY <1>2, <1>4, <2>1, <2>3 DEF File
<1>8. ReportInv'
  <2>0. merged' \subseteq Jobs
    BY <1>1, <1>3 DEF ReportInv
  <2>1. CASE cm[j] = <<>>
    <3>1. report' = report
      BY <2>1 DEF getInspectResultData
    <3> QED BY <1>1, <2>0, <3>1 DEF ReportInv, Sound
  <2>2. CASE cm[j] # <<>>
    <3> DEFINE k == kind[j]
               new == GetResult(k, report[k], cm[j][1].label, cm[j][1].items)
    <3>1. report' = [report EXCEPT ![k] = new]
      BY <2>2 DEF getInspectResultData
    <3>2. k \in Kinds /\ Sound(k, report[k])
      BY <1>1 DEF EnvTypes, ReportInv
    <3>3. cm[j][1].label \in Labels /\ Sound(k, cm[j][1].items)
      BY <1>1, <2>2 DEF Items, SoundMap
    <3>4. Sound(k, new)
      BY <3>2, <3>3, Merging
    <3> HIDE DEF new, k
    <3>5. report' = [i \in Kinds |-> IF i = k THEN new ELSE report[i]]
      BY <1>1, <3>1, <3>2 DEF ReportInv
    <3>6. report' = [i \in Kinds |-> report'[i]] /\ \A i \in Kinds : Sound(i, report'[i])
      BY <1>1, <3>4, <3>5 DEF ReportInv
    <3> QED BY <2>0, <3>6 DEF ReportInv, Sound
  <2> QED BY <2>1, <2>2
<1> QED BY <1>2, <1>4, <1>5, <1>6, <1>7, <1>8 DEF After

(* A step of OpaChecker changes nothing of the job.                        *)
LEMMA OpaWorksStep ==
    ASSUME IInv, NEW j \in Jobs, OpaWorks(j)
    PROVE  After(j) /\ UNCHANGED <<pod, report>>
<1>1. PodTypes /\ EnvTypes /\ Tries(j) /\ Items(j) /\ File(j)
  BY DEF IInv, JobInv
<1>2. UNCHANGED <<kind, pod, tries, seen, data, cm, took, report, base, envVars, faults>>
  BY DEF OpaWorks, podVars, repVars
<1>3. PodTypes' /\ Tries(j)' /\ base' \in Contents \cup {NoBase}
  BY <1>1, <1>2 DEF PodTypes, Tries, EnvTypes
<1>4. Items(j)'
  BY <1>1, <1>2 DEF Items, Sound, SoundMap
<1>5. File(j)'
  BY <1>1, <1>2 DEF File, Told, Truthful, Asserts
<1> QED BY <1>2, <1>3, <1>4, <1>5 DEF After

(* Every step of a job, and what it does to the report.                    *)
LEMMA JobStepIs ==
    ASSUME IInv, NEW j \in Jobs, JobStep(j) \/ Hangs(j) \/ GiveUp(j)
    PROVE  After(j) /\ ReportInv'
<1>1. CASE getInspectResultData(j)
  BY <1>1, MergeStep
<1>2. CASE ~getInspectResultData(j)
  <2>1. After(j)
    BY <1>2, JobInspectStep, HangsStep, ReadFileStep, GetBaseStep, CreateBaseStep, OpaBeginsStep,
       OpaWorksStep, OpaEndsStep, StoreResultStep DEF JobStep, JobEnds, GiveUp
  <2>2. report' = report /\ merged' = merged
    BY <1>2 DEF JobStep, jobInspect, Hangs, ReadFile, GetBase, CreateBase, OpaBegins, OpaWorks,
                OpaEnds, StoreResult, JobEnds, GiveUp, repVars
  <2> QED BY <2>1, <2>2 DEF IInv, ReportInv, Sound
<1> QED BY <1>1, <1>2

(* What a job leaves behind leaves the other jobs alone: none of them can  *)
(* have compared with a baseline that is only created now.                 *)
LEMMA AfterStep ==
    ASSUME IInv, NEW j \in Jobs, After(j)
    PROVE  PodTypes' /\ EnvTypes' /\ JobInv'
<1>1. EnvTypes /\ faults \in Nat /\ MaxFaults \in Nat
  BY InspectionAssumption DEF IInv, EnvTypes
<1>2. faults' \in 0..MaxFaults /\ (faults' = 0 => faults = 0)
  <2>1. CASE faults' = faults
    BY <1>1, <2>1 DEF EnvTypes
  <2>2. CASE Fault
    BY <1>1, <2>2 DEF Fault
  <2> QED BY <2>1, <2>2 DEF After
<1>3. EnvTypes'
  BY <1>1, <1>2 DEF After, EnvTypes, envVars
<1>4. ASSUME NEW i \in Jobs \ {j} PROVE Tries(i)' /\ Items(i)' /\ File(i)'
  <2>1. Tries(i) /\ Items(i) /\ File(i)
    BY DEF IInv, JobInv
  <2>2. /\ pod'[i] = pod[i] /\ tries'[i] = tries[i] /\ seen'[i] = seen[i] /\ kind' = kind
        /\ data'[i] = data[i] /\ cm'[i] = cm[i] /\ took'[i] = took[i]
    BY DEF After
  <2>3. Tries(i)' /\ Items(i)'
    BY <2>1, <2>2 DEF Tries, Items, Sound, SoundMap
  <2>4. ASSUME faults' = 0, NEW items, Told(i, items) PROVE Told(i, items)'
    <3>1. CASE base' = base
      BY <2>2, <2>4, <3>1 DEF Told, Truthful, Asserts
    <3>2. CASE base = NoBase /\ base' \in Contents
      <4>1. seen[i] = Missing
        BY <2>4, <3>2 DEF Told
      <4> QED BY <2>2, <2>4, <4>1 DEF Told, Truthful, Asserts
    <3> QED BY <2>4, <3>1, <3>2 DEF After
  <2>5. File(i)'
    <3>1. pod'[i] \in {"getBase", "createBase"} => kind'[i] = "fileChange" /\ seen'[i] \in Contents
      BY <2>1, <2>2 DEF File
    <3>2. ASSUME faults' = 0, kind'[i] = "fileChange"
          PROVE  /\ pod'[i] = "store" => Told(i, data[i])'
                 /\ cm'[i] # <<>> => pod'[i] = "done" /\ Told(i, cm[i][1].items)'
                 /\ took'[i] # <<>> => pod'[i] = "done" /\ Told(i, took[i][1].items)'
      <4>1. /\ pod[i] = "store" => Told(i, data[i])
            /\ cm[i] # <<>> => pod[i] = "done" /\ Told(i, cm[i][1].items)
            /\ took[i] # <<>> => pod[i] = "done" /\ Told(i, took[i][1].items)
        BY <1>2, <2>1, <2>2, <3>2 DEF File
      <4> DEFINE T(items) == /\ seen[i] # Missing => base # NoBase
                             /\ Truthful(Asserts(items), seen[i], base)
                 U(items) == /\ seen'[i] # Missing => base' # NoBase
                             /\ Truthful(Asserts(items), seen'[i], base')
      <4>2. \A items : T(items) => U(items)
        BY <2>4, <3>2 DEF Told, Truthful, Asserts
      <4>3. /\ pod[i] = "store" => T(data[i])
            /\ cm[i] # <<>> => pod[i] = "done" /\ T(cm[i][1].items)
            /\ took[i] # <<>> => pod[i] = "done" /\ T(took[i][1].items)
        BY <4>1 DEF Told
      <4> HIDE DEF T, U
      <4>4. /\ pod'[i] = "store" => U(data'[i])
            /\ cm'[i] # <<>> => pod'[i] = "done" /\ U(cm'[i][1].items)
            /\ took'[i] # <<>> => pod'[i] = "done" /\ U(took'[i][1].items)
        BY <2>2, <4>2, <4>3
      <4> QED BY <4>4 DEF U, Told, Truthful, Asserts
    <3> QED BY <3>1, <3>2 DEF File
  <2> QED BY <2>3, <2>5
<1> QED BY <1>3, <1>4 DEF After, JobInv

-----------------------------------------------------------------------------
(* The job of OPA and its workers                                          *)

(* A step of OpaChecker, or none.                                          *)
OpaMay == \/ opc \in {"off", "returned", "failed"} /\ OpaStart
          \/ OpaStep
          \/ UNCHANGED opaVars

(* A job that is not that of OPA does not touch the workers.               *)
LEMMA OtherJobs ==
    ASSUME IInv, NEW j \in Jobs,
           \/ jobInspect(j) \/ Hangs(j) \/ ReadFile(j) \/ GetBase(j) \/ CreateBase(j)
           \/ StoreResult(j) \/ JobEnds(j) \/ GiveUp(j)
    PROVE  UNCHANGED opaVars /\ OneInv'
<1>1. PodTypes /\ After(j) /\ OneInv
  BY JobStepIs DEF IInv, JobStep
<1>2. UNCHANGED opaVars
  BY DEF jobInspect, Hangs, ReadFile, GetBase, CreateBase, StoreResult, JobEnds, GiveUp,
         getInspectResultData
<1>3. pod' = pod \/ (pod[j] # "opa" /\ \E l \in PodLabel \ {"opa"} : pod' = [pod EXCEPT ![j] = l])
  <2> DEFINE Moves == pod[j] # "opa" /\ \E l \in PodLabel \ {"opa"} : pod' = [pod EXCEPT ![j] = l]
  <2> SUFFICES pod' = pod \/ Moves
    OBVIOUS
  <2>1. \A l \in PodLabel \ {"opa"} : pod[j] # "opa" /\ pod' = [pod EXCEPT ![j] = l] => Moves
    OBVIOUS
  <2>2. pod[j] # "opa" /\ PodDies(j) => Moves
    BY <2>1 DEF PodDies, PodLabel
  <2>3. \A items : pod[j] # "opa" /\ Returns(j, items) => Moves
    BY <2>1 DEF Returns, PodLabel
  <2>4. \A l \in {"getBase", "createBase", "hung", "done"} :
           pod[j] # "opa" /\ pod' = [pod EXCEPT ![j] = l] => Moves
    BY <2>1 DEF PodLabel
  <2> HIDE DEF Moves
  <2>5. CASE jobInspect(j)
    BY <2>2, <2>3, <2>5 DEF jobInspect
  <2>6. CASE Hangs(j)
    BY <2>4, <2>6 DEF Hangs
  <2>7. CASE ReadFile(j)
    BY <2>2, <2>3, <2>4, <2>7 DEF ReadFile
  <2>8. CASE GetBase(j)
    BY <2>3, <2>4, <2>8 DEF GetBase
  <2>9. CASE CreateBase(j)
    BY <2>2, <2>3, <2>9 DEF CreateBase
  <2>10. CASE StoreResult(j)
    BY <2>2, <2>4, <2>10 DEF StoreResult
  <2>11. CASE JobEnds(j) \/ GiveUp(j)
    BY <2>11 DEF JobEnds, GiveUp, getInspectResultData, podVars
  <2> QED BY <2>5, <2>6, <2>7, <2>8, <2>9, <2>10, <2>11
<1>4. \A i \in Jobs : (pod'[i] = "opa") <=> (pod[i] = "opa")
  BY <1>1, <1>3 DEF PodTypes
<1>5. OneInv'
  BY <1>1, <1>2, <1>4 DEF OneInv, After, opaVars
<1> QED BY <1>2, <1>5

(* The job of OPA runs its workers, one inspection after the other.        *)
LEMMA OpaJob ==
    ASSUME IInv, NEW j \in Jobs, OpaBegins(j) \/ OpaWorks(j) \/ OpaEnds(j)
    PROVE  OpaMay /\ OneInv'
<1>1. PodTypes /\ EnvTypes /\ After(j) /\ OneInv /\ OpaTypeOK
  BY JobStepIs DEF IInv, JobStep, OpaInv
<1>2. CASE OpaBegins(j)
  <2>1. pod[j] = "run" /\ kind[j] = "opa"
    BY <1>2 DEF OpaBegins
  <2>2. \A i \in Jobs : pod[i] # "opa"
    BY <1>1, <2>1, InspectionAssumption DEF OneInv, NodeKinds
  <2>3. opc \in {"off", "returned", "failed"}
    BY <1>1, <2>2 DEF OneInv, OpaTypeOK
  <2>4. CASE OpaStart /\ pod' = [pod EXCEPT ![j] = "opa"]
    <3>1. pod'[j] = "opa" /\ \A i \in Jobs \ {j} : pod'[i] # "opa"
      BY <1>1, <2>2, <2>4 DEF PodTypes
    <3>2. OneInv'
      BY <1>1, <2>1, <3>1 DEF OneInv, After
    <3> QED BY <2>3, <2>4, <3>2 DEF OpaMay
  <2>5. CASE UNCHANGED opaVars /\ Returns(j, <<>>)
    <3>1. \A i \in Jobs : pod'[i] # "opa"
      BY <1>1, <2>2, <2>5 DEF PodTypes, Returns
    <3>2. OneInv'
      BY <1>1, <2>3, <2>5, <3>1 DEF OneInv, After, opaVars
    <3> QED BY <2>5, <3>2 DEF OpaMay
  <2> QED BY <1>2, <2>4, <2>5 DEF OpaBegins
<1>3. CASE OpaWorks(j)
  <2>1. OpaStep /\ pod' = pod /\ kind' = kind /\ pod[j] = "opa"
    BY <1>3 DEF OpaWorks, podVars
  <2>2. OneInv'
    BY <1>1, <2>1 DEF OneInv
  <2> QED BY <2>1, <2>2 DEF OpaMay
<1>4. CASE OpaEnds(j)
  <2>1. UNCHANGED opaVars /\ opc \in {"failed", "returned"}
    BY <1>4 DEF OpaEnds
  <2>2. pod'[j] # "opa"
    BY <1>1, <1>4 DEF OpaEnds, PodDies, Returns, PodTypes
  <2>3. OneInv'
    BY <1>1, <2>1, <2>2 DEF OneInv, After, opaVars
  <2> QED BY <2>1, <2>3 DEF OpaMay
<1> QED BY <1>2, <1>3, <1>4

-----------------------------------------------------------------------------
(* The inspections                                                         *)

(* The next inspection finds no result left over.                          *)
LEMMA NextInspectionStep ==
    ASSUME IInv, NextInspection
    PROVE  IInv' /\ UNCHANGED opaVars
<1>1. /\ PodTypes /\ EnvTypes /\ OneInv /\ JobInv /\ OpaInv
      /\ \A j \in Jobs : pod[j] # "opa"
  BY DEF IInv, NextInspection, Ended
<1>2. /\ pod' = [j \in Jobs |-> "run"] /\ tries' = [j \in Jobs |-> 0]
      /\ seen' = [j \in Jobs |-> Missing] /\ data' = [j \in Jobs |-> <<>>]
      /\ cm' = [j \in Jobs |-> <<>>] /\ took' = [j \in Jobs |-> <<>>]
      /\ merged' = {} /\ report' = NoReport /\ temp' = TRUE
      /\ round' = round + 1 /\ round < MaxRounds
      /\ UNCHANGED <<kind, base, disk, edits, faults, opaVars>>
  BY DEF NextInspection
<1>3. PodTypes'
  BY <1>1, <1>2, InspectionAssumption DEF PodTypes, PodLabel
<1>4. EnvTypes'
  BY <1>1, <1>2, InspectionAssumption DEF EnvTypes
<1>5. OpaInv'
  BY <1>1, <1>2, OpaInvStep
<1>6. OneInv'
  BY <1>1, <1>2 DEF OneInv, opaVars
<1>8. JobInv'
  <2> SUFFICES ASSUME NEW j \in Jobs PROVE Tries(j)' /\ Items(j)' /\ File(j)'
    BY DEF JobInv
  <2>1. Tries(j)'
    BY <1>2, InspectionAssumption DEF Tries
  <2>2. Items(j)'
    BY <1>1, <1>2, SoundNone DEF JobInv, Items, SoundMap, Sound
  <2>3. File(j)'
    BY <1>1, <1>2 DEF JobInv, File
  <2> QED BY <2>1, <2>2, <2>3
<1>9. ReportInv'
  BY <1>2, SoundNone DEF ReportInv, NoReport, Sound
<1> QED BY <1>2, <1>3, <1>4, <1>5, <1>6, <1>8, <1>9 DEF IInv

(* A file changes, or the rules go.                                        *)
LEMMA EnvStep ==
    ASSUME IInv, RulesGo \/ \E n \in Nodes : EditFile(n)
    PROVE  IInv' /\ UNCHANGED opaVars
<1>1. /\ PodTypes /\ EnvTypes /\ OneInv /\ JobInv /\ OpaInv /\ ReportInv
      /\ faults \in Nat /\ edits \in Nat
  BY InspectionAssumption DEF IInv, EnvTypes
<1>2. UNCHANGED <<kind, podVars, repVars, base, round, opaVars>>
  BY DEF RulesGo, EditFile
<1>3. PodTypes'
  BY <1>1, <1>2 DEF PodTypes, podVars, repVars
<1>4. EnvTypes'
  <2>1. CASE RulesGo
    <3>1. faults' \in 0..MaxFaults
      BY <1>1, <2>1, InspectionAssumption DEF RulesGo, Fault
    <3>2. temp' \in BOOLEAN /\ UNCHANGED <<edits, disk, round, kind, base>>
      BY <1>1, <2>1 DEF RulesGo, EnvTypes
    <3> QED BY <1>1, <3>1, <3>2 DEF EnvTypes
  <2>2. ASSUME NEW n \in Nodes, EditFile(n) PROVE EnvTypes'
    BY <1>1, <2>2, InspectionAssumption DEF EditFile, EnvTypes
  <2> QED BY <2>1, <2>2
<1>5. faults' = 0 => faults = 0
  BY <1>1 DEF RulesGo, EditFile, Fault
<1>6. OpaInv'
  BY <1>1, <1>2, OpaInvStep
<1>7. OneInv'
  BY <1>1, <1>2 DEF OneInv, opaVars, podVars
<1>8. JobInv'
  <2> SUFFICES ASSUME NEW j \in Jobs PROVE Tries(j)' /\ Items(j)' /\ File(j)'
    BY DEF JobInv
  <2>1. Tries(j) /\ Items(j) /\ File(j)
    BY <1>1 DEF JobInv
  <2>2. Tries(j)' /\ Items(j)'
    BY <1>2, <2>1 DEF Tries, Items, Sound, SoundMap, podVars, repVars
  <2>3. File(j)'
    BY <1>2, <1>5, <2>1 DEF File, Told, Truthful, Asserts, podVars, repVars
  <2> QED BY <2>2, <2>3
<1>9. ReportInv'
  BY <1>1, <1>2 DEF ReportInv, Sound, repVars
<1> QED BY <1>2, <1>3, <1>4, <1>6, <1>7, <1>8, <1>9 DEF IInv

(* Every step of an inspection keeps the invariant, and is one of          *)
(* OpaChecker or leaves its variables alone.                               *)
LEMMA InspectionStep ==
    ASSUME IInv, [Next]_vars
    PROVE  IInv' /\ OpaMay
<1>1. ASSUME NEW j \in Jobs, JobStep(j) \/ Hangs(j) \/ GiveUp(j) PROVE IInv' /\ OpaMay
  <2>1. PodTypes' /\ EnvTypes' /\ JobInv' /\ ReportInv'
    BY <1>1, JobStepIs, AfterStep
  <2>2. OneInv' /\ OpaMay
    BY <1>1, OtherJobs, OpaJob DEF JobStep, OpaMay
  <2>3. OpaInv'
    BY <2>2, OpaInvStep DEF OpaMay, IInv
  <2> QED BY <2>1, <2>2, <2>3 DEF IInv
<1>2. CASE NextInspection
  BY <1>2, NextInspectionStep DEF OpaMay
<1>3. CASE RulesGo \/ \E n \in Nodes : EditFile(n)
  BY <1>3, EnvStep DEF OpaMay
<1>4. CASE UNCHANGED vars
  <2>1. PodTypes' /\ EnvTypes' /\ ReportInv' /\ OneInv'
    BY <1>4 DEF vars, podVars, repVars, envVars, opaVars, IInv, PodTypes, EnvTypes, ReportInv, OneInv,
                Sound
  <2>2. OpaInv'
    BY <1>4, OpaInvStep DEF vars, IInv
  <2>3. JobInv'
    BY <1>4 DEF vars, podVars, repVars, IInv, JobInv, Tries, Items, File, Told, Truthful, Asserts,
                Sound, SoundMap
  <2> QED BY <1>4, <2>1, <2>2, <2>3 DEF IInv, OpaMay, vars
<1> QED BY <1>1, <1>2, <1>3, <1>4 DEF Next

-----------------------------------------------------------------------------
(* The theorems                                                            *)

(* The invariant that the others follow from.                              *)
THEOREM InspectionInvariant == Spec => []IInv
<1>1. Init => IInv
  <2> SUFFICES ASSUME Init PROVE IInv
    OBVIOUS
  <2>1. PodTypes
    BY InspectionAssumption DEF Init, PodTypes, PodLabel
  <2>2. EnvTypes
    <3>1. kind \in [Jobs -> Kinds] /\ disk \in [Nodes -> Contents \cup {Missing}]
      BY InspectionAssumption DEF Init, Nodes
    <3>2. /\ round \in 1..MaxRounds /\ edits \in 0..MaxEdits /\ faults \in 0..MaxFaults
          /\ temp \in BOOLEAN /\ base \in Contents \cup {NoBase}
      BY InspectionAssumption DEF Init
    <3> QED BY <3>1, <3>2 DEF EnvTypes
  <2>3. OpaInv
    BY OpaAssumption DEF Init, OpaInit, Fresh, OpaInv, OpaTypeOK
  <2>4. OneInv
    BY DEF Init, OneInv, OpaInit
  <2>6. JobInv
    BY SoundNone, InspectionAssumption DEF Init, JobInv, Tries, Items, File, SoundMap
  <2>7. ReportInv
    BY SoundNone DEF Init, ReportInv, NoReport
  <2> QED BY <2>1, <2>2, <2>3, <2>4, <2>6, <2>7 DEF IInv
<1>2. IInv /\ [Next]_vars => IInv'
  BY InspectionStep
<1> QED BY <1>1, <1>2, PTL DEF Spec

(* Every variable keeps its type: no pod is retried more than BackLimit    *)
(* times, and no item of a report lists more issues than the filters may.  *)
THEOREM InspectionTypeCorrect == Spec => []TypeOK
<1>1. IInv => TypeOK
  <2> SUFFICES ASSUME IInv PROVE TypeOK
    OBVIOUS
  <2>1. \A j \in Jobs : /\ \A it \in ToSet(data[j]) : IsItem(it)
                        /\ Len(cm[j]) <= 1 /\ Len(took[j]) <= 1
    <3> SUFFICES ASSUME NEW j \in Jobs
                 PROVE  /\ \A it \in ToSet(data[j]) : IsItem(it)
                        /\ Len(cm[j]) <= 1 /\ Len(took[j]) <= 1
      OBVIOUS
    <3>1. Sound(kind[j], data[j]) /\ SoundMap(kind[j], cm[j]) /\ SoundMap(kind[j], took[j])
      BY DEF IInv, JobInv, Items
    <3>2. \A map : SoundMap(kind[j], map) => Len(map) <= 1
      <4> SUFFICES ASSUME NEW map, SoundMap(kind[j], map) PROVE Len(map) <= 1
        OBVIOUS
      <4>1. CASE map = <<>>
        BY <4>1
      <4>2. ASSUME NEW x, map = <<x>> PROVE Len(map) <= 1
        <5>1. Len(<<x>>) = 1
          OBVIOUS
        <5> QED BY <4>2, <5>1
      <4> QED BY <4>1, <4>2 DEF SoundMap
    <3> QED BY <3>1, <3>2, SoundItems
  <2>2. \A k \in Kinds : \A it \in ToSet(report[k]) : IsItem(it)
    BY SoundItems DEF IInv, ReportInv
  <2> QED BY <2>1, <2>2 DEF TypeOK, IInv, PodTypes, EnvTypes, OpaInv, ReportInv
<1> QED BY <1>1, InspectionInvariant, PTL

(* The job of OPA, its retries and its next inspections included, runs the *)
(* workers as OpaChecker describes them, and no other job interferes.      *)
THEOREM InspectionRunsOpa == Spec => OpaSpec
<1>1. Init => OpaInit
  BY DEF Init
<1>2. IInv /\ [Next]_vars
        => [(opc \in {"off", "returned", "failed"} /\ OpaStart) \/ OpaStep]_opaVars
  BY InspectionStep DEF OpaMay
<1> QED BY <1>1, <1>2, InspectionInvariant, PTL DEF Spec, OpaSpec

(* VailOpaRulesResult in the job: what it returns has every listed         *)
(* resource that is denied, once, and nothing else.                        *)
THEOREM InspectionOpaFindsAll == Spec => []OpaFindsAll
  BY InspectionRunsOpa, OpaCheckerFindsAll, PTL

(* fileChange: as long as no call fails, what a job says of its file is    *)
(* true by the one baseline that all of them share, from whichever pod it  *)
(* is, as far as the scan of their difference can tell: a change is        *)
(* asserted unless a line of 64 KiB hides it, and none is made up of a     *)
(* file without colours of its own.                                        *)
THEOREM InspectionFileChangesTold == Spec => []FileChangesTold
<1>1. IInv => FileChangesTold
  BY DEF IInv, JobInv, File, Told, Asserts, FileChangesTold
<1> QED BY <1>1, InspectionInvariant, PTL

-----------------------------------------------------------------------------
(* Counting                                                                *)

(* What there is in D of each element of J.                                *)
Pile(J, D) == UNION {{i} \X D[i] : i \in J}

(* A pair of a pile.                                                       *)
LEMMA PileIs ==
    ASSUME NEW J, NEW D
    PROVE  \A p : p \in Pile(J, D) <=> \E i \in J : \E x \in D[i] : p = <<i, x>>
<1> SUFFICES ASSUME NEW p
             PROVE  p \in Pile(J, D) <=> \E i \in J : \E x \in D[i] : p = <<i, x>>
  OBVIOUS
<1>1. ASSUME NEW i \in J PROVE p \in {i} \X D[i] <=> \E x \in D[i] : p = <<i, x>>
  OBVIOUS
<1>2. p \in Pile(J, D) <=> \E i \in J : p \in {i} \X D[i]
  BY DEF Pile
<1> QED BY <1>1, <1>2

(* A column of a table is as long as its rows are many.                    *)
LEMMA Column ==
    ASSUME NEW x, NEW S, IsFiniteSet(S)
    PROVE  /\ IsFiniteSet({x} \X S) /\ Cardinality({x} \X S) = Cardinality(S)
           /\ IsFiniteSet(S \X {x}) /\ Cardinality(S \X {x}) = Cardinality(S)
<1> DEFINE f == [y \in S |-> <<x, y>>]
           g == [y \in S |-> <<y, x>>]
<1>1. f \in Bijection(S, {x} \X S) /\ g \in Bijection(S, S \X {x})
  <2>1. f \in [S -> {x} \X S] /\ g \in [S -> S \X {x}]
    OBVIOUS
  <2>2. /\ \A a, b \in S : (f[a] = f[b] => a = b) /\ (g[a] = g[b] => a = b)
        /\ \A t \in {x} \X S : \E y \in S : f[y] = t
        /\ \A t \in S \X {x} : \E y \in S : g[y] = t
    OBVIOUS
  <2> HIDE DEF f, g
  <2> QED BY <2>1, <2>2 DEF Bijection, Injection, Surjection, IsInjective
<1>2. ExistsBijection(S, {x} \X S) /\ ExistsBijection(S, S \X {x})
  BY <1>1 DEF ExistsBijection
<1> QED BY <1>2, FS_Bijection

(* A pile that grows by what there is of one element.                      *)
Grows(J, j, D, E) == j \in J /\ D[j] = {} /\ \A i \in J \ {j} : E[i] = D[i]

LEMMA PileAdd ==
    ASSUME NEW J, NEW j, NEW D, NEW E, Grows(J, j, D, E),
           IsFiniteSet(Pile(J, D)), IsFiniteSet(E[j])
    PROVE  /\ IsFiniteSet(Pile(J, E))
           /\ Cardinality(Pile(J, E)) = Cardinality(Pile(J, D)) + Cardinality(E[j])
<1>0. j \in J /\ D[j] = {} /\ \A i \in J \ {j} : E[i] = D[i]
  BY DEF Grows
<1> DEFINE A == Pile(J, D)
           B == {j} \X E[j]
<1>1. Pile(J, E) = A \cup B
  <2>1. \A p : p \in B <=> \E x \in E[j] : p = <<j, x>>
    OBVIOUS
  <2>2. ASSUME NEW p PROVE p \in Pile(J, E) <=> p \in A \/ p \in B
    <3>1. p \in Pile(J, E) <=> \E i \in J : \E x \in E[i] : p = <<i, x>>
      BY PileIs
    <3>2. p \in A <=> \E i \in J : \E x \in D[i] : p = <<i, x>>
      BY PileIs
    <3> HIDE DEF A, B
    <3> QED BY <1>0, <2>1, <3>1, <3>2
  <2> QED BY <2>2
<1>2. A \cap B = {}
  <2> SUFFICES ASSUME NEW p, p \in A, p \in B PROVE FALSE
    OBVIOUS
  <2>1. PICK i \in J : \E x \in D[i] : p = <<i, x>>
    BY PileIs
  <2>2. i = j
    BY <2>1
  <2> QED BY <1>0, <2>1, <2>2
<1>3. IsFiniteSet(B) /\ Cardinality(B) = Cardinality(E[j])
  BY Column
<1> HIDE DEF A, B
<1>4. /\ IsFiniteSet(A \cup B)
      /\ Cardinality(A \cup B) = Cardinality(A) + Cardinality(B) - Cardinality(A \cap B)
  BY <1>3, FS_Union DEF A
<1>5. Cardinality(A \cap B) = 0
  BY <1>2, FS_EmptySet
<1>6. Cardinality(A) \in Nat
  BY FS_CardinalityType DEF A
<1>7. Cardinality(B) \in Nat
  BY <1>3, FS_CardinalityType
<1>8. Cardinality(A \cup B) = Cardinality(A) + Cardinality(B)
  BY <1>4, <1>5, <1>6, <1>7
<1> QED BY <1>1, <1>3, <1>4, <1>8 DEF A

(* The elements of two lists, one after the other.                         *)
LEMMA ConcatSets ==
    ASSUME NEW T, NEW s \in Seq(T), NEW t \in Seq(T)
    PROVE  ToSet(s \o t) = ToSet(s) \cup ToSet(t)
<1> DEFINE m == Len(s)
           n == Len(t)
           u == s \o t
<1>1. /\ m \in Nat /\ n \in Nat /\ DOMAIN s = 1..m /\ DOMAIN t = 1..n /\ DOMAIN u = 1..(m + n)
  BY ConcatProperties, LenProperties
<1>2. \A i \in 1..(m + n) : u[i] = IF i <= m THEN s[i] ELSE t[i - m]
  BY ConcatProperties
<1> HIDE DEF m, n, u
<1>3. \A i \in 1..m : i \in 1..(m + n) /\ u[i] = s[i]
  BY <1>1, <1>2
<1>4. \A i \in 1..n : i + m \in 1..(m + n) /\ u[i + m] = t[i]
  <2> SUFFICES ASSUME NEW i \in 1..n PROVE i + m \in 1..(m + n) /\ u[i + m] = t[i]
    OBVIOUS
  <2>1. i + m \in 1..(m + n) /\ ~(i + m <= m) /\ (i + m) - m = i
    BY <1>1
  <2> QED BY <1>2, <2>1
<1>5. \A i \in 1..(m + n) : (i \in 1..m /\ u[i] = s[i]) \/ (i - m \in 1..n /\ u[i] = t[i - m])
  BY <1>1, <1>2
<1>6. ToSet(s) \subseteq ToSet(u) /\ ToSet(t) \subseteq ToSet(u)
  <2>1. ToSet(s) \subseteq ToSet(u)
    BY <1>1, <1>3 DEF ToSet
  <2>2. ToSet(t) \subseteq ToSet(u)
    BY <1>1, <1>4 DEF ToSet
  <2> QED BY <2>1, <2>2
<1>7. ToSet(u) \subseteq ToSet(s) \cup ToSet(t)
  <2> SUFFICES ASSUME NEW i \in 1..(m + n) PROVE u[i] \in ToSet(s) \cup ToSet(t)
    BY <1>1 DEF ToSet
  <2>1. CASE i \in 1..m /\ u[i] = s[i]
    BY <1>1, <2>1 DEF ToSet
  <2>2. CASE i - m \in 1..n /\ u[i] = t[i - m]
    BY <1>1, <2>2 DEF ToSet
  <2> QED BY <1>5, <2>1, <2>2
<1> QED BY <1>6, <1>7 DEF u

(* The numbers up to n are n.                                              *)
LEMMA UpTo ==
    ASSUME NEW n \in Nat
    PROVE  IsFiniteSet(1..n) /\ Cardinality(1..n) = n
  BY FS_Interval

-----------------------------------------------------------------------------
(* The report is complete                                                  *)

(* The inductive invariant: of a kind the report has all items of the jobs *)
(* that are merged, and none of the others.                                *)
CompleteInv ==
    /\ \A j \in Jobs : took[j] # <<>> => j \in merged
    /\ \A k \in Kinds :
         /\ IsFiniteSet(AllOf(k)) /\ Len(report[k]) = Cardinality(AllOf(k))
         /\ \A j \in Jobs : kind[j] = k => ToSet(ItemsOf(j)) \subseteq ToSet(report[k])

(* The jobs of a kind, and the places of their items.                      *)
JobsOf(k) == {j \in Jobs : kind[j] = k}
Filled == [j \in Jobs |-> DOMAIN ItemsOf(j)]

LEMMA AllOfIs == \A k : AllOf(k) = Pile(JobsOf(k), Filled)
  BY DEF AllOf, Pile, JobsOf, Filled

(* A job that is merged adds its items to those of its kind.               *)
LEMMA MergeCounts ==
    ASSUME IInv, CompleteInv, NEW j \in Jobs, getInspectResultData(j), cm[j] # <<>>
    PROVE  CompleteInv'
<1>0. PICK k \in Kinds : k = kind[j]
  BY DEF IInv, EnvTypes
<1> DEFINE label == cm[j][1].label
           items == cm[j][1].items
           mine == IF k \in NodeKinds THEN Tagged(items, label) ELSE items
           new == GetResult(k, report[k], label, items)
<1>1. /\ PodTypes /\ EnvTypes /\ ReportInv /\ Items(j) /\ OneInv
      /\ kind' = kind /\ j \notin merged /\ took[j] = <<>>
  BY DEF IInv, JobInv, EnvTypes, getInspectResultData, CompleteInv
<1>2. /\ \A i \in Jobs \ {j} : took'[i] = took[i]
      /\ took'[j] = cm[j] /\ merged' = merged \cup {j}
  BY <1>1 DEF getInspectResultData, PodTypes
<1>3. Sound(k, report[k]) /\ Sound(k, items) /\ label \in Labels
  BY <1>0, <1>1 DEF ReportInv, Items, SoundMap
<1>4. Sound(k, mine) /\ Sound(k, new)
  BY <1>1, <1>3, TaggedIs, Merging
<1>5. report'[k] = new /\ \A l \in Kinds \ {k} : report'[l] = report[l]
  BY <1>0, <1>1 DEF getInspectResultData, ReportInv
<1>6. ItemsOf(j) = <<>> /\ ItemsOf(j)' = mine /\ \A i \in Jobs \ {j} : ItemsOf(i)' = ItemsOf(i)
  <2>1. ItemsOf(j) = <<>>
    BY <1>1 DEF ItemsOf
  <2>2. ItemsOf(j)' = mine
    BY <1>0, <1>1, <1>2 DEF ItemsOf
  <2>3. \A i \in Jobs \ {j} : ItemsOf(i)' = ItemsOf(i)
    BY <1>1, <1>2 DEF ItemsOf
  <2> QED BY <2>1, <2>2, <2>3
<1>7. \A l : JobsOf(l)' = JobsOf(l)
  BY <1>1 DEF JobsOf
<1>8. \A l \in Kinds \ {k} : AllOf(l)' = AllOf(l)
  BY <1>0, <1>1, <1>6 DEF AllOf
<1>9. k \notin NodeKinds => report[k] = <<>>
  <2> SUFFICES ASSUME k \notin NodeKinds PROVE report[k] = <<>>
    OBVIOUS
  <2>1. JobsOf(k) = {j}
    BY <1>0, <1>1, InspectionAssumption DEF JobsOf, OneInv
  <2>2. Filled[j] = {}
    BY <1>6 DEF Filled
  <2>3. Pile(JobsOf(k), Filled) = {}
    BY <2>1, <2>2, PileIs
  <2>4. Cardinality({}) = 0
    BY FS_EmptySet
  <2>5. Len(report[k]) = 0
    BY <1>1, <2>3, <2>4, AllOfIs DEF CompleteInv
  <2> DEFINE T == ItemOf(k)
  <2>6. report[k] \in Seq(T)
    BY <1>3 DEF Sound
  <2> HIDE DEF T
  <2> QED BY <2>5, <2>6, EmptySeq
<1>10. /\ Len(mine) \in Nat /\ Len(report[k]) \in Nat /\ DOMAIN mine = 1..Len(mine)
       /\ Len(new) = Len(report[k]) + Len(mine)
       /\ ToSet(mine) \subseteq ToSet(new) /\ ToSet(report[k]) \subseteq ToSet(new)
  <2>1. /\ Len(mine) \in Nat /\ DOMAIN mine = 1..Len(mine)
        /\ Len(report[k]) \in Nat /\ DOMAIN report[k] = 1..Len(report[k])
    BY <1>3, <1>4, SoundIs
  <2>2. CASE k \in NodeKinds
    <3>1. new = report[k] \o mine
      BY <1>3, <2>2, Merging, Zenon
    <3> DEFINE T == ItemOf(k)
    <3>2. report[k] \in Seq(T) /\ mine \in Seq(T)
      BY <1>3, <1>4 DEF Sound
    <3> HIDE DEF T, mine, new
    <3>3. Len(new) = Len(report[k]) + Len(mine)
      BY <3>1, <3>2, ConcatProperties
    <3>4. ToSet(new) = ToSet(report[k]) \cup ToSet(mine)
      BY <3>1, <3>2, ConcatSets
    <3> QED BY <2>1, <3>3, <3>4
  <2>3. CASE k \notin NodeKinds
    <3>0. report[k] = <<>> /\ mine = items
      BY <1>9, <2>3, Zenon
    <3>1. new = items
      BY <1>3, <2>3, <3>0, Merging, Zenon
    <3> HIDE DEF mine, new
    <3>2. Len(report[k]) = 0 /\ ToSet(report[k]) = {}
      BY <3>0 DEF ToSet
    <3> QED BY <2>1, <3>0, <3>1, <3>2
  <2> QED BY <2>2, <2>3
<1> HIDE DEF mine, new
<1>11. IsFiniteSet(AllOf(k)') /\ Len(report'[k]) = Cardinality(AllOf(k)')
  <2> DEFINE D == [i \in Jobs |-> DOMAIN ItemsOf(i)]
             E == [i \in Jobs |-> DOMAIN ItemsOf(i)']
  <2>1. AllOf(k) = Pile(JobsOf(k), D) /\ AllOf(k)' = Pile(JobsOf(k), E)
    <3>1. AllOf(k)' = UNION {{i} \X (DOMAIN ItemsOf(i)') : i \in JobsOf(k)}
      BY <1>1 DEF AllOf, JobsOf
    <3>2. \A i \in JobsOf(k) : E[i] = DOMAIN ItemsOf(i)' /\ D[i] = DOMAIN ItemsOf(i)
      BY DEF JobsOf
    <3> HIDE DEF D, E
    <3>3. AllOf(k)' = Pile(JobsOf(k), E)
      BY <3>1, <3>2 DEF Pile
    <3>4. AllOf(k) = Pile(JobsOf(k), D)
      BY <3>2 DEF Pile, AllOf, JobsOf
    <3> QED BY <3>3, <3>4
  <2>2. j \in JobsOf(k) /\ D[j] = {} /\ E[j] = 1..Len(mine)
    BY <1>0, <1>6, <1>10 DEF JobsOf
  <2>3. \A i \in JobsOf(k) \ {j} : E[i] = D[i]
    BY <1>6 DEF JobsOf
  <2>4. IsFiniteSet(E[j]) /\ Cardinality(E[j]) = Len(mine)
    BY <1>10, <2>2, UpTo
  <2>5. IsFiniteSet(Pile(JobsOf(k), D)) /\ Len(report[k]) = Cardinality(Pile(JobsOf(k), D))
    BY <1>1, <2>1 DEF CompleteInv
  <2> HIDE DEF D, E
  <2>6. /\ IsFiniteSet(Pile(JobsOf(k), E))
        /\ Cardinality(Pile(JobsOf(k), E)) = Cardinality(Pile(JobsOf(k), D)) + Cardinality(E[j])
    <3>1. Grows(JobsOf(k), j, D, E)
      BY <2>2, <2>3 DEF Grows
    <3> QED BY <2>4, <2>5, <3>1, PileAdd, ZenonT(60)
  <2> QED BY <1>5, <1>10, <2>1, <2>4, <2>5, <2>6
<1>12. ASSUME NEW i \in Jobs, kind[i] = k PROVE ToSet(ItemsOf(i)') \subseteq ToSet(report'[k])
  <2>1. CASE i = j
    BY <1>5, <1>6, <1>10, <2>1
  <2>2. CASE i # j
    <3>1. ToSet(ItemsOf(i)) \subseteq ToSet(report[k])
      BY <1>1, <1>12 DEF CompleteInv
    <3> QED BY <1>5, <1>6, <1>10, <2>2, <3>1
  <2> QED BY <2>1, <2>2
<1>13. \A l \in Kinds : /\ IsFiniteSet(AllOf(l)') /\ Len(report'[l]) = Cardinality(AllOf(l)')
                        /\ \A i \in Jobs : kind'[i] = l => ToSet(ItemsOf(i)') \subseteq ToSet(report'[l])
  <2> SUFFICES ASSUME NEW l \in Kinds
               PROVE  /\ IsFiniteSet(AllOf(l)') /\ Len(report'[l]) = Cardinality(AllOf(l)')
                      /\ \A i \in Jobs : kind'[i] = l =>
                            ToSet(ItemsOf(i)') \subseteq ToSet(report'[l])
    OBVIOUS
  <2>1. CASE l = k
    BY <1>1, <1>11, <1>12, <2>1
  <2>2. CASE l # k
    <3>1. AllOf(l)' = AllOf(l) /\ report'[l] = report[l]
      BY <1>5, <1>8, <2>2
    <3>2. IsFiniteSet(AllOf(l)) /\ Len(report[l]) = Cardinality(AllOf(l))
      BY DEF CompleteInv
    <3>3. ASSUME NEW i \in Jobs, kind'[i] = l PROVE ToSet(ItemsOf(i)') \subseteq ToSet(report'[l])
      <4>1. kind[i] = l /\ i # j
        BY <1>0, <1>1, <2>2, <3>3
      <4>2. ToSet(ItemsOf(i)) \subseteq ToSet(report[l])
        BY <4>1 DEF CompleteInv
      <4> QED BY <1>6, <3>1, <4>1, <4>2
    <3> QED BY <3>1, <3>2, <3>3
  <2> QED BY <2>1, <2>2
<1>14. \A i \in Jobs : took'[i] # <<>> => i \in merged'
  BY <1>2 DEF CompleteInv
<1> QED BY <1>13, <1>14 DEF CompleteInv

(* A step that merges nothing, and leaves the merged jobs merged.          *)
LEMMA CompleteSame ==
    ASSUME CompleteInv, kind' = kind, report' = report, \A i \in Jobs : took'[i] = took[i],
           merged \subseteq merged'
    PROVE  CompleteInv'
<1>1. \A i \in Jobs : ItemsOf(i)' = ItemsOf(i)
  BY DEF ItemsOf
<1>2. ASSUME NEW k \in Kinds
      PROVE  /\ IsFiniteSet(AllOf(k)') /\ Len(report'[k]) = Cardinality(AllOf(k)')
             /\ \A j \in Jobs : kind'[j] = k => ToSet(ItemsOf(j)') \subseteq ToSet(report'[k])
  <2>1. AllOf(k)' = AllOf(k)
    BY <1>1 DEF AllOf
  <2>2. /\ IsFiniteSet(AllOf(k)) /\ Len(report[k]) = Cardinality(AllOf(k))
        /\ \A j \in Jobs : kind[j] = k => ToSet(ItemsOf(j)) \subseteq ToSet(report[k])
    BY DEF CompleteInv
  <2> QED BY <1>1, <2>1, <2>2
<1>3. \A i \in Jobs : took'[i] # <<>> => i \in merged'
  BY DEF CompleteInv
<1> QED BY <1>2, <1>3 DEF CompleteInv

(* As long as no job is merged the report is empty.                        *)
LEMMA CompleteEmpty ==
    ASSUME took = [j \in Jobs |-> <<>>], report = NoReport
    PROVE  CompleteInv
<1>1. \A j \in Jobs : ItemsOf(j) = <<>>
  BY DEF ItemsOf
<1>2. \A k : AllOf(k) = {}
  <2> SUFFICES ASSUME NEW k PROVE AllOf(k) = {}
    OBVIOUS
  <2>1. \A j \in JobsOf(k) : Filled[j] = {}
    BY <1>1 DEF Filled, JobsOf
  <2>2. Pile(JobsOf(k), Filled) = {}
    BY <2>1, PileIs
  <2> QED BY <2>2, AllOfIs
<1>3. IsFiniteSet({}) /\ Cardinality({}) = 0
  BY FS_EmptySet
<1>4. \A k \in Kinds : report[k] = <<>>
  BY DEF NoReport
<1>5. ToSet(<<>>) = {} /\ Len(<<>>) = 0
  BY DEF ToSet
<1>6. \A k \in Kinds : /\ IsFiniteSet(AllOf(k)) /\ Len(report[k]) = Cardinality(AllOf(k))
                       /\ \A j \in Jobs : ToSet(ItemsOf(j)) \subseteq ToSet(report[k])
  BY <1>1, <1>2, <1>3, <1>4, <1>5
<1>7. \A j \in Jobs : took[j] = <<>>
  OBVIOUS
<1> QED BY <1>6, <1>7 DEF CompleteInv

(* Every step of an inspection keeps the report complete.                  *)
LEMMA CompleteStep ==
    ASSUME IInv, CompleteInv, [Next]_vars
    PROVE  CompleteInv'
<1>1. ASSUME NEW j \in Jobs, getInspectResultData(j) PROVE CompleteInv'
  <2>1. CASE cm[j] # <<>>
    BY <1>1, <2>1, MergeCounts
  <2>2. CASE cm[j] = <<>>
    <3>1. PodTypes /\ j \notin merged /\ took[j] = <<>>
      BY <1>1 DEF IInv, getInspectResultData, CompleteInv
    <3>2. /\ kind' = kind /\ report' = report /\ took' = [took EXCEPT ![j] = cm[j]]
          /\ merged \subseteq merged'
      BY <1>1, <2>2 DEF getInspectResultData
    <3>3. \A i \in Jobs : took'[i] = took[i]
      BY <2>2, <3>1, <3>2 DEF PodTypes
    <3> QED BY <3>2, <3>3, CompleteSame
  <2> QED BY <2>1, <2>2
<1>2. ASSUME NEW j \in Jobs, JobStep(j) \/ Hangs(j) \/ GiveUp(j), ~getInspectResultData(j)
      PROVE  CompleteInv'
  <2>1. UNCHANGED <<kind, took, report, merged>>
    BY <1>2 DEF JobStep, jobInspect, Hangs, ReadFile, GetBase, CreateBase, OpaBegins, OpaWorks,
                OpaEnds, StoreResult, JobEnds, GiveUp, repVars
  <2> QED BY <2>1, CompleteSame
<1>3. CASE NextInspection
  <2>1. (took = [j \in Jobs |-> <<>>] /\ report = NoReport)'
    BY <1>3 DEF NextInspection
  <2>2. (took = [j \in Jobs |-> <<>>] /\ report = NoReport => CompleteInv)'
    BY CompleteEmpty, PTL
  <2> QED BY <2>1, <2>2
<1>4. CASE RulesGo \/ (\E n \in Nodes : EditFile(n)) \/ UNCHANGED vars
  <2>1. UNCHANGED <<kind, took, report, merged>>
    BY <1>4 DEF RulesGo, EditFile, vars, podVars, repVars
  <2> QED BY <2>1, CompleteSame
<1> QED BY <1>1, <1>2, <1>3, <1>4 DEF Next, JobStep

(* The report has what the merged jobs returned, each item once.           *)
THEOREM InspectionMerged == Spec => []CompleteInv
<1>1. Init => CompleteInv
  BY CompleteEmpty DEF Init
<1>2. IInv /\ CompleteInv /\ [Next]_vars => CompleteInv'
  BY CompleteStep
<1> QED BY <1>1, <1>2, InspectionInvariant, PTL DEF Spec

-----------------------------------------------------------------------------
(* The page and the counts                                                 *)

(* A set of indices of a list is finite, and has no more than the list.    *)
LEMMA Indices ==
    ASSUME NEW k, NEW items, Sound(k, items), NEW I \in SUBSET DOMAIN items
    PROVE  IsFiniteSet(I) /\ Cardinality(I) \in Nat /\ Cardinality(DOMAIN items) = Len(items)
<1>1. Len(items) \in Nat /\ DOMAIN items = 1..Len(items)
  BY SoundIs
<1>2. IsFiniteSet(DOMAIN items) /\ Cardinality(DOMAIN items) = Len(items)
  BY <1>1, UpTo
<1>3. IsFiniteSet(I)
  BY <1>2, FS_Subset
<1>4. Cardinality(I) \in Nat
  BY <1>3, FS_CardinalityType
<1> QED BY <1>2, <1>3, <1>4

(* The levels of a list, as rows.                                          *)
LevelRows(items) == UNION {{i} \X (1..Levels(items[i])) : i \in DOMAIN items}

LEMMA LevelRowsIs ==
    ASSUME NEW items
    PROVE  \A p : p \in LevelRows(items) <=>
                     \E i \in DOMAIN items : \E n \in 1..Levels(items[i]) : p = <<i, n>>
<1> DEFINE D == [i \in DOMAIN items |-> 1..Levels(items[i])]
<1>1. LevelRows(items) = Pile(DOMAIN items, D)
  BY DEF LevelRows, Pile
<1>2. \A i \in DOMAIN items : D[i] = 1..Levels(items[i])
  OBVIOUS
<1> HIDE DEF D
<1>3. ASSUME NEW p
      PROVE  p \in Pile(DOMAIN items, D) <=>
                \E i \in DOMAIN items : \E n \in 1..Levels(items[i]) : p = <<i, n>>
  <2>1. p \in Pile(DOMAIN items, D) <=> \E i \in DOMAIN items : \E n \in D[i] : p = <<i, n>>
    BY PileIs
  <2> QED BY <1>2, <2>1
<1> QED BY <1>1, <1>3

(* An item without issues is counted once if it asserts.                   *)
LEMMA CountedOnce ==
    ASSUME NEW k, NEW items, Sound(k, items), \A i \in DOMAIN items : items[i].issues = 0
    PROVE  totalResultLevel(items) = Cardinality({i \in DOMAIN items : items[i].assert})
<1> DEFINE W == {i \in DOMAIN items : items[i].assert}
<1>1. IsFiniteSet(W)
  BY Indices
<1>2. ASSUME NEW i \in DOMAIN items
      PROVE  1..Levels(items[i]) = IF items[i].assert THEN {1} ELSE {}
  <2>1. CASE items[i].assert
    <3>1. Levels(items[i]) = 1
      BY <2>1 DEF Levels
    <3>2. 1..1 = {1}
      OBVIOUS
    <3> QED BY <2>1, <3>1, <3>2
  <2>2. CASE ~items[i].assert
    <3>1. Levels(items[i]) = 0
      BY <2>2 DEF Levels
    <3>2. 1..0 = {}
      OBVIOUS
    <3> QED BY <2>2, <3>1, <3>2
  <2> QED BY <2>1, <2>2
<1>3. ASSUME NEW p PROVE p \in LevelRows(items) <=> p \in W \X {1}
  <2>1. p \in LevelRows(items) <=>
          \E i \in DOMAIN items : \E n \in 1..Levels(items[i]) : p = <<i, n>>
    BY LevelRowsIs
  <2>2. p \in W \X {1} <=> \E i \in W : p = <<i, 1>>
    OBVIOUS
  <2>3. (\E i \in DOMAIN items : \E n \in 1..Levels(items[i]) : p = <<i, n>>)
          <=> \E i \in W : p = <<i, 1>>
    BY <1>2
  <2> QED BY <2>1, <2>2, <2>3
<1>4. LevelRows(items) = W \X {1}
  BY <1>3
<1> HIDE DEF W
<1>5. Cardinality(W \X {1}) = Cardinality(W)
  BY <1>1, Column
<1> QED BY <1>4, <1>5 DEF W, totalResultLevel, LevelRows

(* An item of a file is counted for each of its issues.                    *)
LEMMA CountedIssues ==
    ASSUME NEW k \in {"fileFilter", "fileChange"}, NEW items, Sound(k, items)
    PROVE  /\ \A i \in DOMAIN items : /\ Levels(items[i]) = items[i].issues
                                      /\ items[i].issues \in 0..MaxFiltered
           /\ totalResultLevel(items) = IssuesOf(items)
<1>1. ASSUME NEW i \in DOMAIN items
      PROVE  Levels(items[i]) = items[i].issues /\ items[i].issues \in 0..MaxFiltered
  <2> DEFINE it == items[i]
  <2>1. it \in NodeItem /\ Fits(k, it.assert, it.issues)
    BY SoundIs, PlainItems DEF Plain
  <2> HIDE DEF it
  <2>2. it.issues \in 0..MaxFiltered /\ (it.assert <=> it.issues > 0)
    BY <2>1 DEF Fits, NodeItem
  <2>3. it.issues \in Nat
    BY <2>2, InspectorsAssumption
  <2>4. Levels(it) = it.issues
    BY <2>2, <2>3 DEF Levels
  <2> QED BY <2>2, <2>4 DEF it
<1>2. UNION {{i} \X (1..Levels(items[i])) : i \in DOMAIN items}
        = UNION {{i} \X (1..items[i].issues) : i \in DOMAIN items}
  BY <1>1
<1>3. totalResultLevel(items) = IssuesOf(items)
  BY <1>2 DEF totalResultLevel, IssuesOf
<1> QED BY <1>1, <1>3

(* A file that changed is one row, and is counted at least once.           *)
LEMMA CountedChanges ==
    ASSUME NEW items, Sound("fileChange", items)
    PROVE  /\ GetFileChange(items) <= totalResultLevel(items)
           /\ GetFileChange(items) = 0 => totalResultLevel(items) = 0
<1> DEFINE W == {i \in DOMAIN items : items[i].issues > 0}
           L == LevelRows(items)
<1>1. \A i \in DOMAIN items : Levels(items[i]) = items[i].issues /\ items[i].issues \in 0..MaxFiltered
  BY CountedIssues
<1>2. GetFileChange(items) = Cardinality(W) /\ totalResultLevel(items) = Cardinality(L)
  BY DEF GetFileChange, Where, totalResultLevel, LevelRows
<1>3. IsFiniteSet(W)
  BY Indices
<1>4. IsFiniteSet(L)
  <2> DEFINE F(i) == {i} \X (1..Levels(items[i]))
             S == {F(i) : i \in DOMAIN items}
             f == [i \in DOMAIN items |-> F(i)]
  <2>1. IsFiniteSet(DOMAIN items)
    BY Indices
  <2>2. f \in Surjection(DOMAIN items, S)
    BY DEF Surjection
  <2>3. ASSUME NEW i \in DOMAIN items PROVE IsFiniteSet(F(i))
    <3>1. Levels(items[i]) \in Nat
      BY <1>1, InspectorsAssumption
    <3>2. IsFiniteSet(1..Levels(items[i]))
      BY <3>1, UpTo
    <3> QED BY <3>2, Column
  <2>4. \A T \in S : IsFiniteSet(T)
    BY <2>3
  <2> HIDE DEF f, F
  <2>5. IsFiniteSet(S)
    BY <2>1, <2>2, FS_Surjection
  <2>6. IsFiniteSet(UNION S)
    BY <2>4, <2>5, FS_UNION
  <2> QED BY <2>6 DEF F, LevelRows
<1>5. W \X {1} \subseteq L
  <2> SUFFICES ASSUME NEW i \in W PROVE <<i, 1>> \in L
    OBVIOUS
  <2>1. 1 \in 1..Levels(items[i])
    BY <1>1, InspectorsAssumption
  <2> QED BY <2>1, LevelRowsIs
<1>6. W = {} => L = {}
  <2> SUFFICES ASSUME W = {}, NEW p \in L PROVE FALSE
    OBVIOUS
  <2>1. PICK i \in DOMAIN items : \E n \in 1..Levels(items[i]) : p = <<i, n>>
    BY LevelRowsIs
  <2>2. items[i].issues > 0
    BY <1>1, <2>1, InspectorsAssumption
  <2> QED BY <2>2
<1> HIDE DEF W, L
<1>7. IsFiniteSet(W \X {1}) /\ Cardinality(W \X {1}) = Cardinality(W)
  BY <1>3, Column
<1>8. Cardinality(W) <= Cardinality(L)
  BY <1>4, <1>5, <1>7, FS_Subset
<1>9. Cardinality(W) = 0 => Cardinality(L) = 0
  <2>1. Cardinality(W) = 0 => W = {}
    BY <1>3, FS_EmptySet
  <2>2. Cardinality({}) = 0
    BY FS_EmptySet
  <2> QED BY <1>6, <2>1, <2>2
<1> QED BY <1>2, <1>8, <1>9

(* The rows of the page are what is counted.                               *)
LEMMA RowsCounted ==
    ASSUME NEW k \in Shown \ {"opa", "fileChange"}, NEW items, Sound(k, items)
    PROVE  Rows(k, items) = totalResultLevel(items)
<1>1. CASE k = "fileFilter"
  <2>1. Rows(k, items) = IssuesOf(items)
    BY <1>1 DEF Rows, GetFileFilter
  <2> QED BY <1>1, <2>1, CountedIssues
<1>2. CASE k = "prometheus"
  <2>1. Rows(k, items) = Len(items)
    BY <1>2 DEF Rows, GetPrometheus
  <2>2. ASSUME NEW i \in DOMAIN items PROVE items[i].issues = 0 /\ items[i].assert
    <3> DEFINE X == UNION {ToSet(s) : s \in Samples}
               it == items[i]
    <3>1. it \in ItemOf(k)
      BY SoundIs
    <3>2. it \in [node: {""}, assert: {TRUE}, issues: {0}, sample: X]
      BY <1>2, <3>1 DEF ItemOf
    <3> HIDE DEF it, X
    <3>3. it.issues = 0
      BY <3>2
    <3>4. it.assert = TRUE
      BY <3>2
    <3> QED BY <3>3, <3>4 DEF it
  <2>3. {i \in DOMAIN items : items[i].assert} = DOMAIN items
    BY <2>2, Zenon
  <2>4. Cardinality(DOMAIN items) = Len(items)
    BY Indices
  <2> QED BY <2>1, <2>2, <2>3, <2>4, CountedOnce
<1>3. CASE k \in {"serviceConnect", "sysctl", "nodeInfo", "systemd", "command"}
  <2>1. Rows(k, items) = Cardinality({i \in DOMAIN items : items[i].assert})
    BY <1>3 DEF Rows, GetServiceConnect, GetSysctl, GetNodeInfo, GetSystemd, GetCommand, Where
  <2>2. \A i \in DOMAIN items : items[i].issues = 0
    <3>1. Plain(k) /\ k \notin {"fileFilter", "fileChange"}
      BY <1>3 DEF Plain
    <3> QED BY <3>1, PlainItems, SoundIs DEF Fits
  <2> QED BY <2>1, <2>2, CountedOnce
<1> QED BY <1>1, <1>2, <1>3 DEF Shown, Kinds, NodeKinds, ClusterKinds

(* An empty list is not counted.                                           *)
LEMMA NoneCounted == totalResultLevel(<<>>) = 0
<1>1. LevelRows(<<>>) = {}
  BY DEF LevelRows
<1> QED BY <1>1, FS_EmptySet DEF LevelRows, totalResultLevel

(* HtmlOut, GenerateExcel and CountLevelNum agree about any report whose   *)
(* items are such as the inspectors return.                                *)
LEMMA PagesOfSound ==
    ASSUME NEW r, \A k \in Kinds : Sound(k, r[k])
    PROVE  PagesAgree(r)
<1> DEFINE page  == HtmlOut(r, Kinds)
           sheet == GenerateExcel(r, {}, {}).sheets
           count == CountLevelNum(r)
<1>1. sheet = page.details
  BY DEF GenerateExcel, Sheets, HtmlOut
<1>2. ASSUME NEW k \in Shown
      PROVE  page.overview[k] = IF r[k] # <<>> THEN Rows(k, r[k]) ELSE 0
  BY DEF HtmlOut, Shown
<1>3. ASSUME NEW k \in Shown \ {"opa"} PROVE count[k] = totalResultLevel(r[k])
  BY DEF CountLevelNum, Shown
<1> HIDE DEF page, sheet, count
<1>4. ASSUME NEW k \in Shown \ {"opa", "fileChange"} PROVE page.overview[k] = count[k]
  <2>1. Sound(k, r[k])
    BY DEF Shown
  <2>2. CASE r[k] = <<>>
    BY <1>2, <1>3, <2>2, NoneCounted
  <2>3. CASE r[k] # <<>>
    BY <1>2, <1>3, <2>1, <2>3, RowsCounted
  <2> QED BY <2>2, <2>3
<1>5. /\ page.overview["fileChange"] <= count["fileChange"]
      /\ page.overview["fileChange"] = 0 => count["fileChange"] = 0
  <2> DEFINE k == "fileChange"
  <2>1. k \in Shown \ {"opa"} /\ Sound(k, r[k])
    BY DEF Shown, Kinds, NodeKinds
  <2>2. Rows(k, r[k]) = GetFileChange(r[k])
    BY DEF Rows
  <2>3. CASE r[k] = <<>>
    <3>1. page.overview[k] = 0 /\ count[k] = 0
      BY <1>2, <1>3, <2>1, <2>3, NoneCounted
    <3> QED BY <3>1
  <2>4. CASE r[k] # <<>>
    <3>1. page.overview[k] = GetFileChange(r[k]) /\ count[k] = totalResultLevel(r[k])
      BY <1>2, <1>3, <2>1, <2>2, <2>4
    <3>2. /\ GetFileChange(r[k]) <= totalResultLevel(r[k])
          /\ GetFileChange(r[k]) = 0 => totalResultLevel(r[k]) = 0
      BY <2>1, CountedChanges
    <3> QED BY <3>1, <3>2
  <2> QED BY <2>3, <2>4
<1>6. /\ sheet = page.details
      /\ \A k \in Shown \ {"opa", "fileChange"} : page.overview[k] = count[k]
      /\ page.overview["fileChange"] <= count["fileChange"]
      /\ page.overview["fileChange"] = 0 => count["fileChange"] = 0
  BY <1>1, <1>4, <1>5
<1> QED BY <1>6 DEF PagesAgree, page, sheet, count

-----------------------------------------------------------------------------
(* Induction and recursion                                                 *)

(* A set with 0 and the successor of each of its numbers has all of them.  *)
LEMMA Induct ==
    ASSUME NEW N \in Nat, NEW T, 0 \in T, \A n \in 1..N : n - 1 \in T => n \in T
    PROVE  0..N \subseteq T
<1> SUFFICES ASSUME ~(0..N \subseteq T) PROVE FALSE
  OBVIOUS
<1>1. (0..N) \ T # {} /\ (0..N) \ T \in SUBSET Nat
  OBVIOUS
<1>2. PICK x \in (0..N) \ T : \A y \in (0..N) \ T : x <= y
  BY <1>1, Lowest
<1>3. x \in 1..N /\ x - 1 \in 0..N /\ ~(x <= x - 1)
  BY <1>2
<1>4. x - 1 \in T
  BY <1>2, <1>3
<1> QED BY <1>2, <1>3, <1>4

(* f is first, and then N times the next value that step gives.             *)
Follows(f, N, X, first, step) ==
    f \in [0..N -> X] /\ f[0] = first /\ \A n \in 1..N : f[n] = step[<<n, f[n - 1]>>]

(* A function may be defined step by step.                                 *)
LEMMA Recursion ==
    ASSUME NEW N \in Nat, NEW X, NEW first \in X, NEW step \in [(1..N) \X X -> X]
    PROVE  \E f : Follows(f, N, X, first, step)
<1> DEFINE IsUpTo(f, m) == /\ f \in [0..m -> X] /\ f[0] = first
                           /\ \A n \in 1..m : f[n] = step[<<n, f[n - 1]>>]
           T == {m \in 0..N : \E f : IsUpTo(f, m)}
<1>1. 0 \in T
  <2> DEFINE g == [n \in 0..0 |-> first]
  <2>1. g \in [0..0 -> X] /\ g[0] = first /\ 1..0 = {}
    OBVIOUS
  <2> HIDE DEF g
  <2>2. IsUpTo(g, 0)
    BY <2>1
  <2> HIDE DEF IsUpTo
  <2>3. \E f : IsUpTo(f, 0)
    BY <2>2
  <2> QED BY <2>3
<1>2. ASSUME NEW m \in 1..N, m - 1 \in T PROVE m \in T
  <2>1. PICK f : IsUpTo(f, m - 1)
    BY <1>2
  <2> DEFINE g == [n \in 0..m |-> IF n = m THEN step[<<m, f[m - 1]>>] ELSE f[n]]
  <2>2. f[m - 1] \in X /\ step[<<m, f[m - 1]>>] \in X
    BY <2>1
  <2>3. g \in [0..m -> X] /\ g[0] = first
    BY <2>1, <2>2
  <2>4. \A n \in 0..m : n # m => g[n] = f[n]
    OBVIOUS
  <2>5. ASSUME NEW n \in 1..m PROVE g[n] = step[<<n, g[n - 1]>>]
    <3>1. g[n - 1] = f[n - 1]
      BY <2>4
    <3>2. CASE n = m
      <4>1. g[m] = step[<<m, f[m - 1]>>]
        OBVIOUS
      <4> HIDE DEF g
      <4> QED BY <3>1, <3>2, <4>1
    <3>3. CASE n # m
      <4>1. n \in 1..(m - 1) /\ g[n] = f[n]
        BY <2>4, <3>3
      <4> HIDE DEF g
      <4> QED BY <2>1, <3>1, <4>1
    <3> QED BY <3>2, <3>3
  <2> HIDE DEF g
  <2>6. IsUpTo(g, m)
    BY <2>3, <2>5
  <2> QED BY <2>6
<1> HIDE DEF T
<1>3. N \in T
  BY <1>1, <1>2, Induct
<1> QED BY <1>3 DEF T, Follows

(* A function of the numbers up to n is a list of its values.              *)
LEMMA IsList ==
    ASSUME NEW X, NEW n \in Nat, NEW s \in [1..n -> X]
    PROVE  s \in Seq(X) /\ Len(s) = n /\ DOMAIN s = 1..n
BY IsASeq, LenProperties

-----------------------------------------------------------------------------
(* The answer in JSON                                                      *)

(* The elements of R are numbered apart for each of their keys.            *)
Numbered(R, key, K, D) ==
    /\ K = {key[i] : i \in R}
    /\ \A k \in K : D[k] = 1..Cardinality({i \in R : key[i] = k})

(* All the numbers are as many as the elements.                            *)
LEMMA KeysCounted ==
    ASSUME NEW R, IsFiniteSet(R), NEW key, NEW K, NEW D, Numbered(R, key, K, D)
    PROVE  Cardinality(Pile(K, D)) = Cardinality(R)
<1> DEFINE Of(k) == {i \in R : key[i] = k}
           b == [k \in K |-> CHOOSE g : g \in Bijection(D[k], Of(k))]
           P == Pile(K, D)
           h == [p \in P |-> b[p[1]][p[2]]]
<1>0. K = {key[i] : i \in R} /\ \A k \in K : D[k] = 1..Cardinality(Of(k))
  BY DEF Numbered
<1>1. ASSUME NEW k \in K PROVE b[k] \in Bijection(D[k], Of(k))
  <2>1. Of(k) \subseteq R
    OBVIOUS
  <2>2. IsFiniteSet(Of(k))
    BY <2>1, FS_Subset
  <2>3. ExistsBijection(1..Cardinality(Of(k)), Of(k))
    BY <2>2, FS_CardinalityType
  <2>4. \E g : g \in Bijection(D[k], Of(k))
    BY <1>0, <2>3 DEF ExistsBijection
  <2> HIDE DEF Of
  <2> QED BY <2>4
<1>2. \A k \in K : \A i : i \in Of(k) <=> i \in R /\ key[i] = k
  OBVIOUS
<1>3. \A i \in R : key[i] \in K
  BY <1>0
<1> HIDE DEF b, Of
<1>4. \A p : p \in P <=> \E k \in K : \E x \in D[k] : p = <<k, x>>
  BY PileIs
<1>5. ASSUME NEW k \in K, NEW x \in D[k]
      PROVE  <<k, x>> \in P /\ h[<<k, x>>] = b[k][x] /\ b[k][x] \in Of(k)
  <2>1. <<k, x>> \in P
    BY <1>4
  <2>2. b[k] \in [D[k] -> Of(k)]
    BY <1>1 DEF Bijection, Injection
  <2> HIDE DEF P
  <2> QED BY <2>1, <2>2
<1> HIDE DEF P, h
<1>6. h \in [P -> R]
  <2>1. ASSUME NEW p \in P PROVE h[p] \in R
    <3>1. PICK k \in K : \E x \in D[k] : p = <<k, x>>
      BY <1>4
    <3> QED BY <3>1, <1>2, <1>5
  <2> QED BY <2>1 DEF h
<1>7. ASSUME NEW p \in P, NEW q \in P, h[p] = h[q] PROVE p = q
  <2>1. PICK k \in K : \E x \in D[k] : p = <<k, x>>
    BY <1>4
  <2>2. PICK x \in D[k] : p = <<k, x>>
    BY <2>1
  <2>3. PICK l \in K : \E y \in D[l] : q = <<l, y>>
    BY <1>4
  <2>4. PICK y \in D[l] : q = <<l, y>>
    BY <2>3
  <2>5. b[k][x] = b[l][y] /\ b[k][x] \in Of(k) /\ b[l][y] \in Of(l)
    BY <1>5, <1>7, <2>2, <2>4
  <2>6. k = l
    BY <1>2, <2>5
  <2>7. b[k] \in Injection(D[k], Of(k))
    BY <1>1 DEF Bijection
  <2>8. x = y
    BY <2>5, <2>6, <2>7 DEF Injection, IsInjective
  <2> QED BY <2>2, <2>4, <2>6, <2>8
<1>8. ASSUME NEW i \in R PROVE \E p \in P : h[p] = i
  <2>1. key[i] \in K /\ i \in Of(key[i])
    BY <1>2, <1>3
  <2>2. b[key[i]] \in Surjection(D[key[i]], Of(key[i]))
    BY <1>1, <2>1 DEF Bijection
  <2>3. PICK x \in D[key[i]] : b[key[i]][x] = i
    BY <2>1, <2>2 DEF Surjection
  <2>4. <<key[i], x>> \in P /\ h[<<key[i], x>>] = i
    BY <1>5, <2>1, <2>3
  <2> QED BY <2>4
<1>9. h \in Injection(P, R) /\ h \in Surjection(P, R)
  BY <1>6, <1>7, <1>8 DEF Injection, Surjection, IsInjective
<1> QED BY <1>9, FS_Injection DEF P

(* Select gives as many elements as it is given indices.                   *)
LEMMA SelectIs ==
    ASSUME NEW list, NEW I, IsFiniteSet(I)
    PROVE  /\ Len(Select(list, I)) = Cardinality(I)
           /\ DOMAIN Select(list, I) = 1..Cardinality(I)
<1> DEFINE n == Cardinality(I)
           X == {list[InOrder(I, k)] : k \in 1..n}
<1>1. n \in Nat
  BY FS_CardinalityType
<1>2. Select(list, I) \in [1..n -> X]
  BY DEF Select
<1> HIDE DEF n, X
<1>3. Len(Select(list, I)) = n /\ DOMAIN Select(list, I) = 1..n
  BY <1>1, <1>2, IsList
<1> QED BY <1>3 DEF n

(* Every sample whose raw data is kept is in one of the groups, once.      *)
LEMMA RawCounted ==
    ASSUME NEW S, NEW samples \in Seq(S)
    PROVE  LET groups == ParsePrometheusData(samples)
           IN  Cardinality(UNION {{k} \X DOMAIN groups[k] : k \in DOMAIN groups})
                   = Cardinality({i \in DOMAIN samples : samples[i].raw})
<1> DEFINE groups == ParsePrometheusData(samples)
           R == {i \in DOMAIN samples : samples[i].raw}
           key == [i \in R |-> <<samples[i].metric, samples[i].rule>>]
           K == {key[i] : i \in R}
           Of(k) == {i \in R : key[i] = k}
           D == [k \in K |-> DOMAIN groups[k]]
<1>1. IsFiniteSet(R)
  <2>1. DOMAIN samples = 1..Len(samples) /\ 0 \in Int /\ Len(samples) \in Int
    BY LenProperties
  <2>2. R \subseteq DOMAIN samples
    OBVIOUS
  <2> HIDE DEF R
  <2>3. IsFiniteSet(DOMAIN samples)
    BY <2>1, FS_Interval
  <2> QED BY <2>2, <2>3, FS_Subset
<1>2. groups = [k \in K |-> Select(samples, Of(k))]
  <2>1. \A i \in R : key[i] = <<samples[i].metric, samples[i].rule>>
    OBVIOUS
  <2>2. {<<samples[i].metric, samples[i].rule>> : i \in R} = K
    BY <2>1
  <2>3. \A k : {i \in R : <<samples[i].metric, samples[i].rule>> = k} = Of(k)
    BY <2>1
  <2>4. groups = [k \in {<<samples[i].metric, samples[i].rule>> : i \in R} |->
                     Select(samples, {i \in R : <<samples[i].metric, samples[i].rule>> = k})]
    BY DEF ParsePrometheusData
  <2> HIDE DEF groups, R, key, K, Of
  <2> QED BY <2>2, <2>3, <2>4
<1>3. \A k : Of(k) \subseteq R
  OBVIOUS
<1> HIDE DEF groups
<1>4. DOMAIN groups = K
  BY <1>2
<1>5. ASSUME NEW k \in K PROVE D[k] = 1..Cardinality(Of(k))
  <2>1. IsFiniteSet(Of(k))
    BY <1>1, <1>3, FS_Subset
  <2>2. D[k] = DOMAIN groups[k]
    OBVIOUS
  <2>3. groups[k] = Select(samples, Of(k))
    BY <1>2
  <2> HIDE DEF D, Of, K
  <2> QED BY <2>1, <2>2, <2>3, SelectIs
<1>6. UNION {{k} \X DOMAIN groups[k] : k \in DOMAIN groups} = Pile(K, D)
  <2>1. \A k \in K : D[k] = DOMAIN groups[k]
    OBVIOUS
  <2> HIDE DEF K, D
  <2>2. UNION {{k} \X DOMAIN groups[k] : k \in K} = UNION {{k} \X D[k] : k \in K}
    BY <2>1
  <2> QED BY <1>4, <2>2 DEF Pile
<1>7. Numbered(R, key, K, D)
  BY <1>5 DEF Numbered
<1> HIDE DEF R, key, K, D, Of
<1>8. Cardinality(Pile(K, D)) = Cardinality(R)
  BY <1>1, <1>7, KeysCounted
<1> QED BY <1>6, <1>8 DEF groups, R

(* Of the first n samples, t is the first of the greatest value of a       *)
(* metric, if there is one.                                                *)
TopOf(t, samples, metric, n) ==
    \/ t = <<>> /\ \A i \in 1..n : samples[i].metric # metric
    \/ \E m \in 1..n : /\ t = <<samples[m]>> /\ samples[m].metric = metric
                      /\ \A i \in 1..n : samples[i].metric = metric =>
                                            samples[i].value <= samples[m].value

(* One more sample is the top, or leaves it.                               *)
LEMMA TopStep ==
    ASSUME NEW S, \A x \in S : x.value \in Int, NEW samples \in Seq(S), NEW metric,
           NEW n \in 1..Len(samples), NEW t, TopOf(t, samples, metric, n - 1)
    PROVE  TopOf(IF Higher(t, samples[n], metric) THEN <<samples[n]>> ELSE t, samples, metric, n)
<1> DEFINE u == IF Higher(t, samples[n], metric) THEN <<samples[n]>> ELSE t
           N == n - 1
<1>1. Len(samples) \in Nat /\ \A i \in 1..Len(samples) : samples[i] \in S
  BY LenProperties, ElementOfSeq
<1>2. \A i \in 1..n : samples[i].value \in Int
  BY <1>1
<1>3. \A i : i \in 1..n <=> i \in 1..N \/ i = n
  BY <1>1
<1>4. n \in 1..n
  BY <1>1
<1>5. TopOf(t, samples, metric, N)
  OBVIOUS
<1>6. /\ Higher(t, samples[n], metric) => u = <<samples[n]>>
      /\ ~Higher(t, samples[n], metric) => u = t
  OBVIOUS
<1> SUFFICES TopOf(u, samples, metric, n)
  OBVIOUS
<1> HIDE DEF u, N
<1>7. CASE t = <<>> /\ \A i \in 1..N : samples[i].metric # metric
  <2>1. Higher(t, samples[n], metric) <=> samples[n].metric = metric
    BY <1>7 DEF Higher
  <2>2. CASE samples[n].metric = metric
    <3>1. u = <<samples[n]>>
      BY <1>6, <2>1, <2>2
    <3>2. ASSUME NEW i \in 1..n, samples[i].metric = metric
          PROVE  samples[i].value <= samples[n].value
      <4>1. i = n
        BY <1>3, <1>7, <3>2
      <4> QED BY <1>2, <1>4, <4>1
    <3> QED BY <1>4, <2>2, <3>1, <3>2, Zenon DEF TopOf
  <2>3. CASE samples[n].metric # metric
    <3>1. u = <<>>
      BY <1>6, <1>7, <2>1, <2>3
    <3>2. \A i \in 1..n : samples[i].metric # metric
      BY <1>3, <1>7, <2>3
    <3> QED BY <3>1, <3>2, Zenon DEF TopOf
  <2> QED BY <2>2, <2>3
<1>8. ASSUME NEW m \in 1..N, t = <<samples[m]>>, samples[m].metric = metric,
             \A i \in 1..N : samples[i].metric = metric => samples[i].value <= samples[m].value
      PROVE  TopOf(u, samples, metric, n)
  <2>1. m \in 1..n /\ samples[m].value \in Int /\ samples[n].value \in Int
    BY <1>2, <1>3, <1>4
  <2>2. Higher(t, samples[n], metric)
            <=> samples[n].metric = metric /\ samples[m].value < samples[n].value
    <3>1. t # <<>> /\ t[1] = samples[m]
      BY <1>8
    <3> QED BY <3>1 DEF Higher
  <2>3. ASSUME NEW i \in 1..n, samples[i].metric = metric
        PROVE  samples[i].value \in Int /\ (i = n \/ samples[i].value <= samples[m].value)
    <3>1. samples[i].value \in Int
      BY <1>2
    <3>2. i = n \/ i \in 1..N
      BY <1>3
    <3> QED BY <1>8, <2>3, <3>1, <3>2, Zenon
  <2>4. CASE Higher(t, samples[n], metric)
    <3>1. u = <<samples[n]>> /\ samples[n].metric = metric
      BY <1>6, <2>2, <2>4
    <3>2. ASSUME NEW i \in 1..n, samples[i].metric = metric
          PROVE  samples[i].value <= samples[n].value
      <4> DEFINE a == samples[i].value
                 b == samples[m].value
                 c == samples[n].value
      <4>1. a \in Int /\ (i = n \/ a <= b) /\ (i = n => a = c)
        BY <2>3, <3>2, Zenon
      <4>2. b \in Int /\ c \in Int /\ b < c
        BY <2>1, <2>2, <2>4, Zenon
      <4> HIDE DEF a, b, c
      <4>3. a <= c
        BY <4>1, <4>2
      <4> QED BY <4>3 DEF a, c
    <3> QED BY <1>4, <3>1, <3>2, Zenon DEF TopOf
  <2>5. CASE ~Higher(t, samples[n], metric)
    <3>1. u = <<samples[m]>>
      BY <1>6, <1>8, <2>5
    <3>2. ASSUME NEW i \in 1..n, samples[i].metric = metric
          PROVE  samples[i].value <= samples[m].value
      <4> DEFINE a == samples[i].value
                 b == samples[m].value
                 c == samples[n].value
      <4>1. a \in Int /\ (i = n \/ a <= b) /\ (i = n => a = c)
        BY <2>3, <3>2, Zenon
      <4>2. b \in Int /\ c \in Int
        BY <2>1, Zenon
      <4>3. i = n => ~(b < c)
        BY <2>2, <2>5, <3>2, Zenon
      <4> HIDE DEF a, b, c
      <4>4. a <= b
        BY <4>1, <4>2, <4>3
      <4> QED BY <4>4 DEF a, b
    <3> QED BY <1>8, <2>1, <3>1, <3>2, Zenon DEF TopOf
  <2> QED BY <2>4, <2>5
<1>9. \/ t = <<>> /\ \A i \in 1..N : samples[i].metric # metric
      \/ \E m \in 1..N : /\ t = <<samples[m]>> /\ samples[m].metric = metric
                        /\ \A i \in 1..N : samples[i].metric = metric =>
                                              samples[i].value <= samples[m].value
  BY <1>5, Zenon DEF TopOf
<1> QED BY <1>7, <1>8, <1>9, Zenon

(* ParseResourcesTop goes through all the samples.                         *)
LEMMA TopIs ==
    ASSUME NEW S, \A x \in S : x.value \in Int, NEW samples \in Seq(S), NEW metric
    PROVE  TopOf(ParseResourcesTop(samples, metric), samples, metric, Len(samples))
<1> DEFINE N == Len(samples)
           Tops == Seq(S)
           Next1(n, t) == IF Higher(t, samples[n], metric) THEN <<samples[n]>> ELSE t
           Def(g) == [n \in 0..N |-> IF n = 0 THEN <<>> ELSE Next1(n, g[n - 1])]
           step == [p \in (1..N) \X Tops |-> Next1(p[1], p[2])]
<1>1. N \in Nat /\ \A n \in 1..N : samples[n] \in S
  BY LenProperties, ElementOfSeq
<1>2. step \in [(1..N) \X Tops -> Tops]
  <2>1. ASSUME NEW n \in 1..N, NEW y \in Tops PROVE Next1(n, y) \in Tops
    <3>1. <<samples[n]>> \in Seq(S)
      BY <1>1
    <3> QED BY <2>1, <3>1
  <2> HIDE DEF Next1, Tops, N
  <2> QED BY <2>1
<1>3. \A n \in 1..N, y \in Tops : step[<<n, y>>] = Next1(n, y)
  <2> HIDE DEF Next1, Tops, N
  <2> QED OBVIOUS
<1>4. <<>> \in Tops
  BY EmptySeq
<1>5. ParseResourcesTop(samples, metric) = (CHOOSE g : g = Def(g))[N]
  BY DEF ParseResourcesTop
<1>6. \A n, t : TopOf(t, samples, metric, n - 1) /\ n \in 1..N => TopOf(Next1(n, t), samples, metric, n)
  BY TopStep
<1>7. TopOf(<<>>, samples, metric, 0)
  BY DEF TopOf
<1> HIDE DEF step, N, Tops, Next1
<1>8. PICK f : Follows(f, N, Tops, <<>>, step)
  BY <1>1, <1>2, <1>4, Recursion
<1>9. f = Def(f)
  <2>1. ASSUME NEW n \in 1..N PROVE f[n] = Next1(n, f[n - 1])
    <3>1. n - 1 \in 0..N
      BY <1>1
    <3>2. f[n - 1] \in Tops
      BY <1>8, <3>1 DEF Follows
    <3> QED BY <1>3, <1>8, <3>2 DEF Follows
  <2> QED BY <1>1, <1>8, <2>1 DEF Follows
<1> DEFINE g == CHOOSE h : h = Def(h)
<1>10. g = Def(g)
  BY <1>9
<1>11. ParseResourcesTop(samples, metric) = g[N]
  BY <1>5
<1> HIDE DEF g
<1>12. g[0] = <<>> /\ \A n \in 1..N : g[n] = Next1(n, g[n - 1])
  BY <1>1, <1>10
<1> DEFINE T == {n \in 0..N : TopOf(g[n], samples, metric, n)}
<1>13. 0 \in T
  BY <1>1, <1>7, <1>12
<1>14. ASSUME NEW n \in 1..N, n - 1 \in T PROVE n \in T
  <2>1. TopOf(g[n - 1], samples, metric, n - 1)
    BY <1>14
  <2>2. TopOf(g[n], samples, metric, n)
    BY <1>6, <1>12, <2>1
  <2> QED BY <1>1, <2>2
<1> HIDE DEF T
<1>15. 0..N \subseteq T
  BY <1>1, <1>13, <1>14, Induct
<1>16. N \in T
  BY <1>1, <1>15
<1> QED BY <1>11, <1>16 DEF T, N

(* The top of a metric is there when it has a sample, and is its greatest. *)
LEMMA TopGreatest ==
    ASSUME NEW S, \A x \in S : x.value \in Int, NEW samples \in Seq(S), NEW metric
    PROVE  LET of  == {i \in DOMAIN samples : samples[i].metric = metric}
               top == ParseResourcesTop(samples, metric)
           IN  /\ top = <<>> <=> of = {}
               /\ of # {} => top[1].value = Max({samples[i].value : i \in of})
<1> DEFINE of  == {i \in DOMAIN samples : samples[i].metric = metric}
           top == ParseResourcesTop(samples, metric)
           N == Len(samples)
           V == {samples[i].value : i \in of}
<1>1. DOMAIN samples = 1..N /\ \A i \in 1..N : samples[i].value \in Int
  BY LenProperties, ElementOfSeq
<1>2. \A i : i \in of <=> i \in 1..N /\ samples[i].metric = metric
  BY <1>1
<1>3. TopOf(top, samples, metric, N)
  BY TopIs
<1>4. \A v : v \in V <=> \E i \in of : v = samples[i].value
  OBVIOUS
<1>5. V \subseteq Int
  BY <1>1
<1> HIDE DEF of, top, N, V
<1>6. CASE top = <<>> /\ \A i \in 1..N : samples[i].metric # metric
  BY <1>2, <1>6 DEF of, top
<1>7. ASSUME NEW m \in 1..N, top = <<samples[m]>>, samples[m].metric = metric,
             \A i \in 1..N : samples[i].metric = metric => samples[i].value <= samples[m].value
      PROVE  top # <<>> /\ of # {} /\ top[1].value = Max(V)
  <2>1. top # <<>> /\ top[1] = samples[m] /\ m \in of
    BY <1>2, <1>7
  <2> DEFINE v == samples[m].value
  <2>2. v \in V /\ v \in Int
    BY <1>4, <1>5, <2>1
  <2>3. \A i \in of : samples[i].value <= v
    BY <1>2, <1>7, Zenon
  <2>4. \A w \in V : w <= v
    BY <1>4, <2>3, Zenon
  <2> HIDE DEF v
  <2>5. \A x \in V : (\A y \in V : x >= y) => x = v
    BY <1>5, <2>2, <2>4
  <2>6. \A y \in V : v >= y
    BY <1>5, <2>2, <2>4
  <2>7. Max(V) = v
    BY <2>2, <2>5, <2>6 DEF Max
  <2> QED BY <2>1, <2>7 DEF v
<1>8. \/ top = <<>> /\ \A i \in 1..N : samples[i].metric # metric
      \/ \E m \in 1..N : /\ top = <<samples[m]>> /\ samples[m].metric = metric
                        /\ \A i \in 1..N : samples[i].metric = metric =>
                                              samples[i].value <= samples[m].value
  BY <1>3, Zenon DEF TopOf
<1>9. (top = <<>> <=> of = {}) /\ (of # {} => top[1].value = Max(V))
  <2>1. CASE top = <<>> /\ \A i \in 1..N : samples[i].metric # metric
    BY <1>2, <2>1
  <2>2. CASE top # <<>> /\ of # {} /\ top[1].value = Max(V)
    BY <2>2
  <2> QED BY <1>7, <1>8, <2>1, <2>2, Zenon
<1> QED BY <1>9 DEF of, top, V

(* Each node is ready, ready and cordoned, or not ready.                   *)
LEMMA NodesDivided ==
    ASSUME NEW nodes, IsFiniteSet(nodes)
    PROVE  LET status == ParseNodeStatus(nodes)
           IN  status.total = status.ready + status.not_ready + status.no_schedule
<1> DEFINE isReady(n) == \E i \in DOMAIN n.conditions : n.conditions[i] = "Ready"
           status == ParseNodeStatus(nodes)
           A == {n \in nodes : isReady(n) /\ ~n.cordoned}
           B == {n \in nodes : ~isReady(n)}
           C == {n \in nodes : isReady(n) /\ n.cordoned}
<1>1. /\ status.total = Cardinality(nodes) /\ status.ready = Cardinality(A)
      /\ status.not_ready = Cardinality(B) /\ status.no_schedule = Cardinality(C)
  BY DEF ParseNodeStatus
<1> HIDE DEF isReady, status
<1>2. A \cup B \cup C = nodes /\ A \cap B = {} /\ (A \cup B) \cap C = {}
  OBVIOUS
<1> HIDE DEF A, B, C
<1>3. A \subseteq nodes /\ B \subseteq nodes /\ C \subseteq nodes
  BY <1>2
<1>4. IsFiniteSet(A) /\ IsFiniteSet(B) /\ IsFiniteSet(C)
  BY <1>3, FS_Subset
<1>5. Cardinality({}) = 0
  BY FS_EmptySet
<1>6. Cardinality(A) \in Nat /\ Cardinality(B) \in Nat /\ Cardinality(C) \in Nat
  BY <1>4, FS_CardinalityType
<1>7. /\ IsFiniteSet(A \cup B)
      /\ Cardinality(A \cup B) = Cardinality(A) + Cardinality(B) - Cardinality(A \cap B)
  BY <1>4, FS_Union
<1>8. Cardinality((A \cup B) \cup C)
          = Cardinality(A \cup B) + Cardinality(C) - Cardinality((A \cup B) \cap C)
  BY <1>4, <1>7, FS_Union
<1>9. /\ Cardinality(A \cap B) = 0 /\ Cardinality((A \cup B) \cap C) = 0
      /\ Cardinality((A \cup B) \cup C) = Cardinality(nodes)
  BY <1>2, <1>5, Zenon
<1>10. Cardinality(nodes) = Cardinality(A) + Cardinality(B) + Cardinality(C)
  BY <1>6, <1>7, <1>8, <1>9
<1> HIDE DEF status
<1> QED BY <1>1, <1>10 DEF status

(* ParseCustomizedStruct and ParsePrometheusData of any samples and nodes. *)
LEMMA AnswerOfSamples ==
    ASSUME NEW S, \A x \in S : x.value \in Int, NEW samples \in Seq(S), NEW metric,
           NEW nodes, IsFiniteSet(nodes)
    PROVE  AnswerAgrees(samples, metric, nodes)
<1> DEFINE answer == ParseCustomizedStruct(NoReport, samples, metric, nodes)
           groups == ParsePrometheusData(samples)
           of == {i \in DOMAIN samples : samples[i].metric = metric}
           R == {i \in DOMAIN samples : samples[i].raw}
           status == ParseNodeStatus(nodes)
           top == ParseResourcesTop(samples, metric)
           count == OverviewCount(samples, metric, NoReport["component"])
<1>1. Cardinality(UNION {{k} \X DOMAIN groups[k] : k \in DOMAIN groups}) = Cardinality(R)
  BY RawCounted
<1>2. count.metric = Cardinality(of)
  <2>1. of \subseteq DOMAIN samples
    OBVIOUS
  <2>2. DOMAIN samples = 1..Len(samples) /\ 0 \in Int /\ 1 \in Int /\ Len(samples) \in Int
    BY LenProperties
  <2>3. IsFiniteSet(DOMAIN samples)
    BY <2>2, FS_Interval
  <2>4. IsFiniteSet(of)
    BY <2>1, <2>3, FS_Subset
  <2>5. count.metric = Len(Select(samples, of))
    BY DEF OverviewCount, ParseOtherMetric
  <2> HIDE DEF of, count
  <2> QED BY <2>4, <2>5, SelectIs
<1>3. /\ top = <<>> <=> of = {}
      /\ of # {} => top[1].value = Max({samples[i].value : i \in of})
  BY TopGreatest
<1>4. status.total = status.ready + status.not_ready + status.no_schedule
  BY NodesDivided
<1> HIDE DEF status, top, count, of, R, groups
<1>5. answer.overview_count = count /\ answer.resources_top = top /\ answer.nodes_status = status
  BY DEF ParseCustomizedStruct, status, top, count
<1> HIDE DEF answer
<1>6. /\ Cardinality(UNION {{k} \X DOMAIN groups[k] : k \in DOMAIN groups}) = Cardinality(R)
      /\ answer.overview_count.metric = Cardinality(of)
      /\ answer.resources_top = <<>> <=> of = {}
      /\ of # {} => answer.resources_top[1].value = Max({samples[i].value : i \in of})
      /\ answer.nodes_status.total = answer.nodes_status.ready + answer.nodes_status.not_ready
                                         + answer.nodes_status.no_schedule
  BY <1>1, <1>2, <1>3, <1>4, <1>5
<1> QED BY <1>6 DEF AnswerAgrees, answer, groups, of, R

(* The samples of the report are among those that Prometheus gives.        *)
LEMMA SamplesOf ==
    ASSUME NEW items, Sound("prometheus", items)
    PROVE  [i \in DOMAIN items |-> items[i].sample] \in Seq(UNION {ToSet(s) : s \in Samples})
<1> DEFINE S == UNION {ToSet(s) : s \in Samples}
<1>1. ASSUME NEW i \in DOMAIN items PROVE items[i].sample \in S
  <2> DEFINE it == items[i]
  <2>1. it \in ItemOf("prometheus")
    BY SoundIs
  <2>2. it \in [node: {""}, assert: {TRUE}, issues: {0}, sample: S]
    BY <2>1 DEF ItemOf
  <2> HIDE DEF it, S
  <2>3. it.sample \in S
    BY <2>2
  <2> QED BY <2>3 DEF it
<1>2. DOMAIN items = 1..Len(items) /\ Len(items) \in Nat
  BY LenProperties DEF Sound
<1> HIDE DEF S
<1>3. [i \in DOMAIN items |-> items[i].sample] \in [1..Len(items) -> S]
  BY <1>1, <1>2
<1>4. [i \in DOMAIN items |-> items[i].sample] \in Seq(S)
  BY <1>2, <1>3, IsList
<1> QED BY <1>4 DEF S

(* GetResult and saveResultFile: once the pool is done with all jobs the   *)
(* report has every item of each of them, once, and what is made from it   *)
(* agrees.                                                                 *)
THEOREM InspectionReportComplete == Spec => []ReportComplete
<1>1. IInv /\ CompleteInv => ReportComplete
  <2> SUFFICES ASSUME IInv, CompleteInv, merged = Jobs
               PROVE  /\ \A k \in Kinds :
                           /\ Len(report[k]) = Cardinality(AllOf(k))
                           /\ \A j \in Jobs : kind[j] = k => ToSet(ItemsOf(j)) \subseteq ToSet(report[k])
                      /\ PagesAgree(report)
                      /\ AnswerAgrees([i \in DOMAIN report["prometheus"] |->
                                          report["prometheus"][i].sample], Metric, NodeSet)
    BY DEF ReportComplete
  <2>1. \A k \in Kinds : Sound(k, report[k])
    BY DEF IInv, ReportInv
  <2>2. \A k \in Kinds :
          /\ Len(report[k]) = Cardinality(AllOf(k))
          /\ \A j \in Jobs : kind[j] = k => ToSet(ItemsOf(j)) \subseteq ToSet(report[k])
    BY DEF CompleteInv
  <2>3. PagesAgree(report)
    BY <2>1, PagesOfSound
  <2> DEFINE S == UNION {ToSet(s) : s \in Samples}
             samples == [i \in DOMAIN report["prometheus"] |-> report["prometheus"][i].sample]
  <2>4. samples \in Seq(S)
    BY <2>1, SamplesOf DEF Kinds, ClusterKinds
  <2>5. \A x \in S : x.value \in Int
    BY InspectionAssumption DEF ToSet
  <2>6. IsFiniteSet(NodeSet)
    BY InspectionAssumption
  <2> HIDE DEF S, samples
  <2>7. AnswerAgrees(samples, Metric, NodeSet)
    BY <2>4, <2>5, <2>6, AnswerOfSamples
  <2> QED BY <2>2, <2>3, <2>7 DEF samples
<1>2. Spec => []IInv
  BY InspectionInvariant
<1>3. Spec => []CompleteInv
  BY InspectionMerged
<1> QED BY <1>1, <1>2, <1>3, PTL
=============================================================================
