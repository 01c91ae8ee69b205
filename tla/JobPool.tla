------------------------------ MODULE JobPool ------------------------------
(***************************************************************************)
(* createJobsInspect of pkg/controllers/inspecttask_controller.go: one     *)
(* goroutine per job rule, at most Capacity of them at a time, each of     *)
(* which creates a Kubernetes Job, polls it, and then, under a mutex,      *)
(* merges the Job's result ConfigMap into the report file.                 *)
(*                                                                         *)
(* The Jobs themselves (`ke create job`, cmd/ke/ctl/create/job.go), the    *)
(* Job controller of Kubernetes and the clock are the environment.         *)
(*                                                                         *)
(* An append to jobNames is two steps, because three of the five appends  *)
(* in the code are made without the mutex: Go reads the slice, then writes *)
(* it.  Appends that overlap are a data race.                              *)
(***************************************************************************)
EXTENDS Integers, FiniteSets

CONSTANTS
    Rules,       \* the job rules of the task (jobRules)
    Known,       \* the ones whose type is in inspect.RuleOperatorMap
    Opa,         \* the ones of type opa, which are dispatched last
    Unreadable,  \* the ones whose result data GetResult cannot unmarshal
    Nodes,       \* the nodes of the cluster
    Target,      \* Target[r]: the node r is pinned to, or AnyNode
    AnyNode,
    MinDeploy,   \* the least capacity of the semaphore (5 in the code)
    None         \* no goroutine

ASSUME RulesAssumption ==
    /\ IsFiniteSet(Rules) /\ IsFiniteSet(Nodes)
    /\ Known \subseteq Rules /\ Opa \subseteq Rules /\ Unreadable \subseteq Rules
    /\ Target \in [Rules -> Nodes \cup {AnyNode}]
    /\ AnyNode \notin Nodes /\ None \notin Rules

ASSUME MinDeployAssumption == MinDeploy \in Nat \ {0}

VARIABLES
    nodes,       \* what kube.GetNodes returned: every node, or none on error
    ready,       \* the nodes of it that were Ready
    returned,    \* createJobsInspect has returned
    pc,          \* where the goroutine of each rule is
    sem,         \* slots of the semaphore channel in use
    wg,          \* the WaitGroup's counter
    mutex,       \* the goroutine that holds the mutex, or None
    jobNames,    \* the records <<rule, phase>> collected so far
    raced,       \* goroutines whose append in progress overlaps another
    racy,        \* history: some appends have overlapped (no action reads it)
    phase,       \* phase[r]: what waitForJobCompletionGetResult returned
    resultData,  \* the rules merged into the shared InspectResult
    buf,         \* buf[r]: the marshalled InspectResult about to be written
    file,        \* the rules in the report file
    fileOK,      \* the last write of the report file succeeded
    job,         \* job[r]: the Job object of r
    cm,          \* cm[r]: the result ConfigMap of r
    taskExpired, \* isTimeout(task.CreationTimestamp)
    jobExpired   \* the rules r with isTimeout(jobInfo.CreationTimestamp)

poolVars == <<nodes, ready, returned, sem, wg>>
recVars  == <<jobNames, raced, racy>>
repVars  == <<resultData, buf, file, fileOK>>
envVars  == <<job, cm, taskExpired, jobExpired>>
vars == <<poolVars, pc, mutex, recVars, phase, repVars, envVars>>

-----------------------------------------------------------------------------
(* Types                                                                   *)

PcLabel == {"idle", "start", "create", "wait", "lock", "record", "fetch",
            "marshal", "write", "clean", "err", "unlock", "fail", "done",
            "release", "exited"}

(* Labels of a goroutine in the middle of an append to jobNames: without   *)
(* the mutex (lines 367, 376, 391), and with it (lines 382, 386).          *)
Appending == {"fail", "record", "err"}

(* Labels between mutex.Lock and mutex.Unlock.                             *)
Locked == {"record", "fetch", "marshal", "write", "clean", "err", "unlock"}

(* Labels at which wg.Done has not run, and at which a slot is held.       *)
Running == PcLabel \ {"idle", "release", "exited"}
Holding == PcLabel \ {"idle", "exited"}

Phase  == {"Running", "Succeeded", "Failed"}
Record == Rules \X Phase
JobState == {"none", "active", "complete", "failed", "gone"}
CmState  == {"none", "stored", "deleted"}

Larger(a, b) == IF a > b THEN a ELSE b

(* math.Round of a positive number is the floor of it plus one half.       *)
computedDeployNum(nodeNum, jobRulesNum) ==
    Larger(MinDeploy, (10 * nodeNum + jobRulesNum + 5) \div 10)

Capacity == computedDeployNum(Cardinality(nodes), Cardinality(Rules))

Init ==
    /\ nodes \in {Nodes, {}}
    /\ ready \in SUBSET nodes
    /\ returned = FALSE
    /\ pc = [r \in Rules |-> "idle"]
    /\ sem = 0 /\ wg = 0 /\ mutex = None
    /\ jobNames = {} /\ raced = {} /\ racy = FALSE
    /\ phase = [r \in Rules |-> "Running"]
    /\ resultData = {} /\ file = {} /\ fileOK = TRUE
    /\ buf = [r \in Rules |-> {}]
    /\ job = [r \in Rules |-> "none"]
    /\ cm = [r \in Rules |-> "none"]
    /\ taskExpired = FALSE /\ jobExpired = {}

-----------------------------------------------------------------------------
(* Appending to jobNames                                                   *)

Goto(r, label) == pc' = [pc EXCEPT ![r] = label]

Overlapping(r) == {q \in Rules \ {r} : pc[q] \in Appending}

(* The read half.  A goroutine that starts while another is between its    *)
(* read and its write races with it, and the other one with it.            *)
BeginAppend(r, label) ==
    /\ Goto(r, label)
    /\ IF Overlapping(r) = {} THEN UNCHANGED <<raced, racy>>
       ELSE /\ raced' = raced \cup {r} \cup Overlapping(r)
            /\ racy' = TRUE
    /\ UNCHANGED jobNames

(* The write half.  After a race any earlier record may be missing: the    *)
(* slice header of one goroutine replaces that of another, or both write   *)
(* the same element of the backing array.                                  *)
EndAppend(r, p, label) ==
    /\ Goto(r, label)
    /\ \E kept \in (IF r \in raced THEN SUBSET jobNames ELSE {jobNames}) :
         jobNames' = kept \cup {<<r, p>>}
    /\ raced' = raced \ {r}
    /\ UNCHANGED racy

(* A step that only moves on, and one that also starts an append.          *)
Jump(r, from, to) ==
    /\ pc[r] = from /\ Goto(r, to)
    /\ UNCHANGED <<poolVars, mutex, recVars, phase, repVars, envVars>>

BeginRecord(r, from, to) ==
    /\ pc[r] = from /\ BeginAppend(r, to)
    /\ UNCHANGED <<poolVars, mutex, phase, repVars, envVars>>

-----------------------------------------------------------------------------
(* The dispatcher: the loop of createJobsInspect, and wg.Wait              *)

(* Faulty variants for the mutation of Dispatch: wg.Add(1) is missing; the *)
(* send on the semaphore is missing.                                       *)
DispatchNoAdd(r) ==
    /\ ~returned /\ pc[r] = "idle" /\ sem < Capacity
    /\ sem' = sem + 1 /\ wg' = wg
    /\ Goto(r, "start")
    /\ UNCHANGED <<nodes, ready, returned, mutex, recVars, phase, repVars, envVars>>

DispatchNoSlot(r) ==
    /\ ~returned /\ pc[r] = "idle"
    /\ wg' = wg + 1 /\ sem' = sem + 1
    /\ Goto(r, "start")
    /\ UNCHANGED <<nodes, ready, returned, mutex, recVars, phase, repVars, envVars>>

(* wg.Add(1), then semaphore <- struct{}{}, then go func.  Only the        *)
(* dispatcher reads wg, so the three are one step.                         *)
Dispatch(r) ==
    /\ ~returned
    /\ pc[r] = "idle"
    /\ r \in Opa => \A q \in Rules \ Opa : pc[q] # "idle"
    /\ sem < Capacity
    /\ wg' = wg + 1 /\ sem' = sem + 1
    /\ Goto(r, "start")
    /\ UNCHANGED <<nodes, ready, returned, mutex, recVars, phase, repVars, envVars>>

(* Faulty variant: wg.Wait() is missing.                                   *)
ReturnNoWait ==
    /\ ~returned /\ \A r \in Rules : pc[r] # "idle"
    /\ returned' = TRUE
    /\ UNCHANGED <<nodes, ready, sem, wg, pc, mutex, recVars, phase, repVars, envVars>>

Return ==
    /\ ~returned
    /\ \A r \in Rules : pc[r] # "idle"
    /\ wg = 0
    /\ returned' = TRUE
    /\ UNCHANGED <<nodes, ready, sem, wg, pc, mutex, recVars, phase, repVars, envVars>>

-----------------------------------------------------------------------------
(* A goroutine, up to the mutex                                            *)

(* checkJobIsDeploy.  The list getIncompleteJob passes to it is always     *)
(* empty: it selects pods by a label that only the Job carries, not its    *)
(* pods (job_template.go:26 and :36), so the test on it never fails.       *)
checkJobIsDeploy(r) ==
    /\ ready # {}
    /\ Target[r] = AnyNode \/ Target[r] \in ready

StartExpired(r) ==
    /\ taskExpired
    /\ BeginRecord(r, "start", "fail")

StartUnknown(r) ==
    /\ ~taskExpired /\ r \notin Known
    /\ Jump(r, "start", "done")

StartUndeployable(r) ==
    /\ ~taskExpired /\ r \in Known
    /\ ~checkJobIsDeploy(r)
    /\ BeginRecord(r, "start", "fail")

StartDeployable(r) ==
    /\ ~taskExpired /\ r \in Known
    /\ checkJobIsDeploy(r)
    /\ Jump(r, "start", "create")

(* createInspectJob.  It fails when the rule is empty or the API rejects   *)
(* the Job.                                                                *)
CreateJob(r) ==
    /\ pc[r] = "create"
    /\ job' = [job EXCEPT ![r] = "active"]
    /\ Goto(r, "wait")
    /\ UNCHANGED <<poolVars, mutex, recVars, phase, repVars, cm, taskExpired, jobExpired>>

CreateJobFails(r) == BeginRecord(r, "create", "fail")

RecordFailure(r) ==
    /\ pc[r] = "fail"
    /\ EndAppend(r, "Failed", "done")
    /\ UNCHANGED <<poolVars, mutex, phase, repVars, envVars>>

(* waitForJobCompletionGetResult: one pass of its loop that returns.  A    *)
(* pass that finds the Job active sleeps and changes nothing.              *)
Waited(r, p) ==
    /\ phase' = [phase EXCEPT ![r] = p]
    /\ Goto(r, "lock")
    /\ UNCHANGED <<poolVars, mutex, recVars, repVars, cm, taskExpired, jobExpired>>

(* The Get fails: the Job is gone (Kubernetes removes it 30 s after it     *)
(* finished), or the API server does not answer.                           *)
PollGone(r) ==
    /\ pc[r] = "wait" /\ job[r] = "gone"
    /\ Waited(r, "Failed") /\ UNCHANGED job

PollApiError(r) ==
    /\ pc[r] = "wait" /\ job[r] # "gone"
    /\ Waited(r, "Failed") /\ UNCHANGED job

(* Faulty variant: the wait has no timeout.                                *)
PollExpiredNever(r) == FALSE

(* isTimeout(jobInfo.CreationTimestamp): the Job is left running.          *)
PollExpired(r) ==
    /\ pc[r] = "wait" /\ job[r] # "gone" /\ r \in jobExpired
    /\ Waited(r, "Failed") /\ UNCHANGED job

PollFailed(r) ==
    /\ pc[r] = "wait" /\ job[r] = "failed" /\ r \notin jobExpired
    /\ Waited(r, "Failed") /\ UNCHANGED job

(* The Job has completed: it is deleted, and a failed Delete is logged.    *)
PollComplete(r) ==
    /\ pc[r] = "wait" /\ job[r] = "complete" /\ r \notin jobExpired
    /\ Waited(r, "Succeeded")
    /\ job' \in {[job EXCEPT ![r] = "gone"], job}

-----------------------------------------------------------------------------
(* A goroutine, with the mutex                                             *)

(* Faulty variant: mutex.Lock() is missing.                                *)
LockNothing(r) == BeginRecord(r, "lock", "record")

Lock(r) ==
    /\ pc[r] = "lock" /\ mutex = None
    /\ mutex' = r
    /\ BeginAppend(r, "record")
    /\ UNCHANGED <<poolVars, phase, repVars, envVars>>

RecordResult(r) ==
    /\ pc[r] = "record"
    /\ EndAppend(r, phase[r], "fetch")
    /\ UNCHANGED <<poolVars, mutex, phase, repVars, envVars>>

(* Faulty variant: the error of getInspectResultData is only logged.       *)
FetchFailsLogged(r) == Jump(r, "fetch", "unlock")

(* getInspectResultData: Get of the ConfigMap fails.                       *)
FetchFails(r) == BeginRecord(r, "fetch", "err")

(* GetResult merges the data into resultData; its error is only logged.    *)
Merge(r) ==
    /\ pc[r] = "fetch" /\ cm[r] = "stored"
    /\ resultData' = IF r \in Unreadable THEN resultData ELSE resultData \cup {r}
    /\ UNCHANGED <<poolVars, mutex, phase, buf, file, fileOK, envVars>>

Fetch(r) == Merge(r) /\ Goto(r, "marshal") /\ UNCHANGED recVars

(* The list of nodes or of pods fails after the merge.                     *)
FetchListFails(r) == Merge(r) /\ BeginAppend(r, "err")

(* Faulty variant: the error of saveResultFile is only logged.             *)
OpenFailsLogged(r) == Jump(r, "marshal", "clean")

(* saveResultFile: the file is opened without O_TRUNC, ...                 *)
OpenFails(r) == BeginRecord(r, "marshal", "err")

Marshal(r) ==
    /\ pc[r] = "marshal"
    /\ buf' = [buf EXCEPT ![r] = resultData]
    /\ Goto(r, "write")
    /\ UNCHANGED <<poolVars, mutex, recVars, phase, resultData, file, fileOK, envVars>>

(* ... and written from its start.  A failed Write is only logged.         *)
Write(r) ==
    /\ pc[r] = "write"
    /\ \/ file' = buf[r] /\ fileOK' = TRUE
       \/ file' = file /\ fileOK' = FALSE
    /\ buf' = [buf EXCEPT ![r] = {}]
    /\ Goto(r, "clean")
    /\ UNCHANGED <<poolVars, mutex, recVars, phase, resultData, envVars>>

DeleteConfigMap(r) ==
    /\ pc[r] = "clean"
    /\ cm' = [cm EXCEPT ![r] = "deleted"]
    /\ Goto(r, "unlock")
    /\ UNCHANGED <<poolVars, mutex, recVars, phase, repVars, job, taskExpired, jobExpired>>

(* Faulty variant: the error of the Delete is only logged.                 *)
DeleteConfigMapFailsLogged(r) == Jump(r, "clean", "unlock")

DeleteConfigMapFails(r) == BeginRecord(r, "clean", "err")

RecordError(r) ==
    /\ pc[r] = "err"
    /\ EndAppend(r, "Failed", "unlock")
    /\ UNCHANGED <<poolVars, mutex, phase, repVars, envVars>>

Unlock(r) ==
    /\ pc[r] = "unlock"
    /\ mutex' = None
    /\ Goto(r, "done")
    /\ UNCHANGED <<poolVars, recVars, phase, repVars, envVars>>

(* The deferred function: wg.Done(), then <-semaphore.                     *)
Done(r) ==
    /\ pc[r] = "done"
    /\ wg' = wg - 1
    /\ Goto(r, "release")
    /\ UNCHANGED <<nodes, ready, returned, sem, mutex, recVars, phase, repVars, envVars>>

Release(r) ==
    /\ pc[r] = "release"
    /\ sem' = sem - 1
    /\ Goto(r, "exited")
    /\ UNCHANGED <<nodes, ready, returned, wg, mutex, recVars, phase, repVars, envVars>>

-----------------------------------------------------------------------------
(* The environment                                                         *)

(* A pod of the Job runs `ke create job`: its last step creates the result *)
(* ConfigMap.  A pod that finds one there fails and changes nothing.       *)
PodStoresResult(r) ==
    /\ job[r] = "active" /\ cm[r] # "stored"
    /\ cm' = [cm EXCEPT ![r] = "stored"]
    /\ UNCHANGED <<poolVars, pc, mutex, recVars, phase, repVars, job, taskExpired, jobExpired>>

JobBecomes(r, state) ==
    /\ job' = [job EXCEPT ![r] = state]
    /\ UNCHANGED <<poolVars, pc, mutex, recVars, phase, repVars, cm, taskExpired, jobExpired>>

(* The pod exits with 0 only after its ConfigMap was created.              *)
JobCompletes(r) == job[r] = "active" /\ cm[r] # "none" /\ JobBecomes(r, "complete")

(* Every pod failed, backLimit retries included; one of them may have      *)
(* stored its result before it failed.                                     *)
JobFails(r) == job[r] = "active" /\ JobBecomes(r, "failed")

(* TTLSecondsAfterFinished.                                                *)
JobExpunged(r) == job[r] \in {"complete", "failed"} /\ JobBecomes(r, "gone")

TaskExpires ==
    /\ ~taskExpired /\ taskExpired' = TRUE
    /\ UNCHANGED <<poolVars, pc, mutex, recVars, phase, repVars, job, cm, jobExpired>>

(* A Job is created after its task and has the same timeout, so it expires *)
(* after it; only the goroutine that waits for it looks at its age.        *)
JobExpires(r) ==
    /\ taskExpired /\ pc[r] = "wait" /\ job[r] # "none" /\ r \notin jobExpired
    /\ jobExpired' = jobExpired \cup {r}
    /\ UNCHANGED <<poolVars, pc, mutex, recVars, phase, repVars, job, cm, taskExpired>>

-----------------------------------------------------------------------------
(* The specification                                                       *)

BeforeMutex(r) ==
    \/ StartExpired(r) \/ StartUnknown(r) \/ StartUndeployable(r) \/ StartDeployable(r)
    \/ CreateJob(r) \/ CreateJobFails(r) \/ RecordFailure(r)
    \/ PollGone(r) \/ PollExpired(r) \/ PollFailed(r) \/ PollComplete(r)

WithMutex(r) ==
    \/ Lock(r) \/ RecordResult(r)
    \/ Fetch(r) \/ FetchFails(r) \/ FetchListFails(r)
    \/ OpenFails(r) \/ Marshal(r) \/ Write(r)
    \/ DeleteConfigMap(r) \/ DeleteConfigMapFails(r) \/ RecordError(r) \/ Unlock(r)

Goroutine(r) == BeforeMutex(r) \/ WithMutex(r) \/ Done(r) \/ Release(r)

Dispatcher == Return \/ \E r \in Rules : Dispatch(r)

Environment(r) ==
    PodStoresResult(r) \/ JobCompletes(r) \/ JobFails(r) \/ JobExpunged(r) \/ JobExpires(r)

Next ==
    \/ Dispatcher
    \/ TaskExpires
    \/ \E r \in Rules : Goroutine(r) \/ PollApiError(r) \/ Environment(r)

Spec == Init /\ [][Next]_vars

(* While a goroutine can go on or a timeout is to come, one of them does.  *)
(* No more is needed: every goroutine ends, so none is passed over for     *)
(* ever.  Nothing is assumed of the Jobs, which may hang, and the poll's   *)
(* API error is never forced.                                              *)
Progress == Dispatcher \/ TaskExpires \/ \E r \in Rules : Goroutine(r) \/ JobExpires(r)

Fairness == WF_vars(Progress)

FairSpec == Spec /\ Fairness

-----------------------------------------------------------------------------
(* Properties                                                              *)

TypeOK ==
    /\ nodes \in SUBSET Nodes /\ ready \in SUBSET nodes
    /\ returned \in BOOLEAN
    /\ pc \in [Rules -> PcLabel]
    /\ sem \in Nat /\ wg \in Nat
    /\ mutex \in Rules \cup {None}
    /\ jobNames \in SUBSET Record /\ raced \in SUBSET Rules /\ racy \in BOOLEAN
    /\ phase \in [Rules -> Phase]
    /\ resultData \in SUBSET Rules /\ file \in SUBSET Rules /\ fileOK \in BOOLEAN
    /\ buf \in [Rules -> SUBSET Rules]
    /\ job \in [Rules -> JobState] /\ cm \in [Rules -> CmState]
    /\ taskExpired \in BOOLEAN /\ jobExpired \in SUBSET Rules

(* GetStatus: no record, or a Failed one, makes the task Failed.           *)
GetStatus(records) ==
    IF records = {} \/ \E rec \in records : rec[2] = "Failed"
    THEN "Failed" ELSE "Succeeded"

(* createJobsInspect: never more goroutines alive than the semaphore has   *)
(* slots, whatever path each of them leaves by.                            *)
PoolBound == Cardinality({r \in Rules : pc[r] \in Holding}) <= Capacity

(* createJobsInspect: what the caller was given is final.  No goroutine    *)
(* touches the records, the shared result or the report file after         *)
(* wg.Wait has let createJobsInspect return.                               *)
FinalWhenReturned ==
    [][returned => UNCHANGED <<jobNames, resultData, file, fileOK>>]_vars

(* saveResultFile opens the report without O_TRUNC: a write that does not  *)
(* cover what the file holds would leave the tail of the old report behind *)
(* the new one.  No write drops a rule that an earlier write put there.    *)
ReportGrows == [][file \subseteq file']_vars

(* getInspectResultData: a result ConfigMap is deleted only when its data  *)
(* is in the report file, unless the last write of the file failed (which  *)
(* saveResultFile only logs).                                              *)
CollectedIsReported ==
    \A r \in Rules \ Unreadable : cm[r] = "deleted" /\ fileOK => r \in file

(* GetStatus: a task whose records make it Succeeded has the data of every *)
(* job in its report, unless two appends raced or the last write failed.   *)
VerdictSound ==
    returned /\ ~racy /\ GetStatus(jobNames) = "Succeeded"
        => \A r \in Known : r \in Unreadable \/ (fileOK => r \in file)

(* A result ConfigMap the pool leaves behind, or that a late pod stores    *)
(* after the pool gave its Job up, belongs to a job recorded as Failed.    *)
LeftoverIsFailed ==
    returned /\ ~racy
        => \A r \in Rules : cm[r] = "stored" => <<r, "Failed">> \in jobNames

(* createJobsInspect returns and frees every slot even when no Job ever    *)
(* finishes: the timeouts end every wait.                                  *)
PoolDrains == <>(returned /\ \A r \in Rules : pc[r] = "exited")

=============================================================================
