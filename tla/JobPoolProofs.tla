--------------------------- MODULE JobPoolProofs ---------------------------
(***************************************************************************)
(* Proofs about JobPool, for any number of rules, nodes and slots.         *)
(***************************************************************************)
EXTENDS JobPool, FiniteSetTheorems, TLAPS

-----------------------------------------------------------------------------
(* The inductive invariant                                                 *)

Alive == {r \in Rules : pc[r] \in Holding}
Busy  == {r \in Rules : pc[r] \in Running}

(* The semaphore and the WaitGroup count what they are meant to count.     *)
CountInv ==
    /\ sem = Cardinality(Alive) /\ sem <= Capacity
    /\ wg = Cardinality(Busy)
    /\ returned => \A r \in Rules : pc[r] \in {"release", "exited"}

(* The goroutine that holds the mutex is the one between Lock and Unlock.  *)
MutexInv == \A r \in Rules : pc[r] \in Locked <=> mutex = r

(* The report lags behind resultData, which keeps whatever was collected.  *)
ReportInv ==
    /\ file \subseteq resultData
    /\ \A r \in Rules : pc[r] = "write" => buf[r] = resultData
    /\ \A r \in Rules \ Unreadable :
         pc[r] \in {"marshal", "write", "clean"} \/ cm[r] = "deleted"
            => r \in resultData
    /\ fileOK => \A r \in Rules \ Unreadable :
                    pc[r] = "clean" \/ cm[r] = "deleted" => r \in file

(* Where a Job comes from, and what it leaves.                             *)
JobInv ==
    \A r \in Rules :
        /\ pc[r] \in {"idle", "start", "create", "fail"} \/ r \notin Known
              => job[r] = "none"
        /\ job[r] = "none" => cm[r] = "none"
        /\ pc[r] \in Locked \cup {"lock"}
              => \/ phase[r] = "Failed"
                 \/ phase[r] = "Succeeded" /\ job[r] \in {"complete", "gone"}
        /\ pc[r] \in {"create", "wait", "lock"} \cup Locked => r \in Known
        /\ pc[r] \in {"wait", "lock"} \cup Locked => job[r] # "none"

(* Without a race every goroutine leaves its record.                       *)
RecordInv ==
    ~racy =>
        /\ raced = {}
        /\ \A r \in Rules :
             /\ pc[r] \in {"fetch", "marshal", "write", "clean", "err"}
                   => <<r, phase[r]>> \in jobNames
             /\ pc[r] \in {"unlock", "done", "release", "exited"}
                   => \/ <<r, "Failed">> \in jobNames
                      \/ r \notin Known
                      \/ cm[r] = "deleted" /\ job[r] \in {"complete", "gone"}

IInv == TypeOK /\ CountInv /\ MutexInv /\ ReportInv /\ JobInv /\ RecordInv

-----------------------------------------------------------------------------
(* Types                                                                   *)

(* computedDeployNum gives the semaphore at least one slot.                *)
LEMMA CapacityType ==
    ASSUME TypeOK
    PROVE  Capacity \in Nat /\ Capacity > 0
<1>1. IsFiniteSet(nodes)
  BY FS_Subset, RulesAssumption DEF TypeOK
<1>2. Cardinality(nodes) \in Nat /\ Cardinality(Rules) \in Nat
  BY <1>1, FS_CardinalityType, RulesAssumption
<1> QED
  BY <1>2, MinDeployAssumption, SMT DEF Capacity, computedDeployNum, Larger

(* Every step keeps pc where it is, moves one goroutine between labels at  *)
(* which it is counted by both counters, or is one of the four steps that  *)
(* change a counter or return.                                             *)
Moves(r) ==
    /\ pc[r] \in Running
    /\ \E label \in Running : pc' = [pc EXCEPT ![r] = label]
    /\ UNCHANGED poolVars

(* Every step of the pool is one of the kinds of steps that follow.        *)
LEMMA StepKinds ==
    ASSUME TypeOK, Next
    PROVE  \/ UNCHANGED <<pc, poolVars>>
           \/ \E r \in Rules : Moves(r) \/ Dispatch(r) \/ Done(r) \/ Release(r)
           \/ Return
<1>1. ASSUME NEW r \in Rules, BeforeMutex(r) PROVE Moves(r)
  BY <1>1 DEF BeforeMutex, StartExpired, StartUnknown, StartUndeployable,
     StartDeployable, CreateJob, CreateJobFails, RecordFailure, PollGone,
     PollExpired, PollFailed, PollComplete, Waited, Jump, BeginRecord,
     BeginAppend, EndAppend, Goto, Moves, Running, PcLabel
<1>2. ASSUME NEW r \in Rules, WithMutex(r) PROVE Moves(r)
  BY <1>2 DEF WithMutex, Lock, RecordResult, Fetch, FetchFails, FetchListFails,
     Merge, OpenFails, Marshal, Write, DeleteConfigMap, DeleteConfigMapFails,
     RecordError, Unlock, BeginRecord, BeginAppend, EndAppend, Goto, Moves,
     Running, PcLabel
<1>3. ASSUME NEW r \in Rules, PollApiError(r) PROVE Moves(r)
  BY <1>3 DEF PollApiError, Waited, Goto, Moves, Running, PcLabel
<1>4. ASSUME NEW r \in Rules, Environment(r) PROVE UNCHANGED <<pc, poolVars>>
  BY <1>4 DEF Environment, PodStoresResult, JobCompletes, JobFails, JobExpunged,
     JobExpires, JobBecomes
<1>5. ASSUME TaskExpires PROVE UNCHANGED <<pc, poolVars>>
  BY <1>5 DEF TaskExpires
<1> QED
  BY <1>1, <1>2, <1>3, <1>4, <1>5 DEF Next, Dispatcher, Goroutine

-----------------------------------------------------------------------------
(* The counters                                                            *)

(* A goroutine that a counter counts makes it positive.                    *)
LEMMA BusyIsCounted ==
    ASSUME TypeOK, CountInv, NEW r \in Rules
    PROVE  /\ pc[r] \in Running => wg > 0
           /\ pc[r] \in Holding => sem > 0
<1>1. IsFiniteSet(Alive) /\ IsFiniteSet(Busy)
  BY FS_Subset, RulesAssumption DEF Alive, Busy
<1>2. ASSUME pc[r] \in Running PROVE wg > 0
  <2>1. Busy # {}
    BY <1>2 DEF Busy
  <2> QED
    BY <1>1, <2>1, FS_EmptySet, FS_CardinalityType DEF CountInv
<1>3. ASSUME pc[r] \in Holding PROVE sem > 0
  <2>1. Alive # {}
    BY <1>3 DEF Alive
  <2> QED
    BY <1>1, <2>1, FS_EmptySet, FS_CardinalityType DEF CountInv
<1> QED
  BY <1>2, <1>3

(* The semaphore and the WaitGroup count the goroutines that use them.     *)
LEMMA CountStep ==
    ASSUME TypeOK, CountInv, Next
    PROVE  CountInv'
<1>1. IsFiniteSet(Alive) /\ IsFiniteSet(Busy)
  BY FS_Subset, RulesAssumption DEF Alive, Busy
<1>2. CASE UNCHANGED <<pc, poolVars>>
  BY <1>2 DEF CountInv, Alive, Busy, poolVars, Capacity
<1>3. ASSUME NEW r \in Rules, Moves(r) PROVE CountInv'
  <2>1. Alive' = Alive /\ Busy' = Busy
    BY <1>3 DEF Moves, Alive, Busy, Running, Holding, TypeOK
  <2>2. ~returned'
    BY <1>3 DEF Moves, CountInv, Running, poolVars
  <2> QED
    BY <1>3, <2>1, <2>2 DEF Moves, CountInv, poolVars, Capacity
<1>4. ASSUME NEW r \in Rules, Dispatch(r) PROVE CountInv'
  <2>1. /\ Alive' = Alive \cup {r} /\ r \notin Alive
        /\ Busy' = Busy \cup {r} /\ r \notin Busy
    BY <1>4 DEF Dispatch, Goto, Alive, Busy, Running, Holding, PcLabel, TypeOK
  <2>2. Cardinality(Alive') = sem + 1 /\ Cardinality(Busy') = wg + 1
    BY <1>1, <2>1, FS_AddElement DEF CountInv
  <2>3. Capacity' = Capacity /\ Capacity \in Nat
    BY <1>4, CapacityType DEF Dispatch, Capacity
  <2> QED
    BY <1>4, <2>2, <2>3 DEF Dispatch, CountInv, TypeOK
<1>5. ASSUME NEW r \in Rules, Done(r) PROVE CountInv'
  <2>1. Alive' = Alive /\ Busy' = Busy \ {r} /\ r \in Busy
    BY <1>5 DEF Done, Goto, Alive, Busy, Running, Holding, PcLabel, TypeOK
  <2>2. Cardinality(Busy') = wg - 1
    BY <1>1, <2>1, FS_RemoveElement DEF CountInv
  <2>3. ~returned'
    BY <1>5 DEF Done, CountInv
  <2> QED
    BY <1>5, <2>1, <2>2, <2>3 DEF Done, CountInv, Capacity
<1>6. ASSUME NEW r \in Rules, Release(r) PROVE CountInv'
  <2>1. Busy' = Busy /\ Alive' = Alive \ {r} /\ r \in Alive
    BY <1>6 DEF Release, Goto, Alive, Busy, Running, Holding, PcLabel, TypeOK
  <2>2. Cardinality(Alive') = sem - 1
    BY <1>1, <2>1, FS_RemoveElement DEF CountInv
  <2>3. Capacity' = Capacity /\ Capacity \in Nat
    BY <1>6, CapacityType DEF Release, Capacity
  <2>4. returned' => \A q \in Rules : pc'[q] \in {"release", "exited"}
    BY <1>6 DEF Release, Goto, CountInv, TypeOK
  <2> QED
    BY <1>6, <2>1, <2>2, <2>3, <2>4 DEF Release, CountInv, TypeOK
<1>7. ASSUME Return PROVE CountInv'
  <2>1. Busy = {}
    BY <1>1, <1>7, FS_EmptySet DEF Return, CountInv
  <2>2. \A r \in Rules : pc[r] \in {"release", "exited"}
    BY <1>7, <2>1 DEF Return, Busy, Running, TypeOK
  <2> QED
    BY <1>7, <2>2 DEF Return, CountInv, Alive, Busy, Capacity
<1> QED
  BY <1>2, <1>3, <1>4, <1>5, <1>6, <1>7, StepKinds

-----------------------------------------------------------------------------
(* Type correctness                                                        *)

(* The two halves of an append keep jobNames a set of records.             *)
LEMMA AppendType ==
    ASSUME TypeOK, NEW r \in Rules, NEW label \in PcLabel,
           \/ BeginAppend(r, label)
           \/ \E p \in Phase : EndAppend(r, p, label)
    PROVE  /\ pc' \in [Rules -> PcLabel]
           /\ jobNames' \in SUBSET Record
           /\ raced' \in SUBSET Rules
           /\ racy' \in BOOLEAN
<1>1. CASE BeginAppend(r, label)
  BY <1>1 DEF BeginAppend, Overlapping, Goto, TypeOK
<1>2. ASSUME NEW p \in Phase, EndAppend(r, p, label)
      PROVE  /\ pc' \in [Rules -> PcLabel]
             /\ jobNames' \in SUBSET Record
             /\ raced' \in SUBSET Rules
             /\ racy' \in BOOLEAN
  <2>1. <<r, p>> \in Record
    BY DEF Record
  <2>2. PICK kept \in (IF r \in raced THEN SUBSET jobNames ELSE {jobNames}) :
            jobNames' = kept \cup {<<r, p>>}
    BY <1>2 DEF EndAppend
  <2>3. kept \subseteq jobNames
    BY <2>2
  <2> QED
    BY <1>2, <2>1, <2>2, <2>3 DEF EndAppend, Goto, TypeOK
<1> QED
  BY <1>1, <1>2

(* Every step keeps the types.                                             *)
LEMMA TypeStep ==
    ASSUME TypeOK, CountInv, Next
    PROVE  TypeOK'
<1> USE DEF poolVars, recVars, repVars, envVars
<1>1. ASSUME NEW r \in Rules, Dispatch(r) PROVE TypeOK'
  BY <1>1 DEF Dispatch, Goto, TypeOK, PcLabel
<1>2. ASSUME Return PROVE TypeOK'
  BY <1>2 DEF Return, TypeOK
<1>3. ASSUME TaskExpires PROVE TypeOK'
  BY <1>3 DEF TaskExpires, TypeOK
<1>4. ASSUME NEW r \in Rules, NEW from, NEW to \in PcLabel, Jump(r, from, to)
      PROVE  TypeOK'
  BY <1>4 DEF Jump, Goto, TypeOK
<1>5. ASSUME NEW r \in Rules, NEW from, NEW to \in PcLabel, BeginRecord(r, from, to)
      PROVE  TypeOK'
  BY <1>5, AppendType DEF BeginRecord, TypeOK
<1>6. ASSUME NEW r \in Rules, NEW p \in Phase, Waited(r, p),
             job' \in [Rules -> JobState]
      PROVE  TypeOK'
  BY <1>6 DEF Waited, Goto, TypeOK, PcLabel
<1>7. ASSUME NEW r \in Rules, BeforeMutex(r) \/ PollApiError(r) PROVE TypeOK'
  <2>1. CASE StartExpired(r) \/ StartUndeployable(r) \/ CreateJobFails(r)
    BY <1>5, <2>1 DEF StartExpired, StartUndeployable, CreateJobFails, PcLabel
  <2>2. CASE StartUnknown(r) \/ StartDeployable(r)
    BY <1>4, <2>2 DEF StartUnknown, StartDeployable, PcLabel
  <2>3. CASE CreateJob(r)
    BY <2>3 DEF CreateJob, Goto, TypeOK, PcLabel, JobState
  <2>4. CASE RecordFailure(r)
    BY <2>4, AppendType DEF RecordFailure, TypeOK, PcLabel, Phase
  <2>5. CASE PollGone(r) \/ PollExpired(r) \/ PollFailed(r) \/ PollApiError(r)
    BY <1>6, <2>5 DEF PollGone, PollExpired, PollFailed, PollApiError, TypeOK, Phase
  <2>6. CASE PollComplete(r)
    BY <1>6, <2>6 DEF PollComplete, TypeOK, Phase, JobState
  <2> QED
    BY <1>7, <2>1, <2>2, <2>3, <2>4, <2>5, <2>6 DEF BeforeMutex
<1>8. ASSUME NEW r \in Rules, WithMutex(r) PROVE TypeOK'
  <2>1. CASE Lock(r)
    BY <2>1, AppendType DEF Lock, TypeOK, PcLabel
  <2>2. CASE RecordResult(r) \/ RecordError(r)
    <3>1. phase[r] \in Phase /\ "Failed" \in Phase
      BY DEF TypeOK, Phase
    <3> QED
      BY <2>2, <3>1, AppendType DEF RecordResult, RecordError, TypeOK, PcLabel
  <2>3. CASE FetchFails(r) \/ OpenFails(r) \/ DeleteConfigMapFails(r)
    BY <1>5, <2>3 DEF FetchFails, OpenFails, DeleteConfigMapFails, PcLabel
  <2>4. CASE FetchListFails(r)
    BY <2>4, AppendType DEF FetchListFails, Merge, TypeOK, PcLabel
  <2>5. CASE Fetch(r)
    BY <2>5 DEF Fetch, Merge, Goto, TypeOK, PcLabel
  <2>6. CASE Marshal(r) \/ Write(r) \/ Unlock(r)
    BY <2>6 DEF Marshal, Write, Unlock, Goto, TypeOK, PcLabel
  <2>7. CASE DeleteConfigMap(r)
    BY <2>7 DEF DeleteConfigMap, Goto, TypeOK, PcLabel, CmState
  <2> QED
    BY <1>8, <2>1, <2>2, <2>3, <2>4, <2>5, <2>6, <2>7 DEF WithMutex
<1>9. ASSUME NEW r \in Rules, Done(r) PROVE TypeOK'
  <2>1. wg > 0
    BY <1>9, BusyIsCounted DEF Done, Running, PcLabel
  <2> QED
    BY <1>9, <2>1 DEF Done, Goto, TypeOK, PcLabel
<1>10. ASSUME NEW r \in Rules, Release(r) PROVE TypeOK'
  <2>1. sem > 0
    BY <1>10, BusyIsCounted DEF Release, Holding, PcLabel
  <2> QED
    BY <1>10, <2>1 DEF Release, Goto, TypeOK, PcLabel
<1>11. ASSUME NEW r \in Rules, Environment(r) PROVE TypeOK'
  BY <1>11 DEF Environment, PodStoresResult, JobCompletes, JobFails, JobExpunged,
     JobExpires, JobBecomes, TypeOK, JobState, CmState
<1> QED
  BY <1>1, <1>2, <1>3, <1>7, <1>8, <1>9, <1>10, <1>11
  DEF Next, Dispatcher, Goroutine

-----------------------------------------------------------------------------
(* The mutex                                                               *)

(* The mutex is held by exactly one goroutine, or is free.                 *)
LEMMA MutexStep ==
    ASSUME TypeOK, MutexInv, Next
    PROVE  MutexInv'
<1> USE DEF poolVars, recVars, repVars, envVars
(* A step of r that enters or leaves no critical section.                  *)
<1>1. ASSUME NEW r \in Rules, NEW label \in PcLabel, Goto(r, label),
             pc[r] \in Locked <=> label \in Locked, mutex' = mutex
      PROVE  MutexInv'
  BY <1>1 DEF Goto, MutexInv, TypeOK
<1>2. ASSUME NEW r \in Rules, BeforeMutex(r) \/ PollApiError(r) PROVE MutexInv'
  <2> USE DEF PcLabel, Locked
  <2>1. CASE StartExpired(r) \/ StartUndeployable(r) \/ CreateJobFails(r)
    BY <1>1, <2>1 DEF StartExpired, StartUndeployable, CreateJobFails,
       BeginRecord, BeginAppend
  <2>2. CASE StartUnknown(r) \/ StartDeployable(r) \/ CreateJob(r)
    BY <1>1, <2>2 DEF StartUnknown, StartDeployable, Jump, CreateJob
  <2>3. CASE RecordFailure(r)
    BY <1>1, <2>3 DEF RecordFailure, EndAppend
  <2>4. CASE PollGone(r) \/ PollExpired(r) \/ PollFailed(r) \/ PollApiError(r)
             \/ PollComplete(r)
    BY <1>1, <2>4 DEF PollGone, PollExpired, PollFailed, PollApiError,
       PollComplete, Waited
  <2> QED
    BY <1>2, <2>1, <2>2, <2>3, <2>4 DEF BeforeMutex
<1>3. ASSUME NEW r \in Rules, WithMutex(r) PROVE MutexInv'
  <2> USE DEF PcLabel, Locked
  <2>1. CASE Lock(r)
    <3>1. \A q \in Rules : pc[q] \notin Locked
      BY <2>1, RulesAssumption DEF Lock, MutexInv
    <3> QED
      BY <2>1, <3>1 DEF Lock, BeginAppend, Goto, MutexInv, TypeOK
  <2>2. CASE Unlock(r)
    BY <2>2, RulesAssumption DEF Unlock, Goto, MutexInv, TypeOK
  <2>3. CASE RecordResult(r) \/ RecordError(r)
    BY <1>1, <2>3 DEF RecordResult, RecordError, EndAppend
  <2>4. CASE FetchFails(r) \/ OpenFails(r) \/ DeleteConfigMapFails(r)
    BY <1>1, <2>4 DEF FetchFails, OpenFails, DeleteConfigMapFails, BeginRecord,
       BeginAppend
  <2>5. CASE Fetch(r) \/ FetchListFails(r)
    BY <1>1, <2>5 DEF Fetch, FetchListFails, Merge, BeginAppend
  <2>6. CASE Marshal(r) \/ Write(r) \/ DeleteConfigMap(r)
    BY <1>1, <2>6 DEF Marshal, Write, DeleteConfigMap
  <2> QED
    BY <1>3, <2>1, <2>2, <2>3, <2>4, <2>5, <2>6 DEF WithMutex
<1>4. ASSUME NEW r \in Rules, Dispatch(r) \/ Done(r) \/ Release(r) PROVE MutexInv'
  BY <1>1, <1>4 DEF Dispatch, Done, Release, PcLabel, Locked
<1>5. ASSUME NEW r \in Rules, Return \/ TaskExpires \/ Environment(r) PROVE MutexInv'
  BY <1>5 DEF Return, TaskExpires, Environment, PodStoresResult, JobCompletes,
     JobFails, JobExpunged, JobExpires, JobBecomes, MutexInv
<1>6. ASSUME Return \/ TaskExpires PROVE MutexInv'
  BY <1>6 DEF Return, TaskExpires, MutexInv
<1> QED
  BY <1>2, <1>3, <1>4, <1>5, <1>6 DEF Next, Dispatcher, Goroutine

(* What the mutex is for: the goroutines in the critical section are one.  *)
LEMMA Exclusion ==
    ASSUME MutexInv, NEW r \in Rules, NEW q \in Rules,
           pc[r] \in Locked, pc[q] \in Locked
    PROVE  r = q
  BY DEF MutexInv

-----------------------------------------------------------------------------
(* The report                                                              *)

(* What was collected stays in the report.                                 *)
LEMMA ReportStep ==
    ASSUME TypeOK, MutexInv, ReportInv, Next
    PROVE  ReportInv' /\ file \subseteq file'
<1> USE DEF poolVars, recVars, repVars, envVars
<1>a. /\ {"marshal", "write", "clean", "fetch"} \subseteq Locked
      /\ Locked \cap {"idle", "start", "create", "wait", "lock", "fail", "done"} = {}
  BY DEF Locked
(* A step of r to a label that ReportInv does not mention, with the report *)
(* and the ConfigMaps left alone.                                          *)
<1>1. ASSUME NEW r \in Rules,
             NEW label \in PcLabel \ {"marshal", "write", "clean"},
             Goto(r, label), UNCHANGED <<repVars, cm>>
      PROVE  ReportInv' /\ file \subseteq file'
  BY <1>1 DEF Goto, ReportInv, TypeOK
<1>2. ASSUME NEW r \in Rules, BeforeMutex(r) \/ PollApiError(r)
      PROVE  ReportInv' /\ file \subseteq file'
  <2> USE DEF PcLabel
  <2>1. CASE StartExpired(r) \/ StartUndeployable(r) \/ CreateJobFails(r)
    BY <1>1, <2>1 DEF StartExpired, StartUndeployable, CreateJobFails,
       BeginRecord, BeginAppend
  <2>2. CASE StartUnknown(r) \/ StartDeployable(r) \/ CreateJob(r)
    BY <1>1, <2>2 DEF StartUnknown, StartDeployable, Jump, CreateJob
  <2>3. CASE RecordFailure(r)
    BY <1>1, <2>3 DEF RecordFailure, EndAppend
  <2>4. CASE PollGone(r) \/ PollExpired(r) \/ PollFailed(r) \/ PollApiError(r)
             \/ PollComplete(r)
    BY <1>1, <2>4 DEF PollGone, PollExpired, PollFailed, PollApiError,
       PollComplete, Waited
  <2> QED
    BY <1>2, <2>1, <2>2, <2>3, <2>4 DEF BeforeMutex
<1>3. ASSUME NEW r \in Rules, WithMutex(r) PROVE ReportInv' /\ file \subseteq file'
  <2> USE DEF PcLabel
  <2>1. CASE Lock(r) \/ Unlock(r)
    BY <1>1, <2>1 DEF Lock, Unlock, BeginAppend
  <2>2. CASE RecordResult(r) \/ RecordError(r)
    BY <1>1, <2>2 DEF RecordResult, RecordError, EndAppend
  <2>3. CASE FetchFails(r) \/ OpenFails(r) \/ DeleteConfigMapFails(r)
    BY <1>1, <2>3 DEF FetchFails, OpenFails, DeleteConfigMapFails, BeginRecord,
       BeginAppend
  <2>4. ASSUME Merge(r), NEW label \in {"marshal", "err"}, Goto(r, label)
        PROVE  ReportInv' /\ file \subseteq file'
    <3>1. \A q \in Rules : pc[q] # "write"
      BY <1>a, <2>4, Exclusion DEF Merge
    <3> QED
      BY <2>4, <3>1 DEF Merge, Goto, ReportInv, TypeOK
  <2>5. CASE Fetch(r) \/ FetchListFails(r)
    BY <2>4, <2>5 DEF Fetch, FetchListFails, BeginAppend
  <2>6. CASE Marshal(r)
    BY <2>6 DEF Marshal, Goto, ReportInv, TypeOK
  <2>7. CASE Write(r)
    <3>1. buf[r] = resultData
      BY <2>7 DEF Write, ReportInv
    <3>2. file' \in {resultData, file} /\ file' \subseteq resultData /\ file \subseteq file'
      BY <2>7, <3>1 DEF Write, ReportInv
    <3>3. fileOK' => file' = resultData
      BY <2>7, <3>1 DEF Write
    <3> QED
      BY <2>7, <3>1, <3>2, <3>3 DEF Write, Goto, ReportInv, TypeOK
  <2>8. CASE DeleteConfigMap(r)
    BY <2>8 DEF DeleteConfigMap, Goto, ReportInv, TypeOK
  <2> QED
    BY <1>3, <2>1, <2>2, <2>3, <2>5, <2>6, <2>7, <2>8 DEF WithMutex
<1>4. ASSUME NEW r \in Rules, Dispatch(r) \/ Done(r) \/ Release(r)
      PROVE  ReportInv' /\ file \subseteq file'
  BY <1>1, <1>4 DEF Dispatch, Done, Release, PcLabel
<1>5. ASSUME NEW r \in Rules, Environment(r) PROVE ReportInv' /\ file \subseteq file'
  BY <1>5 DEF Environment, PodStoresResult, JobCompletes, JobFails, JobExpunged,
     JobExpires, JobBecomes, ReportInv, TypeOK
<1>6. ASSUME Return \/ TaskExpires PROVE ReportInv' /\ file \subseteq file'
  BY <1>6 DEF Return, TaskExpires, ReportInv
<1> QED
  BY <1>2, <1>3, <1>4, <1>5, <1>6 DEF Next, Dispatcher, Goroutine

-----------------------------------------------------------------------------
(* The Jobs                                                                *)

(* A job, its ConfigMap and its goroutine agree.                           *)
LEMMA JobStep ==
    ASSUME TypeOK, JobInv, Next
    PROVE  JobInv'
<1> USE DEF poolVars, recVars, repVars, envVars, PcLabel, Locked
(* A step of r that leaves its Job, its ConfigMap and its phase alone, to  *)
(* a label that asks no more of them than the one it comes from.           *)
<1>1. ASSUME NEW r \in Rules, NEW label \in PcLabel, Goto(r, label),
             UNCHANGED <<job, cm, phase>>,
             label \in {"start", "create", "fail"}
                => pc[r] \in {"idle", "start", "create"},
             label = "create" => r \in Known,
             label \in Locked => pc[r] \in Locked \cup {"lock"},
             label \notin {"idle", "wait", "lock"}
      PROVE  JobInv'
  BY <1>1 DEF Goto, JobInv, TypeOK
<1>2. ASSUME NEW r \in Rules, BeforeMutex(r) \/ PollApiError(r) PROVE JobInv'
  <2>1. CASE StartExpired(r) \/ StartUndeployable(r) \/ CreateJobFails(r)
    BY <1>1, <2>1 DEF StartExpired, StartUndeployable, CreateJobFails,
       BeginRecord, BeginAppend
  <2>2. CASE StartUnknown(r) \/ StartDeployable(r)
    BY <1>1, <2>2 DEF StartUnknown, StartDeployable, Jump
  <2>3. CASE CreateJob(r)
    BY <2>3 DEF CreateJob, Goto, JobInv, TypeOK
  <2>4. CASE RecordFailure(r)
    BY <1>1, <2>4 DEF RecordFailure, EndAppend
  <2>5. CASE PollGone(r) \/ PollExpired(r) \/ PollFailed(r) \/ PollApiError(r)
    BY <2>5 DEF PollGone, PollExpired, PollFailed, PollApiError, Waited, Goto,
       JobInv, TypeOK
  <2>6. CASE PollComplete(r)
    BY <2>6 DEF PollComplete, Waited, Goto, JobInv, TypeOK
  <2> QED
    BY <1>2, <2>1, <2>2, <2>3, <2>4, <2>5, <2>6 DEF BeforeMutex
<1>3. ASSUME NEW r \in Rules, WithMutex(r) PROVE JobInv'
  <2>1. CASE Lock(r) \/ Unlock(r)
    BY <1>1, <2>1 DEF Lock, Unlock, BeginAppend
  <2>2. CASE RecordResult(r) \/ RecordError(r)
    BY <1>1, <2>2 DEF RecordResult, RecordError, EndAppend
  <2>3. CASE FetchFails(r) \/ OpenFails(r) \/ DeleteConfigMapFails(r)
    BY <1>1, <2>3 DEF FetchFails, OpenFails, DeleteConfigMapFails, BeginRecord,
       BeginAppend
  <2>4. CASE Fetch(r) \/ FetchListFails(r)
    BY <1>1, <2>4 DEF Fetch, FetchListFails, Merge, BeginAppend
  <2>5. CASE Marshal(r) \/ Write(r)
    BY <1>1, <2>5 DEF Marshal, Write
  <2>6. CASE DeleteConfigMap(r)
    BY <2>6 DEF DeleteConfigMap, Goto, JobInv, TypeOK
  <2> QED
    BY <1>3, <2>1, <2>2, <2>3, <2>4, <2>5, <2>6 DEF WithMutex
<1>4. ASSUME NEW r \in Rules, Dispatch(r) \/ Done(r) \/ Release(r) PROVE JobInv'
  BY <1>1, <1>4 DEF Dispatch, Done, Release
<1>5. ASSUME NEW r \in Rules, Environment(r) PROVE JobInv'
  <2>1. CASE PodStoresResult(r)
    BY <2>1 DEF PodStoresResult, JobInv, TypeOK
  <2>2. CASE JobCompletes(r)
    BY <2>2 DEF JobCompletes, JobBecomes, JobInv, TypeOK
  <2>3. CASE JobFails(r)
    BY <2>3 DEF JobFails, JobBecomes, JobInv, TypeOK
  <2>4. CASE JobExpunged(r)
    BY <2>4 DEF JobExpunged, JobBecomes, JobInv, TypeOK
  <2>5. CASE JobExpires(r)
    BY <2>5 DEF JobExpires, JobInv
  <2> QED
    BY <1>5, <2>1, <2>2, <2>3, <2>4, <2>5 DEF Environment
<1>6. ASSUME Return \/ TaskExpires PROVE JobInv'
  BY <1>6 DEF Return, TaskExpires, JobInv
<1> QED
  BY <1>2, <1>3, <1>4, <1>5, <1>6 DEF Next, Dispatcher, Goroutine

-----------------------------------------------------------------------------
(* The records                                                             *)

(* As long as nothing races, an append adds one record and loses none.     *)
LEMMA AppendKeeps ==
    ASSUME RecordInv, ~racy',
           NEW r \in Rules, NEW label \in PcLabel,
           \/ BeginAppend(r, label)
           \/ \E p \in Phase : EndAppend(r, p, label)
    PROVE  ~racy /\ raced' = {} /\ jobNames \subseteq jobNames'
  BY DEF BeginAppend, EndAppend, RecordInv

(* An append makes the record of its task a member of jobNames.            *)
LEMMA RecordAdded ==
    ASSUME RecordInv, ~racy', NEW r \in Rules, NEW p \in Phase,
           NEW label \in PcLabel, EndAppend(r, p, label)
    PROVE  <<r, p>> \in jobNames'
  BY DEF EndAppend

(* A goroutine past its append has its record in jobNames.                 *)
LEMMA RecordStep ==
    ASSUME TypeOK, JobInv, RecordInv, Next
    PROVE  RecordInv'
<1> USE DEF poolVars, recVars, repVars, envVars, PcLabel
<1> SUFFICES ASSUME ~racy' PROVE RecordInv'
  BY DEF RecordInv
<1> DEFINE Recording == {"fetch", "marshal", "write", "clean", "err"}
           Finished  == {"unlock", "done", "release", "exited"}
           Settled(r) == \/ <<r, "Failed">> \in jobNames
                         \/ r \notin Known
                         \/ cm[r] = "deleted" /\ job[r] \in {"complete", "gone"}
(* A step of r that keeps the records there are, the phases and, but for   *)
(* r, the Jobs and ConfigMaps.                                             *)
<1>1. ASSUME NEW r \in Rules, NEW label \in PcLabel, Goto(r, label),
             ~racy, raced' = {}, jobNames \subseteq jobNames',
             \A q \in Rules \ {r} : UNCHANGED <<job[q], cm[q], phase[q]>>,
             label \in Recording => <<r, phase'[r]>> \in jobNames',
             label \in Finished => Settled(r)'
      PROVE  RecordInv'
  BY <1>1 DEF Goto, RecordInv, TypeOK
<1>2. ASSUME NEW r \in Rules, NEW from, NEW to \in PcLabel \ (Recording \cup Finished),
             BeginRecord(r, from, to)
      PROVE  RecordInv'
  BY <1>1, <1>2, AppendKeeps DEF BeginRecord, BeginAppend
<1>3. ASSUME NEW r \in Rules, BeforeMutex(r) \/ PollApiError(r) PROVE RecordInv'
  <2>1. CASE StartExpired(r) \/ StartUndeployable(r) \/ CreateJobFails(r)
    BY <1>2, <2>1 DEF StartExpired, StartUndeployable, CreateJobFails
  <2>2. CASE StartUnknown(r) \/ StartDeployable(r) \/ CreateJob(r)
    BY <1>1, <2>2 DEF StartUnknown, StartDeployable, Jump, CreateJob, RecordInv, TypeOK
  <2>3. CASE RecordFailure(r)
    <3>1. <<r, "Failed">> \in jobNames'
      BY <2>3, RecordAdded DEF RecordFailure, Phase
    <3>2. ~racy /\ raced' = {} /\ jobNames \subseteq jobNames'
      BY <2>3, AppendKeeps DEF RecordFailure, Phase
    <3>3. Goto(r, "done") /\ UNCHANGED <<job, cm, phase>>
      BY <2>3 DEF RecordFailure, EndAppend
    <3> QED
      BY <1>1, <2>3, <3>1, <3>2, <3>3
  <2>4. CASE PollGone(r) \/ PollExpired(r) \/ PollFailed(r) \/ PollApiError(r)
             \/ PollComplete(r)
    BY <1>1, <2>4 DEF PollGone, PollExpired, PollFailed, PollApiError,
       PollComplete, Waited, RecordInv, TypeOK
  <2> QED
    BY <1>3, <2>1, <2>2, <2>3, <2>4 DEF BeforeMutex
<1>4. ASSUME NEW r \in Rules, WithMutex(r) PROVE RecordInv'
  <2>1. CASE Lock(r)
    BY <1>1, <2>1, AppendKeeps DEF Lock, BeginAppend
  <2>2. CASE RecordResult(r)
    <3>1. <<r, phase[r]>> \in jobNames'
      BY <2>2, RecordAdded DEF RecordResult, TypeOK
    <3> QED
      BY <1>1, <2>2, <3>1, AppendKeeps DEF RecordResult, EndAppend, TypeOK
  <2>3. CASE RecordError(r)
    <3>1. <<r, "Failed">> \in jobNames'
      BY <2>3, RecordAdded DEF RecordError, Phase
    <3>2. ~racy /\ raced' = {} /\ jobNames \subseteq jobNames'
      BY <2>3, AppendKeeps DEF RecordError, Phase
    <3>3. Goto(r, "unlock") /\ UNCHANGED <<job, cm, phase>>
      BY <2>3 DEF RecordError, EndAppend
    <3> QED
      BY <1>1, <2>3, <3>1, <3>2, <3>3
  <2>4. CASE FetchFails(r) \/ OpenFails(r) \/ DeleteConfigMapFails(r) \/ FetchListFails(r)
    <3>1. pc[r] \in Recording /\ BeginAppend(r, "err") /\ UNCHANGED <<job, cm, phase>>
      BY <2>4 DEF FetchFails, OpenFails, DeleteConfigMapFails, FetchListFails,
         Merge, BeginRecord
    <3>2. ~racy /\ raced' = {} /\ jobNames \subseteq jobNames'
      BY <3>1, AppendKeeps
    <3>3. <<r, phase'[r]>> \in jobNames'
      BY <3>1, <3>2 DEF RecordInv
    <3> QED
      BY <1>1, <3>1, <3>2, <3>3 DEF BeginAppend
  <2>5. CASE Fetch(r) \/ Marshal(r) \/ Write(r)
    <3>1. PICK label \in {"marshal", "write", "clean"} :
             pc[r] \in Recording /\ Goto(r, label) /\ UNCHANGED <<recVars, job, cm, phase>>
      BY <2>5 DEF Fetch, Merge, Marshal, Write
    <3>2. ~racy /\ raced' = {} /\ <<r, phase'[r]>> \in jobNames'
      BY <3>1 DEF RecordInv
    <3> QED
      BY <1>1, <3>1, <3>2
  <2>6. CASE DeleteConfigMap(r)
    <3>1. Settled(r)'
      BY <2>6 DEF DeleteConfigMap, RecordInv, JobInv, Locked, TypeOK
    <3> QED
      BY <1>1, <2>6, <3>1 DEF DeleteConfigMap, RecordInv, TypeOK
  <2>7. CASE Unlock(r)
    BY <1>1, <2>7 DEF Unlock, RecordInv
  <2> QED
    BY <1>4, <2>1, <2>2, <2>3, <2>4, <2>5, <2>6, <2>7 DEF WithMutex
<1>5. ASSUME NEW r \in Rules, Dispatch(r) \/ Done(r) \/ Release(r) PROVE RecordInv'
  <2>1. PICK label \in {"start", "release", "exited"} :
           Goto(r, label) /\ UNCHANGED <<recVars, job, cm, phase>>
           /\ (label # "start" => pc[r] \in Finished)
    BY <1>5 DEF Dispatch, Done, Release
  <2>2. ~racy /\ raced' = {} /\ (label \in Finished => Settled(r)')
    BY <2>1 DEF RecordInv
  <2> QED
    BY <1>1, <2>1, <2>2
(* A Job that has completed stores no second result.                       *)
<1>6. ASSUME NEW r \in Rules, Environment(r) PROVE RecordInv'
  <2>1. CASE PodStoresResult(r)
    BY <2>1 DEF PodStoresResult, RecordInv, TypeOK
  <2>2. CASE JobCompletes(r) \/ JobFails(r)
    BY <2>2 DEF JobCompletes, JobFails, JobBecomes, RecordInv, TypeOK
  <2>3. CASE JobExpunged(r)
    BY <2>3 DEF JobExpunged, JobBecomes, RecordInv, TypeOK
  <2>4. CASE JobExpires(r)
    BY <2>4 DEF JobExpires, RecordInv
  <2> QED
    BY <1>6, <2>1, <2>2, <2>3, <2>4 DEF Environment
<1>7. ASSUME Return \/ TaskExpires PROVE RecordInv'
  BY <1>7 DEF Return, TaskExpires, RecordInv
<1> QED
  BY <1>3, <1>4, <1>5, <1>6, <1>7 DEF Next, Dispatcher, Goroutine

-----------------------------------------------------------------------------
(* The invariant, and what follows from it                                 *)

(* The pool starts with the inductive invariant.                           *)
LEMMA IInvInit == Init => IInv
<1> SUFFICES ASSUME Init PROVE IInv
  OBVIOUS
<1>1. TypeOK
  BY RulesAssumption DEF Init, TypeOK, PcLabel, Phase, JobState, CmState
<1>2. CountInv
  <2>1. Alive = {} /\ Busy = {}
    BY DEF Init, Alive, Busy, Running, Holding
  <2> QED
    BY <1>1, <2>1, CapacityType, FS_EmptySet DEF Init, CountInv
<1>3. MutexInv
  BY RulesAssumption DEF Init, MutexInv, Locked
<1>4. ReportInv /\ JobInv /\ RecordInv
  BY DEF Init, ReportInv, JobInv, RecordInv, Locked
<1> QED
  BY <1>1, <1>2, <1>3, <1>4 DEF IInv

(* Every step keeps the inductive invariant.                               *)
LEMMA IInvStep == IInv /\ [Next]_vars => IInv'
<1> SUFFICES ASSUME IInv, [Next]_vars PROVE IInv'
  OBVIOUS
<1>1. CASE Next
  BY <1>1, TypeStep, CountStep, MutexStep, ReportStep, JobStep, RecordStep DEF IInv
<1>2. CASE UNCHANGED vars
  BY <1>2 DEF vars, poolVars, recVars, repVars, envVars, IInv, TypeOK, CountInv,
     MutexInv, ReportInv, JobInv, RecordInv, Alive, Busy, Capacity
<1> QED
  BY <1>1, <1>2

(* The inductive invariant holds in every reachable state of the pool.     *)
THEOREM PoolInvariant == Spec => []IInv
  BY IInvInit, IInvStep, PTL DEF Spec

(* Every variable keeps its type; in particular wg.Done never takes the    *)
(* WaitGroup below zero (which would panic) and no slot is freed twice.    *)
THEOREM PoolTypeCorrect == Spec => []TypeOK
<1>1. IInv => TypeOK
  BY DEF IInv
<1> QED
  BY <1>1, PoolInvariant, PTL

(* createJobsInspect never has more goroutines than computedDeployNum.     *)
THEOREM PoolIsBounded == Spec => []PoolBound
<1>1. IInv => PoolBound
  BY DEF IInv, CountInv, PoolBound, Alive
<1> QED
  BY <1>1, PoolInvariant, PTL

(* A ConfigMap that getInspectResultData deleted is in the report.         *)
THEOREM PoolReportsWhatItCollects == Spec => []CollectedIsReported
<1>1. IInv => CollectedIsReported
  BY DEF IInv, ReportInv, CollectedIsReported
<1> QED
  BY <1>1, PoolInvariant, PTL

(* GetStatus over the records of a race-free pool: Succeeded means that    *)
(* the data of every job is in the report.                                 *)
THEOREM PoolVerdictSound == Spec => []VerdictSound
<1>1. ASSUME IInv PROVE VerdictSound
  <2> SUFFICES ASSUME returned, ~racy, GetStatus(jobNames) = "Succeeded",
                      NEW r \in Known, r \notin Unreadable, fileOK
               PROVE  r \in file
    BY DEF VerdictSound
  <2>1. r \in Rules /\ pc[r] \in {"release", "exited"}
    BY <1>1, RulesAssumption DEF IInv, CountInv
  <2>2. <<r, "Failed">> \notin jobNames
    BY DEF GetStatus
  <2>3. cm[r] = "deleted"
    BY <1>1, <2>1, <2>2 DEF IInv, RecordInv
  <2> QED
    BY <1>1, <2>1, <2>3 DEF IInv, ReportInv
<1> QED
  BY <1>1, PoolInvariant, PTL

(* An uncollected result ConfigMap belongs to a job recorded as Failed.    *)
THEOREM PoolLeftoverIsFailed == Spec => []LeftoverIsFailed
<1>1. ASSUME IInv PROVE LeftoverIsFailed
  <2> SUFFICES ASSUME returned, ~racy, NEW r \in Rules, cm[r] = "stored"
               PROVE  <<r, "Failed">> \in jobNames
    BY DEF LeftoverIsFailed
  <2>1. pc[r] \in {"release", "exited"}
    BY <1>1 DEF IInv, CountInv
  <2>2. r \in Known
    BY <1>1 DEF IInv, JobInv
  <2> QED
    BY <1>1, <2>1, <2>2 DEF IInv, RecordInv
<1> QED
  BY <1>1, PoolInvariant, PTL

(* No write of the report drops what an earlier write put there: the file, *)
(* opened without O_TRUNC, never keeps the tail of a longer report.        *)
THEOREM PoolReportGrows == Spec => ReportGrows
<1>1. IInv /\ [Next]_vars => [file \subseteq file']_vars
  BY ReportStep DEF IInv
<1> QED
  BY <1>1, PoolInvariant, PTL DEF Spec, ReportGrows

(* Once createJobsInspect has returned, its goroutines can only give their *)
(* slots back.                                                             *)
LEMMA ReturnedStep ==
    ASSUME IInv, Next, returned
    PROVE  UNCHANGED <<jobNames, resultData, file, fileOK>>
<1> USE DEF poolVars, recVars, repVars, envVars
<1>1. \A r \in Rules : pc[r] \in {"release", "exited"}
  BY DEF IInv, CountInv
<1>2. ASSUME NEW r \in Rules
      PROVE  ~BeforeMutex(r) /\ ~WithMutex(r) /\ ~PollApiError(r) /\ ~Done(r)
  BY <1>1 DEF BeforeMutex, StartExpired, StartUnknown, StartUndeployable,
     StartDeployable, CreateJob, CreateJobFails, RecordFailure, PollGone,
     PollExpired, PollFailed, PollComplete, PollApiError, Jump, BeginRecord,
     WithMutex, Lock, RecordResult, Fetch, FetchFails, FetchListFails, Merge,
     OpenFails, Marshal, Write, DeleteConfigMap, DeleteConfigMapFails,
     RecordError, Unlock, Done
<1>3. ASSUME NEW r \in Rules, Dispatch(r) \/ Release(r) \/ Environment(r)
      PROVE  UNCHANGED <<jobNames, resultData, file, fileOK>>
  BY <1>3 DEF Dispatch, Release, Environment, PodStoresResult, JobCompletes,
     JobFails, JobExpunged, JobExpires, JobBecomes
<1>4. ASSUME Return \/ TaskExpires
      PROVE  UNCHANGED <<jobNames, resultData, file, fileOK>>
  BY <1>4 DEF Return, TaskExpires
<1> QED
  BY <1>2, <1>3, <1>4 DEF Next, Dispatcher, Goroutine

(* What createJobsInspect returned, and the report it leaves, are final.   *)
THEOREM PoolFinalWhenReturned == Spec => FinalWhenReturned
<1>1. IInv /\ [Next]_vars
         => [returned => UNCHANGED <<jobNames, resultData, file, fileOK>>]_vars
  BY ReturnedStep
<1> QED
  BY <1>1, PoolInvariant, PTL DEF Spec, FinalWhenReturned
=============================================================================
