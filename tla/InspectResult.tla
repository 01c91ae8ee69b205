--------------------------- MODULE InspectResult ---------------------------
(***************************************************************************)
(* The InspectResult controller (pkg/controllers/                          *)
(* inspectresult_controller.go): Reconcile for one InspectResult, which    *)
(* counts the issues in the report file into the result's status, sets its *)
(* end, tells the users by mail and removes the files of a deleted result. *)
(*                                                                         *)
(* The InspectTask controller runs in the same process.  When it inspects  *)
(* a second time, after a crash or a conflict, it removes the report and   *)
(* writes it anew, job by job, under the eyes of this controller.          *)
(***************************************************************************)
EXTENDS Integers, Sequences

CONSTANTS
    MaxIssues,    \* bound of the issues in a report
    MaxReruns,    \* second inspections by the InspectTask controller
    MaxTouches,   \* edits by other clients
    MaxCrashes, MaxErrors,
    Gone, Broken  \* a report that is not there, one that breaks off

ASSUME ReportAssumption == Gone \notin Nat /\ Broken \notin Nat /\ Gone # Broken

ASSUME BoundsAssumption ==
    /\ MaxIssues \in Nat /\ MaxReruns \in Nat /\ MaxTouches \in Nat
    /\ MaxCrashes \in Nat /\ MaxErrors \in Nat

VARIABLES
    result,   \* the InspectResult in the API server
    cache,    \* the copy of it in the informer cache
    queued,   \* the work queue holds the result's key
    ctl,      \* where Reconcile is
    old, my,  \* the result as this Reconcile read it, and as it changed it
    known,    \* the lister shows the InspectTask of the result
    report,   \* the report file: its number of issues, if it can be read
    writer,   \* what a second inspection is doing to the report
    mail,     \* the goroutines of SendMessage so far
    mode,     \* the message section of the configuration
    reruns, touches, crashes, errors

ctlVars   == <<ctl, old, my>>
taskVars  == <<known, report, writer, reruns>>
mailVars  == <<mail, mode>>
faultVars == <<touches, crashes, errors>>
vars == <<result, cache, queued, ctlVars, taskVars, mailVars, faultVars>>

-----------------------------------------------------------------------------
(* Types                                                                   *)

Issues   == 0..MaxIssues
Readable == report \in Issues

(* ended counts how often TaskEndTime has been set.                        *)
Result == [exists: BOOLEAN, ver: Nat, fin: BOOLEAN, del: BOOLEAN,
           complete: BOOLEAN, level: Issues, ended: Nat]

NewResult == [exists |-> TRUE, ver |-> 0, fin |-> FALSE, del |-> FALSE,
              complete |-> FALSE, level |-> 0, ended |-> 0]

CtlLabel == {"idle", "addFinalizer", "removeFiles", "dropFinalizer",
             "getTask", "count", "setComplete", "setEnd"}

MailState == {"started", "rendering", "sending", "sent", "dropped"}

(* The InspectResult is created once every job of the inspection is done;  *)
(* its report may be missing, when no job saved data, or broken off.       *)
Init ==
    /\ result = NewResult /\ cache = NewResult /\ queued = TRUE
    /\ ctl = "idle" /\ old = NewResult /\ my = NewResult
    /\ known \in BOOLEAN /\ report \in Issues \cup {Gone, Broken}
    /\ writer = "none" /\ reruns = 0
    /\ mail = <<>> /\ mode \in {"missing", "off", "abnormal", "complete"}
    /\ touches = 0 /\ crashes = 0 /\ errors = 0

-----------------------------------------------------------------------------
(* The API server and the work queue                                       *)

Fault == errors < MaxErrors /\ errors' = errors + 1

(* An accepted write; a deleted result without its finalizer is gone.      *)
Stored(new) ==
    IF new = [result EXCEPT !.ver = new.ver] THEN result
    ELSE [new EXCEPT !.ver = result.ver + 1, !.exists = ~(new.del /\ ~new.fin)]

Current == result.exists /\ old.ver = result.ver

Return      == ctl' = "idle" /\ old' = NewResult /\ my' = NewResult /\ UNCHANGED queued
ReturnError == ctl' = "idle" /\ old' = NewResult /\ my' = NewResult /\ queued' = TRUE

(* Update or Status().Update of new, and Reconcile's return; Accept is     *)
(* what else happens when there is no error.                               *)
UpdateAndReturn(new, Accept) ==
    /\ \/ Current /\ result' = Stored(new) /\ Return /\ Accept /\ UNCHANGED errors
       \/ ~Current /\ ReturnError /\ UNCHANGED <<result, mail, errors>>
       \/ Current /\ Fault /\ result' \in {result, Stored(new)} /\ ReturnError /\ UNCHANGED mail
    /\ UNCHANGED <<cache, taskVars, mode, touches, crashes>>

-----------------------------------------------------------------------------
(* Reconcile                                                               *)

(* Faulty variant: a completed result is left alone.                       *)
BranchCompleteIsAll(r) ==
    CASE ~r.exists \/ (r.complete /\ ~r.del)             -> "idle"
      [] r.exists /\ r.del                                -> "removeFiles"
      [] r.exists /\ ~r.del /\ ~r.complete               -> IF r.fin THEN "getTask" ELSE "addFinalizer"

(* The branch taken for the result r it read; "idle" is a return.          *)
Branch(r) ==
    CASE ~r.exists                                        -> "idle"
      [] r.exists /\ r.del                                -> "removeFiles"
      [] r.exists /\ ~r.del /\ ~r.fin                     -> "addFinalizer"
      [] r.exists /\ ~r.del /\ r.fin /\ ~r.complete       -> "getTask"
      [] OTHER -> IF r.ended = 0 THEN "setEnd" ELSE "idle"

Reconcile ==
    /\ ctl = "idle" /\ queued /\ queued' = FALSE
    /\ ctl' = Branch(cache)
    /\ IF ctl' = "idle" THEN UNCHANGED <<old, my>> ELSE old' = cache /\ my' = cache
    /\ UNCHANGED <<result, cache, taskVars, mailVars, faultVars>>

AddFinalizer ==
    ctl = "addFinalizer" /\ UpdateAndReturn([my EXCEPT !.fin = TRUE], UNCHANGED mail)

(* A Remove that fails is only logged.                                     *)
RemoveFiles ==
    /\ ctl = "removeFiles" /\ ctl' = "dropFinalizer"
    /\ my' = [my EXCEPT !.fin = FALSE]
    /\ \/ report' = Gone /\ UNCHANGED errors
       \/ Fault /\ UNCHANGED report
    /\ UNCHANGED <<result, cache, queued, old, known, writer, reruns, mailVars, touches, crashes>>

DropFinalizer == ctl = "dropFinalizer" /\ UpdateAndReturn(my, UNCHANGED mail)

(* Without its task in the lister a result cannot be completed.            *)
GetTask ==
    /\ ctl = "getTask"
    /\ IF known THEN ctl' = "count" /\ UNCHANGED <<old, my, queued>> ELSE ReturnError
    /\ UNCHANGED <<result, cache, taskVars, mailVars, faultVars>>

(* Faulty variant: the errors of ReadFile and Unmarshal are ignored.       *)
CountLevelNumUnchecked ==
    /\ ctl = "count" /\ ctl' = "setComplete"
    /\ my' = [my EXCEPT !.complete = TRUE, !.level = report]
    /\ UNCHANGED <<result, cache, queued, old, taskVars, mailVars, faultVars>>

(* CountLevelNum reads the report as it is at this moment.                 *)
CountLevelNum ==
    /\ ctl = "count"
    /\ IF Readable
       THEN /\ my' = [my EXCEPT !.complete = TRUE, !.level = report]
            /\ ctl' = "setComplete" /\ UNCHANGED <<old, queued>>
       ELSE ReturnError
    /\ UNCHANGED <<result, cache, taskVars, mailVars, faultVars>>

StartMail == mail' = Append(mail, [n |-> my.level, state |-> "started"])

(* Faulty variant: the users are told before the status is stored.         *)
SetCompleteMailFirst ==
    /\ ctl = "setComplete" /\ StartMail
    /\ IF Current THEN result' = Stored(my) /\ Return
       ELSE ReturnError /\ UNCHANGED result
    /\ UNCHANGED <<cache, taskVars, mode, faultVars>>

(* The status update, and on its success go r.SendMessage(result).         *)
SetComplete == ctl = "setComplete" /\ UpdateAndReturn(my, StartMail)

(* Faulty variant: the status is patched, without a look at the version.   *)
SetEndPatch ==
    /\ ctl = "setEnd" /\ result.exists /\ Return
    /\ result' = Stored([result EXCEPT !.ended = @ + 1])
    /\ UNCHANGED <<cache, taskVars, mailVars, faultVars>>

SetEnd == ctl = "setEnd" /\ UpdateAndReturn([my EXCEPT !.ended = @ + 1], UNCHANGED mail)

-----------------------------------------------------------------------------
(* SendMessage, a goroutine of its own                                     *)

Becomes(i, state) == mail' = [mail EXCEPT ![i].state = state]

(* The mode decides whether a result with n issues is worth a message.     *)
Wanted(n) == mode = "complete" \/ (mode = "abnormal" /\ n > 0)

MailDecide(i) ==
    /\ mail[i].state = "started"
    /\ Becomes(i, IF Wanted(mail[i].n) THEN "rendering" ELSE "dropped")
    /\ UNCHANGED <<result, cache, queued, ctlVars, taskVars, mode, faultVars>>

(* The page is made from the report file, whatever it holds by now.        *)
MailRender(i) ==
    /\ mail[i].state = "rendering"
    /\ Becomes(i, IF Readable THEN "sending" ELSE "dropped")
    /\ UNCHANGED <<result, cache, queued, ctlVars, taskVars, mode, faultVars>>

(* A failure to send is only logged.                                       *)
MailSend(i) ==
    /\ mail[i].state = "sending"
    /\ \/ Becomes(i, "sent") /\ UNCHANGED errors
       \/ Fault /\ Becomes(i, "dropped")
    /\ UNCHANGED <<result, cache, queued, ctlVars, taskVars, mode, touches, crashes>>

SendMessage == \E i \in DOMAIN mail : MailDecide(i) \/ MailRender(i) \/ MailSend(i)

-----------------------------------------------------------------------------
(* The InspectTask controller, as the report sees it                       *)

(* GenerateResult of a second inspection removes the report of the first.  *)
RerunStarts ==
    /\ writer = "none" /\ reruns < MaxReruns /\ reruns' = reruns + 1
    /\ writer' = "saved" /\ report' = Gone
    /\ UNCHANGED <<result, cache, queued, ctlVars, known, mailVars, faultVars>>

(* saveResultFile, once for every job: who reads in between finds JSON     *)
(* that breaks off.                                                        *)
SaveBegins ==
    /\ writer = "saved" /\ writer' = "saving" /\ report' = Broken
    /\ UNCHANGED <<result, cache, queued, ctlVars, known, reruns, mailVars, faultVars>>

SaveEnds ==
    /\ writer = "saving" /\ writer' = "saved" /\ report' \in Issues
    /\ UNCHANGED <<result, cache, queued, ctlVars, known, reruns, mailVars, faultVars>>

RerunEnds ==
    /\ writer = "saved" /\ writer' = "none"
    /\ UNCHANGED <<result, cache, queued, ctlVars, known, report, reruns, mailVars, faultVars>>

-----------------------------------------------------------------------------
(* The environment                                                         *)

Sync ==
    /\ cache # result /\ cache' = result /\ queued' = TRUE
    /\ UNCHANGED <<result, ctlVars, taskVars, mailVars, faultVars>>

ListTask ==
    /\ ~known /\ ~result.del /\ known' = TRUE
    /\ UNCHANGED <<result, cache, queued, ctlVars, report, writer, reruns, mailVars, faultVars>>

(* Another client touches the result, or deletes it, alone or with its     *)
(* task.                                                                   *)
Touch ==
    /\ result.exists /\ touches < MaxTouches /\ touches' = touches + 1
    /\ \/ result' = [result EXCEPT !.ver = @ + 1] /\ UNCHANGED known
       \/ ~result.del /\ result' = Stored([result EXCEPT !.del = TRUE]) /\ known' \in {known, FALSE}
    /\ UNCHANGED <<cache, queued, ctlVars, report, writer, reruns, mailVars, crashes, errors>>

Crash ==
    /\ crashes < MaxCrashes /\ crashes' = crashes + 1
    /\ ReturnError /\ cache' = result /\ writer' = "none"
    /\ mail' = [i \in DOMAIN mail |->
                  IF mail[i].state = "sent" THEN mail[i] ELSE [mail[i] EXCEPT !.state = "dropped"]]
    /\ UNCHANGED <<result, known, report, reruns, mode, touches, errors>>

-----------------------------------------------------------------------------
(* The specification                                                       *)

Controller ==
    \/ Reconcile \/ AddFinalizer \/ RemoveFiles \/ DropFinalizer
    \/ GetTask \/ CountLevelNum \/ SetComplete \/ SetEnd

TaskController == RerunStarts \/ SaveBegins \/ SaveEnds \/ RerunEnds

Next == Controller \/ SendMessage \/ TaskController \/ Sync \/ ListTask \/ Touch \/ Crash

Spec == Init /\ [][Next]_vars

(* The controller runs, and the caches catch up.                           *)
Fairness == WF_vars(Controller) /\ WF_vars(Sync) /\ WF_vars(ListTask)

FairSpec == Spec /\ Fairness

-----------------------------------------------------------------------------
(* Properties                                                              *)

TypeOK ==
    /\ result \in Result /\ cache \in Result /\ old \in Result /\ my \in Result
    /\ queued \in BOOLEAN /\ ctl \in CtlLabel /\ known \in BOOLEAN
    /\ report \in Issues \cup {Gone, Broken} /\ writer \in {"none", "saved", "saving"}
    /\ mail \in Seq([n: Issues, state: MailState])
    /\ mode \in {"missing", "off", "abnormal", "complete"}

(* The users are told at most once of a result, and what they are told is  *)
(* what its status says, however often the issues were counted and however *)
(* the report changed in the meantime.                                     *)
MessageAgrees ==
    /\ Len(mail) <= 1
    /\ result.exists => \A i \in DOMAIN mail : result.complete /\ mail[i].n = result.level

(* A completed result keeps its counts and its end: a Reconcile that read  *)
(* the result before it was completed, and counted a report that has been  *)
(* rewritten since, cannot replace them.                                   *)
StatusIsFinal ==
    [][result.complete /\ result'.exists =>
         /\ result'.complete /\ result'.level = result.level
         /\ result.ended > 0 => result'.ended = result.ended]_vars

(* A result whose report stays readable is completed and gets its end.     *)
ResultCompletes ==
    Readable ~> \/ result.complete /\ result.ended > 0
                \/ result.del \/ ~Readable

=============================================================================
