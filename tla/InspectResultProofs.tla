------------------------ MODULE InspectResultProofs ------------------------
(***************************************************************************)
(* Proofs about InspectResult, for any number of issues, second            *)
(* inspections, edits, crashes and failures.                               *)
(***************************************************************************)
EXTENDS InspectResult, SequenceTheorems, TLAPS

-----------------------------------------------------------------------------
(* The inductive invariant                                                 *)

Mail == [n: Issues, state: MailState]

(* A copy of the result is older than the result or equal to it.           *)
CopyOf(r) == r.ver <= result.ver /\ (r.ver = result.ver => r = result)

CopyInv == CopyOf(cache) /\ (ctl # "idle" => CopyOf(old))

(* What Reconcile has changed of the result it read, and why.              *)
LocalInv ==
    /\ ctl \in {"addFinalizer", "removeFiles", "getTask", "count", "setEnd"} => my = old
    /\ ctl = "dropFinalizer" => my = [old EXCEPT !.fin = FALSE]
    /\ ctl = "setComplete" => my = [old EXCEPT !.complete = TRUE, !.level = my.level]
    /\ ctl \in {"getTask", "count", "setComplete"} => ~old.complete
    /\ ctl = "setEnd" => old.complete /\ old.ended = 0

(* A result that is not completed has no message; a completed one has at   *)
(* most one, and that agrees with it.                                      *)
MailInv ==
    /\ ~result.complete => mail = <<>>
    /\ Len(mail) <= 1
    /\ \A i \in 1..Len(mail) : mail[i].n = result.level

IInv == TypeOK /\ CopyInv /\ LocalInv /\ MailInv

-----------------------------------------------------------------------------
(* What a step does to the messages and to the result                      *)

(* No message is added, and none changes what it says.                     *)
MailKept ==
    /\ mail' \in Seq(Mail) /\ Len(mail') = Len(mail)
    /\ \A j \in 1..Len(mail) : mail'[j].n = mail[j].n

MailAdded == mail' = Append(mail, [n |-> result'.level, state |-> "started"])

(* SendMessage moves a message along.                                      *)
LEMMA MailMoves ==
    ASSUME mail \in Seq(Mail), NEW i \in DOMAIN mail, NEW s \in MailState, Becomes(i, s)
    PROVE  MailKept
<1>1. i \in 1..Len(mail) /\ mail[i] \in Mail
  BY LenProperties, ElementOfSeq
<1> DEFINE e == [mail[i] EXCEPT !.state = s]
<1>2. e \in Mail /\ e.n = mail[i].n
  BY <1>1 DEF Mail
<1>3. mail' = [mail EXCEPT ![i] = e]
  BY DEF Becomes
<1> HIDE DEF e
<1>4. /\ [mail EXCEPT ![i] = e] \in Seq(Mail)
      /\ Len([mail EXCEPT ![i] = e]) = Len(mail)
      /\ \A j \in 1..Len(mail) : [mail EXCEPT ![i] = e][j] = IF j = i THEN e ELSE mail[j]
  BY <1>1, <1>2, ExceptSeq
<1> QED
  BY <1>2, <1>3, <1>4 DEF MailKept

(* A crash ends the goroutines that have not sent their message.           *)
LEMMA MailCrashes ==
    ASSUME mail \in Seq(Mail), Crash
    PROVE  MailKept
<1> DEFINE e(i) == IF mail[i].state = "sent" THEN mail[i] ELSE [mail[i] EXCEPT !.state = "dropped"]
           n == Len(mail)
<1>1. n \in Nat /\ DOMAIN mail = 1..n /\ \A i \in 1..n : mail[i] \in Mail
  BY LenProperties, ElementOfSeq
<1>2. \A i \in 1..n : e(i) \in Mail /\ e(i).n = mail[i].n
  BY <1>1 DEF Mail, MailState
<1>3. mail' = [i \in 1..n |-> e(i)]
  BY <1>1 DEF Crash
<1> HIDE DEF e, n
<1>4. mail' \in [1..n -> Mail] /\ \A i \in 1..n : mail'[i] = e(i)
  BY <1>2, <1>3
<1>5. mail' \in Seq(Mail)
  BY <1>1, <1>4, SeqDef
<1>6. Len(mail') = n
  BY <1>1, <1>4, <1>5, LenProperties
<1> QED
  BY <1>2, <1>4, <1>5, <1>6 DEF MailKept, n

(* A step that leaves mail alone keeps the messages.                       *)
LEMMA MailUnchanged ==
    ASSUME mail \in Seq(Mail), UNCHANGED mail
    PROVE  MailKept
  BY DEF MailKept

(* An accepted write of new gives the result new's fields, at once or      *)
(* under a new version.                                                    *)
LEMMA StoredIs ==
    ASSUME result \in Result, NEW new \in Result
    PROVE  /\ Stored(new) \in Result
           /\ Stored(new) = result \/ Stored(new).ver = result.ver + 1
           /\ Stored(new).complete = new.complete
           /\ Stored(new).level = new.level
           /\ Stored(new).ended = new.ended
<1>1. CASE new = [result EXCEPT !.ver = new.ver]
  BY <1>1 DEF Stored, Result
<1>2. CASE new # [result EXCEPT !.ver = new.ver]
  <2> DEFINE b == ~(new.del /\ ~new.fin)
             u == [new EXCEPT !.ver = result.ver + 1]
             t == [u EXCEPT !.exists = b]
  <2>1. b \in BOOLEAN
    OBVIOUS
  <2>2. Stored(new) = t
    BY <1>2 DEF Stored
  <2> HIDE DEF b
  <2>3. /\ u \in Result /\ u.ver = result.ver + 1 /\ u.complete = new.complete
        /\ u.level = new.level /\ u.ended = new.ended
    BY DEF Result
  <2> HIDE DEF u
  <2>4. /\ t \in Result /\ t.ver = u.ver /\ t.complete = u.complete
        /\ t.level = u.level /\ t.ended = u.ended
    BY <2>1, <2>3 DEF Result
  <2> QED
    BY <2>2, <2>3, <2>4
<1> QED
  BY <1>1, <1>2

Keeps == /\ result'.complete = result.complete
         /\ result'.level = result.level
         /\ result'.ended = result.ended

Completes == /\ ~result.complete /\ result'.complete /\ result'.ended = result.ended
             /\ MailKept \/ MailAdded

Ends == /\ result.complete /\ result.ended = 0
        /\ result'.complete /\ result'.level = result.level
        /\ MailKept

(* The result changes in one of three ways, and always under a new version.*)
LEMMA ResultStep ==
    ASSUME IInv, Next
    PROVE  /\ result' \in Result
           /\ result' = result \/ result'.ver = result.ver + 1
           /\ (Keeps /\ MailKept) \/ Completes \/ Ends
<1> DEFINE Goal == /\ result' \in Result
                   /\ result' = result \/ result'.ver = result.ver + 1
                   /\ (Keeps /\ MailKept) \/ Completes \/ Ends
<1> SUFFICES Goal
  OBVIOUS
<1>0. /\ result \in Result /\ my \in Result /\ old \in Result /\ mail \in Seq(Mail)
      /\ ctl \in CtlLabel
  BY DEF IInv, TypeOK, Mail
<1>1. ASSUME UNCHANGED result, MailKept PROVE Goal
  BY <1>0, <1>1 DEF Keeps
<1>2. ASSUME UNCHANGED <<result, mail>> PROVE Goal
  BY <1>0, <1>1, <1>2, MailUnchanged
<1>3. ASSUME Current, ctl # "idle" PROVE result = old
  BY <1>3 DEF IInv, CopyInv, CopyOf, Current
<1>4. CASE AddFinalizer
  <2> DEFINE new == [my EXCEPT !.fin = TRUE]
  <2>1. new \in Result /\ my = old
    BY <1>0, <1>4 DEF AddFinalizer, Result, IInv, LocalInv
  <2>2. CASE Current /\ result' = Stored(new) /\ UNCHANGED mail
    BY <1>0, <1>3, <1>4, <2>1, <2>2, StoredIs, MailUnchanged DEF Keeps, Result, AddFinalizer
  <2> QED
    BY <1>2, <1>4, <2>2 DEF AddFinalizer, UpdateAndReturn
<1>5. CASE DropFinalizer
  <2>1. my = [old EXCEPT !.fin = FALSE]
    BY <1>5 DEF DropFinalizer, IInv, LocalInv
  <2>2. CASE Current /\ result' = Stored(my) /\ UNCHANGED mail
    BY <1>0, <1>3, <1>5, <2>1, <2>2, StoredIs, MailUnchanged DEF Keeps, Result, DropFinalizer
  <2> QED
    BY <1>2, <1>5, <2>2 DEF DropFinalizer, UpdateAndReturn
<1>6. CASE SetComplete
  <2>1. my = [old EXCEPT !.complete = TRUE, !.level = my.level] /\ ~old.complete
    BY <1>6 DEF SetComplete, IInv, LocalInv
  <2>2. my.complete /\ my.ended = old.ended
    BY <1>0, <2>1 DEF Result
  <2>3. CASE Current /\ result' = Stored(my) /\ (UNCHANGED mail \/ StartMail)
    <3>1. /\ result' \in Result
          /\ result' = result \/ result'.ver = result.ver + 1
          /\ result'.complete /\ result'.level = my.level /\ result'.ended = old.ended
      BY <1>0, <2>2, <2>3, StoredIs
    <3>2. result = old
      BY <1>3, <1>6, <2>3 DEF SetComplete
    <3>3. MailKept \/ MailAdded
      BY <1>0, <2>3, <3>1, MailUnchanged DEF StartMail, MailAdded
    <3> QED
      BY <2>1, <3>1, <3>2, <3>3 DEF Completes
  <2> QED
    BY <1>2, <1>6, <2>3 DEF SetComplete, UpdateAndReturn
<1>7. CASE SetEnd
  <2> DEFINE new == [my EXCEPT !.ended = @ + 1]
  <2>1. my = old /\ old.complete /\ old.ended = 0
    BY <1>7 DEF SetEnd, IInv, LocalInv
  <2>2. new \in Result /\ new.complete = my.complete /\ new.level = my.level
    BY <1>0 DEF Result
  <2> HIDE DEF new
  <2>3. CASE Current /\ result' = Stored(new) /\ UNCHANGED mail
    <3>1. /\ result' \in Result
          /\ result' = result \/ result'.ver = result.ver + 1
          /\ result'.complete = my.complete /\ result'.level = my.level
      BY <1>0, <2>2, <2>3, StoredIs
    <3>2. result = old
      BY <1>3, <1>7, <2>3 DEF SetEnd
    <3> QED
      BY <1>0, <2>1, <2>3, <3>1, <3>2, MailUnchanged DEF Ends
  <2> QED
    BY <1>2, <1>7, <2>3 DEF SetEnd, UpdateAndReturn, new
<1>8. CASE SendMessage
  <2>1. PICK i \in DOMAIN mail : MailDecide(i) \/ MailRender(i) \/ MailSend(i)
    BY <1>8 DEF SendMessage
  <2>2. \E s \in MailState : Becomes(i, s)
    BY <2>1 DEF MailDecide, MailRender, MailSend, MailState
  <2>3. UNCHANGED result
    BY <2>1 DEF MailDecide, MailRender, MailSend
  <2> QED
    BY <1>0, <1>1, <2>2, <2>3, MailMoves
<1>9. CASE Crash
  BY <1>0, <1>1, <1>9, MailCrashes DEF Crash
<1>10. CASE Touch
  <2>1. UNCHANGED mail
    BY <1>10 DEF Touch, mailVars
  <2>2. CASE result' = [result EXCEPT !.ver = @ + 1]
    BY <1>0, <2>1, <2>2, MailUnchanged DEF Keeps, Result
  <2>3. CASE result' = Stored([result EXCEPT !.del = TRUE])
    <3>1. [result EXCEPT !.del = TRUE] \in Result
      BY <1>0 DEF Result
    <3> QED
      BY <1>0, <2>1, <2>3, <3>1, StoredIs, MailUnchanged DEF Keeps, Result
  <2> QED
    BY <1>10, <2>2, <2>3 DEF Touch
<1>11. CASE Reconcile \/ RemoveFiles \/ GetTask \/ CountLevelNum
  BY <1>2, <1>11 DEF Reconcile, RemoveFiles, GetTask, CountLevelNum, mailVars
<1>12. CASE TaskController \/ Sync \/ ListTask
  BY <1>2, <1>12 DEF TaskController, RerunStarts, SaveBegins, SaveEnds, RerunEnds,
                     Sync, ListTask, mailVars
<1> QED
  BY <1>4, <1>5, <1>6, <1>7, <1>8, <1>9, <1>10, <1>11, <1>12 DEF Next, Controller

-----------------------------------------------------------------------------
(* The invariant is inductive                                              *)

(* Every step of the controller and its environment keeps the types.       *)
LEMMA TypeStep == ASSUME IInv, Next PROVE TypeOK'
<1>0. /\ result \in Result /\ my \in Result /\ old \in Result /\ cache \in Result
      /\ mail \in Seq(Mail) /\ ctl \in CtlLabel /\ NewResult \in Result
  BY BoundsAssumption DEF IInv, TypeOK, Mail, NewResult, Result, Issues
<1>1. result' \in Result
  BY ResultStep
<1>2. mail' \in Seq(Mail)
  <2>1. CASE MailAdded
    <3>1. [n |-> result'.level, state |-> "started"] \in Mail
      BY <1>1 DEF Result, Mail, MailState
    <3> QED
      BY <1>0, <2>1, <3>1 DEF MailAdded
  <2> QED
    BY <2>1, ResultStep DEF MailKept, Completes, Ends
<1>3. cache' \in Result
  <2>1. cache' = cache \/ cache' = result
    BY DEF Next, Controller, Reconcile, AddFinalizer, RemoveFiles, DropFinalizer, GetTask,
           CountLevelNum, SetComplete, SetEnd, UpdateAndReturn, SendMessage, MailDecide,
           MailRender, MailSend, TaskController, RerunStarts, SaveBegins, SaveEnds,
           RerunEnds, Sync, ListTask, Touch, Crash
  <2> QED
    BY <1>0, <2>1
<1>4. old' \in Result /\ my' \in Result /\ ctl' \in CtlLabel /\ queued' \in BOOLEAN
  <2>1. CASE Reconcile
    <3>1. Branch(cache) \in CtlLabel
      BY DEF Branch, CtlLabel
    <3> QED
      BY <1>0, <2>1, <3>1 DEF Reconcile
  <2>2. CASE AddFinalizer \/ DropFinalizer \/ SetComplete \/ SetEnd
    BY <1>0, <2>2 DEF AddFinalizer, DropFinalizer, SetComplete, SetEnd, UpdateAndReturn,
                      Return, ReturnError, IInv, TypeOK, CtlLabel
  <2>3. CASE RemoveFiles
    <3>1. [my EXCEPT !.fin = FALSE] \in Result
      BY <1>0 DEF Result
    <3> QED
      BY <1>0, <2>3, <3>1 DEF RemoveFiles, IInv, TypeOK, CtlLabel
  <2>4. CASE GetTask
    BY <1>0, <2>4 DEF GetTask, ReturnError, IInv, TypeOK, CtlLabel
  <2>5. CASE CountLevelNum
    <3>1. Readable => [my EXCEPT !.complete = TRUE, !.level = report] \in Result
      BY <1>0 DEF Result, Readable
    <3> QED
      BY <1>0, <2>5, <3>1 DEF CountLevelNum, ReturnError, IInv, TypeOK, CtlLabel
  <2>6. CASE Crash
    BY <1>0, <2>6 DEF Crash, ReturnError, CtlLabel
  <2>7. CASE SendMessage \/ TaskController \/ Sync \/ ListTask \/ Touch
    BY <1>0, <2>7 DEF SendMessage, MailDecide, MailRender, MailSend, TaskController,
                      RerunStarts, SaveBegins, SaveEnds, RerunEnds, Sync, ListTask, Touch,
                      ctlVars, IInv, TypeOK
  <2> QED
    BY <2>1, <2>2, <2>3, <2>4, <2>5, <2>6, <2>7 DEF Next, Controller
<1>5. /\ known' \in BOOLEAN /\ report' \in Issues \cup {Gone, Broken}
      /\ writer' \in {"none", "saved", "saving"}
      /\ mode' \in {"missing", "off", "abnormal", "complete"}
  <2>1. CASE Controller
    BY <2>1 DEF Controller, Reconcile, AddFinalizer, RemoveFiles, DropFinalizer, GetTask,
                CountLevelNum, SetComplete, SetEnd, UpdateAndReturn, taskVars, mailVars,
                IInv, TypeOK
  <2>2. CASE ~Controller
    BY <2>2 DEF Next, SendMessage, MailDecide, MailRender, MailSend, TaskController,
                RerunStarts, SaveBegins, SaveEnds, RerunEnds, Sync, ListTask, Touch, Crash,
                taskVars, mailVars, IInv, TypeOK
  <2> QED
    BY <2>1, <2>2
<1> QED
  BY <1>1, <1>2, <1>3, <1>4, <1>5 DEF TypeOK, Mail

(* A copy that was current stays so, or is outdated by the step.           *)
LEMMA CopyStays ==
    ASSUME IInv, Next, NEW r \in Result, CopyOf(r)
    PROVE  r.ver <= result'.ver /\ (r.ver = result'.ver => r = result')
<1>1. result \in Result /\ (result' = result \/ result'.ver = result.ver + 1)
  BY ResultStep DEF IInv, TypeOK
<1> QED
  BY <1>1 DEF CopyOf, Result

(* The cache and Reconcile's copy are old or current after every step.     *)
LEMMA CopyStep == ASSUME IInv, Next PROVE CopyInv'
<1>0. result \in Result /\ cache \in Result /\ old \in Result /\ CopyOf(cache)
  BY DEF IInv, TypeOK, CopyInv
<1>1. CopyOf(result)
  BY <1>0 DEF CopyOf, Result
<1>2. cache' = cache \/ cache' = result
  BY DEF Next, Controller, Reconcile, AddFinalizer, RemoveFiles, DropFinalizer, GetTask,
         CountLevelNum, SetComplete, SetEnd, UpdateAndReturn, SendMessage, MailDecide,
         MailRender, MailSend, TaskController, RerunStarts, SaveBegins, SaveEnds,
         RerunEnds, Sync, ListTask, Touch, Crash
<1>3. \/ ctl' = "idle"
      \/ old' = cache
      \/ old' = old /\ ctl # "idle"
  BY DEF Next, Controller, Reconcile, AddFinalizer, RemoveFiles, DropFinalizer, GetTask,
         CountLevelNum, SetComplete, SetEnd, UpdateAndReturn, Return, ReturnError,
         SendMessage, MailDecide, MailRender, MailSend, TaskController, RerunStarts,
         SaveBegins, SaveEnds, RerunEnds, Sync, ListTask, Touch, Crash, ctlVars
<1>4. CopyOf(cache)'
  BY <1>0, <1>1, <1>2, CopyStays DEF CopyOf
<1>5. ctl' # "idle" => CopyOf(old)'
  BY <1>0, <1>3, CopyStays DEF CopyOf, IInv, CopyInv
<1> QED
  BY <1>4, <1>5 DEF CopyInv

(* Reconcile's local copy differs from what it read as its branch says.    *)
LEMMA LocalStep == ASSUME IInv, Next PROVE LocalInv'
<1>0. my \in Result /\ old \in Result /\ cache \in Result /\ LocalInv
  BY DEF IInv, TypeOK
<1>1. CASE UNCHANGED ctlVars
  BY <1>0, <1>1 DEF LocalInv, ctlVars
<1>2. CASE ctl' = "idle"
  BY <1>2 DEF LocalInv
<1>3. CASE Reconcile
  BY <1>0, <1>3 DEF Reconcile, Branch, LocalInv, Result
<1>4. CASE RemoveFiles
  BY <1>0, <1>4 DEF RemoveFiles, LocalInv
<1>5. CASE GetTask
  BY <1>0, <1>2, <1>5 DEF GetTask, ReturnError, LocalInv
<1>6. CASE CountLevelNum
  <2>1. CASE ~Readable
    BY <1>2, <1>6, <2>1 DEF CountLevelNum, ReturnError
  <2>2. CASE Readable
    BY <1>0, <1>6, <2>2 DEF CountLevelNum, LocalInv, Result
  <2> QED
    BY <2>1, <2>2
<1>7. CASE AddFinalizer \/ DropFinalizer \/ SetComplete \/ SetEnd \/ Crash
  BY <1>2, <1>7 DEF AddFinalizer, DropFinalizer, SetComplete, SetEnd, UpdateAndReturn,
                    Return, ReturnError, Crash
<1>8. CASE SendMessage \/ TaskController \/ Sync \/ ListTask \/ Touch
  BY <1>1, <1>8 DEF SendMessage, MailDecide, MailRender, MailSend, TaskController,
                    RerunStarts, SaveBegins, SaveEnds, RerunEnds, Sync, ListTask, Touch
<1> QED
  BY <1>3, <1>4, <1>5, <1>6, <1>7, <1>8 DEF Next, Controller

(* No step adds a second message or makes one disagree with the status.    *)
LEMMA MailStep == ASSUME IInv, Next PROVE MailInv'
<1>0. mail \in Seq(Mail) /\ result \in Result
  BY DEF IInv, TypeOK, Mail
<1>1. CASE Keeps /\ MailKept
  <2>1. ~result'.complete => mail' = <<>>
    BY <1>0, <1>1, EmptySeq DEF Keeps, MailKept, IInv, MailInv
  <2> QED
    BY <1>0, <1>1, <2>1 DEF Keeps, MailKept, IInv, MailInv
<1>2. CASE Completes
  <2>1. mail = <<>>
    BY <1>2 DEF Completes, IInv, MailInv
  <2>2. CASE MailKept
    BY <1>0, <1>2, <2>1, <2>2 DEF Completes, MailKept, MailInv
  <2>3. CASE MailAdded
    <3>1. mail' = <<[n |-> result'.level, state |-> "started"]>>
      BY <2>1, <2>3 DEF MailAdded
    <3> QED
      BY <1>2, <3>1 DEF Completes, MailInv
  <2> QED
    BY <1>2, <2>2, <2>3 DEF Completes
<1>3. CASE Ends
  BY <1>0, <1>3 DEF Ends, MailKept, IInv, MailInv
<1> QED
  BY <1>1, <1>2, <1>3, ResultStep

(* A new InspectResult satisfies the invariant.                            *)
LEMMA IInvInit == Init => IInv
<1> SUFFICES ASSUME Init PROVE IInv
  OBVIOUS
<1>1. NewResult \in Result
  BY BoundsAssumption DEF NewResult, Result, Issues
<1>2. TypeOK
  BY <1>1 DEF Init, TypeOK, CtlLabel
<1>3. CopyInv /\ LocalInv
  BY <1>1 DEF Init, CopyInv, CopyOf, LocalInv, NewResult, Result
<1>4. MailInv
  BY DEF Init, MailInv
<1> QED
  BY <1>2, <1>3, <1>4 DEF IInv

(* Every step, stuttering included, preserves the invariant.               *)
LEMMA IInvStep == IInv /\ [Next]_vars => IInv'
<1> SUFFICES ASSUME IInv, [Next]_vars PROVE IInv'
  OBVIOUS
<1>1. CASE Next
  BY <1>1, TypeStep, CopyStep, LocalStep, MailStep DEF IInv
<1>2. CASE UNCHANGED vars
  BY <1>2 DEF IInv, TypeOK, CopyInv, CopyOf, LocalInv, MailInv,
              vars, ctlVars, taskVars, mailVars
<1> QED
  BY <1>1, <1>2

-----------------------------------------------------------------------------
(* The theorems                                                            *)

(* The invariant the other theorems rest on: a copy with the version of    *)
(* the result is the result, Reconcile changes what its branch says, and   *)
(* the messages agree with the status.                                     *)
THEOREM ResultInvariant == Spec => []IInv
  BY IInvInit, IInvStep, PTL DEF Spec

(* Type correctness of the InspectResult controller.                       *)
THEOREM ResultTypeCorrect == Spec => []TypeOK
<1>1. IInv => TypeOK
  BY DEF IInv
<1> QED
  BY <1>1, ResultInvariant, PTL

(* go r.SendMessage(result) runs at most once for a result, and tells what *)
(* the result's status says, whatever conflicts, crashes and rewrites of   *)
(* the report came in between.                                             *)
THEOREM ResultMessageAgrees == Spec => []MessageAgrees
<1>1. IInv => MessageAgrees
  <2> SUFFICES ASSUME IInv PROVE MessageAgrees
    OBVIOUS
  <2>1. mail \in Seq(Mail)
    BY DEF IInv, TypeOK, Mail
  <2>2. DOMAIN mail = 1..Len(mail)
    BY <2>1, LenProperties
  <2>3. ~result.complete => DOMAIN mail = {}
    BY DEF IInv, MailInv
  <2> QED
    BY <2>2, <2>3 DEF MessageAgrees, IInv, MailInv
<1> QED
  BY <1>1, ResultInvariant, PTL

(* A completed InspectResult keeps its counts and its end time: Reconcile  *)
(* cannot overwrite them from an outdated read.                            *)
THEOREM ResultStatusIsFinal == Spec => StatusIsFinal
<1> DEFINE Final == result.complete /\ result'.exists =>
                       /\ result'.complete /\ result'.level = result.level
                       /\ result.ended > 0 => result'.ended = result.ended
<1>1. IInv /\ [Next]_vars => [Final]_vars
  <2>1. ASSUME IInv, Next PROVE Final
    <3>1. CASE Keeps \/ Completes
      BY <3>1 DEF Keeps, Completes
    <3>2. CASE Ends
      <4>1. ~(result.ended > 0)
        BY <3>2 DEF Ends
      <4> QED
        BY <3>2, <4>1 DEF Ends
    <3> QED
      BY <2>1, <3>1, <3>2, ResultStep
  <2> QED
    BY <2>1
<1> QED
  BY <1>1, ResultInvariant, PTL DEF Spec, StatusIsFinal

=============================================================================
