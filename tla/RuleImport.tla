----------------------------- MODULE RuleImport -----------------------------
(***************************************************************************)
(* The InspectRules controller (pkg/controllers/inspectrules_controller.go)*)
(* for one InspectRule: its finalizer, and the import, which counts the    *)
(* rule's items by level and stores the counts in the rule's status.       *)
(*                                                                         *)
(* Update and Status().Update carry the resourceVersion of the copy that   *)
(* Reconcile read from the manager's cache, and are refused when the rule  *)
(* has changed since.  Who creates, edits and deletes the rule is left to  *)
(* the environment: module ApiServer, and kubectl.                         *)
(***************************************************************************)
EXTENDS Integers, Sequences, FiniteSets

CONSTANTS
    Specs,             \* the specs a user may give the rule
    FirstSpec,         \* the one it is created with
    MaxManagerFaults   \* failed calls of the controller

ASSUME FaultsAssumption == MaxManagerFaults \in Nat

VARIABLES
    rule,     \* the InspectRule in the API server
    rcache,   \* the copy of it in the manager's cache
    rqueued,  \* the work queue holds the rule's key
    rctl,     \* where Reconcile is
    rmy,      \* the copy this Reconcile read, NoRule between two
    rfaults   \* failed calls so far

ruleVars == <<rule, rcache, rqueued, rctl, rmy, rfaults>>

-----------------------------------------------------------------------------
(* Types                                                                   *)

Level == {"danger", "warning", "ignore"}

Kind == {"opas", "prometheus", "fileChange", "sysctl", "systemd", "fileFilter",
         "customCommand", "nodeInfo", "serviceConnect", "component"}

(* An item of the spec; level "" is a level left out.                      *)
SpecItem == [kind: Kind, level: Level \cup {""}]

ASSUME SpecsAssumption == FirstSpec \in Specs /\ Specs \subseteq Seq(SpecItem)

NoCount == [l \in Level |-> 0]

ImportState == {"", "StartImport", "ImportComplete"}

Rule == [exists: BOOLEAN, ver: Nat, fin: BOOLEAN, del: BOOLEAN, spec: Specs,
         state: ImportState, levels: [Level -> Nat]]

NewRule(s) == [exists |-> TRUE, ver |-> 0, fin |-> FALSE, del |-> FALSE,
               spec |-> s, state |-> "", levels |-> NoCount]

(* What a cache holds before its first list.                               *)
NoRule == [NewRule(FirstSpec) EXCEPT !.exists = FALSE]

RuleLabel == {"idle", "addFinalizer", "dropFinalizer", "start", "complete"}

RuleInit ==
    /\ rule = NewRule(FirstSpec)
    /\ rcache = NoRule /\ rqueued = FALSE
    /\ rctl = "idle" /\ rmy = NoRule /\ rfaults = 0

-----------------------------------------------------------------------------
(* Faulty variant: a level left out is counted under the empty name.       *)
ComputeLevelRaw(s) ==
    [l \in {s[i].level : i \in DOMAIN s} |-> Cardinality({i \in DOMAIN s : s[i].level = l})]

(* ComputeLevel, over the kinds Reconcile passes to it: a level left out   *)
(* is a warning; components are not passed.                                *)
ComputeLevel(s) ==
    [l \in Level |-> Cardinality({i \in DOMAIN s :
        /\ s[i].kind # "component"
        /\ s[i].level = l \/ (s[i].level = "" /\ l = "warning")})]

(* The object after an accepted write of new; a deleted object without     *)
(* its finalizer is gone.                                                  *)
RuleStored(new) ==
    [new EXCEPT !.ver = rule.ver + 1, !.exists = ~(new.del /\ ~new.fin)]

RuleCurrent == rule.exists /\ rmy.ver = rule.ver

RuleFault == rfaults < MaxManagerFaults /\ rfaults' = rfaults + 1

(* An Update of new, and the return of Reconcile: an error, a refusal or a *)
(* reply that is lost, puts the key back.                                  *)
RuleUpdate(new) ==
    /\ \/ RuleCurrent /\ rule' = RuleStored(new) /\ UNCHANGED <<rqueued, rfaults>>
       \/ ~RuleCurrent /\ UNCHANGED <<rule, rfaults>> /\ rqueued' = TRUE
       \/ RuleCurrent /\ RuleFault /\ rule' = RuleStored(new) /\ rqueued' = TRUE
       \/ RuleFault /\ UNCHANGED rule /\ rqueued' = TRUE
    /\ rctl' = "idle" /\ rmy' = NoRule
    /\ UNCHANGED rcache

(* Faulty variant: an imported rule is left alone, deleted or not.         *)
RuleBranchDoneFirst(r) ==
    CASE ~r.exists \/ r.state = "ImportComplete" -> "idle"
      [] r.exists /\ r.state # "ImportComplete" /\ r.del -> "dropFinalizer"
      [] r.exists /\ r.state # "ImportComplete" /\ ~r.del /\ ~r.fin -> "addFinalizer"
      [] OTHER -> IF r.state = "" THEN "start" ELSE "complete"

(* The branch Reconcile takes for the rule r it read.                      *)
RuleBranch(r) ==
    CASE ~r.exists -> "idle"
      [] r.exists /\ r.del -> "dropFinalizer"
      [] r.exists /\ ~r.del /\ ~r.fin -> "addFinalizer"
      [] OTHER -> CASE r.state = "" -> "start"
                    [] r.state = "StartImport" -> "complete"
                    [] r.state = "ImportComplete" -> "idle"

RuleReconcile ==
    /\ rctl = "idle" /\ rqueued /\ rqueued' = FALSE
    /\ rctl' = RuleBranch(rcache)
    /\ rmy' = IF rctl' = "idle" THEN NoRule ELSE rcache
    /\ UNCHANGED <<rule, rcache, rfaults>>

AddFinalizer == rctl = "addFinalizer" /\ RuleUpdate([rmy EXCEPT !.fin = TRUE])

DropFinalizer == rctl = "dropFinalizer" /\ RuleUpdate([rmy EXCEPT !.fin = FALSE])

StartImport == rctl = "start" /\ RuleUpdate([rmy EXCEPT !.state = "StartImport"])

(* Faulty variant: the counts are patched into the rule as it is now.      *)
CompleteImportPatch ==
    /\ rctl = "complete" /\ rctl' = "idle" /\ rule.exists
    /\ rule' = RuleStored([rule EXCEPT !.state = "ImportComplete",
                                       !.levels = ComputeLevel(rmy.spec)])
    /\ rmy' = NoRule /\ UNCHANGED <<rcache, rqueued, rfaults>>

CompleteImport ==
    /\ rctl = "complete"
    /\ RuleUpdate([rmy EXCEPT !.state = "ImportComplete",
                              !.levels = ComputeLevel(rmy.spec)])

(* The watch of the manager catches up, and queues the key.                *)
RuleSync ==
    /\ rcache # rule
    /\ rcache' = rule /\ rqueued' = TRUE
    /\ UNCHANGED <<rule, rctl, rmy, rfaults>>

RuleController ==
    \/ RuleReconcile \/ AddFinalizer \/ DropFinalizer
    \/ StartImport \/ CompleteImport

-----------------------------------------------------------------------------
RuleTypeOK ==
    /\ rule \in Rule /\ rcache \in Rule /\ rmy \in Rule
    /\ rqueued \in BOOLEAN /\ rctl \in RuleLabel
    /\ rfaults \in 0..MaxManagerFaults

(* The counts of an import are those of the spec they are stored with: a   *)
(* Reconcile that read the rule before an edit cannot complete the import, *)
(* and no later Reconcile, crash or retry changes the counts again.        *)
CountsMatchSpec ==
    [][/\ rule.state # "ImportComplete" /\ rule'.state = "ImportComplete"
            => rule'.levels = ComputeLevel(rule'.spec) /\ rule'.spec = rule.spec
       /\ rule.state = "ImportComplete" /\ rule.exists
            => rule'.state = rule.state /\ rule'.levels = rule.levels]_ruleVars

(* Reconcile: every rule ends up imported, or gone if its deletion has     *)
(* begun, wherever its import was then, and stays so.                      *)
RuleSettles == <>[](~rule.exists \/ (~rule.del /\ rule.state = "ImportComplete"))
=============================================================================
