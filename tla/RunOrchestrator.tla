-------------------------- MODULE RunOrchestrator --------------------------
(***************************************************************************)
(* runApprovedManifest: the loop that takes an approved manifest case by   *)
(* case, gates every case, executes its steps with at most one retry, runs *)
(* its cleanup steps and records one authoritative result per case.        *)
(*                                                                         *)
(* The loop is one sequential async function; its concurrency is with the  *)
(* outside: every await may end in an exception (an I/O error, an observer *)
(* that throws, the death of the process), and the same manifest may be    *)
(* run again into the same directory, because the run directory is named   *)
(* after the manifest and not after the run.                               *)
(*                                                                         *)
(* Abstractions.  A case is identified by its position: the report reader  *)
(* refuses duplicate case IDs.  Payloads, timings and messages are left    *)
(* out.  An outcome carries what the loop tells apart: its status, whether *)
(* its error type is one of the retryable kinds, its root cause, whether   *)
(* it has attachments (one stands for several: their names differ).  The   *)
(* presentation events of the observer are left out here.                  *)
(***************************************************************************)
EXTENDS Integers, Sequences, FiniteSets

CONSTANTS
  Manifests,   \* the approved manifests the runner may be given
  Resources,   \* names of resources that cases lock
  Causes,      \* values of root_cause_key
  NoCause,     \* an outcome without a root_cause_key
  AdapterOutcomes(_), \* the outcomes an action may have, for a manifest
  MaxRuns(_)   \* how often a manifest is run into one directory

-----------------------------------------------------------------------------
(* What a manifest declares.                                               *)

ExecutableFields == {"setup", "actions", "assertions", "cleanup"}
Fields == ExecutableFields \cup
          {"automation_status", "unresolved", "dependencies", "resource_locks", "effects"}
FieldStatus == {"skipped", "executed", "blocked", "failed"}

\* kind: an ordinary action, a business assertion (api/web/db.assert), an
\* execution.blocked marker, a cleanup action; field: the part of the
\* contract its source_step belongs to.
Action == [id : Nat \ {0},
           kind : {"operate", "assert", "blocked", "cleanup"},
           field : ExecutableFields \cup {"none"}]

Case == [execution : Seq(Action),          \* the steps that are not cleanup
         cleanup : Seq(Action),            \* the cleanup steps
         auto : BOOLEAN,                   \* automation_status = auto_ready
         unresolved : BOOLEAN,             \* some field is unresolved
         dependencies : SUBSET Nat,        \* positions of other cases
         locks : SUBSET Resources,         \* resource_locks
         global : BOOLEAN,                 \* effects.global_environment is declared
         declares : SUBSET ExecutableFields, \* fields with entries in the contract
         technical : BOOLEAN]              \* technical_cleanup is not empty

ASSUME ManifestsAssumption == Manifests \subseteq Seq(Case)
ASSUME NoCauseAssumption == NoCause \notin Causes
ASSUME MaxRunsAssumption == \A m \in Manifests : MaxRuns(m) \in Nat

CaseStatus == {"passed", "failed", "pending", "not_executed"}
RunStatus == {"completed", "blocked", "manual_required", "executor_error"}

\* evidence/<case>/attempt-<n>/<action>/<file>; action 0 is the case itself
EvidenceFile == {"attachment", "failure", "pending", "manual-cleanup", "missing-business-assertion"}
Path == [case : Nat, attempt : Nat, action : Nat, file : EvidenceFile]

OutcomeStatus == {"passed", "pending", "failed", "blocked", "manual_required", "executor_error"}
Outcome == [status : OutcomeStatus, transient : BOOLEAN,
            cause : Causes \cup {NoCause}, attached : BOOLEAN]

ASSUME AdapterOutcomesAssumption == \A m \in Manifests : AdapterOutcomes(m) \subseteq Outcome

CaseResult == [status : CaseStatus, runStatus : RunStatus,
               assertions : SUBSET [action : Nat, passed : BOOLEAN],
               evidence : SUBSET Path,
               fields : [Fields -> FieldStatus]]

-----------------------------------------------------------------------------
VARIABLES
  manifest,       \* the approved manifest
  pc,             \* where the loop is
  runs,           \* how many runs were started in this directory
  results,        \* cases: the results so far, in the order of the manifest
  runStatus,
  globalContamination,
  contaminatedResources,
  defects,        \* root cause -> failure evidence of the cases it failed
  attempt, step, caseStatus, caseRunStatus, assertions, evidence,
  fieldStatus, observed,   \* contract_field_status and what it is merged from
  disk, index,    \* evidence files, and the entries of evidence-index.json
  sequence,       \* the counter of the run's EventWriter
  journal,        \* the sequence number of the last line of run-events.jsonl
  performed,      \* history of this run: the actions that were executed
  written         \* history of this run: the evidence files it wrote

shared == <<manifest, runs>>
caseVars == <<attempt, step, caseStatus, caseRunStatus, assertions, evidence,
              fieldStatus, observed>>
contamination == <<globalContamination, contaminatedResources>>
files == <<disk, index, sequence, journal, written>>
runVars == <<results, runStatus, contamination, defects, performed>>
vars == <<shared, pc, runVars, caseVars, files>>

CaseNumber == Len(results) + 1
Item == manifest[CaseNumber]
IsBusinessAssertion(action) == action.kind = "assert"
HasVerdictRoute(c) ==
  \E k \in DOMAIN c.execution :
    IsBusinessAssertion(c.execution[k]) \/ c.execution[k].kind = "blocked"

\* What executeAction may answer for an action: an execution.blocked marker is
\* always blocked, only an assertion can be pending, a passed outcome has no
\* error and only a failed one names a root cause.
Outcomes(action) ==
  {o \in AdapterOutcomes(manifest) :
     /\ action.kind = "blocked" => o.status = "blocked" /\ ~o.transient
     /\ o.status = "pending" => action.kind = "assert"
     /\ o.status \in {"passed", "pending"} => ~o.transient
     /\ o.status # "failed" => o.cause = NoCause}

-----------------------------------------------------------------------------
(* contract_field_status                                                   *)

InitiallyBlocked(c) ==
  c.declares \cup {f \in {"automation_status"} : ~c.auto}
             \cup {f \in {"unresolved"} : c.unresolved}
             \cup {f \in {"resource_locks"} : c.locks # {}}
             \cup {f \in {"cleanup"} : c.technical}
InitiallyExecuted(c) ==
  {f \in {"automation_status"} : c.auto} \cup {f \in {"dependencies"} : c.dependencies # {}}
ContractFieldStatus(c) ==
  [f \in Fields |-> IF f \in InitiallyBlocked(c) THEN "blocked"
                    ELSE IF f \in InitiallyExecuted(c) THEN "executed" ELSE "skipped"]

MergeContractFieldStatus(current, next) ==
  IF "failed" \in {current, next} THEN "failed"
  ELSE IF "blocked" \in {current, next} THEN "blocked"
  ELSE IF "executed" \in {current, next} THEN "executed"
  ELSE "skipped"

OutcomeFieldStatus(o) ==
  CASE o.status = "passed" -> "executed"
    [] o.status \in {"failed", "executor_error"} -> "failed"
    [] OTHER -> "blocked"

RecordContractActionOutcome(c, action, o) ==
  IF action.field = "none" THEN UNCHANGED <<fieldStatus, observed>>
  ELSE LET aggregate == MergeContractFieldStatus(observed[action.field], OutcomeFieldStatus(o))
           held == action.field = "cleanup" /\ c.technical /\ aggregate # "failed"
       IN /\ observed' = [observed EXCEPT ![action.field] = aggregate]
          /\ fieldStatus' = [fieldStatus EXCEPT
                               ![action.field] = IF held THEN "blocked" ELSE aggregate]

-----------------------------------------------------------------------------
(* Evidence files and the event journal.                                   *)

EvidencePath(action, file) ==
  [case |-> CaseNumber, attempt |-> attempt, action |-> action, file |-> file]

Files(writes) == {writes[n] : n \in DOMAIN writes}

\* writes: the files a handler stores, in their order.  Each is created with
\* the wx flag: one that exists already ends the run.
Storable(writes) == Files(writes) \cap disk = {}
\* Mutant: a file that exists is taken as it is.
StoreEvidenceReusing(writes) ==
  /\ disk' = disk \cup Files(writes)
  /\ index' = index \cup Files(writes)
  /\ written' = written \cup (Files(writes) \ disk)

StoreEvidence(writes) ==
  /\ Storable(writes)
  /\ disk' = disk \cup Files(writes)
  /\ index' = index \cup Files(writes)
  /\ written' = written \cup Files(writes)

\* How far storing gets when it is cut short: the first n files exist, and the
\* last of them may be missing from the index.
StoreInterrupted(writes) ==
  \E n \in 0 .. Len(writes) :
    LET done == SubSeq(writes, 1, n)
    IN /\ Storable(done)
       /\ disk' = disk \cup Files(done)
       /\ written' = written \cup Files(done)
       /\ \/ index' = index \cup Files(done)
          \/ n > 0 /\ index' = index \cup Files(SubSeq(writes, 1, n - 1))

AppendEvents(n) == /\ sequence' = sequence + n
                   /\ journal' = IF n = 0 THEN journal ELSE sequence + n

-----------------------------------------------------------------------------
FreshCase(n) ==
  /\ attempt' = 1 /\ step' = 1
  /\ caseStatus' = "passed" /\ caseRunStatus' = "completed"
  /\ assertions' = {} /\ evidence' = {}
  /\ fieldStatus' = IF n \in DOMAIN manifest THEN ContractFieldStatus(manifest[n])
                    ELSE [f \in Fields |-> "skipped"]
  /\ observed' = [f \in ExecutableFields |-> "skipped"]

Init ==
  /\ manifest \in Manifests
  /\ pc = "case" /\ runs = 1
  /\ results = <<>> /\ runStatus = "completed"
  /\ globalContamination = FALSE /\ contaminatedResources = {}
  /\ defects = [k \in Causes |-> {}]
  /\ attempt = 1 /\ step = 1
  /\ caseStatus = "passed" /\ caseRunStatus = "completed"
  /\ assertions = {} /\ evidence = {}
  /\ fieldStatus = IF manifest = <<>> THEN [f \in Fields |-> "skipped"]
                   ELSE ContractFieldStatus(manifest[1])
  /\ observed = [f \in ExecutableFields |-> "skipped"]
  /\ disk = {} /\ index = {} /\ sequence = 0 /\ journal = 0
  /\ performed = {} /\ written = {}

AtCase == pc = "case" /\ CaseNumber \in DOMAIN manifest

\* Mutant: only global contamination is looked at.
ContaminatedGlobally(c) == globalContamination

Contaminated(c) == globalContamination \/ c.locks \cap contaminatedResources # {}
\* Mutant: a dependency without a result does not count.
FailedKnownDependency(c) == \E d \in c.dependencies \cap DOMAIN results : results[d].status # "passed"

FailedDependency(c) ==
  \E d \in c.dependencies : d \in DOMAIN results => results[d].status # "passed"
PreflightBlocked(c) == ~c.auto \/ c.unresolved \/ FailedDependency(c)

PushResult(status, rstatus, asserted, proof, fields) ==
  results' = Append(results, [status |-> status, runStatus |-> rstatus, assertions |-> asserted,
                              evidence |-> proof, fields |-> fields])

GateAssertion == {[action |-> 0, passed |-> FALSE]}

\* An earlier cleanup failure left the environment, or a resource this case
\* locks, in an unknown state.
BlockContaminated ==
  /\ AtCase
  /\ Contaminated(Item)
  /\ LET field == IF globalContamination THEN "effects" ELSE "resource_locks"
     IN PushResult("not_executed", "blocked", GateAssertion, {},
                   [fieldStatus EXCEPT ![field] = "blocked"])
  /\ runStatus' = IF runStatus = "completed" THEN "blocked" ELSE runStatus
  /\ FreshCase(CaseNumber + 1)
  /\ UNCHANGED <<shared, pc, contamination, defects, performed, files>>

\* The contract is not ready, or a case it depends on did not pass.
BlockPreflight ==
  /\ AtCase
  /\ ~Contaminated(Item)
  /\ PreflightBlocked(Item)
  /\ LET field == IF ~Item.auto THEN "automation_status"
                  ELSE IF Item.unresolved THEN "unresolved" ELSE "dependencies"
     IN PushResult("not_executed", "blocked", GateAssertion, {},
                   [fieldStatus EXCEPT ![field] = "blocked"])
  /\ runStatus' = "blocked"
  /\ FreshCase(CaseNumber + 1)
  /\ UNCHANGED <<shared, pc, contamination, defects, performed, files>>

\* A case without a business assertion must not be able to pass.
LacksVerdictRoute == /\ AtCase
                     /\ ~Contaminated(Item) /\ ~PreflightBlocked(Item)
                     /\ ~HasVerdictRoute(Item)
BlockNoVerdictRoute ==
  /\ LacksVerdictRoute
  /\ LET path == EvidencePath(0, "missing-business-assertion")
     IN /\ StoreEvidence(<<path>>)
        /\ PushResult("not_executed", "blocked", GateAssertion, {path}, fieldStatus)
  /\ runStatus' = "blocked"
  /\ AppendEvents(1)
  /\ FreshCase(CaseNumber + 1)
  /\ UNCHANGED <<shared, pc, contamination, defects, performed>>

StartCase ==
  /\ AtCase
  /\ ~Contaminated(Item) /\ ~PreflightBlocked(Item)
  /\ HasVerdictRoute(Item)
  /\ pc' = "execute"
  /\ UNCHANGED <<shared, runVars, caseVars, files>>

-----------------------------------------------------------------------------
(* Execution steps.                                                        *)

AtStep == pc = "execute" /\ step \in DOMAIN Item.execution
CurrentStep == Item.execution[step]

\* retryDecision: the first attempt only, and only for the transient kinds.
RetryDecision(o) == attempt = 1 /\ o.transient

AttachmentPaths(action, o) ==
  IF o.attached THEN <<EvidencePath(action.id, "attachment")>> ELSE <<>>
\* Mutant: the failure of an attempt that is retried is not stored.
StepWritesFinalOnly(action, o) ==
  AttachmentPaths(action, o) \o
    CASE o.status = "passed" \/ RetryDecision(o) -> <<>>
      [] o.status = "pending" -> <<EvidencePath(0, "pending")>>
      [] OTHER -> <<EvidencePath(0, "failure")>>

StepWrites(action, o) ==
  AttachmentPaths(action, o) \o
    CASE o.status = "passed" -> <<>>
      [] o.status = "pending" -> <<EvidencePath(0, "pending")>>
      [] OTHER -> <<EvidencePath(0, "failure")>>

Perform(cleaning, o) ==
  performed' = performed \cup
    {[case |-> CaseNumber, attempt |-> attempt, step |-> step, cleanup |-> cleaning,
      status |-> o.status]}

RecordStep(action, o) ==
  /\ RecordContractActionOutcome(Item, action, o)
  /\ StoreEvidence(StepWrites(action, o))
  /\ evidence' = evidence \cup Files(StepWrites(action, o))
  /\ Perform(FALSE, o)
  /\ UNCHANGED <<shared, results, contamination>>

StepPassed(o) ==
  /\ AtStep
  /\ o \in Outcomes(CurrentStep) /\ o.status = "passed"
  /\ RecordStep(CurrentStep, o)
  /\ assertions' = IF IsBusinessAssertion(CurrentStep)
                   THEN assertions \cup {[action |-> CurrentStep.id, passed |-> TRUE]}
                   ELSE assertions
  /\ step' = step + 1
  /\ AppendEvents(2)
  /\ UNCHANGED <<pc, runStatus, defects, attempt, caseStatus, caseRunStatus>>

\* Mutant: the first cleanup step is skipped.
EndAttemptsOffByOne == pc' = "cleanup" /\ step' = 2 /\ UNCHANGED attempt

\* The end of the attempt loop: the cleanup steps come next.
EndAttempts == pc' = "cleanup" /\ step' = 1 /\ UNCHANGED attempt

FailedAssertion == assertions \cup {[action |-> CurrentStep.id, passed |-> FALSE]}

StepPending(o) ==
  /\ AtStep
  /\ o \in Outcomes(CurrentStep) /\ o.status = "pending"
  /\ RecordStep(CurrentStep, o)
  /\ caseStatus' = "pending"
  /\ assertions' = FailedAssertion
  /\ EndAttempts
  /\ AppendEvents(2)
  /\ UNCHANGED <<runStatus, defects, caseRunStatus>>

\* The whole case starts again from its first step; what the first attempt
\* recorded is kept.
StepRetried(o) ==
  /\ AtStep
  /\ o \in Outcomes(CurrentStep) /\ o.status \notin {"passed", "pending"}
  /\ RetryDecision(o)
  /\ RecordStep(CurrentStep, o)
  /\ attempt' = attempt + 1 /\ step' = 1
  /\ pc' = IF attempt' <= 2 THEN "execute" ELSE "cleanup"
  /\ AppendEvents(3)
  /\ UNCHANGED <<runStatus, defects, caseStatus, caseRunStatus, assertions>>

StepFailed(o) ==
  /\ AtStep
  /\ o \in Outcomes(CurrentStep) /\ o.status = "failed"
  /\ ~RetryDecision(o)
  /\ RecordStep(CurrentStep, o)
  /\ caseStatus' = "failed"
  /\ assertions' = FailedAssertion
  /\ defects' = IF o.cause = NoCause THEN defects
                ELSE [defects EXCEPT ![o.cause] = @ \cup {EvidencePath(0, "failure")}]
  /\ EndAttempts
  /\ AppendEvents(2)
  /\ UNCHANGED <<runStatus, caseRunStatus>>

\* Anything else that went wrong says nothing about the product.
StepNotExecuted(o) ==
  /\ AtStep
  /\ o \in Outcomes(CurrentStep) /\ o.status \in {"blocked", "manual_required", "executor_error"}
  /\ ~RetryDecision(o)
  /\ RecordStep(CurrentStep, o)
  /\ caseStatus' = "not_executed"
  /\ caseRunStatus' = o.status
  /\ runStatus' = o.status
  /\ EndAttempts
  /\ AppendEvents(2)
  /\ UNCHANGED <<defects, assertions>>

AllStepsDone ==
  /\ pc = "execute" /\ step \notin DOMAIN Item.execution
  /\ EndAttempts
  /\ UNCHANGED <<shared, runVars, files, caseStatus, caseRunStatus, assertions, evidence,
                 fieldStatus, observed>>

-----------------------------------------------------------------------------
(* Cleanup steps.                                                          *)

AtCleanup == pc = "cleanup" /\ step \in DOMAIN Item.cleanup
CurrentCleanup == Item.cleanup[step]

CleanupWrites(action, o) ==
  AttachmentPaths(action, o) \o
    (IF o.status = "passed" THEN <<>> ELSE <<EvidencePath(action.id, "manual-cleanup")>>)

RecordCleanup(action, o) ==
  /\ RecordContractActionOutcome(Item, action, o)
  /\ StoreEvidence(CleanupWrites(action, o))
  /\ evidence' = evidence \cup Files(CleanupWrites(action, o))
  /\ Perform(TRUE, o)
  /\ step' = step + 1
  /\ AppendEvents(2)
  /\ UNCHANGED <<shared, pc, results, defects, attempt, assertions>>

CleanupPassed(o) ==
  /\ AtCleanup
  /\ o \in Outcomes(CurrentCleanup) /\ o.status = "passed"
  /\ RecordCleanup(CurrentCleanup, o)
  /\ UNCHANGED <<runStatus, contamination, caseStatus, caseRunStatus>>

\* Mutant: a failed cleanup leaves the verdict alone.
StatusAfterCleanupFailureNever == caseStatus

StatusAfterCleanupFailure == IF caseStatus = "passed" THEN "not_executed" ELSE caseStatus

CleanupFailed(o) ==
  /\ AtCleanup
  /\ o \in Outcomes(CurrentCleanup) /\ o.status # "passed"
  /\ RecordCleanup(CurrentCleanup, o)
  /\ caseRunStatus' = "manual_required" /\ runStatus' = "manual_required"
  /\ caseStatus' = StatusAfterCleanupFailure
  /\ IF Item.global
     THEN globalContamination' = TRUE /\ UNCHANGED contaminatedResources
     ELSE /\ contaminatedResources' = contaminatedResources \cup Item.locks
          /\ UNCHANGED globalContamination

FinishCase ==
  /\ pc = "cleanup" /\ step \notin DOMAIN Item.cleanup
  /\ PushResult(caseStatus, caseRunStatus, assertions, evidence, fieldStatus)
  /\ FreshCase(CaseNumber + 1)
  /\ pc' = "case"
  /\ UNCHANGED <<shared, runStatus, contamination, defects, performed, files>>

\* phase.completed is appended and run-result.json is written.
FinishRun ==
  /\ pc = "case" /\ CaseNumber \notin DOMAIN manifest
  /\ pc' = "finished"
  /\ AppendEvents(1)
  /\ UNCHANGED <<shared, runVars, caseVars, disk, index, written>>

-----------------------------------------------------------------------------
(* Exceptions and reruns.                                                  *)

\* The evidence the current handler may be storing when it is cut short.
WritesInProgress ==
  IF AtStep THEN {StepWrites(CurrentStep, o) : o \in Outcomes(CurrentStep)}
  ELSE IF AtCleanup THEN {CleanupWrites(CurrentCleanup, o) : o \in Outcomes(CurrentCleanup)}
  ELSE IF LacksVerdictRoute THEN {<<EvidencePath(0, "missing-business-assertion")>>}
  ELSE {<<>>}

\* An await throws, or the process dies: local state is lost, no later
\* cleanup step runs, the files written so far stay.
Throw ==
  /\ pc \in {"case", "execute", "cleanup"}
  /\ pc' = "threw"
  /\ \E writes \in WritesInProgress : StoreInterrupted(writes)
  /\ \E n \in 0 .. 3 : AppendEvents(n)
  /\ UNCHANGED <<shared, runVars, caseVars>>

\* The run command is given the same manifest and output directory again.
Rerun ==
  /\ pc \in {"finished", "threw"}
  /\ runs < MaxRuns(manifest)
  /\ runs' = runs + 1
  /\ pc' = "case"
  /\ results' = <<>> /\ runStatus' = "completed"
  /\ globalContamination' = FALSE /\ contaminatedResources' = {}
  /\ defects' = [k \in Causes |-> {}]
  /\ FreshCase(1)
  /\ sequence' = 0
  /\ performed' = {} /\ written' = {}
  /\ UNCHANGED <<manifest, disk, index, journal>>

Advance ==
  \/ BlockContaminated \/ BlockPreflight \/ BlockNoVerdictRoute \/ StartCase
  \/ \E o \in AdapterOutcomes(manifest) :
        \/ StepPassed(o) \/ StepPending(o) \/ StepRetried(o)
        \/ StepFailed(o) \/ StepNotExecuted(o)
        \/ CleanupPassed(o) \/ CleanupFailed(o)
  \/ AllStepsDone \/ FinishCase \/ FinishRun

Next == Advance \/ Throw \/ Rerun

Spec == Init /\ [][Next]_vars

-----------------------------------------------------------------------------
(* Properties.                                                             *)

\* Every variable has its type, and the loop is inside a case of the manifest
\* whenever it executes steps (run-orchestrator.ts:214-514).
TypeOK ==
  /\ manifest \in Manifests
  /\ pc \in {"case", "execute", "cleanup", "finished", "threw"}
  /\ pc \in {"execute", "cleanup"} => CaseNumber \in DOMAIN manifest
  /\ runs \in Nat
  /\ results \in Seq(CaseResult) /\ Len(results) <= Len(manifest)
  /\ runStatus \in RunStatus
  /\ globalContamination \in BOOLEAN /\ contaminatedResources \in SUBSET Resources
  /\ defects \in [Causes -> SUBSET Path]
  /\ attempt \in 1 .. 2 /\ step \in Nat \ {0}
  /\ caseStatus \in CaseStatus /\ caseRunStatus \in RunStatus
  /\ assertions \in SUBSET [action : Nat, passed : BOOLEAN]
  /\ evidence \in SUBSET Path
  /\ fieldStatus \in [Fields -> FieldStatus]
  /\ observed \in [ExecutableFields -> FieldStatus]
  /\ disk \in SUBSET Path /\ index \in SUBSET Path /\ written \in SUBSET Path
  /\ sequence \in Nat /\ journal \in Nat
  /\ performed \in SUBSET [case : Nat, attempt : 1 .. 2, step : Nat, cleanup : BOOLEAN,
                           status : OutcomeStatus]

PerformedOf(n) == {p \in performed : p.case = n}
\* The actions of the attempt that decided case n; its cleanup is part of it.
FinalAttempt(n) == {p \in PerformedOf(n) : \A q \in PerformedOf(n) : q.attempt <= p.attempt}
ActionOf(p) == IF p.cleanup THEN manifest[p.case].cleanup[p.step]
               ELSE manifest[p.case].execution[p.step]

\* A case is reported as passed only if one and the same attempt carried out
\* every step of it with success, a business assertion among them, every
\* cleanup step succeeded too and every case it depends on had passed before:
\* caseStatus starts as passed, so every path that runs nothing must correct it.
NoFalsePass ==
  \A n \in DOMAIN results : results[n].status = "passed" =>
    /\ \A p \in FinalAttempt(n) : p.status = "passed"
    /\ \A k \in DOMAIN manifest[n].execution : \E p \in FinalAttempt(n) : ~p.cleanup /\ p.step = k
    /\ \A k \in DOMAIN manifest[n].cleanup : \E p \in FinalAttempt(n) : p.cleanup /\ p.step = k
    /\ \E k \in DOMAIN manifest[n].execution : IsBusinessAssertion(manifest[n].execution[k])
    /\ \A d \in manifest[n].dependencies : d < n /\ results[d].status = "passed"

\* After a failed cleanup no later case acts on what it may have left behind:
\* nothing at all if the case declared a global effect, no case that locks one
\* of its resources otherwise.
ContaminationRespected ==
  \A p, q \in performed :
    p.cleanup /\ p.status # "passed" /\ p.case < q.case =>
      /\ ~manifest[p.case].global
      /\ manifest[p.case].locks \cap manifest[q.case].locks = {}

\* Business verdicts come from business outcomes: a case is failed (pending)
\* exactly when the attempt that decided it ended in a failed (pending) step,
\* whatever its cleanup did; an executor error never counts against the product.
VerdictFromOutcome ==
  \A n \in DOMAIN results : \A verdict \in {"failed", "pending"} :
    results[n].status = verdict <=> \E p \in FinalAttempt(n) : ~p.cleanup /\ p.status = verdict

\* A defect lists the failure evidence of cases that are reported as failed.
DefectsAreFailures ==
  \A cause \in Causes : \A path \in defects[cause] :
    path.case \in DOMAIN results =>
      results[path.case].status = "failed" /\ path \in results[path.case].evidence

\* A case that needed its second attempt still shows the failure of the first.
RetryKeepsFirstFailure ==
  \A n \in DOMAIN results : (\E p \in PerformedOf(n) : p.attempt = 2) =>
    /\ \E p \in PerformedOf(n) : p.attempt = 1 /\ p.status \notin {"passed", "pending"}
    /\ [case |-> n, attempt |-> 1, action |-> 0, file |-> "failure"] \in results[n].evidence

\* The run is completed exactly when every case is: no later case overwrites
\* the trace of a case that could not be run.
RunStatusHonest ==
  pc \in {"case", "finished"} =>
    (runStatus = "completed" <=> \A n \in DOMAIN results : results[n].runStatus = "completed")

\* contract_field_status tells what happened to the declared steps: a field is
\* executed only if steps of it ran and all of them passed in every attempt,
\* and failed only if one of them did fail.
FieldStatusHonest ==
  \A n \in DOMAIN results : \A f \in ExecutableFields :
    LET ran == {p \in PerformedOf(n) : ActionOf(p).field = f}
    IN /\ results[n].fields[f] = "executed" =>
            ran # {} /\ \A p \in ran : p.status = "passed"
       /\ results[n].fields[f] = "failed" =>
            \E p \in ran : p.status \in {"failed", "executor_error"}

\* What the results tell is what happened: verdicts, defects, run status and fields.
ResultsAreHonest ==
  NoFalsePass /\ VerdictFromOutcome /\ DefectsAreFailures /\ RunStatusHonest /\ FieldStatusHonest

\* The evidence of a result was written for that case by this run, exists and
\* is indexed; a file that an earlier run left is never passed off as its own.
EvidenceAuthentic ==
  \A n \in DOMAIN results : \A path \in results[n].evidence :
    path.case = n /\ path \in written \cap disk \cap index

\* Every case that acted on the system was cleaned up exactly once, even when
\* it was retried or did not pass.
CleanupExactlyOnce ==
  \A n \in DOMAIN results : PerformedOf(n) # {} =>
    \A k \in DOMAIN manifest[n].cleanup :
      Cardinality({p \in PerformedOf(n) : p.cleanup /\ p.step = k}) = 1

\* The sequence numbers of run-events.jsonl only grow.  TLC refutes it, so that no run
\* checks it: a manifest run again writes on from 1 (README, "What the code does not promise").
JournalMonotonic == [][journal' # journal => journal' > journal]_vars

\* The implementation of CaseVerdicts: a verdict is the status of a result, and
\* a case is soiled from its first failed cleanup step to its result.
Promise ==
  INSTANCE CaseVerdicts WITH
    verdicts <- [n \in DOMAIN results |-> results[n].status],
    soiled <- \E p \in performed : p.case = CaseNumber /\ p.cleanup /\ p.status # "passed",
    environment <- globalContamination,
    resources <- contaminatedResources
ImplementsCaseVerdicts == Promise!Spec
=============================================================================
