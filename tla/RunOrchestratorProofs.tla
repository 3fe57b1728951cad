----------------------- MODULE RunOrchestratorProofs -----------------------
(***************************************************************************)
(* Proofs about RunOrchestrator for every set of manifests and outcomes:   *)
(* what a run writes, that it keeps the promise of CaseVerdicts step by    *)
(* step, and that its results tell what happened.  For the last, what is   *)
(* performed of a case is followed until its result is pushed; a result    *)
(* that is pushed stays, and nothing more is performed of its case.        *)
(***************************************************************************)
EXTENDS RunOrchestrator, SequenceTheorems, FiniteSetTheorems, TLAPS

-----------------------------------------------------------------------------
(* What the helpers return.                                                *)

\* The case at hand is one of the cases of the manifest.
LEMMA ItemType ==
  ASSUME TypeOK, CaseNumber \in DOMAIN manifest
  PROVE  /\ Item \in Case
         /\ CaseNumber \in Nat
         /\ \A k \in DOMAIN Item.execution : Item.execution[k] \in Action
         /\ \A k \in DOMAIN Item.cleanup : Item.cleanup[k] \in Action
<1>1. manifest \in Seq(Case)
  BY ManifestsAssumption DEF TypeOK
<1>2. Item \in Case /\ CaseNumber \in Nat
  BY <1>1 DEF Item, CaseNumber, TypeOK
<1> QED
  BY <1>2 DEF Case

\* The initial status of a contract is a status for every field.
LEMMA ContractFieldStatusType ==
  ASSUME NEW c
  PROVE  ContractFieldStatus(c) \in [Fields -> FieldStatus]
BY DEF ContractFieldStatus, FieldStatus

LEMMA MergeType ==
  ASSUME NEW current \in FieldStatus, NEW next \in FieldStatus
  PROVE  MergeContractFieldStatus(current, next) \in FieldStatus
BY DEF MergeContractFieldStatus, FieldStatus

LEMMA OutcomeFieldStatusType ==
  ASSUME NEW o \in Outcome
  PROVE  OutcomeFieldStatus(o) \in FieldStatus
BY DEF OutcomeFieldStatus, FieldStatus, Outcome, OutcomeStatus

LEMMA EvidencePathType ==
  ASSUME TypeOK, NEW action \in Nat, NEW file \in EvidenceFile
  PROVE  EvidencePath(action, file) \in Path
BY DEF TypeOK, EvidencePath, Path, CaseNumber

\* Every handler stores a sequence of evidence paths.
LEMMA WritesType ==
  ASSUME TypeOK, NEW action \in Action, NEW o
  PROVE  /\ AttachmentPaths(action, o) \in Seq(Path)
         /\ StepWrites(action, o) \in Seq(Path)
         /\ CleanupWrites(action, o) \in Seq(Path)
<1>1. /\ EvidencePath(action.id, "attachment") \in Path
      /\ EvidencePath(0, "pending") \in Path
      /\ EvidencePath(0, "failure") \in Path
      /\ EvidencePath(action.id, "manual-cleanup") \in Path
  BY EvidencePathType DEF Action, EvidenceFile
<1>2. AttachmentPaths(action, o) \in Seq(Path)
  BY <1>1 DEF AttachmentPaths
<1>3. ASSUME NEW S, NEW s \in Seq(S), NEW t \in Seq(S)
      PROVE  s \o t \in Seq(S)
  BY <1>3
<1>4. StepWrites(action, o) \in Seq(Path)
  BY <1>1, <1>2, <1>3 DEF StepWrites
<1>5. CleanupWrites(action, o) \in Seq(Path)
  BY <1>1, <1>2, <1>3 DEF CleanupWrites
<1> QED
  BY <1>2, <1>4, <1>5

LEMMA FilesType ==
  ASSUME NEW writes \in Seq(Path)
  PROVE  Files(writes) \subseteq Path
BY DEF Files

LEMMA PrefixFiles ==
  ASSUME NEW writes \in Seq(Path), NEW n \in 0 .. Len(writes)
  PROVE  Files(SubSeq(writes, 1, n)) \subseteq Path
<1>1. SubSeq(writes, 1, n) \in Seq(Path)
  BY SubSeqProperties
<1> QED
  BY <1>1, FilesType

LEMMA StoreEvidenceType ==
  ASSUME TypeOK, NEW writes \in Seq(Path), StoreEvidence(writes)
  PROVE  disk' \in SUBSET Path /\ index' \in SUBSET Path /\ written' \in SUBSET Path
BY FilesType DEF StoreEvidence, TypeOK

LEMMA StoreInterruptedType ==
  ASSUME TypeOK, NEW writes \in Seq(Path), StoreInterrupted(writes)
  PROVE  disk' \in SUBSET Path /\ index' \in SUBSET Path /\ written' \in SUBSET Path
<1>1. PICK n \in 0 .. Len(writes) :
        /\ disk' = disk \cup Files(SubSeq(writes, 1, n))
        /\ written' = written \cup Files(SubSeq(writes, 1, n))
        /\ \/ index' = index \cup Files(SubSeq(writes, 1, n))
           \/ n > 0 /\ index' = index \cup Files(SubSeq(writes, 1, n - 1))
  BY DEF StoreInterrupted
<1>2. Files(SubSeq(writes, 1, n)) \subseteq Path
  BY PrefixFiles
<1>3. n > 0 => Files(SubSeq(writes, 1, n - 1)) \subseteq Path
  BY PrefixFiles
<1> QED
  BY <1>1, <1>2, <1>3 DEF TypeOK

LEMMA AppendEventsType ==
  ASSUME TypeOK, NEW n \in Nat, AppendEvents(n)
  PROVE  sequence' \in Nat /\ journal' \in Nat
BY DEF AppendEvents, TypeOK

LEMMA FreshCaseType ==
  ASSUME NEW n, FreshCase(n)
  PROVE  /\ attempt' \in 1 .. 2 /\ step' \in Nat \ {0}
         /\ caseStatus' \in CaseStatus /\ caseRunStatus' \in RunStatus
         /\ assertions' = {} /\ evidence' = {}
         /\ fieldStatus' \in [Fields -> FieldStatus]
         /\ observed' \in [ExecutableFields -> FieldStatus]
<1>1. fieldStatus' \in [Fields -> FieldStatus]
  BY ContractFieldStatusType DEF FreshCase, FieldStatus
<1> QED
  BY <1>1 DEF FreshCase, CaseStatus, RunStatus, FieldStatus

\* Recording an outcome keeps the statuses of the fields typed.
LEMMA RecordOutcomeType ==
  ASSUME TypeOK, NEW c, NEW action \in Action, NEW o \in Outcome,
         RecordContractActionOutcome(c, action, o)
  PROVE  /\ fieldStatus' \in [Fields -> FieldStatus]
         /\ observed' \in [ExecutableFields -> FieldStatus]
<1>1. CASE action.field = "none"
  BY <1>1 DEF RecordContractActionOutcome, TypeOK
<1>2. CASE action.field # "none"
  <2> DEFINE aggregate == MergeContractFieldStatus(observed[action.field], OutcomeFieldStatus(o))
  <2>1. action.field \in ExecutableFields /\ action.field \in Fields
    BY <1>2 DEF Action, Fields
  <2>2. aggregate \in FieldStatus
    BY <2>1, MergeType, OutcomeFieldStatusType DEF TypeOK
  <2>3. observed' = [observed EXCEPT ![action.field] = aggregate]
    BY <1>2 DEF RecordContractActionOutcome
  <2>4. PICK s \in FieldStatus : fieldStatus' = [fieldStatus EXCEPT ![action.field] = s]
    BY <1>2, <2>2 DEF RecordContractActionOutcome, FieldStatus
  <2> HIDE DEF aggregate
  <2> QED
    BY <2>1, <2>2, <2>3, <2>4 DEF TypeOK
<1> QED
  BY <1>1, <1>2

\* A result that is pushed leaves the results typed and one case longer.
LEMMA PushResultType ==
  ASSUME TypeOK, CaseNumber \in DOMAIN manifest,
         NEW status \in CaseStatus, NEW rstatus \in RunStatus,
         NEW asserted \in SUBSET [action : Nat, passed : BOOLEAN],
         NEW proof \in SUBSET Path, NEW fields \in [Fields -> FieldStatus],
         PushResult(status, rstatus, asserted, proof, fields)
  PROVE  /\ results' \in Seq(CaseResult)
         /\ Len(results') = Len(results) + 1
         /\ Len(results') <= Len(manifest)
<1> DEFINE r == [status |-> status, runStatus |-> rstatus, assertions |-> asserted,
                 evidence |-> proof, fields |-> fields]
<1>1. r \in CaseResult
  BY DEF CaseResult
<1>2. results' = Append(results, r)
  BY DEF PushResult
<1>3. manifest \in Seq(Case)
  BY ManifestsAssumption DEF TypeOK
<1> HIDE DEF r
<1> QED
  BY <1>1, <1>2, <1>3 DEF TypeOK, CaseNumber

LEMMA GateAssertionType == GateAssertion \in SUBSET [action : Nat, passed : BOOLEAN]
BY DEF GateAssertion

LEMMA OutcomesType ==
  ASSUME TypeOK, NEW action
  PROVE  Outcomes(action) \subseteq Outcome
BY AdapterOutcomesAssumption DEF Outcomes, TypeOK

\* What every execution step leaves typed, whatever its outcome.
LEMMA RecordStepType ==
  ASSUME TypeOK, AtStep, NEW o \in Outcomes(CurrentStep), RecordStep(CurrentStep, o)
  PROVE  /\ manifest' \in Manifests /\ runs' \in Nat
         /\ CaseNumber' \in DOMAIN manifest'
         /\ results' \in Seq(CaseResult) /\ Len(results') <= Len(manifest')
         /\ globalContamination' \in BOOLEAN /\ contaminatedResources' \in SUBSET Resources
         /\ evidence' \in SUBSET Path
         /\ fieldStatus' \in [Fields -> FieldStatus]
         /\ observed' \in [ExecutableFields -> FieldStatus]
         /\ disk' \in SUBSET Path /\ index' \in SUBSET Path /\ written' \in SUBSET Path
         /\ performed' \in SUBSET [case : Nat, attempt : 1 .. 2, step : Nat, cleanup : BOOLEAN,
                                   status : OutcomeStatus]
         /\ CurrentStep \in Action
<1>1. CaseNumber \in DOMAIN manifest
  BY DEF TypeOK, AtStep
<1>2. CurrentStep \in Action /\ CaseNumber \in Nat
  BY <1>1, ItemType DEF AtStep, CurrentStep
<1>3. o \in Outcome
  BY OutcomesType
<1>4. StepWrites(CurrentStep, o) \in Seq(Path)
  BY <1>2, WritesType
<1>5. disk' \in SUBSET Path /\ index' \in SUBSET Path /\ written' \in SUBSET Path
  BY <1>4, StoreEvidenceType DEF RecordStep
<1>6. evidence' \in SUBSET Path
  BY <1>4, FilesType DEF RecordStep, TypeOK
<1>7. fieldStatus' \in [Fields -> FieldStatus] /\ observed' \in [ExecutableFields -> FieldStatus]
  BY <1>2, <1>3, RecordOutcomeType DEF RecordStep
<1>8. performed' \in SUBSET [case : Nat, attempt : 1 .. 2, step : Nat, cleanup : BOOLEAN,
                             status : OutcomeStatus]
  <2> DEFINE p == [case |-> CaseNumber, attempt |-> attempt, step |-> step, cleanup |-> FALSE,
                   status |-> o.status]
  <2>1. o.status \in OutcomeStatus
    BY <1>3 DEF Outcome
  <2>2. p \in [case : Nat, attempt : 1 .. 2, step : Nat, cleanup : BOOLEAN,
               status : OutcomeStatus]
    BY <2>1, <1>2 DEF TypeOK
  <2>3. performed' = performed \cup {p}
    BY DEF RecordStep, Perform
  <2> HIDE DEF p
  <2> QED
    BY <2>2, <2>3 DEF TypeOK
<1>9. CaseNumber' \in DOMAIN manifest' /\ Len(results') <= Len(manifest')
  BY <1>1 DEF RecordStep, shared, CaseNumber, TypeOK
<1> QED
  BY <1>2, <1>5, <1>6, <1>7, <1>8, <1>9 DEF RecordStep, shared, contamination, TypeOK

\* And every cleanup step.
LEMMA RecordCleanupType ==
  ASSUME TypeOK, AtCleanup, NEW o \in Outcomes(CurrentCleanup),
         RecordCleanup(CurrentCleanup, o)
  PROVE  /\ manifest' \in Manifests /\ runs' \in Nat
         /\ pc' = "cleanup" /\ CaseNumber' \in DOMAIN manifest'
         /\ results' \in Seq(CaseResult) /\ Len(results') <= Len(manifest')
         /\ defects' \in [Causes -> SUBSET Path]
         /\ attempt' \in 1 .. 2 /\ step' \in Nat \ {0}
         /\ assertions' \in SUBSET [action : Nat, passed : BOOLEAN]
         /\ evidence' \in SUBSET Path
         /\ fieldStatus' \in [Fields -> FieldStatus]
         /\ observed' \in [ExecutableFields -> FieldStatus]
         /\ disk' \in SUBSET Path /\ index' \in SUBSET Path /\ written' \in SUBSET Path
         /\ sequence' \in Nat /\ journal' \in Nat
         /\ performed' \in SUBSET [case : Nat, attempt : 1 .. 2, step : Nat, cleanup : BOOLEAN,
                                   status : OutcomeStatus]
         /\ Item.locks \in SUBSET Resources
<1>1. CaseNumber \in DOMAIN manifest
  BY DEF TypeOK, AtCleanup
<1>2. CurrentCleanup \in Action /\ CaseNumber \in Nat /\ Item.locks \in SUBSET Resources
  BY <1>1, ItemType DEF AtCleanup, CurrentCleanup, Case
<1>3. o \in Outcome
  BY OutcomesType
<1>4. CleanupWrites(CurrentCleanup, o) \in Seq(Path)
  BY <1>2, WritesType
<1>5. disk' \in SUBSET Path /\ index' \in SUBSET Path /\ written' \in SUBSET Path
  BY <1>4, StoreEvidenceType DEF RecordCleanup
<1>6. evidence' \in SUBSET Path
  BY <1>4, FilesType DEF RecordCleanup, TypeOK
<1>7. fieldStatus' \in [Fields -> FieldStatus] /\ observed' \in [ExecutableFields -> FieldStatus]
  BY <1>2, <1>3, RecordOutcomeType DEF RecordCleanup
<1>8. performed' \in SUBSET [case : Nat, attempt : 1 .. 2, step : Nat, cleanup : BOOLEAN,
                             status : OutcomeStatus]
  <2> DEFINE p == [case |-> CaseNumber, attempt |-> attempt, step |-> step, cleanup |-> TRUE,
                   status |-> o.status]
  <2>1. o.status \in OutcomeStatus
    BY <1>3 DEF Outcome
  <2>2. p \in [case : Nat, attempt : 1 .. 2, step : Nat, cleanup : BOOLEAN,
               status : OutcomeStatus]
    BY <2>1, <1>2 DEF TypeOK
  <2>3. performed' = performed \cup {p}
    BY DEF RecordCleanup, Perform
  <2> HIDE DEF p
  <2> QED
    BY <2>2, <2>3 DEF TypeOK
<1>9. CaseNumber' \in DOMAIN manifest' /\ Len(results') <= Len(manifest')
  BY <1>1 DEF RecordCleanup, shared, CaseNumber, TypeOK
<1>10. sequence' \in Nat /\ journal' \in Nat
  BY AppendEventsType DEF RecordCleanup
<1>11. step' \in Nat \ {0} /\ pc' = "cleanup"
  BY DEF RecordCleanup, AtCleanup, TypeOK
<1> QED
  BY <1>2, <1>5, <1>6, <1>7, <1>8, <1>9, <1>10, <1>11 DEF RecordCleanup, shared, TypeOK

-----------------------------------------------------------------------------
(* Type correctness.                                                       *)

LEMMA InitType == Init => TypeOK
<1> SUFFICES ASSUME Init PROVE TypeOK
  OBVIOUS
<1>1. manifest \in Seq(Case)
  BY ManifestsAssumption DEF Init
<1>2. fieldStatus \in [Fields -> FieldStatus]
  BY ContractFieldStatusType DEF Init, FieldStatus
<1>3. observed \in [ExecutableFields -> FieldStatus]
  BY DEF Init, FieldStatus
<1>4. results \in Seq(CaseResult) /\ Len(results) <= Len(manifest)
  BY <1>1 DEF Init
<1>5. /\ defects \in [Causes -> SUBSET Path]
      /\ assertions \in SUBSET [action : Nat, passed : BOOLEAN]
      /\ evidence \in SUBSET Path /\ disk \in SUBSET Path /\ index \in SUBSET Path
      /\ written \in SUBSET Path
  BY DEF Init
<1>6. performed \in SUBSET [case : Nat, attempt : 1 .. 2, step : Nat, cleanup : BOOLEAN,
                            status : OutcomeStatus]
  BY DEF Init
<1>7. runStatus \in RunStatus /\ caseRunStatus \in RunStatus /\ caseStatus \in CaseStatus
  BY DEF Init, RunStatus, CaseStatus
<1>8. globalContamination \in BOOLEAN /\ contaminatedResources \in SUBSET Resources
  BY DEF Init
<1>9. /\ manifest \in Manifests
      /\ pc \in {"case", "execute", "cleanup", "finished", "threw"}
      /\ ~(pc \in {"execute", "cleanup"})
  BY DEF Init
<1>10. runs \in Nat /\ attempt \in 1 .. 2 /\ step \in Nat \ {0} /\ sequence \in Nat /\ journal \in Nat
  BY DEF Init
<1> QED
  BY <1>2, <1>3, <1>4, <1>5, <1>6, <1>7, <1>8, <1>9, <1>10 DEF TypeOK

\* The three gates and the start of a case.
LEMMA GateType ==
  ASSUME TypeOK, BlockContaminated \/ BlockPreflight \/ BlockNoVerdictRoute \/ StartCase
  PROVE  TypeOK'
<1>1. AtCase
  BY DEF BlockContaminated, BlockPreflight, BlockNoVerdictRoute, LacksVerdictRoute, StartCase
<1>2. CaseNumber \in DOMAIN manifest /\ pc = "case"
  BY <1>1 DEF AtCase
<1>3. \A field \in Fields : [fieldStatus EXCEPT ![field] = "blocked"] \in [Fields -> FieldStatus]
  BY DEF TypeOK, FieldStatus
<1>4. {"effects", "resource_locks", "automation_status", "unresolved", "dependencies"} \subseteq Fields
  BY DEF Fields
<1>5. "not_executed" \in CaseStatus /\ "blocked" \in RunStatus /\ {} \in SUBSET Path
  BY DEF CaseStatus, RunStatus
<1>6. CASE BlockContaminated
  <2>1. results' \in Seq(CaseResult) /\ Len(results') <= Len(manifest)
    <3> DEFINE field == IF globalContamination THEN "effects" ELSE "resource_locks"
    <3>1. [fieldStatus EXCEPT ![field] = "blocked"] \in [Fields -> FieldStatus]
      BY <1>3, <1>4
    <3> QED
      BY <3>1, <1>2, <1>5, <1>6, PushResultType, GateAssertionType DEF BlockContaminated
  <2>2. runStatus' \in RunStatus
    BY <1>6 DEF BlockContaminated, RunStatus, TypeOK
  <2> QED
    BY <2>1, <2>2, <1>2, <1>6, FreshCaseType
    DEF BlockContaminated, TypeOK, shared, contamination, files
<1>7. CASE BlockPreflight
  <2>1. results' \in Seq(CaseResult) /\ Len(results') <= Len(manifest)
    <3> DEFINE field == IF ~Item.auto THEN "automation_status"
                        ELSE IF Item.unresolved THEN "unresolved" ELSE "dependencies"
    <3>1. [fieldStatus EXCEPT ![field] = "blocked"] \in [Fields -> FieldStatus]
      BY <1>3, <1>4
    <3> QED
      BY <3>1, <1>2, <1>5, <1>7, PushResultType, GateAssertionType DEF BlockPreflight
  <2> QED
    BY <2>1, <1>2, <1>5, <1>7, FreshCaseType
    DEF BlockPreflight, TypeOK, shared, contamination, files
<1>8. CASE BlockNoVerdictRoute
  <2> DEFINE path == EvidencePath(0, "missing-business-assertion")
  <2>1. path \in Path
    BY EvidencePathType DEF EvidenceFile
  <2>2. results' \in Seq(CaseResult) /\ Len(results') <= Len(manifest)
    BY <2>1, <1>2, <1>5, <1>8, PushResultType, GateAssertionType DEF BlockNoVerdictRoute, TypeOK
  <2>3. disk' \in SUBSET Path /\ index' \in SUBSET Path /\ written' \in SUBSET Path
    <3>1. <<path>> \in Seq(Path)
      BY <2>1
    <3> QED
      BY <3>1, <1>8, StoreEvidenceType DEF BlockNoVerdictRoute
  <2>4. sequence' \in Nat /\ journal' \in Nat
    BY <1>8, AppendEventsType DEF BlockNoVerdictRoute
  <2> QED
    BY <2>2, <2>3, <2>4, <1>2, <1>5, <1>8, FreshCaseType
    DEF BlockNoVerdictRoute, TypeOK, shared, contamination
<1>9. CASE StartCase
  BY <1>2, <1>9 DEF StartCase, TypeOK, shared, runVars, contamination, caseVars, files, CaseNumber
<1> QED
  BY <1>6, <1>7, <1>8, <1>9

\* An execution step, whatever its outcome.
LEMMA StepType ==
  ASSUME TypeOK, NEW o \in AdapterOutcomes(manifest),
         StepPassed(o) \/ StepPending(o) \/ StepRetried(o) \/ StepFailed(o) \/ StepNotExecuted(o)
  PROVE  TypeOK'
<1>1. AtStep /\ o \in Outcomes(CurrentStep) /\ RecordStep(CurrentStep, o)
  BY DEF StepPassed, StepPending, StepRetried, StepFailed, StepNotExecuted
<1>2. sequence' \in Nat /\ journal' \in Nat
  <2>1. AppendEvents(2) \/ AppendEvents(3)
    BY DEF StepPassed, StepPending, StepRetried, StepFailed, StepNotExecuted
  <2> QED
    BY <2>1, AppendEventsType
<1>3. /\ runStatus' \in RunStatus
      /\ caseStatus' \in CaseStatus /\ caseRunStatus' \in RunStatus
  BY DEF StepPassed, StepPending, StepRetried, StepFailed, StepNotExecuted, TypeOK,
         RunStatus, CaseStatus
<1>4. assertions' \in SUBSET [action : Nat, passed : BOOLEAN]
  <2>1. CurrentStep.id \in Nat
    BY <1>1, RecordStepType DEF Action
  <2>2. /\ [action |-> CurrentStep.id, passed |-> TRUE] \in [action : Nat, passed : BOOLEAN]
        /\ [action |-> CurrentStep.id, passed |-> FALSE] \in [action : Nat, passed : BOOLEAN]
    BY <2>1
  <2>3. \/ assertions' = assertions
        \/ assertions' = assertions \cup {[action |-> CurrentStep.id, passed |-> TRUE]}
        \/ assertions' = assertions \cup {[action |-> CurrentStep.id, passed |-> FALSE]}
    BY DEF StepPassed, StepPending, StepRetried, StepFailed, StepNotExecuted, FailedAssertion
  <2> QED
    BY <2>2, <2>3 DEF TypeOK
<1>5. defects' \in [Causes -> SUBSET Path]
  <2>1. CASE defects' = defects
    BY <2>1 DEF TypeOK
  <2>2. CASE o.cause # NoCause /\ defects' = [defects EXCEPT ![o.cause] = @ \cup {EvidencePath(0, "failure")}]
    <3>1. EvidencePath(0, "failure") \in Path
      BY EvidencePathType DEF EvidenceFile
    <3>2. o.cause \in Causes
      BY <2>2, <1>1, OutcomesType DEF Outcome
    <3> QED
      BY <3>1, <3>2, <2>2 DEF TypeOK
  <2> QED
    BY <2>1, <2>2 DEF StepPassed, StepPending, StepRetried, StepFailed, StepNotExecuted
<1>6. attempt' \in 1 .. 2 /\ step' \in Nat \ {0} /\ pc' \in {"execute", "cleanup"}
  BY <1>1 DEF StepPassed, StepPending, StepRetried, StepFailed, StepNotExecuted, EndAttempts,
              RetryDecision, AtStep, TypeOK
<1>7. globalContamination' \in BOOLEAN /\ contaminatedResources' \in SUBSET Resources
  BY <1>1, RecordStepType
<1> QED
  BY <1>1, <1>2, <1>3, <1>4, <1>5, <1>6, <1>7, RecordStepType DEF TypeOK

LEMMA CleanupType ==
  ASSUME TypeOK, NEW o \in AdapterOutcomes(manifest), CleanupPassed(o) \/ CleanupFailed(o)
  PROVE  TypeOK'
<1>1. AtCleanup /\ o \in Outcomes(CurrentCleanup) /\ RecordCleanup(CurrentCleanup, o)
  BY DEF CleanupPassed, CleanupFailed
<1>2. /\ runStatus' \in RunStatus
      /\ caseStatus' \in CaseStatus /\ caseRunStatus' \in RunStatus
  BY DEF CleanupPassed, CleanupFailed, StatusAfterCleanupFailure, TypeOK, RunStatus, CaseStatus
<1>3. globalContamination' \in BOOLEAN
  BY DEF CleanupPassed, CleanupFailed, contamination, TypeOK
<1>4. contaminatedResources' \in SUBSET Resources
  <2>1. Item.locks \in SUBSET Resources
    BY <1>1, RecordCleanupType
  <2> QED
    BY <2>1 DEF CleanupPassed, CleanupFailed, contamination, TypeOK
<1> QED
  BY <1>1, <1>2, <1>3, <1>4, RecordCleanupType DEF TypeOK

LEMMA ThrowType == TypeOK /\ Throw => TypeOK'
<1> SUFFICES ASSUME TypeOK, Throw PROVE TypeOK'
  OBVIOUS
<1>1. PICK writes \in WritesInProgress : StoreInterrupted(writes)
  BY DEF Throw
<1>2. writes \in Seq(Path)
  <2>1. CASE AtStep
    <3>1. CurrentStep \in Action
      BY <2>1, ItemType DEF AtStep, CurrentStep, TypeOK
    <3> QED
      BY <2>1, <3>1, <1>1, WritesType DEF WritesInProgress
  <2>2. CASE AtCleanup /\ ~AtStep
    <3>1. CurrentCleanup \in Action
      BY <2>2, ItemType DEF AtCleanup, CurrentCleanup, TypeOK
    <3> QED
      BY <2>2, <3>1, <1>1, WritesType DEF WritesInProgress
  <2>3. CASE ~AtStep /\ ~AtCleanup
    <3>1. EvidencePath(0, "missing-business-assertion") \in Path
      BY EvidencePathType DEF EvidenceFile
    <3> DEFINE path == EvidencePath(0, "missing-business-assertion")
    <3>2. writes = <<>> \/ writes = <<path>>
      BY <2>3, <1>1 DEF WritesInProgress
    <3>3. <<>> \in Seq(Path) /\ <<path>> \in Seq(Path)
      BY <3>1
    <3> HIDE DEF path
    <3> QED
      BY <3>2, <3>3
  <2> QED
    BY <2>1, <2>2, <2>3
<1>3. disk' \in SUBSET Path /\ index' \in SUBSET Path /\ written' \in SUBSET Path
  BY <1>1, <1>2, StoreInterruptedType
<1>4. sequence' \in Nat /\ journal' \in Nat
  BY AppendEventsType DEF Throw
<1> QED
  BY <1>3, <1>4 DEF Throw, TypeOK, shared, runVars, contamination, caseVars

LEMMA RerunType == TypeOK /\ Rerun => TypeOK'
<1> SUFFICES ASSUME TypeOK, Rerun PROVE TypeOK'
  OBVIOUS
<1>1. manifest \in Seq(Case) /\ manifest' = manifest
  BY ManifestsAssumption DEF TypeOK, Rerun
<1>2. results' \in Seq(CaseResult) /\ Len(results') <= Len(manifest')
  BY <1>1 DEF Rerun
<1>3. defects' \in [Causes -> SUBSET Path]
  BY DEF Rerun
<1>4. performed' \in SUBSET [case : Nat, attempt : 1 .. 2, step : Nat, cleanup : BOOLEAN,
                             status : OutcomeStatus]
  BY DEF Rerun
<1>5. globalContamination' \in BOOLEAN /\ contaminatedResources' \in SUBSET Resources
  BY DEF Rerun
<1>9. /\ runStatus' \in RunStatus /\ runs' \in Nat /\ sequence' \in Nat /\ journal' \in Nat
      /\ manifest' \in Manifests
  BY DEF Rerun, RunStatus, TypeOK
<1>6. pc' \in {"case", "execute", "cleanup", "finished", "threw"} /\ ~(pc' \in {"execute", "cleanup"})
  BY DEF Rerun
<1>7. disk' \in SUBSET Path /\ index' \in SUBSET Path /\ written' \in SUBSET Path
  BY DEF Rerun, TypeOK
<1>8. FreshCase(1)
  BY DEF Rerun
<1> QED
  BY <1>2, <1>3, <1>4, <1>5, <1>6, <1>7, <1>8, <1>9, FreshCaseType DEF TypeOK

LEMMA BookkeepingType ==
  ASSUME TypeOK, AllStepsDone \/ FinishCase \/ FinishRun
  PROVE  TypeOK'
<1>1. CASE AllStepsDone
  BY <1>1 DEF AllStepsDone, EndAttempts, TypeOK, shared, runVars, contamination, files, CaseNumber
<1>2. CASE FinishCase
  <2>1. CaseNumber \in DOMAIN manifest
    BY <1>2 DEF FinishCase, TypeOK
  <2>2. results' \in Seq(CaseResult) /\ Len(results') <= Len(manifest)
    BY <2>1, <1>2, PushResultType DEF FinishCase, TypeOK
  <2> QED
    BY <2>2, <1>2, FreshCaseType DEF FinishCase, TypeOK, shared, contamination, files
<1>3. CASE FinishRun
  <2>1. sequence' \in Nat /\ journal' \in Nat
    BY <1>3, AppendEventsType DEF FinishRun
  <2> QED
    BY <2>1, <1>3 DEF FinishRun, TypeOK, shared, runVars, contamination, caseVars
<1> QED
  BY <1>1, <1>2, <1>3

\* Type correctness of the orchestrator, for every manifest and outcome set.
THEOREM TypeCorrect == Spec => []TypeOK
<1>1. TypeOK /\ [Next]_vars => TypeOK'
  <2> SUFFICES ASSUME TypeOK, [Next]_vars PROVE TypeOK'
    OBVIOUS
  <2>1. CASE BlockContaminated \/ BlockPreflight \/ BlockNoVerdictRoute \/ StartCase
    BY <2>1, GateType
  <2>2. ASSUME NEW o \in AdapterOutcomes(manifest),
               \/ StepPassed(o) \/ StepPending(o) \/ StepRetried(o)
               \/ StepFailed(o) \/ StepNotExecuted(o)
        PROVE  TypeOK'
    BY <2>2, StepType
  <2>3. ASSUME NEW o \in AdapterOutcomes(manifest), CleanupPassed(o) \/ CleanupFailed(o)
        PROVE  TypeOK'
    BY <2>3, CleanupType
  <2>4. CASE AllStepsDone \/ FinishCase \/ FinishRun
    BY <2>4, BookkeepingType
  <2>5. CASE Throw
    BY <2>5, ThrowType
  <2>6. CASE Rerun
    BY <2>6, RerunType
  <2>7. CASE UNCHANGED vars
    BY <2>7 DEF vars, shared, runVars, contamination, caseVars, files, TypeOK, CaseNumber
  <2> QED
    BY <2>1, <2>2, <2>3, <2>4, <2>5, <2>6, <2>7 DEF Next, Advance
<1> QED
  BY <1>1, InitType, PTL DEF Spec

-----------------------------------------------------------------------------
(* Contamination.  ContaminationRespected is not inductive: it says nothing  *)
(* of the case at hand, nor of what the loop remembers of failed cleanups.   *)

FailedCleanups == {p \in performed : p.cleanup /\ p.status # "passed"}

\* What was performed belongs to this case or an earlier one.
NothingAhead == \A p \in performed : p.case <= CaseNumber

\* The loop remembers what every failed cleanup may have left behind.
CleanupRemembered ==
  \A p \in FailedCleanups :
    IF manifest[p.case].global THEN globalContamination
    ELSE manifest[p.case].locks \subseteq contaminatedResources

\* The case that is being executed is safe from the failures before it.
CaseIsolated ==
  pc \in {"execute", "cleanup"} =>
    \A p \in FailedCleanups : p.case < CaseNumber =>
      /\ ~manifest[p.case].global
      /\ manifest[p.case].locks \cap Item.locks = {}

ContaminationInv ==
  /\ NothingAhead
  /\ CleanupRemembered
  /\ CaseIsolated
  /\ ContaminationRespected

\* A step that performs nothing, keeps the contamination and does not start a
\* case: later cases only make room.
LEMMA QuietStep ==
  ASSUME TypeOK, ContaminationInv,
         manifest' = manifest, performed' = performed, UNCHANGED contamination,
         Len(results') >= Len(results), Len(results') \in Nat,
         pc' \in {"execute", "cleanup"} => pc \in {"execute", "cleanup"} /\ results' = results
  PROVE  ContaminationInv'
<1>1. NothingAhead'
  <2>1. \A p \in performed : p.case \in Nat
    BY DEF TypeOK
  <2>2. CaseNumber' >= CaseNumber /\ CaseNumber \in Nat /\ CaseNumber' \in Nat
    BY DEF CaseNumber, TypeOK
  <2> QED
    BY <2>1, <2>2 DEF ContaminationInv, NothingAhead
<1>2. CleanupRemembered'
  BY DEF ContaminationInv, CleanupRemembered, FailedCleanups, contamination
<1>3. CaseIsolated'
  BY DEF ContaminationInv, CaseIsolated, FailedCleanups, CaseNumber, Item
<1>4. ContaminationRespected'
  BY DEF ContaminationInv, ContaminationRespected
<1> QED
  BY <1>1, <1>2, <1>3, <1>4 DEF ContaminationInv

\* A case starts only when it locks nothing that is remembered.
LEMMA StartIsolated ==
  ASSUME TypeOK, ContaminationInv, StartCase
  PROVE  ContaminationInv'
<1>1. /\ manifest' = manifest /\ performed' = performed /\ results' = results
      /\ UNCHANGED contamination
      /\ ~globalContamination
      /\ Item.locks \cap contaminatedResources = {}
  BY DEF StartCase, shared, runVars, contamination, Contaminated
<1>2. Item' = Item /\ CaseNumber' = CaseNumber
  BY <1>1 DEF Item, CaseNumber
<1>3. NothingAhead' /\ CleanupRemembered' /\ ContaminationRespected'
  BY <1>1, <1>2 DEF ContaminationInv, NothingAhead, CleanupRemembered, FailedCleanups,
                    ContaminationRespected, contamination
<1>4. CaseIsolated'
  BY <1>1, <1>2 DEF ContaminationInv, CleanupRemembered, CaseIsolated, FailedCleanups
<1> QED
  BY <1>3, <1>4 DEF ContaminationInv

\* An execution step acts in an isolated case.
LEMMA StepIsolated ==
  ASSUME TypeOK, ContaminationInv, NEW o \in AdapterOutcomes(manifest),
         StepPassed(o) \/ StepPending(o) \/ StepRetried(o) \/ StepFailed(o) \/ StepNotExecuted(o)
  PROVE  ContaminationInv'
<1> DEFINE q == [case |-> CaseNumber, attempt |-> attempt, step |-> step, cleanup |-> FALSE,
                 status |-> o.status]
<1>1. AtStep /\ RecordStep(CurrentStep, o)
  BY DEF StepPassed, StepPending, StepRetried, StepFailed, StepNotExecuted
<1>2. /\ manifest' = manifest /\ results' = results /\ UNCHANGED contamination
      /\ performed' = performed \cup {q}
      /\ CaseNumber' = CaseNumber /\ Item' = Item /\ CaseNumber \in Nat
      /\ pc = "execute"
  BY <1>1 DEF RecordStep, shared, Perform, AtStep, CaseNumber, Item, TypeOK
<1>3. q.case = CaseNumber /\ q.cleanup = FALSE
  OBVIOUS
<1> HIDE DEF q
<1>4. FailedCleanups' = FailedCleanups
  BY <1>2, <1>3 DEF FailedCleanups
<1>5. NothingAhead'
  BY <1>2, <1>3 DEF ContaminationInv, NothingAhead
<1>6. CleanupRemembered'
  BY <1>2, <1>4 DEF ContaminationInv, CleanupRemembered, contamination
<1>7. CaseIsolated'
  BY <1>2, <1>4 DEF ContaminationInv, CaseIsolated
<1>8. ContaminationRespected'
  <2> SUFFICES ASSUME NEW p \in performed', NEW r \in performed',
                      p.cleanup, p.status # "passed", p.case < r.case
               PROVE  /\ ~manifest[p.case].global
                      /\ manifest[p.case].locks \cap manifest[r.case].locks = {}
    BY <1>2 DEF ContaminationRespected
  <2>1. p \in performed /\ p \in FailedCleanups
    BY <1>2, <1>3 DEF FailedCleanups
  <2>2. CASE r \in performed
    BY <2>1, <2>2 DEF ContaminationInv, ContaminationRespected
  <2>3. CASE r = q
    BY <2>1, <2>3, <1>2, <1>3 DEF ContaminationInv, CaseIsolated, Item
  <2> QED
    BY <2>2, <2>3, <1>2
<1> QED
  BY <1>5, <1>6, <1>7, <1>8 DEF ContaminationInv

\* A cleanup step is remembered when it fails, and nothing was performed after
\* its case yet.
LEMMA CleanupIsolated ==
  ASSUME TypeOK, ContaminationInv, NEW o \in AdapterOutcomes(manifest), CleanupPassed(o) \/ CleanupFailed(o)
  PROVE  ContaminationInv'
<1> DEFINE q == [case |-> CaseNumber, attempt |-> attempt, step |-> step, cleanup |-> TRUE,
                 status |-> o.status]
<1>1. AtCleanup /\ RecordCleanup(CurrentCleanup, o)
  BY DEF CleanupPassed, CleanupFailed
<1>2. /\ manifest' = manifest /\ results' = results
      /\ performed' = performed \cup {q}
      /\ CaseNumber' = CaseNumber /\ Item' = Item /\ CaseNumber \in Nat
      /\ pc = "cleanup"
      /\ \A p \in performed : p.case \in Nat
  BY <1>1 DEF RecordCleanup, shared, Perform, AtCleanup, CaseNumber, Item, TypeOK
<1>3. q.case = CaseNumber /\ q.status = o.status
  OBVIOUS
<1> HIDE DEF q
<1>4. FailedCleanups' \subseteq FailedCleanups \cup {q}
  BY <1>2 DEF FailedCleanups
<1>5. NothingAhead'
  BY <1>2, <1>3 DEF ContaminationInv, NothingAhead
<1>6. CleanupRemembered'
  <2>1. /\ globalContamination => globalContamination'
        /\ contaminatedResources \subseteq contaminatedResources'
    BY DEF CleanupPassed, CleanupFailed, contamination
  <2>2. ASSUME NEW p \in FailedCleanups'
        PROVE  IF manifest[p.case].global THEN globalContamination'
               ELSE manifest[p.case].locks \subseteq contaminatedResources'
    <3>1. CASE p \in FailedCleanups
      BY <2>1, <3>1 DEF ContaminationInv, CleanupRemembered
    <3>2. CASE p = q
      <4>1. o.status # "passed" /\ manifest[p.case] = Item
        BY <2>2, <3>2, <1>3 DEF FailedCleanups, Item
      <4> QED
        BY <4>1 DEF CleanupPassed, CleanupFailed
    <3> QED
      BY <3>1, <3>2, <1>4
  <2> QED
    BY <2>2, <1>2 DEF CleanupRemembered
<1>7. CaseIsolated'
  BY <1>2, <1>3, <1>4 DEF ContaminationInv, CaseIsolated
<1>8. ContaminationRespected'
  <2> SUFFICES ASSUME NEW p \in performed', NEW r \in performed',
                      p.cleanup, p.status # "passed", p.case < r.case
               PROVE  /\ ~manifest[p.case].global
                      /\ manifest[p.case].locks \cap manifest[r.case].locks = {}
    BY <1>2 DEF ContaminationRespected
  <2>1. r.case <= CaseNumber /\ r.case \in Nat
    BY <1>2, <1>3 DEF ContaminationInv, NothingAhead
  <2>2. p \in performed
    BY <2>1, <1>2, <1>3
  <2>3. CASE r \in performed
    BY <2>2, <2>3 DEF ContaminationInv, ContaminationRespected
  <2>4. CASE r = q
    <3>1. p \in FailedCleanups
      BY <2>2 DEF FailedCleanups
    <3> QED
      BY <3>1, <2>4, <1>2, <1>3 DEF ContaminationInv, CaseIsolated, Item
  <2> QED
    BY <2>3, <2>4, <1>2
<1> QED
  BY <1>5, <1>6, <1>7, <1>8 DEF ContaminationInv

LEMMA ContaminationInit == Init => ContaminationInv
BY DEF Init, ContaminationInv, NothingAhead, CleanupRemembered, CaseIsolated, FailedCleanups,
       ContaminationRespected

LEMMA ContaminationStep == TypeOK /\ ContaminationInv /\ [Next]_vars => ContaminationInv'
<1> SUFFICES ASSUME TypeOK, ContaminationInv, [Next]_vars PROVE ContaminationInv'
  OBVIOUS
<1>1. Len(results) \in Nat
  BY DEF TypeOK
<1>2. CASE BlockContaminated \/ BlockPreflight \/ BlockNoVerdictRoute
  <2>1. PICK r : results' = Append(results, r)
    BY <1>2 DEF BlockContaminated, BlockPreflight, BlockNoVerdictRoute, PushResult
  <2>2. Len(results') = Len(results) + 1
    BY <2>1 DEF TypeOK
  <2>3. /\ manifest' = manifest /\ performed' = performed /\ UNCHANGED contamination
        /\ pc' = "case"
    BY <1>2 DEF BlockContaminated, BlockPreflight, BlockNoVerdictRoute, LacksVerdictRoute,
                AtCase, shared
  <2> QED
    BY <2>2, <2>3, <1>1, QuietStep
<1>3. CASE StartCase
  BY <1>3, StartIsolated
<1>4. ASSUME NEW o \in AdapterOutcomes(manifest),
             \/ StepPassed(o) \/ StepPending(o) \/ StepRetried(o)
             \/ StepFailed(o) \/ StepNotExecuted(o)
      PROVE  ContaminationInv'
  BY <1>4, StepIsolated
<1>5. ASSUME NEW o \in AdapterOutcomes(manifest), CleanupPassed(o) \/ CleanupFailed(o)
      PROVE  ContaminationInv'
  BY <1>5, CleanupIsolated
<1>6. CASE AllStepsDone \/ FinishRun \/ Throw \/ UNCHANGED vars
  <2>1. /\ manifest' = manifest /\ performed' = performed /\ results' = results
        /\ UNCHANGED contamination
        /\ pc' \in {"execute", "cleanup"} => pc \in {"execute", "cleanup"}
    BY <1>6 DEF AllStepsDone, EndAttempts, FinishRun, Throw, vars, shared, runVars
  <2> QED
    BY <2>1, <1>1, QuietStep
<1>7. CASE FinishCase
  <2>1. PICK r : results' = Append(results, r)
    BY <1>7 DEF FinishCase, PushResult
  <2>2. Len(results') = Len(results) + 1
    BY <2>1 DEF TypeOK
  <2>3. /\ manifest' = manifest /\ performed' = performed /\ UNCHANGED contamination
        /\ pc' = "case"
    BY <1>7 DEF FinishCase, shared
  <2> QED
    BY <2>2, <2>3, <1>1, QuietStep
<1>8. CASE Rerun
  BY <1>8 DEF Rerun, ContaminationInv, NothingAhead, CleanupRemembered, CaseIsolated,
              FailedCleanups, ContaminationRespected
<1> QED
  BY <1>2, <1>3, <1>4, <1>5, <1>6, <1>7, <1>8 DEF Next, Advance

\* No case acts on what a failed cleanup of an earlier case may have left.
THEOREM ContaminationIsRespected == Spec => []ContaminationRespected
<1>1. ContaminationInv => ContaminationRespected
  BY DEF ContaminationInv
<1> QED
  BY <1>1, TypeCorrect, ContaminationInit, ContaminationStep, PTL DEF Spec

-----------------------------------------------------------------------------
(* Evidence.                                                                *)

\* The files the case at hand has written and indexed.
OwnFiles == {path \in Path : path.case = CaseNumber} \cap written \cap disk \cap index

EvidenceInv == evidence \subseteq OwnFiles /\ EvidenceAuthentic

LEMMA WritesAreOwn ==
  ASSUME TypeOK, NEW action \in Action, NEW o
  PROVE  /\ \A path \in Files(StepWrites(action, o)) : path \in Path /\ path.case = CaseNumber
         /\ \A path \in Files(CleanupWrites(action, o)) : path \in Path /\ path.case = CaseNumber
<1> DEFINE Own == {path \in Path : path.case = CaseNumber}
<1>1. \A file \in EvidenceFile, n \in Nat : EvidencePath(n, file) \in Own
  BY EvidencePathType DEF EvidencePath
<1>2. /\ EvidencePath(action.id, "attachment") \in Own
      /\ EvidencePath(0, "pending") \in Own
      /\ EvidencePath(0, "failure") \in Own
      /\ EvidencePath(action.id, "manual-cleanup") \in Own
  BY <1>1 DEF Action, EvidenceFile
<1> HIDE DEF Own
<1>3. AttachmentPaths(action, o) \in Seq(Own)
  BY <1>2 DEF AttachmentPaths
<1>4. ASSUME NEW S, NEW s \in Seq(S), NEW t \in Seq(S)
      PROVE  s \o t \in Seq(S)
  BY <1>4
<1>5. StepWrites(action, o) \in Seq(Own) /\ CleanupWrites(action, o) \in Seq(Own)
  BY <1>2, <1>3, <1>4 DEF StepWrites, CleanupWrites
<1>6. ASSUME NEW s \in Seq(Own)
      PROVE  Files(s) \subseteq Own
  BY <1>6 DEF Files
<1> QED
  BY <1>5, <1>6 DEF Own

\* What is authentic stays so while files are only added and no result is.
LEMMA AuthenticStays ==
  ASSUME EvidenceAuthentic, results' = results,
         written \subseteq written', disk \subseteq disk', index \subseteq index'
  PROVE  EvidenceAuthentic'
BY DEF EvidenceAuthentic

\* A result that is added with its own evidence.
LEMMA AuthenticResult ==
  ASSUME TypeOK, EvidenceAuthentic, NEW r, results' = Append(results, r),
         written \subseteq written', disk \subseteq disk', index \subseteq index',
         \A path \in r.evidence : path.case = CaseNumber /\ path \in written' \cap disk' \cap index',
         evidence' = {}
  PROVE  EvidenceInv'
<1>1. /\ DOMAIN results' = 1..(Len(results) + 1) /\ DOMAIN results = 1..Len(results)
      /\ Len(results) \in Nat
      /\ \A n \in DOMAIN results : results'[n] = results[n]
      /\ results'[Len(results) + 1] = r
  BY DEF TypeOK
<1>2. ASSUME NEW n \in DOMAIN results', NEW path \in results'[n].evidence
      PROVE  path.case = n /\ path \in written' \cap disk' \cap index'
  <2>1. CASE n \in DOMAIN results
    BY <1>1, <1>2, <2>1 DEF EvidenceAuthentic
  <2>2. CASE n = Len(results) + 1
    BY <1>1, <1>2, <2>2 DEF CaseNumber
  <2> QED
    BY <1>1, <2>1, <2>2
<1>3. EvidenceAuthentic'
  BY <1>2 DEF EvidenceAuthentic
<1> QED
  BY <1>3 DEF EvidenceInv

\* A handler stores files of its case and adds them to the case's evidence.
LEMMA OwnEvidence ==
  ASSUME EvidenceInv, results' = results, NEW writes, StoreEvidence(writes),
         evidence' = evidence \cup Files(writes),
         \A path \in Files(writes) : path \in Path /\ path.case = CaseNumber
  PROVE  EvidenceInv'
<1>1. CaseNumber' = CaseNumber
  BY DEF CaseNumber
<1>2. EvidenceAuthentic'
  BY AuthenticStays DEF EvidenceInv, StoreEvidence
<1> QED
  BY <1>1, <1>2 DEF EvidenceInv, OwnFiles, StoreEvidence

LEMMA EvidenceStep == TypeOK /\ EvidenceInv /\ [Next]_vars => EvidenceInv'
<1> SUFFICES ASSUME TypeOK, EvidenceInv, [Next]_vars
             PROVE  EvidenceInv'
  OBVIOUS
<1>1. CASE BlockContaminated \/ BlockPreflight
  <2>1. PICK r : results' = Append(results, r) /\ r.evidence = {}
    BY <1>1 DEF BlockContaminated, BlockPreflight, PushResult
  <2>2. UNCHANGED <<disk, index, written>> /\ evidence' = {}
    BY <1>1 DEF BlockContaminated, BlockPreflight, FreshCase, files
  <2> QED
    BY <2>1, <2>2, AuthenticResult DEF EvidenceInv
<1>2. CASE BlockNoVerdictRoute
  <2> DEFINE path == EvidencePath(0, "missing-business-assertion")
  <2>1. PICK r : results' = Append(results, r) /\ r.evidence = {path}
    BY <1>2 DEF BlockNoVerdictRoute, PushResult
  <2>2. StoreEvidence(<<path>>) /\ evidence' = {}
    BY <1>2 DEF BlockNoVerdictRoute, FreshCase
  <2>3. path.case = CaseNumber
    BY DEF EvidencePath
  <2>4. path \in Files(<<path>>)
    BY DEF Files
  <2> HIDE DEF path
  <2> QED
    BY <2>1, <2>2, <2>3, <2>4, AuthenticResult DEF EvidenceInv, StoreEvidence
<1>3. ASSUME NEW o \in AdapterOutcomes(manifest),
             \/ StepPassed(o) \/ StepPending(o) \/ StepRetried(o)
             \/ StepFailed(o) \/ StepNotExecuted(o)
      PROVE  EvidenceInv'
  <2>1. RecordStep(CurrentStep, o) /\ AtStep
    BY <1>3 DEF StepPassed, StepPending, StepRetried, StepFailed, StepNotExecuted
  <2>2. CurrentStep \in Action
    BY <2>1, ItemType DEF AtStep, CurrentStep, TypeOK
  <2> QED
    BY <2>1, <2>2, WritesAreOwn, OwnEvidence DEF RecordStep
<1>4. ASSUME NEW o \in AdapterOutcomes(manifest), CleanupPassed(o) \/ CleanupFailed(o)
      PROVE  EvidenceInv'
  <2>1. RecordCleanup(CurrentCleanup, o) /\ AtCleanup
    BY <1>4 DEF CleanupPassed, CleanupFailed
  <2>2. CurrentCleanup \in Action
    BY <2>1, ItemType DEF AtCleanup, CurrentCleanup, TypeOK
  <2> QED
    BY <2>1, <2>2, WritesAreOwn, OwnEvidence DEF RecordCleanup
<1>5. CASE FinishCase
  <2>1. PICK r : results' = Append(results, r) /\ r.evidence = evidence
    BY <1>5 DEF FinishCase, PushResult
  <2>2. UNCHANGED <<disk, index, written>> /\ evidence' = {}
    BY <1>5 DEF FinishCase, FreshCase, files
  <2> QED
    BY <2>1, <2>2, AuthenticResult DEF EvidenceInv, OwnFiles
<1>6. CASE StartCase \/ AllStepsDone \/ FinishRun \/ UNCHANGED vars
  <2>1. UNCHANGED <<results, evidence, disk, index, written>>
    BY <1>6 DEF StartCase, AllStepsDone, FinishRun, vars, runVars, caseVars, files
  <2> QED
    BY <2>1 DEF EvidenceInv, OwnFiles, EvidenceAuthentic, CaseNumber
<1>7. CASE Throw
  <2>1. /\ UNCHANGED <<results, evidence>>
        /\ written \subseteq written' /\ disk \subseteq disk' /\ index \subseteq index'
    BY <1>7 DEF Throw, StoreInterrupted, runVars, caseVars
  <2> QED
    BY <2>1, AuthenticStays DEF EvidenceInv, OwnFiles, CaseNumber
<1>8. CASE Rerun
  BY <1>8 DEF Rerun, FreshCase, EvidenceInv, EvidenceAuthentic
<1> QED
  BY <1>1, <1>2, <1>3, <1>4, <1>5, <1>6, <1>7, <1>8 DEF Next, Advance

\* The evidence a result names was written by this run for this case, is there and is indexed,
\* though a run may meet the files of an earlier one (run-orchestrator.ts, evidence-store.ts).
THEOREM EvidenceIsAuthentic == Spec => []EvidenceAuthentic
<1>1. Init => EvidenceInv
  BY DEF Init, EvidenceInv, EvidenceAuthentic
<1>2. EvidenceInv => EvidenceAuthentic
  BY DEF EvidenceInv
<1> QED
  BY <1>1, <1>2, EvidenceStep, TypeCorrect, PTL DEF Spec
-----------------------------------------------------------------------------
(* RunOrchestrator implements CaseVerdicts: every step of the loop is a step *)
(* of the promise, or none.                                                  *)

\* The mapping: what the reader sees of the loop.
Verdicts == [n \in DOMAIN results |-> results[n].status]
Failing(p) == p.case = CaseNumber /\ p.cleanup /\ p.status # "passed"
Soiled == \E p \in performed : Failing(p)

\* Between two cases nothing has been performed of the next one.
BetweenCases == pc = "case" => \A p \in performed : p.case < CaseNumber

\* Only cleanup soils a case, and a soiled case has lost its pass.
SoiledIsSeen ==
  /\ pc = "execute" => ~Soiled
  /\ pc = "cleanup" /\ Soiled => caseStatus # "passed"

\* A case at work was let in, and still could be, unless it has soiled something itself.
Admitted ==
  pc \in {"execute", "cleanup"} => Soiled \/ ~(Contaminated(Item) \/ FailedDependency(Item))

RefinementInv == TypeOK /\ NothingAhead /\ BetweenCases /\ SoiledIsSeen /\ Admitted

-----------------------------------------------------------------------------
LEMMA StatusesOf ==
  ASSUME NEW s \in Seq(CaseResult)
  PROVE  [n \in DOMAIN s |-> s[n].status] \in [1..Len(s) -> CaseStatus] /\ Len(s) \in Nat
<1>1. DOMAIN s = 1..Len(s) /\ Len(s) \in Nat
  OBVIOUS
<1>2. ASSUME NEW n \in DOMAIN s
      PROVE  s[n].status \in CaseStatus
  <2>1. s[n] \in CaseResult
    OBVIOUS
  <2> QED
    BY <2>1 DEF CaseResult
<1> QED
  BY <1>1, <1>2

LEMMA VerdictsType ==
  ASSUME TypeOK
  PROVE  Verdicts \in Seq(CaseStatus) /\ Len(Verdicts) = Len(results) /\ DOMAIN Verdicts = DOMAIN results
<1>1. Verdicts \in [1..Len(results) -> CaseStatus] /\ Len(results) \in Nat
  BY StatusesOf DEF Verdicts, TypeOK
<1>2. Verdicts \in Seq(CaseStatus)
  BY <1>1
<1> QED
  BY <1>1, <1>2

\* A result that is added is a verdict that is added.
LEMMA VerdictsAppend ==
  ASSUME TypeOK, NEW r \in CaseResult, results' = Append(results, r)
  PROVE  Verdicts' = Append(Verdicts, r.status)
<1>1. /\ results' \in Seq(CaseResult) /\ Len(results') = Len(results) + 1
      /\ \A n \in 1..Len(results) : results'[n] = results[n]
      /\ results'[Len(results) + 1] = r
  BY DEF TypeOK
<1>2. Verdicts' \in Seq(CaseStatus) /\ Len(Verdicts') = Len(results) + 1
  <2>1. Verdicts' \in [1..Len(results') -> CaseStatus]
    BY <1>1, StatusesOf DEF Verdicts
  <2>2. Len(results') \in Nat
    BY <1>1
  <2> QED
    BY <1>1, <2>1, <2>2
<1>3. r.status \in CaseStatus
  BY DEF CaseResult
<1>4. /\ Append(Verdicts, r.status) \in Seq(CaseStatus)
      /\ Len(Append(Verdicts, r.status)) = Len(results) + 1
  BY <1>3, VerdictsType
<1>5. \A n \in 1..Len(results) + 1 : Verdicts'[n] = Append(Verdicts, r.status)[n]
  <2>1. \A n \in 1..Len(results) + 1 : Verdicts'[n] = results'[n].status
    BY <1>1 DEF Verdicts
  <2>2. \A n \in 1..Len(results) : Verdicts[n] = results[n].status
    BY DEF Verdicts, TypeOK
  <2>3. /\ \A n \in 1..Len(results) : Append(Verdicts, r.status)[n] = Verdicts[n]
        /\ Append(Verdicts, r.status)[Len(results) + 1] = r.status
    BY VerdictsType, <1>3
  <2>4. \A n \in 1..Len(results) + 1 : n \in 1..Len(results) \/ n = Len(results) + 1
    BY DEF TypeOK
  <2> QED
    BY <1>1, <2>1, <2>2, <2>3, <2>4
<1> QED
  BY <1>2, <1>4, <1>5, SeqEqual

\* The mapping is what the promise is instantiated with.
LEMMA Mapping ==
  ASSUME TypeOK
  PROVE  /\ Promise!CasesLeft <=> CaseNumber \in DOMAIN manifest
         /\ Promise!Current = Item
         /\ Promise!MayAct <=> /\ CaseNumber \in DOMAIN manifest
                               /\ ~Contaminated(Item) /\ ~FailedDependency(Item)
<1>1. Len([n \in DOMAIN results |-> results[n].status]) = Len(results)
  BY VerdictsType DEF Verdicts
<1>2. Promise!CasesLeft <=> CaseNumber \in DOMAIN manifest
  BY <1>1 DEF Promise!CasesLeft, CaseNumber
<1>3. Promise!Current = Item
  BY <1>1 DEF Promise!Current, Item, CaseNumber
<1> QED
  BY <1>2, <1>3 DEF Promise!MayAct, Contaminated, FailedDependency

-----------------------------------------------------------------------------
(* The steps.                                                               *)

\* A step that the reader does not see.
LEMMA Stutter ==
  ASSUME RefinementInv, manifest' = manifest, results' = results, UNCHANGED contamination,
         \A p \in performed' : Failing(p) => p \in performed, performed \subseteq performed'
  PROVE  UNCHANGED Promise!vars
<1>1. CaseNumber' = CaseNumber
  BY DEF CaseNumber
<1>2. (\E p \in performed : p.case = CaseNumber /\ p.cleanup /\ p.status # "passed")'
        = (\E p \in performed : p.case = CaseNumber /\ p.cleanup /\ p.status # "passed")
  BY <1>1 DEF Failing
<1> QED
  BY <1>2 DEF Promise!vars, contamination

\* A gate refuses the case at hand.
LEMMA GateRefuses ==
  ASSUME RefinementInv, BlockContaminated \/ BlockPreflight \/ BlockNoVerdictRoute
  PROVE  Promise!Refuse
<1>1. pc = "case" /\ CaseNumber \in DOMAIN manifest /\ TypeOK
  BY DEF BlockContaminated, BlockPreflight, BlockNoVerdictRoute, LacksVerdictRoute, AtCase, RefinementInv
<1>2. /\ manifest' = manifest /\ performed' = performed /\ UNCHANGED contamination
  BY DEF BlockContaminated, BlockPreflight, BlockNoVerdictRoute, shared
<1>3. PICK r : r \in CaseResult /\ r.status = "not_executed" /\ results' = Append(results, r)
  <2>1. PICK r : r.status = "not_executed" /\ results' = Append(results, r)
    BY DEF BlockContaminated, BlockPreflight, BlockNoVerdictRoute, PushResult
  <2>2. results' \in Seq(CaseResult)
    BY <1>1, GateType DEF TypeOK, RefinementInv
  <2>3. results \in Seq(CaseResult)
    BY <1>1 DEF TypeOK
  <2>4. r = results'[Len(results) + 1] /\ Len(results) + 1 \in DOMAIN results'
    BY <2>1, <2>3
  <2> QED
    BY <2>1, <2>2, <2>4
<1>4. Verdicts' = Append(Verdicts, "not_executed")
  BY <1>1, <1>3, VerdictsAppend
<1>5. CaseNumber' = CaseNumber + 1 /\ CaseNumber \in Nat
  BY <1>1, <1>3 DEF CaseNumber, TypeOK
<1>6. ~Soiled /\ ~Soiled'
  <2>1. \A p \in performed : p.case < CaseNumber /\ p.case \in Nat
    BY <1>1 DEF RefinementInv, BetweenCases, TypeOK
  <2> QED
    BY <1>2, <1>5, <2>1 DEF Soiled, Failing
<1>7. Promise!CasesLeft
  BY <1>1, Mapping
<1> QED
  BY <1>2, <1>4, <1>6, <1>7 DEF Promise!Refuse, Verdicts, Soiled, Failing, contamination

LEMMA CleanupLeaves ==
  ASSUME RefinementInv, NEW o, CleanupFailed(o)
  PROVE  Promise!LeaveBehind /\ Soiled'
<1>1. pc = "cleanup" /\ CaseNumber \in DOMAIN manifest /\ TypeOK
  BY DEF CleanupFailed, AtCleanup, RefinementInv, TypeOK
<1>2. Promise!MayAct \/ Soiled
  BY <1>1, Mapping DEF RefinementInv, Admitted
<1> DEFINE q == [case |-> CaseNumber, attempt |-> attempt, step |-> step, cleanup |-> TRUE,
                 status |-> o.status]
<1>3. /\ manifest' = manifest /\ results' = results /\ performed' = performed \cup {q}
      /\ o.status # "passed"
  BY DEF CleanupFailed, RecordCleanup, Perform, shared
<1>4. CaseNumber' = CaseNumber
  BY <1>3 DEF CaseNumber
<1>5. Soiled'
  <2>1. q.case = CaseNumber /\ q.cleanup /\ q.status # "passed"
    BY <1>3
  <2> HIDE DEF q
  <2> QED
    BY <1>3, <1>4, <2>1 DEF Soiled, Failing
<1>6. Verdicts' = Verdicts
  BY <1>3 DEF Verdicts
<1>7. IF Promise!Current.global
      THEN globalContamination' = TRUE /\ UNCHANGED contaminatedResources
      ELSE /\ contaminatedResources' = contaminatedResources \cup Promise!Current.locks
           /\ UNCHANGED globalContamination
  BY <1>1, Mapping DEF CleanupFailed
<1> QED
  BY <1>2, <1>3, <1>5, <1>6, <1>7 DEF Promise!LeaveBehind, Verdicts, Soiled, Failing

LEMMA FinishDecides ==
  ASSUME RefinementInv, FinishCase, NEW CONSTANT v, v = caseStatus
  PROVE  Promise!Decide(v)
<1>1. pc = "cleanup" /\ CaseNumber \in DOMAIN manifest /\ TypeOK
  BY DEF FinishCase, RefinementInv, TypeOK
<1>2. Promise!MayAct \/ Soiled
  BY <1>1, Mapping DEF RefinementInv, Admitted
<1>3. Soiled => caseStatus # "passed"
  BY <1>1 DEF RefinementInv, SoiledIsSeen
<1> DEFINE r == [status |-> caseStatus, runStatus |-> caseRunStatus, assertions |-> assertions,
                 evidence |-> evidence, fields |-> fieldStatus]
<1>4. r \in CaseResult /\ r.status = caseStatus
  BY <1>1 DEF CaseResult, TypeOK
<1>5. results' = Append(results, r)
  BY DEF FinishCase, PushResult
<1> HIDE DEF r
<1>6. Verdicts' = Append(Verdicts, caseStatus)
  BY <1>1, <1>4, <1>5, VerdictsAppend
<1>7. /\ manifest' = manifest /\ performed' = performed /\ UNCHANGED contamination
  BY DEF FinishCase, shared
<1>8. CaseNumber' = CaseNumber + 1 /\ CaseNumber \in Nat
  BY <1>1, <1>5 DEF CaseNumber, TypeOK
<1>9. ~Soiled'
  <2>1. \A p \in performed : p.case <= CaseNumber /\ p.case \in Nat
    BY <1>1 DEF RefinementInv, NothingAhead, TypeOK
  <2> QED
    BY <1>7, <1>8, <2>1 DEF Soiled, Failing
<1> QED
  BY <1>2, <1>3, <1>6, <1>7, <1>9 DEF Promise!Decide, Verdicts, Soiled, Failing, contamination

LEMMA RerunStarts ==
  ASSUME RefinementInv, Rerun
  PROVE  Promise!StartAgain
<1>1. results' = <<>> /\ performed' = {}
  BY DEF Rerun
<1>2. [n \in DOMAIN results' |-> results'[n].status] = <<>>
  BY <1>1
<1> QED
  BY <1>1, <1>2 DEF Rerun, Promise!StartAgain

-----------------------------------------------------------------------------
(* The invariant.                                                           *)

LEMMA InvInit == Init => RefinementInv
<1> SUFFICES ASSUME Init
             PROVE  RefinementInv
  OBVIOUS
<1>1. TypeOK
  BY InitType
<1> QED
  BY <1>1 DEF Init, RefinementInv, NothingAhead, BetweenCases, SoiledIsSeen, Admitted

\* A step within a case that keeps what was let in and adds no failed cleanup.
LEMMA WithinCase ==
  ASSUME RefinementInv, TypeOK', NothingAhead',
         manifest' = manifest, results' = results, UNCHANGED contamination,
         \A p \in performed' : Failing(p) => p \in performed, performed \subseteq performed',
         pc \in {"execute", "cleanup"}, pc' \in {"execute", "cleanup"},
         pc' = "execute" => pc = "execute", Soiled => caseStatus' = caseStatus
  PROVE  RefinementInv'
<1>1. CaseNumber' = CaseNumber /\ Item' = Item
  BY DEF CaseNumber, Item
<1>2. Soiled' <=> Soiled
  BY <1>1 DEF Soiled, Failing
<1>3. Contaminated(Item)' <=> Contaminated(Item)
  BY <1>1 DEF Contaminated, contamination
<1>4. FailedDependency(Item)' <=> FailedDependency(Item)
  BY <1>1 DEF FailedDependency
<1> QED
  BY <1>2, <1>3, <1>4 DEF RefinementInv, BetweenCases, SoiledIsSeen, Admitted

\* A case ends or the loop does: what has been performed is of earlier cases.
LEMMA CaseEnds ==
  ASSUME RefinementInv, TypeOK', NothingAhead', pc' \in {"case", "finished", "threw"},
         pc' = "case" => \A p \in performed' : p.case < CaseNumber'
  PROVE  RefinementInv'
BY DEF RefinementInv, BetweenCases, SoiledIsSeen, Admitted

LEMMA InvStep ==
  ASSUME RefinementInv, [Next]_vars, TypeOK', NothingAhead'
  PROVE  RefinementInv'
<1>0. TypeOK
  BY DEF RefinementInv
<1>1. CASE BlockContaminated \/ BlockPreflight \/ BlockNoVerdictRoute
  <2>1. PICK r : results' = Append(results, r)
    BY <1>1 DEF BlockContaminated, BlockPreflight, BlockNoVerdictRoute, PushResult
  <2>2. CaseNumber' = CaseNumber + 1 /\ CaseNumber \in Nat
    BY <1>0, <2>1 DEF CaseNumber, TypeOK
  <2>3. performed' = performed /\ pc = "case" /\ pc' = "case"
    BY <1>1 DEF BlockContaminated, BlockPreflight, BlockNoVerdictRoute, LacksVerdictRoute, AtCase
  <2>4. \A p \in performed : p.case < CaseNumber /\ p.case \in Nat
    BY <2>3 DEF RefinementInv, BetweenCases, TypeOK
  <2> QED
    BY <2>2, <2>3, <2>4, CaseEnds
<1>2. CASE StartCase
  <2>1. /\ pc = "case" /\ pc' = "execute" /\ UNCHANGED <<manifest, results, performed, contamination>>
        /\ ~Contaminated(Item) /\ ~FailedDependency(Item)
    BY <1>2 DEF StartCase, AtCase, PreflightBlocked, shared, runVars
  <2>2. CaseNumber' = CaseNumber /\ Item' = Item
    BY <2>1 DEF CaseNumber, Item
  <2>3. ~Contaminated(Item)' /\ ~FailedDependency(Item)'
    BY <2>1, <2>2 DEF Contaminated, FailedDependency, contamination
  <2>4. ~Soiled'
    <3>1. \A p \in performed : p.case < CaseNumber /\ p.case \in Nat
      BY <2>1 DEF RefinementInv, BetweenCases, TypeOK
    <3> QED
      BY <1>0, <2>1, <2>2, <3>1 DEF Soiled, Failing, CaseNumber, TypeOK
  <2> QED
    BY <2>1, <2>3, <2>4 DEF RefinementInv, BetweenCases, SoiledIsSeen, Admitted
<1>3. ASSUME NEW o, StepPassed(o) \/ StepPending(o) \/ StepRetried(o) \/ StepFailed(o) \/ StepNotExecuted(o)
      PROVE  RefinementInv'
  <2> DEFINE q == [case |-> CaseNumber, attempt |-> attempt, step |-> step, cleanup |-> FALSE,
                   status |-> o.status]
  <2>1. AtStep /\ RecordStep(CurrentStep, o)
    BY <1>3 DEF StepPassed, StepPending, StepRetried, StepFailed, StepNotExecuted
  <2>2. /\ manifest' = manifest /\ results' = results /\ UNCHANGED contamination
        /\ performed' = performed \cup {q} /\ pc = "execute"
    BY <2>1 DEF RecordStep, Perform, shared, AtStep
  <2>3. ~Failing(q)
    BY DEF Failing
  <2>4. pc' \in {"execute", "cleanup"}
    BY <1>3, <2>2 DEF StepPassed, StepPending, StepRetried, StepFailed, StepNotExecuted, EndAttempts
  <2>5. ~Soiled
    BY <2>2 DEF RefinementInv, SoiledIsSeen
  <2> HIDE DEF q
  <2> QED
    BY <2>2, <2>3, <2>4, <2>5, WithinCase
<1>4. CASE AllStepsDone
  <2>1. /\ UNCHANGED <<manifest, results, contamination, performed, caseStatus>>
        /\ pc = "execute" /\ pc' = "cleanup"
    BY <1>4 DEF AllStepsDone, EndAttempts, shared, runVars
  <2> QED
    BY <2>1, WithinCase DEF contamination
<1>5. ASSUME NEW o, CleanupPassed(o)
      PROVE  RefinementInv'
  <2> DEFINE q == [case |-> CaseNumber, attempt |-> attempt, step |-> step, cleanup |-> TRUE,
                   status |-> o.status]
  <2>1. /\ manifest' = manifest /\ results' = results /\ UNCHANGED <<contamination, caseStatus>>
        /\ performed' = performed \cup {q} /\ pc = "cleanup" /\ pc' = "cleanup"
        /\ o.status = "passed"
    BY <1>5 DEF CleanupPassed, RecordCleanup, Perform, shared, AtCleanup
  <2>2. ~Failing(q)
    BY <2>1 DEF Failing
  <2> HIDE DEF q
  <2> QED
    BY <2>1, <2>2, WithinCase
<1>6. ASSUME NEW o, CleanupFailed(o)
      PROVE  RefinementInv'
  <2>1. Soiled' /\ pc' = "cleanup"
    BY <1>6, CleanupLeaves DEF CleanupFailed, RecordCleanup, AtCleanup
  <2>2. caseStatus' # "passed"
    BY <1>6 DEF CleanupFailed, StatusAfterCleanupFailure
  <2> QED
    BY <2>1, <2>2 DEF RefinementInv, BetweenCases, SoiledIsSeen, Admitted
<1>7. CASE FinishCase
  <2>1. PICK r : results' = Append(results, r)
    BY <1>7 DEF FinishCase, PushResult
  <2>2. CaseNumber' = CaseNumber + 1 /\ CaseNumber \in Nat
    BY <1>0, <2>1 DEF CaseNumber, TypeOK
  <2>3. performed' = performed /\ pc' = "case"
    BY <1>7 DEF FinishCase
  <2>4. \A p \in performed : p.case <= CaseNumber /\ p.case \in Nat
    BY DEF RefinementInv, NothingAhead, TypeOK
  <2> QED
    BY <2>2, <2>3, <2>4, CaseEnds
<1>8. CASE FinishRun \/ Throw
  BY <1>8, CaseEnds DEF FinishRun, Throw
<1>9. CASE Rerun
  BY <1>9, CaseEnds DEF Rerun
<1>10. CASE UNCHANGED vars
  BY <1>10 DEF vars, shared, runVars, caseVars, contamination, RefinementInv, BetweenCases, SoiledIsSeen,
    Admitted, Soiled, Failing, Contaminated, FailedDependency, CaseNumber, Item
<1> QED
  BY <1>1, <1>2, <1>3, <1>4, <1>5, <1>6, <1>7, <1>8, <1>9, <1>10 DEF Next, Advance

-----------------------------------------------------------------------------
LEMMA InitMaps == Init => Promise!Init
<1> SUFFICES ASSUME Init
             PROVE  Promise!Init
  OBVIOUS
<1>1. [n \in DOMAIN results |-> results[n].status] = <<>>
  BY DEF Init
<1> QED
  BY <1>1 DEF Init, Promise!Init

\* Every step of the loop is a step of the promise, or one the reader does not see.
LEMMA StepMaps ==
  ASSUME RefinementInv, [Next]_vars
  PROVE  [Promise!Next]_(Promise!vars)
<1>1. CASE BlockContaminated \/ BlockPreflight \/ BlockNoVerdictRoute
  BY <1>1, GateRefuses DEF Promise!Next
<1>2. CASE StartCase \/ AllStepsDone \/ FinishRun \/ Throw \/ UNCHANGED vars
  <2>1. UNCHANGED <<manifest, results, performed, contamination>>
    BY <1>2 DEF StartCase, AllStepsDone, FinishRun, Throw, vars, shared, runVars
  <2> QED
    BY <2>1, Stutter DEF contamination
<1>3. ASSUME NEW o, \/ StepPassed(o) \/ StepPending(o) \/ StepRetried(o)
                    \/ StepFailed(o) \/ StepNotExecuted(o)
      PROVE  UNCHANGED Promise!vars
  <2> DEFINE q == [case |-> CaseNumber, attempt |-> attempt, step |-> step, cleanup |-> FALSE,
                   status |-> o.status]
  <2>1. RecordStep(CurrentStep, o)
    BY <1>3 DEF StepPassed, StepPending, StepRetried, StepFailed, StepNotExecuted
  <2>2. /\ manifest' = manifest /\ results' = results /\ UNCHANGED contamination
        /\ performed' = performed \cup {q}
    BY <2>1 DEF RecordStep, Perform, shared
  <2>3. ~Failing(q)
    BY DEF Failing
  <2> HIDE DEF q
  <2> QED
    BY <2>2, <2>3, Stutter
<1>4. ASSUME NEW o, CleanupPassed(o)
      PROVE  UNCHANGED Promise!vars
  <2> DEFINE q == [case |-> CaseNumber, attempt |-> attempt, step |-> step, cleanup |-> TRUE,
                   status |-> o.status]
  <2>1. /\ manifest' = manifest /\ results' = results /\ UNCHANGED contamination
        /\ performed' = performed \cup {q} /\ o.status = "passed"
    BY <1>4 DEF CleanupPassed, RecordCleanup, Perform, shared
  <2>2. ~Failing(q)
    BY <2>1 DEF Failing
  <2> HIDE DEF q
  <2> QED
    BY <2>1, <2>2, Stutter
<1>5. ASSUME NEW o, CleanupFailed(o)
      PROVE  Promise!Next
  BY <1>5, CleanupLeaves DEF Promise!Next
<1>6. CASE FinishCase
  <2>1. PICK v \in CaseStatus : v = caseStatus
    BY DEF RefinementInv, TypeOK
  <2>2. Promise!Decide(v)
    BY <1>6, <2>1, FinishDecides
  <2>3. v \in Promise!CaseStatus
    BY <2>1 DEF CaseStatus, Promise!CaseStatus
  <2> QED
    BY <2>2, <2>3 DEF Promise!Next
<1>7. CASE Rerun
  BY <1>7, RerunStarts DEF Promise!Next
<1> QED
  BY <1>1, <1>2, <1>3, <1>4, <1>5, <1>6, <1>7 DEF Next, Advance

\* A run keeps what CaseVerdicts promises to the reader of its results: verdicts in order
\* and never taken back, no case acted on against its dependencies or in contaminated
\* surroundings, none passed that left something behind (run-orchestrator.ts:214-514).
THEOREM KeepsItsPromise == Spec => ImplementsCaseVerdicts
<1>1. ContaminationInv => NothingAhead
  BY DEF ContaminationInv
<1>2. Spec => []RefinementInv
  <2>1. RefinementInv /\ [Next]_vars /\ TypeOK' /\ NothingAhead' => RefinementInv'
    BY InvStep
  <2> QED
    BY <1>1, <2>1, InvInit, TypeCorrect, ContaminationInit, ContaminationStep, PTL DEF Spec
<1>3. RefinementInv /\ [Next]_vars => [Promise!Next]_(Promise!vars)
  BY StepMaps
<1> QED
  BY <1>2, <1>3, InitMaps, PTL DEF Spec, ImplementsCaseVerdicts, Promise!Spec

-----------------------------------------------------------------------------
(* What a result tells.  c is the case, n its number, r its result and ran  *)
(* what was performed of it.                                                *)

ActionIn(c, p) == IF p.cleanup THEN c.cleanup[p.step] ELSE c.execution[p.step]
OfAttempt(ran, k) == {p \in ran : p.attempt = k}
Last(ran) == {p \in ran : \A q \in ran : q.attempt <= p.attempt}

\* Every step of the case, and a business assertion among them.
CarriedOut(c, ran) ==
  /\ \A p \in ran : p.status = "passed"
  /\ \A k \in DOMAIN c.execution : \E p \in ran : ~p.cleanup /\ p.step = k
  /\ \E k \in DOMAIN c.execution : c.execution[k].kind = "assert"

CleanedUp(c, ran) == \A k \in DOMAIN c.cleanup : \E p \in ran : p.cleanup /\ p.step = k
CleanedOnce(ran) == \A p, q \in ran : p.cleanup /\ q.cleanup /\ p.step = q.step => p = q

Ended(verdict, ran) == \E p \in ran : ~p.cleanup /\ p.status = verdict
VerdictOf(status, ran) ==
  (status = "failed" <=> Ended("failed", ran)) /\ (status = "pending" <=> Ended("pending", ran))

OfField(c, f, ran) == {p \in ran : ActionIn(c, p).field = f}
AllPassed(ran) == ran # {} /\ \A p \in ran : p.status = "passed"
OneFailed(ran) == \E p \in ran : p.status \in {"failed", "executor_error"}
FieldsTold(c, fields, ran) ==
  \A f \in ExecutableFields :
    /\ fields[f] = "executed" => AllPassed(OfField(c, f, ran))
    /\ fields[f] = "failed" => OneFailed(OfField(c, f, ran))

FirstFailed(n, ran, proof) ==
  /\ \E p \in ran : p.attempt = 1 /\ p.status \notin {"passed", "pending"}
  /\ [case |-> n, attempt |-> 1, action |-> 0, file |-> "failure"] \in proof
RetryShown(n, ran, proof) == (\E p \in ran : p.attempt = 2) => FirstFailed(n, ran, proof)

Told(n, c, r, ran) ==
  /\ r.status = "passed" => CarriedOut(c, Last(ran)) /\ CleanedUp(c, Last(ran))
  /\ VerdictOf(r.status, Last(ran))
  /\ FieldsTold(c, r.fields, ran)
  /\ RetryShown(n, ran, r.evidence)
  /\ ran # {} => CleanedUp(c, ran) /\ CleanedOnce(ran)

AllTold == \A n \in DOMAIN results : Told(n, manifest[n], results[n], PerformedOf(n))

DependenciesPassed ==
  \A n \in DOMAIN results : results[n].status = "passed" =>
    \A d \in manifest[n].dependencies : d \in 1 .. n - 1 /\ results[d].status = "passed"

-----------------------------------------------------------------------------
(* What is known of the case at hand.                                       *)

Now == PerformedOf(CaseNumber)
Latest == OfAttempt(Now, attempt)
AtWork == pc \in {"execute", "cleanup"}

Untouched == pc = "case" => Now = {} /\ attempt = 1 /\ step = 1 /\ caseStatus = "passed"

LetIn ==
  AtWork => /\ HasVerdictRoute(Item)
            /\ \A d \in Item.dependencies : d \in DOMAIN results /\ results[d].status = "passed"

AttemptsFollow ==
  AtWork => /\ \A p \in Now : p.attempt <= attempt
            /\ attempt = 2 => FirstFailed(CaseNumber, Now, evidence)

\* Up to the step at hand, all of this attempt has passed.
StepsFollow ==
  pc = "execute" =>
    /\ caseStatus = "passed"
    /\ \A p \in Now : ~p.cleanup
    /\ \A p \in Latest : /\ p.status = "passed" /\ p.step \in DOMAIN Item.execution
                         /\ Item.execution[p.step].kind # "blocked"
    /\ \A k \in DOMAIN Item.execution : k < step => \E p \in Latest : p.step = k

\* The execution is decided, and cleaned up to the step at hand.
CleanupFollows ==
  pc = "cleanup" =>
    /\ Latest # {}
    /\ VerdictOf(caseStatus, Latest)
    /\ caseStatus = "passed" => CarriedOut(Item, Latest)
    /\ \A p \in Now : p.cleanup => p.step < step /\ p.attempt = attempt
    /\ \A k \in DOMAIN Item.cleanup : k < step => \E p \in Latest : p.cleanup /\ p.step = k
    /\ CleanedOnce(Now)

\* seen tells the steps of a field; what is shown differs where it is held back.
FieldsKnown(c, seen, shown, ran) ==
  \A f \in ExecutableFields :
    /\ seen[f] = "skipped" => OfField(c, f, ran) = {}
    /\ seen[f] = "executed" => AllPassed(OfField(c, f, ran))
    /\ seen[f] = "failed" => OneFailed(OfField(c, f, ran))
    /\ shown[f] \in {"executed", "failed"} => shown[f] = seen[f]
FieldsFollow ==
  pc \in {"case", "execute", "cleanup"} => FieldsKnown(Item, observed, fieldStatus, Now)

CaseInv == Untouched /\ LetIn /\ AttemptsFollow /\ StepsFollow /\ CleanupFollows /\ FieldsFollow

HonestInv == TypeOK /\ NothingAhead /\ CaseInv /\ AllTold /\ DependenciesPassed

-----------------------------------------------------------------------------
(* Results are only added, and nothing more is performed of their cases.    *)

LEMMA ResultsKept ==
  ASSUME HonestInv, manifest' = manifest, results' = results,
         \A p \in performed' : p \in performed \/ p.case = CaseNumber, performed \subseteq performed'
  PROVE  AllTold' /\ DependenciesPassed'
<1>1. ASSUME NEW n \in DOMAIN results
      PROVE  PerformedOf(n)' = PerformedOf(n)
  <2>1. n # CaseNumber
    BY DEF HonestInv, TypeOK, CaseNumber
  <2> QED
    BY <2>1 DEF PerformedOf
<1> QED
  BY <1>1 DEF HonestInv, AllTold, DependenciesPassed

LEMMA ResultAdded ==
  ASSUME HonestInv, manifest' = manifest, performed' = performed,
         NEW r, results' = Append(results, r), Told(CaseNumber, Item, r, Now),
         r.status = "passed" => LetIn /\ AtWork
  PROVE  AllTold' /\ DependenciesPassed' /\ CaseNumber' = CaseNumber + 1
<1>1. /\ DOMAIN results' = 1..CaseNumber /\ DOMAIN results = 1..Len(results)
      /\ Len(results) \in Nat /\ CaseNumber = Len(results) + 1
      /\ CaseNumber' = CaseNumber + 1
      /\ \A n \in DOMAIN results : results'[n] = results[n]
      /\ results'[CaseNumber] = r
  BY DEF HonestInv, TypeOK, CaseNumber
<1>2. \A n : PerformedOf(n)' = PerformedOf(n)
  BY DEF PerformedOf
<1>3. \A n \in DOMAIN results' : n \in DOMAIN results \/ n = CaseNumber
  BY <1>1
<1>4. AllTold'
  BY <1>1, <1>2, <1>3 DEF HonestInv, AllTold, Now, Item
<1>5. DependenciesPassed'
  <2>1. ASSUME NEW n \in DOMAIN results, results'[n].status = "passed", NEW d \in manifest[n].dependencies
        PROVE  d \in 1 .. n - 1 /\ results'[d].status = "passed"
    BY <2>1, <1>1 DEF HonestInv, DependenciesPassed
  <2>2. ASSUME r.status = "passed", NEW d \in Item.dependencies
        PROVE  d \in 1 .. CaseNumber - 1 /\ results'[d].status = "passed"
    BY <2>2, <1>1 DEF LetIn
  <2> QED
    BY <2>1, <2>2, <1>1, <1>3 DEF DependenciesPassed, Item
<1> QED
  BY <1>1, <1>4, <1>5

-----------------------------------------------------------------------------
(* Between two cases.                                                       *)

\* At first a field of the contract's steps is neither executed nor failed.
LEMMA ContractFieldsOpen ==
  ASSUME NEW c, NEW f \in ExecutableFields
  PROVE  ContractFieldStatus(c)[f] \in {"blocked", "skipped"}
BY DEF ContractFieldStatus, InitiallyExecuted, ExecutableFields, Fields

LEMMA FreshFields ==
  ASSUME NEW n, FreshCase(n), NEW c
  PROVE  FieldsKnown(c, observed', fieldStatus', {})
<1>1. \A f \in ExecutableFields : observed'[f] = "skipped" /\ fieldStatus'[f] \in {"blocked", "skipped"}
  BY ContractFieldsOpen DEF FreshCase, Fields
<1> QED
  BY <1>1 DEF FieldsKnown, OfField

\* The loop goes on to the next case: nothing is performed of it yet.
LEMMA NextCase ==
  ASSUME HonestInv, performed' = performed, CaseNumber' = CaseNumber + 1,
         FreshCase(CaseNumber + 1), pc' = "case"
  PROVE  CaseInv'
<1>1. Now' = {}
  BY DEF HonestInv, NothingAhead, TypeOK, Now, PerformedOf, CaseNumber
<1>2. FieldsKnown(Item', observed', fieldStatus', {})
  BY FreshFields
<1> QED
  BY <1>1, <1>2 DEF CaseInv, Untouched, LetIn, AtWork, AttemptsFollow, StepsFollow, CleanupFollows,
    FieldsFollow, FreshCase

\* A case of which nothing was performed is told by a result that is not executed.
LEMMA NothingToTell ==
  ASSUME NEW n, NEW c, NEW r, r.status = "not_executed",
         \A f \in ExecutableFields : r.fields[f] \notin {"executed", "failed"}
  PROVE  Told(n, c, r, {})
BY DEF Told, Last, VerdictOf, Ended, FieldsTold, RetryShown

\* The gates push a result for a case of which nothing was performed.
LEMMA GatesHonest ==
  ASSUME HonestInv, BlockContaminated \/ BlockPreflight \/ BlockNoVerdictRoute
  PROVE  CaseInv' /\ AllTold' /\ DependenciesPassed'
<1>1. /\ pc = "case" /\ pc' = "case" /\ manifest' = manifest /\ performed' = performed
      /\ FreshCase(CaseNumber + 1)
  BY DEF BlockContaminated, BlockPreflight, BlockNoVerdictRoute, LacksVerdictRoute, AtCase, shared
<1>2. Now = {}
  BY <1>1 DEF HonestInv, CaseInv, Untouched
<1>3. \A f \in ExecutableFields : fieldStatus[f] \notin {"executed", "failed"}
  BY <1>1, <1>2 DEF HonestInv, CaseInv, FieldsFollow, FieldsKnown, OfField, AllPassed, OneFailed
<1>4. PICK proof, fields :
        /\ PushResult("not_executed", "blocked", GateAssertion, proof, fields)
        /\ fields = fieldStatus \/ \E g : fields = [fieldStatus EXCEPT ![g] = "blocked"]
  <2>1. CASE BlockContaminated
    BY <2>1 DEF BlockContaminated
  <2>2. CASE BlockPreflight
    BY <2>2 DEF BlockPreflight
  <2>3. CASE BlockNoVerdictRoute
    BY <2>3 DEF BlockNoVerdictRoute
  <2> QED
    BY <2>1, <2>2, <2>3
<1> DEFINE r == [status |-> "not_executed", runStatus |-> "blocked", assertions |-> GateAssertion,
                 evidence |-> proof, fields |-> fields]
<1>5. \A f \in ExecutableFields : r.fields[f] \notin {"executed", "failed"}
  BY <1>3, <1>4 DEF HonestInv, TypeOK, Fields
<1>6. results' = Append(results, r) /\ r.status = "not_executed"
  BY <1>4 DEF PushResult
<1> HIDE DEF r
<1>7. Told(CaseNumber, Item, r, Now)
  BY <1>2, <1>5, <1>6, NothingToTell
<1> QED
  BY <1>1, <1>6, <1>7, ResultAdded, NextCase

LEMMA StartHonest ==
  ASSUME HonestInv, StartCase
  PROVE  CaseInv' /\ AllTold' /\ DependenciesPassed'
<1>1. /\ pc = "case" /\ pc' = "execute"
      /\ UNCHANGED <<manifest, results, performed, attempt, step, caseStatus, evidence, fieldStatus, observed>>
      /\ HasVerdictRoute(Item) /\ ~FailedDependency(Item) /\ CaseNumber \in DOMAIN manifest
  BY DEF StartCase, AtCase, shared, runVars, caseVars, PreflightBlocked
<1>2. Now' = Now /\ Item' = Item /\ CaseNumber' = CaseNumber /\ Now = {}
  BY <1>1 DEF Now, PerformedOf, Item, CaseNumber, HonestInv, CaseInv, Untouched
<1>3. attempt = 1 /\ step = 1 /\ caseStatus = "passed" /\ FieldsKnown(Item, observed, fieldStatus, Now)
  BY <1>1 DEF HonestInv, CaseInv, Untouched, FieldsFollow
<1>4. LetIn'
  BY <1>1, <1>2 DEF LetIn, HasVerdictRoute, FailedDependency
<1>5. StepsFollow'
  <2>1. \A k \in DOMAIN Item.execution : ~(k < 1)
    BY <1>1, ItemType DEF HonestInv, Case
  <2> QED
    BY <1>1, <1>2, <1>3, <2>1 DEF StepsFollow, Latest, OfAttempt
<1>6. AllTold' /\ DependenciesPassed'
  BY <1>1, ResultsKept
<1> QED
  BY <1>1, <1>2, <1>3, <1>4, <1>5, <1>6 DEF CaseInv, Untouched, AttemptsFollow, CleanupFollows, FieldsFollow

-----------------------------------------------------------------------------
(* The fields of the contract follow the steps.                             *)

\* What the merge makes of an outcome.
LEMMA MergeTells ==
  ASSUME NEW current \in FieldStatus, NEW o \in Outcome,
         NEW m, m = MergeContractFieldStatus(current, OutcomeFieldStatus(o))
  PROVE  /\ m # "skipped"
         /\ m = "executed" => o.status = "passed" /\ current \in {"executed", "skipped"}
         /\ m = "failed" => current = "failed" \/ o.status \in {"failed", "executor_error"}
<1>1. OutcomeFieldStatus(o) \in {"executed", "failed", "blocked"}
  BY DEF OutcomeFieldStatus
<1>2. /\ OutcomeFieldStatus(o) = "executed" => o.status = "passed"
      /\ OutcomeFieldStatus(o) = "failed" => o.status \in {"failed", "executor_error"}
  BY DEF OutcomeFieldStatus
<1> HIDE DEF OutcomeFieldStatus
<1> QED
  BY <1>1, <1>2 DEF MergeContractFieldStatus, FieldStatus

\* A step is recorded in its field.
LEMMA FieldsRecorded ==
  ASSUME TypeOK, NEW c, NEW ran, NEW q, NEW o \in Outcome, q.status = o.status,
         ActionIn(c, q) \in Action, RecordContractActionOutcome(c, ActionIn(c, q), o),
         FieldsKnown(c, observed, fieldStatus, ran)
  PROVE  FieldsKnown(c, observed', fieldStatus', ran \cup {q})
<1> DEFINE field == ActionIn(c, q).field
           m == MergeContractFieldStatus(observed[field], OutcomeFieldStatus(o))
<1>1. field \in ExecutableFields \cup {"none"}
  BY DEF Action
<1>2. CASE field = "none"
  <2>1. UNCHANGED <<observed, fieldStatus>>
    BY <1>2 DEF RecordContractActionOutcome
  <2>2. \A f \in ExecutableFields : OfField(c, f, ran \cup {q}) = OfField(c, f, ran)
    BY <1>2 DEF OfField, ExecutableFields
  <2> QED
    BY <2>1, <2>2 DEF FieldsKnown
<1>3. CASE field # "none"
  <2>1. field \in ExecutableFields /\ observed[field] \in FieldStatus
    BY <1>1, <1>3 DEF TypeOK
  <2>2. /\ m # "skipped"
        /\ m = "executed" => o.status = "passed" /\ observed[field] \in {"executed", "skipped"}
        /\ m = "failed" => observed[field] = "failed" \/ o.status \in {"failed", "executor_error"}
    BY <2>1, MergeTells
  <2>3. /\ observed' = [observed EXCEPT ![field] = m]
        /\ \E s \in {"blocked", m} : fieldStatus' = [fieldStatus EXCEPT ![field] = s]
    BY <1>3 DEF RecordContractActionOutcome
  <2> HIDE DEF m
  <2>4. /\ observed'[field] = m /\ fieldStatus'[field] \in {"blocked", m}
        /\ \A f \in ExecutableFields : f # field =>
             observed'[f] = observed[f] /\ fieldStatus'[f] = fieldStatus[f]
    BY <2>1, <2>3 DEF TypeOK, Fields
  <2>5. /\ OfField(c, field, ran \cup {q}) = OfField(c, field, ran) \cup {q}
        /\ \A f \in ExecutableFields : f # field => OfField(c, f, ran \cup {q}) = OfField(c, f, ran)
    BY DEF OfField
  <2> HIDE DEF field
  <2>6. ASSUME NEW f \in ExecutableFields, f # field
        PROVE  FieldsKnown(c, observed, fieldStatus, ran) =>
                 /\ observed'[f] = "skipped" => OfField(c, f, ran \cup {q}) = {}
                 /\ observed'[f] = "executed" => AllPassed(OfField(c, f, ran \cup {q}))
                 /\ observed'[f] = "failed" => OneFailed(OfField(c, f, ran \cup {q}))
                 /\ fieldStatus'[f] \in {"executed", "failed"} => fieldStatus'[f] = observed'[f]
    BY <2>4, <2>5, <2>6 DEF FieldsKnown
  <2>7. /\ m = "executed" => AllPassed(OfField(c, field, ran) \cup {q})
        /\ m = "failed" => OneFailed(OfField(c, field, ran) \cup {q})
    BY <2>1, <2>2 DEF FieldsKnown, AllPassed, OneFailed
  <2> QED
    BY <2>1, <2>2, <2>4, <2>5, <2>6, <2>7 DEF FieldsKnown
<1> QED
  BY <1>2, <1>3

-----------------------------------------------------------------------------
(* Execution steps.                                                         *)

\* What is performed of the case at hand.
Doing(cleaning, o) ==
  [case |-> CaseNumber, attempt |-> attempt, step |-> step, cleanup |-> cleaning, status |-> o.status]

LEMMA FailureWritten ==
  ASSUME NEW action, NEW o, o.status \notin {"passed", "pending"}
  PROVE  EvidencePath(0, "failure") \in Files(StepWrites(action, o))
<1> DEFINE x == EvidencePath(0, "failure")
           S == {x, EvidencePath(action.id, "attachment")}
<1>1. StepWrites(action, o) = AttachmentPaths(action, o) \o <<x>>
  BY DEF StepWrites
<1>2. x \in S /\ EvidencePath(action.id, "attachment") \in S
  OBVIOUS
<1> HIDE DEF x, S
<1>3. AttachmentPaths(action, o) \in Seq(S)
  BY <1>2 DEF AttachmentPaths
<1>4. ASSUME NEW s \in Seq(S)
      PROVE  x \in Files(s \o <<x>>)
  <2>1. Len(s) + 1 \in DOMAIN (s \o <<x>>) /\ (s \o <<x>>)[Len(s) + 1] = x
    BY <1>2
  <2> QED
    BY <2>1 DEF Files
<1> QED
  BY <1>1, <1>3, <1>4 DEF x

\* What an execution step does, whatever comes of it.
LEMMA StepRecorded ==
  ASSUME HonestInv, AtStep, NEW o \in Outcomes(CurrentStep), RecordStep(CurrentStep, o)
  PROVE  /\ pc = "execute" /\ CaseNumber' = CaseNumber /\ Item' = Item
         /\ Now' = Now \cup {Doing(FALSE, o)}
         /\ AllTold' /\ DependenciesPassed' /\ LetIn
         /\ FieldsKnown(Item', observed', fieldStatus', Now')
         /\ HasVerdictRoute(Item)' /\ \A d \in Item'.dependencies : d \in DOMAIN results' /\ results'[d].status = "passed"
         /\ evidence \subseteq evidence'
         /\ o.status \notin {"passed", "pending"} => EvidencePath(0, "failure") \in evidence'
         /\ o.status = "passed" => CurrentStep.kind # "blocked"
<1>1. /\ pc = "execute" /\ manifest' = manifest /\ results' = results
      /\ performed' = performed \cup {Doing(FALSE, o)}
      /\ evidence' = evidence \cup Files(StepWrites(CurrentStep, o))
      /\ RecordContractActionOutcome(Item, CurrentStep, o)
  BY DEF AtStep, RecordStep, shared, Perform, Doing
<1>2. Doing(FALSE, o).case = CaseNumber /\ Doing(FALSE, o).status = o.status
  BY DEF Doing
<1>3. CaseNumber' = CaseNumber /\ Item' = Item
  BY <1>1 DEF CaseNumber, Item
<1>4. Now' = Now \cup {Doing(FALSE, o)}
  BY <1>1, <1>2, <1>3 DEF Now, PerformedOf
<1>5. AllTold' /\ DependenciesPassed'
  BY <1>1, <1>2, ResultsKept
<1>6. ActionIn(Item, Doing(FALSE, o)) = CurrentStep
  BY DEF ActionIn, Doing, CurrentStep
<1>7. CurrentStep \in Action /\ o \in Outcome
  BY ItemType, OutcomesType DEF AtStep, CurrentStep, HonestInv, TypeOK
<1>8. FieldsKnown(Item', observed', fieldStatus', Now')
  BY <1>1, <1>2, <1>3, <1>4, <1>6, <1>7, FieldsRecorded DEF HonestInv, CaseInv, FieldsFollow
<1>9. LetIn
  BY DEF HonestInv, CaseInv
<1>10. HasVerdictRoute(Item)' /\ \A d \in Item'.dependencies : d \in DOMAIN results' /\ results'[d].status = "passed"
  BY <1>1, <1>3, <1>9 DEF LetIn, AtWork, HasVerdictRoute
<1>11. o.status = "passed" => CurrentStep.kind # "blocked"
  BY DEF Outcomes
<1> QED
  BY <1>1, <1>3, <1>4, <1>5, <1>8, <1>9, <1>10, <1>11, FailureWritten

LEMMA StepPassedHonest ==
  ASSUME HonestInv, NEW o, StepPassed(o)
  PROVE  CaseInv' /\ AllTold' /\ DependenciesPassed'
<1> DEFINE q == Doing(FALSE, o)
<1>1. /\ AtStep /\ o \in Outcomes(CurrentStep) /\ RecordStep(CurrentStep, o) /\ o.status = "passed"
      /\ step' = step + 1 /\ UNCHANGED <<pc, attempt, caseStatus>>
  BY DEF StepPassed
<1>2. /\ pc = "execute" /\ CaseNumber' = CaseNumber /\ Item' = Item /\ Now' = Now \cup {q}
      /\ AllTold' /\ DependenciesPassed'
      /\ FieldsKnown(Item', observed', fieldStatus', Now')
      /\ HasVerdictRoute(Item)' /\ \A d \in Item'.dependencies : d \in DOMAIN results' /\ results'[d].status = "passed"
      /\ evidence \subseteq evidence' /\ Item.execution[step].kind # "blocked"
  BY <1>1, StepRecorded DEF CurrentStep
<1>3. q.attempt = attempt /\ q.step = step /\ ~q.cleanup /\ q.status = "passed"
  BY <1>1 DEF Doing
<1> HIDE DEF q
<1>4. AttemptsFollow'
  BY <1>1, <1>2, <1>3 DEF HonestInv, CaseInv, TypeOK, AttemptsFollow, AtWork, FirstFailed
<1>5. StepsFollow'
  <2>1. Latest' = Latest \cup {q}
    BY <1>1, <1>2, <1>3 DEF Latest, OfAttempt
  <2>2. /\ caseStatus' = "passed"
        /\ \A p \in Now' : ~p.cleanup
        /\ \A p \in Latest' : /\ p.status = "passed" /\ p.step \in DOMAIN Item.execution
                              /\ Item.execution[p.step].kind # "blocked"
    BY <1>1, <1>2, <1>3, <2>1 DEF HonestInv, CaseInv, StepsFollow, AtStep
  <2>3. ASSUME NEW k \in DOMAIN Item.execution, k < step + 1
        PROVE  \E p \in Latest' : p.step = k
    <3>1. k \in Nat /\ step \in Nat
      BY <1>1, ItemType DEF Case, HonestInv, TypeOK, AtStep
    <3>2. CASE k < step
      BY <1>2, <2>1, <3>2 DEF HonestInv, CaseInv, StepsFollow
    <3>3. CASE k = step
      BY <1>3, <2>1, <3>3
    <3> QED
      BY <2>3, <3>1, <3>2, <3>3
  <2> QED
    BY <1>1, <1>2, <2>2, <2>3 DEF StepsFollow
<1> QED
  BY <1>1, <1>2, <1>4, <1>5 DEF CaseInv, Untouched, LetIn, AtWork, CleanupFollows, FieldsFollow

\* The attempts end with this step, and its outcome decides the case.
LEMMA StepEndsHonest ==
  ASSUME HonestInv, NEW o, StepPending(o) \/ StepFailed(o) \/ StepNotExecuted(o)
  PROVE  CaseInv' /\ AllTold' /\ DependenciesPassed'
<1> DEFINE q == Doing(FALSE, o)
<1>1. /\ AtStep /\ o \in Outcomes(CurrentStep) /\ RecordStep(CurrentStep, o)
      /\ pc' = "cleanup" /\ step' = 1 /\ attempt' = attempt
      /\ o.status \in {"failed", "pending"} => caseStatus' = o.status
      /\ o.status \notin {"failed", "pending"} => caseStatus' = "not_executed"
      /\ o.status # "passed"
  BY DEF StepPending, StepFailed, StepNotExecuted, EndAttempts
<1>2. /\ pc = "execute" /\ CaseNumber' = CaseNumber /\ Item' = Item /\ Now' = Now \cup {q}
      /\ AllTold' /\ DependenciesPassed'
      /\ FieldsKnown(Item', observed', fieldStatus', Now')
      /\ HasVerdictRoute(Item)' /\ \A d \in Item'.dependencies : d \in DOMAIN results' /\ results'[d].status = "passed"
      /\ evidence \subseteq evidence'
  BY <1>1, StepRecorded
<1>3. q.attempt = attempt /\ q.step = step /\ ~q.cleanup /\ q.status = o.status
  BY DEF Doing
<1> HIDE DEF q
<1>4. AttemptsFollow'
  BY <1>1, <1>2, <1>3 DEF HonestInv, CaseInv, TypeOK, AttemptsFollow, AtWork, FirstFailed
<1>5. CleanupFollows'
  <2>1. Latest' = Latest \cup {q}
    BY <1>1, <1>2, <1>3 DEF Latest, OfAttempt
  <2>2. /\ \A p \in Now' : ~p.cleanup
        /\ \A p \in Latest : p.status = "passed"
    BY <1>2, <1>3 DEF HonestInv, CaseInv, StepsFollow
  <2>3. VerdictOf(caseStatus', Latest') /\ caseStatus' # "passed"
    BY <1>1, <1>3, <2>1, <2>2 DEF VerdictOf, Ended
  <2>4. \A k \in DOMAIN Item.cleanup : ~(k < 1)
    BY <1>1, ItemType DEF Case, HonestInv, TypeOK, AtStep
  <2> QED
    BY <1>1, <1>2, <2>1, <2>2, <2>3, <2>4 DEF CleanupFollows, CleanedOnce
<1> QED
  BY <1>1, <1>2, <1>4, <1>5 DEF CaseInv, Untouched, LetIn, AtWork, StepsFollow, FieldsFollow

\* The case starts again, and shows why.
LEMMA StepRetriedHonest ==
  ASSUME HonestInv, NEW o, StepRetried(o)
  PROVE  CaseInv' /\ AllTold' /\ DependenciesPassed'
<1> DEFINE q == Doing(FALSE, o)
<1>1. /\ AtStep /\ o \in Outcomes(CurrentStep) /\ RecordStep(CurrentStep, o)
      /\ pc' = "execute" /\ step' = 1 /\ attempt = 1 /\ attempt' = 2 /\ caseStatus' = caseStatus
      /\ o.status \notin {"passed", "pending"}
  BY DEF StepRetried, RetryDecision
<1>2. /\ pc = "execute" /\ CaseNumber' = CaseNumber /\ Item' = Item /\ Now' = Now \cup {q}
      /\ AllTold' /\ DependenciesPassed'
      /\ FieldsKnown(Item', observed', fieldStatus', Now')
      /\ HasVerdictRoute(Item)' /\ \A d \in Item'.dependencies : d \in DOMAIN results' /\ results'[d].status = "passed"
      /\ EvidencePath(0, "failure") \in evidence'
  BY <1>1, StepRecorded
<1>3. q.attempt = 1 /\ ~q.cleanup /\ q.status = o.status
  BY <1>1 DEF Doing
<1> HIDE DEF q
<1>4. \A p \in Now' : p.attempt <= 1 /\ p.attempt \in Nat
  BY <1>1, <1>2, <1>3 DEF HonestInv, CaseInv, AttemptsFollow, AtWork, TypeOK, Now, PerformedOf
<1>5. Latest' = {}
  BY <1>1, <1>4 DEF Latest, OfAttempt
<1>6. FirstFailed(CaseNumber, Now', evidence')
  BY <1>1, <1>2, <1>3 DEF FirstFailed, EvidencePath
<1>7. StepsFollow'
  <2>1. \A k \in DOMAIN Item.execution : ~(k < 1)
    BY <1>1, ItemType DEF Case, HonestInv, TypeOK, AtStep
  <2> QED
    BY <1>1, <1>2, <1>3, <1>5, <2>1 DEF HonestInv, CaseInv, StepsFollow
<1> QED
  BY <1>1, <1>2, <1>4, <1>6, <1>7
  DEF CaseInv, Untouched, LetIn, AtWork, AttemptsFollow, CleanupFollows, FieldsFollow

\* An attempt that went through carried out the case; a marker among its steps never passes.
LEMMA AllStepsDoneHonest ==
  ASSUME HonestInv, AllStepsDone
  PROVE  CaseInv' /\ AllTold' /\ DependenciesPassed'
<1>1. /\ pc = "execute" /\ step \notin DOMAIN Item.execution /\ pc' = "cleanup" /\ step' = 1
      /\ UNCHANGED <<manifest, results, performed, attempt, caseStatus, evidence, fieldStatus, observed>>
  BY DEF AllStepsDone, EndAttempts, shared, runVars
<1>2. Now' = Now /\ Item' = Item /\ CaseNumber' = CaseNumber /\ Latest' = Latest
  BY <1>1 DEF Now, PerformedOf, Item, CaseNumber, Latest
<1>3. AllTold' /\ DependenciesPassed'
  BY <1>1, ResultsKept
<1>4. StepsFollow /\ LetIn /\ AttemptsFollow /\ FieldsFollow
  BY DEF HonestInv, CaseInv
<1>5. CaseNumber \in DOMAIN manifest /\ TypeOK
  BY <1>1 DEF HonestInv, TypeOK
<1>6. \A k \in DOMAIN Item.execution : \E p \in Latest : p.step = k
  <2>1. \A k \in DOMAIN Item.execution : k < step
    BY <1>1, <1>5, ItemType DEF Case, TypeOK
  <2> QED
    BY <1>1, <1>4, <2>1 DEF StepsFollow
<1>7. PICK k \in DOMAIN Item.execution : Item.execution[k].kind \in {"assert", "blocked"}
  BY <1>1, <1>4 DEF LetIn, AtWork, HasVerdictRoute, IsBusinessAssertion
<1>8. Item.execution[k].kind = "assert" /\ Latest # {}
  BY <1>1, <1>4, <1>6, <1>7 DEF StepsFollow
<1>9. \A p \in Latest : p \in Now
  BY DEF Latest, OfAttempt
<1>10. CarriedOut(Item, Latest)
  BY <1>1, <1>4, <1>6, <1>7, <1>8, <1>9 DEF CarriedOut, StepsFollow
<1>11. VerdictOf(caseStatus, Latest)
  BY <1>1, <1>4 DEF VerdictOf, Ended, StepsFollow
<1>12. \A j \in DOMAIN Item.cleanup : ~(j < 1)
  BY <1>5, ItemType DEF Case
<1>13. CleanupFollows'
  BY <1>1, <1>2, <1>4, <1>8, <1>10, <1>11, <1>12 DEF StepsFollow, CleanupFollows, CleanedOnce
<1>14. LetIn'
  BY <1>1, <1>2, <1>4 DEF LetIn, AtWork, HasVerdictRoute
<1> QED
  BY <1>1, <1>2, <1>3, <1>4, <1>13, <1>14
  DEF CaseInv, Untouched, AtWork, AttemptsFollow, StepsFollow, FieldsFollow

-----------------------------------------------------------------------------
(* Cleanup steps, and the end of a case.                                    *)

LEMMA CleanupHonest ==
  ASSUME HonestInv, NEW o, CleanupPassed(o) \/ CleanupFailed(o)
  PROVE  CaseInv' /\ AllTold' /\ DependenciesPassed'
<1> DEFINE q == Doing(TRUE, o)
<1>1. /\ AtCleanup /\ pc = "cleanup" /\ o \in Outcomes(CurrentCleanup)
      /\ RecordContractActionOutcome(Item, CurrentCleanup, o)
      /\ UNCHANGED <<pc, manifest, results, attempt>> /\ step' = step + 1
      /\ performed' = performed \cup {q} /\ evidence \subseteq evidence'
  BY DEF CleanupPassed, CleanupFailed, RecordCleanup, AtCleanup, Perform, Doing, shared
<1>2. /\ caseStatus' = "passed" => caseStatus = "passed" /\ o.status = "passed"
      /\ \A verdict \in {"failed", "pending"} : caseStatus' = verdict <=> caseStatus = verdict
  BY DEF CleanupPassed, CleanupFailed, StatusAfterCleanupFailure
<1>3. /\ q.case = CaseNumber /\ q.attempt = attempt /\ q.step = step /\ q.cleanup
      /\ q.status = o.status
  BY DEF Doing
<1>4. ActionIn(Item, q) = CurrentCleanup
  BY DEF ActionIn, Doing, CurrentCleanup
<1> HIDE DEF q
<1>5. CaseNumber' = CaseNumber /\ Item' = Item
  BY <1>1 DEF CaseNumber, Item
<1>6. Now' = Now \cup {q} /\ Latest' = Latest \cup {q}
  BY <1>1, <1>3, <1>5 DEF Now, PerformedOf, Latest, OfAttempt
<1>7. AllTold' /\ DependenciesPassed'
  BY <1>1, <1>3, ResultsKept
<1>8. CurrentCleanup \in Action /\ o \in Outcome /\ TypeOK /\ CaseNumber \in DOMAIN manifest
  BY <1>1, ItemType, OutcomesType DEF AtCleanup, CurrentCleanup, HonestInv, TypeOK
<1>9. FieldsKnown(Item', observed', fieldStatus', Now')
  BY <1>1, <1>3, <1>4, <1>5, <1>6, <1>8, FieldsRecorded DEF HonestInv, CaseInv, FieldsFollow
<1>10. LetIn' /\ AttemptsFollow'
  BY <1>1, <1>3, <1>5, <1>6, <1>8
  DEF HonestInv, CaseInv, LetIn, HasVerdictRoute, AttemptsFollow, AtWork, FirstFailed, TypeOK
<1>11. CleanupFollows'
  <2>1. /\ Latest # {} /\ VerdictOf(caseStatus, Latest)
        /\ caseStatus = "passed" => CarriedOut(Item, Latest)
        /\ \A p \in Now : p.cleanup => p.step < step /\ p.attempt = attempt
        /\ \A k \in DOMAIN Item.cleanup : k < step => \E p \in Latest : p.cleanup /\ p.step = k
        /\ CleanedOnce(Now)
    BY <1>1 DEF HonestInv, CaseInv, CleanupFollows
  <2>2. VerdictOf(caseStatus', Latest')
    BY <2>1, <1>2, <1>3, <1>6 DEF VerdictOf, Ended
  <2>3. caseStatus' = "passed" => CarriedOut(Item, Latest')
    BY <2>1, <1>2, <1>3, <1>6 DEF CarriedOut
  <2>4. step \in Nat /\ \A p \in Now : p.step \in Nat
    BY <1>8 DEF TypeOK, Now, PerformedOf
  <2>5. \A p \in Now' : p.cleanup => p.step < step + 1 /\ p.attempt = attempt
    BY <2>1, <2>4, <1>3, <1>6
  <2>6. ASSUME NEW k \in DOMAIN Item.cleanup, k < step + 1
        PROVE  \E p \in Latest' : p.cleanup /\ p.step = k
    <3>1. k \in Nat
      BY <1>8, ItemType DEF Case
    <3>2. CASE k < step
      BY <2>1, <1>6, <3>2
    <3>3. CASE k = step
      BY <1>3, <1>6, <3>3
    <3> QED
      BY <2>4, <2>6, <3>1, <3>2, <3>3
  <2>7. CleanedOnce(Now')
    BY <2>1, <2>4, <1>3, <1>6 DEF CleanedOnce
  <2> QED
    BY <1>1, <1>5, <1>6, <2>2, <2>3, <2>5, <2>6, <2>7 DEF CleanupFollows
<1> QED
  BY <1>1, <1>5, <1>7, <1>9, <1>10, <1>11 DEF CaseInv, Untouched, StepsFollow, FieldsFollow

\* The result that is pushed tells what was performed of the case.
LEMMA CaseIsTold ==
  ASSUME HonestInv, pc = "cleanup", step \notin DOMAIN Item.cleanup,
         NEW r, r.status = caseStatus, r.evidence = evidence, r.fields = fieldStatus
  PROVE  Told(CaseNumber, Item, r, Now)
<1>1. AttemptsFollow /\ CleanupFollows /\ FieldsFollow /\ AtWork /\ TypeOK
  BY DEF HonestInv, CaseInv, AtWork
<1>2. CaseNumber \in DOMAIN manifest
  BY <1>1 DEF TypeOK
<1>3. Last(Now) = Latest
  <2>1. \A p \in Now : p.attempt \in Nat
    BY <1>1 DEF TypeOK, Now, PerformedOf
  <2> QED
    BY <1>1, <2>1 DEF AttemptsFollow, CleanupFollows, Latest, OfAttempt, Last, TypeOK
<1>4. CleanedUp(Item, Latest)
  <2>1. \A k \in DOMAIN Item.cleanup : k < step
    BY <1>1, <1>2, ItemType DEF Case, TypeOK
  <2> QED
    BY <1>1, <2>1 DEF CleanupFollows, CleanedUp
<1>5. CleanedUp(Item, Now) /\ CleanedOnce(Now)
  BY <1>1, <1>4 DEF CleanedUp, CleanupFollows, Latest, OfAttempt
<1>6. FieldsTold(Item, fieldStatus, Now)
  BY <1>1 DEF FieldsFollow, FieldsKnown, FieldsTold
<1>7. RetryShown(CaseNumber, Now, evidence)
  BY <1>1 DEF RetryShown, AttemptsFollow, TypeOK
<1>8. VerdictOf(caseStatus, Latest) /\ (caseStatus = "passed" => CarriedOut(Item, Latest))
  BY <1>1 DEF CleanupFollows
<1> QED
  BY <1>3, <1>4, <1>5, <1>6, <1>7, <1>8 DEF Told

LEMMA FinishHonest ==
  ASSUME HonestInv, FinishCase
  PROVE  CaseInv' /\ AllTold' /\ DependenciesPassed'
<1> DEFINE r == [status |-> caseStatus, runStatus |-> caseRunStatus, assertions |-> assertions,
                 evidence |-> evidence, fields |-> fieldStatus]
<1>1. /\ pc = "cleanup" /\ step \notin DOMAIN Item.cleanup /\ results' = Append(results, r)
      /\ manifest' = manifest /\ performed' = performed /\ FreshCase(CaseNumber + 1) /\ pc' = "case"
  BY DEF FinishCase, PushResult, shared
<1>2. r.status = caseStatus /\ r.evidence = evidence /\ r.fields = fieldStatus
  OBVIOUS
<1> HIDE DEF r
<1>3. Told(CaseNumber, Item, r, Now)
  BY <1>1, <1>2, CaseIsTold
<1>4. LetIn /\ AtWork
  BY <1>1 DEF HonestInv, CaseInv, AtWork
<1> QED
  BY <1>1, <1>3, <1>4, ResultAdded, NextCase

LEMMA HonestInit == Init => CaseInv /\ AllTold /\ DependenciesPassed
<1> SUFFICES ASSUME Init PROVE CaseInv /\ AllTold /\ DependenciesPassed
  OBVIOUS
<1>1. results = <<>> /\ performed = {} /\ pc = "case" /\ attempt = 1 /\ step = 1 /\ caseStatus = "passed"
  BY DEF Init
<1>2. Now = {} /\ \A f \in ExecutableFields : OfField(Item, f, {}) = {}
  BY <1>1 DEF Now, PerformedOf, OfField
<1>3. \A f \in ExecutableFields : observed[f] = "skipped" /\ fieldStatus[f] \in {"blocked", "skipped"}
  BY ContractFieldsOpen DEF Init, Fields
<1> QED
  BY <1>1, <1>2, <1>3 DEF CaseInv, AllTold, DependenciesPassed, Untouched, LetIn, AtWork, AttemptsFollow,
    StepsFollow, CleanupFollows, FieldsFollow, FieldsKnown

LEMMA HonestStep ==
  ASSUME HonestInv, [Next]_vars
  PROVE  CaseInv' /\ AllTold' /\ DependenciesPassed'
<1>1. CASE BlockContaminated \/ BlockPreflight \/ BlockNoVerdictRoute
  BY <1>1, GatesHonest
<1>2. CASE StartCase
  BY <1>2, StartHonest
<1>3. ASSUME NEW o, StepPassed(o)
      PROVE  CaseInv' /\ AllTold' /\ DependenciesPassed'
  BY <1>3, StepPassedHonest
<1>4. ASSUME NEW o, StepPending(o) \/ StepFailed(o) \/ StepNotExecuted(o)
      PROVE  CaseInv' /\ AllTold' /\ DependenciesPassed'
  BY <1>4, StepEndsHonest
<1>5. ASSUME NEW o, StepRetried(o)
      PROVE  CaseInv' /\ AllTold' /\ DependenciesPassed'
  BY <1>5, StepRetriedHonest
<1>6. ASSUME NEW o, CleanupPassed(o) \/ CleanupFailed(o)
      PROVE  CaseInv' /\ AllTold' /\ DependenciesPassed'
  BY <1>6, CleanupHonest
<1>7. CASE AllStepsDone
  BY <1>7, AllStepsDoneHonest
<1>8. CASE FinishCase
  BY <1>8, FinishHonest
<1>9. CASE FinishRun \/ Throw
  <2>1. /\ pc' \notin {"case", "execute", "cleanup"}
        /\ UNCHANGED <<manifest, results, performed>>
    BY <1>9 DEF FinishRun, Throw, shared, runVars
  <2>2. AllTold' /\ DependenciesPassed'
    BY <2>1, ResultsKept
  <2> QED
    BY <2>1, <2>2 DEF CaseInv, Untouched, LetIn, AtWork, AttemptsFollow, StepsFollow, CleanupFollows, FieldsFollow
<1>10. CASE Rerun
  <2>1. /\ results' = <<>> /\ performed' = {} /\ pc' = "case" /\ FreshCase(1)
    BY <1>10 DEF Rerun
  <2>2. Now' = {} /\ FieldsKnown(Item', observed', fieldStatus', {})
    BY <2>1, FreshFields DEF Now, PerformedOf
  <2> QED
    BY <2>1, <2>2 DEF CaseInv, AllTold, DependenciesPassed, Untouched, LetIn, AtWork, AttemptsFollow,
      StepsFollow, CleanupFollows, FieldsFollow, FreshCase
<1>11. CASE UNCHANGED vars
  <2>1. UNCHANGED <<manifest, pc, results, performed, attempt, step, caseStatus, evidence, fieldStatus, observed>>
    BY <1>11 DEF vars, shared, runVars, caseVars
  <2>2. Now' = Now /\ Item' = Item /\ CaseNumber' = CaseNumber /\ Latest' = Latest
    BY <2>1 DEF Now, PerformedOf, Item, CaseNumber, Latest
  <2>3. AllTold' /\ DependenciesPassed'
    BY <2>1, ResultsKept
  <2>4. LetIn' <=> LetIn
    BY <2>1, <2>2 DEF LetIn, AtWork, HasVerdictRoute
  <2> QED
    BY <2>1, <2>2, <2>3, <2>4
    DEF HonestInv, CaseInv, Untouched, AtWork, AttemptsFollow, StepsFollow, CleanupFollows, FieldsFollow
<1> QED
  BY <1>1, <1>2, <1>3, <1>4, <1>5, <1>6, <1>7, <1>8, <1>9, <1>10, <1>11 DEF Next, Advance

LEMMA AlwaysHonest == Spec => []HonestInv
<1>1. ContaminationInv => NothingAhead
  BY DEF ContaminationInv
<1>2. HonestInv <=> TypeOK /\ NothingAhead /\ (CaseInv /\ AllTold /\ DependenciesPassed)
  BY DEF HonestInv
<1>3. HonestInv /\ [Next]_vars => (CaseInv /\ AllTold /\ DependenciesPassed)'
  BY HonestStep
<1> QED
  BY <1>1, <1>2, <1>3, HonestInit, TypeCorrect, ContaminationInit, ContaminationStep, PTL DEF Spec

-----------------------------------------------------------------------------
(* Defects.                                                                 *)

\* A defect is of a case that was reached; that of the case at hand has failed it.
DefectsFollow ==
  \A cause \in Causes : \A path \in defects[cause] :
    /\ path.case \in 1 .. CaseNumber
    /\ path.case = CaseNumber =>
         pc \in {"cleanup", "threw"} /\ caseStatus = "failed" /\ path \in evidence

DefectsInv == DefectsFollow /\ DefectsAreFailures

LEMMA DefectsKept ==
  ASSUME DefectsInv, defects' = defects, results' = results, evidence \subseteq evidence',
         pc \in {"cleanup", "threw"} => pc' \in {"cleanup", "threw"},
         caseStatus = "failed" /\ pc \in {"cleanup", "threw"} => caseStatus' = "failed"
  PROVE  DefectsInv'
<1>1. CaseNumber' = CaseNumber
  BY DEF CaseNumber
<1> QED
  BY <1>1 DEF DefectsInv, DefectsFollow, DefectsAreFailures

LEMMA DefectsPushed ==
  ASSUME TypeOK, DefectsInv, defects' = defects, NEW r, results' = Append(results, r),
         pc \in {"cleanup", "threw"} => r.status = caseStatus /\ r.evidence = evidence
  PROVE  DefectsInv'
<1>1. /\ DOMAIN results' = 1..CaseNumber /\ DOMAIN results = 1..CaseNumber - 1
      /\ CaseNumber \in Nat /\ CaseNumber' = CaseNumber + 1
      /\ \A n \in DOMAIN results : results'[n] = results[n]
      /\ results'[CaseNumber] = r
  BY DEF TypeOK, CaseNumber
<1>2. ASSUME NEW cause \in Causes, NEW path \in defects[cause]
      PROVE  /\ path.case \in 1 .. CaseNumber
             /\ results'[path.case].status = "failed" /\ path \in results'[path.case].evidence
  <2>1. path.case \in 1 .. CaseNumber
    BY DEF DefectsInv, DefectsFollow
  <2>2. CASE path.case = CaseNumber
    BY <1>1, <2>1, <2>2 DEF DefectsInv, DefectsFollow
  <2>3. CASE path.case \in DOMAIN results
    BY <1>1, <2>1, <2>3 DEF DefectsInv, DefectsAreFailures
  <2> QED
    BY <1>1, <2>1, <2>2, <2>3
<1> QED
  BY <1>1, <1>2 DEF DefectsInv, DefectsFollow, DefectsAreFailures

\* A failed step adds its own failure evidence to the defect it names.
LEMMA DefectAdded ==
  ASSUME HonestInv, DefectsInv, NEW o, StepFailed(o)
  PROVE  DefectsInv'
<1> DEFINE x == EvidencePath(0, "failure")
<1>1. /\ AtStep /\ o \in Outcomes(CurrentStep) /\ RecordStep(CurrentStep, o) /\ o.status = "failed"
      /\ results' = results /\ caseStatus' = "failed" /\ pc' = "cleanup" /\ pc = "execute"
      /\ \/ defects' = defects
         \/ defects' = [defects EXCEPT ![o.cause] = @ \cup {x}]
  BY DEF StepFailed, EndAttempts, RecordStep, AtStep
<1>2. x \in evidence' /\ evidence \subseteq evidence'
  BY <1>1, StepRecorded
<1>3. x.case = CaseNumber
  BY DEF EvidencePath
<1> HIDE DEF x
<1>4. CaseNumber' = CaseNumber /\ CaseNumber \in 1 .. CaseNumber /\ CaseNumber \notin DOMAIN results
  BY <1>1 DEF CaseNumber, HonestInv, TypeOK
<1>5. \A cause \in Causes : \A path \in defects'[cause] : path \in defects[cause] \/ path = x
  BY <1>1 DEF HonestInv, TypeOK
<1>6. DefectsFollow'
  BY <1>1, <1>2, <1>3, <1>4, <1>5 DEF DefectsInv, DefectsFollow
<1>7. DefectsAreFailures'
  BY <1>1, <1>3, <1>4, <1>5 DEF DefectsInv, DefectsAreFailures
<1> QED
  BY <1>6, <1>7 DEF DefectsInv

LEMMA DefectsStep ==
  ASSUME HonestInv, DefectsInv, [Next]_vars
  PROVE  DefectsInv'
<1>0. TypeOK
  BY DEF HonestInv
<1>1. CASE BlockContaminated \/ BlockPreflight \/ BlockNoVerdictRoute
  <2>1. PICK r : results' = Append(results, r)
    BY <1>1 DEF BlockContaminated, BlockPreflight, BlockNoVerdictRoute, PushResult
  <2>2. pc = "case" /\ defects' = defects
    BY <1>1 DEF BlockContaminated, BlockPreflight, BlockNoVerdictRoute, LacksVerdictRoute, AtCase
  <2> QED
    BY <1>0, <2>1, <2>2, DefectsPushed
<1>2. CASE StartCase \/ AllStepsDone \/ FinishRun \/ Throw \/ UNCHANGED vars
  <2>1. /\ UNCHANGED <<defects, results, evidence, caseStatus>>
        /\ pc \in {"cleanup", "threw"} => pc' \in {"cleanup", "threw"}
    BY <1>2 DEF StartCase, AtCase, AllStepsDone, FinishRun, Throw, vars, runVars, caseVars
  <2> QED
    BY <2>1, DefectsKept
<1>3. ASSUME NEW o, StepPassed(o) \/ StepPending(o) \/ StepRetried(o) \/ StepNotExecuted(o)
      PROVE  DefectsInv'
  <2>1. /\ defects' = defects /\ results' = results /\ evidence \subseteq evidence' /\ pc = "execute"
    BY <1>3 DEF StepPassed, StepPending, StepRetried, StepNotExecuted, RecordStep, AtStep
  <2> QED
    BY <2>1, DefectsKept
<1>4. ASSUME NEW o, StepFailed(o)
      PROVE  DefectsInv'
  BY <1>4, DefectAdded
<1>5. ASSUME NEW o, CleanupPassed(o) \/ CleanupFailed(o)
      PROVE  DefectsInv'
  <2>1. /\ defects' = defects /\ results' = results /\ evidence \subseteq evidence' /\ pc' = pc
        /\ caseStatus = "failed" => caseStatus' = "failed"
    BY <1>5 DEF CleanupPassed, CleanupFailed, RecordCleanup, StatusAfterCleanupFailure
  <2> QED
    BY <2>1, DefectsKept
<1>6. CASE FinishCase
  <2>1. PICK r : results' = Append(results, r) /\ r.status = caseStatus /\ r.evidence = evidence
    BY <1>6 DEF FinishCase, PushResult
  <2> QED
    BY <1>0, <1>6, <2>1, DefectsPushed DEF FinishCase
<1>7. CASE Rerun
  BY <1>7 DEF Rerun, DefectsInv, DefectsFollow, DefectsAreFailures
<1> QED
  BY <1>1, <1>2, <1>3, <1>4, <1>5, <1>6, <1>7 DEF Next, Advance

-----------------------------------------------------------------------------
(* The status of the run.                                                   *)

AllCompleted == \A n \in DOMAIN results : results[n].runStatus = "completed"

RunStatusFollows ==
  /\ pc \in {"case", "execute"} => caseRunStatus = "completed"
  /\ pc # "threw" =>
       (runStatus = "completed" <=> (AtWork => caseRunStatus = "completed") /\ AllCompleted)

LEMMA AllCompletedPushed ==
  ASSUME TypeOK, NEW r, results' = Append(results, r)
  PROVE  AllCompleted' <=> AllCompleted /\ r.runStatus = "completed"
<1>1. /\ DOMAIN results' = 1..CaseNumber /\ DOMAIN results = 1..CaseNumber - 1
      /\ CaseNumber \in Nat \ {0}
      /\ \A n \in DOMAIN results : results'[n] = results[n]
      /\ results'[CaseNumber] = r
  BY DEF TypeOK, CaseNumber
<1>2. \A n \in DOMAIN results' : n \in DOMAIN results \/ n = CaseNumber
  BY <1>1
<1> QED
  BY <1>1, <1>2 DEF AllCompleted

LEMMA RunStatusStep ==
  ASSUME TypeOK, RunStatusFollows, [Next]_vars
  PROVE  RunStatusFollows'
<1>1. CASE BlockContaminated \/ BlockPreflight \/ BlockNoVerdictRoute
  <2>1. PICK r : results' = Append(results, r) /\ r.runStatus = "blocked"
    BY <1>1 DEF BlockContaminated, BlockPreflight, BlockNoVerdictRoute, PushResult
  <2>2. runStatus' # "completed" /\ pc' = "case" /\ caseRunStatus' = "completed"
    BY <1>1 DEF BlockContaminated, BlockPreflight, BlockNoVerdictRoute, LacksVerdictRoute, AtCase, FreshCase
  <2> QED
    BY <2>1, <2>2, AllCompletedPushed DEF RunStatusFollows, AtWork
<1>2. CASE StartCase \/ AllStepsDone \/ FinishRun \/ Throw \/ UNCHANGED vars
  <2>1. UNCHANGED <<results, runStatus, caseRunStatus>>
    BY <1>2 DEF StartCase, AllStepsDone, FinishRun, Throw, vars, runVars, caseVars
  <2>2. \/ pc = "case" /\ pc' = "execute"
        \/ pc = "execute" /\ pc' = "cleanup"
        \/ pc = "case" /\ pc' = "finished"
        \/ pc' = "threw" \/ pc' = pc
    BY <1>2 DEF StartCase, AtCase, AllStepsDone, EndAttempts, FinishRun, Throw, vars
  <2> QED
    BY <2>1, <2>2 DEF RunStatusFollows, AtWork, AllCompleted
<1>3. ASSUME NEW o, StepPassed(o) \/ StepPending(o) \/ StepRetried(o) \/ StepFailed(o) \/ CleanupPassed(o)
      PROVE  RunStatusFollows'
  <2>1. /\ UNCHANGED <<results, runStatus, caseRunStatus>>
        /\ pc' \in {"execute", "cleanup"} /\ pc \in {"execute", "cleanup"}
        /\ pc' = "execute" => pc = "execute"
    BY <1>3 DEF StepPassed, StepPending, StepRetried, StepFailed, CleanupPassed, RecordStep, RecordCleanup,
      EndAttempts, AtStep, AtCleanup
  <2> QED
    BY <2>1 DEF RunStatusFollows, AtWork, AllCompleted
<1>4. ASSUME NEW o, StepNotExecuted(o) \/ CleanupFailed(o)
      PROVE  RunStatusFollows'
  <2>1. pc' = "cleanup" /\ runStatus' # "completed" /\ caseRunStatus' # "completed"
    BY <1>4 DEF StepNotExecuted, CleanupFailed, EndAttempts, RecordCleanup, AtCleanup
  <2> QED
    BY <2>1 DEF RunStatusFollows, AtWork
<1>5. CASE FinishCase
  <2>1. PICK r : results' = Append(results, r) /\ r.runStatus = caseRunStatus
    BY <1>5 DEF FinishCase, PushResult
  <2>2. pc = "cleanup" /\ pc' = "case" /\ runStatus' = runStatus /\ caseRunStatus' = "completed"
    BY <1>5 DEF FinishCase, FreshCase
  <2> QED
    BY <2>1, <2>2, AllCompletedPushed DEF RunStatusFollows, AtWork
<1>6. CASE Rerun
  BY <1>6 DEF Rerun, FreshCase, RunStatusFollows, AtWork, AllCompleted
<1> QED
  BY <1>1, <1>2, <1>3, <1>4, <1>5, <1>6 DEF Next, Advance

-----------------------------------------------------------------------------
(* The properties.                                                          *)

LEMMA AsThePropertiesSay ==
  ASSUME HonestInv
  PROVE  /\ \A n : FinalAttempt(n) = Last(PerformedOf(n))
         /\ \A n \in DOMAIN results : n \in Nat /\ Told(n, manifest[n], results[n], PerformedOf(n))
         /\ \A n : \A p \in PerformedOf(n) : ActionOf(p) = ActionIn(manifest[n], p)
<1>1. \A n : FinalAttempt(n) = Last(PerformedOf(n))
  BY DEF FinalAttempt, Last
<1>2. \A n \in DOMAIN results : n \in Nat /\ Told(n, manifest[n], results[n], PerformedOf(n))
  BY DEF HonestInv, TypeOK, AllTold
<1>3. \A n : \A p \in PerformedOf(n) : ActionOf(p) = ActionIn(manifest[n], p)
  BY DEF PerformedOf, ActionOf, ActionIn
<1> QED
  BY <1>1, <1>2, <1>3

LEMMA PassesAreTrue ==
  ASSUME HonestInv
  PROVE  NoFalsePass /\ VerdictFromOutcome
<1>1. ASSUME NEW n \in DOMAIN results, results[n].status = "passed"
      PROVE  /\ CarriedOut(manifest[n], FinalAttempt(n)) /\ CleanedUp(manifest[n], FinalAttempt(n))
             /\ \A d \in manifest[n].dependencies : d < n /\ results[d].status = "passed"
  BY <1>1, AsThePropertiesSay DEF Told, HonestInv, DependenciesPassed
<1>2. NoFalsePass
  BY <1>1 DEF NoFalsePass, CarriedOut, CleanedUp, IsBusinessAssertion
<1>3. VerdictFromOutcome
  BY AsThePropertiesSay DEF VerdictFromOutcome, Told, VerdictOf, Ended
<1> QED
  BY <1>2, <1>3

LEMMA FieldsAreTrue ==
  ASSUME HonestInv
  PROVE  FieldStatusHonest
<1>1. ASSUME NEW n \in DOMAIN results, NEW f \in ExecutableFields
      PROVE  /\ OfField(manifest[n], f, PerformedOf(n)) = {p \in PerformedOf(n) : ActionOf(p).field = f}
             /\ results[n].fields[f] = "executed" => AllPassed(OfField(manifest[n], f, PerformedOf(n)))
             /\ results[n].fields[f] = "failed" => OneFailed(OfField(manifest[n], f, PerformedOf(n)))
  BY AsThePropertiesSay DEF OfField, Told, FieldsTold
<1> QED
  BY <1>1 DEF FieldStatusHonest, AllPassed, OneFailed

\* What the results of a run tell is what happened in it, whatever the manifest, the outcomes
\* and the number of runs: passes, verdicts, defects, run status and contract fields
\* (run-orchestrator.ts:214-514).
THEOREM ResultsHonest == Spec => []ResultsAreHonest
<1>1. Init => DefectsInv /\ RunStatusFollows
  BY DEF Init, DefectsInv, DefectsFollow, DefectsAreFailures, RunStatusFollows, AtWork, AllCompleted
<1>2. Spec => []DefectsInv
  <2>1. HonestInv /\ DefectsInv /\ [Next]_vars => DefectsInv'
    BY DefectsStep
  <2> QED
    BY <1>1, <2>1, AlwaysHonest, PTL DEF Spec
<1>3. Spec => []RunStatusFollows
  <2>1. TypeOK /\ RunStatusFollows /\ [Next]_vars => RunStatusFollows'
    BY RunStatusStep
  <2> QED
    BY <1>1, <2>1, TypeCorrect, PTL DEF Spec
<1>4. HonestInv /\ DefectsInv /\ RunStatusFollows => ResultsAreHonest
  <2>1. RunStatusFollows => RunStatusHonest
    BY DEF RunStatusFollows, RunStatusHonest, AtWork, AllCompleted
  <2> QED
    BY <2>1, PassesAreTrue, FieldsAreTrue DEF ResultsAreHonest, DefectsInv
<1> QED
  BY <1>2, <1>3, <1>4, AlwaysHonest, PTL

\* Every case that acted on the system was cleaned up exactly once, also when it was retried
\* or did not pass (run-orchestrator.ts:435-469).
THEOREM CleanedUpExactlyOnce == Spec => []CleanupExactlyOnce
<1>1. HonestInv => CleanupExactlyOnce
  <2> SUFFICES ASSUME HonestInv, NEW n \in DOMAIN results, PerformedOf(n) # {},
                      NEW k \in DOMAIN manifest[n].cleanup
               PROVE  Cardinality({p \in PerformedOf(n) : p.cleanup /\ p.step = k}) = 1
    BY DEF CleanupExactlyOnce
  <2>1. CleanedUp(manifest[n], PerformedOf(n)) /\ CleanedOnce(PerformedOf(n))
    BY AsThePropertiesSay DEF Told
  <2>2. PICK p \in PerformedOf(n) : p.cleanup /\ p.step = k
    BY <2>1 DEF CleanedUp
  <2>3. {q \in PerformedOf(n) : q.cleanup /\ q.step = k} = {p}
    BY <2>1, <2>2 DEF CleanedOnce
  <2> QED
    BY <2>3, FS_Singleton
<1> QED
  BY <1>1, AlwaysHonest, PTL

\* A case that needed its second attempt still shows the failure of the first
\* (run-orchestrator.ts:339-433).
THEOREM RetriesAreShown == Spec => []RetryKeepsFirstFailure
<1>1. HonestInv => RetryKeepsFirstFailure
  BY AsThePropertiesSay DEF RetryKeepsFirstFailure, Told, RetryShown, FirstFailed
<1> QED
  BY <1>1, AlwaysHonest, PTL
=============================================================================
