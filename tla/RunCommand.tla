----------------------------- MODULE RunCommand -----------------------------
(***************************************************************************)
(* runRunCommand: the preflight of the run command, the execution of the   *)
(* cases in a browser session, and the delivery of the result in three     *)
(* places: run-result.json, the Excel and HTML reports projected from it,  *)
(* and the exit code.                                                      *)
(*                                                                         *)
(* The hard part is what happens when something fails between two of them: *)
(* the command has a catch branch with three endings and a finally branch  *)
(* that closes the browser once more and rewrites the JSON.  Results are   *)
(* objects that the branches share and mutate, so they live on a heap.     *)
(*                                                                         *)
(* Abstractions.  The orchestrator contributes the verdict of every case   *)
(* (RunOrchestrator has its detail).  A result is what the three places    *)
(* are compared by: the run status, the status and run status of the       *)
(* cases, and the cases whose trace it references.  The Excel and HTML     *)
(* files are written by one call and stand as one.                         *)
(***************************************************************************)
EXTENDS BrowserSession

CONSTANTS
  Verdicts,     \* the [status, run] a case may end with
  WritesFail    \* TRUE: writing a file may fail

CaseStatus == {"passed", "failed", "pending", "not_executed"}
CaseRun == {"completed", "blocked", "manual_required", "executor_error"}
Verdict == [status : CaseStatus, run : CaseRun]
Result == [run : CaseRun \cup {"infrastructure_error"}, cases : Seq(Verdict), traces : SUBSET Nat]

ASSUME VerdictsAssumption == Verdicts \subseteq Verdict
ASSUME WritesFailAssumption == WritesFail \in BOOLEAN

NoFile == [run |-> "none"]
Torn == [run |-> "torn"]      \* what an interrupted write leaves behind

VARIABLES
  pc,
  web,            \* the cases with Web actions
  needsBrowser,   \* there are some, or progress is shown
  progress,       \* a VisualProgressController exists
  verdicts,       \* the cases executed so far
  heap,           \* the result objects
  result, authoritative,   \* result and authoritativeResult, names of objects
  trying,         \* inside the try block
  json, reports,  \* run-result.json, the Excel and HTML reports
  exit            \* the exit code to be returned

delivery == <<json, reports>>
command == <<web, needsBrowser, progress>>
rest == <<verdicts, heap, result, authoritative, trying, exit, delivery>>
runVars == <<sessionVars, command, pc, rest>>

Objects == {"raw", "final", "blocked"}
CaseCount == Len(policies)
BlockedResult(run) ==
  [run |-> run, traces |-> {},
   cases |-> [c \in 1..CaseCount |-> [status |-> "not_executed", run |-> "blocked"]]]

ExitCode(r) ==
  IF r.run = "infrastructure_error" THEN 40
  ELSE IF r.run = "executor_error" THEN 30
  ELSE IF r.run \in {"blocked", "manual_required"} THEN 20
  ELSE IF \E c \in DOMAIN r.cases : r.cases[c].status # "passed" THEN 10
  ELSE 0

\* Mutant: a failed close is recorded, and a passed case stays passed.
RecordCleanupFailures(r) ==
  IF \E k \in DOMAIN records : records[k].status = "failed"
  THEN [r EXCEPT !.run = "executor_error"] ELSE r

FailedCloses == {records[k].case : k \in {l \in DOMAIN records : records[l].status = "failed"}}
ApplyCleanupFailures(r) ==
  IF FailedCloses = {} THEN r
  ELSE [r EXCEPT !.run = "executor_error",
                 !.cases = [c \in DOMAIN r.cases |->
                   IF c \notin FailedCloses THEN r.cases[c]
                   ELSE [status |-> IF r.cases[c].status = "passed" THEN "not_executed"
                                    ELSE r.cases[c].status,
                         run |-> "executor_error"]]]

CommandInit ==
  /\ SessionInit
  /\ \A c \in DOMAIN policies : policies[c].approved = Shared(policies[c])
  /\ web \in SUBSET DOMAIN policies
  /\ needsBrowser \in BOOLEAN /\ progress \in BOOLEAN
  /\ web # {} => needsBrowser
  /\ progress => needsBrowser
  /\ (needsBrowser /\ web = {}) => progress
  /\ pc = "preflight" /\ verdicts = <<>> /\ heap = [o \in Objects |-> BlockedResult("blocked")]
  /\ result = "raw" /\ authoritative = "none" /\ trying = FALSE
  /\ json = NoFile /\ reports = NoFile /\ exit = 0

-----------------------------------------------------------------------------
(* Before the try block                                                    *)

Goto(label) == pc' = label /\ UNCHANGED command

\* Invalid documents, discovery contexts that do not match, other targets than
\* the approved ones: thrown to cli.ts.
Refuse ==
  /\ pc = "preflight" /\ exit' = 50 /\ Goto("done")
  /\ UNCHANGED <<sessionVars, verdicts, heap, result, authoritative, trying, delivery>>

\* Not approved (50), or a credential is missing (the code of the result).
PersistRefusal ==
  /\ pc = "preflight"
  /\ heap' = [heap EXCEPT !.blocked = BlockedResult("blocked")]
  /\ exit' \in {50, 20} /\ Goto("persistJson")
  /\ UNCHANGED <<sessionVars, verdicts, result, authoritative, trying, delivery>>

OpenSession ==
  /\ pc = "preflight"
  /\ IF needsBrowser THEN (Launch \/ LaunchFails) /\ Goto("opening") /\ UNCHANGED trying
     ELSE UNCHANGED sessionVars /\ Goto("execute") /\ trying' = TRUE
  /\ UNCHANGED <<verdicts, heap, result, authoritative, exit, delivery>>

SessionOpened ==
  /\ pc = "opening" /\ at = "idle"
  /\ IF session = "open" THEN Goto("execute") /\ trying' = TRUE /\ UNCHANGED exit
     ELSE Goto("done") /\ exit' = 50 /\ UNCHANGED trying
  /\ UNCHANGED <<sessionVars, verdicts, heap, result, authoritative, delivery>>

-----------------------------------------------------------------------------
(* runApprovedManifest                                                     *)

NextCase == Len(verdicts) + 1
Executing == pc = "execute" /\ at = "idle"
Prepared == NextCase \in web => currentCase = NextCase /\ ~threw

BeforeCase ==
  /\ Executing /\ NextCase \in web \ {currentCase} /\ ~threw
  /\ PrepareCase(NextCase) /\ UNCHANGED <<command, pc, rest>>

CaseCompleted ==
  /\ Executing /\ NextCase <= CaseCount /\ Prepared
  /\ \E v \in Verdicts : verdicts' = Append(verdicts, v)
  /\ Goto("execute")
  /\ UNCHANGED <<sessionVars, heap, result, authoritative, trying, exit, delivery>>

\* An exception of prepareCase, of the orchestrator or of an observer, or
\* ManualCredentialRequiredError out of an action.
ExecutionThrows ==
  /\ Executing
  /\ \/ Goto("catch")
     \/ Prepared /\ NextCase <= CaseCount /\ Goto("manual")
  /\ UNCHANGED <<sessionVars, rest>>

\* runStatus: completed, unless a case was not.
RunStatusOf(cases) ==
  LET other == {cases[c].run : c \in DOMAIN cases} \ {"completed"}
  IN  IF other = {} THEN {"completed"} ELSE other

ManifestExecuted ==
  /\ Executing /\ NextCase > CaseCount
  /\ \E run \in RunStatusOf(verdicts) :
       heap' = [heap EXCEPT !.raw =
                  ApplyCleanupFailures([run |-> run, cases |-> verdicts, traces |-> {}])]
  /\ authoritative' = "raw"
  /\ Goto(IF session = "open" THEN "finalize" ELSE "json1")
  /\ UNCHANGED <<sessionVars, verdicts, result, trying, exit, delivery>>

-----------------------------------------------------------------------------
(* Delivery                                                                *)

FinalizeResult ==
  /\ pc = "finalize" /\ FinalizeTraces /\ Goto("attach") /\ UNCHANGED rest

\* attachTraceEvidence returns a new object: authoritativeResult is not it.  A
\* trace without a case is attached to every case.
Attached(r) == [r EXCEPT !.traces = {t.case : t \in traces}]

AttachTraces ==
  /\ pc = "attach" /\ at = "idle"
  /\ \/ /\ ~threw /\ heap' = [heap EXCEPT !.final = Attached(heap.raw)]
        /\ result' = "final" /\ Goto("json1")
     \/ UNCHANGED <<heap, result>> /\ Goto("catch")
  /\ UNCHANGED <<sessionVars, verdicts, authoritative, trying, exit, delivery>>

Deliver ==
  /\ pc = "deliver" /\ at = "idle"
  /\ \/ /\ session = "open" /\ Close /\ Goto("closed")
     \/ /\ session # "open" /\ UNCHANGED sessionVars /\ Goto("closed")
     \/ /\ progress /\ UNCHANGED sessionVars /\ Goto("catch")
  /\ UNCHANGED rest

AfterClose(r) ==
  LET applied == ApplyCleanupFailures(r)
  IN  IF threw THEN [applied EXCEPT !.run = "infrastructure_error"] ELSE applied

Closed ==
  /\ pc = "closed" /\ at = "idle"
  /\ LET final == AfterClose(heap[result]) IN
       /\ heap' = [heap EXCEPT ![result] = final]
       /\ exit' = ExitCode(final)
       /\ Goto(IF threw \/ final.cases # heap[result].cases THEN "json3" ELSE "finally")
  /\ authoritative' = result
  /\ UNCHANGED <<sessionVars, verdicts, result, trying, delivery>>

-----------------------------------------------------------------------------
(* catch and finally                                                       *)

\* Mutant: the exception is not told in the result that already exists.
QuietFailure(r) == r
Failure(r) == [r EXCEPT !.run = "infrastructure_error"]

CatchAuthoritative ==
  /\ pc = "catch" /\ authoritative # "none"
  /\ heap' = [heap EXCEPT ![authoritative] = Failure(heap[authoritative])]
  /\ exit' = ExitCode(Failure(heap[authoritative])) /\ Goto("catchJson")
  /\ UNCHANGED <<sessionVars, verdicts, result, authoritative, trying, delivery>>

CatchPersist ==
  /\ pc = "catch" /\ authoritative = "none"
  /\ heap' = [heap EXCEPT !.blocked = BlockedResult("executor_error")]
  /\ exit' = 30 /\ Goto("persistJson")
  /\ UNCHANGED <<sessionVars, verdicts, result, authoritative, trying, delivery>>

\* persistManualRequiredResult: everything in it is best effort.
CatchManual ==
  /\ pc = "manual"
  /\ heap' = [heap EXCEPT !.blocked = BlockedResult("manual_required")]
  /\ exit' = 20
  /\ IF session = "open" THEN FinalizeTraces /\ Goto("manualTraces")
     ELSE UNCHANGED sessionVars /\ Goto("manualJson")
  /\ UNCHANGED <<verdicts, result, authoritative, trying, delivery>>

ManualTraces ==
  /\ pc = "manualTraces" /\ at = "idle"
  /\ \/ ~threw /\ heap' = [heap EXCEPT !.blocked = Attached(heap.blocked)]
     \/ UNCHANGED heap
  /\ Goto("manualJson")
  /\ UNCHANGED <<sessionVars, verdicts, result, authoritative, trying, exit, delivery>>

\* Mutant: the session is closed once more only if the delivery did not close it.
CloseOnlyNormally == authoritative = "none" /\ session = "open"
HasSession == session = "open"

Finally ==
  /\ pc = "finally" /\ at = "idle"
  /\ IF HasSession THEN Close \/ CloseAgain ELSE UNCHANGED sessionVars
  /\ Goto("released") /\ UNCHANGED rest

Released ==
  /\ pc = "released" /\ at = "idle"
  /\ IF authoritative = "none" THEN UNCHANGED heap /\ Goto("done")
     ELSE /\ heap' = [heap EXCEPT ![authoritative] = AfterClose(heap[authoritative])]
          /\ Goto("lastJson")
  /\ UNCHANGED <<sessionVars, verdicts, result, authoritative, trying, exit, delivery>>

-----------------------------------------------------------------------------
(* Writing the files.  Where the code goes on, and what it does on failure. *)

Then == [json1 |-> "reports1", reports1 |-> "json2", json2 |-> "reports2",
         reports2 |-> "deliver", json3 |-> "reports3", reports3 |-> "finally",
         catchJson |-> "finally", manualJson |-> "manualReports", manualReports |-> "finally",
         persistJson |-> "persistReports", persistReports |-> "finally", lastJson |-> "done"]
JsonSteps == {"json1", "json2", "json3", "catchJson", "manualJson", "persistJson", "lastJson"}
ReportSteps == DOMAIN Then \ JsonSteps
Delivering == {"json1", "json2", "json3", "reports1", "reports2", "reports3"}
Persisting == {"persistJson", "persistReports"}

Written ==
  heap[IF pc \in Delivering THEN result
       ELSE IF pc \in {"catchJson", "lastJson"} THEN authoritative ELSE "blocked"]

\* persistBlockedResult and persistManualRequiredResult set authoritativeResult
\* in the try block, once they return.
Returning == pc = "manualReports" \/ (pc = "persistReports" /\ trying)

WriteFile ==
  /\ pc \in DOMAIN Then
  /\ json' = IF pc \in JsonSteps THEN Written ELSE json
  /\ reports' = IF pc \in ReportSteps THEN Written ELSE reports
  /\ authoritative' = IF Returning THEN "blocked" ELSE authoritative
  /\ Goto(IF pc = "persistReports" /\ ~trying THEN "done" ELSE Then[pc])
  /\ UNCHANGED <<sessionVars, verdicts, heap, result, trying, exit>>

WriteFails ==
  /\ WritesFail /\ pc \in DOMAIN Then
  /\ IF pc \in JsonSteps THEN json' \in {json, Torn} /\ UNCHANGED reports
     ELSE reports' \in {reports, Torn} /\ UNCHANGED json
  /\ authoritative' = IF pc = "manualReports" THEN "blocked" ELSE authoritative
  /\ exit' = IF pc \in Persisting THEN 50 ELSE exit
  /\ Goto(IF pc \in Delivering THEN "catch"
          ELSE IF pc \in Persisting THEN (IF trying THEN "finally" ELSE "done")
          ELSE Then[pc])
  /\ UNCHANGED <<sessionVars, verdicts, heap, result, trying>>

SessionWorks == SessionStep /\ UNCHANGED <<command, pc, rest>>
Ended == pc = "done" /\ UNCHANGED runVars

CommandNext ==
  \/ Refuse \/ PersistRefusal \/ OpenSession \/ SessionOpened
  \/ BeforeCase \/ CaseCompleted \/ ExecutionThrows \/ ManifestExecuted
  \/ FinalizeResult \/ AttachTraces \/ Deliver \/ Closed
  \/ CatchAuthoritative \/ CatchPersist \/ CatchManual \/ ManualTraces
  \/ Finally \/ Released \/ WriteFile \/ WriteFails \/ SessionWorks \/ Ended

CommandSpec == CommandInit /\ [][CommandNext]_runVars

-----------------------------------------------------------------------------
(* Properties                                                              *)

Done == pc = "done"
Executed == Done /\ exit \in {0, 10}

\* The codes 0 and 10 promise an execution that completed: then the JSON is the
\* result the code was computed from (or its last, best-effort rewrite was
\* interrupted), and the reports show that result (runRunCommand).
ExitCodeMeansDelivered ==
  Executed =>
    /\ heap[result].run = "completed" /\ exit = ExitCode(heap[result])
    /\ json \in {heap[result], Torn} /\ reports = heap[result]

\* A case whose context could not be closed is not passed in the JSON the command
\* leaves behind, unless the file could not be rewritten; and the command does
\* not claim a completed execution (applyBrowserContextCleanupFailures).
DirtyContextNeverPasses ==
  Done /\ FailedCloses # {} =>
    /\ exit \notin {0, 10}
    /\ (authoritative # "none" /\ json = heap[authoritative]) =>
         \A c \in FailedCloses : json.cases[c].status # "passed"

\* However the command ends, its session was closed: no context is left that
\* nobody tried to close (the finally branch).
SessionReleased ==
  Done => /\ session = "open" => closed
          /\ \A k \in DOMAIN contexts : contexts[k] # "open"
          /\ \A k \in DOMAIN records : records[k].status # "open"

\* A result is only called completed if no call of the session ended in an
\* exception, before or after the result was computed, and then the exit code is
\* that of the result (the two places that look at the closing of the session).
CompletedMeansUndisturbed ==
  Done /\ authoritative # "none" /\ heap[authoritative].run = "completed" =>
    ~failed /\ exit = ExitCode(heap[authoritative])

\* A run that claims to be completed is: nothing was disturbed, the code is that of the
\* result, and JSON and reports show it.
CompletedIsTrue == ExitCodeMeansDelivered /\ CompletedMeansUndisturbed

\* What the skill's table of exit codes says: the code is that of the status the
\* run has in run-result.json, which is the only source of the verdict.
ExitCodeIsTheResults ==
  Done /\ exit # 50 /\ json \notin {NoFile, Torn} => exit = ExitCode(json)

\* What acceptance condition 18 of the design says: status and evidence of Excel,
\* HTML and JSON are consistent.  TLC refutes it, so that no run checks it (README, "What the
\* code does not promise").
ReportsMatchResult ==
  Done /\ {json, reports} \cap {NoFile, Torn} = {} =>
    /\ \A c \in DOMAIN json.cases : reports.cases[c].status = json.cases[c].status
    /\ reports.traces = json.traces

\* Not so either: the verdict of a run that says it was executed can be read.  The last write
\* of the finally branch overwrites run-result.json in place, and its failure is swallowed.
VerdictIsReadable == Done /\ exit \in {0, 10} => json # Torn
=============================================================================
