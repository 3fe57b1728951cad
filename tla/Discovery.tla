------------------------------ MODULE Discovery ------------------------------
(***************************************************************************)
(* discover-plan: one process opens a run root, takes every discovery task *)
(* through a BrowserContext of its own, issues a receipt of the page it    *)
(* found, and plans the final manifest while the pages are still open.     *)
(* Then a run of that manifest reads what became of the contexts.          *)
(*                                                                         *)
(* The pages, the approvals, the package and the files below the run root  *)
(* are changed by others at any time, and the session expires.             *)
(*                                                                         *)
(* Abstractions.  A page is what a sample of it is compared by: URL, DOM   *)
(* and accessibility hashes.  A receipt and its artifact carry the same    *)
(* data; a SHA or MAC stands for the content it is taken of.  The receipt  *)
(* of a task has a path of its own, named after the transition case.  A    *)
(* run root serves one session: runtime-session.json is created with wx.   *)
(***************************************************************************)
EXTENDS Integers, FiniteSets

CONSTANTS
  TaskCount,    \* discovery tasks, in the order of the contract
  Pages,        \* what a page may look like
  Approvals,    \* contents that approve a task
  Unapproved,   \* a content that does not: expired, or bound to something else
  Packages,     \* contents the execution package may have
  Given,        \* the one it has when the command begins
  Absent,       \* no file
  MaxChanges    \* how often others change something

ASSUME TaskCountAssumption == TaskCount \in Nat \ {0}
ASSUME GivenAssumption == Given \in Packages
ASSUME UnapprovedAssumption == Unapproved \notin Approvals
ASSUME MaxChangesAssumption == MaxChanges \in Nat

Tasks == 1..TaskCount
Receipt == [task : Tasks, session : {"this", "other"}, page : Pages, approval : Approvals,
            package : Packages]
Status == {"none", "open", "closed", "failed"}

VARIABLES
  page, approval, package,   \* outside: of every task, of every task, the file
  changes, expired,
  artifact, receipt, manifest, contextsFile,   \* below the run root
  pc, task,      \* of discover-plan: its next step, and the task it is about
  loaded,        \* the package: as first read, and as planned
  contexts,      \* the BrowserContext of every task
  record,        \* what the process remembers of it
  draft, issued, \* the receipt being issued; those of the session by path
  path, verified, kept,   \* of the verification, by task
  run,           \* what became of the run of the manifest
  sampled,       \* history: what the session saw and issued
  pagesSeen, approvalsSeen, artifactsSeen   \* history: since the verification began

outside == <<page, approval, package, changes, expired>>
files == <<artifact, receipt, manifest, contextsFile>>
memory == <<loaded, record, draft, issued, path, verified, kept>>
control == <<pc, task>>
sighted == <<pagesSeen, approvalsSeen, artifactsSeen>>
vars == <<outside, files, control, memory, contexts, run, sampled, sighted>>

ForAll(value) == [t \in Tasks |-> value]
At(f, t, value) == [f EXCEPT ![t] = value]

Init ==
  /\ page = ForAll(Absent) /\ approval \in [Tasks -> Approvals] /\ package = Given
  /\ changes = 0 /\ expired = FALSE
  /\ artifact = ForAll(Absent) /\ receipt = ForAll(Absent)
  /\ manifest = Absent /\ contextsFile = Absent
  /\ pc = "start" /\ task = 1 /\ loaded = [read |-> Absent, planned |-> Absent]
  /\ contexts = ForAll("none") /\ record = ForAll("none")
  /\ draft = Absent /\ issued = ForAll(Absent)
  /\ path = ForAll(0) /\ verified = ForAll("none") /\ kept = ForAll(Absent)
  /\ run = "none" /\ sampled = ForAll(Absent)
  /\ pagesSeen = ForAll({}) /\ approvalsSeen = ForAll({}) /\ artifactsSeen = ForAll({})

-----------------------------------------------------------------------------
(* What others do.                                                         *)

\* Nothing reads what they change once the finally branch is reached.
Watched == pc \notin {"close", "contexts", "ended", "crashed"}
Change == Watched /\ changes < MaxChanges /\ changes' = changes + 1

Sight(seen, t, value) ==
  seen' = IF pc = "verify" THEN [seen EXCEPT ![t] = @ \cup {value}] ELSE seen

PageChanges(t) ==
  /\ Change /\ page[t] # Absent /\ page' \in {At(page, t, p) : p \in Pages \ {page[t]}}
  /\ Sight(pagesSeen, t, page'[t])
  /\ UNCHANGED <<approvalsSeen, artifactsSeen, approval, package, expired, files, control,
                 memory, contexts, run, sampled>>

ApprovalChanges(t) ==
  /\ Change
  /\ approval' \in {At(approval, t, a) : a \in (Approvals \cup {Unapproved}) \ {approval[t]}}
  /\ Sight(approvalsSeen, t, approval'[t])
  /\ UNCHANGED <<pagesSeen, artifactsSeen, page, package, expired, files, control,
                 memory, contexts, run, sampled>>

PackageChanges ==
  /\ Change /\ package' \in Packages \ {package}
  /\ UNCHANGED <<page, approval, expired, files, control, memory, contexts, run, sampled, sighted>>

\* What another session issued for the task of the same package.
Foreign(t) == {r \in Receipt : r.task = t /\ r.session = "other" /\ r.package = package}

ArtifactChanges(t) ==
  /\ Change /\ artifact' \in {At(artifact, t, r) : r \in {Absent} \cup Foreign(t)}
  /\ Sight(artifactsSeen, t, artifact'[t])
  /\ UNCHANGED <<pagesSeen, approvalsSeen, page, approval, package, expired, receipt, manifest,
                 contextsFile, control, memory, contexts, run, sampled>>

\* It becomes that of another session, of another task, or one with another page in it.
Edited(t) == IF receipt[t] = Absent THEN {} ELSE {[receipt[t] EXCEPT !.page = p] : p \in Pages}
ReceiptChanges(t) ==
  /\ Change
  /\ receipt' \in {At(receipt, t, r) : r \in {Absent} \cup Foreign(t) \cup Edited(t)
                                             \cup {receipt[u] : u \in Tasks}}
  /\ UNCHANGED <<page, approval, package, expired, artifact, manifest, contextsFile, control,
                 memory, contexts, run, sampled, sighted>>

Expire ==
  /\ Watched /\ expired' = TRUE
  /\ UNCHANGED <<page, approval, package, changes, files, control, memory, contexts, run,
                 sampled, sighted>>

Others ==
  \/ \E t \in Tasks : \/ PageChanges(t) \/ ApprovalChanges(t)
                      \/ ArtifactChanges(t) \/ ReceiptChanges(t)
  \/ PackageChanges \/ Expire

-----------------------------------------------------------------------------
(* discover-plan, one task after the other.                                *)

Step(from, to) == pc = from /\ pc' = to /\ UNCHANGED task
\* Mutant: the contexts are released on the way to a manifest only.
FailWithoutFinally == pc' = "ended" /\ task' = 1
\* An exception: what remains is the finally branch.
Fail == pc' = "close" /\ task' = 1

\* readApproval and requireApprovedTransitionRisks.
Approved(t) == ~expired /\ approval[t] \in Approvals
Quietly == UNCHANGED <<outside, run, sighted>>
QuietStep == Quietly /\ UNCHANGED <<files, memory, contexts, sampled>>

\* The run root is claimed and the browser launched, both outside of the try block.
Start ==
  /\ pc = "start" /\ (pc' = "validate" \/ pc' = "ended") /\ UNCHANGED task
  /\ loaded' = [read |-> package, planned |-> Absent]
  /\ Quietly /\ UNCHANGED <<files, record, draft, issued, path, verified, kept, contexts, sampled>>

Validate ==
  /\ pc = "validate"
  /\ IF Approved(task) THEN Step("validate", "context") ELSE Fail
  /\ QuietStep

NewContext ==
  /\ Step("context", "transition")
  /\ contexts' = At(contexts, task, "open") /\ record' = At(record, task, "open")
  /\ Quietly
  /\ UNCHANGED <<files, loaded, draft, issued, path, verified, kept, sampled>>

\* The transition actions lead to some page, or one of them does not pass.
Transition ==
  /\ Step("transition", "sample")
  /\ page' \in {At(page, task, p) : p \in Pages}
  /\ UNCHANGED <<approval, package, changes, expired, files, memory, contexts, run, sampled, sighted>>

PlaywrightFails ==
  /\ pc \in {"context", "transition", "sample"} /\ Fail
  /\ QuietStep

\* The approval is read anew and the page is sampled.
Sample ==
  /\ pc = "sample"
  /\ IF Approved(task)
     THEN /\ draft' = [task |-> task, session |-> "this", page |-> page[task],
                       approval |-> approval[task], package |-> loaded.read]
          /\ Step("sample", "artifact")
     ELSE Fail /\ UNCHANGED draft
  /\ Quietly
  /\ UNCHANGED <<files, loaded, record, issued, path, verified, kept, contexts, sampled>>

\* Removal is tried, and its failure is ignored.
Removed(f, t) == {At(f, t, Absent), f}

\* createExclusiveContainedFile: a file that exists is not replaced, but removed.
CreateArtifact ==
  /\ Step("artifact", "receipt")
  /\ ~expired /\ artifact[task] = Absent
  /\ artifact' = At(artifact, task, draft)
  /\ Quietly /\ UNCHANGED <<receipt, manifest, contextsFile, memory, contexts, sampled>>

CreateArtifactFails ==
  /\ pc = "artifact" /\ Fail
  /\ artifact' \in {artifact} \cup Removed(artifact, task)
                   \cup {At(artifact, task, draft) : x \in {f \in {artifact} : f[task] = Absent}}
  /\ Quietly /\ UNCHANGED <<receipt, manifest, contextsFile, memory, contexts, sampled>>

CreateReceipt ==
  /\ pc = "receipt" /\ ~expired /\ receipt[task] = Absent
  /\ receipt' = At(receipt, task, draft) /\ issued' = At(issued, task, draft)
  /\ sampled' = At(sampled, task, draft)
  /\ task' = task + 1 /\ pc' = IF task = TaskCount THEN "plan" ELSE "validate"
  /\ draft' = Absent
  /\ Quietly
  /\ UNCHANGED <<artifact, manifest, contextsFile, loaded, record, path, verified, kept, contexts>>

\* Both files are removed, if they can be.
CreateReceiptFails ==
  /\ pc = "receipt" /\ Fail
  /\ receipt' \in Removed(receipt, task)
                  \cup {At(receipt, task, draft) : x \in {f \in {receipt} : f[task] = Absent}}
  /\ artifact' \in Removed(artifact, task)
  /\ Quietly /\ UNCHANGED <<manifest, contextsFile, memory, contexts, sampled>>

-----------------------------------------------------------------------------
(* The plan: every required task has one receipt, and each is verified.    *)

\* validateReceiptTaskQuorum: one receipt for every task, wherever it lies.
QuorumPaths ==
  {f \in [Tasks -> Tasks] : \A t \in Tasks : receipt[f[t]] # Absent /\ receipt[f[t]].task = t}

Quorum ==
  /\ pc = "plan" /\ UNCHANGED <<files, record, draft, issued, kept, contexts, run, sampled, outside>>
  /\ loaded' = [read |-> loaded.read, planned |-> package]
  /\ IF /\ ~expired
        /\ \A t \in Tasks : receipt[t] # Absent /\ receipt[t].package = package
        /\ QuorumPaths # {}
     THEN /\ path' \in QuorumPaths
          /\ verified' = ForAll("receipt") /\ pc' = "verify" /\ UNCHANGED task
          /\ pagesSeen' = [t \in Tasks |-> {page[t]}]
          /\ approvalsSeen' = [t \in Tasks |-> {approval[t]}]
          /\ artifactsSeen' = [t \in Tasks |-> {artifact[t]}]
     ELSE Fail /\ UNCHANGED <<path, verified, sighted>>

\* Mutant: a well-formed receipt of the task and the package will do.
LooksIssued(t, r) == r.task = t /\ r.package = loaded.planned
IsIssued(t, r) == r = issued[path[t]] /\ r.task = t /\ r.package = loaded.planned

\* The verifications of the tasks are interleaved; the first that fails ends all.
Verifying(t, at) == pc = "verify" /\ verified[t] = at
Verified(t, condition, next) ==
  /\ IF condition THEN verified' = At(verified, t, next) /\ UNCHANGED control
                  ELSE Fail /\ UNCHANGED verified
  /\ Quietly
  /\ UNCHANGED <<files, loaded, record, draft, issued, path, contexts, sampled>>

VerifyReceipt(t) ==
  /\ Verifying(t, "receipt")
  /\ LET r == receipt[path[t]]
     IN /\ Verified(t, ~expired /\ r # Absent /\ IsIssued(t, r), "approval")
        /\ kept' = At(kept, t, r)

VerifyApproval(t) ==
  /\ Verifying(t, "approval")
  /\ Verified(t, approval[t] = kept[t].approval, "artifact") /\ UNCHANGED kept

VerifyArtifact(t) ==
  /\ Verifying(t, "artifact")
  /\ Verified(t, artifact[t] = kept[t], "page") /\ UNCHANGED kept

\* Mutant: the live page is not looked at.
AnyPage(t) == TRUE
LivePageUnchanged(t) == page[t] = kept[t].page

VerifyLivePage(t) ==
  /\ Verifying(t, "page")
  /\ Verified(t, LivePageUnchanged(t) /\ ~expired, "done") /\ UNCHANGED kept

\* The manifest is compiled, written last, and the command returns through finally.
WriteManifest ==
  /\ pc = "verify" /\ \A t \in Tasks : verified[t] = "done"
  /\ manifest' \in {Absent, [receipts |-> kept, package |-> loaded.planned]}
  /\ pc' = "close" /\ task' = 1
  /\ Quietly /\ UNCHANGED <<artifact, receipt, contextsFile, memory, contexts, sampled>>

-----------------------------------------------------------------------------
(* finally                                                                 *)

\* Mutant: a context whose closing failed is recorded as closed.
RecordedAlways(ok) == "closed"
Recorded(ok) == IF ok THEN "closed" ELSE "failed"

Closing == pc = "close" /\ task \in Tasks /\ record[task] # "none"

\* Nothing but the records of the contexts is read from here on.
Forget ==
  /\ loaded' = [read |-> Absent, planned |-> Absent] /\ draft' = Absent
  /\ issued' = ForAll(Absent) /\ path' = ForAll(0)
  /\ verified' = ForAll("none") /\ kept' = ForAll(Absent)

CloseContext ==
  /\ Closing
  /\ \E ok \in BOOLEAN :
       /\ record' = At(record, task, Recorded(ok))
       /\ contexts' = IF ok THEN At(contexts, task, "closed") ELSE contexts
  /\ task' = task + 1 /\ UNCHANGED pc
  /\ Forget /\ Quietly /\ UNCHANGED <<files, sampled>>

\* Closing the browser closes what is still open in it.
CloseBrowser ==
  /\ pc = "close" /\ ~Closing /\ pc' = "contexts" /\ UNCHANGED task
  /\ contexts' \in {contexts, [t \in Tasks |-> IF contexts[t] = "open" THEN "closed" ELSE contexts[t]]}
  /\ Forget /\ Quietly /\ UNCHANGED <<record, files, sampled>>

WriteContexts ==
  /\ Step("contexts", "ended")
  /\ contextsFile' \in {Absent, record} /\ record' = ForAll("none")
  /\ Forget /\ Quietly /\ UNCHANGED <<artifact, receipt, manifest, contexts, sampled>>

\* The process dies; the browser may outlive it.
Crash ==
  /\ pc \notin {"ended", "crashed"} /\ pc' = "crashed" /\ UNCHANGED task
  /\ record' = ForAll("none") /\ Forget
  /\ Quietly /\ UNCHANGED <<files, contexts, sampled>>

-----------------------------------------------------------------------------
(* The run of the manifest: readDiscoveryContextRecords.                   *)

Run ==
  /\ manifest # Absent /\ run # "started"
  /\ run' = IF contextsFile # Absent /\ \A t \in Tasks : contextsFile[t] = "closed"
            THEN "started" ELSE "refused"
  /\ UNCHANGED <<outside, files, control, memory, contexts, sampled, sighted>>

Command ==
  \/ Start \/ Validate \/ NewContext \/ Transition \/ PlaywrightFails \/ Sample
  \/ CreateArtifact \/ CreateArtifactFails \/ CreateReceipt \/ CreateReceiptFails
  \/ Quorum \/ WriteManifest \/ CloseContext \/ CloseBrowser \/ WriteContexts
  \/ \E t \in Tasks : \/ VerifyReceipt(t) \/ VerifyApproval(t)
                      \/ VerifyArtifact(t) \/ VerifyLivePage(t)

Next == Command \/ Others \/ Crash \/ Run

Spec == Init /\ [][Next]_vars

\* Every await of the command ends: Playwright has timeouts, files answer.
FairSpec == Spec /\ WF_vars(Command)

-----------------------------------------------------------------------------
(* Properties                                                              *)

\* Every variable has its type; a task is worked on only while it is one.
TypeOK ==
  /\ page \in [Tasks -> Pages \cup {Absent}] /\ approval \in [Tasks -> Approvals \cup {Unapproved}]
  /\ package \in Packages /\ changes \in 0..MaxChanges /\ expired \in BOOLEAN
  /\ artifact \in [Tasks -> Receipt \cup {Absent}] /\ receipt \in [Tasks -> Receipt \cup {Absent}]
  /\ manifest \in {Absent} \cup [receipts : [Tasks -> Receipt], package : Packages]
  /\ contextsFile \in {Absent} \cup [Tasks -> Status]
  /\ pc \in {"start", "validate", "context", "transition", "sample", "artifact", "receipt",
             "plan", "verify", "close", "contexts", "ended", "crashed"}
  /\ task \in 1..TaskCount + 1
  /\ pc \in {"validate", "context", "transition", "sample", "artifact", "receipt"} => task \in Tasks
  /\ contexts \in [Tasks -> {"none", "open", "closed"}] /\ record \in [Tasks -> Status]
  /\ draft \in Receipt \cup {Absent} /\ issued \in [Tasks -> Receipt \cup {Absent}]
  /\ path \in [Tasks -> Tasks \cup {0}] /\ kept \in [Tasks -> Receipt \cup {Absent}]
  /\ verified \in [Tasks -> {"none", "receipt", "approval", "artifact", "page", "done"}]
  /\ run \in {"none", "refused", "started"}

\* A final manifest names, for every required task, the very receipt that this
\* session issued for what it saw on that task's page, whatever lies on disk.
ManifestIsDiscovered ==
  manifest # Absent => \A t \in Tasks : manifest.receipts[t] = sampled[t]

\* Everything a receipt of the final manifest says was still so at some time after
\* the verification began: page, approval, artifact, and the package it plans.
ManifestWasCurrent ==
  manifest # Absent =>
    \A t \in Tasks : LET r == manifest.receipts[t]
                     IN /\ r.page \in pagesSeen[t] /\ r.approval \in approvalsSeen[t]
                        /\ r \in artifactsSeen[t] /\ r.package = manifest.package

\* No run of the manifest starts while a BrowserContext of its discovery is alive, or
\* was not seen to be closed (discover-plan's finally, readDiscoveryContextRecords).
RunNeedsClosedContexts == run = "started" => contexts = ForAll("closed")

\* Whatever fails, every context that was opened is closed or recorded as failed,
\* unless the process dies (the finally branch of runDiscoverPlanCommand).
EveryContextIsReleased == \A t \in Tasks : record[t] = "open" ~> record[t] # "open"
=============================================================================
