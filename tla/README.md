# Verification of the testing runner, its preparation, release and installer

TLA+ models of the parts of this repository whose mistakes tests hardly reach, TLC
configurations that check them on small instances, and TLAPS proofs of the results
that matter most.  `PROJECT.json` lists every component of the system with what is
modelled of it, maps every definition to the lines it stands for, lists the hazards
of the code with the properties that guard against them, and names for every property
a mutation of the code that breaks it.

## The system

The repository ships thirteen Skills.  The largest program is the testing runner
(`packages/testing-runner`) with the compiler of its contracts
(`packages/testing-contract-compiler`) and the Windows bundle in which the runner is
built, released and installed (`scripts/`).  The Skill *js-test-mapper* has a runtime
of its own (`runtimes/js-test-mapper-runtime`).  The other Skills are instructions with
scripts that analyse or render files.  `skills/`, `plugins/` and the `dist/` directories
are generated copies.

| Component | State it keeps | Operations | Talks to |
|---|---|---|---|
| Contract compiler | none; a package as its output | inspect, order, compile, validate, load | plan reads the package |
| Input of plan | proposal, confirmed mapping | detect, read, propose, confirm, apply | users, plan |
| Readiness | none | assess, offer examples | plan, the preparation guide |
| plan, approve | profile, manifest, approval files | plan (profile, then manifest), approve | run reads them |
| discover-plan | run root, session, receipts, artifacts, BrowserContexts, manifest, context records | a task: validate, context, transition, sample, receipt; quorum and verification; finally | Playwright, plan, run |
| run | result objects, run-result.json, reports, exit code | preflight, execute, attach traces, deliver, catch, finally | orchestrator, browser session |
| Run orchestrator | results, contamination, evidence, journal, defects | gates, steps with one retry, cleanup, end of case and run | action registry, evidence store |
| Browser session | browser, contexts, records, traces, blocked requests | open, prepareCase, finalizeTrace(s), close, route handler | Playwright |
| Build of bundles | archive, bundle directory, rendered assets | package, build, sums, smoke, render | runtime lock, downloads |
| Smoke test | diagnostics directory | inventory, run, compare reports, result | the bundled runner |
| Release | draft and public releases | discover, prepare, download, publish, verify-public | GitHub, maintainers |
| Bundle installer | mutex, staged and activated runtimes, Skill, receipt | lock, check, fetch, smoke, swap, commit, roll back | launcher, other installs |
| Launcher | none | read the receipt, verify, start the runner | what is installed |
| Mapper: collector | assets, bodies, facts, run-data | open, listen, navigate, import, source maps, compare, write | the target, the run before |
| Mapper: chains | relations, one chain | focus, L2, guards, recovery, calls, responses | collector's assets |
| Mapper: history | lineage, batches, files, documents | integrate a scan, finalize | users who write the cognition |
| Reports, progress, redaction, adapters, multi-source audit, workbench scripts | mostly none | projections of files | users |

What makes them correct, and hard:

* **Preparation.** What is planned is what the user confirmed and was shown; a package leaves
  out no case of the workbook it stands for; what the guide offers is enough.  Hard: a command reads its files more than
  once while users and commands write them; preview and plan normalize in different code.
* **plan, approve, run.** What is executed is what was approved.  Hard: four files read
  at four moments, while other commands write them.
* **discover-plan.** A final manifest stands for what this session saw, and still held
  when it was planned.  Hard: interleaved verifications of pages that stay alive,
  expiry, files that others write, a finally branch after the manifest.
* **Orchestrator.** A passed case executed all it declares and an assertion; a verdict comes
  from business outcomes and never from cleanup; what a case leaves behind stops every
  later case that shares a resource.  Hard: one loop with many ways out of an
  iteration, exceptions at each await, retries, and reruns into the same directory.
* **Browser session.** A context is shared only by cases that may share it, every context
  has a trace, everything is closed whatever rejects.  Hard: memoized promises, fields
  that are read after awaits, a route handler that runs between any two of them.
* **run.** The exit code, the JSON and the reports speak of the same result.  Hard: three
  endings in a catch branch, a finally branch that changes the result once more, and
  objects that branches share.
* **Build and release.** What is published is what was built and locked, byte for byte, and
  once.  Hard: tools that stop between two of their files, requests that fail after they
  took effect, commands that run again, maintainers who change a draft.
* **Installer and launcher.** Failures restore, success is true, what runs stays.  Hard:
  a swap of two renames, cancellation that skips catch blocks, roll-backs that fail
  silently, a lock of one root and a receipt of all roots.
* **JS test mapper.** It goes where read-only links lead and tells what it left out; its facts
  are of the scripts as they are; its history is what happened.  Hard: response handlers that run while the collector goes on, a
  comparison with the run before, a history rebuilt from batches, files written one by one.

## Modules

| Module | Models | Run |
|---|---|---|
| `RunOrchestrator` | `runtime/run-orchestrator.ts` with retry-policy, evidence-store, event-writer and action-registry | orchestrator |
| `CaseVerdicts` | what a run promises to its reader; `RunOrchestrator` implements it | orchestrator |
| `BrowserSession` | `runtime/browser-session.ts` | session |
| `RunCommand` | `commands/run.ts`; EXTENDS `BrowserSession`, whose steps are the steps of its calls | run, exit_code |
| `ApprovalGate` | plan, approve and the preflight of run | approval |
| `Discovery` | `commands/discover-plan.ts`, `security/discovery-receipt.ts` and the check of context records by run | discovery |
| `FieldMapping` | kinds of input, the readers, proposal and application of a mapping | preparation |
| `ContractPackage` | inspection, order and locks of cases, packing and validation; EXTENDS `FieldMapping` | preparation |
| `Readiness` | `readiness.ts` | preparation |
| `Preparation` | the compiler and plan as processes, the user, the guide; composes the three above | preparation |
| `WindowsBundle` | package-release, build-windows-bundle and the smoke test | release |
| `WindowsInstallers` | render-windows-installers; EXTENDS `WindowsBundle` | release |
| `ReleaseDraft` | `release-draft-lifecycle.mjs` | release |
| `Release` | the hand-over from the rendered output to the release; composes the three above | release |
| `BundleInstaller` | `install-web-api-test-execution-evidence.ps1` and `installed-runtime-lib.mjs` | installer |
| `AssetScan` | the collector with its guard, navigation, imports, source maps and comparison | scan |
| `ChainRecovery` | `stage3-analysis.mjs` | chains |
| `AssetHistory` | stages 4 and 5 and `bin/finalize.mjs` | history |

`MC...` modules hold the small values of the constants.  `...Proofs` hold the theorems of the
component they are named for; `InstallerProofs` those of `BundleInstaller`,
`RunCommandProofs` those of `BrowserSession` too, whose steps are steps of the command, and of
`ApprovalGate`, its preflight, `AssetHistoryProofs` those of `ChainRecovery` too, which precedes
it in a scan, and `PreparationProofs` those about the modules it composes.

**RunOrchestrator.**  Variables are those of `runApprovedManifest` (results, defects,
contamination, the attempt and action of the loop), the disk and the index of the
evidence store, and the journal's counter.  There is one action per branch: the three
gates, an execution step by outcome (passed, pending, failed, retried, not executed),
a cleanup step by outcome, the ends of a case and of the run.  `Throw` is an exception
at any await, or the death of the process, with the files that were written by then;
`Rerun` runs the same manifest again into the same directory.  An outcome is what the
loop can tell apart.  No adapter of the registry emits a retryable error kind at this
commit, so the retry is modelled for the interface, as the loop and its tests do.

**BrowserSession.**  A call is a chain of awaits, and each await is an action that may
end in an exception.  `BlockRequest` is the route handler and may run whenever a
context lives.  Only one call is in progress at a time, as in `commands/run.ts`.

**RunCommand.**  Results live on a heap because `attachTraceEvidence` makes a new object
while the catch branch keeps the old one.  The steps of a session call are those of
`BrowserSession`.  Verdicts of cases are chosen freely: `RunOrchestrator` has their detail.

**ApprovalGate.**  A hash stands for what it is taken of.  Users edit files, plan and approve
between any two reads of a run; `plan` itself stops between its two writes.

**Discovery.**  A page is what a sample of it is compared by.  The environment changes
pages, approvals, the package, artifacts and receipts at any time; `MaxChanges` bounds how
often.  History variables record what the session saw, and what it could have seen
since the verification began.

**Preparation.**  A workbook is sheets of rows of texts, and a text is a sequence of tokens:
what the code asks of it (blank, merged, the mark of a title row, a secret) is a token.  The
compiler and the plan are processes with a step per file they read or write (the plan reads
the profile first, then the package twice); the user
writes the workbook, confirms a proposal and writes a profile in between, and any command
may stop.  The guide is a process of its own: a user who starts from some readiness input
and pastes what the assessment offers, one example at a time.

**Release.**  Every tool of the build has a step per file it writes and may be stopped at
each; the sources and the runtime lock change between tools; a download may be wrong.
Render leaves its output only by a rename.  The smoke test is two processes: the Runner writes
its reports one by one over those of earlier runs and ends with a code, then the reports are
compared.  `Trust` hands the output over, and from then on
the draft lifecycle runs on machines that share nothing but the service: each request fails
before or after it takes effect, a failed command is run again by the workflow, and a
maintainer changes, publishes or deletes releases.  verify-public writes its assets one by one.
That a maintainer has changed a release is kept as history (`byHand`), for the properties
that speak of what the commands do alone.

**BundleInstaller.**  A process per install, all interleaved.  Download, extraction
and payload verification are one step that leaves something whole or throws, because
what they leave is verified against a pinned hash before it is used.  `Throw` is an exception
in the swap, answered by the roll-back; `Cancel` is Ctrl-C, which skips catch blocks and
runs finally blocks; `Crash` abandons the mutex.  A roll-back step may fail silently.
`Damage` changes what was installed before.

**AssetScan.**  The collector is one chain of steps; a response handler begins when a response
arrives (`ResponseArrives`) and ends whenever its body has been read (`HandleResponse`), after
any number of the collector's steps.  The target is a site: what its pages declare, load and
link to, and what its scripts contain; it changes between scans, and a scan may take the file
of the one before.  Launch, context and page are three awaits, of which only the third step
enters the `try`.  Navigation follows the queue: links of a page, with pagination counted per
list, and links of its tabs, where it is not; a redirect lands on another page, or host.  A
click is taken to hit the element that was classified.

**ChainRecovery.**  A function is the sequence of its top-level statements, with the calls of
their blocks; a chain is nodes and edges, added in the order of the code.  A node is its type and
its place, as the code's ids are, and post-processing, which is made with start 0, its type and
its text: one callee in two blocks is one node.

**AssetHistory.**  A lineage is entities with display ids and revisions, and the batches they
were built from.  Scan and finalize write their files one by one (`WriteFile`) and may stop
before each.

## Runs

TLC finishes every passing run within four minutes with two workers.

| Run | Instance | Shows |
|---|---|---|
| orchestrator | isolation: 24 manifests of three cases over two resources; verdicts: every gate, kind of action and outcome in manifests of two and three cases, dependencies on earlier and later cases; retries; one manifest run twice into one directory | contamination is respected, each cleanup step runs exactly once, results tell what happened, evidence is a run's own, the first failure of a retried case is kept, and the loop implements `CaseVerdicts` |
| session | every pair of isolation policies before a third case, the smoke policy on, any await rejecting | contexts are shared only by related cases, none is forgotten, and a session that never threw has traced and reported everything |
| run | three plans of two cases, three verdicts, any await or write failing or tearing | exit codes 0 and 10 mean completed and delivered, a context that was not closed takes passes back, the session is released |
| exit_code | as run | *violation*, see below |
| approval | two actions, two packages, two addresses per target, four edits, two ticks of the clock | what runs, and on which origins, is what was approved |
| discovery | two tasks, two pages, two packages, two changes by others, expiry, crash | manifest, receipts and contexts; every context is released (liveness) |
| preparation | eight workbooks, four commands, edits or confirmations; overrides of three cases that want one lock; the guide from 192 starting points | what is planned of a mapped workbook was confirmed and previewed, a package leaves out no case, locks are ordered, and the examples suffice (liveness) |
| release | two architectures, two versions, three tools, two changes of the sources, five commands, one change by hand | installers lead to the bundles, a smoke result names the reports of its own run, one release, what becomes public is complete and trusted, verified byte for byte |
| installer | three installs of two bundles below two roots with one state root, two faults, the launcher | the receipt is earned and what the launcher read stays, failures restore, no Skill is lost |
| scan | three scripts, six pages, five sites, four pages visited, one page per list, two scans | navigation tells what it left out, completed means complete, run-data is true, the browser is closed (liveness) |
| chains | every function of up to three of fourteen statements under four names, every script | a chain tells the way of its function, and what follows on each outcome |
| history | three identities, four findings, three scans, a stop before any file | histories are replayed and told, and finalize delivers one run |

A property that is a conjunction of named parts (`ResultsAreHonest`, `NoContextIsForgotten`,
`QuietMeansComplete`, `CompletedIsTrue`, `NavigationIsTold`, `RunDataIsTrue`, `ChainIsTheWay`,
`OutcomesAreTold`, `HistoryIsTold`) is one promise to one reader; the comment of each part says what it is about.

**Why the bounds are enough.**  Contamination needs a case that fails its cleanup, one that
shares a resource with it and one that does not: three cases, two resources.  One retry
is all the code allows.  Three cases are the least in which a context is left, re-used
and left again.  A run's reads of approval and profile can each be overtaken once by
an edit, a plan and an approval: four edits.  Two tasks interleave their verifications;
one change makes a receipt stale and another one hides it: two changes.  A plan that
proposes, a confirmation, an edit and a second plan, whose readings the edit may fall
between, are four commands; so are a workbook that changes between the two readings of a
compilation, and the plan of what was packed.  Three holders of a lock are the least where not every pair is
compared.  An archive made of one revision, a bundle of another and a smoke or render of both
are three tools and two changes; two smoke tests
are enough for reports of an earlier run; a prepare that fails after its upload, is run again, and the
three commands after it are five.  A faulty roll-back needs an exception and a failure of the
roll-back: two faults; and three installs are an installation, an update and a neighbour or
a repair.  Two scans make one comparison; three make an entity that is seen, lost and
seen again.  Five pages and tabs can be reached and four may be visited, and a list links to one
page more than the sample takes: both limits are met.  Three statements are a guard, a call and what follows it.  Model values are
interchangeable only where no CHOOSE and no order looks at them; SYMMETRY is used in
`approval` and `installer`, never with liveness.

**Deadlock** is checked for `RunCommand`, where the command must come to an end.  The
other systems do stop: a loop that has finished, a session that is closed, edits, changes,
scans, commands and installs that are used up.

**Fairness** is weak, and assumed of the program's own steps only, where it is stated at all:
of the command in `Discovery` and of the collector and of handlers that have begun to read
a body in `AssetScan`, as every await of them is a Playwright call with a timeout or a file
operation; and in `Preparation` of a user who is offered an example and goes on, without which
*suffices* means nothing.  Nothing is assumed of other users, of targets, of expiry, of
crashes, or of anything in the other modules: their properties are safety properties.

## What the code does not promise

One run checks what a document of the repository says, and TLC finds the behaviour of the
code that differs; `PROJECT.json` quotes the lines.

* **exit_code**: the command returns 30 for a run whose run-result.json says
  infrastructure_error, when the session cannot be closed after an execution error.

Further statements that documents make, or on which a reader of the output would rely, are
written down beside the model that refutes them and are checked by no run; TLC finds a
counterexample of each when it is added as an invariant (or property) to the configuration
of the run named.

* `JournalMonotonic` (orchestrator): sequence numbers in run-events.jsonl start again at 1 when
  a manifest is run again into the same directory.
* `ReportsMatchResult` (run): when the delivery page or the completion pause throws, the JSON is
  overwritten by the object from before the traces were attached, and no longer agrees with
  the reports.
* `VerdictIsReadable` (run): the last write of run-result.json is in place and its failure is
  swallowed, so that exit code 0 may stand beside a torn file.
* `TargetChangeRefused` (approval): a database target, or a swap of two origins, is not
  noticed when the profile changes after the approval.
* `ExistingStaysUsable` (installer): an update that is cancelled or dies between the two
  renames leaves no Skill in place; nothing moves the retained one back.
* `FormalCasesOnly` (preparation): the title row of a module becomes a case of the contract,
  which the runner's readers leave out.
* `ContractIsOfItsSource` (preparation): the workbook is inspected, then read again and packed;
  when it is written in between, validation compares ids, sheets and rows, and finds nothing.
* `PlanTellsOfOnePackage` (preparation): a plan validates a package, then reads the file again
  without validating it; the manifest has the source of the first and the cases of the second.
* `OnlyReadyIsPlanned` (preparation, with five commands): the second may have unresolved items.
  The Skill lets no NOT_READY package into discovery or Runner.
* `PublishesWhatItValidated` (release): a maintainer changes the draft between the validation and
  the request that publishes it.  The command fails, and the release is public.
* `ResultIsOfTheReports` (release): a smoke test that is stopped has replaced reports beside the
  result of the one before, which still says ok.
* `EveryBrowserIsClosed` (scan): newContext and newPage are awaited before the `try`; their
  rejection leaves the browser open.
* `ListsAreSampled` (scan): pagination links that are found in a tab are queued without being
  counted, although the result says max_two_representative_pages_per_list.
* `OutcomesAreSeparate` (chains): the same callee in both blocks of a response condition is one
  node, which follows both outcomes.

What a property assumes is part of it.  `FormalCasesArePlanned` speaks of packages that nobody
replaced between the two readings of the plan, `PublicIsTrusted` of releases that no maintainer
has changed.  `OutcomesAreTold` keeps two outcomes of a response condition apart only when
no text of it stands in two blocks; and it and the guards of `ChainIsTheWay` speak of functions whose API calls stand outside of branches (`ApisOutsideBranches`), because
stage 3 places all API calls of a function in a row, those inside a branch too.

## Proofs

All theorems hold for every value of the constants under the named assumptions of the
modules, which state the types of the constants and nothing else.  Each module proves an
invariant that is inductive (`IInv` or the name given below), checked by TLC first, and
derives the properties of the runs from it.

`RunOrchestratorProofs`:

* `TypeCorrect`: `[]TypeOK`.  Lemmas give the types of the helpers (stored evidence, merged
  field status, pushed results); then there is one lemma for each group of actions.
* `ContaminationIsRespected`, for any number of cases, resources and cleanup steps.  The
  property speaks of two cases that are both finished and is not inductive.  `ContaminationInv`
  adds that nothing was performed for cases ahead (`NothingAhead`), that a failed cleanup step
  has contaminated its resources or the environment (`CleanupRemembered`), and that the case
  at hand was entered with its locks clean (`CaseIsolated`).
* `EvidenceIsAuthentic`: what the case at hand has collected is among the files it has written
  and indexed itself (`EvidenceInv`).
* `KeepsItsPromise`: the loop implements `CaseVerdicts`.  A step that finishes or blocks a case
  is a verdict, a failed cleanup step leaves something behind, a rerun starts again, and
  every other step changes nothing the reader sees.  `RefinementInv` says what the mapping
  needs: nothing was performed of the next case between two cases (`BetweenCases`), only
  cleanup soils and a soiled case has lost its pass (`SoiledIsSeen`), and a case at work could
  still be let in unless it has itself soiled something (`Admitted`).
* `ResultsHonest`, `CleanedUpExactlyOnce` and `RetriesAreShown`, from
  `HonestInv == TypeOK /\ NothingAhead /\ CaseInv /\ AllTold /\ DependenciesPassed`.  The properties
  speak of results, which say nothing of the steps they came from; `CaseInv` follows the case
  at hand instead: all that was performed up to the step at hand has passed (`StepsFollow`), the
  second attempt came after a retryable failure of the first (`AttemptsFollow`), cleanup runs
  after a verdict that is decided, once for each step (`CleanupFollows`), and a field is shown
  as what its steps came to (`FieldsFollow`).  A result is told (`AllTold`) when it is pushed;
  `ResultsKept` then says once for all actions that pushed results stay and that nothing more
  is performed of their cases.  `DefectsInv` does the same for the defects, whose evidence is
  that of a case reported as failed, or of the case at hand, which will be.

`RunCommandProofs`, for any manifest, any order of calls and any await that rejects:

* `ContextsAreReleased`, `ContextsAreIsolated` and `SilenceIsComplete`, the properties of the run
  `session`.  `Awaits` says which call may wait where; `ContextsFollow` and `RecordsFollow`, that
  only the active context and the records of its id may be open, and none before another
  is created or once close is past its attempt; `Homes`, that who lives in the context at
  hand has its scope and group; `Quiet`, what holds while nothing was thrown: one trace per
  context in the directory of a case that ran in it, and no request blocked before it.
* `SessionIsReleased`, `CompletedIsDelivered` and `DirtyContextsAreTold`, the properties of the run
  `run`.  Every step of the command is a step of its session or leaves it alone, so that the
  session's invariant is part of the command's, `RunInv`.  The rest follows two questions
  through the try, catch and finally of `commands/run.ts`: what has the session thrown that
  is not yet met (`SessionHandled`, `ExceptionsAreMet`), and which object is where: on the heap,
  authoritative, in the files (`Shown`).  Every ending is one of two, `Delivered` or `Disturbed`
  (`Endings`); that a context could not be closed is in the authoritative result before the
  last write (`DirtyTold`).
* `WhatRunsWasApproved`, the property of the run `approval`, for any packages, actions, targets and edits.  What `ReadApproval` has verified is kept for the
  objects that were read, not for the files (`LoadedVerified`), the package was seen since the
  start (`PackageSeen`, `LoadedSeen`), and the start is before now (`Clocks`).

`PreparationProofs`, for any workbooks, mappings, drafts, guides and number of commands; that a
workbook is sheets of lists, and its format one of three, is assumed (`ContentsAssumption`):

* `CasesAreConfirmed` and `FormalCasesPlanned`.  The properties speak of the manifest on disk, which a
  plan writes last, steps after its readings; `PrepInv` therefore says of every manifest, on
  disk or still to be written (`Pending`), what it rests on (`Founded`): a confirmed proposal
  and the cases it makes (`Mapped`), or the cases of the package it records and a source
  that was validated (`Packaged`).  That a valid package leaves out no case is a fact about two
  readers: what the Runner's finds in a sheet, case by case, the compiler's finds too, and
  `SourceMatches` compares the contract with what the compiler's finds in the packed workbook.
  An approval is of a confirmed proposal (`Approved`), and the user's further confirmations
  take nothing away (`FoundedStays`).
* `LocksOrder`.  The compiler compares each holder of a lock with the last one before it; the
  property is about any two.  `HoldersChain` walks back from holder to holder: in every set of
  cases closed under dependencies, the earliest holder that is in it is the first of the two.
  `Compiled` says that what the compiler holds, copies and leaves behind was accepted.
* `PreviewsRun`.  The preview computes each field by the last rule that has it, the plan applies
  rule by rule.  `FilledMakes` shows that both come to the same, for any rules that set one
  field or split the two (`Sound`), which the proposed rules are (`RulesSound`); the rest is
  about lists that are filtered (`Kept`) and put one after the other (`FlattenElements`).

`DiscoveryProofs`, for any number of tasks, pages, approvals and changes:

* `TypeCorrect`, and from one inductive invariant
  `IInv == TypeOK /\ MemoryOK /\ RecordsTruthful /\ ReceiptsIssued /\ StagesSighted`
* `ManifestsAreDiscovered`: an issued receipt is what was sampled (`ReceiptsIssued`), and a
  verification only passes for an issued one;
* `ManifestsWereCurrent`: each stage a verification has passed was true of something seen since it
  began (`StagesSighted`);
* `RunsNeedClosedContexts`: a record, in memory or on disk, says closed only of a closed context
  (`RecordsTruthful`).

`InstallerProofs`, for any number of installs, roots, bundles and faults: `TypeCorrect`
and every invariant of the run `installer`, from
`IInv == TypeOK /\ OneInstallPerRoot /\ NotBegun /\ Standing /\ Earned`.  The properties
speak of an install that has ended its work or is being undone; `Standing` says for every
stage in between where the old Skill is (`Untouched` or `Aside`), what is activated
(`Staged`) and what the branch makes of the ending (`Ends`).  That the other installs
disturb none of it is `Apart`: two installs at work have two roots, by `OneInstallPerRoot`.
`Earned` says that an install a receipt names is past the commit, for the receipt on disk
and for the one the launcher has read.

* `OneInstallHoldsARoot`, `FailuresRestore`, `SuccessIsInstalled`, `PreviousSkillSurvives`
  follow stage by stage from `Standing`;
* `ReceiptsAreEarned` follows from `Earned`.

`ReleaseProofs`, of the composed specification `Release!Spec`:

* `OneRelease`, `PublicIsFounded` and `VerifiesEveryAsset`, for any assets, failing requests,
  restarts and changes by hand.  `AtMostOne` says that there is one release and none while a
  prepare is about to make it; `ReleasesFounded`, that a release nobody has touched holds
  nothing but uploaded assets, and all of them when it is public; `JobFounded`, that it stays so
  between the requests of a command; `VerifiedSoFar`, that what is verified so far is trusted and
  makes, with what is left, all; `TrustedFirst`, that no command runs before there are
  trusted assets.
* `InstallersLead` and `SmokeTellsTheTruth`, for any tools that are stopped and run again while
  the sources and the lock change.  `BundleInv` follows a part from the lock to the
  installer: the lock names the expected version of every part it pins (`LockPinned`), what is
  staged is what was locked (`Fetched`), so is every archive of the directory (`DirHolds`), and
  what render has staged can be installed (`Installable`).  It holds of archives that no
  companion file describes any more, too: a tool that stops leaves true pieces.  `RunnerHolds`
  follows the smoke test: what its Runner has written is of its run, however far it came, so
  that reports that agree are not those of an earlier run.

`AssetScanProofs`, for any site with finitely many scripts, and finitely many links on a page
(`SitesAssumption`), any order of responses and any number of scans that build on each other:

* `ScanInvariant`: `ScanInv`, the conjunction of the parts named below, is inductive.
* `NavigationTells`.  `NavigationTrue` follows every link from the page or tab that shows it
  (`Shown`, `TabRead`) to the queue, the visited pages or the records of what was skipped
  (`Placed`), and remembers where each known page was found (`Known`); a queue that is left
  over means that the limit was recorded.
* `CompletedRunsAreComplete`: as long as nothing has failed, what was imported is there or still
  to come, and so is every source map (`ImportsTold`); a refusal is a degradation
  (`BlockedTold`).
* `RunTellsTheTruth`.  The facts taken over from the run before are true because their hash
  is that of the script as it is now (`HashesTrue`, `UnchangedTrue`) and because that run was
  honest itself (`RunsHonest`): its facts are of the content whose hash it records.  A chain of
  scans is thereby followed one link at a time.  That each duplicate names a
  representative that is none itself (`Represented`) needs the least element of a finite set.

`AssetHistoryProofs`, for any findings and any number of scans; identities are a sequence
without duplicates (`IdentitiesAssumption`), as they are made of sorted keys:

* `DeliversOneRun`.  `Ordered` puts the runs of the files in the order in which a scan writes
  them; `Synced` says that the lineage is that of run-data once the last file is of its run;
  `Working`, what each file holds when the i-th of a command is about to be written.
* `HistoriesReplay` and `HistoriesAreTold`, from `HistoryInv`, which says of every lineage, in a
  file or on its way to one, that it is `Good`: it rebuilds itself from its batches, the display
  ids of a kind are 1, 2, ... without a gap (`Numbered`), the revisions of an entity go from
  one content to the next (`Told`), and its last row shows it as it is (`Shown`).  Batches are
  applied by a loop over candidates, rebuilt by a loop over batches; both are functions by
  recursion.  `Between` is the lineage between two candidates in closed form, and the proof
  goes along the candidates: `BatchIsGood` for one batch, `AllReplay` for the replay of all,
  which stays in step with the lineage that was written (`BatchReplays`, `EnteredStays`).

and, for any functions, scripts and wrappers of their types (`InputsAssumption`), those of the run
`chains`, from `ChainInv == BaseInv /\ SplitInv`:

* `EveryChainIsTheWay`.  That no way to a call leaves out a guard is a statement about all ways of
  a finished chain.  The invariant names a cut instead: `UpTo(g)`, the entry with the guards up
  to g and their ends, is left by no edge but those of g's false outcome, and no edge leads
  back into it (`Cut`).  An action keeps the cut of a guard that it has passed because the next
  edge then starts outside, and of the guard just placed because the next edge is its false
  outcome (`InOrder`: the previous node is in `UpTo(g)` only as long as g is pending).  Guards must
  be placed in the order of the source for this.  What is reached is the least closed set, so that
  one closed set without the call is enough (`StaysInside`); that the replay is reached is
  the converse, every closed set with the entry holds the previous node (`WayToPrevious`).
  `Grounded` says that the calls of the chain are among the relations.
* `EveryOutcomeIsTold`.  The two sides of a guard are its end, which nothing leaves, and all
  that is outside `UpTo(g)`; of a response condition, the post-processing of its two blocks,
  within which its edges stay (`InBlock`); of a recovery, refresh and replay on one side, the
  next statement on the other (`Replaying`).  That from a condition the edges of an outcome lead
  to all of its block and to nothing else, although blocks may share nodes, is `WayInv`: an edge
  from post-processing is of an outcome and within its block (`OnOutcome`), and a block is whole
  when its condition has been placed (`WholeInTurn`).

They speak of functions whose API calls stand outside of branches only where the property does:
`BaseInv` and `WayInv` hold of all, `SplitInv` of these.

Induction over numbers is done in these modules by contradiction: a nonempty set of numbers has a
least element (`Least`), which follows from a theorem of the library on well-founded relations;
its induction theorems take an operator as a parameter, and the provers cannot use those.  For
the same reason what is kept of a sequence is a function of the chosen places (`Kept`), and
what the rules make of a row a function by recursion (`Filled`), where the library has
operators that take an operator.

Only model-checked:

* liveness under fairness, and ENABLED: `EveryContextIsReleased`, `BrowserIsClosed`,
  `ExamplesSuffice`.

Every other property of a passing run, all invariants and action properties, is proved.

## What is not modelled

Text: parsing of Excel, YAML, Markdown and JavaScript, redaction, rendering, which words mean
which column, heuristics for locators; of the chains, assignments inside blocks and the mapping
of response fields; of the guide, the wording of the cleanup example.  Adapters: how an action comes to its outcome.  Single
files: what npm, ZIP and extraction do, the resume of a partial download.  Programs that
run once, sequentially and without state: the build of the Skills, the renderers of the other
Skills, the layout of Word, Excel and the views.  The Runner that a killed smoke test leaves
at work, and the matrix of verify-public, whose jobs run one after another here.  Visual
progress, whose render errors are exceptions of the orchestrator's callbacks.  Stage A of the multi-source audit, a
second system with a plan, an approval and an execution of its own.

Two facts met on the way that no run checks: discover-plan resolves the credentials of the
whole profile, and a run whose output directory is that of its manifest overwrites
browser-contexts.json, which a second run would read as discovery evidence.

## Plan

What is left, in this order; the more important a behaviour, the earlier.

1. Stage A of the multi-source audit: its plan, approval and execution, beside `ApprovalGate`.
2. The resume of a partial download by ETag, range and metadata, with bounded retries and a
   shared partial file, implementing the fetch of `BundleInstaller` (whole or failed).
3. Visual progress: counts and renders that throw inside the orchestrator's callbacks.
