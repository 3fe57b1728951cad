---------------------------- MODULE Preparation -----------------------------
(***************************************************************************)
(* The preparation of an execution: the workbook becomes a package of the  *)
(* contract compiler, or its columns are mapped with the user's            *)
(* confirmation; the plan command makes a manifest of either.  Commands    *)
(* read their files more than once, and the user, or another command, may  *)
(* write them in between.  A second process, the guide, is the user who    *)
(* pastes what the readiness assessment offers.                            *)
(*                                                                         *)
(* Abstractions.  The modules below say what of a text and of a hash is    *)
(* kept.  The profile binds a case to so many steps and expected results.  *)
(* Time goes with each write of the workbook.  Every command may stop      *)
(* between two of its steps.                                               *)
(***************************************************************************)
EXTENDS ContractPackage, Readiness

CONSTANTS
  Contents,     \* contents the user may give the workbook
  Mappings,     \* explicit mappings given to the compiler, None among them
  OverrideSets, \* structured drafts given to it: id -> override
  Guides,       \* readiness inputs a user may start from, and NoGuide
  MaxCommands   \* bound: writes of the workbook, and commands begun

NoGuide == [guided |-> FALSE]

ASSUME ContentsAssumption == \A content \in Contents : IsContent(content)
ASSUME NoneAssumption == None \in Mappings
ASSUME MaxCommandsAssumption == MaxCommands \in Nat

VARIABLES
  book,         \* the workbook: [content, time]
  package,      \* cases.execution-package.zip
  profile,      \* the plans of the profile: id -> [steps, expected]
  approval,     \* the mapping approval
  out,          \* the files of the output directory
  compiler, plan,   \* the two commands
  confirmed,    \* history: the proposals the user confirmed
  commands,
  guide         \* the guide's readiness input

files == <<book, package, profile, approval, out>>
vars == <<files, compiler, plan, confirmed, commands, guide>>

Bound(values) == [steps |-> Len(values["steps"]), expected |-> Len(values["expected"])]
PlansOf(cases) ==
  [id \in {cases[i].id : i \in DOMAIN cases} |->
     Bound(cases[CHOOSE i \in DOMAIN cases : cases[i].id = id].values)]
\* The profile somebody may have written for the cases of this workbook.
ProfilesFor(content) ==
  LET reads == {ReadStandardExcel(content), ReadNativeReport(content),
                NormalizeSourceRows(PrepareRows(content, Rules(content)))}
  IN  {PlansOf(read.cases) : read \in reads \ {Refused}}

Idle == [pc |-> "idle"]
Init ==
  /\ \E c \in Contents :
       /\ book = [content |-> c, time |-> 0]
       /\ profile \in ProfilesFor(c) \cup {<<>>}
  /\ package = None
  /\ approval = None
  /\ out = [inspection |-> None, proposal |-> None, readiness |-> None, manifest |-> None]
  /\ compiler = Idle /\ plan = Idle
  /\ confirmed = {}
  /\ commands = 0
  /\ guide \in Guides

Begin == guide = NoGuide /\ commands < MaxCommands /\ commands' = commands + 1

-----------------------------------------------------------------------------
(* The user                                                                *)

\* The same content again is a touch: the file's time is part of the proposal.
EditWorkbook ==
  /\ Begin
  /\ \E c \in Contents : book' = [content |-> c, time |-> commands']
  /\ UNCHANGED <<package, profile, approval, out, compiler, plan, confirmed, guide>>

\* The user confirms what mapping-proposal.json shows, or changes a rule by hand.
Confirm ==
  /\ Begin
  /\ out.proposal # None
  /\ \E rules \in {out.proposal.rules, Tail(out.proposal.rules)} :
       approval' = [content |-> out.proposal.source.content, proposal |-> out.proposal,
                    rules |-> rules]
  /\ confirmed' = confirmed \cup {out.proposal}
  /\ UNCHANGED <<book, package, profile, out, compiler, plan, guide>>

\* The profile is written for the package as it is, or for a workbook.
WriteProfile ==
  /\ Begin
  /\ \/ package # None /\ package.intact /\ profile' = PlansOf(package.contract)
     \/ profile' \in ProfilesFor(book.content)
  /\ UNCHANGED <<book, package, approval, out, compiler, plan, confirmed, guide>>

-----------------------------------------------------------------------------
(* The compiler                                                            *)

CompileInspect ==
  /\ Begin
  /\ compiler = Idle
  /\ \E explicit \in Mappings, overrides \in OverrideSets :
       LET inspected == InspectWorkbook(book.content, explicit) IN
       /\ inspected # Refused
       /\ ~inspected.requiresConfirmation
       /\ LET contract == BuildContract(inspected.cases, overrides) IN
          /\ contract # Refused
          /\ compiler' = [pc |-> "inspected", cases |-> inspected.cases,
                          contract |-> contract.cases, content |-> book.content]
  /\ UNCHANGED <<files, plan, confirmed, guide>>

\* The workbook is read again, packed, and the archive copied over the old one.
CompilePack ==
  /\ compiler.pc = "inspected"
  /\ package' = Torn
  /\ compiler' = [pc |-> "copying", content |-> compiler.content,
                  archive |-> Pack(compiler.cases, compiler.contract, book.content)]
  /\ UNCHANGED <<book, profile, approval, out, plan, confirmed, commands, guide>>

CompileCopied ==
  /\ compiler.pc = "copying"
  /\ package' = compiler.archive
  /\ compiler' = Idle
  /\ UNCHANGED <<book, profile, approval, out, plan, confirmed, commands, guide>>

CompilerStops ==
  /\ compiler # Idle
  /\ compiler' = Idle
  /\ UNCHANGED <<files, plan, confirmed, commands, guide>>

-----------------------------------------------------------------------------
(* The plan command                                                        *)

HasPlans(cases) == \A i \in DOMAIN cases : cases[i].id \in DOMAIN plan.profile
Real(cases) == Kept(cases, {i \in DOMAIN cases : ~cases[i].divider})
CompileManifest(source, cases, from) ==
  [source |-> source, cases |-> Real(cases), from |-> from]

\* The profile is complete, by its schema: what readiness can find is in the cases.
Steps == {[type |-> t, alias |-> "app", refs |-> {}] : t \in {"web.click", "web.assert"}}
PlanReadiness(cases) ==
  AssessReadiness(
    [cases |-> {[id |-> c.id, divider |-> c.divider, steps |-> c.values["steps"] # Blank,
                 expected |-> c.values["expected"] # Blank] : c \in ToSet(cases)},
     manifest |-> [cases |-> {[id |-> c.id, steps |-> Steps] : c \in ToSet(Real(cases))}],
     profile |-> [targets |-> [a \in {"app"} |-> TargetExample("web")], credentials |-> {},
                  data |-> {}, cleanup |-> {}, public |-> {}],
     targets |-> {}, credentials |-> {}, gaps |-> {}, approval |-> "none",
     probe |-> [software |-> {}, browsers |-> {}, drivers |-> {}, unreachable |-> {}]])

Inspection(source) == [file |-> "inspection", value |-> [source |-> source]]
\* The files of a plan, in the order in which they are written.
Written(source, proposal, cases, manifest) ==
  <<Inspection(source)>>
  \o (IF proposal = None THEN <<>> ELSE <<[file |-> "proposal", value |-> proposal]>>)
  \o <<[file |-> "readiness", value |-> [level |-> PlanReadiness(cases).level]],
       [file |-> "manifest", value |-> manifest]>>
Planned(source, proposal, cases, manifest) ==
  plan' = [pc |-> "writing", left |-> Written(source, proposal, cases, manifest)]

\* The profile is read first, and for all of the plan.
PlanBegins ==
  /\ Begin
  /\ plan = Idle
  /\ DOMAIN profile # {}
  /\ plan' = [pc |-> "begun", profile |-> profile]
  /\ UNCHANGED <<files, compiler, confirmed, guide>>

PlanDetect ==
  /\ plan.pc = "begun"
  /\ InputKind(book.content) # "unsupported"
  /\ plan' = [pc |-> InputKind(book.content), profile |-> plan.profile]
  /\ UNCHANGED <<files, compiler, confirmed, commands, guide>>

ReadAgain(read) ==
  /\ read # Refused
  /\ HasPlans(Real(read.cases))
  /\ Planned(book.content, None, read.cases,
             CompileManifest(book.content, read.cases, [kind |-> "cases"]))

PlanStandard ==
  /\ \/ plan.pc = "standard-excel" /\ ReadAgain(ReadStandardExcel(book.content))
     \/ plan.pc = "native-report" /\ ReadAgain(ReadNativeReport(book.content))
  /\ UNCHANGED <<files, compiler, confirmed, commands, guide>>

\* Without an approval, the proposal is written for the user to confirm.
PlanPropose ==
  /\ plan.pc = "nonstandard-excel"
  /\ LET proposal == BuildMappingProposal(book) IN
     /\ proposal # Refused
     /\ \/ plan' = [pc |-> "writing",
                    left |-> <<Inspection(book.content), [file |-> "proposal", value |-> proposal]>>]
        \/ approval # None
           /\ plan' = [pc |-> "inspected", profile |-> plan.profile, proposal |-> proposal]
  /\ UNCHANGED <<files, compiler, confirmed, commands, guide>>

PlanMapped ==
  /\ plan.pc = "inspected"
  /\ LET applied == ApplyConfirmedMapping(plan.proposal, book, approval)
         source == plan.proposal.source.content
     IN  /\ applied # Refused
         /\ HasPlans(Real(applied.cases))
         /\ Planned(source, plan.proposal, applied.cases,
                    CompileManifest(source, applied.cases, [kind |-> "mapping"]))
  /\ UNCHANGED <<files, compiler, confirmed, commands, guide>>

\* Of the package that is validated only the manifest is used.
PlanPackage ==
  /\ plan.pc = "begun"
  /\ package # None
  /\ ValidatePackage(package) = {}
  /\ package.manifest.status = "READY"
  /\ plan' = [pc |-> "validated", profile |-> plan.profile, validated |-> package]
  /\ UNCHANGED <<files, compiler, confirmed, commands, guide>>

ValidateContractBindings(contract) ==
  \A i \in DOMAIN contract :
    /\ contract[i].id \in DOMAIN plan.profile
    /\ plan.profile[contract[i].id] = Bound(contract[i].values)

AsCases(contract) ==
  [i \in DOMAIN contract |->
     [id |-> contract[i].id, sheet |-> contract[i].sheet, divider |-> FALSE,
      values |-> contract[i].values]]
\* The package is read again, and not validated: its hash and its contract are those of this
\* reading, its source hash is that of the first.  (`validated' is history.)
PlanLoad ==
  /\ plan.pc = "validated"
  /\ package # None /\ package.intact
  /\ ValidateContractBindings(package.contract)
  /\ LET source == plan.validated.manifest.source IN
     Planned(source, None, AsCases(package.contract),
             CompileManifest(source, AsCases(package.contract),
               [kind |-> "package", package |-> package, validated |-> plan.validated]))
  /\ UNCHANGED <<files, compiler, confirmed, commands, guide>>

PlanWrite ==
  /\ plan.pc = "writing"
  /\ out' = [out EXCEPT ![Head(plan.left).file] = Head(plan.left).value]
  /\ plan' = IF Len(plan.left) = 1 THEN Idle ELSE [plan EXCEPT !.left = Tail(@)]
  /\ UNCHANGED <<book, package, profile, approval, compiler, confirmed, commands, guide>>

\* A check refuses, or the process is ended: what is written stays.
PlanStops ==
  /\ plan # Idle
  /\ plan' = Idle
  /\ UNCHANGED <<files, compiler, confirmed, commands, guide>>

-----------------------------------------------------------------------------
(* The guide                                                               *)

Offered == AssessReadiness(guide)
Guided == guide # NoGuide

PasteTarget ==
  /\ Guided
  /\ \E e \in Offered.examples.targets : guide' = [guide EXCEPT !.profile.targets[e.alias] = e.draft]
  /\ UNCHANGED <<files, compiler, plan, confirmed, commands>>
PasteReferences ==
  /\ Guided
  /\ LET given == Offered.examples IN
     \/ given.credentials # {} /\ guide' = [guide EXCEPT !.profile.credentials = @ \cup given.credentials]
     \/ given.data # {} /\ guide' = [guide EXCEPT !.profile.data = @ \cup given.data]
     \/ given.cleanup # {} /\ guide' = [guide EXCEPT !.profile.cleanup = @ \cup given.cleanup]
  /\ UNCHANGED <<files, compiler, plan, confirmed, commands>>
\* What is missing is installed, or the preview of this profile approved.
InstallMissing ==
  /\ Guided
  /\ guide.probe # Absent
  /\ Offered.examples.runtime # {}
  /\ guide' = [guide EXCEPT !.probe = [@ EXCEPT !.software = {}, !.browsers = {}, !.drivers = {}]]
  /\ UNCHANGED <<files, compiler, plan, confirmed, commands>>
ApprovePreview ==
  /\ Guided
  /\ Offered.level = 3
  /\ guide.manifest # Absent
  /\ guide' = [guide EXCEPT !.approval = "valid"]
  /\ UNCHANGED <<files, compiler, plan, confirmed, commands>>

Next ==
  \/ EditWorkbook \/ Confirm \/ WriteProfile
  \/ CompileInspect \/ CompilePack \/ CompileCopied \/ CompilerStops
  \/ PlanBegins \/ PlanDetect \/ PlanStandard \/ PlanPropose \/ PlanMapped
  \/ PlanPackage \/ PlanLoad \/ PlanWrite \/ PlanStops
  \/ PasteTarget \/ PasteReferences \/ InstallMissing \/ ApprovePreview
\* A user who is offered something goes on; nothing else has to happen.
Spec == Init /\ [][Next]_vars
        /\ WF_vars(PasteTarget) /\ WF_vars(PasteReferences) /\ WF_vars(InstallMissing)
-----------------------------------------------------------------------------
(* Properties                                                              *)

ByMapping == out.manifest # None /\ out.manifest.from.kind = "mapping"
ByPackage == out.manifest # None /\ out.manifest.from.kind = "package"

\* What is planned of a workbook that had to be mapped are the cases a user confirmed,
\* of the very content and under the very rules that were shown, although a plan reads
\* the workbook three times and the user may write it, and plan, in between.
CasesAreTheConfirmed ==
  ByMapping =>
    \E p \in confirmed :
      /\ p.source.content = out.manifest.source
      /\ out.manifest.cases =
           Real(NormalizeSourceRows(PrepareRows(p.source.content, p.rules)).cases)

\* The sample rows the user confirmed are what runs: each comes back among the planned
\* cases with its id and values, though the code normalizes once for the preview and once
\* more for the plan.  Only an empty status is filled in.
PreviewIsWhatRuns ==
  ByMapping =>
    \E p \in confirmed :
      /\ p.source.content = out.manifest.source
      /\ \A i \in DOMAIN p.samples :
           \/ IsDivider(p.samples[i].values)
           \/ \E c \in ToSet(out.manifest.cases) :
                /\ c.sheet = p.samples[i].sheet /\ c.row = p.samples[i].row
                /\ c.id = p.samples[i].values["id"]
                /\ \A f \in Fields \ {"status"} : c.values[f] = p.samples[i].values[f]

AllResolved(contract) == \A i \in DOMAIN contract : contract[i].unresolved = {}

\* A plan made of a package that nobody replaced while the plan read it leaves out no case
\* that the Runner itself would find in the workbook whose hash the manifest records, and
\* plans none with something unresolved: although the compiler reads the workbook twice,
\* by other code than the Runner's, and it may be written in between (compilePackage,
\* validatePackage, loadExecutionPackage).
FormalCasesArePlanned ==
  ByPackage /\ out.manifest.from.validated = out.manifest.from.package =>
    LET read == ReadStandardExcel(out.manifest.source) IN
    /\ read # Refused =>
         \A c \in ToSet(Real(read.cases)) :
           \E p \in ToSet(out.manifest.cases) : p.id = c.id /\ p.sheet = c.sheet
    /\ AllResolved(out.manifest.from.package.contract)

\* TLC refutes these three, the second with five commands, so that no run checks them
\* (README, "What the code does not promise").  A manifest tells of one package, and of none
\* that is not READY: a package copied over the validated one is not validated.
PlanTellsOfOnePackage ==
  ByPackage => out.manifest.source = out.manifest.from.package.manifest.source
OnlyReadyIsPlanned ==
  ByPackage => AllResolved(out.manifest.from.package.contract)
\* A valid package says of its cases what its workbook says: the workbook is packed as it
\* is after the inspection, and only ids, sheets and rows are compared.
ContractIsOfItsSource ==
  package # None /\ ValidatePackage(package) = {} =>
    LET read == InspectWorkbook(package.source, None) IN
    \A i \in DOMAIN package.contract : package.contract[i].values = read.cases[i].values

\* Two cases of a package that want the same resource for themselves are never free to
\* run in either order: one depends on the other, if only over further cases.
LocksAreOrdered ==
  package # None /\ package.intact =>
    LET cases == package.contract IN
    \A i, j \in DOMAIN cases :
      i < j /\ cases[i].locks \cap cases[j].locks # {} =>
        DependsOn(cases, cases[i].id, cases[j].id) \/ DependsOn(cases, cases[j].id, cases[i].id)

\* A user who pastes whatever is offered is done with the profile in the end: the examples
\* are never short of what the assessment asks for, whatever was there before.
Beyond == {"cases", "steps", "expected", "assertion", "gap", "unreachable", "preview", "approval"}
ExamplesSuffice ==
  Guided ~> (Guided /\ {b.kind : b \in Offered.blocking} \subseteq Beyond)

\* A compiled package holds the formal cases of its workbook, none more and none less and
\* in their order: those that the Runner reads of the same standard workbook.  (The title
\* row of a module is none of them.)  TLC refutes it, so that no run checks it (README, "What
\* the code does not promise").
FormalCasesOnly ==
  (compiler.pc = "inspected" /\ ReadStandardExcel(compiler.content) # Refused) =>
    Ids(compiler.contract) = Ids(Real(ReadStandardExcel(compiler.content).cases))
=============================================================================
