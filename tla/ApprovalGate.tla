---------------------------- MODULE ApprovalGate ----------------------------
(***************************************************************************)
(* The way of an execution package from plan over approve to run: what the *)
(* plan command compiles, what the approve command binds, and what the run *)
(* command checks before it executes.  The files live in directories that  *)
(* the user and other commands write at any time, also between two checks  *)
(* of a run.                                                               *)
(*                                                                         *)
(* Abstractions.  A SHA-256 stands for the content it is taken of.  A case *)
(* is left out: a manifest is the set of its actions.  The source hash, the*)
(* Runner and rule versions are fields of the manifest like any other, and *)
(* are bound by its hash.  An approval is written by approve only.         *)
(***************************************************************************)
EXTENDS Integers, FiniteSets

CONSTANTS
  Packages,    \* contents an execution package may have
  Actions,     \* the declared actions the profile may plan
  Aliases, DatabaseAliases,   \* aliases of targets; those of databases
  Addresses,   \* origins and database addresses
  MaxEdits,    \* how often a user changes a file, plans or approves
  MaxTime      \* the clock's bound

Risk == 0..3    \* R0 .. R3
\* material: a declared R3 effect, or a write whose text looks irreversible;
\* sensitive: shared, sensitive, high privilege or mixed-target data.
Action == [id : Nat, alias : Aliases, declared : Risk, readOnly : BOOLEAN,
           sensitive : BOOLEAN, material : BOOLEAN]

ASSUME ActionsAssumption == Actions \subseteq Action
ASSUME AliasesAssumption == DatabaseAliases \subseteq Aliases
ASSUME BoundsAssumption == MaxEdits \in Nat /\ MaxTime \in Nat

Profiles == [targets : [Aliases -> Addresses], actions : SUBSET Actions]
None == [none |-> TRUE]

VARIABLES
  package,     \* the content of the package file
  profile,     \* execution-profile.normalized.json
  manifest,    \* run-manifest.json
  approval,    \* approval.json
  clock, edits,
  pending,     \* what a plan command has still to write
  check, mode,    \* of the run command
  loaded,      \* the manifest and approval it has read
  seen,        \* history: the contents the package had since then
  started,     \* history: when that was
  executed,    \* what the run executes, and against which targets
  planned      \* history: the last plan's manifest and targets

files == <<package, profile, manifest, approval>>
running == <<check, mode, loaded, seen, started, executed>>
world == <<files, clock, edits, pending, planned>>
vars == <<world, running>>

HighestOf(S) == CHOOSE r \in S : \A s \in S : s <= r

\* classifyRisk: the highest of the assessments.
ClassifyRisk(a) ==
  HighestOf({a.declared, IF a.readOnly THEN 0 ELSE 1}
            \cup {r \in {2} : a.sensitive \/ a.alias \in DatabaseAliases}
            \cup {r \in {3} : a.material})

\* normalizeTargetOrigins: databases have no origin.
Origins(p) == {p.targets[a] : a \in Aliases \ DatabaseAliases}

CompileManifest(p, pkg) ==
  [package |-> pkg, targets |-> Origins(p),
   steps |-> {[id |-> a.id, alias |-> a.alias, risk |-> ClassifyRisk(a)] : a \in p.actions}]

Risks(m) == {s.risk : s \in m.steps}
R3Actions(m) == {s.id : s \in {t \in m.steps : t.risk = 3}}

Init ==
  /\ package \in Packages
  /\ profile = None /\ manifest = None /\ approval = None
  /\ clock = 0 /\ edits = 0 /\ pending = None /\ planned = None
  /\ check = "idle" /\ mode = "interactive" /\ loaded = None /\ executed = None
  /\ seen = {} /\ started = 0

-----------------------------------------------------------------------------
(* The user, and the commands before run.                                  *)

Edit == edits < MaxEdits /\ edits' = edits + 1 /\ UNCHANGED clock

EditPackage ==
  /\ Edit /\ package' \in Packages \ {package}
  /\ seen' = IF check = "idle" THEN {} ELSE seen \cup {package'}
  /\ UNCHANGED <<profile, manifest, approval, pending, check, mode, loaded, started, executed, planned>>

EditProfile ==
  /\ Edit /\ profile # None
  /\ \E targets \in [Aliases -> Addresses] : profile' = [profile EXCEPT !.targets = targets]
  /\ profile' # profile
  /\ UNCHANGED <<package, manifest, approval, pending, running, planned>>

\* A step of the manifest is edited by hand, here its risk.
EditManifest ==
  /\ Edit /\ manifest # None
  /\ \E s \in manifest.steps : \E r \in Risk \ {s.risk} :
       manifest' = [manifest EXCEPT !.steps = (@ \ {s}) \cup {[s EXCEPT !.risk = r]}]
  /\ UNCHANGED <<package, profile, approval, pending, running, planned>>

\* runPackagePlan, with any profile; the files are written one after the other.
PlanProfile ==
  /\ Edit /\ pending = None
  /\ \E p \in Profiles :
       /\ p.actions # {}
       /\ profile' = p /\ pending' = [manifest |-> CompileManifest(p, package), targets |-> p.targets]
  /\ UNCHANGED <<package, manifest, approval, running, planned>>

PlanManifest ==
  /\ pending # None
  /\ manifest' = pending.manifest /\ planned' = pending /\ pending' = None
  /\ UNCHANGED <<package, profile, approval, clock, edits, running>>

\* createApproval binds the manifest as it is on disk.
CreateApproval(m, r3, expires) ==
  [manifest |-> m, package |-> m.package, targets |-> m.targets,
   risks |-> {s.risk : s \in {t \in m.steps : t.risk < 3 \/ t.id \in r3}},
   r3 |-> r3, expires |-> expires]

\* Mutant: the approval of another manifest of the same package and targets will do.
VerifyScopeOnly(m, a, runMode, now) ==
  /\ a.package = m.package /\ a.targets = m.targets /\ a.expires > now
  /\ runMode = "ci" => Risks(m) \subseteq {0, 1}

VerifyApproval(m, a, runMode, now) ==
  /\ a.manifest = m /\ a.package = m.package /\ a.targets = m.targets
  /\ a.expires > now
  /\ Risks(m) \subseteq a.risks /\ R3Actions(m) \subseteq a.r3
  /\ runMode = "ci" => Risks(m) \subseteq {0, 1}

\* runApproveCommand: every R3 action is named, and the approval verifies.
Approve ==
  /\ Edit /\ manifest # None
  /\ \E expires \in 1..MaxTime, r3 \in SUBSET {s.id : s \in manifest.steps} :
       /\ R3Actions(manifest) \subseteq r3
       /\ approval' = CreateApproval(manifest, r3, expires)
       /\ VerifyApproval(manifest, approval', "interactive", clock)
  /\ UNCHANGED <<package, profile, manifest, pending, running, planned>>

Tick ==
  /\ clock < MaxTime /\ clock' = clock + 1
  /\ UNCHANGED <<files, edits, pending, running, planned>>

-----------------------------------------------------------------------------
(* The preflight of runRunCommand.                                         *)

Run(step) == check' = step /\ UNCHANGED world
Unread == loaded' = None /\ seen' = {} /\ started' = 0
Blocked == Unread /\ Run("idle") /\ UNCHANGED <<mode, executed>>
Checked(step) == Run(step) /\ UNCHANGED <<mode, loaded, seen, started, executed>>

ReadManifest ==
  /\ check = "idle" /\ manifest # None
  /\ mode' \in {"interactive", "ci"}
  /\ loaded' = [manifest |-> manifest, approval |-> None]
  /\ seen' = {package} /\ started' = clock
  /\ Run("approval") /\ UNCHANGED executed

\* What is read is verified at once.
ReadApproval ==
  /\ check = "approval"
  /\ IF approval # None /\ VerifyApproval(loaded.manifest, approval, mode, clock)
     THEN /\ loaded' = [loaded EXCEPT !.approval = approval]
          /\ Run("package") /\ UNCHANGED <<mode, seen, started, executed>>
     ELSE Blocked

PackageUnchanged == package = loaded.manifest.package /\ package = loaded.approval.package

CheckPackage ==
  /\ check = "package"
  /\ IF PackageUnchanged THEN Checked("profile") ELSE Blocked

ProfileTargetsLocked(p, a) == Origins(p) = a.targets

\* The targets are read once more from disk; the manifest executed is the one in memory.
ReadProfile ==
  /\ check = "profile"
  /\ IF profile # None /\ ProfileTargetsLocked(profile, loaded.approval)
     THEN /\ executed' = [manifest |-> loaded.manifest, approval |-> loaded.approval,
                          targets |-> profile.targets, packages |-> seen, started |-> started,
                          planned |-> planned]
          /\ Unread /\ Run("execute") /\ UNCHANGED mode
     ELSE Blocked

RunEnds ==
  /\ check = "execute" /\ executed' = None
  /\ Run("idle") /\ UNCHANGED <<mode, loaded, seen, started>>

Next ==
  \/ EditPackage \/ EditProfile \/ EditManifest \/ PlanProfile \/ PlanManifest \/ Approve \/ Tick
  \/ ReadManifest \/ ReadApproval \/ CheckPackage \/ ReadProfile \/ RunEnds

Spec == Init /\ [][Next]_vars

-----------------------------------------------------------------------------
(* Properties                                                              *)

Executes == check = "execute"

\* Each step of what is executed was in the manifest that the approval was given
\* for, within the risks it grants (and in CI never above R1), every R3 action was
\* named, the run was started before the approval ended, the package that was
\* approved is the one the manifest was compiled from and lay on disk at some time
\* since then, and the Web and API addresses of the profile that is read last are
\* those of the manifest (verifyApproval, runRunCommand, assertProfileTargetsLocked).
ExecutesWhatWasApproved ==
  Executes => /\ executed.manifest = executed.approval.manifest
              /\ Risks(executed.manifest) \subseteq executed.approval.risks
              /\ mode = "ci" => Risks(executed.manifest) \subseteq {0, 1}
              /\ R3Actions(executed.manifest) \subseteq executed.approval.r3
              /\ executed.started < executed.approval.expires
              /\ executed.manifest.package \in executed.packages
              /\ executed.approval.package = executed.manifest.package
              /\ {executed.targets[a] : a \in Aliases \ DatabaseAliases}
                   = executed.manifest.targets

\* What the design says of a change of hash, target or policy: the run refuses.
\* So the planned manifest is executed against the planned targets only.  TLC refutes it, so
\* that no run checks it (README, "What the code does not promise").
TargetChangeRefused ==
  Executes /\ executed.planned # None /\ executed.planned.manifest = executed.manifest
    => executed.targets = executed.planned.targets
=============================================================================
