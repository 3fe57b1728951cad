---------------------------- MODULE WindowsBundle ----------------------------
(* build-windows-bundle.mjs, windows-bundle-lib.mjs, package-release.mjs and  *)
(* installation-smoke-test.mjs: the Runner's archive is built and released,   *)
(* the bundle of an architecture is assembled from what the runtime lock      *)
(* names, and a smoke test runs the bundle.  An operator runs one tool at a   *)
(* time; each may be stopped between two of its writes, and leaves them.      *)
(*                                                                            *)
(* A hash is the value it is of; the revisions of a component have one size.  *)
(* What an address serves and what the smoke run leaves are the environment's.*)
EXTENDS Naturals, FiniteSets, Sequences

CONSTANTS
  Archs,        \* the architectures built, "x64" among them
  Versions,     \* the versions an archive may be of; Expected is the scripts'
  Expected,
  MaxCommands,  \* bound: tools started
  MaxEdits      \* bound: changes of the sources or the lock

ASSUME ArchsAssumption == "x64" \in Archs /\ Archs \subseteq {"x64", "arm64"}
ASSUME ExpectedAssumption == Expected \in Versions

VARIABLES
  source,     \* the revision of the sources, of the Runner and of the Skill
  lock,       \* windows-runtime-lock.json: component -> [version, hash]
  runner,     \* the Runner's release directory: [archive, checksum, manifest]
  dir,        \* the bundle directory: [archive, companion : arch -> file, sums]
  diag,       \* the diagnostics directory of the smoke test
  tool,       \* the running tool
  commands, edits

bundleVars == <<source, lock, runner, dir, diag, tool, commands, edits>>

Absent == [absent |-> TRUE]
Idle == [pc |-> "idle"]
Components == <<"node", "runner", "chromium", "headless", "ffmpeg">>

Content(c, version, revision) == [of |-> c, version |-> version, revision |-> revision]
Corrupt(c) == Content(c, Expected, 0)
Size(content) == content.of
NoRunner == [archive |-> Absent, checksum |-> Absent, manifest |-> Absent]

NoBundles ==
  [archive |-> [a \in Archs |-> Absent], companion |-> [a \in Archs |-> Absent], sums |-> Absent]
NoReports == [run |-> 0, projected |-> 0, html |-> 0, excel |-> 0, result |-> Absent]

BundleInit ==
  /\ source = 1
  /\ lock = [c \in {Components[i] : i \in 1..5} |->
               [version |-> Expected, hash |-> Content(c, Expected, 1)]]
  /\ runner = NoRunner /\ dir = NoBundles /\ diag = NoReports
  /\ tool = Idle /\ commands = 0 /\ edits = 0

Begin == tool = Idle /\ commands < MaxCommands /\ commands' = commands + 1
Edit == tool = Idle /\ edits < MaxEdits /\ edits' = edits + 1

----------------------------------------------------------------------------
\* The Runner and the Skill change.
EditSource ==
  /\ Edit
  /\ source' = source + 1
  /\ UNCHANGED <<lock, runner, dir, diag, tool, commands>>

\* The lock is written by hand from runner-release.json: what it says of the Runner, the
\* archive of any version (its identity is looked at when it is used).
EditLock ==
  /\ Edit /\ runner.manifest # Absent
  /\ \E v \in Versions :
       lock' = [lock EXCEPT !["runner"].hash = [runner.manifest.hash EXCEPT !.version = v]]
  /\ UNCHANGED <<source, runner, dir, diag, tool, commands>>

\* validateRuntimeLock: the versions are the ones the scripts know.
ValidateRuntimeLock(l) == \A c \in DOMAIN l : l[c].version = Expected

----------------------------------------------------------------------------
\* buildReleaseTarball: the old archive and its checksum go first, the manifest stays.
PackRunner ==
  /\ Begin
  /\ runner' = [runner EXCEPT !.archive = Absent, !.checksum = Absent]
  /\ tool' = [pc |-> "pack", revision |-> source]
  /\ UNCHANGED <<source, lock, dir, diag, edits>>

PackRunnerArchive ==
  /\ tool.pc = "pack"
  /\ runner' = [runner EXCEPT !.archive = Content("runner", Expected, tool.revision)]
  /\ tool' = [pc |-> "packed"]
  /\ UNCHANGED <<source, lock, dir, diag, commands, edits>>

Checksum == [hash |-> runner.archive]
PackRunnerChecksum ==
  /\ tool.pc = "packed"
  /\ runner' = [runner EXCEPT !.checksum = Checksum]
  /\ tool' = [pc |-> "checksummed"]
  /\ UNCHANGED <<source, lock, dir, diag, commands, edits>>

PackRunnerManifest ==
  /\ tool.pc = "checksummed"
  /\ runner' = [runner EXCEPT !.manifest = Checksum]
  /\ tool' = Idle
  /\ UNCHANGED <<source, lock, dir, diag, commands, edits>>

----------------------------------------------------------------------------
BuildBundle ==
  /\ Begin
  /\ ValidateRuntimeLock(lock)
  /\ \E a \in Archs : tool' = [pc |-> "fetch", arch |-> a, staged |-> <<>>]
  /\ UNCHANGED <<source, lock, runner, dir, diag, edits>>

\* What the address of a component serves: the locked content, the Runner's last release or
\* something else.
Served(c) ==
  {lock[c].hash, Corrupt(c)}
  \cup IF c = "runner" /\ runner.archive # Absent THEN {runner.archive} ELSE {}

VerifyArchive(c, content) == Size(content) = Size(lock[c].hash) /\ content = lock[c].hash
\* verifyRunnerIdentity reads the versions that the Runner's archive states.
VerifyIdentity(c, content) == c = "runner" => content.version = lock[c].version

Fetch ==
  /\ tool.pc = "fetch" /\ Len(tool.staged) < Len(Components)
  /\ LET c == Components[Len(tool.staged) + 1] IN
       \E content \in Served(c) :
         /\ VerifyArchive(c, content) /\ VerifyIdentity(c, content)
         /\ tool' = [tool EXCEPT !.staged = Append(@, content)]
  /\ UNCHANGED <<source, lock, runner, dir, diag, commands, edits>>

\* validateBundleLayout, writeBundleManifest: the manifest lists every file of the staging
\* directory; the Skill is what the repository holds.
WriteBundleManifest(staged, arch) ==
  [arch |-> arch, lock |-> lock, files |-> staged \o <<Content("skill", Expected, source)>>]

\* The manifest is written and the old archive removed.
Assemble ==
  /\ tool.pc = "fetch" /\ Len(tool.staged) = Len(Components)
  /\ LET manifest == WriteBundleManifest(tool.staged, tool.arch) IN
       tool' = [pc |-> "zip", arch |-> tool.arch,
                archive |-> [manifest |-> manifest, files |-> manifest.files]]
  /\ dir' = [dir EXCEPT !.archive[tool.arch] = Absent]
  /\ UNCHANGED <<source, lock, runner, diag, commands, edits>>

CreateZip ==
  /\ tool.pc = "zip"
  /\ dir' = [dir EXCEPT !.archive[tool.arch] = tool.archive]
  /\ tool' = [tool EXCEPT !.pc = "companion"]
  /\ UNCHANGED <<source, lock, runner, diag, commands, edits>>

WriteCompanion ==
  /\ tool.pc = "companion"
  /\ dir' = [dir EXCEPT !.companion[tool.arch] =
               [arch |-> tool.arch, archive |-> dir.archive[tool.arch],
                payload |-> tool.archive.manifest]]
  /\ tool' = [tool EXCEPT !.pc = "sums"]
  /\ UNCHANGED <<source, lock, runner, diag, commands, edits>>

\* SHA256SUMS.txt is written anew for this architecture only.
WriteSums ==
  /\ tool.pc = "sums"
  /\ dir' = [dir EXCEPT !.sums = [arch |-> tool.arch, archive |-> dir.archive[tool.arch],
                                  companion |-> dir.companion[tool.arch]]]
  /\ tool' = Idle
  /\ UNCHANGED <<source, lock, runner, diag, commands, edits>>

----------------------------------------------------------------------------
\* The smoke test of a bundle that was extracted, perhaps damaged, on a host of its kind.
\* Its run is the one of this command.
StartSmoke ==
  /\ Begin
  /\ \E a \in Archs :
       /\ dir.archive[a] # Absent
       /\ \E damaged \in {{}, {1}, {6}} :
            tool' = [pc |-> "smoke", run |-> commands + 1, manifest |-> dir.archive[a].manifest,
                     files |-> [i \in 1..6 |-> IF i \in damaged
                                  THEN Corrupt("file") ELSE dir.archive[a].files[i]]]
  /\ UNCHANGED <<source, lock, runner, dir, diag, edits>>

VerifyInventory(files, manifest) == files = manifest.files

\* The Runner of the bundle runs the fixture into the directory of every smoke test.
Reports == <<"run", "projected", "html", "excel">>
RunSmoke ==
  /\ tool.pc = "smoke"
  /\ VerifyInventory(tool.files, tool.manifest)
  /\ tool' = [pc |-> "run", run |-> tool.run, left |-> Reports]
  /\ UNCHANGED <<source, lock, runner, dir, diag, commands, edits>>

\* It writes one report after the other, over those of an earlier run.
RunnerWrites ==
  /\ tool.pc = "run" /\ tool.left # <<>>
  /\ diag' = [diag EXCEPT ![Head(tool.left)] = tool.run]
  /\ tool' = [tool EXCEPT !.left = Tail(@)]
  /\ UNCHANGED <<source, lock, runner, dir, commands, edits>>

\* It may end at any time with another code than 0, and its JSON may then, or after all was
\* written, tell of no completed run.
RunnerEnds ==
  /\ tool.pc = "run"
  /\ \E code \in {0, 1}, visited, takenBack \in BOOLEAN :
       /\ code = 0 => tool.left = <<>>
       /\ tool' = [pc |-> "validate", run |-> tool.run, code |-> code, visited |-> visited]
       /\ diag' = IF takenBack THEN [diag EXCEPT !["run"] = 0] ELSE diag
  /\ UNCHANGED <<source, lock, runner, dir, commands, edits>>

\* Mutant: how the Runner ended is not looked at.
OnlyVisited(ended) == ended.visited
RanWell(ended) == ended.code = 0 /\ ended.visited
\* The run is complete, and the reports are compared with it, down to the hash of its trace.
ValidateSmokeArtifacts(d) ==
  d.run # 0 /\ d.projected = d.run /\ d.html = d.run /\ d.excel = d.run

\* The reports that the result names by their hashes; the run that was performed is noted for
\* the properties.
SmokeResult ==
  [ok |-> TRUE, performed |-> tool.run,
   reports |-> [i \in DOMAIN Reports |-> diag[Reports[i]]]]
PassSmoke ==
  /\ tool.pc = "validate" /\ RanWell(tool) /\ ValidateSmokeArtifacts(diag)
  /\ diag' = [diag EXCEPT !["result"] = SmokeResult]
  /\ tool' = Idle
  /\ UNCHANGED <<source, lock, runner, dir, commands, edits>>

FailSmoke ==
  /\ \/ tool.pc = "smoke"
     \/ tool.pc = "validate" /\ ~(RanWell(tool) /\ ValidateSmokeArtifacts(diag))
  /\ diag' = [diag EXCEPT !["result"] = [ok |-> FALSE]]
  /\ tool' = Idle
  /\ UNCHANGED <<source, lock, runner, dir, commands, edits>>

----------------------------------------------------------------------------
\* A check that fails, an error of the disk, or the operator: what is staged goes.  The
\* operator stops a smoke test at its console, and the Runner with it.
StopTool ==
  /\ tool # Idle
  /\ tool' = Idle
  /\ UNCHANGED <<source, lock, runner, dir, diag, commands, edits>>

BundleNext ==
  \/ EditSource \/ EditLock
  \/ PackRunner \/ PackRunnerArchive \/ PackRunnerChecksum \/ PackRunnerManifest
  \/ BuildBundle \/ Fetch \/ Assemble \/ CreateZip \/ WriteCompanion \/ WriteSums
  \/ StartSmoke \/ RunSmoke \/ RunnerWrites \/ RunnerEnds \/ PassSmoke \/ FailSmoke
  \/ StopTool
=============================================================================
