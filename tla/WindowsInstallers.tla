-------------------------- MODULE WindowsInstallers --------------------------
(* render-windows-installers.mjs: the bundles and companions of a directory   *)
(* become the assets of a release, with installers that name each next file   *)
(* by its hash: install-all.cmd, install.ps1, the complete installer, the     *)
(* companion, the bundle, and the manifest of its payload.                    *)
EXTENDS WindowsBundle

VARIABLE output     \* the directory of rendered assets: name -> content, or Absent

rendered == <<bundleVars, output>>

\* Mutant: the bundle is taken by its name, without its hash.
CompanionByName(companion, archive, arch) ==
  /\ companion # Absent /\ archive # Absent
  /\ companion.arch = arch /\ archive.manifest.arch = arch
ValidateCompanion(companion, archive, arch) ==
  /\ companion # Absent /\ archive # Absent
  /\ companion.arch = arch
  /\ companion.archive = archive
  /\ companion.payload = archive.manifest

\* validatePayloadManifest: the manifest names the versions and the Runner of the lock of
\* today, and lists files.  (The hashes of the other components are not compared.)
ValidatePayload(manifest, arch) ==
  /\ manifest.arch = arch
  /\ \A c \in DOMAIN lock : manifest.lock[c].version = lock[c].version
  /\ manifest.lock["runner"].hash = lock["runner"].hash
  /\ manifest.files # <<>>

BundleName(a) == <<"bundle", a>>
CompanionName(a) == <<"companion", a>>
Complete == <<"install-complete.ps1", "">>
Cmd == <<"install-complete.cmd", "">>
Generic == <<"install.ps1", "">>
All == <<"install-all.cmd", "">>
Sums == <<"SHA256SUMS.txt", "">>

\* The complete installer holds the hashes of the companions; the templates of the others
\* have one place for each hash.  Without arm64 its block is cut out of the template.
CompleteInstaller(archs) == [companions |-> [a \in archs |-> dir.companion[a]]]
CmdInstaller(complete) == [complete |-> complete]
GenericInstaller(complete) == [complete |-> complete]
AllInstaller(generic, complete) == [generic |-> generic, complete |-> complete]

Names(archs) ==
  {BundleName(a) : a \in archs} \cup {CompanionName(a) : a \in archs} \cup {Complete, Cmd, Generic, All}
AssetOf(n, archs) ==
  LET complete == CompleteInstaller(archs)
      generic == GenericInstaller(complete)
  IN  CASE n[1] = "bundle" -> dir.archive[n[2]]
        [] n[1] = "companion" -> dir.companion[n[2]]
        [] n = Complete -> complete
        [] n = Cmd -> CmdInstaller(complete)
        [] n = Generic -> generic
        [] n = All -> AllInstaller(generic, complete)
Assets(archs) == [n \in Names(archs) |-> AssetOf(n, archs)]

\* One line for each asset; its hash is computed from the staged file.
WithSums(assets) ==
  [n \in DOMAIN assets \cup {Sums} |-> IF n = Sums THEN [lines |-> DOMAIN assets] ELSE assets[n]]

\* renderWindowsInstallers validates x64 and, when given, arm64; nothing is overwritten.
Render ==
  /\ Begin
  /\ ValidateRuntimeLock(lock)
  /\ \E archs \in {s \in SUBSET Archs : "x64" \in s} :
       /\ \A a \in archs :
            /\ ValidateCompanion(dir.companion[a], dir.archive[a], a)
            /\ ValidatePayload(dir.archive[a].manifest, a)
       /\ \A a, b \in archs : a # b => dir.companion[a] # dir.companion[b]
       /\ output = Absent
       /\ tool' = [pc |-> "render", staged |-> WithSums(Assets(archs))]
  /\ UNCHANGED <<source, lock, runner, dir, diag, edits, output>>

\* The staging directory takes the name of the output.
RenameOutput ==
  /\ tool.pc = "render"
  /\ output' = tool.staged
  /\ tool' = Idle
  /\ UNCHANGED <<source, lock, runner, dir, diag, commands, edits>>
=============================================================================
