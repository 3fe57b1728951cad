------------------------------- MODULE Release -------------------------------
(* The release of the Windows bundle, from the sources to what a user gets:   *)
(* the rendered output is handed over as the trusted assets, and the draft    *)
(* lifecycle publishes and verifies them.                                     *)
EXTENDS WindowsInstallers, ReleaseDraft

vars == <<rendered, draftVars>>

Init == BundleInit /\ output = Absent /\ DraftInit

\* The output is uploaded as the trusted artifact, and the jobs that publish it run on
\* machines of their own: nothing else of the workspace is left.  The tag may have a release
\* of another commit already, as an earlier run of the workflow has left it.
Trust ==
  /\ tool = Idle /\ output # Absent /\ trusted = NoAssets
  /\ trusted' = DOMAIN output
  /\ releases' \in {<<>>,
       <<[Draft({Asset(n, "altered") : n \in DOMAIN output})
            EXCEPT !.target = "older"]>>}
  /\ runner' = NoRunner /\ dir' = NoBundles /\ diag' = NoReports /\ tool' = Idle
  /\ commands' = MaxCommands /\ edits' = MaxEdits
  /\ UNCHANGED <<source, lock, output, digests, stage, prepared, job, verified, jobs, changes>>

Build ==
  /\ trusted = NoAssets
  /\ \/ BundleNext /\ UNCHANGED output
     \/ Render
     \/ RenameOutput
  /\ UNCHANGED draftVars

Next == Build \/ Trust \/ (DraftNext /\ UNCHANGED rendered)
Spec == Init /\ [][Next]_vars

----------------------------------------------------------------------------
\* Following the hashes from install-all.cmd ends at the bundle and companion that are
\* among the same assets, for every architecture that is offered.
Leads(assets) ==
  LET complete == assets[All].complete IN
  /\ assets[Generic] = assets[All].generic
  /\ assets[Complete] = complete
  /\ assets[Generic].complete = complete /\ assets[Cmd].complete = complete
  /\ {n \in DOMAIN assets : n[1] = "companion"} =
       {CompanionName(a) : a \in DOMAIN complete.companions}
  /\ \A a \in DOMAIN complete.companions :
       /\ assets[CompanionName(a)] = complete.companions[a]
       /\ assets[BundleName(a)] = complete.companions[a].archive
       /\ assets[BundleName(a)].manifest.arch = a
       /\ assets[BundleName(a)].manifest = complete.companions[a].payload

\* Every offered bundle holds the content that its lock names, of the versions expected,
\* and its manifest lists the files it holds.
HoldsLockedParts(bundle) ==
  /\ bundle.files = bundle.manifest.files
  /\ \A i \in DOMAIN Components :
       /\ bundle.files[i] = bundle.manifest.lock[Components[i]].hash
       /\ bundle.files[i].version = Expected

\* What render leaves can be installed: a build that was stopped, a bundle made again
\* beside an old companion, and a wrong download never become an output.
InstallersLeadToBundles ==
  output # Absent =>
    /\ Leads(output)
    /\ \A n \in DOMAIN output : n[1] = "bundle" => HoldsLockedParts(output[n])

\* A smoke test that says ok names reports of the run it has performed itself, although those
\* of earlier smoke tests lie in its directory and a run that fails leaves them, or some.
SmokeVouches ==
  diag.result # Absent /\ diag.result.ok =>
    \A i \in DOMAIN diag.result.reports : diag.result.reports[i] = diag.result.performed

\* Not so: a result that says ok lies beside the reports it names.  The result of the last
\* smoke test stays while the next one writes its reports, and when that is stopped.
ResultIsOfTheReports ==
  diag.result # Absent /\ diag.result.ok =>
    \A i \in DOMAIN Reports : diag.result.reports[i] = diag[Reports[i]]

\* However often prepare fails and runs again, it never makes a second release of the tag.
OneReleaseOfTheTag == Cardinality(Ids) <= 1

Uploaded == {Asset(n, "trusted") : n \in trusted}

\* What these commands make public, when no maintainer has changed it, is of this commit and
\* has every trusted asset, byte for byte: a draft that lost uploads left behind, or a run of
\* the workflow for another commit, is never taken for it, wherever the workflow goes on.
PublicIsTrusted ==
  \A id \in PublicReleases :
    ~releases[id].byHand => releases[id].target = "commit" /\ releases[id].assets = Uploaded

\* Not so: what the publish command makes public is as it was validated.  A maintainer may
\* change the draft between its two requests; then the command fails, and it is public.
PublishesWhatItValidated == [][PublishPatch => AcceptPublished(releases'[prepared])]_vars

\* What verify-public writes is trusted byte for byte, also when it is stopped in between, and
\* all of it once the release is done: each asset is fetched by a request of its own while
\* releases change.
VerifiedIsTrusted ==
  /\ verified \subseteq [name : trusted, bytes : {"trusted"}]
  /\ stage = "released" => NamesOf(verified) = trusted
=============================================================================
