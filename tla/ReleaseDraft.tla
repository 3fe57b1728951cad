----------------------------- MODULE ReleaseDraft -----------------------------
(* release-draft-lifecycle.mjs: the draft of a tag is prepared, downloaded,   *)
(* published and verified against the trusted assets, one request after       *)
(* another.  The workflow runs one command at a time (its concurrency group)  *)
(* and runs failed commands again.  Any request may fail before it takes      *)
(* effect or after; maintainers change and delete releases in between.        *)
EXTENDS Naturals, FiniteSets, Sequences

CONSTANTS
  MaxJobs,      \* bound: commands run
  MaxChanges    \* bound: changes that maintainers make

NoAssets == {}

VARIABLES
  trusted,    \* the names of the trusted assets, none before there are any
  digests,    \* GitHub reports the digests of assets
  releases,   \* the releases of the tag, by id: [here, target, draft, assets, byHand]
  stage,      \* the next command of the workflow
  prepared,   \* the release id that prepare has put out, 0 for none
  job,        \* the running command
  verified,   \* the assets, [name, bytes], in the output directory of verify-public
  jobs, changes

draftVars ==
  <<trusted, digests, releases, stage, prepared, job, verified, jobs, changes>>

NoJob == [pc |-> "none"]

\* An asset has an id of its own: 0 as uploaded, more when it was put there by hand.
\* Its bytes are the trusted ones, others of their size, or others of another size.
Bytes == {"trusted", "altered", "resized"}
Asset(name, bytes) == [name |-> name, bytes |-> bytes, id |-> 0]
SameSize(a, b) == (a = "resized") = (b = "resized")
\* That a maintainer has changed a release is noted for the properties only.
Draft(assets) ==
  [here |-> TRUE, target |-> "commit", draft |-> TRUE, assets |-> assets, byHand |-> FALSE]

DraftInit ==
  /\ trusted = NoAssets /\ releases = <<>> /\ digests \in BOOLEAN
  /\ stage = "prepare" /\ prepared = 0 /\ job = NoJob
  /\ verified = NoAssets
  /\ jobs = 0 /\ changes = 0

There(id) == id \in DOMAIN releases /\ releases[id].here
Ids == {id \in DOMAIN releases : There(id)}
Drafts == {id \in Ids : releases[id].draft}
PublicReleases == Ids \ Drafts
NamesOf(assets) == {a.name : a \in assets}

\* The command of the workflow; when it fails, the workflow goes on from an earlier one, or is
\* told which release a publish that failed has made public (public_release_id).
Start(s) == stage = s /\ job = NoJob /\ trusted # NoAssets /\ jobs < MaxJobs /\ jobs' = jobs + 1
Again(s) == {"prepare"} \cup IF s = "publish" THEN {"download", "verify"} ELSE {s}
Fails ==
  /\ job' = NoJob
  /\ stage' \in Again(stage)
  /\ UNCHANGED <<trusted, digests, releases, prepared, verified, changes>>
Succeeds(next) == job' = NoJob /\ stage' = next

----------------------------------------------------------------------------
\* Mutant: the names of the assets are not compared.
ValidateIdentity(r) == r.here /\ r.target = "commit" /\ r.draft
ValidateDraft(r) ==
  /\ r.here /\ r.target = "commit" /\ r.draft
  /\ NamesOf(r.assets) = trusted
ValidatePublicRelease(r) ==
  /\ r.here /\ r.target = "commit" /\ ~r.draft
  /\ NamesOf(r.assets) = trusted
\* The size of each asset and, where GitHub reports it, its digest.
ValidateMetadata(r) ==
  \A a \in r.assets : /\ SameSize(a.bytes, "trusted")
                      /\ digests => a.bytes = "trusted"
\* Mutant: downloaded bytes are compared by their size.
VerifyLength(a, bytes) == SameSize(bytes, "trusted")
VerifyDownloadedBytes(a, bytes) == SameSize(bytes, a.bytes) /\ bytes = "trusted"

----------------------------------------------------------------------------
\* discoverExistingDraft, twice before a draft is made.
Discover(again) ==
  IF PublicReleases # {} \/ Cardinality(Drafts) > 1 THEN {}
  ELSE IF Drafts # {} THEN {[pc |-> "reuse", id |-> id] : id \in Drafts}
  ELSE {[pc |-> IF again THEN "discover" ELSE "create"]}

PrepareDiscover ==
  /\ Start("prepare")
  /\ job' \in Discover(TRUE)
  /\ UNCHANGED <<trusted, digests, releases, stage, prepared, verified, changes>>

PrepareDiscoverAgain ==
  /\ job.pc = "discover"
  /\ job' \in Discover(FALSE)
  /\ UNCHANGED <<trusted, digests, releases, stage, prepared, verified, jobs, changes>>

\* Mutant: a draft that does not hold the assets is passed over for a new one.
PrepareReuseOrCreate ==
  /\ job.pc = "reuse" /\ There(job.id)
  /\ IF ValidateDraft(releases[job.id]) THEN prepared' = job.id /\ Succeeds("download")
     ELSE job' = [pc |-> "create"] /\ UNCHANGED <<prepared, stage>>
  /\ UNCHANGED <<trusted, digests, releases, verified, jobs, changes>>
PrepareReuse ==
  /\ job.pc = "reuse" /\ There(job.id)
  /\ ValidateDraft(releases[job.id])
  /\ prepared' = job.id /\ Succeeds("download")
  /\ UNCHANGED <<trusted, digests, releases, verified, jobs, changes>>

\* The draft is made; its answer may be lost, and the command fails.
PrepareCreate ==
  /\ job.pc = "create"
  /\ releases' = Append(releases, Draft({}))
  /\ \/ /\ job' = [pc |-> "upload", id |-> Len(releases) + 1, left |-> trusted]
        /\ UNCHANGED stage
     \/ job' = NoJob /\ stage' \in Again(stage)
  /\ UNCHANGED <<trusted, digests, prepared, verified, jobs, changes>>

\* One asset; GitHub refuses a name the release has.
PrepareUpload ==
  /\ job.pc = "upload" /\ job.left # {} /\ There(job.id)
  /\ LET name == CHOOSE n \in job.left : TRUE IN
       /\ name \notin NamesOf(releases[job.id].assets)
       /\ releases' = [releases EXCEPT ![job.id].assets = @ \cup {Asset(name, "trusted")}]
       /\ \/ job' = [job EXCEPT !.left = @ \ {name}] /\ UNCHANGED stage
          \/ job' = NoJob /\ stage' \in Again(stage)
  /\ UNCHANGED <<trusted, digests, prepared, verified, jobs, changes>>

PrepareFinish ==
  /\ job.pc = "upload" /\ job.left = {} /\ There(job.id)
  /\ ValidateDraft(releases[job.id])
  /\ prepared' = job.id /\ Succeeds("download")
  /\ UNCHANGED <<trusted, digests, releases, verified, jobs, changes>>

----------------------------------------------------------------------------
\* downloadAndVerifyDraft: every asset of the release as it was read, by the asset's id.
DownloadGet ==
  /\ Start("download")
  /\ There(prepared) /\ ValidateDraft(releases[prepared]) /\ ValidateMetadata(releases[prepared])
  /\ job' = [pc |-> "download", left |-> releases[prepared].assets]
  /\ UNCHANGED <<trusted, digests, releases, stage, prepared, verified, changes>>

DownloadAsset ==
  /\ job.pc = "download" /\ job.left # {} /\ There(prepared)
  /\ LET a == CHOOSE a \in job.left : TRUE IN
       /\ a \in releases[prepared].assets
       /\ VerifyDownloadedBytes(a, a.bytes)
       /\ job' = [job EXCEPT !.left = @ \ {a}]
  /\ UNCHANGED <<trusted, digests, releases, stage, prepared, verified, jobs, changes>>

DownloadDone ==
  /\ job.pc = "download" /\ job.left = {}
  /\ Succeeds("publish")
  /\ UNCHANGED <<trusted, digests, releases, prepared, verified, jobs, changes>>

----------------------------------------------------------------------------
\* publishDraft: the draft is validated, published, and what comes back validated again.
PublishGet ==
  /\ Start("publish")
  /\ There(prepared) /\ ValidateDraft(releases[prepared]) /\ ValidateMetadata(releases[prepared])
  /\ job' = [pc |-> "publish"]
  /\ UNCHANGED <<trusted, digests, releases, stage, prepared, verified, changes>>

AcceptPublished(published) == ValidatePublicRelease(published) /\ ValidateMetadata(published)
PublishPatch ==
  /\ job.pc = "publish" /\ There(prepared)
  /\ LET published == [releases[prepared] EXCEPT !.draft = FALSE] IN
       /\ releases' = [releases EXCEPT ![prepared] = published]
       /\ \/ AcceptPublished(published) /\ Succeeds("verify")
          \/ job' = NoJob /\ stage' \in Again(stage)
  /\ UNCHANGED <<trusted, digests, prepared, verified, jobs, changes>>

----------------------------------------------------------------------------
\* verifyPublicRelease: by tag; each asset by the address of its name.  The output directory
\* is made anew for the command.
VerifyGet ==
  /\ Start("verify")
  /\ \E id \in PublicReleases :
       /\ id = prepared
       /\ ValidatePublicRelease(releases[id])
       /\ job' = [pc |-> "verify", left |-> releases[id].assets, got |-> {}]
  /\ verified' = NoAssets
  /\ UNCHANGED <<trusted, digests, releases, stage, prepared, changes>>

VerifyAsset ==
  /\ job.pc = "verify" /\ job.left # {} /\ There(prepared)
  /\ LET a == CHOOSE a \in job.left : TRUE IN
       \E now \in releases[prepared].assets :
         /\ now.name = a.name
         /\ SameSize(a.bytes, "trusted") /\ (digests => a.bytes = "trusted")
         /\ VerifyDownloadedBytes(a, now.bytes)
         /\ job' = [job EXCEPT !.left = @ \ {a}, !.got = @ \cup {[name |-> a.name, bytes |-> now.bytes]}]
  /\ UNCHANGED <<trusted, digests, releases, stage, prepared, verified, jobs, changes>>

\* writeAssets: all were compared, and are written one after the other.
VerifyWrites ==
  /\ job.pc = "verify" /\ job.left = {} /\ job.got \ verified # {}
  /\ verified' = verified \cup {CHOOSE a \in job.got \ verified : TRUE}
  /\ UNCHANGED <<trusted, digests, releases, stage, prepared, job, jobs, changes>>

VerifyDone ==
  /\ job.pc = "verify" /\ job.left = {} /\ job.got \subseteq verified
  /\ Succeeds("released")
  /\ UNCHANGED <<trusted, digests, releases, prepared, verified, jobs, changes>>

\* A request fails, or a check: the command ends with what it has done.
CommandFails == job # NoJob /\ Fails /\ UNCHANGED jobs
RefusedAtOnce == \E s \in {"prepare", "download", "publish", "verify"} : Start(s) /\ Fails

----------------------------------------------------------------------------
\* A maintainer changes an asset, removes one, publishes the draft or deletes the release.
Change == trusted # NoAssets /\ changes < MaxChanges /\ changes' = changes + 1
ByHand ==
  /\ Change
  /\ \E id \in Ids :
       \/ \E a \in releases[id].assets, b \in Bytes \ {"trusted"} :
            releases' = [releases EXCEPT ![id].byHand = TRUE, ![id].assets =
              (@ \ {a}) \cup {[a EXCEPT !.bytes = b, !.id = changes + 1]}]
       \/ \E a \in releases[id].assets :
            releases' = [releases EXCEPT ![id].byHand = TRUE, ![id].assets = @ \ {a}]
       \/ releases' = [releases EXCEPT ![id].byHand = TRUE, ![id].draft = FALSE]
       \/ releases' = [releases EXCEPT ![id].byHand = TRUE, ![id].here = FALSE]
  /\ UNCHANGED <<trusted, digests, stage, prepared, job, verified, jobs>>

DraftNext ==
  \/ PrepareDiscover \/ PrepareDiscoverAgain \/ PrepareReuse \/ PrepareCreate \/ PrepareUpload
  \/ PrepareFinish
  \/ DownloadGet \/ DownloadAsset \/ DownloadDone
  \/ PublishGet \/ PublishPatch
  \/ VerifyGet \/ VerifyAsset \/ VerifyWrites \/ VerifyDone
  \/ CommandFails \/ RefusedAtOnce \/ ByHand
=============================================================================
