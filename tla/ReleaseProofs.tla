----------------------------- MODULE ReleaseProofs -----------------------------
(***************************************************************************)
(* What the draft lifecycle promises, for any assets, any number of        *)
(* commands that fail and run again, and any changes by hand: one release  *)
(* of the tag, made public complete, verified byte for byte.  And          *)
(* what is handed over to it, for any tools that stop and run again while  *)
(* the sources and the lock change: installers that lead to their bundles, *)
(* and smoke results that name the reports of their own run.               *)
(***************************************************************************)
EXTENDS Release, FiniteSetTheorems, SequenceTheorems, TLAPS

\* The releases of the tag are records whose assets are of some set.
Releases(A) ==
  [here : BOOLEAN, target : {"commit", "older"}, draft : BOOLEAN, assets : SUBSET A, byHand : BOOLEAN]
ReleasesTyped == \E A : releases \in Seq(Releases(A))

\* What a command holds between two requests.
Waiting == {[pc |-> "none"], [pc |-> "discover"], [pc |-> "create"], [pc |-> "publish"]}
Verifying(left, got) == [pc |-> "verify", left |-> left, got |-> got]
JobTyped ==
  \/ job \in Waiting
  \/ \E id : job = [pc |-> "reuse", id |-> id]
  \/ \E id, left : job = [pc |-> "upload", id |-> id, left |-> left]
  \/ \E left : job = [pc |-> "download", left |-> left]
  \/ \E left, got : job = Verifying(left, got)

\* No command runs before there are trusted assets, nor when the release is done.
TrustedFirst ==
  /\ trusted = NoAssets => job = NoJob /\ verified = NoAssets /\ stage = "prepare"
  /\ stage = "released" => job = NoJob

\* There is one release, and none while one is about to be made.
AtMostOne == /\ \A i, j \in Ids : i = j
             /\ job.pc \in {"discover", "create"} => Ids = {}

\* A release that nobody has touched has only uploaded assets, and all when it is public.
Founded(r) ==
  ~r.byHand => /\ r.target = "commit" => r.assets \subseteq Uploaded
               /\ ~r.draft => r.target = "commit" /\ r.assets = Uploaded
ReleasesFounded == \A id \in Ids : Founded(releases[id])

\* What is uploaded goes to a draft of this commit, and what is published is complete, unless
\* somebody touches it meanwhile.
Untouched(id) == There(id) /\ ~releases[id].byHand
JobFounded ==
  /\ job.pc = "upload" =>
       /\ job.left \subseteq trusted
       /\ Untouched(job.id) => releases[job.id].target = "commit" /\ releases[job.id].draft
  /\ job.pc = "publish" /\ Untouched(prepared) =>
       releases[prepared].target = "commit" /\ releases[prepared].assets = Uploaded

\* What is verified so far is trusted, and with what is left it is all.
VerifiedSoFar ==
  job.pc = "verify" =>
    /\ job.got \subseteq [name : trusted, bytes : {"trusted"}]
    /\ NamesOf(job.got) \cup NamesOf(job.left) = trusted

IInv == /\ ReleasesTyped /\ JobTyped /\ TrustedFirst /\ AtMostOne
        /\ ReleasesFounded /\ JobFounded /\ VerifiedSoFar /\ VerifiedIsTrusted

-----------------------------------------------------------------------------
LEMMA InitOK == Init => IInv
<1> SUFFICES ASSUME Init
             PROVE  IInv
  OBVIOUS
<1>1. releases = <<>> /\ job = [pc |-> "none"] /\ verified = NoAssets /\ stage = "prepare"
  BY DEF Init, DraftInit, NoJob
<1>2. ReleasesTyped
  <2>1. releases \in Seq(Releases({}))
    BY <1>1
  <2> QED
    BY <2>1 DEF ReleasesTyped
<1>3. Ids = {}
  BY <1>1 DEF Ids, There
<1>4. JobTyped /\ job = NoJob
  BY <1>1 DEF JobTyped, Waiting, NoJob
<1> QED
  BY <1>1, <1>2, <1>3, <1>4 DEF IInv, TrustedFirst, AtMostOne, ReleasesFounded, JobFounded,
    VerifiedSoFar, VerifiedIsTrusted, NoJob, NoAssets

\* A step that leaves the releases and what was verified.
LEMMA JobMoves ==
  ASSUME IInv, UNCHANGED <<trusted, digests, releases, verified>>,
         trusted # NoAssets, stage' # "released", JobTyped',
         job'.pc \in {"discover", "create"} => Ids = {},
         JobFounded', VerifiedSoFar'
  PROVE  IInv'
<1>1. Ids' = Ids
  BY DEF Ids, There
<1>2. ReleasesFounded'
  BY <1>1 DEF IInv, ReleasesFounded, Founded, Uploaded
<1> QED
  BY <1>1, <1>2 DEF IInv, ReleasesTyped, TrustedFirst, AtMostOne, VerifiedIsTrusted

\* A command that ends with its releases as they are.
LEMMA JobEnds ==
  ASSUME IInv, UNCHANGED <<trusted, digests, releases>>, trusted # NoAssets,
         job' = NoJob, VerifiedIsTrusted'
  PROVE  IInv'
<1>1. Ids' = Ids
  BY DEF Ids, There
<1>2. JobTyped' /\ job'.pc = "none"
  BY DEF JobTyped, Waiting, NoJob
<1>3. ReleasesFounded'
  BY <1>1 DEF IInv, ReleasesFounded, Founded, Uploaded
<1> QED
  BY <1>1, <1>2, <1>3 DEF IInv, ReleasesTyped, TrustedFirst, AtMostOne, JobFounded, VerifiedSoFar

\* A command at work has trusted assets, and the release is not done.
LEMMA AtWork ==
  ASSUME IInv, job.pc # "none"
  PROVE  trusted # NoAssets /\ stage # "released"
BY DEF IInv, TrustedFirst, NoJob

LEMMA GoesOn ==
  ASSUME stage # "released", stage' \in Again(stage)
  PROVE  stage' # "released"
BY DEF Again

\* While the release is not done, only what is written must be trusted.
LEMMA StillTrusted ==
  ASSUME IInv, UNCHANGED <<trusted, verified>>, stage' # "released"
  PROVE  VerifiedIsTrusted'
BY DEF IInv, VerifiedIsTrusted

-----------------------------------------------------------------------------
(* The commands, one lemma each.                                            *)

LEMMA PrepareStep ==
  ASSUME IInv, PrepareDiscover \/ PrepareDiscoverAgain \/ PrepareReuse \/ PrepareFinish
  PROVE  IInv'
<1>1. ASSUME NEW again \in BOOLEAN, job' \in Discover(again), trusted # NoAssets,
             stage' # "released", UNCHANGED <<trusted, digests, releases, verified>>
      PROVE  IInv'
  <2>1. Ids = Drafts \cup PublicReleases
    BY DEF Drafts, PublicReleases
  <2>2. \/ \E id : job' = [pc |-> "reuse", id |-> id]
        \/ job' \in {[pc |-> "discover"], [pc |-> "create"]} /\ Ids = {}
    BY <1>1, <2>1 DEF Discover
  <2>3. JobTyped'
    BY <2>2 DEF JobTyped, Waiting
  <2>4. job'.pc \in {"discover", "create"} => Ids = {}
    BY <2>2
  <2>5. job'.pc \notin {"verify", "upload", "publish"}
    BY <2>2
  <2> QED
    BY <1>1, <2>3, <2>4, <2>5, JobMoves DEF VerifiedSoFar, JobFounded
<1>2. CASE PrepareDiscover
  BY <1>1, <1>2 DEF PrepareDiscover, Start
<1>3. CASE PrepareDiscoverAgain
  BY <1>1, <1>3, AtWork DEF PrepareDiscoverAgain
<1>4. CASE PrepareReuse
  BY <1>4, AtWork, StillTrusted, JobEnds DEF PrepareReuse, Succeeds
<1>5. CASE PrepareFinish
  BY <1>5, AtWork, StillTrusted, JobEnds DEF PrepareFinish, Succeeds
<1> QED
  BY <1>2, <1>3, <1>4, <1>5

\* Releases that are added to or changed keep what is verified.
LEMMA ReleasesChange ==
  ASSUME IInv, UNCHANGED <<trusted, digests, verified>>, trusted # NoAssets,
         ReleasesTyped', JobTyped', AtMostOne', ReleasesFounded', JobFounded',
         job'.pc # "verify" \/ UNCHANGED job, stage' # "released" \/ UNCHANGED <<stage, job>>
  PROVE  IInv'
BY DEF IInv, TrustedFirst, VerifiedSoFar, VerifiedIsTrusted

LEMMA CreateStep ==
  ASSUME IInv, PrepareCreate
  PROVE  IInv'
<1>1. PICK A : releases \in Seq(Releases(A))
  BY DEF IInv, ReleasesTyped
<1>2. job.pc = "create" /\ Ids = {} /\ trusted # NoAssets /\ stage # "released"
  BY AtWork DEF PrepareCreate, IInv, AtMostOne
<1> DEFINE new == Len(releases) + 1
<1>3. Draft({}) \in Releases(A)
  BY DEF Draft, Releases
<1>4. releases' = Append(releases, Draft({})) /\ releases' \in Seq(Releases(A))
  BY <1>1, <1>3 DEF PrepareCreate
<1>5. /\ releases'[new] = Draft({})
      /\ \A id \in DOMAIN releases' : id # new => id \in DOMAIN releases /\ releases'[id] = releases[id]
  BY <1>1, <1>3, <1>4
<1>6. \A i \in Ids' : i = new
  BY <1>2, <1>5 DEF Ids, There
<1>7. \/ job' = [pc |-> "upload", id |-> new, left |-> trusted] /\ UNCHANGED stage
      \/ job' = [pc |-> "none"] /\ stage' \in Again(stage)
  BY DEF PrepareCreate, NoJob
<1>8. JobTyped' /\ job'.pc \notin {"verify", "discover", "create", "publish"}
  BY <1>7 DEF JobTyped, Waiting
<1>9. ReleasesTyped'
  BY <1>4 DEF ReleasesTyped
<1>10. stage' # "released"
  BY <1>2, <1>7, GoesOn
<1>11. Draft({}).target = "commit" /\ Draft({}).draft /\ Draft({}).assets = {}
  BY DEF Draft
<1>12. ReleasesFounded'
  BY <1>5, <1>6, <1>11 DEF ReleasesFounded, Founded
<1>13. JobFounded'
  BY <1>5, <1>7, <1>11 DEF JobFounded, PrepareCreate
<1>14. AtMostOne'
  BY <1>6, <1>8 DEF AtMostOne
<1> QED
  BY <1>2, <1>8, <1>9, <1>10, <1>12, <1>13, <1>14, ReleasesChange DEF PrepareCreate

\* A release that is there, changed but not made anew.
LEMMA OneChanged ==
  ASSUME NEW A, releases \in Seq(Releases(A)), NEW id \in DOMAIN releases,
         NEW r, r \in Releases(A), There(id), releases' = [releases EXCEPT ![id] = r]
  PROVE  /\ ReleasesTyped' /\ Ids' \subseteq Ids /\ releases'[id] = r
         /\ \A i \in DOMAIN releases : i # id => releases'[i] = releases[i]
         /\ DOMAIN releases' = DOMAIN releases
<1>1. /\ releases' \in Seq(Releases(A)) /\ DOMAIN releases' = DOMAIN releases
      /\ releases'[id] = r
  OBVIOUS
<1>2. \A i \in DOMAIN releases : i # id => releases'[i] = releases[i]
  OBVIOUS
<1> QED
  BY <1>1, <1>2 DEF ReleasesTyped, Ids, There

LEMMA SeqWider ==
  ASSUME NEW X, NEW Y, X \subseteq Y, NEW s \in Seq(X)
  PROVE  s \in Seq(Y)
OBVIOUS

\* The assets of a release may be any.
LEMMA Widened ==
  ASSUME NEW A, releases \in Seq(Releases(A)), NEW id, There(id), NEW S, NEW hand \in BOOLEAN
  PROVE  \E B : /\ releases \in Seq(Releases(B)) /\ id \in DOMAIN releases
                /\ [releases[id] EXCEPT !.byHand = hand, !.assets = S] \in Releases(B)
<1> DEFINE B == A \cup S
<1>1. id \in DOMAIN releases
  BY DEF There
<1>2. Releases(A) \subseteq Releases(B)
  BY DEF Releases
<1>3. releases \in Seq(Releases(B))
  <2> HIDE DEF B
  <2> QED
    BY <1>2, SeqWider
<1>4. releases[id] \in Releases(A)
  BY <1>1
<1>5. [releases[id] EXCEPT !.byHand = hand, !.assets = S] \in Releases(B)
  BY <1>4 DEF Releases
<1> QED
  BY <1>1, <1>3, <1>5

LEMMA UploadStep ==
  ASSUME IInv, PrepareUpload
  PROVE  IInv'
<1> DEFINE id == job.id
           old == releases[id]
<1>1. PICK A : releases \in Seq(Releases(A))
  BY DEF IInv, ReleasesTyped
<1>2. job.pc = "upload" /\ There(id) /\ trusted # NoAssets /\ stage # "released"
  BY AtWork DEF PrepareUpload
<1>3. PICK name \in job.left :
        /\ releases' = [releases EXCEPT ![id].assets = @ \cup {Asset(name, "trusted")}]
        /\ \/ job' = [job EXCEPT !.left = @ \ {name}] /\ UNCHANGED stage
           \/ job' = NoJob /\ stage' \in Again(stage)
  BY DEF PrepareUpload
<1> DEFINE S == old.assets \cup {Asset(name, "trusted")}
           r == [old EXCEPT !.byHand = old.byHand, !.assets = S]
<1>4. id \in DOMAIN releases /\ old \in Releases(A) /\ id \in Ids
  BY <1>1, <1>2 DEF There, Ids
<1>5. old.byHand \in BOOLEAN /\ r = [old EXCEPT !.assets = S]
  BY <1>4 DEF Releases
<1>6. releases' = [releases EXCEPT ![id] = r]
  BY <1>3, <1>5
<1>7. PICK B : releases \in Seq(Releases(B)) /\ r \in Releases(B)
  BY <1>1, <1>2, <1>5, Widened
<1>8. /\ r.assets = S /\ r.target = old.target /\ r.draft = old.draft /\ r.byHand = old.byHand
  BY <1>4 DEF Releases
<1>9. ReleasesTyped' /\ Ids' \subseteq Ids /\ releases'[id] = r
  <2> HIDE DEF r, id
  <2> QED
    BY <1>2, <1>4, <1>6, <1>7, OneChanged
<1>10. \A i \in Ids' : i = id
  BY <1>4, <1>9 DEF IInv, AtMostOne
<1>11. /\ name \in trusted
       /\ ~old.byHand => old.target = "commit" /\ old.draft /\ old.assets \subseteq Uploaded
  BY <1>2, <1>3, <1>4 DEF IInv, JobFounded, Untouched, ReleasesFounded, Founded
<1>12. UNCHANGED trusted /\ Uploaded' = Uploaded
  BY DEF PrepareUpload, Uploaded
<1>13. ReleasesFounded'
  <2>1. ~old.byHand => S \subseteq Uploaded
    BY <1>11 DEF Uploaded
  <2>2. ~r.byHand => r.target = "commit" /\ r.draft /\ r.assets \subseteq Uploaded
    BY <1>8, <1>11, <2>1
  <2> HIDE DEF r, id
  <2> QED
    BY <1>9, <1>10, <1>12, <2>2 DEF ReleasesFounded, Founded
<1>14. PICK k, left : job = [pc |-> "upload", id |-> k, left |-> left]
  BY <1>2 DEF IInv, JobTyped, Waiting, Verifying
<1>15. \/ job' = [pc |-> "upload", id |-> id, left |-> left \ {name}]
       \/ job' = [pc |-> "none"]
  BY <1>3, <1>14 DEF NoJob
<1>16. JobTyped' /\ job'.pc \in {"upload", "none"}
  BY <1>15 DEF JobTyped, Waiting
<1>17. JobFounded'
  <2>1. left \subseteq trusted
    BY <1>2, <1>14 DEF IInv, JobFounded
  <2>2. ~r.byHand => r.target = "commit" /\ r.draft
    BY <1>8, <1>11
  <2> HIDE DEF r, id
  <2> QED
    BY <1>9, <1>12, <1>15, <2>1, <2>2 DEF JobFounded, Untouched
<1>18. stage' # "released"
  BY <1>2, <1>3, GoesOn
<1>19. AtMostOne'
  BY <1>10, <1>16 DEF AtMostOne
<1> QED
  BY <1>2, <1>9, <1>13, <1>16, <1>17, <1>18, <1>19, ReleasesChange DEF PrepareUpload

LEMMA DownloadStep ==
  ASSUME IInv, DownloadGet \/ DownloadAsset \/ DownloadDone
  PROVE  IInv'
<1>1. ASSUME NEW left, job' = [pc |-> "download", left |-> left], trusted # NoAssets,
             stage' # "released", UNCHANGED <<trusted, digests, releases, verified>>
      PROVE  IInv'
  <2>1. JobTyped' /\ job'.pc = "download"
    BY <1>1 DEF JobTyped
  <2> QED
    BY <1>1, <2>1, JobMoves DEF VerifiedSoFar, JobFounded
<1>2. CASE DownloadGet
  BY <1>1, <1>2 DEF DownloadGet, Start
<1>3. CASE DownloadAsset
  <2>1. PICK left : job = [pc |-> "download", left |-> left]
    BY <1>3 DEF DownloadAsset, IInv, JobTyped, Waiting, Verifying
  <2>2. PICK a : job' = [job EXCEPT !.left = @ \ {a}]
    BY <1>3 DEF DownloadAsset
  <2>3. job' = [pc |-> "download", left |-> left \ {a}]
    BY <2>1, <2>2
  <2> QED
    BY <1>1, <1>3, <2>3, AtWork DEF DownloadAsset
<1>4. CASE DownloadDone
  BY <1>4, AtWork, StillTrusted, JobEnds DEF DownloadDone, Succeeds
<1> QED
  BY <1>2, <1>3, <1>4

\* Uploaded assets that have every name are all.
LEMMA AllNamed ==
  ASSUME NEW S, S \subseteq Uploaded, NamesOf(S) = trusted
  PROVE  S = Uploaded
<1>1. ASSUME NEW n \in trusted
      PROVE  Asset(n, "trusted") \in S
  <2>1. PICK a \in S : a.name = n
    BY <1>1 DEF NamesOf
  <2>2. PICK m \in trusted : a = Asset(m, "trusted")
    BY <2>1 DEF Uploaded
  <2>3. a.name = m
    BY <2>2 DEF Asset
  <2> QED
    BY <2>1, <2>2, <2>3
<1> QED
  BY <1>1 DEF Uploaded

LEMMA PublishStep ==
  ASSUME IInv, PublishGet \/ PublishPatch
  PROVE  IInv'
<1> DEFINE old == releases[prepared]
<1>1. CASE PublishGet
  <2>1. job' = [pc |-> "publish"] /\ trusted # NoAssets /\ stage' # "released"
    BY <1>1 DEF PublishGet, Start
  <2>2. JobTyped' /\ job'.pc = "publish"
    BY <2>1 DEF JobTyped, Waiting
  <2>3. ValidateDraft(old) /\ prepared \in Ids
    BY <1>1 DEF PublishGet, Ids, There
  <2>4. ~old.byHand => old.target = "commit" /\ old.assets = Uploaded
    BY <2>3, AllNamed DEF ValidateDraft, IInv, ReleasesFounded, Founded
  <2>5. JobFounded'
    BY <1>1, <2>2, <2>4 DEF JobFounded, PublishGet, Untouched, There, Uploaded
  <2> QED
    BY <1>1, <2>1, <2>2, <2>5, JobMoves DEF PublishGet, VerifiedSoFar
<1>2. CASE PublishPatch
  <2> DEFINE published == [old EXCEPT !.draft = FALSE]
  <2>1. PICK A : releases \in Seq(Releases(A))
    BY DEF IInv, ReleasesTyped
  <2>2. /\ There(prepared) /\ trusted # NoAssets /\ stage # "released" /\ job.pc = "publish"
        /\ job' = NoJob /\ (stage' = "verify" \/ stage' \in Again(stage))
    BY <1>2, AtWork DEF PublishPatch, Succeeds
  <2>3. old \in Releases(A) /\ prepared \in Ids
    BY <2>1, <2>2 DEF There, Ids
  <2>4. /\ published \in Releases(A)
        /\ published.target = old.target /\ published.assets = old.assets
        /\ published.byHand = old.byHand
    BY <2>3 DEF Releases
  <2>5. releases' = [releases EXCEPT ![prepared] = published]
    BY <1>2 DEF PublishPatch
  <2>6. ReleasesTyped' /\ Ids' \subseteq Ids /\ releases'[prepared] = published
    <3> HIDE DEF published
    <3> QED
      BY <2>1, <2>2, <2>4, <2>5, OneChanged DEF There
  <2>7. \A i \in Ids' : i = prepared
    BY <2>3, <2>6 DEF IInv, AtMostOne
  <2>8. ~old.byHand => old.target = "commit" /\ old.assets = Uploaded
    BY <2>2 DEF IInv, JobFounded, Untouched
  <2>9. Uploaded' = Uploaded
    BY <1>2 DEF PublishPatch, Uploaded
  <2>10. ReleasesFounded'
    <3> HIDE DEF published, old
    <3> QED
      BY <2>4, <2>6, <2>7, <2>8, <2>9 DEF ReleasesFounded, Founded
  <2>11. JobTyped' /\ job'.pc = "none"
    BY <2>2 DEF NoJob, JobTyped, Waiting
  <2>12. stage' # "released"
    BY <2>2, GoesOn
  <2>13. AtMostOne' /\ JobFounded'
    BY <2>7, <2>11 DEF AtMostOne, JobFounded
  <2> QED
    BY <1>2, <2>2, <2>6, <2>10, <2>11, <2>12, <2>13, ReleasesChange DEF PublishPatch
<1> QED
  BY <1>1, <1>2

LEMMA VerifyStep ==
  ASSUME IInv, VerifyGet \/ VerifyAsset \/ VerifyWrites \/ VerifyDone
  PROVE  IInv'
<1>0. ASSUME UNCHANGED <<trusted, digests, releases>>, trusted # NoAssets, stage' # "released",
             JobTyped', job'.pc = "verify", VerifiedSoFar',
             verified' \subseteq [name : trusted, bytes : {"trusted"}]
      PROVE  IInv'
  <2>1. Ids' = Ids
    BY <1>0 DEF Ids, There
  <2>2. ReleasesFounded'
    BY <1>0, <2>1 DEF IInv, ReleasesFounded, Founded, Uploaded
  <2>3. AtMostOne' /\ JobFounded'
    BY <1>0, <2>1 DEF IInv, AtMostOne, JobFounded
  <2> QED
    BY <1>0, <2>2, <2>3 DEF IInv, ReleasesTyped, TrustedFirst, VerifiedIsTrusted
<1>1. ASSUME NEW left, NEW got, job' = Verifying(left, got), trusted # NoAssets,
             stage' # "released", UNCHANGED <<trusted, digests, releases>>,
             verified' \subseteq verified,
             got \subseteq [name : trusted, bytes : {"trusted"}],
             NamesOf(got) \cup NamesOf(left) = trusted
      PROVE  IInv'
  <2>1. /\ JobTyped'
        /\ job'.pc = "verify" /\ job'.left = left /\ job'.got = got
    BY <1>1 DEF JobTyped, Verifying
  <2>2. VerifiedSoFar'
    BY <1>1, <2>1 DEF VerifiedSoFar, NamesOf
  <2>3. verified' \subseteq [name : trusted, bytes : {"trusted"}]
    BY <1>1 DEF IInv, VerifiedIsTrusted
  <2> QED
    BY <1>0, <1>1, <2>1, <2>2, <2>3
<1>2. CASE VerifyGet
  <2>1. PICK id \in PublicReleases :
          /\ ValidatePublicRelease(releases[id])
          /\ job' = Verifying(releases[id].assets, {})
    BY <1>2 DEF VerifyGet, Verifying
  <2>2. NamesOf({}) \cup NamesOf(releases[id].assets) = trusted
    BY <2>1 DEF ValidatePublicRelease, NamesOf
  <2> QED
    BY <1>1, <1>2, <2>1, <2>2 DEF VerifyGet, Start, NoAssets
<1>3. CASE VerifyAsset
  <2>1. PICK left, got : job = Verifying(left, got)
    <3>1. job.pc = "verify" /\ JobTyped
      BY <1>3 DEF VerifyAsset, IInv
    <3> QED
      BY <3>1 DEF JobTyped, Waiting
  <2>2. job.pc = "verify" /\ job.left = left /\ job.got = got
    BY <2>1 DEF Verifying
  <2>3. PICK a \in left : job' = [job EXCEPT !.left = @ \ {a},
                                   !.got = @ \cup {[name |-> a.name, bytes |-> "trusted"]}]
    BY <1>3, <2>2 DEF VerifyAsset, VerifyDownloadedBytes
  <2> DEFINE new == [name |-> a.name, bytes |-> "trusted"]
  <2>4. job' = Verifying(left \ {a}, got \cup {new})
    BY <2>1, <2>3 DEF Verifying
  <2>5. /\ got \subseteq [name : trusted, bytes : {"trusted"}]
        /\ NamesOf(got) \cup NamesOf(left) = trusted
    BY <2>2 DEF IInv, VerifiedSoFar
  <2>6. a.name \in trusted
    BY <2>5 DEF NamesOf
  <2>7. got \cup {new} \subseteq [name : trusted, bytes : {"trusted"}]
    BY <2>5, <2>6
  <2>8. NamesOf(got \cup {new}) \cup NamesOf(left \ {a}) = trusted
    <3>1. NamesOf(got \cup {new}) = NamesOf(got) \cup {a.name}
      <4>1. new.name = a.name
        OBVIOUS
      <4> HIDE DEF new
      <4> QED
        BY <4>1 DEF NamesOf
    <3>2. NamesOf(left) = NamesOf(left \ {a}) \cup {a.name}
      BY DEF NamesOf
    <3> QED
      BY <2>5, <3>1, <3>2
  <2> HIDE DEF new
  <2> QED
    BY <1>1, <1>3, <2>2, <2>4, <2>7, <2>8, AtWork DEF VerifyAsset
<1>4. CASE VerifyWrites
  <2>1. job.pc = "verify" /\ UNCHANGED job /\ job.got \ verified # {}
    BY <1>4 DEF VerifyWrites
  <2>2. PICK a \in job.got : verified' = verified \cup {a}
    BY <1>4, <2>1 DEF VerifyWrites
  <2>3. verified' \subseteq [name : trusted, bytes : {"trusted"}]
    BY <2>1, <2>2 DEF IInv, VerifiedSoFar, VerifiedIsTrusted
  <2>4. JobTyped' /\ VerifiedSoFar'
    BY <1>4, <2>1 DEF VerifyWrites, IInv, JobTyped, VerifiedSoFar
  <2> QED
    BY <1>0, <1>4, <2>1, <2>3, <2>4, AtWork DEF VerifyWrites
<1>5. CASE VerifyDone
  <2>1. /\ job.got \subseteq verified /\ UNCHANGED verified
        /\ NamesOf(job.got) = trusted /\ job.pc = "verify"
    BY <1>5 DEF VerifyDone, IInv, VerifiedSoFar, NamesOf
  <2>2. verified \subseteq [name : trusted, bytes : {"trusted"}]
    BY DEF IInv, VerifiedIsTrusted
  <2>3. NamesOf(verified) = trusted
    <3>1. NamesOf(job.got) \subseteq NamesOf(verified)
      BY <2>1 DEF NamesOf
    <3>2. NamesOf(verified) \subseteq trusted
      BY <2>2 DEF NamesOf
    <3> QED
      BY <2>1, <3>1, <3>2
  <2>4. VerifiedIsTrusted'
    BY <1>5, <2>1, <2>2, <2>3 DEF VerifyDone, VerifiedIsTrusted, NamesOf
  <2> QED
    BY <1>5, <2>1, <2>4, AtWork, JobEnds DEF VerifyDone, Succeeds
<1> QED
  BY <1>2, <1>3, <1>4, <1>5

LEMMA FailStep ==
  ASSUME IInv, CommandFails \/ RefusedAtOnce
  PROVE  IInv'
<1>1. trusted # NoAssets /\ stage # "released" /\ Fails
  BY DEF CommandFails, RefusedAtOnce, Start, IInv, TrustedFirst
<1>2. stage' # "released"
  BY <1>1, GoesOn DEF Fails
<1> QED
  BY <1>1, <1>2, StillTrusted, JobEnds DEF Fails

\* A maintainer changes a release, which is then one that was touched, and makes none.
LEMMA ByHandStep ==
  ASSUME IInv, ByHand
  PROVE  IInv'
<1>1. PICK A : releases \in Seq(Releases(A))
  BY DEF IInv, ReleasesTyped
<1>2. PICK id \in Ids :
        \/ \E S : releases' = [releases EXCEPT ![id].byHand = TRUE, ![id].assets = S]
        \/ releases' = [releases EXCEPT ![id].byHand = TRUE, ![id].draft = FALSE]
        \/ releases' = [releases EXCEPT ![id].byHand = TRUE, ![id].here = FALSE]
  <2>1. PICK id \in Ids :
       \/ \E a \in releases[id].assets, b \in Bytes \ {"trusted"} :
            releases' = [releases EXCEPT ![id].byHand = TRUE, ![id].assets =
              (releases[id].assets \ {a}) \cup {[a EXCEPT !.bytes = b, !.id = changes + 1]}]
       \/ \E a \in releases[id].assets :
            releases' = [releases EXCEPT ![id].byHand = TRUE, ![id].assets = releases[id].assets \ {a}]
       \/ releases' = [releases EXCEPT ![id].byHand = TRUE, ![id].draft = FALSE]
       \/ releases' = [releases EXCEPT ![id].byHand = TRUE, ![id].here = FALSE]
    BY DEF ByHand
  <2> QED
    BY <2>1, Zenon
<1>3. There(id) /\ id \in DOMAIN releases /\ releases[id] \in Releases(A)
  BY <1>1 DEF Ids, There
<1>a. PICK B : \E r \in Releases(B) :
        /\ releases \in Seq(Releases(B)) /\ r.byHand
        /\ releases' = [releases EXCEPT ![id] = r]
  <2>1. ASSUME NEW S, releases' = [releases EXCEPT ![id].byHand = TRUE, ![id].assets = S]
        PROVE  \E B : \E r \in Releases(B) :
                 /\ releases \in Seq(Releases(B)) /\ r.byHand
                 /\ releases' = [releases EXCEPT ![id] = r]
    <3> DEFINE r == [releases[id] EXCEPT !.byHand = TRUE, !.assets = S]
    <3>1. PICK B : releases \in Seq(Releases(B)) /\ r \in Releases(B)
      BY <1>1, <1>3, Widened
    <3>2. releases' = [releases EXCEPT ![id] = r]
      BY <1>1, <1>3, <2>1
    <3>3. r.byHand
      BY <1>3 DEF Releases
    <3> HIDE DEF r
    <3> QED
      BY <3>1, <3>2, <3>3
  <2>2. CASE releases' = [releases EXCEPT ![id].byHand = TRUE, ![id].draft = FALSE]
    <3> DEFINE r == [releases[id] EXCEPT !.byHand = TRUE, !.draft = FALSE]
    <3>1. r \in Releases(A) /\ r.byHand
      BY <1>3 DEF Releases
    <3>2. releases' = [releases EXCEPT ![id] = r]
      BY <1>1, <1>3, <2>2
    <3> HIDE DEF r
    <3> QED
      BY <1>1, <3>1, <3>2
  <2>3. CASE releases' = [releases EXCEPT ![id].byHand = TRUE, ![id].here = FALSE]
    <3> DEFINE r == [releases[id] EXCEPT !.byHand = TRUE, !.here = FALSE]
    <3>1. r \in Releases(A) /\ r.byHand
      BY <1>3 DEF Releases
    <3>2. releases' = [releases EXCEPT ![id] = r]
      BY <1>1, <1>3, <2>3
    <3> HIDE DEF r
    <3> QED
      BY <1>1, <3>1, <3>2
  <2> QED
    BY <1>2, <2>1, <2>2, <2>3
<1>4. PICK r \in Releases(B) :
        /\ releases \in Seq(Releases(B)) /\ r.byHand
        /\ releases' = [releases EXCEPT ![id] = r]
  BY <1>a
<1>5. /\ ReleasesTyped' /\ Ids' \subseteq Ids /\ releases'[id] = r
      /\ \A i \in DOMAIN releases : i # id => releases'[i] = releases[i]
      /\ DOMAIN releases' = DOMAIN releases
  BY <1>3, <1>4, OneChanged
<1>6. trusted # NoAssets /\ UNCHANGED <<trusted, digests, stage, prepared, job, verified>>
  BY DEF ByHand, Change
<1>7. ReleasesFounded'
  BY <1>4, <1>5, <1>6 DEF IInv, ReleasesFounded, Founded, Ids, There, Uploaded
<1>8. JobFounded'
  <2>1. \A i : Untouched(i)' => Untouched(i) /\ releases'[i] = releases[i]
    BY <1>4, <1>5 DEF Untouched, There
  <2> QED
    BY <1>6, <2>1 DEF IInv, JobFounded, Uploaded
<1>9. JobTyped' /\ AtMostOne'
  BY <1>5, <1>6 DEF IInv, JobTyped, AtMostOne
<1> QED
  BY <1>5, <1>6, <1>7, <1>8, <1>9, ReleasesChange

\* The assets are handed over, beside an older draft or none.
LEMMA TrustStep ==
  ASSUME IInv, Trust
  PROVE  IInv'
<1>1. job = NoJob /\ verified = NoAssets /\ stage = "prepare"
  BY DEF Trust, IInv, TrustedFirst
<1>2. job' = NoJob /\ verified' = NoAssets /\ stage' = "prepare"
  BY <1>1 DEF Trust
<1>3. PICK S : releases' \in {<<>>, <<[Draft(S) EXCEPT !.target = "older"]>>}
  BY DEF Trust
<1> DEFINE r == [Draft(S) EXCEPT !.target = "older"]
<1>4. r \in Releases(S) /\ r.target = "older" /\ r.draft
  BY DEF Draft, Releases
<1>5. /\ releases' \in Seq(Releases(S)) /\ DOMAIN releases' \subseteq {1}
      /\ \A i \in DOMAIN releases' : releases'[i] = r
  <2> HIDE DEF r
  <2>1. /\ <<>> \in Seq(Releases(S)) /\ DOMAIN <<>> = {}
        /\ <<r>> \in Seq(Releases(S)) /\ DOMAIN <<r>> = {1} /\ <<r>>[1] = r
    BY <1>4
  <2>2. releases' \in {<<>>, <<r>>}
    BY <1>3 DEF r
  <2> QED
    BY <2>1, <2>2
<1>6. ReleasesTyped'
  BY <1>5 DEF ReleasesTyped
<1>7. job'.pc = "none" /\ JobTyped'
  BY <1>2 DEF NoJob, JobTyped, Waiting
<1>8. AtMostOne'
  BY <1>5, <1>7 DEF AtMostOne, Ids, There
<1>9. ReleasesFounded' /\ JobFounded'
  <2> HIDE DEF r
  <2> QED
    BY <1>4, <1>5, <1>7 DEF ReleasesFounded, Founded, JobFounded, Ids, There
<1> QED
  BY <1>2, <1>6, <1>7, <1>8, <1>9 DEF IInv, TrustedFirst, VerifiedSoFar, VerifiedIsTrusted, NoAssets

LEMMA Unchanged ==
  ASSUME IInv, UNCHANGED draftVars
  PROVE  IInv'
<1>1. UNCHANGED <<trusted, digests, releases, stage, prepared, job, verified>>
  BY DEF draftVars
<1>2. Ids' = Ids /\ Uploaded' = Uploaded
  BY <1>1 DEF Ids, There, Uploaded
<1>3. ReleasesFounded' /\ JobFounded'
  BY <1>1, <1>2 DEF IInv, ReleasesFounded, Founded, JobFounded, Untouched, There
<1> QED
  BY <1>1, <1>2, <1>3 DEF IInv, ReleasesTyped, JobTyped, TrustedFirst, AtMostOne,
    VerifiedSoFar, VerifiedIsTrusted, NamesOf

LEMMA StepOK == IInv /\ [Next]_vars => IInv'
<1> SUFFICES ASSUME IInv, [Next]_vars
             PROVE  IInv'
  OBVIOUS
<1>1. CASE UNCHANGED draftVars
  BY <1>1, Unchanged
<1>2. CASE DraftNext
  BY <1>2, PrepareStep, CreateStep, UploadStep, DownloadStep, PublishStep, VerifyStep,
    FailStep, ByHandStep DEF DraftNext
<1>3. CASE Trust
  BY <1>3, TrustStep
<1> QED
  BY <1>1, <1>2, <1>3 DEF Next, Build, vars

LEMMA Invariance == Spec => []IInv
<1> QED
  BY InitOK, StepOK, PTL DEF Spec

-----------------------------------------------------------------------------
\* However often prepare fails, loses an answer and runs again, there is one release of the
\* tag at most: a release is made only where none is (discoverExistingDraft, twice).
THEOREM OneRelease == Spec => []OneReleaseOfTheTag
<1>1. ASSUME IInv
      PROVE  OneReleaseOfTheTag
  <2>1. CASE Ids = {}
    BY <2>1, FS_EmptySet DEF OneReleaseOfTheTag
  <2>2. CASE Ids # {}
    <3>1. PICK id : id \in Ids
      BY <2>2
    <3>2. Ids = {id}
      BY <1>1, <3>1 DEF IInv, AtMostOne
    <3>3. Cardinality({id}) = 1
      BY FS_Singleton
    <3> QED
      BY <3>2, <3>3 DEF OneReleaseOfTheTag
  <2> QED
    BY <2>1, <2>2
<1> QED
  BY <1>1, Invariance, PTL

\* What the commands make public, if nobody has touched it, has every trusted asset: whatever
\* partial draft a lost answer, a failed upload or a run for another commit has left, and from
\* whichever command the workflow goes on (prepareDraft, publishDraft).
THEOREM PublicIsFounded == Spec => []PublicIsTrusted
<1>1. ASSUME IInv
      PROVE  PublicIsTrusted
  <2>1. ASSUME NEW id \in PublicReleases, ~releases[id].byHand
        PROVE  releases[id].target = "commit" /\ releases[id].assets = Uploaded
    <3>1. id \in Ids /\ ~releases[id].draft
      BY DEF PublicReleases, Drafts
    <3> QED
      BY <1>1, <2>1, <3>1 DEF IInv, ReleasesFounded, Founded
  <2> QED
    BY <2>1 DEF PublicIsTrusted
<1> QED
  BY <1>1, Invariance, PTL

\* What verify-public writes is every trusted asset, byte for byte, though each is fetched
\* by a request of its own while releases change (verifyPublicRelease).
THEOREM VerifiesEveryAsset == Spec => []VerifiedIsTrusted
<1>1. IInv => VerifiedIsTrusted
  BY DEF IInv
<1> QED
  BY <1>1, Invariance, PTL

-----------------------------------------------------------------------------
(* The bundles: what is locked is what is fetched, zipped, tested and       *)
(* rendered.                                                                *)

Parts == {Components[i] : i \in 1..5}
ExpectedPart(content) == content.version = Expected

\* The lock names the expected versions; only the Runner's content is of any version.
LockPinned ==
  /\ \E H : lock \in [Parts -> [version : {Expected}, hash : H]]
  /\ \A c \in Parts \ {"runner"} : ExpectedPart(lock[c].hash)

\* What the addresses have served so far is what the lock names.
Fetched(staged) ==
  /\ staged \in Seq({lock[c].hash : c \in Parts}) /\ Len(staged) <= 5
  /\ \A i \in 1..Len(staged) : staged[i] = lock[Components[i]].hash /\ ExpectedPart(staged[i])

\* What render has staged, or left as the output, can be installed.
Installable(assets) ==
  /\ Leads(assets)
  /\ \A n \in DOMAIN assets : n[1] = "bundle" => HoldsLockedParts(assets[n])

\* The files of the diagnostics directory.
Kept == {"run", "projected", "html", "excel", "result"}

\* The reports that the Runner has written are of its run.
Written(n, files) == \A f \in files : diag[f] = n
RunnerHolds(n, left) ==
  \/ left = <<"run", "projected", "html", "excel">>
  \/ left = <<"projected", "html", "excel">> /\ Written(n, {"run"})
  \/ left = <<"html", "excel">> /\ Written(n, {"run", "projected"})
  \/ left = <<"excel">> /\ Written(n, {"run", "projected", "html"})
  \/ left = <<>> /\ Written(n, {"run", "projected", "html", "excel"})

\* What the tool at work holds.
ToolHolds ==
  /\ tool.pc = "fetch" =>
       \E a \in Archs : \E staged :
         tool = [pc |-> "fetch", arch |-> a, staged |-> staged] /\ Fetched(staged)
  /\ tool.pc \in {"zip", "companion", "sums"} =>
       \E a \in Archs : \E archive :
         tool = [pc |-> tool.pc, arch |-> a, archive |-> archive] /\ HoldsLockedParts(archive)
  /\ tool.pc = "run" =>
       \E n, left : tool = [pc |-> "run", run |-> n, left |-> left] /\ RunnerHolds(n, left)
  /\ tool.pc = "validate" => (tool.code = 0 => Written(tool.run, {"projected", "html", "excel"}))
  /\ tool.pc = "render" => Installable(tool.staged)

\* Every archive of the directory holds what its lock names.
DirTyped(V) == dir \in [archive : [Archs -> V], companion : [Archs -> V], sums : V]
DirHolds ==
  /\ \E V : DirTyped(V)
  /\ \A a \in Archs : dir.archive[a] # Absent => HoldsLockedParts(dir.archive[a])

BundleInv ==
  /\ LockPinned /\ ToolHolds /\ DirHolds
  /\ DOMAIN diag = Kept
  /\ InstallersLeadToBundles /\ SmokeVouches

LEMMA BundleStarts == Init => BundleInv
<1> SUFFICES ASSUME Init
             PROVE  BundleInv
  OBVIOUS
<1>1. /\ tool = Idle /\ dir = NoBundles /\ diag = NoReports /\ output = Absent
      /\ lock = [c \in Parts |-> [version |-> Expected, hash |-> Content(c, Expected, 1)]]
  BY DEF Init, BundleInit, Parts
<1>2. LockPinned
  <2> DEFINE H == {Content(c, Expected, 1) : c \in Parts}
  <2>1. lock \in [Parts -> [version : {Expected}, hash : H]]
    BY <1>1
  <2>2. \A c \in Parts : ExpectedPart(lock[c].hash)
    BY <1>1 DEF ExpectedPart, Content
  <2> HIDE DEF H
  <2> QED
    BY <2>1, <2>2 DEF LockPinned
<1>3. ToolHolds
  BY <1>1 DEF ToolHolds, Idle
<1>4. DirHolds
  <2>1. DirTyped({Absent}) /\ \A a \in Archs : dir.archive[a] = Absent
    BY <1>1 DEF DirTyped, NoBundles
  <2> QED
    BY <2>1 DEF DirHolds
<1>5. DOMAIN diag = Kept /\ diag.result = Absent
  BY <1>1 DEF NoReports, Kept
<1> QED
  BY <1>1, <1>2, <1>3, <1>4, <1>5 DEF BundleInv, InstallersLeadToBundles, SmokeVouches

\* A tool that holds nothing, beside everything as it was.
LEMMA OnlyTheTool ==
  ASSUME BundleInv, UNCHANGED <<lock, dir, diag, output>>, ToolHolds'
  PROVE  BundleInv'
BY DEF BundleInv, LockPinned, DirHolds, DirTyped, InstallersLeadToBundles, SmokeVouches

Unloaded == tool'.pc \notin {"fetch", "zip", "companion", "sums", "run", "validate", "render"}

LEMMA UnloadedHolds == Unloaded => ToolHolds'
BY DEF Unloaded, ToolHolds

\* The lock changes only while no tool is at work, and keeps its versions.
LEMMA EditLockStep ==
  ASSUME BundleInv, EditLock, UNCHANGED output
  PROVE  BundleInv'
<1>1. tool = Idle /\ UNCHANGED <<dir, diag, tool>>
  BY DEF EditLock, Edit
<1>2. PICK h : lock' = [lock EXCEPT !["runner"].hash = h]
  BY DEF EditLock
<1>3. PICK H : lock \in [Parts -> [version : {Expected}, hash : H]]
  BY DEF BundleInv, LockPinned
<1>4. "runner" \in Parts
  <2>1. 2 \in 1..5 /\ Components[2] = "runner"
    BY DEF Components
  <2> QED
    BY <2>1 DEF Parts
<1>5. lock' \in [Parts -> [version : {Expected}, hash : H \cup {h}]]
  BY <1>2, <1>3, <1>4
<1>6. \A c \in Parts \ {"runner"} : lock'[c] = lock[c]
  BY <1>2, <1>3
<1>7. LockPinned'
  BY <1>5, <1>6 DEF BundleInv, LockPinned
<1>8. ToolHolds'
  BY <1>1 DEF ToolHolds, Idle
<1> QED
  BY <1>1, <1>7, <1>8 DEF BundleInv, DirHolds, DirTyped, InstallersLeadToBundles, SmokeVouches

\* The tools that work on nothing of the bundles, and the ends of all.
Plain ==
  \/ EditSource \/ PackRunner \/ PackRunnerArchive \/ PackRunnerChecksum \/ PackRunnerManifest
  \/ StartSmoke \/ StopTool
LEMMA PlainStep ==
  ASSUME BundleInv, Plain, UNCHANGED output
  PROVE  BundleInv'
<1>1. UNCHANGED <<lock, dir, diag>>
  BY DEF Plain, EditSource, PackRunner, PackRunnerArchive, PackRunnerChecksum, PackRunnerManifest,
    StartSmoke, StopTool
<1>2. Unloaded
  BY DEF Plain, EditSource, PackRunner, PackRunnerArchive, PackRunnerChecksum, PackRunnerManifest,
    StartSmoke, StopTool, Edit, Idle, Unloaded
<1> QED
  BY <1>1, <1>2, UnloadedHolds, OnlyTheTool

-----------------------------------------------------------------------------
\* Only the locked content of the expected version is taken, component by component.
LEMMA FetchStep ==
  ASSUME BundleInv, BuildBundle \/ Fetch, UNCHANGED output
  PROVE  BundleInv'
<1>1. UNCHANGED <<lock, dir, diag>>
  BY DEF BuildBundle, Fetch
<1>2. ASSUME NEW a \in Archs, NEW staged, Fetched(staged), tool' = [pc |-> "fetch", arch |-> a, staged |-> staged]
      PROVE  BundleInv'
  <2>1. Fetched(staged)'
    BY <1>1, <1>2 DEF Fetched
  <2>2. ToolHolds'
    BY <1>2, <2>1 DEF ToolHolds
  <2> QED
    BY <1>1, <2>2, OnlyTheTool
<1>3. CASE BuildBundle
  <2>1. Fetched(<<>>)
    BY DEF Fetched
  <2> QED
    BY <1>2, <1>3, <2>1 DEF BuildBundle
<1>4. CASE Fetch
  <2>0. PICK a \in Archs : \E staged :
          tool = [pc |-> "fetch", arch |-> a, staged |-> staged] /\ Fetched(staged)
    BY <1>4 DEF Fetch, BundleInv, ToolHolds
  <2>1. PICK staged :
          tool = [pc |-> "fetch", arch |-> a, staged |-> staged] /\ Fetched(staged)
    BY <2>0
  <2> DEFINE n == Len(staged) + 1
             c == Components[n]
  <2>2. /\ tool.staged = staged /\ Len(staged) \in Nat /\ Len(staged) < 5
        /\ Len(Components) = 5 /\ n \in 1..5
    BY <1>4, <2>1 DEF Fetch, Fetched, Components
  <2>3. PICK content : /\ VerifyArchive(c, content) /\ VerifyIdentity(c, content)
                       /\ tool' = [tool EXCEPT !.staged = Append(staged, content)]
    BY <1>4, <2>2 DEF Fetch
  <2>4. c \in Parts
    BY <2>2 DEF Parts
  <2> HIDE DEF c
  <2>5. content = lock[c].hash /\ ExpectedPart(content)
    <3>1. content = lock[c].hash
      BY <2>3 DEF VerifyArchive
    <3>2. lock[c].version = Expected
      BY <2>4 DEF BundleInv, LockPinned
    <3>3. CASE c = "runner"
      BY <2>3, <3>1, <3>2, <3>3 DEF VerifyIdentity, ExpectedPart
    <3>4. CASE c # "runner"
      BY <2>4, <3>1, <3>4 DEF BundleInv, LockPinned
    <3> QED
      BY <3>1, <3>3, <3>4
  <2> DEFINE more == Append(staged, content)
  <2>6. tool' = [pc |-> "fetch", arch |-> a, staged |-> more]
    BY <2>1, <2>3
  <2>7. Fetched(more)
    <3> DEFINE Hashes == {lock[d].hash : d \in Parts}
    <3>1. content \in Hashes
      BY <2>4, <2>5
    <3>2. staged \in Seq(Hashes)
      BY <2>1 DEF Fetched
    <3> HIDE DEF Hashes
    <3>3. /\ more \in Seq(Hashes) /\ Len(more) = n /\ more[n] = content
          /\ \A i \in 1..Len(staged) : more[i] = staged[i]
      BY <2>2, <3>1, <3>2
    <3>4. \A i \in 1..Len(staged) : staged[i] = lock[Components[i]].hash /\ ExpectedPart(staged[i])
      BY <2>1 DEF Fetched
    <3>5. more[n] = lock[Components[n]].hash /\ ExpectedPart(more[n])
      BY <2>5, <3>3 DEF c
    <3> HIDE DEF more
    <3>6. \A i \in 1..Len(more) : more[i] = lock[Components[i]].hash /\ ExpectedPart(more[i])
      <4>1. ASSUME NEW i \in 1..Len(more)
            PROVE  i = n \/ i \in 1..Len(staged)
        BY <2>2, <3>3
      <4> QED
        BY <3>3, <3>4, <3>5, <4>1
    <3> QED
      BY <2>2, <3>3, <3>6 DEF Fetched, Hashes
  <2> HIDE DEF more
  <2> QED
    BY <1>2, <2>6, <2>7
<1> QED
  BY <1>3, <1>4

\* The two files of an architecture are replaced one after the other.
LEMMA DirChanged ==
  ASSUME NEW V, DirTyped(V), NEW a \in Archs, NEW v,
         \/ dir' = [dir EXCEPT !.archive[a] = v]
         \/ dir' = [dir EXCEPT !.companion[a] = v] \/ dir' = [dir EXCEPT !.sums = v]
  PROVE  /\ \E W : DirTyped(W)'
         /\ \A b \in Archs : dir'.archive[b] \in {dir.archive[b], v}
<1> DEFINE W == V \cup {v}
<1>1. dir.archive \in [Archs -> V] /\ dir.companion \in [Archs -> V] /\ dir.sums \in V
  BY DEF DirTyped
<1>2. DirTyped(W)' /\ \A b \in Archs : dir'.archive[b] \in {dir.archive[b], v}
  <2>1. CASE dir' = [dir EXCEPT !.archive[a] = v]
    BY <1>1, <2>1 DEF DirTyped
  <2>2. CASE dir' = [dir EXCEPT !.companion[a] = v]
    BY <1>1, <2>2 DEF DirTyped
  <2>3. CASE dir' = [dir EXCEPT !.sums = v]
    BY <1>1, <2>3 DEF DirTyped
  <2> QED
    BY <2>1, <2>2, <2>3
<1> QED
  BY <1>2

LEMMA DirStep ==
  ASSUME BundleInv, UNCHANGED <<lock, diag, output>>, ToolHolds', NEW a \in Archs, NEW v,
         \/ dir' = [dir EXCEPT !.archive[a] = v] /\ (v = Absent \/ HoldsLockedParts(v))
         \/ dir' = [dir EXCEPT !.companion[a] = v] \/ dir' = [dir EXCEPT !.sums = v]
  PROVE  BundleInv'
<1>1. PICK V : DirTyped(V)
  BY DEF BundleInv, DirHolds
<1>2. \E W : DirTyped(W)'
  BY <1>1, DirChanged
<1>3. ASSUME NEW b \in Archs, dir'.archive[b] # Absent
      PROVE  HoldsLockedParts(dir'.archive[b])
  <2>1. dir.archive[b] # Absent => HoldsLockedParts(dir.archive[b])
    BY DEF BundleInv, DirHolds
  <2>2. CASE dir' = [dir EXCEPT !.archive[a] = v] /\ (v = Absent \/ HoldsLockedParts(v))
    <3>1. dir'.archive[b] \in {dir.archive[b], v}
      BY <1>1, <2>2, DirChanged
    <3> QED
      BY <1>3, <2>1, <2>2, <3>1
  <2>3. CASE dir' = [dir EXCEPT !.companion[a] = v] \/ dir' = [dir EXCEPT !.sums = v]
    <3>1. dir'.archive[b] = dir.archive[b]
      BY <1>1, <2>3 DEF DirTyped
    <3> QED
      BY <1>3, <2>1, <3>1
  <2> QED
    BY <2>2, <2>3
<1>4. DirHolds'
  BY <1>2, <1>3 DEF DirHolds
<1> QED
  BY <1>4 DEF BundleInv, LockPinned, InstallersLeadToBundles, SmokeVouches

LEMMA ConcatBegins ==
  ASSUME NEW S, NEW s \in Seq(S), NEW t \in Seq(S)
  PROVE  \A i \in 1..Len(s) : (s \o t)[i] = s[i]
<1>1. Len(s) \in Nat /\ Len(t) \in Nat
  OBVIOUS
<1>2. \A i \in 1..Len(s) + Len(t) : (s \o t)[i] = IF i <= Len(s) THEN s[i] ELSE t[i - Len(s)]
  BY ConcatProperties
<1>3. ASSUME NEW i \in 1..Len(s)
      PROVE  i \in 1..Len(s) + Len(t) /\ i <= Len(s)
  BY <1>1
<1> QED
  BY <1>2, <1>3

\* The bundle is what was fetched, and its manifest lists it.
LEMMA AssembleStep ==
  ASSUME BundleInv, Assemble, UNCHANGED output
  PROVE  BundleInv'
<1>0. PICK a \in Archs : \E staged :
        tool = [pc |-> "fetch", arch |-> a, staged |-> staged] /\ Fetched(staged)
  BY DEF Assemble, BundleInv, ToolHolds
<1>1. PICK staged :
        tool = [pc |-> "fetch", arch |-> a, staged |-> staged] /\ Fetched(staged)
  BY <1>0
<1> DEFINE manifest == WriteBundleManifest(staged, a)
           archive == [manifest |-> manifest, files |-> manifest.files]
<1>2. tool' = [pc |-> "zip", arch |-> a, archive |-> archive] /\ Len(staged) = 5
  BY <1>1 DEF Assemble, Components
<1>3. /\ archive.files = archive.manifest.files /\ archive.manifest.lock = lock
      /\ archive.files = staged \o <<Content("skill", Expected, source)>>
  BY DEF WriteBundleManifest
<1>4. \A i \in 1..5 : archive.files[i] = staged[i]
  <2> DEFINE Hashes == {lock[d].hash : d \in Parts}
             skill == Content("skill", Expected, source)
             All6 == Hashes \cup {skill}
  <2>1. staged \in Seq(All6) /\ <<skill>> \in Seq(All6) /\ Len(<<skill>>) = 1
    <3>1. staged \in Seq(Hashes)
      BY <1>1 DEF Fetched
    <3> HIDE DEF Hashes, skill
    <3> QED
      BY <3>1, SeqWider
  <2> HIDE DEF All6, skill
  <2>2. \A i \in 1..Len(staged) : (staged \o <<skill>>)[i] = staged[i]
    BY <2>1, ConcatBegins
  <2> QED
    BY <1>2, <1>3, <2>2 DEF skill
<1>5. HoldsLockedParts(archive)
  <2>1. DOMAIN Components = 1..5
    BY DEF Components
  <2>2. \A i \in 1..5 : staged[i] = lock[Components[i]].hash /\ ExpectedPart(staged[i])
    BY <1>1, <1>2 DEF Fetched
  <2> HIDE DEF archive
  <2> QED
    BY <1>3, <1>4, <2>1, <2>2 DEF HoldsLockedParts, ExpectedPart
<1> HIDE DEF archive
<1>6. ToolHolds'
  BY <1>2, <1>5 DEF ToolHolds
<1>7. dir' = [dir EXCEPT !.archive[a] = Absent] /\ UNCHANGED <<lock, diag>>
  BY <1>1 DEF Assemble
<1> QED
  BY <1>6, <1>7, DirStep

LEMMA ZipStep ==
  ASSUME BundleInv, CreateZip \/ WriteCompanion \/ WriteSums, UNCHANGED output
  PROVE  BundleInv'
<1>0. PICK a \in Archs : \E archive :
        tool = [pc |-> tool.pc, arch |-> a, archive |-> archive] /\ HoldsLockedParts(archive)
  BY DEF CreateZip, WriteCompanion, WriteSums, BundleInv, ToolHolds
<1>1. PICK archive :
        tool = [pc |-> tool.pc, arch |-> a, archive |-> archive] /\ HoldsLockedParts(archive)
  BY <1>0
<1>2. tool.arch = a /\ tool.archive = archive /\ UNCHANGED <<lock, diag>>
  BY <1>1 DEF CreateZip, WriteCompanion, WriteSums
<1>3. ASSUME NEW place \in {"companion", "sums"}, tool' = [tool EXCEPT !.pc = place]
      PROVE  ToolHolds'
  <2>1. tool' = [pc |-> place, arch |-> a, archive |-> archive]
    BY <1>1, <1>3
  <2> QED
    BY <1>1, <2>1 DEF ToolHolds
<1>4. CASE CreateZip
  <2>1. dir' = [dir EXCEPT !.archive[a] = archive] /\ ToolHolds'
    BY <1>2, <1>3, <1>4 DEF CreateZip
  <2> QED
    BY <1>1, <1>2, <2>1, DirStep
<1>5. CASE WriteCompanion
  <2>1. (\E v : dir' = [dir EXCEPT !.companion[a] = v]) /\ ToolHolds'
    BY <1>2, <1>3, <1>5 DEF WriteCompanion
  <2> QED
    BY <1>2, <2>1, DirStep
<1>6. CASE WriteSums
  <2>1. Unloaded /\ \E v : dir' = [dir EXCEPT !.sums = v]
    BY <1>6 DEF WriteSums, Unloaded, Idle
  <2> QED
    BY <1>2, <2>1, UnloadedHolds, DirStep
<1> QED
  BY <1>4, <1>5, <1>6

-----------------------------------------------------------------------------
\* The Runner writes report after report over what it found, and a smoke test says ok only
\* when it has come to its end.
LEMMA SmokeStep ==
  ASSUME BundleInv, RunSmoke \/ RunnerWrites \/ RunnerEnds \/ PassSmoke \/ FailSmoke,
         UNCHANGED output
  PROVE  BundleInv'
<1>1. UNCHANGED <<lock, dir>>
  BY DEF RunSmoke, RunnerWrites, RunnerEnds, PassSmoke, FailSmoke
<1>2. ASSUME ToolHolds', DOMAIN diag' = Kept, SmokeVouches'
      PROVE  BundleInv'
  BY <1>1, <1>2 DEF BundleInv, LockPinned, DirHolds, DirTyped, InstallersLeadToBundles
<1>3. DOMAIN diag = Kept /\ "result" \in Kept
  BY DEF BundleInv, Kept
<1>4. ASSUME diag'.result = diag.result
      PROVE  SmokeVouches'
  BY <1>4 DEF BundleInv, SmokeVouches
<1>5. CASE RunSmoke
  <2>1. tool' = [pc |-> "run", run |-> tool.run, left |-> Reports] /\ UNCHANGED diag
    BY <1>5 DEF RunSmoke
  <2>2. ToolHolds'
    BY <2>1 DEF ToolHolds, RunnerHolds, Reports
  <2> QED
    BY <1>2, <1>3, <1>4, <2>1, <2>2
<1>6. CASE RunnerWrites
  <2>0. PICK n, left : tool = [pc |-> "run", run |-> n, left |-> left] /\ RunnerHolds(n, left)
    BY <1>6 DEF RunnerWrites, BundleInv, ToolHolds
  <2>1. /\ left # <<>> /\ diag' = [diag EXCEPT ![Head(left)] = n]
        /\ tool' = [pc |-> "run", run |-> n, left |-> Tail(left)]
    BY <1>6, <2>0 DEF RunnerWrites
  <2>2. /\ DOMAIN diag' = Kept
        /\ \A f \in Kept : diag'[f] = IF f = Head(left) THEN n ELSE diag[f]
    BY <1>3, <2>1
  <2>3. ASSUME NEW first, NEW rest, NEW before \in SUBSET Kept, first \in Kept \ {"result"},
               Head(left) = first, Tail(left) = rest, Written(n, before)
        PROVE  (\A f \in before \cup {first} : diag'[f] = n) /\ diag'.result = diag.result
    BY <1>3, <2>2, <2>3 DEF Written
  <2>4. (\E rest : tool' = [pc |-> "run", run |-> n, left |-> rest] /\ RunnerHolds(n, rest)')
        /\ diag'.result = diag.result
    <3>1. CASE left = <<"run", "projected", "html", "excel">>
      <4>1. Head(left) = "run" /\ Tail(left) = <<"projected", "html", "excel">>
        BY <3>1
      <4>2. diag'["run"] = n /\ diag'.result = diag.result
        BY <1>3, <2>2, <4>1 DEF Kept
      <4> QED
        BY <2>1, <4>1, <4>2 DEF RunnerHolds, Written
    <3>2. CASE left = <<"projected", "html", "excel">> /\ Written(n, {"run"})
      <4>1. Head(left) = "projected" /\ Tail(left) = <<"html", "excel">>
        BY <3>2
      <4>2. (\A f \in {"run"} \cup {"projected"} : diag'[f] = n) /\ diag'.result = diag.result
        BY <2>3, <3>2, <4>1 DEF Kept
      <4> QED
        BY <2>1, <4>1, <4>2 DEF RunnerHolds, Written
    <3>3. CASE left = <<"html", "excel">> /\ Written(n, {"run", "projected"})
      <4>1. Head(left) = "html" /\ Tail(left) = <<"excel">>
        BY <3>3
      <4>2. (\A f \in {"run", "projected"} \cup {"html"} : diag'[f] = n) /\ diag'.result = diag.result
        BY <2>3, <3>3, <4>1 DEF Kept
      <4> QED
        BY <2>1, <4>1, <4>2 DEF RunnerHolds, Written
    <3>4. CASE left = <<"excel">> /\ Written(n, {"run", "projected", "html"})
      <4>1. Head(left) = "excel" /\ Tail(left) = <<>>
        BY <3>4
      <4>2. (\A f \in {"run", "projected", "html"} \cup {"excel"} : diag'[f] = n)
            /\ diag'.result = diag.result
        BY <2>3, <3>4, <4>1 DEF Kept
      <4> QED
        BY <2>1, <4>1, <4>2 DEF RunnerHolds, Written
    <3> QED
      BY <2>0, <2>1, <3>1, <3>2, <3>3, <3>4 DEF RunnerHolds
  <2>5. ToolHolds'
    BY <2>4 DEF ToolHolds
  <2> QED
    BY <1>2, <1>4, <2>2, <2>4, <2>5
<1>7. CASE RunnerEnds
  <2>0. PICK n, left : tool = [pc |-> "run", run |-> n, left |-> left] /\ RunnerHolds(n, left)
    BY <1>7 DEF RunnerEnds, BundleInv, ToolHolds
  <2>1. PICK code \in {0, 1}, visited \in BOOLEAN, takenBack \in BOOLEAN :
          /\ code = 0 => tool.left = <<>>
          /\ tool' = [pc |-> "validate", run |-> tool.run, code |-> code, visited |-> visited]
          /\ diag' = IF takenBack THEN [diag EXCEPT !["run"] = 0] ELSE diag
    BY <1>7 DEF RunnerEnds
  <2>2. DOMAIN diag' = Kept /\ \A f \in Kept \ {"run"} : diag'[f] = diag[f]
    BY <1>3, <2>1
  <2>3. code = 0 => \A f \in {"projected", "html", "excel"} : diag[f] = n
    BY <2>0, <2>1 DEF RunnerHolds, Written
  <2>4. code = 0 => Written(n, {"projected", "html", "excel"})'
    BY <2>2, <2>3 DEF Written, Kept
  <2>5. tool'.pc = "validate" /\ tool'.code = code /\ tool'.run = n
    BY <2>0, <2>1
  <2>6. ToolHolds'
    BY <2>4, <2>5 DEF ToolHolds, Written
  <2> QED
    BY <1>2, <1>4, <2>2, <2>6 DEF Kept
<1>8. CASE PassSmoke
  <2>1. /\ Unloaded /\ DOMAIN diag' = Kept /\ diag'.result = SmokeResult
    BY <1>3, <1>8 DEF PassSmoke, Unloaded, Idle
  <2>2. /\ diag["projected"] = tool.run
        /\ \A f \in {"run", "html", "excel"} : diag[f] = diag["projected"]
    BY <1>8 DEF PassSmoke, BundleInv, ToolHolds, RanWell, ValidateSmokeArtifacts, Written
  <2>3. \A i \in DOMAIN Reports : Reports[i] \in {"run", "projected", "html", "excel"}
    BY DEF Reports
  <2>4. \A i \in DOMAIN SmokeResult.reports : SmokeResult.reports[i] = SmokeResult.performed
    BY <2>2, <2>3 DEF SmokeResult
  <2>5. SmokeVouches'
    BY <2>1, <2>4 DEF SmokeVouches
  <2> QED
    BY <1>2, <2>1, <2>5, UnloadedHolds
<1>9. CASE FailSmoke
  <2>1. Unloaded /\ DOMAIN diag' = Kept /\ diag'.result = [ok |-> FALSE]
    BY <1>3, <1>9 DEF FailSmoke, Unloaded, Idle
  <2> QED
    BY <1>2, <2>1, UnloadedHolds DEF SmokeVouches
<1> QED
  BY <1>5, <1>6, <1>7, <1>8, <1>9

-----------------------------------------------------------------------------
(* The installers.                                                          *)

\* Bundles and companions that were validated one by one.
Valid(archs) ==
  \A a \in archs : /\ ValidateCompanion(dir.companion[a], dir.archive[a], a)
                   /\ ValidatePayload(dir.archive[a].manifest, a)

\* The names of the assets are different from one another.
LEMMA NamesDiffer ==
  ASSUME NEW archs
  PROVE  /\ \A a \in archs : /\ BundleName(a)[1] = "bundle" /\ BundleName(a)[2] = a
                            /\ CompanionName(a)[1] = "companion" /\ CompanionName(a)[2] = a
         /\ \A n \in {Complete, Cmd, Generic, All, Sums} : n[1] \notin {"bundle", "companion"}
         /\ Complete \notin {Cmd, Generic, All, Sums} /\ Cmd \notin {Generic, All, Sums}
         /\ Generic \notin {All, Sums} /\ All # Sums
BY DEF BundleName, CompanionName, Complete, Cmd, Generic, All, Sums

\* What the asset of each name is.
LEMMA AssetsAre ==
  ASSUME NEW archs
  PROVE  /\ \A a \in archs : /\ AssetOf(BundleName(a), archs) = dir.archive[a]
                            /\ AssetOf(CompanionName(a), archs) = dir.companion[a]
         /\ LET complete == CompleteInstaller(archs) IN
              /\ AssetOf(Complete, archs) = complete
              /\ AssetOf(Cmd, archs) = CmdInstaller(complete)
              /\ AssetOf(Generic, archs) = GenericInstaller(complete)
              /\ AssetOf(All, archs) = AllInstaller(GenericInstaller(complete), complete)
<1>1. ASSUME NEW a \in archs
      PROVE  /\ AssetOf(BundleName(a), archs) = dir.archive[a]
             /\ AssetOf(CompanionName(a), archs) = dir.companion[a]
  <2>1. BundleName(a)[1] = "bundle" /\ BundleName(a)[2] = a
    BY NamesDiffer
  <2>2. CompanionName(a)[1] = "companion" /\ CompanionName(a)[2] = a
    BY NamesDiffer
  <2>3. BundleName(a) \notin {Complete, Cmd, Generic, All} /\ CompanionName(a) \notin {Complete, Cmd, Generic, All}
    BY <2>1, <2>2, NamesDiffer
  <2> QED
    BY <2>1, <2>2, <2>3 DEF AssetOf
<1>2. /\ AssetOf(Complete, archs) = CompleteInstaller(archs)
      /\ AssetOf(Cmd, archs) = CmdInstaller(CompleteInstaller(archs))
      /\ AssetOf(Generic, archs) = GenericInstaller(CompleteInstaller(archs))
      /\ AssetOf(All, archs) = AllInstaller(GenericInstaller(CompleteInstaller(archs)), CompleteInstaller(archs))
  BY NamesDiffer DEF AssetOf
<1> QED
  BY <1>1, <1>2

\* What is rendered of them leads from each installer to the bundles.
LEMMA RenderedLeads ==
  ASSUME NEW archs, Valid(archs)
  PROVE  LET made == WithSums(Assets(archs)) IN
         /\ Leads(made)
         /\ \A n \in DOMAIN made : n[1] = "bundle" => \E a \in archs : made[n] = dir.archive[a]
<1> DEFINE made == WithSums(Assets(archs))
           complete == CompleteInstaller(archs)
<1>1. /\ DOMAIN made = Names(archs) \cup {Sums}
      /\ \A n \in Names(archs) \ {Sums} : made[n] = AssetOf(n, archs)
  BY DEF WithSums, Assets
<1>2. ASSUME NEW a \in archs
      PROVE  /\ made[BundleName(a)] = dir.archive[a]
             /\ made[CompanionName(a)] = dir.companion[a]
  <2>1. BundleName(a) \in Names(archs) \ {Sums} /\ CompanionName(a) \in Names(archs) \ {Sums}
    BY NamesDiffer DEF Names
  <2> HIDE DEF made
  <2> QED
    BY <1>1, <2>1, AssetsAre
<1>3. /\ made[Complete] = complete /\ made[Cmd] = CmdInstaller(complete)
      /\ made[Generic] = GenericInstaller(complete)
      /\ made[All] = AllInstaller(GenericInstaller(complete), complete)
  <2>1. {Complete, Cmd, Generic, All} \subseteq Names(archs) \ {Sums}
    BY NamesDiffer DEF Names
  <2> HIDE DEF made
  <2> QED
    BY <1>1, <2>1, AssetsAre
<1>4. /\ complete.companions = [a \in archs |-> dir.companion[a]]
      /\ CmdInstaller(complete).complete = complete /\ GenericInstaller(complete).complete = complete
      /\ AllInstaller(GenericInstaller(complete), complete).complete = complete
      /\ AllInstaller(GenericInstaller(complete), complete).generic = GenericInstaller(complete)
  BY DEF CompleteInstaller, CmdInstaller, GenericInstaller, AllInstaller
<1>5. {n \in DOMAIN made : n[1] = "companion"} = {CompanionName(a) : a \in archs}
  <2>1. ASSUME NEW n \in DOMAIN made, n[1] = "companion"
        PROVE  n \in {CompanionName(a) : a \in archs}
    BY <1>1, <2>1, NamesDiffer DEF Names
  <2>2. ASSUME NEW a \in archs
        PROVE  CompanionName(a) \in DOMAIN made /\ CompanionName(a)[1] = "companion"
    BY <1>1, NamesDiffer DEF Names
  <2> HIDE DEF made
  <2> QED
    BY <2>1, <2>2
<1>6. ASSUME NEW n \in DOMAIN made, n[1] = "bundle"
      PROVE  \E a \in archs : made[n] = dir.archive[a]
  <2>1. PICK a \in archs : n = BundleName(a)
    BY <1>1, <1>6, NamesDiffer DEF Names
  <2> QED
    BY <1>2, <2>1
<1> HIDE DEF made, complete
<1>7. made[All].complete = complete /\ DOMAIN complete.companions = archs
  BY <1>3, <1>4
<1>8. ASSUME NEW a \in archs
      PROVE  /\ made[CompanionName(a)] = complete.companions[a]
             /\ made[BundleName(a)] = complete.companions[a].archive
             /\ made[BundleName(a)].manifest.arch = a
             /\ made[BundleName(a)].manifest = complete.companions[a].payload
  <2>1. complete.companions[a] = dir.companion[a]
    BY <1>4
  <2>2. /\ dir.companion[a].archive = dir.archive[a] /\ dir.companion[a].payload = dir.archive[a].manifest
        /\ dir.archive[a].manifest.arch = a
    BY DEF Valid, ValidateCompanion, ValidatePayload
  <2> QED
    BY <1>2, <2>1, <2>2
<1>9. Leads(made)
  <2>1. made[Generic] = made[All].generic /\ made[Complete] = made[All].complete
    BY <1>3, <1>4
  <2>2. made[Generic].complete = made[All].complete /\ made[Cmd].complete = made[All].complete
    BY <1>3, <1>4
  <2>3. {n \in DOMAIN made : n[1] = "companion"} = {CompanionName(a) : a \in DOMAIN made[All].complete.companions}
    BY <1>5, <1>7
  <2>4. \A a \in DOMAIN made[All].complete.companions :
          /\ made[CompanionName(a)] = made[All].complete.companions[a]
          /\ made[BundleName(a)] = made[All].complete.companions[a].archive
          /\ made[BundleName(a)].manifest.arch = a
          /\ made[BundleName(a)].manifest = made[All].complete.companions[a].payload
    BY <1>7, <1>8
  <2> QED
    BY <2>1, <2>2, <2>3, <2>4, Zenon DEF Leads
<1> QED
  BY <1>6, <1>9 DEF made

LEMMA RenderStep ==
  ASSUME BundleInv, Render \/ RenameOutput
  PROVE  BundleInv'
<1>1. CASE Render
  <2>1. PICK archs \in SUBSET Archs :
          Valid(archs) /\ tool' = [pc |-> "render", staged |-> WithSums(Assets(archs))]
    BY <1>1 DEF Render, Valid
  <2> DEFINE made == WithSums(Assets(archs))
  <2>2. /\ Leads(made)
        /\ \A n \in DOMAIN made : n[1] = "bundle" => \E a \in archs : made[n] = dir.archive[a]
    BY <2>1, RenderedLeads
  <2>3. tool'.pc = "render" /\ tool'.staged = made
    BY <2>1
  <2> HIDE DEF made
  <2>4. \A a \in archs : HoldsLockedParts(dir.archive[a])
    BY <2>1 DEF Valid, ValidateCompanion, BundleInv, DirHolds
  <2>5. Installable(made)
    BY <2>2, <2>4 DEF Installable
  <2>6. ToolHolds'
    BY <2>3, <2>5 DEF ToolHolds
  <2> QED
    BY <1>1, <2>6, OnlyTheTool DEF Render
<1>2. CASE RenameOutput
  <2>1. Unloaded /\ Installable(output') /\ UNCHANGED <<lock, dir, diag>>
    BY <1>2 DEF RenameOutput, Unloaded, Idle, BundleInv, ToolHolds
  <2>2. InstallersLeadToBundles'
    BY <2>1 DEF Installable, InstallersLeadToBundles
  <2> QED
    BY <2>1, <2>2, UnloadedHolds DEF BundleInv, LockPinned, DirHolds, DirTyped, SmokeVouches
<1> QED
  BY <1>1, <1>2

\* The assets are handed over; the workspace of the build is left behind.
LEMMA HandOver ==
  ASSUME BundleInv, Trust
  PROVE  BundleInv'
<1>1. /\ tool' = Idle /\ dir' = NoBundles /\ diag' = NoReports /\ UNCHANGED <<lock, output>>
  BY DEF Trust
<1>2. DirHolds'
  <2>1. DirTyped({Absent})' /\ \A a \in Archs : dir'.archive[a] = Absent
    BY <1>1 DEF DirTyped, NoBundles
  <2> QED
    BY <2>1 DEF DirHolds
<1>3. DOMAIN diag' = Kept /\ diag'.result = Absent
  BY <1>1 DEF NoReports, Kept
<1> QED
  BY <1>1, <1>2, <1>3 DEF BundleInv, LockPinned, ToolHolds, Idle, InstallersLeadToBundles, SmokeVouches

LEMMA BundleStep == BundleInv /\ [Next]_vars => BundleInv'
<1> SUFFICES ASSUME BundleInv, [Next]_vars
             PROVE  BundleInv'
  OBVIOUS
<1>1. CASE UNCHANGED rendered
  <2>1. UNCHANGED <<lock, dir, diag, tool, output>>
    BY <1>1 DEF rendered, bundleVars
  <2>2. ToolHolds'
    <3>1. \A n, left : RunnerHolds(n, left)' <=> RunnerHolds(n, left)
      BY <2>1 DEF RunnerHolds, Written
    <3>2. \A n, files : Written(n, files)' <=> Written(n, files)
      BY <2>1 DEF Written
    <3>3. \A staged : Fetched(staged)' <=> Fetched(staged)
      BY <2>1 DEF Fetched
    <3> QED
      BY <2>1, <3>1, <3>2, <3>3 DEF BundleInv, ToolHolds
  <2> QED
    BY <2>1, <2>2, OnlyTheTool
<1>2. CASE BundleNext /\ UNCHANGED output
  BY <1>2, EditLockStep, PlainStep, FetchStep, AssembleStep, ZipStep, SmokeStep DEF BundleNext, Plain
<1> QED
  BY <1>1, <1>2, RenderStep, HandOver DEF Next, Build, vars

LEMMA BundleInvariance == Spec => []BundleInv
<1> QED
  BY BundleStarts, BundleStep, PTL DEF Spec

-----------------------------------------------------------------------------
\* Whatever tools ran, were stopped and ran again while the sources and the lock changed, what
\* render has left leads every installer to bundles that hold what their lock names.
THEOREM InstallersLead == Spec => []InstallersLeadToBundles
<1>1. BundleInv => InstallersLeadToBundles
  BY DEF BundleInv
<1> QED
  BY <1>1, BundleInvariance, PTL

\* A smoke test that says ok names the reports of the run it has performed, though those of
\* earlier ones lie in its directory, and its Runner may fail before it has replaced them
\* (runInstallationSmokeTest, runProcess).
THEOREM SmokeTellsTheTruth == Spec => []SmokeVouches
<1>1. BundleInv => SmokeVouches
  BY DEF BundleInv
<1> QED
  BY <1>1, BundleInvariance, PTL
=============================================================================
