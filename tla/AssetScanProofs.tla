---------------------------- MODULE AssetScanProofs ----------------------------
(***************************************************************************)
(* What a scan visits, reads and writes, for any site, any order of        *)
(* responses, any answers that fail, and any number of scans that build on *)
(* each other while the site changes between them.                         *)
(***************************************************************************)
EXTENDS AssetScan, FiniteSetTheorems, FunctionTheorems, WellFoundedInduction, TLAPS

-----------------------------------------------------------------------------
(* The inductive invariant.                                                 *)

Hashes == Contents \cup {NoContent}
AssetRecord ==
  [hash : Hashes, class : {"first_party", "app_associated", "third_party", "unknown"},
   sources : SUBSET {"html", "network", "static_import"}, loaded : BOOLEAN,
   duplicate : Scripts \cup {NoScript}, unchanged : BOOLEAN, first : Nat]
AssetMap(A) == [A -> AssetRecord]
IsAssetMap(map) == \E A \in SUBSET Scripts : map \in AssetMap(A)
Run(A) ==
  [batch : Nat, status : {"completed", "partial"}, assets : AssetMap(A),
   facts : SUBSET (Scripts \X Hashes), evidence : SUBSET Scripts, blocked : SUBSET Scripts]
IsRun(run) == \E A \in SUBSET Scripts : run \in Run(A)

ScanTypes ==
  /\ site \in Sites /\ scan \in Nat
  /\ IsAssetMap(assets) /\ listed \subseteq DOMAIN assets
  /\ received \subseteq Scripts /\ bodies \subseteq Scripts /\ blocked \subseteq Scripts
  /\ fetching \in Scripts \cup {NoScript}
  /\ root \in Pages
  /\ skipped = [pages |-> skipped.pages, links |-> skipped.links, limit |-> skipped.limit]
  /\ (previous = NoRun \/ IsRun(previous)) /\ (runData = NoRun \/ IsRun(runData))
  /\ pc = "integrate" => IsRun(draft)
  /\ pc = "written" => IsRun(runData)

\* What is read has content, and only what is read is searched for source maps.
Readable ==
  /\ \A s \in received \cup bodies : site.body[s] # NoContent
  /\ pc = "maps" => todo \subseteq bodies

\* Assets are listed when they are compared.
Early == {"start", "launched", "context", "opened", "declare"}
ListedLate == pc \in Early \cup {"browse", "wait", "settle", "imports"} => listed = {}

\* What was refused is a degradation.
BlockedTold == blocked # {} => degraded # {}

\* A page is known from a link of a page that was visited, or of one of its tabs.
Known(p) ==
  LET here == Here(via[p].from)
  IN  /\ via[p].from \in visited /\ via[p].link.to = p
      /\ \E q \in {here} \cup {t.to : t \in TabsOf(here)} : via[p].link \in LinksIn(q, here)
\* A page that was known is visited, still to visit, or left out for a reason.
Placed(p) == p \in queue \cup visited \cup skipped.pages \/ site.host[p] # site.host[root]
Shown(here) ==
  /\ \A l \in LinksIn(here, here) : l.to \in DOMAIN via \/ <<here, l>> \in skipped.links
  /\ \A t \in TabsOf(here) : <<here, t>> \in visitedKeys \cup skipped.links
TabRead(k) == k \in skipped.links \/ \A l \in LinksIn(k[2].to, k[1]) : l.to \in DOMAIN via
NavigationTrue ==
  /\ pc \in Early => visited = {} /\ visitedKeys = {} /\ queue = {} /\ DOMAIN via = {}
  /\ visited \cup queue \subseteq DOMAIN via
  /\ \A p \in visited : Shown(Here(p))
  /\ \A k \in visitedKeys : TabRead(k)
  /\ \A p \in DOMAIN via : (p # root => Known(p)) /\ Placed(p)
  /\ Traversed /\ queue # {} => skipped.limit

\* While nothing has failed, what was imported is there or still to come, and
\* so is every source map.
ImportsTold ==
  /\ bodies \subseteq DOMAIN assets
  /\ pc \in Early \cup {"browse", "wait", "settle"} => fetching = NoScript
  /\ pc = "imports" => /\ fetching # NoScript => fetching \in todo
                       /\ degraded = {} => \A s \in PageScripts : Imports(s) \subseteq todo \cup DOMAIN assets
  /\ pc = "maps" /\ degraded = {} =>
       /\ \A s \in PageScripts : Imports(s) \subseteq listed
       /\ \A s \in bodies : s \in todo \/ MapRead(s)
RunsComplete ==
  /\ pc = "integrate" => Complete(draft)
  /\ pc = "written" => Complete(runData)

\* A hash is that of the script as it is, if there is one; what is unchanged was there before.
HashesTrue == \A s \in DOMAIN assets : assets[s].hash \in {NoContent, site.body[s]}
UnchangedTrue ==
  \A s \in DOMAIN assets : assets[s].unchanged =>
    /\ previous # NoRun /\ s \in DOMAIN previous.assets
    /\ previous.assets[s].hash # NoContent /\ previous.assets[s].hash = assets[s].hash

\* A duplicate names another listed asset of the same hash that is none itself.
Represents(map, s) ==
  map[s].duplicate # NoScript =>
    /\ map[s].duplicate \in DOMAIN map /\ map[s].duplicate # s
    /\ map[map[s].duplicate].duplicate = NoScript
    /\ map[map[s].duplicate].hash = map[s].hash
Listed == [s \in listed |-> assets[s]]
Represented == \A s \in listed : Represents(Listed, s)

\* The facts of a run are of the content whose hash it records, when it records one.
Honest(run) ==
  \A f \in run.facts : f[1] \in DOMAIN run.assets /\ run.assets[f[1]].hash \in {NoContent, f[2]}
RunsHonest ==
  /\ previous # NoRun => Honest(previous)
  /\ runData # NoRun => Honest(runData)

\* What waits to be written is of the listed assets and of the scripts as they are.
Current(facts, known) == \A f \in facts : f[1] \in known /\ f[2] = site.body[f[1]]
DraftTrue ==
  pc = "integrate" =>
    /\ DOMAIN draft.assets = listed
    /\ \A s \in listed : draft.assets[s].duplicate \in listed \cup {NoScript}
    /\ Current(draft.facts, listed)
    /\ draft.evidence \subseteq listed
WrittenTrue ==
  pc = "written" =>
    /\ Current(runData.facts, DOMAIN runData.assets)
    /\ \A s \in DOMAIN runData.assets : Represents(runData.assets, s)

ScanInv ==
  /\ ScanTypes /\ Readable /\ ListedLate
  /\ BlockedTold /\ NavigationTrue /\ ImportsTold /\ RunsComplete
  /\ HashesTrue /\ UnchangedTrue /\ Represented
  /\ RunsHonest /\ DraftTrue /\ WrittenTrue

-----------------------------------------------------------------------------
(* The records of the assets.                                               *)

LEMMA SiteTyped ==
  ASSUME ScanTypes
  PROVE  /\ site \in SiteType
         /\ site.entry \in Pages
         /\ site.declares \in [Pages -> SUBSET Scripts]
         /\ site.body \in [Scripts -> Hashes]
         /\ site.map \in [Contents -> Scripts \cup {NoScript}]
         /\ site.lands \in [Pages -> Pages]
         /\ site.links \in [Pages -> SUBSET Link]
<1>1. site \in SiteType
  BY SitesAssumption DEF ScanTypes
<1> QED
  BY <1>1 DEF SiteType, Hashes

LEMMA RecordTyped ==
  ASSUME scan \in Nat, NEW s \in Scripts, NEW content \in Hashes,
         NEW source \in {"html", "network", "static_import"}
  PROVE  /\ Record(s, content, source) \in AssetRecord
         /\ Record(s, content, source).hash = content
         /\ Record(s, content, source).unchanged = FALSE
         /\ Record(s, content, source).duplicate = NoScript
         /\ Record(s, content, source).sources = {source}
<1>1. ClassifyAsset(s, {source}) \in {"first_party", "app_associated", "third_party", "unknown"}
  BY DEF ClassifyAsset
<1> QED
  BY <1>1 DEF Record, AssetRecord

\* What nobody but the comparison may do to an asset, and what a new one is.
Keeps(old, new) ==
  /\ DOMAIN old \subseteq DOMAIN new
  /\ \A s \in DOMAIN old : /\ new[s].hash = old[s].hash
                           /\ new[s].duplicate = old[s].duplicate
                           /\ new[s].unchanged = old[s].unchanged
                           /\ new[s].class = old[s].class
                           /\ old[s].sources \subseteq new[s].sources
  /\ \A s \in DOMAIN new \ DOMAIN old : /\ new[s].hash \in {NoContent, site.body[s]}
                                         /\ ~new[s].unchanged

LEMMA AddSource ==
  ASSUME NEW r \in AssetRecord, NEW more \in SUBSET {"html", "network", "static_import"},
         NEW b \in BOOLEAN
  PROVE  LET m == [r EXCEPT !.sources = @ \cup more]
             n == [r EXCEPT !.sources = @ \cup more, !.loaded = @ \/ b]
         IN  /\ m \in AssetRecord /\ m.hash = r.hash /\ m.class = r.class
             /\ m.duplicate = r.duplicate /\ m.unchanged = r.unchanged
             /\ r.sources \subseteq m.sources
             /\ n \in AssetRecord /\ n.hash = r.hash /\ n.class = r.class
             /\ n.duplicate = r.duplicate /\ n.unchanged = r.unchanged
             /\ r.sources \subseteq n.sources
BY DEF AssetRecord

\* Declaring scripts keeps what is known.
LEMMA DeclaringKeeps ==
  ASSUME NEW map, IsAssetMap(map), NEW declared \in SUBSET Scripts, scan \in Nat
  PROVE  IsAssetMap(AddDeclared(map, declared)) /\ Keeps(map, AddDeclared(map, declared))
<1> DEFINE new == {s \in declared : Technical(s)}
           to == AddDeclared(map, declared)
<1>1. DOMAIN map \subseteq Scripts /\ \A s \in DOMAIN map : map[s] \in AssetRecord
  BY DEF IsAssetMap, AssetMap
<1>2. /\ DOMAIN to = DOMAIN map \cup new
      /\ \A x \in DOMAIN map \cup new :
           to[x] = IF x \notin new THEN map[x]
                   ELSE IF x \in DOMAIN map THEN [map[x] EXCEPT !.sources = @ \cup {"html"}]
                   ELSE Record(x, NoContent, "html")
      /\ to = [x \in DOMAIN to |-> to[x]]
  BY DEF AddDeclared
<1>3. \A x \in DOMAIN map :
        to[x] \in AssetRecord /\ to[x].hash = map[x].hash
        /\ to[x].duplicate = map[x].duplicate /\ to[x].unchanged = map[x].unchanged
        /\ to[x].class = map[x].class /\ map[x].sources \subseteq to[x].sources
  <2> TAKE x \in DOMAIN map
  <2>1. map[x] \in AssetRecord
    BY <1>1
  <2>2. CASE x \in new
    <3>1. to[x] = [map[x] EXCEPT !.sources = @ \cup {"html"}]
      BY <1>2, <2>2
    <3> HIDE DEF to, new
    <3> QED
      BY <3>1, <2>1 DEF AssetRecord
  <2>3. CASE x \notin new
    BY <1>2, <2>1, <2>3
  <2> QED
    BY <2>2, <2>3
<1>4. \A x \in DOMAIN to \ DOMAIN map : to[x] = Record(x, NoContent, "html") /\ x \in Scripts
  BY <1>2
<1>5. \A x \in DOMAIN to \ DOMAIN map :
        to[x] \in AssetRecord /\ to[x].hash = NoContent /\ to[x].unchanged = FALSE
  <2> TAKE x \in DOMAIN to \ DOMAIN map
  <2>1. to[x] = Record(x, NoContent, "html") /\ x \in Scripts /\ NoContent \in Hashes
    BY <1>4 DEF Hashes
  <2>2. /\ Record(x, NoContent, "html") \in AssetRecord
        /\ Record(x, NoContent, "html").hash = NoContent
        /\ Record(x, NoContent, "html").unchanged = FALSE
    BY <2>1, RecordTyped
  <2> HIDE DEF to
  <2> QED
    BY <2>1, <2>2
<1>6. IsAssetMap(to)
  <2>1. DOMAIN to \subseteq Scripts
    BY <1>1, <1>2
  <2>2. \A x \in DOMAIN to : to[x] \in AssetRecord
    BY <1>3, <1>5
  <2> HIDE DEF to
  <2> QED
    BY <1>2, <2>1, <2>2 DEF IsAssetMap, AssetMap
<1> HIDE DEF to
<1>7. Keeps(map, to)
  BY <1>2, <1>3, <1>5 DEF Keeps
<1> QED
  BY <1>6, <1>7 DEF to

\* So does the response of a script that is known or new.
LEMMA MergingKeeps ==
  ASSUME NEW map, IsAssetMap(map), NEW s \in Scripts, scan \in Nat, site.body[s] \in Hashes
  PROVE  LET to == MergeAssetRecord(map, s, Record(s, site.body[s], "network"))
         IN  IsAssetMap(to) /\ Keeps(map, to)
<1> DEFINE r == Record(s, site.body[s], "network")
           to == MergeAssetRecord(map, s, r)
<1>1. DOMAIN map \subseteq Scripts /\ \A x \in DOMAIN map : map[x] \in AssetRecord
  BY DEF IsAssetMap, AssetMap
<1>2. /\ r \in AssetRecord /\ r.hash = site.body[s] /\ r.unchanged = FALSE
      /\ r.sources = {"network"} /\ r.loaded = TRUE
  <2>1. r.sources = {"network"} /\ r.loaded = TRUE
    BY DEF Record
  <2> QED
    BY <2>1, RecordTyped
<1>3. CASE s \notin DOMAIN map
  <2>1. to = [x \in DOMAIN map \cup {s} |-> IF x = s THEN r ELSE map[x]]
    BY <1>3 DEF MergeAssetRecord
  <2> HIDE DEF to, r
  <2>2. to \in AssetMap(DOMAIN map \cup {s})
    BY <2>1, <1>1, <1>2 DEF AssetMap
  <2>3. Keeps(map, to)
    BY <2>1, <1>1, <1>2, <1>3 DEF Keeps
  <2> QED
    BY <2>2, <2>3, <1>1 DEF IsAssetMap, to, r
<1>4. CASE s \in DOMAIN map
  <2> DEFINE m == [map[s] EXCEPT !.sources = @ \cup {"network"}, !.loaded = @ \/ TRUE]
  <2>1. to = [map EXCEPT ![s].sources = @ \cup r.sources, ![s].loaded = @ \/ r.loaded]
    BY <1>4 DEF MergeAssetRecord
  <2>2. to = [map EXCEPT ![s] = m]
    <3> HIDE DEF to, r
    <3> QED
      BY <2>1, <1>2, <1>1, <1>4
  <2>3. m \in AssetRecord /\ m.hash = map[s].hash /\ m.duplicate = map[s].duplicate
        /\ m.unchanged = map[s].unchanged /\ m.class = map[s].class
        /\ map[s].sources \subseteq m.sources
    BY <1>1, <1>4, AddSource
  <2> HIDE DEF to, r, m
  <2>4. to \in AssetMap(DOMAIN map)
    BY <2>2, <2>3, <1>1 DEF AssetMap, IsAssetMap
  <2>5. Keeps(map, to)
    BY <2>2, <2>3, <1>1 DEF Keeps, IsAssetMap, AssetMap
  <2> QED
    BY <2>4, <2>5, <1>1 DEF IsAssetMap, to, r
<1> QED
  BY <1>3, <1>4

-----------------------------------------------------------------------------
(* The comparison.                                                          *)

\* Every nonempty set of numbers has a least one.
LEMMA Least ==
  ASSUME NEW T, T \subseteq Nat, T # {}
  PROVE  \E m \in T : \A n \in T : m <= n
<1> DEFINE R == {ss \in Nat \X Nat : ss[1] < ss[2]}
<1>1. IsWellFoundedOn(R, Nat)
  BY NatLessThanWellFounded DEF OpToRel
<1>2. PICK m \in T : \A n \in T : <<n, m>> \notin R
  <2> HIDE DEF R
  <2> QED
    BY <1>1, WFMin
<1>3. ASSUME NEW n \in T PROVE m <= n
  <2>1. ~(<<n, m>>[1] < <<n, m>>[2])
    BY <1>2
  <2>2. m \in Nat /\ n \in Nat /\ ~(n < m)
    BY <2>1
  <2> QED
    BY <2>2
<1> QED
  BY <1>3

\* The order of the URLs.
InOrder(f) == f \in [Scripts -> 1..Cardinality(Scripts)] /\ \A x, y \in Scripts : f[x] = f[y] => x = y

LEMMA OrderExists ==
  \E f \in [Scripts -> 1..Cardinality(Scripts)] : \A x, y \in Scripts : f[x] = f[y] => x = y
<1> DEFINE n == Cardinality(Scripts)
<1>1. ExistsBijection(1..n, Scripts)
  BY SitesAssumption, FS_CardinalityType
<1>2. PICK g : g \in Bijection(1..n, Scripts)
  BY <1>1 DEF ExistsBijection
<1>3. Inverse(g, 1..n, Scripts) \in Bijection(Scripts, 1..n)
  <2> HIDE DEF n
  <2> QED
    BY <1>2, Fun_BijInverse
<1> QED
  BY <1>3 DEF Bijection, Injection, IsInjective

IsFirst(x, h, order) ==
  assets[x].hash = h /\ \A y \in DOMAIN assets : assets[y].hash = h => order[x] <= order[y]

LEMMA FirstExists ==
  ASSUME NEW order, InOrder(order), DOMAIN assets \subseteq Scripts,
         NEW h, NEW d \in DOMAIN assets, assets[d].hash = h
  PROVE  \E x \in DOMAIN assets : IsFirst(x, h, order)
<1> DEFINE Same == {x \in DOMAIN assets : assets[x].hash = h}
           T == {order[x] : x \in Same}
<1>1. T \subseteq Nat
  <2>1. \A x \in Scripts : order[x] \in 1..Cardinality(Scripts)
    BY DEF InOrder
  <2>2. Cardinality(Scripts) \in Nat
    BY SitesAssumption, FS_CardinalityType
  <2> QED
    BY <2>1, <2>2
<1>2. T # {}
  OBVIOUS
<1>3. PICK m \in T : \A n \in T : m <= n
  <2> HIDE DEF T
  <2> QED
    BY <1>1, <1>2, Least
<1>4. PICK x \in Same : m = order[x]
  OBVIOUS
<1>5. IsFirst(x, h, order)
  BY <1>3, <1>4 DEF IsFirst
<1> QED
  BY <1>4, <1>5

First(h, order) == CHOOSE x \in DOMAIN assets : IsFirst(x, h, order)

LEMMA DuplicateIsFirst ==
  ASSUME NEW s, NEW order
  PROVE  DuplicateOf(s, order) =
           IF assets[s].hash = NoContent \/ First(assets[s].hash, order) = s
           THEN NoScript ELSE First(assets[s].hash, order)
BY DEF DuplicateOf, First, IsFirst

\* The first of a hash is an asset of it, and the same for all of them.
LEMMA FirstProperties ==
  ASSUME NEW order, InOrder(order), DOMAIN assets \subseteq Scripts,
         NEW d \in DOMAIN assets
  PROVE  LET first == First(assets[d].hash, order)
         IN  first \in DOMAIN assets /\ assets[first].hash = assets[d].hash
<1>1. \E x \in DOMAIN assets : IsFirst(x, assets[d].hash, order)
  BY FirstExists
<1>2. /\ First(assets[d].hash, order) \in DOMAIN assets
      /\ IsFirst(First(assets[d].hash, order), assets[d].hash, order)
  BY <1>1 DEF First
<1> QED
  BY <1>2 DEF IsFirst

TheOrder == CHOOSE f \in [Scripts -> 1..Cardinality(Scripts)] :
              \A x, y \in Scripts : f[x] = f[y] => x = y

LEMMA TheOrderOrders == InOrder(TheOrder)
BY OrderExists DEF InOrder, TheOrder

Compared(s) ==
  [assets[s] EXCEPT !.duplicate = DuplicateOf(s, TheOrder), !.unchanged = Unchanged(s),
     !.first = IF previous # NoRun /\ s \in DOMAIN previous.assets
               THEN previous.assets[s].first ELSE NextBatchId(previous)]

LEMMA ComparedProperties ==
  ASSUME ScanTypes, NEW s \in DOMAIN assets
  PROVE  /\ Compared(s) \in AssetRecord
         /\ Compared(s).hash = assets[s].hash
         /\ Compared(s).duplicate = DuplicateOf(s, TheOrder)
         /\ Compared(s).unchanged = Unchanged(s)
         /\ Compared(s).sources = assets[s].sources
<1>1. DOMAIN assets \subseteq Scripts /\ assets[s] \in AssetRecord
  BY DEF ScanTypes, IsAssetMap, AssetMap
<1>2. DuplicateOf(s, TheOrder) \in Scripts \cup {NoScript}
  <2>1. First(assets[s].hash, TheOrder) \in DOMAIN assets
    BY <1>1, TheOrderOrders, FirstProperties
  <2> QED
    BY <1>1, <2>1, DuplicateIsFirst
<1>3. Unchanged(s) \in BOOLEAN
  BY DEF Unchanged
<1>4. previous = NoRun \/ IsRun(previous)
  BY DEF ScanTypes
<1> DEFINE f == IF previous # NoRun /\ s \in DOMAIN previous.assets
                THEN previous.assets[s].first ELSE NextBatchId(previous)
<1>5. f \in Nat
  <2>1. CASE previous = NoRun
    BY <2>1 DEF NextBatchId
  <2>2. CASE IsRun(previous)
    <3>1. PICK A \in SUBSET Scripts : previous \in Run(A)
      BY <2>2 DEF IsRun
    <3>2. previous.batch \in Nat /\ previous.assets \in AssetMap(A)
      BY <3>1 DEF Run
    <3>3. \A x \in DOMAIN previous.assets : previous.assets[x].first \in Nat
      BY <3>2 DEF AssetMap, AssetRecord
    <3> QED
      BY <3>2, <3>3 DEF NextBatchId
  <2> QED
    BY <1>4, <2>1, <2>2
<1>6. Compared(s) = [assets[s] EXCEPT !.duplicate = DuplicateOf(s, TheOrder),
                                      !.unchanged = Unchanged(s), !.first = f]
  BY DEF Compared
<1> HIDE DEF f
<1> QED
  BY <1>1, <1>2, <1>3, <1>5, <1>6 DEF AssetRecord

LEMMA CompareIs ==
  ASSUME Compare
  PROVE  assets' = [s \in DOMAIN assets |-> Compared(s)] /\ listed' = DOMAIN assets
BY DEF Compare, Compared, TheOrder

-----------------------------------------------------------------------------
(* Types.                                                                   *)

\* Every step but those that replace the record of an asset.
Elsewhere ==
  \/ Launch \/ Refuse \/ OpenContext \/ Open \/ Declare \/ (\E p \in Pages : Visit(p))
  \/ EndTraversal \/ StartSettling \/ ReadImports \/ (\E s \in Scripts : RequestImport(s))
  \/ (\E s \in Scripts : ResolveSourceMap(s)) \/ BuildRunData \/ Write \/ Close
  \/ (\E s \in Scripts : ResponseArrives(s) \/ HandleResponse(s)) \/ Throw \/ UNCHANGED vars

\* How the assets may change.
LEMMA AssetsKept ==
  ASSUME ScanTypes, Elsewhere
  PROVE  /\ IsAssetMap(assets') /\ Keeps(assets, assets')
         /\ site' = site /\ previous' = previous /\ listed' = listed /\ scan' = scan
<1> USE DEF world, navigation, memory
<1> DEFINE Same == site' = site /\ previous' = previous /\ listed' = listed /\ scan' = scan
           Goal == IsAssetMap(assets') /\ Keeps(assets, assets')
<1>0. /\ IsAssetMap(assets) /\ Keeps(assets, assets) /\ scan \in Nat
      /\ site.entry \in Pages /\ site.declares \in [Pages -> SUBSET Scripts]
      /\ site.body \in [Scripts -> Hashes]
  BY SiteTyped DEF ScanTypes, Keeps
<1>1. CASE Declare
  <2>1. PICK declared \in SUBSET Scripts : assets' = AddDeclared(assets, declared)
    <3>1. CASE mode.interactive
      <4>1. PICK p \in Pages :
              assets' = AddDeclared(assets, site.declares[site.entry] \cup site.declares[p])
        BY <1>1, <3>1 DEF Declare
      <4>2. site.declares[site.entry] \cup site.declares[p] \in SUBSET Scripts
        BY <1>0
      <4> QED
        BY <4>1, <4>2
    <3>2. CASE ~mode.interactive
      <4>1. assets' = AddDeclared(assets, site.declares[site.entry])
        BY <1>1, <3>2 DEF Declare
      <4> QED
        BY <4>1, <1>0
    <3> QED
      BY <3>1, <3>2
  <2>2. Goal
    BY <2>1, <1>0, DeclaringKeeps
  <2> QED
    BY <2>2, <1>1 DEF Declare
<1>2. ASSUME NEW p \in Pages, Visit(p) PROVE Same /\ Goal
  <2>1. Same /\ \/ assets' = assets
                \/ \E taken \in Sampled(Here(p)), shown \in SUBSET TabsOf(Here(p)) :
                     \E read \in SUBSET shown : VisitPage(p, taken, shown, read)
    BY <1>2 DEF Visit
  <2>2. ASSUME NEW taken \in Sampled(Here(p)), NEW shown \in SUBSET TabsOf(Here(p)),
               NEW read \in SUBSET shown, VisitPage(p, taken, shown, read)
        PROVE  Same /\ Goal
    <3> DEFINE here == Here(p)
    <3>1. assets' = AddDeclared(assets, site.declares[here] \cup
                      UNION {site.declares[t.to] : t \in {t \in shown : <<here, t>> \notin visitedKeys}})
      BY <2>2 DEF VisitPage
    <3>2. here \in Pages
      BY SiteTyped DEF Here, ScanTypes
    <3>3. \A t \in TabsOf(here) : t.to \in Pages
      BY <3>2, SiteTyped DEF TabsOf, Safe, Link
    <3> DEFINE declared == site.declares[here] \cup
                 UNION {site.declares[t.to] : t \in {t \in shown : <<here, t>> \notin visitedKeys}}
    <3>4. declared \in SUBSET Scripts
      BY <1>0, <3>2, <3>3
    <3> HIDE DEF declared
    <3>5. assets' = AddDeclared(assets, declared)
      BY <3>1 DEF declared
    <3> QED
      BY <2>1, <3>4, <3>5, <1>0, DeclaringKeeps
  <2> QED
    BY <2>1, <2>2, <1>0
<1>3. ASSUME NEW s \in Scripts, HandleResponse(s) PROVE Same /\ Goal
  <2>1. Same /\ (assets' = assets
                 \/ assets' = MergeAssetRecord(assets, s, Record(s, site.body[s], "network")))
    BY <1>3 DEF HandleResponse
  <2>2. Goal
    BY <2>1, <1>0, MergingKeeps
  <2> QED
    BY <2>1, <2>2
<1>4. ASSUME NEW s \in Scripts, RequestImport(s) PROVE Same /\ Goal
  <2>1. Same /\ (assets' = assets
                 \/ (s \in DOMAIN assets
                     /\ assets' = [assets EXCEPT ![s].sources = @ \cup {"static_import"}]))
    BY <1>4 DEF RequestImport
  <2>2. CASE s \in DOMAIN assets /\ assets' = [assets EXCEPT ![s].sources = @ \cup {"static_import"}]
    <3> DEFINE m == [assets[s] EXCEPT !.sources = @ \cup {"static_import"}]
    <3>1. DOMAIN assets \subseteq Scripts /\ \A x \in DOMAIN assets : assets[x] \in AssetRecord
      BY <1>0 DEF IsAssetMap, AssetMap
    <3>2. m \in AssetRecord /\ m.hash = assets[s].hash /\ m.duplicate = assets[s].duplicate
          /\ m.unchanged = assets[s].unchanged /\ m.class = assets[s].class
          /\ assets[s].sources \subseteq m.sources
      BY <2>2, <3>1 DEF AssetRecord
    <3>3. assets' = [assets EXCEPT ![s] = m]
      BY <2>2
    <3> HIDE DEF m
    <3>4. assets' \in AssetMap(DOMAIN assets)
      BY <1>0, <3>2, <3>3 DEF AssetMap, IsAssetMap
    <3>5. Keeps(assets, assets')
      BY <1>0, <3>2, <3>3 DEF Keeps, IsAssetMap, AssetMap
    <3> QED
      BY <2>1, <3>1, <3>4, <3>5 DEF IsAssetMap
  <2> QED
    BY <2>1, <2>2, <1>0
<1>5. CASE \/ Launch \/ Refuse \/ OpenContext \/ Open \/ EndTraversal \/ StartSettling \/ ReadImports
           \/ (\E s \in Scripts : ResolveSourceMap(s)) \/ BuildRunData \/ Write \/ Close
           \/ (\E s \in Scripts : ResponseArrives(s)) \/ Throw \/ UNCHANGED vars
  <2>1. assets' = assets /\ Same
    BY <1>5 DEF Launch, Refuse, OpenContext, Open, EndTraversal, StartSettling, ReadImports, ResolveSourceMap, BuildRunData,
                Write, Close, ResponseArrives, Throw, vars
  <2> QED
    BY <2>1, <1>0
<1> QED
  BY <1>1, <1>2, <1>3, <1>4, <1>5 DEF Elsewhere

LEMMA AssetChanges ==
  ASSUME ScanTypes, [Next]_vars
  PROVE  \/ Rescan \/ Compare \/ ImportArrives
         \/ /\ IsAssetMap(assets') /\ Keeps(assets, assets')
            /\ site' = site /\ previous' = previous /\ listed' = listed /\ scan' = scan
<1>1. Rescan \/ Compare \/ ImportArrives \/ Elsewhere
  BY DEF Next, Collector, Handlers, Elsewhere
<1> QED
  BY <1>1, AssetsKept

LEMMA EmptyMap == IsAssetMap([s \in {} |-> NoScript]) /\ DOMAIN [s \in {} |-> NoScript] = {}
<1>1. [s \in {} |-> NoScript] \in AssetMap({})
  BY DEF AssetMap
<1> QED
  BY <1>1 DEF IsAssetMap

\* The import that arrives has a record of its own.
LEMMA ImportRecord ==
  ASSUME ScanTypes, ImportArrives
  PROVE  /\ IsAssetMap(assets') /\ DOMAIN assets \subseteq DOMAIN assets'
         /\ UNCHANGED <<site, previous, listed, scan>> /\ pc = "imports" /\ pc' = pc
         /\ \A s \in DOMAIN assets' :
              \/ s \in DOMAIN assets /\ assets'[s] = assets[s]
              \/ assets'[s].hash = site.body[s] /\ assets'[s].unchanged = FALSE
<1> USE DEF world, navigation
<1>1. /\ pc = "imports" /\ pc' = pc /\ fetching # NoScript
      /\ UNCHANGED <<site, previous, listed, scan>>
      /\ \/ assets' = assets
         \/ assets' = [x \in DOMAIN assets \cup {fetching} |->
                          IF x = fetching THEN Record(x, site.body[x], "static_import")
                          ELSE assets[x]]
  BY DEF ImportArrives
<1>2. fetching \in Scripts /\ IsAssetMap(assets) /\ scan \in Nat
  BY <1>1 DEF ScanTypes
<1>3. DOMAIN assets \subseteq Scripts /\ \A x \in DOMAIN assets : assets[x] \in AssetRecord
  BY <1>2 DEF IsAssetMap, AssetMap
<1> DEFINE r == Record(fetching, site.body[fetching], "static_import")
<1>4. r \in AssetRecord /\ r.hash = site.body[fetching] /\ r.unchanged = FALSE
  <2>1. site.body[fetching] \in Hashes
    BY <1>2, SiteTyped
  <2> QED
    BY <1>2, <2>1, RecordTyped
<1>5. CASE assets' = assets
  BY <1>1, <1>2, <1>5
<1>6. CASE assets' # assets
  <2>1. assets' = [x \in DOMAIN assets \cup {fetching} |-> IF x = fetching THEN r ELSE assets[x]]
    BY <1>1, <1>6
  <2> HIDE DEF r
  <2>2. assets' \in AssetMap(DOMAIN assets \cup {fetching})
    BY <2>1, <1>3, <1>4 DEF AssetMap
  <2>3. IsAssetMap(assets')
    BY <2>2, <1>2, <1>3 DEF IsAssetMap
  <2> QED
    BY <1>1, <1>4, <2>1, <2>3
<1> QED
  BY <1>5, <1>6

LEMMA ComparedMap ==
  ASSUME ScanTypes, Compare
  PROVE  IsAssetMap(assets') /\ DOMAIN assets' = DOMAIN assets /\ listed' = DOMAIN assets
<1>1. \A s \in DOMAIN assets : Compared(s) \in AssetRecord
  BY ComparedProperties
<1>2. DOMAIN assets \subseteq Scripts
  BY DEF ScanTypes, IsAssetMap, AssetMap
<1>3. assets' = [s \in DOMAIN assets |-> Compared(s)] /\ listed' = DOMAIN assets
  BY CompareIs
<1>4. assets' \in AssetMap(DOMAIN assets)
  BY <1>1, <1>3 DEF AssetMap
<1> QED
  BY <1>2, <1>3, <1>4 DEF IsAssetMap

\* The draft, when it is built.
LEMMA DraftTyped ==
  ASSUME ScanTypes, BuildRunData
  PROVE  IsRun(draft')
<1>1. IsAssetMap(assets) /\ listed \subseteq DOMAIN assets /\ blocked \subseteq Scripts
      /\ (previous = NoRun \/ IsRun(previous)) /\ site.body \in [Scripts -> Hashes]
  BY SiteTyped DEF ScanTypes
<1>2. listed \subseteq Scripts /\ \A s \in listed : assets[s] \in AssetRecord
  BY <1>1 DEF IsAssetMap, AssetMap
<1>3. [s \in listed |-> assets[s]] \in AssetMap(listed)
  BY <1>2 DEF AssetMap
<1>4. NextBatchId(previous) \in Nat
  BY <1>1 DEF NextBatchId, IsRun, Run
<1>5. AnalyzeL1 \subseteq Scripts \X Hashes
  BY <1>1, <1>2 DEF AnalyzeL1, Analysed
<1> DEFINE reused == IF previous = NoRun THEN {} ELSE ReusedFacts
<1>6. reused \subseteq Scripts \X Hashes
  <2>1. CASE previous = NoRun
    BY <2>1
  <2>2. CASE IsRun(previous) /\ previous # NoRun
    <3>1. previous.facts \subseteq Scripts \X Hashes
      BY <2>2 DEF IsRun, Run
    <3> QED
      BY <2>2, <3>1 DEF ReusedFacts
  <2> QED
    BY <1>1, <2>1, <2>2
<1>7. {s \in listed : assets[s].hash # NoContent} \subseteq Scripts
  BY <1>2
<1>8. PICK status \in {"completed", "partial"} :
        draft' = [batch |-> NextBatchId(previous), status |-> status,
                  assets |-> [s \in listed |-> assets[s]], facts |-> AnalyzeL1 \cup reused,
                  evidence |-> {s \in listed : assets[s].hash # NoContent}, blocked |-> blocked]
  BY DEF BuildRunData
<1> HIDE DEF reused
<1>9. draft' \in Run(listed)
  BY <1>1, <1>3, <1>4, <1>5, <1>6, <1>7, <1>8 DEF Run
<1> QED
  BY <1>2, <1>9 DEF IsRun

LEMMA WrittenTyped ==
  ASSUME ScanTypes, Write, ReferencesResolve(draft)
  PROVE  /\ IsRun(runData')
         /\ runData'.assets = Listed /\ runData'.facts = draft.facts
         /\ runData'.status = draft.status /\ runData'.blocked = draft.blocked
<1>1. PICK A \in SUBSET Scripts : draft \in Run(A)
  BY DEF ScanTypes, Write, IsRun
<1>2. listed \subseteq Scripts /\ Listed \in AssetMap(listed)
  BY DEF ScanTypes, IsAssetMap, AssetMap, Listed
<1>3. runData' = [draft EXCEPT !.assets = Listed]
  BY DEF Write, Listed
<1>4. /\ runData' \in Run(listed)
      /\ runData'.assets = Listed /\ runData'.facts = draft.facts
      /\ runData'.status = draft.status /\ runData'.blocked = draft.blocked
  BY <1>1, <1>2, <1>3 DEF Run
<1> QED
  BY <1>2, <1>4 DEF IsRun

LEMMA AssetsTyped ==
  ASSUME ScanTypes, [Next]_vars
  PROVE  IsAssetMap(assets') /\ listed' \subseteq DOMAIN assets'
<1>0. listed \subseteq DOMAIN assets
  BY DEF ScanTypes
<1>1. CASE Rescan
  BY <1>1, EmptyMap DEF Rescan
<1>2. CASE Compare
  BY <1>2, ComparedMap
<1>3. CASE ImportArrives
  BY <1>0, <1>3, ImportRecord
<1>4. CASE IsAssetMap(assets') /\ Keeps(assets, assets') /\ listed' = listed
  BY <1>0, <1>4 DEF Keeps
<1> QED
  BY <1>1, <1>2, <1>3, <1>4, AssetChanges

LEMMA ReadingTyped ==
  ASSUME ScanTypes, Readable, [Next]_vars
  PROVE  /\ received' \subseteq Scripts /\ bodies' \subseteq Scripts
         /\ fetching' \in Scripts \cup {NoScript} /\ Readable'
<1> USE DEF world, navigation, memory
<1>0. /\ received \subseteq Scripts /\ bodies \subseteq Scripts
      /\ fetching \in Scripts \cup {NoScript}
      /\ \A s \in received \cup bodies : site.body[s] # NoContent
      /\ pc = "maps" => todo \subseteq bodies
  BY DEF ScanTypes, Readable
<1>1. ASSUME NEW s \in Scripts, HandleResponse(s)
      PROVE  /\ received' \subseteq Scripts /\ bodies' \subseteq Scripts
             /\ fetching' \in Scripts \cup {NoScript} /\ Readable'
  BY <1>0, <1>1 DEF HandleResponse, Readable
<1>2. CASE ReadImports
  BY <1>0, <1>2 DEF ReadImports, Readable, Goto
<1>3. ASSUME NEW s \in Scripts, RequestImport(s)
      PROVE  /\ received' \subseteq Scripts /\ bodies' \subseteq Scripts
             /\ fetching' \in Scripts \cup {NoScript} /\ Readable'
  BY <1>0, <1>3 DEF RequestImport, Readable
<1>4. CASE ImportArrives
  BY <1>0, <1>4 DEF ImportArrives, Readable
<1>5. CASE Compare
  BY <1>0, <1>5 DEF Compare, Readable, Goto
<1>6. ASSUME NEW s \in Scripts, ResolveSourceMap(s)
      PROVE  /\ received' \subseteq Scripts /\ bodies' \subseteq Scripts
             /\ fetching' \in Scripts \cup {NoScript} /\ Readable'
  BY <1>0, <1>6 DEF ResolveSourceMap, Readable
<1>7. CASE Rescan
  BY <1>7 DEF Rescan, Readable
<1>8. CASE \/ Launch \/ Refuse \/ OpenContext \/ Open \/ Declare \/ (\E p \in Pages : Visit(p))
           \/ EndTraversal \/ StartSettling \/ BuildRunData \/ Write \/ Close
           \/ (\E s \in Scripts : ResponseArrives(s)) \/ Throw \/ UNCHANGED vars
  <2>1. /\ UNCHANGED <<site, received, bodies, fetching, todo>> /\ (pc' = "maps" => pc = "maps")
    BY <1>8 DEF Launch, Refuse, OpenContext, Open, Declare, Visit, EndTraversal, StartSettling, BuildRunData, Write, Close,
                ResponseArrives, Throw, vars, Goto
  <2> QED
    BY <1>0, <2>1 DEF Readable
<1> QED
  BY <1>1, <1>2, <1>3, <1>4, <1>5, <1>6, <1>7, <1>8 DEF Next, Collector, Handlers

LEMMA GuardTyped ==
  ASSUME ScanTypes, Readable, [Next]_vars
  PROVE  blocked' \subseteq Scripts
<1> USE DEF world, navigation, memory
<1>0. blocked \subseteq Scripts
  BY DEF ScanTypes
<1>1. ASSUME NEW s \in Scripts, RequestImport(s) PROVE blocked' \subseteq Scripts
  BY <1>0, <1>1 DEF RequestImport
<1>2. ASSUME NEW s \in Scripts, ResolveSourceMap(s) PROVE blocked' \subseteq Scripts
  <2>1. pc = "maps" /\ s \in todo
    BY <1>2 DEF ResolveSourceMap
  <2>2. site.body[s] \in Contents
    BY <2>1, SiteTyped DEF Readable, Hashes
  <2>3. site.map[site.body[s]] \in Scripts \cup {NoScript}
    BY <2>2, SiteTyped
  <2> QED
    BY <1>0, <1>2, <2>3 DEF ResolveSourceMap
<1>3. CASE Rescan
  BY <1>3 DEF Rescan
<1>4. CASE \/ Launch \/ Refuse \/ OpenContext \/ Open \/ Declare \/ (\E p \in Pages : Visit(p))
           \/ EndTraversal \/ StartSettling \/ ReadImports \/ ImportArrives \/ Compare \/ BuildRunData \/ Write
           \/ Close \/ (\E s \in Scripts : ResponseArrives(s) \/ HandleResponse(s)) \/ Throw
           \/ UNCHANGED vars
  BY <1>0, <1>4 DEF Launch, Refuse, OpenContext, Open, Declare, Visit, EndTraversal, StartSettling, ReadImports, ImportArrives,
        Compare, BuildRunData, Write, Close, ResponseArrives, HandleResponse, Throw, vars
<1> QED
  BY <1>1, <1>2, <1>3, <1>4 DEF Next, Collector, Handlers

\* The runs: the previous one, the file and the draft of it.
LEMMA RunsTyped ==
  ASSUME ScanTypes, [Next]_vars
  PROVE  /\ previous' = NoRun \/ IsRun(previous')
         /\ runData' = NoRun \/ IsRun(runData')
         /\ pc' = "integrate" => IsRun(draft')
         /\ pc' = "written" => IsRun(runData')
<1> USE DEF world, navigation, memory
<1> DEFINE Goal == /\ previous' = NoRun \/ IsRun(previous')
                   /\ runData' = NoRun \/ IsRun(runData')
                   /\ pc' = "integrate" => IsRun(draft')
                   /\ pc' = "written" => IsRun(runData')
<1>0. /\ previous = NoRun \/ IsRun(previous)
      /\ runData = NoRun \/ IsRun(runData)
      /\ pc = "integrate" => IsRun(draft)
      /\ pc = "written" => IsRun(runData)
  BY DEF ScanTypes
<1>1. CASE BuildRunData
  <2>1. UNCHANGED <<previous, runData>> /\ pc' = "integrate"
    BY <1>1 DEF BuildRunData, Goto
  <2>2. IsRun(draft')
    BY <1>1, DraftTyped
  <2> QED
    BY <1>0, <2>1, <2>2
<1>2. CASE Write
  <2>1. UNCHANGED previous /\ pc' # "integrate"
    BY <1>2 DEF Write, Goto
  <2>2. CASE ReferencesResolve(draft)
    BY <1>0, <1>2, <2>1, <2>2, WrittenTyped
  <2>3. CASE ~ReferencesResolve(draft)
    <3>1. runData' = runData /\ pc' = "failed"
      BY <1>2, <2>3 DEF Write, Goto
    <3> QED
      BY <1>0, <2>1, <3>1
  <2> QED
    BY <2>2, <2>3
<1>3. CASE Rescan
  <2>1. previous' \in {runData, NoRun} /\ runData' = runData /\ pc' = "start"
    BY <1>3 DEF Rescan
  <2> QED
    BY <1>0, <2>1
<1>4. CASE \/ Launch \/ Refuse \/ OpenContext \/ Open \/ Declare \/ (\E p \in Pages : Visit(p))
           \/ EndTraversal \/ StartSettling \/ ReadImports \/ (\E s \in Scripts : RequestImport(s))
           \/ ImportArrives \/ Compare \/ (\E s \in Scripts : ResolveSourceMap(s)) \/ Close
           \/ (\E s \in Scripts : ResponseArrives(s) \/ HandleResponse(s)) \/ Throw
           \/ UNCHANGED vars
  <2>1. /\ UNCHANGED <<previous, runData, draft>>
        /\ pc' = "integrate" => pc = "integrate"
        /\ pc' = "written" => pc = "written"
    BY <1>4 DEF Launch, Refuse, OpenContext, Open, Declare, Visit, EndTraversal, StartSettling, ReadImports, RequestImport,
                ImportArrives, Compare, ResolveSourceMap, Close, ResponseArrives, HandleResponse,
                Throw, vars, Goto
  <2> QED
    BY <1>0, <2>1
<1> QED
  BY <1>1, <1>2, <1>3, <1>4 DEF Next, Collector, Handlers

-----------------------------------------------------------------------------
(* The navigation.                                                          *)

\* The records of what was left out stay a record of the three kinds.
LEMMA NavigationTyped ==
  ASSUME ScanTypes, [Next]_vars
  PROVE  /\ root' \in Pages
         /\ skipped' = [pages |-> skipped'.pages, links |-> skipped'.links, limit |-> skipped'.limit]
<1> USE DEF world, navigation, memory
<1> DEFINE Form(r) == r = [pages |-> r.pages, links |-> r.links, limit |-> r.limit]
<1>0. root \in Pages /\ Form(skipped)
  BY DEF ScanTypes
<1>1. CASE Declare
  BY <1>0, <1>1 DEF Declare
<1>2. ASSUME NEW p \in Pages, Visit(p) PROVE root' \in Pages /\ Form(skipped')
  <2>1. root' = root /\ \/ skipped' = skipped
                        \/ \E S : skipped' = [skipped EXCEPT !.pages = S]
                        \/ \E S : skipped' = [skipped EXCEPT !.links = S]
    BY <1>2, Zenon DEF Visit, VisitPage
  <2> QED
    BY <1>0, <2>1
<1>3. CASE EndTraversal
  <2>1. root' = root /\ skipped' = [skipped EXCEPT !.limit = LimitReached(queue)]
    BY <1>3 DEF EndTraversal
  <2> QED
    BY <1>0, <2>1
<1>4. CASE Rescan
  <2>1. root' = site'.entry /\ site' \in Sites /\ skipped' = NothingSkipped
    BY <1>4 DEF Rescan
  <2>2. site'.entry \in Pages
    BY <2>1, SitesAssumption DEF SiteType
  <2> QED
    BY <2>1, <2>2 DEF NothingSkipped
<1>5. CASE \/ Launch \/ Refuse \/ OpenContext \/ Open \/ StartSettling \/ ReadImports
           \/ (\E s \in Scripts : RequestImport(s)) \/ ImportArrives \/ Compare
           \/ (\E s \in Scripts : ResolveSourceMap(s)) \/ BuildRunData \/ Write \/ Close
           \/ (\E s \in Scripts : ResponseArrives(s) \/ HandleResponse(s)) \/ Throw
           \/ UNCHANGED vars
  <2>1. root' = root /\ skipped' = skipped
    BY <1>5 DEF Launch, Refuse, OpenContext, Open, StartSettling, ReadImports, RequestImport,
                ImportArrives, Compare, ResolveSourceMap, BuildRunData, Write, Close,
                ResponseArrives, HandleResponse, Throw, vars
  <2> QED
    BY <1>0, <2>1
<1> QED
  BY <1>1, <1>2, <1>3, <1>4, <1>5 DEF Next, Collector, Handlers

\* What was found, and what was left out, stays.
Grows == /\ DOMAIN via \subseteq DOMAIN via' /\ \A q \in DOMAIN via : via'[q] = via[q]
         /\ visited \subseteq visited' /\ skipped.pages \subseteq skipped'.pages
         /\ skipped.links \subseteq skipped'.links /\ visitedKeys \subseteq visitedKeys'

LEMMA StaysTrue ==
  ASSUME NavigationTrue, Grows, UNCHANGED <<site, root>>
  PROVE  /\ \A q \in DOMAIN via : Known(q) => Known(q)'
         /\ \A q \in visited : Shown(Here(q))'
         /\ \A k \in visitedKeys : TabRead(k)'
<1>1. ASSUME NEW q \in DOMAIN via, Known(q) PROVE Known(q)'
  <2>1. via'[q] = via[q] /\ via[q].from \in visited'
    BY <1>1 DEF Grows, Known
  <2> QED
    BY <1>1, <2>1 DEF Known, Here, TabsOf, LinksIn, Safe, ClassifyReadonlyEntry
<1>2. ASSUME NEW q \in visited PROVE Shown(Here(q))'
  <2>1. Shown(Here(q))
    BY DEF NavigationTrue
  <2> QED
    BY <2>1 DEF Grows, Shown, Here, TabsOf, LinksIn, Safe, ClassifyReadonlyEntry
<1>3. ASSUME NEW k \in visitedKeys PROVE TabRead(k)'
  <2>1. TabRead(k)
    BY DEF NavigationTrue
  <2> QED
    BY <2>1 DEF Grows, TabRead, LinksIn, Safe, ClassifyReadonlyEntry
<1> QED
  BY <1>1, <1>2, <1>3

\* A page that answers: its links, and those of its tabs, are known or left out for a reason.
LEMMA VisitedPage ==
  ASSUME ScanTypes, NavigationTrue, NEW p \in queue, UNCHANGED <<site, root, pc, mode>>,
         NEW taken \in Sampled(Here(p)), NEW shown \in SUBSET TabsOf(Here(p)),
         NEW read \in SUBSET shown, VisitPage(p, taken, shown, read), pc = "browse"
  PROVE  NavigationTrue'
<1> DEFINE here == Here(p)
<1> DEFINE new == {t \in shown : <<here, t>> \notin visitedKeys}
           plain == {l \in LinksIn(here, here) : ~l.pagination}
           follow == plain \cup taken \cup UNION {LinksIn(t.to, here) : t \in new \cap read}
           targets == {l.to : l \in follow} \ DOMAIN via
           pages == {l \in LinksIn(here, here) : l.pagination}
           failed == {t \in TabsOf(here) : t \notin shown \/ (t \in new /\ t \notin read)}
           left == {<<here, l>> : l \in (pages \ taken) \cup failed}
<1>3. /\ visited' = visited \cup {p} /\ visitedKeys' = visitedKeys \cup {<<here, t>> : t \in new}
      /\ queue' = (queue \ {p}) \cup targets
      /\ via' = [q \in DOMAIN via \cup targets |->
                   IF q \in DOMAIN via THEN via[q]
                   ELSE [from |-> p, link |-> CHOOSE l \in follow : l.to = q]]
      /\ skipped' = [skipped EXCEPT !.links = @ \cup left]
  BY Zenon DEF VisitPage
<1>4. taken \subseteq pages
  BY DEF Sampled
<1>5. \A l \in follow : \E q \in {here} \cup {t.to : t \in TabsOf(here)} : l \in LinksIn(q, here)
  <2> SUFFICES ASSUME NEW l \in follow
               PROVE  \E q \in {here} \cup {t.to : t \in TabsOf(here)} : l \in LinksIn(q, here)
    OBVIOUS
  <2>1. CASE l \in plain \cup taken
    BY <1>4, <2>1
  <2>2. CASE l \notin plain \cup taken
    <3>1. PICK t \in new \cap read : l \in LinksIn(t.to, here)
      BY <2>2
    <3>2. t \in TabsOf(here)
      BY <3>1
    <3> QED
      BY <3>1, <3>2
  <2> QED
    BY <2>1, <2>2
<1>6. skipped'.pages = skipped.pages /\ skipped'.links = skipped.links \cup left
  <2> HIDE DEF left
  <2> QED
    BY <1>3 DEF ScanTypes
<1>7. /\ visited \cup queue \subseteq DOMAIN via /\ pc \notin Early /\ ~Traversed'
      /\ \A q \in DOMAIN via : (q # root => Known(q)) /\ Placed(q)
  BY DEF NavigationTrue, Early, Traversed
<1>8. here' = here /\ (LinksIn(here, here))' = LinksIn(here, here) /\ TabsOf(here)' = TabsOf(here)
      /\ \A q : LinksIn(q, here)' = LinksIn(q, here)
  BY DEF Here, LinksIn, TabsOf, Safe, ClassifyReadonlyEntry
<1>9. DOMAIN via' = DOMAIN via \cup targets /\ {l.to : l \in follow} \subseteq DOMAIN via'
      /\ \A q \in DOMAIN via : via'[q] = via[q]
  BY <1>3
<1>10. Grows
  BY <1>3, <1>6, <1>9 DEF Grows
<1>11. Shown(here)'
  <2>1. ASSUME NEW l \in LinksIn(here, here)
        PROVE  l.to \in DOMAIN via' \/ <<here, l>> \in skipped'.links
    <3>1. CASE l \in follow
      BY <1>9, <3>1
    <3>2. CASE l \notin follow
      <4>1. l \in pages \ taken
        BY <3>2
      <4> QED
        BY <4>1, <1>6
    <3> QED
      BY <3>1, <3>2
  <2>2. ASSUME NEW t \in TabsOf(here)
        PROVE  <<here, t>> \in visitedKeys' \cup skipped'.links
    <3>1. CASE t \notin shown
      <4>1. t \in failed
        BY <3>1
      <4> QED
        BY <4>1, <1>6
    <3>2. CASE t \in shown /\ t \in new
      BY <1>3, <3>2
    <3>3. CASE t \in shown /\ t \notin new
      BY <1>3, <3>3
    <3> QED
      BY <3>1, <3>2, <3>3
  <2> HIDE DEF here
  <2> QED
    BY <2>1, <2>2, <1>8 DEF Shown
<1>12. ASSUME NEW t \in new, NEW k, k = <<here, t>> PROVE TabRead(k)'
  <2>1. CASE t \in read
    <3>1. LinksIn(t.to, here) \subseteq follow
      BY <2>1, <1>12
    <3>2. \A l \in LinksIn(t.to, here) : l.to \in DOMAIN via'
      BY <3>1, <1>9
    <3> QED
      BY <3>2, <1>8, <1>12 DEF TabRead
  <2>2. CASE t \notin read
    <3>1. t \in failed
      BY <1>12, <2>2
    <3>2. k \in skipped'.links
      BY <3>1, <1>6, <1>12
    <3> QED
      BY <3>2, <1>8, <1>12 DEF TabRead
  <2> QED
    BY <2>1, <2>2
<1>13. ASSUME NEW q \in targets PROVE Known(q)'
  <2> DEFINE l == CHOOSE l \in follow : l.to = q
  <2>1. via'[q] = [from |-> p, link |-> l]
    BY <1>3, <1>13
  <2>2. l \in follow /\ l.to = q
    BY <1>13
  <2> HIDE DEF l, follow
  <2>3. \E z \in {here} \cup {t.to : t \in TabsOf(here)} : l \in LinksIn(z, here)
    BY <1>5, <2>2
  <2>4. via'[q].from = p /\ via'[q].link = l /\ p \in visited'
    BY <2>1, <1>3
  <2> HIDE DEF here
  <2> QED
    BY <2>2, <2>3, <2>4, <1>8 DEF Known, here
<1> HIDE DEF here, new, plain, follow, targets, pages, failed, left
<1>14. visited' \cup queue' \subseteq DOMAIN via'
  BY <1>3, <1>7, <1>9
<1>15. \A q \in visited' : Shown(Here(q))'
  BY <1>3, <1>10, <1>11, StaysTrue DEF here
<1>16. ASSUME NEW k \in visitedKeys' PROVE TabRead(k)'
  <2>1. CASE k \in visitedKeys
    BY <1>10, <2>1, StaysTrue
  <2>2. CASE k \notin visitedKeys
    <3>1. PICK t \in new : k = <<here, t>>
      BY <1>3, <2>2
    <3> QED
      BY <1>12, <3>1
  <2> QED
    BY <2>1, <2>2
<1>17. ASSUME NEW q \in DOMAIN via' PROVE (q # root => Known(q)') /\ Placed(q)'
  <2>1. CASE q \in targets
    BY <1>3, <1>13, <2>1 DEF Placed
  <2>2. CASE q \in DOMAIN via
    <3>1. (q # root => Known(q)) /\ Placed(q)
      BY <1>7, <2>2
    <3>2. q # root => Known(q)'
      BY <3>1, <2>2, <1>10, StaysTrue
    <3>3. Placed(q)'
      BY <3>1, <1>3, <1>6 DEF Placed
    <3> QED
      BY <3>2, <3>3
  <2> QED
    BY <1>9, <2>1, <2>2
<1> QED
  BY <1>7, <1>14, <1>15, <1>16, <1>17 DEF NavigationTrue

\* A page that does not answer, and one of another host, leave the queue.
LEMMA LeftPage ==
  ASSUME ScanTypes, NavigationTrue, NEW p \in queue, queue' = queue \ {p}, pc = "browse",
         UNCHANGED <<site, root, pc, mode, visited, visitedKeys, via>>,
         \/ skipped' = [skipped EXCEPT !.pages = @ \cup {p}]
         \/ skipped' = skipped /\ site.host[p] # site.host[root]
  PROVE  NavigationTrue'
<1>1. /\ skipped'.links = skipped.links /\ skipped.pages \subseteq skipped'.pages
      /\ p \in skipped'.pages \/ site.host[p] # site.host[root]
  BY DEF ScanTypes
<1>2. Grows
  BY <1>1 DEF Grows
<1>3. ASSUME NEW q \in DOMAIN via PROVE (q # root => Known(q)') /\ Placed(q)'
  <2>1. (q # root => Known(q)) /\ Placed(q)
    BY DEF NavigationTrue
  <2> QED
    BY <1>1, <1>2, <2>1, StaysTrue DEF Placed
<1>4. pc' \notin Early /\ ~Traversed'
  BY DEF Early, Traversed
<1> QED
  BY <1>2, <1>3, <1>4, StaysTrue DEF NavigationTrue

LEMMA NavigationKept ==
  ASSUME ScanTypes, NavigationTrue, [Next]_vars
  PROVE  NavigationTrue'
<1> USE DEF world, navigation, memory
<1>1. CASE Declare
  <2>1. /\ visited = {} /\ visitedKeys = {} /\ queue = {} /\ DOMAIN via = {} /\ pc' \notin Early
        /\ UNCHANGED <<visited, visitedKeys, site, mode>>
    BY <1>1 DEF Declare, NavigationTrue, Early, Goto
  <2>2. CASE mode.interactive
    <3>1. PICK p \in Pages : root' = p /\ queue' = {p} /\ DOMAIN via' = {p} /\ pc' = "browse"
      BY <1>1, <2>2 DEF Declare, Goto
    <3> QED
      BY <2>1, <3>1 DEF NavigationTrue, Placed, Traversed
  <2>3. CASE ~mode.interactive
    <3>1. UNCHANGED <<root, queue, via>>
      BY <1>1, <2>3 DEF Declare
    <3> QED
      BY <2>1, <2>3, <3>1 DEF NavigationTrue, Traversed
  <2> QED
    BY <2>2, <2>3
<1>2. ASSUME NEW p \in Pages, Visit(p) PROVE NavigationTrue'
  <2>1. p \in queue /\ pc = "browse" /\ UNCHANGED <<site, root, pc, mode>>
    BY <1>2 DEF Visit
  <2>2. \/ \E taken \in Sampled(Here(p)), shown \in SUBSET TabsOf(Here(p)) :
             \E read \in SUBSET shown : VisitPage(p, taken, shown, read)
        \/ /\ queue' = queue \ {p} /\ UNCHANGED <<visited, visitedKeys, via>>
           /\ \/ skipped' = [skipped EXCEPT !.pages = @ \cup {p}]
              \/ skipped' = skipped /\ site.host[p] # site.host[root]
    BY <1>2 DEF Visit
  <2> QED
    BY <2>1, <2>2, VisitedPage, LeftPage
<1>3. CASE EndTraversal
  <2>1. /\ pc = "browse" /\ pc' = "wait"
        /\ UNCHANGED <<site, mode, root, queue, via, visited, visitedKeys>>
        /\ skipped' = [skipped EXCEPT !.limit = (queue # {})]
    BY <1>3 DEF EndTraversal, LimitReached, Goto
  <2>2. /\ skipped'.pages = skipped.pages /\ skipped'.links = skipped.links
        /\ skipped'.limit = (queue # {})
    BY <2>1 DEF ScanTypes
  <2>3. Grows
    BY <2>1, <2>2 DEF Grows
  <2>4. ASSUME NEW q \in DOMAIN via PROVE (q # root => Known(q)') /\ Placed(q)'
    <3>1. (q # root => Known(q)) /\ Placed(q)
      BY DEF NavigationTrue
    <3> QED
      BY <2>1, <2>2, <2>3, <3>1, StaysTrue DEF Placed
  <2> QED
    BY <2>1, <2>2, <2>3, <2>4, StaysTrue DEF NavigationTrue, Early
<1>4. CASE Rescan
  <2>1. visited' = {} /\ visitedKeys' = {} /\ queue' = {} /\ DOMAIN via' = {} /\ pc' = "start"
    BY <1>4 DEF Rescan, NoPage
  <2> QED
    BY <2>1 DEF NavigationTrue, Traversed
<1>5. CASE \/ Launch \/ Refuse \/ OpenContext \/ Open \/ StartSettling \/ ReadImports
           \/ (\E s \in Scripts : RequestImport(s)) \/ ImportArrives \/ Compare
           \/ (\E s \in Scripts : ResolveSourceMap(s)) \/ BuildRunData \/ Write \/ Close
           \/ (\E s \in Scripts : ResponseArrives(s) \/ HandleResponse(s)) \/ Throw
           \/ UNCHANGED vars
  <2>1. /\ UNCHANGED <<site, mode, root, queue, via, visited, visitedKeys, skipped>>
        /\ (pc' \in Early => pc \in Early) /\ (Traversed' => Traversed)
    BY <1>5 DEF Launch, Refuse, OpenContext, Open, StartSettling, ReadImports, RequestImport,
                ImportArrives, Compare, ResolveSourceMap, BuildRunData, Write, Close,
                ResponseArrives, HandleResponse, Throw, vars, Goto, Early, Traversed
  <2> QED
    BY <2>1 DEF NavigationTrue, Known, Placed, Shown, TabRead, Here, TabsOf, LinksIn, Safe,
                ClassifyReadonlyEntry
<1> QED
  BY <1>1, <1>2, <1>3, <1>4, <1>5 DEF Next, Collector, Handlers

-----------------------------------------------------------------------------
(* What a run is told to be.                                                *)

LEMMA BlockedKept ==
  ASSUME BlockedTold, [Next]_vars
  PROVE  BlockedTold'
<1> USE DEF world, navigation, memory
<1>1. ASSUME NEW s \in Scripts, RequestImport(s) \/ ResolveSourceMap(s) PROVE BlockedTold'
  <2>1. (blocked' = blocked \/ degraded' # {}) /\ degraded \subseteq degraded'
    BY <1>1 DEF RequestImport, ResolveSourceMap, ImportRefused
  <2> QED
    BY <2>1 DEF BlockedTold
<1>2. CASE Rescan
  BY <1>2 DEF Rescan, BlockedTold
<1>3. CASE \/ Launch \/ Refuse \/ OpenContext \/ Open \/ Declare \/ (\E p \in Pages : Visit(p))
           \/ EndTraversal \/ StartSettling \/ ReadImports \/ ImportArrives \/ Compare
           \/ BuildRunData \/ Write \/ Close
           \/ (\E s \in Scripts : ResponseArrives(s) \/ HandleResponse(s)) \/ Throw
           \/ UNCHANGED vars
  <2>1. blocked' = blocked /\ degraded \subseteq degraded'
    BY <1>3 DEF Launch, Refuse, OpenContext, Open, Declare, Visit, EndTraversal, StartSettling,
                ReadImports, ImportArrives, Compare, BuildRunData, Write, Close, ResponseArrives,
                HandleResponse, Throw, vars
  <2> QED
    BY <2>1 DEF BlockedTold
<1> QED
  BY <1>1, <1>2, <1>3 DEF Next, Collector, Handlers

\* What is kept of the assets keeps what was told of them.
LEMMA KeepsTold ==
  ASSUME Keeps(assets, assets'), UNCHANGED <<site, bodies, listed>>,
         bodies \subseteq DOMAIN assets, listed \subseteq DOMAIN assets
  PROVE  /\ PageScripts' \subseteq PageScripts /\ Analysed' = Analysed
         /\ DOMAIN assets \subseteq DOMAIN assets'
         /\ \A s : Imports(s)' = Imports(s) /\ (MapRead(s)' <=> MapRead(s))
<1>1. PageScripts' \subseteq PageScripts
  BY DEF Keeps, PageScripts
<1>2. Analysed' = Analysed
  BY DEF Keeps, Analysed
<1>3. \A s : Imports(s)' = Imports(s) /\ (MapRead(s)' <=> MapRead(s))
  BY DEF Imports, MapRead, GuardAllows, Technical, Business
<1> QED
  BY <1>1, <1>2, <1>3 DEF Keeps

LEMMA ImportsKept ==
  ASSUME ScanTypes, ImportsTold, [Next]_vars
  PROVE  ImportsTold'
<1> USE DEF world, navigation, memory
<1>0. /\ bodies \subseteq DOMAIN assets /\ listed \subseteq DOMAIN assets
      /\ pc \in Early \cup {"browse", "wait", "settle"} => fetching = NoScript
      /\ pc = "imports" => /\ fetching # NoScript => fetching \in todo
                           /\ degraded = {} => \A s \in PageScripts : Imports(s) \subseteq todo \cup DOMAIN assets
      /\ pc = "maps" /\ degraded = {} =>
           /\ \A s \in PageScripts : Imports(s) \subseteq listed
           /\ \A s \in bodies : s \in todo \/ MapRead(s)
  BY DEF ImportsTold, ScanTypes
<1>1. CASE Rescan
  BY <1>1 DEF Rescan, ImportsTold
<1>2. CASE ReadImports
  <2>1. /\ pc' = "imports" /\ UNCHANGED <<site, assets, fetching>> /\ bodies' \subseteq DOMAIN assets
        /\ todo' = {s \in UNION {site.imports[site.body[k]] : k \in bodies'} : Technical(s)}
        /\ pc = "settle"
    BY <1>2 DEF ReadImports, Goto
  <2>2. fetching = NoScript
    BY <2>1 DEF ImportsTold, Early
  <2>3. ASSUME NEW s \in PageScripts' PROVE Imports(s)' \subseteq todo'
    BY <2>1, <2>3 DEF PageScripts, Imports, Technical
  <2> QED
    BY <2>1, <2>2, <2>3 DEF ImportsTold, Early
<1>3. ASSUME NEW s \in Scripts, RequestImport(s) PROVE ImportsTold'
  <2>1. /\ pc = "imports" /\ pc' = pc /\ fetching = NoScript /\ s \in todo
        /\ UNCHANGED <<site, bodies, listed>> /\ degraded \subseteq degraded'
        /\ \/ /\ s \in DOMAIN assets /\ todo' = todo \ {s} /\ fetching' = fetching
           \/ fetching' = s /\ todo' = todo
           \/ degraded' # {} /\ fetching' = fetching
    BY <1>3 DEF RequestImport, ImportRefused
  <2>2. Keeps(assets, assets')
    BY <1>3, AssetsKept DEF Elsewhere
  <2>3. /\ PageScripts' \subseteq PageScripts /\ DOMAIN assets \subseteq DOMAIN assets'
        /\ \A x : Imports(x)' = Imports(x)
    BY <1>0, <2>1, <2>2, KeepsTold
  <2>4. degraded' = {} => \A x \in PageScripts' : Imports(x)' \subseteq todo' \cup DOMAIN assets'
    BY <1>0, <2>1, <2>3
  <2> QED
    BY <1>0, <2>1, <2>3, <2>4 DEF ImportsTold, Early
<1>4. CASE ImportArrives
  <2>1. /\ pc = "imports" /\ pc' = pc /\ fetching # NoScript /\ fetching' = NoScript
        /\ UNCHANGED <<site, listed>> /\ todo' = todo \ {fetching} /\ degraded \subseteq degraded'
        /\ \/ /\ bodies' = bodies \cup {fetching}
              /\ assets' = [x \in DOMAIN assets \cup {fetching} |->
                              IF x = fetching THEN Record(x, site.body[x], "static_import")
                              ELSE assets[x]]
           \/ degraded' # {} /\ UNCHANGED <<bodies, assets>>
    BY <1>4 DEF ImportArrives
  <2>2. CASE degraded' # {} /\ UNCHANGED <<bodies, assets>>
    BY <1>0, <2>1, <2>2 DEF ImportsTold, Early
  <2>3. CASE bodies' = bodies \cup {fetching}
             /\ assets' = [x \in DOMAIN assets \cup {fetching} |->
                              IF x = fetching THEN Record(x, site.body[x], "static_import")
                              ELSE assets[x]]
    <3>1. DOMAIN assets' = DOMAIN assets \cup {fetching}
          /\ \A x \in DOMAIN assets : x # fetching => assets'[x] = assets[x]
      BY <2>3
    <3>2. assets'[fetching].sources = {"static_import"}
      <4>1. assets'[fetching] = Record(fetching, site.body[fetching], "static_import")
        BY <2>3
      <4> QED
        BY <4>1 DEF Record
    <3>3. PageScripts' \subseteq PageScripts
      BY <1>0, <2>3, <3>1, <3>2 DEF PageScripts
    <3>4. \A x : Imports(x)' = Imports(x)
      BY <2>1 DEF Imports, Technical
    <3>5. degraded' = {} => \A x \in PageScripts' : Imports(x)' \subseteq todo' \cup DOMAIN assets'
      BY <1>0, <2>1, <3>1, <3>3, <3>4
    <3>6. bodies' \subseteq DOMAIN assets'
      BY <1>0, <2>3, <3>1
    <3> QED
      BY <2>1, <3>5, <3>6 DEF ImportsTold, Early
  <2> QED
    BY <2>1, <2>2, <2>3
<1>5. CASE Compare
  <2>1. /\ pc = "imports" /\ pc' = "maps" /\ todo = {} /\ todo' = DOMAIN assets \cap bodies
        /\ listed' = DOMAIN assets /\ UNCHANGED <<site, bodies, degraded>>
        /\ assets' = [s \in DOMAIN assets |-> Compared(s)]
    BY <1>5, CompareIs DEF Compare, Goto
  <2>2. DOMAIN assets' = DOMAIN assets /\ \A s \in DOMAIN assets : assets'[s].sources = assets[s].sources
    BY <2>1, ComparedProperties
  <2>3. PageScripts' = PageScripts /\ \A x : Imports(x)' = Imports(x)
    BY <1>0, <2>1, <2>2 DEF PageScripts, Imports, Technical
  <2> QED
    BY <1>0, <2>1, <2>2, <2>3 DEF ImportsTold, Early
<1>6. ASSUME NEW s \in Scripts, ResolveSourceMap(s) PROVE ImportsTold'
  <2>1. /\ pc = "maps" /\ pc' = pc /\ todo' = todo \ {s}
        /\ UNCHANGED <<site, assets, bodies, listed>>
        /\ degraded \subseteq degraded' /\ (MapRead(s) \/ degraded' # {})
    BY <1>6 DEF ResolveSourceMap, MapRead
  <2>2. PageScripts' = PageScripts
        /\ \A x : Imports(x)' = Imports(x) /\ (MapRead(x)' <=> MapRead(x))
    BY <2>1 DEF PageScripts, Imports, MapRead, GuardAllows, Technical, Business
  <2> QED
    BY <1>0, <2>1, <2>2 DEF ImportsTold, Early
<1>7. CASE \/ Launch \/ Refuse \/ OpenContext \/ Open \/ Declare \/ (\E p \in Pages : Visit(p))
           \/ EndTraversal \/ StartSettling \/ BuildRunData \/ Write \/ Close
           \/ (\E s \in Scripts : ResponseArrives(s) \/ HandleResponse(s)) \/ Throw
           \/ UNCHANGED vars
  <2>1. /\ UNCHANGED <<site, bodies, listed, todo, fetching>> /\ degraded \subseteq degraded'
        /\ pc' \in Early \cup {"browse", "wait", "settle"} =>
             pc \in Early \cup {"browse", "wait", "settle"}
        /\ pc' = "imports" => pc = "imports"
        /\ pc' = "maps" => pc = "maps"
    BY <1>7 DEF Launch, Refuse, OpenContext, Open, Declare, Visit, EndTraversal, StartSettling,
                BuildRunData, Write, Close, ResponseArrives, HandleResponse, Throw, vars, Goto, Early
  <2>2. Elsewhere
    BY <1>7 DEF Elsewhere
  <2>3. Keeps(assets, assets')
    BY <2>2, AssetsKept
  <2>4. /\ PageScripts' \subseteq PageScripts /\ DOMAIN assets \subseteq DOMAIN assets'
        /\ \A x : Imports(x)' = Imports(x) /\ (MapRead(x)' <=> MapRead(x))
    BY <1>0, <2>1, <2>3, KeepsTold
  <2> QED
    BY <1>0, <2>1, <2>4 DEF ImportsTold, Early
<1> QED
  BY <1>1, <1>2, <1>3, <1>4, <1>5, <1>6, <1>7 DEF Next, Collector, Handlers

-----------------------------------------------------------------------------
(* The assets that are listed.                                              *)

LEMMA ListedLateKept ==
  ASSUME ListedLate, [Next]_vars
  PROVE  ListedLate'
<1> USE DEF world, navigation, memory
<1>1. CASE Compare
  BY <1>1 DEF Compare, Goto, ListedLate, Early
<1>2. CASE Rescan
  BY <1>2 DEF Rescan, ListedLate
<1>3. CASE \/ Launch \/ Refuse \/ OpenContext \/ Open \/ Declare \/ (\E p \in Pages : Visit(p))
           \/ EndTraversal \/ StartSettling \/ ReadImports \/ (\E s \in Scripts : RequestImport(s)) \/ ImportArrives
           \/ (\E s \in Scripts : ResolveSourceMap(s)) \/ BuildRunData \/ Write \/ Close
           \/ (\E s \in Scripts : ResponseArrives(s) \/ HandleResponse(s)) \/ Throw
           \/ UNCHANGED vars
  BY <1>3 DEF Launch, Refuse, OpenContext, Open, Declare, Visit, EndTraversal, StartSettling, ReadImports, RequestImport,
        ImportArrives, ResolveSourceMap, BuildRunData, Write, Close, ResponseArrives,
        HandleResponse, Throw, vars, Goto, ListedLate, Early
<1> QED
  BY <1>1, <1>2, <1>3 DEF Next, Collector, Handlers

LEMMA HashesKept ==
  ASSUME ScanTypes, HashesTrue, UnchangedTrue, [Next]_vars
  PROVE  HashesTrue' /\ UnchangedTrue'
<1>1. CASE Rescan
  BY <1>1, EmptyMap DEF Rescan, HashesTrue, UnchangedTrue
<1>2. CASE Compare
  <2>1. /\ assets' = [s \in DOMAIN assets |-> Compared(s)] /\ site' = site /\ previous' = previous
        /\ \A s \in DOMAIN assets : /\ Compared(s).hash = assets[s].hash
                                    /\ Compared(s).unchanged = Unchanged(s)
    BY <1>2, CompareIs, ComparedProperties DEF Compare, world
  <2>2. DOMAIN assets' = DOMAIN assets
    BY <2>1
  <2>3. \A s \in DOMAIN assets' : assets'[s].hash = assets[s].hash /\ assets'[s].unchanged = Unchanged(s)
    BY <2>1
  <2>4. HashesTrue'
    BY <2>1, <2>2, <2>3 DEF HashesTrue
  <2>5. UnchangedTrue'
    BY <2>1, <2>2, <2>3 DEF UnchangedTrue, Unchanged
  <2> QED
    BY <2>4, <2>5
<1>3. CASE ImportArrives
  BY <1>3, ImportRecord DEF HashesTrue, UnchangedTrue
<1>4. CASE Keeps(assets, assets') /\ site' = site /\ previous' = previous
  BY <1>4 DEF Keeps, HashesTrue, UnchangedTrue
<1> QED
  BY <1>1, <1>2, <1>3, <1>4, AssetChanges

\* Of the listed assets of one hash, all but the first name the first.
LEMMA RepresentedKept ==
  ASSUME ScanTypes, ListedLate, Represented, [Next]_vars
  PROVE  Represented'
<1>0. listed \subseteq DOMAIN assets /\ DOMAIN assets \subseteq Scripts
  BY DEF ScanTypes, IsAssetMap, AssetMap
<1>1. CASE Rescan
  BY <1>1 DEF Rescan, Represented
<1>2. CASE Compare
  <2>1. /\ assets' = [s \in DOMAIN assets |-> Compared(s)] /\ listed' = DOMAIN assets
        /\ \A s \in DOMAIN assets : /\ Compared(s).hash = assets[s].hash
                                    /\ Compared(s).duplicate = DuplicateOf(s, TheOrder)
    BY <1>2, CompareIs, ComparedProperties
  <2> DEFINE map == [s \in DOMAIN assets |-> Compared(s)]
  <2>2. ASSUME NEW s \in DOMAIN assets PROVE Represents(map, s)
    <3> DEFINE first == First(assets[s].hash, TheOrder)
    <3>1. first \in DOMAIN assets /\ assets[first].hash = assets[s].hash
      BY <1>0, TheOrderOrders, FirstProperties
    <3>2. map[s].duplicate = (IF assets[s].hash = NoContent \/ first = s THEN NoScript ELSE first)
      BY <2>1, DuplicateIsFirst
    <3>3. map[first].duplicate = NoScript
      BY <2>1, <3>1, DuplicateIsFirst
    <3>4. map[first].hash = map[s].hash
      BY <2>1, <3>1
    <3> HIDE DEF first, map
    <3>5. DOMAIN map = DOMAIN assets
      BY DEF map
    <3> QED
      BY <3>1, <3>2, <3>3, <3>4, <3>5 DEF Represents
  <2>3. Listed' = map
    BY <2>1 DEF Listed
  <2> HIDE DEF map
  <2> QED
    BY <2>1, <2>2, <2>3 DEF Represented
<1>3. CASE ImportArrives
  BY <1>3, ImportRecord DEF Represented, ListedLate
<1>4. CASE Keeps(assets, assets') /\ listed' = listed
  <2>1. /\ DOMAIN Listed = listed /\ DOMAIN Listed' = listed
        /\ \A s \in listed : Listed'[s].hash = Listed[s].hash /\ Listed'[s].duplicate = Listed[s].duplicate
    BY <1>0, <1>4 DEF Keeps, Listed
  <2>2. ASSUME NEW s \in listed PROVE Represents(Listed', s)
    BY <2>1 DEF Represents, Represented
  <2> QED
    BY <1>4, <2>2 DEF Represented
<1> QED
  BY <1>1, <1>2, <1>3, <1>4, AssetChanges

-----------------------------------------------------------------------------
(* The runs.                                                                *)

\* Facts taken over are of scripts whose content is still the one they are facts about.
LEMMA DraftBuilt ==
  ASSUME ScanTypes, HashesTrue, UnchangedTrue, Represented, RunsHonest, BuildRunData
  PROVE  DraftTrue'
<1> USE DEF world, navigation
<1>1. /\ draft'.assets = Listed
      /\ draft'.facts = AnalyzeL1 \cup (IF previous = NoRun THEN {} ELSE ReusedFacts)
      /\ draft'.evidence = {s \in listed : assets[s].hash # NoContent}
      /\ UNCHANGED <<site, listed>>
  BY DEF BuildRunData, Listed
<1>2. DOMAIN Listed = listed /\ \A s \in listed : Listed[s] = assets[s]
  BY DEF Listed
<1>3. \A s \in listed : Listed[s].duplicate \in listed \cup {NoScript}
  BY <1>2 DEF Represented, Represents
<1>4. Current(AnalyzeL1, listed)
  BY DEF AnalyzeL1, Analysed, Current
<1>5. ASSUME previous # NoRun PROVE Current(ReusedFacts, listed)
  <2>1. Honest(previous)
    BY <1>5 DEF RunsHonest
  <2>2. ASSUME NEW f \in ReusedFacts PROVE f[1] \in listed /\ f[2] = site.body[f[1]]
    <3>1. f \in previous.facts /\ f[1] \in listed /\ assets[f[1]].unchanged
      BY <2>2 DEF ReusedFacts
    <3>2. f[1] \in DOMAIN assets
      BY <3>1 DEF ScanTypes
    <3>3. previous.assets[f[1]].hash \in {NoContent, f[2]}
      BY <2>1, <3>1 DEF Honest
    <3>4. /\ previous.assets[f[1]].hash # NoContent
          /\ previous.assets[f[1]].hash = assets[f[1]].hash
      BY <3>1, <3>2 DEF UnchangedTrue
    <3>5. assets[f[1]].hash \in {NoContent, site.body[f[1]]}
      BY <3>2 DEF HashesTrue
    <3> QED
      BY <3>1, <3>3, <3>4, <3>5
  <2> QED
    BY <2>2 DEF Current
<1>6. Current(draft'.facts, listed)
  BY <1>1, <1>4, <1>5 DEF Current
<1>7. draft'.evidence \subseteq listed
  BY <1>1
<1> QED
  BY <1>1, <1>2, <1>3, <1>6, <1>7 DEF DraftTrue, Current

\* The collector's own validation of what it built never fails.
LEMMA DraftResolves ==
  ASSUME DraftTrue, pc = "integrate"
  PROVE  ReferencesResolve(draft)
BY DEF DraftTrue, ReferencesResolve, Current

LEMMA RunsKept ==
  ASSUME ScanInv, [Next]_vars
  PROVE  RunsHonest' /\ DraftTrue' /\ WrittenTrue'
<1> USE DEF world, navigation, memory
<1>0. ScanTypes /\ HashesTrue /\ UnchangedTrue /\ Represented /\ RunsHonest /\ DraftTrue /\ WrittenTrue
  BY DEF ScanInv
<1>1. CASE BuildRunData
  <2>1. UNCHANGED <<previous, runData>> /\ pc' = "integrate"
    BY <1>1 DEF BuildRunData, Goto
  <2>2. DraftTrue'
    BY <1>0, <1>1, DraftBuilt
  <2> QED
    BY <1>0, <2>1, <2>2 DEF RunsHonest, WrittenTrue
<1>2. CASE Write
  <2>1. pc = "integrate" /\ UNCHANGED <<site, previous>> /\ pc' # "integrate"
    BY <1>2 DEF Write, Goto
  <2>2. ReferencesResolve(draft)
    BY <1>0, <2>1, DraftResolves
  <2>3. runData'.assets = Listed /\ runData'.facts = draft.facts
    BY <1>0, <1>2, <2>2, WrittenTyped
  <2>4. /\ DOMAIN Listed = listed /\ listed \subseteq DOMAIN assets
        /\ \A s \in listed : Listed[s] = assets[s]
    BY <1>0 DEF Listed, ScanTypes
  <2>5. Current(draft.facts, listed)
    BY <1>0, <2>1 DEF DraftTrue
  <2>6. Current(runData'.facts, DOMAIN runData'.assets)
    BY <2>3, <2>4, <2>5
  <2>7. \A s \in DOMAIN runData'.assets : Represents(runData'.assets, s)
    BY <1>0, <2>3, <2>4 DEF Represented
  <2>8. Honest(runData')
    BY <1>0, <2>3, <2>4, <2>5 DEF Honest, Current, HashesTrue
  <2>9. WrittenTrue'
    BY <2>1, <2>6, <2>7 DEF WrittenTrue, Current
  <2> QED
    BY <1>0, <2>1, <2>8, <2>9 DEF RunsHonest, DraftTrue
<1>3. CASE Rescan
  BY <1>0, <1>3 DEF Rescan, RunsHonest, DraftTrue, WrittenTrue
<1>4. CASE \/ Launch \/ Refuse \/ OpenContext \/ Open \/ Declare \/ (\E p \in Pages : Visit(p))
           \/ EndTraversal \/ StartSettling \/ ReadImports \/ (\E s \in Scripts : RequestImport(s))
           \/ ImportArrives \/ Compare \/ (\E s \in Scripts : ResolveSourceMap(s)) \/ Close
           \/ (\E s \in Scripts : ResponseArrives(s) \/ HandleResponse(s)) \/ Throw
           \/ UNCHANGED vars
  <2>1. /\ UNCHANGED <<site, previous, runData, draft>>
        /\ pc' \in {"integrate", "written"} => pc' = pc /\ listed' = listed
    BY <1>4 DEF Launch, Refuse, OpenContext, Open, Declare, Visit, EndTraversal, StartSettling, ReadImports, RequestImport,
                ImportArrives, Compare, ResolveSourceMap, Close, ResponseArrives, HandleResponse,
                Throw, vars, Goto
  <2> QED
    BY <1>0, <2>1 DEF RunsHonest, DraftTrue, WrittenTrue, Current
<1> QED
  BY <1>1, <1>2, <1>3, <1>4 DEF Next, Collector, Handlers

\* A run is built complete, and what a late response does to its records changes nothing.
LEMMA CompleteKept ==
  ASSUME ScanInv, [Next]_vars
  PROVE  RunsComplete'
<1> USE DEF world, navigation, memory
<1>0. /\ ScanTypes /\ BlockedTold /\ ImportsTold /\ RunsComplete /\ DraftTrue
      /\ bodies \subseteq DOMAIN assets /\ listed \subseteq DOMAIN assets
  BY DEF ScanInv, ImportsTold, ScanTypes
<1>1. CASE BuildRunData
  <2> DEFINE unparsed == {<<"parse", s>> : s \in {x \in Analysed : site.body[x] \in Unparsable}}
  <2>1. /\ pc = "maps" /\ todo = {} /\ pc' = "integrate"
        /\ UNCHANGED <<site, assets, bodies, listed>>
        /\ draft'.status = IF degraded \cup unparsed = {} THEN "completed" ELSE "partial"
        /\ draft'.blocked = blocked /\ DOMAIN draft'.assets = listed
        /\ AnalyzeL1 \subseteq draft'.facts
    BY <1>1 DEF BuildRunData, Goto
  <2>2. ASSUME degraded = {}, unparsed = {} PROVE Complete(draft)'
    <3>1. /\ \A s \in PageScripts : Imports(s) \subseteq listed
          /\ \A s \in bodies : MapRead(s)
      BY <1>0, <2>1, <2>2 DEF ImportsTold
    <3>2. \A s \in Analysed : site.body[s] \notin Unparsable /\ <<s, site.body[s]>> \in draft'.facts
      BY <2>1, <2>2 DEF AnalyzeL1
    <3>3. /\ PageScripts' = PageScripts /\ Analysed' = Analysed
          /\ \A s : Imports(s)' = Imports(s) /\ (MapRead(s)' <=> MapRead(s))
      BY <2>1 DEF PageScripts, Analysed, Imports, MapRead, GuardAllows, Technical, Business
    <3>4. blocked = {}
      BY <1>0, <2>2 DEF BlockedTold
    <3> QED
      BY <2>1, <3>1, <3>2, <3>3, <3>4 DEF Complete
  <2>3. ASSUME degraded # {} \/ unparsed # {} PROVE Complete(draft)'
    BY <2>1, <2>3 DEF Complete
  <2> QED
    BY <2>1, <2>2, <2>3 DEF RunsComplete
<1>2. CASE Write
  <2>1. /\ pc = "integrate" /\ pc' \in {"written", "failed"}
        /\ UNCHANGED <<site, assets, bodies, listed>>
    BY <1>2 DEF Write, Goto
  <2>2. ReferencesResolve(draft) /\ DOMAIN draft.assets = listed
    BY <1>0, <2>1, DraftResolves DEF DraftTrue
  <2>3. /\ runData'.assets = Listed /\ runData'.facts = draft.facts
        /\ runData'.status = draft.status /\ runData'.blocked = draft.blocked
    BY <1>0, <1>2, <2>2, WrittenTyped
  <2>4. DOMAIN runData'.assets = DOMAIN draft.assets
    BY <2>2, <2>3 DEF Listed
  <2>5. /\ PageScripts' = PageScripts /\ Analysed' = Analysed
        /\ \A s : Imports(s)' = Imports(s) /\ (MapRead(s)' <=> MapRead(s))
    BY <2>1 DEF PageScripts, Analysed, Imports, MapRead, GuardAllows, Technical, Business
  <2>6. Complete(draft)
    BY <1>0, <2>1 DEF RunsComplete
  <2>7. Complete(runData)'
    BY <2>1, <2>3, <2>4, <2>5, <2>6 DEF Complete
  <2> QED
    BY <2>1, <2>7 DEF RunsComplete
<1>3. CASE Rescan
  BY <1>3 DEF Rescan, RunsComplete
<1>4. CASE ImportArrives \/ Compare
  BY <1>4 DEF ImportArrives, Compare, Goto, RunsComplete
<1>5. CASE ReadImports \/ \E s \in Scripts : ResolveSourceMap(s)
  BY <1>5 DEF ReadImports, ResolveSourceMap, Goto, RunsComplete
<1>6. CASE Elsewhere /\ UNCHANGED <<runData, draft, bodies>>
           /\ (pc' \in {"integrate", "written"} => pc' = pc)
  <2>1. Keeps(assets, assets') /\ UNCHANGED <<site, listed>>
    BY <1>0, <1>6, AssetsKept
  <2>2. /\ PageScripts' \subseteq PageScripts /\ Analysed' = Analysed
        /\ \A s : Imports(s)' = Imports(s) /\ (MapRead(s)' <=> MapRead(s))
    BY <1>0, <1>6, <2>1, KeepsTold
  <2>3. ASSUME NEW run, Complete(run)
        PROVE  run.status = "completed" =>
                 /\ run.blocked = {}
                 /\ \A s \in PageScripts' : Imports(s)' \subseteq DOMAIN run.assets
                 /\ \A s \in bodies : MapRead(s)'
                 /\ \A s \in Analysed' : site.body[s] \notin Unparsable
                                         /\ <<s, site.body[s]>> \in run.facts
    BY <2>2, <2>3 DEF Complete
  <2>4. pc = "integrate" => Complete(draft)'
    BY <1>0, <1>6, <2>1, <2>3 DEF Complete, RunsComplete
  <2>5. pc = "written" => Complete(runData)'
    BY <1>0, <1>6, <2>1, <2>3 DEF Complete, RunsComplete
  <2> QED
    BY <1>6, <2>4, <2>5 DEF RunsComplete
<1>7. CASE \/ Launch \/ Refuse \/ OpenContext \/ Open \/ Declare \/ (\E p \in Pages : Visit(p))
           \/ EndTraversal \/ StartSettling \/ (\E s \in Scripts : RequestImport(s)) \/ Close
           \/ (\E s \in Scripts : ResponseArrives(s) \/ HandleResponse(s)) \/ Throw
           \/ UNCHANGED vars
  <2>1. Elsewhere
    BY <1>7 DEF Elsewhere
  <2>2. /\ UNCHANGED <<runData, draft, bodies>>
        /\ (pc' \in {"integrate", "written"} => pc' = pc)
    BY <1>7 DEF Launch, Refuse, OpenContext, Open, Declare, Visit, EndTraversal, StartSettling,
                RequestImport, Close, ResponseArrives, HandleResponse, Throw, vars, Goto
  <2> QED
    BY <1>6, <2>1, <2>2
<1> QED
  BY <1>1, <1>2, <1>3, <1>4, <1>5, <1>7 DEF Next, Collector, Handlers

-----------------------------------------------------------------------------
(* The theorems.                                                            *)

LEMMA ScanStarts ==
  ASSUME Init
  PROVE  ScanInv
<1>1. site \in Sites /\ root = site.entry
  BY DEF Init
<1>2. root \in Pages
  BY <1>1, SitesAssumption DEF SiteType
<1>3. ScanTypes
  BY <1>2, EmptyMap DEF Init, ScanTypes, NothingSkipped
<1>4. NavigationTrue
  BY DEF Init, NavigationTrue, NoPage, Traversed
<1> QED
  BY <1>3, <1>4, EmptyMap
     DEF Init, ScanInv, Readable, ListedLate, BlockedTold, ImportsTold, RunsComplete, HashesTrue,
         UnchangedTrue, Represented, RunsHonest, DraftTrue, WrittenTrue

LEMMA ScanTypesKept ==
  ASSUME ScanTypes, Readable, [Next]_vars
  PROVE  ScanTypes'
<1>1. site' \in Sites /\ scan' \in Nat
  <2>1. UNCHANGED <<site, scan>> \/ Rescan
    <3> USE DEF world, navigation, memory
    <3> QED
      BY DEF Next, Collector, Handlers, vars, Launch, Refuse, OpenContext, Open, Declare, Visit,
             EndTraversal, StartSettling, ReadImports, RequestImport, ImportArrives, Compare,
             ResolveSourceMap, BuildRunData, Write, Close, ResponseArrives, HandleResponse, Throw
  <2> QED
    BY <2>1 DEF ScanTypes, Rescan
<1> QED
  BY <1>1, AssetsTyped, ReadingTyped, GuardTyped, NavigationTyped, RunsTyped DEF ScanTypes

\* The invariant is inductive: no step of the collector, of a handler or of a failing await
\* breaks what the others rely on.
THEOREM ScanInvariant == Spec => []ScanInv
<1>1. Init => ScanInv
  BY ScanStarts
<1>2. ScanInv /\ [Next]_vars => ScanInv'
  <2> SUFFICES ASSUME ScanInv, [Next]_vars PROVE ScanInv'
    OBVIOUS
  <2>1. /\ ScanTypes /\ Readable /\ ListedLate /\ BlockedTold /\ NavigationTrue /\ ImportsTold
        /\ HashesTrue /\ UnchangedTrue /\ Represented
    BY DEF ScanInv
  <2>2. ScanTypes' /\ Readable' /\ ListedLate'
    BY <2>1, ScanTypesKept, ReadingTyped, ListedLateKept
  <2>3. BlockedTold' /\ NavigationTrue' /\ ImportsTold' /\ RunsComplete'
    BY <2>1, BlockedKept, NavigationKept, ImportsKept, CompleteKept
  <2>4. HashesTrue' /\ UnchangedTrue' /\ Represented'
    BY <2>1, HashesKept, RepresentedKept
  <2>5. RunsHonest' /\ DraftTrue' /\ WrittenTrue'
    BY RunsKept
  <2> QED
    BY <2>2, <2>3, <2>4, <2>5 DEF ScanInv
<1> QED
  BY <1>1, <1>2, PTL DEF Spec

\* Every page is reached through a read-only link of a page or a tab visited before, and every
\* such link is followed or its omission is told (readonly-navigation.mjs).
THEOREM NavigationTells == Spec => []NavigationIsTold
<1>1. ScanInv => NavigationIsTold
  <2> SUFFICES ASSUME NavigationTrue PROVE NavigationIsTold
    BY DEF ScanInv
  <2>1. \A p \in visited \ {root} : Known(p)
    BY DEF NavigationTrue
  <2>2. ASSUME Traversed, NEW l, NEW here, l.to \in DOMAIN via PROVE Accounted(l, here)
    <3>1. Placed(l.to) /\ (queue # {} => skipped.limit)
      BY <2>2 DEF NavigationTrue
    <3> QED
      BY <3>1 DEF Placed, Accounted
  <2>3. ASSUME Traversed, NEW p \in visited
        PROVE  /\ \A l \in LinksIn(Here(p), Here(p)) : Accounted(l, Here(p))
               /\ \A t \in TabsOf(Here(p)) :
                    \/ <<Here(p), t>> \in skipped.links
                    \/ \A l \in LinksIn(t.to, Here(p)) : Accounted(l, Here(p))
    <3>1. Shown(Here(p))
      BY DEF NavigationTrue
    <3>2. ASSUME NEW l \in LinksIn(Here(p), Here(p)) PROVE Accounted(l, Here(p))
      <4>1. l.to \in DOMAIN via \/ <<Here(p), l>> \in skipped.links
        BY <3>1 DEF Shown
      <4> QED
        BY <2>2, <2>3, <4>1 DEF Accounted
    <3>3. ASSUME NEW t \in TabsOf(Here(p)), <<Here(p), t>> \notin skipped.links
          PROVE  \A l \in LinksIn(t.to, Here(p)) : Accounted(l, Here(p))
      <4>1. <<Here(p), t>> \in visitedKeys
        BY <3>1, <3>3 DEF Shown
      <4>2. TabRead(<<Here(p), t>>)
        BY <4>1 DEF NavigationTrue
      <4>3. \A l \in LinksIn(t.to, Here(p)) : l.to \in DOMAIN via
        BY <3>3, <4>2 DEF TabRead
      <4> QED
        BY <2>2, <2>3, <4>3
    <3> QED
      BY <3>2, <3>3
  <2> QED
    BY <2>1, <2>3 DEF NavigationIsTold, Known
<1> QED
  BY <1>1, ScanInvariant, PTL

\* A run that calls itself completed has every import and source map the scan set out to read,
\* and the facts of every script it analysed (collector.mjs).
THEOREM CompletedRunsAreComplete == Spec => []CompletedIsComplete
<1>1. ScanInv => CompletedIsComplete
  BY DEF ScanInv, RunsComplete, CompletedIsComplete
<1> QED
  BY <1>1, ScanInvariant, PTL

\* The facts of a written run are facts about the scripts as they are, those taken over from
\* the run before too, and each content has one representative (collector.mjs).
THEOREM RunTellsTheTruth == Spec => []RunDataIsTrue
<1>1. ScanInv => RunDataIsTrue
  <2> SUFFICES ASSUME ScanInv PROVE RunDataIsTrue
    OBVIOUS
  <2>1. FactsAreCurrent
    BY DEF ScanInv, WrittenTrue, Current, FactsAreCurrent
  <2>2. OneRepresentative
    BY DraftResolves DEF ScanInv, WrittenTrue, Represents, OneRepresentative
  <2> QED
    BY <2>1, <2>2 DEF RunDataIsTrue
<1> QED
  BY <1>1, ScanInvariant, PTL
=============================================================================
