------------------------------ MODULE AssetScan ------------------------------
(***************************************************************************)
(* js-test-mapper scan: a browser opens the target, the responses of its   *)
(* scripts are read by handlers that run whenever a response arrives, and  *)
(* meanwhile the collector reads the declared scripts, walks the read-only *)
(* links, fetches static imports and source maps through its guard,        *)
(* compares with the previous run, analyses what is new and writes         *)
(* run-data.json.  Further scans take that file as their previous run.     *)
(*                                                                         *)
(* Abstractions.  A script is its canonical URL, a hash is the content it  *)
(* is taken of; every script is of type js.  What a URL or a link text     *)
(* says to the regular expressions is an attribute of the site, and what a *)
(* page shows once a tab is clicked is a page of its own.  Pages, and the  *)
(* links of a page, are taken in any order.  A click hits the element that *)
(* was classified.  A site stays as it is during one scan.                 *)
(***************************************************************************)
EXTENDS Naturals, FiniteSets

CONSTANTS
  Scripts, NoScript,     \* canonical URLs; no URL
  Contents, NoContent,   \* what a script may contain; not available
  Unparsable,            \* the contents babel cannot parse
  Pages,                 \* pages of the target
  Sites,                 \* what the target may be, see SiteType
  NoRun,                 \* no previous run-data.json
  MaxPages, MaxPagination,   \* of the navigation
  MaxScans               \* bound: scans of one history

Link == [to : Pages, dangerous : BOOLEAN, disabled : BOOLEAN, tab : BOOLEAN,
         anchor : BOOLEAN, readonly : BOOLEAN, pagination : BOOLEAN]
SiteType == [entry : Pages, declares : [Pages -> SUBSET Scripts], loads : [Pages -> SUBSET Scripts],
             links : [Pages -> SUBSET Link],
             list : [Pages -> Pages],     \* the URL of a page without its query
             host : [Pages -> {"target", "elsewhere"}],
             lands : [Pages -> Pages],    \* where a page redirects to, itself when nowhere
             origin : [Scripts -> {"same", "cdn", "vendor", "other"}],
             body : [Scripts -> Contents \cup {NoContent}], imports : [Contents -> SUBSET Scripts],
             map : [Contents -> Scripts \cup {NoScript}],
             business : SUBSET Scripts, plain : SUBSET Scripts]   \* plain: no technical suffix

ASSUME ScanAssumption == MaxPages \in Nat /\ MaxPagination \in Nat /\ MaxScans \in Nat
\* A site has finitely many scripts.
ASSUME SitesAssumption == Sites \subseteq SiteType /\ IsFiniteSet(Scripts)

VARIABLES
  site, previous, scan,   \* the target; the run-data passed as --previous-run; scans begun
  pc, mode,               \* the collector's next step; [production, confirmed, interactive]
  browser,                \* "none", "open", "closed"
  task,                   \* of every script: "none", "reading", "done"
  awaited,                \* tasks allSettled waits for
  assets, received,       \* assetMap; responseBodiesByUrl
  bodies, listed,         \* sources for analysis; the sorted assets
  todo, fetching,         \* imports, then source maps still to do; the one being awaited
  degraded, blocked,      \* degradation; what the guard refused
  opened,                 \* pages the browser has shown
  root, queue, via,       \* of the navigation: where it begins; pages to visit; every page
                          \* ever queued, with the link that named it and the page it was on
  visited, visitedKeys,   \* pages visited, and tabs shown
  paged, skipped,         \* paginationCounts; what it says it left out
  draft, runData          \* baseRunData; the file

world == <<site, previous, scan, mode>>
navigation == <<opened, root, queue, via, visited, visitedKeys, paged, skipped>>
memory == <<bodies, listed, todo, fetching, draft>>
vars == <<world, pc, browser, task, awaited, assets, received, memory, degraded, blocked,
          navigation, runData>>

Technical(s) == s \notin site.plain
Business(s) == s \in site.business
Trusted == {"first_party", "app_associated"}
HtmlSources == {"html", "static_import"}

ClassifyAsset(s, sources) ==
  IF site.origin[s] = "vendor" THEN "third_party"
  ELSE IF site.origin[s] = "same" THEN "first_party"
  ELSE IF site.origin[s] = "cdn" THEN "third_party"
  ELSE IF sources \cap HtmlSources # {} THEN "app_associated" ELSE "unknown"

Record(s, content, source) ==
  [hash |-> content, class |-> ClassifyAsset(s, {source}), sources |-> {source},
   loaded |-> source = "network", duplicate |-> NoScript, unchanged |-> FALSE, first |-> scan]

\* A record that is already there keeps its hash and its class.
MergeAssetRecord(map, s, new) ==
  IF s \notin DOMAIN map
  THEN [x \in DOMAIN map \cup {s} |-> IF x = s THEN new ELSE map[x]]
  ELSE [map EXCEPT ![s].sources = @ \cup new.sources, ![s].loaded = @ \/ new.loaded]

\* addDeclared: a declared script has no content yet.
AddDeclared(map, declared) ==
  LET new == {s \in declared : Technical(s)}
  IN [x \in DOMAIN map \cup new |->
        IF x \notin new THEN map[x]
        ELSE IF x \in DOMAIN map THEN [map[x] EXCEPT !.sources = @ \cup {"html"}]
        ELSE Record(x, NoContent, "html")]

NextBatchId(run) == IF run = NoRun THEN 1 ELSE run.batch + 1

NoPage == [p \in {} |-> NoScript]
NothingPaged == [p \in Pages |-> 0]
NothingSkipped == [pages |-> {}, links |-> {}, limit |-> FALSE]

Init ==
  /\ site \in Sites /\ previous = NoRun /\ scan = 1 /\ runData = NoRun
  /\ mode \in [production : BOOLEAN, confirmed : BOOLEAN, interactive : BOOLEAN]
  /\ pc = "start" /\ browser = "none" /\ task = [s \in Scripts |-> "none"] /\ awaited = {}
  /\ assets = [s \in {} |-> NoScript] /\ received = {} /\ bodies = {} /\ listed = {} /\ todo = {}
  /\ fetching = NoScript /\ degraded = {} /\ blocked = {} /\ draft = NoRun
  /\ opened = {} /\ root = site.entry /\ queue = {} /\ via = NoPage /\ visited = {}
  /\ visitedKeys = {} /\ paged = NothingPaged /\ skipped = NothingSkipped

-----------------------------------------------------------------------------
(* The collector, up to the navigation.                                     *)

Goto(next) == pc' = next

\* The first browser candidate that launches; none does, or the production
\* environment was not confirmed: the scan fails.
Launch ==
  /\ pc = "start" /\ (mode.production => mode.confirmed)
  /\ browser' = "open" /\ Goto("launched")
  /\ UNCHANGED <<world, task, awaited, assets, received, memory, degraded, blocked, navigation,
                 runData>>

Refuse ==
  /\ pc = "start" /\ Goto("failed")
  /\ UNCHANGED <<world, browser, task, awaited, assets, received, memory, degraded, blocked,
                 navigation, runData>>

\* browser.newContext, then context.newPage: both come before the try.
OpenContext ==
  /\ \/ pc = "launched" /\ Goto("context")
     \/ pc = "context" /\ Goto("opened")
     \/ pc \in {"launched", "context"} /\ Goto("ended")   \* rejected
  /\ UNCHANGED <<world, browser, task, awaited, assets, received, memory, degraded, blocked,
                 navigation, runData>>

\* page.goto: from now on the scripts of the entry page arrive.
Open ==
  /\ pc = "opened" /\ Goto("declare") /\ opened' = {site.entry}
  /\ UNCHANGED <<world, browser, task, awaited, assets, received, memory, degraded, blocked, root,
                 queue, via, visited, visitedKeys, paged, skipped, runData>>

\* In an interactive scan the user logs in, which ends on some page.
Declare ==
  /\ pc = "declare"
  /\ IF mode.interactive
     THEN \E p \in Pages :
            /\ assets' = AddDeclared(assets, site.declares[site.entry] \cup site.declares[p])
            /\ opened' = opened \cup {p} /\ root' = p /\ queue' = {p}
            /\ via' = [q \in {p} |-> [from |-> p, link |-> NoScript]]
            /\ Goto("browse")
     ELSE /\ assets' = AddDeclared(assets, site.declares[site.entry])
          /\ Goto("wait") /\ UNCHANGED <<opened, root, queue, via>>
  /\ UNCHANGED <<world, browser, task, awaited, received, memory, degraded, blocked, visited,
                 visitedKeys, paged, skipped, runData>>

\* A link on the page `here'.
ClassifyReadonlyEntry(l, here) ==
  IF l.dangerous THEN "blocked"
  ELSE IF l.disabled \/ site.host[l.to] # site.host[here] THEN "skipped"
  ELSE IF (l.tab /\ l.anchor) \/ (~l.tab /\ (l.readonly \/ l.pagination))
  THEN "visit" ELSE "skipped"

Safe(links, here) == {l \in links : ClassifyReadonlyEntry(l, here) = "visit"}
TabsOf(here) == {l \in Safe(site.links[here], here) : l.tab}
LinksIn(p, here) == {l \in Safe(site.links[p], here) : ~l.tab}

\* Of the pagination links of a page itself as many are taken as the count of
\* its list allows; the links found in a tab are all taken.
Sampled(here) ==
  LET pages == {l \in LinksIn(here, here) : l.pagination}
      rest == MaxPagination - paged[site.list[here]]
  IN {taken \in SUBSET pages :
        Cardinality(taken) = IF Cardinality(pages) <= rest THEN Cardinality(pages) ELSE rest}

\* Where the browser is when it has gone to p; it is at the root already.
Here(p) == IF p = root THEN root ELSE site.lands[p]

Snapshots == Cardinality(visited) + Cardinality(visitedKeys)

\* A page that answers: its scripts and those of its tabs are declared, and
\* the links it may follow are queued.  A tab may fail before or after it shows.
VisitPage(p, taken, shown, read) ==
  LET here == Here(p)
      new == {t \in shown : <<here, t>> \notin visitedKeys}
      plain == {l \in LinksIn(here, here) : ~l.pagination}
      follow == plain \cup taken \cup UNION {LinksIn(t.to, here) : t \in new \cap read}
      targets == {l.to : l \in follow} \ DOMAIN via
      pages == {l \in LinksIn(here, here) : l.pagination}
      failed == {t \in TabsOf(here) : t \notin shown \/ (t \in new /\ t \notin read)}
  IN
  /\ visited' = visited \cup {p} /\ visitedKeys' = visitedKeys \cup {<<here, t>> : t \in new}
  /\ opened' = opened \cup {here} \cup {t.to : t \in shown}
  /\ assets' = AddDeclared(assets, site.declares[here]
                                   \cup UNION {site.declares[t.to] : t \in new})
  /\ queue' = (queue \ {p}) \cup targets
  /\ via' = [q \in DOMAIN via \cup targets |->
               IF q \in DOMAIN via THEN via[q]
               ELSE [from |-> p, link |-> CHOOSE l \in follow : l.to = q]]
  /\ paged' = [paged EXCEPT ![site.list[here]] = @ + Cardinality(taken)]
  /\ skipped' = [skipped EXCEPT !.links = @ \cup {<<here, l>> : l \in (pages \ taken) \cup failed}]

\* One round of the loop.
Visit(p) ==
  /\ pc = "browse" /\ p \in queue /\ Snapshots < MaxPages
  /\ \/ /\ site.host[p] = site.host[root]
        /\ \E taken \in Sampled(Here(p)), shown \in SUBSET TabsOf(Here(p)) :
             \E read \in SUBSET shown : VisitPage(p, taken, shown, read)
     \/ /\ site.host[p] = site.host[root] /\ p # root  \* navigation_http_error, navigation_failed
        /\ queue' = queue \ {p} /\ opened' = opened \cup {Here(p)}
        /\ skipped' = [skipped EXCEPT !.pages = @ \cup {p}]
        /\ UNCHANGED <<visited, visitedKeys, assets, via, paged>>
     \/ /\ site.host[p] # site.host[root] /\ queue' = queue \ {p}
        /\ UNCHANGED <<visited, visitedKeys, opened, assets, via, paged, skipped>>
  /\ UNCHANGED <<world, pc, browser, task, awaited, received, memory, degraded, blocked, root,
                 runData>>

\* Mutant: a navigation that stops at its limit says nothing
NeverLimited(left) == FALSE

LimitReached(left) == left # {}

\* The traversal is over: navigation_limit_reached when pages are left.
EndTraversal ==
  /\ pc = "browse" /\ (queue = {} \/ Snapshots >= MaxPages)
  /\ Goto("wait") /\ skipped' = [skipped EXCEPT !.limit = LimitReached(queue)]
  /\ UNCHANGED <<world, browser, task, awaited, assets, received, memory, degraded, blocked,
                 opened, root, queue, via, visited, visitedKeys, paged, runData>>

\* Promise.allSettled takes the tasks there are at this moment.
StartSettling ==
  /\ pc = "wait" /\ Goto("settle") /\ awaited' = {s \in Scripts : task[s] = "reading"}
  /\ UNCHANGED <<world, browser, task, assets, received, memory, degraded, blocked, navigation,
                 runData>>

-----------------------------------------------------------------------------
(* The response handlers, at any time while the browser is open.            *)

ResponseArrives(s) ==
  /\ browser = "open" /\ task[s] = "none" /\ \E p \in opened : s \in site.loads[p]
  /\ task' = [task EXCEPT ![s] = "reading"]
  /\ UNCHANGED <<world, pc, browser, awaited, assets, received, memory, degraded, blocked, navigation,
                 runData>>

HandleResponse(s) ==
  /\ task[s] = "reading" /\ browser = "open"
  /\ task' = [task EXCEPT ![s] = "done"]
  /\ IF site.body[s] # NoContent
     THEN /\ received' = received \cup {s}
          /\ assets' = MergeAssetRecord(assets, s, Record(s, site.body[s], "network"))
          /\ UNCHANGED degraded
     ELSE /\ degraded' = degraded \cup {<<"body", s>>} /\ UNCHANGED <<received, assets>>
  /\ UNCHANGED <<world, pc, browser, awaited, memory, blocked, navigation, runData>>

-----------------------------------------------------------------------------
(* Imports, comparison, source maps.                                        *)

ReadImports ==
  LET known == received \cap DOMAIN assets
  IN
  /\ pc = "settle" /\ \A s \in awaited : task[s] = "done"
  /\ bodies' = known
  /\ todo' = {s \in UNION {site.imports[site.body[k]] : k \in known} : Technical(s)}
  /\ Goto("imports")
  /\ UNCHANGED <<world, browser, task, awaited, assets, received, listed, fetching, draft, degraded,
                 blocked, navigation, runData>>

GuardAllows(s) == Technical(s) /\ ~Business(s)

\* Mutant: a request the guard refused is no degradation
RefusalForgotten(s) == {}

ImportRefused(s) == {<<"import", s>>}

\* getTechnical refuses, or a request is on its way; a known asset gets a source.
RequestImport(s) ==
  /\ pc = "imports" /\ fetching = NoScript /\ s \in todo
  /\ IF s \in DOMAIN assets
     THEN /\ assets' = [assets EXCEPT ![s].sources = @ \cup {"static_import"}]
          /\ todo' = todo \ {s} /\ UNCHANGED <<fetching, blocked, degraded>>
     ELSE IF GuardAllows(s)
     THEN fetching' = s /\ UNCHANGED <<assets, todo, blocked, degraded>>
     ELSE /\ blocked' = blocked \cup {s} /\ degraded' = degraded \cup ImportRefused(s)
          /\ todo' = todo \ {s} /\ UNCHANGED <<assets, fetching>>
  /\ UNCHANGED <<world, pc, browser, task, awaited, received, bodies, listed, draft, navigation,
                 runData>>

\* assetMap.set replaces what a response handler has recorded meanwhile.
ImportArrives ==
  /\ pc = "imports" /\ fetching # NoScript
  /\ IF site.body[fetching] # NoContent
     THEN /\ assets' = [x \in DOMAIN assets \cup {fetching} |->
                          IF x = fetching THEN Record(x, site.body[x], "static_import")
                          ELSE assets[x]]
          /\ bodies' = bodies \cup {fetching} /\ UNCHANGED degraded
     ELSE /\ degraded' = degraded \cup {<<"import", fetching>>} /\ UNCHANGED <<assets, bodies>>
  /\ todo' = todo \ {fetching} /\ fetching' = NoScript
  /\ UNCHANGED <<world, pc, browser, task, awaited, received, listed, draft, blocked, navigation,
                 runData>>

\* Mutant: a script of the previous run is unchanged, whatever it contains now
KnownBefore(s) == previous # NoRun /\ s \in DOMAIN previous.assets

Unchanged(s) ==
  /\ previous # NoRun /\ s \in DOMAIN previous.assets
  /\ previous.assets[s].hash # NoContent /\ previous.assets[s].hash = assets[s].hash

\* The first asset, in the order of the URLs, with the same hash.
DuplicateOf(s, order) ==
  LET first == CHOOSE x \in DOMAIN assets :
                 assets[x].hash = assets[s].hash /\ \A y \in DOMAIN assets :
                    assets[y].hash = assets[s].hash => order[x] <= order[y]
  IN IF assets[s].hash = NoContent \/ first = s THEN NoScript ELSE first

\* The assets are sorted and compared with the previous run and each other.
Compare ==
  LET order == CHOOSE f \in [Scripts -> 1..Cardinality(Scripts)] :
                 \A x, y \in Scripts : f[x] = f[y] => x = y
      before(s) == previous # NoRun /\ s \in DOMAIN previous.assets
  IN
  /\ pc = "imports" /\ todo = {}
  /\ listed' = DOMAIN assets
  /\ assets' = [s \in DOMAIN assets |->
       [assets[s] EXCEPT !.duplicate = DuplicateOf(s, order), !.unchanged = Unchanged(s),
          !.first = IF before(s) THEN previous.assets[s].first ELSE NextBatchId(previous)]]
  /\ todo' = DOMAIN assets \cap bodies /\ Goto("maps")
  /\ UNCHANGED <<world, browser, task, awaited, received, bodies, fetching, draft, degraded, blocked,
                 navigation, runData>>

\* resolveSourceMap: not declared, rejected, refused by the guard, unavailable, resolved.
ResolveSourceMap(s) ==
  LET pointer == site.map[site.body[s]]
      sent == pointer # NoScript /\ Technical(pointer) /\ GuardAllows(pointer)
  IN
  /\ pc = "maps" /\ s \in todo /\ todo' = todo \ {s}
  /\ blocked' = IF pointer # NoScript /\ Technical(pointer) /\ ~GuardAllows(pointer)
                THEN blocked \cup {pointer} ELSE blocked
  /\ degraded' = IF pointer = NoScript \/ (sent /\ site.body[pointer] # NoContent)
                 THEN degraded ELSE degraded \cup {<<"map", s>>}
  /\ UNCHANGED <<world, pc, browser, task, awaited, assets, received, bodies, listed, fetching,
                 draft, navigation, runData>>

-----------------------------------------------------------------------------
(* Analysis and the file.                                                   *)

Analysed == {s \in listed : assets[s].duplicate = NoScript /\ ~assets[s].unchanged
                            /\ s \in bodies /\ assets[s].class \in Trusted}
AnalyzeL1 == {<<s, site.body[s]>> : s \in {x \in Analysed : site.body[x] \notin Unparsable}}
ReusedFacts == {f \in previous.facts : f[1] \in listed /\ assets[f[1]].unchanged}

\* Up to `await runtimeMetadata()`: the status is decided here.
BuildRunData ==
  LET failed == degraded \cup
        {<<"parse", s>> : s \in {x \in Analysed : site.body[x] \in Unparsable}}
  IN
  /\ pc = "maps" /\ todo = {} /\ Goto("integrate")
  /\ degraded' = failed
  /\ draft' = [batch |-> NextBatchId(previous), status |-> IF failed = {} THEN "completed"
                                                          ELSE "partial",
               assets |-> [s \in listed |-> assets[s]],
               facts |-> AnalyzeL1 \cup IF previous = NoRun THEN {} ELSE ReusedFacts,
               evidence |-> {s \in listed : assets[s].hash # NoContent}, blocked |-> blocked]
  /\ UNCHANGED <<world, browser, task, awaited, assets, received, bodies, listed, todo, fetching,
                 blocked, navigation, runData>>

\* validateRunData, with the records as the late handlers left them.
ReferencesResolve(run) ==
  /\ \A s \in DOMAIN run.assets : run.assets[s].duplicate \in DOMAIN run.assets \cup {NoScript}
  /\ \A f \in run.facts : f[1] \in DOMAIN run.assets
  /\ run.evidence \subseteq DOMAIN run.assets

Write ==
  /\ pc = "integrate"
  /\ IF ReferencesResolve(draft)
     THEN runData' = [draft EXCEPT !.assets = [s \in listed |-> assets[s]]] /\ Goto("written")
     ELSE Goto("failed") /\ UNCHANGED runData
  /\ UNCHANGED <<world, browser, task, awaited, assets, received, memory, degraded, blocked,
                 navigation>>

\* Any await of the try may throw; `finally` closes the browser.
Throw ==
  /\ pc \notin {"start", "launched", "context", "written", "failed", "ended"} /\ Goto("failed")
  /\ UNCHANGED <<world, browser, task, awaited, assets, received, memory, degraded, blocked,
                 navigation, runData>>

\* Mutant: only a scan that succeeded closes its browser
CloseOnSuccess ==
  /\ pc \in {"written", "failed"} /\ Goto("ended")
  /\ browser' = IF browser = "open" /\ pc = "written" THEN "closed" ELSE browser
  /\ UNCHANGED <<world, task, awaited, assets, received, memory, degraded, blocked, navigation,
                 runData>>

Close ==
  /\ pc \in {"written", "failed"} /\ Goto("ended")
  /\ browser' = IF browser = "open" THEN "closed" ELSE browser
  /\ UNCHANGED <<world, task, awaited, assets, received, memory, degraded, blocked, navigation,
                 runData>>

\* The next scan, of the target as it is then, with or without --previous-run.
Rescan ==
  /\ pc = "ended" /\ scan < MaxScans
  /\ scan' = scan + 1 /\ site' \in Sites /\ previous' \in {runData, NoRun}
  /\ mode' = [production |-> FALSE, confirmed |-> FALSE, interactive |-> FALSE]
  /\ pc' = "start" /\ browser' = "none" /\ task' = [s \in Scripts |-> "none"] /\ awaited' = {}
  /\ assets' = [s \in {} |-> NoScript] /\ received' = {} /\ bodies' = {} /\ listed' = {}
  /\ todo' = {} /\ fetching' = NoScript /\ degraded' = {} /\ blocked' = {} /\ draft' = NoRun
  /\ opened' = {} /\ root' = site'.entry /\ queue' = {} /\ via' = NoPage /\ visited' = {}
  /\ visitedKeys' = {} /\ paged' = NothingPaged /\ skipped' = NothingSkipped
  /\ UNCHANGED runData

Collector ==
  \/ Launch \/ Refuse \/ OpenContext \/ Open \/ Declare \/ (\E p \in Pages : Visit(p))
  \/ EndTraversal \/ StartSettling
  \/ ReadImports \/ (\E s \in Scripts : RequestImport(s)) \/ ImportArrives \/ Compare
  \/ (\E s \in Scripts : ResolveSourceMap(s)) \/ BuildRunData \/ Write \/ Close
Handlers == \E s \in Scripts : ResponseArrives(s) \/ HandleResponse(s)

Next == Collector \/ Handlers \/ Throw \/ Rescan
Spec == Init /\ [][Next]_vars
\* An await of Playwright ends, and so does the reading of a body that has begun.
FairSpec == Spec /\ WF_vars(Collector) /\ \A s \in Scripts : WF_vars(HandleResponse(s))

-----------------------------------------------------------------------------
Traversed == mode.interactive /\ pc \in {"wait", "settle", "imports", "maps", "integrate", "written"}

\* What becomes of a link found on the page `here': its page was visited, or
\* one of the records of the navigation says why not; or it belongs to another
\* host, to which only a redirect can have led.
Accounted(l, here) ==
  \/ l.to \in visited \cup skipped.pages \/ <<here, l>> \in skipped.links
  \/ l.to \in queue /\ skipped.limit
  \/ site.host[l.to] # site.host[root]

\* A page is visited only through a read-only link that a visited page, or a
\* tab of it, shows; and of the read-only links of all these pages and tabs
\* none is left out in silence (traverseReadonlyNavigation).
NavigationIsTold ==
  /\ \A p \in visited \ {root} :
       /\ via[p].from \in visited
       /\ LET here == Here(via[p].from) IN
          \E q \in {here} \cup {t.to : t \in TabsOf(here)} : via[p].link \in LinksIn(q, here)
       /\ via[p].link.to = p
  /\ Traversed => \A p \in visited :
       LET here == Here(p) IN
       /\ \A l \in LinksIn(here, here) : Accounted(l, here)
       /\ \A t \in TabsOf(here) : \/ <<here, t>> \in skipped.links
                                 \/ \A l \in LinksIn(t.to, here) : Accounted(l, here)

\* The scripts read when the tasks had settled, whose imports were looked for.
PageScripts == {s \in bodies : "static_import" \notin assets[s].sources}
MapRead(s) ==
  LET pointer == site.map[site.body[s]]
  IN pointer # NoScript => GuardAllows(pointer) /\ site.body[pointer] # NoContent

Imports(s) == {x \in site.imports[site.body[s]] : Technical(x)}

Complete(run) ==
  run.status = "completed" =>
    /\ run.blocked = {}
    /\ \A s \in PageScripts : Imports(s) \subseteq DOMAIN run.assets
    /\ \A s \in bodies : MapRead(s)
    /\ \A s \in Analysed : site.body[s] \notin Unparsable /\ <<s, site.body[s]>> \in run.facts

\* In a run that calls itself completed no static import of a script the page
\* loaded is missing, no source map of a script it could read was left out, no
\* analysed script failed to parse and nothing was refused by the guard.
CompletedIsComplete == pc = "written" => Complete(runData)

\* The facts of a written run, those taken over from the previous run too, are
\* facts about what the scripts contain now (incremental comparison by hash).
FactsAreCurrent ==
  pc = "written" =>
    \A f \in runData.facts : f[1] \in DOMAIN runData.assets /\ f[2] = site.body[f[1]]

\* Among the assets of a run with the same hash exactly one is no duplicate,
\* and the others name it; the collector's own validation never fails.
OneRepresentative ==
  /\ pc = "written" => \A s \in DOMAIN runData.assets :
       LET a == runData.assets[s]
       IN a.duplicate # NoScript => /\ a.duplicate # s
                                    /\ runData.assets[a.duplicate].duplicate = NoScript
                                    /\ runData.assets[a.duplicate].hash = a.hash
  /\ pc = "integrate" => ReferencesResolve(draft)

\* Once the try is entered the browser is closed, whatever fails and whatever
\* responses are still being read (collectTarget, finally).
BrowserIsClosed == pc = "opened" ~> browser = "closed"

\* TLC refutes it, so that no run checks it: newContext and newPage are awaited
\* before the try, and their rejection leaves the browser that was launched.
EveryBrowserIsClosed == browser = "open" ~> browser = "closed"

\* TLC refutes it, so that no run checks it: "max_two_representative_pages_per_list".
ListsAreSampled ==
  \A q \in Pages :
    Cardinality({p \in visited \ {root} : via[p].link.pagination
                                        /\ site.list[Here(via[p].from)] = q}) <= MaxPagination

\* A run that is written tells of the scripts as they are, and of each content once.
RunDataIsTrue == FactsAreCurrent /\ OneRepresentative
=============================================================================
