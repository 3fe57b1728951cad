---------------------------- MODULE MCAssetScan ----------------------------
(* Values for model checking AssetScan: three scripts, six pages, and the     *)
(* sites in which the cases of interest meet.                               *)
EXTENDS AssetScan

CONSTANTS app, lib, api, home, list, second, third, panel, sso, c1, c2

LinkTo(p) ==
  [to |-> p, dangerous |-> FALSE, disabled |-> FALSE, tab |-> FALSE, anchor |-> FALSE,
   readonly |-> TRUE, pagination |-> FALSE]
PageTo(p) == [LinkTo(p) EXCEPT !.readonly = FALSE, !.pagination = TRUE]
TabTo(p) == [LinkTo(p) EXCEPT !.tab = TRUE, !.anchor = TRUE]

\* home leads to a list, and to its last page, with which it must not begin; the
\* list has a tab, and pages more than the sample takes, one of them behind a
\* login; the tab shows a page of the list, too.
Navigation(p) ==
  CASE p = home -> {LinkTo(list), [LinkTo(third) EXCEPT !.dangerous = TRUE]}
    [] p = list -> {TabTo(panel), PageTo(second), PageTo(third)}
    [] p = panel -> {PageTo(third), LinkTo(home)}
    [] p = second -> {PageTo(list)}
    [] p = sso -> {LinkTo(sso), LinkTo(home)}
    [] OTHER -> {}

Site(appBody, libBody, libOrigin, importsOfC1, mapOfC2, loads) ==
  [entry |-> home,
   declares |-> [p \in Pages |-> IF p = home THEN {app} ELSE {lib}],
   loads |-> [p \in Pages |-> IF p = home THEN loads ELSE {lib}],
   links |-> [p \in Pages |-> IF p = home THEN {LinkTo(list)} ELSE {}],
   list |-> [p \in Pages |-> home], lands |-> [p \in Pages |-> p],
   host |-> [p \in Pages |-> IF p = sso THEN "elsewhere" ELSE "target"],
   origin |-> [s \in Scripts |-> IF s = lib THEN libOrigin ELSE "same"],
   body |-> [s \in Scripts |-> IF s = app THEN appBody ELSE IF s = lib THEN libBody ELSE c2],
   imports |-> [c \in Contents |-> IF c = c1 THEN importsOfC1 ELSE {}],
   map |-> [c \in Contents |-> IF c = c2 THEN mapOfC2 ELSE NoScript],
   business |-> {api}, plain |-> {}]

AllSites ==
  { Site(c1, c1, "same", {}, NoScript, {app, lib}),       \* the same content twice
    Site(c1, c2, "other", {lib, api}, NoScript, {app}),   \* imports, one of a business API
    Site(c1, c2, "other", {lib}, lib, {app, lib}),        \* an import the page loads late
    Site(c2, NoContent, "cdn", {}, api, {app, lib}),      \* a body that cannot be read
    [Site(c1, c1, "same", {}, NoScript, {app}) EXCEPT     \* lists, tabs and a redirect
       !.links = [p \in Pages |-> Navigation(p)],
       !.declares = [p \in Pages |-> IF p = panel THEN {app} ELSE {}],
       !.loads = [p \in Pages |-> {}],
       !.lands = [p \in Pages |-> IF p = third THEN sso ELSE p]] }
=============================================================================
