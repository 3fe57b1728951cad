SPECIFICATION FairSpec
CONSTANTS
  app = app
  lib = lib
  api = api
  home = home
  list = list
  second = second
  third = third
  panel = panel
  sso = sso
  c1 = c1
  c2 = c2
  Scripts = {app, lib, api}
  NoScript = NoScript
  Contents = {c1, c2}
  NoContent = NoContent
  Unparsable = {c2}
  Pages = {home, list, second, third, panel, sso}
  Sites <- AllSites
  NoRun = NoRun
  MaxPages = 4
  MaxPagination = 1
  MaxScans = 2
INVARIANTS
  NavigationIsTold
  CompletedIsComplete
  RunDataIsTrue
PROPERTIES
  BrowserIsClosed
CHECK_DEADLOCK FALSE
