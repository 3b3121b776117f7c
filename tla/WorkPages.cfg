\* Two connections, one of them production; two tabs and two statements; three
\* requests of the navigator; two databases of two keys and four Redis requests;
\* two namespaces and three cluster requests; two machines, two groups and two
\* requests of the inventory page with what follows them; three requests of the
\* log viewer, whose answers hold two lines and whose files five; four queries of a
\* chart.
CONSTANTS
  Conns = {c1, c2}
  Prod = {c2}
  Named = {c2}
  Dbs = {d0, d1}
  Patterns = {"*"}
  Keys = {k1, k2}
  LastPage = 1
  Namespaces = {n1, n2}
  All = All
  Servers = {s1, s2}
  Folders = {f1, f2}
  Workers = 1
  Ranges = {r1, r2}
  FirstRange = r1
  Lines = {1, 2, 3, 4, 5, 6}
  Ns <- NsOf
  Queries = {"all", "some"}
  Matches <- Selected
  Windows <- TwoWindows
  PageLimit = 2
  ExportMax = 5
  None = None
  MaxTabs = 2
  MaxQueries = 2
  MaxNavigator = 3
  MaxRedis = 4
  MaxCluster = 3
  MaxRequests = 2
  MaxLoki = 3
  MaxCharts = 4
SPECIFICATION PagesSpec
\* The bounds on requests are ends.
CHECK_DEADLOCK FALSE
INVARIANTS TypesOK TypedForWhatRuns ResultIsOfItsConnection NothingSpinsForEver LogIsInOrder  ProbesAreBounded PagesJoin FileIsTheWindow ChartIsOfItsRange
PROPERTIES TogglesSurvive
