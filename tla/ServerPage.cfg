\* Every operation and log source once, two requests of the page; two Tomcat
\* instances, a good and a bad name, two deploy requests; three tabs over two
\* hosts; three file requests and the reloads they cause.
CONSTANTS
  Instances = {i1, i2}
  Names = {n1, bad}
  BadNames = {bad}
  Hosts = {h1, h2}
  First = h1
  Home = Home
  a = a
  b = b
  f = f
  g = g
  Entries = {a, b, f, g}
  Dirs = {a, b}
  Shallow = {}
  HomeDirs = {b}
  Parent <- ParentOf
  Ops <- EveryOp
  Sources <- EverySource
  None = None
  MaxTasks = 2
  MaxDeploys = 2
  MaxTabs = 3
  MaxListings = 3
SPECIFICATION PageSpec
\* A closed workspace and a spent bound are ends.
CHECK_DEADLOCK FALSE
INVARIANTS TypesOK OnlyWhatWasAgreed NothingSpinsForEver DeployBannerIsTrue TabOwnsItsSocket NothingToRepair
PROPERTIES KeyboardStays NewestListingWins
