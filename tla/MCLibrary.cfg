CONSTANTS
  \* EditBinding
  alice = alice
  bob = bob
  star = star
  Clients = {alice, bob, star}
  Sends <- MCSends
  NoTag = NoTag
  Star = Star
  MaxCalls = 2
  MaxOpen = 2
  \* Composite
  Ids <- MCIds
  Sorted <- MCSorted
  Packages <- MCPackages
  MaxDepth = 3
  MaxMembers = 4
  MaxLinks = 4
  \* SectionParts
  Keys <- MCKeys
  NoKey = NoKey
  Contents = {"v", "w"}
  Nothing = Nothing
  Records <- MCRecords
  MaxChanges = 2
  \* Registry
  ma = ma
  mb = mb
  mc = mc
  md = md
  x = x
  ya = ya
  yb = yb
  yc = yc
  yd = yd
  s1 = s1
  office = office
  ModuleIds <- MCModules
  SectionIds = {s1}
  CalcIds <- MCCalcs
  Classes = {office}
  NoClass = NoClass
  Nobody = Nobody
  Policies = {"verify-if-present", "require"}
  Listings <- MCListings
  \* Receipts
  noi = noi
  score = score
  market = market
  child = child
  Calcs <- MCCalculations
  Dictionary = {noi}
  Packs <- MCPacks
  Financials <- MCFinancials
  Reformed <- MCReformed
  Broken = Broken
  Referenced = {market, child}
  Releases <- MCReleases
  NoReceipt = NoReceipt
  Unsigned = Unsigned
  RuleSet = "3.0"
  MaxEvents = 2
  \* Directory
  f1 = f1
  f2 = f2
  sh1 = sh1
  sh2 = sh2
  sh3 = sh3
  Files <- MCFiles
  Shells <- MCShells
  Commands <- MCCommands
  Origin = Origin
  \* Lake
  d1 = d1
  d2 = d2
  r1 = r1
  p1 = p1
  p2 = p2
  pkg1 = pkg1
  m1 = m1
  m2 = m2
  Loaders = {"nightly", "manual"}
  Digests = {d1, d2, r1}
  Paths = {p1, p2}
  PackageIds = {pkg1}
  Versions = {"v1", "v2"}
  Members = {m1, m2}
  Bundles <- MCBundles
  NoBundle = NoBundle
  MaxLoads = 2
SPECIFICATION LibrarySpec
INVARIANTS RetriesAreSafe OrderIsTopological StaleLinksAreReported RefusalsAreReal NeverASmallerCollection VerdictIsOfTheSet OverridesStayAvailable LoadsConverge UntouchedNeverFails KnowingMoreOnlySettles VerifiedIsReissued SeparateEditsStack IndexIsOfTheScan
PROPERTIES EveryPackageIsJudged ScaffoldNeverReplaces
CHECK_DEADLOCK FALSE
