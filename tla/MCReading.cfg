CONSTANTS
  \* Parser
  single = single
  multi = multi
  ext = ext
  v1 = v1
  dflt = dflt
  src = src
  body = body
  SingleSections <- MCSingle
  MultiVariantSections <- MCMulti
  ExtensionSections <- MCExt
  CustomSections <- MCCustom
  PipelineLog = log
  Gaps = single
  Variants <- MCVariants
  NoVariant = NoVariant
  DefaultVariant = dflt
  Sources = {src}
  Bodies = {body}
  Entries = {}
  Absent = Absent
  Null = Null
  Scannable <- MCScannable
  MaxBlocks = 3
  Unparsed = Unparsed
  Refused = Refused
  Unrendered = Unrendered
  \* Waterfall
  Ladders <- MCLadders
  Series <- MCSeries
  \* Assumptions
  fund = fund
  region = region
  desk = desk
  Missing = Missing
  Unselected = Unselected
  Typed = Typed
  Proxy = Proxy
  Deals <- MCDeals
  Lineages <- MCLineages
  Requests <- MCRequests
  ObservationSets = {"north", "south"}
  LastDay = 1
  StaleAfter = 0
  MaxSets = 2
  MaxStated = 1
SPECIFICATION ReadingSpec
INVARIANTS ViewsAreDeclared RenderedTextIsTheRecord MarkedHistoryRenders CashIsPaidOut PartiesRankEqually ClawbackMakesWhole OrderDecidesNothing AcceptedObservationStands
PROPERTIES TiersEndAtTheirHurdles OutsideNeverDisplaces
CHECK_DEADLOCK FALSE
