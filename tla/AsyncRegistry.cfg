CONSTANTS
  ma = ma
  mb = mb
  mc = mc
  md = md
  x = x
  ya = ya
  yb = yb
  yc = yc
  yd = yd
  s1 = s1
  office = office
  ModuleIds <- MCModules
  SectionIds = {s1}
  CalcIds <- MCCalcs
  Classes = {office}
  NoClass = NoClass
  Nobody = Nobody
  Policies = {"verify-if-present", "require"}
  Listings <- MCListings
SPECIFICATION RegistrySpec
INVARIANTS GateOnlyChecksSignatures
CHECK_DEADLOCK FALSE
