CONSTANTS
  rent = rent
  statement = statement
  t12 = t12
  budget = budget
  dflt = dflt
  manual = manual
  agent = agent
  document = document
  maintainer = maintainer
  body1 = body1
  body2 = body2
  entry = entry
  scope = scope
  screening = screening
  SingleSections <- MCSingle
  MultiVariantSections <- MCMulti
  ExtensionSections <- MCNone
  CustomSections <- MCNone
  PipelineLog = log
  Gaps = gaps
  Variants <- MCVariants
  NoVariant = NoVariant
  DefaultVariant = dflt
  Sources <- MCSources
  Bodies = {body1, body2}
  Entries = {entry}
  Absent = Absent
  Null = Null
  ActorClass <- MCActorClass
  NoPolicy = NoPolicy
  Policies <- BuiltinPolicies
  Maintainer = maintainer
  Stages <- MCStages
  Required <- MCRequired
  InitialDocuments <- MCDocuments
  Targets <- MCSingleTargets
  Writers <- MCPeople
  RoleChoices = {"keep"}
  Admissions = {TRUE}
  StageValues <- MCScope
  Options <- MCPlain
  MaxBlocks = 4
  MaxRevision = 3
SPECIFICATION Spec
INVARIANT NoOverwriteReported
CHECK_DEADLOCK FALSE
