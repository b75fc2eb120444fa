CONSTANTS
  rent = rent
  statement = statement
  t12 = t12
  budget = budget
  dflt = dflt
  manual = manual
  agent = agent
  document = document
  maintainer = maintainer
  body1 = body1
  body2 = body2
  entry = entry
  scope = scope
  screening = screening
  SingleSections <- MCSingle
  MultiVariantSections <- MCMulti
  ExtensionSections <- MCNone
  CustomSections <- MCNone
  PipelineLog = log
  Gaps = gaps
  Variants <- MCVariants
  NoVariant = NoVariant
  DefaultVariant = dflt
  Sources <- MCSources
  Bodies = {body1, body2}
  Entries = {entry}
  Absent = Absent
  Null = Null
  ActorClass <- MCActorClass
  NoPolicy = NoPolicy
  Policies <- BuiltinPolicies
  Maintainer = maintainer
  Stages <- MCStages
  Required <- MCRequired
  InitialDocuments <- MCProducedDocuments
  Targets <- MCProducedTargets
  Writers <- MCProducers
  RoleChoices = {"keep", "set"}
  Admissions = {TRUE}
  StageValues <- MCStages
  Options <- MCBinding
  MaxBlocks = 4
  MaxRevision = 2
SPECIFICATION Spec
INVARIANTS RecordVerifies
PROPERTIES GapsAreListed
CHECK_DEADLOCK FALSE
