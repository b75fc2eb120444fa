CONSTANTS
  rent = rent
  statement = statement
  t12 = t12
  budget = budget
  dflt = dflt
  manual = manual
  agent = agent
  run = run
  maintainer = maintainer
  toolkit = toolkit
  body1 = body1
  body2 = body2
  entry = entry
  done = done
  failed = failed
  scope = scope
  screening = screening
  other = other
  SingleSections <- MCSingle
  MultiVariantSections <- MCMulti
  ExtensionSections <- MCNone
  CustomSections <- MCNone
  PipelineLog = log
  Gaps = gaps
  Variants <- MCVariants
  NoVariant = NoVariant
  DefaultVariant = dflt
  Sources <- MCSources
  Bodies = {body1}
  Entries = {done, failed}
  Absent = Absent
  Null = Null
  ActorClass <- MCActorClass
  NoPolicy = NoPolicy
  Policies <- BuiltinPolicies
  Maintainer = maintainer
  Stages <- MCStages
  Required <- MCRequired
  InitialDocuments <- MCVariantDocuments
  Targets <- MCVariantTargets
  Writers <- MCWriters
  RoleChoices = {"keep", "clear"}
  Admissions = {TRUE}
  StageValues = {screening}
  Options <- MCOptions
  RunTargets <- MCRunTargets
  Runner = run
  Toolkit = toolkit
  Success <- MCSuccess
  Failure <- MCFailure
  MaxBlocks = 4
  MaxRevision = 2
SPECIFICATION RunnerSpec
INVARIANTS DocumentIsOrdered RunsAreLogged
PROPERTIES LogOnlyGrows
CHECK_DEADLOCK FALSE
