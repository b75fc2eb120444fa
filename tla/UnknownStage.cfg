CONSTANTS
  rent = rent
  statement = statement
  t12 = t12
  budget = budget
  dflt = dflt
  manual = manual
  agent = agent
  run = run
  maintainer = maintainer
  toolkit = toolkit
  body1 = body1
  body2 = body2
  entry = entry
  done = done
  failed = failed
  scope = scope
  screening = screening
  other = other
  SingleSections <- MCSingle
  MultiVariantSections <- MCMulti
  ExtensionSections <- MCNone
  CustomSections <- MCNone
  PipelineLog = log
  Gaps = gaps
  Variants <- MCVariants
  NoVariant = NoVariant
  DefaultVariant = dflt
  Sources <- MCSources
  Bodies = {body1, body2}
  Entries = {entry}
  Absent = Absent
  Null = Null
  ActorClass <- MCActorClass
  NoPolicy = NoPolicy
  Policies <- BuiltinPolicies
  Maintainer = maintainer
  Stages <- MCStages
  Required <- MCRequired
  InitialDocuments <- MCDocuments
  Targets <- MCTargets
  Writers <- MCWriters
  RoleChoices = {"keep"}
  Admissions = {TRUE, FALSE}
  StageValues <- MCStageValues
  Options <- MCOptions
  RunTargets <- MCNone
  Runner = run
  Toolkit = toolkit
  Success <- MCNoRuns
  Failure <- MCNoRuns
  MaxBlocks = 3
  MaxRevision = 2
SPECIFICATION Spec
INVARIANT EditsSurviveMaintenance
CHECK_DEADLOCK FALSE
