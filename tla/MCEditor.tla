------------------------------ MODULE MCEditor ------------------------------
(***************************************************************************)
(* Small instances of Editor and AgentRunner: a single-valued section, a      *)
(* multi-valued one, the gaps section and the log, written by a human, an     *)
(* agent, a run and a system actor under BUILTIN_EDIT_POLICIES.              *)
(***************************************************************************)
EXTENDS AgentRunner

CONSTANTS rent, statement, t12, budget, dflt,     \* sections and variants
          manual, agent, run, maintainer, toolkit, \* sources
          body1, body2, entry, done, failed,      \* payloads
          scope, screening, other                 \* stages, and another word

MCSingle == {rent, Gaps}
MCMulti == {statement}
MCNone == {}
MCVariants == {t12, budget, dflt}
MCSources == {manual, agent, run, maintainer, toolkit}
MCActorClass == [s \in MCSources |-> CASE s = manual -> "human"
                                       [] s \in {agent, run} -> "agent"
                                       [] OTHER      -> "system"]

\* BUILTIN_EDIT_POLICIES of @uwmd/verify protocol.ts, for these sources.
Policy(sources, exact, length, authority, supersede) ==
  [sources |-> sources, exact |-> exact, length |-> length,
   authority |-> authority, supersede |-> supersede]
BuiltinPolicies ==
  << Policy({agent, run}, FALSE, 7, "either",      TRUE),
     Policy({manual},     TRUE,  6, "either",      FALSE),
     Policy({},           FALSE, 10, "either",     TRUE),
     Policy({maintainer, toolkit}, FALSE, 8, "system_only", FALSE),
     Policy({},           FALSE, 13, "system_only", FALSE),
     Policy(MCSources,    FALSE, 1, "either",      TRUE) >>

MCStages == {scope, screening}
MCStageValues == MCStages \cup {other}
MCRequired == [s \in MCStages |-> IF s = scope THEN {rent} ELSE {rent, statement}]

NewBlk(s, v, source, hashed) ==
  LET b == [section |-> s, variant |-> v, source |-> source, revision |-> 1,
            superseded |-> FALSE, role |-> FALSE,
            body |-> IF s \in {Gaps, PipelineLog} THEN {} ELSE body1,
            hash |-> Absent, parent |-> Absent]
  IN IF hashed THEN [b EXCEPT !.hash = Digest(b), !.parent = Null] ELSE b

LogBlk == NewBlk(PipelineLog, NoVariant, maintainer, FALSE)

\* A document just begun; one with a hashed section; one whose gaps section an
\* agent wrote.
MCDocuments ==
  { << LogBlk >>,
    << NewBlk(rent, NoVariant, manual, TRUE), LogBlk >>,
    << NewBlk(rent, NoVariant, agent, TRUE), NewBlk(Gaps, NoVariant, agent, FALSE) >> }

\* Two variants side by side, one hashed and with a role.
MCVariantDocuments ==
  { << [NewBlk(statement, t12, agent, FALSE) EXCEPT !.role = TRUE,
                                                   !.hash = <<body1, TRUE>>],
       NewBlk(statement, budget, manual, TRUE), LogBlk >>,
    << NewBlk(statement, budget, manual, TRUE) >> }

MCTargets == { <<rent, NoVariant>>, <<Gaps, NoVariant>> }
MCVariantTargets == { <<statement, t12>>, <<statement, budget>> }
MCWriters == {manual, agent}
MCOptions == { [integrity |-> TRUE, maintainGaps |-> TRUE],
               [integrity |-> FALSE, maintainGaps |-> FALSE] }

\* Agents write one of the variants, or none.
MCRunTargets == { <<statement, t12>> }
MCSuccess == [t \in MCRunTargets |-> done]
MCFailure == [t \in MCRunTargets |-> failed]
MCNoRuns == <<>>
=============================================================================
