---------------------------- MODULE MCIntegrity ----------------------------
(***************************************************************************)
(* Editor and verifier together on small instances. Each cfg picks a start,  *)
(* the writers and the operations of the question it asks.                  *)
(***************************************************************************)
EXTENDS EditorIntegrity

CONSTANTS rent, statement, t12, budget, dflt,     \* sections and variants
          manual, agent, document, maintainer,    \* sources
          body1, body2, entry,                    \* payloads
          scope, screening                        \* the stages

MCSingle == {rent, Gaps}
MCMulti == {statement}
MCNone == {}
MCVariants == {t12, budget, dflt}
MCSources == {manual, agent, document, maintainer}
MCActorClass == [s \in MCSources |-> CASE s = manual   -> "human"
                                       [] s = agent    -> "agent"
                                       [] s = document -> "none"
                                       [] OTHER        -> "system"]

\* BUILTIN_EDIT_POLICIES of @uwmd/verify protocol.ts, for these sources.
Policy(sources, exact, length, authority, supersede) ==
  [sources |-> sources, exact |-> exact, length |-> length,
   authority |-> authority, supersede |-> supersede]
BuiltinPolicies ==
  << Policy({agent},      FALSE, 7,  "either",      TRUE),
     Policy({manual},     TRUE,  6,  "either",      FALSE),
     Policy({document},   FALSE, 10, "either",      TRUE),
     Policy({maintainer}, FALSE, 8,  "system_only", FALSE),
     Policy({},           FALSE, 13, "system_only", FALSE),
     Policy(MCSources,    FALSE, 1,  "either",      TRUE) >>

MCStages == {scope, screening}
MCRequired == [s \in MCStages |-> IF s = scope THEN {rent} ELSE {rent, statement}]
MCScope == {scope}

First(s, v, source, hashed) ==
  LET b == [section |-> s, variant |-> v, source |-> source, revision |-> 1,
            superseded |-> FALSE, role |-> FALSE,
            body |-> IF s \in {Gaps, PipelineLog} THEN {} ELSE body1,
            hash |-> Absent, parent |-> Absent]
  IN IF hashed THEN [b EXCEPT !.hash = Digest(b), !.parent = Null] ELSE b

\* A hashed section before a log; one of a producer, hashed or not, and a
\* document just begun.
MCDocuments ==
  { << First(rent, NoVariant, s, TRUE), First(PipelineLog, NoVariant, maintainer, FALSE) >> :
      s \in {agent, manual} }
MCProducedDocuments ==
  { << First(rent, NoVariant, s, h), First(PipelineLog, NoVariant, maintainer, FALSE) >> :
      s \in {agent, document}, h \in BOOLEAN }
  \cup { << First(PipelineLog, NoVariant, maintainer, FALSE) >> }

MCSingleTargets == { <<rent, NoVariant>> }
MCProducedTargets == { <<rent, NoVariant>>, <<statement, t12>> }
MCProducers == {agent, document}
MCPeople == {manual, agent}

MCBinding == { [integrity |-> TRUE, maintainGaps |-> TRUE] }
MCPlain == { [integrity |-> FALSE, maintainGaps |-> FALSE] }
=============================================================================
