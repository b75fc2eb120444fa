------------------------------- MODULE Editor -------------------------------
(***************************************************************************)
(* One document under a sequence of edits: the host of @uwmd/core's editor   *)
(* keeps a text, hands it to applyEdit or applyEditAsync with an operation,  *)
(* a context and options, and keeps the text returned. A refused edit        *)
(* returns an error and no text.                                            *)
(***************************************************************************)
EXTENDS EditOperations

CONSTANTS
  InitialDocuments,  \* the documents a host may start from
  Targets,           \* the <<section, variant>> pairs operations name
  Writers,           \* the sources operations are made under
  RoleChoices,       \* what operations ask of _role
  Admissions,        \* whether operations are well formed
  Options,           \* the EditOptions in use
  StageValues,       \* what the frontmatter's deal_stage may hold
  MaxBlocks,         \* bound on the blocks of a document that is still edited
  MaxRevision        \* bound on the revisions of a document still edited

ASSUME TargetsAreOperations == Targets \subseteq Sections \X (Variants \cup {NoVariant})
ASSUME WritersAreSources == Writers \subseteq Sources
ASSUME RoleChoicesAreRoles == RoleChoices \subseteq {"keep", "set", "clear"}
ASSUME AdmissionsAreBooleans == Admissions \subseteq BOOLEAN
ASSUME OptionsAreOptions == Options \subseteq [integrity : BOOLEAN, maintainGaps : BOOLEAN]
ASSUME DocumentsAreTyped == InitialDocuments \subseteq Seq(Block)

VARIABLES
  doc,     \* the blocks of the text the host keeps
  stage,   \* deal_stage in its frontmatter
  code     \* what the last call returned: "ok", the code of its error, or
           \* "TypeError" when it threw

vars == <<doc, stage, code>>

Codes == {"ok", "INT-02", "PROTO-EDIT-001", "PROTO-EDIT-002", "PROTO-EDIT-003",
          "PROTO-EDIT-004", "PROTO-EDIT-005", "PROTO-EDIT-006",
          "PROTO-EDIT-008", "PROTO-EDIT-009", "TypeError"}

TypeOK == /\ doc \in Seq(Block)
          /\ stage \in StageValues
          /\ code \in Codes

-----------------------------------------------------------------------------
(* The calls.                                                              *)

WithinBounds == /\ Len(doc) <= MaxBlocks
                /\ \A i \in DOMAIN doc : doc[i].revision <= MaxRevision

\* Callers write a gaps section or a log without items.
BodiesOf(s) == IF s \in {Gaps, PipelineLog} THEN {{}} ELSE Bodies

\* The operations of a kind a caller may pass; the hash it read is that of some
\* block the document holds, or none.
Operations ==
  UNION {{[section |-> t[1], variant |-> t[2], body |-> b, role |-> r, wellFormed |-> w] :
            b \in BodiesOf(t[1]), r \in RoleChoices, w \in Admissions} : t \in Targets}

Contexts ==
  [source : Writers,
   parentHash : {Null} \cup ({doc[i].hash : i \in DOMAIN doc} \ {Absent})]

\* A call that is refused, or that throws, leaves the host with its text.
SectionCall(op, kind, refusal, written, options) ==
  LET throws == MaintenanceThrows(op.section, stage, options)
  IN /\ code' = IF refusal = "ok" /\ throws THEN "TypeError" ELSE refusal
     /\ doc' = IF refusal = "ok" /\ ~throws
               THEN FinishSection(doc, written, op, kind, stage, options) ELSE doc
     /\ UNCHANGED stage

SectionReplace ==
  /\ WithinBounds
  /\ \E op \in Operations, ctx \in Contexts, options \in Options :
       SectionCall(op, "section_replace", ReplaceRefusal(doc, op, ctx),
                   ReplaceSection(doc, op, ctx.source), options)

SectionSupersede ==
  /\ WithinBounds
  /\ \E op \in Operations, ctx \in Contexts, options \in Options :
       SectionCall(op, "section_supersede", SupersedeRefusal(doc, op, ctx),
                   SupersedeSection(doc, op, ctx.source), options)

\* frontmatter_set on a path: an immutable field, a path too deep, a value that
\* is not a scalar, a key that is not there, or a field it sets.
FrontmatterRefusals ==
  {"PROTO-EDIT-002", "PROTO-EDIT-003", "PROTO-EDIT-008", "PROTO-EDIT-009"}

FrontmatterRefuse ==
  /\ WithinBounds
  /\ code' \in FrontmatterRefusals
  /\ UNCHANGED <<doc, stage>>

FrontmatterSet ==
  /\ WithinBounds
  /\ \E s \in StageValues, options \in Options :
       IF MaintenanceThrows(PipelineLog, s, options)
       THEN code' = "TypeError" /\ UNCHANGED <<doc, stage>>
       ELSE /\ stage' = s
            /\ doc' = FinishOther(doc, s, options)
            /\ code' = "ok"

\* pipeline_log_append: the last log block is rewritten with one more entry.
AppendLogEntry(d, e) ==
  LET l == Max(LogBlocks(d))
  IN ReplaceAt(d, l, [d[l] EXCEPT !.body = @ \cup {e}, !.revision = @ + 1])

PipelineLogAppend ==
  /\ WithinBounds
  /\ \E e \in Entries, options \in Options :
       CASE LogBlocks(doc) = {} ->
              code' = "PROTO-EDIT-006" /\ UNCHANGED doc
         [] LogBlocks(doc) # {} /\ MaintenanceThrows(PipelineLog, stage, options) ->
              code' = "TypeError" /\ UNCHANGED doc
         [] OTHER ->
              /\ code' = "ok"
              /\ doc' = FinishOther(AppendLogEntry(doc, e), stage, options)
  /\ UNCHANGED stage

Init == doc \in InitialDocuments /\ stage \in StageValues /\ code = "ok"

Next == SectionReplace \/ SectionSupersede \/ FrontmatterRefuse
          \/ FrontmatterSet \/ PipelineLogAppend

Spec == Init /\ [][Next]_vars
=============================================================================
