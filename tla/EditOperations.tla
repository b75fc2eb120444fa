--------------------------- MODULE EditOperations ---------------------------
(***************************************************************************)
(* The edits of @uwmd/core editor.ts as functions of a document: for each   *)
(* operation the protocol error it is refused with, or the document it      *)
(* returns. applyEdit and applyEditAsync do no I/O: they take the parsed     *)
(* file and return the new text, so an edit is one step of its host.        *)
(*                                                                         *)
(* Timestamps, confidence, notes and last_modified are left out.            *)
(***************************************************************************)
EXTENDS UWDocument, EditPolicies

CONSTANTS
  Policies,    \* the policy list, BUILTIN_EDIT_POLICIES by default
  Maintainer,  \* the source 'system/gaps-maintainer'
  Stages,      \* the deal stages of the protocol
  Required     \* STAGE_REQUIREMENTS: the sections each stage requires

ASSUME MaintainerIsASource == Maintainer \in Sources
ASSUME RequiredIsByStage == Required \in [Stages -> SUBSET Standard]

PolicyOf(source) == ResolvePolicy(source, Policies)
MustSupersede(source) == PolicyOf(source) # NoPolicy /\ PolicyOf(source).supersede

\* An operation on a section: role says what op.role asks of _role, wellFormed
\* that op.meta and op.role are admitted (metaPatchError, isBlockRole).
SectionOperation ==
  {op \in [section : Sections, variant : Variants \cup {NoVariant},
           body : Bodies \cup (SUBSET Sections) \cup (SUBSET Entries),
           role : {"keep", "set", "clear"}, wellFormed : BOOLEAN] :
     op.body \in PayloadOf(op.section)}

\* The EditContext: the writer's source, and the hash it read, or Null.
Context == [source : Sources, parentHash : Digests \cup {Null}]

-----------------------------------------------------------------------------
(* Refusals, in the order the code checks.                                 *)

\* INT-02: the head carries a hash, the caller names one, and they differ.
StaleParent(d, op, ctx) ==
  LET h == Lookup(d, op.section, op.variant)
  IN h # 0 /\ d[h].hash # Absent /\ ctx.parentHash \notin {Null, d[h].hash}

\* Mutant of ReplaceRefusal: supersede_on_edit is not looked at.
ReplaceRefusalLax(d, op, ctx) ==
  LET h == Lookup(d, op.section, op.variant)
  IN CASE StaleParent(d, op, ctx)                      -> "INT-02"
       [] h = 0                                        -> "PROTO-EDIT-005"
       [] ~MayWrite(ctx.source, PolicyOf(d[h].source)) -> "PROTO-EDIT-001"
       [] ~op.wellFormed                               -> "PROTO-EDIT-002"
       [] OTHER                                        -> "ok"

ReplaceRefusal(d, op, ctx) ==
  LET h == Lookup(d, op.section, op.variant)
  IN CASE StaleParent(d, op, ctx)                      -> "INT-02"
       [] h = 0                                        -> "PROTO-EDIT-005"
       [] ~MayWrite(ctx.source, PolicyOf(d[h].source)) -> "PROTO-EDIT-001"
       [] MustSupersede(d[h].source)                   -> "PROTO-EDIT-004"
       [] ~op.wellFormed                               -> "PROTO-EDIT-002"
       [] OTHER                                        -> "ok"

\* Mutant of SupersedeRefusal: whoever may supersede.
SupersedeRefusalOpen(d, op, ctx) ==
  CASE StaleParent(d, op, ctx) -> "INT-02"
    [] ~op.wellFormed          -> "PROTO-EDIT-002"
    [] OTHER                   -> "ok"

\* A section that is not found is a new one, whoever writes it.
SupersedeRefusal(d, op, ctx) ==
  LET h == Lookup(d, op.section, op.variant)
  IN CASE StaleParent(d, op, ctx)                      -> "INT-02"
       [] h # 0 /\ ~MayWrite(ctx.source, PolicyOf(d[h].source))
                                                       -> "PROTO-EDIT-001"
       [] ~op.wellFormed                               -> "PROTO-EDIT-002"
       [] OTHER                                        -> "ok"

-----------------------------------------------------------------------------
(* The documents the section operations return.                            *)

\* buildMeta and the block around it. Only the host writes _meta.
Written(op, source, revision, role, hash) ==
  [section |-> op.section, variant |-> op.variant, source |-> source,
   revision |-> revision, superseded |-> FALSE, role |-> role,
   body |-> op.body, hash |-> hash, parent |-> Absent]

NextRevision(d, h) == IF h = 0 THEN 1 ELSE d[h].revision + 1

\* op.role when it is given, else the role of the block before.
RoleAfter(d, h, op) == op.role = "set" \/ (op.role = "keep" /\ h # 0 /\ d[h].role)

\* Mutants of NewBlock: it is not stamped with its source; the integrity of the
\* block before is carried over; so is its revision.
NewBlockUnsigned(d, h, op, source) ==
  Written(op, Absent, NextRevision(d, h), RoleAfter(d, h, op), Absent)
NewBlockHashed(d, h, op, source) ==
  Written(op, source, NextRevision(d, h), RoleAfter(d, h, op),
          IF h = 0 THEN Absent ELSE d[h].hash)
NewBlockUnbumped(d, h, op, source) ==
  Written(op, source, IF h = 0 THEN 1 ELSE d[h].revision, RoleAfter(d, h, op), Absent)

\* The block written over, or as the successor of, block h (0: a new section).
\* It starts without integrity.
NewBlock(d, h, op, source) ==
  Written(op, source, NextRevision(d, h), RoleAfter(d, h, op), Absent)

\* Mutant of InsertionPoint: always at the end.
InsertionAtEnd(d) == Len(d) + 1

\* findInsertionPoint: before the first pipeline_log block, or at the end.
InsertionPoint(d) == IF LogBlocks(d) = {} THEN Len(d) + 1 ELSE Min(LogBlocks(d))

\* markBlockSuperseded: the fence and the _meta of the block found.
MarkSuperseded(d, h) ==
  [i \in DOMAIN d |-> IF i = h THEN [d[i] EXCEPT !.superseded = TRUE] ELSE d[i]]

ReplaceSection(d, op, source) ==
  LET h == Lookup(d, op.section, op.variant)
  IN ReplaceAt(d, h, NewBlock(d, h, op, source))

\* Mutant of SupersedeSection: the block before is not marked.
SupersedeUnmarked(d, op, source) ==
  InsertAt(d, InsertionPoint(d),
           NewBlock(d, Lookup(d, op.section, op.variant), op, source))

SupersedeSection(d, op, source) ==
  LET h == Lookup(d, op.section, op.variant)
  IN InsertAt(MarkSuperseded(d, h), InsertionPoint(d), NewBlock(d, h, op, source))

-----------------------------------------------------------------------------
(* Gaps maintenance and integrity stamping.                                *)

\* Mutant of OpenGaps: nothing is inferred when there is a list already.
OpenGapsOnce(d, stage) ==
  LET g == Lookup(d, Gaps, NoVariant)
  IN IF g = 0 THEN {s \in Required[stage] : HeadsOf(d, s) = {}} ELSE d[g].body

\* inferGaps with mergeWithExisting: a required section nobody wrote is a gap,
\* and the items already listed are carried over.
OpenGaps(d, stage) ==
  LET g == Lookup(d, Gaps, NoVariant)
  IN {s \in Required[stage] : HeadsOf(d, s) = {}} \cup (IF g = 0 THEN {} ELSE d[g].body)

GapsOperation(d, stage) ==
  [section |-> Gaps, variant |-> NoVariant, body |-> OpenGaps(d, stage),
   role |-> "keep", wellFormed |-> TRUE]

\* maintainGapsAfterEdit: replace the gaps section or start it; best effort, a
\* refusal keeps the document of the edit. dispatchEdit checks no INT-02.
MaintainGaps(d, stage) ==
  LET op  == GapsOperation(d, stage)
      ctx == [source |-> Maintainer, parentHash |-> Null]
      g   == Lookup(d, Gaps, NoVariant)
  IN IF g = 0 THEN SupersedeSection(d, op, Maintainer)
     ELSE IF ReplaceRefusal(d, op, ctx) = "ok" THEN ReplaceSection(d, op, Maintainer)
     ELSE d

\* Mutant of StampHead: every block is the root of its chain.
StampHeadRoot(before, after, op, kind) ==
  LET prior == Lookup(before, op.section, op.variant)
      h     == Lookup(after, op.section, op.variant)
  IN IF prior = 0 \/ before[prior].hash = Absent \/ h = 0 THEN after
     ELSE ReplaceAt(after, h,
            [after[h] EXCEPT !.hash = Digest(after[h]), !.parent = Null])

\* applyEditAsync: when the head the edit found had a hash, the block the new
\* text has in its place is stamped; a replacement starts a new root.
StampHead(before, after, op, kind) ==
  LET prior == Lookup(before, op.section, op.variant)
      h     == Lookup(after, op.section, op.variant)
  IN IF prior = 0 \/ before[prior].hash = Absent \/ h = 0 THEN after
     ELSE ReplaceAt(after, h,
            [after[h] EXCEPT !.hash   = Digest(after[h]),
                             !.parent = IF kind = "section_replace" THEN Null
                                        ELSE before[prior].hash])

\* applyEdit and applyEditAsync around the write of a section.
FinishSection(d, written, op, kind, stage, options) ==
  LET maintained == IF options.maintainGaps /\ op.section # Gaps
                    THEN MaintainGaps(written, stage) ELSE written
  IN IF options.integrity THEN StampHead(d, maintained, op, kind) ELSE maintained

\* The same around the other operations, which are never stamped.
FinishOther(written, stage, options) ==
  IF options.maintainGaps THEN MaintainGaps(written, stage) ELSE written

\* inferGaps reads STAGE_REQUIREMENTS[deal_stage] unguarded: maintenance of a
\* file whose deal_stage is none of Stages throws through applyEdit.
MaintenanceThrows(section, stage, options) ==
  options.maintainGaps /\ section # Gaps /\ stage \notin Stages

=============================================================================
