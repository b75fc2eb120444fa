---------------------------- MODULE EditorProofs ----------------------------
(***************************************************************************)
(* The theorems about the editor: its documents are typed, their stamps are  *)
(* fresh, their histories are in order and kept, what succeeds a block may,  *)
(* each step is one of the abstract store of histories, open gaps are listed *)
(* and the records of producers verify; and about the agent runner that     *)
(* writes beside it: order, stamps and histories are kept, and the log misses *)
(* no run. For any sections, sources, policies, stages and bounds.          *)
(***************************************************************************)
EXTENDS EditLemmas, AgentRunner

-----------------------------------------------------------------------------
(* Calls.                                                                  *)

LEMMA CallsAreTyped ==
  ASSUME doc \in Seq(Block), NEW op \in Operations, NEW ctx \in Contexts
  PROVE  op \in SectionOperation /\ ctx.source \in Sources
<1> DEFINE G(t) == {[section |-> t[1], variant |-> t[2], body |-> b, role |-> r,
                      wellFormed |-> w] :
                       b \in BodiesOf(t[1]), r \in RoleChoices, w \in Admissions}
<1>0. Operations = UNION {G(t) : t \in Targets}
  BY DEF Operations
<1> HIDE DEF G
<1>0a. PICK t \in Targets : op \in G(t)
  BY <1>0, Zenon
<1>1. PICK b \in BodiesOf(t[1]), r \in RoleChoices, w \in Admissions :
        op = [section |-> t[1], variant |-> t[2], body |-> b, role |-> r, wellFormed |-> w]
  BY <1>0a, SMT DEF G
<1>2. t[1] \in Sections /\ t[2] \in Variants \cup {NoVariant}
  BY TargetsAreOperations, SMT
<1>3. r \in {"keep", "set", "clear"} /\ w \in BOOLEAN
  BY RoleChoicesAreRoles, AdmissionsAreBooleans, Zenon
<1>4. b \in PayloadOf(t[1])
  <2>1. CASE t[1] \in {Gaps, PipelineLog}
    BY <2>1, Zenon DEF BodiesOf, PayloadOf
  <2>2. CASE t[1] \notin {Gaps, PipelineLog}
    BY <2>2, Zenon DEF BodiesOf, PayloadOf
  <2> QED
    BY <2>1, <2>2
<1>5. b \in Bodies \cup (SUBSET Sections) \cup (SUBSET Entries)
  BY <1>4, Zenon DEF PayloadOf
<1>6. op \in SectionOperation
  BY <1>1, <1>2, <1>3, <1>4, <1>5, Zenon DEF SectionOperation
<1>7. ctx.source \in Sources
  BY WritersAreSources, Zenon DEF Contexts
<1>8. QED
  BY <1>6, <1>7

\* What the refusals of a replacement and of a supersession leave.
MayReplace(op, ctx) ==
  LET h == Lookup(doc, op.section, op.variant)
  IN h # 0 /\ MayWrite(ctx.source, PolicyOf(doc[h].source)) /\ ~MustSupersede(doc[h].source)
MaySupersede(op, ctx) ==
  LET h == Lookup(doc, op.section, op.variant)
  IN h # 0 => MayWrite(ctx.source, PolicyOf(doc[h].source))

\* The document and the stage a call leaves: those it found, or the finish of a write.
LEMMA StepsAreEdits ==
  ASSUME Next, doc \in Seq(Block), stage \in StageValues
  PROVE  \/ doc' = doc /\ stage' = stage
         \/ \E op \in Operations, ctx \in Contexts, options \in Options :
              /\ MayReplace(op, ctx)
              /\ ~MaintenanceThrows(op.section, stage, options)
              /\ doc' = FinishSection(doc, ReplaceSection(doc, op, ctx.source), op,
                                      "section_replace", stage, options)
              /\ stage' = stage
         \/ \E op \in Operations, ctx \in Contexts, options \in Options :
              /\ MaySupersede(op, ctx)
              /\ ~MaintenanceThrows(op.section, stage, options)
              /\ doc' = FinishSection(doc, SupersedeSection(doc, op, ctx.source), op,
                                      "section_supersede", stage, options)
              /\ stage' = stage
         \/ \E s \in StageValues, options \in Options :
              /\ ~MaintenanceThrows(PipelineLog, s, options)
              /\ doc' = FinishOther(doc, s, options) /\ stage' = s
         \/ \E e \in Entries, options \in Options :
              /\ LogBlocks(doc) # {}
              /\ ~MaintenanceThrows(PipelineLog, stage, options)
              /\ doc' = FinishOther(AppendLogEntry(doc, e), stage, options) /\ stage' = stage
<1>1. CASE SectionReplace
  <2>1. PICK op \in Operations, ctx \in Contexts, options \in Options :
          SectionCall(op, "section_replace", ReplaceRefusal(doc, op, ctx),
                      ReplaceSection(doc, op, ctx.source), options)
    BY <1>1, Zenon DEF SectionReplace
  <2>2. ReplaceRefusal(doc, op, ctx) = "ok" => MayReplace(op, ctx)
    BY SMT DEF ReplaceRefusal, MayReplace
  <2> QED
    BY <2>1, <2>2, Zenon DEF SectionCall
<1>2. CASE SectionSupersede
  <2>1. PICK op \in Operations, ctx \in Contexts, options \in Options :
          SectionCall(op, "section_supersede", SupersedeRefusal(doc, op, ctx),
                      SupersedeSection(doc, op, ctx.source), options)
    BY <1>2, Zenon DEF SectionSupersede
  <2>2. SupersedeRefusal(doc, op, ctx) = "ok" => MaySupersede(op, ctx)
    BY SMT DEF SupersedeRefusal, MaySupersede
  <2> QED
    BY <2>1, <2>2, Zenon DEF SectionCall
<1>3. CASE FrontmatterRefuse
  BY <1>3, Zenon DEF FrontmatterRefuse
<1>4. CASE FrontmatterSet
  BY <1>4, Zenon DEF FrontmatterSet
<1>5. CASE PipelineLogAppend
  BY <1>5, Zenon DEF PipelineLogAppend
<1>6. QED
  BY <1>1, <1>2, <1>3, <1>4, <1>5, Zenon DEF Next

-----------------------------------------------------------------------------
(* Types.                                                                  *)

LEMMA CodesReturned ==
  ASSUME Next PROVE code' \in Codes /\ (stage \in StageValues => stage' \in StageValues)
<1>1. ASSUME NEW op, NEW ctx
      PROVE  ReplaceRefusal(doc, op, ctx) \in Codes /\ SupersedeRefusal(doc, op, ctx) \in Codes
  BY SMT DEF ReplaceRefusal, SupersedeRefusal, Codes
<1>1a. "TypeError" \in Codes
  BY Zenon DEF Codes
<1>2. CASE SectionReplace
  BY <1>1, <1>1a, <1>2, Zenon DEF SectionReplace, SectionCall
<1>3. CASE SectionSupersede
  BY <1>1, <1>1a, <1>3, Zenon DEF SectionSupersede, SectionCall
<1>4. CASE FrontmatterRefuse
  BY <1>4, SMT DEF FrontmatterRefuse, FrontmatterRefusals, Codes
<1>5. CASE FrontmatterSet
  <2>1. PICK s \in StageValues, options \in Options :
          IF MaintenanceThrows(PipelineLog, s, options)
          THEN code' = "TypeError" /\ UNCHANGED <<doc, stage>>
          ELSE stage' = s /\ code' = "ok"
    BY <1>5, Zenon DEF FrontmatterSet
  <2> QED
    BY <2>1, SMT DEF Codes
<1>6. CASE PipelineLogAppend
  <2>1. code' \in {"PROTO-EDIT-006", "TypeError", "ok"} /\ stage' = stage
    BY <1>6, Zenon DEF PipelineLogAppend
  <2> QED
    BY <2>1, SMT DEF Codes
<1>7. QED
  BY <1>2, <1>3, <1>4, <1>5, <1>6, Zenon DEF Next

LEMMA EditsAreTyped ==
  ASSUME Next, doc \in Seq(Block), stage \in StageValues
  PROVE  doc' \in Seq(Block)
<1>1. ASSUME NEW op \in Operations, NEW ctx \in Contexts, NEW options,
             Lookup(doc, op.section, op.variant) # 0,
             ~MaintenanceThrows(op.section, stage, options)
      PROVE  FinishSection(doc, ReplaceSection(doc, op, ctx.source), op,
                           "section_replace", stage, options) \in Seq(Block)
  <2>1. op \in SectionOperation /\ ctx.source \in Sources
    BY CallsAreTyped, Zenon
  <2>2. ReplaceSection(doc, op, ctx.source) \in Seq(Block)
    BY <1>1, <2>1, ReplaceFacts
  <2> QED
    BY <1>1, <2>1, <2>2, FinishTyped
<1>2. ASSUME NEW op \in Operations, NEW ctx \in Contexts, NEW options,
             ~MaintenanceThrows(op.section, stage, options)
      PROVE  FinishSection(doc, SupersedeSection(doc, op, ctx.source), op,
                           "section_supersede", stage, options) \in Seq(Block)
  <2>1. op \in SectionOperation /\ ctx.source \in Sources
    BY CallsAreTyped, Zenon
  <2>2. SupersedeSection(doc, op, ctx.source) \in Seq(Block)
    BY <2>1, SupersedeFacts
  <2> QED
    BY <1>2, <2>1, <2>2, FinishTyped
<1>3. ASSUME NEW s, NEW options, NEW written \in Seq(Block),
             ~MaintenanceThrows(PipelineLog, s, options)
      PROVE  FinishOther(written, s, options) \in Seq(Block)
  BY <1>3, FinishOtherTyped, Zenon
<1>4. ASSUME NEW e \in Entries, LogBlocks(doc) # {}
      PROVE  AppendLogEntry(doc, e) \in Seq(Block)
  BY <1>4, AppendFacts
<1>5. QED
  BY <1>1, <1>2, <1>3, <1>4, StepsAreEdits, Zenon DEF MayReplace

\* Every sequence of calls keeps a document of well typed blocks, and returns
\* "ok" or one of the protocol's codes.
THEOREM TypeCorrect == Spec => []TypeOK
<1>1. Init => TypeOK
  BY DocumentsAreTyped, Zenon DEF Init, TypeOK, Codes
<1>2. TypeOK /\ [Next]_vars => TypeOK'
  <2> SUFFICES ASSUME TypeOK, [Next]_vars PROVE TypeOK'
    OBVIOUS
  <2>1. CASE UNCHANGED vars
    BY <2>1, Zenon DEF vars, TypeOK
  <2>2. CASE Next
    <3>1. doc \in Seq(Block) /\ stage \in StageValues
      BY Zenon DEF TypeOK
    <3>2. code' \in Codes /\ stage' \in StageValues
      BY <2>2, <3>1, CodesReturned, Zenon
    <3>3. doc' \in Seq(Block)
      BY <2>2, <3>1, EditsAreTyped, Zenon
    <3> QED
      BY <3>2, <3>3, Zenon DEF TypeOK
  <2> QED
    BY <2>1, <2>2
<1>3. QED
  BY <1>1, <1>2, PTL DEF Spec

-----------------------------------------------------------------------------
(* Stamps and order.                                                       *)

LEMMA EditsKeepFreshness ==
  ASSUME Next, TypeOK, HashesRecompute(doc)
  PROVE  HashesRecompute(doc')
<1>0. doc \in Seq(Block) /\ stage \in StageValues
  BY Zenon DEF TypeOK
<1>1. ASSUME NEW op \in Operations, NEW ctx \in Contexts, NEW options,
             Lookup(doc, op.section, op.variant) # 0,
             ~MaintenanceThrows(op.section, stage, options)
      PROVE  HashesRecompute(FinishSection(doc, ReplaceSection(doc, op, ctx.source), op,
                                           "section_replace", stage, options))
  <2>1. op \in SectionOperation /\ ctx.source \in Sources
    BY <1>0, CallsAreTyped, Zenon
  <2> DEFINE w == ReplaceSection(doc, op, ctx.source)
  <2>2. w \in Seq(Block)
    BY <1>0, <1>1, <2>1, ReplaceFacts
  <2>3. HashesRecompute(w)
    BY <1>0, <1>1, <2>1, ReplaceKeepsFresh, Zenon
  <2> HIDE DEF w
  <2>4. HashesRecompute(FinishSection(doc, w, op, "section_replace", stage, options))
    BY <1>1, <1>0, <2>1, <2>2, <2>3, FinishKeepsFresh
  <2> QED
    BY <2>4 DEF w
<1>2. ASSUME NEW op \in Operations, NEW ctx \in Contexts, NEW options,
             ~MaintenanceThrows(op.section, stage, options)
      PROVE  HashesRecompute(FinishSection(doc, SupersedeSection(doc, op, ctx.source), op,
                                           "section_supersede", stage, options))
  <2>1. op \in SectionOperation /\ ctx.source \in Sources
    BY <1>0, CallsAreTyped, Zenon
  <2> DEFINE w == SupersedeSection(doc, op, ctx.source)
  <2>2. w \in Seq(Block)
    BY <1>0, <2>1, SupersedeFacts
  <2>3. HashesRecompute(w)
    BY <1>0, <2>1, SupersedeKeepsFresh, Zenon
  <2> HIDE DEF w
  <2>4. HashesRecompute(FinishSection(doc, w, op, "section_supersede", stage, options))
    BY <1>2, <1>0, <2>1, <2>2, <2>3, FinishKeepsFresh
  <2> QED
    BY <2>4 DEF w
<1>3. ASSUME NEW s, NEW options, NEW written \in Seq(Block), HashesRecompute(written),
             ~MaintenanceThrows(PipelineLog, s, options)
      PROVE  HashesRecompute(FinishOther(written, s, options))
  BY <1>3, FinishOtherKeepsFresh, Zenon
<1>4. ASSUME NEW e \in Entries, LogBlocks(doc) # {}
      PROVE  AppendLogEntry(doc, e) \in Seq(Block) /\ HashesRecompute(AppendLogEntry(doc, e))
  <2>1. AppendLogEntry(doc, e) \in Seq(Block)
    BY <1>0, <1>4, AppendFacts
  <2>2. HashesRecompute(AppendLogEntry(doc, e))
    BY <1>0, <1>4, AppendKeepsFresh, Zenon
  <2> QED
    BY <2>1, <2>2
<1>5. QED
  BY <1>0, <1>1, <1>2, <1>3, <1>4, StepsAreEdits, Zenon DEF MayReplace

\* No sequence of calls leaves a block with the hash of content it no longer
\* has, when the document starts so.
THEOREM StampsStayFresh ==
  ASSUME FreshStart PROVE Spec => []StampsAreFresh
<1>1. Init => StampsAreFresh
  BY Zenon DEF Init, FreshStart, StampsAreFresh
<1>2. TypeOK /\ StampsAreFresh /\ [Next]_vars => StampsAreFresh'
  <2> SUFFICES ASSUME TypeOK, StampsAreFresh, [Next]_vars PROVE StampsAreFresh'
    OBVIOUS
  <2>1. CASE UNCHANGED vars
    BY <2>1, Zenon DEF vars, StampsAreFresh
  <2>2. CASE Next
    BY <2>2, EditsKeepFreshness, Zenon DEF StampsAreFresh
  <2> QED
    BY <2>1, <2>2
<1>3. QED
  BY <1>1, <1>2, TypeCorrect, PTL DEF Spec

LEMMA CallsAreAddressed ==
  ASSUME AddressedByKey, NEW op \in Operations
  PROVE  Addressed(op)
<1> DEFINE G(t) == {[section |-> t[1], variant |-> t[2], body |-> b, role |-> r,
                      wellFormed |-> w] :
                       b \in BodiesOf(t[1]), r \in RoleChoices, w \in Admissions}
<1>1. Operations = UNION {G(t) : t \in Targets}
  BY DEF Operations
<1> HIDE DEF G
<1>2. PICK t \in Targets : op \in G(t)
  BY <1>1, Zenon
<1>3. op.section = t[1] /\ op.variant = t[2]
  BY <1>2, SMT DEF G
<1>4. QED
  BY <1>3, Zenon DEF Addressed, AddressedByKey

LEMMA EditsKeepOrder ==
  ASSUME AddressedByKey, Next, TypeOK, WellFormed(doc)
  PROVE  WellFormed(doc')
<1>0. doc \in Seq(Block) /\ stage \in StageValues
  BY Zenon DEF TypeOK
<1>1. ASSUME NEW op \in Operations, NEW ctx \in Contexts, NEW options,
             Lookup(doc, op.section, op.variant) # 0,
             ~MaintenanceThrows(op.section, stage, options)
      PROVE  WellFormed(FinishSection(doc, ReplaceSection(doc, op, ctx.source), op,
                                      "section_replace", stage, options))
  <2>1. op \in SectionOperation /\ ctx.source \in Sources /\ Addressed(op)
    BY <1>0, CallsAreTyped, CallsAreAddressed, Zenon
  <2> DEFINE w == ReplaceSection(doc, op, ctx.source)
  <2>2. w \in Seq(Block)
    BY <1>0, <1>1, <2>1, ReplaceFacts
  <2>3. WellFormed(w)
    BY <1>0, <1>1, <2>1, ReplaceKeepsOrder, Zenon
  <2> HIDE DEF w
  <2>4. WellFormed(FinishSection(doc, w, op, "section_replace", stage, options))
    BY <1>1, <1>0, <2>1, <2>2, <2>3, FinishKeepsOrder
  <2> QED
    BY <2>4 DEF w
<1>2. ASSUME NEW op \in Operations, NEW ctx \in Contexts, NEW options,
             ~MaintenanceThrows(op.section, stage, options)
      PROVE  WellFormed(FinishSection(doc, SupersedeSection(doc, op, ctx.source), op,
                                      "section_supersede", stage, options))
  <2>1. op \in SectionOperation /\ ctx.source \in Sources /\ Addressed(op)
    BY <1>0, CallsAreTyped, CallsAreAddressed, Zenon
  <2> DEFINE w == SupersedeSection(doc, op, ctx.source)
  <2>2. w \in Seq(Block)
    BY <1>0, <2>1, SupersedeFacts
  <2>3. WellFormed(w)
    BY <1>0, <2>1, SupersedeKeepsOrder, Zenon
  <2> HIDE DEF w
  <2>4. WellFormed(FinishSection(doc, w, op, "section_supersede", stage, options))
    BY <1>2, <1>0, <2>1, <2>2, <2>3, FinishKeepsOrder
  <2> QED
    BY <2>4 DEF w
<1>3. ASSUME NEW s, NEW options, NEW written \in Seq(Block), WellFormed(written),
             ~MaintenanceThrows(PipelineLog, s, options)
      PROVE  WellFormed(FinishOther(written, s, options))
  BY <1>3, FinishOtherKeepsOrder, Zenon
<1>4. ASSUME NEW e \in Entries, LogBlocks(doc) # {}
      PROVE  AppendLogEntry(doc, e) \in Seq(Block) /\ WellFormed(AppendLogEntry(doc, e))
  <2>1. AppendLogEntry(doc, e) \in Seq(Block)
    BY <1>0, <1>4, AppendFacts
  <2>2. WellFormed(AppendLogEntry(doc, e))
    BY <1>0, <1>4, AppendKeepsOrder, Zenon
  <2> QED
    BY <2>1, <2>2
<1>5. QED
  BY <1>0, <1>1, <1>2, <1>3, <1>4, StepsAreEdits, Zenon DEF MayReplace

\* The inductive invariant: blocks filed by key, logs last, histories in order,
\* a head for every history.
THEOREM DocumentsStayWellFormed ==
  ASSUME AddressedByKey, WellFormedStart PROVE Spec => []DocumentIsWellFormed
<1>1. Init => DocumentIsWellFormed
  BY Zenon DEF Init, WellFormedStart, DocumentIsWellFormed
<1>2. TypeOK /\ DocumentIsWellFormed /\ [Next]_vars => DocumentIsWellFormed'
  <2> SUFFICES ASSUME TypeOK, DocumentIsWellFormed, [Next]_vars PROVE DocumentIsWellFormed'
    OBVIOUS
  <2>1. CASE UNCHANGED vars
    BY <2>1, Zenon DEF vars, DocumentIsWellFormed
  <2>2. CASE Next
    BY <2>2, EditsKeepOrder, Zenon DEF DocumentIsWellFormed
  <2> QED
    BY <2>1, <2>2
<1>3. QED
  BY <1>1, <1>2, TypeCorrect, PTL DEF Spec

\* One canonical block per section or variant, its history before it in the
\* order of revisions, after any sequence of edits and gaps maintenance.
THEOREM DocumentsStayOrdered ==
  ASSUME AddressedByKey, WellFormedStart PROVE Spec => []DocumentIsOrdered
<1>1. DocumentIsWellFormed => DocumentIsOrdered
  BY Zenon DEF DocumentIsWellFormed, WellFormed, DocumentIsOrdered
<1>2. QED
  BY <1>1, DocumentsStayWellFormed, PTL

-----------------------------------------------------------------------------
(* What a step may do to the blocks it finds.                              *)

LEMMA AppendLeavesSections ==
  ASSUME NEW d \in Seq(Block), NEW entry \in Entries, LogBlocks(d) # {}
  PROVE  LET r == AppendLogEntry(d, entry)
         IN /\ r \in Seq(Block) /\ DOMAIN r = DOMAIN d
            /\ \A i \in DOMAIN d : d[i].section \in Standard => r[i] = d[i]
<1> DEFINE r == AppendLogEntry(d, entry)
<1>1. /\ r \in Seq(Block) /\ Len(r) = Len(d)
      /\ \A i \in 1..Len(d) : d[i].section # PipelineLog => r[i] = d[i]
  BY AppendFacts
<1> HIDE DEF r
<1>2. DOMAIN d = 1..Len(d) /\ DOMAIN r = 1..Len(d)
  BY <1>1, DomainOfSeq, Zenon
<1>3. PipelineLog \notin Standard
  BY KindsAreDisjoint, Zenon DEF Standard
<1>4. QED
  BY <1>1, <1>2, <1>3, Zenon DEF r

LEMMA SectionCallKeeps ==
  ASSUME NEW op \in SectionOperation, Addressed(op), NEW kind, NEW options,
         ~MaintenanceThrows(op.section, stage, options),
         doc \in Seq(Block), NEW written \in Seq(Block), WellFormed(written),
         Keeps(op, doc, written), Succeeds(op, doc, written)
  PROVE  LET e == FinishSection(doc, written, op, kind, stage, options)
         IN KeepsAll(doc, e) /\ SucceedsAll(doc, e)
<1> DEFINE e == FinishSection(doc, written, op, kind, stage, options)
<1>1. Keeps(op, doc, e)
  BY FinishKeeps
<1>2. SucceedsAll(doc, e)
  BY FinishSucceeds
<1> HIDE DEF e
<1>3. KeepsAll(doc, e)
  BY <1>1, Zenon DEF Keeps, KeepsAll
<1>4. QED
  BY <1>2, <1>3, Zenon DEF e

LEMMA OtherCallKeeps ==
  ASSUME NEW s, NEW options, ~MaintenanceThrows(PipelineLog, s, options),
         NEW written \in Seq(Block), WellFormed(written), DOMAIN written = DOMAIN doc,
         \A i \in DOMAIN doc : doc[i].section \in Standard => written[i] = doc[i]
  PROVE  LET e == FinishOther(written, s, options)
         IN KeepsAll(doc, e) /\ SucceedsAll(doc, e)
BY FinishOtherKeeps, FinishOtherSucceeds, Zenon

\* A step loses no block that must be kept, and what is live stays or is succeeded.
LEMMA StepsKeep ==
  ASSUME AddressedByKey, Next, TypeOK, WellFormed(doc)
  PROVE  KeepsAll(doc, doc') /\ SucceedsAll(doc, doc')
<1> DEFINE Kept(e) == KeepsAll(doc, e) /\ SucceedsAll(doc, e)
<1>0. doc \in Seq(Block) /\ stage \in StageValues
  BY Zenon DEF TypeOK
<1>1. Kept(doc)
  BY Zenon DEF KeepsAll, SucceedsAll, SameButMark
<1>2. ASSUME NEW op \in Operations, NEW ctx \in Contexts, NEW options, MayReplace(op, ctx),
             ~MaintenanceThrows(op.section, stage, options)
      PROVE  Kept(FinishSection(doc, ReplaceSection(doc, op, ctx.source), op,
                                "section_replace", stage, options))
  <2> DEFINE w == ReplaceSection(doc, op, ctx.source)
             h == Lookup(doc, op.section, op.variant)
  <2>1. op \in SectionOperation /\ ctx.source \in Sources /\ Addressed(op)
    BY <1>0, CallsAreTyped, CallsAreAddressed, Zenon
  <2>2. /\ h # 0 /\ MayWrite(ctx.source, PolicyOf(doc[h].source))
        /\ ~MustSupersede(doc[h].source)
    BY <1>2, Zenon DEF MayReplace
  <2>3. w \in Seq(Block)
    BY <1>0, <2>1, <2>2, ReplaceFacts
  <2>4. WellFormed(w)
    BY <1>0, <2>1, <2>2, ReplaceKeepsOrder, Zenon
  <2>5. Keeps(op, doc, w) /\ Succeeds(op, doc, w)
    BY <1>0, <2>1, <2>2, ReplaceKeeps, ReplaceSucceeds, Zenon
  <2> HIDE DEF w, h
  <2>6. Kept(FinishSection(doc, w, op, "section_replace", stage, options))
    BY <1>0, <1>2, <2>1, <2>3, <2>4, <2>5, SectionCallKeeps
  <2> HIDE DEF Kept
  <2> QED
    BY <2>6, Zenon DEF w
<1>3. ASSUME NEW op \in Operations, NEW ctx \in Contexts, NEW options, MaySupersede(op, ctx),
             ~MaintenanceThrows(op.section, stage, options)
      PROVE  Kept(FinishSection(doc, SupersedeSection(doc, op, ctx.source), op,
                                "section_supersede", stage, options))
  <2> DEFINE w == SupersedeSection(doc, op, ctx.source)
             h == Lookup(doc, op.section, op.variant)
  <2>1. op \in SectionOperation /\ ctx.source \in Sources /\ Addressed(op)
    BY <1>0, CallsAreTyped, CallsAreAddressed, Zenon
  <2>2. h # 0 => MayWrite(ctx.source, PolicyOf(doc[h].source))
    BY <1>3, Zenon DEF MaySupersede
  <2>3. w \in Seq(Block)
    BY <1>0, <2>1, SupersedeFacts
  <2>4. WellFormed(w)
    BY <1>0, <2>1, SupersedeKeepsOrder, Zenon
  <2>5. Keeps(op, doc, w) /\ Succeeds(op, doc, w)
    BY <1>0, <2>1, <2>2, SupersedeKeeps, SupersedeSucceeds, Zenon
  <2> HIDE DEF w, h
  <2>6. Kept(FinishSection(doc, w, op, "section_supersede", stage, options))
    BY <1>0, <1>3, <2>1, <2>3, <2>4, <2>5, SectionCallKeeps
  <2> HIDE DEF Kept
  <2> QED
    BY <2>6, Zenon DEF w
<1>4. ASSUME NEW s, NEW options, ~MaintenanceThrows(PipelineLog, s, options)
      PROVE  Kept(FinishOther(doc, s, options))
  BY <1>0, <1>4, OtherCallKeeps, Zenon
<1>5. ASSUME NEW entry \in Entries, NEW options, LogBlocks(doc) # {},
             ~MaintenanceThrows(PipelineLog, stage, options)
      PROVE  Kept(FinishOther(AppendLogEntry(doc, entry), stage, options))
  <2> DEFINE w == AppendLogEntry(doc, entry)
  <2>1. /\ w \in Seq(Block) /\ DOMAIN w = DOMAIN doc
        /\ \A i \in DOMAIN doc : doc[i].section \in Standard => w[i] = doc[i]
    BY <1>0, <1>5, AppendLeavesSections
  <2>2. WellFormed(w)
    BY <1>0, <1>5, AppendKeepsOrder, Zenon
  <2> HIDE DEF w
  <2>3. Kept(FinishOther(w, stage, options))
    BY <1>5, <2>1, <2>2, OtherCallKeeps, Zenon
  <2> HIDE DEF Kept
  <2> QED
    BY <2>3, Zenon DEF w
<1> HIDE DEF Kept
<1>6. Kept(doc')
  BY <1>0, <1>1, <1>2, <1>3, <1>4, <1>5, StepsAreEdits, Zenon
<1>7. QED
  BY <1>6, Zenon DEF Kept

LEMMA KeptContent ==
  ASSUME NEW d \in Seq(Block), NEW e \in Seq(Block), KeepsAll(d, e),
         NEW i \in DOMAIN d, MustBeKept(d[i])
  PROVE  \E j \in DOMAIN e : SameContent(d[i], e[j])
<1>1. PICK j \in DOMAIN e : SameButMark(e[j], d[i])
  BY Zenon DEF KeepsAll
<1>2. d[i] \in BlockFields /\ e[j] \in BlockFields
  BY BlocksAreRecords, Zenon
<1>3. SameButMark(d[i], e[j])
  BY <1>1, Zenon DEF SameButMark
<1>4. SameContent(d[i], e[j])
  BY <1>2, <1>3, ContentIsButTheMark, Zenon
<1>5. QED
  BY <1>4, Zenon

\* Protocol V.2: no edit, and no gaps maintenance after it, loses or alters a
\* block whose source demands supersession, or one that is superseded already.
THEOREM HistoryStaysKept ==
  ASSUME AddressedByKey, WellFormedStart PROVE Spec => HistoryIsKept
<1>1. TypeOK /\ TypeOK' /\ DocumentIsWellFormed /\ [Next]_vars =>
        [\A i \in DOMAIN doc :
           doc[i].section \in Standard /\ (MustSupersede(doc[i].source) \/ doc[i].superseded)
             => \E j \in DOMAIN doc' : SameContent(doc[i], doc'[j])]_vars
  <2> SUFFICES ASSUME TypeOK, TypeOK', DocumentIsWellFormed, Next,
                      NEW i \in DOMAIN doc, MustBeKept(doc[i])
               PROVE  \E j \in DOMAIN doc' : SameContent(doc[i], doc'[j])
    BY Zenon DEF MustBeKept
  <2>1. KeepsAll(doc, doc')
    BY StepsKeep, Zenon DEF DocumentIsWellFormed
  <2> QED
    BY <2>1, KeptContent, Zenon DEF TypeOK
<1>2. QED
  BY <1>1, TypeCorrect, DocumentsStayWellFormed, PTL DEF Spec, HistoryIsKept

\* Protocol V.3, V.4: no section loses its canonical block, and what becomes
\* canonical in its place was written under the authority of its policy, one
\* revision on.
THEOREM SuccessionStaysAuthorized ==
  ASSUME AddressedByKey, WellFormedStart PROVE Spec => SuccessionIsAuthorized
<1>1. TypeOK /\ TypeOK' /\ DocumentIsWellFormed /\ DocumentIsWellFormed' /\ [Next]_vars =>
        [\A i \in Canonical(doc) : doc[i].section \in Standard =>
           \E j \in Canonical(doc') :
             /\ SameSlot(doc[i], doc'[j])
             /\ \/ doc'[j] = doc[i]
                \/ /\ doc'[j].revision = doc[i].revision + 1
                   /\ MayWrite(doc'[j].source, PolicyOf(doc[i].source))]_vars
  <2> SUFFICES ASSUME TypeOK, TypeOK', DocumentIsWellFormed, DocumentIsWellFormed', Next,
                      NEW i \in Canonical(doc), doc[i].section \in Standard
               PROVE  \E j \in Canonical(doc') :
                        /\ SameSlot(doc[i], doc'[j])
                        /\ \/ doc'[j] = doc[i]
                           \/ /\ doc'[j].revision = doc[i].revision + 1
                              /\ MayWrite(doc'[j].source, PolicyOf(doc[i].source))
    BY Zenon
  <2>0. doc \in Seq(Block) /\ doc' \in Seq(Block) /\ WellFormed(doc) /\ WellFormed(doc')
    BY Zenon DEF TypeOK, DocumentIsWellFormed
  <2>1. i \in Live(doc)
    BY Zenon DEF Canonical
  <2>2. PICK j \in Live(doc') : doc'[j] = doc[i] \/ Follows(doc'[j], doc[i])
    BY <2>0, <2>1, StepsKeep, Zenon DEF SucceedsAll
  <2>3. SameSlot(doc[i], doc'[j])
    BY <2>2, Zenon DEF Follows, SameSlot, Key
  <2>4. j \in Canonical(doc')
    <3>1. j \in DOMAIN doc' /\ doc'[j].section \in Standard
      BY <2>3, Zenon DEF Live, SameSlot
    <3> QED
      BY <2>0, <3>1, CanonicalIsLive, Zenon
  <2> QED
    BY <2>2, <2>3, <2>4, Zenon DEF Follows
<1>2. QED
  BY <1>1, TypeCorrect, DocumentsStayWellFormed, PTL DEF Spec, SuccessionIsAuthorized

-----------------------------------------------------------------------------
(* The agent runner: what a run writes.                                    *)

\* A run supersedes as an operation that keeps the role would.
RunOperation(t, body) ==
  [section |-> t[1], variant |-> t[2], body |-> body, role |-> "keep", wellFormed |-> TRUE]

LEMMA RunsAreSupersessions ==
  ASSUME NEW d, NEW t, NEW body
  PROVE  WriteAgentBlock(d, t, body) =
           AppendRunEntry(SupersedeSection(d, RunOperation(t, body), Runner), Success[t])
<1> DEFINE op == RunOperation(t, body)
           h  == Lookup(d, t[1], t[2])
<1>1. op.section = t[1] /\ op.variant = t[2] /\ op.body = body /\ op.role = "keep"
  BY Zenon DEF RunOperation
<1>2. RoleAfter(d, h, op) = (h # 0 /\ d[h].role)
  <2>1. "keep" # "set"
    OBVIOUS
  <2> HIDE DEF op, h
  <2> QED
    BY <1>1, <2>1, Zenon DEF RoleAfter
<1> HIDE DEF op, h
<1>3. NewBlock(d, h, op, Runner) = RunBlock(d, h, t, body)
  BY <1>1, <1>2, Zenon DEF NewBlock, Written, RunBlock
<1>4. QED
  BY <1>1, <1>3, Zenon DEF WriteAgentBlock, SupersedeSection, op, h

LEMMA RunOperationTyped ==
  ASSUME NEW t \in RunTargets, NEW body \in BodiesOf(t[1])
  PROVE  RunOperation(t, body) \in SectionOperation /\ t[1] \in Standard
<1>1. t[1] \in Standard /\ t[2] \in Variants \cup {NoVariant}
  BY RunsAreAddressed, SMT
<1>2. t[1] \in Sections
  BY <1>1, Zenon DEF Sections
<1>3. body \in PayloadOf(t[1])
  <2>1. CASE t[1] \in {Gaps, PipelineLog}
    BY <2>1, Zenon DEF BodiesOf, PayloadOf
  <2>2. CASE t[1] \notin {Gaps, PipelineLog}
    BY <2>2, Zenon DEF BodiesOf, PayloadOf
  <2> QED
    BY <2>1, <2>2
<1>4. body \in Bodies \cup (SUBSET Sections) \cup (SUBSET Entries)
  BY <1>3, Zenon DEF PayloadOf
<1>5. QED
  BY <1>1, <1>2, <1>3, <1>4, Zenon DEF SectionOperation, RunOperation

LEMMA RunEntriesAreEntries ==
  ASSUME NEW t \in RunTargets
  PROVE  Success[t] \in Entries /\ Failure[t] \in Entries
BY EntriesAreLogged

\* The log block a run starts where there is none.
StartedLog(entry) ==
  [section |-> PipelineLog, variant |-> NoVariant, source |-> Toolkit,
   revision |-> 1, superseded |-> FALSE, role |-> FALSE,
   body |-> {entry}, hash |-> Absent, parent |-> Absent]

LEMMA StartedLogTyped ==
  ASSUME NEW entry \in Entries PROVE StartedLog(entry) \in Block
<1>1. PipelineLog \in Sections /\ Toolkit \in Sources /\ 1 \in Nat
  BY RunnersAreSources, SMT DEF Sections, AppendOnly
<1>2. PipelineLog # Gaps
  BY GapsIsSingle, KindsAreDisjoint, Zenon
<1>3. {entry} \in PayloadOf(PipelineLog)
  BY <1>2, Zenon DEF PayloadOf
<1>4. {entry} \in Bodies \cup (SUBSET Sections) \cup (SUBSET Entries)
  BY Zenon
<1>5. StartedLog(entry) \in BlockFields
  BY <1>1, <1>4, Zenon DEF StartedLog, BlockFields
<1>6. StartedLog(entry).section = PipelineLog /\ StartedLog(entry).body = {entry}
  BY Zenon DEF StartedLog
<1>7. QED
  BY <1>3, <1>5, <1>6, Zenon DEF Block

\* An entry is appended to a log, or starts one at the end; no section changes,
\* and no log loses an entry.
LEMMA RunEntryFacts ==
  ASSUME NEW d \in Seq(Block), NEW entry \in Entries
  PROVE  LET r == AppendRunEntry(d, entry)
         IN /\ r \in Seq(Block)
            /\ DOMAIN d = 1..Len(d) /\ Len(d) \in Nat
            /\ \/ DOMAIN r = DOMAIN d
               \/ /\ LogBlocks(d) = {} /\ DOMAIN r = 1..(Len(d) + 1)
                  /\ r[Len(d) + 1] = StartedLog(entry)
            /\ \A i \in DOMAIN d :
                 /\ i \in DOMAIN r /\ SameButEntry(r[i], d[i])
                 /\ d[i].section # PipelineLog => r[i] = d[i]
                 /\ r[i] = d[i] \/ d[i].body \subseteq r[i].body
            /\ \E l \in LogBlocks(r) : entry \in r[l].body
<1> DEFINE r == AppendRunEntry(d, entry)
<1>0. DOMAIN d = 1..Len(d) /\ Len(d) \in Nat
  BY DomainOfSeq, Zenon
<1>1. CASE LogBlocks(d) = {}
  <2> DEFINE b == StartedLog(entry)
  <2>1. r = Append(d, b)
    BY <1>1, Zenon DEF AppendRunEntry, StartedLog
  <2>2. b \in Block
    BY StartedLogTyped, Zenon
  <2>3. b.section = PipelineLog /\ b.body = {entry}
    BY Zenon DEF StartedLog
  <2> HIDE DEF b, r
  <2>4. /\ r \in Seq(Block) /\ Len(r) = Len(d) + 1 /\ DOMAIN r = 1..(Len(d) + 1)
        /\ r[Len(d) + 1] = b
        /\ \A i \in 1..Len(d) : r[i] = d[i]
    BY <2>1, <2>2, AppendProperties, SMT
  <2>5. Len(d) + 1 \in 1..(Len(d) + 1) /\ \A i \in 1..Len(d) : i \in 1..(Len(d) + 1)
    BY <1>0, SMT
  <2>6. Len(d) + 1 \in LogBlocks(r) /\ entry \in r[Len(d) + 1].body
    BY <2>3, <2>4, <2>5, Zenon DEF LogBlocks
  <2>7. \A i \in DOMAIN d : /\ i \in DOMAIN r /\ SameButEntry(r[i], d[i]) /\ r[i] = d[i]
    BY <1>0, <2>4, <2>5, Zenon DEF SameButEntry
  <2> QED
    BY <1>0, <1>1, <2>4, <2>6, <2>7, Zenon DEF r, b
<1>2. CASE LogBlocks(d) # {}
  <2>1. r = AppendLogEntry(d, entry)
    BY <1>2, Zenon DEF AppendRunEntry
  <2> HIDE DEF r
  <2>2. /\ r \in Seq(Block) /\ Len(r) = Len(d)
        /\ \A i \in 1..Len(d) :
             /\ SameButEntry(r[i], d[i])
             /\ d[i].section # PipelineLog => r[i] = d[i]
             /\ r[i] = d[i] \/ d[i].body \subseteq r[i].body
        /\ \E l \in LogBlocks(d) : entry \in r[l].body
    BY <1>2, <2>1, AppendFacts
  <2>3. DOMAIN r = DOMAIN d
    BY <1>0, <2>2, DomainOfSeq, Zenon
  <2>4. LogBlocks(r) = LogBlocks(d)
    BY <1>0, <2>2, <2>3, Zenon DEF LogBlocks, SameButEntry
  <2> QED
    BY <1>0, <2>2, <2>3, <2>4, Zenon DEF r
<1>3. QED
  BY <1>1, <1>2, Zenon

LEMMA RunEntryKeepsOrder ==
  ASSUME NEW d \in Seq(Block), WellFormed(d), NEW entry \in Entries
  PROVE  WellFormed(AppendRunEntry(d, entry))
<1> DEFINE r == AppendRunEntry(d, entry)
           n == Len(d) + 1
<1>1. CASE LogBlocks(d) # {}
  BY <1>1, AppendKeepsOrder, Zenon DEF AppendRunEntry
<1>2. CASE LogBlocks(d) = {}
  <2>1. /\ r \in Seq(Block) /\ DOMAIN d = 1..Len(d) /\ Len(d) \in Nat
        /\ \/ DOMAIN r = DOMAIN d
           \/ DOMAIN r = 1..n /\ r[n] = StartedLog(entry)
        /\ \A i \in DOMAIN d : i \in DOMAIN r /\ (d[i].section # PipelineLog => r[i] = d[i])
    BY RunEntryFacts
  <2>2. \A i \in DOMAIN d : i \in DOMAIN r /\ r[i] = d[i]
    BY <2>1, <1>2, Zenon DEF LogBlocks
  <2>3. StartedLog(entry).section = PipelineLog /\ StartedLog(entry).variant = NoVariant
    BY Zenon DEF StartedLog
  <2>4. PipelineLog \notin Standard /\ PipelineLog \notin MultiVariantSections
    BY KindsAreDisjoint, Zenon DEF Standard
  <2>5. \A i \in 1..n : i \in DOMAIN d \/ i = n
    BY <2>1, SMT
  <2>6. \A i \in DOMAIN r : i \in DOMAIN d \/ (i = n /\ r[i].section = PipelineLog
                                               /\ r[i].variant = NoVariant)
    BY <2>1, <2>3, <2>5, Zenon
  <2>7. \A i \in DOMAIN d : ~(n <= i)
    BY <2>1, SMT
  <2> HIDE DEF r, n
  <2>8. FiledByKey(r)
    BY <2>2, <2>6, Zenon DEF WellFormed, FiledByKey
  <2>9. \A i \in DOMAIN r : i \in LogBlocks(r) => i = n
    BY <1>2, <2>2, <2>6, Zenon DEF LogBlocks
  <2>10. LogsComeLast(r)
    BY <2>6, <2>7, <2>9, Zenon DEF LogsComeLast
  <2>11. \A i \in DOMAIN r : r[i].section \in Standard => i \in DOMAIN d /\ r[i] = d[i]
    BY <2>2, <2>4, <2>6, Zenon
  <2>12. HistoryIsOrdered(r)
    <3> SUFFICES ASSUME NEW i \in DOMAIN r, NEW j \in DOMAIN r,
                        i < j, r[i].section \in Standard, SameSlot(r[i], r[j])
                 PROVE  r[i].superseded /\ r[i].revision < r[j].revision
      BY Zenon DEF HistoryIsOrdered
    <3>1. r[j].section \in Standard
      BY Zenon DEF SameSlot
    <3> QED
      BY <2>11, <3>1, Zenon DEF WellFormed, HistoryIsOrdered
  <2>13. SlotsHaveHeads(r)
    BY <2>2, <2>11, Zenon DEF WellFormed, SlotsHaveHeads, Live
  <2> QED
    BY <2>8, <2>10, <2>12, <2>13, Zenon DEF WellFormed, r
<1>3. QED
  BY <1>1, <1>2, Zenon

LEMMA RunEntryKeepsFresh ==
  ASSUME NEW d \in Seq(Block), HashesRecompute(d), NEW entry \in Entries
  PROVE  HashesRecompute(AppendRunEntry(d, entry))
<1> DEFINE r == AppendRunEntry(d, entry)
           n == Len(d) + 1
<1>1. /\ DOMAIN d = 1..Len(d) /\ Len(d) \in Nat
      /\ \/ DOMAIN r = DOMAIN d
         \/ DOMAIN r = 1..n /\ r[n] = StartedLog(entry)
      /\ \A i \in DOMAIN d : /\ SameButEntry(r[i], d[i])
                             /\ d[i].section # PipelineLog => r[i] = d[i]
  BY RunEntryFacts
<1>2. StartedLog(entry).section = PipelineLog
  BY Zenon DEF StartedLog
<1>3. \A i \in 1..n : i \in DOMAIN d \/ i = n
  BY <1>1, SMT
<1> HIDE DEF r, n
<1>4. ASSUME NEW i \in DOMAIN r, r[i].section # PipelineLog
      PROVE  i \in DOMAIN d /\ r[i] = d[i] /\ d[i].section # PipelineLog
  <2>1. i \in DOMAIN d
    BY <1>1, <1>2, <1>3, <1>4, Zenon
  <2> QED
    BY <1>1, <1>4, <2>1, Zenon DEF SameButEntry
<1>5. QED
  BY <1>4, Zenon DEF HashesRecompute, r

-----------------------------------------------------------------------------
(* The agent runner: documents stay in order beside it.                    *)

\* Agents name their sections the way the reader files them.
RunsAddressedByKey ==
  \A t \in RunTargets : t[1] \in MultiVariantSections <=> t[2] # NoVariant

LEMMA RunsKeepDocuments ==
  ASSUME NEW d \in Seq(Block), NEW t \in RunTargets, NEW body \in BodiesOf(t[1])
  PROVE  LET e == WriteAgentBlock(d, t, body)
             w == SupersedeSection(d, RunOperation(t, body), Runner)
         IN /\ e \in Seq(Block) /\ w \in Seq(Block) /\ e = AppendRunEntry(w, Success[t])
            /\ HashesRecompute(d) => HashesRecompute(e)
            /\ RunsAddressedByKey /\ WellFormed(d) => WellFormed(e) /\ KeepsAll(d, e)
<1> DEFINE op == RunOperation(t, body)
           w  == SupersedeSection(d, op, Runner)
           e  == WriteAgentBlock(d, t, body)
<1>1. op \in SectionOperation /\ t[1] \in Standard
  BY RunOperationTyped
<1>2. op.section = t[1] /\ op.variant = t[2]
  BY Zenon DEF RunOperation
<1>3. Runner \in Sources /\ Success[t] \in Entries
  BY RunnersAreSources, RunEntriesAreEntries
<1>4. e = AppendRunEntry(w, Success[t])
  BY RunsAreSupersessions, Zenon
<1> HIDE DEF op, e
<1>5. w \in Seq(Block)
  BY <1>1, <1>3, SupersedeFacts
<1>6. HashesRecompute(d) => HashesRecompute(w)
  BY <1>1, <1>3, SupersedeKeepsFresh, Zenon
<1>7. RunsAddressedByKey /\ WellFormed(d) => WellFormed(w) /\ Keeps(op, d, w)
  <2>1. RunsAddressedByKey => Addressed(op)
    BY <1>1, <1>2, Zenon DEF RunsAddressedByKey, Addressed
  <2> QED
    BY <2>1, <1>1, <1>3, SupersedeKeepsOrder, SupersedeKeeps, Zenon
<1> HIDE DEF w
<1>8. /\ e \in Seq(Block)
      /\ \A i \in DOMAIN w : i \in DOMAIN e /\ (w[i].section # PipelineLog => e[i] = w[i])
  BY <1>3, <1>4, <1>5, RunEntryFacts
<1>9. HashesRecompute(w) => HashesRecompute(e)
  BY <1>3, <1>4, <1>5, RunEntryKeepsFresh, Zenon
<1>10. WellFormed(w) => WellFormed(e)
  BY <1>3, <1>4, <1>5, RunEntryKeepsOrder, Zenon
<1>11. Keeps(op, d, w) => KeepsAll(d, e)
  <2> SUFFICES ASSUME Keeps(op, d, w), NEW i \in DOMAIN d, MustBeKept(d[i])
               PROVE  \E j \in DOMAIN e : SameButMark(e[j], d[i])
    BY Zenon DEF KeepsAll
  <2>1. PICK j \in DOMAIN w : SameButMark(w[j], d[i])
    BY Zenon DEF Keeps
  <2>2. w[j].section # PipelineLog
    BY <2>1, KindsAreDisjoint, Zenon DEF MustBeKept, SameButMark, Standard
  <2> QED
    BY <2>1, <2>2, <1>8, Zenon
<1>12. QED
  BY <1>4, <1>5, <1>6, <1>7, <1>8, <1>9, <1>10, <1>11, Zenon DEF op, w, e

LEMMA FailuresKeepDocuments ==
  ASSUME NEW d \in Seq(Block), NEW t \in RunTargets
  PROVE  LET e == AppendRunEntry(d, Failure[t])
         IN /\ e \in Seq(Block)
            /\ HashesRecompute(d) => HashesRecompute(e)
            /\ WellFormed(d) => WellFormed(e)
            /\ KeepsAll(d, e)
<1> DEFINE e == AppendRunEntry(d, Failure[t])
<1>1. Failure[t] \in Entries
  BY RunEntriesAreEntries
<1>2. /\ e \in Seq(Block)
      /\ \A i \in DOMAIN d : i \in DOMAIN e /\ (d[i].section # PipelineLog => e[i] = d[i])
  BY <1>1, RunEntryFacts
<1>3. HashesRecompute(d) => HashesRecompute(e)
  BY <1>1, RunEntryKeepsFresh, Zenon
<1>4. WellFormed(d) => WellFormed(e)
  BY <1>1, RunEntryKeepsOrder, Zenon
<1> HIDE DEF e
<1>5. KeepsAll(d, e)
  <2>1. PipelineLog \notin Standard
    BY KindsAreDisjoint, Zenon DEF Standard
  <2> QED
    BY <1>2, <2>1, Zenon DEF KeepsAll, MustBeKept, SameButMark
<1>6. QED
  BY <1>2, <1>3, <1>4, <1>5, Zenon DEF e

\* A step is one of the editor, a run, or the record of a failure.
LEMMA RunnerSteps ==
  ASSUME RunnerNext, TypeOK
  PROVE  \/ Next /\ TypeOK'
         \/ /\ TypeOK'
            /\ \E t \in RunTargets : \E body \in BodiesOf(t[1]) :
                 doc' = WriteAgentBlock(doc, t, body)
         \/ /\ TypeOK'
            /\ \E t \in RunTargets : doc' = AppendRunEntry(doc, Failure[t])
<1>0. doc \in Seq(Block) /\ stage \in StageValues
  BY Zenon DEF TypeOK
<1>1. CASE Next
  <2>1. doc' \in Seq(Block)
    BY <1>0, <1>1, EditsAreTyped, Zenon
  <2>2. code' \in Codes /\ stage' \in StageValues
    BY <1>0, <1>1, CodesReturned, Zenon
  <2> QED
    BY <1>1, <2>1, <2>2, Zenon DEF TypeOK
<1>2. "ok" \in Codes
  BY Zenon DEF Codes
<1>3. CASE RunAgent
  <2>1. PICK t \in RunTargets : \E body \in BodiesOf(t[1]) : doc' = WriteAgentBlock(doc, t, body)
    BY <1>3, Zenon DEF RunAgent
  <2>2. PICK body \in BodiesOf(t[1]) : doc' = WriteAgentBlock(doc, t, body)
    BY <2>1, Zenon
  <2>3. doc' \in Seq(Block)
    BY <1>0, <2>2, RunsKeepDocuments, Zenon
  <2> QED
    BY <1>0, <1>2, <1>3, <2>2, <2>3, Zenon DEF TypeOK, RunAgent
<1>4. CASE RecordFailure
  <2>1. PICK t \in RunTargets : doc' = AppendRunEntry(doc, Failure[t])
    BY <1>4, Zenon DEF RecordFailure
  <2>2. doc' \in Seq(Block)
    BY <1>0, <2>1, FailuresKeepDocuments, Zenon
  <2> QED
    BY <1>0, <1>2, <1>4, <2>1, <2>2, Zenon DEF TypeOK, RecordFailure
<1>5. QED
  BY <1>1, <1>3, <1>4, Zenon DEF RunnerNext

THEOREM RunnerTypes == RunnerSpec => []TypeOK
<1>1. Init => TypeOK
  BY DocumentsAreTyped, Zenon DEF Init, TypeOK, Codes
<1>2. TypeOK /\ [RunnerNext]_vars => TypeOK'
  <2> SUFFICES ASSUME TypeOK, [RunnerNext]_vars PROVE TypeOK'
    OBVIOUS
  <2>1. CASE UNCHANGED vars
    BY <2>1, Zenon DEF vars, TypeOK
  <2>2. CASE RunnerNext
    BY <2>2, RunnerSteps, Zenon
  <2> QED
    BY <2>1, <2>2
<1>3. QED
  BY <1>1, <1>2, PTL DEF RunnerSpec

LEMMA RunnerStepsKeepStamps ==
  ASSUME RunnerNext, TypeOK, HashesRecompute(doc)
  PROVE  HashesRecompute(doc')
<1>0. doc \in Seq(Block)
  BY Zenon DEF TypeOK
<1>1. CASE Next
  BY <1>1, EditsKeepFreshness, Zenon
<1>2. ASSUME NEW t \in RunTargets, NEW body \in BodiesOf(t[1])
      PROVE  HashesRecompute(WriteAgentBlock(doc, t, body))
  BY <1>0, RunsKeepDocuments, Zenon
<1>3. ASSUME NEW t \in RunTargets PROVE HashesRecompute(AppendRunEntry(doc, Failure[t]))
  BY <1>0, FailuresKeepDocuments, Zenon
<1>4. QED
  BY <1>1, <1>2, <1>3, RunnerSteps, Zenon

\* The runner writes without integrity and rewrites logs only: with agents
\* writing between the edits no block has the hash of content it does not hold.
THEOREM StampsStayFreshBesideRuns ==
  ASSUME FreshStart PROVE RunnerSpec => []StampsAreFresh
<1>1. Init => StampsAreFresh
  BY Zenon DEF Init, FreshStart, StampsAreFresh
<1>2. TypeOK /\ StampsAreFresh /\ [RunnerNext]_vars => StampsAreFresh'
  <2> SUFFICES ASSUME TypeOK, StampsAreFresh, [RunnerNext]_vars PROVE StampsAreFresh'
    OBVIOUS
  <2>1. CASE UNCHANGED vars
    BY <2>1, Zenon DEF vars, StampsAreFresh
  <2>2. CASE RunnerNext
    BY <2>2, RunnerStepsKeepStamps, Zenon DEF StampsAreFresh
  <2> QED
    BY <2>1, <2>2
<1>3. QED
  BY <1>1, <1>2, RunnerTypes, PTL DEF RunnerSpec

LEMMA RunnerStepsKeepOrder ==
  ASSUME AddressedByKey, RunsAddressedByKey, RunnerNext, TypeOK, DocumentIsWellFormed
  PROVE  DocumentIsWellFormed' /\ KeepsAll(doc, doc')
<1> DEFINE Kept(e) == WellFormed(e) /\ KeepsAll(doc, e)
<1>0. doc \in Seq(Block) /\ WellFormed(doc)
  BY Zenon DEF TypeOK, DocumentIsWellFormed
<1>1. CASE Next
  BY <1>0, <1>1, EditsKeepOrder, StepsKeep, Zenon DEF DocumentIsWellFormed
<1>2. ASSUME NEW t \in RunTargets, NEW body \in BodiesOf(t[1])
      PROVE  Kept(WriteAgentBlock(doc, t, body))
  BY <1>0, RunsKeepDocuments, Zenon
<1>3. ASSUME NEW t \in RunTargets PROVE Kept(AppendRunEntry(doc, Failure[t]))
  BY <1>0, FailuresKeepDocuments, Zenon
<1> HIDE DEF Kept
<1>4. Next \/ Kept(doc')
  BY <1>2, <1>3, RunnerSteps, Zenon
<1>5. QED
  BY <1>1, <1>4, Zenon DEF Kept, DocumentIsWellFormed

THEOREM RunnerInvariant ==
  ASSUME AddressedByKey, RunsAddressedByKey, WellFormedStart
  PROVE  RunnerSpec => [](TypeOK /\ DocumentIsWellFormed)
<1>1. Init => DocumentIsWellFormed
  BY Zenon DEF Init, WellFormedStart, DocumentIsWellFormed
<1>2. TypeOK /\ DocumentIsWellFormed /\ [RunnerNext]_vars => DocumentIsWellFormed'
  <2> SUFFICES ASSUME TypeOK, DocumentIsWellFormed, [RunnerNext]_vars
               PROVE  DocumentIsWellFormed'
    OBVIOUS
  <2>1. CASE UNCHANGED vars
    BY <2>1, Zenon DEF vars, DocumentIsWellFormed
  <2>2. CASE RunnerNext
    BY <2>2, RunnerStepsKeepOrder, Zenon
  <2> QED
    BY <2>1, <2>2
<1>3. QED
  BY <1>1, <1>2, RunnerTypes, PTL DEF RunnerSpec

\* Runs do not disorder a history: one canonical block per section or variant,
\* after its history in the order of revisions, with agents writing between edits.
THEOREM DocumentsStayOrderedBesideRuns ==
  ASSUME AddressedByKey, RunsAddressedByKey, WellFormedStart
  PROVE  RunnerSpec => []DocumentIsOrdered
<1>1. DocumentIsWellFormed => DocumentIsOrdered
  BY Zenon DEF DocumentIsWellFormed, WellFormed, DocumentIsOrdered
<1>2. QED
  BY <1>1, RunnerInvariant, PTL

\* The runner consults no policy, and still loses no block that policies keep:
\* it only ever supersedes.
THEOREM HistoryStaysKeptBesideRuns ==
  ASSUME AddressedByKey, RunsAddressedByKey, WellFormedStart
  PROVE  RunnerSpec => HistoryIsKept
<1>1. TypeOK /\ TypeOK' /\ DocumentIsWellFormed /\ [RunnerNext]_vars =>
        [\A i \in DOMAIN doc :
           doc[i].section \in Standard /\ (MustSupersede(doc[i].source) \/ doc[i].superseded)
             => \E j \in DOMAIN doc' : SameContent(doc[i], doc'[j])]_vars
  <2> SUFFICES ASSUME TypeOK, TypeOK', DocumentIsWellFormed, RunnerNext,
                      NEW i \in DOMAIN doc, MustBeKept(doc[i])
               PROVE  \E j \in DOMAIN doc' : SameContent(doc[i], doc'[j])
    BY Zenon DEF MustBeKept
  <2>1. KeepsAll(doc, doc')
    BY RunnerStepsKeepOrder, Zenon
  <2> QED
    BY <2>1, KeptContent, Zenon DEF TypeOK
<1>2. QED
  BY <1>1, RunnerInvariant, PTL DEF RunnerSpec, HistoryIsKept

-----------------------------------------------------------------------------
(* The agent runner: the log misses no run.                                *)

\* No editor, no maintenance and no toolkit writes under the runner's source.
RunnerWritesAlone == Runner \notin Writers \cup {Maintainer, Toolkit}

\* What RunsAreLogged says, of any document.
LoggedIn(d) ==
  \A i \in DOMAIN d : d[i].source = Runner =>
    \E l \in LogBlocks(d) : Success[<<d[i].section, d[i].variant>>] \in d[l].body
LoggedStart == \A d \in InitialDocuments : LoggedIn(d)

LogKept(d, e) == \A l \in LogBlocks(d) : \E k \in LogBlocks(e) : d[l].body \subseteq e[k].body

\* A run wrote where b is.
RunIn(d, b) ==
  \E i \in DOMAIN d :
    d[i].source = Runner /\ d[i].section = b.section /\ d[i].variant = b.variant

\* What every write but a run does: the log keeps its entries, and there is no
\* block of a run where there was none.
Carries(d, e) ==
  LogKept(d, e) /\ \A j \in DOMAIN e : e[j].source = Runner => RunIn(d, e[j])

LEMMA CarriesIsTransitive ==
  ASSUME NEW d, NEW e, NEW f, Carries(d, e), Carries(e, f)
  PROVE  Carries(d, f)
<1>1. LogKept(d, f)
  <2> SUFFICES ASSUME NEW l \in LogBlocks(d)
               PROVE  \E k \in LogBlocks(f) : d[l].body \subseteq f[k].body
    BY Zenon DEF LogKept
  <2>1. PICK j \in LogBlocks(e) : d[l].body \subseteq e[j].body
    BY Zenon DEF Carries, LogKept
  <2>2. PICK k \in LogBlocks(f) : e[j].body \subseteq f[k].body
    BY Zenon DEF Carries, LogKept
  <2>3. d[l].body \subseteq f[k].body
    BY <2>1, <2>2, Zenon
  <2> QED
    BY <2>3, Zenon
<1>2. ASSUME NEW k \in DOMAIN f, f[k].source = Runner PROVE RunIn(d, f[k])
  <2>1. PICK j \in DOMAIN e : e[j].source = Runner /\ e[j].section = f[k].section
                              /\ e[j].variant = f[k].variant
    BY <1>2, Zenon DEF Carries, RunIn
  <2>2. RunIn(d, e[j])
    BY <2>1, Zenon DEF Carries
  <2> QED
    BY <2>1, <2>2, Zenon DEF RunIn
<1>3. QED
  BY <1>1, <1>2, Zenon DEF Carries

LEMMA CarriesLogged ==
  ASSUME NEW d, NEW e, Carries(d, e), LoggedIn(d)
  PROVE  LoggedIn(e)
<1> SUFFICES ASSUME NEW j \in DOMAIN e, e[j].source = Runner
             PROVE  \E k \in LogBlocks(e) : Success[<<e[j].section, e[j].variant>>] \in e[k].body
  BY Zenon DEF LoggedIn
<1>1. PICK i \in DOMAIN d : d[i].source = Runner /\ d[i].section = e[j].section
                            /\ d[i].variant = e[j].variant
  BY Zenon DEF Carries, RunIn
<1>2. PICK l \in LogBlocks(d) : Success[<<d[i].section, d[i].variant>>] \in d[l].body
  BY <1>1, Zenon DEF LoggedIn
<1>3. PICK k \in LogBlocks(e) : d[l].body \subseteq e[k].body
  BY Zenon DEF Carries, LogKept
<1>4. Success[<<e[j].section, e[j].variant>>] \in e[k].body
  BY <1>1, <1>2, <1>3, Zenon
<1>5. QED
  BY <1>4, Zenon

\* A rewrite in place carries over when logs grow and runs stay where they are.
RewritesRuns(d, e) ==
  /\ DOMAIN e = DOMAIN d
  /\ \A i \in LogBlocks(d) : e[i].section = PipelineLog /\ d[i].body \subseteq e[i].body
  /\ \A i \in DOMAIN d : e[i].source = Runner =>
       d[i].source = Runner /\ d[i].section = e[i].section /\ d[i].variant = e[i].variant

LEMMA RewritesCarry ==
  ASSUME NEW d, NEW e, RewritesRuns(d, e) PROVE Carries(d, e)
<1>1. LogKept(d, e)
  BY Zenon DEF RewritesRuns, LogKept, LogBlocks
<1>2. QED
  BY <1>1, Zenon DEF RewritesRuns, Carries, RunIn

LEMMA ReplaceCarries ==
  ASSUME NEW d \in Seq(Block), NEW op \in SectionOperation, NEW source \in Sources,
         source # Runner, Lookup(d, op.section, op.variant) # 0
  PROVE  Carries(d, ReplaceSection(d, op, source))
<1> DEFINE h == Lookup(d, op.section, op.variant)
           b == NewBlock(d, h, op, source)
           e == ReplaceSection(d, op, source)
<1>1. /\ e \in Seq(Block) /\ Len(e) = Len(d) /\ h \in 1..Len(d)
      /\ \A i \in 1..Len(d) : e[i] = IF i = h THEN b ELSE d[i]
  BY ReplaceFacts
<1>2. DOMAIN d = 1..Len(d) /\ DOMAIN e = 1..Len(d)
  BY <1>1, DomainOfSeq, Zenon
<1>3. d[h].section \in Standard
  BY LookupFacts
<1>4. b.source = source
  BY Zenon DEF NewBlock, Written
<1> HIDE DEF h, b, e
<1>5. \A i \in LogBlocks(d) : i # h
  BY <1>3, KindsAreDisjoint, Zenon DEF LogBlocks, Standard
<1>6. \A i \in LogBlocks(d) : e[i].section = PipelineLog /\ d[i].body \subseteq e[i].body
  BY <1>1, <1>2, <1>5, Zenon DEF LogBlocks
<1>7. \A i \in DOMAIN d : e[i].source = Runner => e[i] = d[i]
  BY <1>1, <1>2, <1>4, Zenon
<1>8. Carries(d, e)
  <2>1. RewritesRuns(d, e)
    BY <1>2, <1>6, <1>7, Zenon DEF RewritesRuns
  <2> QED
    BY <2>1, RewritesCarry, Zenon
<1>9. QED
  BY <1>8, Zenon DEF e

\* The blocks of runs in what a supersession returns.
RunsAfter(d, op, source, e) ==
  /\ LogKept(d, e)
  /\ \A j \in DOMAIN e : e[j].source = Runner =>
       \/ RunIn(d, e[j])
       \/ source = Runner /\ e[j].section = op.section /\ e[j].variant = op.variant

LEMMA SupersedeRuns ==
  ASSUME NEW d \in Seq(Block), NEW op \in SectionOperation, NEW source \in Sources
  PROVE  RunsAfter(d, op, source, SupersedeSection(d, op, source))
<1> DEFINE h == Lookup(d, op.section, op.variant)
           m == MarkSuperseded(d, h)
           p == InsertionPoint(d)
           b == NewBlock(d, h, op, source)
           e == SupersedeSection(d, op, source)
<1>1. /\ e \in Seq(Block) /\ Len(e) = Len(d) + 1
      /\ \A k \in 1..(Len(d) + 1) :
           e[k] = IF k < p THEN m[k] ELSE IF k = p THEN b ELSE m[k - 1]
  BY SupersedeFacts
<1>2. DOMAIN d = 1..Len(d) /\ DOMAIN e = 1..(Len(d) + 1) /\ Len(d) \in Nat
  BY <1>1, DomainOfSeq, Zenon
<1>3. \A i \in DOMAIN d : SameButMark(m[i], d[i])
  BY MarkFacts
<1>4. p \in 1..(Len(d) + 1)
  BY InsertionFacts, Zenon
<1>5. b.source = source /\ b.section = op.section /\ b.variant = op.variant
  BY Zenon DEF NewBlock, Written
<1>6. \A i \in DOMAIN d : \E j \in DOMAIN e : SameButMark(e[j], d[i])
  BY SupersedeImage, Zenon
<1> HIDE DEF h, m, p, b, e
<1>7. LogKept(d, e)
  <2> SUFFICES ASSUME NEW l \in LogBlocks(d)
               PROVE  \E k \in LogBlocks(e) : d[l].body \subseteq e[k].body
    BY Zenon DEF LogKept
  <2>1. PICK k \in DOMAIN e : SameButMark(e[k], d[l])
    BY <1>6, Zenon DEF LogBlocks
  <2>2. k \in LogBlocks(e) /\ d[l].body \subseteq e[k].body
    BY <2>1, Zenon DEF LogBlocks, SameButMark
  <2> QED
    BY <2>2, Zenon
<1>8. ASSUME NEW j \in DOMAIN e PROVE e[j] = b \/ \E i \in DOMAIN d : e[j] = m[i]
  <2>1. CASE j < p
    <3>1. j \in DOMAIN d
      BY <2>1, <1>2, <1>4, SMT
    <3> QED
      BY <3>1, <2>1, <1>1, <1>2, Zenon
  <2>2. CASE j = p
    <3>1. ~(j < p)
      BY <2>2, <1>2, <1>4, SMT
    <3> QED
      BY <3>1, <2>2, <1>1, <1>2, Zenon
  <2>3. CASE ~(j < p) /\ j # p
    <3>1. j - 1 \in DOMAIN d
      BY <2>3, <1>2, <1>4, SMT
    <3> QED
      BY <3>1, <2>3, <1>1, <1>2, Zenon
  <2> QED
    BY <2>1, <2>2, <2>3, Zenon
<1>9. ASSUME NEW j \in DOMAIN e, e[j].source = Runner
      PROVE  \/ RunIn(d, e[j])
             \/ source = Runner /\ e[j].section = op.section /\ e[j].variant = op.variant
  <2>1. CASE e[j] = b
    BY <2>1, <1>5, <1>9, Zenon
  <2>2. CASE \E i \in DOMAIN d : e[j] = m[i]
    BY <2>2, <1>3, <1>9, Zenon DEF RunIn, SameButMark
  <2> QED
    BY <2>1, <2>2, <1>8, Zenon
<1>10. RunsAfter(d, op, source, e)
  BY <1>7, <1>9, Zenon DEF RunsAfter
<1>11. QED
  BY <1>10, Zenon DEF e

LEMMA MaintainCarries ==
  ASSUME NEW d \in Seq(Block), NEW s \in Stages, RunnerWritesAlone
  PROVE  Carries(d, MaintainGaps(d, s))
<1> DEFINE op == GapsOperation(d, s)
<1>1. op \in SectionOperation
  BY GapsOperationTyped
<1>2. \/ MaintainGaps(d, s) = d
      \/ /\ Lookup(d, op.section, op.variant) # 0
         /\ MaintainGaps(d, s) = ReplaceSection(d, op, Maintainer)
      \/ MaintainGaps(d, s) = SupersedeSection(d, op, Maintainer)
  BY MaintainIsAnEdit, Zenon
<1> HIDE DEF op
<1>3. Maintainer # Runner
  BY Zenon DEF RunnerWritesAlone
<1>4. Lookup(d, op.section, op.variant) # 0 => Carries(d, ReplaceSection(d, op, Maintainer))
  BY <1>1, <1>3, MaintainerIsASource, ReplaceCarries, Zenon
<1>5. Carries(d, SupersedeSection(d, op, Maintainer))
  <2>1. RunsAfter(d, op, Maintainer, SupersedeSection(d, op, Maintainer))
    BY <1>1, MaintainerIsASource, SupersedeRuns, Zenon
  <2> QED
    BY <2>1, <1>3, Zenon DEF Carries, RunsAfter
<1>6. Carries(d, d)
  BY Zenon DEF Carries, LogKept, RunIn
<1>7. QED
  BY <1>2, <1>4, <1>5, <1>6, Zenon

LEMMA FinishCarries ==
  ASSUME NEW d \in Seq(Block), NEW written \in Seq(Block), NEW op \in SectionOperation,
         Carries(d, written), RunnerWritesAlone,
         NEW kind, NEW s, NEW options, ~MaintenanceThrows(op.section, s, options)
  PROVE  Carries(d, FinishSection(d, written, op, kind, s, options))
<1> DEFINE m == IF options.maintainGaps /\ op.section # Gaps
                THEN MaintainGaps(written, s) ELSE written
           r == StampHead(d, m, op, kind)
<1>1. s \in Stages => /\ MaintainGaps(written, s) \in Seq(Block)
                      /\ Carries(d, MaintainGaps(written, s))
  BY MaintainTyped, MaintainCarries, CarriesIsTransitive, Zenon
<1>2. m \in Seq(Block) /\ Carries(d, m)
  BY <1>1, Zenon DEF MaintenanceThrows
<1> HIDE DEF m
<1>3. /\ r \in Seq(Block) /\ Len(r) = Len(m)
      /\ \A i \in 1..Len(m) : SameButStamp(r[i], m[i])
  BY <1>2, StampFacts
<1> HIDE DEF r
<1>4. DOMAIN r = DOMAIN m /\ DOMAIN m = 1..Len(m)
  BY <1>2, <1>3, DomainOfSeq, Zenon
<1>5. \A i \in LogBlocks(m) : r[i].section = PipelineLog /\ m[i].body \subseteq r[i].body
  BY <1>3, <1>4, Zenon DEF LogBlocks, SameButStamp
<1>6. Carries(m, r)
  <2>1. \A i \in DOMAIN m : r[i].source = Runner =>
          m[i].source = Runner /\ m[i].section = r[i].section /\ m[i].variant = r[i].variant
    BY <1>3, <1>4, Zenon DEF SameButStamp
  <2>2. RewritesRuns(m, r)
    BY <2>1, <1>4, <1>5, Zenon DEF RewritesRuns
  <2> QED
    BY <2>2, RewritesCarry, Zenon
<1>7. Carries(d, r)
  BY <1>2, <1>6, CarriesIsTransitive, Zenon
<1>8. QED
  BY <1>2, <1>7, Zenon DEF FinishSection, m, r

LEMMA FinishOtherCarries ==
  ASSUME NEW d, NEW written \in Seq(Block), Carries(d, written), RunnerWritesAlone,
         NEW s, NEW options, ~MaintenanceThrows(PipelineLog, s, options)
  PROVE  Carries(d, FinishOther(written, s, options))
<1>1. PipelineLog # Gaps
  BY GapsIsSingle, KindsAreDisjoint, Zenon
<1>2. s \in Stages => Carries(d, MaintainGaps(written, s))
  BY MaintainCarries, CarriesIsTransitive, Zenon
<1>3. QED
  BY <1>1, <1>2, Zenon DEF FinishOther, MaintenanceThrows

LEMMA RunEntryCarries ==
  ASSUME NEW d \in Seq(Block), NEW entry \in Entries, RunnerWritesAlone
  PROVE  Carries(d, AppendRunEntry(d, entry))
<1> DEFINE r == AppendRunEntry(d, entry)
           n == Len(d) + 1
<1>1. /\ DOMAIN d = 1..Len(d) /\ Len(d) \in Nat
      /\ \/ DOMAIN r = DOMAIN d
         \/ DOMAIN r = 1..n /\ r[n] = StartedLog(entry)
      /\ \A i \in DOMAIN d : /\ i \in DOMAIN r /\ SameButEntry(r[i], d[i])
                             /\ r[i] = d[i] \/ d[i].body \subseteq r[i].body
  BY RunEntryFacts
<1>2. StartedLog(entry).source # Runner
  BY Zenon DEF StartedLog, RunnerWritesAlone
<1>3. \A i \in 1..n : i \in DOMAIN d \/ i = n
  BY <1>1, SMT
<1> HIDE DEF r, n
<1>4. LogKept(d, r)
  <2> SUFFICES ASSUME NEW l \in LogBlocks(d)
               PROVE  l \in LogBlocks(r) /\ d[l].body \subseteq r[l].body
    BY Zenon DEF LogKept
  <2> QED
    BY <1>1, Zenon DEF LogBlocks, SameButEntry
<1>5. ASSUME NEW j \in DOMAIN r, r[j].source = Runner PROVE RunIn(d, r[j])
  <2>1. j \in DOMAIN d
    BY <1>1, <1>2, <1>3, <1>5, Zenon
  <2> QED
    BY <1>1, <1>5, <2>1, Zenon DEF RunIn, SameButEntry
<1>6. QED
  BY <1>4, <1>5, Zenon DEF Carries, r

LEMMA EditsCarry ==
  ASSUME RunnerWritesAlone, Next, TypeOK
  PROVE  Carries(doc, doc')
<1>0. doc \in Seq(Block) /\ stage \in StageValues
  BY Zenon DEF TypeOK
<1>1. Carries(doc, doc)
  BY Zenon DEF Carries, LogKept, RunIn
<1>2. ASSUME NEW op \in Operations, NEW ctx \in Contexts
      PROVE  op \in SectionOperation /\ ctx.source \in Sources /\ ctx.source # Runner
  <2>1. ctx.source \in Writers
    BY Zenon DEF Contexts
  <2> QED
    BY <1>0, <2>1, CallsAreTyped, Zenon DEF RunnerWritesAlone
<1>3. ASSUME NEW op \in Operations, NEW ctx \in Contexts, NEW options, MayReplace(op, ctx),
             ~MaintenanceThrows(op.section, stage, options)
      PROVE  Carries(doc, FinishSection(doc, ReplaceSection(doc, op, ctx.source), op,
                                        "section_replace", stage, options))
  <2> DEFINE w == ReplaceSection(doc, op, ctx.source)
  <2>1. Lookup(doc, op.section, op.variant) # 0
    BY <1>3, Zenon DEF MayReplace
  <2>2. w \in Seq(Block)
    BY <1>0, <1>2, <2>1, ReplaceFacts
  <2>3. Carries(doc, w)
    BY <1>0, <1>2, <2>1, ReplaceCarries, Zenon
  <2> HIDE DEF w
  <2>4. Carries(doc, FinishSection(doc, w, op, "section_replace", stage, options))
    BY <1>0, <1>2, <1>3, <2>2, <2>3, FinishCarries
  <2> QED
    BY <2>4, Zenon DEF w
<1>4. ASSUME NEW op \in Operations, NEW ctx \in Contexts, NEW options,
             ~MaintenanceThrows(op.section, stage, options)
      PROVE  Carries(doc, FinishSection(doc, SupersedeSection(doc, op, ctx.source), op,
                                        "section_supersede", stage, options))
  <2> DEFINE w == SupersedeSection(doc, op, ctx.source)
  <2>1. w \in Seq(Block)
    BY <1>0, <1>2, SupersedeFacts
  <2>2. Carries(doc, w)
    <3>1. RunsAfter(doc, op, ctx.source, w)
      BY <1>0, <1>2, SupersedeRuns, Zenon
    <3> QED
      BY <3>1, <1>0, <1>2, Zenon DEF Carries, RunsAfter
  <2> HIDE DEF w
  <2>3. Carries(doc, FinishSection(doc, w, op, "section_supersede", stage, options))
    BY <1>0, <1>2, <1>4, <2>1, <2>2, FinishCarries
  <2> QED
    BY <2>3, Zenon DEF w
<1>5. ASSUME NEW s, NEW options, ~MaintenanceThrows(PipelineLog, s, options)
      PROVE  Carries(doc, FinishOther(doc, s, options))
  BY <1>0, <1>1, <1>5, FinishOtherCarries, Zenon
<1>6. ASSUME NEW entry \in Entries, NEW options, LogBlocks(doc) # {},
             ~MaintenanceThrows(PipelineLog, stage, options)
      PROVE  Carries(doc, FinishOther(AppendLogEntry(doc, entry), stage, options))
  <2> DEFINE w == AppendLogEntry(doc, entry)
  <2>1. w = AppendRunEntry(doc, entry)
    BY <1>6, Zenon DEF AppendRunEntry
  <2>2. w \in Seq(Block)
    BY <1>0, <1>6, AppendFacts
  <2>3. Carries(doc, w)
    BY <1>0, <2>1, RunEntryCarries, Zenon
  <2> HIDE DEF w
  <2>4. Carries(doc, FinishOther(w, stage, options))
    BY <1>6, <2>2, <2>3, FinishOtherCarries, Zenon
  <2> QED
    BY <2>4, Zenon DEF w
<1>7. QED
  BY <1>0, <1>1, <1>3, <1>4, <1>5, <1>6, StepsAreEdits, Zenon

LEMMA RunsLog ==
  ASSUME RunnerWritesAlone, NEW d \in Seq(Block), NEW t \in RunTargets,
         NEW body \in BodiesOf(t[1])
  PROVE  LET e == WriteAgentBlock(d, t, body)
         IN LogKept(d, e) /\ (LoggedIn(d) => LoggedIn(e))
<1> DEFINE op == RunOperation(t, body)
           w  == SupersedeSection(d, op, Runner)
           e  == WriteAgentBlock(d, t, body)
<1>1. op \in SectionOperation
  BY RunOperationTyped
<1>2. <<op.section, op.variant>> = t
  <2>1. t = <<t[1], t[2]>>
    BY RunsAreAddressed, SMT
  <2> QED
    BY <2>1, Zenon DEF RunOperation
<1>3. Runner \in Sources /\ Success[t] \in Entries
  BY RunnersAreSources, RunEntriesAreEntries
<1>4. w \in Seq(Block) /\ e = AppendRunEntry(w, Success[t])
  BY RunsKeepDocuments, Zenon
<1> HIDE DEF op, e
<1>5. /\ LogKept(d, w)
      /\ \A j \in DOMAIN w : w[j].source = Runner =>
           RunIn(d, w[j]) \/ (w[j].section = op.section /\ w[j].variant = op.variant)
  <2>1. RunsAfter(d, op, Runner, w)
    BY <1>1, <1>3, SupersedeRuns, Zenon
  <2> QED
    BY <2>1, Zenon DEF RunsAfter
<1> HIDE DEF w
<1>6. Carries(w, e)
  BY <1>3, <1>4, RunEntryCarries, Zenon
<1>7. PICK k \in LogBlocks(e) : Success[t] \in e[k].body
  BY <1>3, <1>4, RunEntryFacts, Zenon
<1>8. LogKept(d, e)
  <2> SUFFICES ASSUME NEW l \in LogBlocks(d)
               PROVE  \E n \in LogBlocks(e) : d[l].body \subseteq e[n].body
    BY Zenon DEF LogKept
  <2>1. PICK m \in LogBlocks(w) : d[l].body \subseteq w[m].body
    BY <1>5, Zenon DEF LogKept
  <2>2. PICK n \in LogBlocks(e) : w[m].body \subseteq e[n].body
    BY <1>6, Zenon DEF Carries, LogKept
  <2>3. d[l].body \subseteq e[n].body
    BY <2>1, <2>2, Zenon
  <2> QED
    BY <2>3, Zenon
<1>9. ASSUME LoggedIn(d), NEW j \in DOMAIN e, e[j].source = Runner
      PROVE  \E n \in LogBlocks(e) : Success[<<e[j].section, e[j].variant>>] \in e[n].body
  <2>1. PICK m \in DOMAIN w : w[m].source = Runner /\ w[m].section = e[j].section
                              /\ w[m].variant = e[j].variant
    BY <1>6, <1>9, Zenon DEF Carries, RunIn
  <2>2. CASE w[m].section = op.section /\ w[m].variant = op.variant
    BY <2>1, <2>2, <1>2, <1>7, Zenon
  <2>3. CASE RunIn(d, w[m])
    <3>1. PICK i \in DOMAIN d : d[i].source = Runner /\ d[i].section = e[j].section
                                /\ d[i].variant = e[j].variant
      BY <2>1, <2>3, Zenon DEF RunIn
    <3>2. PICK l \in LogBlocks(d) : Success[<<d[i].section, d[i].variant>>] \in d[l].body
      BY <1>9, <3>1, Zenon DEF LoggedIn
    <3>3. PICK n \in LogBlocks(e) : d[l].body \subseteq e[n].body
      BY <1>8, Zenon DEF LogKept
    <3>4. Success[<<e[j].section, e[j].variant>>] \in e[n].body
      BY <3>1, <3>2, <3>3, Zenon
    <3> QED
      BY <3>4, Zenon
  <2> QED
    BY <2>1, <2>2, <2>3, <1>5, Zenon
<1>10. QED
  BY <1>8, <1>9, Zenon DEF LoggedIn, e

LEMMA RunnerStepsLog ==
  ASSUME RunnerWritesAlone, RunnerNext, TypeOK
  PROVE  LogKept(doc, doc') /\ (LoggedIn(doc) => LoggedIn(doc'))
<1> DEFINE Logs(e) == LogKept(doc, e) /\ (LoggedIn(doc) => LoggedIn(e))
<1>0. doc \in Seq(Block)
  BY Zenon DEF TypeOK
<1>1. ASSUME NEW e, Carries(doc, e) PROVE Logs(e)
  BY <1>1, CarriesLogged, Zenon DEF Carries
<1>2. Next => Carries(doc, doc')
  BY EditsCarry, Zenon
<1>3. ASSUME NEW t \in RunTargets, NEW body \in BodiesOf(t[1])
      PROVE  Logs(WriteAgentBlock(doc, t, body))
  BY <1>0, RunsLog, Zenon
<1>4. ASSUME NEW t \in RunTargets PROVE Carries(doc, AppendRunEntry(doc, Failure[t]))
  BY <1>0, RunEntriesAreEntries, RunEntryCarries, Zenon
<1> HIDE DEF Logs
<1>5. Logs(doc')
  BY <1>1, <1>2, <1>3, <1>4, RunnerSteps, Zenon
<1>6. QED
  BY <1>5, Zenon DEF Logs

\* Agent writers guide IX.5: a block of a run is in the document with the entry of
\* that run, whatever is edited, superseded, maintained or logged after it.
THEOREM RunsStayLogged ==
  ASSUME RunnerWritesAlone, LoggedStart PROVE RunnerSpec => []RunsAreLogged
<1>1. Init => RunsAreLogged
  BY Zenon DEF Init, LoggedStart, LoggedIn, RunsAreLogged
<1>2. TypeOK /\ RunsAreLogged /\ [RunnerNext]_vars => RunsAreLogged'
  <2> SUFFICES ASSUME TypeOK, RunsAreLogged, [RunnerNext]_vars PROVE RunsAreLogged'
    OBVIOUS
  <2>1. CASE UNCHANGED vars
    BY <2>1, Zenon DEF vars, RunsAreLogged, LogBlocks
  <2>2. CASE RunnerNext
    <3>1. LoggedIn(doc)
      BY Zenon DEF LoggedIn, RunsAreLogged
    <3>2. LoggedIn(doc')
      BY <2>2, <3>1, RunnerStepsLog, Zenon
    <3> QED
      BY <3>2, Zenon DEF LoggedIn, RunsAreLogged
  <2> QED
    BY <2>1, <2>2
<1>3. QED
  BY <1>1, <1>2, RunnerTypes, PTL DEF RunnerSpec

\* No writer loses an entry of the log: neither the edits and the maintenance
\* around it, nor the insertions and rewrites of the runner.
THEOREM LogStaysWhole ==
  ASSUME RunnerWritesAlone PROVE RunnerSpec => LogOnlyGrows
<1>1. TypeOK /\ [RunnerNext]_vars =>
        [\A l \in LogBlocks(doc) : \A e \in doc[l].body :
           \E k \in LogBlocks(doc') : e \in doc'[k].body]_vars
  <2> SUFFICES ASSUME TypeOK, RunnerNext, NEW l \in LogBlocks(doc), NEW e \in doc[l].body
               PROVE  \E k \in LogBlocks(doc') : e \in doc'[k].body
    BY Zenon
  <2>1. LogKept(doc, doc')
    BY RunnerStepsLog, Zenon
  <2>2. PICK k \in LogBlocks(doc') : doc[l].body \subseteq doc'[k].body
    BY <2>1, Zenon DEF LogKept
  <2> QED
    BY <2>2, Zenon
<1>2. QED
  BY <1>1, RunnerTypes, PTL DEF RunnerSpec, LogOnlyGrows

-----------------------------------------------------------------------------
(* The store of histories.                                                 *)

\* The slot of an operation.
OpSlot(op) == <<op.section, IF op.variant = NoVariant THEN DefaultVariant ELSE op.variant>>

\* The versions of a slot are `new` once v is written over `old`.
Wrote(old, new, v) ==
  \/ old = {} /\ Store!FirstVersion(v) /\ new = {v}
  \/ \E last \in old :
       /\ Store!IsLatest(last, old) /\ Store!NextVersion(v, last)
       /\ \/ new = old \cup {v}
          \/ ~MustSupersede(last.source) /\ new = (old \ {last}) \cup {v}

LEMMA WritingIsAllowed ==
  ASSUME NEW old, NEW new, NEW v, Wrote(old, new, v)
  PROVE  Store!Superseded(old, new) \/ Store!Replaced(old, new)
<1>1. CASE old = {} /\ Store!FirstVersion(v) /\ new = {v}
  <2>1. v \in new /\ new = old \cup {v}
    BY <1>1
  <2> QED
    BY <1>1, <2>1, Zenon DEF Store!Superseded
<1>2. ASSUME NEW last \in old, Store!IsLatest(last, old), Store!NextVersion(v, last), new = old \cup {v}
      PROVE  Store!Superseded(old, new)
  BY <1>2, Zenon DEF Store!Superseded
<1>3. ASSUME NEW last \in old, Store!IsLatest(last, old), Store!NextVersion(v, last),
             ~MustSupersede(last.source), new = (old \ {last}) \cup {v}
      PROVE  Store!Replaced(old, new)
  BY <1>3, Zenon DEF Store!Replaced
<1> QED
  BY <1>1, <1>2, <1>3, Zenon DEF Wrote

Numbered(old) == \A w \in old : w.revision \in Nat

\* What is written last is above all that was there.
LEMMA WrittenIsAbove ==
  ASSUME NEW old, NEW new, NEW v, Wrote(old, new, v), Numbered(old)
  PROVE  /\ v \in new /\ v \notin old
         /\ \A w \in old : ~(v.revision <= w.revision)
         /\ \A w \in new : w = v \/ w \in old
<1>1. v \in new /\ \A w \in new : w = v \/ w \in old
  BY Zenon DEF Wrote
<1>2. ASSUME NEW w \in old PROVE ~(v.revision <= w.revision)
  <2>1. PICK last \in old : Store!IsLatest(last, old) /\ Store!NextVersion(v, last)
    BY Zenon DEF Wrote
  <2>2. w.revision <= last.revision /\ v.revision = last.revision + 1
    BY <2>1, Zenon DEF Store!IsLatest, Store!NextVersion
  <2>3. w.revision \in Nat /\ last.revision \in Nat
    BY Zenon DEF Numbered
  <2> QED
    BY <2>2, <2>3
<1>3. v \notin old
  <2> SUFFICES ASSUME v \in old PROVE FALSE
    OBVIOUS
  <2>1. ~(v.revision <= v.revision) /\ v.revision \in Nat
    BY <1>2, Zenon DEF Numbered
  <2> QED
    BY <2>1
<1> QED
  BY <1>1, <1>2, <1>3, Zenon

\* A version stamped in its place is one that could have been written there.
LEMMA StampingIsAllowed ==
  ASSUME NEW old, NEW mid, NEW new, NEW v, NEW w, Wrote(old, mid, v), v \notin old,
         w.source = v.source, w.revision = v.revision, new = (mid \ {v}) \cup {w}
  PROVE  Wrote(old, new, w)
<1>1. \A last : Store!NextVersion(v, last) => Store!NextVersion(w, last)
  BY Zenon DEF Store!NextVersion
<1>2. Store!FirstVersion(v) => Store!FirstVersion(w)
  BY Zenon DEF Store!FirstVersion
<1>3. mid = {v} => new = {w}
  BY Zenon
<1>4. mid = old \cup {v} => new = old \cup {w}
  OBVIOUS
<1>5. \A last : mid = (old \ {last}) \cup {v} => new = (old \ {last}) \cup {w}
  OBVIOUS
<1> QED
  BY <1>1, <1>2, <1>3, <1>4, <1>5, Zenon DEF Wrote

\* Versions of a slot, by index.
LEMMA VersionsByIndex ==
  ASSUME NEW d, NEW slot
  PROVE  /\ \A i \in DOMAIN d : SlotOf(d[i]) = slot => Version(d[i]) \in VersionsOf(d, slot)
         /\ \A x \in VersionsOf(d, slot) : \E i \in DOMAIN d : SlotOf(d[i]) = slot /\ x = Version(d[i])
BY Zenon DEF VersionsOf

LEMMA VersionFields ==
  ASSUME NEW b
  PROVE  /\ Version(b).source = b.source /\ Version(b).revision = b.revision
         /\ Version(b).body = b.body
BY DEF Version

LEMMA MarkIsNoVersion ==
  ASSUME NEW b, NEW c, SameButMark(b, c)
  PROVE  SlotOf(b) = SlotOf(c) /\ Version(b) = Version(c)
BY Zenon DEF SameButMark, SlotOf, Key, Version

\* A block rewritten in its place is a version in the place of another.
Rewritten(d, e, h) ==
  /\ DOMAIN e = DOMAIN d /\ h \in DOMAIN d
  /\ \A i \in DOMAIN d : i # h => e[i] = d[i]
  /\ SlotOf(e[h]) = SlotOf(d[h])
  /\ \A i \in DOMAIN d : SlotOf(d[i]) = SlotOf(d[h]) /\ i # h => Version(d[i]) # Version(d[h])

LEMMA RewritingVersions ==
  ASSUME NEW d, NEW e, NEW h, Rewritten(d, e, h), NEW slot
  PROVE  VersionsOf(e, slot) =
           IF slot = SlotOf(d[h])
           THEN (VersionsOf(d, slot) \ {Version(d[h])}) \cup {Version(e[h])}
           ELSE VersionsOf(d, slot)
<1>0. /\ DOMAIN e = DOMAIN d /\ h \in DOMAIN d
      /\ \A i \in DOMAIN d : i # h => e[i] = d[i]
      /\ SlotOf(e[h]) = SlotOf(d[h])
      /\ \A i \in DOMAIN d : SlotOf(d[i]) = SlotOf(d[h]) /\ i # h => Version(d[i]) # Version(d[h])
  BY Zenon DEF Rewritten
<1>1. CASE slot # SlotOf(d[h])
  <2>1. ASSUME NEW x \in VersionsOf(e, slot) PROVE x \in VersionsOf(d, slot)
    <3>1. PICK i \in DOMAIN e : SlotOf(e[i]) = slot /\ x = Version(e[i])
      BY Zenon DEF VersionsOf
    <3>2. e[i] = d[i]
      BY <1>0, <1>1, <3>1, Zenon
    <3> QED
      BY <3>1, <3>2, <1>0, VersionsByIndex, Zenon
  <2>2. ASSUME NEW x \in VersionsOf(d, slot) PROVE x \in VersionsOf(e, slot)
    <3>1. PICK i \in DOMAIN d : SlotOf(d[i]) = slot /\ x = Version(d[i])
      BY Zenon DEF VersionsOf
    <3>2. e[i] = d[i]
      BY <1>0, <1>1, <3>1, Zenon
    <3> QED
      BY <3>1, <3>2, <1>0, VersionsByIndex, Zenon
  <2> QED
    BY <1>1, <2>1, <2>2, Zenon
<1>2. CASE slot = SlotOf(d[h])
  <2> DEFINE new == (VersionsOf(d, slot) \ {Version(d[h])}) \cup {Version(e[h])}
  <2>1. ASSUME NEW x \in VersionsOf(e, slot) PROVE x \in new
    <3>1. PICK i \in DOMAIN e : SlotOf(e[i]) = slot /\ x = Version(e[i])
      BY Zenon DEF VersionsOf
    <3>2. CASE i # h
      <4>1. e[i] = d[i] /\ SlotOf(d[i]) = SlotOf(d[h]) /\ i \in DOMAIN d
        BY <1>0, <1>2, <3>1, <3>2, Zenon
      <4>2. x \in VersionsOf(d, slot)
        BY <1>2, <3>1, <4>1, VersionsByIndex, Zenon
      <4>3. x # Version(d[h])
        BY <1>0, <3>1, <3>2, <4>1, Zenon
      <4> QED
        BY <4>2, <4>3, Zenon
    <3> QED
      BY <3>1, <3>2, Zenon
  <2>2. ASSUME NEW x \in new PROVE x \in VersionsOf(e, slot)
    <3>1. CASE x = Version(e[h])
      BY <1>0, <1>2, <3>1, VersionsByIndex, Zenon
    <3>2. CASE x \in VersionsOf(d, slot) /\ x # Version(d[h])
      <4>1. PICK i \in DOMAIN d : SlotOf(d[i]) = slot /\ x = Version(d[i])
        BY <3>2, Zenon DEF VersionsOf
      <4>2. e[i] = d[i]
        BY <1>0, <3>2, <4>1, Zenon
      <4> QED
        BY <1>0, <4>1, <4>2, VersionsByIndex, Zenon
    <3> QED
      BY <2>2, <3>1, <3>2, Zenon
  <2> QED
    BY <1>2, <2>1, <2>2, Zenon
<1> QED
  BY <1>1, <1>2

LEMMA SlotsOfOperations ==
  ASSUME NEW op, NEW b
  PROVE  InSlot(op, b) <=> SlotOf(b) = OpSlot(op)
<1> DEFINE key == IF op.variant = NoVariant THEN DefaultVariant ELSE op.variant
<1>1. InSlot(op, b) <=> b.section = op.section /\ Key(b) = key
  BY Zenon DEF InSlot
<1>2. SlotOf(b) = <<b.section, Key(b)>> /\ OpSlot(op) = <<op.section, key>>
  BY Zenon DEF SlotOf, OpSlot
<1> HIDE DEF key
<1> QED
  BY <1>1, <1>2

\* The head a lookup finds is the latest version of the slot, or the slot is empty.
LEMMA HeadIsLatest ==
  ASSUME NEW d \in Seq(Block), WellFormed(d), NEW op, Addressed(op)
  PROVE  LET h   == Lookup(d, op.section, op.variant)
             old == VersionsOf(d, OpSlot(op))
         IN /\ h = 0 => old = {}
            /\ h # 0 => /\ h \in DOMAIN d /\ SlotOf(d[h]) = OpSlot(op)
                        /\ Store!IsLatest(Version(d[h]), old)
                        /\ \A i \in DOMAIN d : SlotOf(d[i]) = SlotOf(d[h]) /\ i # h =>
                             Version(d[i]) # Version(d[h])
<1> DEFINE h   == Lookup(d, op.section, op.variant)
           old == VersionsOf(d, OpSlot(op))
<1>1. /\ h = 0 => \A i \in DOMAIN d : ~InSlot(op, d[i])
      /\ h # 0 => /\ h \in DOMAIN d /\ InSlot(op, d[h])
                  /\ \A i \in DOMAIN d : InSlot(op, d[i]) /\ i # h =>
                       d[i].revision < d[h].revision
  BY HeadOfSlot, Zenon
<1>2. \A i \in DOMAIN d : d[i].revision \in Nat
  BY RevisionsAreNumbers, Zenon
<1>3. \A i \in DOMAIN d : InSlot(op, d[i]) <=> SlotOf(d[i]) = OpSlot(op)
  BY SlotsOfOperations, Zenon
<1>4. \A x \in old : \E i \in DOMAIN d : SlotOf(d[i]) = OpSlot(op) /\ x = Version(d[i])
  BY Zenon DEF VersionsOf
<1> HIDE DEF h
<1>5. ASSUME h # 0, NEW i \in DOMAIN d, InSlot(op, d[i])
      PROVE  Version(d[i]).revision <= Version(d[h]).revision
  <2>1. d[i].revision <= d[h].revision
    BY <1>1, <1>2, <1>5
  <2> QED
    BY <2>1, VersionFields, Zenon
<1>6. ASSUME h # 0, NEW i \in DOMAIN d, InSlot(op, d[i]), i # h
      PROVE  Version(d[i]) # Version(d[h])
  <2>1. d[i].revision # d[h].revision
    BY <1>1, <1>2, <1>6
  <2> QED
    BY <2>1, VersionFields, Zenon
<1>7. h # 0 => Version(d[h]) \in old
  BY <1>1, <1>3, VersionsByIndex, Zenon
<1> HIDE DEF old
<1>8. h = 0 => old = {}
  BY <1>1, <1>3, <1>4, Zenon
<1>9. h # 0 => Store!IsLatest(Version(d[h]), old)
  BY <1>3, <1>4, <1>5, <1>7, Zenon DEF Store!IsLatest
<1> QED
  BY <1>1, <1>3, <1>6, <1>8, <1>9, Zenon DEF h, old

LEMMA VersionsAreNumbered ==
  ASSUME NEW d \in Seq(Block), NEW slot PROVE Numbered(VersionsOf(d, slot))
<1> SUFFICES ASSUME NEW x \in VersionsOf(d, slot) PROVE x.revision \in Nat
  BY Zenon DEF Numbered
<1>1. PICK i \in DOMAIN d : SlotOf(d[i]) = slot /\ x = Version(d[i])
  BY Zenon DEF VersionsOf
<1> QED
  BY <1>1, RevisionsAreNumbers, VersionFields, Zenon

\* An edit writes one version to the slot it names, and no other slot.
Writes(op, d, e, v) ==
  /\ v.body = op.body
  /\ Wrote(VersionsOf(d, OpSlot(op)), VersionsOf(e, OpSlot(op)), v)
  /\ \A slot : slot # OpSlot(op) => VersionsOf(e, slot) = VersionsOf(d, slot)

LEMMA WrittenVersions ==
  ASSUME NEW d, NEW h, NEW op, Addressed(op), NEW source
  PROVE  LET b == NewBlock(d, h, op, source)
         IN /\ SlotOf(b) = OpSlot(op)
            /\ h = 0 => Store!FirstVersion(Version(b))
            /\ h # 0 /\ MayWrite(source, PolicyOf(d[h].source)) =>
                 Store!NextVersion(Version(b), Version(d[h]))
<1> DEFINE b == NewBlock(d, h, op, source)
<1>1. b.source = source /\ b.revision = (IF h = 0 THEN 1 ELSE d[h].revision + 1)
  BY Zenon DEF NewBlock, Written, NextRevision
<1>2. SlotOf(b) = OpSlot(op)
  BY NewBlockFacts, SlotsOfOperations, Zenon DEF Successor
<1> HIDE DEF b
<1>3. Version(b).source = source /\ Version(b).revision = (IF h = 0 THEN 1 ELSE d[h].revision + 1)
  BY <1>1, VersionFields, Zenon
<1>4. Version(d[h]).source = d[h].source /\ Version(d[h]).revision = d[h].revision
  BY VersionFields, Zenon
<1>5. h = 0 => Store!FirstVersion(Version(b))
  BY <1>3, Zenon DEF Store!FirstVersion
<1>6. h # 0 /\ MayWrite(source, PolicyOf(d[h].source)) => Store!NextVersion(Version(b), Version(d[h]))
  BY <1>3, <1>4, Zenon DEF Store!NextVersion
<1> QED
  BY <1>2, <1>5, <1>6, Zenon DEF b

LEMMA WrittenBody ==
  ASSUME NEW d, NEW h, NEW op, NEW source
  PROVE  Version(NewBlock(d, h, op, source)).body = op.body
<1> DEFINE b == NewBlock(d, h, op, source)
<1>1. b.body = op.body
  BY DEF NewBlock, Written
<1> HIDE DEF b
<1>2. Version(b).body = op.body
  BY <1>1, VersionFields, Zenon
<1> QED
  BY <1>2, Zenon DEF b

LEMMA ReplaceWrites ==
  ASSUME NEW d \in Seq(Block), WellFormed(d),
         NEW op \in SectionOperation, Addressed(op), NEW source \in Sources,
         Lookup(d, op.section, op.variant) # 0,
         MayWrite(source, PolicyOf(d[Lookup(d, op.section, op.variant)].source)),
         ~MustSupersede(d[Lookup(d, op.section, op.variant)].source)
  PROVE  \E v : Writes(op, d, ReplaceSection(d, op, source), v)
<1> DEFINE h == Lookup(d, op.section, op.variant)
           b == NewBlock(d, h, op, source)
           e == ReplaceSection(d, op, source)
<1>1. /\ e \in Seq(Block) /\ Len(e) = Len(d) /\ h \in 1..Len(d)
      /\ \A i \in 1..Len(d) : e[i] = IF i = h THEN b ELSE d[i]
  BY ReplaceFacts
<1>2. DOMAIN d = 1..Len(d) /\ DOMAIN e = 1..Len(d)
  BY <1>1, DomainOfSeq, Zenon
<1>3. /\ h # 0 /\ MayWrite(source, PolicyOf(d[h].source)) /\ ~MustSupersede(d[h].source)
      /\ SlotOf(d[h]) = OpSlot(op)
      /\ Store!IsLatest(Version(d[h]), VersionsOf(d, OpSlot(op)))
      /\ \A i \in DOMAIN d : SlotOf(d[i]) = SlotOf(d[h]) /\ i # h => Version(d[i]) # Version(d[h])
  BY HeadIsLatest, Zenon
<1>4. SlotOf(b) = OpSlot(op) /\ Store!NextVersion(Version(b), Version(d[h]))
  BY <1>3, WrittenVersions, Zenon
<1>4a. Version(b).body = op.body
  BY WrittenBody
<1> HIDE DEF h, b, e
<1>5. e[h] = b /\ \A i \in DOMAIN d : i # h => e[i] = d[i]
  BY <1>1, <1>2, Zenon
<1>6. ASSUME NEW slot
      PROVE  VersionsOf(e, slot) =
               IF slot = SlotOf(d[h])
               THEN (VersionsOf(d, slot) \ {Version(d[h])}) \cup {Version(e[h])}
               ELSE VersionsOf(d, slot)
  <2>1. SlotOf(e[h]) = SlotOf(d[h])
    BY <1>3, <1>4, <1>5, Zenon
  <2>2. Rewritten(d, e, h)
    BY <1>1, <1>2, <1>3, <1>5, <2>1, Zenon DEF Rewritten
  <2> QED
    BY <2>2, RewritingVersions
<1>7. Wrote(VersionsOf(d, OpSlot(op)), VersionsOf(e, OpSlot(op)), Version(b))
  <2>1. VersionsOf(e, OpSlot(op)) = (VersionsOf(d, OpSlot(op)) \ {Version(d[h])}) \cup {Version(b)}
    BY <1>3, <1>5, <1>6, Zenon
  <2>2. Version(d[h]) \in VersionsOf(d, OpSlot(op)) /\ Version(d[h]).source = d[h].source
    BY <1>3, VersionFields, Zenon DEF Store!IsLatest
  <2> QED
    BY <1>3, <1>4, <2>1, <2>2, Zenon DEF Wrote
<1>8. \A slot : slot # OpSlot(op) => VersionsOf(e, slot) = VersionsOf(d, slot)
  BY <1>3, <1>6, Zenon
<1> QED
  BY <1>4a, <1>7, <1>8, Zenon DEF Writes, e

\* What a supersession adds to the versions.
LEMMA SupersedeVersions ==
  ASSUME NEW d \in Seq(Block), NEW op \in SectionOperation, Addressed(op), NEW source \in Sources,
         NEW slot
  PROVE  LET b == NewBlock(d, Lookup(d, op.section, op.variant), op, source)
         IN VersionsOf(SupersedeSection(d, op, source), slot) =
              VersionsOf(d, slot) \cup (IF slot = OpSlot(op) THEN {Version(b)} ELSE {})
<1> DEFINE h == Lookup(d, op.section, op.variant)
           m == MarkSuperseded(d, h)
           p == InsertionPoint(d)
           b == NewBlock(d, h, op, source)
           e == SupersedeSection(d, op, source)
<1>1. /\ e \in Seq(Block) /\ Len(e) = Len(d) + 1
      /\ \A k \in 1..(Len(d) + 1) :
           e[k] = IF k < p THEN m[k] ELSE IF k = p THEN b ELSE m[k - 1]
  BY SupersedeFacts
<1>2. DOMAIN d = 1..Len(d) /\ DOMAIN e = 1..(Len(d) + 1) /\ Len(d) \in Nat
  BY <1>1, DomainOfSeq, Zenon
<1>3. ASSUME NEW i \in DOMAIN d PROVE SameButMark(m[i], d[i])
  BY MarkFacts
<1>4. p \in 1..(Len(d) + 1)
  BY InsertionFacts, Zenon
<1>5. \A i \in DOMAIN d : \E j \in DOMAIN e : SameButMark(e[j], d[i])
  BY SupersedeImage, Zenon
<1>6. SlotOf(b) = OpSlot(op)
  BY WrittenVersions, Zenon
<1> HIDE DEF h, m, p, b, e
<1>7. p \in DOMAIN e /\ e[p] = b
  <2>1. ~(p < p)
    BY <1>2, <1>4, SMT
  <2> QED
    BY <1>1, <1>2, <1>4, <2>1, Zenon
<1>8. ASSUME NEW j \in DOMAIN e, j # p PROVE \E i \in DOMAIN d : e[j] = m[i]
  <2>1. CASE j < p
    <3>1. j \in DOMAIN d
      BY <1>2, <1>4, <2>1, SMT
    <3> QED
      BY <1>1, <1>2, <2>1, <3>1, Zenon
  <2>2. CASE ~(j < p)
    <3>1. j - 1 \in DOMAIN d
      BY <1>2, <1>4, <1>8, <2>2, SMT
    <3> QED
      BY <1>1, <1>2, <1>8, <2>2, <3>1, Zenon
  <2> QED
    BY <2>1, <2>2
<1> DEFINE new == VersionsOf(d, slot) \cup (IF slot = OpSlot(op) THEN {Version(b)} ELSE {})
<1>9. ASSUME NEW x \in VersionsOf(e, slot) PROVE x \in new
  <2>1. PICK j \in DOMAIN e : SlotOf(e[j]) = slot /\ x = Version(e[j])
    BY Zenon DEF VersionsOf
  <2>2. CASE j = p
    BY <1>6, <1>7, <2>1, <2>2, Zenon
  <2>3. CASE j # p
    <3>1. PICK i \in DOMAIN d : e[j] = m[i]
      BY <1>8, <2>3, Zenon
    <3>2. SlotOf(d[i]) = slot /\ x = Version(d[i])
      BY <1>3, <2>1, <3>1, MarkIsNoVersion, Zenon
    <3> QED
      BY <3>2, VersionsByIndex, Zenon
  <2> QED
    BY <2>2, <2>3
<1>10. ASSUME NEW x \in VersionsOf(d, slot) PROVE x \in VersionsOf(e, slot)
  <2>1. PICK i \in DOMAIN d : SlotOf(d[i]) = slot /\ x = Version(d[i])
    BY Zenon DEF VersionsOf
  <2>2. PICK j \in DOMAIN e : SameButMark(e[j], d[i])
    BY <1>5, Zenon
  <2>3. SlotOf(e[j]) = slot /\ x = Version(e[j])
    BY <2>1, <2>2, MarkIsNoVersion, Zenon
  <2> QED
    BY <2>3, VersionsByIndex, Zenon
<1>11. slot = OpSlot(op) => Version(b) \in VersionsOf(e, slot)
  BY <1>6, <1>7, VersionsByIndex, Zenon
<1>12. VersionsOf(e, slot) = new
  BY <1>9, <1>10, <1>11, Zenon
<1> QED
  BY <1>12, Zenon DEF e, b, h

LEMMA SupersedeWrites ==
  ASSUME NEW d \in Seq(Block), WellFormed(d),
         NEW op \in SectionOperation, Addressed(op), NEW source \in Sources,
         LET h == Lookup(d, op.section, op.variant)
         IN h # 0 => MayWrite(source, PolicyOf(d[h].source))
  PROVE  \E v : Writes(op, d, SupersedeSection(d, op, source), v)
<1> DEFINE h == Lookup(d, op.section, op.variant)
           b == NewBlock(d, h, op, source)
           e == SupersedeSection(d, op, source)
           old == VersionsOf(d, OpSlot(op))
<1>1. /\ h = 0 => old = {}
      /\ h # 0 => Store!IsLatest(Version(d[h]), old)
  BY HeadIsLatest, Zenon
<1>2. /\ h = 0 => Store!FirstVersion(Version(b))
      /\ h # 0 => Store!NextVersion(Version(b), Version(d[h]))
  BY WrittenVersions, Zenon
<1>2a. Version(b).body = op.body
  BY WrittenBody
<1>3. ASSUME NEW slot
      PROVE  VersionsOf(e, slot) = VersionsOf(d, slot) \cup (IF slot = OpSlot(op) THEN {Version(b)} ELSE {})
  BY SupersedeVersions
<1> HIDE DEF h, b, e
<1>4. VersionsOf(e, OpSlot(op)) = old \cup {Version(b)}
  BY <1>3, Zenon
<1>5. ASSUME NEW slot, slot # OpSlot(op) PROVE VersionsOf(e, slot) = VersionsOf(d, slot)
  BY <1>3, <1>5
<1> HIDE DEF old
<1>6. Wrote(old, VersionsOf(e, OpSlot(op)), Version(b))
  <2>1. CASE h = 0
    <3>1. VersionsOf(e, OpSlot(op)) = {Version(b)}
      BY <1>1, <1>4, <2>1
    <3> QED
      BY <1>1, <1>2, <2>1, <3>1, Zenon DEF Wrote
  <2>2. CASE h # 0
    <3>1. Version(d[h]) \in old
      BY <1>1, <2>2, Zenon DEF Store!IsLatest
    <3> QED
      BY <1>1, <1>2, <1>4, <2>2, <3>1, Zenon DEF Wrote
  <2> QED
    BY <2>1, <2>2
<1> QED
  BY <1>2a, <1>5, <1>6, Zenon DEF Writes, old, e

\* Stamping leaves the slot with the version it was written, stamped, and the
\* other slots alone.
LEMMA StampWrites ==
  ASSUME NEW d \in Seq(Block), NEW after \in Seq(Block), WellFormed(after),
         NEW op \in SectionOperation, Addressed(op), NEW kind, NEW v,
         Wrote(VersionsOf(d, OpSlot(op)), VersionsOf(after, OpSlot(op)), v)
  PROVE  LET r == StampHead(d, after, op, kind)
         IN /\ \E w : Wrote(VersionsOf(d, OpSlot(op)), VersionsOf(r, OpSlot(op)), w)
            /\ \A slot : slot # OpSlot(op) => VersionsOf(r, slot) = VersionsOf(after, slot)
<1> DEFINE r   == StampHead(d, after, op, kind)
           h   == Lookup(after, op.section, op.variant)
           old == VersionsOf(d, OpSlot(op))
           mid == VersionsOf(after, OpSlot(op))
<1>1. /\ r \in Seq(Block) /\ Len(r) = Len(after)
      /\ \A i \in 1..Len(after) : SameButStamp(r[i], after[i]) /\ (i # h => r[i] = after[i])
  BY StampFacts
<1>2. DOMAIN r = 1..Len(after) /\ DOMAIN after = 1..Len(after)
  BY <1>1, DomainOfSeq, Zenon
<1>3. /\ h = 0 => mid = {}
      /\ h # 0 => /\ h \in DOMAIN after /\ SlotOf(after[h]) = OpSlot(op)
                  /\ Store!IsLatest(Version(after[h]), mid)
                  /\ \A i \in DOMAIN after : SlotOf(after[i]) = SlotOf(after[h]) /\ i # h =>
                       Version(after[i]) # Version(after[h])
  BY HeadIsLatest, Zenon
<1>4. Numbered(old)
  BY VersionsAreNumbered, Zenon
<1>5. Wrote(old, mid, v)
  OBVIOUS
<1> HIDE DEF r, h, old, mid
<1>6. /\ v \in mid /\ v \notin old
      /\ \A w \in old : ~(v.revision <= w.revision)
      /\ \A w \in mid : w = v \/ w \in old
  BY <1>4, <1>5, WrittenIsAbove, Zenon
<1>7. h # 0
  BY <1>3, <1>6, Zenon
<1>8. Version(after[h]) = v
  BY <1>3, <1>6, <1>7, Zenon DEF Store!IsLatest
<1>9. SameButStamp(r[h], after[h])
  BY <1>1, <1>2, <1>3, <1>7, Zenon
<1>10. SlotOf(r[h]) = SlotOf(after[h])
  BY <1>9, Zenon DEF SameButStamp, SlotOf, Key
<1>11. Version(r[h]).source = v.source /\ Version(r[h]).revision = v.revision
  BY <1>8, <1>9, VersionFields, Zenon DEF SameButStamp
<1>12. Rewritten(after, r, h)
  BY <1>1, <1>2, <1>3, <1>7, <1>10, Zenon DEF Rewritten
<1>13. ASSUME NEW slot
       PROVE  VersionsOf(r, slot) =
                IF slot = SlotOf(after[h])
                THEN (VersionsOf(after, slot) \ {Version(after[h])}) \cup {Version(r[h])}
                ELSE VersionsOf(after, slot)
  BY <1>12, RewritingVersions
<1>14. VersionsOf(r, OpSlot(op)) = (mid \ {v}) \cup {Version(r[h])}
  BY <1>3, <1>7, <1>8, <1>13, Zenon DEF mid
<1>15. Wrote(old, VersionsOf(r, OpSlot(op)), Version(r[h]))
  BY <1>5, <1>6, <1>11, <1>14, StampingIsAllowed, Zenon
<1>16. ASSUME NEW slot, slot # OpSlot(op) PROVE VersionsOf(r, slot) = VersionsOf(after, slot)
  <2>1. slot # SlotOf(after[h])
    BY <1>3, <1>7, <1>16, Zenon
  <2> QED
    BY <1>13, <2>1
<1> QED
  BY <1>15, <1>16, Zenon DEF old, r

\* Maintenance writes the gaps slot, if anything.
LEMMA MaintainWrites ==
  ASSUME NEW d \in Seq(Block), WellFormed(d), NEW s \in Stages
  PROVE  \/ MaintainGaps(d, s) = d
         \/ \E v : Writes(GapsOperation(d, s), d, MaintainGaps(d, s), v)
<1> DEFINE op == GapsOperation(d, s)
           g  == Lookup(d, op.section, op.variant)
<1>1. op \in SectionOperation /\ Addressed(op)
  BY GapsOperationAddressed, Zenon
<1>2. \/ MaintainGaps(d, s) = d
      \/ /\ g # 0 /\ MayWrite(Maintainer, PolicyOf(d[g].source)) /\ ~MustSupersede(d[g].source)
         /\ MaintainGaps(d, s) = ReplaceSection(d, op, Maintainer)
      \/ g = 0 /\ MaintainGaps(d, s) = SupersedeSection(d, op, Maintainer)
  BY MaintainIsAnEdit, Zenon
<1> HIDE DEF op
<1>3. g # 0 /\ MayWrite(Maintainer, PolicyOf(d[g].source)) /\ ~MustSupersede(d[g].source)
        => \E v : Writes(op, d, ReplaceSection(d, op, Maintainer), v)
  BY <1>1, MaintainerIsASource, ReplaceWrites, Zenon
<1>4. g = 0 => \E v : Writes(op, d, SupersedeSection(d, op, Maintainer), v)
  BY <1>1, MaintainerIsASource, SupersedeWrites, Zenon
<1> HIDE DEF g
<1> QED
  BY <1>2, <1>3, <1>4, Zenon DEF op

\* Each slot stays or is written once.
StoreStep(d, e) ==
  \A slot : \/ VersionsOf(e, slot) = VersionsOf(d, slot)
           \/ \E v : Wrote(VersionsOf(d, slot), VersionsOf(e, slot), v)

LEMMA WritesAreSteps ==
  ASSUME NEW op, NEW d, NEW e, NEW v, Writes(op, d, e, v)
  PROVE  StoreStep(d, e)
<1> SUFFICES ASSUME NEW slot, VersionsOf(e, slot) # VersionsOf(d, slot)
             PROVE  \E x : Wrote(VersionsOf(d, slot), VersionsOf(e, slot), x)
  BY Zenon DEF StoreStep
<1>1. slot = OpSlot(op)
  BY Zenon DEF Writes
<1> QED
  BY <1>1, Zenon DEF Writes

LEMMA FinishIsAStep ==
  ASSUME NEW d \in Seq(Block), NEW written \in Seq(Block), WellFormed(written),
         NEW op \in SectionOperation, Addressed(op), NEW v, Writes(op, d, written, v),
         NEW kind, NEW s, NEW options, ~MaintenanceThrows(op.section, s, options)
  PROVE  StoreStep(d, FinishSection(d, written, op, kind, s, options))
<1> DEFINE m == IF options.maintainGaps /\ op.section # Gaps
                THEN MaintainGaps(written, s) ELSE written
           r == StampHead(d, m, op, kind)
           own == OpSlot(op)
<1>1. /\ m \in Seq(Block) /\ WellFormed(m)
      /\ VersionsOf(m, own) = VersionsOf(written, own)
      /\ StoreStep(d, m)
  <2>1. CASE m = written
    BY <2>1, WritesAreSteps, Zenon
  <2>2. CASE m # written
    <3> DEFINE other == GapsOperation(written, s)
    <3>1. op.section # Gaps /\ m = MaintainGaps(written, s) /\ s \in Stages
      BY <2>2, Zenon DEF MaintenanceThrows
    <3>2. m \in Seq(Block) /\ WellFormed(m)
      BY <3>1, MaintainTyped, MaintainKeepsOrder, Zenon
    <3>3. PICK w : Writes(other, written, m, w)
      BY <2>2, <3>1, MaintainWrites, Zenon
    <3>4. own # OpSlot(other)
      <4>1. own[1] = op.section /\ OpSlot(other)[1] = other.section
        BY DEF OpSlot
      <4>2. other.section = Gaps
        BY Zenon DEF GapsOperation
      <4> QED
        BY <3>1, <4>1, <4>2, Zenon
    <3> HIDE DEF m, other, own
    <3>5. VersionsOf(m, own) = VersionsOf(written, own)
      BY <3>3, <3>4, Zenon DEF Writes
    <3>6. VersionsOf(written, OpSlot(other)) = VersionsOf(d, OpSlot(other))
      BY <3>4, Zenon DEF Writes, own
    <3>7. \A slot : slot # own /\ slot # OpSlot(other) => VersionsOf(m, slot) = VersionsOf(d, slot)
      BY <3>3, Zenon DEF Writes, own
    <3>8. Wrote(VersionsOf(d, own), VersionsOf(m, own), v)
      BY <3>5, Zenon DEF Writes, own
    <3>9. Wrote(VersionsOf(d, OpSlot(other)), VersionsOf(m, OpSlot(other)), w)
      BY <3>3, <3>6, Zenon DEF Writes
    <3>10. StoreStep(d, m)
      BY <3>7, <3>8, <3>9, Zenon DEF StoreStep
    <3> QED
      BY <3>2, <3>5, <3>10, Zenon
  <2> QED
    BY <2>1, <2>2
<1>2. Wrote(VersionsOf(d, own), VersionsOf(m, own), v)
  BY <1>1, Zenon DEF Writes
<1> HIDE DEF m
<1>3. /\ \E w : Wrote(VersionsOf(d, own), VersionsOf(r, own), w)
      /\ \A slot : slot # own => VersionsOf(r, slot) = VersionsOf(m, slot)
  BY <1>1, <1>2, StampWrites
<1> HIDE DEF r, own
<1>4. StoreStep(d, r)
  BY <1>1, <1>3, Zenon DEF StoreStep
<1> QED
  BY <1>1, <1>4, Zenon DEF FinishSection, m, r

\* Documents with the same blocks of a slot have the same versions of it.
LEMMA SameInSlot ==
  ASSUME NEW d, NEW e, DOMAIN e = DOMAIN d, NEW slot,
         \A i \in DOMAIN d : SlotOf(d[i]) = slot \/ SlotOf(e[i]) = slot => e[i] = d[i]
  PROVE  VersionsOf(e, slot) = VersionsOf(d, slot)
<1>1. ASSUME NEW x \in VersionsOf(e, slot) PROVE x \in VersionsOf(d, slot)
  <2>1. PICK i \in DOMAIN d : SlotOf(e[i]) = slot /\ x = Version(e[i])
    BY Zenon DEF VersionsOf
  <2> QED
    BY <2>1, VersionsByIndex, Zenon
<1>2. ASSUME NEW x \in VersionsOf(d, slot) PROVE x \in VersionsOf(e, slot)
  <2>1. PICK i \in DOMAIN d : SlotOf(d[i]) = slot /\ x = Version(d[i])
    BY Zenon DEF VersionsOf
  <2> QED
    BY <2>1, VersionsByIndex, Zenon
<1> QED
  BY <1>1, <1>2, Zenon

\* The operations on no section leave the versions to maintenance.
LEMMA FinishOtherIsAStep ==
  ASSUME NEW d \in Seq(Block), NEW written \in Seq(Block), WellFormed(written), DOMAIN written = DOMAIN d,
         \A i \in DOMAIN d : written[i] = d[i] \/ (d[i].section \notin Standard /\ written[i].section \notin Standard),
         NEW s, NEW options, ~MaintenanceThrows(PipelineLog, s, options),
         NEW slot, slot[1] \in Standard
  PROVE  LET e == FinishOther(written, s, options)
         IN \/ VersionsOf(e, slot) = VersionsOf(d, slot)
            \/ \E v : Wrote(VersionsOf(d, slot), VersionsOf(e, slot), v)
<1> DEFINE e == FinishOther(written, s, options)
           m == MaintainGaps(written, s)
<1>1. VersionsOf(written, slot) = VersionsOf(d, slot)
  <2>1. \A b : SlotOf(b) = slot => b.section \in Standard
    <3> SUFFICES ASSUME NEW b, SlotOf(b) = slot PROVE b.section \in Standard
      OBVIOUS
    <3>1. SlotOf(b)[1] = b.section
      BY DEF SlotOf
    <3> QED
      BY <3>1, Zenon
  <2>2. \A i \in DOMAIN d : SlotOf(d[i]) = slot \/ SlotOf(written[i]) = slot => written[i] = d[i]
    BY <2>1, Zenon
  <2> QED
    BY <2>2, SameInSlot, Zenon
<1>2. Gaps # PipelineLog
  BY GapsIsSingle, KindsAreDisjoint, Zenon
<1>3. s \in Stages => StoreStep(written, m)
  <2>1. StoreStep(written, written)
    BY Zenon DEF StoreStep
  <2> QED
    BY <2>1, MaintainWrites, WritesAreSteps, Zenon
<1> HIDE DEF m
<1>4. e = written \/ (s \in Stages /\ e = m)
  BY <1>2, Zenon DEF FinishOther, MaintenanceThrows, m
<1> HIDE DEF e
<1> QED
  BY <1>1, <1>3, <1>4, Zenon DEF StoreStep, e

\* Each slot of a section stays or is written once.
SectionStep(d, e) ==
  \A slot : slot[1] \in Standard =>
    \/ VersionsOf(e, slot) = VersionsOf(d, slot)
    \/ \E v : Wrote(VersionsOf(d, slot), VersionsOf(e, slot), v)

LEMMA AppendTouchesOnlyLogs ==
  ASSUME NEW d \in Seq(Block), NEW entry \in Entries, LogBlocks(d) # {}
  PROVE  LET r == AppendLogEntry(d, entry)
         IN \A i \in DOMAIN d :
              r[i] = d[i] \/ (d[i].section \notin Standard /\ r[i].section \notin Standard)
<1> DEFINE r == AppendLogEntry(d, entry)
<1>1. \A i \in 1..Len(d) : SameButEntry(r[i], d[i]) /\ (d[i].section # PipelineLog => r[i] = d[i])
  BY AppendFacts
<1> HIDE DEF r
<1>2. DOMAIN d = 1..Len(d)
  BY DomainOfSeq, Zenon
<1>3. PipelineLog \notin Standard
  BY KindsAreDisjoint, Zenon DEF Standard
<1>4. \A i \in DOMAIN d :
        r[i] = d[i] \/ (d[i].section \notin Standard /\ r[i].section \notin Standard)
  BY <1>1, <1>2, <1>3, Zenon DEF SameButEntry
<1> QED
  BY <1>4, Zenon DEF r

\* A step of an editor writes each slot at most once.
LEMMA StepsWrite ==
  ASSUME AddressedByKey, Next, TypeOK, WellFormed(doc)
  PROVE  SectionStep(doc, doc')
<1>0. doc \in Seq(Block) /\ stage \in StageValues
  BY Zenon DEF TypeOK
<1>1. SectionStep(doc, doc)
  BY Zenon DEF SectionStep
<1>2. ASSUME NEW op \in Operations, NEW ctx \in Contexts, NEW options, MayReplace(op, ctx),
             ~MaintenanceThrows(op.section, stage, options)
      PROVE  SectionStep(doc, FinishSection(doc, ReplaceSection(doc, op, ctx.source), op,
                                            "section_replace", stage, options))
  <2> DEFINE w == ReplaceSection(doc, op, ctx.source)
             h == Lookup(doc, op.section, op.variant)
  <2>1. op \in SectionOperation /\ ctx.source \in Sources /\ Addressed(op)
    BY <1>0, CallsAreTyped, CallsAreAddressed, Zenon
  <2>2. /\ h # 0 /\ MayWrite(ctx.source, PolicyOf(doc[h].source))
        /\ ~MustSupersede(doc[h].source)
    BY <1>2, Zenon DEF MayReplace
  <2>3. w \in Seq(Block)
    BY <1>0, <2>1, <2>2, ReplaceFacts
  <2>4. WellFormed(w)
    BY <1>0, <2>1, <2>2, ReplaceKeepsOrder, Zenon
  <2>5. PICK v : Writes(op, doc, w, v)
    BY <1>0, <2>1, <2>2, ReplaceWrites, Zenon
  <2> HIDE DEF w, h
  <2>6. StoreStep(doc, FinishSection(doc, w, op, "section_replace", stage, options))
    BY <1>0, <1>2, <2>1, <2>3, <2>4, <2>5, FinishIsAStep
  <2> QED
    BY <2>6, Zenon DEF w, StoreStep, SectionStep
<1>3. ASSUME NEW op \in Operations, NEW ctx \in Contexts, NEW options, MaySupersede(op, ctx),
             ~MaintenanceThrows(op.section, stage, options)
      PROVE  SectionStep(doc, FinishSection(doc, SupersedeSection(doc, op, ctx.source), op,
                                            "section_supersede", stage, options))
  <2> DEFINE w == SupersedeSection(doc, op, ctx.source)
             h == Lookup(doc, op.section, op.variant)
  <2>1. op \in SectionOperation /\ ctx.source \in Sources /\ Addressed(op)
    BY <1>0, CallsAreTyped, CallsAreAddressed, Zenon
  <2>2. h # 0 => MayWrite(ctx.source, PolicyOf(doc[h].source))
    BY <1>3, Zenon DEF MaySupersede
  <2>3. w \in Seq(Block)
    BY <1>0, <2>1, SupersedeFacts
  <2>4. WellFormed(w)
    BY <1>0, <2>1, SupersedeKeepsOrder, Zenon
  <2>5. PICK v : Writes(op, doc, w, v)
    BY <1>0, <2>1, <2>2, SupersedeWrites, Zenon
  <2> HIDE DEF w, h
  <2>6. StoreStep(doc, FinishSection(doc, w, op, "section_supersede", stage, options))
    BY <1>0, <1>3, <2>1, <2>3, <2>4, <2>5, FinishIsAStep
  <2> QED
    BY <2>6, Zenon DEF w, StoreStep, SectionStep
<1>4. ASSUME NEW s, NEW options, ~MaintenanceThrows(PipelineLog, s, options)
      PROVE  SectionStep(doc, FinishOther(doc, s, options))
  BY <1>0, <1>4, FinishOtherIsAStep DEF SectionStep
<1>5. ASSUME NEW entry \in Entries, NEW options, LogBlocks(doc) # {},
             ~MaintenanceThrows(PipelineLog, stage, options)
      PROVE  SectionStep(doc, FinishOther(AppendLogEntry(doc, entry), stage, options))
  <2> DEFINE w == AppendLogEntry(doc, entry)
  <2>1. w \in Seq(Block) /\ DOMAIN w = DOMAIN doc
    BY <1>0, <1>5, AppendLeavesSections
  <2>2. \A i \in DOMAIN doc :
          w[i] = doc[i] \/ (doc[i].section \notin Standard /\ w[i].section \notin Standard)
    BY <1>0, <1>5, AppendTouchesOnlyLogs
  <2>3. WellFormed(w)
    BY <1>0, <1>5, AppendKeepsOrder, Zenon
  <2> HIDE DEF w
  <2>4. ASSUME NEW slot, slot[1] \in Standard
        PROVE  LET e == FinishOther(w, stage, options)
               IN \/ VersionsOf(e, slot) = VersionsOf(doc, slot)
                  \/ \E v : Wrote(VersionsOf(doc, slot), VersionsOf(e, slot), v)
    BY <1>0, <1>5, <2>1, <2>2, <2>3, <2>4, FinishOtherIsAStep
  <2> QED
    BY <2>4, Zenon DEF w, SectionStep
<1>6. QED
  BY <1>0, <1>1, <1>2, <1>3, <1>4, <1>5, StepsAreEdits, Zenon

LEMMA SlotsAreOfSections ==
  ASSUME NEW slot \in StoreSlots PROVE slot[1] \in Standard
BY DEF StoreSlots, Standard

\* No section has two versions of one revision.
LEMMA RevisionsTellApart ==
  ASSUME NEW d \in Seq(Block), WellFormed(d), NEW slot, slot[1] \in Standard,
         NEW x \in VersionsOf(d, slot), NEW y \in VersionsOf(d, slot), x.revision = y.revision
  PROVE  x = y
<1>1. PICK i \in DOMAIN d : SlotOf(d[i]) = slot /\ x = Version(d[i])
  BY Zenon DEF VersionsOf
<1>2. PICK j \in DOMAIN d : SlotOf(d[j]) = slot /\ y = Version(d[j])
  BY Zenon DEF VersionsOf
<1>3. /\ d[i].section \in Standard /\ d[j].section \in Standard
      /\ SameSlot(d[i], d[j]) /\ SameSlot(d[j], d[i])
  BY <1>1, <1>2 DEF SlotOf, SameSlot
<1>4. d[i].revision = d[j].revision
  BY <1>1, <1>2, VersionFields, Zenon
<1>5. /\ i < j => d[i].revision < d[j].revision
      /\ j < i => d[j].revision < d[i].revision
  BY <1>3, Zenon DEF WellFormed, HistoryIsOrdered
<1>6. i \in Nat /\ j \in Nat /\ d[i].revision \in Nat /\ d[j].revision \in Nat
  <2>1. DOMAIN d = 1..Len(d) /\ d[i].revision \in Nat /\ d[j].revision \in Nat
    BY DomainOfSeq, RevisionsAreNumbers, Zenon
  <2> QED
    BY <2>1
<1>7. i = j
  BY <1>4, <1>5, <1>6
<1> QED
  BY <1>1, <1>2, <1>7, Zenon

\* Protocol V.2-V.4 as a whole: the editor implements the store of histories,
\* whatever the documents, the operations and the policies.
THEOREM StoreIsImplemented ==
  ASSUME AddressedByKey, WellFormedStart PROVE Spec => ImplementsStore
<1> DEFINE history == [s \in StoreSlots |-> VersionsOf(doc, s)]
<1>1. TypeOK /\ DocumentIsWellFormed => Store!Init
  <2> SUFFICES ASSUME TypeOK, DocumentIsWellFormed, NEW slot \in StoreSlots,
                      NEW x \in VersionsOf(doc, slot), NEW y \in VersionsOf(doc, slot),
                      x.revision = y.revision
               PROVE  x = y
    BY Zenon DEF Store!Init
  <2> QED
    BY SlotsAreOfSections, RevisionsTellApart, Zenon DEF TypeOK, DocumentIsWellFormed
<1>2. TypeOK /\ DocumentIsWellFormed /\ [Next]_vars => [Store!Write]_history
  <2> SUFFICES ASSUME TypeOK, DocumentIsWellFormed, Next PROVE Store!Write
    <3>1. UNCHANGED vars => UNCHANGED history
      BY DEF vars, VersionsOf
    <3> QED
      BY <3>1
  <2>1. SectionStep(doc, doc')
    BY StepsWrite, Zenon DEF DocumentIsWellFormed
  <2>2. ASSUME NEW slot \in StoreSlots
        PROVE  \/ VersionsOf(doc', slot) = VersionsOf(doc, slot)
               \/ Store!Superseded(VersionsOf(doc, slot), VersionsOf(doc', slot))
               \/ Store!Replaced(VersionsOf(doc, slot), VersionsOf(doc', slot))
    BY <2>1, SlotsAreOfSections, WritingIsAllowed, Zenon DEF SectionStep
  <2>3. \A slot \in StoreSlots : history[slot] = VersionsOf(doc, slot) /\ history'[slot] = VersionsOf(doc', slot)
    OBVIOUS
  <2> QED
    BY <2>2, <2>3, Zenon DEF Store!Write
<1>3. QED
  BY <1>1, <1>2, TypeCorrect, DocumentsStayWellFormed, PTL DEF Spec, ImplementsStore, Store!Spec

-----------------------------------------------------------------------------
(* The gaps section lists what nobody has written.                         *)

\* Every edit runs with maintenance on.
AlwaysMaintained == \A options \in Options : options.maintainGaps

\* The maintainer may update a gaps section, or its policy wants it superseded.
MaintainerMayUpdate ==
  \A source \in Sources : MayWrite(Maintainer, PolicyOf(source)) \/ MustSupersede(source)

Missing(d, s) == {x \in Required[s] : HeadsOf(d, x) = {}}
GapsSlot == <<Gaps, DefaultVariant>>

\* The latest version of the gaps section lists the missing sections, or may not
\* be updated.
Lists(v, d, s) == Missing(d, s) \subseteq v.body \/ MustSupersede(v.source)
IsListed(d, s) ==
  \E v \in VersionsOf(d, GapsSlot) : Store!IsLatest(v, VersionsOf(d, GapsSlot)) /\ Lists(v, d, s)

LEMMA GapsSlotFacts ==
  ASSUME NEW d \in Seq(Block), NEW s \in Stages
  PROVE  LET op == GapsOperation(d, s)
         IN /\ op \in SectionOperation /\ Addressed(op)
            /\ op.section = Gaps /\ op.variant = NoVariant /\ op.body = OpenGaps(d, s)
            /\ OpSlot(op) = GapsSlot /\ GapsSlot[1] = Gaps /\ Gaps \in Standard
<1> DEFINE op == GapsOperation(d, s)
<1>1. op \in SectionOperation /\ Addressed(op)
  BY GapsOperationAddressed, Zenon
<1>2. op.section = Gaps /\ op.variant = NoVariant /\ op.body = OpenGaps(d, s)
  BY Zenon DEF GapsOperation
<1>3. GapsSlot[1] = Gaps /\ Gaps \in Standard
  BY GapsIsSingle DEF GapsSlot, Standard
<1> HIDE DEF op
<1>4. OpSlot(op) = GapsSlot
  BY <1>2, Zenon DEF OpSlot, GapsSlot
<1> QED
  BY <1>1, <1>2, <1>3, <1>4, Zenon DEF op

LEMMA HeadsAreLive ==
  ASSUME NEW d \in Seq(Block), WellFormed(d), NEW x \in Standard
  PROVE  HeadsOf(d, x) = {} <=> \A i \in Live(d) : d[i].section # x
<1>1. ASSUME NEW i \in Live(d), d[i].section = x PROVE i \in HeadsOf(d, x)
  <2>1. i \in DOMAIN d
    BY Zenon DEF Live
  <2> QED
    BY <1>1, <2>1, CanonicalIsLive, Zenon DEF HeadsOf
<1>2. ASSUME NEW i \in HeadsOf(d, x) PROVE i \in Live(d) /\ d[i].section = x
  BY Zenon DEF HeadsOf, Canonical
<1> QED
  BY <1>1, <1>2, Zenon

\* Where every live section stays live nothing goes missing.
LEMMA MissingShrinks ==
  ASSUME NEW d \in Seq(Block), WellFormed(d), NEW e \in Seq(Block), WellFormed(e), NEW s \in Stages,
         \A i \in Live(d) : d[i].section \in Standard =>
           \E j \in Live(e) : e[j].section = d[i].section
  PROVE  Missing(e, s) \subseteq Missing(d, s)
<1> SUFFICES ASSUME NEW x \in Missing(e, s), x \notin Missing(d, s) PROVE FALSE
  OBVIOUS
<1>1. x \in Required[s] /\ HeadsOf(e, x) = {} /\ HeadsOf(d, x) # {}
  BY Zenon DEF Missing
<1>2. x \in Standard
  BY <1>1, RequiredIsByStage, SMT
<1>3. PICK i \in Live(d) : d[i].section = x
  BY <1>1, <1>2, HeadsAreLive, Zenon
<1>4. PICK j \in Live(e) : e[j].section = x
  BY <1>2, <1>3, Zenon
<1> QED
  BY <1>1, <1>2, <1>4, HeadsAreLive, Zenon

LEMMA SuccessionKeepsSections ==
  ASSUME NEW op, NEW d, NEW e, Succeeds(op, d, e), NEW i \in Live(d), d[i].section \in Standard
  PROVE  \E j \in Live(e) : e[j].section = d[i].section
<1>1. PICK j \in Live(e) : IF InSlot(op, d[i]) THEN Follows(e[j], d[i]) ELSE e[j] = d[i]
  BY Zenon DEF Succeeds
<1>2. e[j].section = d[i].section
  BY <1>1, Zenon DEF Follows, SameSlot
<1> QED
  BY <1>2, Zenon

\* What an edit writes is the latest version of its slot.
LEMMA WrittenIsLatest ==
  ASSUME NEW d \in Seq(Block), NEW e \in Seq(Block), NEW op, NEW v, Writes(op, d, e, v)
  PROVE  /\ v \in VersionsOf(e, OpSlot(op))
         /\ Store!IsLatest(v, VersionsOf(e, OpSlot(op)))
<1> DEFINE old == VersionsOf(d, OpSlot(op))
           new == VersionsOf(e, OpSlot(op))
<1>1. Wrote(old, new, v)
  BY Zenon DEF Writes
<1>2. Numbered(old) /\ Numbered(new)
  BY VersionsAreNumbered, Zenon
<1> HIDE DEF old, new
<1>3. /\ v \in new
      /\ \A w \in old : ~(v.revision <= w.revision)
      /\ \A w \in new : w = v \/ w \in old
  BY <1>1, <1>2, WrittenIsAbove, Zenon
<1>4. ASSUME NEW w \in new PROVE w.revision <= v.revision
  <2>1. w.revision \in Nat /\ v.revision \in Nat
    BY <1>2, <1>3, Zenon DEF Numbered
  <2>2. w = v \/ ~(v.revision <= w.revision)
    BY <1>3, Zenon
  <2> QED
    BY <2>1, <2>2
<1> QED
  BY <1>3, <1>4, Zenon DEF Store!IsLatest, new

\* The block a lookup of the gaps section finds holds its latest version.
LEMMA ListedIsFound ==
  ASSUME NEW d \in Seq(Block), WellFormed(d), NEW s \in Stages, IsListed(d, s)
  PROVE  LET g == Lookup(d, Gaps, NoVariant)
         IN g # 0 /\ (Missing(d, s) \subseteq d[g].body \/ MustSupersede(d[g].source))
<1> DEFINE op == GapsOperation(d, s)
           g  == Lookup(d, op.section, op.variant)
           vs == VersionsOf(d, GapsSlot)
<1>1. /\ Addressed(op) /\ OpSlot(op) = GapsSlot /\ op.section = Gaps /\ op.variant = NoVariant
      /\ GapsSlot[1] \in Standard
  BY GapsSlotFacts, Zenon
<1>2. PICK v \in vs : Store!IsLatest(v, vs) /\ Lists(v, d, s)
  BY Zenon DEF IsListed
<1> HIDE DEF op
<1>3. /\ g = 0 => vs = {}
      /\ g # 0 => Store!IsLatest(Version(d[g]), vs)
  BY <1>1, HeadIsLatest, Zenon
<1>4. g # 0 /\ Version(d[g]) \in vs
  BY <1>2, <1>3, Zenon DEF Store!IsLatest
<1>5. v.revision = Version(d[g]).revision
  <2>1. v.revision <= Version(d[g]).revision /\ Version(d[g]).revision <= v.revision
    BY <1>2, <1>3, <1>4, Zenon DEF Store!IsLatest
  <2>2. v.revision \in Nat /\ Version(d[g]).revision \in Nat
    BY <1>4, VersionsAreNumbered, Zenon DEF Numbered
  <2> QED
    BY <2>1, <2>2
<1>6. v = Version(d[g])
  BY <1>1, <1>4, <1>5, RevisionsTellApart
<1>7. v.body = d[g].body /\ v.source = d[g].source
  BY <1>6, VersionFields, Zenon
<1> HIDE DEF g
<1>8. g # 0 /\ (Missing(d, s) \subseteq d[g].body \/ MustSupersede(d[g].source))
  BY <1>2, <1>4, <1>7, Zenon DEF Lists
<1> QED
  BY <1>1, <1>8, Zenon DEF g

\* Maintenance leaves a gaps section that lists what is missing.
LEMMA MaintainLists ==
  ASSUME MaintainerMayUpdate, NEW d \in Seq(Block), WellFormed(d), NEW s \in Stages
  PROVE  IsListed(MaintainGaps(d, s), s)
<1> DEFINE op  == GapsOperation(d, s)
           ctx == [source |-> Maintainer, parentHash |-> Null]
           g   == Lookup(d, op.section, op.variant)
           m   == MaintainGaps(d, s)
<1>1. /\ op \in SectionOperation /\ Addressed(op) /\ OpSlot(op) = GapsSlot
      /\ op.section = Gaps /\ op.variant = NoVariant /\ op.body = OpenGaps(d, s)
  BY GapsSlotFacts, Zenon
<1>2. m \in Seq(Block) /\ WellFormed(m)
  BY MaintainTyped, MaintainKeepsOrder, Zenon
<1>3. ASSUME NEW v, Writes(op, d, m, v), Missing(m, s) \subseteq Missing(d, s) PROVE IsListed(m, s)
  <2>1. v \in VersionsOf(m, GapsSlot) /\ Store!IsLatest(v, VersionsOf(m, GapsSlot))
    BY <1>1, <1>2, <1>3, WrittenIsLatest, Zenon
  <2>2. v.body = OpenGaps(d, s)
    BY <1>1, <1>3, Zenon DEF Writes
  <2>3. Missing(d, s) \subseteq OpenGaps(d, s)
    BY Zenon DEF OpenGaps, Missing
  <2> QED
    BY <1>3, <2>1, <2>2, <2>3, Zenon DEF IsListed, Lists
<1>4. ASSUME NEW v, Writes(op, d, m, v), Succeeds(op, d, m) PROVE IsListed(m, s)
  <2> HIDE DEF m, op
  <2>1. \A i \in Live(d) : d[i].section \in Standard =>
          \E j \in Live(m) : m[j].section = d[i].section
    <3> SUFFICES ASSUME NEW i \in Live(d), d[i].section \in Standard
                 PROVE  \E j \in Live(m) : m[j].section = d[i].section
      OBVIOUS
    <3> QED
      BY <1>4, SuccessionKeepsSections
  <2>2. Missing(m, s) \subseteq Missing(d, s)
    BY <1>2, <2>1, MissingShrinks
  <2> QED
    BY <1>3, <1>4, <2>2
<1>5. m = IF g = 0 THEN SupersedeSection(d, op, Maintainer)
          ELSE IF ReplaceRefusal(d, op, ctx) = "ok" THEN ReplaceSection(d, op, Maintainer)
          ELSE d
  BY <1>1, Zenon DEF MaintainGaps
<1>6. op.wellFormed = TRUE /\ ctx.source = Maintainer /\ ctx.parentHash = Null
  BY Zenon DEF GapsOperation
<1>7. ReplaceRefusal(d, op, ctx) = "ok" =>
        /\ MayWrite(Maintainer, PolicyOf(d[g].source)) /\ ~MustSupersede(d[g].source)
  BY <1>6, SMT DEF ReplaceRefusal
<1>8. ASSUME g # 0, ReplaceRefusal(d, op, ctx) # "ok" PROVE MustSupersede(d[g].source)
  <2>1. d[g].source \in Sources
    <3>1. g \in DOMAIN d
      BY <1>8, LookupFacts, Zenon
    <3> QED
      BY <3>1, BlocksAreRecords, Zenon DEF BlockFields
  <2> HIDE DEF op, ctx
  <2>2. ~StaleParent(d, op, ctx)
    BY <1>6, Zenon DEF StaleParent
  <2>3. ~MayWrite(Maintainer, PolicyOf(d[g].source)) \/ MustSupersede(d[g].source)
    BY <1>6, <1>8, <2>2, SMT DEF ReplaceRefusal
  <2> QED
    BY <2>1, <2>3, Zenon DEF MaintainerMayUpdate
<1> HIDE DEF op, ctx, m
<1>9. CASE g = 0
  <2>1. m = SupersedeSection(d, op, Maintainer)
    BY <1>5, <1>9, Zenon
  <2>2. Succeeds(op, d, m)
    BY <1>1, <1>9, <2>1, MaintainerIsASource, SupersedeSucceeds, Zenon
  <2>3. PICK v : Writes(op, d, m, v)
    BY <1>1, <1>9, <2>1, MaintainerIsASource, SupersedeWrites, Zenon
  <2>4. IsListed(m, s)
    BY <1>4, <2>2, <2>3
  <2> QED
    BY <2>4, Zenon DEF m
<1>10. CASE g # 0 /\ ReplaceRefusal(d, op, ctx) = "ok"
  <2>1. m = ReplaceSection(d, op, Maintainer)
    BY <1>5, <1>10, Zenon
  <2>2. Succeeds(op, d, m)
    BY <1>1, <1>7, <1>10, <2>1, MaintainerIsASource, ReplaceSucceeds, Zenon
  <2>3. PICK v : Writes(op, d, m, v)
    BY <1>1, <1>7, <1>10, <2>1, MaintainerIsASource, ReplaceWrites, Zenon
  <2>4. IsListed(m, s)
    BY <1>4, <2>2, <2>3
  <2> QED
    BY <2>4, Zenon DEF m
<1>11. CASE g # 0 /\ ReplaceRefusal(d, op, ctx) # "ok"
  <2>1. m = d /\ MustSupersede(d[g].source)
    BY <1>5, <1>8, <1>11, Zenon
  <2>2. Store!IsLatest(Version(d[g]), VersionsOf(d, GapsSlot))
    BY <1>1, <1>11, HeadIsLatest, Zenon
  <2>3. Version(d[g]) \in VersionsOf(d, GapsSlot) /\ Version(d[g]).source = d[g].source
    BY <2>2, VersionFields, Zenon DEF Store!IsLatest
  <2>4. IsListed(m, s)
    BY <2>1, <2>2, <2>3, Zenon DEF IsListed, Lists
  <2> QED
    BY <2>4, Zenon DEF m
<1> QED
  BY <1>9, <1>10, <1>11

\* Stamping a section other than the gaps leaves the list and what is missing.
LEMMA StampLists ==
  ASSUME NEW before \in Seq(Block), NEW after \in Seq(Block), WellFormed(after),
         NEW op \in SectionOperation, op.section # Gaps, NEW kind, NEW s \in Stages,
         IsListed(after, s)
  PROVE  IsListed(StampHead(before, after, op, kind), s)
<1> DEFINE r == StampHead(before, after, op, kind)
           h == Lookup(after, op.section, op.variant)
<1>1. /\ r \in Seq(Block) /\ Len(r) = Len(after)
      /\ \A i \in 1..Len(after) : SameButStamp(r[i], after[i]) /\ (i # h => r[i] = after[i])
  BY StampFacts
<1>2. DOMAIN r = 1..Len(after) /\ DOMAIN after = 1..Len(after)
  BY <1>1, DomainOfSeq, Zenon
<1>3. WellFormed(r)
  BY StampKeepsOrder, Zenon
<1>4. h # 0 => after[h].section = op.section
  BY LookupFacts
<1> HIDE DEF r, h
<1>5. VersionsOf(r, GapsSlot) = VersionsOf(after, GapsSlot)
  <2>1. \A b : SlotOf(b) = GapsSlot => b.section = Gaps
    BY DEF SlotOf, GapsSlot
  <2>2. \A i \in DOMAIN after :
          SlotOf(after[i]) = GapsSlot \/ SlotOf(r[i]) = GapsSlot => r[i] = after[i]
    <3> SUFFICES ASSUME NEW i \in DOMAIN after, SlotOf(after[i]) = GapsSlot \/ SlotOf(r[i]) = GapsSlot
                 PROVE  r[i] = after[i]
      OBVIOUS
    <3>1. after[i].section = Gaps
      BY <1>1, <1>2, <2>1, Zenon DEF SameButStamp
    <3>2. i # h
      BY <1>2, <1>4, <3>1, ZeroIsNoIndex, Zenon
    <3> QED
      BY <1>1, <1>2, <3>2, Zenon
  <2> QED
    BY <1>2, <2>2, SameInSlot
<1>6. Missing(r, s) \subseteq Missing(after, s)
  <2>1. \A i \in Live(after) : i \in Live(r) /\ r[i].section = after[i].section
    BY <1>1, <1>2, Zenon DEF Live, SameButStamp
  <2> QED
    BY <1>1, <1>3, <2>1, MissingShrinks
<1>7. PICK v \in VersionsOf(after, GapsSlot) :
        Store!IsLatest(v, VersionsOf(after, GapsSlot)) /\ Lists(v, after, s)
  BY Zenon DEF IsListed
<1>8. Lists(v, r, s)
  BY <1>6, <1>7, Zenon DEF Lists
<1>9. IsListed(r, s)
  BY <1>5, <1>7, <1>8, Zenon DEF IsListed
<1> QED
  BY <1>9, Zenon DEF r

\* Documents that differ in gaps blocks only.
LEMMA SameOthers ==
  ASSUME NEW d, NEW e, DOMAIN e = DOMAIN d,
         \A i \in DOMAIN d : e[i] = d[i] \/ (d[i].section = Gaps /\ e[i].section = Gaps)
  PROVE  Others(e) = Others(d)
<1>1. ASSUME NEW b \in Others(e) PROVE b \in Others(d)
  <2>1. PICK i \in DOMAIN e : e[i].section # Gaps /\ b = e[i]
    BY Zenon DEF Others
  <2> QED
    BY <2>1, Zenon DEF Others
<1>2. ASSUME NEW b \in Others(d) PROVE b \in Others(e)
  <2>1. PICK i \in DOMAIN d : d[i].section # Gaps /\ b = d[i]
    BY Zenon DEF Others
  <2> QED
    BY <2>1, Zenon DEF Others
<1> QED
  BY <1>1, <1>2, Zenon

LEMMA StampLeavesOthers ==
  ASSUME NEW before \in Seq(Block), NEW after \in Seq(Block),
         NEW op \in SectionOperation, op.section = Gaps, NEW kind
  PROVE  Others(StampHead(before, after, op, kind)) = Others(after)
<1> DEFINE r == StampHead(before, after, op, kind)
           h == Lookup(after, op.section, op.variant)
<1>1. /\ r \in Seq(Block) /\ Len(r) = Len(after)
      /\ \A i \in 1..Len(after) : SameButStamp(r[i], after[i]) /\ (i # h => r[i] = after[i])
  BY StampFacts
<1>2. DOMAIN r = 1..Len(after) /\ DOMAIN after = 1..Len(after)
  BY <1>1, DomainOfSeq, Zenon
<1>3. h # 0 => after[h].section = Gaps
  BY LookupFacts
<1> HIDE DEF r, h
<1>4. \A i \in DOMAIN after : r[i] = after[i] \/ (after[i].section = Gaps /\ r[i].section = Gaps)
  BY <1>1, <1>2, <1>3, ZeroIsNoIndex, Zenon DEF SameButStamp
<1>5. Others(r) = Others(after)
  BY <1>2, <1>4, SameOthers
<1> QED
  BY <1>5, Zenon DEF r

LEMMA ReplaceLeavesOthers ==
  ASSUME NEW d \in Seq(Block), NEW op \in SectionOperation, op.section = Gaps, NEW source \in Sources,
         Lookup(d, op.section, op.variant) # 0
  PROVE  Others(ReplaceSection(d, op, source)) = Others(d)
<1> DEFINE h == Lookup(d, op.section, op.variant)
           b == NewBlock(d, h, op, source)
           e == ReplaceSection(d, op, source)
<1>1. /\ e \in Seq(Block) /\ Len(e) = Len(d) /\ h \in 1..Len(d)
      /\ \A i \in 1..Len(d) : e[i] = IF i = h THEN b ELSE d[i]
  BY ReplaceFacts
<1>2. DOMAIN d = 1..Len(d) /\ DOMAIN e = 1..Len(d)
  BY <1>1, DomainOfSeq, Zenon
<1>3. d[h].section = Gaps /\ b.section = Gaps
  <2>1. d[h].section = Gaps
    BY LookupFacts
  <2>2. b.section = Gaps
    BY Zenon DEF NewBlock, Written
  <2> QED
    BY <2>1, <2>2
<1> HIDE DEF h, b, e
<1>4. \A i \in DOMAIN d : e[i] = d[i] \/ (d[i].section = Gaps /\ e[i].section = Gaps)
  BY <1>1, <1>2, <1>3, Zenon
<1>5. Others(e) = Others(d)
  BY <1>2, <1>4, SameOthers
<1> QED
  BY <1>5, Zenon DEF e

LEMMA SupersedeLeavesOthers ==
  ASSUME NEW d \in Seq(Block), NEW op \in SectionOperation, op.section = Gaps, NEW source \in Sources
  PROVE  Others(SupersedeSection(d, op, source)) = Others(d)
<1> DEFINE h == Lookup(d, op.section, op.variant)
           m == MarkSuperseded(d, h)
           p == InsertionPoint(d)
           b == NewBlock(d, h, op, source)
           e == SupersedeSection(d, op, source)
<1>1. /\ e \in Seq(Block) /\ Len(e) = Len(d) + 1
      /\ \A i \in 1..(Len(d) + 1) :
           e[i] = IF i < p THEN m[i] ELSE IF i = p THEN b ELSE m[i - 1]
  BY SupersedeFacts
<1>2. /\ DOMAIN d = 1..Len(d) /\ DOMAIN e = 1..Len(e) /\ DOMAIN m = DOMAIN d
      /\ Len(d) \in Nat /\ \A i \in DOMAIN d : SameButMark(m[i], d[i])
  <2>1. DOMAIN m = DOMAIN d /\ \A i \in DOMAIN d : SameButMark(m[i], d[i])
    BY MarkFacts
  <2> HIDE DEF m, e
  <2>2. DOMAIN d = 1..Len(d) /\ DOMAIN e = 1..Len(e) /\ Len(d) \in Nat
    BY <1>1, DomainOfSeq, Zenon
  <2> QED
    BY <2>1, <2>2
<1>3. p \in 1..(Len(d) + 1)
  BY InsertionFacts
<1>4. b.section = Gaps
  BY Zenon DEF NewBlock, Written
<1>5. Others(m) = Others(d)
  <2>1. h # 0 => d[h].section = Gaps
    BY LookupFacts
  <2>2. \A i \in DOMAIN d : m[i].section = d[i].section
    BY <1>2, Zenon DEF SameButMark
  <2>3. \A i \in DOMAIN d : i # h => m[i] = d[i]
    BY Zenon DEF MarkSuperseded
  <2>4. \A i \in DOMAIN d : m[i] = d[i] \/ (d[i].section = Gaps /\ m[i].section = Gaps)
    BY <1>2, <2>1, <2>2, <2>3, ZeroIsNoIndex, Zenon
  <2> QED
    BY <1>2, <2>4, SameOthers
<1> HIDE DEF h, m, p, b, e
<1>6. ASSUME NEW x \in Others(e) PROVE x \in Others(m)
  <2>1. PICK i \in DOMAIN e : e[i].section # Gaps /\ x = e[i]
    BY Zenon DEF Others
  <2>2. i \in 1..(Len(d) + 1) /\ i # p
    BY <1>1, <1>2, <1>3, <1>4, <2>1
  <2>3. \E k \in DOMAIN m : x = m[k]
    <3>1. CASE i < p
      <4>1. i \in DOMAIN m /\ x = m[i]
        BY <1>1, <1>2, <1>3, <2>1, <2>2, <3>1
      <4> QED
        BY <4>1, Zenon
    <3>2. CASE ~(i < p)
      <4>1. i - 1 \in DOMAIN m /\ x = m[i - 1]
        BY <1>1, <1>2, <1>3, <2>1, <2>2, <3>2
      <4> QED
        BY <4>1, Zenon
    <3> QED
      BY <3>1, <3>2
  <2> QED
    BY <2>1, <2>3, Zenon DEF Others
<1>7. ASSUME NEW x \in Others(m) PROVE x \in Others(e)
  <2>1. PICK k \in DOMAIN m : m[k].section # Gaps /\ x = m[k]
    BY Zenon DEF Others
  <2>2. \E i \in DOMAIN e : x = e[i]
    <3>1. CASE k < p
      <4>1. k \in DOMAIN e /\ x = e[k]
        BY <1>1, <1>2, <1>3, <2>1, <3>1
      <4> QED
        BY <4>1, Zenon
    <3>2. CASE ~(k < p)
      <4>1. k + 1 \in DOMAIN e /\ x = e[k + 1]
        BY <1>1, <1>2, <1>3, <2>1, <3>2
      <4> QED
        BY <4>1, Zenon
    <3> QED
      BY <3>1, <3>2
  <2> QED
    BY <2>1, <2>2, Zenon DEF Others
<1> QED
  BY <1>5, <1>6, <1>7, Zenon DEF e

LEMMA GapsEditsLeaveOthers ==
  ASSUME NEW d \in Seq(Block), NEW written \in Seq(Block), Others(written) = Others(d),
         NEW op \in SectionOperation, op.section = Gaps, NEW kind, NEW s, NEW options
  PROVE  Others(FinishSection(d, written, op, kind, s, options)) = Others(d)
<1>1. Others(StampHead(d, written, op, kind)) = Others(d)
  BY StampLeavesOthers
<1>2. FinishSection(d, written, op, kind, s, options)
        = IF options.integrity THEN StampHead(d, written, op, kind) ELSE written
  BY Zenon DEF FinishSection
<1> QED
  BY <1>1, <1>2, Zenon

LEMMA SectionEditsList ==
  ASSUME MaintainerMayUpdate, NEW d \in Seq(Block), NEW written \in Seq(Block), WellFormed(written),
         NEW op \in SectionOperation, op.section # Gaps, NEW kind, NEW s, NEW options,
         options.maintainGaps, ~MaintenanceThrows(op.section, s, options)
  PROVE  s \in Stages /\ IsListed(FinishSection(d, written, op, kind, s, options), s)
<1> DEFINE m == MaintainGaps(written, s)
<1>1. s \in Stages
  BY Zenon DEF MaintenanceThrows
<1>2. m \in Seq(Block) /\ WellFormed(m) /\ IsListed(m, s)
  BY <1>1, MaintainTyped, MaintainKeepsOrder, MaintainLists, Zenon
<1>3. FinishSection(d, written, op, kind, s, options)
        = IF options.integrity THEN StampHead(d, m, op, kind) ELSE m
  BY Zenon DEF FinishSection
<1> HIDE DEF m
<1>4. IsListed(StampHead(d, m, op, kind), s)
  BY <1>1, <1>2, StampLists
<1> QED
  BY <1>1, <1>2, <1>3, <1>4, Zenon

LEMMA OtherEditsList ==
  ASSUME MaintainerMayUpdate, NEW written \in Seq(Block), WellFormed(written), NEW s, NEW options,
         options.maintainGaps, ~MaintenanceThrows(PipelineLog, s, options)
  PROVE  s \in Stages /\ IsListed(FinishOther(written, s, options), s)
<1>1. Gaps # PipelineLog
  BY GapsIsSingle, KindsAreDisjoint, Zenon
<1>2. s \in Stages
  BY <1>1, Zenon DEF MaintenanceThrows
<1>3. FinishOther(written, s, options) = MaintainGaps(written, s)
  BY Zenon DEF FinishOther
<1> QED
  BY <1>2, <1>3, MaintainLists, Zenon

\* A call leaves everything outside the gaps as it was, or leaves a list.
Settled(d, e, s, t) ==
  \/ Others(e) = Others(d) /\ t = s
  \/ t \in Stages /\ IsListed(e, t)

LEMMA StepsList ==
  ASSUME AddressedByKey, AlwaysMaintained, MaintainerMayUpdate, Next, TypeOK, WellFormed(doc)
  PROVE  Settled(doc, doc', stage, stage')
<1>0. doc \in Seq(Block) /\ stage \in StageValues
  BY Zenon DEF TypeOK
<1>1. ASSUME NEW op \in SectionOperation, NEW w \in Seq(Block), WellFormed(w),
             op.section = Gaps => Others(w) = Others(doc), NEW kind,
             NEW options \in Options, ~MaintenanceThrows(op.section, stage, options)
      PROVE  Settled(doc, FinishSection(doc, w, op, kind, stage, options), stage, stage)
  <2>1. options.maintainGaps
    BY Zenon DEF AlwaysMaintained
  <2>2. CASE op.section = Gaps
    BY <1>0, <1>1, <2>2, GapsEditsLeaveOthers DEF Settled
  <2>3. CASE op.section # Gaps
    BY <1>0, <1>1, <2>1, <2>3, SectionEditsList DEF Settled
  <2> QED
    BY <2>2, <2>3
<1>2. ASSUME NEW op \in Operations, NEW ctx \in Contexts, NEW options \in Options, MayReplace(op, ctx),
             ~MaintenanceThrows(op.section, stage, options)
      PROVE  Settled(doc, FinishSection(doc, ReplaceSection(doc, op, ctx.source), op,
                                        "section_replace", stage, options), stage, stage)
  <2> DEFINE w == ReplaceSection(doc, op, ctx.source)
  <2>1. op \in SectionOperation /\ ctx.source \in Sources /\ Addressed(op)
    BY <1>0, CallsAreTyped, CallsAreAddressed, Zenon
  <2>2. Lookup(doc, op.section, op.variant) # 0
    BY <1>2, Zenon DEF MayReplace
  <2>3. w \in Seq(Block)
    BY <1>0, <2>1, <2>2, ReplaceFacts
  <2>4. WellFormed(w)
    BY <1>0, <2>1, <2>2, ReplaceKeepsOrder, Zenon
  <2>5. op.section = Gaps => Others(w) = Others(doc)
    BY <1>0, <2>1, <2>2, ReplaceLeavesOthers
  <2> HIDE DEF w
  <2>6. Settled(doc, FinishSection(doc, w, op, "section_replace", stage, options), stage, stage)
    BY <1>1, <1>2, <2>1, <2>3, <2>4, <2>5
  <2> QED
    BY <2>6, Zenon DEF w
<1>3. ASSUME NEW op \in Operations, NEW ctx \in Contexts, NEW options \in Options, MaySupersede(op, ctx),
             ~MaintenanceThrows(op.section, stage, options)
      PROVE  Settled(doc, FinishSection(doc, SupersedeSection(doc, op, ctx.source), op,
                                        "section_supersede", stage, options), stage, stage)
  <2> DEFINE w == SupersedeSection(doc, op, ctx.source)
  <2>1. op \in SectionOperation /\ ctx.source \in Sources /\ Addressed(op)
    BY <1>0, CallsAreTyped, CallsAreAddressed, Zenon
  <2>2. w \in Seq(Block)
    BY <1>0, <2>1, SupersedeFacts
  <2>3. WellFormed(w)
    BY <1>0, <2>1, SupersedeKeepsOrder, Zenon
  <2>4. op.section = Gaps => Others(w) = Others(doc)
    BY <1>0, <2>1, SupersedeLeavesOthers
  <2> HIDE DEF w
  <2>5. Settled(doc, FinishSection(doc, w, op, "section_supersede", stage, options), stage, stage)
    BY <1>1, <1>3, <2>1, <2>2, <2>3, <2>4
  <2> QED
    BY <2>5, Zenon DEF w
<1>4. ASSUME NEW w \in Seq(Block), WellFormed(w), NEW s, NEW options \in Options,
             ~MaintenanceThrows(PipelineLog, s, options)
      PROVE  Settled(doc, FinishOther(w, s, options), stage, s)
  <2>1. options.maintainGaps
    BY Zenon DEF AlwaysMaintained
  <2>2. s \in Stages /\ IsListed(FinishOther(w, s, options), s)
    BY <1>4, <2>1, OtherEditsList
  <2> QED
    BY <2>2, Zenon DEF Settled
<1>5. ASSUME NEW entry \in Entries, NEW options \in Options, LogBlocks(doc) # {},
             ~MaintenanceThrows(PipelineLog, stage, options)
      PROVE  Settled(doc, FinishOther(AppendLogEntry(doc, entry), stage, options), stage, stage)
  <2> DEFINE w == AppendLogEntry(doc, entry)
  <2>1. w \in Seq(Block)
    BY <1>0, <1>5, AppendLeavesSections
  <2>2. WellFormed(w)
    BY <1>0, <1>5, AppendKeepsOrder, Zenon
  <2> HIDE DEF w
  <2>3. Settled(doc, FinishOther(w, stage, options), stage, stage)
    BY <1>4, <1>5, <2>1, <2>2
  <2> QED
    BY <2>3, Zenon DEF w
<1>6. ASSUME NEW s, NEW options \in Options, ~MaintenanceThrows(PipelineLog, s, options)
      PROVE  Settled(doc, FinishOther(doc, s, options), stage, s)
  BY <1>0, <1>4, <1>6
<1>7. Settled(doc, doc, stage, stage)
  BY Zenon DEF Settled
<1> HIDE DEF Settled
<1> QED
  BY <1>0, <1>2, <1>3, <1>5, <1>6, <1>7, StepsAreEdits, Zenon

\* Format 4.22, for every document, policy and stage: an edit outside the gaps
\* section leaves every required section nobody has written listed there, when
\* maintenance is on and the policies let the maintainer update what it may not
\* supersede.
THEOREM GapsStayListed ==
  ASSUME AddressedByKey, WellFormedStart, AlwaysMaintained, MaintainerMayUpdate
  PROVE  Spec => GapsAreListed
<1>1. TypeOK /\ TypeOK' /\ DocumentIsWellFormed /\ DocumentIsWellFormed' /\ [Next]_vars =>
        [Others(doc') # Others(doc) \/ stage' # stage =>
           LET g == Lookup(doc', Gaps, NoVariant)
           IN g # 0 /\ \/ {s \in Required[stage'] : HeadsOf(doc', s) = {}} \subseteq doc'[g].body
                        \/ MustSupersede(doc'[g].source)]_vars
  <2> SUFFICES ASSUME TypeOK, TypeOK', DocumentIsWellFormed, DocumentIsWellFormed', Next,
                      Others(doc') # Others(doc) \/ stage' # stage
               PROVE  LET g == Lookup(doc', Gaps, NoVariant)
                      IN g # 0 /\ (Missing(doc', stage') \subseteq doc'[g].body
                                     \/ MustSupersede(doc'[g].source))
    BY Zenon DEF Missing
  <2>1. doc' \in Seq(Block) /\ WellFormed(doc')
    BY Zenon DEF TypeOK, DocumentIsWellFormed
  <2>2. stage' \in Stages /\ IsListed(doc', stage')
    BY StepsList, Zenon DEF Settled, DocumentIsWellFormed
  <2> QED
    BY <2>1, <2>2, ListedIsFound
<1>2. QED
  BY <1>1, TypeCorrect, DocumentsStayWellFormed, PTL DEF Spec, GapsAreListed

-----------------------------------------------------------------------------
(* A record written by producers verifies.                                 *)

\* The calls of producers: whose source they name, and what they leave alone.
LEMMA ProducersCall ==
  ASSUME ProducersWrite, NEW op \in Operations, NEW ctx \in Contexts
  PROVE  op.section # Gaps /\ IsAllowed(ctx.source) /\ MustSupersede(ctx.source)
<1> DEFINE G(t) == {[section |-> t[1], variant |-> t[2], body |-> b, role |-> r,
                      wellFormed |-> w] :
                       b \in BodiesOf(t[1]), r \in RoleChoices, w \in Admissions}
<1>1. Operations = UNION {G(t) : t \in Targets}
  BY DEF Operations
<1> HIDE DEF G
<1>2. PICK t \in Targets : op \in G(t)
  BY <1>1, Zenon
<1>3. op.section = t[1]
  BY <1>2, SMT DEF G
<1>4. ctx.source \in Writers
  BY Zenon DEF Contexts
<1>5. QED
  BY <1>3, <1>4, Zenon DEF ProducersWrite

LEMMA EditsKeepProduced ==
  ASSUME AddressedByKey, ProducersWrite, Next, TypeOK, Produced(doc)
  PROVE  Produced(doc')
<1>0. doc \in Seq(Block) /\ stage \in StageValues
  BY Zenon DEF TypeOK
<1>1. \A options \in Options : ByProducers(options)
  BY Zenon DEF ProducersWrite, ByProducers
<1>2. ASSUME NEW op \in Operations, NEW ctx \in Contexts, MayReplace(op, ctx) PROVE FALSE
  <2> DEFINE h == Lookup(doc, op.section, op.variant)
  <2>1. Addressed(op) /\ op.section # Gaps
    BY CallsAreAddressed, ProducersCall, Zenon
  <2>2. h # 0 /\ ~MustSupersede(doc[h].source)
    BY <1>2, Zenon DEF MayReplace
  <2>2a. WellFormed(doc)
    BY Zenon DEF Produced
  <2>3. h \in DOMAIN doc /\ InSlot(op, doc[h])
    BY <1>0, <2>1, <2>2, <2>2a, HeadOfSlot, Zenon
  <2> HIDE DEF h
  <2>4. doc[h].section = op.section /\ op.section \in Standard
    BY <2>1, <2>3, Zenon DEF InSlot, Addressed
  <2>5. IsProduced(doc, doc[h])
    BY <2>3, <2>4, Zenon DEF Produced
  <2> QED
    BY <2>1, <2>2, <2>4, <2>5, Zenon DEF IsProduced
<1>3. ASSUME NEW op \in Operations, NEW ctx \in Contexts, NEW options \in Options,
             ~MaintenanceThrows(op.section, stage, options)
      PROVE  Produced(FinishSection(doc, SupersedeSection(doc, op, ctx.source), op,
                                    "section_supersede", stage, options))
  <2>1. op \in SectionOperation /\ ctx.source \in Sources /\ Addressed(op)
    BY <1>0, CallsAreTyped, CallsAreAddressed, Zenon
  <2>2. op.section # Gaps /\ IsAllowed(ctx.source) /\ MustSupersede(ctx.source)
    BY ProducersCall, Zenon
  <2> QED
    BY <1>0, <1>1, <1>3, <2>1, <2>2, SupersessionsProduce, Zenon
<1>4. ASSUME NEW s, NEW options \in Options, NEW d \in Seq(Block), Produced(d),
             ~MaintenanceThrows(PipelineLog, s, options)
      PROVE  Produced(FinishOther(d, s, options))
  BY <1>1, <1>4, OthersProduce, Zenon
<1>5. ASSUME NEW e \in Entries, LogBlocks(doc) # {}
      PROVE  AppendLogEntry(doc, e) \in Seq(Block) /\ Produced(AppendLogEntry(doc, e))
  <2>1. AppendLogEntry(doc, e) \in Seq(Block)
    BY <1>0, <1>5, AppendFacts
  <2>2. Produced(AppendLogEntry(doc, e))
    BY <1>0, <1>5, EntriesProduce, Zenon
  <2> QED
    BY <2>1, <2>2
<1>6. QED
  BY <1>0, <1>2, <1>3, <1>4, <1>5, StepsAreEdits, Zenon

\* The inductive invariant: every block is a producer's, or the maintainer's in
\* the gaps section, and the hashes of a section are all there and linked or
\* all absent.
THEOREM RecordsStayProduced ==
  ASSUME AddressedByKey, ProducersWrite, ProducedStart PROVE Spec => []RecordIsProduced
<1>1. Init => RecordIsProduced
  BY Zenon DEF Init, ProducedStart, RecordIsProduced
<1>2. TypeOK /\ RecordIsProduced /\ [Next]_vars => RecordIsProduced'
  <2> SUFFICES ASSUME TypeOK, RecordIsProduced, [Next]_vars PROVE RecordIsProduced'
    OBVIOUS
  <2>1. CASE UNCHANGED vars
    <3>1. doc' = doc
      BY <2>1, Zenon DEF vars
    <3> QED
      BY <3>1, Zenon DEF RecordIsProduced
  <2>2. CASE Next
    BY <2>2, EditsKeepProduced, Zenon DEF RecordIsProduced
  <2> QED
    BY <2>1, <2>2
<1>3. QED
  BY <1>1, <1>2, TypeCorrect, PTL DEF Spec

\* A record written by producers verifies in full: verifyChain finds every link
\* whole and every hash true, verifyProvenance every block written by a source
\* of the right class and in the place of one that is archived.
THEOREM ProducedRecordsVerify ==
  ASSUME AddressedByKey, ProducersWrite, ProducedStart PROVE Spec => []RecordVerifies
<1>1. TypeOK /\ RecordIsProduced => RecordVerifies
  BY ProducedVerifies, Zenon DEF TypeOK, RecordIsProduced, RecordVerifies
<1>2. QED
  BY <1>1, RecordsStayProduced, TypeCorrect, PTL
=============================================================================
