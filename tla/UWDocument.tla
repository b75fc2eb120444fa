----------------------------- MODULE UWDocument -----------------------------
(***************************************************************************)
(* A `.uwx.md` document as the reader of @uwmd/verify sees it: the physical *)
(* blocks in file order, and the views parseUWFile derives from them (the  *)
(* canonical block of each section or variant, the archive of superseded   *)
(* blocks, the lookups getSection and getSectionVariant).                   *)
(*                                                                         *)
(* parseUWFile routes the blocks one by one (module Parser has that fold); *)
(* here each view is defined by what it selects, and module MCParser has  *)
(* TLC check that both agree.                                              *)
(***************************************************************************)
EXTENDS Integers, Sequences, SequencesExt, FiniteSets

CONSTANTS
  SingleSections,        \* sections with one canonical block
  MultiVariantSections,  \* MULTI_VARIANT_SECTIONS: one per variant
  ExtensionSections,     \* `x_` sections
  CustomSections,        \* custom_calculations, custom_scenarios
  PipelineLog,           \* the section pipeline_log
  Gaps,                  \* the section gaps, one of SingleSections
  Variants,              \* values of a fence's `variant=`
  NoVariant,             \* a fence without `variant=`
  DefaultVariant,        \* the variant 'default', one of Variants
  Sources,               \* values of _meta.provenance.source
  Bodies,                \* payloads of ordinary blocks
  Entries,               \* entries of a pipeline log
  Absent,                \* a member of _meta.integrity that is not there
  Null                   \* parent_hash: null

ASSUME GapsIsSingle == Gaps \in SingleSections
ASSUME KindsAreDisjoint ==
  /\ SingleSections \cap MultiVariantSections = {}
  /\ (SingleSections \cup MultiVariantSections) \cap ExtensionSections = {}
  /\ (SingleSections \cup MultiVariantSections) \cap CustomSections = {}
  /\ ExtensionSections \cap CustomSections = {}
  /\ PipelineLog \notin SingleSections \cup MultiVariantSections
                        \cup ExtensionSections \cup CustomSections
ASSUME VariantsAreNamed == DefaultVariant \in Variants /\ NoVariant \notin Variants

\* Sections that parseUWFile files under result.sections.
Standard == SingleSections \cup MultiVariantSections
AppendOnly == CustomSections \cup {PipelineLog}
Sections == Standard \cup ExtensionSections \cup AppendOnly

\* What the properties tell apart in the payload of a block: an opaque body, the
\* keys of the open gaps of the gaps section, the entries of a log.
PayloadOf(s) == IF s = Gaps THEN SUBSET Sections
                ELSE IF s = PipelineLog THEN SUBSET Entries ELSE Bodies

\* A content_hash names the block without its _meta: payload and _role. SHA-256
\* is taken to be injective.
Digests == (Bodies \cup (SUBSET Sections) \cup (SUBSET Entries)) \X BOOLEAN
Digest(b) == <<b.body, b.role>>
ASSUME AbsentIsNoDigest == Absent \notin Digests

BlockFields == [section    : Sections,
                variant    : Variants \cup {NoVariant},
                source     : Sources,
                revision   : Nat,
                superseded : BOOLEAN,
                role       : BOOLEAN,          \* the block has a _role
                body       : Bodies \cup (SUBSET Sections) \cup (SUBSET Entries),
                hash       : Digests \cup {Absent},
                parent     : Digests \cup {Absent, Null}]
Block == {b \in BlockFields : b.body \in PayloadOf(b.section)}

-----------------------------------------------------------------------------
(* Routing.                                                                *)

Live(d) == {i \in DOMAIN d : ~d[i].superseded}

\* A section is read as a map of variants when it is a multi-variant section,
\* or when a live block of it has a role and a live block of it has a variant.
Keyed(d, s) ==
  \/ s \in MultiVariantSections
  \/ /\ \E i \in Live(d) : d[i].section = s /\ d[i].role
     /\ \E i \in Live(d) : d[i].section = s /\ d[i].variant # NoVariant

\* The key of a block in such a map: variant ?? 'default' for a standard
\* section, variant ?? null for an extension.
Key(b) == IF b.variant = NoVariant /\ b.section \in Standard
          THEN DefaultVariant ELSE b.variant

\* Two blocks compete when the later one takes the place of the earlier one.
Compete(d, i, j) ==
  /\ d[i].section = d[j].section
  /\ d[i].section \notin AppendOnly
  /\ Keyed(d, d[i].section) => Key(d[i]) = Key(d[j])

\* Format 2.7: the last non-superseded block is canonical.
Canonical(d) ==
  {i \in Live(d) : \A j \in Live(d) : Compete(d, i, j) => j <= i}

\* The canonical blocks of a section: one, or one for each variant.
HeadsOf(d, s) == {i \in Canonical(d) : d[i].section = s}

\* Mutant of Lookup: the variant asked for is not looked at.
LookupOfSection(d, s, v) ==
  IF s \in Standard /\ HeadsOf(d, s) # {} THEN Min(HeadsOf(d, s)) ELSE 0

\* getSection (v = NoVariant) and getSectionVariant: the index of the block
\* found, 0 for null. A section read as a map has no unnamed block, one that is
\* not has no named block, and only standard sections are looked up.
Lookup(d, s, v) ==
  LET found == {i \in HeadsOf(d, s) : v = NoVariant \/ Key(d[i]) = v}
  IN IF s \in Standard /\ (Keyed(d, s) <=> v # NoVariant) /\ found # {}
     THEN CHOOSE i \in found : TRUE
     ELSE 0

\* The block that goes to result.superseded when routing reaches block j:
\* j itself when it is marked, otherwise the live block whose place j takes.
Displaced(d, j) ==
  LET earlier == {i \in Live(d) : i < j /\ Compete(d, i, j)}
  IN IF d[j].section \in AppendOnly THEN 0
     ELSE IF d[j].superseded THEN j
     ELSE IF earlier = {} THEN 0 ELSE Max(earlier)

\* The n-th of a set of numbers, counted from the least.
Nth(S, n) == CHOOSE i \in S : Cardinality({j \in S : j <= i}) = n

\* result.superseded[s], as block indices in the order they were pushed.
Archive(d, s) ==
  LET pushing == {j \in DOMAIN d : d[j].section = s /\ Displaced(d, j) # 0}
  IN [n \in 1..Cardinality(pushing) |-> Displaced(d, Nth(pushing, n))]

LogBlocks(d) == {i \in DOMAIN d : d[i].section = PipelineLog}

=============================================================================
