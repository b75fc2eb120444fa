-------------------------- MODULE EditorProperties --------------------------
(***************************************************************************)
(* What must hold of a document under any sequence of edits.                *)
(***************************************************************************)
EXTENDS Editor

\* Every operation names its section the way the reader files it: a variant for
\* a multi-variant section, none for any other. (The editor does not insist.)
AddressedByKey ==
  \A t \in Targets : t[1] \in Standard /\ (t[1] \in MultiVariantSections <=> t[2] # NoVariant)

\* Blocks are filed under their key too, so no section turns into a map of
\* variants because a block of it gets a role.
FiledByKey(d) ==
  \A i \in DOMAIN d : d[i].section \notin MultiVariantSections => d[i].variant = NoVariant

\* The sections come before the log, where the editor inserts.
LogsComeLast(d) ==
  \A i, j \in DOMAIN d : i \in LogBlocks(d) /\ i <= j => j \in LogBlocks(d)

SameSlot(b, c) == b.section = c.section /\ Key(b) = Key(c)

\* Of two blocks of one section or variant the earlier one is superseded and
\* has the smaller revision: there is one canonical block, the last one, and the
\* blocks before it are its history in order.
HistoryIsOrdered(d) ==
  \A i, j \in DOMAIN d :
    i < j /\ d[i].section \in Standard /\ SameSlot(d[i], d[j])
      => d[i].superseded /\ d[i].revision < d[j].revision

\* A hash a block carries is the hash of what it holds: replacing, superseding,
\* carrying a role over, re-stamping and gaps maintenance leave none behind on
\* other content. (Log blocks are rewritten without re-stamping.)
HashesRecompute(d) ==
  \A i \in DOMAIN d :
    d[i].section # PipelineLog /\ d[i].hash # Absent => d[i].hash = Digest(d[i])

\* A section or variant that has blocks has one that is not superseded.
SlotsHaveHeads(d) ==
  \A i \in DOMAIN d : d[i].section \in Standard =>
    \E j \in Live(d) : SameSlot(d[i], d[j])

WellFormed(d) == /\ FiledByKey(d) /\ LogsComeLast(d)
                 /\ HistoryIsOrdered(d) /\ SlotsHaveHeads(d)

WellFormedStart == \A d \in InitialDocuments : WellFormed(d)
FreshStart == \A d \in InitialDocuments : HashesRecompute(d)

-----------------------------------------------------------------------------
(* State properties.                                                       *)

\* One canonical block per section or variant, and its history before it, in
\* the order of its revisions, whatever edits and maintenance have been run.
DocumentIsOrdered == HistoryIsOrdered(doc)

\* The inductive strengthening: blocks are filed by key, the logs come last,
\* and every section or variant with a history has a head.
DocumentIsWellFormed == WellFormed(doc)

\* No block is left with the hash of content it no longer has.
StampsAreFresh == HashesRecompute(doc)

\* "best-effort: if maintenance fails, keep the prior result" (editor.ts): no
\* admitted edit is lost to the maintenance of the gaps section.
EditsSurviveMaintenance == code # "TypeError"

-----------------------------------------------------------------------------
(* Step properties.                                                        *)

SameContent(b, c) == [b EXCEPT !.superseded = TRUE] = [c EXCEPT !.superseded = TRUE]

\* Protocol V.2: a block whose source demands supersession is never lost or
\* altered, by the edit or by the gaps maintenance that follows it, and no
\* block that is already superseded is.
HistoryIsKept ==
  [][\A i \in DOMAIN doc :
       doc[i].section \in Standard /\ (MustSupersede(doc[i].source) \/ doc[i].superseded)
         => \E j \in DOMAIN doc' : SameContent(doc[i], doc'[j])]_vars

\* Protocol V.3, V.4: what becomes canonical in the place of a block was
\* written under the authority of that block's policy, one revision on. No
\* section loses its canonical block.
SuccessionIsAuthorized ==
  [][\A i \in Canonical(doc) : doc[i].section \in Standard =>
       \E j \in Canonical(doc') :
         /\ SameSlot(doc[i], doc'[j])
         /\ \/ doc'[j] = doc[i]
            \/ /\ doc'[j].revision = doc[i].revision + 1
               /\ MayWrite(doc'[j].source, PolicyOf(doc[i].source))]_vars

\* Format 4.22: with maintainGaps on, a write outside the gaps section leaves
\* every required section nobody has written listed there, unless the policy of
\* the gaps section's own source keeps the maintainer from updating it.
Others(d) == {d[i] : i \in {j \in DOMAIN d : d[j].section # Gaps}}
GapsAreListed ==
  [][Others(doc') # Others(doc) \/ stage' # stage =>
       LET g == Lookup(doc', Gaps, NoVariant)
       IN g # 0 /\ \/ {s \in Required[stage'] : HeadsOf(doc', s) = {}} \subseteq doc'[g].body
                    \/ MustSupersede(doc'[g].source)]_vars

\* The record is a HistoryStore: the versions of each section or variant.
StoreSlots ==
  (SingleSections \X {DefaultVariant}) \cup (MultiVariantSections \X Variants)
SlotOf(b) == <<b.section, Key(b)>>
Version(b) == [source |-> b.source, revision |-> b.revision, role |-> b.role,
               body |-> b.body, hash |-> b.hash, parent |-> b.parent]
VersionsOf(d, slot) == {Version(d[i]) : i \in {j \in DOMAIN d : SlotOf(d[j]) = slot}}

Store == INSTANCE HistoryStore WITH
           Slots <- StoreSlots,
           MayFollow <- LAMBDA w, s : MayWrite(w, PolicyOf(s)),
           MayReplace <- LAMBDA s : ~MustSupersede(s),
           history <- [s \in StoreSlots |-> VersionsOf(doc, s)]

\* The editor implements the store of histories the protocol promises.
ImplementsStore == Store!Spec
=============================================================================
