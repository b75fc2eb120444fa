---------------------------- MODULE SectionParts ----------------------------
(***************************************************************************)
(* A collection section that is split into fragments and put together again: *)
(* externalizeSection and resolveComposition of @uwmd/verify composition.ts. *)
(* Between the two a package travels: fragments are edited, lost, misfiled,  *)
(* and its directive is cut or rearranged.                                   *)
(***************************************************************************)
EXTENDS Integers, Sequences, FiniteSets, SequencesExt

CONSTANTS
  Keys,        \* row keys, numbered in byte order
  NoKey,       \* a row without a usable key
  Contents,    \* what else a row holds
  Nothing,     \* no fragment
  Records,     \* the inline records to begin with
  MaxChanges   \* bound on the changes to a package

Row == [key : Keys \cup {NoKey}, content : Contents]
Part == [home : BOOLEAN, member : BOOLEAN, row : Row]

ASSUME RecordsAreRows == Records \subseteq Seq(Row)
ASSUME KeysAreOrdered == Keys \subseteq Nat /\ NoKey \notin Keys /\ MaxChanges \in Nat

VARIABLES
  section,   \* inline rows, or the directive that stands for them
  parts,     \* the fragments at hand, by part_id: a prefix and the key of the row
  answer,    \* of the last call: {"none"}, {"split"}, {"resolved"}, {"whole"}, or codes
  split,     \* the rows the record was split from, in their order
  truth,     \* the row each fragment named then stands for now
  changes    \* the number of changes since

partsVars == <<section, parts, answer, split, truth, changes>>

Inline(rows) == [external |-> FALSE, rows |-> rows]
Directive(ids, count, keyed) ==
  [external |-> TRUE, parts |-> ids, count |-> count, keyed |-> keyed]

PartCodes == {"COMP-DIRECTIVE-MALFORMED", "COMP-DUP-KEY", "COMP-COUNT-MISMATCH",
              "COMP-UNRESOLVED", "COMP-SECTION-MISMATCH"}

PartsTypeOK ==
  /\ \/ section.external = FALSE /\ section.rows \in Seq(Row)
     \/ section.external = TRUE /\ section.parts \in Seq(Keys) /\ section.count \in Nat
                                /\ section.keyed \in BOOLEAN
  /\ parts \in [Keys -> Part \cup {Nothing}]
  /\ answer \in SUBSET (PartCodes \cup {"none", "split", "resolved", "whole"})
  /\ split \in Seq(Row) /\ truth \in UNION {[K -> Row] : K \in SUBSET Keys}
  /\ changes \in 0..MaxChanges

InOrder(keys) == CHOOSE s \in SetToSeqs(keys) : \A i, j \in DOMAIN s : i < j => s[i] < s[j]
Repeats(s) == \E i, j \in DOMAIN s : i < j /\ s[i] = s[j]

-----------------------------------------------------------------------------
(* externalizeSection.                                                     *)

\* Rows are looked at in their order; the first one that cannot be addressed or
\* claims a key that is taken throws.
SplitRefusal(rows) ==
  LET bad == {i \in DOMAIN rows : rows[i].key = NoKey}
      taken == {i \in DOMAIN rows : \E j \in 1..(i - 1) : rows[j].key = rows[i].key}
      firstBad == CHOOSE i \in bad \cup taken : \A j \in bad \cup taken : i <= j
  IN CASE rows = <<>> -> {"COMP-DIRECTIVE-MALFORMED"}
       [] bad \cup taken = {} -> {}
       [] firstBad \in bad -> {"COMP-DIRECTIVE-MALFORMED"}
       [] OTHER -> {"COMP-DUP-KEY"}

\* A row becomes a fragment, which carries the section's _meta beside it.
FragmentOf(row) == [home |-> TRUE, member |-> TRUE, row |-> row]

Externalize ==
  /\ ~section.external
  /\ LET rows == section.rows
         refusal == SplitRefusal(rows)
         ids == {rows[i].key : i \in DOMAIN rows}
         rowOf == [k \in ids |-> CHOOSE r \in Range(rows) : r.key = k]
     IN IF refusal # {}
        THEN answer' = refusal /\ UNCHANGED <<section, parts, split, truth, changes>>
        ELSE /\ section' = Directive(InOrder(ids), Cardinality(ids), TRUE)
             /\ parts' = [k \in Keys |-> IF k \in ids THEN FragmentOf(rowOf[k]) ELSE parts[k]]
             /\ answer' = {"split"} /\ split' = rows /\ truth' = rowOf
             /\ changes' = 0

-----------------------------------------------------------------------------
(* resolveComposition, for this section.                                   *)

\* Mutant of DirectiveFault: the count is not compared.
FaultUncounted(d) ==
  CASE d.parts = <<>> -> {"COMP-DIRECTIVE-MALFORMED"}
    [] Repeats(d.parts) -> {"COMP-DUP-KEY"}
    [] OTHER -> {}

\* validateExternalDirective: the first fault names the code.
DirectiveFault(d) ==
  CASE d.parts = <<>> -> {"COMP-DIRECTIVE-MALFORMED"}
    [] Repeats(d.parts) -> {"COMP-DUP-KEY"}
    [] d.count # Len(d.parts) -> {"COMP-COUNT-MISMATCH"}
    [] OTHER -> {}

\* Each named fragment has to be at hand and to be of this section.
PartFaults(d) ==
  {IF parts[d.parts[i]] = Nothing THEN "COMP-UNRESOLVED" ELSE "COMP-SECTION-MISMATCH" :
     i \in {k \in DOMAIN d.parts : parts[d.parts[k]] = Nothing \/ ~parts[d.parts[k]].home}}

\* Of a directive whose fragments are all at hand.
RowsOf(d) == [i \in DOMAIN d.parts |-> parts[d.parts[i]].row]
Whole(d) == {i \in DOMAIN d.parts : ~parts[d.parts[i]].member}

\* Every row needs a key of its own; the loop goes on after a fault.
MergeFaults(d) ==
  LET rows == RowsOf(d)
      unkeyed == {i \in DOMAIN rows : rows[i].key = NoKey}
      taken == {i \in DOMAIN rows : \E j \in 1..(i - 1) : rows[j].key = rows[i].key}
  IN (IF unkeyed # {} THEN {"COMP-DIRECTIVE-MALFORMED"} ELSE {})
     \cup (IF taken \ unkeyed # {} THEN {"COMP-DUP-KEY"} ELSE {})

Merged(d) ==
  LET rows == Range(RowsOf(d))
      keys == InOrder({r.key : r \in rows})
  IN [i \in DOMAIN keys |-> CHOOSE r \in rows : r.key = keys[i]]

RefuseSection(codes) == answer' = codes /\ UNCHANGED section

\* A section with a fault is returned as it is, never as fewer rows.
Resolve ==
  /\ section.external
  /\ LET d == section
     IN CASE DirectiveFault(d) # {} -> RefuseSection(DirectiveFault(d))
          [] DirectiveFault(d) = {} /\ PartFaults(d) # {} -> RefuseSection(PartFaults(d))
          [] DirectiveFault(d) \cup PartFaults(d) = {} /\ Whole(d) # {} ->
               IF DOMAIN d.parts # Whole(d) \/ Cardinality(Whole(d)) # 1
               THEN RefuseSection({"COMP-DIRECTIVE-MALFORMED"})
               ELSE answer' = {"whole"} /\ section' = Inline(RowsOf(d))
          [] OTHER ->
               IF ~d.keyed THEN RefuseSection({"COMP-DIRECTIVE-MALFORMED"})
               ELSE IF MergeFaults(d) # {} THEN RefuseSection(MergeFaults(d))
               ELSE answer' = {"resolved"} /\ section' = Inline(Merged(d))
  /\ UNCHANGED <<parts, split, truth, changes>>

-----------------------------------------------------------------------------
(* What happens to a package on its way.                                   *)

Change ==
  /\ section.external /\ changes < MaxChanges
  /\ changes' = changes + 1 /\ answer' = {"none"} /\ UNCHANGED split

\* A fragment is reviewed and edited on its own, its key included.
EditPart(k) ==
  /\ Change /\ parts[k] # Nothing /\ k \in DOMAIN truth
  /\ \E r \in Row : parts' = [parts EXCEPT ![k].row = r] /\ truth' = [truth EXCEPT ![k] = r]
  /\ UNCHANGED section

LosePart(k) ==
  /\ Change /\ parts[k] # Nothing
  /\ parts' = [parts EXCEPT ![k] = Nothing] /\ UNCHANGED <<section, truth>>

\* Its frontmatter names another section, or no longer says it is a row.
RefilePart(k) ==
  /\ Change /\ parts[k] # Nothing
  /\ \/ parts' = [parts EXCEPT ![k].home = FALSE]
     \/ parts' = [parts EXCEPT ![k].member = FALSE]
  /\ UNCHANGED <<section, truth>>

\* The directive loses its key, or its list is cut short, rearranged, or names
\* a fragment in the place of another.
ChangeDirective ==
  /\ Change
  /\ \/ section' = [section EXCEPT !.keyed = FALSE]
     \/ section.parts # <<>> /\ section' = [section EXCEPT !.parts = Front(@)]
     \/ section' = [section EXCEPT !.parts = Reverse(@)]
     \/ \E i \in DOMAIN section.parts, j \in DOMAIN section.parts :
          section' = [section EXCEPT !.parts[i] = section.parts[j]]
  /\ UNCHANGED <<parts, truth>>

PartsInit ==
  /\ section \in {Inline(r) : r \in Records}
  /\ parts = [k \in Keys |-> Nothing]
  /\ answer = {"none"} /\ split = <<>> /\ truth = <<>> /\ changes = 0

PartsNext ==
  \/ Externalize \/ Resolve \/ ChangeDirective
  \/ \E k \in Keys : EditPart(k) \/ LosePart(k) \/ RefilePart(k)

PartsSpec == PartsInit /\ [][PartsNext]_partsVars

-----------------------------------------------------------------------------
(* Properties.                                                             *)

\* UW_COMPOSITION 3.6, "a missing part never yields a smaller collection": what
\* resolves has the row of every fragment the record was split into, as it is
\* by then, and no other, however the package fared and in whatever order it
\* lists them.
NeverASmallerCollection ==
  answer = {"resolved"} =>
    /\ Range(section.rows) = {truth[k] : k \in DOMAIN truth}
    /\ Len(section.rows) = Cardinality(DOMAIN truth)

\* composition.ts, externalizeSection: "resolving the output of this function
\* MUST reproduce the input's canonical form".
RoundTrips == answer = {"resolved"} /\ changes = 0 => section.rows = split
=============================================================================
