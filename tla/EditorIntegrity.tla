-------------------------- MODULE EditorIntegrity --------------------------
(***************************************************************************)
(* The editor against the verifier: what verifyChain and verifyProvenance    *)
(* report of the documents that accepted edits leave behind.                *)
(***************************************************************************)
EXTENDS EditorProperties, Integrity

\* No document the editor returns has a link that does not match the block
\* before it, or a first block that names a predecessor (INT-01).
LinksHold == "INT-01" \notin VerifyChain(doc)

\* A record written by actors whose blocks must be superseded verifies in
\* full, and no block of it reads as overwritten.
RecordVerifies == VerifyChain(doc) = {} /\ VerifyProvenance(doc) = {}

-----------------------------------------------------------------------------
(* What a record that verifies consists of, and which writers keep it so.   *)

\* What the verifier asks of a source, by the policy it matches first.
IsAllowed(source) ==
  LET policy == MatchPolicy(source, Policies)
  IN policy # NoPolicy => AuthorityAllows(source, policy)
MustBeArchived(source) ==
  LET policy == MatchPolicy(source, Policies)
  IN policy # NoPolicy /\ policy.supersede

\* Block j is the first of its section, block i the one before it.
FirstOf(d, j) == \A i \in DOMAIN d : i < j => d[i].section # d[j].section
NextTo(d, i, j) ==
  /\ i < j /\ d[i].section = d[j].section
  /\ \A k \in DOMAIN d : i < k /\ k < j => d[k].section # d[j].section

\* A block carries the hash of its content and names the block before it.
LinkAt(d, j) ==
  /\ d[j].hash = Digest(d[j])
  /\ FirstOf(d, j) => d[j].parent \in {Absent, Null}
  /\ \A i \in DOMAIN d : NextTo(d, i, j) => d[j].parent = d[i].hash

Unhashed(d, s) == \A i \in DOMAIN d : d[i].section = s => d[i].hash = Absent
Linked(d, s) == \A i \in DOMAIN d : d[i].section = s => LinkAt(d, i)

\* A section has a hash on every block or on none.
ChainsAreWhole(d) ==
  /\ \A s \in MultiVariantSections : Unhashed(d, s)
  /\ \A s \in SingleSections : Unhashed(d, s) \/ Linked(d, s)

\* A block came from a producer, or is the maintainer's and has no hash; what it
\* came after is archived.
IsProduced(d, b) ==
  /\ IsAllowed(b.source)
  /\ b.section # Gaps \/ b.hash # Absent => MustSupersede(b.source)
  /\ b.section \in MultiVariantSections => b.variant # NoVariant
  /\ MustBeArchived(b.source) /\ b.revision > 1 =>
       \E j \in DOMAIN d : d[j].superseded /\ d[j].section = b.section /\ d[j].variant = b.variant

Produced(d) ==
  WellFormed(d) /\ ChainsAreWhole(d) /\ \A i \in DOMAIN d : d[i].section \in Standard => IsProduced(d, d[i])

\* The inductive strengthening of RecordVerifies.
RecordIsProduced == Produced(doc)

\* The writers whose records verify: each must be superseded and is of the class
\* its policy asks for; hashes are kept up, and the gaps section is left to the
\* maintainer, whose blocks the verifier does not expect to be superseded.
ProducersWrite ==
  /\ \A w \in Writers : MustSupersede(w) /\ IsAllowed(w)
  /\ IsAllowed(Maintainer) /\ ~MustBeArchived(Maintainer)
  /\ \A t \in Targets : t[1] # Gaps
  /\ \A o \in Options : o.integrity
ProducedStart == \A d \in InitialDocuments : Produced(d)
-----------------------------------------------------------------------------

\* No accepted edit leaves a block that reads as replaced where its policy
\* demands supersession (POL-02).
NoOverwriteReported == "POL-02" \notin VerifyProvenance(doc)
=============================================================================
