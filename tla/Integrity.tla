----------------------------- MODULE Integrity -----------------------------
(***************************************************************************)
(* verifyChain and verifyProvenance of @uwmd/verify integrity.ts: the        *)
(* findings they report for a parsed document. Signatures are left out.     *)
(***************************************************************************)
EXTENDS EditOperations

\* currentBlock: the canonical block; of a map of variants the first member,
\* that is the one whose key the first live block of the section has.
CurrentBlock(d, s) ==
  LET live == {i \in Live(d) : d[i].section = s}
  IN CHOOSE i \in HeadsOf(d, s) : Compete(d, Min(live), i)

\* What verifyChain takes for the chain of a section: everything archived under
\* the section, in the order it was pushed, then the current block.
Chain(d, s) ==
  LET indices == Append(Archive(d, s), CurrentBlock(d, s))
  IN [n \in DOMAIN indices |-> d[indices[n]]]

\* prevHash when the loop reaches block n: the stamp of the last block before it
\* that has one, null at first.
PreviousHash(chain, n) ==
  LET stamped == {m \in 1..(n - 1) : chain[m].hash # Absent}
  IN IF stamped = {} THEN Null ELSE chain[Max(stamped)].hash

BrokenLink(chain, n) ==
  \/ n = 1 /\ chain[n].parent \notin {Absent, Null}
  \/ n > 1 /\ chain[n].hash # Absent /\ chain[n].parent # PreviousHash(chain, n)

ChainFindings(d, s) ==
  LET chain == Chain(d, s)
      found(code) == CASE code = "INT-01" -> \E n \in DOMAIN chain : BrokenLink(chain, n)
                       [] code = "INT-03" -> \E n \in DOMAIN chain : chain[n].hash = Absent
                       [] code = "INT-04" -> \E n \in DOMAIN chain :
                                               chain[n].hash \notin {Absent, Digest(chain[n])}
  IN IF HeadsOf(d, s) = {} \/ \A n \in DOMAIN chain : chain[n].hash = Absent THEN {}
     ELSE {code \in {"INT-01", "INT-03", "INT-04"} : found(code)}

VerifyChain(d) == UNION {ChainFindings(d, s) : s \in Standard}

\* verifyProvenance, for each current head under the policy that matches first.
ProvenanceFindings(d, i) ==
  LET policy == MatchPolicy(d[i].source, Policies)
      kept   == {n \in DOMAIN Archive(d, d[i].section) :
                   d[Archive(d, d[i].section)[n]].variant = d[i].variant}
  IN IF policy = NoPolicy THEN {}
     ELSE {code \in {"POL-01", "POL-02"} :
             \/ code = "POL-01" /\ ~AuthorityAllows(d[i].source, policy)
             \/ code = "POL-02" /\ policy.supersede /\ d[i].revision > 1 /\ kept = {}}

VerifyProvenance(d) ==
  UNION {ProvenanceFindings(d, i) : i \in {j \in Canonical(d) : d[j].section \in Standard}}
=============================================================================
