---------------------------- MODULE MCComposite ----------------------------
(***************************************************************************)
(* Packages of four members with a few links, looped and crossing ones        *)
(* included, and of three or five with one or two, dangling ones included;   *)
(* none, one or all of the links outdated.                                  *)
(***************************************************************************)
EXTENDS Composite, FiniteSetsExt, SequencesExt

CONSTANT MaxLinks

MCIds == 1..5
MCSorted == [S \in SUBSET MCIds |-> SetToSortSeq(S, <)]
MCLinks == {l \in Link : l.from # 5 /\ l.to # 5}
MCPackages ==
  { p \in [members : {1..n : n \in 3..5}, links : UNION {kSubset(n, MCLinks) : n \in 0..MaxLinks},
           outdated : {{}} \cup {{l} : l \in MCLinks} \cup {MCLinks}] :
      /\ p.outdated \subseteq p.links \/ p.outdated = MCLinks
      /\ p.members = 1..4 \/ Cardinality(p.links) <= 2 }

CompositeLiveSpec == CompositeSpec /\ CompositeFairness
=============================================================================
