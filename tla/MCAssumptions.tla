--------------------------- MODULE MCAssumptions ---------------------------
(***************************************************************************)
(* Sections of up to three peers under any roles, and lineages with a tie, a  *)
(* tie behind a nearer ancestor, and a document reached twice.               *)
(***************************************************************************)
EXTENDS Assumptions

CONSTANTS fund, region, desk

Peer(variant, role, tag) == [variant |-> variant, role |-> role, tag |-> tag, value |-> Typed]
MCDeals ==
  {[keyed |-> FALSE, peers |-> <<>>], [keyed |-> FALSE, peers |-> <<Peer("t1", "component", "none")>>]}
    \cup {[keyed |-> TRUE, peers |-> <<Peer("t1", "senior", "none"), Peer("base", role, "user_input"),
                                     Peer("t2", "primary", "market_data")>>] :
            role \in {"none", "primary", "senior", "invalid"}}
    \cup {[keyed |-> TRUE, peers |-> <<Peer("t1", role, "none"), Peer(v, "none", "manual")>>] :
            role \in {"none", "component"}, v \in {"default", "t2"}}

Ancestor(doc, distance, holds) == [doc |-> doc, distance |-> distance, holds |-> holds]
MCLineages ==
  { <<>>, <<Ancestor(fund, 2, TRUE), Ancestor(region, 1, TRUE)>>,
    <<Ancestor(fund, 2, TRUE), Ancestor(region, 1, FALSE), Ancestor(fund, 3, TRUE)>>,
    <<Ancestor(region, 1, TRUE), Ancestor(desk, 1, TRUE), Ancestor(fund, 2, TRUE)>> }

MCRequests ==
  {[variant |-> v, role |-> r] : v \in {"none"}, r \in {"none", "senior"}}
    \cup {[variant |-> v, role |-> "none"] : v \in {"t1", "t2"}}
=============================================================================
