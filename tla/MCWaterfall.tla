---------------------------- MODULE MCWaterfall ----------------------------
(***************************************************************************)
(* Ladders of every tier, with hurdles of either kind and of both, some of    *)
(* them outside the grammar, over calls and distributions in any order.       *)
(***************************************************************************)
EXTENDS Waterfall

Roc == [type |-> "return_of_capital"]
PrefAt(rate, accrual) == [type |-> "preferred_return", rate |-> rate, accrual |-> accrual]
CatchUp(gpShare, target) == [type |-> "catch_up", gp |-> gpShare, target |-> target]
Split(share, em, irr, mode) ==
  [type |-> "split", lp |-> share, em |-> em, irr |-> irr, mode |-> mode]

Half == Over[1, 2]
Residual == Split(Half, Zero, Zero, "both")
ClawbackTo(basis, floor, tax) == [basis |-> basis, floor |-> floor, tax |-> tax]
NoClawback == ClawbackTo("none", Zero, Zero)

MCTiers ==
  { <<Roc, PrefAt(Half, a), CatchUp(One, Over[1, 4]), Residual>> : a \in {"simple", "compound_annual"} }
    \cup { <<Roc, Split(Over[3, 4], em, irr, mode), Residual>> :
             em \in {Zero, Frac(2)}, irr \in {Zero, Half}, mode \in {"both", "any"} }
    \cup { <<PrefAt(Half, "simple"), CatchUp(gpShare, Half), Split(One, Frac(2), Zero, "both"),
             Split(Half, Frac(3), Zero, "both"), Residual>> : gpShare \in {Half, Over[3, 4]} }
    \cup { <<Roc, Split(Half, Frac(2), Zero, "both")>>, <<Roc>>, <<Residual>> }

MCClawbacks ==
  { NoClawback, ClawbackTo("preferred", Zero, Zero), ClawbackTo("em", Frac(2), Over[1, 4]),
    ClawbackTo("irr", Half, Zero) }

MCLadders == [split : {Over[3, 4], One}, tiers : MCTiers, clawback : MCClawbacks]

\* Three rows of any kind, or four that begin with a call and go on with calls
\* and distributions.
MCAmounts ==
  [1..3 -> {-8, 0, 40}] \cup {a \in [1..4 -> {-8, 6, 40}] : a[1] = -8}
MCSeries == {[n \in DOMAIN a |-> [year |-> n - 1, amount |-> a[n]]] : a \in MCAmounts}
=============================================================================
