----------------------------- MODULE Waterfall -----------------------------
(***************************************************************************)
(* computeWaterfall of @uwmd/verify waterfall.ts: the cash of a dated series  *)
(* is paid down a ladder of tiers to the LP and the GP, row by row and tier   *)
(* by tier, and a clawback is struck at the end. The grammar of ladders is     *)
(* checkWaterfallContent's (validator.ts).                                   *)
(*                                                                         *)
(* Amounts are exact where the code's are binary64. Rows are whole years      *)
(* apart. A hurdle of Zero is one the tier does not state.                   *)
(***************************************************************************)
EXTENDS Fractions, FiniteSets

CONSTANTS
  Ladders,   \* [split, tiers, clawback] of the waterfalls handed in
  Series     \* the cash flows handed in: sequences of [year, amount]

VARIABLES
  ladder, series,
  walk,       \* "idle" (no call yet), "rows", "paying", "done", or "refused" (null)
  row, tier,  \* the row and the tier the loops are at
  left,       \* `remaining` of the row
  lp, gp,     \* PartyState
  cells,      \* the schedule: what a tier paid in a row
  clawback

waterfallVars == <<ladder, series, walk, row, tier, left, lp, gp, cells, clawback>>

NewParty == [unreturned |-> Zero, accrued |-> Zero, contributions |-> Zero,
             distributions |-> Zero, roc |-> Zero, pref |-> Zero, flows |-> <<>>]

Flow(year, amount) == [year |-> year, amount |-> amount]
Kind(n) == ladder.tiers[n].type
Tiers(kind) == {n \in DOMAIN ladder.tiers : Kind(n) = kind}
Pref == ladder.tiers[CHOOSE n \in Tiers("preferred_return") : TRUE]

-----------------------------------------------------------------------------
(* Grammar (WF-01, WF-10 to WF-13).                                         *)

Rank(t) == CASE t.type = "return_of_capital" -> 0 [] t.type = "preferred_return" -> 1
             [] t.type = "catch_up" -> 2 [] t.type = "split" -> 3

Fraction(r) == LessThan[Zero, r] /\ LessThan[r, One]
Capped(t) == t.em # Zero \/ t.irr # Zero

\* A stated hurdle exceeds every one of its kind above it.
Climbs(ts, n, hurdle) ==
  ts[n][hurdle] # Zero =>
    \A k \in 1..(n - 1) : ts[k].type = "split" => LessThan[ts[k][hurdle], ts[n][hurdle]]

\* Mutant of ValidTier: a hurdle on the last tier is let through.
ValidTierAnyLast(ts, n) ==
  LET t == ts[n] IN
  /\ t.type = "preferred_return" => Fraction(t.rate)
  /\ t.type = "catch_up" => LessThan[Zero, t.gp] /\ Fraction(t.target) /\ LessThan[t.target, t.gp]
  /\ t.type = "split" => /\ Capped(t) => t.lp # Zero
                         /\ t.mode = "any" => t.em # Zero /\ t.irr # Zero

ValidTier(ts, n) ==
  LET t == ts[n] IN
  CASE t.type = "preferred_return" -> Fraction(t.rate)
    [] t.type = "catch_up" -> /\ LessThan[Zero, t.gp] /\ AtMost[t.gp, One]
                              /\ Fraction(t.target) /\ LessThan[t.target, t.gp]
    [] t.type = "split" -> /\ AtMost[Zero, t.lp] /\ AtMost[t.lp, One]
                           /\ Capped(t) => n < Len(ts) /\ t.lp # Zero
                           /\ t.mode = "any" => t.em # Zero /\ t.irr # Zero
                           /\ Climbs(ts, n, "em")
                           /\ Climbs(ts, n, "irr")
    [] OTHER -> TRUE

ValidLadder(l) ==
  /\ \E n \in DOMAIN l.tiers : l.tiers[n].type = "split"
  /\ \A n \in DOMAIN l.tiers : ValidTier(l.tiers, n)
  /\ \A n, k \in DOMAIN l.tiers : n < k =>
       /\ Rank(l.tiers[n]) <= Rank(l.tiers[k])
       /\ Rank(l.tiers[n]) = Rank(l.tiers[k]) => l.tiers[n].type = "split"
  /\ AtMost[Zero, l.clawback.tax] /\ LessThan[l.clawback.tax, One]
  /\ l.clawback.basis = "em" => LessThan[One, l.clawback.floor]
  /\ l.clawback.basis = "irr" => Fraction(l.clawback.floor)
  /\ l.clawback.basis = "preferred" =>
       \E n \in DOMAIN l.tiers : l.tiers[n].type = "preferred_return"

-----------------------------------------------------------------------------
(* Rows.                                                                   *)

\* Step 1: the preferred return of the years since the row before.
Accrue(p) ==
  LET years == series[row].year - series[row - 1].year
      grown == IF Pref.accrual = "simple" THEN Times[Times[p.unreturned, Pref.rate], Frac(years)]
               ELSE Times[Plus[p.accrued, p.unreturned],
                          Minus[Power[Plus[One, Pref.rate], years], One]]
  IN IF row = 1 \/ Tiers("preferred_return") = {} THEN p
     ELSE [p EXCEPT !.accrued = Plus[@, grown]]

\* Step 2: the share of a contribution.
Contribute(p, share) ==
  LET portion == Times[Frac(-series[row].amount), share]
  IN IF portion = Zero THEN p
     ELSE [p EXCEPT !.unreturned = Plus[@, portion], !.contributions = Plus[@, portion],
                    !.flows = Append(@, Flow(series[row].year, Minus[Zero, portion]))]

OpenRow ==
  /\ walk = "rows" /\ row <= Len(series)
  /\ LET amount == series[row].amount
         calls == amount < 0
     IN /\ lp' = IF calls THEN Contribute(Accrue(lp), ladder.split) ELSE Accrue(lp)
        /\ gp' = IF calls THEN Contribute(Accrue(gp), Minus[One, ladder.split]) ELSE Accrue(gp)
        /\ IF amount > 0
           THEN walk' = "paying" /\ tier' = 1 /\ left' = Frac(amount) /\ UNCHANGED row
           ELSE row' = row + 1 /\ UNCHANGED <<walk, tier, left>>
  /\ UNCHANGED <<ladder, series, cells, clawback>>

-----------------------------------------------------------------------------
(* Tiers: step 3.                                                          *)

\* Mutant of Profit: preferred receipts are not profit.
ProfitBeyondPref(p) == Minus[Minus[p.distributions, p.roc], p.pref]

\* Distributions above returned capital; the preferred return counts.
Profit(p) == Minus[p.distributions, p.roc]

\* What the LP has to receive in that year for its flows to be worth nothing at
\* the rate h. (The code discounts to the first row and compounds the sum back.)
HurdleBalance(flows, h, year) ==
  LET worth == SumOver(flows, LAMBDA i : Times[flows[i].amount,
                                               Power[Plus[One, h], year - flows[i].year]])
  IN Larger[Zero, Minus[Zero, worth]]

EmGap(multiple) ==
  Larger[Zero, Minus[Times[multiple, lp.contributions], lp.distributions]]

\* Both hurdles have to be met, unless the mode is "any".
HurdleCapacity(t) ==
  LET em == EmGap(t.em)
      irr == HurdleBalance(lp.flows, t.irr, series[row].year)
      both == IF t.mode = "any" THEN Smaller[em, irr] ELSE Larger[em, irr]
  IN DividedBy[IF t.irr = Zero THEN em ELSE IF t.em = Zero THEN irr ELSE both, t.lp]

CatchUpCapacity(t) ==
  Larger[Zero, DividedBy[Minus[Times[t.target, Plus[Profit(lp), Profit(gp)]], Profit(gp)],
                         Minus[t.gp, t.target]]]

\* What the tier may still take; an uncapped split takes all.
Capacity(t) ==
  CASE t.type = "return_of_capital" -> Plus[lp.unreturned, gp.unreturned]
    [] t.type = "preferred_return" -> Plus[lp.accrued, gp.accrued]
    [] t.type = "catch_up" -> CatchUpCapacity(t)
    [] t.type = "split" /\ ~Capped(t) -> left
    [] t.type = "split" /\ Capped(t) -> IF t.lp = Zero THEN Zero ELSE HurdleCapacity(t)

\* Mutant of LpPart: returned capital is shared like the equity was, whoever
\* is owed it.
LpPartEven(t, pay) ==
  CASE t.type \in {"return_of_capital", "preferred_return"} -> Times[pay, Over[1, 2]]
    [] t.type = "catch_up" -> Minus[pay, Times[pay, t.gp]]
    [] t.type = "split" -> Times[pay, t.lp]

\* The LP's part of a payment: pro rata what is owed, or the tier's share.
LpPart(t, pay) ==
  CASE t.type = "return_of_capital" -> Times[pay, DividedBy[lp.unreturned, Capacity(t)]]
    [] t.type = "preferred_return" -> Times[pay, DividedBy[lp.accrued, Capacity(t)]]
    [] t.type = "catch_up" -> Minus[pay, Times[pay, t.gp]]
    [] t.type = "split" -> Times[pay, t.lp]

Receive(p, t, pay) ==
  LET roc == IF t.type = "return_of_capital" THEN pay ELSE Zero
      pref == IF t.type = "preferred_return" THEN pay ELSE Zero
  IN [p EXCEPT !.unreturned = Minus[@, roc], !.roc = Plus[@, roc],
               !.accrued = Minus[@, pref], !.pref = Plus[@, pref],
               !.distributions = Plus[@, pay],
               !.flows = IF pay = Zero THEN @ ELSE Append(@, Flow(series[row].year, pay))]

Current == ladder.tiers[tier]
Unfillable(t) == t.type = "catch_up" /\ AtMost[t.gp, t.target]
PaysOn == walk = "paying" /\ tier <= Len(ladder.tiers) /\ left # Zero

RefuseTier ==
  /\ PaysOn /\ Unfillable(Current)
  /\ walk' = "refused"
  /\ UNCHANGED <<ladder, series, row, tier, left, lp, gp, cells, clawback>>

PayTier ==
  /\ PaysOn /\ ~Unfillable(Current)
  /\ LET pay == Smaller[left, Capacity(Current)]
         toLp == LpPart(Current, pay)
     IN IF pay = Zero THEN UNCHANGED <<left, lp, gp, cells>>
        ELSE /\ lp' = Receive(lp, Current, toLp)
             /\ gp' = Receive(gp, Current, Minus[pay, toLp])
             /\ left' = Minus[left, pay]
             /\ cells' = Append(cells, [row |-> row, lp |-> toLp, gp |-> Minus[pay, toLp]])
  /\ tier' = tier + 1
  /\ UNCHANGED <<ladder, series, walk, row, clawback>>

\* Cash no tier took is never dropped: the ladder is refused.
CloseRow ==
  /\ walk = "paying" /\ (left = Zero \/ tier > Len(ladder.tiers))
  /\ IF left = Zero THEN walk' = "rows" /\ row' = row + 1
     ELSE walk' = "refused" /\ UNCHANGED row
  /\ UNCHANGED <<ladder, series, tier, left, lp, gp, cells, clawback>>

-----------------------------------------------------------------------------
(* Step 5.                                                                 *)

Promote == Minus[Minus[gp.distributions, gp.roc], gp.pref]

\* What the LP lacks to its floor at the last row.
Shortfall ==
  LET floor == ladder.clawback.floor IN
  CASE ladder.clawback.basis = "preferred" -> Plus[lp.unreturned, lp.accrued]
    [] ladder.clawback.basis = "em" -> Minus[Times[floor, lp.contributions], lp.distributions]
    [] ladder.clawback.basis = "irr" ->
         HurdleBalance(lp.flows, floor, series[Len(series)].year)

\* Mutant of Clawback: not capped at the promote.
ClawbackUncapped ==
  IF ladder.clawback.basis = "none" THEN Zero
  ELSE Times[Larger[Zero, Shortfall], Minus[One, ladder.clawback.tax]]

Clawback ==
  IF ladder.clawback.basis = "none" THEN Zero
  ELSE Times[Larger[Zero, Smaller[Shortfall, Larger[Zero, Promote]]],
             Minus[One, ladder.clawback.tax]]

EndWalk ==
  /\ walk = "rows" /\ row > Len(series)
  /\ walk' = "done"
  /\ clawback' = Clawback
  /\ UNCHANGED <<ladder, series, row, tier, left, lp, gp, cells>>

WaterfallInit ==
  /\ ladder \in Ladders /\ series \in Series
  /\ walk = "rows" /\ row = 1 /\ tier = 1 /\ left = Zero
  /\ lp = NewParty /\ gp = NewParty /\ cells = <<>> /\ clawback = Zero

WaterfallNext == OpenRow \/ RefuseTier \/ PayTier \/ CloseRow \/ EndWalk
WaterfallSpec == WaterfallInit /\ [][WaterfallNext]_waterfallVars

-----------------------------------------------------------------------------
(* Properties.                                                             *)

\* "Cash never remains after the final tier" (Protocol VIII.10): a ladder the
\* validator admits pays out every row in full, and the schedule, what the
\* parties received and what the rows brought are the same cash.
PaidOut == SumOver(cells, LAMBDA i : Plus[cells[i].lp, cells[i].gp])
CashBy(n) ==
  SumOver(series, LAMBDA i : IF i > n \/ series[i].amount < 0 THEN Zero ELSE Frac(series[i].amount))
CashIsPaidOut ==
  ValidLadder(ladder) /\ walk # "idle" =>
    /\ walk # "refused"
    /\ PaidOut = Plus[lp.distributions, gp.distributions]
    /\ walk \in {"rows", "done"} => PaidOut = CashBy(row - 1)

\* "pari passu": whatever the rows were, the parties' capital, accrual and
\* receipts of both stay in the proportion of their equity, and capital that is
\* returned and capital that is owed make up what was contributed.
InProportion(a, b) == Times[a, Minus[One, ladder.split]] = Times[b, ladder.split]
PartiesRankEqually ==
  walk # "idle" =>
    /\ InProportion(lp.unreturned, gp.unreturned) /\ InProportion(lp.accrued, gp.accrued)
    /\ InProportion(lp.roc, gp.roc) /\ InProportion(lp.pref, gp.pref)
    /\ \A p \in {lp, gp} : /\ p.contributions = Plus[p.roc, p.unreturned]
                           /\ AtMost[Zero, p.unreturned] /\ AtMost[Zero, p.accrued]

\* The worth of the LP's flows at a rate, in the year of the row.
Worth(h) == SumOver(lp.flows, LAMBDA i : Times[lp.flows[i].amount,
                                Power[Plus[One, h], series[row].year - lp.flows[i].year]])
GpShareOfProfit(share) ==
  Minus[Minus[gp.distributions, gp.roc],
        Times[share, Minus[Plus[lp.distributions, gp.distributions], Plus[lp.roc, gp.roc]]]]

\* Where a tier ends, as the format defines it (4.27): above Zero it is past.
Passed(t) ==
  LET em == Minus[lp.distributions, Times[t.em, lp.contributions]]
      irr == Worth(t.irr)
  IN CASE t.type = "return_of_capital" -> Minus[Zero, Plus[lp.unreturned, gp.unreturned]]
       [] t.type = "preferred_return" -> Minus[Zero, Plus[lp.accrued, gp.accrued]]
       [] t.type = "catch_up" -> GpShareOfProfit(t.target)
       [] t.type = "split" /\ t.irr = Zero -> em
       [] t.type = "split" /\ t.em = Zero -> irr
       [] OTHER -> IF t.mode = "any" THEN Larger[em, irr] ELSE Smaller[em, irr]

\* Each tier ends where its hurdle is met, "by construction, without iteration":
\* cash goes on to the next tier only when it is, and no payment overshoots it.
\* A catch-up after the preferred return fills too.
TiersEndAtTheirHurdles ==
  [][\A n \in DOMAIN ladder.tiers : LET t == ladder.tiers[n] IN
       ValidLadder(ladder) /\ PayTier /\ n = tier /\ (Kind(n) # "split" \/ Capped(t)) =>
         /\ left' # Zero => AtMost[Zero, Passed(t)']
         /\ left' # left => AtMost[Passed(t)', Zero]]_waterfallVars

\* "A GP cannot owe back more promote than it received", and with what it owes
\* before tax the LP is at its floor, or no promote is left.
Owed == DividedBy[clawback, Minus[One, ladder.clawback.tax]]
LpAtFloor ==
  LET floor == ladder.clawback.floor
      last == series[Len(series)].year
      worth == SumOver(lp.flows, LAMBDA i : Times[lp.flows[i].amount,
                                     Power[Plus[One, floor], last - lp.flows[i].year]])
  IN CASE ladder.clawback.basis = "preferred" -> AtMost[Plus[lp.unreturned, lp.accrued], Owed]
       [] ladder.clawback.basis = "em" ->
            AtMost[Times[floor, lp.contributions], Plus[lp.distributions, Owed]]
       [] ladder.clawback.basis = "irr" -> AtMost[Zero, Plus[worth, Owed]]
       [] OTHER -> TRUE
ClawbackMakesWhole ==
  walk = "done" /\ ValidLadder(ladder) =>
    /\ AtMost[Zero, clawback] /\ AtMost[Owed, Larger[Zero, Promote]]
    /\ LpAtFloor \/ Owed = Larger[Zero, Promote]
=============================================================================
