----------------------------- MODULE MCReading -----------------------------
(***************************************************************************)
(* What is read out of a document: its blocks into views, a field into an     *)
(* answer, a cash-flow series into a distribution. They share no state: a     *)
(* behaviour is about one of them and the others stay as they begin.         *)
(***************************************************************************)
EXTENDS MCParser, MCAssumptions, MCWaterfall

VARIABLE running   \* the reading this behaviour is about

readingVars == <<running, envelopeVars, assumptionVars, waterfallVars>>

NoAssumptions == deal = [keyed |-> FALSE, peers |-> <<>>] /\ lineage = <<>> /\ AssumptionsInit
NoWaterfall ==
  /\ ladder = [split |-> One, tiers |-> <<Residual>>, clawback |-> NoClawback] /\ series = <<>>
  /\ walk = "idle" /\ row = 1 /\ tier = 1 /\ left = Zero
  /\ lp = NewParty /\ gp = NewParty /\ cells = <<>> /\ clawback = Zero

ReadingInit ==
  /\ running \in {"views", "assumptions", "waterfall"}
  /\ EnvelopeInit
  /\ IF running = "assumptions" THEN AssumptionsInit ELSE NoAssumptions
  /\ IF running = "waterfall" THEN WaterfallInit ELSE NoWaterfall

ReadingNext ==
  /\ UNCHANGED running
  /\ \/ running = "views" /\ EnvelopeNext /\ UNCHANGED <<assumptionVars, waterfallVars>>
     \/ running = "assumptions" /\ AssumptionsNext /\ UNCHANGED <<envelopeVars, waterfallVars>>
     \/ running = "waterfall" /\ WaterfallNext /\ UNCHANGED <<envelopeVars, assumptionVars>>

ReadingSpec == ReadingInit /\ [][ReadingNext]_readingVars
=============================================================================
