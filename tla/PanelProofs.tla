----------------------------- MODULE PanelProofs -----------------------------
(***************************************************************************)
(* The theorems about the web editor's deal and its receipt panel, for any  *)
(* files, edits, receipts and bounds.                                       *)
(***************************************************************************)
EXTENDS ReceiptPanel, TLAPS

-----------------------------------------------------------------------------
(* The deal.                                                               *)

\* What the unsaved marker compares with, and the sample, are there as files.
OriginalIsSaved == Begun(Sample) \in disk /\ (original # None => original \in disk)

LEMMA DealStartsSaved == DealInit => OriginalIsSaved
BY SampleIsAFile, Zenon DEF DealInit, OriginalIsSaved

LEMMA DealStaysSaved ==
  ASSUME OriginalIsSaved, DealNext PROVE OriginalIsSaved'
<1>1. CASE OpenFile
  BY <1>1, Zenon DEF OpenFile, Show, OriginalIsSaved
<1>2. CASE LoadSample
  BY <1>2, Zenon DEF LoadSample, Show, OriginalIsSaved
<1>3. CASE NewDeal
  BY <1>3, Zenon DEF NewDeal, Show, OriginalIsSaved
<1>4. CASE ApplyOp
  BY <1>4, Zenon DEF ApplyOp, OriginalIsSaved
<1>5. CASE Undo
  BY <1>5, Zenon DEF Undo, OriginalIsSaved
<1>6. CASE Redo
  BY <1>6, Zenon DEF Redo, OriginalIsSaved
<1>7. CASE Download
  BY <1>7, Zenon DEF Download, OriginalIsSaved
<1>8. CASE SelectTab
  BY <1>8, Zenon DEF SelectTab, OriginalIsSaved
<1>9. QED
  BY <1>1, <1>2, <1>3, <1>4, <1>5, <1>6, <1>7, <1>8, Zenon DEF DealNext

-----------------------------------------------------------------------------
(* Receipts and verdicts.                                                  *)

\* The receipts a panel may come to hold.
Held(r) == r \in FileReceipts \/ \E t : r = IssuedOver(t)

\* A receipt this session issued is stale when it does not match, and fails only
\* where it does: the dictionary refused a size.
LEMMA OwnReceiptsAreJudged ==
  ASSUME NEW r, Held(r), r.issuedFrom # None, NEW text
  PROVE  /\ Assess(r, text) = "failed" =>
              Canonical(text) = Canonical(r.issuedFrom) /\ Condition(text) = "negative"
         /\ Assess(r, text) = "stale" => Canonical(text) # Canonical(r.issuedFrom)
<1>1. PICK t : r = IssuedOver(t)
  BY FileReceiptsAreLoaded, Zenon DEF Held
<1>2. r.digest = Canonical(t) /\ r.comparable /\ r.rest = "verified" /\ r.issuedFrom = t
  BY <1>1, Zenon DEF IssuedOver
<1>3. "verified" # "failed" /\ "unverifiable" # "failed" /\ "stale" # "failed"
      /\ "verified" # "stale" /\ "unverifiable" # "stale"
  OBVIOUS
<1>4. CASE Canonical(t) = Canonical(text)
  <2>1. ~DigestDiffers(r, text)
    BY <1>2, <1>4, Zenon DEF DigestDiffers
  <2>2. Assess(r, text) = Verify(r, text)
    BY <2>1, Zenon DEF Assess
  <2>3. Verify(r, text) = IF DictionaryRefuses(r, text) THEN "failed" ELSE "verified"
    BY <2>1, <1>2, <1>4, Zenon DEF Verify
  <2>4. Verify(r, text) = "failed" => Condition(text) = "negative"
    BY <2>3, <1>3, Zenon DEF DictionaryRefuses
  <2>5. Verify(r, text) # "stale"
    BY <2>3, <1>3, Zenon
  <2> QED
    BY <2>2, <2>4, <2>5, <1>2, <1>4, Zenon
<1>5. CASE Canonical(t) # Canonical(text)
  <2>1. DigestDiffers(r, text) /\ r.issuedFrom # text
    BY <1>2, <1>5, Zenon DEF DigestDiffers
  <2>2. Verify(r, text) = "failed"
    BY <2>1, <1>2, <1>5, Zenon DEF Verify
  <2>3. Assess(r, text) = "stale"
    BY <2>1, <2>2, Zenon DEF Assess
  <2> QED
    BY <2>3, <1>2, <1>3, <1>5, Zenon
<1>6. QED
  BY <1>4, <1>5, Zenon

\* The verdict an assessment is answered with.
Answered(a) == [of |-> a[1], over |-> a[2], status |-> Assess(a[1], a[2])]

LEMMA AnswersAreVerdicts ==
  ASSUME NEW a
  PROVE  /\ Answered(a) # NoVerdict
         /\ Answered(a).of = a[1] /\ Answered(a).over = a[2]
         /\ Answered(a).status = Assess(a[1], a[2])
<1> DEFINE v == Answered(a)
<1>1. DOMAIN v = {"of", "over", "status"} /\ v.of = a[1] /\ v.over = a[2]
      /\ v.status = Assess(a[1], a[2])
  BY Zenon DEF Answered
<1>2. v # NoVerdict
  <2>1. DOMAIN <<>> = {}
    OBVIOUS
  <2> HIDE DEF v
  <2> QED
    BY <1>1, <2>1, Zenon DEF NoVerdict
<1>3. QED
  BY <1>1, <1>2, Zenon

-----------------------------------------------------------------------------
(* The panel.                                                              *)

\* A verdict is what verification says of a receipt the panel may have held.
ReceiptsAreHeld ==
  /\ held # NoReceipt => Held(held)
  /\ verdict # NoVerdict => /\ Held(verdict.of)
                            /\ verdict.status = Assess(verdict.of, verdict.over)

\* The last run of the effect is all that counts: nothing but its assessment is
\* under way, and once that is answered the verdict on show is its answer.
LastRunCounts ==
  \/ watched = <<>> /\ assessing = {}
  \/ \E r, t :
       /\ watched = <<r, t>>
       /\ \/ r = NoReceipt /\ assessing = {}
          \/ /\ r # NoReceipt /\ Held(r)
             /\ \/ assessing = {<<r, t>>}
                \/ /\ assessing = {} /\ verdict # NoVerdict
                   /\ verdict.of = r /\ verdict.over = t

PanelInv == OriginalIsSaved /\ ReceiptsAreHeld /\ LastRunCounts

LEMMA PanelStarts == Init => PanelInv
BY DealStartsSaved, Zenon DEF Init, PanelInv, ReceiptsAreHeld, LastRunCounts

LEMMA DealStepsKeepTheInvariant ==
  ASSUME PanelInv, DealStep PROVE PanelInv'
<1>1. OriginalIsSaved'
  BY DealStaysSaved, Zenon DEF PanelInv, DealStep
<1>2. CASE UNCHANGED panelVars
  BY <1>1, <1>2, Zenon DEF PanelInv, ReceiptsAreHeld, LastRunCounts, panelVars
<1>3. CASE /\ held' = NoReceipt /\ verdict' = NoVerdict /\ watched' = <<>>
           /\ assessing' = {} /\ issuing' = None
  BY <1>1, <1>3, Zenon DEF PanelInv, ReceiptsAreHeld, LastRunCounts
<1>4. QED
  BY <1>2, <1>3, Zenon DEF DealStep

LEMMA EffectKeepsTheInvariant ==
  ASSUME PanelInv, RunEffect PROVE PanelInv'
<1>1. OriginalIsSaved' /\ held' = held /\ watched' = <<held, loaded>>
  BY Zenon DEF PanelInv, RunEffect, Deps, dealVars, OriginalIsSaved
<1>2. CASE held = NoReceipt
  <2>1. verdict' = NoVerdict /\ assessing' = {}
    BY <1>2, Zenon DEF RunEffect
  <2> QED
    BY <1>1, <1>2, <2>1, Zenon DEF PanelInv, ReceiptsAreHeld, LastRunCounts
<1>3. CASE held # NoReceipt
  <2>1. verdict' = verdict /\ assessing' = {<<held, loaded>>}
    BY <1>3, Zenon DEF RunEffect, Deps
  <2>2. Held(held)
    BY <1>3, Zenon DEF PanelInv, ReceiptsAreHeld
  <2>3. ReceiptsAreHeld'
    BY <1>1, <2>1, Zenon DEF PanelInv, ReceiptsAreHeld
  <2>4. LastRunCounts'
    BY <1>1, <1>3, <2>1, <2>2, Zenon DEF LastRunCounts
  <2> QED
    BY <1>1, <2>3, <2>4, Zenon DEF PanelInv
<1>4. QED
  BY <1>2, <1>3

LEMMA AnswersKeepTheInvariant ==
  ASSUME PanelInv, Answer PROVE PanelInv'
<1>1. PICK a \in assessing : verdict' = Answered(a) /\ assessing' = assessing \ {a}
  BY Zenon DEF Answer, Answered
<1>2. OriginalIsSaved' /\ held' = held /\ watched' = watched
  BY Zenon DEF Answer, PanelInv, dealVars, OriginalIsSaved
<1>3. PICK r, t : /\ watched = <<r, t>> /\ r # NoReceipt /\ Held(r)
                  /\ assessing = {<<r, t>>}
  BY <1>1, Zenon DEF PanelInv, LastRunCounts
<1>4. a = <<r, t>> /\ assessing' = {}
  BY <1>1, <1>3, Zenon
<1>5. a[1] = r /\ a[2] = t
  BY <1>4
<1>6. verdict' # NoVerdict /\ verdict'.of = r /\ verdict'.over = t
      /\ verdict'.status = Assess(r, t)
  BY <1>1, <1>5, AnswersAreVerdicts, Zenon
<1>7. ReceiptsAreHeld'
  BY <1>2, <1>3, <1>6, Zenon DEF PanelInv, ReceiptsAreHeld
<1>8. LastRunCounts'
  BY <1>2, <1>3, <1>4, <1>6, Zenon DEF LastRunCounts
<1>9. QED
  BY <1>2, <1>7, <1>8, Zenon DEF PanelInv

LEMMA PanelKeepsTheInvariant ==
  ASSUME PanelInv, [Next]_vars PROVE PanelInv'
<1>1. CASE DealStep
  BY <1>1, DealStepsKeepTheInvariant
<1>2. CASE RunEffect
  BY <1>2, EffectKeepsTheInvariant
<1>3. CASE Answer
  BY <1>3, AnswersKeepTheInvariant
<1>4. CASE Issue
  BY <1>4, Zenon DEF Issue, PanelInv, OriginalIsSaved, ReceiptsAreHeld, LastRunCounts, dealVars
<1>5. CASE Issued
  <2>1. held' # NoReceipt => Held(held')
    BY <1>5, Zenon DEF Issued, Held
  <2> QED
    BY <1>5, <2>1, Zenon
    DEF Issued, PanelInv, OriginalIsSaved, ReceiptsAreHeld, LastRunCounts, dealVars
<1>6. CASE LoadReceipt
  <2>1. held' # NoReceipt => Held(held')
    BY <1>6, Zenon DEF LoadReceipt, Held
  <2> QED
    BY <1>6, <2>1, Zenon
    DEF LoadReceipt, PanelInv, OriginalIsSaved, ReceiptsAreHeld, LastRunCounts, dealVars
<1>7. CASE UNCHANGED vars
  BY <1>7, Zenon
  DEF vars, dealVars, panelVars, PanelInv, OriginalIsSaved, ReceiptsAreHeld, LastRunCounts
<1>8. QED
  BY <1>1, <1>2, <1>3, <1>4, <1>5, <1>6, <1>7, Zenon DEF Next

THEOREM PanelInvariance == Spec => []PanelInv
BY PanelStarts, PanelKeepsTheInvariant, PTL DEF Spec

\* A deal without the unsaved marker exists as a file, whatever was opened,
\* undone, redone, begun or downloaded, and in whatever order.
THEOREM CleanStaysSaved == Spec => []CleanMeansSaved
<1>1. PanelInv => CleanMeansSaved
  BY Zenon DEF PanelInv, OriginalIsSaved, CleanMeansSaved, Dirty
<1>2. QED
  BY <1>1, PanelInvariance, PTL

\* With no assessment under way the verdict on show is that of the receipt held
\* over the deal that is open: a late answer of an earlier one never stays.
THEOREM SettledVerdictStaysCurrent == Spec => []SettledVerdictIsCurrent
<1>1. PanelInv => SettledVerdictIsCurrent
  <2> SUFFICES ASSUME PanelInv, held # NoReceipt, watched = Deps, assessing = {}
               PROVE  IsCurrent
    BY Zenon DEF SettledVerdictIsCurrent
  <2>1. watched = <<held, loaded>>
    BY Zenon DEF Deps
  <2>2. watched # <<>>
    BY <2>1
  <2>3. PICK r, t : /\ watched = <<r, t>>
                    /\ \/ r = NoReceipt
                       \/ verdict # NoVerdict /\ verdict.of = r /\ verdict.over = t
    BY <2>2, Zenon DEF PanelInv, LastRunCounts
  <2>4. r = held /\ t = loaded
    BY <2>1, <2>3
  <2> QED
    BY <2>1, <2>3, <2>4, Zenon DEF IsCurrent, Deps
<1>2. QED
  BY <1>1, PanelInvariance, PTL

\* A receipt issued here reads as failed only over the content it was issued
\* over, with a size below zero, and as stale only over another content: not for
\* edits, and not because the deal changed while it was issued.
THEOREM EditsStayUnblamed == Spec => []EditsAreNotBlamed
<1>1. PanelInv => EditsAreNotBlamed
  BY OwnReceiptsAreJudged, Zenon DEF PanelInv, ReceiptsAreHeld, EditsAreNotBlamed, OnShow
<1>2. QED
  BY <1>1, PanelInvariance, PTL
=============================================================================
