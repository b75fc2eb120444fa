---------------------------- MODULE ReceiptPanel ----------------------------
(***************************************************************************)
(* The receipt panel of the web editor (ReceiptPanel.tsx, receipts.ts) on the *)
(* deal of DealState. It is mounted while its tab is shown; issuing and      *)
(* verifying a receipt are asynchronous, and the deal can be undone, redone  *)
(* or replaced by the sample while they run.                                *)
(***************************************************************************)
EXTENDS DealState

CONSTANTS
  Financial,     \* the edits that change canonical financial content
  Finding,       \* what a file or an edit makes of the deal for its receipts
  FileReceipts,  \* receipts that can be loaded from a file
  NoReceipt      \* no receipt is held

\* A deal with a size below zero that a figure divides by, or one without; an
\* edit may leave that. All can be canonicalized: App converts what it shows in
\* the tab that files open in and edits are made in, and does not render the rest.
Findings == {"sound", "negative", "as before"}

ASSUME FindingsOfTexts == Finding \in [Files \cup {Scaffold} \cup Ops -> Findings]
\* The digest covers every size.
ASSUME FindingsAreFinancial == \A op \in Ops \ Financial : Finding[op] = "as before"
\* This session has issued none of those it loads.
ASSUME FileReceiptsAreLoaded == \A r \in FileReceipts : r.issuedFrom = None

\* Nothing is on show.
NoVerdict == <<>>

VARIABLES
  held,       \* the receipt the panel holds, or NoReceipt
  verdict,    \* the assessment on show, or NoVerdict
  watched,    \* the <<held, source>> the effect last ran for
  assessing,  \* assessments under way that have not been cancelled
  issuing     \* the text a receipt is being issued over, or None

panelVars == <<held, verdict, watched, assessing, issuing>>
vars == <<dealVars, panelVars>>

\* What the canonical digest of a text covers.
Canonical(text) ==
  [file |-> text.file, edits |-> SelectSeq(text.edits, LAMBDA op : op \in Financial)]

\* The condition a text is in: that of the last to bear on it.
Condition(text) ==
  LET bearing == SelectSeq(<<text.file>> \o text.edits, LAMBDA x : Finding[x] # "as before")
  IN IF bearing = <<>> THEN "sound" ELSE Finding[Last(bearing)]

\* A receipt: the digest of its subject, whether a digest of this verifier can be
\* compared with it, whether verifying comes to a figure of the dictionary that
\* divides by a size, what verification says if nothing is refused by then, and
\* the text this session issued it over (None when it came from a file). Not
\* comparable are a digest under another version (RCP-10) and one of a Lite
\* document, as which no text here can be read (RCP-09); no text has the latter.
\* issueReceipt states what the built-in pack evaluates to; the pack divides by
\* any size but zero.
IssuedOver(text) == [digest |-> Canonical(text), comparable |-> TRUE, perSize |-> TRUE,
                     rest |-> "verified", issuedFrom |-> text]

\* RCP-01 is a digest that differs under the same version.
DigestDiffers(r, text) == r.digest # Canonical(text)

\* The dictionary evaluates no figure over a size below zero (RCP-03).
DictionaryRefuses(r, text) == r.perSize /\ Condition(text) = "negative"

\* verifyReceipt, in its order: RCP-01, or RCP-09 or RCP-10, then RCP-03, the rest.
Verify(r, text) ==
  IF DigestDiffers(r, text) THEN IF r.comparable THEN "failed" ELSE "unverifiable"
  ELSE IF DictionaryRefuses(r, text) THEN "failed"
  ELSE r.rest

\* assess: a mismatch is stale when this session issued the receipt over
\* another text.
Assess(r, text) ==
  IF Verify(r, text) = "failed" /\ DigestDiffers(r, text) /\ r.issuedFrom \notin {None, text}
  THEN "stale" ELSE Verify(r, text)

-----------------------------------------------------------------------------
Mounted == tab = "receipt"
Deps == <<held, loaded>>

\* A step of the deal. Leaving the tab unmounts the panel: its state is gone,
\* the cleanup cancels, and what was under way sets the state of nothing.
DealStep ==
  /\ DealNext
  /\ \/ Mounted /\ tab' = "receipt" /\ UNCHANGED panelVars
     \/ /\ ~(Mounted /\ tab' = "receipt")
        /\ held' = NoReceipt /\ verdict' = NoVerdict /\ watched' = <<>>
        /\ assessing' = {} /\ issuing' = None

\* Mutants of RunEffect: no cleanup; `source` is not a dependency.
RunEffectUncancelled ==
  /\ Mounted /\ watched # Deps
  /\ watched' = Deps
  /\ IF held = NoReceipt
     THEN verdict' = NoVerdict /\ UNCHANGED assessing
     ELSE assessing' = assessing \cup {Deps} /\ UNCHANGED verdict
  /\ UNCHANGED <<dealVars, held, issuing>>
RunEffectOnReceipt ==
  /\ Mounted /\ ~(watched # <<>> /\ watched[1] = held)
  /\ watched' = Deps
  /\ IF held = NoReceipt
     THEN verdict' = NoVerdict /\ assessing' = {}
     ELSE assessing' = {Deps} /\ UNCHANGED verdict
  /\ UNCHANGED <<dealVars, held, issuing>>

\* The effect, after a render in which held or source (or filename) changed:
\* the cleanup of the run before cancels its assessment. The verdict on show
\* stays until the new assessment is answered.
RunEffect ==
  /\ Mounted /\ watched # Deps
  /\ watched' = Deps
  /\ IF held = NoReceipt
     THEN verdict' = NoVerdict /\ assessing' = {}
     ELSE assessing' = {Deps} /\ UNCHANGED verdict
  /\ UNCHANGED <<dealVars, held, issuing>>

\* An assessment resolves. (The rest of the panel admits only receipts that
\* assertUWReceipt does, so it does not reject.)
Answer ==
  /\ \E a \in assessing :
       /\ verdict' = [of |-> a[1], over |-> a[2], status |-> Assess(a[1], a[2])]
       /\ assessing' = assessing \ {a}
  /\ UNCHANGED <<dealVars, held, watched, issuing>>

\* onIssue up to its await; `busy` disables the button until it resolves.
Issue ==
  /\ Mounted /\ issuing = None
  /\ issuing' = loaded
  /\ UNCHANGED <<dealVars, held, verdict, watched, assessing>>

\* Mutant of Issued: the receipt is kept with the text on show by then.
IssuedLate ==
  /\ issuing # None
  /\ \/ held' = NoReceipt
     \/ held' = [IssuedOver(issuing) EXCEPT !.issuedFrom = loaded]
  /\ issuing' = None
  /\ UNCHANGED <<dealVars, verdict, watched, assessing>>

\* onIssue from its await on: the receipt, or an error and no receipt. It
\* replaces whatever was loaded meanwhile. A pack that does not evaluate is
\* refused.
Issued ==
  /\ issuing # None
  /\ \/ held' = NoReceipt
     \/ held' = IssuedOver(issuing)
  /\ issuing' = None
  /\ UNCHANGED <<dealVars, verdict, watched, assessing>>

\* onLoad, once the file is read.
LoadReceipt ==
  /\ Mounted
  /\ held' \in FileReceipts \cup {NoReceipt}
  /\ UNCHANGED <<dealVars, verdict, watched, assessing, issuing>>

Init ==
  /\ DealInit
  /\ held = NoReceipt /\ verdict = NoVerdict /\ watched = <<>>
  /\ assessing = {} /\ issuing = None

Next == DealStep \/ RunEffect \/ Answer \/ Issue \/ Issued \/ LoadReceipt

\* React runs the effects of what it has rendered, and an assessment is a
\* computation that ends: both go on whatever the user does or does not do.
Spec == Init /\ [][Next]_vars /\ WF_vars(RunEffect) /\ WF_vars(Answer)

-----------------------------------------------------------------------------
(* Properties.                                                             *)

PanelTypeOK ==
  /\ DealTypeOK
  /\ held = NoReceipt \/ held \in FileReceipts \/ held = IssuedOver(held.issuedFrom)
  /\ verdict = NoVerdict \/ verdict.status = Assess(verdict.of, verdict.over)
  /\ issuing \in Text \cup {None}

OnShow == Mounted /\ held # NoReceipt /\ verdict # NoVerdict
IsCurrent == verdict # NoVerdict /\ <<verdict.of, verdict.over>> = Deps

\* "so the panel never shows a verdict that predates the current document"
\* (ReceiptPanel.tsx): a verdict on show is for the receipt held and the deal
\* that is open.
VerdictIsCurrent == OnShow => IsCurrent

\* When nothing is under way the verdict is for the receipt held and the deal
\* open: no late answer of an earlier assessment is left on show.
SettledVerdictIsCurrent ==
  Mounted /\ held # NoReceipt /\ watched = Deps /\ assessing = {} => IsCurrent

\* "A receipt that stopped matching because the user just edited the deal in
\* this editor is not evidence of tampering" (receipts.ts): a receipt issued
\* here reads as failed only over a deal with the content it was issued over,
\* whose size below zero the verifier's dictionary refuses, and as stale only
\* over another content. Neither an edit, an undo or another deal makes it fail,
\* nor does a deal that changes while it is issued.
EditsAreNotBlamed ==
  OnShow /\ verdict.of.issuedFrom # None =>
    LET unchanged == Canonical(verdict.over) = Canonical(verdict.of.issuedFrom)
    IN /\ verdict.status = "failed" => unchanged /\ Condition(verdict.over) = "negative"
       /\ verdict.status = "stale" => ~unchanged

\* Once the user leaves the editor alone, the panel comes to show the verdict
\* of the receipt it holds over the deal that is open.
QuietUser == <>[][RunEffect \/ Answer \/ Issued]_vars
VerdictSettles == QuietUser => <>[](Mounted /\ held # NoReceipt => IsCurrent)
=============================================================================
