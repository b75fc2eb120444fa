------------------------------ MODULE Receipts ------------------------------
(***************************************************************************)
(* A verification receipt from issuance to verification: issueReceipt and     *)
(* verifyReceipt of @uwmd/verify (receipts.ts), and what may happen between   *)
(* them to the record, the documents it was computed with, the receipt and    *)
(* the verifier's release. verifyReceipt works on a snapshot of its           *)
(* arguments, so a verification is one step; it is an operator here, for the  *)
(* properties ask it with every knowledge a verifier may have.              *)
(*                                                                         *)
(* Digests are taken to be injective and are what they cover. A figure is a   *)
(* value with its unit, quantized.                                          *)
(***************************************************************************)
EXTENDS Integers, FiniteSets, Functions

CONSTANTS
  Calcs,       \* ids of calculations
  Dictionary,  \* those the metric dictionary defines for the record's class
  Packs,       \* calculation packs: their id, version and outputs
  Financials,    \* financial contents of a record, as the inputs each calc finds
  Reformed,    \* those whose canonical form is not the same in all releases
  Broken,      \* a record that cannot be canonicalized
  Referenced,  \* documents a computation may have used besides the record
  Releases,    \* of the verifier: its engine, canonicalization and arithmetic
  NoReceipt, Unsigned,
  RuleSet,     \* the rule set the record's Format version names
  MaxEvents    \* bound on what happens after issuance

\* What a calculation finds in a record: inputs, none, ones it cannot evaluate,
\* or a size below zero, which only the dictionary's evaluator looks at.
Findings == {"this", "that", "nothing", "nonsense", "negative"}

ASSUME FinancialsAreFound == Financials \subseteq [Calcs -> Findings]
ASSUME DictionaryIsOfCalcs == Dictionary \subseteq Calcs
ASSUME PacksHaveOutputs ==
  \A p \in Packs : p.outputs \subseteq Calcs /\ p.outputs # {}
ASSUME VersionsArePublishedOnce ==
  \A p, q \in Packs : p.id = q.id /\ p.version = q.version => p = q
ASSUME EnginesAreDeterministic ==
  \A b, c \in Releases : b.engine = c.engine => b.drift = c.drift

VARIABLES
  record,    \* the content of the record, or Broken
  inputs,    \* by referenced document: its digest now
  release,   \* the release that issues and verifies now
  receipt,
  origin,    \* the record, the inputs and the receipt as issued
  events     \* the number of things that happened since

receiptVars == <<record, inputs, release, receipt, origin, events>>

-----------------------------------------------------------------------------
(* Computation.                                                            *)

\* canonicalizeUWEnvelope and canonicalizeUWLiteFinancial, of one release.
DigestOf(content, b) == <<content, IF content \in Reformed THEN b.canon ELSE "any">>

Uncomputed == <<"uncomputed">>
Refused == <<"refused">>

\* A release may compute some figures otherwise (drift).
Computed(content, c, b) == <<"figure", content[c], c \in b.drift>>

\* evaluateCalc: absent inputs are a null, not a refusal.
PackFigure(content, c, b) ==
  CASE content[c] = "nothing" -> Uncomputed
    [] content[c] = "nonsense" -> Refused
    [] OTHER -> Computed(content, c, b)

\* verifyStatedMetric, as dictionaryReceiptResults reads it.
DictionaryFigure(content, c, b) ==
  CASE content[c] = "nothing" -> Uncomputed
    [] content[c] \in {"nonsense", "negative"} -> Refused
    [] OTHER -> Computed(content, c, b)

\* computeReceiptResults.
PackResults(pack, content, b) == [c \in pack.outputs |-> PackFigure(content, c, b)]

-----------------------------------------------------------------------------
(* Verification: what a verifier knows is the packs and the referenced        *)
(* documents it holds, and whether it has a signature backend.              *)

Payload(r) == [r EXCEPT !.signature = Unsigned]

References(r) == DOMAIN r.inputs
Mutated(r, know) == {i \in References(r) \cap know.inputs : inputs[i] # r.inputs[i]}

\* Mutant of Missing: a reference the verifier does not hold is passed over.
MissingIgnored(r, know) == {}

Missing(r, know) == References(r) \ know.inputs

\* lookupPack, and whether the one found is of the version named.
PacksHeld(r, know) == {p \in know.packs : p.id = r.pack}
PackAtHand(r, know) == {p \in PacksHeld(r, know) : p.version = r.version}

\* Mutant of Comparable: digests are compared across canonicalizations.
ComparableAlways(r, b) == TRUE

Comparable(r, b) == r.canon = b.canon

\* The results a verifier computes for itself: dictionary ids by the dictionary,
\* the others the pack at hand declares by the pack.
Recomputed(r, content, b, know) ==
  LET stated == DOMAIN r.results
      byPack == (UNION {p.outputs : p \in PackAtHand(r, know)}) \ Dictionary
  IN [c \in stated \cap (Dictionary \cup byPack) |->
        IF c \in Dictionary THEN DictionaryFigure(content, c, b) ELSE PackFigure(content, c, b)]

\* Mutant of Uncovered: a receipt may omit outputs.
UncoveredIfExtra(r, know) == \E p \in PackAtHand(r, know) : ~(DOMAIN r.results \subseteq p.outputs)

Uncovered(r, know) == \E p \in PackAtHand(r, know) : DOMAIN r.results # p.outputs

\* compareResults.
Disagrees(r, content, b, know) ==
  LET own == Recomputed(r, content, b, know)
  IN Uncovered(r, know) \/ \E c \in DOMAIN own : own[c] # r.results[c]

\* verifyReceipt, by the issue that decides; a recomputation that is refused is
\* an RCP-03 too.
Verdict(r, content, b, know) ==
  IF content = Broken THEN "RCP-09"
  ELSE IF r.digest # DigestOf(content, b) THEN IF Comparable(r, b) THEN "RCP-01" ELSE "RCP-10"
  ELSE IF Mutated(r, know) # {} THEN "RCP-12"
  ELSE IF r.ruleSet # RuleSet THEN "RCP-13"
  ELSE IF Missing(r, know) # {} THEN "RCP-11"
  ELSE IF r.signature # Unsigned /\ ~know.backend THEN "RCP-08"
  ELSE IF r.signature \notin {Unsigned, Payload(r)} THEN "RCP-01"
  ELSE IF Refused \in Range(Recomputed(r, content, b, know)) THEN "refused"
  ELSE IF Disagrees(r, content, b, know) THEN IF r.engine = b.engine THEN "RCP-03" ELSE "RCP-07"
  ELSE IF r.resultsDigest # r.results THEN "RCP-04"
  ELSE IF PacksHeld(r, know) = {} THEN "RCP-05"
  ELSE IF PackAtHand(r, know) = {} THEN "RCP-06"
  ELSE "verified"

Failures == {"RCP-01", "RCP-03", "RCP-04", "RCP-12", "RCP-13", "refused"}

-----------------------------------------------------------------------------
(* Actions.                                                                *)

\* issueReceipt: over a record that canonicalizes, when every output of the
\* pack evaluates. The host names the documents it used.
Issue(pack, used) ==
  /\ receipt = NoReceipt /\ record # Broken
  /\ LET results == PackResults(pack, record, release)
         issued == [digest |-> DigestOf(record, release), canon |-> release.canon,
                    pack |-> pack.id, version |-> pack.version, engine |-> release.engine,
                    ruleSet |-> RuleSet, results |-> results, resultsDigest |-> results,
                    inputs |-> [i \in used |-> inputs[i]], signature |-> Unsigned]
     IN /\ Refused \notin Range(results)
        /\ receipt' = issued
        /\ origin' = [record |-> record, inputs |-> inputs, receipt |-> issued]
  /\ UNCHANGED <<record, inputs, release, events>>

Happens == receipt # NoReceipt /\ events < MaxEvents /\ events' = events + 1 /\ UNCHANGED origin

\* The issuer signs what it issued.
Sign ==
  /\ Happens /\ receipt = origin.receipt
  /\ receipt' = [receipt EXCEPT !.signature = Payload(receipt)]
  /\ UNCHANGED <<record, inputs, release>>

\* The record is edited, or no longer parses.
EditRecord ==
  /\ Happens /\ record' \in Financials \cup {Broken}
  /\ UNCHANGED <<inputs, release, receipt>>

Republish(i) ==
  /\ Happens /\ inputs' = [inputs EXCEPT ![i] = 1 - @]
  /\ UNCHANGED <<record, release, receipt>>

Upgrade ==
  /\ Happens /\ release' \in Releases
  /\ UNCHANGED <<record, inputs, receipt>>

\* The receipt is altered: figures, with a digest to match or not, or one of
\* its claims.
Restated ==
  LET figures == {Computed(content, c, release) : content \in Financials, c \in Calcs} \cup {Uncomputed}
  IN {Restrict(receipt.results, DOMAIN receipt.results \ {c}) : c \in DOMAIN receipt.results}
     \cup {[d \in DOMAIN receipt.results \cup {c} |-> IF d = c THEN f ELSE receipt.results[d]] :
             c \in Calcs, f \in figures}

Alter ==
  /\ Happens
  /\ \/ \E results \in Restated : \E digest \in {results, receipt.resultsDigest} :
          receipt' = [receipt EXCEPT !.results = results, !.resultsDigest = digest]
     \/ \E i \in References(receipt) :
          receipt' = [receipt EXCEPT !.inputs = Restrict(@, DOMAIN @ \ {i})]
     \/ \E b \in Releases : \/ receipt' = [receipt EXCEPT !.engine = b.engine]
                            \/ receipt' = [receipt EXCEPT !.canon = b.canon]
     \/ \E p \in Packs : receipt' = [receipt EXCEPT !.pack = p.id, !.version = p.version]
     \/ receipt' = [receipt EXCEPT !.ruleSet = "other"]
     \/ receipt' = [receipt EXCEPT !.signature = Unsigned]
  /\ UNCHANGED <<record, inputs, release>>

Unissued ==
  /\ inputs = [i \in Referenced |-> 0]
  /\ receipt = NoReceipt /\ origin = NoReceipt /\ events = 0

ReceiptInit == record \in Financials /\ release \in Releases /\ Unissued

ReceiptNext ==
  \/ \E pack \in Packs, used \in SUBSET Referenced : Issue(pack, used)
  \/ Sign \/ EditRecord \/ Upgrade \/ Alter
  \/ \E i \in Referenced : Republish(i)

-----------------------------------------------------------------------------
(* Properties.                                                             *)

Knowledge ==
  [packs : {S \in SUBSET Packs : \A p, q \in S : p.id = q.id => p = q},
   inputs : SUBSET Referenced, backend : BOOLEAN]

KnowsMore(more, less) ==
  /\ less.packs \subseteq more.packs /\ less.inputs \subseteq more.inputs
  /\ less.backend => more.backend

Issued == receipt # NoReceipt

Untouched ==
  /\ Payload(receipt) = origin.receipt /\ record = origin.record /\ inputs = origin.inputs

\* UW_RECEIPT 5.5, "a verifier must not report that a document was tampered with
\* when the only thing that changed is its own arithmetic": where record, inputs
\* and receipt are what they were, no release, whatever it holds, answers
\* failed, except where its dictionary refuses the record.
UntouchedNeverFails ==
  Issued /\ Untouched =>
    \A know \in Knowledge : Verdict(receipt, record, release, know) \notin Failures \ {"refused"}

\* UW_RECEIPT 5, "Absence of evidence is not a negative result", nor a positive
\* one: a verifier that comes to hold more packs, inputs or a backend stays with
\* a verified receipt, and never comes to verify one it has failed.
KnowingMoreOnlySettles ==
  Issued =>
    LET verdict == [k \in Knowledge |-> Verdict(receipt, record, release, k)]
    IN \A less \in {k \in Knowledge : verdict[k] \in Failures \cup {"verified"}} :
         \A more \in Knowledge : KnowsMore(more, less) =>
           (verdict[less] = "verified" <=> verdict[more] = "verified")

\* UW_RECEIPT 5: what is verified states the digest and the complete results
\* that issuing over the record gives now, with the pack it names, and names no
\* input that has changed, however the receipt came to be what it is.
VerifiedIsReissued ==
  Issued /\ (\E know \in Knowledge : Verdict(receipt, record, release, know) = "verified") =>
    /\ receipt.digest = DigestOf(record, release)
    /\ \E p \in Packs :
         /\ p.id = receipt.pack /\ p.version = receipt.version
         /\ DOMAIN receipt.results = p.outputs
         /\ \A c \in p.outputs : receipt.results[c] = PackFigure(record, c, release)
    /\ \A i \in References(receipt) : receipt.inputs[i] = inputs[i]

ReceiptSpec == ReceiptInit /\ [][ReceiptNext]_receiptVars
=============================================================================
