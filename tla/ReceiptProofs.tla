--------------------------- MODULE ReceiptProofs ---------------------------
(***************************************************************************)
(* What a verdict on a receipt means, for any calculations, packs, releases   *)
(* and knowledge of a verifier.                                             *)
(*                                                                         *)
(* The first two theorems hold of any receipt at all: they are about the     *)
(* order in which verifyReceipt decides. The third needs to know how receipts  *)
(* come about: the invariant keeps what issuing made of the record.         *)
(***************************************************************************)
EXTENDS Receipts, TLAPS

\* What the verdict "verified" and a failure other than a refusal stand for.
Passes(r, content, b, know) ==
  /\ content # Broken /\ r.digest = DigestOf(content, b)
  /\ Mutated(r, know) = {} /\ r.ruleSet = RuleSet /\ Missing(r, know) = {}
  /\ r.signature # Unsigned => know.backend
  /\ r.signature \in {Unsigned, Payload(r)}
  /\ Refused \notin Range(Recomputed(r, content, b, know))
  /\ ~Disagrees(r, content, b, know)
  /\ r.resultsDigest = r.results
  /\ PackAtHand(r, know) # {}

Fails(r, content, b, know) ==
  /\ content # Broken
  /\ \/ r.digest # DigestOf(content, b) /\ Comparable(r, b)
     \/ Mutated(r, know) # {}
     \/ r.ruleSet # RuleSet
     \/ r.signature \notin {Unsigned, Payload(r)}
     \/ /\ Refused \notin Range(Recomputed(r, content, b, know))
        /\ Disagrees(r, content, b, know) /\ r.engine = b.engine
     \/ r.resultsDigest # r.results

IsRefused(r, content, b, know) == Refused \in Range(Recomputed(r, content, b, know))

LEMMA Verdicts ==
  ASSUME NEW r, NEW content, NEW b, NEW know
  PROVE  /\ Verdict(r, content, b, know) = "verified" <=> Passes(r, content, b, know)
         /\ Verdict(r, content, b, know) \in Failures \ {"refused"} => Fails(r, content, b, know)
         /\ Verdict(r, content, b, know) = "refused" => IsRefused(r, content, b, know)
<1>1. PackAtHand(r, know) # {} => PacksHeld(r, know) # {}
  BY Zenon DEF PackAtHand
<1>2. Verdict(r, content, b, know) = "verified" <=> Passes(r, content, b, know)
  BY <1>1, SMT DEF Verdict, Passes
<1>3. Verdict(r, content, b, know) \in Failures \ {"refused"} => Fails(r, content, b, know)
  BY SMT DEF Verdict, Fails, Failures
<1>4. Verdict(r, content, b, know) = "refused" => IsRefused(r, content, b, know)
  BY SMT DEF Verdict, IsRefused
<1> QED
  BY <1>2, <1>3, <1>4

-----------------------------------------------------------------------------
\* Dictionary and pack give the same figure where the dictionary gives one.
LEMMA FiguresAgree ==
  ASSUME NEW content, NEW c, NEW b, DictionaryFigure(content, c, b) # Refused
  PROVE  DictionaryFigure(content, c, b) = PackFigure(content, c, b)
BY SMT DEF DictionaryFigure, PackFigure

LEMMA RecomputedDomain ==
  ASSUME NEW r, NEW content, NEW b, NEW know
  PROVE  DOMAIN Recomputed(r, content, b, know) =
           DOMAIN r.results \cap (Dictionary \cup ((UNION {p.outputs : p \in PackAtHand(r, know)}) \ Dictionary))
BY Zenon DEF Recomputed

\* A receipt that passes holds the figures of the pack it names, all of them.
LEMMA PassingIsReissued ==
  ASSUME NEW r, NEW content, NEW b, NEW know, know.packs \subseteq Packs, Passes(r, content, b, know)
  PROVE  \E p \in Packs :
           /\ p.id = r.pack /\ p.version = r.version
           /\ DOMAIN r.results = p.outputs
           /\ \A c \in p.outputs : r.results[c] = PackFigure(content, c, b)
<1> DEFINE own == Recomputed(r, content, b, know)
<1>1. PICK q \in PackAtHand(r, know) : TRUE
  BY DEF Passes
<1>2. q \in Packs /\ q.id = r.pack /\ q.version = r.version
  BY <1>1 DEF PackAtHand, PacksHeld
<1>3. /\ ~Uncovered(r, know)
      /\ \A c \in DOMAIN own : own[c] = r.results[c]
      /\ Refused \notin Range(own)
  BY Zenon DEF Passes, Disagrees
<1>4. DOMAIN r.results = q.outputs
  BY <1>1, <1>3 DEF Uncovered
<1>5. ASSUME NEW c \in q.outputs PROVE r.results[c] = PackFigure(content, c, b)
  <2> DEFINE offered == UNION {p.outputs : p \in PackAtHand(r, know)}
             declared == offered \ Dictionary
  <2>3. DOMAIN own = DOMAIN r.results \cap (Dictionary \cup declared)
    BY RecomputedDomain
  <2>1. c \in DOMAIN own
    <3>1. c \in Dictionary \cup declared
      <4>1. q.outputs \in {p.outputs : p \in PackAtHand(r, know)}
        BY <1>1, Zenon
      <4>2. c \in offered
        BY <4>1, Zenon
      <4> HIDE DEF offered
      <4> QED
        BY <4>2
    <3> HIDE DEF own, declared
    <3> QED
      BY <1>4, <2>3, <3>1
  <2>2. /\ own[c] = r.results[c] /\ own[c] # Refused
        /\ own[c] = IF c \in Dictionary THEN DictionaryFigure(content, c, b) ELSE PackFigure(content, c, b)
    <3>1. own[c] = r.results[c]
      BY <1>3, <2>1
    <3>2. own[c] # Refused
      BY <1>3, <2>1, Zenon DEF Range
    <3>3. own[c] = IF c \in Dictionary THEN DictionaryFigure(content, c, b) ELSE PackFigure(content, c, b)
      BY <2>1, Zenon DEF Recomputed
    <3> HIDE DEF own
    <3> QED
      BY <3>1, <3>2, <3>3
  <2> HIDE DEF own
  <2> QED
    BY <2>2, FiguresAgree
<1> QED
  BY <1>2, <1>4, <1>5

\* A receipt that verifies states what issuing over the record gives now and
\* names no input that has changed, whoever made it (verifyReceipt).
THEOREM VerifiedStaysReissued == ReceiptSpec => []VerifiedIsReissued
<1>1. VerifiedIsReissued
  <2> SUFFICES ASSUME NEW know \in Knowledge, Verdict(receipt, record, release, know) = "verified"
               PROVE  /\ receipt.digest = DigestOf(record, release)
                      /\ \E p \in Packs :
                           /\ p.id = receipt.pack /\ p.version = receipt.version
                           /\ DOMAIN receipt.results = p.outputs
                           /\ \A c \in p.outputs : receipt.results[c] = PackFigure(record, c, release)
                      /\ \A i \in References(receipt) : receipt.inputs[i] = inputs[i]
    BY DEF VerifiedIsReissued
  <2>1. Passes(receipt, record, release, know) /\ know.packs \subseteq Packs
    BY Verdicts DEF Knowledge
  <2>2. \A i \in References(receipt) : receipt.inputs[i] = inputs[i]
    BY <2>1 DEF Passes, Mutated, Missing
  <2> QED
    BY <2>1, <2>2, PassingIsReissued DEF Passes
<1> QED
  BY <1>1, PTL

-----------------------------------------------------------------------------
LEMMA MoreIsHeld ==
  ASSUME NEW r, NEW content, NEW b, NEW less \in Knowledge, NEW more \in Knowledge, KnowsMore(more, less)
  PROVE  /\ Mutated(r, less) \subseteq Mutated(r, more)
         /\ Missing(r, less) = {} => Missing(r, more) = {} /\ Mutated(r, more) \subseteq Mutated(r, less)
         /\ PackAtHand(r, less) # {} => PackAtHand(r, more) = PackAtHand(r, less)
         /\ PackAtHand(r, less) \subseteq PackAtHand(r, more)
<1>1. /\ less.inputs \subseteq more.inputs /\ less.packs \subseteq more.packs
      /\ \A p, q \in more.packs : p.id = q.id => p = q
  BY DEF KnowsMore, Knowledge
<1>2. Mutated(r, less) \subseteq Mutated(r, more)
  BY <1>1 DEF Mutated
<1>3. Missing(r, less) = {} => Missing(r, more) = {} /\ Mutated(r, more) \subseteq Mutated(r, less)
  BY <1>1 DEF Missing, Mutated
<1>4. PackAtHand(r, less) \subseteq PackAtHand(r, more)
  BY <1>1 DEF PackAtHand, PacksHeld
<1>5. PackAtHand(r, less) # {} => PackAtHand(r, more) = PackAtHand(r, less)
  BY <1>1 DEF PackAtHand, PacksHeld
<1> QED
  BY <1>2, <1>3, <1>4, <1>5

\* What a verifier that knows less recomputes, one that knows more does too,
\* and finds wrong what the other found wrong.
LEMMA MoreIsRecomputed ==
  ASSUME NEW r, NEW content, NEW b, NEW less \in Knowledge, NEW more \in Knowledge, KnowsMore(more, less)
  PROVE  /\ IsRefused(r, content, b, less) => IsRefused(r, content, b, more)
         /\ Disagrees(r, content, b, less) => Disagrees(r, content, b, more)
         /\ PackAtHand(r, less) # {} =>
              Recomputed(r, content, b, more) = Recomputed(r, content, b, less)
              /\ (Disagrees(r, content, b, more) => Disagrees(r, content, b, less))
<1> DEFINE known == Recomputed(r, content, b, less)
           own == Recomputed(r, content, b, more)
<1>1. PackAtHand(r, less) \subseteq PackAtHand(r, more)
  BY MoreIsHeld
<1>2. PackAtHand(r, less) # {} => PackAtHand(r, more) = PackAtHand(r, less)
  BY MoreIsHeld
<1>3. ASSUME NEW c \in DOMAIN known PROVE c \in DOMAIN own /\ own[c] = known[c]
  <2> DEFINE declared(k) == (UNION {p.outputs : p \in PackAtHand(r, k)}) \ Dictionary
             figure == IF c \in Dictionary THEN DictionaryFigure(content, c, b) ELSE PackFigure(content, c, b)
  <2>1. /\ DOMAIN known = DOMAIN r.results \cap (Dictionary \cup declared(less))
        /\ DOMAIN own = DOMAIN r.results \cap (Dictionary \cup declared(more))
    BY Zenon DEF Recomputed
  <2>2. c \in DOMAIN own
    <3>1. declared(less) \subseteq declared(more)
      BY <1>1
    <3> HIDE DEF known, own, declared
    <3> QED
      BY <2>1, <3>1
  <2>3. known[c] = figure /\ own[c] = figure
    <3>1. \A d \in DOMAIN known : known[d] =
            IF d \in Dictionary THEN DictionaryFigure(content, d, b) ELSE PackFigure(content, d, b)
      BY Zenon DEF Recomputed
    <3>2. \A d \in DOMAIN own : own[d] =
            IF d \in Dictionary THEN DictionaryFigure(content, d, b) ELSE PackFigure(content, d, b)
      BY Zenon DEF Recomputed
    <3> HIDE DEF known, own
    <3> QED
      BY <2>2, <3>1, <3>2, Zenon
  <2> HIDE DEF known, own, figure
  <2> QED
    BY <2>2, <2>3
<1>4. IsRefused(r, content, b, less) => IsRefused(r, content, b, more)
  <2>1. /\ IsRefused(r, content, b, less) <=> \E c \in DOMAIN known : known[c] = Refused
        /\ IsRefused(r, content, b, more) <=> \E c \in DOMAIN own : own[c] = Refused
    <3>1. IsRefused(r, content, b, less) <=> \E c \in DOMAIN known : known[c] = Refused
      BY Zenon DEF IsRefused, Range
    <3>2. IsRefused(r, content, b, more) <=> \E c \in DOMAIN own : own[c] = Refused
      BY Zenon DEF IsRefused, Range
    <3> QED
      BY <3>1, <3>2
  <2> HIDE DEF known, own
  <2> QED
    BY <1>3, <2>1, Zenon
<1>5. Disagrees(r, content, b, less) => Disagrees(r, content, b, more)
  BY <1>1, <1>3, Zenon DEF Disagrees, Uncovered
<1>6. PackAtHand(r, less) # {} => own = known
  BY <1>2, Zenon DEF Recomputed
<1>7. PackAtHand(r, less) # {} /\ Disagrees(r, content, b, more) => Disagrees(r, content, b, less)
  BY <1>2, <1>6, Zenon DEF Disagrees, Uncovered
<1> QED
  BY <1>4, <1>5, <1>6, <1>7, Zenon

\* Holding more packs, inputs or a signature backend never turns "failed" into
\* "verified" or away from it (the order of the checks in verifyReceipt).
THEOREM KnowingMoreStaysSettled == ReceiptSpec => []KnowingMoreOnlySettles
<1>1. KnowingMoreOnlySettles
  <2> DEFINE verdict(k) == Verdict(receipt, record, release, k)
             passes(k) == Passes(receipt, record, release, k)
  <2>1. ASSUME NEW less \in Knowledge, NEW more \in Knowledge, KnowsMore(more, less),
               verdict(less) \in Failures \cup {"verified"}
        PROVE  verdict(less) = "verified" <=> verdict(more) = "verified"
    <3>1. ASSUME passes(less) PROVE passes(more)
      <4>1. /\ Missing(receipt, more) = {} /\ Mutated(receipt, more) = {}
            /\ PackAtHand(receipt, more) # {}
        BY <3>1, <2>1, MoreIsHeld, Zenon DEF Passes
      <4>2. /\ Recomputed(receipt, record, release, more) = Recomputed(receipt, record, release, less)
            /\ ~Disagrees(receipt, record, release, more)
        BY <3>1, <2>1, MoreIsRecomputed, Zenon DEF Passes
      <4>3. receipt.signature # Unsigned => more.backend
        BY <3>1, <2>1, Zenon DEF Passes, KnowsMore
      <4> QED
        BY <3>1, <4>1, <4>2, <4>3, Zenon DEF Passes
    <3>2. ASSUME passes(more), ~passes(less) PROVE FALSE
      <4>1. Fails(receipt, record, release, less) \/ IsRefused(receipt, record, release, less)
        BY <3>2, <2>1, Verdicts, Zenon
      <4>2. ~IsRefused(receipt, record, release, less)
        BY <3>2, <2>1, MoreIsRecomputed, Zenon DEF Passes, IsRefused
      <4>3. ~Disagrees(receipt, record, release, less)
        BY <3>2, <2>1, MoreIsRecomputed, Zenon DEF Passes
      <4>4. Mutated(receipt, less) = {}
        BY <3>2, <2>1, MoreIsHeld DEF Passes
      <4> QED
        BY <3>2, <4>1, <4>2, <4>3, <4>4, Zenon DEF Passes, Fails
    <3> QED
      BY <3>1, <3>2, Verdicts, Zenon
  <2> QED
    BY <2>1, Zenon DEF KnowingMoreOnlySettles
<1> QED
  BY <1>1, PTL

-----------------------------------------------------------------------------
\* What issuing made, and who may have signed it since.
ReceiptFields ==
  {"digest", "canon", "pack", "version", "engine", "ruleSet", "results", "resultsDigest",
   "inputs", "signature"}

\* `i` is what issueReceipt made of `content` with pack `p` at release `b`.
IsIssued(i, content, b, p, given) ==
  /\ content # Broken
  /\ i.digest = DigestOf(content, b) /\ i.canon = b.canon /\ i.engine = b.engine
  /\ i.pack = p.id /\ i.version = p.version /\ i.ruleSet = RuleSet
  /\ DOMAIN i.results = p.outputs
  /\ \A c \in p.outputs : i.results[c] = PackFigure(content, c, b)
  /\ i.resultsDigest = i.results
  /\ \A d \in DOMAIN i.inputs : i.inputs[d] = given[d]
  /\ i.signature = Unsigned /\ Payload(i) = i

ReceiptInv ==
  /\ release \in Releases
  /\ receipt # NoReceipt =>
       /\ DOMAIN receipt = ReceiptFields
       /\ receipt.signature \in {Unsigned, origin.receipt}
       /\ \E b \in Releases, p \in Packs :
            IsIssued(origin.receipt, origin.record, b, p, origin.inputs)

\* A payload is the receipt but for its signature.
LEMMA PayloadFacts ==
  ASSUME NEW r, DOMAIN r = ReceiptFields
  PROVE  /\ Payload(r).digest = r.digest /\ Payload(r).canon = r.canon
         /\ Payload(r).pack = r.pack /\ Payload(r).version = r.version
         /\ Payload(r).engine = r.engine /\ Payload(r).ruleSet = r.ruleSet
         /\ Payload(r).results = r.results /\ Payload(r).resultsDigest = r.resultsDigest
         /\ Payload(r).inputs = r.inputs
BY SMT DEF Payload, ReceiptFields

LEMMA Init_ReceiptInv == ReceiptInit => ReceiptInv
BY DEF ReceiptInit, Unissued, ReceiptInv

LEMMA Issue_ReceiptInv ==
  ASSUME ReceiptInv, NEW p \in Packs, NEW used \in SUBSET Referenced, Issue(p, used)
  PROVE  ReceiptInv'
<1> DEFINE results == PackResults(p, record, release)
           given == [i \in used |-> inputs[i]]
           issued == [digest |-> DigestOf(record, release), canon |-> release.canon,
                      pack |-> p.id, version |-> p.version, engine |-> release.engine,
                      ruleSet |-> RuleSet, results |-> results, resultsDigest |-> results,
                      inputs |-> given, signature |-> Unsigned]
<1>1. /\ receipt' = issued /\ origin' = [record |-> record, inputs |-> inputs, receipt |-> issued]
      /\ record # Broken /\ release' = release /\ release \in Releases
  BY Zenon DEF Issue, ReceiptInv
<1>2. DOMAIN results = p.outputs /\ \A c \in p.outputs : results[c] = PackFigure(record, c, release)
  BY Zenon DEF PackResults
<1>3. \A d \in DOMAIN given : given[d] = inputs[d]
  BY Zenon
<1> HIDE DEF results, given
<1>4. DOMAIN issued = ReceiptFields /\ issued.signature = Unsigned /\ Payload(issued) = issued
  BY SMT DEF ReceiptFields, Payload
<1>5. IsIssued(issued, record, release, p, inputs)
  BY <1>1, <1>2, <1>3, <1>4, SMT DEF IsIssued
<1> HIDE DEF issued
<1>6. origin'.receipt = issued /\ origin'.record = record /\ origin'.inputs = inputs
  BY <1>1, SMT
<1> QED
  BY <1>1, <1>4, <1>5, <1>6, Zenon DEF ReceiptInv

\* What happens to a receipt leaves its origin alone, and signs no other.
LEMMA Alter_ReceiptInv ==
  ASSUME ReceiptInv, Sign \/ EditRecord \/ Upgrade \/ Alter \/ (\E i \in Referenced : Republish(i))
  PROVE  ReceiptInv'
<1>1. /\ DOMAIN receipt = ReceiptFields /\ origin' = origin /\ release' \in Releases
      /\ receipt.signature \in {Unsigned, origin.receipt}
      /\ \E b \in Releases, p \in Packs : IsIssued(origin.receipt, origin.record, b, p, origin.inputs)
  BY Zenon DEF ReceiptInv, Sign, EditRecord, Upgrade, Alter, Republish, Happens
<1>2. DOMAIN receipt' = ReceiptFields /\ receipt'.signature \in {Unsigned, origin.receipt}
  <2>1. CASE Sign
    <3>1. receipt = origin.receipt /\ receipt' = [receipt EXCEPT !.signature = Payload(receipt)]
      BY <2>1 DEF Sign
    <3>2. Payload(receipt) = receipt
      BY <1>1, <3>1 DEF IsIssued
    <3> QED
      BY <1>1, <3>1, <3>2, SMT DEF ReceiptFields
  <2>2. CASE EditRecord \/ Upgrade \/ \E i \in Referenced : Republish(i)
    BY <1>1, <2>2 DEF EditRecord, Upgrade, Republish
  <2>3. CASE Alter
    <3>1. \/ \E v, w : receipt' = [receipt EXCEPT !.results = v, !.resultsDigest = w]
          \/ \E v : receipt' = [receipt EXCEPT !.inputs = v]
          \/ \E v : receipt' = [receipt EXCEPT !.engine = v]
          \/ \E v : receipt' = [receipt EXCEPT !.canon = v]
          \/ \E v, w : receipt' = [receipt EXCEPT !.pack = v, !.version = w]
          \/ receipt' = [receipt EXCEPT !.ruleSet = "other"]
          \/ receipt' = [receipt EXCEPT !.signature = Unsigned]
      BY <2>3, Zenon DEF Alter
    <3>2. CASE \E v, w : receipt' = [receipt EXCEPT !.results = v, !.resultsDigest = w]
      BY <1>1, <3>2, SMT DEF ReceiptFields
    <3>5. CASE \E v, w : receipt' = [receipt EXCEPT !.pack = v, !.version = w]
      BY <1>1, <3>5, SMT DEF ReceiptFields
    <3>3. CASE \E v : \/ receipt' = [receipt EXCEPT !.inputs = v]
                       \/ receipt' = [receipt EXCEPT !.engine = v]
                       \/ receipt' = [receipt EXCEPT !.canon = v]
      BY <1>1, <3>3, SMT DEF ReceiptFields
    <3>4. CASE \/ receipt' = [receipt EXCEPT !.ruleSet = "other"]
               \/ receipt' = [receipt EXCEPT !.signature = Unsigned]
      BY <1>1, <3>4, SMT DEF ReceiptFields
    <3> QED
      BY <3>1, <3>2, <3>3, <3>4, <3>5, Zenon
  <2> QED
    BY <2>1, <2>2, <2>3
<1> QED
  BY <1>1, <1>2, Zenon DEF ReceiptInv

LEMMA Next_ReceiptInv == ReceiptInv /\ [ReceiptNext]_receiptVars => ReceiptInv'
<1> SUFFICES ASSUME ReceiptInv, [ReceiptNext]_receiptVars PROVE ReceiptInv'
  OBVIOUS
<1>1. ASSUME NEW p \in Packs, NEW used \in SUBSET Referenced, Issue(p, used) PROVE ReceiptInv'
  BY <1>1, Issue_ReceiptInv
<1>2. CASE Sign \/ EditRecord \/ Upgrade \/ Alter \/ \E i \in Referenced : Republish(i)
  BY <1>2, Alter_ReceiptInv
<1>3. CASE UNCHANGED receiptVars
  BY <1>3, Zenon DEF receiptVars, ReceiptInv
<1> QED
  BY <1>1, <1>2, <1>3, Zenon DEF ReceiptNext

-----------------------------------------------------------------------------
\* A receipt as it was issued, signed or not, over what it was issued over: no
\* release finds anything but a difference it can lay to itself.
LEMMA IssuedNeverFails ==
  ASSUME NEW i, NEW a \in Releases, NEW b \in Releases, NEW p \in Packs, NEW know \in Knowledge,
         IsIssued(i, record, a, p, inputs),
         DOMAIN receipt = ReceiptFields, Payload(receipt) = i, receipt.signature \in {Unsigned, i}
  PROVE  ~Fails(receipt, record, b, know)
<1> DEFINE own == Recomputed(receipt, record, b, know)
<1>1. /\ receipt.digest = DigestOf(record, a) /\ receipt.canon = a.canon /\ receipt.engine = a.engine
      /\ receipt.pack = p.id /\ receipt.version = p.version /\ receipt.ruleSet = RuleSet
      /\ DOMAIN receipt.results = p.outputs
      /\ \A c \in p.outputs : receipt.results[c] = PackFigure(record, c, a)
      /\ receipt.resultsDigest = receipt.results
      /\ \A d \in DOMAIN receipt.inputs : receipt.inputs[d] = inputs[d]
  <2>1. /\ i.digest = receipt.digest /\ i.canon = receipt.canon /\ i.engine = receipt.engine
        /\ i.pack = receipt.pack /\ i.version = receipt.version /\ i.ruleSet = receipt.ruleSet
        /\ i.results = receipt.results /\ i.resultsDigest = receipt.resultsDigest
        /\ i.inputs = receipt.inputs
    BY PayloadFacts, Zenon
  <2>2. /\ i.digest = DigestOf(record, a) /\ i.canon = a.canon /\ i.engine = a.engine
        /\ i.pack = p.id /\ i.version = p.version /\ i.ruleSet = RuleSet
    BY Zenon DEF IsIssued
  <2>3. /\ DOMAIN i.results = p.outputs
        /\ \A c \in p.outputs : i.results[c] = PackFigure(record, c, a)
        /\ i.resultsDigest = i.results
        /\ \A d \in DOMAIN i.inputs : i.inputs[d] = inputs[d]
    BY Zenon DEF IsIssued
  <2> QED
    BY <2>1, <2>2, <2>3, Zenon
<1>2. Comparable(receipt, b) => receipt.digest = DigestOf(record, b)
  BY <1>1, Zenon DEF Comparable, DigestOf
<1>3. Mutated(receipt, know) = {}
  BY <1>1, Zenon DEF Mutated, References
<1>4. ASSUME receipt.engine = b.engine, Refused \notin Range(own)
      PROVE  ~Disagrees(receipt, record, b, know)
  <2>1. ~Uncovered(receipt, know)
    <3>1. \A q \in PackAtHand(receipt, know) : q = p
      BY <1>1, VersionsArePublishedOnce DEF PackAtHand, PacksHeld, Knowledge
    <3> QED
      BY <1>1, <3>1 DEF Uncovered
  <2>2. a.drift = b.drift
    BY <1>1, <1>4, EnginesAreDeterministic
  <2>3. ASSUME NEW c \in DOMAIN own PROVE own[c] = receipt.results[c]
    <3>1. PackFigure(record, c, a) = PackFigure(record, c, b)
      BY <2>2, Zenon DEF PackFigure, Computed
    <3>2. c \in DOMAIN receipt.results
      BY RecomputedDomain, Zenon
    <3>3. own[c] = IF c \in Dictionary THEN DictionaryFigure(record, c, b) ELSE PackFigure(record, c, b)
      BY Zenon DEF Recomputed
    <3>4. own[c] # Refused
      BY <1>4, Zenon DEF Range
    <3> HIDE DEF own
    <3>5. own[c] = PackFigure(record, c, b)
      BY <3>3, <3>4, FiguresAgree
    <3> QED
      BY <1>1, <3>1, <3>2, <3>5
  <2> HIDE DEF own
  <2> QED
    BY <2>1, <2>3 DEF Disagrees, own
<1> HIDE DEF own
<1> QED
  BY <1>1, <1>2, <1>3, <1>4, Zenon DEF Fails, own

\* "A verifier must not report that a document was tampered with when the only
\* thing that changed is its own arithmetic": whatever the releases that issue
\* and verify, and whatever the verifier holds.
THEOREM UntouchedStaysUnfailed == ReceiptSpec => []UntouchedNeverFails
<1>1. ReceiptInv => UntouchedNeverFails
  <2> SUFFICES ASSUME ReceiptInv, Issued, Untouched, NEW know \in Knowledge,
                      Verdict(receipt, record, release, know) \in Failures \ {"refused"}
               PROVE  FALSE
    BY Zenon DEF UntouchedNeverFails
  <2>1. PICK a \in Releases, p \in Packs :
          IsIssued(origin.receipt, origin.record, a, p, origin.inputs)
    BY DEF ReceiptInv, Issued
  <2>2. IsIssued(origin.receipt, record, a, p, inputs) /\ Payload(receipt) = origin.receipt
    BY <2>1 DEF Untouched
  <2>3. /\ DOMAIN receipt = ReceiptFields /\ receipt.signature \in {Unsigned, origin.receipt}
        /\ release \in Releases
    BY DEF ReceiptInv, Issued
  <2>4. ~Fails(receipt, record, release, know)
    BY <2>2, <2>3, IssuedNeverFails
  <2> QED
    BY <2>4, Verdicts
<1> QED
  BY Init_ReceiptInv, Next_ReceiptInv, <1>1, PTL DEF ReceiptSpec
=============================================================================
