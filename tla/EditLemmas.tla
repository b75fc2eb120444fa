----------------------------- MODULE EditLemmas -----------------------------
(***************************************************************************)
(* What the edits do to a document, for any document: they return documents, *)
(* they keep blocks well filed and in order and stamps fresh, they lose no   *)
(* block that must be kept and put only authorized successors in the place  *)
(* of a block, and they keep a record that producers write one that the     *)
(* verifier accepts. Facts about minima, maxima and the edits of a sequence  *)
(* first.                                                                  *)
(***************************************************************************)
EXTENDS EditorIntegrity, FiniteSetTheorems, SequenceTheorems, WellFoundedInduction, TLAPS

-----------------------------------------------------------------------------
(* Minima, maxima and sequences.                                           *)

\* A non-empty set of natural numbers has the minimum that Min chooses.
LEMMA MinIsLeast ==
  ASSUME NEW S \in SUBSET Nat, S # {}
  PROVE  Min(S) \in S /\ \A x \in S : Min(S) <= x
<1>1. \E x \in S : \A y \in S : ~ (<<y, x>> \in OpToRel(<, Nat))
  BY NatLessThanWellFounded, WFMin, Zenon
<1>2. PICK x \in S : \A y \in S : ~ (<<y, x>> \in OpToRel(<, Nat))
  BY <1>1
<1>3. \A y \in S : x <= y
  <2> TAKE y \in S
  <2>1. ~ (y < x)
    <3>1. <<y, x>> \in Nat \X Nat
      BY Zenon
    <3>2. <<y, x>>[1] = y /\ <<y, x>>[2] = x
      OBVIOUS
    <3>3. ~ (<<y, x>>[1] < <<y, x>>[2])
      BY <1>2, <3>1, Zenon DEF OpToRel
    <3> QED
      BY <3>2, <3>3
  <2> QED
    BY <2>1, SMT
<1>4. QED
  BY <1>3, Zenon DEF Min

\* A non-empty set of numbers below a bound has the maximum that Max chooses.
LEMMA MaxIsGreatest ==
  ASSUME NEW n \in Nat, NEW S \in SUBSET (1..n), S # {}
  PROVE  Max(S) \in S /\ \A x \in S : Max(S) >= x
<1> DEFINE T == {n - x : x \in S}
<1>1. T \in SUBSET Nat /\ T # {}
  <2>1. \A x \in S : n - x \in Nat
    BY SMT
  <2> QED
    BY <2>1, Zenon
<1>2. PICK x \in S : n - x = Min(T)
  BY <1>1, MinIsLeast
<1>3. \A y \in S : x >= y
  <2> TAKE y \in S
  <2>1. Min(T) <= n - y
    BY <1>1, MinIsLeast
  <2> QED
    BY <2>1, <1>2, SMT
<1>4. QED
  BY <1>3, Zenon DEF Max

\* What inserting an element does to a sequence.
LEMMA InsertAtFacts ==
  ASSUME NEW S, NEW s \in Seq(S), NEW p \in 1..(Len(s) + 1), NEW e \in S
  PROVE  /\ InsertAt(s, p, e) \in Seq(S)
         /\ Len(InsertAt(s, p, e)) = Len(s) + 1
         /\ \A i \in 1..(Len(s) + 1) :
              InsertAt(s, p, e)[i] = IF i < p THEN s[i]
                                     ELSE IF i = p THEN e ELSE s[i - 1]
<1> DEFINE a == SubSeq(s, 1, p - 1)
           b == SubSeq(s, p, Len(s))
<1>1. /\ a \in Seq(S) /\ Len(a) = p - 1
      /\ \A i \in 1..(p - 1) : a[i] = s[i]
  BY SubSeqProperties, SMT
<1>2. /\ b \in Seq(S) /\ Len(b) = Len(s) + 1 - p
      /\ \A i \in 1..(Len(s) + 1 - p) : b[i] = s[p + i - 1]
  BY SubSeqProperties, SMT
<1>3. InsertAt(s, p, e) = (a \o <<e>>) \o b
  BY Zenon DEF InsertAt
<1> DEFINE c == a \o <<e>>
<1>4. /\ c \in Seq(S) /\ Len(c) = p
      /\ \A i \in 1..p : c[i] = IF i < p THEN s[i] ELSE e
  <2> HIDE DEF a
  <2> QED
    BY <1>1, SMT
<1> HIDE DEF b, c
<1>5. /\ c \o b \in Seq(S) /\ Len(c \o b) = Len(s) + 1
      /\ \A i \in 1..(Len(s) + 1) : (c \o b)[i] = IF i <= p THEN c[i] ELSE b[i - p]
  BY <1>2, <1>4, ConcatProperties, SMT
<1>6. InsertAt(s, p, e) = c \o b
  BY <1>3, Zenon DEF c
<1>7. ASSUME NEW i \in 1..(Len(s) + 1)
      PROVE  (c \o b)[i] = IF i < p THEN s[i] ELSE IF i = p THEN e ELSE s[i - 1]
  <2>1. CASE i <= p
    BY <2>1, <1>4, <1>5, SMT
  <2>2. CASE i > p
    <3>1. i - p \in 1..(Len(s) + 1 - p) /\ p + (i - p) - 1 = i - 1
      BY <2>2, SMT
    <3>2. b[i - p] = s[i - 1]
      BY <3>1, <1>2, SMT
    <3> QED
      BY <3>2, <2>2, <1>5, SMT
  <2>3. i <= p \/ i > p
    BY SMT
  <2> QED
    BY <2>1, <2>2, <2>3, Zenon
<1>8. QED
  BY <1>5, <1>6, <1>7, SMT

\* A function on an initial segment of the numbers is a sequence.
LEMMA FunctionIsSeq ==
  ASSUME NEW S, NEW n \in Nat, NEW f \in [1..n -> S]
  PROVE  f \in Seq(S) /\ Len(f) = n /\ DOMAIN f = 1..n
<1>1. f = [i \in 1..n |-> f[i]]
  OBVIOUS
<1>2. f \in Seq(S)
  BY <1>1, SMT
<1>3. QED
  BY <1>2, SMT

\* What replacing an element does to a sequence.
LEMMA ReplaceAtFacts ==
  ASSUME NEW S, NEW s \in Seq(S), NEW p \in 1..Len(s), NEW e \in S
  PROVE  /\ ReplaceAt(s, p, e) \in Seq(S)
         /\ Len(ReplaceAt(s, p, e)) = Len(s)
         /\ \A i \in 1..Len(s) : ReplaceAt(s, p, e)[i] = IF i = p THEN e ELSE s[i]
BY ExceptSeq, SMT DEF ReplaceAt

-----------------------------------------------------------------------------
(* Types.                                                                  *)

\* The block a lookup finds is a canonical block of a standard section, under
\* the key asked for.
LEMMA LookupFacts ==
  ASSUME NEW d, NEW s, NEW v, Lookup(d, s, v) # 0
  PROVE  LET h == Lookup(d, s, v)
         IN /\ h \in DOMAIN d /\ h \in Canonical(d) /\ ~d[h].superseded
            /\ d[h].section = s /\ s \in Standard
            /\ v = NoVariant \/ Key(d[h]) = v
            /\ Keyed(d, s) <=> v # NoVariant
<1> DEFINE found == {i \in HeadsOf(d, s) : v = NoVariant \/ Key(d[i]) = v}
<1>1. /\ s \in Standard /\ (Keyed(d, s) <=> v # NoVariant) /\ found # {}
      /\ Lookup(d, s, v) = CHOOSE i \in found : TRUE
  BY Zenon DEF Lookup
<1>2. Lookup(d, s, v) \in found
  BY <1>1, Zenon
<1>3. QED
  BY <1>1, <1>2, Zenon DEF HeadsOf, Canonical, Live

\* Where the editor inserts: within or at the end of the document, with no log
\* block before.
LEMMA InsertionFacts ==
  ASSUME NEW d \in Seq(Block)
  PROVE  /\ InsertionPoint(d) \in 1..(Len(d) + 1)
         /\ \A i \in DOMAIN d : i < InsertionPoint(d) => i \notin LogBlocks(d)
         /\ InsertionPoint(d) # Len(d) + 1 => InsertionPoint(d) \in LogBlocks(d)
<1>1. LogBlocks(d) \subseteq 1..Len(d) /\ DOMAIN d = 1..Len(d) /\ Len(d) \in Nat
  BY SMT DEF LogBlocks
<1>2. CASE LogBlocks(d) = {}
  <2>1. InsertionPoint(d) = Len(d) + 1
    BY <1>2, Zenon DEF InsertionPoint
  <2> QED
    BY <2>1, <1>1, <1>2, SMT
<1>3. CASE LogBlocks(d) # {}
  <2>1. InsertionPoint(d) = Min(LogBlocks(d))
    BY <1>3, Zenon DEF InsertionPoint
  <2>2. LogBlocks(d) \in SUBSET Nat
    BY <1>1, SMT
  <2>3. /\ Min(LogBlocks(d)) \in LogBlocks(d)
        /\ \A i \in LogBlocks(d) : Min(LogBlocks(d)) <= i
    BY <2>2, <1>3, MinIsLeast, Zenon
  <2> QED
    BY <2>1, <2>2, <2>3, <1>1, SMT
<1>4. QED
  BY <1>2, <1>3, Zenon

LEMMA NewBlockTyped ==
  ASSUME NEW d \in Seq(Block), NEW h, h = 0 \/ h \in DOMAIN d,
         NEW op \in SectionOperation, NEW source \in Sources
  PROVE  NewBlock(d, h, op, source) \in Block
<1>1. h # 0 => d[h] \in Block
  BY ElementOfSeq, SMT
<1>2. h # 0 => d[h].revision \in Nat /\ d[h].role \in BOOLEAN
  BY <1>1, SMT DEF Block, BlockFields
<1>3. /\ op.section \in Sections /\ op.variant \in Variants \cup {NoVariant}
      /\ op.body \in Bodies \cup (SUBSET Sections) \cup (SUBSET Entries)
      /\ op.body \in PayloadOf(op.section)
  BY SMT DEF SectionOperation
<1>4. NextRevision(d, h) \in Nat
  BY <1>2, SMT DEF NextRevision
<1>5. RoleAfter(d, h, op) \in BOOLEAN
  BY Zenon DEF RoleAfter
<1>6. NewBlock(d, h, op, source) \in BlockFields
  BY <1>3, <1>4, <1>5, Zenon DEF NewBlock, Written, BlockFields
<1>7. NewBlock(d, h, op, source).body \in PayloadOf(NewBlock(d, h, op, source).section)
  BY <1>3, Zenon DEF NewBlock, Written
<1>8. QED
  BY <1>6, <1>7, Zenon DEF Block

\* Blocks that agree in everything but the mark.
SameButMark(b, c) ==
  /\ b.section = c.section /\ b.variant = c.variant /\ b.source = c.source
  /\ b.revision = c.revision /\ b.role = c.role /\ b.body = c.body
  /\ b.hash = c.hash /\ b.parent = c.parent

LEMMA MarkedFields ==
  ASSUME NEW b \in BlockFields
  PROVE  LET m == [b EXCEPT !.superseded = TRUE]
         IN m \in BlockFields /\ m.superseded = TRUE /\ SameButMark(m, b)
<1> DEFINE m == [b EXCEPT !.superseded = TRUE]
<1>1. m \in BlockFields
  BY Zenon DEF BlockFields
<1>2. m.superseded = TRUE
  BY Zenon DEF BlockFields
<1>3. SameButMark(m, b)
  BY Zenon DEF BlockFields, SameButMark
<1>4. QED
  BY <1>1, <1>2, <1>3

\* Marking a block changes its mark, and that of no other.
LEMMA MarkFacts ==
  ASSUME NEW d \in Seq(Block), NEW h
  PROVE  /\ MarkSuperseded(d, h) \in Seq(Block)
         /\ Len(MarkSuperseded(d, h)) = Len(d)
         /\ DOMAIN MarkSuperseded(d, h) = DOMAIN d
         /\ \A i \in DOMAIN d :
              /\ MarkSuperseded(d, h)[i].superseded = (i = h \/ d[i].superseded)
              /\ MarkSuperseded(d, h)[i] \in Block
              /\ SameButMark(MarkSuperseded(d, h)[i], d[i])
<1> DEFINE m == MarkSuperseded(d, h)
<1>0. DOMAIN d = 1..Len(d) /\ Len(d) \in Nat
  BY SMT
<1>1. m = [i \in 1..Len(d) |-> IF i = h THEN [d[i] EXCEPT !.superseded = TRUE] ELSE d[i]]
  BY <1>0, Zenon DEF MarkSuperseded
<1>2. ASSUME NEW i \in 1..Len(d)
      PROVE  /\ m[i].superseded = (i = h \/ d[i].superseded)
             /\ m[i] \in Block
             /\ SameButMark(m[i], d[i])
  <2>1. d[i] \in Block
    BY ElementOfSeq, SMT
  <2> HIDE DEF m
  <2>2. m[i] = IF i = h THEN [d[i] EXCEPT !.superseded = TRUE] ELSE d[i]
    BY <1>1, SMT
  <2>3. d[i] \in BlockFields /\ d[i].body \in PayloadOf(d[i].section)
    BY <2>1, Zenon DEF Block
  <2>4. CASE i = h
    <3> DEFINE b == [d[i] EXCEPT !.superseded = TRUE]
    <3>1. b.superseded = TRUE /\ SameButMark(b, d[i])
      BY <2>3, MarkedFields
    <3>1a. b \in BlockFields
      BY <2>3, MarkedFields
    <3>2. b \in Block
      BY <3>1, <3>1a, <2>3, Zenon DEF Block, SameButMark
    <3>3. (i = h \/ d[i].superseded) = TRUE
      BY <2>4, Zenon
    <3> QED
      BY <2>2, <2>4, <3>1, <3>2, <3>3, Zenon
  <2>5. CASE i # h
    <3>1. d[i].superseded \in BOOLEAN
      BY <2>3, SMT DEF BlockFields
    <3>2. (i = h \/ d[i].superseded) = d[i].superseded
      BY <2>5, <3>1, Zenon
    <3> QED
      BY <2>1, <2>2, <2>5, <3>1, <3>2, Zenon DEF SameButMark
  <2> QED
    BY <2>4, <2>5, Zenon
<1> HIDE DEF m
<1>3. m \in [1..Len(d) -> Block]
  BY <1>1, <1>2, Zenon
<1>3a. m \in Seq(Block) /\ Len(m) = Len(d) /\ DOMAIN m = DOMAIN d
  BY <1>0, <1>3, FunctionIsSeq, Zenon
<1>4. QED
  BY <1>0, <1>2, <1>3a, Zenon DEF m

-----------------------------------------------------------------------------
(* What each edit returns, block by block.                                 *)

PutAt(r, d, p, e) ==
  /\ r \in Seq(Block) /\ Len(r) = Len(d)
  /\ \A i \in 1..Len(d) : r[i] = IF i = p THEN e ELSE d[i]

LEMMA ReplaceBlockFacts ==
  ASSUME NEW d \in Seq(Block), NEW p \in 1..Len(d), NEW e \in Block
  PROVE  PutAt(ReplaceAt(d, p, e), d, p, e)
BY ExceptSeq, SMT DEF ReplaceAt, PutAt

\* A replacement touches the head it found and no other block.
LEMMA ReplaceFacts ==
  ASSUME NEW d \in Seq(Block), NEW op \in SectionOperation, NEW source \in Sources,
         Lookup(d, op.section, op.variant) # 0
  PROVE  LET h == Lookup(d, op.section, op.variant)
             r == ReplaceSection(d, op, source)
         IN /\ r \in Seq(Block) /\ Len(r) = Len(d) /\ h \in 1..Len(d)
            /\ \A i \in 1..Len(d) :
                 r[i] = IF i = h THEN NewBlock(d, h, op, source) ELSE d[i]
<1> DEFINE h == Lookup(d, op.section, op.variant)
           e == NewBlock(d, h, op, source)
<1>1. h \in DOMAIN d
  BY LookupFacts
<1>2. h \in 1..Len(d)
  BY <1>1, SMT
<1>3. e \in Block
  BY <1>1, NewBlockTyped, Zenon
<1>4. ReplaceSection(d, op, source) = ReplaceAt(d, h, e)
  BY Zenon DEF ReplaceSection
<1> HIDE DEF h, e
<1>5. /\ ReplaceAt(d, h, e) \in Seq(Block) /\ Len(ReplaceAt(d, h, e)) = Len(d)
      /\ \A i \in 1..Len(d) : ReplaceAt(d, h, e)[i] = IF i = h THEN e ELSE d[i]
  <2>1. PutAt(ReplaceAt(d, h, e), d, h, e)
    BY <1>2, <1>3, ReplaceBlockFacts, Zenon
  <2> QED
    BY <2>1, Zenon DEF PutAt
<1>6. QED
  BY <1>2, <1>4, <1>5, Zenon DEF h, e

\* A supersession marks the head it found, if any, and inserts its successor.
LEMMA SupersedeFacts ==
  ASSUME NEW d \in Seq(Block), NEW op \in SectionOperation, NEW source \in Sources
  PROVE  LET h == Lookup(d, op.section, op.variant)
             m == MarkSuperseded(d, h)
             p == InsertionPoint(d)
             r == SupersedeSection(d, op, source)
         IN /\ r \in Seq(Block) /\ Len(r) = Len(d) + 1
            /\ \A i \in 1..(Len(d) + 1) :
                 r[i] = IF i < p THEN m[i]
                        ELSE IF i = p THEN NewBlock(d, h, op, source) ELSE m[i - 1]
<1> DEFINE h == Lookup(d, op.section, op.variant)
           m == MarkSuperseded(d, h)
           p == InsertionPoint(d)
           e == NewBlock(d, h, op, source)
<1>1. h = 0 \/ h \in DOMAIN d
  BY LookupFacts
<1>2. e \in Block
  BY <1>1, NewBlockTyped, Zenon
<1>3. m \in Seq(Block) /\ Len(m) = Len(d)
  BY MarkFacts
<1>4. p \in 1..(Len(m) + 1)
  BY <1>3, InsertionFacts
<1>5. SupersedeSection(d, op, source) = InsertAt(m, p, e)
  BY Zenon DEF SupersedeSection
<1> HIDE DEF h, m, p, e
<1>6. /\ InsertAt(m, p, e) \in Seq(Block)
      /\ Len(InsertAt(m, p, e)) = Len(m) + 1
      /\ \A i \in 1..(Len(m) + 1) :
           InsertAt(m, p, e)[i] = IF i < p THEN m[i] ELSE IF i = p THEN e ELSE m[i - 1]
  BY <1>2, <1>3, <1>4, InsertAtFacts
<1>7. QED
  BY <1>3, <1>5, <1>6, Zenon DEF h, m, p, e

\* The gaps operation names the gaps section and lists sections.
LEMMA GapsOperationTyped ==
  ASSUME NEW d \in Seq(Block), NEW stage_ \in Stages
  PROVE  /\ GapsOperation(d, stage_) \in SectionOperation
         /\ GapsOperation(d, stage_).section = Gaps
         /\ GapsOperation(d, stage_).variant = NoVariant
<1> DEFINE g == Lookup(d, Gaps, NoVariant)
<1>1. Gaps \in Sections
  BY GapsIsSingle, Zenon DEF Sections, Standard
<1>2. Required[stage_] \subseteq Sections
  BY RequiredIsByStage, Zenon DEF Sections
<1>3. g # 0 => d[g].body \in SUBSET Sections
  <2> SUFFICES ASSUME g # 0 PROVE d[g].body \in SUBSET Sections
    OBVIOUS
  <2>1. g \in DOMAIN d /\ d[g].section = Gaps
    BY LookupFacts
  <2>2. d[g] \in Block
    BY <2>1, ElementOfSeq, SMT
  <2>3. QED
    BY <2>1, <2>2, Zenon DEF Block, PayloadOf
<1>4. OpenGaps(d, stage_) \in SUBSET Sections
  BY <1>2, <1>3, Zenon DEF OpenGaps
<1>5. OpenGaps(d, stage_) \in PayloadOf(Gaps)
  BY <1>4, Zenon DEF PayloadOf
<1>6. GapsOperation(d, stage_) = [section |-> Gaps, variant |-> NoVariant,
        body |-> OpenGaps(d, stage_), role |-> "keep", wellFormed |-> TRUE]
  BY Zenon DEF GapsOperation
<1> DEFINE o == OpenGaps(d, stage_)
<1> HIDE DEF o
<1>7. QED
  BY <1>1, <1>4, <1>5, <1>6, SMT DEF SectionOperation, o

\* Maintenance replaces the gaps section, where its policy lets the maintainer,
\* starts it, or changes nothing.
LEMMA MaintainIsAnEdit ==
  ASSUME NEW d, NEW stage_
  PROVE  LET op == GapsOperation(d, stage_)
             r  == MaintainGaps(d, stage_)
             g  == Lookup(d, op.section, op.variant)
         IN \/ r = d
            \/ /\ g # 0
               /\ MayWrite(Maintainer, PolicyOf(d[g].source))
               /\ ~MustSupersede(d[g].source)
               /\ r = ReplaceSection(d, op, Maintainer)
            \/ g = 0 /\ r = SupersedeSection(d, op, Maintainer)
<1> DEFINE op  == GapsOperation(d, stage_)
           ctx == [source |-> Maintainer, parentHash |-> Null]
           g   == Lookup(d, op.section, op.variant)
<1>1. op.section = Gaps /\ op.variant = NoVariant /\ ctx.source = Maintainer
  BY Zenon DEF GapsOperation
<1>2. ReplaceRefusal(d, op, ctx) = "ok" =>
        /\ g # 0 /\ MayWrite(ctx.source, PolicyOf(d[g].source))
        /\ ~MustSupersede(d[g].source)
  BY SMT DEF ReplaceRefusal
<1>3. MaintainGaps(d, stage_) =
        IF g = 0 THEN SupersedeSection(d, op, Maintainer)
        ELSE IF ReplaceRefusal(d, op, ctx) = "ok" THEN ReplaceSection(d, op, Maintainer)
        ELSE d
  BY <1>1, Zenon DEF MaintainGaps
<1> HIDE DEF op, ctx, g
<1>4. QED
  BY <1>1, <1>2, <1>3, Zenon DEF op, ctx, g

\* Stamping gives one block a hash and a parent and alters nothing else.
SameButStamp(b, c) ==
  /\ b.section = c.section /\ b.variant = c.variant /\ b.source = c.source
  /\ b.revision = c.revision /\ b.superseded = c.superseded
  /\ b.role = c.role /\ b.body = c.body

LEMMA StampedFields ==
  ASSUME NEW b \in BlockFields, NEW x \in Digests \cup {Absent},
         NEW y \in Digests \cup {Absent, Null}
  PROVE  LET c == [b EXCEPT !.hash = x, !.parent = y]
         IN c \in BlockFields /\ c.hash = x /\ SameButStamp(c, b)
<1> DEFINE c == [b EXCEPT !.hash = x, !.parent = y]
<1>1. c \in BlockFields
  BY Zenon DEF BlockFields
<1>2. c.hash = x
  BY Zenon DEF BlockFields
<1>3. SameButStamp(c, b)
  BY Zenon DEF BlockFields, SameButStamp
<1>4. QED
  BY <1>1, <1>2, <1>3

LEMMA DigestIsADigest ==
  ASSUME NEW b \in Block
  PROVE  Digest(b) \in Digests
<1>1. b.body \in Bodies \cup (SUBSET Sections) \cup (SUBSET Entries) /\ b.role \in BOOLEAN
  BY SMT DEF Block, BlockFields
<1>2. QED
  BY <1>1, Zenon DEF Digest, Digests

LEMMA StampFacts ==
  ASSUME NEW before \in Seq(Block), NEW after \in Seq(Block),
         NEW op \in SectionOperation, NEW kind
  PROVE  LET r == StampHead(before, after, op, kind)
         IN /\ r \in Seq(Block) /\ Len(r) = Len(after)
            /\ \A i \in 1..Len(after) :
                 /\ SameButStamp(r[i], after[i])
                 /\ r[i].hash = after[i].hash \/ r[i].hash = Digest(r[i])
                 /\ i # Lookup(after, op.section, op.variant) => r[i] = after[i]
<1> DEFINE prior == Lookup(before, op.section, op.variant)
           h     == Lookup(after, op.section, op.variant)
           x     == Digest(after[h])
           y     == IF kind = "section_replace" THEN Null ELSE before[prior].hash
           e     == [after[h] EXCEPT !.hash = x, !.parent = y]
           r     == StampHead(before, after, op, kind)
<1>1. CASE prior = 0 \/ before[prior].hash = Absent \/ h = 0
  <2>1. r = after
    BY <1>1, Zenon DEF StampHead
  <2>2. \A i \in 1..Len(after) : SameButStamp(after[i], after[i])
    BY Zenon DEF SameButStamp
  <2> QED
    BY <2>1, <2>2, Zenon
<1>2. CASE ~(prior = 0 \/ before[prior].hash = Absent \/ h = 0)
  <2>1. r = ReplaceAt(after, h, e)
    BY <1>2, Zenon DEF StampHead
  <2>2. h \in 1..Len(after) /\ prior \in 1..Len(before)
    <3>1. h \in DOMAIN after /\ prior \in DOMAIN before
      BY <1>2, LookupFacts, Zenon
    <3> QED
      BY <3>1, SMT
  <2>3. after[h] \in Block /\ before[prior] \in Block
    BY <2>2, ElementOfSeq
  <2>4. x \in Digests
    BY <2>3, DigestIsADigest, Zenon
  <2>5. y \in Digests \cup {Absent, Null}
    <3>1. before[prior].hash \in Digests \cup {Absent}
      BY <2>3, Zenon DEF Block, BlockFields
    <3> QED
      BY <3>1, Zenon
  <2>6. after[h] \in BlockFields /\ after[h].body \in PayloadOf(after[h].section)
    BY <2>3, Zenon DEF Block
  <2> HIDE DEF prior, h, x, y
  <2>7. e \in BlockFields /\ e.hash = x /\ SameButStamp(e, after[h])
    BY <2>4, <2>5, <2>6, StampedFields, Zenon
  <2> HIDE DEF e, r
  <2>8. e \in Block
    BY <2>6, <2>7, Zenon DEF Block, SameButStamp
  <2>9. e.hash = Digest(e)
    BY <2>7, Zenon DEF x, Digest, SameButStamp
  <2>10. /\ r \in Seq(Block) /\ Len(r) = Len(after)
         /\ \A i \in 1..Len(after) : r[i] = IF i = h THEN e ELSE after[i]
    <3>1. PutAt(ReplaceAt(after, h, e), after, h, e)
      BY <2>2, <2>8, ReplaceBlockFacts, Zenon
    <3> QED
      BY <2>1, <3>1, Zenon DEF PutAt
  <2>11. ASSUME NEW i \in 1..Len(after)
         PROVE  /\ SameButStamp(r[i], after[i])
                /\ r[i].hash = after[i].hash \/ r[i].hash = Digest(r[i])
                /\ i # h => r[i] = after[i]
    <3>1. CASE i = h
      BY <3>1, <2>10, <2>7, <2>9, Zenon
    <3>2. CASE i # h
      BY <3>2, <2>10, Zenon DEF SameButStamp
    <3> QED
      BY <3>1, <3>2, Zenon
  <2> QED
    BY <2>10, <2>11, Zenon DEF r, h
<1>3. QED
  BY <1>1, <1>2, Zenon

\* Appending an entry rewrites the last log block, whose body and revision are
\* all that changes.
SameButEntry(b, c) ==
  /\ b.section = c.section /\ b.variant = c.variant /\ b.source = c.source
  /\ b.superseded = c.superseded /\ b.role = c.role
  /\ b.hash = c.hash /\ b.parent = c.parent

LEMMA EntryFields ==
  ASSUME NEW b \in BlockFields, NEW n \in Nat,
         NEW x \in Bodies \cup (SUBSET Sections) \cup (SUBSET Entries)
  PROVE  LET c == [b EXCEPT !.body = x, !.revision = n]
         IN c \in BlockFields /\ c.body = x /\ SameButEntry(c, b)
<1> DEFINE c == [b EXCEPT !.body = x, !.revision = n]
<1>1. c \in BlockFields
  BY Zenon DEF BlockFields
<1>2. c.body = x
  BY Zenon DEF BlockFields
<1>3. SameButEntry(c, b)
  BY Zenon DEF BlockFields, SameButEntry
<1>4. QED
  BY <1>1, <1>2, <1>3

LEMMA AppendFacts ==
  ASSUME NEW d \in Seq(Block), NEW entry \in Entries, LogBlocks(d) # {}
  PROVE  LET r == AppendLogEntry(d, entry)
         IN /\ r \in Seq(Block) /\ Len(r) = Len(d)
            /\ \A i \in 1..Len(d) :
                 /\ SameButEntry(r[i], d[i])
                 /\ d[i].section # PipelineLog => r[i] = d[i]
                 /\ r[i] = d[i] \/ d[i].body \subseteq r[i].body
            /\ \E l \in LogBlocks(d) : entry \in r[l].body
<1> DEFINE l == Max(LogBlocks(d))
           x == d[l].body \cup {entry}
           n == d[l].revision + 1
           e == [d[l] EXCEPT !.body = x, !.revision = n]
           r == AppendLogEntry(d, entry)
<1>1. r = ReplaceAt(d, l, e)
  <2>1. [d[l] EXCEPT !.body = @ \cup {entry}, !.revision = @ + 1] = e
    BY Zenon
  <2>2. QED
    BY <2>1, Zenon DEF AppendLogEntry
<1>2. Len(d) \in Nat /\ LogBlocks(d) \in SUBSET (1..Len(d))
  BY SMT DEF LogBlocks
<1>3. l \in LogBlocks(d)
  BY <1>2, MaxIsGreatest, Zenon
<1>4. l \in 1..Len(d) /\ d[l].section = PipelineLog
  BY <1>2, <1>3, Zenon DEF LogBlocks
<1>5. d[l] \in Block
  BY <1>4, ElementOfSeq
<1>6. d[l] \in BlockFields /\ d[l].body \in PayloadOf(d[l].section)
  BY <1>5, Zenon DEF Block
<1>7. Gaps # PipelineLog
  BY GapsIsSingle, KindsAreDisjoint, Zenon
<1>8. x \in SUBSET Entries
  BY <1>4, <1>6, <1>7, Zenon DEF PayloadOf
<1>9. n \in Nat
  BY <1>6, SMT DEF BlockFields
<1> HIDE DEF l, x, n
<1>9a. x \in Bodies \cup (SUBSET Sections) \cup (SUBSET Entries)
  BY <1>8, Zenon
<1>10. e \in BlockFields /\ e.body = x /\ SameButEntry(e, d[l])
  BY <1>6, <1>9, <1>9a, EntryFields, Zenon
<1> HIDE DEF e, r
<1>11. e \in Block
  BY <1>4, <1>7, <1>8, <1>10, Zenon DEF Block, PayloadOf, SameButEntry
<1>12. /\ r \in Seq(Block) /\ Len(r) = Len(d)
       /\ \A i \in 1..Len(d) : r[i] = IF i = l THEN e ELSE d[i]
  <2>1. PutAt(ReplaceAt(d, l, e), d, l, e)
    BY <1>4, <1>11, ReplaceBlockFacts, Zenon
  <2> QED
    BY <1>1, <2>1, Zenon DEF PutAt
<1>13. ASSUME NEW i \in 1..Len(d)
       PROVE  /\ SameButEntry(r[i], d[i])
              /\ d[i].section # PipelineLog => r[i] = d[i]
              /\ r[i] = d[i] \/ d[i].body \subseteq r[i].body
  <2>1. CASE i = l
    BY <2>1, <1>12, <1>10, <1>4, Zenon DEF x
  <2>2. CASE i # l
    BY <2>2, <1>12, Zenon DEF SameButEntry
  <2> QED
    BY <2>1, <2>2, Zenon
<1>14. entry \in r[l].body
  BY <1>4, <1>10, <1>12, Zenon DEF x
<1>15. QED
  BY <1>3, <1>12, <1>13, <1>14, Zenon DEF r

-----------------------------------------------------------------------------
(* Every call returns a document.                                          *)

LEMMA MaintainTyped ==
  ASSUME NEW d \in Seq(Block), NEW s \in Stages
  PROVE  MaintainGaps(d, s) \in Seq(Block)
<1> DEFINE op == GapsOperation(d, s)
<1>1. op \in SectionOperation
  BY GapsOperationTyped, Zenon
<1> HIDE DEF op
<1>2. Lookup(d, op.section, op.variant) # 0 =>
        ReplaceSection(d, op, Maintainer) \in Seq(Block)
  BY <1>1, MaintainerIsASource, ReplaceFacts
<1>3. SupersedeSection(d, op, Maintainer) \in Seq(Block)
  BY <1>1, MaintainerIsASource, SupersedeFacts
<1>4. \/ MaintainGaps(d, s) = d
      \/ /\ Lookup(d, op.section, op.variant) # 0
         /\ MaintainGaps(d, s) = ReplaceSection(d, op, Maintainer)
      \/ MaintainGaps(d, s) = SupersedeSection(d, op, Maintainer)
  BY MaintainIsAnEdit, Zenon DEF op
<1>5. QED
  BY <1>2, <1>3, <1>4, Zenon

LEMMA FinishTyped ==
  ASSUME NEW d \in Seq(Block), NEW written \in Seq(Block),
         NEW op \in SectionOperation, NEW kind, NEW s, NEW options,
         ~MaintenanceThrows(op.section, s, options)
  PROVE  FinishSection(d, written, op, kind, s, options) \in Seq(Block)
<1> DEFINE m == IF options.maintainGaps /\ op.section # Gaps
                THEN MaintainGaps(written, s) ELSE written
<1>1. s \in Stages => MaintainGaps(written, s) \in Seq(Block)
  BY MaintainTyped, Zenon
<1>2. m \in Seq(Block)
  BY <1>1, Zenon DEF MaintenanceThrows
<1> HIDE DEF m
<1>3. StampHead(d, m, op, kind) \in Seq(Block)
  BY <1>2, StampFacts
<1>4. QED
  BY <1>2, <1>3, Zenon DEF FinishSection, m

LEMMA FinishOtherTyped ==
  ASSUME NEW written \in Seq(Block), NEW s, NEW options,
         ~MaintenanceThrows(PipelineLog, s, options)
  PROVE  FinishOther(written, s, options) \in Seq(Block)
<1>1. PipelineLog # Gaps
  BY GapsIsSingle, KindsAreDisjoint, Zenon
<1>2. s \in Stages => MaintainGaps(written, s) \in Seq(Block)
  BY MaintainTyped, Zenon
<1>3. QED
  BY <1>1, <1>2, Zenon DEF FinishOther, MaintenanceThrows

-----------------------------------------------------------------------------
(* Order and histories.                                                    *)

\* Blocks in one place of one history, whatever they hold.
Alike(b, c) ==
  /\ b.section = c.section /\ b.variant = c.variant /\ b.superseded = c.superseded
  /\ c.section \in Standard => b.revision = c.revision

LEMMA DomainOfSeq ==
  ASSUME NEW S, NEW d \in Seq(S)
  PROVE  DOMAIN d = 1..Len(d) /\ Len(d) \in Nat
BY SMT

\* What is alike block by block is well formed together.
LEMMA AlikeKept ==
  ASSUME NEW d \in Seq(Block), NEW e \in Seq(Block), Len(e) = Len(d),
         \A i \in 1..Len(d) : Alike(e[i], d[i]),
         WellFormed(d)
  PROVE  WellFormed(e)
<1>1. DOMAIN d = 1..Len(d) /\ DOMAIN e = 1..Len(d)
  BY DomainOfSeq, Zenon
<1>2. \A i, j \in DOMAIN d : SameSlot(e[i], e[j]) <=> SameSlot(d[i], d[j])
  BY <1>1, Zenon DEF Alike, SameSlot, Key
<1>3. FiledByKey(e)
  BY <1>1, Zenon DEF WellFormed, FiledByKey, Alike
<1>4. LogsComeLast(e)
  BY <1>1, Zenon DEF WellFormed, LogsComeLast, LogBlocks, Alike
<1>5. HistoryIsOrdered(e)
  <2> SUFFICES ASSUME NEW i \in DOMAIN e, NEW j \in DOMAIN e,
                      i < j, e[i].section \in Standard, SameSlot(e[i], e[j])
               PROVE  e[i].superseded /\ e[i].revision < e[j].revision
    BY Zenon DEF HistoryIsOrdered
  <2>1. d[i].section \in Standard /\ SameSlot(d[i], d[j])
    BY <1>1, <1>2, Zenon DEF Alike
  <2>2. d[i].superseded /\ d[i].revision < d[j].revision
    BY <1>1, <2>1, Zenon DEF WellFormed, HistoryIsOrdered
  <2>3. d[j].section \in Standard
    BY <2>1, Zenon DEF SameSlot
  <2>4. e[i].revision = d[i].revision /\ e[j].revision = d[j].revision
        /\ e[i].superseded = d[i].superseded
    BY <1>1, <2>1, <2>3, Zenon DEF Alike
  <2> QED
    BY <2>2, <2>4, Zenon
<1>6. SlotsHaveHeads(e)
  <2> SUFFICES ASSUME NEW i \in DOMAIN e, e[i].section \in Standard
               PROVE  \E j \in Live(e) : SameSlot(e[i], e[j])
    BY Zenon DEF SlotsHaveHeads
  <2>1. PICK j \in Live(d) : SameSlot(d[i], d[j])
    BY <1>1, Zenon DEF WellFormed, SlotsHaveHeads, Alike
  <2>2. j \in DOMAIN d /\ ~d[j].superseded
    BY Zenon DEF Live
  <2>3. j \in Live(e)
    BY <1>1, <2>2, Zenon DEF Live, Alike
  <2> QED
    BY <1>1, <1>2, <2>1, <2>2, <2>3, Zenon
<1>7. QED
  BY <1>3, <1>4, <1>5, <1>6, Zenon DEF WellFormed

\* An operation that names its section the way the reader files it.
Addressed(op) ==
  op.section \in Standard /\ (op.section \in MultiVariantSections <=> op.variant # NoVariant)

\* The slot of such an operation, as a condition on blocks.
InSlot(op, b) ==
  b.section = op.section
  /\ Key(b) = IF op.variant = NoVariant THEN DefaultVariant ELSE op.variant

\* In a well formed document a lookup finds the last block of the slot, the only
\* one that is not superseded, or the slot is empty.
LEMMA HeadOfSlot ==
  ASSUME NEW d \in Seq(Block), WellFormed(d), NEW op, Addressed(op)
  PROVE  LET h == Lookup(d, op.section, op.variant)
         IN /\ h = 0 => \A i \in DOMAIN d : ~InSlot(op, d[i])
            /\ h # 0 => /\ h \in DOMAIN d /\ InSlot(op, d[h]) /\ ~d[h].superseded
                        /\ d[h].variant = op.variant
                            \/ (op.variant # NoVariant /\ d[h].variant = NoVariant)
                        /\ \A i \in DOMAIN d : InSlot(op, d[i]) /\ i # h =>
                             i < h /\ d[i].superseded /\ d[i].revision < d[h].revision
<1> DEFINE h == Lookup(d, op.section, op.variant)
           s == op.section
           v == op.variant
<1>0. DOMAIN d = 1..Len(d) /\ Len(d) \in Nat
  BY DomainOfSeq, Zenon
<1>1. Keyed(d, s) <=> v # NoVariant
  <2>1. s \notin MultiVariantSections => \A i \in Live(d) :
          d[i].section = s => d[i].variant = NoVariant
    BY Zenon DEF WellFormed, FiledByKey, Live
  <2> QED
    BY <2>1, Zenon DEF Keyed, Addressed
<1>2. \A i \in DOMAIN d : d[i].section = s /\ v = NoVariant => Key(d[i]) = DefaultVariant
  BY Zenon DEF WellFormed, FiledByKey, Addressed, Key
<1>3. ASSUME NEW i \in DOMAIN d, NEW j \in DOMAIN d, InSlot(op, d[i]), InSlot(op, d[j])
      PROVE  SameSlot(d[i], d[j]) /\ d[i].section \in Standard
  BY <1>3, Zenon DEF InSlot, SameSlot, Addressed
<1>4. ASSUME NEW j \in Live(d), InSlot(op, d[j])
      PROVE  j \in HeadsOf(d, s) /\ (v = NoVariant \/ Key(d[j]) = v)
  <2>1. j \in DOMAIN d /\ ~d[j].superseded
    BY Zenon DEF Live
  <2>2. ASSUME NEW k \in Live(d), Compete(d, j, k)
        PROVE  k <= j
    <3>1. k \in DOMAIN d /\ d[k].section = s
      BY <2>2, <1>4, Zenon DEF Live, Compete, InSlot
    <3>2. InSlot(op, d[k])
      BY <3>1, <2>1, <2>2, <1>1, <1>2, <1>4, Zenon DEF Compete, InSlot
    <3>3. ~(j < k)
      BY <3>1, <3>2, <2>1, <1>3, <1>4, Zenon DEF WellFormed, HistoryIsOrdered
    <3> QED
      BY <3>1, <3>3, <2>1, <1>0, SMT
  <2> QED
    BY <2>1, <2>2, <1>4, Zenon DEF HeadsOf, Canonical, InSlot
<1>5. ASSUME h = 0, NEW i \in DOMAIN d, InSlot(op, d[i]) PROVE FALSE
  <2>1. PICK j \in Live(d) : SameSlot(d[i], d[j])
    BY <1>5, Zenon DEF WellFormed, SlotsHaveHeads, Addressed, InSlot
  <2>2. InSlot(op, d[j])
    BY <1>5, <2>1, Zenon DEF InSlot, SameSlot
  <2> DEFINE found == {k \in HeadsOf(d, s) : v = NoVariant \/ Key(d[k]) = v}
  <2>3. found # {}
    BY <1>4, <2>2, Zenon
  <2>4. h = CHOOSE k \in found : TRUE
    BY <1>1, <2>3, Zenon DEF Lookup, Addressed
  <2>5. h \in found
    BY <2>3, <2>4, Zenon
  <2>6. h \in DOMAIN d
    BY <2>5, Zenon DEF HeadsOf, Canonical, Live
  <2> QED
    BY <2>6, <1>5, <1>0, SMT
<1>6. ASSUME h # 0
      PROVE  /\ h \in DOMAIN d /\ InSlot(op, d[h]) /\ ~d[h].superseded
             /\ d[h].variant = v \/ (v # NoVariant /\ d[h].variant = NoVariant)
  <2>1. /\ h \in DOMAIN d /\ ~d[h].superseded /\ d[h].section = s
        /\ v = NoVariant \/ Key(d[h]) = v
    BY <1>6, LookupFacts
  <2>2. InSlot(op, d[h])
    BY <2>1, <1>2, Zenon DEF InSlot
  <2>3. v = NoVariant => d[h].variant = NoVariant
    BY <2>1, Zenon DEF WellFormed, FiledByKey, Addressed
  <2>4. v # NoVariant /\ d[h].variant # NoVariant => d[h].variant = v
    BY <2>1, Zenon DEF Key
  <2> QED
    BY <2>1, <2>2, <2>3, <2>4, Zenon
<1>7. ASSUME h # 0, NEW i \in DOMAIN d, InSlot(op, d[i]), i # h
      PROVE  i < h /\ d[i].superseded /\ d[i].revision < d[h].revision
  <2> HIDE DEF h
  <2>1. h \in DOMAIN d /\ InSlot(op, d[h]) /\ ~d[h].superseded
    BY <1>6, <1>7, Zenon
  <2>2. SameSlot(d[h], d[i]) /\ SameSlot(d[i], d[h])
        /\ d[h].section \in Standard /\ d[i].section \in Standard
    BY <2>1, <1>3, <1>7, Zenon
  <2>3. ~(h < i)
    BY <2>1, <2>2, Zenon DEF WellFormed, HistoryIsOrdered
  <2>4. i < h
    BY <2>1, <2>3, <1>0, <1>7, SMT
  <2> QED
    BY <2>1, <2>2, <2>4, Zenon DEF WellFormed, HistoryIsOrdered
<1>8. QED
  BY <1>5, <1>6, <1>7, Zenon

\* The block an addressed operation writes is of the operation's slot.
Successor(d, h, op, b) ==
  /\ b.section = op.section /\ b.variant = op.variant /\ ~b.superseded
  /\ InSlot(op, b) /\ b.hash = Absent
  /\ b.section \in Standard
  /\ b.section \notin MultiVariantSections => b.variant = NoVariant
  /\ h # 0 => b.revision = d[h].revision + 1

LEMMA NewBlockFacts ==
  ASSUME NEW d, NEW h, NEW op, Addressed(op), NEW source
  PROVE  Successor(d, h, op, NewBlock(d, h, op, source))
<1> DEFINE b == NewBlock(d, h, op, source)
<1>1. /\ b.section = op.section /\ b.variant = op.variant /\ b.superseded = FALSE
      /\ b.hash = Absent
      /\ b.revision = IF h = 0 THEN 1 ELSE d[h].revision + 1
  BY Zenon DEF NewBlock, Written, NextRevision
<1> HIDE DEF b
<1>2. InSlot(op, b)
  BY <1>1, Zenon DEF InSlot, Key, Addressed
<1>3. QED
  BY <1>1, <1>2, Zenon DEF Addressed, Successor, b

LEMMA SlotIsSlot ==
  ASSUME NEW op, NEW b, NEW c, InSlot(op, b)
  PROVE  /\ SameSlot(b, c) <=> InSlot(op, c)
         /\ SameSlot(c, b) <=> InSlot(op, c)
<1> DEFINE key == IF op.variant = NoVariant THEN DefaultVariant ELSE op.variant
<1>1. \A x : InSlot(op, x) <=> x.section = op.section /\ Key(x) = key
  BY Zenon DEF InSlot
<1> HIDE DEF key
<1>2. QED
  BY <1>1, Zenon DEF SameSlot

LEMMA RevisionsAreNumbers ==
  ASSUME NEW d \in Seq(Block), NEW i \in DOMAIN d
  PROVE  d[i].revision \in Nat
<1>1. d[i] \in Block
  BY ElementOfSeq, DomainOfSeq
<1>2. QED
  BY <1>1, Zenon DEF Block, BlockFields

LEMMA ReplaceKeepsOrder ==
  ASSUME NEW d \in Seq(Block), WellFormed(d),
         NEW op \in SectionOperation, Addressed(op), NEW source \in Sources,
         Lookup(d, op.section, op.variant) # 0
  PROVE  WellFormed(ReplaceSection(d, op, source))
<1> DEFINE h == Lookup(d, op.section, op.variant)
           b == NewBlock(d, h, op, source)
           e == ReplaceSection(d, op, source)
<1>1. /\ e \in Seq(Block) /\ Len(e) = Len(d) /\ h \in 1..Len(d)
      /\ \A i \in 1..Len(d) : e[i] = IF i = h THEN b ELSE d[i]
  BY ReplaceFacts
<1>2. DOMAIN d = 1..Len(d) /\ DOMAIN e = 1..Len(d) /\ Len(d) \in Nat
  BY <1>1, DomainOfSeq, Zenon
<1>3. /\ b.section = op.section /\ b.variant = op.variant /\ ~b.superseded
      /\ InSlot(op, b) /\ b.section \in Standard
      /\ b.section \notin MultiVariantSections => b.variant = NoVariant
      /\ b.revision = d[h].revision + 1
  <2>1. h # 0
    OBVIOUS
  <2>2. Successor(d, h, op, b)
    BY NewBlockFacts, Zenon
  <2> HIDE DEF h, b
  <2> QED
    BY <2>1, <2>2, Zenon DEF Successor
<1>4. /\ InSlot(op, d[h]) /\ ~d[h].superseded
      /\ \A i \in DOMAIN d : InSlot(op, d[i]) /\ i # h =>
           i < h /\ d[i].superseded /\ d[i].revision < d[h].revision
  BY HeadOfSlot
<1> HIDE DEF h, b, e
<1>5. FiledByKey(e)
  BY <1>1, <1>2, <1>3, Zenon DEF FiledByKey, WellFormed
<1>6. d[h].section \in Standard /\ PipelineLog \notin Standard
  BY <1>4, KindsAreDisjoint, Zenon DEF InSlot, Addressed, Standard
<1>7. LogBlocks(e) = LogBlocks(d)
  BY <1>1, <1>2, <1>3, <1>6, Zenon DEF LogBlocks
<1>8. LogsComeLast(e)
  BY <1>2, <1>7, Zenon DEF LogsComeLast, WellFormed
<1>9. HistoryIsOrdered(e)
  <2> SUFFICES ASSUME NEW i \in DOMAIN d, NEW j \in DOMAIN d,
                      i < j, e[i].section \in Standard, SameSlot(e[i], e[j])
               PROVE  e[i].superseded /\ e[i].revision < e[j].revision
    BY <1>2, Zenon DEF HistoryIsOrdered
  <2>1. CASE i = h
    <3>1. i # j
      BY <1>2, SMT
    <3>2. e[i] = b /\ e[j] = d[j]
      BY <1>1, <1>2, <2>1, <3>1, Zenon
    <3>3. InSlot(op, d[j]) /\ j # h
      BY <1>3, <2>1, <3>1, <3>2, SlotIsSlot, Zenon
    <3>4. j < h
      BY <1>4, <3>3, Zenon
    <3> QED
      BY <3>4, <2>1, <1>2, SMT
  <2>2. CASE i # h /\ j = h
    <3>1. e[i] = d[i] /\ e[j] = b
      BY <1>1, <1>2, <2>2, Zenon
    <3>2. d[i].superseded /\ d[i].revision < d[h].revision
      BY <1>3, <1>4, <2>2, <3>1, SlotIsSlot, Zenon
    <3>3. d[i].revision \in Nat /\ d[h].revision \in Nat
      BY <1>1, <1>2, RevisionsAreNumbers, Zenon
    <3>4. d[i].revision < b.revision
      BY <1>3, <3>2, <3>3, SMT
    <3> QED
      BY <3>1, <3>2, <3>4, Zenon
  <2>3. CASE i # h /\ j # h
    <3>1. e[i] = d[i] /\ e[j] = d[j]
      BY <1>1, <1>2, <2>3, Zenon
    <3> QED
      BY <3>1, Zenon DEF WellFormed, HistoryIsOrdered
  <2> QED
    BY <2>1, <2>2, <2>3, Zenon
<1>10. SlotsHaveHeads(e)
  <2> SUFFICES ASSUME NEW i \in DOMAIN d, e[i].section \in Standard
               PROVE  \E j \in Live(e) : SameSlot(e[i], e[j])
    BY <1>2, Zenon DEF SlotsHaveHeads
  <2>1. h \in Live(e) /\ e[h] = b
    BY <1>1, <1>2, <1>3, Zenon DEF Live
  <2>2. CASE InSlot(op, e[i])
    BY <2>1, <2>2, <1>3, SlotIsSlot, Zenon
  <2>3. CASE ~InSlot(op, e[i])
    <3>1. i # h
      BY <2>1, <2>3, <1>3, Zenon
    <3>2. e[i] = d[i]
      BY <3>1, <1>1, <1>2, Zenon
    <3>3. PICK j \in Live(d) : SameSlot(d[i], d[j])
      BY <3>2, Zenon DEF WellFormed, SlotsHaveHeads
    <3>4. j # h /\ j \in DOMAIN d /\ ~d[j].superseded
      BY <3>2, <3>3, <2>3, <1>4, SlotIsSlot, Zenon DEF Live
    <3>5. e[j] = d[j] /\ j \in Live(e)
      BY <3>4, <1>1, <1>2, Zenon DEF Live
    <3> QED
      BY <3>2, <3>3, <3>5, Zenon
  <2> QED
    BY <2>2, <2>3
<1>11. QED
  BY <1>5, <1>8, <1>9, <1>10, Zenon DEF WellFormed, e

\* In the document a supersession returns, block i other than the new one is
\* block Origin(i) of the document before.
LEMMA SupersedeKeepsOrder ==
  ASSUME NEW d \in Seq(Block), WellFormed(d),
         NEW op \in SectionOperation, Addressed(op), NEW source \in Sources
  PROVE  WellFormed(SupersedeSection(d, op, source))
<1> DEFINE h == Lookup(d, op.section, op.variant)
           m == MarkSuperseded(d, h)
           p == InsertionPoint(d)
           b == NewBlock(d, h, op, source)
           e == SupersedeSection(d, op, source)
           Origin(i) == IF i < p THEN i ELSE i - 1
<1>1. /\ e \in Seq(Block) /\ Len(e) = Len(d) + 1
      /\ \A i \in 1..(Len(d) + 1) :
           e[i] = IF i < p THEN m[i] ELSE IF i = p THEN b ELSE m[i - 1]
  BY SupersedeFacts
<1>2. DOMAIN d = 1..Len(d) /\ DOMAIN e = 1..(Len(d) + 1) /\ Len(d) \in Nat
  BY <1>1, DomainOfSeq, Zenon
<1>3. Successor(d, h, op, b)
  BY NewBlockFacts, Zenon
<1>4. /\ h = 0 => \A i \in DOMAIN d : ~InSlot(op, d[i])
      /\ h # 0 => /\ h \in DOMAIN d /\ InSlot(op, d[h]) /\ ~d[h].superseded
                  /\ \A i \in DOMAIN d : InSlot(op, d[i]) /\ i # h =>
                       i < h /\ d[i].superseded /\ d[i].revision < d[h].revision
  BY HeadOfSlot, Zenon
<1>5. \A i \in DOMAIN d :
        /\ m[i].superseded = (i = h \/ d[i].superseded)
        /\ SameButMark(m[i], d[i])
  BY MarkFacts
<1>6. /\ p \in 1..(Len(d) + 1)
      /\ \A i \in DOMAIN d : i < p => i \notin LogBlocks(d)
      /\ p # Len(d) + 1 => p \in LogBlocks(d)
  BY InsertionFacts, Zenon
<1> HIDE DEF h, m, p, b, e
<1>7. ASSUME NEW i \in DOMAIN e, i # p
      PROVE  /\ Origin(i) \in DOMAIN d
             /\ e[i] = m[Origin(i)]
             /\ SameButMark(e[i], d[Origin(i)])
             /\ e[i].superseded = (Origin(i) = h \/ d[Origin(i)].superseded)
  <2>1. Origin(i) \in DOMAIN d
    BY <1>2, <1>6, <1>7, SMT
  <2>2. e[i] = m[Origin(i)]
    <3>1. CASE i < p
      BY <3>1, <1>1, <1>2, Zenon
    <3>2. CASE ~(i < p)
      BY <3>2, <1>1, <1>2, <1>7, Zenon
    <3> QED
      BY <3>1, <3>2, Zenon
  <2> QED
    BY <2>1, <2>2, <1>5, Zenon
<1>8. ASSUME NEW i \in DOMAIN e, NEW j \in DOMAIN e, i # p, j # p
      PROVE  /\ i < j => Origin(i) < Origin(j)
             /\ i <= j => Origin(i) <= Origin(j)
  BY <1>2, <1>6, <1>8, SMT
<1>9. e[p] = b /\ p \in DOMAIN e
  <2>1. p \in 1..(Len(d) + 1) /\ ~(p < p)
    BY <1>6, <1>2, SMT
  <2> QED
    BY <2>1, <1>1, <1>2, Zenon
<1>10. ASSUME NEW x, NEW y, SameButMark(x, y)
       PROVE  /\ x.section = y.section /\ x.variant = y.variant /\ Key(x) = Key(y)
              /\ x.revision = y.revision /\ (InSlot(op, x) <=> InSlot(op, y))
  BY <1>10, Zenon DEF SameButMark, Key, InSlot
<1>11. b.section # PipelineLog
  BY <1>3, KindsAreDisjoint, Zenon DEF Successor, Standard
<1> HIDE DEF Origin
<1>12. FiledByKey(e)
  <2> SUFFICES ASSUME NEW i \in DOMAIN e, e[i].section \notin MultiVariantSections
               PROVE  e[i].variant = NoVariant
    BY Zenon DEF FiledByKey
  <2>1. CASE i = p
    BY <2>1, <1>3, <1>9, Zenon DEF Successor
  <2>2. CASE i # p
    <3> DEFINE o == Origin(i)
    <3>1. o \in DOMAIN d /\ e[i].section = d[o].section /\ e[i].variant = d[o].variant
      BY <2>2, <1>7, <1>10, Zenon
    <3> HIDE DEF o
    <3> QED
      BY <3>1, Zenon DEF FiledByKey, WellFormed
  <2> QED
    BY <2>1, <2>2
<1>13. ASSUME NEW i \in DOMAIN e, i # p
       PROVE  i \in LogBlocks(e) <=> Origin(i) \in LogBlocks(d)
  BY <1>13, <1>7, <1>10, Zenon DEF LogBlocks
<1>14. LogsComeLast(e)
  <2> SUFFICES ASSUME NEW i \in DOMAIN e, NEW j \in DOMAIN e,
                      i \in LogBlocks(e), i <= j
               PROVE  j \in LogBlocks(e)
    BY Zenon DEF LogsComeLast
  <2>1. i # p
    BY <1>9, <1>11, Zenon DEF LogBlocks
  <2>2. Origin(i) \in LogBlocks(d) /\ Origin(i) \in DOMAIN d
    BY <2>1, <1>7, <1>13, Zenon
  <2>3. ~(i < p)
    BY <2>2, <1>6, Zenon DEF Origin
  <2>4. j # p
    BY <2>1, <2>3, <1>2, <1>6, SMT
  <2>5. Origin(j) \in DOMAIN d /\ Origin(i) <= Origin(j)
    BY <2>1, <2>4, <1>7, <1>8, Zenon
  <2>6. Origin(j) \in LogBlocks(d)
    BY <2>2, <2>5, Zenon DEF LogsComeLast, WellFormed
  <2> QED
    BY <2>4, <2>6, <1>13, Zenon
<1>15. HistoryIsOrdered(e)
  <2> SUFFICES ASSUME NEW i \in DOMAIN e, NEW j \in DOMAIN e,
                      i < j, e[i].section \in Standard, SameSlot(e[i], e[j])
               PROVE  e[i].superseded /\ e[i].revision < e[j].revision
    BY Zenon DEF HistoryIsOrdered
  <2>1. CASE i = p
    <3>1. j # p /\ p # Len(d) + 1
      BY <2>1, <1>2, <1>6, SMT
    <3>2. p \in LogBlocks(d) /\ p \in DOMAIN d
      BY <3>1, <1>6, Zenon DEF LogBlocks
    <3>3. p <= Origin(j)
      BY <2>1, <1>2, <1>6, SMT DEF Origin
    <3>4. Origin(j) \in LogBlocks(d)
      BY <3>1, <3>2, <3>3, <1>7, Zenon DEF LogsComeLast, WellFormed
    <3>5. e[j].section = PipelineLog
      BY <3>1, <3>4, <1>13, Zenon DEF LogBlocks
    <3> QED
      BY <3>5, <2>1, <1>9, <1>11, Zenon DEF SameSlot
  <2>2. CASE i # p /\ j = p
    <3> DEFINE o == Origin(i)
    <3>1. o \in DOMAIN d /\ SameButMark(e[i], d[o])
          /\ e[i].superseded = (o = h \/ d[o].superseded)
      BY <2>2, <1>7, Zenon
    <3> HIDE DEF o
    <3>2. InSlot(op, e[i])
      BY <2>2, <1>3, <1>9, SlotIsSlot, Zenon DEF Successor
    <3>3. InSlot(op, d[o]) /\ e[i].revision = d[o].revision
      BY <3>1, <3>2, <1>10, Zenon
    <3>4. h # 0
      BY <3>1, <3>3, <1>4, Zenon
    <3>5. e[j].revision = d[h].revision + 1 /\ h \in DOMAIN d
      BY <3>4, <2>2, <1>3, <1>4, <1>9, Zenon DEF Successor
    <3>6. d[h].revision \in Nat /\ d[o].revision \in Nat
      BY <3>1, <3>5, RevisionsAreNumbers, Zenon
    <3>7. CASE o = h
      <4>1. e[i].superseded
        BY <3>1, <3>7, Zenon
      <4>2. d[h].revision < d[h].revision + 1
        BY <3>6, SMT
      <4> QED
        BY <4>1, <4>2, <3>3, <3>5, <3>7, Zenon
    <3>8. CASE o # h
      <4>1. d[o].superseded /\ d[o].revision < d[h].revision
        BY <3>1, <3>3, <3>4, <3>8, <1>4, Zenon
      <4>2. e[i].superseded
        BY <4>1, <3>1, Zenon
      <4>3. d[o].revision < d[h].revision + 1
        BY <4>1, <3>6, SMT
      <4> QED
        BY <4>2, <4>3, <3>3, <3>5, Zenon
    <3> QED
      BY <3>7, <3>8, Zenon
  <2>3. CASE i # p /\ j # p
    <3> DEFINE o == Origin(i)
               q == Origin(j)
    <3>1. /\ o \in DOMAIN d /\ SameButMark(e[i], d[o])
          /\ e[i].superseded = (o = h \/ d[o].superseded)
          /\ q \in DOMAIN d /\ SameButMark(e[j], d[q])
      BY <2>3, <1>7, Zenon
    <3>2. o < q
      BY <2>3, <1>8, Zenon
    <3> HIDE DEF o, q
    <3>3. /\ d[o].section \in Standard /\ SameSlot(d[o], d[q])
          /\ e[i].revision = d[o].revision /\ e[j].revision = d[q].revision
      <4>1. d[o].section = e[i].section /\ Key(d[o]) = Key(e[i])
            /\ d[q].section = e[j].section /\ Key(d[q]) = Key(e[j])
            /\ e[i].revision = d[o].revision /\ e[j].revision = d[q].revision
        BY <3>1, <1>10, Zenon
      <4> QED
        BY <4>1, Zenon DEF SameSlot
    <3>4. d[o].superseded /\ d[o].revision < d[q].revision
      BY <3>1, <3>2, <3>3, Zenon DEF WellFormed, HistoryIsOrdered
    <3>5. e[i].superseded
      BY <3>1, <3>4, Zenon
    <3> QED
      BY <3>3, <3>4, <3>5, Zenon
  <2> QED
    BY <2>1, <2>2, <2>3, Zenon
<1>16. SlotsHaveHeads(e)
  <2> SUFFICES ASSUME NEW i \in DOMAIN e, e[i].section \in Standard
               PROVE  \E j \in Live(e) : SameSlot(e[i], e[j])
    BY Zenon DEF SlotsHaveHeads
  <2>1. p \in Live(e) /\ e[p] = b
    BY <1>3, <1>9, Zenon DEF Live, Successor
  <2>2. CASE InSlot(op, e[i])
    BY <2>1, <2>2, <1>3, SlotIsSlot, Zenon DEF Successor
  <2>3. CASE ~InSlot(op, e[i])
    <3>1. i # p
      BY <2>1, <2>3, <1>3, Zenon DEF Successor
    <3>2. /\ Origin(i) \in DOMAIN d /\ e[i].section = d[Origin(i)].section
          /\ Key(e[i]) = Key(d[Origin(i)]) /\ ~InSlot(op, d[Origin(i)])
      BY <3>1, <2>3, <1>7, <1>10, Zenon
    <3>3. PICK k \in Live(d) : SameSlot(d[Origin(i)], d[k])
      BY <3>2, Zenon DEF WellFormed, SlotsHaveHeads
    <3>4. k \in DOMAIN d /\ ~d[k].superseded
      BY Zenon DEF Live
    <3>5. ~InSlot(op, d[k])
      BY <3>2, <3>3, SlotIsSlot, Zenon DEF SameSlot
    <3>6. k # h
      <4>1. k # 0
        BY <3>4, <1>2, SMT
      <4> QED
        BY <4>1, <3>4, <3>5, <1>4, Zenon
    <3>7. PICK j \in DOMAIN e : j # p /\ Origin(j) = k
      <4>1. CASE k < p
        <5>1. k \in DOMAIN e /\ k # p
          BY <4>1, <3>4, <1>2, <1>6, SMT
        <5> QED
          BY <4>1, <5>1, Zenon DEF Origin
      <4>2. CASE ~(k < p)
        <5>1. k + 1 \in DOMAIN e /\ k + 1 # p /\ ~(k + 1 < p) /\ (k + 1) - 1 = k
          BY <4>2, <3>4, <1>2, <1>6, SMT
        <5> QED
          BY <5>1, Zenon DEF Origin
      <4> QED
        BY <4>1, <4>2, Zenon
    <3>8. SameButMark(e[j], d[k]) /\ ~e[j].superseded
      BY <3>4, <3>6, <3>7, <1>7, Zenon
    <3>9. j \in Live(e)
      BY <3>8, Zenon DEF Live
    <3>10. SameSlot(e[i], e[j])
      BY <3>2, <3>3, <3>8, <1>10, Zenon DEF SameSlot
    <3> QED
      BY <3>9, <3>10, Zenon
  <2> QED
    BY <2>2, <2>3
<1>17. QED
  BY <1>12, <1>14, <1>15, <1>16, Zenon DEF WellFormed, e

LEMMA StampKeepsOrder ==
  ASSUME NEW before \in Seq(Block), NEW after \in Seq(Block), WellFormed(after),
         NEW op \in SectionOperation, NEW kind
  PROVE  WellFormed(StampHead(before, after, op, kind))
<1> DEFINE r == StampHead(before, after, op, kind)
<1>1. /\ r \in Seq(Block) /\ Len(r) = Len(after)
      /\ \A i \in 1..Len(after) : SameButStamp(r[i], after[i])
  BY StampFacts
<1> HIDE DEF r
<1>2. \A i \in 1..Len(after) : Alike(r[i], after[i])
  BY <1>1, Zenon DEF SameButStamp, Alike
<1>3. QED
  BY <1>1, <1>2, AlikeKept, Zenon DEF r

LEMMA AppendKeepsOrder ==
  ASSUME NEW d \in Seq(Block), WellFormed(d), NEW entry \in Entries, LogBlocks(d) # {}
  PROVE  WellFormed(AppendLogEntry(d, entry))
<1> DEFINE r == AppendLogEntry(d, entry)
<1>1. /\ r \in Seq(Block) /\ Len(r) = Len(d)
      /\ \A i \in 1..Len(d) : /\ SameButEntry(r[i], d[i])
                              /\ d[i].section # PipelineLog => r[i] = d[i]
  BY AppendFacts
<1> HIDE DEF r
<1>2. PipelineLog \notin Standard
  BY KindsAreDisjoint, Zenon DEF Standard
<1>3. \A i \in 1..Len(d) : Alike(r[i], d[i])
  BY <1>1, <1>2, Zenon DEF SameButEntry, Alike
<1>4. QED
  BY <1>1, <1>3, AlikeKept, Zenon DEF r

LEMMA MaintainKeepsOrder ==
  ASSUME NEW d \in Seq(Block), WellFormed(d), NEW s \in Stages
  PROVE  WellFormed(MaintainGaps(d, s))
<1> DEFINE op == GapsOperation(d, s)
<1>1. op \in SectionOperation /\ op.section = Gaps /\ op.variant = NoVariant
  BY GapsOperationTyped
<1>2. Gaps \in Standard /\ Gaps \notin MultiVariantSections
  BY GapsIsSingle, KindsAreDisjoint, Zenon DEF Standard
<1>3. Addressed(op)
  BY <1>1, <1>2, Zenon DEF Addressed
<1>4. \/ MaintainGaps(d, s) = d
      \/ /\ Lookup(d, op.section, op.variant) # 0
         /\ MaintainGaps(d, s) = ReplaceSection(d, op, Maintainer)
      \/ MaintainGaps(d, s) = SupersedeSection(d, op, Maintainer)
  BY MaintainIsAnEdit, Zenon
<1> HIDE DEF op
<1>5. Lookup(d, op.section, op.variant) # 0 => WellFormed(ReplaceSection(d, op, Maintainer))
  BY <1>1, <1>3, MaintainerIsASource, ReplaceKeepsOrder, Zenon
<1>6. WellFormed(SupersedeSection(d, op, Maintainer))
  BY <1>1, <1>3, MaintainerIsASource, SupersedeKeepsOrder, Zenon
<1>7. QED
  BY <1>4, <1>5, <1>6, Zenon

LEMMA FinishKeepsOrder ==
  ASSUME NEW d \in Seq(Block), NEW written \in Seq(Block), WellFormed(written),
         NEW op \in SectionOperation, NEW kind, NEW s, NEW options,
         ~MaintenanceThrows(op.section, s, options)
  PROVE  WellFormed(FinishSection(d, written, op, kind, s, options))
<1> DEFINE m == IF options.maintainGaps /\ op.section # Gaps
                THEN MaintainGaps(written, s) ELSE written
<1>1. s \in Stages => /\ MaintainGaps(written, s) \in Seq(Block)
                      /\ WellFormed(MaintainGaps(written, s))
  BY MaintainTyped, MaintainKeepsOrder, Zenon
<1>2. m \in Seq(Block) /\ WellFormed(m)
  BY <1>1, Zenon DEF MaintenanceThrows
<1> HIDE DEF m
<1>3. WellFormed(StampHead(d, m, op, kind))
  BY <1>2, StampKeepsOrder, Zenon
<1>4. QED
  BY <1>2, <1>3, Zenon DEF FinishSection, m

LEMMA FinishOtherKeepsOrder ==
  ASSUME NEW written \in Seq(Block), WellFormed(written), NEW s, NEW options,
         ~MaintenanceThrows(PipelineLog, s, options)
  PROVE  WellFormed(FinishOther(written, s, options))
<1>1. PipelineLog # Gaps
  BY GapsIsSingle, KindsAreDisjoint, Zenon
<1>2. s \in Stages => WellFormed(MaintainGaps(written, s))
  BY MaintainKeepsOrder, Zenon
<1>3. QED
  BY <1>1, <1>2, Zenon DEF FinishOther, MaintenanceThrows

-----------------------------------------------------------------------------
(* Stamps.                                                                 *)

Fresh(b) == b.section # PipelineLog /\ b.hash # Absent => b.hash = Digest(b)

LEMMA FreshnessByBlock ==
  ASSUME NEW d \in Seq(Block)
  PROVE  HashesRecompute(d) <=> \A i \in 1..Len(d) : Fresh(d[i])
<1>1. DOMAIN d = 1..Len(d)
  BY DomainOfSeq, Zenon
<1>2. QED
  BY <1>1, Zenon DEF HashesRecompute, Fresh

LEMMA NewBlockIsFresh ==
  ASSUME NEW d, NEW h, NEW op, NEW source
  PROVE  Fresh(NewBlock(d, h, op, source))
<1>1. NewBlock(d, h, op, source).hash = Absent
  BY Zenon DEF NewBlock, Written, NextRevision
<1>2. QED
  BY <1>1, Zenon DEF Fresh

LEMMA MarkKeepsFresh ==
  ASSUME NEW b, NEW c, SameButMark(b, c), Fresh(c)
  PROVE  Fresh(b)
BY Zenon DEF SameButMark, Fresh, Digest

LEMMA ReplaceKeepsFresh ==
  ASSUME NEW d \in Seq(Block), HashesRecompute(d),
         NEW op \in SectionOperation, NEW source \in Sources,
         Lookup(d, op.section, op.variant) # 0
  PROVE  HashesRecompute(ReplaceSection(d, op, source))
<1> DEFINE h == Lookup(d, op.section, op.variant)
           b == NewBlock(d, h, op, source)
           e == ReplaceSection(d, op, source)
<1>1. /\ e \in Seq(Block) /\ Len(e) = Len(d)
      /\ \A i \in 1..Len(d) : e[i] = IF i = h THEN b ELSE d[i]
  BY ReplaceFacts
<1>2. Fresh(b)
  BY NewBlockIsFresh, Zenon
<1>3. \A i \in 1..Len(d) : Fresh(d[i])
  BY FreshnessByBlock, Zenon
<1> HIDE DEF h, b, e
<1>4. \A i \in 1..Len(d) : Fresh(e[i])
  BY <1>1, <1>2, <1>3, Zenon
<1>5. QED
  BY <1>1, <1>4, FreshnessByBlock, Zenon DEF e

LEMMA SupersedeKeepsFresh ==
  ASSUME NEW d \in Seq(Block), HashesRecompute(d),
         NEW op \in SectionOperation, NEW source \in Sources
  PROVE  HashesRecompute(SupersedeSection(d, op, source))
<1> DEFINE h == Lookup(d, op.section, op.variant)
           m == MarkSuperseded(d, h)
           p == InsertionPoint(d)
           b == NewBlock(d, h, op, source)
           e == SupersedeSection(d, op, source)
<1>1. /\ e \in Seq(Block) /\ Len(e) = Len(d) + 1
      /\ \A i \in 1..(Len(d) + 1) :
           e[i] = IF i < p THEN m[i] ELSE IF i = p THEN b ELSE m[i - 1]
  BY SupersedeFacts
<1>2. Fresh(b)
  BY NewBlockIsFresh, Zenon
<1>3. p \in 1..(Len(d) + 1) /\ Len(d) \in Nat /\ DOMAIN d = 1..Len(d)
  BY InsertionFacts, DomainOfSeq, Zenon
<1>4. \A i \in DOMAIN d : SameButMark(m[i], d[i])
  BY MarkFacts
<1> HIDE DEF h, m, p, b, e
<1>5. \A i \in 1..Len(d) : Fresh(m[i])
  BY <1>3, <1>4, FreshnessByBlock, MarkKeepsFresh, Zenon
<1>6. ASSUME NEW i \in 1..(Len(d) + 1) PROVE Fresh(e[i])
  <2>1. CASE i < p
    <3>1. i \in 1..Len(d)
      BY <1>3, <2>1, SMT
    <3> QED
      BY <3>1, <2>1, <1>1, <1>5, Zenon
  <2>2. CASE i = p
    <3>1. ~(i < p)
      BY <2>2, <1>3, SMT
    <3> QED
      BY <3>1, <2>2, <1>1, <1>2, Zenon
  <2>3. CASE ~(i < p) /\ i # p
    <3>1. i - 1 \in 1..Len(d)
      BY <1>3, <2>3, SMT
    <3> QED
      BY <3>1, <2>3, <1>1, <1>5, Zenon
  <2> QED
    BY <2>1, <2>2, <2>3
<1>7. QED
  BY <1>1, <1>6, FreshnessByBlock, Zenon DEF e

LEMMA StampKeepsFresh ==
  ASSUME NEW before \in Seq(Block), NEW after \in Seq(Block), HashesRecompute(after),
         NEW op \in SectionOperation, NEW kind
  PROVE  HashesRecompute(StampHead(before, after, op, kind))
<1> DEFINE r == StampHead(before, after, op, kind)
<1>1. /\ r \in Seq(Block) /\ Len(r) = Len(after)
      /\ \A i \in 1..Len(after) :
           /\ SameButStamp(r[i], after[i])
           /\ r[i].hash = after[i].hash \/ r[i].hash = Digest(r[i])
  BY StampFacts
<1>2. \A i \in 1..Len(after) : Fresh(after[i])
  BY FreshnessByBlock, Zenon
<1> HIDE DEF r
<1>3. ASSUME NEW i \in 1..Len(after) PROVE Fresh(r[i])
  <2>1. Digest(r[i]) = Digest(after[i]) /\ r[i].section = after[i].section
    BY <1>1, Zenon DEF SameButStamp, Digest
  <2> QED
    BY <2>1, <1>1, <1>2, Zenon DEF Fresh
<1>4. QED
  BY <1>1, <1>3, FreshnessByBlock, Zenon DEF r

LEMMA AppendKeepsFresh ==
  ASSUME NEW d \in Seq(Block), HashesRecompute(d), NEW entry \in Entries, LogBlocks(d) # {}
  PROVE  HashesRecompute(AppendLogEntry(d, entry))
<1> DEFINE r == AppendLogEntry(d, entry)
<1>1. /\ r \in Seq(Block) /\ Len(r) = Len(d)
      /\ \A i \in 1..Len(d) : /\ SameButEntry(r[i], d[i])
                              /\ d[i].section # PipelineLog => r[i] = d[i]
  BY AppendFacts
<1>2. \A i \in 1..Len(d) : Fresh(d[i])
  BY FreshnessByBlock, Zenon
<1> HIDE DEF r
<1>3. \A i \in 1..Len(d) : Fresh(r[i])
  BY <1>1, <1>2, Zenon DEF Fresh, SameButEntry
<1>4. QED
  BY <1>1, <1>3, FreshnessByBlock, Zenon DEF r

LEMMA MaintainKeepsFresh ==
  ASSUME NEW d \in Seq(Block), HashesRecompute(d), NEW s \in Stages
  PROVE  HashesRecompute(MaintainGaps(d, s))
<1> DEFINE op == GapsOperation(d, s)
<1>1. op \in SectionOperation
  BY GapsOperationTyped
<1>2. \/ MaintainGaps(d, s) = d
      \/ /\ Lookup(d, op.section, op.variant) # 0
         /\ MaintainGaps(d, s) = ReplaceSection(d, op, Maintainer)
      \/ MaintainGaps(d, s) = SupersedeSection(d, op, Maintainer)
  BY MaintainIsAnEdit, Zenon
<1> HIDE DEF op
<1>3. Lookup(d, op.section, op.variant) # 0 =>
        HashesRecompute(ReplaceSection(d, op, Maintainer))
  BY <1>1, MaintainerIsASource, ReplaceKeepsFresh, Zenon
<1>4. HashesRecompute(SupersedeSection(d, op, Maintainer))
  BY <1>1, MaintainerIsASource, SupersedeKeepsFresh, Zenon
<1>5. QED
  BY <1>2, <1>3, <1>4, Zenon

LEMMA FinishKeepsFresh ==
  ASSUME NEW d \in Seq(Block), NEW written \in Seq(Block), HashesRecompute(written),
         NEW op \in SectionOperation, NEW kind, NEW s, NEW options,
         ~MaintenanceThrows(op.section, s, options)
  PROVE  HashesRecompute(FinishSection(d, written, op, kind, s, options))
<1> DEFINE m == IF options.maintainGaps /\ op.section # Gaps
                THEN MaintainGaps(written, s) ELSE written
<1>1. s \in Stages => /\ MaintainGaps(written, s) \in Seq(Block)
                      /\ HashesRecompute(MaintainGaps(written, s))
  BY MaintainTyped, MaintainKeepsFresh, Zenon
<1>2. m \in Seq(Block) /\ HashesRecompute(m)
  BY <1>1, Zenon DEF MaintenanceThrows
<1> HIDE DEF m
<1>3. HashesRecompute(StampHead(d, m, op, kind))
  BY <1>2, StampKeepsFresh, Zenon
<1>4. QED
  BY <1>2, <1>3, Zenon DEF FinishSection, m

LEMMA FinishOtherKeepsFresh ==
  ASSUME NEW written \in Seq(Block), HashesRecompute(written), NEW s, NEW options,
         ~MaintenanceThrows(PipelineLog, s, options)
  PROVE  HashesRecompute(FinishOther(written, s, options))
<1>1. PipelineLog # Gaps
  BY GapsIsSingle, KindsAreDisjoint, Zenon
<1>2. s \in Stages => HashesRecompute(MaintainGaps(written, s))
  BY MaintainKeepsFresh, Zenon
<1>3. QED
  BY <1>1, <1>2, Zenon DEF FinishOther, MaintenanceThrows

-----------------------------------------------------------------------------
(* What is kept.                                                           *)

LEMMA BlocksAreRecords ==
  ASSUME NEW d \in Seq(Block), NEW i \in DOMAIN d
  PROVE  d[i] \in BlockFields
<1>1. d[i] \in Block
  BY ElementOfSeq, DomainOfSeq
<1>2. QED
  BY <1>1, Zenon DEF Block

\* Blocks that differ in the mark alone have the same content, and one of them
\* that is equally marked is the other.
LEMMA ContentIsButTheMark ==
  ASSUME NEW b \in BlockFields, NEW c \in BlockFields
  PROVE  /\ SameContent(b, c) <=> SameButMark(b, c)
         /\ SameButMark(b, c) /\ b.superseded = c.superseded => b = c
<1> DEFINE x == [b EXCEPT !.superseded = TRUE]
           y == [c EXCEPT !.superseded = TRUE]
<1>1. ASSUME SameContent(b, c) PROVE SameButMark(b, c)
  <2>1. x = y
    BY <1>1, Zenon DEF SameContent
  <2>2. SameButMark(x, b) /\ SameButMark(y, c)
    BY MarkedFields, Zenon
  <2> HIDE DEF x, y
  <2> QED
    BY <2>1, <2>2, Zenon DEF SameButMark
<1>2. ASSUME NEW u \in BlockFields, NEW v \in BlockFields,
             SameButMark(u, v), u.superseded = v.superseded
      PROVE  u = v
  BY <1>2, SMT DEF SameButMark, BlockFields
<1>3. ASSUME SameButMark(b, c) PROVE SameContent(b, c)
  <2>1. x \in BlockFields /\ x.superseded = TRUE /\ SameButMark(x, b)
    BY MarkedFields, Zenon
  <2>2. y \in BlockFields /\ y.superseded = TRUE /\ SameButMark(y, c)
    BY MarkedFields, Zenon
  <2> HIDE DEF x, y
  <2>3. SameButMark(x, y)
    BY <1>3, <2>1, <2>2, Zenon DEF SameButMark
  <2>4. x = y
    BY <1>2, <2>1, <2>2, <2>3, Zenon
  <2> QED
    BY <2>4, Zenon DEF SameContent, x, y
<1>4. QED
  BY <1>1, <1>2, <1>3, Zenon

\* The blocks no edit may lose, and that one of them is still there after an
\* edit, marked if it was or if the operation was about its slot.
MustBeKept(b) == b.section \in Standard /\ (MustSupersede(b.source) \/ b.superseded)
Keeps(op, d, e) ==
  \A i \in DOMAIN d : MustBeKept(d[i]) =>
    \E j \in DOMAIN e : /\ SameButMark(e[j], d[i])
                        /\ d[i].superseded \/ InSlot(op, d[i]) => e[j].superseded

LEMMA KeepsIsTransitive ==
  ASSUME NEW op, NEW other, NEW d, NEW e, NEW f, Keeps(op, d, e), Keeps(other, e, f)
  PROVE  Keeps(op, d, f)
<1> SUFFICES ASSUME NEW i \in DOMAIN d, MustBeKept(d[i])
             PROVE  \E k \in DOMAIN f :
                      /\ SameButMark(f[k], d[i])
                      /\ d[i].superseded \/ InSlot(op, d[i]) => f[k].superseded
  BY Zenon DEF Keeps
<1>1. PICK j \in DOMAIN e : /\ SameButMark(e[j], d[i])
                            /\ d[i].superseded \/ InSlot(op, d[i]) => e[j].superseded
  BY Zenon DEF Keeps
<1>2. MustBeKept(e[j])
  BY <1>1, Zenon DEF MustBeKept, SameButMark
<1>3. PICK k \in DOMAIN f : /\ SameButMark(f[k], e[j])
                            /\ e[j].superseded \/ InSlot(other, e[j]) => f[k].superseded
  BY <1>2, Zenon DEF Keeps
<1>4. QED
  BY <1>1, <1>3, Zenon DEF SameButMark

LEMMA ReplaceKeeps ==
  ASSUME NEW d \in Seq(Block), WellFormed(d),
         NEW op \in SectionOperation, Addressed(op), NEW source \in Sources,
         Lookup(d, op.section, op.variant) # 0,
         ~MustSupersede(d[Lookup(d, op.section, op.variant)].source)
  PROVE  Keeps(op, d, ReplaceSection(d, op, source))
<1> DEFINE h == Lookup(d, op.section, op.variant)
           b == NewBlock(d, h, op, source)
           e == ReplaceSection(d, op, source)
<1>1. /\ e \in Seq(Block) /\ Len(e) = Len(d) /\ h \in 1..Len(d)
      /\ \A i \in 1..Len(d) : e[i] = IF i = h THEN b ELSE d[i]
  BY ReplaceFacts
<1>2. DOMAIN d = 1..Len(d) /\ DOMAIN e = 1..Len(d)
  BY <1>1, DomainOfSeq, Zenon
<1>3. /\ ~d[h].superseded
      /\ \A i \in DOMAIN d : InSlot(op, d[i]) /\ i # h => d[i].superseded
  BY HeadOfSlot, Zenon
<1>4. ~MustSupersede(d[h].source)
  OBVIOUS
<1> HIDE DEF h, b, e
<1>5. ASSUME NEW i \in DOMAIN d, MustBeKept(d[i])
      PROVE  /\ i \in DOMAIN e /\ e[i] = d[i]
             /\ d[i].superseded \/ InSlot(op, d[i]) => e[i].superseded
  <2>1. i # h
    BY <1>3, <1>4, <1>5, Zenon DEF MustBeKept
  <2>2. i \in DOMAIN e /\ e[i] = d[i]
    BY <2>1, <1>1, <1>2, Zenon
  <2> QED
    BY <2>1, <2>2, <1>3, Zenon
<1>6. QED
  BY <1>5, Zenon DEF Keeps, SameButMark, e

\* Where a supersession leaves a block, with its mark.
LEMMA SupersedeImage ==
  ASSUME NEW d \in Seq(Block), NEW op \in SectionOperation, NEW source \in Sources,
         NEW i \in DOMAIN d
  PROVE  LET h == Lookup(d, op.section, op.variant)
             e == SupersedeSection(d, op, source)
         IN \E j \in DOMAIN e : /\ SameButMark(e[j], d[i])
                                /\ e[j].superseded <=> i = h \/ d[i].superseded
<1> DEFINE h == Lookup(d, op.section, op.variant)
           m == MarkSuperseded(d, h)
           p == InsertionPoint(d)
           b == NewBlock(d, h, op, source)
           e == SupersedeSection(d, op, source)
           j == IF i < p THEN i ELSE i + 1
<1>1. /\ e \in Seq(Block) /\ Len(e) = Len(d) + 1
      /\ \A k \in 1..(Len(d) + 1) :
           e[k] = IF k < p THEN m[k] ELSE IF k = p THEN b ELSE m[k - 1]
  BY SupersedeFacts
<1>2. DOMAIN d = 1..Len(d) /\ DOMAIN e = 1..(Len(d) + 1) /\ Len(d) \in Nat
  BY <1>1, DomainOfSeq, Zenon
<1>3. SameButMark(m[i], d[i]) /\ m[i].superseded = (i = h \/ d[i].superseded)
  BY MarkFacts
<1>4. p \in 1..(Len(d) + 1)
  BY InsertionFacts, Zenon
<1> HIDE DEF h, m, p, b, e
<1>5. j \in DOMAIN e /\ e[j] = m[i]
  <2>1. CASE i < p
    <3>1. j = i /\ i \in 1..(Len(d) + 1)
      BY <2>1, <1>2, SMT
    <3> QED
      BY <3>1, <2>1, <1>1, <1>2, Zenon
  <2>2. CASE ~(i < p)
    <3>1. j = i + 1 /\ i + 1 \in 1..(Len(d) + 1) /\ ~(i + 1 < p) /\ i + 1 # p
          /\ (i + 1) - 1 = i
      BY <2>2, <1>2, <1>4, SMT
    <3> HIDE DEF j
    <3>2. e[j] = m[(i + 1) - 1]
      BY <3>1, <1>1, Zenon
    <3> QED
      BY <3>1, <3>2, <1>2, Zenon
  <2> QED
    BY <2>1, <2>2, Zenon
<1> HIDE DEF j
<1>6. QED
  BY <1>3, <1>5, Zenon DEF h, e

LEMMA SupersedeKeeps ==
  ASSUME NEW d \in Seq(Block), WellFormed(d),
         NEW op \in SectionOperation, Addressed(op), NEW source \in Sources
  PROVE  Keeps(op, d, SupersedeSection(d, op, source))
<1> DEFINE h == Lookup(d, op.section, op.variant)
           e == SupersedeSection(d, op, source)
<1>1. /\ h = 0 => \A i \in DOMAIN d : ~InSlot(op, d[i])
      /\ h # 0 => \A i \in DOMAIN d : InSlot(op, d[i]) /\ i # h => d[i].superseded
  BY HeadOfSlot, Zenon
<1>2. \A i \in DOMAIN d : \E j \in DOMAIN e :
        SameButMark(e[j], d[i]) /\ (e[j].superseded <=> i = h \/ d[i].superseded)
  BY SupersedeImage, Zenon
<1> HIDE DEF h, e
<1>3. QED
  BY <1>1, <1>2, Zenon DEF Keeps, e

\* Maintenance names its section the way the reader files it.
LEMMA GapsOperationAddressed ==
  ASSUME NEW d \in Seq(Block), NEW s \in Stages
  PROVE  GapsOperation(d, s) \in SectionOperation /\ Addressed(GapsOperation(d, s))
<1> DEFINE op == GapsOperation(d, s)
<1>1. op \in SectionOperation /\ op.section = Gaps /\ op.variant = NoVariant
  BY GapsOperationTyped
<1>2. Gaps \in Standard /\ Gaps \notin MultiVariantSections
  BY GapsIsSingle, KindsAreDisjoint, Zenon DEF Standard
<1>3. QED
  BY <1>1, <1>2, Zenon DEF Addressed

LEMMA MaintainKeeps ==
  ASSUME NEW d \in Seq(Block), WellFormed(d), NEW s \in Stages
  PROVE  Keeps(GapsOperation(d, s), d, MaintainGaps(d, s)) \/ MaintainGaps(d, s) = d
<1> DEFINE op == GapsOperation(d, s)
           g  == Lookup(d, op.section, op.variant)
<1>1. op \in SectionOperation /\ Addressed(op)
  BY GapsOperationAddressed, Zenon
<1>2. \/ MaintainGaps(d, s) = d
      \/ /\ g # 0 /\ ~MustSupersede(d[g].source)
         /\ MaintainGaps(d, s) = ReplaceSection(d, op, Maintainer)
      \/ MaintainGaps(d, s) = SupersedeSection(d, op, Maintainer)
  BY MaintainIsAnEdit, Zenon
<1> HIDE DEF op
<1>3. g # 0 /\ ~MustSupersede(d[g].source) => Keeps(op, d, ReplaceSection(d, op, Maintainer))
  BY <1>1, MaintainerIsASource, ReplaceKeeps, Zenon
<1>4. Keeps(op, d, SupersedeSection(d, op, Maintainer))
  BY <1>1, MaintainerIsASource, SupersedeKeeps, Zenon
<1> HIDE DEF g
<1>5. QED
  BY <1>2, <1>3, <1>4, Zenon DEF op

LEMMA StampKeeps ==
  ASSUME NEW before \in Seq(Block), NEW after \in Seq(Block), WellFormed(after),
         NEW op \in SectionOperation, Addressed(op), NEW kind, NEW d, Keeps(op, d, after)
  PROVE  Keeps(op, d, StampHead(before, after, op, kind))
<1> DEFINE r == StampHead(before, after, op, kind)
           h == Lookup(after, op.section, op.variant)
<1>1. /\ r \in Seq(Block) /\ Len(r) = Len(after)
      /\ \A i \in 1..Len(after) : i # h => r[i] = after[i]
  BY StampFacts
<1>2. DOMAIN r = DOMAIN after /\ DOMAIN after = 1..Len(after) /\ Len(after) \in Nat
  BY <1>1, DomainOfSeq, Zenon
<1>3. h # 0 => InSlot(op, after[h]) /\ ~after[h].superseded
  BY HeadOfSlot, Zenon
<1> HIDE DEF r, h
<1>4. ASSUME NEW i \in DOMAIN d, MustBeKept(d[i])
      PROVE  \E j \in DOMAIN r :
               /\ SameButMark(r[j], d[i])
               /\ d[i].superseded \/ InSlot(op, d[i]) => r[j].superseded
  <2>1. PICK j \in DOMAIN after :
               /\ SameButMark(after[j], d[i])
               /\ d[i].superseded \/ InSlot(op, d[i]) => after[j].superseded
    BY <1>4, Zenon DEF Keeps
  <2>2. j # h
    <3> SUFFICES ASSUME j = h PROVE FALSE
      OBVIOUS
    <3>1. h # 0
      BY <1>2, SMT
    <3>2. InSlot(op, d[i])
      BY <3>1, <2>1, <1>3, Zenon DEF InSlot, SameButMark, Key
    <3> QED
      BY <3>1, <3>2, <2>1, <1>3, Zenon
  <2>3. r[j] = after[j] /\ j \in DOMAIN r
    BY <2>2, <1>1, <1>2, Zenon
  <2> QED
    BY <2>1, <2>3, Zenon
<1>5. QED
  BY <1>4, Zenon DEF Keeps, r

LEMMA FinishKeeps ==
  ASSUME NEW d \in Seq(Block), NEW written \in Seq(Block), WellFormed(written),
         NEW op \in SectionOperation, Addressed(op), Keeps(op, d, written),
         NEW kind, NEW s, NEW options, ~MaintenanceThrows(op.section, s, options)
  PROVE  Keeps(op, d, FinishSection(d, written, op, kind, s, options))
<1> DEFINE m == IF options.maintainGaps /\ op.section # Gaps
                THEN MaintainGaps(written, s) ELSE written
<1>1. s \in Stages => /\ MaintainGaps(written, s) \in Seq(Block)
                      /\ WellFormed(MaintainGaps(written, s))
  BY MaintainTyped, MaintainKeepsOrder, Zenon
<1>2. s \in Stages => Keeps(op, d, MaintainGaps(written, s))
  BY MaintainKeeps, KeepsIsTransitive, Zenon
<1>3. m \in Seq(Block) /\ WellFormed(m) /\ Keeps(op, d, m)
  BY <1>1, <1>2, Zenon DEF MaintenanceThrows
<1> HIDE DEF m
<1>4. Keeps(op, d, StampHead(d, m, op, kind))
  BY <1>3, StampKeeps, Zenon
<1>5. QED
  BY <1>3, <1>4, Zenon DEF FinishSection, m

\* The same of any operation, whatever its slot.
KeepsAll(d, e) ==
  \A i \in DOMAIN d : MustBeKept(d[i]) => \E j \in DOMAIN e : SameButMark(e[j], d[i])

LEMMA FinishOtherKeeps ==
  ASSUME NEW d, NEW written \in Seq(Block), WellFormed(written),
         DOMAIN written = DOMAIN d,
         \A i \in DOMAIN d : d[i].section \in Standard => written[i] = d[i],
         NEW s, NEW options, ~MaintenanceThrows(PipelineLog, s, options)
  PROVE  KeepsAll(d, FinishOther(written, s, options))
<1> DEFINE op == GapsOperation(written, s)
           m  == MaintainGaps(written, s)
<1>1. s \in Stages => Keeps(op, written, m) \/ m = written
  BY MaintainKeeps, Zenon
<1> HIDE DEF op, m
<1>2. \A i \in DOMAIN d : MustBeKept(d[i]) => i \in DOMAIN written /\ written[i] = d[i]
  BY Zenon DEF MustBeKept
<1>3. KeepsAll(d, written)
  BY <1>2, Zenon DEF KeepsAll, SameButMark
<1>4. Keeps(op, written, m) => KeepsAll(d, m)
  BY <1>2, Zenon DEF Keeps, KeepsAll
<1>5. PipelineLog # Gaps
  BY GapsIsSingle, KindsAreDisjoint, Zenon
<1>6. QED
  BY <1>1, <1>3, <1>4, <1>5, Zenon DEF FinishOther, MaintenanceThrows, m
-----------------------------------------------------------------------------
(* What succeeds.                                                          *)

LEMMA CanonicalIsLive ==
  ASSUME NEW d \in Seq(Block), WellFormed(d), NEW i \in DOMAIN d, d[i].section \in Standard
  PROVE  i \in Canonical(d) <=> i \in Live(d)
<1>1. i \in Canonical(d) => i \in Live(d)
  BY Zenon DEF Canonical
<1>2. ASSUME i \in Live(d), NEW j \in Live(d), Compete(d, i, j) PROVE j <= i
  <2>1. j \in DOMAIN d /\ ~d[i].superseded
    BY <1>2, Zenon DEF Live
  <2>2. SameSlot(d[i], d[j])
    <3>1. d[i].section = d[j].section
      BY <1>2, Zenon DEF Compete
    <3>2. CASE d[i].section \in MultiVariantSections
      BY <3>1, <3>2, <1>2, Zenon DEF Compete, Keyed, SameSlot
    <3>3. CASE d[i].section \notin MultiVariantSections
      BY <3>1, <3>3, <2>1, Zenon DEF WellFormed, FiledByKey, SameSlot, Key
    <3> QED
      BY <3>2, <3>3, Zenon
  <2>3. ~(i < j)
    BY <2>1, <2>2, Zenon DEF WellFormed, HistoryIsOrdered
  <2>4. DOMAIN d = 1..Len(d) /\ Len(d) \in Nat
    BY DomainOfSeq, Zenon
  <2> QED
    BY <2>1, <2>3, <2>4, SMT
<1>3. QED
  BY <1>1, <1>2, Zenon DEF Canonical

\* The block c succeeds b with the authority b's policy asks for. After an
\* operation every live block of its slot is succeeded so; the others stay.
Follows(c, b) ==
  SameSlot(b, c) /\ c.revision = b.revision + 1 /\ MayWrite(c.source, PolicyOf(b.source))
Succeeds(op, d, e) ==
  \A i \in Live(d) : d[i].section \in Standard =>
    \E j \in Live(e) : IF InSlot(op, d[i]) THEN Follows(e[j], d[i]) ELSE e[j] = d[i]

LEMMA ReplaceSucceeds ==
  ASSUME NEW d \in Seq(Block), WellFormed(d),
         NEW op \in SectionOperation, Addressed(op), NEW source \in Sources,
         Lookup(d, op.section, op.variant) # 0,
         MayWrite(source, PolicyOf(d[Lookup(d, op.section, op.variant)].source))
  PROVE  Succeeds(op, d, ReplaceSection(d, op, source))
<1> DEFINE h == Lookup(d, op.section, op.variant)
           b == NewBlock(d, h, op, source)
           e == ReplaceSection(d, op, source)
<1>1. /\ e \in Seq(Block) /\ Len(e) = Len(d) /\ h \in 1..Len(d)
      /\ \A i \in 1..Len(d) : e[i] = IF i = h THEN b ELSE d[i]
  BY ReplaceFacts
<1>2. DOMAIN d = 1..Len(d) /\ DOMAIN e = 1..Len(d)
  BY <1>1, DomainOfSeq, Zenon
<1>3. /\ h # 0 /\ InSlot(op, d[h])
      /\ \A i \in DOMAIN d : InSlot(op, d[i]) /\ i # h => d[i].superseded
  BY HeadOfSlot, Zenon
<1>4. Successor(d, h, op, b)
  BY NewBlockFacts, Zenon
<1>5. b.source = source
  BY Zenon DEF NewBlock, Written
<1>6. MayWrite(source, PolicyOf(d[h].source))
  OBVIOUS
<1> HIDE DEF h, b, e
<1>7. Follows(b, d[h])
  <2>1. SameSlot(d[h], b) /\ b.revision = d[h].revision + 1
    BY <1>3, <1>4, SlotIsSlot, Zenon DEF Successor
  <2> QED
    BY <2>1, <1>5, <1>6, Zenon DEF Follows
<1>8. ASSUME NEW i \in Live(d)
      PROVE  \E j \in Live(e) : IF InSlot(op, d[i]) THEN Follows(e[j], d[i]) ELSE e[j] = d[i]
  <2>1. i \in DOMAIN d /\ ~d[i].superseded
    BY Zenon DEF Live
  <2>2. CASE i = h
    <3>1. i \in Live(e) /\ e[i] = b
      BY <2>1, <2>2, <1>1, <1>2, <1>4, Zenon DEF Live, Successor
    <3> QED
      BY <3>1, <2>2, <1>3, <1>7, Zenon
  <2>3. CASE i # h
    <3>1. i \in Live(e) /\ e[i] = d[i]
      BY <2>1, <2>3, <1>1, <1>2, Zenon DEF Live
    <3> QED
      BY <3>1, <2>1, <2>3, <1>3, Zenon
  <2> QED
    BY <2>2, <2>3, Zenon
<1>9. QED
  BY <1>8, Zenon DEF Succeeds, e

LEMMA SupersedeSucceeds ==
  ASSUME NEW d \in Seq(Block), WellFormed(d),
         NEW op \in SectionOperation, Addressed(op), NEW source \in Sources,
         Lookup(d, op.section, op.variant) # 0 =>
           MayWrite(source, PolicyOf(d[Lookup(d, op.section, op.variant)].source))
  PROVE  Succeeds(op, d, SupersedeSection(d, op, source))
<1> DEFINE h == Lookup(d, op.section, op.variant)
           m == MarkSuperseded(d, h)
           p == InsertionPoint(d)
           b == NewBlock(d, h, op, source)
           e == SupersedeSection(d, op, source)
<1>1. /\ e \in Seq(Block) /\ Len(e) = Len(d) + 1
      /\ \A k \in 1..(Len(d) + 1) :
           e[k] = IF k < p THEN m[k] ELSE IF k = p THEN b ELSE m[k - 1]
  BY SupersedeFacts
<1>2. DOMAIN d = 1..Len(d) /\ DOMAIN e = 1..(Len(d) + 1) /\ Len(d) \in Nat
  BY <1>1, DomainOfSeq, Zenon
<1>3. /\ h = 0 => \A i \in DOMAIN d : ~InSlot(op, d[i])
      /\ h # 0 => /\ InSlot(op, d[h])
                  /\ \A i \in DOMAIN d : InSlot(op, d[i]) /\ i # h => d[i].superseded
  BY HeadOfSlot, Zenon
<1>4. Successor(d, h, op, b)
  BY NewBlockFacts, Zenon
<1>5. b.source = source
  BY Zenon DEF NewBlock, Written
<1>6. h # 0 => MayWrite(source, PolicyOf(d[h].source))
  OBVIOUS
<1>7. \A i \in DOMAIN d : \E j \in DOMAIN e :
        SameButMark(e[j], d[i]) /\ (e[j].superseded <=> i = h \/ d[i].superseded)
  BY SupersedeImage, Zenon
<1>8. p \in 1..(Len(d) + 1)
  BY InsertionFacts, Zenon
<1> HIDE DEF h, m, p, b, e
<1>9. e[p] = b /\ p \in Live(e)
  <2>1. ~(p < p)
    BY <1>8, <1>2, SMT
  <2>2. e[p] = b /\ p \in DOMAIN e
    BY <2>1, <1>1, <1>2, <1>8, Zenon
  <2> QED
    BY <2>2, <1>4, Zenon DEF Live, Successor
<1>10. h # 0 => Follows(b, d[h])
  <2> SUFFICES ASSUME h # 0 PROVE Follows(b, d[h])
    OBVIOUS
  <2>1. SameSlot(d[h], b) /\ b.revision = d[h].revision + 1
    BY <1>3, <1>4, SlotIsSlot, Zenon DEF Successor
  <2> QED
    BY <2>1, <1>5, <1>6, Zenon DEF Follows
<1>11. ASSUME NEW i \in Live(d)
       PROVE  \E j \in Live(e) : IF InSlot(op, d[i]) THEN Follows(e[j], d[i]) ELSE e[j] = d[i]
  <2>1. i \in DOMAIN d /\ ~d[i].superseded
    BY Zenon DEF Live
  <2>2. CASE InSlot(op, d[i])
    <3>1. h # 0 /\ i = h
      BY <2>1, <2>2, <1>3, Zenon
    <3> QED
      BY <3>1, <2>2, <1>9, <1>10, Zenon
  <2>3. CASE ~InSlot(op, d[i])
    <3>1. i # h
      <4>1. i # 0
        BY <2>1, <1>2, SMT
      <4> QED
        BY <4>1, <2>3, <1>3, Zenon
    <3>2. PICK j \in DOMAIN e :
                 SameButMark(e[j], d[i]) /\ (e[j].superseded <=> i = h \/ d[i].superseded)
      BY <2>1, <1>7, Zenon
    <3>3. e[j] \in BlockFields /\ d[i] \in BlockFields
      BY <2>1, <1>1, BlocksAreRecords, Zenon
    <3>4. e[j].superseded \in BOOLEAN /\ d[i].superseded \in BOOLEAN
      BY <3>3, Zenon DEF BlockFields
    <3>5. e[j].superseded = d[i].superseded
      BY <3>1, <3>2, <3>4, <2>1, Zenon
    <3>6. e[j] = d[i]
      BY <3>2, <3>3, <3>5, ContentIsButTheMark, Zenon
    <3>7. j \in Live(e)
      BY <3>6, <2>1, Zenon DEF Live
    <3> QED
      BY <3>6, <3>7, <2>3, Zenon
  <2> QED
    BY <2>2, <2>3, Zenon
<1>12. QED
  BY <1>11, Zenon DEF Succeeds, e

LEMMA MaintainSucceeds ==
  ASSUME NEW d \in Seq(Block), WellFormed(d), NEW s \in Stages
  PROVE  Succeeds(GapsOperation(d, s), d, MaintainGaps(d, s)) \/ MaintainGaps(d, s) = d
<1> DEFINE op == GapsOperation(d, s)
           g  == Lookup(d, op.section, op.variant)
<1>1. op \in SectionOperation /\ Addressed(op)
  BY GapsOperationAddressed, Zenon
<1>2. \/ MaintainGaps(d, s) = d
      \/ /\ g # 0 /\ MayWrite(Maintainer, PolicyOf(d[g].source))
         /\ MaintainGaps(d, s) = ReplaceSection(d, op, Maintainer)
      \/ g = 0 /\ MaintainGaps(d, s) = SupersedeSection(d, op, Maintainer)
  BY MaintainIsAnEdit, Zenon
<1> HIDE DEF op
<1>3. g # 0 /\ MayWrite(Maintainer, PolicyOf(d[g].source)) =>
        Succeeds(op, d, ReplaceSection(d, op, Maintainer))
  BY <1>1, MaintainerIsASource, ReplaceSucceeds, Zenon
<1>4. g = 0 => Succeeds(op, d, SupersedeSection(d, op, Maintainer))
  BY <1>1, MaintainerIsASource, SupersedeSucceeds, Zenon
<1> HIDE DEF g
<1>5. QED
  BY <1>2, <1>3, <1>4, Zenon DEF op

\* The same of any operation: what is live stays, or is succeeded.
SucceedsAll(d, e) ==
  \A i \in Live(d) : d[i].section \in Standard =>
    \E j \in Live(e) : e[j] = d[i] \/ Follows(e[j], d[i])

LEMMA FinishSucceeds ==
  ASSUME NEW d \in Seq(Block), NEW written \in Seq(Block), WellFormed(written),
         NEW op \in SectionOperation, Addressed(op), Succeeds(op, d, written),
         NEW kind, NEW s, NEW options, ~MaintenanceThrows(op.section, s, options)
  PROVE  SucceedsAll(d, FinishSection(d, written, op, kind, s, options))
<1> DEFINE gaps == GapsOperation(written, s)
           m    == IF options.maintainGaps /\ op.section # Gaps
                   THEN MaintainGaps(written, s) ELSE written
           r    == StampHead(d, m, op, kind)
           h    == Lookup(m, op.section, op.variant)
<1>1. s \in Stages => /\ MaintainGaps(written, s) \in Seq(Block)
                      /\ WellFormed(MaintainGaps(written, s))
  BY MaintainTyped, MaintainKeepsOrder, Zenon
<1>2. m \in Seq(Block) /\ WellFormed(m)
  BY <1>1, Zenon DEF MaintenanceThrows
<1>3. s \in Stages => gaps.section = Gaps
  BY GapsOperationTyped
<1>4. s \in Stages => Succeeds(gaps, written, MaintainGaps(written, s))
                       \/ MaintainGaps(written, s) = written
  BY MaintainSucceeds, Zenon
<1>5. m = written \/ (gaps.section = Gaps /\ op.section # Gaps /\ Succeeds(gaps, written, m))
  BY <1>3, <1>4, Zenon DEF MaintenanceThrows
<1> HIDE DEF gaps, m
<1>6. ASSUME NEW i \in Live(d), d[i].section \in Standard
      PROVE  \E k \in Live(m) : (m[k] = d[i] /\ ~InSlot(op, d[i])) \/ Follows(m[k], d[i])
  <2>1. PICK j \in Live(written) :
          IF InSlot(op, d[i]) THEN Follows(written[j], d[i]) ELSE written[j] = d[i]
    BY <1>6, Zenon DEF Succeeds
  <2>2. SameSlot(d[i], written[j]) /\ written[j].section \in Standard
    BY <2>1, <1>6, Zenon DEF Follows, SameSlot
  <2>3. CASE m = written
    BY <2>1, <2>3, Zenon
  <2>4. CASE m # written
    <3>1. PICK k \in Live(m) : IF InSlot(gaps, written[j]) THEN Follows(m[k], written[j])
                               ELSE m[k] = written[j]
      BY <2>2, <2>4, <1>5, Zenon DEF Succeeds
    <3>2. CASE InSlot(op, d[i])
      <4>1. ~InSlot(gaps, written[j])
        BY <2>2, <2>4, <3>2, <1>5, Zenon DEF InSlot, SameSlot
      <4> QED
        BY <3>1, <3>2, <4>1, <2>1, Zenon
    <3>3. CASE ~InSlot(op, d[i])
      BY <3>1, <3>3, <2>1, Zenon
    <3> QED
      BY <3>2, <3>3, Zenon
  <2> QED
    BY <2>3, <2>4, Zenon
<1>7. /\ r \in Seq(Block) /\ Len(r) = Len(m)
      /\ \A k \in 1..Len(m) : SameButStamp(r[k], m[k]) /\ (k # h => r[k] = m[k])
  BY <1>2, StampFacts
<1>8. DOMAIN r = DOMAIN m /\ DOMAIN m = 1..Len(m) /\ Len(m) \in Nat
  BY <1>2, <1>7, DomainOfSeq, Zenon
<1>9. h # 0 => InSlot(op, m[h])
  BY <1>2, HeadOfSlot, Zenon
<1> HIDE DEF r, h
<1>10. SucceedsAll(d, r)
  <2> SUFFICES ASSUME NEW i \in Live(d), d[i].section \in Standard
               PROVE  \E j \in Live(r) : r[j] = d[i] \/ Follows(r[j], d[i])
    BY Zenon DEF SucceedsAll
  <2>1. PICK k \in Live(m) : (m[k] = d[i] /\ ~InSlot(op, d[i])) \/ Follows(m[k], d[i])
    BY <1>6, Zenon
  <2>2. k \in DOMAIN m /\ ~m[k].superseded
    BY Zenon DEF Live
  <2>3. SameButStamp(r[k], m[k]) /\ (k # h => r[k] = m[k])
    BY <2>2, <1>7, <1>8, Zenon
  <2>4. k \in Live(r)
    BY <2>2, <2>3, <1>8, Zenon DEF Live, SameButStamp
  <2>5. Follows(m[k], d[i]) => Follows(r[k], d[i])
    BY <2>3, Zenon DEF Follows, SameButStamp, SameSlot, Key
  <2>6. m[k] = d[i] /\ ~InSlot(op, d[i]) => r[k] = d[i]
    <3>1. k # 0
      BY <2>2, <1>8, SMT
    <3> QED
      BY <3>1, <2>3, <1>9, Zenon
  <2> QED
    BY <2>1, <2>4, <2>5, <2>6, Zenon
<1>11. CASE options.integrity
  BY <1>10, <1>11, Zenon DEF FinishSection, m, r
<1>12. CASE ~options.integrity
  <2>1. SucceedsAll(d, m)
    BY <1>6, Zenon DEF SucceedsAll
  <2> QED
    BY <2>1, <1>12, Zenon DEF FinishSection, m
<1>13. QED
  BY <1>11, <1>12, Zenon

LEMMA FinishOtherSucceeds ==
  ASSUME NEW d, NEW written \in Seq(Block), WellFormed(written),
         DOMAIN written = DOMAIN d,
         \A i \in DOMAIN d : d[i].section \in Standard => written[i] = d[i],
         NEW s, NEW options, ~MaintenanceThrows(PipelineLog, s, options)
  PROVE  SucceedsAll(d, FinishOther(written, s, options))
<1> DEFINE op == GapsOperation(written, s)
           m  == MaintainGaps(written, s)
<1>1. s \in Stages => Succeeds(op, written, m) \/ m = written
  BY MaintainSucceeds, Zenon
<1> HIDE DEF op, m
<1>2. \A i \in Live(d) : d[i].section \in Standard =>
        i \in Live(written) /\ written[i] = d[i]
  BY Zenon DEF Live
<1>3. SucceedsAll(d, written)
  BY <1>2, Zenon DEF SucceedsAll
<1>4. Succeeds(op, written, m) => SucceedsAll(d, m)
  BY <1>2, Zenon DEF Succeeds, SucceedsAll
<1>5. PipelineLog # Gaps
  BY GapsIsSingle, KindsAreDisjoint, Zenon
<1>6. QED
  BY <1>1, <1>3, <1>4, <1>5, Zenon DEF FinishOther, MaintenanceThrows, m

-----------------------------------------------------------------------------
(* Counting through a set of numbers.                                      *)

LEMMA NthFacts ==
  ASSUME NEW N \in Nat, NEW S \in SUBSET (1..N)
  PROVE  /\ IsFiniteSet(S) /\ Cardinality(S) \in Nat
         /\ \A n \in 1..Cardinality(S) : Nth(S, n) \in S
         /\ \A i \in S : \E n \in 1..Cardinality(S) : Nth(S, n) = i
         /\ \A m, n \in 1..Cardinality(S) : m < n => Nth(S, m) < Nth(S, n)
<1> DEFINE c == Cardinality(S)
           UpTo(i) == {j \in S : j <= i}
           rank == [i \in S |-> Cardinality(UpTo(i))]
<1>1. IsFiniteSet(S) /\ c \in Nat
  <2>1. IsFiniteSet(1..N)
    BY FS_Interval, SMT
  <2>2. IsFiniteSet(S)
    BY <2>1, FS_Subset, Zenon
  <2> QED
    BY <2>2, FS_CardinalityType, Zenon
<1>2. \A i \in S : i \in Int
  BY SMT
<1>3. ASSUME NEW i \in S
      PROVE  IsFiniteSet(UpTo(i)) /\ i \in UpTo(i) /\ rank[i] \in 1..c
  <2>1. UpTo(i) \in SUBSET S
    BY Zenon
  <2>2. i \in UpTo(i)
    BY <1>2, SMT
  <2>3. IsFiniteSet(UpTo(i)) /\ Cardinality(UpTo(i)) <= c
    BY <1>1, <2>1, FS_Subset, Zenon
  <2>4. Cardinality(UpTo(i)) \in Nat /\ Cardinality(UpTo(i)) # 0
    BY <2>2, <2>3, FS_CardinalityType, FS_EmptySet, Zenon
  <2>5. rank[i] = Cardinality(UpTo(i))
    BY Zenon
  <2> HIDE DEF rank, UpTo, c
  <2> QED
    BY <1>1, <2>2, <2>3, <2>4, <2>5, SMT
<1>4. ASSUME NEW i \in S, NEW j \in S, i < j PROVE rank[i] < rank[j]
  <2>1. UpTo(i) \in SUBSET UpTo(j) /\ j \notin UpTo(i)
    <3>1. ~ (j <= i) /\ \A k \in S : k <= i => k <= j
      BY <1>2, <1>4, SMT
    <3> QED
      BY <3>1, Zenon
  <2>2. IsFiniteSet(UpTo(j)) /\ j \in UpTo(j) /\ rank[i] \in 1..c /\ rank[j] \in 1..c
    BY <1>3
  <2>3. rank[i] = Cardinality(UpTo(i)) /\ rank[j] = Cardinality(UpTo(j))
    BY Zenon
  <2> HIDE DEF rank, UpTo, c
  <2>4. /\ Cardinality(UpTo(i)) <= Cardinality(UpTo(j))
        /\ Cardinality(UpTo(j)) = Cardinality(UpTo(i)) => UpTo(j) = UpTo(i)
    BY <2>1, <2>2, FS_Subset, Zenon
  <2>5. rank[i] <= rank[j] /\ rank[i] # rank[j]
    BY <2>1, <2>2, <2>3, <2>4, Zenon
  <2> QED
    BY <1>1, <2>2, <2>5, SMT
<1>5. ASSUME NEW i \in S, NEW j \in S, rank[i] = rank[j] PROVE i = j
  <2> HIDE DEF rank, UpTo, c
  <2>0. rank[i] \in 1..c /\ rank[j] \in 1..c
    BY <1>3, Zenon
  <2>1. rank[i] \in Nat /\ rank[j] \in Nat
    BY <1>1, <2>0, SMT
  <2>2. ~ (i < j) /\ ~ (j < i)
    BY <1>4, <1>5, <2>1, SMT
  <2> QED
    BY <1>2, <2>2, SMT
<1>6. \A n \in 1..c : \E i \in S : rank[i] = n
  <2>1. rank \in [S -> 1..c]
    <3>1. \A i \in S : Cardinality(UpTo(i)) \in 1..c
      BY <1>3, Zenon
    <3> HIDE DEF UpTo, c
    <3> QED
      BY <3>1, Zenon
  <2> HIDE DEF rank, UpTo
  <2>2. rank \in Injection(S, 1..c)
    BY <1>5, <2>1, Zenon DEF Injection, IsInjective
  <2>3. IsFiniteSet(1..c) /\ Cardinality(1..c) = c
    <3> HIDE DEF c
    <3> QED
      BY <1>1, FS_Interval, SMT
  <2>4. rank \in Surjection(S, 1..c)
    BY <2>2, <2>3, FS_Injection, Zenon
  <2> HIDE DEF c
  <2> QED
    BY <2>4, Zenon DEF Surjection
<1>7. ASSUME NEW n \in 1..c PROVE Nth(S, n) \in S /\ rank[Nth(S, n)] = n
  <2>1. \E i \in S : Cardinality(UpTo(i)) = n
    <3>1. \A i \in S : rank[i] = Cardinality(UpTo(i))
      BY Zenon
    <3> HIDE DEF rank, UpTo, c
    <3> QED
      BY <1>6, <3>1, Zenon
  <2>2. Nth(S, n) \in S /\ Cardinality(UpTo(Nth(S, n))) = n
    BY <2>1, Zenon DEF Nth
  <2> QED
    BY <2>2, Zenon
<1> HIDE DEF rank, UpTo, c
<1>8. ASSUME NEW i \in S PROVE \E n \in 1..c : Nth(S, n) = i
  <2>1. rank[i] \in 1..c
    BY <1>3
  <2>2. Nth(S, rank[i]) \in S /\ rank[Nth(S, rank[i])] = rank[i]
    BY <1>7, <2>1, Zenon
  <2> QED
    BY <1>5, <2>1, <2>2, Zenon
<1>9. ASSUME NEW m \in 1..c, NEW n \in 1..c, m < n PROVE Nth(S, m) < Nth(S, n)
  <2> DEFINE a == Nth(S, m)
             b == Nth(S, n)
  <2>1. a \in S /\ b \in S /\ rank[a] = m /\ rank[b] = n
    BY <1>7, Zenon
  <2> HIDE DEF a, b
  <2>2. ~ (n < m) /\ m # n
    BY <1>1, <1>9, SMT
  <2>3. a # b /\ ~ (b < a)
    BY <1>4, <2>1, <2>2, Zenon
  <2>4. a < b
    BY <1>2, <2>1, <2>3, SMT
  <2> QED
    BY <2>4, Zenon DEF a, b
<1>10. QED
  BY <1>1, <1>7, <1>8, <1>9, Zenon DEF c

-----------------------------------------------------------------------------
(* What the verifier takes for the chain of a section.                     *)

ChainIndices(d, s) == Append(Archive(d, s), CurrentBlock(d, s))

\* Of a section of a document in order, the current block is a head.
LEMMA CurrentIsAHead ==
  ASSUME NEW d \in Seq(Block), WellFormed(d), NEW s \in Standard, HeadsOf(d, s) # {}
  PROVE  CurrentBlock(d, s) \in HeadsOf(d, s)
<1> DEFINE live == {i \in Live(d) : d[i].section = s}
           m == Min(live)
<1>1. live # {}
  BY Zenon DEF HeadsOf, Canonical
<1>2. live \in SUBSET Nat
  <2>1. DOMAIN d \subseteq Nat
    BY DomainOfSeq, SMT
  <2> QED
    BY <2>1, Zenon DEF Live
<1>3. m \in live
  <2> HIDE DEF live
  <2> QED
    BY <1>1, <1>2, MinIsLeast, Zenon
<1> HIDE DEF m
<1>4. m \in HeadsOf(d, s)
  <2>1. m \in DOMAIN d /\ m \in Live(d) /\ d[m].section \in Standard
    BY <1>3, Zenon DEF Live
  <2> QED
    BY <1>3, <2>1, CanonicalIsLive, Zenon DEF HeadsOf
<1>5. Compete(d, m, m)
  <2>1. s \notin AppendOnly
    BY KindsAreDisjoint, Zenon DEF Standard, AppendOnly
  <2> QED
    BY <1>3, <2>1, Zenon DEF Compete
<1>6. \E i \in HeadsOf(d, s) : Compete(d, m, i)
  BY <1>4, <1>5, Zenon
<1>7. CurrentBlock(d, s) = CHOOSE i \in HeadsOf(d, s) : Compete(d, m, i)
  BY Zenon DEF CurrentBlock, m
<1>8. QED
  BY <1>6, <1>7, Zenon

\* A block goes to the archive of its own section.
LEMMA DisplacedIsOfSection ==
  ASSUME NEW d \in Seq(Block), NEW j \in DOMAIN d, Displaced(d, j) # 0
  PROVE  Displaced(d, j) \in DOMAIN d /\ d[Displaced(d, j)].section = d[j].section
<1> DEFINE earlier == {i \in Live(d) : i < j /\ Compete(d, i, j)}
<1>1. CASE d[j].superseded
  BY <1>1, Zenon DEF Displaced
<1>2. CASE ~ d[j].superseded
  <2>1. Displaced(d, j) = Max(earlier) /\ earlier # {}
    BY <1>2, Zenon DEF Displaced
  <2>2. DOMAIN d = 1..Len(d) /\ Len(d) \in Nat
    BY DomainOfSeq, Zenon
  <2>3. earlier \in SUBSET (1..Len(d))
    BY <2>2, Zenon DEF Live
  <2>4. Max(earlier) \in earlier
    <3> HIDE DEF earlier
    <3> QED
      BY <2>1, <2>2, <2>3, MaxIsGreatest, Zenon
  <2>5. Displaced(d, j) \in earlier
    BY <2>1, <2>4, Zenon
  <2> QED
    BY <2>5, Zenon DEF Live, Compete
<1>3. QED
  BY <1>1, <1>2, Zenon

\* The archive of a section, one index for each block that pushed one.
Pushing(d, s) == {j \in DOMAIN d : d[j].section = s /\ Displaced(d, j) # 0}

ListsArchive(d, s, c) ==
  /\ c \in Nat /\ Archive(d, s) \in Seq(DOMAIN d)
  /\ Len(Archive(d, s)) = c /\ DOMAIN Archive(d, s) = 1..c
  /\ \A n \in 1..c : /\ Archive(d, s)[n] = Displaced(d, Nth(Pushing(d, s), n))
                     /\ Archive(d, s)[n] \in DOMAIN d
                     /\ d[Archive(d, s)[n]].section = s

LEMMA ArchiveFacts ==
  ASSUME NEW d \in Seq(Block), NEW s
  PROVE  ListsArchive(d, s, Cardinality(Pushing(d, s)))
<1> DEFINE P == Pushing(d, s)
           c == Cardinality(P)
           a == Archive(d, s)
<1>1. Len(d) \in Nat /\ P \in SUBSET (1..Len(d))
  BY DomainOfSeq, Zenon DEF Pushing
<1>2. a = [n \in 1..c |-> Displaced(d, Nth(P, n))]
  BY Zenon DEF Archive, Pushing
<1>3. /\ c \in Nat /\ \A n \in 1..c : Nth(P, n) \in P
  <2> HIDE DEF P
  <2> QED
    BY <1>1, NthFacts, Zenon
<1>4. \A j \in P : /\ Displaced(d, j) \in DOMAIN d
                   /\ d[Displaced(d, j)].section = s
  BY DisplacedIsOfSection, Zenon DEF Pushing
<1> HIDE DEF P, c, a
<1>5. \A n \in 1..c : /\ a[n] = Displaced(d, Nth(P, n)) /\ a[n] \in DOMAIN d
                      /\ d[a[n]].section = s
  BY <1>2, <1>3, <1>4, Zenon
<1>6. a \in [1..c -> DOMAIN d]
  BY <1>2, <1>3, <1>4, Zenon
<1>7. a \in Seq(DOMAIN d) /\ Len(a) = c /\ DOMAIN a = 1..c
  BY <1>3, <1>6, FunctionIsSeq, Zenon
<1>8. ListsArchive(d, s, c)
  BY <1>3, <1>5, <1>7, Zenon DEF ListsArchive, P, a
<1>9. QED
  BY <1>8, Zenon DEF P, c

\* A list with one more number at its end.
IsOneMore(b, q, x) ==
  /\ DOMAIN b = 1..(Len(q) + 1) /\ b[Len(q) + 1] = x
  /\ \A n \in 1..Len(q) : b[n] = q[n]

LEMMA OneMore ==
  ASSUME NEW S, NEW q \in Seq(S), NEW x \in S
  PROVE  IsOneMore(Append(q, x), q, x)
BY SMT DEF IsOneMore

ListsChain(d, s, c, I) ==
  /\ c \in Nat /\ DOMAIN Chain(d, s) = 1..(c + 1)
  /\ \A n \in 1..(c + 1) : /\ Chain(d, s)[n] = d[I[n]]
                           /\ I[n] \in DOMAIN d /\ d[I[n]].section = s
  /\ \A n \in 1..c : I[n] = Displaced(d, Nth(Pushing(d, s), n))
  /\ I[c + 1] = CurrentBlock(d, s)

LEMMA ChainIsOfSection ==
  ASSUME NEW d \in Seq(Block), WellFormed(d), NEW s \in Standard, HeadsOf(d, s) # {}
  PROVE  ListsChain(d, s, Cardinality(Pushing(d, s)), ChainIndices(d, s))
<1> DEFINE c == Cardinality(Pushing(d, s))
           I == ChainIndices(d, s)
           a == Archive(d, s)
           x == CurrentBlock(d, s)
<1>1. /\ c \in Nat /\ a \in Seq(DOMAIN d) /\ Len(a) = c
      /\ \A n \in 1..c : /\ a[n] = Displaced(d, Nth(Pushing(d, s), n))
                         /\ a[n] \in DOMAIN d /\ d[a[n]].section = s
  BY ArchiveFacts, Zenon DEF ListsArchive
<1>2. x \in DOMAIN d /\ d[x].section = s
  BY CurrentIsAHead, Zenon DEF HeadsOf, Canonical, Live
<1>3. Chain(d, s) = [n \in DOMAIN I |-> d[I[n]]] /\ I = Append(a, x)
  BY Zenon DEF Chain, ChainIndices
<1> HIDE DEF c, I, a, x
<1>4. /\ DOMAIN I = 1..(c + 1) /\ I[c + 1] = x
      /\ \A n \in 1..c : I[n] = a[n]
  <2> DEFINE b == Append(a, x)
  <2>1. IsOneMore(b, a, x)
    BY <1>1, <1>2, OneMore, Zenon
  <2>2. I = b /\ Len(a) = c
    BY <1>1, <1>3, Zenon
  <2> HIDE DEF b
  <2> QED
    BY <2>1, <2>2, Zenon DEF IsOneMore
<1>5. \A n \in 1..(c + 1) : n \in 1..c \/ n = c + 1
  BY <1>1, SMT
<1>6. \A n \in 1..(c + 1) : I[n] \in DOMAIN d /\ d[I[n]].section = s
  BY <1>1, <1>2, <1>4, <1>5, Zenon
<1>7. DOMAIN Chain(d, s) = 1..(c + 1) /\ \A n \in 1..(c + 1) : Chain(d, s)[n] = d[I[n]]
  BY <1>3, <1>4, Zenon
<1>8. ListsChain(d, s, c, I)
  BY <1>1, <1>4, <1>6, <1>7, Zenon DEF ListsChain, x
<1>9. QED
  BY <1>8, Zenon DEF c, I

-----------------------------------------------------------------------------
(* A section with one canonical block: its chain is its blocks in order.    *)

LEMMA SingleHistory ==
  ASSUME NEW d \in Seq(Block), WellFormed(d), NEW s \in SingleSections
  PROVE  /\ s \in Standard /\ s \notin AppendOnly
         /\ \A i, j \in DOMAIN d : d[i].section = s /\ d[j].section = s /\ i < j => d[i].superseded
<1>1. s \in Standard /\ s \notin AppendOnly /\ s \notin MultiVariantSections
  BY KindsAreDisjoint, Zenon DEF Standard, AppendOnly
<1>2. ASSUME NEW i \in DOMAIN d, NEW j \in DOMAIN d,
             d[i].section = s, d[j].section = s, i < j
      PROVE  d[i].superseded
  <2>1. d[i].variant = NoVariant /\ d[j].variant = NoVariant
    BY <1>1, <1>2, Zenon DEF WellFormed, FiledByKey
  <2>2. SameSlot(d[i], d[j])
    BY <1>1, <1>2, <2>1, Zenon DEF SameSlot, Key
  <2> QED
    BY <1>1, <1>2, <2>2, Zenon DEF WellFormed, HistoryIsOrdered
<1>3. QED
  BY <1>1, <1>2, Zenon

\* It archives what is superseded, and its current block is after all of that.
LEMMA SingleArchive ==
  ASSUME NEW d \in Seq(Block), WellFormed(d), NEW s \in SingleSections
  PROVE  /\ Pushing(d, s) = {j \in DOMAIN d : d[j].section = s /\ d[j].superseded}
         /\ \A j \in Pushing(d, s) : Displaced(d, j) = j
<1>1. /\ s \in Standard /\ s \notin AppendOnly
      /\ \A i, j \in DOMAIN d : d[i].section = s /\ d[j].section = s /\ i < j => d[i].superseded
  BY SingleHistory, Zenon
<1>2. ASSUME NEW j \in DOMAIN d, d[j].section = s
      PROVE  Displaced(d, j) = IF d[j].superseded THEN j ELSE 0
  <2>1. {i \in Live(d) : i < j /\ Compete(d, i, j)} = {}
    BY <1>1, <1>2, Zenon DEF Live, Compete
  <2> QED
    BY <1>1, <1>2, <2>1, Zenon DEF Displaced
<1>3. \A j \in DOMAIN d : j # 0
  BY DomainOfSeq, SMT
<1>4. \A j \in DOMAIN d : j \in Pushing(d, s) <=> d[j].section = s /\ d[j].superseded
  BY <1>2, <1>3, Zenon DEF Pushing
<1>5. \A j \in Pushing(d, s) : j \in DOMAIN d
  BY Zenon DEF Pushing
<1>6. QED
  BY <1>2, <1>4, <1>5, Zenon

\* The numbers of f up to n are those of the blocks of the section, in order.
Enumerates(f, n, d, s) ==
  /\ \A k \in 1..n : f[k] \in DOMAIN d /\ d[f[k]].section = s
  /\ \A i \in DOMAIN d : d[i].section = s => \E k \in 1..n : f[k] = i
  /\ \A k, m \in 1..n : k < m => f[k] < f[m]

LEMMA ChainIsInOrder ==
  ASSUME NEW d \in Seq(Block), WellFormed(d), NEW s \in SingleSections, HeadsOf(d, s) # {}
  PROVE  Enumerates(ChainIndices(d, s), Cardinality(Pushing(d, s)) + 1, d, s)
<1> DEFINE P == Pushing(d, s)
           c == Cardinality(P)
           I == ChainIndices(d, s)
           x == CurrentBlock(d, s)
<1>1. /\ s \in Standard
      /\ \A i, j \in DOMAIN d : d[i].section = s /\ d[j].section = s /\ i < j => d[i].superseded
  BY SingleHistory, Zenon
<1>2. /\ c \in Nat /\ I[c + 1] = x
      /\ \A n \in 1..(c + 1) : I[n] \in DOMAIN d /\ d[I[n]].section = s
      /\ \A n \in 1..c : I[n] = Displaced(d, Nth(P, n))
  <2>1. ListsChain(d, s, c, I)
    BY <1>1, ChainIsOfSection, Zenon
  <2> QED
    BY <2>1, Zenon DEF ListsChain
<1>3. x \in DOMAIN d /\ d[x].section = s /\ ~ d[x].superseded
  BY <1>1, CurrentIsAHead, Zenon DEF HeadsOf, Canonical, Live
<1>4. /\ P = {j \in DOMAIN d : d[j].section = s /\ d[j].superseded}
      /\ \A j \in P : Displaced(d, j) = j
  BY SingleArchive, Zenon
<1>5. Len(d) \in Nat /\ DOMAIN d = 1..Len(d) /\ P \in SUBSET (1..Len(d))
  BY <1>4, DomainOfSeq, Zenon
<1> HIDE DEF P, I, x
<1>6. /\ \A n \in 1..c : Nth(P, n) \in P
      /\ \A i \in P : \E n \in 1..c : Nth(P, n) = i
      /\ \A m, n \in 1..c : m < n => Nth(P, m) < Nth(P, n)
  BY <1>5, NthFacts, Zenon
<1> HIDE DEF c
<1>7. ASSUME NEW n \in 1..c PROVE I[n] = Nth(P, n) /\ I[n] \in P
  <2>1. Nth(P, n) \in P /\ \A j \in P : Displaced(d, j) = j
    BY <1>4, <1>6, Zenon
  <2>2. I[n] = Displaced(d, Nth(P, n))
    BY <1>2, Zenon
  <2> QED
    BY <2>1, <2>2, Zenon
<1>8. /\ \A n \in 1..c : n \in 1..(c + 1)
      /\ \A n \in 1..(c + 1) : n \in 1..c \/ n = c + 1
      /\ \A m, n \in 1..(c + 1) : m < n => m \in 1..c
      /\ c + 1 \in 1..(c + 1)
  BY <1>2, SMT
<1>9. \A i \in P : i < x
  <2>1. ASSUME NEW i \in P PROVE ~ (x < i) /\ i # x
    BY <1>1, <1>3, <1>4, Zenon
  <2>2. \A i \in P : i \in Int /\ x \in Int
    BY <1>3, <1>5, SMT
  <2> QED
    BY <2>1, <2>2, SMT
<1>10. ASSUME NEW i \in DOMAIN d, d[i].section = s PROVE \E k \in 1..(c + 1) : I[k] = i
  <2>1. CASE i \in P
    BY <2>1, <1>6, <1>7, <1>8, Zenon
  <2>2. CASE i = x
    BY <2>2, <1>2, <1>8, Zenon
  <2>3. i \in P \/ i = x
    <3>1. i < x => i \in P
      BY <1>1, <1>3, <1>4, <1>10, Zenon
    <3>2. ~ (x < i)
      BY <1>1, <1>3, <1>10, Zenon
    <3>3. i < x \/ i = x
      BY <3>2, <1>3, <1>5, SMT
    <3> QED
      BY <3>1, <3>3, Zenon
  <2> QED
    BY <2>1, <2>2, <2>3, Zenon
<1>11. ASSUME NEW k \in 1..(c + 1), NEW m \in 1..(c + 1), k < m PROVE I[k] < I[m]
  <2>1. k \in 1..c
    BY <1>8, <1>11, Zenon
  <2>2. CASE m = c + 1
    BY <2>1, <2>2, <1>2, <1>7, <1>9, Zenon
  <2>3. CASE m \in 1..c
    BY <2>1, <2>3, <1>6, <1>7, <1>11, Zenon
  <2> QED
    BY <2>2, <2>3, <1>8, Zenon
<1>12. Enumerates(I, c + 1, d, s)
  BY <1>2, <1>10, <1>11, Zenon DEF Enumerates
<1>13. QED
  BY <1>12, Zenon DEF P, c, I

\* Neighbours in such a list are neighbours in the section.
LEMMA Neighbours ==
  ASSUME NEW d \in Seq(Block), NEW s, NEW f, NEW n \in Nat, n # 0, Enumerates(f, n, d, s)
  PROVE  /\ FirstOf(d, f[1])
         /\ \A k \in 1..n : k > 1 => NextTo(d, f[k - 1], f[k])
<1>1. /\ \A k \in 1..n : f[k] \in DOMAIN d /\ d[f[k]].section = s
      /\ \A i \in DOMAIN d : d[i].section = s => \E k \in 1..n : f[k] = i
      /\ \A k, m \in 1..n : k < m => f[k] < f[m]
  BY Zenon DEF Enumerates
<1>2. \A i \in DOMAIN d : i \in Int
  BY DomainOfSeq, SMT
<1>3. ASSUME NEW k \in 1..n, NEW m \in 1..n, f[k] < f[m] PROVE k < m
  <2>1. f[k] \in Int /\ f[m] \in Int
    BY <1>1, <1>2, Zenon
  <2>2. ~ (f[m] < f[k]) /\ f[m] # f[k]
    BY <1>3, <2>1, SMT
  <2>3. ~ (m < k) /\ m # k
    BY <1>1, <2>2, Zenon
  <2> QED
    BY <2>3, SMT
<1>4. 1 \in 1..n
  BY SMT
<1>5. FirstOf(d, f[1])
  <2> SUFFICES ASSUME NEW i \in DOMAIN d, i < f[1], d[i].section = d[f[1]].section PROVE FALSE
    BY Zenon DEF FirstOf
  <2>1. PICK k \in 1..n : f[k] = i
    BY <1>1, <1>4, Zenon
  <2>2. k < 1
    BY <1>3, <1>4, <2>1, Zenon
  <2> QED
    BY <2>2, SMT
<1>6. ASSUME NEW k \in 1..n, k > 1 PROVE NextTo(d, f[k - 1], f[k])
  <2>1. k - 1 \in 1..n /\ k - 1 < k
    BY <1>6, SMT
  <2>2. f[k - 1] < f[k] /\ d[f[k - 1]].section = d[f[k]].section
    BY <1>1, <2>1, Zenon
  <2>3. ASSUME NEW i \in DOMAIN d, f[k - 1] < i, i < f[k], d[i].section = d[f[k]].section
        PROVE  FALSE
    <3>1. PICK m \in 1..n : f[m] = i
      BY <1>1, <2>3, Zenon
    <3>2. k - 1 < m /\ m < k
      BY <1>3, <2>1, <2>3, <3>1, Zenon
    <3> QED
      BY <3>2, SMT
  <2> QED
    BY <2>2, <2>3, Zenon DEF NextTo
<1>7. QED
  BY <1>5, <1>6, Zenon

-----------------------------------------------------------------------------
(* A record in whose sections every block names the one before it verifies.  *)

LEMMA UnhashedVerifies ==
  ASSUME NEW d \in Seq(Block), WellFormed(d), NEW s \in Standard, Unhashed(d, s)
  PROVE  ChainFindings(d, s) = {}
<1>1. CASE HeadsOf(d, s) = {}
  BY <1>1, Zenon DEF ChainFindings
<1>2. CASE HeadsOf(d, s) # {}
  <2> DEFINE c == Cardinality(Pushing(d, s))
             I == ChainIndices(d, s)
  <2>1. ListsChain(d, s, c, I)
    BY <1>2, ChainIsOfSection, Zenon
  <2> HIDE DEF c, I
  <2>2. \A n \in DOMAIN Chain(d, s) : Chain(d, s)[n].hash = Absent
    <3>1. \A n \in DOMAIN Chain(d, s) : /\ Chain(d, s)[n] = d[I[n]]
                                       /\ I[n] \in DOMAIN d /\ d[I[n]].section = s
      BY <2>1, Zenon DEF ListsChain
    <3>2. \A i \in DOMAIN d : d[i].section = s => d[i].hash = Absent
      BY Zenon DEF Unhashed
    <3> QED
      BY <3>1, <3>2, Zenon
  <2> QED
    BY <2>2, Zenon DEF ChainFindings
<1>3. QED
  BY <1>1, <1>2, Zenon

\* In a chain that is hashed throughout, what a block is compared with is the
\* hash of the block before it.
LEMMA PreviousIsNext ==
  ASSUME NEW chain, NEW n \in Nat, n > 1, \A m \in 1..(n - 1) : chain[m].hash # Absent
  PROVE  PreviousHash(chain, n) = chain[n - 1].hash
<1> DEFINE S == {m \in 1..(n - 1) : chain[m].hash # Absent}
<1>1. n - 1 \in Nat /\ n - 1 \in 1..(n - 1)
  BY SMT
<1>2. S \in SUBSET (1..(n - 1)) /\ n - 1 \in S /\ S # {}
  BY <1>1, Zenon
<1>3. Max(S) \in S /\ Max(S) >= n - 1
  <2> HIDE DEF S
  <2> QED
    BY <1>1, <1>2, MaxIsGreatest, Zenon
<1>4. Max(S) \in 1..(n - 1)
  BY <1>3, Zenon
<1>5. PreviousHash(chain, n) = chain[Max(S)].hash
  BY <1>2, Zenon DEF PreviousHash
<1> HIDE DEF S
<1>6. Max(S) = n - 1
  BY <1>3, <1>4, SMT
<1>7. QED
  BY <1>5, <1>6, Zenon

LEMMA LinkedVerifies ==
  ASSUME NEW d \in Seq(Block), WellFormed(d), NEW s \in SingleSections, Linked(d, s)
  PROVE  ChainFindings(d, s) = {}
<1>1. CASE HeadsOf(d, s) = {}
  BY <1>1, Zenon DEF ChainFindings
<1>2. CASE HeadsOf(d, s) # {}
  <2> DEFINE c == Cardinality(Pushing(d, s))
             I == ChainIndices(d, s)
             chain == Chain(d, s)
  <2>1. ListsChain(d, s, c, I)
    BY <1>2, SingleHistory, ChainIsOfSection, Zenon
  <2>2. Enumerates(I, c + 1, d, s)
    BY <1>2, ChainIsInOrder, Zenon
  <2> HIDE DEF c, I, chain
  <2>3. c + 1 \in Nat /\ c + 1 # 0 /\ DOMAIN chain = 1..(c + 1)
    <3>1. c \in Nat /\ DOMAIN chain = 1..(c + 1)
      BY <2>1, Zenon DEF ListsChain, chain
    <3> QED
      BY <3>1, SMT
  <2>4. ASSUME NEW n \in 1..(c + 1)
        PROVE  /\ chain[n] = d[I[n]] /\ I[n] \in DOMAIN d
               /\ chain[n].hash = Digest(chain[n]) /\ chain[n].hash # Absent
               /\ LinkAt(d, I[n])
    <3>1. chain[n] = d[I[n]] /\ I[n] \in DOMAIN d /\ d[I[n]].section = s
      BY <2>1, Zenon DEF ListsChain, chain
    <3>2. LinkAt(d, I[n])
      BY <3>1, Zenon DEF Linked
    <3>3. chain[n].hash = Digest(chain[n])
      BY <3>1, <3>2, Zenon DEF LinkAt
    <3>4. chain[n] \in Block
      BY <3>1, SMT
    <3>5. Digest(chain[n]) # Absent
      BY <3>4, DigestIsADigest, AbsentIsNoDigest, Zenon
    <3> QED
      BY <3>1, <3>2, <3>3, <3>5, Zenon
  <2>5. /\ FirstOf(d, I[1])
        /\ \A k \in 1..(c + 1) : k > 1 => NextTo(d, I[k - 1], I[k])
    BY <2>2, <2>3, Neighbours, Zenon
  <2>6. ASSUME NEW n \in 1..(c + 1) PROVE ~ BrokenLink(chain, n)
    <3>1. CASE n = 1
      <4>1. chain[n].parent \in {Absent, Null}
        BY <2>4, <2>5, <3>1, Zenon DEF LinkAt
      <4>2. ~ (n > 1)
        BY <3>1, SMT
      <4> QED
        BY <4>1, <4>2, Zenon DEF BrokenLink
    <3>2. CASE n # 1
      <4>1. n \in Nat /\ n > 1 /\ n - 1 \in 1..(c + 1) /\ \A m \in 1..(n - 1) : m \in 1..(c + 1)
        BY <2>3, <3>2, SMT
      <4>2. PreviousHash(chain, n) = chain[n - 1].hash
        BY <2>4, <4>1, PreviousIsNext, Zenon
      <4>3. NextTo(d, I[n - 1], I[n])
        BY <2>5, <4>1, Zenon
      <4>4. d[I[n]].parent = d[I[n - 1]].hash
        BY <2>4, <4>1, <4>3, Zenon DEF LinkAt
      <4>5. chain[n].parent = PreviousHash(chain, n)
        BY <2>4, <4>1, <4>2, <4>4, Zenon
      <4> QED
        BY <3>2, <4>5, Zenon DEF BrokenLink
    <3> QED
      BY <3>1, <3>2, Zenon
  <2>7. /\ ~ \E n \in DOMAIN chain : BrokenLink(chain, n)
        /\ ~ \E n \in DOMAIN chain : chain[n].hash = Absent
        /\ ~ \E n \in DOMAIN chain : chain[n].hash \notin {Absent, Digest(chain[n])}
    BY <2>3, <2>4, <2>6, Zenon
  <2> QED
    BY <2>7, Zenon DEF ChainFindings, chain
<1>3. QED
  BY <1>1, <1>2, Zenon

\* What the verifier asks of a current block holds of one a producer wrote.
LEMMA ProducedIsAllowed ==
  ASSUME NEW d \in Seq(Block), NEW i \in DOMAIN d, d[i].section \in Standard, IsProduced(d, d[i])
  PROVE  ProvenanceFindings(d, i) = {}
<1> DEFINE policy == MatchPolicy(d[i].source, Policies)
           P == Pushing(d, d[i].section)
           a == Archive(d, d[i].section)
           kept == {n \in DOMAIN a : d[a[n]].variant = d[i].variant}
<1>1. CASE policy = NoPolicy
  BY <1>1, Zenon DEF ProvenanceFindings
<1>2. CASE policy # NoPolicy
  <2>1. AuthorityAllows(d[i].source, policy)
    BY <1>2, Zenon DEF IsProduced, IsAllowed
  <2>2. ASSUME policy.supersede, d[i].revision > 1 PROVE kept # {}
    <3>1. PICK j \in DOMAIN d :
            d[j].superseded /\ d[j].section = d[i].section /\ d[j].variant = d[i].variant
      BY <1>2, <2>2, Zenon DEF IsProduced, MustBeArchived
    <3>2. d[j].section \notin AppendOnly
      BY <3>1, KindsAreDisjoint, Zenon DEF Standard, AppendOnly
    <3>3. Displaced(d, j) = j
      BY <3>1, <3>2, Zenon DEF Displaced
    <3>4. Len(d) \in Nat /\ DOMAIN d = 1..Len(d) /\ j # 0
      BY DomainOfSeq, SMT
    <3>5. j \in P /\ P \in SUBSET (1..Len(d))
      BY <3>1, <3>3, <3>4, Zenon DEF Pushing
    <3>6. /\ DOMAIN a = 1..Cardinality(P)
          /\ \A n \in 1..Cardinality(P) : a[n] = Displaced(d, Nth(P, n))
      <4>1. ListsArchive(d, d[i].section, Cardinality(P))
        BY ArchiveFacts, Zenon
      <4> QED
        BY <4>1, Zenon DEF ListsArchive
    <3> HIDE DEF P, a
    <3>7. PICK n \in 1..Cardinality(P) : Nth(P, n) = j
      BY <3>4, <3>5, NthFacts, Zenon
    <3>8. n \in DOMAIN a /\ a[n] = j
      BY <3>3, <3>6, <3>7, Zenon
    <3> QED
      BY <3>1, <3>8, Zenon
  <2> QED
    BY <1>2, <2>1, <2>2, Zenon DEF ProvenanceFindings
<1>3. QED
  BY <1>1, <1>2, Zenon

LEMMA ProducedVerifies ==
  ASSUME NEW d \in Seq(Block), Produced(d)
  PROVE  VerifyChain(d) = {} /\ VerifyProvenance(d) = {}
<1>1. \A s \in Standard : ChainFindings(d, s) = {}
  BY UnhashedVerifies, LinkedVerifies, Zenon DEF Standard, Produced, ChainsAreWhole
<1>2. ASSUME NEW i \in Canonical(d), d[i].section \in Standard PROVE ProvenanceFindings(d, i) = {}
  <2>1. i \in DOMAIN d
    BY Zenon DEF Canonical, Live
  <2> QED
    BY <1>2, <2>1, ProducedIsAllowed, Zenon DEF Produced
<1>3. VerifyChain(d) = {}
  BY <1>1, Zenon DEF VerifyChain
<1>4. VerifyProvenance(d) = {}
  BY <1>2, Zenon DEF VerifyProvenance
<1>5. QED
  BY <1>3, <1>4

-----------------------------------------------------------------------------
(* Links and what an edit does to them.                                    *)

SameLink(b, c) ==
  b.section = c.section /\ b.hash = c.hash /\ b.parent = c.parent /\ b.body = c.body /\ b.role = c.role

\* Block k of r is block j of d, and comes after what block j comes after.
From(d, j, r, k) ==
  /\ SameLink(r[k], d[j])
  /\ FirstOf(r, k) => FirstOf(d, j)
  /\ \A i \in DOMAIN r : NextTo(r, i, k) => \E e \in DOMAIN d : NextTo(d, e, j) /\ r[i].hash = d[e].hash

LEMMA LinksAreKept ==
  ASSUME NEW d, NEW r, NEW j, NEW k, From(d, j, r, k), LinkAt(d, j)
  PROVE  LinkAt(r, k)
<1>1. r[k].hash = Digest(r[k])
  BY Zenon DEF From, SameLink, LinkAt, Digest
<1>2. FirstOf(r, k) => r[k].parent \in {Absent, Null}
  BY Zenon DEF From, SameLink, LinkAt
<1>3. \A i \in DOMAIN r : NextTo(r, i, k) => r[k].parent = r[i].hash
  BY Zenon DEF From, SameLink, LinkAt
<1>4. QED
  BY <1>1, <1>2, <1>3, Zenon DEF LinkAt

\* The blocks of section s are those of before.
CarriesSection(d, r, s) ==
  \A k \in DOMAIN r : r[k].section = s =>
    \E j \in DOMAIN d : From(d, j, r, k) /\ (r[k].superseded <=> d[j].superseded)

\* All links of section s hold but the head's, which is to name x.
Awaiting(d, s, x) ==
  \A k \in DOMAIN d : d[k].section = s =>
    /\ d[k].superseded => LinkAt(d, k)
    /\ ~d[k].superseded => ~FirstOf(d, k) /\ \A i \in DOMAIN d : NextTo(d, i, k) => d[i].hash = x

LEMMA SectionsAreKept ==
  ASSUME NEW d, NEW r, NEW s, CarriesSection(d, r, s)
  PROVE  /\ Unhashed(d, s) => Unhashed(r, s)
         /\ Linked(d, s) => Linked(r, s)
         /\ \A x : Awaiting(d, s, x) => Awaiting(r, s, x)
<1>1. ASSUME NEW k \in DOMAIN r, r[k].section = s
      PROVE  \E j \in DOMAIN d : d[j].section = s /\ From(d, j, r, k) /\ (r[k].superseded <=> d[j].superseded)
  <2>1. PICK j \in DOMAIN d : From(d, j, r, k) /\ (r[k].superseded <=> d[j].superseded)
    BY <1>1, Zenon DEF CarriesSection
  <2>2. SameLink(r[k], d[j])
    BY <2>1, Zenon DEF From
  <2>3. d[j].section = s
    BY <1>1, <2>2, Zenon DEF SameLink
  <2> QED
    BY <2>1, <2>3, Zenon
<1>2. ASSUME Unhashed(d, s), NEW k \in DOMAIN r, r[k].section = s PROVE r[k].hash = Absent
  <2>1. PICK j \in DOMAIN d : d[j].section = s /\ From(d, j, r, k)
    BY <1>1, <1>2, Zenon
  <2>2. SameLink(r[k], d[j])
    BY <2>1, Zenon DEF From
  <2> QED
    BY <1>2, <2>1, <2>2, Zenon DEF SameLink, Unhashed
<1>2a. Unhashed(d, s) => Unhashed(r, s)
  BY <1>2, Zenon DEF Unhashed
<1>3. Linked(d, s) => Linked(r, s)
  BY <1>1, LinksAreKept, Zenon DEF Linked
<1>4. ASSUME NEW x, Awaiting(d, s, x) PROVE Awaiting(r, s, x)
  <2> SUFFICES ASSUME NEW k \in DOMAIN r, r[k].section = s
               PROVE  /\ r[k].superseded => LinkAt(r, k)
                      /\ ~r[k].superseded =>
                           ~FirstOf(r, k) /\ \A i \in DOMAIN r : NextTo(r, i, k) => r[i].hash = x
    BY Zenon DEF Awaiting
  <2>1. PICK j \in DOMAIN d : d[j].section = s /\ From(d, j, r, k) /\ (r[k].superseded <=> d[j].superseded)
    BY <1>1, Zenon
  <2>2. CASE r[k].superseded
    BY <1>4, <2>1, <2>2, LinksAreKept, Zenon DEF Awaiting
  <2>3. CASE ~r[k].superseded
    <3>1. ~FirstOf(d, j) /\ \A i \in DOMAIN d : NextTo(d, i, j) => d[i].hash = x
      BY <1>4, <2>1, <2>3, Zenon DEF Awaiting
    <3>2. /\ FirstOf(r, k) => FirstOf(d, j)
          /\ \A i \in DOMAIN r : NextTo(r, i, k) => \E e \in DOMAIN d : NextTo(d, e, j) /\ r[i].hash = d[e].hash
      BY <2>1, Zenon DEF From
    <3> QED
      BY <2>3, <3>1, <3>2, Zenon
  <2> QED
    BY <2>2, <2>3
<1>5. QED
  BY <1>2a, <1>3, <1>4, Zenon

\* An edit in place of blocks of other sections leaves a section as it is.
LEMMA RewritingCarries ==
  ASSUME NEW d, NEW r, NEW s, DOMAIN r = DOMAIN d,
         \A i \in DOMAIN d : r[i].section = d[i].section /\ (d[i].section = s => r[i] = d[i])
  PROVE  CarriesSection(d, r, s)
<1> SUFFICES ASSUME NEW k \in DOMAIN r, r[k].section = s
             PROVE  k \in DOMAIN d /\ From(d, k, r, k) /\ (r[k].superseded <=> d[k].superseded)
  BY Zenon DEF CarriesSection
<1>1. k \in DOMAIN d /\ d[k].section = s /\ r[k] = d[k]
  BY Zenon
<1>2. FirstOf(r, k) => FirstOf(d, k)
  BY <1>1, Zenon DEF FirstOf
<1>3. ASSUME NEW i \in DOMAIN r, NextTo(r, i, k) PROVE NextTo(d, i, k) /\ r[i].hash = d[i].hash
  <2>1. r[i].section = r[k].section /\ i < k /\ \A m \in DOMAIN r : i < m /\ m < k => r[m].section # r[k].section
    BY <1>3, Zenon DEF NextTo
  <2>2. r[i] = d[i]
    BY <1>1, <2>1, Zenon
  <2>3. NextTo(d, i, k)
    BY <1>1, <2>1, <2>2, Zenon DEF NextTo
  <2> QED
    BY <2>2, <2>3
<1>4. From(d, k, r, k)
  BY <1>1, <1>2, <1>3, Zenon DEF From, SameLink
<1>5. QED
  BY <1>1, <1>4, Zenon

-----------------------------------------------------------------------------
(* A supersession moves the log on and puts a block before it.             *)

\* Where a block goes when one is put at p, and where it came from.
Up(p, i) == IF i < p THEN i ELSE i + 1
Down(p, k) == IF k < p THEN k ELSE k - 1

Shifts(n, p) ==
  /\ \A i \in 1..n : Up(p, i) \in 1..(n + 1) /\ Up(p, i) # p /\ Down(p, Up(p, i)) = i
  /\ \A k \in 1..(n + 1) : k # p => Down(p, k) \in 1..n /\ Up(p, Down(p, k)) = k
  /\ \A i, j \in 1..n : i < j => Up(p, i) < Up(p, j)
  /\ \A k, m \in 1..(n + 1) : k # p /\ m # p /\ k < m => Down(p, k) < Down(p, m)
  /\ \A k \in 1..(n + 1) : p < k => p <= Down(p, k)
  /\ \A k \in 1..(n + 1) : k < p => Down(p, k) = k

LEMMA UpAndDown ==
  ASSUME NEW n \in Nat, NEW p \in 1..(n + 1)
  PROVE  Shifts(n, p)
BY SMT DEF Up, Down, Shifts

\* Document r is d with block b put at p and block h marked.
Inserted(d, r, p, h, b) ==
  /\ DOMAIN r = 1..(Len(d) + 1) /\ p \in 1..(Len(d) + 1) /\ r[p] = b
  /\ \A i \in DOMAIN d : /\ SameButMark(r[Up(p, i)], d[i])
                         /\ r[Up(p, i)].superseded <=> i = h \/ d[i].superseded

LEMMA SupersedeInserts ==
  ASSUME NEW d \in Seq(Block), NEW op \in SectionOperation, NEW source \in Sources
  PROVE  LET h == Lookup(d, op.section, op.variant)
         IN Inserted(d, SupersedeSection(d, op, source), InsertionPoint(d), h, NewBlock(d, h, op, source))
<1> DEFINE h == Lookup(d, op.section, op.variant)
           m == MarkSuperseded(d, h)
           p == InsertionPoint(d)
           b == NewBlock(d, h, op, source)
           r == SupersedeSection(d, op, source)
<1>1. /\ r \in Seq(Block) /\ Len(r) = Len(d) + 1
      /\ \A i \in 1..(Len(d) + 1) : r[i] = IF i < p THEN m[i] ELSE IF i = p THEN b ELSE m[i - 1]
  BY SupersedeFacts, Zenon
<1>2. \A i \in DOMAIN d : /\ m[i].superseded <=> (i = h \/ d[i].superseded)
                          /\ SameButMark(m[i], d[i])
  <2> HIDE DEF h
  <2>1. \A i \in DOMAIN d : m[i].superseded = (i = h \/ d[i].superseded) /\ SameButMark(m[i], d[i])
    BY MarkFacts, Zenon
  <2> QED
    BY <2>1, Zenon
<1>3. p \in 1..(Len(d) + 1)
  BY InsertionFacts, Zenon
<1> HIDE DEF h, m, p, b, r
<1>4. DOMAIN r = 1..(Len(d) + 1) /\ DOMAIN d = 1..Len(d) /\ Len(d) \in Nat
  BY <1>1, DomainOfSeq, Zenon
<1>5. ASSUME NEW i \in DOMAIN d PROVE r[Up(p, i)] = m[i]
  <2>1. i \in 1..Len(d) /\ i \in Int /\ p \in Int
    BY <1>3, <1>4, SMT
  <2>2. CASE i < p
    <3>1. Up(p, i) = i /\ i \in 1..(Len(d) + 1)
      BY <1>4, <2>1, <2>2, SMT DEF Up
    <3> QED
      BY <1>1, <2>2, <3>1, Zenon
  <2>3. CASE ~(i < p)
    <3>1. PICK k \in 1..(Len(d) + 1) : Up(p, i) = k /\ ~(k < p) /\ k # p /\ k - 1 = i
      BY <1>4, <2>1, <2>3, SMT DEF Up
    <3>2. r[k] = m[k - 1]
      BY <1>1, <3>1, Zenon
    <3> QED
      BY <3>1, <3>2, Zenon
  <2> QED
    BY <2>2, <2>3
<1>6. r[p] = b
  <2>1. ~(p < p)
    BY <1>3, <1>4, SMT
  <2> QED
    BY <1>1, <1>3, <2>1, Zenon
<1>7. Inserted(d, r, p, h, b)
  BY <1>2, <1>3, <1>4, <1>5, <1>6, Zenon DEF Inserted
<1>8. QED
  BY <1>7, Zenon DEF h, p, b, r

\* Of a document whose logs come last: only logs follow the point of insertion.
LEMMA LogsFollow ==
  ASSUME NEW d \in Seq(Block), LogsComeLast(d), NEW i \in DOMAIN d, InsertionPoint(d) <= i
  PROVE  d[i].section = PipelineLog
<1> DEFINE p == InsertionPoint(d)
<1>1. p \in 1..(Len(d) + 1) /\ (p # Len(d) + 1 => p \in LogBlocks(d))
  BY InsertionFacts, Zenon
<1> HIDE DEF p
<1>2. i \in 1..Len(d) /\ Len(d) \in Nat
  BY DomainOfSeq, SMT
<1>3. p <= i
  BY Zenon DEF p
<1>4. p # Len(d) + 1
  BY <1>1, <1>2, <1>3, SMT
<1>5. p \in LogBlocks(d) /\ p \in DOMAIN d
  BY <1>1, <1>4, Zenon DEF LogBlocks
<1>6. i \in LogBlocks(d)
  BY <1>3, <1>5, Zenon DEF LogsComeLast
<1>7. QED
  BY <1>6, Zenon DEF LogBlocks

\* Every block but the new one was there; each comes after what it came after.
IsGrown(d, r, p, h, b) ==
  /\ p \in DOMAIN r /\ r[p] = b
  /\ \A k \in DOMAIN r : k # p => \E j \in DOMAIN d :
       /\ From(d, j, r, k) /\ SameButMark(r[k], d[j])
       /\ r[k].superseded <=> j = h \/ d[j].superseded
  /\ \A j \in DOMAIN d : \E k \in DOMAIN r :
       /\ SameButMark(r[k], d[j])
       /\ r[k].superseded <=> j = h \/ d[j].superseded
  /\ FirstOf(r, p) => \A j \in DOMAIN d : d[j].section # b.section
  /\ \A i \in DOMAIN r : NextTo(r, i, p) => \E e \in DOMAIN d :
       /\ d[e].section = b.section /\ r[i].hash = d[e].hash
       /\ \A j \in DOMAIN d : d[j].section = b.section => ~(e < j)

LEMMA InsertedIsGrown ==
  ASSUME NEW d \in Seq(Block), NEW r, NEW p, NEW h, NEW b, Inserted(d, r, p, h, b), b.section \in Standard,
         \A i \in DOMAIN d : p <= i => d[i].section = PipelineLog
  PROVE  IsGrown(d, r, p, h, b)
<1>1. /\ DOMAIN d = 1..Len(d) /\ Len(d) \in Nat
      /\ DOMAIN r = 1..(Len(d) + 1) /\ p \in DOMAIN r /\ r[p] = b
      /\ \A i \in DOMAIN d : /\ SameButMark(r[Up(p, i)], d[i])
                             /\ r[Up(p, i)].superseded <=> i = h \/ d[i].superseded
  BY DomainOfSeq, Zenon DEF Inserted
<1>2. /\ \A i \in DOMAIN d : Up(p, i) \in DOMAIN r /\ Up(p, i) # p /\ Down(p, Up(p, i)) = i
      /\ \A k \in DOMAIN r : k # p => Down(p, k) \in DOMAIN d /\ Up(p, Down(p, k)) = k
      /\ \A i, j \in DOMAIN d : i < j => Up(p, i) < Up(p, j)
      /\ \A k, m \in DOMAIN r : k # p /\ m # p /\ k < m => Down(p, k) < Down(p, m)
      /\ \A k \in DOMAIN r : p < k => p <= Down(p, k)
      /\ \A k \in DOMAIN r : k < p => Down(p, k) = k
  <2>1. Shifts(Len(d), p)
    BY <1>1, UpAndDown, Zenon
  <2> QED
    BY <1>1, <2>1, Zenon DEF Shifts
<1>3. \A k \in DOMAIN r : k \in Int
  BY <1>1, SMT
<1>4. PipelineLog # b.section
  BY KindsAreDisjoint, Zenon DEF Standard
<1>5. ASSUME NEW i \in DOMAIN d
      PROVE  r[Up(p, i)].section = d[i].section /\ r[Up(p, i)].hash = d[i].hash
  BY <1>1, Zenon DEF SameButMark
<1>6. ASSUME NEW k \in DOMAIN r, k # p, r[k].section = b.section PROVE k < p
  <2>1. Down(p, k) \in DOMAIN d /\ Up(p, Down(p, k)) = k
    BY <1>2, <1>6, Zenon
  <2>2. d[Down(p, k)].section = b.section
    BY <1>5, <1>6, <2>1, Zenon
  <2>3. ~(p <= Down(p, k))
    BY <1>4, <2>1, <2>2, Zenon
  <2>4. ~(p < k)
    BY <1>2, <2>3, Zenon
  <2> QED
    BY <1>1, <1>3, <1>6, <2>4, SMT
<1>7. ASSUME NEW j \in DOMAIN d PROVE From(d, j, r, Up(p, j))
  <2> DEFINE k == Up(p, j)
  <2>1. k \in DOMAIN r /\ k # p /\ Down(p, k) = j /\ SameButMark(r[k], d[j]) /\ r[k].section = d[j].section
    BY <1>1, <1>2, <1>5, Zenon
  <2>2. SameLink(r[k], d[j])
    BY <2>1, Zenon DEF SameLink, SameButMark
  <2> HIDE DEF k
  <2>3. ASSUME FirstOf(r, k) PROVE FirstOf(d, j)
    <3> SUFFICES ASSUME NEW i \in DOMAIN d, i < j, d[i].section = d[j].section PROVE FALSE
      BY Zenon DEF FirstOf
    <3>1. Up(p, i) < k /\ Up(p, i) \in DOMAIN r /\ r[Up(p, i)].section = d[i].section
      BY <1>2, <1>5, Zenon DEF k
    <3> QED
      BY <2>1, <2>3, <3>1, Zenon DEF FirstOf
  <2>4. ASSUME NEW i \in DOMAIN r, NextTo(r, i, k)
        PROVE  \E e \in DOMAIN d : NextTo(d, e, j) /\ r[i].hash = d[e].hash
    <3>1. i < k /\ r[i].section = r[k].section /\ \A m \in DOMAIN r : i < m /\ m < k => r[m].section # r[k].section
      BY <2>4, Zenon DEF NextTo
    <3>2. i # p
      <4>1. SUFFICES ASSUME i = p PROVE FALSE
        BY Zenon
      <4>2. r[k].section = b.section
        BY <1>1, <3>1, <4>1, Zenon
      <4>3. k < p /\ p < k
        BY <1>6, <2>1, <3>1, <4>1, <4>2, Zenon
      <4> QED
        BY <1>1, <1>3, <2>1, <4>3, SMT
    <3>3. Down(p, i) \in DOMAIN d /\ Up(p, Down(p, i)) = i /\ Down(p, i) < j
      BY <1>2, <2>1, <3>1, <3>2, Zenon
    <3>4. d[Down(p, i)].section = d[j].section /\ r[i].hash = d[Down(p, i)].hash
      BY <1>5, <2>1, <3>1, <3>3, Zenon
    <3>5. ASSUME NEW m \in DOMAIN d, Down(p, i) < m, m < j PROVE d[m].section # d[j].section
      <4>1. i < Up(p, m) /\ Up(p, m) < k /\ Up(p, m) \in DOMAIN r
        BY <1>2, <3>3, <3>5, Zenon DEF k
      <4>2. r[Up(p, m)].section # r[k].section
        BY <3>1, <4>1, Zenon
      <4> QED
        BY <1>5, <2>1, <4>2, Zenon
    <3>6. NextTo(d, Down(p, i), j)
      BY <3>3, <3>4, <3>5, Zenon DEF NextTo
    <3> QED
      BY <3>3, <3>4, <3>6, Zenon
  <2>5. From(d, j, r, k)
    BY <2>2, <2>3, <2>4, Zenon DEF From
  <2> QED
    BY <2>5, Zenon DEF k
<1>8. ASSUME NEW k \in DOMAIN r, k # p
      PROVE  \E j \in DOMAIN d : /\ From(d, j, r, k) /\ SameButMark(r[k], d[j])
                                 /\ r[k].superseded <=> j = h \/ d[j].superseded
  <2>1. Down(p, k) \in DOMAIN d /\ Up(p, Down(p, k)) = k
    BY <1>2, <1>8, Zenon
  <2>2. PICK j \in DOMAIN d : Up(p, j) = k
    BY <2>1, Zenon
  <2>3. From(d, j, r, k)
    BY <1>7, <2>2, Zenon
  <2>4. /\ SameButMark(r[k], d[j])
        /\ r[k].superseded <=> j = h \/ d[j].superseded
    BY <1>1, <2>2, Zenon
  <2> QED
    BY <2>3, <2>4, Zenon
<1>9. ASSUME FirstOf(r, p), NEW j \in DOMAIN d PROVE d[j].section # b.section
  <2>1. SUFFICES ASSUME d[j].section = b.section PROVE FALSE
    BY Zenon
  <2>2. Up(p, j) \in DOMAIN r /\ Up(p, j) # p /\ r[Up(p, j)].section = b.section
    BY <1>2, <1>5, <2>1, Zenon
  <2>3. Up(p, j) < p
    BY <1>6, <2>2, Zenon
  <2> QED
    BY <1>1, <1>9, <2>2, <2>3, Zenon DEF FirstOf
<1>10. ASSUME NEW i \in DOMAIN r, NextTo(r, i, p)
       PROVE  \E e \in DOMAIN d : /\ d[e].section = b.section /\ r[i].hash = d[e].hash
                                  /\ \A j \in DOMAIN d : d[j].section = b.section => ~(e < j)
  <2>1. /\ i < p /\ r[i].section = b.section
        /\ \A m \in DOMAIN r : i < m /\ m < p => r[m].section # b.section
    BY <1>1, <1>10, Zenon DEF NextTo
  <2>2. i # p
    BY <1>1, <1>3, <2>1, SMT
  <2>3. Down(p, i) \in DOMAIN d /\ Up(p, Down(p, i)) = i
    BY <1>2, <2>2, Zenon
  <2>4. d[Down(p, i)].section = b.section /\ r[i].hash = d[Down(p, i)].hash
    BY <1>5, <2>1, <2>3, Zenon
  <2>5. ASSUME NEW j \in DOMAIN d, d[j].section = b.section, Down(p, i) < j PROVE FALSE
    <3>1. i < Up(p, j) /\ Up(p, j) \in DOMAIN r /\ Up(p, j) # p /\ r[Up(p, j)].section = b.section
      BY <1>2, <1>5, <2>3, <2>5, Zenon
    <3>2. Up(p, j) < p
      BY <1>6, <3>1, Zenon
    <3> QED
      BY <2>1, <3>1, <3>2, Zenon
  <2> QED
    BY <2>3, <2>4, <2>5, Zenon
<1>11. ASSUME NEW j \in DOMAIN d
       PROVE  \E k \in DOMAIN r : /\ SameButMark(r[k], d[j])
                                  /\ r[k].superseded <=> j = h \/ d[j].superseded
  BY <1>1, <1>2, Zenon
<1>12. QED
  BY <1>1, <1>8, <1>9, <1>10, <1>11, Zenon DEF IsGrown

LEMMA SupersedeGrows ==
  ASSUME NEW d \in Seq(Block), WellFormed(d), NEW op \in SectionOperation, Addressed(op), NEW source \in Sources
  PROVE  LET h == Lookup(d, op.section, op.variant)
         IN IsGrown(d, SupersedeSection(d, op, source), InsertionPoint(d), h, NewBlock(d, h, op, source))
<1> DEFINE h == Lookup(d, op.section, op.variant)
           p == InsertionPoint(d)
           b == NewBlock(d, h, op, source)
           r == SupersedeSection(d, op, source)
<1>1. Inserted(d, r, p, h, b)
  BY SupersedeInserts, Zenon
<1>2. b.section \in Standard
  BY NewBlockFacts, Zenon DEF Successor
<1>3. \A i \in DOMAIN d : p <= i => d[i].section = PipelineLog
  BY LogsFollow, Zenon DEF WellFormed
<1> HIDE DEF h, p, b, r
<1>4. IsGrown(d, r, p, h, b)
  BY <1>1, <1>2, <1>3, InsertedIsGrown, Zenon
<1>5. QED
  BY <1>4, Zenon DEF h, p, b, r

-----------------------------------------------------------------------------
(* What a supersession leaves to the stamp that follows it.                *)

WholeAt(d, s) == Unhashed(d, s) \/ (s \in SingleSections /\ Linked(d, s))

LEMMA WholeBySection ==
  ASSUME NEW d
  PROVE  ChainsAreWhole(d) <=> \A s \in Standard : WholeAt(d, s)
<1>1. \A s \in MultiVariantSections : s \notin SingleSections
  BY KindsAreDisjoint, Zenon
<1>2. QED
  BY <1>1, Zenon DEF ChainsAreWhole, WholeAt, Standard

\* The hash of the head an operation finds, if it has one.
PriorHash(d, op) ==
  LET h == Lookup(d, op.section, op.variant) IN IF h = 0 THEN Absent ELSE d[h].hash

\* A section whose head is yet to be stamped on hash x, if there is one.
WaitsAt(d, s, x) ==
  IF x = Absent THEN Unhashed(d, s) ELSE s \in SingleSections /\ Awaiting(d, s, x)

LEMMA WaitingIsKept ==
  ASSUME NEW d, NEW r, NEW s, CarriesSection(d, r, s)
  PROVE  /\ WholeAt(d, s) => WholeAt(r, s)
         /\ \A x : WaitsAt(d, s, x) => WaitsAt(r, s, x)
BY SectionsAreKept, Zenon DEF WholeAt, WaitsAt

LEMMA LinkedAreHashed ==
  ASSUME NEW d \in Seq(Block), NEW s, Linked(d, s), NEW i \in DOMAIN d, d[i].section = s
  PROVE  d[i].hash # Absent
<1>1. d[i] \in Block
  BY SMT
<1>2. d[i].hash = Digest(d[i])
  BY Zenon DEF Linked, LinkAt
<1>3. QED
  BY <1>1, <1>2, DigestIsADigest, AbsentIsNoDigest, Zenon

LEMMA SlotIsSection ==
  ASSUME NEW d, FiledByKey(d), NEW op, Addressed(op), op.section \in SingleSections, NEW i \in DOMAIN d
  PROVE  InSlot(op, d[i]) <=> d[i].section = op.section
<1>1. op.section \notin MultiVariantSections /\ op.section \in Standard
  BY KindsAreDisjoint, Zenon DEF Standard
<1>2. op.variant = NoVariant
  BY <1>1, Zenon DEF Addressed
<1>3. d[i].section = op.section => d[i].variant = NoVariant
  BY <1>1, Zenon DEF FiledByKey
<1>4. d[i].section = op.section => Key(d[i]) = DefaultVariant
  BY <1>1, <1>3, Zenon DEF Key
<1>5. QED
  BY <1>2, <1>4, Zenon DEF InSlot

\* The head of such a section is its last block, and the only live one.
IsLastOf(d, s, h) ==
  /\ h = 0 => \A i \in DOMAIN d : d[i].section # s
  /\ h # 0 => /\ h \in DOMAIN d /\ d[h].section = s /\ ~d[h].superseded
              /\ \A i \in DOMAIN d : d[i].section = s /\ i # h => i < h /\ d[i].superseded

LEMMA HeadIsLast ==
  ASSUME NEW d \in Seq(Block), WellFormed(d), NEW op, Addressed(op), op.section \in SingleSections
  PROVE  IsLastOf(d, op.section, Lookup(d, op.section, op.variant))
<1> DEFINE h == Lookup(d, op.section, op.variant)
<1>1. \A i \in DOMAIN d : InSlot(op, d[i]) <=> d[i].section = op.section
  BY SlotIsSection, Zenon DEF WellFormed
<1>2. h = 0 => \A i \in DOMAIN d : ~InSlot(op, d[i])
  BY HeadOfSlot, Zenon
<1>3. h # 0 => /\ h \in DOMAIN d /\ InSlot(op, d[h]) /\ ~d[h].superseded
               /\ \A i \in DOMAIN d : InSlot(op, d[i]) /\ i # h => i < h /\ d[i].superseded
  BY HeadOfSlot, Zenon
<1> HIDE DEF h
<1>4. IsLastOf(d, op.section, h)
  BY <1>1, <1>2, <1>3, Zenon DEF IsLastOf
<1>5. QED
  BY <1>4, Zenon DEF h

LEMMA GrownOthers ==
  ASSUME NEW d, NEW r, NEW p, NEW h, NEW b, IsGrown(d, r, p, h, b),
         h \in DOMAIN d => d[h].section = b.section, NEW s, s # b.section
  PROVE  CarriesSection(d, r, s)
<1> SUFFICES ASSUME NEW k \in DOMAIN r, r[k].section = s
             PROVE  \E j \in DOMAIN d : From(d, j, r, k) /\ (r[k].superseded <=> d[j].superseded)
  BY Zenon DEF CarriesSection
<1>1. k # p
  BY Zenon DEF IsGrown
<1>1a. PICK j \in DOMAIN d : From(d, j, r, k) /\ SameButMark(r[k], d[j]) /\ (r[k].superseded <=> j = h \/ d[j].superseded)
  BY <1>1, Zenon DEF IsGrown
<1>2. From(d, j, r, k) /\ r[k].section = d[j].section /\ (r[k].superseded <=> j = h \/ d[j].superseded)
  BY <1>1a, Zenon DEF SameButMark
<1>3. j # h
  BY <1>2, Zenon
<1>4. QED
  BY <1>2, <1>3, Zenon

LEMMA GrownSection ==
  ASSUME NEW d \in Seq(Block), NEW r, NEW p, NEW h, NEW b, IsGrown(d, r, p, h, b),
         b.hash = Absent, ~b.superseded
  PROVE  /\ Unhashed(d, b.section) => Unhashed(r, b.section)
         /\ Linked(d, b.section) /\ IsLastOf(d, b.section, h) /\ h # 0 => Awaiting(r, b.section, d[h].hash)
<1> DEFINE s == b.section
<1>0. \A k \in DOMAIN r : k # p => \E j \in DOMAIN d :
         From(d, j, r, k) /\ SameButMark(r[k], d[j]) /\ (r[k].superseded <=> j = h \/ d[j].superseded)
  BY Zenon DEF IsGrown
<1>1. ASSUME Unhashed(d, s) PROVE Unhashed(r, s)
  <2> SUFFICES ASSUME NEW k \in DOMAIN r, r[k].section = s PROVE r[k].hash = Absent
    BY Zenon DEF Unhashed
  <2>1. CASE k = p
    BY <2>1, Zenon DEF IsGrown
  <2>2. CASE k # p
    <3>1. PICK j \in DOMAIN d : SameButMark(r[k], d[j])
      BY <1>0, <2>2, Zenon
    <3>2. d[j].section = s /\ r[k].hash = d[j].hash
      BY <3>1, Zenon DEF SameButMark
    <3> QED
      BY <1>1, <3>2, Zenon DEF Unhashed
  <2> QED
    BY <2>1, <2>2
<1>2. ASSUME Linked(d, s), IsLastOf(d, s, h), h # 0 PROVE Awaiting(r, s, d[h].hash)
  <2>0. /\ h \in DOMAIN d /\ d[h].section = s
        /\ \A i \in DOMAIN d : d[i].section = s /\ i # h => i < h /\ d[i].superseded
    BY <1>2, Zenon DEF IsLastOf
  <2> SUFFICES ASSUME NEW k \in DOMAIN r, r[k].section = s
               PROVE  /\ r[k].superseded => LinkAt(r, k)
                      /\ ~r[k].superseded =>
                           ~FirstOf(r, k) /\ \A i \in DOMAIN r : NextTo(r, i, k) => r[i].hash = d[h].hash
    BY Zenon DEF Awaiting
  <2>1. CASE k # p
    <3>1. PICK j \in DOMAIN d : From(d, j, r, k) /\ r[k].section = d[j].section /\ (r[k].superseded <=> j = h \/ d[j].superseded)
      BY <1>0, <2>1, Zenon DEF SameButMark
    <3>2. r[k].superseded
      BY <2>0, <3>1, Zenon
    <3>3. LinkAt(d, j)
      BY <1>2, <3>1, Zenon DEF Linked
    <3> QED
      BY <3>1, <3>2, <3>3, LinksAreKept, Zenon
  <2>2. CASE k = p
    <3>1. ~r[k].superseded
      BY <2>2, Zenon DEF IsGrown
    <3>2. ~FirstOf(r, k)
      BY <2>0, <2>2, Zenon DEF IsGrown
    <3>3. ASSUME NEW i \in DOMAIN r, NextTo(r, i, k) PROVE r[i].hash = d[h].hash
      <4>1. PICK e \in DOMAIN d : /\ d[e].section = s /\ r[i].hash = d[e].hash
                                  /\ \A j \in DOMAIN d : d[j].section = s => ~(e < j)
        BY <2>2, <3>3, Zenon DEF IsGrown
      <4>2. e = h
        BY <2>0, <4>1, Zenon
      <4> QED
        BY <4>1, <4>2
    <3> QED
      BY <3>1, <3>2, <3>3
  <2> QED
    BY <2>1, <2>2
<1>3. QED
  BY <1>1, <1>2, Zenon

LEMMA SupersedeChains ==
  ASSUME NEW d \in Seq(Block), WellFormed(d), NEW op \in SectionOperation, Addressed(op), NEW source \in Sources
  PROVE  LET r == SupersedeSection(d, op, source)
         IN /\ WholeAt(d, op.section) => WaitsAt(r, op.section, PriorHash(d, op))
            /\ \A s : s # op.section => CarriesSection(d, r, s)
<1> DEFINE h == Lookup(d, op.section, op.variant)
           p == InsertionPoint(d)
           b == NewBlock(d, h, op, source)
           r == SupersedeSection(d, op, source)
           x == PriorHash(d, op)
<1>1. IsGrown(d, r, p, h, b)
  BY SupersedeGrows, Zenon
<1>2. b.section = op.section /\ b.hash = Absent /\ ~b.superseded
  <2>1. Successor(d, h, op, b)
    BY NewBlockFacts, Zenon
  <2> HIDE DEF h, b
  <2> QED
    BY <2>1, Zenon DEF Successor
<1>3. h # 0 => h \in DOMAIN d /\ d[h].section = op.section
  <2>1. h # 0 => h \in DOMAIN d /\ InSlot(op, d[h])
    BY HeadOfSlot, Zenon
  <2> HIDE DEF h
  <2> QED
    BY <2>1, Zenon DEF InSlot
<1>4. x = IF h = 0 THEN Absent ELSE d[h].hash
  BY Zenon DEF PriorHash
<1>5. op.section \in SingleSections => IsLastOf(d, op.section, h)
  BY HeadIsLast, Zenon
<1>6. \A i \in DOMAIN d : i # 0
  BY DomainOfSeq, SMT
<1> HIDE DEF h, p, b, r, x
<1>7. ASSUME NEW s, s # op.section PROVE CarriesSection(d, r, s)
  BY <1>1, <1>2, <1>3, <1>6, <1>7, GrownOthers, Zenon
<1>8. ASSUME WholeAt(d, op.section) PROVE WaitsAt(r, op.section, x)
  <2>1. CASE Unhashed(d, op.section)
    <3>1. x = Absent
      BY <1>3, <1>4, <2>1, Zenon DEF Unhashed
    <3>2. Unhashed(r, op.section)
      BY <1>1, <1>2, <2>1, GrownSection, Zenon
    <3> QED
      BY <3>1, <3>2, Zenon DEF WaitsAt
  <2>2. CASE op.section \in SingleSections /\ Linked(d, op.section)
    <3>1. CASE h = 0
      <4>1. Unhashed(d, op.section)
        BY <1>5, <2>2, <3>1, Zenon DEF IsLastOf, Unhashed
      <4> QED
        BY <2>1, <4>1
    <3>2. CASE h # 0
      <4>1. x = d[h].hash /\ x # Absent
        BY <1>3, <1>4, <2>2, <3>2, LinkedAreHashed, Zenon
      <4>2. Awaiting(r, op.section, x)
        BY <1>1, <1>2, <1>5, <2>2, <3>2, <4>1, GrownSection, Zenon
      <4> QED
        BY <2>2, <4>1, <4>2, Zenon DEF WaitsAt
    <3> QED
      BY <3>1, <3>2
  <2> QED
    BY <1>8, <2>1, <2>2, Zenon DEF WholeAt
<1>9. QED
  BY <1>7, <1>8, Zenon DEF r, x

-----------------------------------------------------------------------------
(* Maintenance and stamping keep chains whole.                             *)

AllProduced(d) == \A i \in DOMAIN d : d[i].section \in Standard => IsProduced(d, d[i])

MaintainsChains(d, r) ==
  /\ WholeAt(d, Gaps) => WholeAt(r, Gaps)
  /\ \A s : s # Gaps => CarriesSection(d, r, s)

LEMMA MaintainChains ==
  ASSUME NEW d \in Seq(Block), WellFormed(d), NEW st \in Stages, AllProduced(d)
  PROVE  MaintainsChains(d, MaintainGaps(d, st))
<1> DEFINE op == GapsOperation(d, st)
           r  == MaintainGaps(d, st)
           g  == Lookup(d, op.section, op.variant)
           x  == ReplaceSection(d, op, Maintainer)
           y  == SupersedeSection(d, op, Maintainer)
<1>1. op \in SectionOperation /\ Addressed(op) /\ op.section = Gaps
  BY GapsOperationTyped, GapsOperationAddressed, Zenon
<1>2. \/ r = d
      \/ g # 0 /\ ~MustSupersede(d[g].source) /\ r = x
      \/ g = 0 /\ r = y
  BY MaintainIsAnEdit, Zenon
<1>3. g # 0 => g \in DOMAIN d /\ InSlot(op, d[g])
  BY <1>1, HeadOfSlot, Zenon
<1>4. Gaps \in Standard
  BY GapsIsSingle, Zenon DEF Standard
<1>5. ASSUME r = d PROVE MaintainsChains(d, r)
  <2>1. \A s : CarriesSection(d, d, s)
    BY RewritingCarries, Zenon
  <2> QED
    BY <1>5, <2>1, Zenon DEF MaintainsChains
<1>6. ASSUME g # 0, ~MustSupersede(d[g].source), r = x PROVE MaintainsChains(d, r)
  <2> DEFINE b == NewBlock(d, g, op, Maintainer)
  <2>1. /\ x \in Seq(Block) /\ Len(x) = Len(d)
        /\ \A i \in 1..Len(d) : x[i] = IF i = g THEN b ELSE d[i]
    BY <1>1, <1>6, MaintainerIsASource, ReplaceFacts, Zenon
  <2>2. b.section = Gaps /\ b.hash = Absent
    <3>1. Successor(d, g, op, b)
      BY <1>1, NewBlockFacts, Zenon
    <3> HIDE DEF b, g
    <3> QED
      BY <1>1, <3>1, Zenon DEF Successor
  <2>3. g \in DOMAIN d /\ d[g].section = Gaps
    BY <1>1, <1>3, <1>6, Zenon DEF InSlot
  <2> HIDE DEF b, g, op, x, y, r
  <2>4. DOMAIN d = 1..Len(d) /\ DOMAIN x = DOMAIN d
    BY <2>1, DomainOfSeq, Zenon
  <2>5. d[g].hash = Absent
    BY <1>4, <1>6, <2>3, Zenon DEF AllProduced, IsProduced
  <2>6. WholeAt(d, Gaps) => WholeAt(x, Gaps)
    <3>1. WholeAt(d, Gaps) => Unhashed(d, Gaps)
      BY <2>3, <2>5, LinkedAreHashed, Zenon DEF WholeAt
    <3>2. Unhashed(d, Gaps) => Unhashed(x, Gaps)
      BY <2>1, <2>2, <2>4, Zenon DEF Unhashed
    <3> QED
      BY <3>1, <3>2, Zenon DEF WholeAt
  <2>7. ASSUME NEW s, s # Gaps PROVE CarriesSection(d, x, s)
    <3>1. \A i \in DOMAIN d : x[i].section = d[i].section /\ (d[i].section = s => x[i] = d[i])
      BY <2>1, <2>2, <2>3, <2>4, <2>7, Zenon
    <3> QED
      BY <2>4, <3>1, RewritingCarries, Zenon
  <2> QED
    BY <1>6, <2>6, <2>7, Zenon DEF MaintainsChains
<1>7. ASSUME g = 0, r = y PROVE MaintainsChains(d, r)
  <2>1. /\ WholeAt(d, op.section) => WaitsAt(y, op.section, PriorHash(d, op))
        /\ \A s : s # op.section => CarriesSection(d, y, s)
    BY <1>1, MaintainerIsASource, SupersedeChains, Zenon
  <2>2. PriorHash(d, op) = Absent
    BY <1>7, Zenon DEF PriorHash
  <2> HIDE DEF g, op, x, y, r
  <2>3. WholeAt(d, Gaps) => WholeAt(y, Gaps)
    BY <1>1, <2>1, <2>2, Zenon DEF WaitsAt, WholeAt
  <2> QED
    BY <1>1, <1>7, <2>1, <2>3, Zenon DEF MaintainsChains
<1>8. MaintainsChains(d, r)
  <2> HIDE DEF g, op, x, y, r
  <2> QED
    BY <1>2, <1>5, <1>6, <1>7, Zenon
<1>9. QED
  BY <1>8, Zenon

\* The stamp: on the head, the hash of what it holds and that of the head before.
Restamped(r, d, h, x) ==
  IF x = Absent \/ h = 0 THEN r = d
  ELSE \E e : PutAt(r, d, h, e) /\ SameButStamp(e, d[h]) /\ e.hash = Digest(e) /\ e.parent = x

LEMMA StampIsAStamp ==
  ASSUME NEW before \in Seq(Block), NEW after \in Seq(Block), NEW op \in SectionOperation
  PROVE  Restamped(StampHead(before, after, op, "section_supersede"), after,
                   Lookup(after, op.section, op.variant), PriorHash(before, op))
<1> DEFINE prior == Lookup(before, op.section, op.variant)
           h     == Lookup(after, op.section, op.variant)
           x     == Digest(after[h])
           y     == before[prior].hash
           e     == [after[h] EXCEPT !.hash = x, !.parent = y]
           r     == StampHead(before, after, op, "section_supersede")
           q     == PriorHash(before, op)
<1>0. q = IF prior = 0 THEN Absent ELSE y
  BY Zenon DEF PriorHash
<1>1. CASE q = Absent \/ h = 0
  <2>1. prior = 0 \/ y = Absent \/ h = 0
    BY <1>0, <1>1, Zenon
  <2>2. r = after
    BY <2>1, Zenon DEF StampHead
  <2> HIDE DEF h, r, q
  <2> QED
    BY <1>1, <2>2, Zenon DEF Restamped, h, r, q
<1>2. CASE ~(q = Absent \/ h = 0)
  <2>0. prior # 0 /\ y # Absent /\ h # 0 /\ q = y
    BY <1>0, <1>2, Zenon
  <2>1. r = ReplaceAt(after, h, e)
    BY <2>0, Zenon DEF StampHead
  <2>2. h \in 1..Len(after) /\ prior \in 1..Len(before)
    <3>1. h \in DOMAIN after /\ prior \in DOMAIN before
      BY <2>0, LookupFacts, Zenon
    <3> QED
      BY <3>1, SMT
  <2>3. after[h] \in Block /\ before[prior] \in Block
    BY <2>2, ElementOfSeq
  <2>4. x \in Digests
    BY <2>3, DigestIsADigest, Zenon
  <2>5. y \in Digests \cup {Absent, Null}
    <3>1. before[prior].hash \in Digests \cup {Absent}
      BY <2>3, Zenon DEF Block, BlockFields
    <3> QED
      BY <3>1, Zenon
  <2>6. after[h] \in BlockFields /\ after[h].body \in PayloadOf(after[h].section)
    BY <2>3, Zenon DEF Block
  <2> HIDE DEF prior, h, x, y
  <2>7. e \in BlockFields /\ e.hash = x /\ SameButStamp(e, after[h])
    BY <2>4, <2>5, <2>6, StampedFields, Zenon
  <2>8. e.parent = y
    BY <2>6, Zenon DEF BlockFields
  <2> HIDE DEF e, r, q
  <2>9. e \in Block
    BY <2>6, <2>7, Zenon DEF Block, SameButStamp
  <2>10. e.hash = Digest(e)
    BY <2>7, Zenon DEF x, Digest, SameButStamp
  <2>11. PutAt(r, after, h, e)
    BY <2>1, <2>2, <2>9, ReplaceBlockFacts, Zenon
  <2>12. Restamped(r, after, h, q)
    BY <2>0, <2>7, <2>8, <2>10, <2>11, Zenon DEF Restamped
  <2> QED
    BY <2>12, Zenon DEF r, h, q
<1>3. QED
  BY <1>1, <1>2, Zenon

\* The stamp completes the chain that waits for it, and touches no other.
LEMMA StampChains ==
  ASSUME NEW d \in Seq(Block), WellFormed(d), NEW op, Addressed(op), NEW r, NEW x,
         Restamped(r, d, Lookup(d, op.section, op.variant), x)
  PROVE  /\ WaitsAt(d, op.section, x) => WholeAt(r, op.section)
         /\ \A s : s # op.section => CarriesSection(d, r, s)
<1> DEFINE h == Lookup(d, op.section, op.variant)
           s0 == op.section
<1>0. h # 0 => h \in DOMAIN d /\ InSlot(op, d[h])
  BY HeadOfSlot, Zenon
<1>1. h # 0 => h \in DOMAIN d /\ d[h].section = s0
  BY <1>0, Zenon DEF InSlot
<1>2. s0 \in SingleSections => IsLastOf(d, s0, h)
  BY HeadIsLast, Zenon
<1>3. Restamped(r, d, h, x)
  BY Zenon
<1> HIDE DEF h
<1>4. CASE x = Absent \/ h = 0
  <2>1. r = d
    BY <1>3, <1>4, Zenon DEF Restamped
  <2>2. \A s : CarriesSection(d, d, s)
    BY RewritingCarries, Zenon
  <2>3. WaitsAt(d, s0, x) => WholeAt(d, s0)
    <3>1. CASE x = Absent
      BY <3>1, Zenon DEF WaitsAt, WholeAt
    <3>2. CASE x # Absent /\ h = 0
      <4>1. s0 \in SingleSections => Unhashed(d, s0)
        BY <1>2, <3>2, Zenon DEF IsLastOf, Unhashed
      <4> QED
        BY <3>2, <4>1, Zenon DEF WaitsAt, WholeAt
    <3> QED
      BY <1>4, <3>1, <3>2, Zenon
  <2> QED
    BY <2>1, <2>2, <2>3, Zenon
<1>5. CASE ~(x = Absent \/ h = 0)
  <2>1. PICK e : PutAt(r, d, h, e) /\ SameButStamp(e, d[h]) /\ e.hash = Digest(e) /\ e.parent = x
    BY <1>3, <1>5, Zenon DEF Restamped
  <2>2. /\ DOMAIN r = DOMAIN d /\ r[h] = e
        /\ \A i \in DOMAIN d : i # h => r[i] = d[i]
    <3>1. r \in Seq(Block) /\ Len(r) = Len(d) /\ \A i \in 1..Len(d) : r[i] = IF i = h THEN e ELSE d[i]
      BY <2>1, Zenon DEF PutAt
    <3>2. DOMAIN r = 1..Len(r) /\ DOMAIN d = 1..Len(d)
      BY <3>1, DomainOfSeq, Zenon
    <3> QED
      BY <1>1, <1>5, <3>1, <3>2, Zenon
  <2>3. \A i \in DOMAIN d : r[i].section = d[i].section
    BY <2>1, <2>2, Zenon DEF SameButStamp
  <2>4. ASSUME NEW s, s # s0 PROVE CarriesSection(d, r, s)
    <3>1. \A i \in DOMAIN d : d[i].section = s => r[i] = d[i]
      BY <1>1, <1>5, <2>2, <2>4, Zenon
    <3> QED
      BY <2>2, <2>3, <3>1, RewritingCarries, Zenon
  <2>5. ASSUME WaitsAt(d, s0, x) PROVE WholeAt(r, s0)
    <3>1. s0 \in SingleSections /\ Awaiting(d, s0, x)
      BY <1>5, <2>5, Zenon DEF WaitsAt
    <3>2. /\ h \in DOMAIN d /\ d[h].section = s0 /\ ~d[h].superseded
          /\ \A i \in DOMAIN d : d[i].section = s0 /\ i # h => i < h /\ d[i].superseded
      BY <1>2, <1>5, <3>1, Zenon DEF IsLastOf
    <3>3. \A i \in DOMAIN d : i \in Int
      BY DomainOfSeq, SMT
    <3>4. \A k : /\ k \in DOMAIN d /\ FirstOf(r, k) => FirstOf(d, k)
                 /\ \A i : k \in DOMAIN d /\ i \in DOMAIN d /\ NextTo(r, i, k) => NextTo(d, i, k)
      BY <2>2, <2>3, Zenon DEF FirstOf, NextTo
    <3>5. ASSUME NEW k \in DOMAIN r, r[k].section = s0 PROVE LinkAt(r, k)
      <4>1. k \in DOMAIN d /\ d[k].section = s0
        BY <2>2, <2>3, <3>5, Zenon
      <4>2. ASSUME NEW i \in DOMAIN r, NextTo(r, i, k)
            PROVE  i \in DOMAIN d /\ NextTo(d, i, k) /\ r[i].hash = d[i].hash
        <5>1. i \in DOMAIN d /\ NextTo(d, i, k) /\ i < k /\ d[i].section = s0
          BY <2>2, <3>4, <4>1, <4>2, Zenon DEF NextTo
        <5>2. i # h
          <6>1. SUFFICES ASSUME i = h PROVE FALSE
            BY Zenon
          <6>2. k # h
            BY <3>3, <4>1, <5>1, <6>1, SMT
          <6>3. k < h /\ h < k
            BY <3>2, <4>1, <5>1, <6>1, <6>2, Zenon
          <6> QED
            BY <3>2, <3>3, <4>1, <6>3, SMT
        <5> QED
          BY <2>2, <5>1, <5>2, Zenon
      <4>3. CASE k = h
        <5>1. r[k].hash = Digest(r[k]) /\ r[k].parent = x
          BY <2>1, <2>2, <4>3, Zenon
        <5>2. ~FirstOf(d, k) /\ \A i \in DOMAIN d : NextTo(d, i, k) => d[i].hash = x
          BY <3>1, <3>2, <4>1, <4>3, Zenon DEF Awaiting
        <5>3. ~FirstOf(r, k)
          BY <3>4, <4>1, <5>2, Zenon
        <5>4. \A i \in DOMAIN r : NextTo(r, i, k) => r[k].parent = r[i].hash
          BY <4>2, <5>1, <5>2, Zenon
        <5> QED
          BY <5>1, <5>3, <5>4, Zenon DEF LinkAt
      <4>4. CASE k # h
        <5>1. r[k] = d[k] /\ LinkAt(d, k)
          BY <2>2, <3>1, <3>2, <4>1, <4>4, Zenon DEF Awaiting
        <5>2. FirstOf(r, k) => r[k].parent \in {Absent, Null}
          BY <3>4, <4>1, <5>1, Zenon DEF LinkAt
        <5>3. \A i \in DOMAIN r : NextTo(r, i, k) => r[k].parent = r[i].hash
          BY <4>2, <5>1, Zenon DEF LinkAt
        <5>4. r[k].hash = Digest(r[k])
          BY <5>1, Zenon DEF LinkAt
        <5> QED
          BY <5>2, <5>3, <5>4, Zenon DEF LinkAt
      <4> QED
        BY <4>3, <4>4
    <3>6. Linked(r, s0)
      BY <3>5, Zenon DEF Linked
    <3> QED
      BY <3>1, <3>6, Zenon DEF WholeAt
  <2> QED
    BY <2>4, <2>5, Zenon
<1>6. QED
  BY <1>4, <1>5, Zenon

-----------------------------------------------------------------------------
(* Every block stays one that a producer, or the maintainer, has written.   *)

\* What is archived stays archived.
Retains(d, r) ==
  \A j \in DOMAIN d : d[j].superseded =>
    \E k \in DOMAIN r : r[k].superseded /\ r[k].section = d[j].section /\ r[k].variant = d[j].variant

SameMaker(b, c) ==
  b.section = c.section /\ b.variant = c.variant /\ b.source = c.source /\ b.revision = c.revision

LEMMA ProductionIsKept ==
  ASSUME NEW d, NEW r, Retains(d, r), NEW b, NEW c, IsProduced(d, c), SameMaker(b, c),
         b.hash = c.hash \/ b.section # Gaps
  PROVE  IsProduced(r, b)
<1>1. IsAllowed(b.source)
  BY Zenon DEF IsProduced, SameMaker
<1>2. b.section # Gaps \/ b.hash # Absent => MustSupersede(b.source)
  BY Zenon DEF IsProduced, SameMaker
<1>3. b.section \in MultiVariantSections => b.variant # NoVariant
  BY Zenon DEF IsProduced, SameMaker
<1>4. ASSUME MustBeArchived(b.source), b.revision > 1
      PROVE  \E k \in DOMAIN r : r[k].superseded /\ r[k].section = b.section /\ r[k].variant = b.variant
  <2>1. PICK j \in DOMAIN d : d[j].superseded /\ d[j].section = c.section /\ d[j].variant = c.variant
    BY <1>4, Zenon DEF IsProduced, SameMaker
  <2> QED
    BY <2>1, Zenon DEF Retains, SameMaker
<1>5. QED
  BY <1>1, <1>2, <1>3, <1>4, Zenon DEF IsProduced

LEMMA SupersedeProduces ==
  ASSUME NEW d \in Seq(Block), WellFormed(d), AllProduced(d),
         NEW op \in SectionOperation, Addressed(op), NEW source \in Sources,
         IsAllowed(source), op.section # Gaps => MustSupersede(source)
  PROVE  AllProduced(SupersedeSection(d, op, source))
<1> DEFINE h == Lookup(d, op.section, op.variant)
           p == InsertionPoint(d)
           b == NewBlock(d, h, op, source)
           r == SupersedeSection(d, op, source)
<1>1. IsGrown(d, r, p, h, b)
  BY SupersedeGrows, Zenon
<1>2. Successor(d, h, op, b)
  BY NewBlockFacts, Zenon
<1>3. b.source = source /\ (h = 0 => b.revision = 1)
  BY Zenon DEF NewBlock, Written, NextRevision
<1>4. h # 0 => /\ h \in DOMAIN d /\ InSlot(op, d[h])
               /\ d[h].variant = op.variant \/ (op.variant # NoVariant /\ d[h].variant = NoVariant)
  BY HeadOfSlot, Zenon
<1> HIDE DEF h, p, b, r
<1>5. Retains(d, r)
  <2> SUFFICES ASSUME NEW j \in DOMAIN d, d[j].superseded
               PROVE  \E k \in DOMAIN r : /\ r[k].superseded /\ r[k].section = d[j].section
                                          /\ r[k].variant = d[j].variant
    BY Zenon DEF Retains
  <2>1. PICK k \in DOMAIN r : SameButMark(r[k], d[j]) /\ (r[k].superseded <=> j = h \/ d[j].superseded)
    BY <1>1, Zenon DEF IsGrown
  <2> QED
    BY <2>1, Zenon DEF SameButMark
<1>6. IsProduced(r, b)
  <2>1. /\ b.section = op.section /\ b.variant = op.variant /\ b.hash = Absent
    BY <1>2, Zenon DEF Successor
  <2>2. b.section \in MultiVariantSections => b.variant # NoVariant
    BY <2>1, Zenon DEF Addressed
  <2>3. ASSUME MustBeArchived(b.source), b.revision > 1
        PROVE  \E k \in DOMAIN r : r[k].superseded /\ r[k].section = b.section /\ r[k].variant = b.variant
    <3>1. h # 0
      <4>1. ~(1 > 1)
        BY SMT
      <4> QED
        BY <1>3, <2>3, <4>1, Zenon
    <3>2. h \in DOMAIN d /\ d[h].section = op.section
      BY <1>4, <3>1, Zenon DEF InSlot
    <3>3. IsProduced(d, d[h])
      BY <3>2, Zenon DEF AllProduced, Addressed
    <3>4. d[h].variant = op.variant
      BY <1>4, <3>1, <3>2, <3>3, Zenon DEF IsProduced, Addressed
    <3>5. PICK k \in DOMAIN r : SameButMark(r[k], d[h]) /\ (r[k].superseded <=> h = h \/ d[h].superseded)
      BY <1>1, <3>2, Zenon DEF IsGrown
    <3>6. r[k].superseded /\ r[k].section = b.section /\ r[k].variant = b.variant
      BY <2>1, <3>2, <3>4, <3>5, Zenon DEF SameButMark
    <3> QED
      BY <3>6
  <2> QED
    BY <1>3, <2>1, <2>2, <2>3, Zenon DEF IsProduced
<1>7. ASSUME NEW k \in DOMAIN r, r[k].section \in Standard PROVE IsProduced(r, r[k])
  <2>1. CASE k = p
    BY <1>1, <1>6, <2>1, Zenon DEF IsGrown
  <2>2. CASE k # p
    <3>1. PICK j \in DOMAIN d : From(d, j, r, k) /\ SameButMark(r[k], d[j]) /\ (r[k].superseded <=> j = h \/ d[j].superseded)
      BY <1>1, <2>2, Zenon DEF IsGrown
    <3>2. SameMaker(r[k], d[j]) /\ r[k].hash = d[j].hash /\ d[j].section \in Standard
      BY <1>7, <3>1, Zenon DEF SameButMark, SameMaker
    <3>3. IsProduced(d, d[j])
      BY <3>2, Zenon DEF AllProduced
    <3> QED
      BY <1>5, <3>2, <3>3, ProductionIsKept, Zenon
  <2> QED
    BY <2>1, <2>2
<1>8. AllProduced(r)
  BY <1>7, Zenon DEF AllProduced
<1>9. QED
  BY <1>8, Zenon DEF r

\* The same where blocks are rewritten in place.
LEMMA RewritingProduces ==
  ASSUME NEW d, AllProduced(d), NEW r, DOMAIN r = DOMAIN d, Retains(d, r),
         \A i \in DOMAIN d : r[i].section \in Standard =>
           \/ IsProduced(r, r[i])
           \/ SameMaker(r[i], d[i]) /\ (r[i].hash = d[i].hash \/ r[i].section # Gaps)
  PROVE  AllProduced(r)
<1>1. ASSUME NEW i \in DOMAIN r, r[i].section \in Standard, ~IsProduced(r, r[i]) PROVE FALSE
  <2>1. SameMaker(r[i], d[i]) /\ (r[i].hash = d[i].hash \/ r[i].section # Gaps)
    BY <1>1, Zenon
  <2>2. IsProduced(d, d[i])
    BY <1>1, <2>1, Zenon DEF AllProduced, SameMaker
  <2> QED
    BY <1>1, <2>1, <2>2, ProductionIsKept, Zenon
<1>2. QED
  BY <1>1, Zenon DEF AllProduced

LEMMA MaintainProduces ==
  ASSUME NEW d \in Seq(Block), WellFormed(d), AllProduced(d), NEW st \in Stages,
         IsAllowed(Maintainer), ~MustBeArchived(Maintainer)
  PROVE  AllProduced(MaintainGaps(d, st))
<1> DEFINE op == GapsOperation(d, st)
           r  == MaintainGaps(d, st)
           g  == Lookup(d, op.section, op.variant)
           x  == ReplaceSection(d, op, Maintainer)
           y  == SupersedeSection(d, op, Maintainer)
<1>1. op \in SectionOperation /\ Addressed(op) /\ op.section = Gaps
  BY GapsOperationTyped, GapsOperationAddressed, Zenon
<1>2. \/ r = d
      \/ g # 0 /\ ~MustSupersede(d[g].source) /\ r = x
      \/ g = 0 /\ r = y
  BY MaintainIsAnEdit, Zenon
<1>3. g # 0 => g \in DOMAIN d /\ InSlot(op, d[g]) /\ ~d[g].superseded
  BY <1>1, HeadOfSlot, Zenon
<1>4. AllProduced(y)
  BY <1>1, MaintainerIsASource, SupersedeProduces, Zenon
<1>5. ASSUME g # 0 PROVE AllProduced(x)
  <2> DEFINE b == NewBlock(d, g, op, Maintainer)
  <2>1. /\ x \in Seq(Block) /\ Len(x) = Len(d)
        /\ \A i \in 1..Len(d) : x[i] = IF i = g THEN b ELSE d[i]
    BY <1>1, <1>5, MaintainerIsASource, ReplaceFacts, Zenon
  <2>2. Successor(d, g, op, b) /\ b.source = Maintainer
    BY <1>1, NewBlockFacts, Zenon DEF NewBlock, Written
  <2> HIDE DEF b, g, op, x, y, r
  <2>3. b.section = Gaps /\ b.hash = Absent
    BY <1>1, <2>2, Zenon DEF Successor
  <2>4. DOMAIN d = 1..Len(d) /\ DOMAIN x = DOMAIN d
    BY <2>1, DomainOfSeq, Zenon
  <2>5. Gaps \notin MultiVariantSections
    BY GapsIsSingle, KindsAreDisjoint, Zenon
  <2>6. IsProduced(x, b)
    BY <2>2, <2>3, <2>5, Zenon DEF IsProduced
  <2>7. Retains(d, x)
    BY <1>3, <1>5, <2>1, <2>4, Zenon DEF Retains
  <2>8. \A i \in DOMAIN d : IsProduced(x, x[i]) \/ (SameMaker(x[i], d[i]) /\ x[i].hash = d[i].hash)
    BY <2>1, <2>4, <2>6, Zenon DEF SameMaker
  <2> QED
    BY <2>4, <2>7, <2>8, RewritingProduces, Zenon
<1>6. AllProduced(r)
  <2> HIDE DEF g, op, x, y, r
  <2> QED
    BY <1>2, <1>4, <1>5, Zenon
<1>7. QED
  BY <1>6, Zenon

LEMMA ZeroIsNoIndex == ASSUME NEW n, NEW i \in 1..n PROVE i # 0
OBVIOUS

LEMMA StampProduces ==
  ASSUME NEW before \in Seq(Block), NEW after \in Seq(Block), WellFormed(after), AllProduced(after),
         NEW op \in SectionOperation, Addressed(op), op.section # Gaps, NEW kind
  PROVE  AllProduced(StampHead(before, after, op, kind))
<1> DEFINE h == Lookup(after, op.section, op.variant)
           r == StampHead(before, after, op, kind)
<1>1. /\ r \in Seq(Block) /\ Len(r) = Len(after)
      /\ \A i \in 1..Len(after) :
           /\ SameButStamp(r[i], after[i])
           /\ r[i].hash = after[i].hash \/ r[i].hash = Digest(r[i])
           /\ i # h => r[i] = after[i]
  BY StampFacts
<1>2. h # 0 => h \in DOMAIN after /\ InSlot(op, after[h])
  BY HeadOfSlot, Zenon
<1> HIDE DEF h, r
<1>3. DOMAIN after = 1..Len(after) /\ DOMAIN r = DOMAIN after /\ \A i \in DOMAIN after : i # 0
  <2>1. DOMAIN after = 1..Len(after) /\ DOMAIN r = DOMAIN after
    BY <1>1, DomainOfSeq, Zenon
  <2>2. \A i \in DOMAIN after : i # 0
    BY <2>1, ZeroIsNoIndex, Zenon
  <2> QED
    BY <2>1, <2>2
<1>4. Retains(after, r)
  BY <1>1, <1>3, Zenon DEF Retains, SameButStamp
<1>5. ASSUME NEW i \in DOMAIN after
      PROVE  SameMaker(r[i], after[i]) /\ (r[i].hash = after[i].hash \/ r[i].section # Gaps)
  <2>1. SameMaker(r[i], after[i])
    BY <1>1, <1>3, Zenon DEF SameMaker, SameButStamp
  <2>2. CASE i # h
    BY <1>1, <1>3, <2>1, <2>2, Zenon
  <2>3. CASE i = h
    <3>1. after[i].section # Gaps
      BY <1>2, <1>3, <2>3, Zenon DEF InSlot
    <3> QED
      BY <2>1, <3>1, Zenon DEF SameMaker
  <2> QED
    BY <2>2, <2>3
<1>6. AllProduced(r)
  BY <1>3, <1>4, <1>5, RewritingProduces, Zenon
<1>7. QED
  BY <1>6, Zenon DEF r

-----------------------------------------------------------------------------
(* The edits keep a record produced.                                       *)

ByProducers(options) == options.integrity /\ IsAllowed(Maintainer) /\ ~MustBeArchived(Maintainer)

\* A document whose section s waits for its stamp; with no such section, whole.
IsMidway(d, s, x) ==
  /\ d \in Seq(Block) /\ WellFormed(d) /\ AllProduced(d)
  /\ s \in Standard => WaitsAt(d, s, x)
  /\ \A t \in Standard : t # s => WholeAt(d, t)

LEMMA ProducedIsMidway ==
  ASSUME NEW d \in Seq(Block), NEW s, s \notin Standard, NEW x
  PROVE  IsMidway(d, s, x) <=> Produced(d)
BY WholeBySection, Zenon DEF IsMidway, Produced, AllProduced

LEMMA SupersedeIsMidway ==
  ASSUME NEW d \in Seq(Block), Produced(d), NEW op \in SectionOperation, Addressed(op), op.section # Gaps,
         NEW source \in Sources, IsAllowed(source), MustSupersede(source)
  PROVE  IsMidway(SupersedeSection(d, op, source), op.section, PriorHash(d, op))
<1> DEFINE w == SupersedeSection(d, op, source)
           x == PriorHash(d, op)
<1>1. WellFormed(d) /\ AllProduced(d) /\ \A s \in Standard : WholeAt(d, s)
  BY WholeBySection, Zenon DEF Produced, AllProduced
<1>2. w \in Seq(Block)
  BY SupersedeFacts, Zenon
<1>3. WellFormed(w) /\ AllProduced(w)
  BY <1>1, SupersedeKeepsOrder, SupersedeProduces, Zenon
<1>4. op.section \in Standard
  BY Zenon DEF Addressed
<1>5. WaitsAt(w, op.section, x)
  BY <1>1, <1>4, SupersedeChains, Zenon
<1>6. \A s : s # op.section => CarriesSection(d, w, s)
  BY <1>1, SupersedeChains, Zenon
<1> HIDE DEF w, x
<1>7. \A s \in Standard : s # op.section => WholeAt(w, s)
  BY <1>1, <1>6, WaitingIsKept, Zenon
<1>8. IsMidway(w, op.section, x)
  BY <1>2, <1>3, <1>5, <1>7, Zenon DEF IsMidway
<1>9. QED
  BY <1>8, Zenon DEF w, x

LEMMA MaintainIsMidway ==
  ASSUME NEW d, NEW s, s # Gaps, NEW x, IsMidway(d, s, x), NEW st \in Stages,
         NEW options, ByProducers(options)
  PROVE  IsMidway(MaintainGaps(d, st), s, x)
<1> DEFINE r == MaintainGaps(d, st)
<1>1. d \in Seq(Block) /\ WellFormed(d) /\ AllProduced(d)
  BY Zenon DEF IsMidway
<1>2. MaintainsChains(d, r)
  BY <1>1, MaintainChains, Zenon
<1>3. r \in Seq(Block) /\ WellFormed(r)
  BY <1>1, MaintainTyped, MaintainKeepsOrder, Zenon
<1>4. AllProduced(r)
  BY <1>1, MaintainProduces, Zenon DEF ByProducers
<1> HIDE DEF r
<1>5. WholeAt(r, Gaps)
  <2>1. Gaps \in Standard
    BY GapsIsSingle, Zenon DEF Standard
  <2> QED
    BY <1>2, <2>1, Zenon DEF MaintainsChains, IsMidway
<1>6. \A t : t # Gaps => CarriesSection(d, r, t)
  BY <1>2, Zenon DEF MaintainsChains
<1>7. s \in Standard => WaitsAt(r, s, x)
  BY <1>6, WaitingIsKept, Zenon DEF IsMidway
<1>8. ASSUME NEW t \in Standard, t # s PROVE WholeAt(r, t)
  <2>1. WholeAt(d, t)
    BY <1>8, Zenon DEF IsMidway
  <2>2. CASE t = Gaps
    BY <1>5, <2>2
  <2>3. CASE t # Gaps
    BY <1>6, <2>1, <2>3, WaitingIsKept, Zenon
  <2> QED
    BY <2>2, <2>3
<1>9. IsMidway(r, s, x)
  BY <1>3, <1>4, <1>7, <1>8, Zenon DEF IsMidway
<1>10. QED
  BY <1>9, Zenon DEF r

LEMMA StampCompletes ==
  ASSUME NEW d \in Seq(Block), NEW m, NEW op \in SectionOperation, Addressed(op), op.section # Gaps,
         IsMidway(m, op.section, PriorHash(d, op))
  PROVE  Produced(StampHead(d, m, op, "section_supersede"))
<1> DEFINE r == StampHead(d, m, op, "section_supersede")
           x == PriorHash(d, op)
           h == Lookup(m, op.section, op.variant)
<1>1. m \in Seq(Block) /\ WellFormed(m) /\ AllProduced(m)
  BY Zenon DEF IsMidway
<1>2. WellFormed(r)
  BY <1>1, StampKeepsOrder, Zenon
<1>3. AllProduced(r)
  BY <1>1, StampProduces, Zenon
<1>4. Restamped(r, m, h, x)
  BY <1>1, StampIsAStamp, Zenon
<1> HIDE DEF r, x
<1>5. /\ WaitsAt(m, op.section, x) => WholeAt(r, op.section)
      /\ \A s : s # op.section => CarriesSection(m, r, s)
  BY <1>1, <1>4, StampChains, Zenon
<1>6. /\ WaitsAt(m, op.section, x)
      /\ \A s \in Standard : s # op.section => WholeAt(m, s)
  BY Zenon DEF IsMidway, Addressed, x
<1>7. \A s \in Standard : WholeAt(r, s)
  BY <1>5, <1>6, WaitingIsKept, Zenon
<1>8. Produced(r)
  BY <1>2, <1>3, <1>7, WholeBySection, Zenon DEF Produced, AllProduced
<1>9. QED
  BY <1>8, Zenon DEF r

LEMMA SupersessionsProduce ==
  ASSUME NEW d \in Seq(Block), Produced(d), NEW op \in SectionOperation, Addressed(op), op.section # Gaps,
         NEW source \in Sources, IsAllowed(source), MustSupersede(source),
         NEW st, NEW options, ByProducers(options), ~MaintenanceThrows(op.section, st, options)
  PROVE  Produced(FinishSection(d, SupersedeSection(d, op, source), op, "section_supersede", st, options))
<1> DEFINE w == SupersedeSection(d, op, source)
           m == IF options.maintainGaps /\ op.section # Gaps THEN MaintainGaps(w, st) ELSE w
           x == PriorHash(d, op)
<1>1. IsMidway(w, op.section, x)
  BY SupersedeIsMidway, Zenon
<1> HIDE DEF w, x
<1>2. IsMidway(m, op.section, x)
  <2>1. options.maintainGaps => st \in Stages
    BY Zenon DEF MaintenanceThrows
  <2> QED
    BY <1>1, <2>1, MaintainIsMidway, Zenon
<1>3. FinishSection(d, w, op, "section_supersede", st, options) = StampHead(d, m, op, "section_supersede")
  BY Zenon DEF FinishSection, ByProducers
<1> HIDE DEF m
<1>4. Produced(StampHead(d, m, op, "section_supersede"))
  BY <1>2, StampCompletes, Zenon DEF x
<1>5. QED
  BY <1>3, <1>4, Zenon DEF w

LEMMA OthersProduce ==
  ASSUME NEW d \in Seq(Block), Produced(d), NEW st, NEW options, ByProducers(options),
         ~MaintenanceThrows(PipelineLog, st, options)
  PROVE  Produced(FinishOther(d, st, options))
<1>1. PipelineLog \notin Standard /\ PipelineLog # Gaps
  BY GapsIsSingle, KindsAreDisjoint, Zenon DEF Standard
<1>2. CASE ~options.maintainGaps
  BY <1>2, Zenon DEF FinishOther
<1>3. CASE options.maintainGaps
  <2>1. st \in Stages
    BY <1>1, <1>3, Zenon DEF MaintenanceThrows
  <2>2. IsMidway(d, PipelineLog, Absent)
    BY <1>1, ProducedIsMidway, Zenon
  <2>3. IsMidway(MaintainGaps(d, st), PipelineLog, Absent)
    BY <1>1, <2>1, <2>2, MaintainIsMidway, Zenon
  <2>4. MaintainGaps(d, st) \in Seq(Block)
    BY <2>3, Zenon DEF IsMidway
  <2>5. Produced(MaintainGaps(d, st))
    BY <1>1, <2>3, <2>4, ProducedIsMidway, Zenon
  <2> QED
    BY <1>3, <2>5, Zenon DEF FinishOther
<1>4. QED
  BY <1>2, <1>3

LEMMA EntriesProduce ==
  ASSUME NEW d \in Seq(Block), Produced(d), NEW entry \in Entries, LogBlocks(d) # {}
  PROVE  Produced(AppendLogEntry(d, entry))
<1> DEFINE r == AppendLogEntry(d, entry)
<1>1. WellFormed(d) /\ AllProduced(d) /\ \A s \in Standard : WholeAt(d, s)
  BY WholeBySection, Zenon DEF Produced, AllProduced
<1>2. /\ r \in Seq(Block) /\ Len(r) = Len(d)
      /\ \A i \in 1..Len(d) : SameButEntry(r[i], d[i]) /\ (d[i].section # PipelineLog => r[i] = d[i])
  BY AppendFacts
<1>3. WellFormed(r)
  BY <1>1, AppendKeepsOrder, Zenon
<1> HIDE DEF r
<1>4. PipelineLog \notin Standard
  BY KindsAreDisjoint, Zenon DEF Standard
<1>5. /\ DOMAIN r = DOMAIN d
      /\ \A i \in DOMAIN d : /\ r[i].section = d[i].section /\ r[i].variant = d[i].variant
                             /\ r[i].superseded = d[i].superseded
                             /\ d[i].section \in Standard => r[i] = d[i]
  <2>1. DOMAIN r = 1..Len(d) /\ DOMAIN d = 1..Len(d)
    BY <1>2, DomainOfSeq, Zenon
  <2> QED
    BY <1>2, <1>4, <2>1, Zenon DEF SameButEntry
<1>6. ASSUME NEW s \in Standard PROVE WholeAt(r, s)
  <2>1. CarriesSection(d, r, s)
    BY <1>5, RewritingCarries, Zenon
  <2> QED
    BY <1>1, <2>1, WaitingIsKept, Zenon
<1>7. Retains(d, r)
  BY <1>5, Zenon DEF Retains
<1>8. AllProduced(r)
  <2>1. \A i \in DOMAIN d : r[i].section \in Standard => SameMaker(r[i], d[i]) /\ r[i].hash = d[i].hash
    BY <1>5, Zenon DEF SameMaker
  <2> QED
    BY <1>1, <1>5, <1>7, <2>1, RewritingProduces, Zenon
<1>9. Produced(r)
  BY <1>3, <1>6, <1>8, WholeBySection, Zenon DEF Produced, AllProduced
<1>10. QED
  BY <1>9, Zenon DEF r
=============================================================================
