-------------------------- MODULE CompositeProofs --------------------------
(***************************************************************************)
(* The order of a resolved package is topological, its outdated links are    *)
(* reported and no package is refused without cause: for any ids, packages   *)
(* and limits, and whatever the sort is, as long as it lists each id once.   *)
(* A section split into fragments comes back with all its rows or not at all, *)
(* and a load of the lake leaves its rows, whatever was loaded before.        *)
(***************************************************************************)
EXTENDS Composite, SectionParts, Lake, SequenceTheorems, FiniteSetTheorems, WellFoundedInduction,
        TLAPS

\* A set of ids, as .sort() lists it.
LEMMA SortedFacts ==
  ASSUME NEW S \in SUBSET Ids
  PROVE  /\ Sorted[S] \in Seq(Ids)
         /\ \A x \in S : \E i \in 1..Len(Sorted[S]) : Sorted[S][i] = x
<1>1. Sorted[S] \in Seq(Ids) /\ DOMAIN Sorted[S] = 1..Len(Sorted[S])
  BY SortedLists, SMT
<1>2. {Sorted[S][i] : i \in DOMAIN Sorted[S]} = S
  BY SortedLists, Zenon
<1>3. QED
  BY <1>1, <1>2, SMT

LEMMA PrefixFacts ==
  ASSUME NEW S, NEW s \in Seq(S), NEW n \in 0..Len(s)
  PROVE  /\ SubSeq(s, 1, n) \in Seq(S) /\ Len(SubSeq(s, 1, n)) = n
         /\ \A i \in 1..n : SubSeq(s, 1, n)[i] = s[i]
BY SubSeqProperties, SMT

LEMMA ConcatFacts ==
  ASSUME NEW S, NEW s \in Seq(S), NEW t \in Seq(S)
  PROVE  /\ s \o t \in Seq(S) /\ Len(s \o t) = Len(s) + Len(t)
         /\ \A i \in 1..(Len(s) + Len(t)) :
              (s \o t)[i] = IF i <= Len(s) THEN s[i] ELSE t[i - Len(s)]
BY ConcatProperties, SMT

LEMMA ChildrenAreIds ==
  ASSUME pkg \in Package, NEW id \in Ids
  PROVE  Children(id) \in SUBSET Ids /\ Roots \in SUBSET Ids
BY SMT DEF Children, Contributors, Roots, Package, Link

\* The top frame, opened.
LikeTop(f) == f.id = Top.id /\ f.depth = Top.depth

\* What opening the top frame does to the stack.
LEMMA OpenedFacts ==
  ASSUME stack \in Seq(Frame), stack # <<>>
  PROVE  /\ Len(stack) \in Nat \ {0} /\ Top \in Frame /\ Top = stack[Len(stack)]
         /\ Below \in Seq(Frame) /\ Len(Below) = Len(stack) - 1
         /\ \A i \in 1..(Len(stack) - 1) : Below[i] = stack[i]
         /\ Opened \in Seq(Frame) /\ Len(Opened) = Len(stack)
         /\ \A i \in 1..(Len(stack) - 1) : Opened[i] = stack[i]
         /\ LikeTop(Opened[Len(stack)])
<1>1. Len(stack) \in Nat \ {0} /\ Top \in Frame /\ Top = stack[Len(stack)]
  BY SMT DEF Top
<1>2. /\ Below \in Seq(Frame) /\ Len(Below) = Len(stack) - 1
      /\ \A i \in 1..(Len(stack) - 1) : Below[i] = stack[i]
  <2>1. Len(stack) - 1 \in 0..Len(stack)
    BY <1>1, SMT
  <2> QED
    BY <2>1, PrefixFacts DEF Below
<1> DEFINE e == [id |-> Top.id, depth |-> Top.depth, expanded |-> TRUE]
<1>3. e \in Frame /\ LikeTop(e)
  BY <1>1, SMT DEF Frame, LikeTop
<1>4. Opened = Below \o <<e>>
  BY Zenon DEF Opened
<1> HIDE DEF e
<1>5. /\ Opened \in Seq(Frame) /\ Len(Opened) = Len(stack)
      /\ \A i \in 1..(Len(stack) - 1) : Opened[i] = Below[i]
      /\ Opened[Len(stack)] = e
  BY <1>1, <1>2, <1>3, <1>4, SMT
<1>6. QED
  BY <1>1, <1>2, <1>3, <1>5

\* A frame of a member that waits to be opened.
WaitsAt(f, id, d) == f.id = id /\ f.depth = d /\ f.expanded = FALSE

LEMMA FramesFacts ==
  ASSUME NEW ids \in Seq(Ids), NEW d \in Nat
  PROVE  /\ Frames(ids, d) \in Seq(Frame) /\ Len(Frames(ids, d)) = Len(ids)
         /\ \A i \in 1..Len(ids) : WaitsAt(Frames(ids, d)[i], ids[i], d)
<1>1. \A i \in 1..Len(ids) : [id |-> ids[i], depth |-> d, expanded |-> FALSE] \in Frame
  BY SMT DEF Frame
<1>2. Frames(ids, d) = [i \in 1..Len(ids) |-> [id |-> ids[i], depth |-> d, expanded |-> FALSE]]
  BY SMT DEF Frames
<1>3. QED
  BY <1>1, <1>2, SMT DEF WaitsAt

\* The stack of an opened frame with the frames of some children on it.
IsPushed(new, ids, d) ==
  /\ new \in Seq(Frame) /\ Len(new) = Len(stack) + Len(ids)
  /\ \A i \in 1..(Len(stack) - 1) : new[i] = stack[i]
  /\ LikeTop(new[Len(stack)])
  /\ \A i \in 1..Len(ids) : WaitsAt(new[Len(stack) + i], ids[i], d)

LEMMA PushedFacts ==
  ASSUME stack \in Seq(Frame), stack # <<>>, NEW ids \in Seq(Ids), NEW d \in Nat
  PROVE  IsPushed(Opened \o Frames(ids, d), ids, d)
<1> DEFINE new == Opened \o Frames(ids, d)
<1>1. /\ Opened \in Seq(Frame) /\ Len(Opened) = Len(stack) /\ Len(stack) \in Nat \ {0}
      /\ \A i \in 1..(Len(stack) - 1) : Opened[i] = stack[i]
      /\ LikeTop(Opened[Len(stack)])
  BY OpenedFacts
<1> DEFINE f == Frames(ids, d)
<1>2. /\ f \in Seq(Frame) /\ Len(f) = Len(ids)
      /\ \A i \in 1..Len(ids) : WaitsAt(f[i], ids[i], d)
  BY FramesFacts, Zenon
<1>2a. Len(ids) \in Nat /\ new = Opened \o f
  BY SMT
<1> HIDE DEF f
<1>3. /\ new \in Seq(Frame) /\ Len(new) = Len(stack) + Len(ids)
      /\ \A i \in 1..Len(new) : new[i] = IF i <= Len(stack) THEN Opened[i] ELSE f[i - Len(stack)]
  <2>1. /\ Opened \o f \in Seq(Frame) /\ Len(Opened \o f) = Len(Opened) + Len(f)
        /\ \A i \in 1..(Len(Opened) + Len(f)) :
             (Opened \o f)[i] = IF i <= Len(Opened) THEN Opened[i] ELSE f[i - Len(Opened)]
    <3>1. Opened \in Seq(Frame) /\ f \in Seq(Frame)
      BY <1>1, <1>2
    <3> QED
      BY <3>1, ConcatFacts, Zenon
  <2> QED
    BY <2>1, <1>1, <1>2, <1>2a
<1>4. \A i \in 1..Len(ids) : new[Len(stack) + i] = f[i]
  <2> TAKE i \in 1..Len(ids)
  <2>1. /\ Len(stack) + i \in 1..Len(new) /\ ~ (Len(stack) + i <= Len(stack))
        /\ (Len(stack) + i) - Len(stack) = i
    BY <1>1, <1>2, <1>2a, <1>3, SMT
  <2> HIDE DEF new
  <2>2. new[Len(stack) + i] = f[(Len(stack) + i) - Len(stack)]
    BY <2>1, <1>3, Zenon
  <2> QED
    BY <2>1, <2>2
<1>5. QED
  <2> HIDE DEF new
  <2>0. /\ \A i \in 1..(Len(stack) - 1) : i \in 1..Len(new) /\ i <= Len(stack)
        /\ Len(stack) \in 1..Len(new) /\ Len(stack) <= Len(stack)
    BY <1>1, <1>2a, <1>3, SMT
  <2>1. \A i \in 1..(Len(stack) - 1) : new[i] = stack[i]
    BY <2>0, <1>1, <1>3, Zenon
  <2>2. LikeTop(new[Len(stack)])
    BY <2>0, <1>1, <1>3, Zenon
  <2>3. IsPushed(new, ids, d)
    BY <1>2, <1>3, <1>4, <2>1, <2>2, Zenon DEF IsPushed
  <2> QED
    BY <2>3 DEF new

LEMMA TopIsOpened ==
  ASSUME stack \in Seq(Frame), stack # <<>>, NEW ids \in Seq(Ids), NEW d \in Nat
  PROVE  (Opened \o Frames(ids, d))[Len(stack)].expanded
<1> DEFINE e == [id |-> Top.id, depth |-> Top.depth, expanded |-> TRUE]
           f == Frames(ids, d)
<1>1. Len(stack) \in Nat \ {0} /\ Below \in Seq(Frame) /\ Len(Below) = Len(stack) - 1
      /\ Opened \in Seq(Frame) /\ Len(Opened) = Len(stack) /\ Top \in Frame
  BY OpenedFacts, Zenon
<1>2. e \in Frame /\ e.expanded /\ Opened = Below \o <<e>>
  <2>1. e \in Frame /\ e.expanded
    BY <1>1, SMT DEF Frame
  <2> QED
    BY <2>1, Zenon DEF Opened
<1>3. f \in Seq(Frame)
  BY FramesFacts, Zenon
<1> HIDE DEF e, f
<1>4. Opened[Len(stack)] = e
  BY <1>1, <1>2, SMT
<1>5. (Opened \o f)[Len(stack)] = Opened[Len(stack)]
  BY <1>1, <1>3, SMT
<1>6. QED
  BY <1>2, <1>4, <1>5 DEF f

-----------------------------------------------------------------------------
(* Type correctness.                                                       *)

LEMMA OutdatedIsTyped ==
  ASSUME pkg \in Package, NEW id \in Ids
  PROVE  Outdated(id) \in Seq(Link)
<1> DEFINE S == {c \in LookedAt(id) : [from |-> c, to |-> id] \in pkg.outdated}
<1>1. Children(id) \in SUBSET Ids
  BY ChildrenAreIds
<1>2. Sorted[Children(id)] \in Seq(Ids)
  BY <1>1, SortedFacts
<1>3. LookedAt(id) \in SUBSET Ids
  BY <1>2, SMT DEF LookedAt
<1>4. Sorted[S] \in Seq(Ids)
  <2>1. S \in SUBSET Ids
    BY <1>3
  <2> QED
    BY <2>1, SortedFacts
<1> DEFINE old == Sorted[S]
<1>5. Outdated(id) = [i \in DOMAIN old |-> [from |-> old[i], to |-> id]]
  BY Zenon DEF Outdated
<1> HIDE DEF old, S
<1>6. old \in Seq(Ids)
  BY <1>4 DEF old
<1>7. DOMAIN old = 1..Len(old) /\ Len(old) \in Nat
  BY <1>6, SMT
<1>8. \A i \in 1..Len(old) : [from |-> old[i], to |-> id] \in Link
  BY <1>6, SMT DEF Link
<1>9. QED
  BY <1>5, <1>7, <1>8, SMT

\* Theorem: the walk keeps its types, whatever the graph.
THEOREM WalkIsTyped == CompositeSpec => []CompositeTypeOK
<1>1. CompositeInit => CompositeTypeOK
  BY PackagesAreTyped, SMT DEF CompositeInit, CompositeTypeOK, CompositeCodes
<1>2. CompositeTypeOK /\ [CompositeNext]_compositeVars => CompositeTypeOK'
  <2> SUFFICES ASSUME CompositeTypeOK, [CompositeNext]_compositeVars
               PROVE  CompositeTypeOK'
    OBVIOUS
  <2> USE DEF CompositeTypeOK
  <2>1. CASE CheckPackage
    <3>1. pkg' = pkg /\ (roots' = roots \/ roots' = Sorted[Roots])
      BY <2>1, SMT DEF CheckPackage
    <3>2. Roots \in SUBSET Ids
      BY SMT DEF Roots, Package
    <3>3. roots' \in Seq(Ids)
      BY <3>1, <3>2, SortedFacts
    <3> QED
      BY <2>1, <3>1, <3>3, SMT DEF CheckPackage, Refuse, Answers, CompositeCodes
  <2>2. CASE StartWalk
    <3>1. Head(roots) \in Ids /\ Tail(roots) \in Seq(Ids)
      BY <2>2, HeadTailProperties DEF StartWalk
    <3>2. << [id |-> Head(roots), depth |-> 1, expanded |-> FALSE] >> \in Seq(Frame)
      BY <3>1, SMT DEF Frame
    <3> QED
      BY <2>2, <3>1, <3>2, SMT DEF StartWalk
  <2>3. CASE CloseFrame
    <3>1. Below \in Seq(Frame) /\ Top.id \in Ids
      BY <2>3, OpenedFacts, SMT DEF CloseFrame, Frame
    <3>2. order' \in Seq(Ids)
      BY <2>3, <3>1, AppendProperties, SMT DEF CloseFrame
    <3> QED
      BY <2>3, <3>1, <3>2, SMT DEF CloseFrame
  <2>4. CASE RefuseDepth
    <3>1. Opened \in Seq(Frame) /\ Top.depth \in Nat
      BY <2>4, OpenedFacts, SMT DEF RefuseDepth, Frame
    <3> QED
      BY <2>4, <3>1, SMT DEF RefuseDepth, Refuse, Answers, CompositeCodes
  <2>5. CASE RefuseCycle
    <3>1. Opened \in Seq(Frame) /\ Top.depth \in Nat /\ Top.id \in Ids
      BY <2>5, OpenedFacts, SMT DEF RefuseCycle, Frame
    <3>2. stale \o Outdated(Top.id) \in Seq(Link)
      BY <3>1, OutdatedIsTyped, ConcatProperties
    <3> QED
      BY <2>5, <3>1, <3>2, SMT DEF RefuseCycle, Refuse, Answers, CompositeCodes
  <2>6. CASE Expand
    <3>1. Top.depth \in Nat /\ Top.id \in Ids /\ stack # <<>>
      BY <2>6, OpenedFacts, SMT DEF Expand, Frame
    <3>2. stale \o Outdated(Top.id) \in Seq(Link)
      BY <3>1, OutdatedIsTyped, ConcatProperties
    <3>3. Children(Top.id) \ finished \in SUBSET Ids
      BY <3>1, ChildrenAreIds
    <3>4. stack' \in Seq(Frame)
      <4>1. Sorted[Children(Top.id) \ finished] \in Seq(Ids) /\ Top.depth + 1 \in Nat
        BY <3>1, <3>3, SortedFacts, SMT
      <4>2. stack' = Opened \o Frames(Sorted[Children(Top.id) \ finished], Top.depth + 1)
        BY <2>6 DEF Expand
      <4> QED
        BY <3>1, <4>1, <4>2, PushedFacts, Zenon DEF IsPushed
    <3> QED
      BY <2>6, <3>1, <3>2, <3>4, SMT DEF Expand
  <2>7. CASE EndWalks
    <3>1. CASE finished # pkg.members
      BY <2>7, <3>1, SMT DEF EndWalks, Refuse, Answers, CompositeCodes
    <3>2. CASE finished = pkg.members
      BY <2>7, <3>2, SMT DEF EndWalks, Answers, CompositeCodes
    <3> QED
      BY <3>1, <3>2
  <2>8. CASE UNCHANGED compositeVars
    BY <2>8, SMT DEF compositeVars
  <2>9. QED
    BY <2>1, <2>2, <2>3, <2>4, <2>5, <2>6, <2>7, <2>8 DEF CompositeNext
<1>3. QED
  BY <1>1, <1>2, PTL DEF CompositeSpec

-----------------------------------------------------------------------------
(* The order.                                                              *)

Before(o, j) == {o[i] : i \in 1..(j - 1)}

\* Every finished member is listed once, after its contributors.
Listed(o, done, p) ==
  /\ done = {o[i] : i \in 1..Len(o)}
  /\ \A j \in 1..Len(o) : Contributors(p, o[j]) \subseteq Before(o, j) /\ o[j] \notin Before(o, j)

\* Why a frame that is on top again may be closed: whatever an opened frame
\* still waits for lies above it.
WaitingIsAbove(s, done, p) ==
  \A i \in 1..Len(s) : s[i].expanded =>
    \A c \in Contributors(p, s[i].id) \ done : \E j \in (i + 1)..Len(s) : s[j].id = c

WalkInv ==
  /\ verdict # "unresolved" => Listed(order, finished, pkg)
  /\ verdict \in {"given", "walking"} => WaitingIsAbove(stack, finished, pkg)
  /\ Resolved => finished = pkg.members

\* Listing one more member whose contributors are all listed.
LEMMA ListingOneMore ==
  ASSUME NEW S, NEW o \in Seq(S), NEW done, NEW p, NEW x \in S, Listed(o, done, p),
         x \notin done, Contributors(p, x) \subseteq done
  PROVE  Listed(Append(o, x), done \cup {x}, p)
<1> DEFINE q == Append(o, x)
<1>1. /\ Len(q) = Len(o) + 1 /\ Len(o) \in Nat
      /\ \A i \in 1..Len(o) : q[i] = o[i]
      /\ q[Len(o) + 1] = x
  BY AppendProperties, SMT
<1> HIDE DEF q
<1>2. ASSUME NEW j \in 1..(Len(o) + 1) PROVE Before(q, j) = Before(o, j)
  <2>1. \A i \in 1..(j - 1) : i \in 1..Len(o)
    BY <1>1, SMT
  <2> QED
    BY <2>1, <1>1, Zenon DEF Before
<1>3. done = Before(o, Len(o) + 1) /\ done = {o[i] : i \in 1..Len(o)}
  BY <1>1, SMT DEF Listed, Before
<1>4. done \cup {x} = {q[i] : i \in 1..Len(q)}
  BY <1>1, <1>3, SMT
<1>5. ASSUME NEW j \in 1..Len(q)
      PROVE  Contributors(p, q[j]) \subseteq Before(q, j) /\ q[j] \notin Before(q, j)
  <2>1. CASE j \in 1..Len(o)
    BY <2>1, <1>1, <1>2, SMT DEF Listed
  <2>2. CASE j = Len(o) + 1
    <3>1. Before(q, j) = done /\ q[j] = x
      BY <2>2, <1>1, <1>2, <1>3, SMT
    <3> QED
      BY <3>1
  <2> QED
    BY <2>1, <2>2, <1>1, SMT
<1>6. QED
  BY <1>4, <1>5, Zenon DEF Listed, q

LEMMA ClosingKeepsInv ==
  ASSUME CompositeTypeOK, WalkInv, CloseFrame
  PROVE  WalkInv'
<1> USE DEF CompositeTypeOK
<1>1. /\ verdict = "walking" /\ verdict' = "walking" /\ pkg' = pkg /\ stack # <<>>
      /\ stack' = Below /\ Top.expanded /\ finished' = finished \cup {Top.id}
      /\ order' = IF Top.id \in finished THEN order ELSE Append(order, Top.id)
  BY SMT DEF CloseFrame
<1>2. Listed(order, finished, pkg) /\ WaitingIsAbove(stack, finished, pkg)
  BY <1>1 DEF WalkInv
<1>3. /\ Len(stack) \in Nat \ {0} /\ Top = stack[Len(stack)]
      /\ Len(Below) = Len(stack) - 1 /\ Top.id \in Ids
      /\ \A i \in 1..(Len(stack) - 1) : Below[i] = stack[i]
  BY <1>1, OpenedFacts, SMT DEF Frame
<1>4. Contributors(pkg, Top.id) \subseteq finished
  <2>1. Len(stack) \in 1..Len(stack) /\ \A j : j \notin (Len(stack) + 1)..Len(stack)
    BY <1>3, SMT
  <2> QED
    BY <1>1, <1>2, <1>3, <2>1 DEF WaitingIsAbove
<1>5. Listed(order', finished', pkg')
  <2>1. CASE Top.id \in finished
    <3>1. finished' = finished /\ order' = order
      BY <2>1, <1>1
    <3> QED
      BY <3>1, <1>1, <1>2
  <2>2. CASE Top.id \notin finished
    <3>1. Listed(Append(order, Top.id), finished \cup {Top.id}, pkg)
      BY <2>2, <1>2, <1>3, <1>4, ListingOneMore
    <3> QED
      BY <3>1, <2>2, <1>1
  <2> QED
    BY <2>1, <2>2
<1>6. WaitingIsAbove(Below, finished \cup {Top.id}, pkg)
  <2> SUFFICES ASSUME NEW i \in 1..Len(Below), Below[i].expanded,
                      NEW c \in Contributors(pkg, Below[i].id) \ (finished \cup {Top.id})
               PROVE  \E j \in (i + 1)..Len(Below) : Below[j].id = c
    BY DEF WaitingIsAbove
  <2>1. /\ i \in 1..Len(stack) /\ Below[i] = stack[i]
    BY <1>3, SMT
  <2>2. c \in Contributors(pkg, stack[i].id) \ finished /\ c # Top.id
    BY <2>1
  <2>3. PICK j \in (i + 1)..Len(stack) : stack[j].id = c
    BY <2>1, <2>2, <1>2 DEF WaitingIsAbove
  <2>4. j # Len(stack)
    BY <2>2, <2>3, <1>3
  <2>5. j \in (i + 1)..Len(Below) /\ Below[j] = stack[j]
    BY <2>1, <2>3, <2>4, <1>3, SMT
  <2> QED
    BY <2>3, <2>5
<1>7. QED
  BY <1>1, <1>5, <1>6 DEF WalkInv, Resolved

LEMMA ExpandingKeepsInv ==
  ASSUME CompositeTypeOK, WalkInv, Expand
  PROVE  WalkInv'
<1> USE DEF CompositeTypeOK
<1> DEFINE ids == Sorted[Children(Top.id) \ finished]
           new == Opened \o Frames(ids, Top.depth + 1)
<1>1. /\ verdict = "walking" /\ verdict' = "walking" /\ pkg' = pkg /\ stack # <<>>
      /\ stack' = new /\ finished' = finished /\ order' = order
  BY SMT DEF Expand
<1>2. Listed(order, finished, pkg) /\ WaitingIsAbove(stack, finished, pkg)
  BY <1>1 DEF WalkInv
<1>3. /\ Len(stack) \in Nat \ {0} /\ Top = stack[Len(stack)]
      /\ Top.id \in Ids /\ Top.depth + 1 \in Nat
  <2>1. Top \in Frame /\ Len(stack) \in Nat \ {0} /\ Top = stack[Len(stack)]
    BY <1>1, OpenedFacts, Zenon
  <2>2. \A f \in Frame : f.id \in Ids /\ f.depth + 1 \in Nat
    BY SMT DEF Frame
  <2> QED
    BY <2>1, <2>2, Zenon
<1>4. /\ ids \in Seq(Ids)
      /\ \A x \in Contributors(pkg, Top.id) \ finished : \E i \in 1..Len(ids) : ids[i] = x
  <2>1. Children(Top.id) \ finished \in SUBSET Ids
    BY <1>3, ChildrenAreIds
  <2> QED
    BY <2>1, SortedFacts DEF Children
<1> HIDE DEF ids
<1>5. /\ Len(new) = Len(stack) + Len(ids)
      /\ \A i \in 1..(Len(stack) - 1) : new[i] = stack[i]
      /\ new[Len(stack)].id = Top.id
      /\ \A i \in 1..Len(ids) : /\ new[Len(stack) + i].id = ids[i]
                                /\ new[Len(stack) + i].expanded = FALSE
  <2>1. IsPushed(Opened \o Frames(ids, Top.depth + 1), ids, Top.depth + 1)
    BY <1>1, <1>3, <1>4, PushedFacts, Zenon
  <2> HIDE DEF new
  <2>2. IsPushed(new, ids, Top.depth + 1)
    BY <2>1 DEF new
  <2> QED
    BY <2>2, Zenon DEF IsPushed, LikeTop, WaitsAt
<1>6. Len(ids) \in Nat
  BY <1>4, SMT
<1> HIDE DEF new
<1>7. WaitingIsAbove(new, finished, pkg)
  <2> SUFFICES ASSUME NEW i \in 1..Len(new), new[i].expanded,
                      NEW c \in Contributors(pkg, new[i].id) \ finished
               PROVE  \E j \in (i + 1)..Len(new) : new[j].id = c
    BY DEF WaitingIsAbove
  <2>1. CASE i \in 1..(Len(stack) - 1)
    <3>1. new[i] = stack[i] /\ i \in 1..Len(stack)
      BY <2>1, <1>3, <1>5, SMT
    <3>2. PICK j \in (i + 1)..Len(stack) : stack[j].id = c
      BY <3>1, <1>2 DEF WaitingIsAbove
    <3>3. j \in 1..(Len(stack) - 1) \/ j = Len(stack)
      BY <2>1, <3>2, <1>3, SMT
    <3>4. new[j].id = c
      BY <3>2, <3>3, <1>3, <1>5
    <3>5. j \in (i + 1)..Len(new)
      BY <2>1, <1>3, <1>5, <1>6, SMT
    <3> QED
      BY <3>4, <3>5
  <2>2. CASE i = Len(stack)
    <3>1. c \in Contributors(pkg, Top.id) \ finished
      BY <2>2, <1>5
    <3>2. PICK k \in 1..Len(ids) : ids[k] = c
      BY <3>1, <1>4
    <3>3. Len(stack) + k \in (i + 1)..Len(new)
      BY <2>2, <1>3, <1>5, <1>6, SMT
    <3> QED
      BY <3>2, <3>3, <1>5
  <2>3. CASE i > Len(stack)
    <3>1. i - Len(stack) \in 1..Len(ids) /\ Len(stack) + (i - Len(stack)) = i
      BY <2>3, <1>3, <1>5, <1>6, SMT
    <3>2. new[i].expanded = FALSE
      BY <3>1, <1>5
    <3> QED
      BY <3>2
  <2> QED
    BY <2>1, <2>2, <2>3, <1>3, SMT
<1>8. QED
  BY <1>1, <1>2, <1>7 DEF WalkInv, Resolved

LEMMA InvGivesOrder ==
  ASSUME CompositeTypeOK, WalkInv
  PROVE  OrderIsTopological
<1> SUFFICES ASSUME Resolved PROVE
      /\ {order[i] : i \in DOMAIN order} = pkg.members
      /\ \A i, j \in DOMAIN order :
           /\ order[i] = order[j] => i = j
           /\ order[i] \in Children(order[j]) => i < j
  BY DEF OrderIsTopological
<1>1. Listed(order, finished, pkg) /\ finished = pkg.members
  BY SMT DEF WalkInv, Resolved
<1>2. order \in Seq(Ids) /\ DOMAIN order = 1..Len(order) /\ Len(order) \in Nat
  BY SMT DEF CompositeTypeOK
<1>3. {order[i] : i \in DOMAIN order} = pkg.members
  BY <1>1, <1>2, SMT DEF Listed
<1>4. ASSUME NEW i \in 1..Len(order), NEW j \in 1..Len(order), order[i] = order[j]
      PROVE  i = j
  <2>1. ~ (i < j)
    BY <1>1, <1>2, <1>4, SMT DEF Listed, Before
  <2>2. ~ (j < i)
    BY <1>1, <1>2, <1>4, SMT DEF Listed, Before
  <2> QED
    BY <2>1, <2>2, <1>2, SMT
<1>5. ASSUME NEW i \in 1..Len(order), NEW j \in 1..Len(order),
             order[i] \in Children(order[j])
      PROVE  i < j
  <2>1. PICK k \in 1..(j - 1) : order[k] = order[i]
    BY <1>1, <1>5 DEF Listed, Before, Children
  <2>2. k \in 1..Len(order) /\ k < j
    BY <2>1, <1>2, SMT
  <2>3. k = i
    BY <2>1, <2>2, <1>4
  <2> QED
    BY <2>2, <2>3
<1>6. QED
  BY <1>2, <1>3, <1>4, <1>5

\* The walk keeps the invariant that it may close a frame that is on top again.
THEOREM WalkHolds == CompositeSpec => []WalkInv
<1>1. CompositeInit => WalkInv
  <2> SUFFICES ASSUME CompositeInit PROVE WalkInv
    OBVIOUS
  <2>1. verdict = "given" /\ order = <<>> /\ stack = <<>> /\ finished = {}
    BY DEF CompositeInit
  <2>2. \A j : j \notin 1..Len(<<>>)
    BY SMT
  <2>3. Listed(<<>>, {}, pkg)
    BY <2>2, Zenon DEF Listed
  <2>4. WaitingIsAbove(<<>>, {}, pkg)
    BY <2>2, Zenon DEF WaitingIsAbove
  <2> QED
    BY <2>1, <2>3, <2>4 DEF WalkInv, Resolved
<1>2. CompositeTypeOK /\ WalkInv /\ [CompositeNext]_compositeVars => WalkInv'
  <2> SUFFICES ASSUME CompositeTypeOK, WalkInv, [CompositeNext]_compositeVars
               PROVE  WalkInv'
    OBVIOUS
  <2>1. CASE CheckPackage
    <3>1. /\ verdict = "given" /\ verdict' \in {"walking", "unresolved"}
          /\ UNCHANGED <<pkg, stack, finished, order>>
      BY <2>1, SMT DEF CheckPackage, Refuse
    <3> QED
      BY <3>1 DEF WalkInv, Resolved
  <2>2. CASE StartWalk
    <3>1. /\ verdict = "walking" /\ verdict' = "walking" /\ UNCHANGED <<pkg, finished, order>>
          /\ Len(stack') = 1 /\ stack'[1].expanded = FALSE
      BY <2>2, SMT DEF StartWalk
    <3>2. WaitingIsAbove(stack', finished', pkg')
      BY <3>1, SMT DEF WaitingIsAbove
    <3> QED
      BY <3>1, <3>2 DEF WalkInv, Resolved
  <2>3. CASE CloseFrame
    BY <2>3, ClosingKeepsInv
  <2>4. CASE RefuseDepth
    BY <2>4, SMT DEF RefuseDepth, Refuse, WalkInv, Resolved
  <2>5. CASE RefuseCycle
    BY <2>5, SMT DEF RefuseCycle, Refuse, WalkInv, Resolved
  <2>6. CASE Expand
    BY <2>6, ExpandingKeepsInv
  <2>7. CASE EndWalks
    <3>1. CASE finished # pkg.members
      BY <3>1, <2>7, SMT DEF EndWalks, Refuse, WalkInv, Resolved
    <3>2. CASE finished = pkg.members
      <4>1. /\ verdict = "walking" /\ verdict' \in {"resolved", "stale"}
            /\ UNCHANGED <<pkg, finished, order>>
        BY <3>2, <2>7, SMT DEF EndWalks
      <4> QED
        BY <4>1, <3>2 DEF WalkInv, Resolved
    <3> QED
      BY <3>1, <3>2
  <2>8. CASE UNCHANGED compositeVars
    <3>1. UNCHANGED <<verdict, pkg, stack, finished, order>>
      BY <2>8 DEF compositeVars
    <3> QED
      BY <3>1 DEF WalkInv, Resolved
  <2>9. QED
    BY <2>1, <2>2, <2>3, <2>4, <2>5, <2>6, <2>7, <2>8 DEF CompositeNext
<1>3. QED
  BY <1>1, <1>2, WalkIsTyped, PTL DEF CompositeSpec

\* A package that resolves has all its members in its order, each once and
\* after its contributors; in particular it has no cycle.
THEOREM OrderStaysTopological == CompositeSpec => []OrderIsTopological
BY InvGivesOrder, WalkHolds, WalkIsTyped, PTL

-----------------------------------------------------------------------------
(* The outdated links.                                                     *)

Items(s) == {s[i] : i \in 1..Len(s)}

OldLinks == pkg.outdated \cap pkg.links

\* The outdated links met so far are those into a member that was opened, and
\* an opened member stays on the path until it is finished.
StaleInv ==
  /\ verdict \in {"walking", "resolved", "stale"} => Dangling = {}
  /\ verdict # "unresolved" =>
       /\ Items(stale) = {l \in OldLinks : l.to \in onPath \cup finished}
       /\ \A i \in 1..Len(stack) : stack[i].expanded => stack[i].id \in onPath \cup finished
  /\ Resolved => (verdict = "stale" <=> stale # <<>>)

\* A member none of whose children closes a cycle has all its links looked at.
LEMMA AllOutdated ==
  ASSUME pkg \in Package, NEW id \in Ids, Closing(id) = {}
  PROVE  /\ Outdated(id) \in Seq(Link)
         /\ Items(Outdated(id)) = {l \in OldLinks : l.to = id}
<1> DEFINE S == {c \in LookedAt(id) : [from |-> c, to |-> id] \in pkg.outdated}
           old == Sorted[S]
<1>1. Children(id) \in SUBSET Ids
  BY ChildrenAreIds
<1>2. LookedAt(id) = Children(id)
  <2>1. id \notin onPath /\ \A c : c \notin Closing(id)
    BY Zenon DEF Closing
  <2>2. {Sorted[Children(id)][i] : i \in DOMAIN Sorted[Children(id)]} = Children(id)
    BY <1>1, SortedLists, Zenon
  <2> QED
    BY <2>1, <2>2, Zenon DEF LookedAt
<1>3. S \in SUBSET Ids
  BY <1>1, <1>2, Zenon
<1>4. old \in Seq(Ids) /\ {old[i] : i \in DOMAIN old} = S
  BY <1>3, SortedFacts, SortedLists, Zenon
<1>5. Outdated(id) = [i \in DOMAIN old |-> [from |-> old[i], to |-> id]]
  BY Zenon DEF Outdated
<1>6. Outdated(id) \in Seq(Link)
  BY OutdatedIsTyped
<1>7. \A l \in Link : l \in OldLinks /\ l.to = id <=> l.from \in S /\ l.to = id
  <2> SUFFICES ASSUME NEW l \in Link, l.to = id
               PROVE  l \in OldLinks <=> l.from \in S
    OBVIOUS
  <2>1. l = [from |-> l.from, to |-> id]
    BY SMT DEF Link
  <2>2. l.from \in Children(id) <=> \E k \in pkg.links : k.to = id /\ k.from = l.from
    BY Zenon DEF Children, Contributors
  <2>3. \A k \in pkg.links : k.to = id /\ k.from = l.from => k = l
    BY <2>1, SMT DEF Package, Link
  <2>4. l.from \in Children(id) <=> l \in pkg.links
    BY <2>2, <2>3, Zenon
  <2> QED
    BY <1>2, <2>1, <2>4, Zenon DEF OldLinks
<1> HIDE DEF old, S
<1>8. DOMAIN old = 1..Len(old) /\ Len(old) \in Nat
  BY <1>4, SMT
<1>9. Len(Outdated(id)) = Len(old)
      /\ \A i \in 1..Len(old) : Outdated(id)[i] = [from |-> old[i], to |-> id]
  <2>1. DOMAIN Outdated(id) = 1..Len(old)
    BY <1>5, <1>8, Zenon
  <2> QED
    BY <1>5, <1>6, <1>8, <2>1, SMT
<1>10. {Outdated(id)[i] : i \in 1..Len(old)} = {[from |-> c, to |-> id] : c \in S}
  BY <1>4, <1>8, <1>9, Zenon
<1>11. {[from |-> c, to |-> id] : c \in S} = {l \in OldLinks : l.to = id}
  <2>1. \A c \in S : [from |-> c, to |-> id] \in Link
    BY <1>3, SMT DEF Link
  <2>2. \A l \in Link : l = [from |-> l.from, to |-> l.to]
    BY SMT DEF Link
  <2>3. OldLinks \subseteq Link
    BY SMT DEF OldLinks, Package
  <2> QED
    BY <1>7, <2>1, <2>2, <2>3, Zenon
<1>12. Items(Outdated(id)) = {Outdated(id)[i] : i \in 1..Len(old)}
  BY <1>9, Zenon DEF Items
<1>13. QED
  BY <1>6, <1>10, <1>11, <1>12, Zenon

\* The members of a list with another behind it.
LEMMA MembersOfConcat ==
  ASSUME NEW s \in Seq(Link), NEW t \in Seq(Link)
  PROVE  Items(s \o t) = Items(s) \cup Items(t)
<1> DEFINE c == s \o t
<1>0. c = s \o t
  OBVIOUS
<1> HIDE DEF c
<1>1. Len(s) \in Nat /\ Len(t) \in Nat
  BY SMT
<1>2. /\ Len(s \o t) = Len(s) + Len(t)
      /\ \A i \in 1..(Len(s) + Len(t)) :
           (s \o t)[i] = IF i <= Len(s) THEN s[i] ELSE t[i - Len(s)]
  BY ConcatFacts, Zenon
<1>3. \A i \in 1..Len(s) : i \in 1..Len(c) /\ c[i] = s[i]
  BY <1>0, <1>1, <1>2, SMT
<1>4. \A i \in 1..Len(t) : Len(s) + i \in 1..Len(c) /\ c[Len(s) + i] = t[i]
  BY <1>0, <1>1, <1>2, SMT
<1>5. \A i \in 1..Len(c) :
        \/ i \in 1..Len(s) /\ c[i] = s[i]
        \/ i - Len(s) \in 1..Len(t) /\ c[i] = t[i - Len(s)]
  BY <1>0, <1>1, <1>2, SMT
<1>6. ASSUME NEW x PROVE x \in Items(c) <=> x \in Items(s) \cup Items(t)
  <2>1. x \in Items(s) => x \in Items(c)
    BY <1>3, Zenon DEF Items
  <2>2. x \in Items(t) => x \in Items(c)
    BY <1>4, Zenon DEF Items
  <2>3. x \in Items(c) => x \in Items(s) \cup Items(t)
    <3> SUFFICES ASSUME NEW i \in 1..Len(c), x = c[i] PROVE x \in Items(s) \cup Items(t)
      BY Zenon DEF Items
    <3>1. CASE i \in 1..Len(s) /\ c[i] = s[i]
      BY <3>1, Zenon DEF Items
    <3>2. CASE i - Len(s) \in 1..Len(t) /\ c[i] = t[i - Len(s)]
      BY <3>2, Zenon DEF Items
    <3> QED
      BY <1>5, <3>1, <3>2, Zenon
  <2> QED
    BY <2>1, <2>2, <2>3, Zenon
<1>7. QED
  BY <1>0, <1>6, Zenon

LEMMA ExpandingKeepsStale ==
  ASSUME CompositeTypeOK, StaleInv, Expand PROVE StaleInv'
<1> DEFINE ids == Sorted[Children(Top.id) \ finished]
           id == Top.id
<1>1. /\ pkg \in Package /\ stack \in Seq(Frame) /\ stack # <<>> /\ stale \in Seq(Link)
      /\ verdict = "walking" /\ verdict' = verdict /\ pkg' = pkg /\ finished' = finished
      /\ onPath' = onPath \cup {id} /\ stale' = stale \o Outdated(id) /\ Closing(id) = {}
      /\ stack' = Opened \o Frames(ids, Top.depth + 1)
  BY Zenon DEF CompositeTypeOK, Expand
<1>2. id \in Ids /\ Top.depth + 1 \in Nat /\ Len(stack) \in Nat \ {0}
  BY <1>1, OpenedFacts, SMT DEF Frame
<1>3. Children(id) \ finished \in SUBSET Ids
  BY <1>1, <1>2, ChildrenAreIds, Zenon
<1>4. ids \in Seq(Ids)
  BY <1>3, SortedFacts, Zenon
<1> HIDE DEF ids, id
<1>5. Items(stale') = {l \in OldLinks' : l.to \in onPath' \cup finished'}
  <2>1. /\ Outdated(id) \in Seq(Link)
        /\ Items(Outdated(id)) = {l \in OldLinks : l.to = id}
    BY <1>1, <1>2, AllOutdated, Zenon
  <2>2. Items(stale')
          = Items(stale) \cup {l \in OldLinks : l.to = id}
    <3> DEFINE more == Outdated(id)
    <3>1. stale \in Seq(Link) /\ more \in Seq(Link) /\ stale' = stale \o more
      BY <1>1, <2>1
    <3>2. Items(more) = {l \in OldLinks : l.to = id}
      BY <2>1
    <3> HIDE DEF more
    <3>3. \A s, t \in Seq(Link) : Items(s \o t) = Items(s) \cup Items(t)
      BY MembersOfConcat, Zenon
    <3>4. Items(stale') = Items(stale) \cup Items(more)
      BY <3>1, <3>3
    <3> QED
      BY <3>2, <3>4, Zenon
  <2>3. Items(stale) = {l \in OldLinks : l.to \in onPath \cup finished}
    BY <1>1, Zenon DEF StaleInv
  <2>4. OldLinks' = OldLinks
    BY <1>1, Zenon DEF OldLinks
  <2> QED
    BY <1>1, <2>2, <2>3, <2>4, Zenon
<1>6. IsPushed(stack', ids, Top.depth + 1)
  BY <1>1, <1>2, <1>4, PushedFacts, Zenon
<1>7. \A i \in 1..Len(stack') :
        stack'[i].expanded => stack'[i].id \in onPath' \cup finished'
  <2> SUFFICES ASSUME NEW i \in 1..Len(stack'), stack'[i].expanded
               PROVE  stack'[i].id \in onPath' \cup finished'
    OBVIOUS
  <2>1. Len(ids) \in Nat
    BY <1>4, SMT
  <2>2. CASE i \in 1..(Len(stack) - 1)
    <3>1. stack'[i] = stack[i] /\ i \in 1..Len(stack)
      BY <1>2, <1>6, <2>2, SMT DEF IsPushed
    <3> QED
      BY <1>1, <3>1, Zenon DEF StaleInv
  <2>3. CASE i = Len(stack)
    BY <1>1, <1>6, <2>3, Zenon DEF IsPushed, LikeTop, id
  <2>4. CASE i > Len(stack)
    <3>1. i - Len(stack) \in 1..Len(ids) /\ Len(stack) + (i - Len(stack)) = i
      <4>1. Len(stack') = Len(stack) + Len(ids)
        BY <1>6, Zenon DEF IsPushed
      <4> QED
        BY <1>2, <2>1, <2>4, <4>1, SMT
    <3> QED
      BY <1>6, <3>1, Zenon DEF IsPushed, WaitsAt
  <2> QED
    BY <1>2, <2>2, <2>3, <2>4, SMT
<1>8. Dangling' = {} /\ ~Resolved'
  BY <1>1, Zenon DEF StaleInv, Dangling, Resolved
<1>9. QED
  BY <1>5, <1>7, <1>8, Zenon DEF StaleInv

LEMMA ClosingKeepsStale ==
  ASSUME CompositeTypeOK, StaleInv, CloseFrame PROVE StaleInv'
<1>1. /\ stack \in Seq(Frame) /\ stack # <<>> /\ Top.expanded
      /\ verdict = "walking" /\ verdict' = verdict /\ pkg' = pkg /\ stale' = stale
      /\ stack' = Below /\ onPath' = onPath \ {Top.id} /\ finished' = finished \cup {Top.id}
  BY Zenon DEF CompositeTypeOK, CloseFrame
<1>2. /\ Len(stack) \in Nat \ {0} /\ Top = stack[Len(stack)] /\ Len(Below) = Len(stack) - 1
      /\ \A i \in 1..(Len(stack) - 1) : Below[i] = stack[i]
  BY <1>1, OpenedFacts, Zenon
<1>3. Top.id \in onPath \cup finished
  <2>1. Len(stack) \in 1..Len(stack)
    BY <1>2, SMT
  <2> QED
    BY <1>1, <1>2, <2>1, Zenon DEF StaleInv
<1>4. onPath' \cup finished' = onPath \cup finished
  BY <1>1, <1>3, Zenon
<1>5. OldLinks' = OldLinks /\ Dangling' = {} /\ ~Resolved'
  BY <1>1, Zenon DEF OldLinks, StaleInv, Dangling, Resolved
<1>6. \A i \in 1..Len(Below) : i \in 1..Len(stack) /\ Below[i] = stack[i]
  BY <1>2, SMT
<1>7. /\ Items(stale) = {l \in OldLinks : l.to \in onPath \cup finished}
      /\ \A i \in 1..Len(Below) : Below[i].expanded => Below[i].id \in onPath \cup finished
  BY <1>1, <1>6, Zenon DEF StaleInv
<1>8. /\ Items(stale') = {l \in OldLinks' : l.to \in onPath' \cup finished'}
      /\ \A i \in 1..Len(stack') : stack'[i].expanded => stack'[i].id \in onPath' \cup finished'
  BY <1>1, <1>4, <1>5, <1>7
<1>9. QED
  BY <1>5, <1>8, Zenon DEF StaleInv

\* A package resolves as "stale" exactly when a link was recorded over an older
\* member, and then all such links are named, whichever paths lead to them.
THEOREM StaleLinksStayReported == CompositeSpec => []StaleLinksAreReported
<1>1. CompositeInit => StaleInv
  <2> SUFFICES ASSUME CompositeInit PROVE StaleInv
    OBVIOUS
  <2>1. \A j : j \notin 1..Len(<<>>)
    BY SMT
  <2>2. verdict = "given" /\ stack = <<>> /\ stale = <<>> /\ onPath = {} /\ finished = {}
    BY Zenon DEF CompositeInit
  <2>3. Items(stale) = {l \in OldLinks : l.to \in onPath \cup finished}
    <3>1. \A x : x \notin Items(<<>>)
      BY <2>1, Zenon DEF Items
    <3>2. \A l : l.to \notin onPath \cup finished
      BY <2>2, Zenon
    <3> QED
      BY <2>2, <3>1, <3>2, Zenon
  <2> QED
    BY <2>1, <2>2, <2>3, Zenon DEF StaleInv, Resolved
<1>2. CompositeTypeOK /\ StaleInv /\ [CompositeNext]_compositeVars => StaleInv'
  <2> SUFFICES ASSUME CompositeTypeOK, StaleInv, [CompositeNext]_compositeVars
               PROVE  StaleInv'
    OBVIOUS
  <2>1. CASE CheckPackage
    <3>1. /\ verdict = "given" /\ (verdict' = "unresolved" \/ (verdict' = "walking" /\ Dangling = {}))
          /\ UNCHANGED <<pkg, stack, finished, onPath, stale>>
      BY <2>1, SMT DEF CheckPackage, Refuse
    <3> QED
      BY <3>1, Zenon DEF StaleInv, Resolved, OldLinks, Dangling
  <2>2. CASE StartWalk
    <3>1. /\ verdict = "walking" /\ UNCHANGED <<verdict, pkg, finished, onPath, stale>>
          /\ \A i \in 1..Len(stack') : ~stack'[i].expanded
      BY <2>2, SMT DEF StartWalk
    <3> QED
      BY <3>1, Zenon DEF StaleInv, Resolved, OldLinks, Dangling
  <2>3. CASE CloseFrame
    BY <2>3, ClosingKeepsStale
  <2>4. CASE RefuseDepth
    <3>1. verdict' = "unresolved"
      BY <2>4, Zenon DEF RefuseDepth, Refuse
    <3> QED
      BY <3>1, Zenon DEF StaleInv, Resolved
  <2>5. CASE RefuseCycle
    <3>1. verdict' = "unresolved"
      BY <2>5, Zenon DEF RefuseCycle, Refuse
    <3> QED
      BY <3>1, Zenon DEF StaleInv, Resolved
  <2>6. CASE Expand
    BY <2>6, ExpandingKeepsStale
  <2>7. CASE EndWalks
    <3>1. /\ verdict = "walking" /\ UNCHANGED <<pkg, stack, finished, onPath, stale>>
          /\ \/ verdict' = "unresolved"
             \/ verdict' = IF stale = <<>> THEN "resolved" ELSE "stale"
      BY <2>7, Zenon DEF EndWalks, Refuse
    <3> QED
      BY <3>1, Zenon DEF StaleInv, Resolved, OldLinks, Dangling
  <2>8. CASE UNCHANGED compositeVars
    BY <2>8, Zenon DEF compositeVars, StaleInv, Resolved, OldLinks, Dangling
  <2>9. QED
    BY <2>1, <2>2, <2>3, <2>4, <2>5, <2>6, <2>7, <2>8, Zenon DEF CompositeNext
<1>3. CompositeTypeOK /\ WalkInv /\ StaleInv => StaleLinksAreReported
  <2> SUFFICES ASSUME CompositeTypeOK, WalkInv, StaleInv, Resolved
               PROVE  /\ {stale[i] : i \in DOMAIN stale} = OldLinks
                      /\ verdict = "stale" <=> OldLinks # {}
    BY Zenon DEF StaleLinksAreReported, OldLinks
  <2>1. stale \in Seq(Link) /\ DOMAIN stale = 1..Len(stale)
    BY SMT DEF CompositeTypeOK
  <2>2. OldLinks = {l \in OldLinks : l.to \in onPath \cup finished}
    BY Zenon DEF WalkInv, StaleInv, Resolved, Dangling, OldLinks
  <2>3. {stale[i] : i \in DOMAIN stale} = OldLinks
    <3>1. {stale[i] : i \in DOMAIN stale} = Items(stale)
      BY <2>1 DEF Items
    <3>2. Items(stale) = {l \in OldLinks : l.to \in onPath \cup finished}
      BY Zenon DEF StaleInv, Resolved
    <3> QED
      BY <2>2, <3>1, <3>2
  <2>4. stale = <<>> <=> \A i : i \notin DOMAIN stale
    <3>1. Len(stale) \in Nat /\ (stale = <<>> <=> Len(stale) = 0)
      BY <2>1, EmptySeq, SMT
    <3>2. Len(stale) = 0 <=> 1 \notin 1..Len(stale)
      BY <3>1, SMT
    <3>3. Len(stale) = 0 => \A i : i \notin 1..Len(stale)
      BY SMT
    <3> QED
      BY <2>1, <3>1, <3>2, <3>3, Zenon
  <2>5. stale # <<>> <=> OldLinks # {}
    BY <2>3, <2>4, Zenon
  <2> QED
    BY <2>3, <2>5, Zenon DEF StaleInv
<1>4. CompositeSpec => []WalkInv
  BY WalkHolds
<1>5. QED
  BY <1>1, <1>2, <1>3, <1>4, WalkIsTyped, PTL DEF CompositeSpec

-----------------------------------------------------------------------------
(* The refusals.                                                           *)

\* A frame is at the end of a path from a root that is as long as its depth.
IsReached(f) ==
  /\ f.depth >= 1
  /\ \E p \in [1..f.depth -> pkg.members] : Descends(p, f.depth) /\ p[f.depth] = f.id

\* A frame was pushed by the opened one next below it, whose contributor it is.
HasOpener(s, i) ==
  \E e \in 1..(i - 1) :
    /\ s[e].expanded /\ s[i].id \in Children(s[e].id)
    /\ \A m \in (e + 1)..(i - 1) : ~s[m].expanded

\* The members on the path are those of opened frames.
PathIsOpen == \A c \in onPath : \E k \in 1..Len(stack) : stack[k].expanded /\ stack[k].id = c

\* Every root is done, is the one walked from, or waits for its turn.
RootsAreWalked ==
  \A r \in Roots :
    \/ r \in finished
    \/ Len(stack) >= 1 /\ stack[1].id = r
    \/ \E k \in 1..Len(roots) : roots[k] = r

WaitingAreRoots == \A k \in 1..Len(roots) : roots[k] \in Roots
FramesAreReached == \A i \in 1..Len(stack) : IsReached(stack[i])
FramesHaveOpeners == \A i \in 2..Len(stack) : HasOpener(stack, i)

WalkIsSound ==
  /\ Dangling = {} /\ finished \subseteq pkg.members
  /\ FramesAreReached /\ FramesHaveOpeners /\ PathIsOpen
  /\ WaitingAreRoots /\ RootsAreWalked

RefusalInv ==
  /\ verdict = "given" => stack = <<>> /\ roots = <<>> /\ onPath = {} /\ finished = {}
  /\ verdict = "walking" => WalkIsSound
  /\ RefusalsAreReal

\* What depends on the package alone stays with it.
LEMMA PackageKept ==
  ASSUME UNCHANGED pkg
  PROVE  /\ Dangling' = Dangling /\ Roots' = Roots
         /\ Cyclic' <=> Cyclic
         /\ TooDeep' <=> TooDeep
         /\ \A id : Children(id)' = Children(id)
         /\ \A f : IsReached(f)' <=> IsReached(f)
<1>1. Dangling' = Dangling /\ Roots' = Roots /\ \A id : Children(id)' = Children(id)
  BY Zenon DEF Dangling, Roots, Children
<1>2. \A p, n : Descends(p, n)' <=> Descends(p, n)
  BY <1>1, Zenon DEF Descends
<1>3. Cyclic' <=> Cyclic
  BY <1>1, Zenon DEF Cyclic
<1>4. TooDeep' <=> TooDeep
  BY <1>2, Zenon DEF TooDeep
<1>5. \A f : IsReached(f)' <=> IsReached(f)
  BY <1>2, Zenon DEF IsReached
<1>6. QED
  BY <1>1, <1>3, <1>4, <1>5, Zenon

LEMMA ChildrenAreMembers ==
  ASSUME Dangling = {}, NEW id, NEW c \in Children(id) PROVE c \in pkg.members
BY Zenon DEF Children, Contributors, Dangling

LEMMA RootIsReached ==
  ASSUME pkg \in Package, NEW f \in Frame, f.depth = 1, f.id \in Roots PROVE IsReached(f)
<1> DEFINE p == [k \in 1..1 |-> f.id]
<1>1. f.id \in pkg.members
  BY Zenon DEF Roots
<1>2. p \in [1..1 -> pkg.members] /\ p[1] = f.id
  BY <1>1, SMT
<1>3. \A k : k \notin 1..(1 - 1)
  BY SMT
<1> HIDE DEF p
<1>4. Descends(p, 1)
  BY <1>2, <1>3, Zenon DEF Descends
<1>5. f.depth >= 1
  BY SMT
<1>6. QED
  BY <1>2, <1>4, <1>5, Zenon DEF IsReached

LEMMA ChildIsReached ==
  ASSUME Dangling = {}, NEW f \in Frame, IsReached(f), NEW g,
         g.id \in Children(f.id), g.depth = f.depth + 1
  PROVE  IsReached(g)
<1>1. PICK p \in [1..f.depth -> pkg.members] : Descends(p, f.depth) /\ p[f.depth] = f.id
  BY Zenon DEF IsReached
<1>2. f.depth \in Nat /\ f.depth >= 1 /\ g.id \in pkg.members
  <2>1. f.depth \in Nat
    BY SMT DEF Frame
  <2> QED
    BY <2>1, ChildrenAreMembers, Zenon DEF IsReached
<1> DEFINE q == [k \in 1..(f.depth + 1) |-> IF k <= f.depth THEN p[k] ELSE g.id]
<1>3. /\ q \in [1..(f.depth + 1) -> pkg.members] /\ q[f.depth + 1] = g.id
      /\ \A k \in 1..f.depth : q[k] = p[k]
  BY <1>2, SMT
<1> HIDE DEF q
<1>4. Descends(q, f.depth + 1)
  <2>1. q[1] \in Roots
    <3>1. 1 \in 1..f.depth
      BY <1>2, SMT
    <3> QED
      BY <1>1, <1>3, <3>1, Zenon DEF Descends
  <2>2. ASSUME NEW k \in 1..((f.depth + 1) - 1) PROVE q[k + 1] \in Children(q[k])
    <3>1. k \in 1..f.depth /\ (k = f.depth \/ (k \in 1..(f.depth - 1) /\ k + 1 \in 1..f.depth))
      BY <1>2, SMT
    <3>2. CASE k = f.depth
      BY <1>1, <1>3, <3>1, <3>2
    <3>3. CASE k \in 1..(f.depth - 1) /\ k + 1 \in 1..f.depth
      BY <1>1, <1>3, <3>1, <3>3, Zenon DEF Descends
    <3> QED
      BY <3>1, <3>2, <3>3
  <2> QED
    BY <2>1, <2>2, Zenon DEF Descends
<1>5. g.depth >= 1
  BY <1>2, SMT
<1>6. QED
  BY <1>3, <1>4, <1>5, Zenon DEF IsReached

\* Depth: a frame below the limit is at the end of a path that is too long.
LEMMA DeepFramesAreTooDeep ==
  ASSUME NEW f \in Frame, IsReached(f), f.depth > MaxDepth PROVE TooDeep
<1>1. PICK p \in [1..f.depth -> pkg.members] : Descends(p, f.depth)
  BY Zenon DEF IsReached
<1>2. f.depth \in Nat /\ MaxDepth \in Nat
  BY LimitsAreNatural, SMT DEF Frame
<1> DEFINE q == [k \in 1..(MaxDepth + 1) |-> p[k]]
<1>3. q \in [1..(MaxDepth + 1) -> pkg.members] /\ \A k \in 1..(MaxDepth + 1) : q[k] = p[k]
  BY <1>2, SMT
<1> HIDE DEF q
<1>4. Descends(q, MaxDepth + 1)
  <2>1. 1 \in 1..(MaxDepth + 1)
    BY <1>2, SMT
  <2>2. ASSUME NEW k \in 1..((MaxDepth + 1) - 1) PROVE q[k + 1] \in Children(q[k])
    <3>1. k \in 1..(f.depth - 1) /\ k \in 1..(MaxDepth + 1) /\ k + 1 \in 1..(MaxDepth + 1)
      BY <1>2, SMT
    <3> QED
      BY <1>1, <1>3, <3>1, Zenon DEF Descends
  <2> QED
    BY <1>1, <1>3, <2>1, <2>2, Zenon DEF Descends
<1>5. QED
  BY <1>3, <1>4, Zenon DEF TooDeep

\* The opener of a frame above an opened one is that one or above it.
LEMMA OpenerIsAbove ==
  ASSUME stack \in Seq(Frame), NEW k \in 1..Len(stack), stack[k].expanded,
         NEW i \in (k + 1)..Len(stack), HasOpener(stack, i)
  PROVE  \E e \in k..Len(stack) : stack[i].id \in Children(stack[e].id)
<1>1. PICK e \in 1..(i - 1) : /\ stack[i].id \in Children(stack[e].id)
                              /\ \A m \in (e + 1)..(i - 1) : ~stack[m].expanded
  BY Zenon DEF HasOpener
<1>2. Len(stack) \in Nat
  BY SMT
<1>3. k \notin (e + 1)..(i - 1)
  BY <1>1, Zenon
<1>4. e \in k..Len(stack)
  BY <1>2, <1>3, SMT
<1>5. QED
  BY <1>1, <1>4, Zenon

\* A member of a frame that contributes to one of the frames above it: the
\* frames from there to the top are members that only lead to each other.
LEMMA LoopIsCyclic ==
  ASSUME stack \in Seq(Frame), FramesAreReached, FramesHaveOpeners,
         NEW k \in 1..Len(stack), stack[k].expanded \/ k = Len(stack),
         NEW j \in k..Len(stack), stack[k].id \in Children(stack[j].id)
  PROVE  Cyclic
<1> DEFINE S == {stack[i].id : i \in k..Len(stack)}
<1>1. Len(stack) \in Nat /\ \A i \in k..Len(stack) : i \in 1..Len(stack)
  BY SMT
<1>2. \A i \in 1..Len(stack) : stack[i].id \in pkg.members
  <2> SUFFICES ASSUME NEW i \in 1..Len(stack) PROVE stack[i].id \in pkg.members
    OBVIOUS
  <2>1. IsReached(stack[i]) /\ stack[i].depth \in Nat
    <3>1. stack[i] \in Frame
      BY SMT
    <3> QED
      BY <3>1, SMT DEF FramesAreReached, Frame
  <2>2. stack[i].depth \in 1..stack[i].depth
    <3>1. stack[i].depth >= 1
      BY <2>1, Zenon DEF IsReached
    <3> QED
      BY <2>1, <3>1, SMT
  <2> QED
    BY <2>1, <2>2, Zenon DEF IsReached
<1>3. S \in SUBSET pkg.members /\ S # {}
  <2>1. k \in k..Len(stack)
    BY <1>1, SMT
  <2> QED
    BY <1>1, <1>2, <2>1, Zenon
<1>4. ASSUME NEW x \in S PROVE \E y \in S : x \in Children(y)
  <2>1. PICK i \in k..Len(stack) : x = stack[i].id
    OBVIOUS
  <2>2. CASE i = k
    BY <2>1, <2>2
  <2>3. CASE i # k
    <3>1. i \in (k + 1)..Len(stack) /\ i \in 2..Len(stack) /\ k # Len(stack)
      BY <1>1, <2>3, SMT
    <3>2. HasOpener(stack, i) /\ stack[k].expanded
      BY <3>1, Zenon DEF FramesHaveOpeners
    <3>3. PICK e \in k..Len(stack) : stack[i].id \in Children(stack[e].id)
      BY <3>1, <3>2, OpenerIsAbove, Zenon
    <3> QED
      BY <2>1, <3>3
  <2> QED
    BY <2>2, <2>3
<1> HIDE DEF S
<1>5. QED
  BY <1>3, <1>4, Zenon DEF Cyclic

LEMMA RefusedCycleIsThere ==
  ASSUME CompositeTypeOK, WalkIsSound, RefuseCycle PROVE Cyclic
<1> DEFINE n == Len(stack)
<1>1. /\ stack \in Seq(Frame) /\ stack # <<>> /\ ~Top.expanded /\ Closing(Top.id) # {}
      /\ FramesAreReached /\ FramesHaveOpeners
  BY Zenon DEF CompositeTypeOK, RefuseCycle, WalkIsSound
<1>2. n \in Nat /\ n # 0 /\ Top = stack[n]
  BY <1>1, OpenedFacts, SMT
<1>3. n \in 1..n /\ n \in n..n /\ \A k \in 1..n : n \in k..n
  BY <1>2, SMT
<1>4. \A c \in onPath : \E k \in 1..n : k # n /\ stack[k].expanded /\ stack[k].id = c
  BY <1>1, <1>2, Zenon DEF WalkIsSound, PathIsOpen
<1>5. CASE Top.id \in onPath
  <2>1. PICK k \in 1..n : k # n /\ stack[k].expanded /\ stack[k].id = Top.id
    BY <1>4, <1>5
  <2>2. n \in (k + 1)..n /\ n \in 2..n
    BY <1>2, <2>1, SMT
  <2>3. PICK e \in k..n : stack[n].id \in Children(stack[e].id)
    BY <1>1, <2>1, <2>2, OpenerIsAbove, Zenon DEF FramesHaveOpeners
  <2>4. stack[k].id \in Children(stack[e].id)
    BY <1>2, <2>1, <2>3
  <2> QED
    BY <1>1, <2>1, <2>4, LoopIsCyclic, Zenon
<1>6. CASE Top.id \notin onPath
  <2>1. PICK c \in Children(Top.id) : c \in onPath \/ c = Top.id
    BY <1>1, <1>6, Zenon DEF Closing
  <2>2. CASE c \in onPath
    <3>1. PICK k \in 1..n : stack[k].expanded /\ stack[k].id = c
      BY <1>4, <2>2
    <3>2. stack[k].id \in Children(stack[n].id) /\ n \in k..n
      BY <1>2, <1>3, <2>1, <3>1
    <3> QED
      BY <1>1, <3>1, <3>2, LoopIsCyclic, Zenon
  <2>3. CASE c = Top.id
    <3>1. stack[n].id \in Children(stack[n].id)
      BY <1>2, <2>1, <2>3
    <3> QED
      BY <1>1, <1>3, <3>1, LoopIsCyclic, Zenon
  <2> QED
    BY <2>1, <2>2, <2>3
<1>7. QED
  BY <1>5, <1>6

\* Members that no walk from a root has come to lead only to each other.
LEMMA UnreachedMembersAreCyclic ==
  ASSUME CompositeTypeOK, Listed(order, finished, pkg), WalkIsSound,
         stack = <<>>, roots = <<>>, finished # pkg.members
  PROVE  Cyclic
<1> DEFINE S == pkg.members \ finished
<1>1. S \in SUBSET pkg.members /\ S # {}
  BY Zenon DEF WalkIsSound
<1>2. Roots \subseteq finished
  <2>1. Len(stack) = 0 /\ Len(roots) = 0
    BY SMT
  <2>2. ~(Len(stack) >= 1) /\ \A k : k \notin 1..Len(roots)
    BY <2>1, SMT
  <2> QED
    BY <2>2, Zenon DEF WalkIsSound, RootsAreWalked
<1>3. \A y \in finished : Children(y) \subseteq finished
  <2> SUFFICES ASSUME NEW j \in 1..Len(order) PROVE Children(order[j]) \subseteq finished
    BY Zenon DEF Listed
  <2>1. Children(order[j]) \subseteq Before(order, j)
    BY Zenon DEF Listed, Children
  <2>2. \A i \in 1..(j - 1) : i \in 1..Len(order)
    BY SMT DEF CompositeTypeOK
  <2>3. Before(order, j) \subseteq finished
    BY <2>2, Zenon DEF Listed, Before
  <2> QED
    BY <2>1, <2>3, Zenon
<1>4. ASSUME NEW x \in S PROVE \E y \in S : x \in Children(y)
  <2>1. x \in pkg.members /\ x \notin finished /\ x \notin Roots
    BY <1>2, Zenon
  <2>2. PICK l \in pkg.links : l.from = x
    BY <2>1, Zenon DEF Roots
  <2>3. l.to \in pkg.members
    BY <2>2, Zenon DEF WalkIsSound, Dangling
  <2>4. x \in Children(l.to)
    BY <2>2, Zenon DEF Children, Contributors
  <2>5. l.to \notin finished
    BY <1>3, <2>1, <2>4, Zenon
  <2> QED
    BY <2>3, <2>4, <2>5, Zenon
<1> HIDE DEF S
<1>5. QED
  BY <1>1, <1>4, Zenon DEF Cyclic

\* A package that passes the checks: its roots wait, nothing else is begun.
LEMMA CheckingStartsSound ==
  ASSUME CompositeTypeOK, stack = <<>>, onPath = {}, finished = {}, Dangling = {},
         UNCHANGED <<pkg, stack, onPath, finished>>, roots' = Sorted[Roots]
  PROVE  WalkIsSound'
<1>1. Dangling' = {} /\ Roots' = Roots
  BY PackageKept, Zenon
<1>2. Roots \in SUBSET Ids
  BY SMT DEF CompositeTypeOK, Roots, Package
<1>3. /\ Sorted[Roots] \in Seq(Ids)
      /\ \A x \in Roots : \E k \in 1..Len(Sorted[Roots]) : Sorted[Roots][k] = x
  BY <1>2, SortedFacts, Zenon
<1>4. \A k \in 1..Len(Sorted[Roots]) : Sorted[Roots][k] \in Roots
  <2>1. DOMAIN Sorted[Roots] = 1..Len(Sorted[Roots])
    BY <1>3, SMT
  <2>2. {Sorted[Roots][i] : i \in DOMAIN Sorted[Roots]} = Roots
    BY <1>2, SortedLists, Zenon
  <2> QED
    BY <2>1, <2>2
<1>5. \A k : k \notin 1..Len(stack') /\ k \notin 2..Len(stack')
  BY SMT
<1>6. finished' \subseteq pkg.members' /\ onPath' = {}
  OBVIOUS
<1>7. WaitingAreRoots' /\ RootsAreWalked'
  BY <1>1, <1>3, <1>4, Zenon DEF WaitingAreRoots, RootsAreWalked
<1>8. FramesAreReached' /\ FramesHaveOpeners' /\ PathIsOpen'
  BY <1>5, <1>6, Zenon DEF FramesAreReached, FramesHaveOpeners, PathIsOpen
<1>9. QED
  BY <1>1, <1>6, <1>7, <1>8, Zenon DEF WalkIsSound

LEMMA StartingKeepsSound ==
  ASSUME CompositeTypeOK, WalkIsSound, StartWalk PROVE WalkIsSound'
<1> DEFINE f == [id |-> Head(roots), depth |-> 1, expanded |-> FALSE]
<1>1. /\ pkg \in Package /\ roots \in Seq(Ids) /\ roots # <<>> /\ stack = <<>>
      /\ stack' = <<f>> /\ roots' = Tail(roots) /\ UNCHANGED <<pkg, onPath, finished>>
  BY Zenon DEF CompositeTypeOK, StartWalk
<1>2. /\ Dangling' = Dangling /\ Roots' = Roots
      /\ \A g : IsReached(g)' <=> IsReached(g)
  BY <1>1, PackageKept, Zenon
<1>3. /\ Len(roots) \in Nat /\ Len(roots) >= 1 /\ Head(roots) = roots[1] /\ roots[1] \in Ids
      /\ Len(roots') = Len(roots) - 1 /\ \A k \in 1..Len(roots') : roots'[k] = roots[k + 1]
  BY <1>1, SMT
<1>4. f \in Frame /\ f.depth = 1 /\ f.id = roots[1]
  BY <1>3, SMT DEF Frame
<1> HIDE DEF f
<1>5. Len(stack') = 1 /\ stack'[1] = f /\ (\A i \in 1..1 : i = 1) /\ (\A i : i \notin 2..1) /\ 1 >= 1
  BY <1>1, SMT
<1>6. /\ 1 \in 1..Len(roots)
      /\ \A k \in 1..Len(roots') : k + 1 \in 1..Len(roots)
      /\ \A k \in 1..Len(roots) : k = 1 \/ (k - 1 \in 1..Len(roots') /\ (k - 1) + 1 = k)
  BY <1>3, SMT
<1>7. FramesAreReached' /\ FramesHaveOpeners'
  <2>1. f.id \in Roots
    BY <1>4, <1>6, Zenon DEF WalkIsSound, WaitingAreRoots
  <2>2. IsReached(f)
    BY <1>1, <1>4, <2>1, RootIsReached, Zenon
  <2> QED
    BY <1>2, <1>5, <2>2, Zenon DEF FramesAreReached, FramesHaveOpeners
<1>8. PathIsOpen'
  <2>1. \A k : k \notin 1..Len(stack)
    BY <1>1, SMT
  <2> QED
    BY <1>1, <2>1, Zenon DEF WalkIsSound, PathIsOpen
<1>9. WaitingAreRoots'
  BY <1>2, <1>3, <1>6, Zenon DEF WalkIsSound, WaitingAreRoots
<1>10. RootsAreWalked'
  <2> SUFFICES ASSUME NEW r \in Roots, r \notin finished
               PROVE  stack'[1].id = r \/ \E k \in 1..Len(roots') : roots'[k] = r
    BY <1>1, <1>2, <1>5, Zenon DEF RootsAreWalked
  <2>1. ~(Len(stack) >= 1)
    BY <1>1, SMT
  <2>2. PICK k \in 1..Len(roots) : roots[k] = r
    BY <2>1, Zenon DEF WalkIsSound, RootsAreWalked
  <2>3. CASE k = 1
    BY <1>4, <1>5, <2>2, <2>3
  <2>4. CASE k - 1 \in 1..Len(roots') /\ (k - 1) + 1 = k
    <3>1. roots'[k - 1] = r
      BY <1>3, <2>2, <2>4
    <3> QED
      BY <2>4, <3>1
  <2> QED
    BY <1>6, <2>3, <2>4
<1>11. QED
  BY <1>1, <1>2, <1>7, <1>8, <1>9, <1>10, Zenon DEF WalkIsSound

LEMMA ClosingKeepsSound ==
  ASSUME CompositeTypeOK, WalkIsSound, CloseFrame PROVE WalkIsSound'
<1> DEFINE n == Len(stack)
<1>1. /\ stack \in Seq(Frame) /\ stack # <<>> /\ stack' = Below /\ onPath' = onPath \ {Top.id}
      /\ finished' = finished \cup {Top.id} /\ UNCHANGED <<pkg, roots>>
  BY Zenon DEF CompositeTypeOK, CloseFrame
<1>2. /\ Dangling' = Dangling /\ Roots' = Roots
      /\ \A id : Children(id)' = Children(id)
      /\ \A g : IsReached(g)' <=> IsReached(g)
  BY <1>1, PackageKept, Zenon
<1>3. /\ n \in Nat \ {0} /\ Top = stack[n] /\ Len(stack') = n - 1
      /\ \A i \in 1..(n - 1) : stack'[i] = stack[i]
  BY <1>1, OpenedFacts, Zenon
<1> HIDE DEF n
<1>4. /\ \A i \in 1..(n - 1) : i \in 1..n /\ \A m \in 1..(i - 1) : m \in 1..(n - 1)
      /\ \A i \in 2..(n - 1) : i \in 2..n /\ i \in 1..(n - 1)
      /\ \A i \in 1..n : i = n \/ i \in 1..(n - 1)
      /\ \A i \in 2..n : \A e \in 1..(i - 1) : \A m \in (e + 1)..(i - 1) : m \in 1..(i - 1)
  BY <1>3, SMT
<1>5. FramesAreReached'
  BY <1>2, <1>3, <1>4, Zenon DEF WalkIsSound, FramesAreReached, n
<1>6. FramesHaveOpeners'
  <2> SUFFICES ASSUME NEW i \in 2..(n - 1) PROVE HasOpener(stack, i)'
    BY <1>3, Zenon DEF FramesHaveOpeners
  <2>1. HasOpener(stack, i)
    BY <1>4, Zenon DEF WalkIsSound, FramesHaveOpeners, n
  <2>2. stack'[i] = stack[i] /\ \A m \in 1..(i - 1) : stack'[m] = stack[m]
    BY <1>3, <1>4, Zenon
  <2>3. \A e \in 1..(i - 1) : \A m \in (e + 1)..(i - 1) : m \in 1..(i - 1)
    BY <1>4, Zenon
  <2> QED
    BY <1>2, <2>1, <2>2, <2>3, Zenon DEF HasOpener
<1>7. PathIsOpen'
  <2> SUFFICES ASSUME NEW c \in onPath' PROVE \E k \in 1..(n - 1) : stack'[k].expanded /\ stack'[k].id = c
    BY <1>3, Zenon DEF PathIsOpen
  <2>1. c \in onPath /\ c # stack[n].id
    BY <1>1, <1>3, Zenon
  <2>2. PICK k \in 1..n : stack[k].expanded /\ stack[k].id = c
    BY <2>1, Zenon DEF WalkIsSound, PathIsOpen, n
  <2>3. k # n
    BY <2>1, <2>2, Zenon
  <2>4. k \in 1..(n - 1) /\ stack'[k] = stack[k]
    BY <1>3, <1>4, <2>2, <2>3, Zenon
  <2> QED
    BY <2>2, <2>4, Zenon
<1>8. finished' \subseteq pkg'.members
  <2>1. IsReached(Top)
    <3>1. n \in 1..n
      BY <1>3, SMT
    <3> QED
      BY <1>3, <3>1, Zenon DEF WalkIsSound, FramesAreReached, n
  <2>2. Top.depth \in 1..Top.depth
    BY <1>1, <2>1, OpenedFacts, SMT DEF Frame, IsReached
  <2>3. Top.id \in pkg.members
    BY <2>1, <2>2, Zenon DEF IsReached
  <2> QED
    BY <1>1, <2>3, Zenon DEF WalkIsSound
<1>9. WaitingAreRoots'
  BY <1>1, <1>2, Zenon DEF WalkIsSound, WaitingAreRoots
<1>10. RootsAreWalked'
  <2> SUFFICES ASSUME NEW r \in Roots, r \notin finished'
               PROVE  \/ Len(stack') >= 1 /\ stack'[1].id = r
                      \/ \E k \in 1..Len(roots) : roots[k] = r
    BY <1>1, <1>2, Zenon DEF RootsAreWalked
  <2>1. r \notin finished /\ r # Top.id
    BY <1>1, Zenon
  <2>2. CASE stack[1].id = r
    <3>1. n # 1
      BY <1>3, <2>1, <2>2
    <3>2. 1 \in 1..(n - 1) /\ n - 1 >= 1
      BY <1>3, <3>1, SMT
    <3> QED
      BY <1>3, <2>2, <3>2, Zenon
  <2> QED
    BY <2>1, <2>2, Zenon DEF WalkIsSound, RootsAreWalked
<1>11. QED
  BY <1>2, <1>5, <1>6, <1>7, <1>8, <1>9, <1>10, Zenon DEF WalkIsSound

LEMMA ExpandingKeepsSound ==
  ASSUME CompositeTypeOK, WalkIsSound, Expand PROVE WalkIsSound'
<1> DEFINE n == Len(stack)
           id == Top.id
           ids == Sorted[Children(Top.id) \ finished]
<1>1. /\ pkg \in Package /\ stack \in Seq(Frame) /\ stack # <<>>
      /\ stack' = Opened \o Frames(ids, Top.depth + 1) /\ onPath' = onPath \cup {id}
      /\ UNCHANGED <<pkg, roots, finished>>
  BY Zenon DEF CompositeTypeOK, Expand
<1>2. /\ Dangling' = Dangling /\ Roots' = Roots
      /\ \A x : Children(x)' = Children(x)
      /\ \A g : IsReached(g)' <=> IsReached(g)
  BY <1>1, PackageKept, Zenon
<1>3. n \in Nat \ {0} /\ Top = stack[n] /\ Top \in Frame /\ id \in Ids /\ Top.depth + 1 \in Nat
  BY <1>1, OpenedFacts, SMT DEF Frame
<1>4. Children(id) \ finished \in SUBSET Ids
  BY <1>1, <1>3, ChildrenAreIds, Zenon
<1>5. ids \in Seq(Ids) /\ {ids[k] : k \in DOMAIN ids} = Children(id) \ finished
  BY <1>4, SortedFacts, SortedLists, Zenon
<1> HIDE DEF ids, id, n
<1>6. Len(ids) \in Nat /\ \A k \in 1..Len(ids) : ids[k] \in Children(id)
  <2>1. DOMAIN ids = 1..Len(ids) /\ Len(ids) \in Nat
    BY <1>5, SMT
  <2> QED
    BY <1>5, <2>1, Zenon
<1>7. IsPushed(stack', ids, Top.depth + 1)
  BY <1>1, <1>3, <1>5, PushedFacts, Zenon
<1>8. /\ Len(stack') = n + Len(ids)
      /\ \A i \in 1..(n - 1) : stack'[i] = stack[i]
      /\ stack'[n].id = id /\ stack'[n].depth = Top.depth
      /\ \A k \in 1..Len(ids) : WaitsAt(stack'[n + k], ids[k], Top.depth + 1)
  BY <1>7, Zenon DEF IsPushed, LikeTop, id, n
<1>9. stack'[n].expanded
  BY <1>1, <1>3, <1>5, <1>6, TopIsOpened, Zenon DEF n
<1>10. \A i \in 1..Len(stack') :
         \/ i \in 1..(n - 1) /\ i \in 1..n /\ stack'[i] = stack[i]
         \/ i = n
         \/ \E k \in 1..Len(ids) : i = n + k
  <2>1. \A i \in 1..Len(stack') :
          \/ i \in 1..(n - 1) /\ i \in 1..n
          \/ i = n
          \/ i - n \in 1..Len(ids) /\ i = n + (i - n)
    BY <1>3, <1>6, <1>8, SMT
  <2> QED
    BY <1>8, <2>1, Zenon
<1>11. n \in 1..n /\ n \in 1..Len(stack') /\ \A i \in 1..(n - 1) : i \in 1..Len(stack')
  BY <1>3, <1>6, <1>8, SMT
<1>12. FramesAreReached'
  <2> SUFFICES ASSUME NEW i \in 1..Len(stack') PROVE IsReached(stack'[i])
    BY <1>2, Zenon DEF FramesAreReached
  <2>0. IsReached(Top)
    BY <1>3, <1>11, Zenon DEF WalkIsSound, FramesAreReached, n
  <2>1. CASE i \in 1..(n - 1) /\ i \in 1..n /\ stack'[i] = stack[i]
    BY <2>1, Zenon DEF WalkIsSound, FramesAreReached, n
  <2>2. CASE i = n
    BY <1>8, <2>0, <2>2, Zenon DEF IsReached, id
  <2>3. CASE \E k \in 1..Len(ids) : i = n + k
    <3>1. PICK k \in 1..Len(ids) : i = n + k
      BY <2>3
    <3>2. stack'[i].id \in Children(Top.id) /\ stack'[i].depth = Top.depth + 1
      BY <1>6, <1>8, <3>1, Zenon DEF WaitsAt, id
    <3> QED
      BY <1>3, <2>0, <3>2, ChildIsReached, Zenon DEF WalkIsSound
  <2> QED
    BY <1>10, <2>1, <2>2, <2>3, Zenon
<1>13. FramesHaveOpeners'
  <2> SUFFICES ASSUME NEW i \in 2..Len(stack') PROVE HasOpener(stack, i)'
    BY Zenon DEF FramesHaveOpeners
  <2>1. i \in 1..Len(stack') /\ (i \in 1..n => i \in 2..n)
    BY <1>3, <1>6, <1>8, SMT
  <2>2. CASE i \in 1..n
    <3>1. HasOpener(stack, i)
      BY <2>1, <2>2, Zenon DEF WalkIsSound, FramesHaveOpeners, n
    <3>2. \A m \in 1..(i - 1) : stack'[m] = stack[m]
      <4>1. \A m \in 1..(i - 1) : m \in 1..(n - 1)
        BY <1>3, <2>2, SMT
      <4> QED
        BY <1>8, <4>1, Zenon
    <3>3. \A e \in 1..(i - 1) : \A m \in (e + 1)..(i - 1) : m \in 1..(i - 1)
      BY SMT
    <3>4. stack'[i].id = stack[i].id
      <4>1. i = n \/ i \in 1..(n - 1)
        BY <1>3, <2>2, SMT
      <4> QED
        BY <1>3, <1>8, <4>1, Zenon DEF id
    <3> QED
      BY <1>2, <3>1, <3>2, <3>3, <3>4, Zenon DEF HasOpener
  <2>3. CASE \E k \in 1..Len(ids) : i = n + k
    <3>1. PICK k \in 1..Len(ids) : i = n + k
      BY <2>3
    <3>2. n \in 1..(i - 1)
      BY <1>3, <3>1, SMT
    <3>3. ASSUME NEW m \in (n + 1)..(i - 1) PROVE ~stack'[m].expanded
      <4>1. m - n \in 1..Len(ids) /\ n + (m - n) = m
        BY <1>3, <1>6, <3>1, SMT
      <4>2. WaitsAt(stack'[n + (m - n)], ids[m - n], Top.depth + 1)
        BY <1>8, <4>1, Zenon
      <4> QED
        BY <4>1, <4>2, Zenon DEF WaitsAt
    <3>4. stack'[i].id \in Children(stack'[n].id)
      BY <1>6, <1>8, <3>1, Zenon DEF WaitsAt
    <3> QED
      BY <1>2, <1>9, <3>2, <3>3, <3>4, Zenon DEF HasOpener
  <2> QED
    BY <1>10, <1>11, <2>1, <2>2, <2>3, Zenon
<1>14. PathIsOpen'
  <2> SUFFICES ASSUME NEW c \in onPath \cup {id}
               PROVE  \E k \in 1..Len(stack') : stack'[k].expanded /\ stack'[k].id = c
    BY <1>1, Zenon DEF PathIsOpen
  <2>1. CASE c = id
    BY <1>8, <1>9, <1>11, <2>1, Zenon
  <2>2. CASE c \in onPath /\ c # id
    <3>1. PICK k \in 1..n : stack[k].expanded /\ stack[k].id = c
      BY <2>2, Zenon DEF WalkIsSound, PathIsOpen, n
    <3>2. k # n
      BY <1>3, <2>2, <3>1, Zenon DEF id
    <3>3. k \in 1..(n - 1)
      BY <1>3, <3>2, SMT
    <3> QED
      BY <1>8, <1>11, <3>1, <3>3, Zenon
  <2> QED
    BY <2>1, <2>2, Zenon
<1>15. WaitingAreRoots'
  BY <1>1, <1>2, Zenon DEF WalkIsSound, WaitingAreRoots
<1>16. RootsAreWalked'
  <2>1. stack'[1].id = stack[1].id /\ Len(stack) >= 1 /\ Len(stack') >= 1
    <3>1. n >= 1 /\ Len(stack') >= 1 /\ (1 = n \/ 1 \in 1..(n - 1))
      BY <1>3, <1>6, <1>8, SMT
    <3> QED
      BY <1>3, <1>8, <3>1, Zenon DEF id, n
  <2> QED
    BY <1>1, <1>2, <2>1, Zenon DEF WalkIsSound, RootsAreWalked
<1>17. QED
  BY <1>1, <1>2, <1>12, <1>13, <1>14, <1>15, <1>16, Zenon DEF WalkIsSound

LEMMA StepsKeepRefusals ==
  ASSUME CompositeTypeOK, WalkInv, RefusalInv, CompositeNext PROVE RefusalInv'
<1>1. UNCHANGED pkg
  BY Zenon DEF CompositeNext, CheckPackage, StartWalk, CloseFrame, RefuseDepth, RefuseCycle,
               Expand, EndWalks
<1>2. (Dangling' = Dangling) /\ (Cyclic' <=> Cyclic) /\ (TooDeep' <=> TooDeep)
  BY <1>1, PackageKept, Zenon
<1>3. ASSUME verdict' = "walking", WalkIsSound' PROVE RefusalInv'
  BY <1>3 DEF RefusalInv, RefusalsAreReal
<1>4. ASSUME verdict' = "unresolved",
             \/ code' = "COMP-UNRESOLVED" /\ Dangling # {}
             \/ code' = "COMP-DEPTH" /\ (Cardinality(pkg.members) > MaxMembers \/ TooDeep)
             \/ code' = "COMP-CYCLE" /\ Cyclic
      PROVE  RefusalInv'
  <2>1. RefusalsAreReal'
    BY <1>1, <1>2, <1>4 DEF RefusalsAreReal
  <2> QED
    BY <1>4, <2>1 DEF RefusalInv
<1>5. CASE CheckPackage
  <2>1. /\ verdict = "given" /\ stack = <<>> /\ onPath = {} /\ finished = {}
        /\ UNCHANGED <<pkg, stack, onPath, finished>>
    BY <1>5, Zenon DEF RefusalInv, CheckPackage
  <2>2. CASE Dangling # {}
    BY <1>4, <1>5, <2>2, Zenon DEF CheckPackage, Refuse
  <2>3. CASE Dangling = {} /\ Cardinality(pkg.members) > MaxMembers
    BY <1>4, <1>5, <2>3, Zenon DEF CheckPackage, Refuse
  <2>4. CASE Dangling = {} /\ ~(Cardinality(pkg.members) > MaxMembers)
    <3>1. verdict' = "walking" /\ roots' = Sorted[Roots]
      BY <1>5, <2>4, Zenon DEF CheckPackage
    <3>2. WalkIsSound'
      BY <2>1, <2>4, <3>1, CheckingStartsSound, Zenon
    <3> QED
      BY <1>3, <3>1, <3>2
  <2> QED
    BY <2>2, <2>3, <2>4
<1>6. ASSUME verdict = "walking" PROVE WalkIsSound
  BY <1>6, Zenon DEF RefusalInv
<1>7. CASE StartWalk
  BY <1>3, <1>6, <1>7, StartingKeepsSound, Zenon DEF StartWalk
<1>8. CASE CloseFrame
  BY <1>3, <1>6, <1>8, ClosingKeepsSound, Zenon DEF CloseFrame
<1>9. CASE RefuseDepth
  <2>1. stack \in Seq(Frame) /\ stack # <<>> /\ WalkIsSound /\ Top.depth > MaxDepth
    BY <1>6, <1>9, Zenon DEF RefuseDepth, CompositeTypeOK
  <2>2. Top \in Frame /\ Top = stack[Len(stack)] /\ Len(stack) \in 1..Len(stack)
    BY <2>1, OpenedFacts, SMT
  <2>3. TooDeep
    BY <2>1, <2>2, DeepFramesAreTooDeep, Zenon DEF WalkIsSound, FramesAreReached
  <2> QED
    BY <1>4, <1>9, <2>3, Zenon DEF RefuseDepth, Refuse
<1>10. CASE RefuseCycle
  BY <1>4, <1>6, <1>10, RefusedCycleIsThere, Zenon DEF RefuseCycle, Refuse
<1>11. CASE Expand
  BY <1>3, <1>6, <1>11, ExpandingKeepsSound, Zenon DEF Expand
<1>12. CASE EndWalks
  <2>1. verdict = "walking" /\ stack = <<>> /\ roots = <<>>
    BY <1>12, Zenon DEF EndWalks
  <2>2. CASE finished # pkg.members
    <3>1. Listed(order, finished, pkg)
      BY <2>1 DEF WalkInv
    <3>2. Cyclic
      BY <1>6, <2>1, <2>2, <3>1, UnreachedMembersAreCyclic, Zenon
    <3> QED
      BY <1>4, <1>12, <2>2, <3>2, Zenon DEF EndWalks, Refuse
  <2>3. CASE finished = pkg.members
    <3>1. verdict' \in {"resolved", "stale"}
      BY <1>12, <2>3 DEF EndWalks
    <3> QED
      BY <3>1 DEF RefusalInv, RefusalsAreReal
  <2> QED
    BY <2>2, <2>3
<1>13. QED
  BY <1>5, <1>7, <1>8, <1>9, <1>10, <1>11, <1>12, Zenon DEF CompositeNext

\* No package is refused without the fault that is named: a link that dangles, too
\* many members or a path that is too long, members that lead round in a cycle.
THEOREM RefusalsStayReal == CompositeSpec => []RefusalsAreReal
<1>1. CompositeInit => RefusalInv
  BY DEF CompositeInit, RefusalInv, RefusalsAreReal
<1>2. CompositeTypeOK /\ WalkInv /\ RefusalInv /\ [CompositeNext]_compositeVars => RefusalInv'
  <2> SUFFICES ASSUME CompositeTypeOK, WalkInv, RefusalInv, [CompositeNext]_compositeVars
               PROVE  RefusalInv'
    OBVIOUS
  <2>1. CASE CompositeNext
    BY <2>1, StepsKeepRefusals
  <2>2. CASE UNCHANGED compositeVars
    <3>1. UNCHANGED <<verdict, code, pkg, stack, roots, onPath, finished>>
      BY <2>2, Zenon DEF compositeVars
    <3>2. /\ Dangling' = Dangling /\ Roots' = Roots /\ (Cyclic' <=> Cyclic)
          /\ (TooDeep' <=> TooDeep)
          /\ \A id : Children(id)' = Children(id)
          /\ \A f : IsReached(f)' <=> IsReached(f)
      BY <3>1, PackageKept, Zenon
    <3>3. RefusalsAreReal'
      BY <3>1, <3>2 DEF RefusalInv, RefusalsAreReal
    <3>4. WalkIsSound => WalkIsSound'
      BY <3>1, <3>2, Zenon
      DEF WalkIsSound, FramesAreReached, FramesHaveOpeners, HasOpener, PathIsOpen,
          WaitingAreRoots, RootsAreWalked
    <3> QED
      BY <3>1, <3>3, <3>4, Zenon DEF RefusalInv
  <2> QED
    BY <2>1, <2>2
<1>3. RefusalInv => RefusalsAreReal
  BY DEF RefusalInv
<1>4. QED
  BY <1>1, <1>2, <1>3, WalkHolds, WalkIsTyped, PTL DEF CompositeSpec

-----------------------------------------------------------------------------
(* A section split into fragments and put together again.                  *)

\* A set of natural numbers that is not empty has a least one.
LEMMA LeastOne ==
  ASSUME NEW S \in SUBSET Nat, S # {} PROVE \E x \in S : \A y \in S : x <= y
<1>1. PICK x \in S : \A y \in S : ~ (<<y, x>> \in OpToRel(<, Nat))
  BY NatLessThanWellFounded, WFMin, Zenon
<1>2. \A y \in S : x <= y
  <2> SUFFICES ASSUME NEW y \in S PROVE x <= y
    BY Zenon
  <2>1. <<y, x>> \in Nat \X Nat
    BY Zenon
  <2>2. <<y, x>>[1] = y /\ <<y, x>>[2] = x
    OBVIOUS
  <2>3. ~ (<<y, x>>[1] < <<y, x>>[2])
    BY <1>1, <2>1, Zenon DEF OpToRel
  <2> QED
    BY <2>2, <2>3, SMT
<1> QED
  BY <1>2, Zenon


Rises(s, n) == \A i, j \in 1..n : i < j => s[i] < s[j]

\* A finite set of numbers can be listed in its order.
LEMMA RisingListExists ==
  ASSUME NEW S \in SUBSET Nat, IsFiniteSet(S)
  PROVE  \E s \in [1..Cardinality(S) -> S] : Rises(s, Cardinality(S))
<1> DEFINE Lists(n) == \A A \in SUBSET Nat : IsFiniteSet(A) /\ Cardinality(A) = n =>
                         \E s \in [1..n -> A] : Rises(s, n)
           T == {n \in Nat : ~ Lists(n)}
<1>1. T = {}
  <2> SUFFICES ASSUME T # {} PROVE FALSE
    OBVIOUS
  <2>1. PICK n \in T : \A y \in T : n <= y
    <3>1. T \in SUBSET Nat
      OBVIOUS
    <3> QED
      BY <3>1, LeastOne, Zenon
  <2>2. PICK A \in SUBSET Nat : /\ IsFiniteSet(A) /\ Cardinality(A) = n
                                /\ ~ \E s \in [1..n -> A] : Rises(s, n)
    BY <2>1
  <2>n. n \in Nat
    BY <2>1
  <2>3. n # 0
    <3>1. CASE n = 0
      <4>1. [i \in 1..0 |-> 0] \in [1..0 -> A] /\ Rises([i \in 1..0 |-> 0], 0)
        BY SMT DEF Rises
      <4> QED
        BY <3>1, <4>1, <2>2
    <3> QED
      BY <3>1
  <2>4. n - 1 \in Nat /\ n - 1 \notin T
    <3> HIDE DEF T
    <3> QED
      BY <2>1, <2>n, <2>3, SMT
  <2>5. A # {}
    BY <2>2, <2>3, FS_EmptySet, Zenon
  <2>6. PICK x \in A : \A y \in A : x <= y
    BY <2>5, LeastOne, Zenon
  <2> DEFINE B == A \ {x}
  <2>7. IsFiniteSet(B) /\ Cardinality(B) = n - 1
    BY <2>2, <2>6, FS_RemoveElement, Zenon
  <2>8. B \in SUBSET Nat /\ B \subseteq A /\ \A y \in B : x < y
    BY <2>6, SMT
  <2>9. PICK t \in [1..(n - 1) -> B] : Rises(t, n - 1)
    BY <2>4, <2>7, <2>8, Zenon
  <2> HIDE DEF T, B
  <2> DEFINE s == [i \in 1..n |-> IF i = 1 THEN x ELSE t[i - 1]]
  <2>10. \A i \in 1..n : i # 1 => i - 1 \in 1..(n - 1) /\ t[i - 1] \in B
    BY <2>n, <2>9, SMT
  <2>11. s \in [1..n -> A]
    BY <2>10, <2>8, <2>6, Zenon
  <2>12. Rises(s, n)
    <3> SUFFICES ASSUME NEW i \in 1..n, NEW j \in 1..n, i < j PROVE s[i] < s[j]
      BY Zenon DEF Rises
    <3>1. j # 1 /\ s[j] = t[j - 1] /\ t[j - 1] \in B
      BY <2>10, <2>n, SMT
    <3>2. CASE i = 1
      BY <3>1, <3>2, <2>8, Zenon
    <3>3. CASE i # 1
      <4>1. s[i] = t[i - 1] /\ i - 1 \in 1..(n - 1) /\ j - 1 \in 1..(n - 1)
        BY <3>1, <3>3, <2>10, Zenon
      <4>2. i - 1 < j - 1
        BY <2>n, SMT
      <4> QED
        BY <3>1, <4>1, <4>2, <2>9, Zenon DEF Rises
    <3> QED
      BY <3>2, <3>3
  <2> QED
    BY <2>2, <2>11, <2>12, Zenon
<1>2. Cardinality(S) \in Nat
  BY FS_CardinalityType
<1>3. Lists(Cardinality(S))
  BY <1>1, <1>2
<1> QED
  BY <1>3, Zenon

\* .sort() of the keys lists each of them once.
LEMMA OrderFacts ==
  ASSUME NEW S \in SUBSET Keys, IsFiniteSet(S)
  PROVE  /\ InOrder(S) \in Seq(S) /\ Len(InOrder(S)) = Cardinality(S)
         /\ {InOrder(S)[i] : i \in 1..Cardinality(S)} = S
<1> DEFINE n == Cardinality(S)
<1>0. n \in Nat /\ S \in SUBSET Nat
  BY FS_CardinalityType, KeysAreOrdered
<1>1. PICK s \in [1..n -> S] : Rises(s, n)
  BY <1>0, RisingListExists, Zenon
<1> HIDE DEF n
<1>2. \A i, j \in 1..n : i # j => s[i] # s[j]
  <2> SUFFICES ASSUME NEW i \in 1..n, NEW j \in 1..n, i # j PROVE s[i] # s[j]
    OBVIOUS
  <2>1. s[i] \in Nat /\ s[j] \in Nat
    BY <1>0, <1>1
  <2>2. i < j \/ j < i
    BY <1>0, SMT
  <2>3. s[i] < s[j] \/ s[j] < s[i]
    BY <1>1, <2>2, Zenon DEF Rises
  <2> QED
    BY <2>1, <2>3, SMT
<1>3. s \in SetToSeqs(S) /\ \A i, j \in DOMAIN s : i < j => s[i] < s[j]
  BY <1>1, <1>2, Zenon DEF SetToSeqs, Rises, n
<1> DEFINE o == InOrder(S)
<1>4. o \in SetToSeqs(S)
  BY <1>3, Zenon DEF InOrder
<1> HIDE DEF o
<1>5. o \in [1..n -> S] /\ \A i, j \in 1..n : i # j => o[i] # o[j]
  BY <1>4, Zenon DEF SetToSeqs, n
<1>6. o \in Injection(1..n, S)
  BY <1>5, Zenon DEF Injection, IsInjective
<1>7. Cardinality(1..n) = n
  BY <1>0, FS_Interval, SMT
<1>8. o \in Surjection(1..n, S)
  BY <1>6, <1>7, FS_Injection, Zenon DEF n
<1>9. {o[i] : i \in 1..n} = S
  <2>1. \A t \in S : \E i \in 1..n : o[i] = t
    BY <1>8, Zenon DEF Surjection
  <2>2. \A i \in 1..n : o[i] \in S
    BY <1>5, Zenon
  <2> QED
    BY <2>1, <2>2, Zenon
<1>10. o \in Seq(S) /\ Len(o) = n
  BY <1>0, <1>5, SMT
<1> QED
  BY <1>9, <1>10 DEF o, n

-----------------------------------------------------------------------------

Directives == [external : BOOLEAN, parts : Seq(Keys), count : Nat, keyed : BOOLEAN]
Inlines == [external : BOOLEAN, rows : Seq(Row)]

\* While a section is out, its directive counts the fragments of the split, names
\* no other, and a fragment at hand holds the row its key stands for.
Out ==
  /\ section.count = Cardinality(DOMAIN truth)
  /\ \A i \in 1..Len(section.parts) : section.parts[i] \in DOMAIN truth
  /\ \A k \in DOMAIN truth : parts[k] # Nothing => parts[k].row = truth[k]

PartsInv ==
  /\ ~ section.external => section \in Inlines
  /\ section.external => section \in Directives /\ Out
  /\ parts \in [Keys -> Part \cup {Nothing}]
  /\ IsFiniteSet(DOMAIN truth) /\ DOMAIN truth \subseteq Keys
  /\ NeverASmallerCollection

\* What merges is the rows of the split, each once.
LEMMA MergingKeepsAll ==
  ASSUME PartsInv, section.external,
         DirectiveFault(section) = {}, PartFaults(section) = {}, MergeFaults(section) = {}
  PROVE  /\ Merged(section) \in Seq(Row)
         /\ Range(Merged(section)) = {truth[k] : k \in DOMAIN truth}
         /\ Len(Merged(section)) = Cardinality(DOMAIN truth)
<1>1. section \in Directives /\ Out
  BY Zenon DEF PartsInv
<1> DEFINE p == section.parts
           n == Len(p)
           K == DOMAIN truth
<1>2. p \in Seq(Keys) /\ n \in Nat /\ DOMAIN p = 1..n
  BY <1>1, SMT DEF Directives
<1>3. section.count = n /\ ~ Repeats(p)
  BY Zenon DEF DirectiveFault
<1>4. \A i, j \in 1..n : i # j => p[i] # p[j]
  <2> SUFFICES ASSUME NEW i \in 1..n, NEW j \in 1..n, i # j PROVE p[i] # p[j]
    OBVIOUS
  <2> HIDE DEF p, n
  <2>1. i < j \/ j < i
    BY <1>2, SMT
  <2> QED
    BY <2>1, <1>2, <1>3, Zenon DEF Repeats
<1>5. p \in [1..n -> K]
  <2>1. \A i \in 1..n : p[i] \in K
    BY <1>1, Zenon DEF Out
  <2> HIDE DEF n, K
  <2> QED
    BY <1>2, <2>1, SMT
<1>6. IsFiniteSet(K) /\ Cardinality(K) = n /\ K \subseteq Keys
  BY <1>1, <1>3, Zenon DEF Out, PartsInv
<1>7. Cardinality(1..n) = n /\ IsFiniteSet(1..n)
  BY <1>2, FS_Interval, SMT
<1>8. \A k \in K : \E i \in 1..n : p[i] = k
  <2> HIDE DEF p, n, K
  <2>1. p \in Injection(1..n, K)
    BY <1>4, <1>5, Zenon DEF Injection, IsInjective
  <2>2. p \in Surjection(1..n, K)
    BY <2>1, <1>6, <1>7, FS_Injection, Zenon
  <2> QED
    BY <2>2, Zenon DEF Surjection
<1> DEFINE rows == RowsOf(section)
           R == Range(rows)
<1>9. DOMAIN rows = 1..n /\ \A i \in 1..n : rows[i] = parts[p[i]].row
  BY <1>2, Zenon DEF RowsOf
<1>10. \A i \in 1..n : parts[p[i]] # Nothing
  BY <1>2, Zenon DEF PartFaults
<1>11. \A i \in 1..n : rows[i] = truth[p[i]] /\ rows[i] \in Row
  <2> SUFFICES ASSUME NEW i \in 1..n PROVE rows[i] = truth[p[i]] /\ rows[i] \in Row
    OBVIOUS
  <2>1. p[i] \in K /\ parts[p[i]] # Nothing
    BY <1>5, <1>10
  <2>2. parts[p[i]] \in Part
    BY <2>1, <1>6, Zenon DEF PartsInv
  <2>3. parts[p[i]].row \in Row
    BY <2>2, SMT DEF Part
  <2> QED
    BY <2>1, <2>3, <1>9, <1>1, Zenon DEF Out
<1>12. R = {truth[k] : k \in K}
  <2>1. R = {rows[i] : i \in 1..n}
    BY <1>9, Zenon DEF Range
  <2> HIDE DEF R, rows, p, n, K
  <2> QED
    BY <2>1, <1>5, <1>8, <1>11, SMT
<1>13. /\ \A i \in 1..n : rows[i].key # NoKey
       /\ \A i \in 1..n : ~ \E j \in 1..(i - 1) : rows[j].key = rows[i].key
  BY <1>9, Zenon DEF MergeFaults
<1>14. \A i, j \in 1..n : i # j => rows[i].key # rows[j].key
  <2> SUFFICES ASSUME NEW i \in 1..n, NEW j \in 1..n, i # j PROVE rows[i].key # rows[j].key
    OBVIOUS
  <2> HIDE DEF rows, n
  <2>1. i \in 1..(j - 1) \/ j \in 1..(i - 1)
    BY <1>2, SMT
  <2> QED
    BY <2>1, <1>13, Zenon
<1>15. \A i \in 1..n : rows[i].key \in Keys
  BY <1>11, <1>13, SMT DEF Row
<1> DEFINE KS == {r.key : r \in R}
           kk == [i \in 1..n |-> rows[i].key]
<1>16. KS = {rows[i].key : i \in 1..n}
  BY <1>9, Zenon DEF Range
<1>17. IsFiniteSet(KS) /\ Cardinality(KS) = n /\ KS \subseteq Keys
  <2> HIDE DEF KS, rows, n
  <2>1. kk \in Surjection(1..n, KS)
    <3>1. kk \in [1..n -> KS]
      BY <1>16, Zenon
    <3>2. \A x \in KS : \E i \in 1..n : kk[i] = x
      BY <1>16, Zenon
    <3> QED
      BY <3>1, <3>2, Zenon DEF Surjection
  <2>2. kk \in Injection(1..n, KS)
    <3>1. kk \in [1..n -> KS] /\ DOMAIN kk = 1..n
      BY <1>16, Zenon
    <3>2. \A i, j \in 1..n : kk[i] = kk[j] => i = j
      BY <1>14, Zenon
    <3> QED
      BY <3>1, <3>2, Zenon DEF Injection, IsInjective
  <2> HIDE DEF kk
  <2>3. IsFiniteSet(KS) /\ Cardinality(KS) = n
    BY <2>1, <2>2, <1>7, FS_Surjection, Zenon
  <2> QED
    BY <2>3, <1>15, <1>16, Zenon
<1> DEFINE o == InOrder(KS)
<1>18. o \in Seq(KS) /\ Len(o) = n /\ {o[i] : i \in 1..n} = KS
  <2> HIDE DEF KS, n
  <2> QED
    BY <1>17, OrderFacts, Zenon
<1> DEFINE Of(i) == CHOOSE r \in R : r.key = o[i]
           m == [i \in 1..n |-> Of(i)]
<1>19. Merged(section) = m
  <2>1. DOMAIN o = 1..n
    <3> HIDE DEF o, n, KS
    <3> QED
      BY <1>18, SMT
  <2> QED
    BY <2>1, Zenon DEF Merged
<1>o. \A i \in 1..n : Of(i) \in R /\ Of(i).key = o[i]
  <2> SUFFICES ASSUME NEW i \in 1..n PROVE Of(i) \in R /\ Of(i).key = o[i]
    OBVIOUS
  <2>1. o[i] \in KS
    <3> HIDE DEF o, KS
    <3> QED
      BY <1>18, Zenon
  <2> HIDE DEF o
  <2> QED
    BY <2>1, Zenon
<1>21. \A r, q \in R : r.key = q.key => r = q
  <2>1. R = {rows[i] : i \in 1..n}
    BY <1>9, Zenon DEF Range
  <2> HIDE DEF R, rows
  <2> SUFFICES ASSUME NEW r \in R, NEW q \in R, r.key = q.key PROVE r = q
    OBVIOUS
  <2>2. PICK i \in 1..n : r = rows[i]
    BY <2>1, Zenon
  <2>3. PICK j \in 1..n : q = rows[j]
    BY <2>1, Zenon
  <2> QED
    BY <2>2, <2>3, <1>14, Zenon
<1>22. R \subseteq Row
  <2>1. R = {rows[i] : i \in 1..n}
    BY <1>9, Zenon DEF Range
  <2> HIDE DEF R, rows
  <2> QED
    BY <2>1, <1>11, Zenon
<1>k. \A r \in R : r.key \in KS
  OBVIOUS
<1> HIDE DEF o, KS, R, Of
<1>d. DOMAIN m = 1..n
  OBVIOUS
<1>20. \A i \in 1..n : m[i] \in R /\ m[i].key = o[i]
  BY <1>o, Zenon
<1>23. m \in [1..n -> Row]
  BY <1>o, <1>22, Zenon
<1> HIDE DEF m
<1>24. Range(m) = R
  <2>1. Range(m) = {m[i] : i \in 1..n}
    BY <1>d, Zenon DEF Range
  <2>2. ASSUME NEW r \in R PROVE \E i \in 1..n : m[i] = r
    <3>1. PICK i \in 1..n : o[i] = r.key
      BY <1>k, <1>18, Zenon
    <3> QED
      BY <3>1, <1>20, <1>21, Zenon
  <2>3. \A i \in 1..n : m[i] \in R
    BY <1>20, Zenon
  <2>4. \A r \in R : r \in {m[i] : i \in 1..n}
    BY <2>2, Zenon
  <2>5. \A r \in {m[i] : i \in 1..n} : r \in R
    BY <2>3, Zenon
  <2> QED
    BY <2>1, <2>4, <2>5, Zenon
<1>25. m \in Seq(Row) /\ Len(m) = n
  BY <1>23, <1>2, SMT
<1> QED
  BY <1>6, <1>12, <1>19, <1>24, <1>25, Zenon

LEMMA PartsStart == PartsInit => PartsInv
<1> SUFFICES ASSUME PartsInit PROVE PartsInv
  OBVIOUS
<1>1. section \in Inlines /\ ~ section.external
  <2>1. PICK r \in Seq(Row) : section = Inline(r)
    BY RecordsAreRows, Zenon DEF PartsInit
  <2> QED
    BY <2>1, SMT DEF Inlines, Inline
<1>2. DOMAIN truth = {}
  BY SMT DEF PartsInit
<1>3. IsFiniteSet({})
  BY FS_EmptySet
<1>4. parts \in [Keys -> Part \cup {Nothing}]
  BY Zenon DEF PartsInit
<1>5. answer # {"resolved"}
  <2>1. answer = {"none"}
    BY Zenon DEF PartsInit
  <2> QED
    BY <2>1, SMT
<1> QED
  BY <1>1, <1>2, <1>3, <1>4, <1>5, Zenon DEF PartsInv, NeverASmallerCollection

\* A record that has rows, each with a key of its own.
LEMMA AcceptedRows ==
  ASSUME NEW rows \in Seq(Row), SplitRefusal(rows) = {}
  PROVE  /\ {rows[i].key : i \in DOMAIN rows} \subseteq Keys
         /\ IsFiniteSet({rows[i].key : i \in DOMAIN rows})
         /\ \A i \in DOMAIN rows : rows[i] \in Row
<1>1. DOMAIN rows = 1..Len(rows) /\ Len(rows) \in Nat /\ \A i \in DOMAIN rows : rows[i] \in Row
  BY SMT
<1> DEFINE bad == {i \in DOMAIN rows : rows[i].key = NoKey}
<1>2. bad = {}
  BY Zenon DEF SplitRefusal
<1>3. \A i \in DOMAIN rows : rows[i].key \in Keys
  BY <1>1, <1>2, SMT DEF Row
<1>4. IsFiniteSet(1..Len(rows))
  BY <1>1, FS_Interval, SMT
<1> DEFINE ids == {rows[i].key : i \in DOMAIN rows}
           f == [i \in 1..Len(rows) |-> rows[i].key]
<1>5. f \in Surjection(1..Len(rows), ids)
  <2>1. f \in [1..Len(rows) -> ids] /\ \A x \in ids : \E i \in 1..Len(rows) : f[i] = x
    BY <1>1, Zenon
  <2> QED
    BY <2>1, Zenon DEF Surjection
<1> HIDE DEF f
<1>6. IsFiniteSet(ids)
  <2> HIDE DEF ids
  <2> QED
    BY <1>4, <1>5, FS_Surjection, Zenon
<1> QED
  BY <1>1, <1>3, <1>6, Zenon

LEMMA SplittingKeepsParts == ASSUME PartsInv, Externalize PROVE PartsInv'
<1>1. ~ section.external /\ section \in Inlines
  BY Zenon DEF PartsInv, Externalize
<1> DEFINE rows == section.rows
           ids == {rows[i].key : i \in DOMAIN rows}
           rowOf == [k \in ids |-> CHOOSE r \in Range(rows) : r.key = k]
<1>2. rows \in Seq(Row)
  BY <1>1, SMT DEF Inlines
<1>3. CASE SplitRefusal(rows) # {}
  <2>1. answer' = SplitRefusal(rows) /\ UNCHANGED <<section, parts, truth>>
    BY <1>3, Zenon DEF Externalize
  <2>2. answer' # {"resolved"}
    <3>1. SplitRefusal(rows) \in {{}, {"COMP-DIRECTIVE-MALFORMED"}, {"COMP-DUP-KEY"}}
      BY Zenon DEF SplitRefusal
    <3> QED
      BY <2>1, <3>1, SMT
  <2> QED
    BY <2>1, <2>2, <1>1, Zenon DEF PartsInv, NeverASmallerCollection, Out
<1>4. CASE SplitRefusal(rows) = {}
  <2>1. /\ section' = Directive(InOrder(ids), Cardinality(ids), TRUE)
        /\ parts' = [k \in Keys |-> IF k \in ids THEN FragmentOf(rowOf[k]) ELSE parts[k]]
        /\ answer' = {"split"} /\ truth' = rowOf
    BY <1>4, Zenon DEF Externalize
  <2>2. ids \subseteq Keys /\ IsFiniteSet(ids) /\ \A i \in DOMAIN rows : rows[i] \in Row
    BY <1>2, <1>4, AcceptedRows, Zenon
  <2>3. /\ InOrder(ids) \in Seq(ids) /\ Len(InOrder(ids)) = Cardinality(ids)
        /\ Cardinality(ids) \in Nat
    <3> HIDE DEF ids
    <3> QED
      BY <2>2, OrderFacts, FS_CardinalityType, Zenon
  <2>4. \A k \in ids : rowOf[k] \in Row
    <3> SUFFICES ASSUME NEW k \in ids PROVE (CHOOSE r \in Range(rows) : r.key = k) \in Row
      BY Zenon
    <3>1. \E r \in Range(rows) : r.key = k
      BY Zenon DEF Range
    <3>2. Range(rows) \subseteq Row
      BY <2>2, Zenon DEF Range
    <3> QED
      BY <3>1, <3>2, Zenon
  <2>5. DOMAIN rowOf = ids
    OBVIOUS
  <2> HIDE DEF ids, rowOf
  <2>6. /\ section' \in Directives /\ section'.external /\ section'.count = Cardinality(ids)
        /\ section'.parts = InOrder(ids)
    <3>1. InOrder(ids) \in Seq(Keys)
      BY <2>2, <2>3, SMT
    <3> QED
      BY <2>1, <2>3, <3>1, SMT DEF Directive, Directives
  <2>7. \A k \in ids : FragmentOf(rowOf[k]) \in Part /\ FragmentOf(rowOf[k]).row = rowOf[k]
    BY <2>4, SMT DEF FragmentOf, Part
  <2>8. parts' \in [Keys -> Part \cup {Nothing}]
    <3>1. parts \in [Keys -> Part \cup {Nothing}]
      BY Zenon DEF PartsInv
    <3> HIDE DEF rows
    <3> QED
      BY <2>1, <2>7, <3>1, Zenon
  <2>9. \A k \in ids : parts'[k].row = rowOf[k]
    BY <2>1, <2>2, <2>7, Zenon
  <2>10. \A i \in 1..Len(InOrder(ids)) : InOrder(ids)[i] \in ids
    BY <2>3, SMT
  <2>11. answer' # {"resolved"}
    BY <2>1, SMT
  <2>12. Out'
    <3>1. section'.count = Cardinality(DOMAIN truth')
      BY <2>1, <2>5, <2>6, Zenon
    <3>2. \A i \in 1..Len(section'.parts) : section'.parts[i] \in DOMAIN truth'
      BY <2>1, <2>5, <2>6, <2>10, Zenon
    <3>3. \A k \in DOMAIN truth' : parts'[k] # Nothing => parts'[k].row = truth'[k]
      BY <2>1, <2>5, <2>9, Zenon
    <3> QED
      BY <3>1, <3>2, <3>3, Zenon DEF Out
  <2> QED
    BY <2>1, <2>2, <2>5, <2>6, <2>8, <2>11, <2>12, Zenon DEF PartsInv, NeverASmallerCollection
<1> QED
  BY <1>3, <1>4

LEMMA ResolvingKeepsParts == ASSUME PartsInv, Resolve PROVE PartsInv'
<1>1. section.external /\ section \in Directives /\ Out /\ UNCHANGED <<parts, truth>>
  BY Zenon DEF PartsInv, Resolve
<1>2. /\ parts' \in [Keys -> Part \cup {Nothing}]
      /\ IsFiniteSet(DOMAIN truth') /\ DOMAIN truth' \subseteq Keys
  BY <1>1, Zenon DEF PartsInv
<1>3. ASSUME NEW codes, RefuseSection(codes), codes # {"resolved"} PROVE PartsInv'
  <2>1. section' = section /\ answer' # {"resolved"}
    BY <1>3, Zenon DEF RefuseSection
  <2> QED
    BY <1>1, <1>2, <2>1, Zenon DEF PartsInv, NeverASmallerCollection, Out
<1>4. ASSUME NEW rs \in Seq(Row), section' = Inline(rs),
             answer' = {"resolved"} =>
               Range(rs) = {truth[k] : k \in DOMAIN truth} /\ Len(rs) = Cardinality(DOMAIN truth)
      PROVE  PartsInv'
  <2>1. section' \in Inlines /\ section'.rows = rs /\ ~ section'.external
    BY <1>4, SMT DEF Inline, Inlines
  <2> QED
    BY <1>1, <1>2, <1>4, <2>1, Zenon DEF PartsInv, NeverASmallerCollection
<1>5. CASE DirectiveFault(section) # {}
  <2>1. RefuseSection(DirectiveFault(section))
    BY <1>5, Zenon DEF Resolve
  <2>2. DirectiveFault(section) # {"resolved"}
    <3>1. DirectiveFault(section) \in
            {{}, {"COMP-DIRECTIVE-MALFORMED"}, {"COMP-DUP-KEY"}, {"COMP-COUNT-MISMATCH"}}
      BY Zenon DEF DirectiveFault
    <3> QED
      BY <3>1, SMT
  <2> QED
    BY <2>1, <2>2, <1>3, Zenon
<1>6. CASE DirectiveFault(section) = {} /\ PartFaults(section) # {}
  <2>1. RefuseSection(PartFaults(section))
    BY <1>6, Zenon DEF Resolve
  <2>2. PartFaults(section) # {"resolved"}
    <3>1. \A c \in PartFaults(section) : c = "COMP-UNRESOLVED" \/ c = "COMP-SECTION-MISMATCH"
      BY Zenon DEF PartFaults
    <3>2. "resolved" \notin PartFaults(section)
      BY <3>1, SMT
    <3> QED
      BY <3>2, Zenon
  <2> QED
    BY <2>1, <2>2, <1>3, Zenon
<1>7. CASE DirectiveFault(section) = {} /\ PartFaults(section) = {} /\ Whole(section) # {}
  <2>1. \/ RefuseSection({"COMP-DIRECTIVE-MALFORMED"})
        \/ answer' = {"whole"} /\ section' = Inline(RowsOf(section))
    BY <1>7, Zenon DEF Resolve
  <2>2. {"COMP-DIRECTIVE-MALFORMED"} # {"resolved"} /\ {"whole"} # {"resolved"}
    BY SMT
  <2>3. RowsOf(section) \in Seq(Row)
    <3>1. /\ section.parts \in Seq(Keys) /\ DOMAIN section.parts = 1..Len(section.parts)
          /\ Len(section.parts) \in Nat
      BY <1>1, SMT DEF Directives
    <3>2. ASSUME NEW i \in 1..Len(section.parts) PROVE parts[section.parts[i]].row \in Row
      <4>1. section.parts[i] \in Keys
        BY <3>1, SMT
      <4>2. parts[section.parts[i]] # Nothing
        BY <1>7, <3>1, Zenon DEF PartFaults
      <4>3. parts[section.parts[i]] \in Part
        BY <4>1, <4>2, Zenon DEF PartsInv
      <4> QED
        BY <4>3, SMT DEF Part
    <3>3. RowsOf(section) \in [1..Len(section.parts) -> Row]
      BY <3>1, <3>2, Zenon DEF RowsOf
    <3> QED
      BY <3>1, <3>3, SMT
  <2> QED
    BY <2>1, <2>2, <2>3, <1>3, <1>4, Zenon
<1>8. CASE DirectiveFault(section) = {} /\ PartFaults(section) = {} /\ Whole(section) = {}
  <2>1. \/ RefuseSection({"COMP-DIRECTIVE-MALFORMED"})
        \/ MergeFaults(section) # {} /\ RefuseSection(MergeFaults(section))
        \/ MergeFaults(section) = {} /\ answer' = {"resolved"} /\ section' = Inline(Merged(section))
    BY <1>8, Zenon DEF Resolve
  <2>2. {"COMP-DIRECTIVE-MALFORMED"} # {"resolved"}
    BY SMT
  <2>3. MergeFaults(section) # {"resolved"}
    <3>1. \A c \in MergeFaults(section) : c = "COMP-DIRECTIVE-MALFORMED" \/ c = "COMP-DUP-KEY"
      BY Zenon DEF MergeFaults
    <3>2. "resolved" \notin MergeFaults(section)
      BY <3>1, SMT
    <3> QED
      BY <3>2, Zenon
  <2>4. CASE MergeFaults(section) = {} /\ section' = Inline(Merged(section))
    BY <2>4, <1>1, <1>4, <1>8, MergingKeepsAll, Zenon
  <2> QED
    BY <2>1, <2>2, <2>3, <2>4, <1>3, Zenon
<1> QED
  BY <1>5, <1>6, <1>7, <1>8, Zenon

\* A change to a package leaves it out, with as many fragments counted.
LEMMA ChangingKeepsParts ==
  ASSUME PartsInv, Change,
         section' \in Directives, section'.external, section'.count = section.count,
         parts' \in [Keys -> Part \cup {Nothing}], DOMAIN truth' = DOMAIN truth,
         \A i \in 1..Len(section'.parts) : section'.parts[i] \in DOMAIN truth,
         \A k \in DOMAIN truth : parts'[k] # Nothing => parts'[k].row = truth'[k]
  PROVE  PartsInv'
<1>1. Out
  BY Zenon DEF PartsInv, Change
<1>2. Out'
  BY <1>1, Zenon DEF Out
<1>3. answer' # {"resolved"}
  <2>1. answer' = {"none"}
    BY Zenon DEF Change
  <2> QED
    BY <2>1, SMT
<1> QED
  BY <1>2, <1>3, Zenon DEF PartsInv, NeverASmallerCollection

LEMMA PackagesTravel ==
  ASSUME PartsInv, \/ ChangeDirective
                   \/ \E k \in Keys : EditPart(k) \/ LosePart(k) \/ RefilePart(k)
  PROVE  PartsInv'
<1>0. Change
  BY Zenon DEF ChangeDirective, EditPart, LosePart, RefilePart
<1>1. section.external /\ section \in Directives /\ Out
  BY <1>0, Zenon DEF PartsInv, Change
<1>2. /\ parts \in [Keys -> Part \cup {Nothing}]
      /\ \A i \in 1..Len(section.parts) : section.parts[i] \in DOMAIN truth
      /\ \A k \in DOMAIN truth : parts[k] # Nothing => parts[k].row = truth[k]
      /\ DOMAIN truth \subseteq Keys
  BY <1>1, Zenon DEF PartsInv, Out
<1>3. CASE ChangeDirective
  <2>1. parts' = parts /\ truth' = truth
    BY <1>3, Zenon DEF ChangeDirective
  <2>2. /\ section' \in Directives /\ section'.external /\ section'.count = section.count
        /\ \A i \in 1..Len(section'.parts) : section'.parts[i] \in DOMAIN truth
    <3> DEFINE p == section.parts
    <3>1. p \in Seq(Keys) /\ Len(p) \in Nat /\ DOMAIN p = 1..Len(p)
      BY <1>1, SMT DEF Directives
    <3>2. ASSUME NEW q \in Seq(Keys), section' = [section EXCEPT !.parts = q],
                 \A i \in 1..Len(q) : q[i] \in DOMAIN truth
          PROVE  /\ section' \in Directives /\ section'.external /\ section'.count = section.count
                 /\ \A i \in 1..Len(section'.parts) : section'.parts[i] \in DOMAIN truth
      <4>1. /\ section' \in Directives /\ section'.external
            /\ section'.count = section.count /\ section'.parts = q
        BY <1>1, <3>2, SMT DEF Directives
      <4> QED
        BY <4>1, <3>2, Zenon
    <3>3. CASE section' = [section EXCEPT !.keyed = FALSE]
      <4>1. /\ section' \in Directives /\ section'.external
            /\ section'.count = section.count /\ section'.parts = p
        <5>1. PICK b \in BOOLEAN : section' = [section EXCEPT !.keyed = b]
          BY <3>3, Zenon
        <5> QED
          BY <1>1, <5>1, SMT DEF Directives
      <4> QED
        BY <4>1, <1>2, Zenon
    <3>4. CASE p # <<>> /\ section' = [section EXCEPT !.parts = Front(@)]
      <4>1. Len(p) - 1 \in 0..Len(p)
        <5> HIDE DEF p
        <5> QED
          BY <3>1, <3>4, SMT
      <4>2. /\ Front(p) \in Seq(Keys) /\ Len(Front(p)) = Len(p) - 1
            /\ \A i \in 1..(Len(p) - 1) : Front(p)[i] = p[i]
        <5> HIDE DEF p
        <5> QED
          BY <3>1, <4>1, SubSeqProperties, SMT DEF Front
      <4>3. \A i \in 1..(Len(p) - 1) : i \in 1..Len(p)
        <5> HIDE DEF p
        <5> QED
          BY <3>1, SMT
      <4>4. \A i \in 1..Len(Front(p)) : Front(p)[i] \in DOMAIN truth
        BY <4>2, <4>3, <1>2, Zenon
      <4> QED
        BY <3>2, <3>4, <4>2, <4>4, Zenon
    <3>5. CASE section' = [section EXCEPT !.parts = Reverse(@)]
      <4>1. /\ Reverse(p) \in Seq(Keys) /\ Len(Reverse(p)) = Len(p)
            /\ \A i \in 1..Len(p) : Reverse(p)[i] = p[(Len(p) - i) + 1]
        <5> HIDE DEF p
        <5> QED
          BY <3>1, SMT DEF Reverse
      <4>2. \A i \in 1..Len(p) : (Len(p) - i) + 1 \in 1..Len(p)
        <5> HIDE DEF p
        <5> QED
          BY <3>1, SMT
      <4>3. \A i \in 1..Len(Reverse(p)) : Reverse(p)[i] \in DOMAIN truth
        BY <4>1, <4>2, <1>2, Zenon
      <4> QED
        BY <3>2, <3>5, <4>1, <4>3, Zenon
    <3>6. ASSUME NEW i \in DOMAIN p, NEW j \in DOMAIN p,
                 section' = [section EXCEPT !.parts[i] = p[j]]
          PROVE  /\ section' \in Directives /\ section'.external /\ section'.count = section.count
                 /\ \A n \in 1..Len(section'.parts) : section'.parts[n] \in DOMAIN truth
      <4> DEFINE q == [p EXCEPT ![i] = p[j]]
      <4>1. /\ q \in Seq(Keys) /\ Len(q) = Len(p)
            /\ \A n \in 1..Len(p) : q[n] = p[n] \/ q[n] = p[j]
        <5> HIDE DEF p
        <5> QED
          BY <3>1, SMT
      <4>2. section' = [section EXCEPT !.parts = q]
        BY <3>6, Zenon
      <4>3. \A n \in 1..Len(q) : q[n] \in DOMAIN truth
        BY <4>1, <3>1, <3>6, <1>2, Zenon
      <4> HIDE DEF q
      <4> QED
        BY <3>2, <4>1, <4>2, <4>3, Zenon
    <3> QED
      BY <1>3, <3>3, <3>4, <3>5, <3>6, Zenon DEF ChangeDirective
  <2> QED
    BY <1>0, <1>2, <2>1, <2>2, ChangingKeepsParts, Zenon
<1>4. ASSUME NEW k \in Keys, EditPart(k) \/ LosePart(k) \/ RefilePart(k) PROVE PartsInv'
  <2>1. section' = section /\ parts[k] # Nothing
    BY <1>4, Zenon DEF EditPart, LosePart, RefilePart
  <2>2. parts[k] \in Part
    BY <1>2, <2>1, Zenon
  <2>3. CASE EditPart(k)
    <3>1. PICK r \in Row : parts' = [parts EXCEPT ![k].row = r] /\ truth' = [truth EXCEPT ![k] = r]
      BY <2>3, Zenon DEF EditPart
    <3>2. k \in DOMAIN truth
      BY <2>3, Zenon DEF EditPart
    <3> DEFINE e == [parts[k] EXCEPT !.row = r]
    <3>3. e \in Part /\ e.row = r
      BY <2>2, SMT DEF Part
    <3>4. parts' = [parts EXCEPT ![k] = e]
      BY <3>1, Zenon
    <3> HIDE DEF e
    <3>5. parts' \in [Keys -> Part \cup {Nothing}]
      BY <1>2, <3>3, <3>4, Zenon
    <3>6. DOMAIN truth' = DOMAIN truth
      BY <3>1, Zenon
    <3>7. \A h \in DOMAIN truth : parts'[h] # Nothing => parts'[h].row = truth'[h]
      BY <1>2, <3>1, <3>3, <3>4, Zenon
    <3> QED
      BY <1>0, <1>1, <1>2, <2>1, <3>5, <3>6, <3>7, ChangingKeepsParts, Zenon
  <2>4. CASE LosePart(k) \/ RefilePart(k)
    <3>1. truth' = truth
      BY <2>4, Zenon DEF LosePart, RefilePart
    <3>2. PICK e \in Part \cup {Nothing} :
            parts' = [parts EXCEPT ![k] = e] /\ (e # Nothing => e.row = parts[k].row)
      <4>1. CASE LosePart(k)
        BY <4>1, Zenon DEF LosePart
      <4>2. CASE RefilePart(k)
        <5> DEFINE a == [parts[k] EXCEPT !.home = FALSE]
                   b == [parts[k] EXCEPT !.member = FALSE]
        <5>h. ASSUME NEW v \in BOOLEAN, NEW f \in Part
              PROVE  /\ [f EXCEPT !.home = v] \in Part /\ [f EXCEPT !.home = v].row = f.row
                     /\ [f EXCEPT !.member = v] \in Part /\ [f EXCEPT !.member = v].row = f.row
          BY <5>h, SMT DEF Part
        <5>1. a \in Part /\ a.row = parts[k].row /\ b \in Part /\ b.row = parts[k].row
          BY <2>2, <5>h, Zenon
        <5>2. parts' = [parts EXCEPT ![k] = a] \/ parts' = [parts EXCEPT ![k] = b]
          BY <4>2, Zenon DEF RefilePart
        <5> HIDE DEF a, b
        <5> QED
          BY <5>1, <5>2, Zenon
      <4> QED
        BY <2>4, <4>1, <4>2
    <3>3. parts' \in [Keys -> Part \cup {Nothing}]
      BY <1>2, <3>2, Zenon
    <3>4. \A h \in DOMAIN truth : parts'[h] # Nothing => parts'[h].row = truth[h]
      BY <1>2, <2>1, <3>2, Zenon
    <3> QED
      BY <1>0, <1>1, <1>2, <2>1, <3>1, <3>3, <3>4, ChangingKeepsParts, Zenon
  <2> QED
    BY <1>4, <2>3, <2>4
<1> QED
  BY <1>3, <1>4, Zenon

\* UW_COMPOSITION 3.6: whatever becomes of a package on its way, what resolves
\* has the row of every fragment of the split and no other.
THEOREM CollectionsStayWhole == PartsSpec => []NeverASmallerCollection
<1>1. PartsInit => PartsInv
  BY PartsStart
<1>2. PartsInv /\ [PartsNext]_partsVars => PartsInv'
  <2> SUFFICES ASSUME PartsInv, [PartsNext]_partsVars PROVE PartsInv'
    OBVIOUS
  <2>1. CASE UNCHANGED partsVars
    BY <2>1, Zenon DEF partsVars, PartsInv, Out, NeverASmallerCollection
  <2>2. CASE PartsNext
    BY <2>2, SplittingKeepsParts, ResolvingKeepsParts, PackagesTravel, Zenon DEF PartsNext
  <2> QED
    BY <2>1, <2>2
<1>3. PartsInv => NeverASmallerCollection
  BY Zenon DEF PartsInv
<1> QED
  BY <1>1, <1>2, <1>3, PTL DEF PartsSpec

-----------------------------------------------------------------------------
(* Loads of the lake.                                                      *)

\* What holds of the lists and survives concatenation holds of their flattening.
LEMMA FlatteningKeeps ==
  ASSUME NEW S, NEW G \in SUBSET Seq(S), <<>> \in G,
         \A s, t \in G : s \o t \in G,
         NEW ss \in Seq(G)
  PROVE  FlattenSeq(ss) \in G
<1> DEFINE n == Len(ss)
<1> DEFINE Flat(f) == f = [i \in 1..n |-> IF i = 1 THEN ss[i] ELSE f[i - 1] \o ss[i]]
<1> DEFINE Upto(f, k) ==
      \A i \in 1..k : f[i] = IF i = 1 THEN ss[i] ELSE f[i - 1] \o ss[i]
<1>n. n \in Nat /\ \A i \in 1..n : ss[i] \in G
  BY SMT
<1>1. CASE n = 0
  <2>1. FlattenSeq(ss) = ss /\ ss = <<>>
    BY <1>1, SMT DEF FlattenSeq
  <2> QED
    BY <2>1
<1>2. CASE n # 0
  <2> DEFINE T == {k \in 0..n : ~ \E g \in [1..k -> G] : Upto(g, k)}
  <2>1. T = {}
    <3> SUFFICES ASSUME T # {} PROVE FALSE
      OBVIOUS
    <3>1. T \in SUBSET Nat
      BY <1>n
    <3>2. PICK k \in T : \A y \in T : k <= y
      BY <3>1, LeastOne, Zenon
    <3>3. k # 0
      <4>1. [i \in 1..0 |-> <<>>] \in [1..0 -> G] /\ Upto([i \in 1..0 |-> <<>>], 0)
        BY SMT
      <4> QED
        BY <4>1, <3>2
    <3>4. k \in 1..n /\ k - 1 \in 0..n /\ k - 1 \notin T
      <4>1. k \in 0..n
        BY <3>2
      <4> HIDE DEF T
      <4> QED
        BY <4>1, <3>2, <3>3, <1>n, SMT
    <3>5. PICK g \in [1..(k - 1) -> G] : Upto(g, k - 1)
      BY <3>4, Zenon
    <3> DEFINE h == [i \in 1..k |-> IF i < k THEN g[i]
                                     ELSE IF k = 1 THEN ss[k] ELSE g[k - 1] \o ss[k]]
    <3>6. ss[k] \in G /\ (k # 1 => g[k - 1] \in G)
      BY <3>4, <1>n, <3>5, SMT
    <3>7. k # 1 => g[k - 1] \o ss[k] \in G
      BY <3>6, Zenon
    <3>8. h \in [1..k -> G]
      BY <3>4, <3>5, <3>6, <3>7, SMT
    <3>9. Upto(h, k)
      <4>1. ASSUME NEW i \in 1..(k - 1) PROVE h[i] = g[i]
        <5>1. i \in 1..k /\ i < k
          BY <3>4, <1>n, SMT
        <5> QED
          BY <5>1, Zenon
      <4>2. h[k] = IF k = 1 THEN ss[k] ELSE g[k - 1] \o ss[k]
        BY <3>4, SMT
      <4> HIDE DEF h, T
      <4>3. ASSUME NEW i \in 1..k PROVE h[i] = IF i = 1 THEN ss[i] ELSE h[i - 1] \o ss[i]
        <5>1. CASE i = k
          <6>1. k # 1 => h[k - 1] = g[k - 1]
            <7>1. k # 1 => k - 1 \in 1..(k - 1)
              BY <3>4, SMT
            <7> QED
              BY <4>1, <7>1, Zenon
          <6> QED
            BY <5>1, <6>1, <4>2, Zenon
        <5>2. CASE i # k
          <6>1. i \in 1..(k - 1) /\ (i # 1 => i - 1 \in 1..(k - 1))
            BY <5>2, <3>4, SMT
          <6> QED
            BY <6>1, <4>1, <3>5, Zenon
        <5> QED
          BY <5>1, <5>2
      <4> QED
        BY <4>3
    <3> QED
      BY <3>8, <3>9, <3>2
  <2>2. PICK g \in [1..n -> G] : Upto(g, n)
    <3>1. n \in 0..n
      BY <1>n, SMT
    <3> QED
      BY <2>1, <3>1, Zenon
  <2>3. Flat(g)
    BY <2>2
  <2> DEFINE f == CHOOSE f : Flat(f)
  <2>4. Flat(f)
    BY <2>3, Zenon
  <2>5. FlattenSeq(ss) = f[n]
    BY <1>2, Zenon DEF FlattenSeq
  <2> HIDE DEF f
  <2> DEFINE B == {i \in 1..n : f[i] \notin G}
  <2>6. B = {}
    <3> SUFFICES ASSUME B # {} PROVE FALSE
      OBVIOUS
    <3>1. B \in SUBSET Nat
      BY <1>n, SMT
    <3>2. PICK k \in B : \A y \in B : k <= y
      BY <3>1, LeastOne, Zenon
    <3>3. k \in 1..n /\ ss[k] \in G /\ f[k] = IF k = 1 THEN ss[k] ELSE f[k - 1] \o ss[k]
      BY <2>4, <1>n, <3>2
    <3>4. k # 1 => k - 1 \in 1..n /\ k - 1 \notin B
      <4>1. k # 1 => k - 1 \in 1..n /\ ~ (k <= k - 1)
        BY <3>3, <1>n, SMT
      <4> HIDE DEF B
      <4> QED
        BY <3>2, <4>1, Zenon
    <3>5. k # 1 => f[k - 1] \in G
      BY <3>4, Zenon
    <3>6. k # 1 => f[k - 1] \o ss[k] \in G
      BY <3>3, <3>5, Zenon
    <3> QED
      BY <3>2, <3>3, <3>6, Zenon
  <2>7. n \in 1..n
    BY <1>2, <1>n, SMT
  <2> QED
    BY <2>5, <2>6, <2>7, Zenon
<1> QED
  BY <1>1, <1>2, Zenon

-----------------------------------------------------------------------------
(* The lake.                                                               *)

\* The tables whose rows are those of documents, and the keys of all tables.
RowTables == {"uw_documents", "uw_facts", "uw_receipts", "uw_source_evidence"}

Keyed ==
  (RowTables \X Digests)
    \cup ({"uw_packages"} \X PackageIds)
    \cup ({"uw_package_members"} \X PackageIds \X Members)
Stated ==
  [key : Keyed,
   row : [content : Digests \cup Versions, path : Paths \cup Digests \cup PackageIds]]

ParentKey(key) == <<"uw_packages", key[2]>>
IsMember(key) == key[1] = "uw_package_members"

\* A list of statements in which the package of a member comes before it.
Safe(s) ==
  \A n \in 1..Len(s) : IsMember(s[n].key) =>
    \E m \in 1..(n - 1) : s[m].key = ParentKey(s[n].key)

SafeLists == {s \in Seq(Stated) : Safe(s)}

\* Two such lists in a row are one.
LEMMA SafeConcat ==
  ASSUME NEW s \in SafeLists, NEW t \in SafeLists PROVE s \o t \in SafeLists
<1>1. /\ s \in Seq(Stated) /\ Safe(s) /\ Len(s) \in Nat
      /\ t \in Seq(Stated) /\ Safe(t) /\ Len(t) \in Nat
  BY SMT DEF SafeLists
<1>2. /\ s \o t \in Seq(Stated) /\ Len(s \o t) = Len(s) + Len(t)
      /\ \A i \in 1..(Len(s) + Len(t)) :
           (s \o t)[i] = IF i <= Len(s) THEN s[i] ELSE t[i - Len(s)]
  BY <1>1, ConcatProperties, SMT
<1> DEFINE u == s \o t
<1> HIDE DEF u
<1>3. ASSUME NEW n \in 1..Len(u), IsMember(u[n].key)
      PROVE  \E m \in 1..(n - 1) : u[m].key = ParentKey(u[n].key)
  <2>1. CASE n <= Len(s)
    <3>1. n \in 1..Len(s) /\ u[n] = s[n]
      BY <2>1, <1>1, <1>2, SMT DEF u
    <3>2. PICK m \in 1..(n - 1) : s[m].key = ParentKey(s[n].key)
      BY <3>1, <1>1, <1>3, Zenon DEF Safe
    <3>3. u[m] = s[m]
      BY <3>1, <1>1, <1>2, SMT DEF u
    <3> QED
      BY <3>1, <3>2, <3>3, Zenon
  <2>2. CASE ~ (n <= Len(s))
    <3>1. n - Len(s) \in 1..Len(t) /\ u[n] = t[n - Len(s)]
      BY <2>2, <1>1, <1>2, SMT DEF u
    <3>2. PICK m \in 1..(n - Len(s) - 1) : t[m].key = ParentKey(t[n - Len(s)].key)
      BY <3>1, <1>1, <1>3, Zenon DEF Safe
    <3>3. m + Len(s) \in 1..(n - 1) /\ u[m + Len(s)] = t[m]
      BY <3>1, <1>1, <1>2, SMT DEF u
    <3> QED
      BY <3>1, <3>2, <3>3, Zenon
  <2> QED
    BY <2>1, <2>2
<1> QED
  BY <1>2, <1>3, Zenon DEF u, Safe, SafeLists

\* Rows of documents have no parent, a package is stated before its members, and
\* so a whole plan states every parent first.
LEMMA RowsAreSafe ==
  ASSUME NEW ds \in Seq(DocumentRow), NEW table \in RowTables
  PROVE  PlanRows(table, ds) \in SafeLists
<1>1. PlanRows(table, ds) \in Seq(Stated)
  <2>1. ASSUME NEW i \in 1..Len(ds) PROVE PlanRow(table, ds[i]) \in Stated
    <3>0. ds[i] \in DocumentRow
      BY SMT
    <3>1. ds[i].digest \in Digests /\ ds[i].path \in Paths
      BY <3>0, SMT DEF DocumentRow
    <3> QED
      BY <3>1, SMT DEF PlanRow, Statement, Stated, Keyed, RowTables
  <2> QED
    BY <2>1, SMT DEF PlanRows
<1>2. ASSUME NEW n \in 1..Len(PlanRows(table, ds)) PROVE ~ IsMember(PlanRows(table, ds)[n].key)
  BY SMT DEF PlanRows, PlanRow, Statement, IsMember, RowTables
<1> QED
  BY <1>1, <1>2, Zenon DEF SafeLists, Safe

LEMMA ReceiptsAreSafe ==
  ASSUME NEW rs \in Seq(ReceiptRow) PROVE PlanReceipts(rs) \in SafeLists
<1>1. DOMAIN rs = 1..Len(rs) /\ Len(rs) \in Nat
  BY SMT
<1>2. ASSUME NEW i \in 1..Len(rs)
      PROVE  Statement(<<"uw_receipts", rs[i].digest>>,
                       [content |-> rs[i].digest, path |-> rs[i].subject]) \in Stated
  <2>1. rs[i] \in ReceiptRow
    BY SMT
  <2>2. rs[i].digest \in Digests /\ rs[i].subject \in Digests
    BY <2>1, SMT DEF ReceiptRow
  <2> QED
    BY <2>2, SMT DEF Statement, Stated, Keyed, RowTables
<1>3. PlanReceipts(rs) \in [1..Len(rs) -> Stated]
  BY <1>1, <1>2, Zenon DEF PlanReceipts
<1>4. PlanReceipts(rs) \in Seq(Stated) /\ Len(PlanReceipts(rs)) = Len(rs)
  BY <1>1, <1>3, SMT
<1>5. ASSUME NEW n \in 1..Len(rs) PROVE ~ IsMember(PlanReceipts(rs)[n].key)
  BY <1>1, SMT DEF PlanReceipts, Statement, IsMember
<1> QED
  BY <1>4, <1>5, Zenon DEF SafeLists, Safe

LEMMA PackagesAreSafe ==
  ASSUME NEW p \in PackageRow PROVE PlanPackage(p) \in SafeLists
<1>1. PlanMembers(p) \in Seq(Stated)
  <2>1. p.members \in Seq(Members \X Digests) /\ p.id \in PackageIds
    BY SMT DEF PackageRow
  <2>2. ASSUME NEW i \in 1..Len(p.members)
        PROVE Statement(<<"uw_package_members", p.id, p.members[i][1]>>,
               [content |-> p.members[i][2], path |-> p.id]) \in Stated
    BY <2>1, SMT DEF Statement, Stated, Keyed
  <2>3. DOMAIN p.members = 1..Len(p.members) /\ Len(p.members) \in Nat
    BY <2>1, SMT
  <2>4. PlanMembers(p) \in [1..Len(p.members) -> Stated]
    BY <2>2, <2>3, Zenon DEF PlanMembers
  <2> QED
    BY <2>3, <2>4, SMT
<1> DEFINE h == Statement(<<"uw_packages", p.id>>, [content |-> p.version, path |-> p.id])
<1>2. h \in Stated /\ h.key = <<"uw_packages", p.id>>
  BY SMT DEF Stated, Keyed, Statement, PackageRow
<1>3. \A n \in 1..Len(PlanMembers(p)) : PlanMembers(p)[n].key[2] = p.id
  BY SMT DEF PlanMembers, Statement, PackageRow
<1> HIDE DEF h
<1>4. /\ <<h>> \o PlanMembers(p) \in Seq(Stated)
      /\ Len(<<h>> \o PlanMembers(p)) = 1 + Len(PlanMembers(p))
      /\ \A i \in 1..(1 + Len(PlanMembers(p))) :
           (<<h>> \o PlanMembers(p))[i] = IF i <= 1 THEN h ELSE PlanMembers(p)[i - 1]
  <2>1. <<h>> \in Seq(Stated) /\ Len(<<h>>) = 1 /\ <<h>>[1] = h
    BY <1>2, SMT
  <2>2. Len(PlanMembers(p)) \in Nat
    BY <1>1, SMT
  <2> QED
    BY <1>1, <2>1, <2>2, ConcatProperties, SMT
<1> DEFINE u == <<h>> \o PlanMembers(p)
<1> HIDE DEF u
<1>5. ASSUME NEW n \in 1..Len(u), IsMember(u[n].key)
      PROVE  \E m \in 1..(n - 1) : u[m].key = ParentKey(u[n].key)
  <2>0. Len(PlanMembers(p)) \in Nat
    BY <1>1, SMT
  <2>1. u[1] = h
    BY <2>0, <1>4, SMT DEF u
  <2>2. n # 1
    BY <2>1, <1>2, <1>5, SMT DEF IsMember
  <2>3. u[n] = PlanMembers(p)[n - 1] /\ n - 1 \in 1..Len(PlanMembers(p)) /\ 1 \in 1..(n - 1)
    BY <2>0, <2>2, <1>4, SMT DEF u
  <2>4. ParentKey(u[n].key) = h.key
    BY <2>3, <1>2, <1>3, Zenon DEF ParentKey
  <2> QED
    BY <2>1, <2>3, <2>4, Zenon
<1>6. PlanPackage(p) = u
  BY Zenon DEF PlanPackage, u, h
<1> QED
  BY <1>4, <1>5, <1>6, Zenon DEF u, SafeLists, Safe

LEMMA PlansAreSafe == ASSUME NEW b \in Bundles PROVE Plan(b) \in SafeLists
<1>1. b.documents \in Seq(DocumentRow) /\ b.receipts \in Seq(ReceiptRow)
      /\ b.packages \in Seq(PackageRow)
  BY BundlesAreTyped, SMT
<1> DEFINE ps == [i \in DOMAIN b.packages |-> PlanPackage(b.packages[i])]
<1>2. ps \in Seq(SafeLists)
  <2>1. ASSUME NEW i \in 1..Len(b.packages) PROVE PlanPackage(b.packages[i]) \in SafeLists
    <3>1. b.packages[i] \in PackageRow
      BY <1>1, SMT
    <3> QED
      BY <3>1, PackagesAreSafe
  <2> QED
    BY <1>1, <2>1, SMT
<1>3. <<>> \in SafeLists
  BY SMT DEF SafeLists, Safe
<1>4. FlattenSeq(ps) \in SafeLists
  <2> HIDE DEF ps
  <2>1. SafeLists \in SUBSET Seq(Stated)
    BY Zenon DEF SafeLists
  <2> QED
    BY <1>2, <1>3, <2>1, SafeConcat, FlatteningKeeps, Zenon
<1> HIDE DEF ps
<1>5. \A t \in RowTables : PlanRows(t, b.documents) \in SafeLists
  BY <1>1, RowsAreSafe, Zenon
<1> DEFINE d == PlanRows("uw_documents", b.documents)
           f == PlanRows("uw_facts", b.documents)
           r == PlanReceipts(b.receipts)
           e == PlanRows("uw_source_evidence", b.documents)
<1>6. d \in SafeLists /\ f \in SafeLists /\ e \in SafeLists
  BY <1>5, SMT DEF RowTables
<1>7. r \in SafeLists
  BY <1>1, ReceiptsAreSafe
<1>8. Plan(b) = d \o f \o r \o FlattenSeq(ps) \o e
  BY Zenon DEF Plan, ps
<1> HIDE DEF d, f, r, e
<1>9. d \o f \in SafeLists
  BY <1>6, SafeConcat
<1>10. (d \o f) \o r \in SafeLists
  BY <1>7, <1>9, SafeConcat
<1>11. ((d \o f) \o r) \o FlattenSeq(ps) \in SafeLists
  BY <1>10, <1>4, SafeConcat
<1>12. (((d \o f) \o r) \o FlattenSeq(ps)) \o e \in SafeLists
  BY <1>11, <1>6, SafeConcat
<1> QED
  BY <1>8, <1>12

-----------------------------------------------------------------------------

Statuses == {"idle", "running", "failed", "refused", "done"}
Load == [bundle : Bundles \cup {NoBundle}, at : Nat, status : Statuses]

\* The statements of l before its n-th have left the database their rows.
Held(l, n) ==
  \A m \in 1..(n - 1) :
    /\ Statements(l)[m].key \in DOMAIN tables
    /\ (alone[l] /\ \A k \in 1..(n - 1) : Statements(l)[k].key = Statements(l)[m].key => k <= m)
         => HasRow(Statements(l)[m].key, Statements(l)[m].row)

Begun == {"running", "failed", "done"}

LoadSafe(l) ==
  /\ load[l].status # "refused"
  /\ load[l].status \in Begun => load[l].bundle \in Bundles
  /\ load[l].status \in {"running", "done"} =>
       load[l].at \in 1..(Len(Statements(l)) + 1) /\ Held(l, load[l].at)
  /\ load[l].status = "done" => load[l].at = Len(Statements(l)) + 1

LakeInv ==
  /\ load \in [Loaders -> Load] /\ DOMAIN alone = Loaders
  /\ \A l \in Loaders : LoadSafe(l)

LEMMA UpsertWrites ==
  ASSUME NEW s PROVE
    /\ DOMAIN Upsert(s) = DOMAIN tables \cup {s.key}
    /\ Upsert(s)[s.key] = s.row
    /\ \A k \in DOMAIN tables : k # s.key => Upsert(s)[k] = tables[k]
BY Zenon DEF Upsert

LEMMA PlanFacts ==
  ASSUME NEW b \in Bundles
  PROVE  /\ Len(Plan(b)) \in Nat /\ DOMAIN Plan(b) = 1..Len(Plan(b))
         /\ Safe(Plan(b))
<1>1. Plan(b) \in Seq(Stated) /\ Safe(Plan(b))
  BY PlansAreSafe, Zenon DEF SafeLists
<1> QED
  BY <1>1, SMT

\* What does not touch a load keeps it, its rows included.
LEMMA OtherLoadsAreKept ==
  ASSUME LakeInv, NEW l \in Loaders, load'[l] = load[l],
         DOMAIN tables \subseteq DOMAIN tables',
         alone'[l] => alone[l] /\ tables' = tables
  PROVE  LoadSafe(l)'
<1>1. Statements(l)' = Statements(l)
  BY Zenon DEF Statements
<1>2. LoadSafe(l)
  BY Zenon DEF LakeInv
<1>3. ASSUME NEW n, Held(l, n) PROVE Held(l, n)'
  BY <1>1, <1>3, Zenon DEF Held, HasRow
<1>4. QED
  BY <1>1, <1>2, <1>3, Zenon DEF LoadSafe

\* The parent of the next statement has been written, and rows are never deleted.
LEMMA StatementsAreAllowed ==
  ASSUME LakeInv, NEW l \in Loaders, Running(l)
  PROVE  ~ Unparented(NextStatement(l).key)
<1>1. /\ load[l].bundle \in Bundles /\ Held(l, load[l].at)
      /\ load[l].at \in 1..(Len(Statements(l)) + 1) /\ load[l].at <= Len(Statements(l))
  BY Zenon DEF LakeInv, LoadSafe, Running, Begun, Statements
<1> DEFINE s == Statements(l)
           n == load[l].at
<1>2. Len(s) \in Nat /\ Safe(s)
  BY <1>1, PlanFacts, Zenon DEF Statements
<1>3. NextStatement(l) = s[n]
  BY Zenon DEF NextStatement, Statements
<1>h. Held(l, n)
  BY <1>1
<1>4. n \in 1..Len(s)
  BY <1>1, <1>2, SMT
<1> SUFFICES ASSUME IsMember(s[n].key), ParentKey(s[n].key) \notin DOMAIN tables PROVE FALSE
  BY <1>3, Zenon DEF Unparented, IsMember, ParentKey
<1>5. PICK m \in 1..(n - 1) : s[m].key = ParentKey(s[n].key)
  BY <1>2, <1>4, Zenon DEF Safe
<1> HIDE DEF n, s
<1>6. s[m].key \in DOMAIN tables
  BY <1>h, Zenon DEF Held, s
<1> QED
  BY <1>5, <1>6, Zenon

\* The row just written is the last under its key; no other row changed.
LEMMA WritingKeepsHeld ==
  ASSUME LakeInv, NEW l \in Loaders, Execute(l)
  PROVE  LoadSafe(l)'
<1> DEFINE s == Statements(l)
<1>n. PICK n : n = load[l].at
  OBVIOUS
<1>1. /\ load[l].bundle \in Bundles /\ Held(l, n) /\ load[l].status = "running"
      /\ n \in 1..(Len(s) + 1) /\ n <= Len(s)
  BY <1>n, Zenon DEF LakeInv, LoadSafe, Running, Begun, Statements, Execute
<1>2. Len(s) \in Nat
  BY <1>1, PlanFacts, Zenon DEF Statements
<1>3. /\ load'[l].bundle = load[l].bundle /\ load'[l].status = "running" /\ load'[l].at = n + 1
  BY <1>n, <1>1, SMT DEF Execute, LakeInv, Load
<1>4. Statements(l)' = s
  BY <1>3, Zenon DEF Statements
<1>5. /\ DOMAIN tables' = DOMAIN tables \cup {s[n].key}
      /\ tables'[s[n].key] = s[n].row
      /\ \A k \in DOMAIN tables : k # s[n].key => tables'[k] = tables[k]
  BY <1>n, UpsertWrites, Zenon DEF Execute, Written, NextStatement, Statements
<1>6. alone'[l] => alone[l]
  BY Zenon DEF Execute, Written
<1>7. n \in 1..Len(s) /\ n + 1 \in 1..(Len(s) + 1)
  BY <1>1, <1>2, SMT
<1>i. \A m \in 1..((n + 1) - 1) : m \in 1..n /\ (m # n => m \in 1..(n - 1))
  BY <1>7, <1>2, SMT
<1>j. /\ \A m \in 1..(n - 1) : m \in 1..((n + 1) - 1) /\ ~ (n <= m)
      /\ n \in 1..((n + 1) - 1)
  BY <1>7, <1>2, SMT
<1>8. Held(l, n + 1)'
  <2> SUFFICES ASSUME NEW m \in 1..((n + 1) - 1)
               PROVE  /\ s[m].key \in DOMAIN tables'
                      /\ (alone'[l] /\ \A k \in 1..((n + 1) - 1) : s[k].key = s[m].key => k <= m)
                           => s[m].key \in DOMAIN tables' /\ tables'[s[m].key] = s[m].row
    BY <1>4, Zenon DEF Held, HasRow
  <2>0. Held(l, n)
    BY <1>1
  <2> HIDE DEF s
  <2>1. CASE m = n
    BY <2>1, <1>5, Zenon
  <2>2. CASE m # n
    <3>1. m \in 1..(n - 1)
      BY <2>2, <1>i
    <3>2. s[m].key \in DOMAIN tables
      BY <2>0, <3>1, Zenon DEF Held, s
    <3>3. ASSUME alone'[l], \A k \in 1..((n + 1) - 1) : s[k].key = s[m].key => k <= m
          PROVE  tables'[s[m].key] = s[m].row
      <4>1. s[m].key # s[n].key
        BY <3>3, <3>1, <1>j, Zenon
      <4>2. \A k \in 1..(n - 1) : s[k].key = s[m].key => k <= m
        BY <3>3, <1>j, Zenon
      <4>3. tables[s[m].key] = s[m].row
        BY <2>0, <3>1, <3>3, <4>2, <1>6, Zenon DEF Held, s, HasRow
      <4> QED
        BY <4>1, <4>3, <3>2, <1>5, Zenon
    <3> QED
      BY <3>2, <3>3, <1>5, Zenon
  <2> QED
    BY <2>1, <2>2
<1> QED
  BY <1>1, <1>3, <1>4, <1>7, <1>8, SMT DEF LoadSafe, Begun

LEMMA LakeStarts == LakeInit => LakeInv
BY SMT DEF LakeInit, LakeInv, Load, Statuses, LoadSafe, Begun

LEMMA StepsKeepTheLake == LakeInv /\ [LakeNext]_lakeVars => LakeInv'
<1> SUFFICES ASSUME LakeInv, [LakeNext]_lakeVars PROVE LakeInv'
  OBVIOUS
<1>1. CASE UNCHANGED lakeVars
  <2>1. load' = load /\ alone' = alone /\ tables' = tables
    BY <1>1, Zenon DEF lakeVars
  <2>2. \A l \in Loaders : LoadSafe(l)'
    BY <2>1, OtherLoadsAreKept, Zenon
  <2> QED
    BY <2>1, <2>2, Zenon DEF LakeInv
<1>2. ASSUME NEW l \in Loaders,
             \/ \E b \in Bundles : Begin(l, b)
             \/ Execute(l) \/ RefuseStatement(l) \/ FailStatement(l) \/ EndLoad(l)
      PROVE  LakeInv'
  <2>0. load[l] \in Load /\ DOMAIN load = Loaders /\ LoadSafe(l)
    BY Zenon DEF LakeInv
  <2>1. load' \in [Loaders -> Load] /\ LoadSafe(l)'
    <3>1. ASSUME NEW b \in Bundles, Begin(l, b) PROVE load' \in [Loaders -> Load] /\ LoadSafe(l)'
      <4>1. load'[l] = [bundle |-> b, at |-> 1, status |-> "running"]
            /\ load' \in [Loaders -> Load]
        BY <3>1, SMT DEF Begin, LakeInv, Load, Statuses
      <4>2. load'[l].bundle = b /\ load'[l].at = 1 /\ load'[l].status = "running"
        BY <4>1
      <4>3. Statements(l)' = Plan(b) /\ Len(Plan(b)) \in Nat
        BY <4>2, PlanFacts, Zenon DEF Statements
      <4>4. Held(l, 1)'
        BY SMT DEF Held
      <4>5. Held(l, load[l].at)'
        BY <4>2, <4>4, Zenon DEF Held
      <4>6. 1 \in 1..(Len(Plan(b)) + 1)
        BY <4>3, SMT
      <4> QED
        BY <4>1, <4>2, <4>3, <4>5, <4>6, Zenon DEF LoadSafe, Begun
    <3>2. CASE Execute(l)
      <4>1. load' \in [Loaders -> Load]
        BY <3>2, SMT DEF Execute, LakeInv, Load
      <4> QED
        BY <4>1, <3>2, WritingKeepsHeld, Zenon
    <3>3. CASE RefuseStatement(l)
      BY <3>3, StatementsAreAllowed, Zenon DEF RefuseStatement
    <3>4. CASE FailStatement(l)
      <4>1. /\ load' \in [Loaders -> Load]
            /\ load'[l].bundle = load[l].bundle /\ load'[l].status = "failed"
        BY <3>4, SMT DEF FailStatement, LakeInv, Load, Statuses
      <4>2. load[l].bundle \in Bundles
        BY <3>4, <2>0, Zenon DEF FailStatement, Running, LoadSafe, Begun
      <4> QED
        BY <4>1, <4>2, Zenon DEF LoadSafe
    <3>5. CASE EndLoad(l)
      <4>1. /\ load' \in [Loaders -> Load] /\ load'[l].bundle = load[l].bundle
            /\ load'[l].status = "done" /\ load'[l].at = load[l].at
        BY <3>5, SMT DEF EndLoad, LakeInv, Load, Statuses
      <4>2. /\ load[l].bundle \in Bundles /\ Held(l, load[l].at)
            /\ load[l].at \in 1..(Len(Statements(l)) + 1) /\ load[l].at > Len(Statements(l))
        BY <3>5, <2>0, Zenon DEF EndLoad, LoadSafe, Begun, Statements
      <4>3. load[l].at = Len(Statements(l)) + 1
        <5>1. Len(Statements(l)) \in Nat
          BY <4>2, PlanFacts, Zenon DEF Statements
        <5> QED
          BY <4>2, <5>1, SMT
      <4>4. Statements(l)' = Statements(l) /\ tables' = tables /\ alone' = alone
        BY <3>5, <4>1, Zenon DEF Statements, EndLoad
      <4>5. Held(l, load[l].at)'
        BY <4>1, <4>2, <4>4, Zenon DEF Held, HasRow
      <4> QED
        BY <4>1, <4>2, <4>3, <4>4, <4>5, Zenon DEF LoadSafe, Begun
    <3> QED
      BY <1>2, <3>1, <3>2, <3>3, <3>4, <3>5, Zenon
  <2>2. \A k \in Loaders : k # l => load'[k] = load[k]
    BY <1>2, <2>0, Zenon DEF Begin, Execute, RefuseStatement, FailStatement, EndLoad
  <2>3. /\ DOMAIN tables \subseteq DOMAIN tables' /\ DOMAIN alone' = Loaders
        /\ \A k \in Loaders : k # l /\ alone'[k] => alone[k] /\ tables' = tables
    <3>1. ASSUME Written(l)
          PROVE  /\ DOMAIN tables \subseteq DOMAIN tables' /\ DOMAIN alone' = Loaders
                 /\ \A k \in Loaders : k # l => ~ alone'[k]
      BY <3>1, UpsertWrites, Zenon DEF Written
    <3>2. ASSUME NEW b \in Bundles, Begin(l, b)
          PROVE  /\ tables' = tables /\ DOMAIN alone' = Loaders
                 /\ \A k \in Loaders : k # l => alone'[k] = alone[k]
      BY <3>2, Zenon DEF Begin, LakeInv
    <3>3. CASE UNCHANGED <<tables, loads, alone>>
      BY <3>3, Zenon DEF LakeInv
    <3> QED
      BY <1>2, <3>1, <3>2, <3>3, Zenon DEF Execute, RefuseStatement, FailStatement, EndLoad
  <2>4. \A k \in Loaders : k # l => LoadSafe(k)'
    BY <2>2, <2>3, OtherLoadsAreKept, Zenon
  <2> QED
    BY <2>1, <2>3, <2>4, Zenon DEF LakeInv
<1> QED
  BY <1>1, <1>2, Zenon DEF LakeNext

\* A finished load has the last row it states under each key.
LEMMA FinishedLoadsConverge == LakeInv => LoadsConverge
<1> SUFFICES ASSUME LakeInv, NEW l \in Loaders
             PROVE  /\ load[l].status # "refused"
                    /\ (load[l].status = "done" /\ alone[l]) =>
                         \A n \in DOMAIN Statements(l) : HasRow(Statements(l)[n].key, LeftBy(l, n))
  BY Zenon DEF LoadsConverge
<1>1. LoadSafe(l)
  BY Zenon DEF LakeInv
<1>2. ASSUME load[l].status = "done", alone[l], NEW n \in DOMAIN Statements(l)
      PROVE  HasRow(Statements(l)[n].key, LeftBy(l, n))
  <2> DEFINE s == Statements(l)
             Latest(m) == /\ s[m].key = s[n].key
                        /\ \A k \in DOMAIN s : s[k].key = s[n].key => k <= m
             m0 == CHOOSE m \in DOMAIN s : Latest(m)
  <2>1. load[l].bundle \in Bundles /\ Held(l, Len(s) + 1)
    BY <1>1, <1>2, Zenon DEF LoadSafe, Begun
  <2>2. Len(s) \in Nat /\ DOMAIN s = 1..Len(s)
    BY <2>1, PlanFacts, Zenon DEF Statements
  <2>3. \E m \in DOMAIN s : Latest(m)
    <3> DEFINE K == {k \in DOMAIN s : s[k].key = s[n].key}
               D == {Len(s) - k : k \in K}
    <3>1. D \in SUBSET Nat /\ D # {}
      <4>1. n \in K
        BY <1>2
      <4>2. K \subseteq 1..Len(s)
        BY <2>2
      <4> HIDE DEF K, s
      <4> QED
        BY <4>1, <4>2, <2>2, SMT
    <3>2. PICK d \in D : \A e \in D : d <= e
      BY <3>1, LeastOne, Zenon
    <3>3. PICK m \in K : d = Len(s) - m
      BY <3>2
    <3>4. \A k \in K : k <= m
      <4>1. K \subseteq 1..Len(s)
        BY <2>2
      <4>2. \A k \in K : d <= Len(s) - k
        BY <3>2
      <4> HIDE DEF K, D, s
      <4> QED
        BY <4>1, <4>2, <3>3, <2>2, SMT
    <3> QED
      BY <3>3, <3>4, Zenon
  <2>4. m0 \in DOMAIN s /\ Latest(m0)
    BY <2>3, Zenon
  <2>5. LeftBy(l, n) = s[m0].row
    BY Zenon DEF LeftBy
  <2> HIDE DEF m0
  <2>6. m0 \in 1..((Len(s) + 1) - 1) /\ \A k \in 1..((Len(s) + 1) - 1) : k \in DOMAIN s
    <3> HIDE DEF s
    <3> QED
      BY <2>2, <2>4, SMT
  <2>7. \A k \in 1..((Len(s) + 1) - 1) : s[k].key = s[m0].key => k <= m0
    BY <2>4, <2>6, Zenon
  <2>8. HasRow(s[m0].key, s[m0].row)
    BY <2>1, <2>6, <2>7, <1>2, Zenon DEF Held
  <2> QED
    BY <2>4, <2>5, <2>8, Zenon
<1> QED
  BY <1>1, <1>2, Zenon DEF LoadSafe

\* plan.ts: loading a bundle leaves its rows, whatever was loaded before.
THEOREM LoadsStayConvergent == LakeSpec => []LoadsConverge
<1>1. LakeInit => LakeInv
  BY LakeStarts
<1>2. LakeInv /\ [LakeNext]_lakeVars => LakeInv'
  BY StepsKeepTheLake
<1>3. LakeInv => LoadsConverge
  BY FinishedLoadsConverge
<1> QED
  BY <1>1, <1>2, <1>3, PTL DEF LakeSpec
=============================================================================
