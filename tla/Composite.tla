----------------------------- MODULE Composite -----------------------------
(***************************************************************************)
(* resolveComposite of @uwmd/verify composition.ts: the members of a deal    *)
(* package and the contributes_to links between them are walked from the     *)
(* roots, without recursion, into an order with contributors first. The      *)
(* steps are the turns of the walk's loop.                                  *)
(***************************************************************************)
EXTENDS Integers, Sequences, FiniteSets

CONSTANTS
  Ids,         \* member ids
  Sorted,      \* .sort(): each set of ids as a list
  Packages,    \* the packages handed in
  MaxDepth,    \* opts.maxDepth
  MaxMembers   \* opts.maxMembers

Link == [from : Ids, to : Ids]

\* `outdated` stands for the two digest maps: the links whose recorded and
\* actual digests are both there and differ. A link listed twice is one link.
Package == [members : SUBSET Ids, links : SUBSET Link, outdated : SUBSET Link]

ASSUME PackagesAreTyped == Packages \subseteq Package /\ IsFiniteSet(Ids)
ASSUME SortedLists ==
  /\ Sorted \in [SUBSET Ids -> Seq(Ids)]
  /\ \A S \in SUBSET Ids :
       /\ {Sorted[S][i] : i \in DOMAIN Sorted[S]} = S
       /\ \A i, j \in DOMAIN Sorted[S] : Sorted[S][i] = Sorted[S][j] => i = j
ASSUME LimitsAreNatural == MaxDepth \in Nat /\ MaxMembers \in Nat

VARIABLES
  pkg,        \* what the call was given
  verdict,    \* "idle" (no call), "given", "walking", or the status returned
  code,       \* the code of the issue returned
  roots,      \* the roots still to walk from
  stack,      \* frames of the walk: an id, its depth, expanded or not
  onPath,     \* ids of the expanded frames
  finished,
  order,      \* finished members, in the order they were
  deepest,
  stale       \* outdated links met, in the order they were

compositeVars ==
  <<pkg, verdict, code, roots, stack, onPath, finished, order, deepest, stale>>

Answers == {"resolved", "stale", "unresolved"}
CompositeCodes == {"none", "COMP-UNRESOLVED", "COMP-DEPTH", "COMP-CYCLE"}
Frame == [id : Ids, depth : Nat, expanded : BOOLEAN]
NoPackage == [members |-> {}, links |-> {}, outdated |-> {}]

CompositeTypeOK ==
  /\ pkg \in Package
  /\ verdict \in {"idle", "given", "walking"} \cup Answers
  /\ code \in CompositeCodes
  /\ roots \in Seq(Ids) /\ stack \in Seq(Frame) /\ order \in Seq(Ids)
  /\ onPath \subseteq Ids /\ finished \subseteq Ids
  /\ deepest \in Nat /\ stale \in Seq(Link)

-----------------------------------------------------------------------------
Contributors(p, id) == {l.from : l \in {k \in p.links : k.to = id}}
Children(id) == Contributors(pkg, id)
Roots == {id \in pkg.members : \A l \in pkg.links : l.from # id}
Dangling == {l \in pkg.links : l.from \notin pkg.members \/ l.to \notin pkg.members}

Refuse(c) == verdict' = "unresolved" /\ code' = c

\* The checks before the walk. Dangling links come first.
CheckPackage ==
  /\ verdict = "given"
  /\ IF Dangling # {} THEN Refuse("COMP-UNRESOLVED") /\ UNCHANGED roots
     ELSE IF Cardinality(pkg.members) > MaxMembers
          THEN Refuse("COMP-DEPTH") /\ UNCHANGED roots
          ELSE verdict' = "walking" /\ roots' = Sorted[Roots] /\ UNCHANGED code
  /\ UNCHANGED <<pkg, stack, onPath, finished, order, deepest, stale>>

StartWalk ==
  /\ verdict = "walking" /\ stack = <<>> /\ roots # <<>>
  /\ stack' = << [id |-> Head(roots), depth |-> 1, expanded |-> FALSE] >>
  /\ roots' = Tail(roots)
  /\ UNCHANGED <<pkg, verdict, code, onPath, finished, order, deepest, stale>>

Top == stack[Len(stack)]
Below == SubSeq(stack, 1, Len(stack) - 1)

\* Mutant of CloseFrame: a member met again is listed again.
CloseFrameAgain ==
  /\ verdict = "walking" /\ stack # <<>> /\ Top.expanded
  /\ stack' = Below
  /\ onPath' = onPath \ {Top.id}
  /\ finished' = finished \cup {Top.id} /\ order' = Append(order, Top.id)
  /\ UNCHANGED <<pkg, verdict, code, roots, deepest, stale>>

\* Mutant of CloseFrame: the frame is looked at and left on the stack.
CloseFrameInPlace ==
  /\ verdict = "walking" /\ stack # <<>> /\ Top.expanded
  /\ onPath' = onPath \ {Top.id}
  /\ finished' = finished \cup {Top.id}
  /\ order' = IF Top.id \in finished THEN order ELSE Append(order, Top.id)
  /\ UNCHANGED <<pkg, verdict, code, roots, stack, deepest, stale>>

\* An expanded frame is on top again: everything below it is done. A member
\* met twice before it was opened is listed once.
CloseFrame ==
  /\ verdict = "walking" /\ stack # <<>> /\ Top.expanded
  /\ stack' = Below
  /\ onPath' = onPath \ {Top.id}
  /\ finished' = finished \cup {Top.id}
  /\ order' = IF Top.id \in finished THEN order ELSE Append(order, Top.id)
  /\ UNCHANGED <<pkg, verdict, code, roots, deepest, stale>>

Opened == Below \o << [id |-> Top.id, depth |-> Top.depth, expanded |-> TRUE] >>

\* Mutant of Closing: a child waiting on the stack counts as one on the path.
ClosingWaiting(id) == Children(id) \cap {stack[i].id : i \in DOMAIN stack}

\* The members that end the walk of this frame with COMP-CYCLE.
Closing(id) ==
  IF id \in onPath THEN {id} ELSE Children(id) \cap (onPath \cup {id})

Frames(ids, depth) ==
  [i \in DOMAIN ids |-> [id |-> ids[i], depth |-> depth, expanded |-> FALSE]]

\* Mutant of LookedAt: children finished on another path are passed over.
LookedAtUnfinished(id) == Children(id) \ finished

\* The children the loop comes to: all, or those before the first closing one.
LookedAt(id) ==
  LET children == Sorted[Children(id)]
  IN IF id \in onPath THEN {}
     ELSE {children[i] : i \in {k \in DOMAIN children :
                                  \A j \in 1..k : children[j] \notin Closing(id)}}

\* The outdated links from those children to `id`.
Outdated(id) ==
  LET old == Sorted[{c \in LookedAt(id) : [from |-> c, to |-> id] \in pkg.outdated}]
  IN [i \in DOMAIN old |-> [from |-> old[i], to |-> id]]

RefuseDepth ==
  /\ verdict = "walking" /\ stack # <<>> /\ ~Top.expanded
  /\ Top.depth > MaxDepth
  /\ stack' = Opened
  /\ deepest' = IF Top.depth > deepest THEN Top.depth ELSE deepest
  /\ Refuse("COMP-DEPTH") /\ order' = <<>>
  /\ UNCHANGED <<pkg, roots, onPath, finished, stale>>

RefuseCycle ==
  /\ verdict = "walking" /\ stack # <<>> /\ ~Top.expanded
  /\ Top.depth <= MaxDepth /\ Closing(Top.id) # {}
  /\ stack' = Opened
  /\ deepest' = IF Top.depth > deepest THEN Top.depth ELSE deepest
  /\ onPath' = onPath \cup {Top.id}
  /\ stale' = stale \o Outdated(Top.id)
  /\ Refuse("COMP-CYCLE") /\ order' = <<>>
  /\ UNCHANGED <<pkg, roots, finished>>

\* A frame is opened: its children go on the stack, those finished already
\* left out, those met but not finished on top of their older frames.
Expand ==
  LET id == Top.id IN
  /\ verdict = "walking" /\ stack # <<>> /\ ~Top.expanded
  /\ Top.depth <= MaxDepth /\ Closing(id) = {}
  /\ stack' = Opened \o Frames(Sorted[Children(id) \ finished], Top.depth + 1)
  /\ deepest' = IF Top.depth > deepest THEN Top.depth ELSE deepest
  /\ onPath' = onPath \cup {id}
  /\ stale' = stale \o Outdated(id)
  /\ UNCHANGED <<pkg, verdict, code, roots, finished, order>>

\* No root is left. A member not reached has a parent but no root above it.
EndWalks ==
  /\ verdict = "walking" /\ stack = <<>> /\ roots = <<>>
  /\ IF finished # pkg.members
     THEN Refuse("COMP-CYCLE") /\ order' = <<>>
     ELSE verdict' = (IF stale = <<>> THEN "resolved" ELSE "stale") /\ UNCHANGED <<code, order>>
  /\ UNCHANGED <<pkg, roots, stack, onPath, finished, deepest, stale>>

CompositeInit ==
  /\ pkg \in Packages
  /\ verdict = "given" /\ code = "none"
  /\ roots = <<>> /\ stack = <<>> /\ order = <<>> /\ stale = <<>>
  /\ onPath = {} /\ finished = {} /\ deepest = 0

CompositeNext ==
  CheckPackage \/ StartWalk \/ CloseFrame \/ RefuseDepth \/ RefuseCycle \/ Expand \/ EndWalks

CompositeSpec == CompositeInit /\ [][CompositeNext]_compositeVars

\* resolveComposite returns or throws: its loop is not interrupted.
CompositeFairness == WF_compositeVars(CompositeNext)

-----------------------------------------------------------------------------
(* Properties.                                                             *)

Resolved == verdict \in {"resolved", "stale"}

\* UW_COMPOSITION 4.1: "children MUST be resolved before the parents that name
\* them". A resolved package has all its members in order, each once, whichever
\* paths lead to it; so it has no cycle either (4.3).
OrderIsTopological ==
  Resolved =>
    /\ {order[i] : i \in DOMAIN order} = pkg.members
    /\ \A i, j \in DOMAIN order :
         /\ order[i] = order[j] => i = j
         /\ order[i] \in Children(order[j]) => i < j

\* 4.4: the outdated links of a resolved package are reported, all of them and
\* no other, and it is stale exactly when there are some.
StaleLinksAreReported ==
  Resolved =>
    /\ {stale[i] : i \in DOMAIN stale} = pkg.outdated \cap pkg.links
    /\ verdict = "stale" <=> pkg.outdated \cap pkg.links # {}

\* Members each of which contributes to one of them: among finitely many members
\* there are such exactly when links lead round in a cycle.
Cyclic ==
  \E S \in SUBSET pkg.members : S # {} /\ \A x \in S : \E y \in S : x \in Children(y)

\* The first n members of p lead down from a root, contributor by contributor.
Descends(p, n) ==
  p[1] \in Roots /\ \A k \in 1..(n - 1) : p[k + 1] \in Children(p[k])

TooDeep == \E p \in [1..(MaxDepth + 1) -> pkg.members] : Descends(p, MaxDepth + 1)

\* 4.2, 4.3: no package is refused without the fault that is named: members
\* that share contributors are not taken for a cycle, nor a wide package for a
\* deep one.
RefusalsAreReal ==
  verdict = "unresolved" =>
    CASE code = "COMP-UNRESOLVED" -> Dangling # {}
      [] code = "COMP-DEPTH" -> Cardinality(pkg.members) > MaxMembers \/ TooDeep
      [] code = "COMP-CYCLE" -> Cyclic
      [] OTHER -> FALSE

\* 4.2: "Composition depth | 8 | COMP-DEPTH", "MUST be enforced".
DepthIsBounded == Resolved => ~TooDeep

\* "the reference implementation therefore walks iteratively" (4.1): the walk
\* ends on every graph, cyclic ones included.
EveryPackageIsJudged == verdict = "given" ~> verdict \in Answers
=============================================================================
