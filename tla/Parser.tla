------------------------------- MODULE Parser -------------------------------
(***************************************************************************)
(* parseUWFile of @uwmd/verify: scan the file block by block, then route    *)
(* every scanned block, in file order, into the maps and lists of the      *)
(* parsed file. A block that is not closed or whose JSON is not admitted    *)
(* refuses the whole file.                                                 *)
(***************************************************************************)
EXTENDS UWDocument

CONSTANTS
  Scannable,   \* the blocks a file may hold next (a subset of Block)
  MaxBlocks,   \* bound on the blocks of a file
  Unparsed,    \* the result before parseUWFile returns
  Refused      \* the result when it throws

VARIABLES
  scanned,     \* the blocks read so far
  result       \* what parseUWFile returned: Unparsed, Refused, or the views

vars == <<scanned, result>>

-----------------------------------------------------------------------------
(* routeBlock. An entry of result.sections or result.extensions is the list *)
(* of its <<key, block>> members in insertion order; a section that is not  *)
(* a map has the one member keyed Whole.                                    *)

Whole == "whole section"

EmptyViews == [entry      |-> [s \in Sections \ AppendOnly |-> <<>>],
               superseded |-> [s \in Sections \ AppendOnly |-> <<>>],
               appended   |-> [s \in AppendOnly |-> <<>>]]

\* defineVariant: a member keeps the position it was first defined at.
Define(members, key, j) ==
  IF \E n \in DOMAIN members : members[n][1] = key
  THEN [n \in DOMAIN members |->
          IF members[n][1] = key THEN <<key, j>> ELSE members[n]]
  ELSE Append(members, <<key, j>>)

Occupied(views, s, key) == SelectSeq(views.entry[s], LAMBDA m : m[1] = key)

RouteTo(d, views, j, key, occupied) ==
  LET s == d[j].section
  IN CASE s \in AppendOnly ->
            [views EXCEPT !.appended[s] = Append(@, j)]
       [] s \notin AppendOnly /\ d[j].superseded ->
            [views EXCEPT !.superseded[s] = Append(@, j)]
       [] OTHER ->
            [views EXCEPT !.superseded[s] = IF occupied = <<>> THEN @
                                            ELSE Append(@, occupied[1][2]),
                          !.entry[s] = Define(@, key, j)]

\* Mutant of RouteBlock: role sections are routed as if they were not maps.
RouteBlockByList(d, views, j) ==
  LET s   == d[j].section
      key == IF s \in MultiVariantSections THEN Key(d[j]) ELSE Whole
  IN RouteTo(d, views, j, key, IF s \in AppendOnly THEN <<>> ELSE Occupied(views, s, key))

RouteBlock(d, views, j) ==
  LET s   == d[j].section
      key == IF Keyed(d, s) THEN Key(d[j]) ELSE Whole
  IN RouteTo(d, views, j, key, IF s \in AppendOnly THEN <<>> ELSE Occupied(views, s, key))

Route(d) == FoldLeft(LAMBDA views, j : RouteBlock(d, views, j),
                     EmptyViews, [j \in DOMAIN d |-> j])

-----------------------------------------------------------------------------
Init == scanned = <<>> /\ result = Unparsed

\* One turn of the body scan: a recognised, closed fence whose JSON is admitted.
ScanBlock ==
  /\ result = Unparsed /\ Len(scanned) < MaxBlocks
  /\ \E b \in Scannable : scanned' = Append(scanned, b)
  /\ UNCHANGED result

\* UNCLOSED_SECTION_FENCE, or a refusal of admitBlockJson: the error propagates.
RefuseFile ==
  /\ result = Unparsed
  /\ result' = Refused
  /\ UNCHANGED scanned

\* End of file: the role sections are collected, then every block is routed.
RouteBlocks ==
  /\ result = Unparsed
  /\ result' = Route(scanned)
  /\ UNCHANGED scanned

Next == ScanBlock \/ RefuseFile \/ RouteBlocks

Spec == Init /\ [][Next]_vars

-----------------------------------------------------------------------------
Parsed == result \notin {Unparsed, Refused}

Members(s) == {result.entry[s][n][2] : n \in DOMAIN result.entry[s]}

\* What getSection and getSectionVariant read off the routed maps.
GetSection(s) ==
  LET members == result.entry[s]
  IN IF members = <<>> \/ Keyed(scanned, s) THEN 0 ELSE members[1][2]
GetSectionVariant(s, v) ==
  LET named == SelectSeq(result.entry[s], LAMBDA m : m[1] = v)
  IN IF ~Keyed(scanned, s) \/ named = <<>> THEN 0 ELSE named[1][2]

\* Routing one block at a time selects exactly the canonical blocks, archives
\* the others in the order UWDocument says, and the lookups every editor goes
\* through find the block Lookup finds. (Agreement of the reader with Format
\* 2.7 whatever the order of superseded, live, named and unnamed blocks.)
ViewsAreDeclared ==
  Parsed =>
    /\ \A s \in Sections \ AppendOnly :
         /\ Members(s) = HeadsOf(scanned, s)
         /\ result.superseded[s] = Archive(scanned, s)
    /\ \A s \in Standard :
         /\ GetSection(s) = Lookup(scanned, s, NoVariant)
         /\ \A v \in Variants : GetSectionVariant(s, v) = Lookup(scanned, s, v)
=============================================================================
