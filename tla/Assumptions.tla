---------------------------- MODULE Assumptions ----------------------------
(***************************************************************************)
(* Where the value of one field comes from: resolveValue of @uwmd/core          *)
(* cascade.ts, over the block that section-resolution.ts and block-roles.ts   *)
(* select, the ancestors of the deal and the observation sets of              *)
(* market-data.ts. Around it the deal is restated and observations are          *)
(* published, age, and are accepted into the deal.                           *)
(*                                                                         *)
(* A value is known by where it comes from.                                 *)
(***************************************************************************)
EXTENDS Integers, Sequences, FiniteSets, SequencesExt

CONSTANTS
  Deals,     \* the deals to begin with: [keyed, peers], peers in fence order
  Lineages,    \* the ancestors handed in: sequences of [doc, distance, holds]
  Requests,    \* [variant, role] a caller asks with; "none" when it names none
  ObservationSets, \* ids of the market-data documents
  Missing, Unselected, \* no value, and a resolution that throws
  Typed, Proxy,        \* a value someone typed, and one of a table of defaults
  LastDay, StaleAfter, \* bound on the days, and the age an observation may have
  MaxSets, MaxStated   \* bounds on the published sets and on the restatements

Tags == {"user_override", "market_data", "none"}   \* of a restatement; "manual" reads as user_input
BlockRoles == {"primary", "senior", "component"}   \* three of the six: the others are like senior

VARIABLES
  deal,        \* the section of the field
  lineage,     \* ctx.inherited
  published,   \* the observation sets in scope, in the order they are listed
  today,
  accepted,    \* the observation each variant was given last and keeps
  stated       \* the number of restatements

assumptionVars == <<deal, lineage, published, today, accepted, stated>>

-----------------------------------------------------------------------------
(* resolveRoleBlock and resolveSectionBlock: the one block a read consults.  *)

Eligible(peers) ==
  {p \in ToSet(peers) : p.role \in {"none"} \cup (BlockRoles \ {"component"})}
WithRole(peers, role) == {p \in Eligible(peers) : p.role = role}
Named(peers, variant) == {p \in Eligible(peers) : p.variant = variant}

Sole(S) == CHOOSE p \in S : TRUE

\* default, then base, then the only one there is.
Generic(peers) ==
  CASE Named(peers, "default") # {} -> Sole(Named(peers, "default"))
    [] Named(peers, "default") = {} /\ Named(peers, "base") # {} -> Sole(Named(peers, "base"))
    [] OTHER -> IF Cardinality(Eligible(peers)) = 1 THEN Sole(Eligible(peers)) ELSE Unselected

\* The declared role, then primary; two claimants of either refuse.
ByRole(peers, role) ==
  LET tried == SelectSeq(<<role, "primary">>, LAMBDA r : r # "none" /\ WithRole(peers, r) # {})
  IN IF tried = <<>> THEN Generic(peers)
     ELSE IF Cardinality(WithRole(peers, tried[1])) > 1 THEN Unselected
     ELSE Sole(WithRole(peers, tried[1]))

\* A named variant has no fallback; a component may be named. Outside a variant
\* map the block is what it is.
SelectBlock(record, request) ==
  LET named == {p \in ToSet(record.peers) : p.variant = request.variant /\ p.role # "invalid"}
  IN IF record.peers = <<>> THEN Missing
     ELSE IF request.variant # "none"
     THEN IF named = {} THEN Unselected ELSE Sole(named)
     ELSE IF record.keyed THEN ByRole(record.peers, request.role) ELSE record.peers[1]

-----------------------------------------------------------------------------
(* The sources.                                                            *)

FromBlock(p) == [variant |-> p.variant, value |-> p.value]
Answer(step, source, value) == [step |-> step, source |-> source, value |-> value]

FindBySource(record, request, wanted) ==
  LET block == SelectBlock(record, request)
  IN IF block \in {Unselected, Missing} THEN Missing
     ELSE IF block.tag \in wanted THEN block ELSE Missing

\* Mutant of SelectInherited: the first of the nearest wins.
SelectFirstInherited(inherited) ==
  LET holders == SelectSeq(inherited, LAMBDA a : a.holds)
      nearest == SelectSeq(holders, LAMBDA a : \A b \in ToSet(holders) : a.distance <= b.distance)
  IN IF holders = <<>> THEN Missing ELSE nearest[1].doc

\* The nearest ancestor that states the field; two of them are refused.
SelectInherited(inherited) ==
  LET holders == {a \in ToSet(inherited) : a.holds}
      nearest == {a.doc : a \in {a \in holders : \A b \in holders : a.distance <= b.distance}}
  IN CASE holders = {} -> Missing
       [] Cardinality(nearest) = 1 -> Sole(nearest)
       [] Cardinality(nearest) > 1 -> Unselected

\* selectCurrentMarketData: the newest set; two newest are refused.
CurrentSet(sets) ==
  LET newest == {s \in ToSet(sets) : \A t \in ToSet(sets) : s.asOf >= t.asOf}
  IN CASE sets = <<>> -> Missing
       [] Cardinality({s.id : s \in newest}) > 1 -> Unselected
       [] Cardinality({s.id : s \in newest}) = 1 -> Sole(newest)

\* createDocumentMarketData: an observation past its age is not one. Over two
\* newest sets selectCurrentMarketData throws (MD-020) before a lookup is made of
\* one of them, and resolveValue is called without market data.
Observed(sets, day) ==
  LET set == CurrentSet(sets) IN
  IF set \in {Missing, Unselected} \/ day - set.asOf > StaleAfter THEN Missing ELSE set

\* Mutant of InputTags: what was accepted is looked up again.
InputTagsOnly == {"user_input", "manual"}
InputTags == {"user_input", "manual", "market_data_accepted"}

\* Mutant of Precedes: an ancestor overrides the deal.
PrecedesInput == <<"user_override", "inherited_assumption", "user_input">>
Precedes == <<"user_override", "user_input", "inherited_assumption">>

AtStep(step, record, inherited, request) ==
  LET own == FindBySource(record, request,
                          IF step = "user_override" THEN {"user_override"} ELSE InputTags)
  IN IF step = "inherited_assumption" THEN SelectInherited(inherited)
     ELSE IF own = Missing THEN Missing ELSE own

\* The steps from user_override to the defaults; the defaults are one value.
ResolveValue(record, inherited, sets, day, request) ==
  LET hit == SelectSeq(Precedes, LAMBDA s : AtStep(s, record, inherited, request) # Missing)
      found == AtStep(hit[1], record, inherited, request)
      stamped == FindBySource(record, request, {"market_data"})
  IN IF SelectBlock(record, request) = Unselected THEN Unselected
     ELSE IF hit # <<>>
     THEN IF hit[1] # "inherited_assumption" THEN Answer(hit[1], found.tag, FromBlock(found))
          ELSE IF found = Unselected THEN Unselected ELSE Answer(hit[1], hit[1], found)
     ELSE IF Observed(sets, day) # Missing
     THEN Answer("market_data", "market_data", Observed(sets, day))
     ELSE IF stamped # Missing THEN Answer("market_data", "market_data", FromBlock(stamped))
     ELSE Answer("asset_class_default", "asset_class_default", Proxy)

AnswerTo(request) == ResolveValue(deal, lineage, published, today, request)

-----------------------------------------------------------------------------
(* What happens around it.                                                 *)

Write(v, tag, value) ==
  deal' = [deal EXCEPT !.peers =
             [i \in DOMAIN @ |-> IF @[i].variant = v THEN [@[i] EXCEPT !.tag = tag, !.value = value]
                                 ELSE @[i]]]
Stated == {p.variant : p \in ToSet(deal.peers)}

\* An editor states the field again.
Restate(v, tag) ==
  /\ stated < MaxStated /\ v \in Stated
  /\ Write(v, tag, Typed)
  /\ accepted' = [accepted EXCEPT ![v] = Missing]
  /\ stated' = stated + 1
  /\ UNCHANGED <<lineage, published, today>>

\* promoteMarketObservation, and the edit the host makes of it.
AcceptObservation(v) ==
  /\ v \in Stated /\ stated < MaxStated
  /\ \E i \in DOMAIN published :
       /\ Write(v, "market_data_accepted", published[i])
       /\ accepted' = [accepted EXCEPT ![v] = published[i]]
  /\ stated' = stated + 1
  /\ UNCHANGED <<lineage, published, today>>

Publish(id) ==
  /\ Len(published) < MaxSets
  /\ \A i \in DOMAIN published : published[i] # [id |-> id, asOf |-> today]
  /\ published' = Append(published, [id |-> id, asOf |-> today])
  /\ UNCHANGED <<deal, lineage, today, accepted, stated>>

DayPasses ==
  /\ today < LastDay
  /\ today' = today + 1
  /\ UNCHANGED <<deal, lineage, published, accepted, stated>>

Reparent ==
  /\ lineage' \in Lineages \ {lineage}
  /\ UNCHANGED <<deal, published, today, accepted, stated>>

AssumptionsInit ==
  /\ deal \in Deals /\ lineage \in Lineages
  /\ published = <<>> /\ today = 0 /\ stated = 0
  /\ accepted = [v \in {p.variant : p \in UNION {ToSet(r.peers) : r \in Deals}} |-> Missing]

AssumptionsNext ==
  \/ \E v \in Stated, tag \in Tags : Restate(v, tag)
  \/ \E v \in Stated : AcceptObservation(v)
  \/ \E id \in ObservationSets : Publish(id)
  \/ DayPasses \/ Reparent

-----------------------------------------------------------------------------
(* Properties.                                                             *)

Reorderings(s) == {[i \in DOMAIN s |-> s[p[i]]] : p \in {q \in [DOMAIN s -> DOMAIN s] : IsInjective(q)}}

\* "Refuses rather than choosing": neither the order of the fences, nor the order
\* the ancestors are walked in, nor that of a directory listing decides.
OrderDecidesNothing ==
  \A request \in Requests :
    /\ \A peers \in Reorderings(deal.peers) :
         ResolveValue([deal EXCEPT !.peers = peers], lineage, published, today, request) = AnswerTo(request)
    /\ \A inherited \in Reorderings(lineage) :
         ResolveValue(deal, inherited, published, today, request) = AnswerTo(request)
    /\ \A sets \in Reorderings(published) :
         ResolveValue(deal, lineage, sets, today, request) = AnswerTo(request)

\* "A later live lookup MUST NOT silently replace it": an observation that was
\* accepted is the answer of its block, tagged so, until the block is restated.
AcceptedObservationStands ==
  \A request \in Requests :
    LET block == SelectBlock(deal, request) IN
    block \notin {Missing, Unselected} =>
      (accepted[block.variant] # Missing =>
         AnswerTo(request) = Answer("user_input", "market_data_accepted",
                               [variant |-> block.variant, value |-> accepted[block.variant]]))

OnlyPeerRestated(v) ==
  deal' # deal /\ \A i \in DOMAIN deal.peers : deal.peers[i].variant # v => deal'.peers[i] = deal.peers[i]

\* "Inheritance supplies defaults, never overrides": nothing outside the deal, an
\* ambiguity among its ancestors included, moves an answer the deal itself gives.
\* "Another variant's tagged value belongs to a different statement and never
\* stands in for it": a peer that is restated moves only the reads of that peer.
OutsideNeverDisplaces ==
  [][\A request \in Requests :
       LET answer == AnswerTo(request)
           block  == SelectBlock(deal, request)
           own    == answer # Unselected /\ answer.step \in {"user_override", "user_input"}
       IN \/ own /\ deal' = deal
          \/ block \notin {Missing, Unselected}
             /\ \E v \in Stated \ {block.variant} : OnlyPeerRestated(v)
          => AnswerTo(request)' = answer]_assumptionVars
=============================================================================
