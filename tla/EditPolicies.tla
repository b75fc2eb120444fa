---------------------------- MODULE EditPolicies ----------------------------
(***************************************************************************)
(* Who may write over what: resolving the EditPolicy of a source, and the   *)
(* authority check, as the editor does them (@uwmd/core editor.ts) and as   *)
(* verifyProvenance does them (@uwmd/verify integrity.ts).                  *)
(*                                                                         *)
(* A source pattern is abstracted to what matching reads off it: the        *)
(* sources it matches, whether it is exact, and its length.                 *)
(***************************************************************************)
EXTENDS Integers, Sequences, SequencesExt

CONSTANTS
  ActorClass,  \* class of each source: "human", "agent", "system" or "none"
  NoPolicy     \* no policy matches

Authorities == {"either", "human_only", "agent_only", "system_only"}

\* matchSource: an exact match outscores every glob.
Score(p) == IF p.exact THEN 1000000 ELSE p.length

\* resolvePolicy: the best score, the first of the list among equals.
ResolvePolicy(source, policies) ==
  LET matching == SelectSeq(policies, LAMBDA p : source \in p.sources)
      best(i)  == \A j \in DOMAIN matching :
                    IF j < i THEN Score(matching[j]) < Score(matching[i])
                    ELSE Score(matching[j]) <= Score(matching[i])
  IN IF matching = <<>> THEN NoPolicy
     ELSE matching[CHOOSE i \in DOMAIN matching : best(i)]

\* matchPolicy of integrity.ts: the first that matches.
MatchPolicy(source, policies) ==
  LET matching == SelectSeq(policies, LAMBDA p : source \in p.sources)
  IN IF matching = <<>> THEN NoPolicy ELSE matching[1]

\* checkAuthority: no policy refuses; "either" admits every class.
MayWrite(source, policy) ==
  /\ policy # NoPolicy
  /\ \/ policy.authority = "either"
     \/ policy.authority = "system_only" /\ ActorClass[source] = "system"
     \/ policy.authority = "agent_only"  /\ ActorClass[source] = "agent"
     \/ policy.authority = "human_only"  /\ ActorClass[source] = "human"

\* authorityAllows of integrity.ts: there "either" leaves the system out.
AuthorityAllows(source, policy) ==
  \/ policy.authority = "either"      /\ ActorClass[source] # "system"
  \/ policy.authority = "system_only" /\ ActorClass[source] = "system"
  \/ policy.authority = "agent_only"  /\ ActorClass[source] = "agent"
  \/ policy.authority = "human_only"  /\ ActorClass[source] = "human"

=============================================================================
