------------------------- MODULE RegistryProperties -------------------------
(***************************************************************************)
(* What a registry promises (UW_PROTOCOL VII.2, VII.3): a verdict on the set  *)
(* of modules, and overrides that take nothing away.                        *)
(***************************************************************************)
EXTENDS Registry, SequencesExt

-----------------------------------------------------------------------------
(* The reference: the normative text of VII.3, for a set of modules.       *)

DependenciesFirst(list) ==
  \A n \in DOMAIN list : list[n].deps \subseteq {list[k].id : k \in 1..(n - 1)}

Declarers(S, id) == {m \in S : id \in Declares(m)}

\* Each declarer names the one whose declaration it replaces, and applies
\* wherever that one does.
Overrides(S, id) ==
  {c \in SetToSeqs(Declarers(S, id)) :
     \A k \in 2..Len(c) : c[k - 1].id \in c[k].deps /\ CoversScope(c[k], c[k - 1])}

\* "Prior-result readers": each reader of an overridden id comes after the
\* replacement in its module, or in a module that depends on that one; or it is
\* a calculation the first declarer declares before the id.
Served(r, i, id, chain, k, S) ==
  \/ r = chain[k] /\ i > Position(r, id)
  \/ chain[k].id \in Dependencies(r, S)
  \/ r = chain[1] /\ i < Position(r, id)
  \/ r # chain[k] /\ r.calcs[i].id = id

SoundSet(S) ==
  /\ \A m \in S : m.fit
  /\ \A id \in DeclaredIds : Declarers(S, id) # {} =>
       \E chain \in Overrides(S, id) :
         \A k \in 2..Len(chain), r \in S : \A i \in DOMAIN r.calcs :
           id \in r.calcs[i].reads /\ id \in CalcIds => Served(r, i, id, chain, k, S)

Acceptable(list) ==
  /\ DependenciesFirst(list) /\ SoundSet(Range(list))
  /\ \A n, k \in DOMAIN list : list[n].id = list[k].id => n = k

-----------------------------------------------------------------------------
(* Properties.                                                             *)

\* modules.ts 366-369: "the verdict is a property of the set of modules, not of
\* the order they are listed in", given that dependencies are listed first
\* (VII.2): what the loop finds out step by step is what VII.3 says of the set.
VerdictIsOfTheSet ==
  caller = "sync" /\ stage \in {"built", "refused"} => (stage = "built" <=> Acceptable(listing))

\* A reader that would find a value if every declaration ran finds that of the owner.
ReadersFindOwners ==
  stage = "built" =>
    \A class \in Classes \cup {NoClass}, n \in DOMAIN loaded :
      \A i \in DOMAIN loaded[n].calcs : \A id \in loaded[n].calcs[i].reads :
        LET before(k, j) == /\ k < n \/ (k = n /\ j < i)
                            /\ Applies(loaded[k], class) /\ loaded[k].calcs[j].id = id
        IN /\ Applies(loaded[n], class) /\ InEffect(loaded[n], loaded[n].calcs[i].id)
           /\ \E k \in 1..n : \E j \in DOMAIN loaded[k].calcs : before(k, j)
           => \E k \in 1..n : \E j \in DOMAIN loaded[k].calcs :
                before(k, j) /\ InEffect(loaded[k], id)

\* modules.ts 319-323: "one declaration per id ... rather than the id vanishing".
EachCalculationIsListedOnce ==
  stage = "built" =>
    \A class \in Classes : \A m \in LoadedSet :
      class \in m.scope => \A id \in CalcIdsOf(m) :
        Cardinality({s \in ListedFor(class) : IdAt(s) = id}) = 1

\* VII.3, Invariant: an override makes no declaration unavailable, neither to the
\* calculations that read it nor to those who list the calculations.
OverridesStayAvailable == ReadersFindOwners /\ EachCalculationIsListedOnce

\* modules.ts 227: "`createModuleRegistry` with the same signature-policy gate":
\* a set whose signatures pass is not refused where the synchronous sibling
\* would build a registry.
GateOnlyChecksSignatures ==
  caller = "async" /\ stage = "refused" /\ (\A n \in DOMAIN listing : SignatureFaults(listing[n]) = {})
    => ~Acceptable(listing)
=============================================================================
