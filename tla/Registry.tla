------------------------------ MODULE Registry ------------------------------
(***************************************************************************)
(* createModuleRegistry and createModuleRegistryAsync of @uwmd/verify        *)
(* modules.ts: manifests are loaded one by one in the order they are listed, *)
(* a dependent may take over ids its dependency declares, and one refusal    *)
(* refuses the registry. What is registered is what evaluateModuleCalcula-   *)
(* tions (module-runtime.ts) runs.                                          *)
(***************************************************************************)
EXTENDS Integers, Sequences, FiniteSets

CONSTANTS
  ModuleIds, SectionIds, CalcIds,
  Classes,    \* asset classes
  NoClass,    \* a document without one
  Nobody,     \* an id nobody declares
  Policies,   \* signature policies in use
  Listings    \* the lists of manifests handed in

Calc == [id : CalcIds, reads : SUBSET CalcIds]

\* `scope`: the classes a manifest names, none for all. `fit`: it passes every
\* check of its own (shape, versions, host). Sections stand for view models too,
\* which are claimed in the same way.
Manifest == [id : ModuleIds, deps : SUBSET ModuleIds, sections : SUBSET SectionIds,
             calcs : Seq(Calc), scope : SUBSET Classes, fit : BOOLEAN,
             signature : {"none", "good", "bad"}]

ASSUME ListingsAreManifests == Listings \subseteq Seq(Manifest)
ASSUME PoliciesAreNamed == Policies \subseteq {"ignore", "verify-if-present", "require"}
ASSUME NobodyIsNoModule == Nobody \notin ModuleIds
ASSUME NamespacesAreApart == SectionIds \cap CalcIds = {}
\* validateCalculations: no two calculations of a manifest have one id.
ASSUME FitManifestsDeclareOnce ==
  \A list \in Listings : \A n \in DOMAIN list : list[n].fit =>
    \A i, j \in DOMAIN list[n].calcs : list[n].calcs[i].id = list[n].calcs[j].id => i = j

VARIABLES
  listing,   \* opts.modules
  caller,    \* "sync" or "async"
  policy,    \* opts.signaturePolicy
  stage,     \* "idle" (no call), "checking", "loading", "built", "refused"
  at,        \* the candidate the loop is at
  loaded,    \* manifests accepted
  owner,     \* owners: the module whose declaration of an id is in effect
  first,     \* firstCalcDeclarer
  refusals   \* codes of the errors collected

registryVars == <<listing, caller, policy, stage, at, loaded, owner, first, refusals>>

DeclaredIds == SectionIds \cup CalcIds
RegistryCodes == {"PROTO-MOD-027", "PROTO-MOD-066", "PROTO-MOD-080", "PROTO-MOD-081",
                  "PROTO-MOD-083", "PROTO-MOD-084", "unfit", "signature"}

RegistryTypeOK ==
  /\ listing \in Seq(Manifest) /\ loaded \in Seq(Manifest) /\ at \in Nat
  /\ stage \in {"idle", "checking", "loading", "built", "refused"}
  /\ owner \in [DeclaredIds -> ModuleIds \cup {Nobody}]
  /\ first \in [CalcIds -> ModuleIds \cup {Nobody}]
  /\ refusals \subseteq RegistryCodes

-----------------------------------------------------------------------------
CalcIdsOf(m) == {m.calcs[i].id : i \in DOMAIN m.calcs}
Declares(m) == m.sections \cup CalcIdsOf(m)
Position(m, id) == CHOOSE i \in DOMAIN m.calcs : m.calcs[i].id = id
LoadedSet == {loaded[n] : n \in DOMAIN loaded}
IdsIn(S) == {m.id : m \in S}

\* validateModuleManifest, with the modules known to be loaded.
ManifestFaults(m, known) ==
  (IF m.fit THEN {} ELSE {"unfit"})
    \cup (IF m.deps \subseteq IdsIn(known) THEN {} ELSE {"PROTO-MOD-027"})

\* dependsTransitively: ids `m` depends on, directly or through `known`.
Dependencies(m, known) ==
  LET f[n \in Nat] ==
        IF n = 0 THEN m.deps
        ELSE f[n - 1] \cup UNION {k.deps : k \in {l \in known : l.id \in f[n - 1]}}
  IN f[Cardinality(known)]

CoversScope(over, under) ==
  over.scope = {} \/ (under.scope # {} /\ under.scope \subseteq over.scope)

\* Ids of `m` that another module's declaration is in effect for.
Redeclared(m) == {id \in Declares(m) : owner[id] # Nobody}

\* Only the module in effect may be overridden, and only by one that names it.
Conflicting(m) == {id \in Redeclared(m) : owner[id] \notin m.deps}
Overridden(m) == Redeclared(m) \ Conflicting(m)

\* Mutant of UnservedReader: only modules already loaded are looked at.
UnservedElsewhere(id, m) ==
  \E r \in LoadedSet : \E i \in DOMAIN r.calcs :
    /\ id \in r.calcs[i].reads /\ r.calcs[i].id # id
    /\ ~(r.id = first[id] /\ i < Position(r, id))

\* unservedReader: a calculation that reads `id` and would not be run after the
\* declaration of it in `m`, which loads last.
UnservedReader(id, m) ==
  \/ \E r \in LoadedSet : \E i \in DOMAIN r.calcs :
       /\ id \in r.calcs[i].reads /\ r.calcs[i].id # id
       /\ ~(r.id = first[id] /\ i < Position(r, id))
  \/ \E i \in DOMAIN m.calcs : id \in m.calcs[i].reads /\ i <= Position(m, id)

\* Mutant of ReadsAround: a reader that loads after the override is not checked.
ReadsFreely(m) == {}

\* Ids `m` reads that were overridden by a module it does not depend on.
ReadsAround(m) ==
  {id \in (UNION {m.calcs[i].reads : i \in DOMAIN m.calcs}) \ CalcIdsOf(m) :
     /\ owner[id] \notin {Nobody, first[id]}
     /\ owner[id] \notin Dependencies(m, LoadedSet)}

\* claimDeclarations: the faults of the claims of `m`.
ClaimFaults(m) ==
  {code \in RegistryCodes :
     \/ code = "PROTO-MOD-080" /\ Conflicting(m) \cap SectionIds # {}
     \/ code = "PROTO-MOD-081" /\ Conflicting(m) \cap CalcIds # {}
     \/ code = "PROTO-MOD-084" /\ \E id \in Overridden(m), r \in LoadedSet :
                                    r.id = owner[id] /\ ~CoversScope(m, r)
     \/ code = "PROTO-MOD-083" /\ \/ \E id \in Overridden(m) \cap CalcIds : UnservedReader(id, m)
                                  \/ ReadsAround(m) # {}}

\* verifyModuleSignature under the policy.
SignatureFaults(m) ==
  IF \/ policy = "ignore" \/ m.signature = "good"
     \/ policy = "verify-if-present" /\ m.signature = "none"
  THEN {} ELSE {"signature"}

-----------------------------------------------------------------------------
\* createModuleRegistryAsync looks at each candidate alone before it builds
\* anything: loadModuleManifestAsync is not told what is loaded.
CheckCandidate ==
  /\ stage = "checking" /\ at <= Len(listing)
  /\ at' = at + 1
  /\ LET m == listing[at]
         faults == ManifestFaults(m, {})
     IN refusals' = refusals \cup (IF faults # {} THEN faults ELSE SignatureFaults(m))
  /\ UNCHANGED <<listing, caller, policy, stage, loaded, owner, first>>

EndChecks ==
  /\ stage = "checking" /\ at > Len(listing)
  /\ stage' = (IF refusals = {} THEN "loading" ELSE "refused")
  /\ at' = 1
  /\ UNCHANGED <<listing, caller, policy, loaded, owner, first, refusals>>

Claimed(m) == [id \in DeclaredIds |-> IF id \in Declares(m) THEN m.id ELSE owner[id]]

\* A turn of createModuleRegistry's loop.
LoadCandidate ==
  /\ stage = "loading" /\ at <= Len(listing)
  /\ at' = at + 1
  /\ LET m == listing[at]
         faults == IF ManifestFaults(m, LoadedSet) # {} THEN ManifestFaults(m, LoadedSet)
                   ELSE IF m.id \in IdsIn(LoadedSet) THEN {"PROTO-MOD-066"}
                   ELSE ClaimFaults(m)
     IN IF faults # {}
        THEN refusals' = refusals \cup faults /\ UNCHANGED <<loaded, owner, first>>
        ELSE /\ loaded' = Append(loaded, m)
             /\ owner' = Claimed(m)
             /\ first' = [id \in CalcIds |-> IF id \in CalcIdsOf(m) /\ first[id] = Nobody
                                             THEN m.id ELSE first[id]]
             /\ UNCHANGED refusals
  /\ UNCHANGED <<listing, caller, policy, stage>>

EndLoading ==
  /\ stage = "loading" /\ at > Len(listing)
  /\ stage' = (IF refusals = {} THEN "built" ELSE "refused")
  /\ UNCHANGED <<listing, caller, policy, at, loaded, owner, first, refusals>>

RegistryInit ==
  /\ listing \in Listings
  /\ \/ caller = "sync" /\ policy = "ignore" /\ stage = "loading"
     \/ caller = "async" /\ policy \in Policies /\ stage = "checking"
  /\ at = 1 /\ loaded = <<>> /\ refusals = {}
  /\ owner = [id \in DeclaredIds |-> Nobody]
  /\ first = [id \in CalcIds |-> Nobody]

RegistryNext == CheckCandidate \/ EndChecks \/ LoadCandidate \/ EndLoading

RegistrySpec == RegistryInit /\ [][RegistryNext]_registryVars
-----------------------------------------------------------------------------
(* What a registry runs and lists.                                         *)

\* applicableModules, ownsDeclaration.
Applies(m, class) == m.scope = {} \/ class \in m.scope
InEffect(m, id) == owner[id] = m.id

\* The calculations of the modules that name a class, in order.
Slots(class) ==
  UNION {{<<n, i>> : i \in DOMAIN loaded[n].calcs} :
           n \in {k \in DOMAIN loaded : class \in loaded[k].scope}}
IdAt(slot) == loaded[slot[1]].calcs[slot[2]].id
OwnerListed(id, class) == \E m \in LoadedSet : InEffect(m, id) /\ class \in m.scope

\* Mutant of ListedFor: a declaration stands in every slot it replaces.
ListedForEverySlot(class) ==
  {s \in Slots(class) : InEffect(loaded[s[1]], IdAt(s)) \/ ~OwnerListed(IdAt(s), class)}

\* getModuleCalculationsForAssetClass: the slots that contribute a declaration.
\* An overridden one leaves its slot to its owner when that is not listed itself.
ListedFor(class) ==
  {s \in Slots(class) :
     \/ InEffect(loaded[s[1]], IdAt(s))
     \/ /\ ~OwnerListed(IdAt(s), class)
        /\ \A t \in Slots(class) : IdAt(t) = IdAt(s) => s[1] <= t[1]}
=============================================================================
