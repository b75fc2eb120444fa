--------------------------- MODULE RegistryProofs ---------------------------
(***************************************************************************)
(* That an override takes nothing away, for any list of modules, whatever     *)
(* they declare, read, depend on and apply to.                               *)
(*                                                                         *)
(* The owner of an id is loaded, declares it, and applies wherever an earlier *)
(* declarer does: each override covers the scope of the one it replaces. So a *)
(* reader that found a value before an override is either served by the       *)
(* owner, which is loaded before it, or the override is refused.              *)
(***************************************************************************)
EXTENDS RegistryProperties, FiniteSetTheorems, WellFoundedInduction, TLAPS

Once(m) == m.fit /\ \A i, j \in DOMAIN m.calcs : m.calcs[i].id = m.calcs[j].id => i = j

IdsDiffer(ms) == \A k, n \in DOMAIN ms : ms[k].id = ms[n].id => k = n

\* The owner of an id that a module declares declares it too, and applies wherever
\* that module does.
Owned(ms, own) ==
  \A n \in DOMAIN ms : \A id \in CalcIdsOf(ms[n]) :
    \E k \in DOMAIN ms :
      ms[k].id = own[id] /\ id \in CalcIdsOf(ms[k]) /\ CoversScope(ms[k], ms[n])

\* Nobody declares an id before its first declarer.
Firsts(ms, fst) ==
  /\ \A n \in DOMAIN ms : \A id \in CalcIdsOf(ms[n]) : fst[id] # Nobody
  /\ \A id \in CalcIds : fst[id] # Nobody => \E n \in DOMAIN ms : ms[n].id = fst[id]
  /\ \A n \in DOMAIN ms, id \in CalcIds :
       ms[n].id = fst[id] => \A k \in 1..(n - 1) : id \notin CalcIdsOf(ms[k])

\* Calculation j of module k runs before calculation i of module n and declares id.
Precedes(ms, k, j, n, i, id) == (k < n \/ (k = n /\ j < i)) /\ ms[k].calcs[j].id = id

\* A calculation that is in effect and would find an id finds that of the owner.
Finds(ms, own, class, n, i, id) ==
  (/\ Applies(ms[n], class) /\ own[ms[n].calcs[i].id] = ms[n].id
   /\ \E k \in 1..n : \E j \in DOMAIN ms[k].calcs :
        Precedes(ms, k, j, n, i, id) /\ Applies(ms[k], class))
  => \E k \in 1..n : \E j \in DOMAIN ms[k].calcs :
       Precedes(ms, k, j, n, i, id) /\ Applies(ms[k], class) /\ own[id] = ms[k].id

Found(ms, own) ==
  \A class : \A n \in DOMAIN ms : \A i \in DOMAIN ms[n].calcs : \A id \in ms[n].calcs[i].reads :
    Finds(ms, own, class, n, i, id)

Sound(ms, own, fst) ==
  /\ \A n \in DOMAIN ms : Once(ms[n])
  /\ IdsDiffer(ms) /\ Owned(ms, own) /\ Firsts(ms, fst) /\ Found(ms, own)

RegistryInv ==
  /\ listing \in Listings /\ at \in Nat \ {0}
  /\ loaded \in Seq(Manifest)
  /\ owner \in [DeclaredIds -> ModuleIds \cup {Nobody}]
  /\ first \in [CalcIds -> ModuleIds \cup {Nobody}]
  /\ Sound(loaded, owner, first)

-----------------------------------------------------------------------------
(* Scopes and declarations.                                                *)

LEMMA CoveringIsTransitive ==
  ASSUME NEW a, NEW b, NEW c, CoversScope(a, b), CoversScope(b, c) PROVE CoversScope(a, c)
BY Zenon DEF CoversScope

LEMMA CoveringApplies ==
  ASSUME NEW a, NEW b, NEW class, CoversScope(a, b), Applies(b, class) PROVE Applies(a, class)
BY Zenon DEF CoversScope, Applies

LEMMA CalculationsAreTyped ==
  ASSUME NEW m \in Manifest
  PROVE  /\ m.id \in ModuleIds /\ CalcIdsOf(m) \subseteq CalcIds
         /\ \A i \in DOMAIN m.calcs : m.calcs[i].id \in CalcIdsOf(m) /\ m.calcs[i].reads \subseteq CalcIds
         /\ \A id \in CalcIds : id \in Declares(m) <=> id \in CalcIdsOf(m)
         /\ DOMAIN m.calcs \subseteq Nat
<1>1. m.id \in ModuleIds /\ m.calcs \in Seq(Calc) /\ m.sections \subseteq SectionIds
  BY DEF Manifest
<1>2. DOMAIN m.calcs = 1..Len(m.calcs) /\ \A i \in DOMAIN m.calcs : m.calcs[i] \in Calc
  BY <1>1
<1>3. \A c \in Calc : c.id \in CalcIds /\ c.reads \subseteq CalcIds
  BY DEF Calc
<1>4. \A i \in DOMAIN m.calcs : m.calcs[i].id \in CalcIds /\ m.calcs[i].reads \subseteq CalcIds
  BY <1>2, <1>3, Zenon
<1>5. CalcIdsOf(m) \subseteq CalcIds /\ \A i \in DOMAIN m.calcs : m.calcs[i].id \in CalcIdsOf(m)
  BY <1>4, Zenon DEF CalcIdsOf
<1>6. \A id \in CalcIds : id \notin m.sections
  BY <1>1, NamespacesAreApart, Zenon
<1>7. \A id \in CalcIds : id \in Declares(m) <=> id \in CalcIdsOf(m)
  BY <1>6, Zenon DEF Declares
<1>8. DOMAIN m.calcs \subseteq Nat
  BY <1>1, <1>2
<1> QED
  BY <1>1, <1>4, <1>5, <1>7, <1>8, Zenon

\* What a module that is claimed without a fault overrides: the owner, which it
\* covers; and it leaves no reader unserved.
LEMMA ClaimsAreSafe ==
  ASSUME NEW m \in Manifest, ClaimFaults(m) = {}, NEW id \in CalcIdsOf(m), owner[id] # Nobody
  PROVE  /\ \A r \in LoadedSet : r.id = owner[id] => CoversScope(m, r)
         /\ ~UnservedReader(id, m)
<1>1. id \in CalcIds /\ id \in Declares(m)
  BY CalculationsAreTyped, Zenon
<1>2. {"PROTO-MOD-081", "PROTO-MOD-083", "PROTO-MOD-084"} \subseteq RegistryCodes
  BY DEF RegistryCodes
<1>3. Conflicting(m) \cap CalcIds = {}
  BY <1>2 DEF ClaimFaults
<1>4. id \in Overridden(m)
  BY <1>1, <1>3, Zenon DEF Overridden, Redeclared
<1>5. ~\E d \in Overridden(m), r \in LoadedSet : r.id = owner[d] /\ ~CoversScope(m, r)
  BY <1>2 DEF ClaimFaults
<1>6. ~\E d \in Overridden(m) \cap CalcIds : UnservedReader(d, m)
  BY <1>2 DEF ClaimFaults
<1> QED
  BY <1>1, <1>4, <1>5, <1>6, Zenon
-----------------------------------------------------------------------------
(* A module is loaded.                                                     *)

FirstClaimed(m) ==
  [id \in CalcIds |-> IF id \in CalcIdsOf(m) /\ first[id] = Nobody THEN m.id ELSE first[id]]

LEMMA PositionIsTheDeclaration ==
  ASSUME NEW m, Once(m), NEW j \in DOMAIN m.calcs PROVE Position(m, m.calcs[j].id) = j
<1> DEFINE id == m.calcs[j].id
           p == CHOOSE i \in DOMAIN m.calcs : m.calcs[i].id = id
<1>1. p \in DOMAIN m.calcs /\ m.calcs[p].id = id
  OBVIOUS
<1>2. p = j
  BY <1>1, Zenon DEF Once
<1> QED
  BY <1>2, Zenon DEF Position

\* What is declared has an owner.
LEMMA DeclaredIsOwned ==
  ASSUME RegistryInv, NEW n \in DOMAIN loaded, NEW id \in CalcIdsOf(loaded[n])
  PROVE  /\ owner[id] # Nobody
         /\ \E k \in DOMAIN loaded : /\ loaded[k].id = owner[id] /\ id \in CalcIdsOf(loaded[k])
                                     /\ CoversScope(loaded[k], loaded[n])
<1>1. PICK k \in DOMAIN loaded : loaded[k].id = owner[id] /\ id \in CalcIdsOf(loaded[k])
                                 /\ CoversScope(loaded[k], loaded[n])
  BY Zenon DEF RegistryInv, Sound, Owned
<1>2. loaded[k] \in Manifest
  BY DEF RegistryInv
<1>3. loaded[k].id \in ModuleIds
  BY <1>2 DEF Manifest
<1> QED
  BY <1>1, <1>3, NobodyIsNoModule, Zenon

LEMMA LoadingKeepsSound ==
  ASSUME RegistryInv, NEW m \in Manifest, Once(m), m.id \notin IdsIn(LoadedSet), ClaimFaults(m) = {}
  PROVE  Sound(Append(loaded, m), Claimed(m), FirstClaimed(m))
<1> DEFINE ms == Append(loaded, m)
           own == Claimed(m)
           fst == FirstClaimed(m)
           z == Len(loaded) + 1
<1>1. /\ loaded \in Seq(Manifest) /\ Len(loaded) \in Nat
      /\ DOMAIN loaded = 1..Len(loaded) /\ DOMAIN ms = 1..z /\ ms[z] = m
      /\ \A n \in DOMAIN loaded : ms[n] = loaded[n] /\ loaded[n] \in Manifest
  BY DEF RegistryInv
<1> HIDE DEF ms
<1>2. /\ \A n \in DOMAIN ms : (n \in DOMAIN loaded /\ ms[n] = loaded[n]) \/ (n = z /\ ms[n] = m)
      /\ \A n \in DOMAIN loaded : n \in DOMAIN ms /\ ms[n] = loaded[n] /\ n # z /\ n \in Nat
      /\ \A n \in DOMAIN loaded : \A k \in 1..n : k \in DOMAIN loaded
      /\ \A n \in DOMAIN loaded : \A k \in 1..(n - 1) : k \in DOMAIN loaded /\ k \in 1..n
      /\ \A n \in DOMAIN loaded : n < z /\ n \in 1..z /\ n \in 1..(z - 1)
      /\ \A n \in 1..(z - 1) : n \in DOMAIN loaded
      /\ \A n \in DOMAIN loaded : n \in 1..n
      /\ z \in DOMAIN ms /\ z \in 1..z /\ \A k \in 1..z : k < z \/ k = z
      /\ \A n \in DOMAIN ms : \A k \in 1..n : k \in DOMAIN ms
  BY <1>1
<1> HIDE DEF z
<1>3. \A n \in DOMAIN loaded :
        /\ loaded[n] \in LoadedSet /\ loaded[n].id # m.id /\ Once(loaded[n])
        /\ loaded[n].id \in ModuleIds /\ CalcIdsOf(loaded[n]) \subseteq CalcIds
        /\ \A i \in DOMAIN loaded[n].calcs : /\ loaded[n].calcs[i].id \in CalcIdsOf(loaded[n])
                                             /\ loaded[n].calcs[i].reads \subseteq CalcIds
        /\ DOMAIN loaded[n].calcs \subseteq Nat
  <2>1. \A n \in DOMAIN loaded : loaded[n] \in LoadedSet
    BY Zenon DEF LoadedSet
  <2>2. \A n \in DOMAIN loaded : loaded[n].id # m.id
    BY <2>1, Zenon DEF IdsIn
  <2> QED
    BY <1>1, <2>1, <2>2, CalculationsAreTyped, Zenon DEF RegistryInv, Sound
<1>4. /\ m.id \in ModuleIds /\ m.id # Nobody /\ CalcIdsOf(m) \subseteq CalcIds
      /\ \A i \in DOMAIN m.calcs : m.calcs[i].id \in CalcIdsOf(m) /\ m.calcs[i].reads \subseteq CalcIds
      /\ DOMAIN m.calcs \subseteq Nat
  BY CalculationsAreTyped, NobodyIsNoModule, Zenon
<1>5. /\ \A id \in CalcIdsOf(m) : own[id] = m.id
      /\ \A id \in CalcIds : id \notin CalcIdsOf(m) => own[id] = owner[id]
  <2>1. \A id \in CalcIds : own[id] = IF id \in Declares(m) THEN m.id ELSE owner[id]
    BY Zenon DEF Claimed, DeclaredIds
  <2> QED
    BY <1>4, <2>1, CalculationsAreTyped, Zenon
<1>6. \A id \in CalcIds : /\ (id \in CalcIdsOf(m) /\ first[id] = Nobody) => fst[id] = m.id
                          /\ ~(id \in CalcIdsOf(m) /\ first[id] = Nobody) => fst[id] = first[id]
  BY Zenon DEF FirstClaimed
<1> HIDE DEF own, fst
<1>7. /\ IdsDiffer(loaded) /\ Owned(loaded, owner) /\ Firsts(loaded, first) /\ Found(loaded, owner)
  BY Zenon DEF RegistryInv, Sound
<1>8. \A n \in DOMAIN ms : Once(ms[n])
  BY <1>2, <1>3, Zenon
<1>9. IdsDiffer(ms)
  BY <1>2, <1>3, <1>7, Zenon DEF IdsDiffer
<1>10. Owned(ms, own)
  <2> SUFFICES ASSUME NEW n \in DOMAIN ms, NEW id \in CalcIdsOf(ms[n])
               PROVE  \E k \in DOMAIN ms :
                        ms[k].id = own[id] /\ id \in CalcIdsOf(ms[k]) /\ CoversScope(ms[k], ms[n])
    BY Zenon DEF Owned
  <2>1. CASE n = z
    <3>1. CoversScope(m, m)
      BY Zenon DEF CoversScope
    <3> QED
      BY <1>1, <1>2, <1>5, <2>1, <3>1, Zenon
  <2>2. CASE n \in DOMAIN loaded /\ id \notin CalcIdsOf(m)
    <3>1. id \in CalcIdsOf(loaded[n]) /\ id \in CalcIds
      BY <1>2, <1>3, <2>2, Zenon
    <3>2. PICK k \in DOMAIN loaded : loaded[k].id = owner[id] /\ id \in CalcIdsOf(loaded[k])
                                     /\ CoversScope(loaded[k], loaded[n])
      BY <1>7, <2>2, <3>1, Zenon DEF Owned
    <3> QED
      BY <1>2, <1>5, <2>2, <3>1, <3>2, Zenon
  <2>3. CASE n \in DOMAIN loaded /\ id \in CalcIdsOf(m)
    <3>1. id \in CalcIdsOf(loaded[n])
      BY <1>2, <2>3, Zenon
    <3>2. PICK k \in DOMAIN loaded : loaded[k].id = owner[id] /\ CoversScope(loaded[k], loaded[n])
      BY <2>3, <3>1, DeclaredIsOwned, Zenon
    <3>3. owner[id] # Nobody
      BY <2>3, <3>1, DeclaredIsOwned, Zenon
    <3>4. CoversScope(m, loaded[k])
      BY <1>3, <2>3, <3>2, <3>3, ClaimsAreSafe, Zenon
    <3>5. CoversScope(m, loaded[n])
      BY <3>2, <3>4, CoveringIsTransitive, Zenon
    <3> QED
      BY <1>1, <1>2, <1>5, <2>3, <3>5, Zenon
  <2> QED
    BY <1>2, <2>1, <2>2, <2>3, Zenon
<1>11. Firsts(ms, fst)
  <2>1. \A n \in DOMAIN ms : \A id \in CalcIdsOf(ms[n]) : fst[id] # Nobody
    BY <1>2, <1>3, <1>4, <1>6, <1>7, Zenon DEF Firsts
  <2>2. \A id \in CalcIds : fst[id] # Nobody => \E n \in DOMAIN ms : ms[n].id = fst[id]
    <3> SUFFICES ASSUME NEW id \in CalcIds, fst[id] # Nobody PROVE \E n \in DOMAIN ms : ms[n].id = fst[id]
      OBVIOUS
    <3>1. CASE id \in CalcIdsOf(m) /\ first[id] = Nobody
      BY <1>1, <1>2, <1>6, <3>1, Zenon
    <3>2. CASE ~(id \in CalcIdsOf(m) /\ first[id] = Nobody)
      <4>1. fst[id] = first[id]
        BY <1>6, <3>2, Zenon
      <4>2. PICK n \in DOMAIN loaded : loaded[n].id = first[id]
        BY <1>7, <4>1, Zenon DEF Firsts
      <4> QED
        BY <1>2, <4>1, <4>2, Zenon
    <3> QED
      BY <3>1, <3>2
  <2>3. ASSUME NEW n \in DOMAIN ms, NEW id \in CalcIds, ms[n].id = fst[id], NEW k \in 1..(n - 1)
        PROVE  id \notin CalcIdsOf(ms[k])
    <3>1. CASE n \in DOMAIN loaded
      <4>1. fst[id] = first[id] /\ ms[k] = loaded[k] /\ loaded[n].id = first[id]
        BY <1>2, <1>3, <1>6, <2>3, <3>1, Zenon
      <4> QED
        BY <1>7, <2>3, <3>1, <4>1, Zenon DEF Firsts
    <3>2. CASE n = z
      <4>1. k \in DOMAIN loaded /\ ms[k] = loaded[k]
        BY <1>2, <3>2, Zenon
      <4>2. fst[id] = m.id
        BY <1>1, <2>3, <3>2, Zenon
      <4>3. first[id] # m.id
        BY <1>3, <1>4, <1>7, Zenon DEF Firsts
      <4>4. first[id] = Nobody
        BY <1>6, <4>2, <4>3, Zenon
      <4> QED
        BY <1>7, <4>1, <4>4, Zenon DEF Firsts
    <3> QED
      BY <1>2, <3>1, <3>2, Zenon
  <2> QED
    BY <2>1, <2>2, <2>3, Zenon DEF Firsts
<1>12. Found(ms, own)
  <2> SUFFICES ASSUME NEW class, NEW n \in DOMAIN ms, NEW i \in DOMAIN ms[n].calcs,
                      NEW id \in ms[n].calcs[i].reads
               PROVE  Finds(ms, own, class, n, i, id)
    BY Zenon DEF Found
  <2> SUFFICES ASSUME Applies(ms[n], class), own[ms[n].calcs[i].id] = ms[n].id,
                      NEW k \in 1..n, NEW j \in DOMAIN ms[k].calcs,
                      Precedes(ms, k, j, n, i, id), Applies(ms[k], class)
               PROVE  \E q \in 1..n : \E p \in DOMAIN ms[q].calcs :
                        Precedes(ms, q, p, n, i, id) /\ Applies(ms[q], class) /\ own[id] = ms[q].id
    BY Zenon DEF Finds
  <2>1. k \in DOMAIN ms /\ ms[k].calcs[j].id = id /\ (k < n \/ (k = n /\ j < i))
    BY <1>2, Zenon DEF Precedes
  <2>2. CASE n \in DOMAIN loaded /\ id \notin CalcIdsOf(m)
    <3>1. ms[n] = loaded[n] /\ id \in CalcIds /\ \A q \in 1..n : ms[q] = loaded[q]
      BY <1>2, <1>3, <2>2, Zenon
    <3>2. own[id] = owner[id]
      BY <1>5, <2>2, <3>1, Zenon
    <3>3. ms[n].calcs[i].id \in CalcIds /\ ms[n].calcs[i].id \notin CalcIdsOf(m)
      BY <1>3, <1>5, <2>2, <3>1, Zenon
    <3>4. owner[loaded[n].calcs[i].id] = loaded[n].id
      BY <1>5, <3>1, <3>3, Zenon
    <3>5. \A q \in 1..n : \A p : Precedes(ms, q, p, n, i, id) <=> Precedes(loaded, q, p, n, i, id)
      BY <3>1, Zenon DEF Precedes
    <3>6. Finds(loaded, owner, class, n, i, id)
      BY <1>7, <2>2, <3>1, Zenon DEF Found
    <3>7. PICK q \in 1..n : \E p \in DOMAIN loaded[q].calcs :
            Precedes(loaded, q, p, n, i, id) /\ Applies(loaded[q], class) /\ owner[id] = loaded[q].id
      BY <3>1, <3>4, <3>5, <3>6, Zenon DEF Finds
    <3> QED
      BY <3>1, <3>2, <3>5, <3>7, Zenon
  <2>3. CASE n \in DOMAIN loaded /\ id \in CalcIdsOf(m)
    <3>1. ms[n] = loaded[n] /\ k \in DOMAIN loaded /\ ms[k] = loaded[k]
      BY <1>2, <2>3, Zenon
    <3>2. id \in CalcIdsOf(loaded[k]) /\ own[id] = m.id
      BY <1>3, <1>5, <2>1, <2>3, <3>1, Zenon
    <3>3. ~UnservedReader(id, m)
      BY <2>3, <3>1, <3>2, DeclaredIsOwned, ClaimsAreSafe, Zenon
    <3>4. loaded[n].calcs[i].id # id
      BY <1>3, <2>3, <3>1, <3>2, Zenon
    <3>5. loaded[n].id = first[id] /\ i < Position(loaded[n], id)
      BY <1>3, <2>3, <3>1, <3>3, <3>4, Zenon DEF UnservedReader
    <3>6. \A q \in 1..(n - 1) : id \notin CalcIdsOf(loaded[q])
      BY <1>4, <1>7, <2>3, <3>5, Zenon DEF Firsts
    <3>7. k < n => k \in 1..(n - 1)
      BY <1>1, <2>3, <3>1
    <3>8. k = n /\ j < i
      BY <2>1, <3>2, <3>6, <3>7, Zenon
    <3>9. Position(loaded[n], id) = j
      BY <1>3, <2>1, <2>3, <3>1, <3>8, PositionIsTheDeclaration, Zenon
    <3>10. i \in Nat /\ j \in Nat
      BY <1>3, <2>3, <3>1, <3>8, Zenon
    <3> QED
      BY <3>5, <3>8, <3>9, <3>10
  <2>4. CASE n = z /\ id \in CalcIdsOf(m)
    <3>1. ms[n] = m /\ own[id] = m.id /\ n \in 1..n
      BY <1>1, <1>2, <1>5, <2>4, Zenon
    <3>2. CASE k = n
      BY <3>1, <3>2, Zenon
    <3>3. CASE k # n
      <4>1. k \in DOMAIN loaded /\ ms[k] = loaded[k]
        BY <1>2, <2>1, <2>4, <3>3, Zenon
      <4>2. id \in CalcIdsOf(loaded[k])
        BY <1>3, <2>1, <4>1, Zenon
      <4>3. ~UnservedReader(id, m)
        BY <2>4, <4>1, <4>2, DeclaredIsOwned, ClaimsAreSafe, Zenon
      <4>4. ~(i <= Position(m, id))
        BY <3>1, <4>3, Zenon DEF UnservedReader
      <4>5. PICK p \in DOMAIN m.calcs : m.calcs[p].id = id
        BY <2>4, Zenon DEF CalcIdsOf
      <4>6. Position(m, id) = p
        BY <4>5, PositionIsTheDeclaration, Zenon
      <4>7. p < i
        <5>1. i \in Nat /\ p \in Nat
          BY <1>4, <3>1, <4>5, Zenon
        <5> QED
          BY <4>4, <4>6, <5>1
      <4>8. Precedes(ms, n, p, n, i, id)
        BY <3>1, <4>5, <4>7, Zenon DEF Precedes
      <4> QED
        BY <3>1, <4>5, <4>8, Zenon
    <3> QED
      BY <3>2, <3>3
  <2>5. CASE n = z /\ id \notin CalcIdsOf(m)
    <3>1. ms[n] = m /\ id \in CalcIds
      BY <1>1, <1>4, <2>5, Zenon
    <3>2. k # n
      BY <1>4, <2>1, <2>5, <3>1, Zenon
    <3>3. k \in DOMAIN loaded /\ ms[k] = loaded[k]
      BY <1>2, <2>1, <2>5, <3>2, Zenon
    <3>4. id \in CalcIdsOf(loaded[k])
      BY <1>3, <2>1, <3>3, Zenon
    <3>5. PICK q \in DOMAIN loaded : loaded[q].id = owner[id] /\ id \in CalcIdsOf(loaded[q])
                                     /\ CoversScope(loaded[q], loaded[k])
      BY <3>3, <3>4, DeclaredIsOwned, Zenon
    <3>6. PICK p \in DOMAIN loaded[q].calcs : loaded[q].calcs[p].id = id
      BY <3>5, Zenon DEF CalcIdsOf
    <3>7. q < n /\ q \in 1..n /\ ms[q] = loaded[q]
      BY <1>2, <2>5, Zenon
    <3>8. Applies(ms[q], class)
      BY <3>3, <3>5, <3>7, CoveringApplies, Zenon
    <3>9. Precedes(ms, q, p, n, i, id) /\ own[id] = ms[q].id
      BY <1>5, <2>5, <3>1, <3>5, <3>6, <3>7, Zenon DEF Precedes
    <3> QED
      BY <3>6, <3>7, <3>8, <3>9, Zenon
  <2> QED
    BY <1>2, <2>2, <2>3, <2>4, <2>5, Zenon
<1> QED
  BY <1>8, <1>9, <1>10, <1>11, <1>12, Zenon DEF Sound, ms, own, fst

-----------------------------------------------------------------------------
(* The theorem.                                                            *)

LEMMA RegistriesStartSound == RegistryInit => RegistryInv
<1> SUFFICES ASSUME RegistryInit PROVE RegistryInv
  OBVIOUS
<1>1. listing \in Listings /\ at = 1 /\ loaded = <<>>
      /\ owner = [id \in DeclaredIds |-> Nobody] /\ first = [id \in CalcIds |-> Nobody]
  BY Zenon DEF RegistryInit
<1>2. loaded \in Seq(Manifest) /\ DOMAIN loaded = {} /\ at \in Nat \ {0}
  BY <1>1
<1>3. owner \in [DeclaredIds -> ModuleIds \cup {Nobody}] /\ first \in [CalcIds -> ModuleIds \cup {Nobody}]
  BY <1>1
<1>4. \A id \in CalcIds : first[id] = Nobody
  BY <1>1, Zenon
<1>5. Sound(loaded, owner, first)
  BY <1>2, <1>4, Zenon DEF Sound, IdsDiffer, Owned, Firsts, Found
<1> QED
  BY <1>1, <1>2, <1>3, <1>5, Zenon DEF RegistryInv

LEMMA StepsKeepRegistriesSound ==
  ASSUME RegistryInv, [RegistryNext]_registryVars PROVE RegistryInv'
<1>0. at + 1 \in Nat \ {0} /\ 1 \in Nat \ {0}
  BY DEF RegistryInv
<1>1. CASE CheckCandidate
  BY <1>0, <1>1, Zenon DEF CheckCandidate, RegistryInv
<1>2. CASE EndChecks
  BY <1>0, <1>2, Zenon DEF EndChecks, RegistryInv
<1>3. CASE LoadCandidate
  <2> DEFINE m == listing[at]
  <2>1. at' = at + 1 /\ listing' = listing /\ at <= Len(listing)
    BY <1>3, Zenon DEF LoadCandidate
  <2>2. CASE UNCHANGED <<loaded, owner, first>>
    BY <1>0, <2>1, <2>2, Zenon DEF RegistryInv
  <2>3. CASE ~UNCHANGED <<loaded, owner, first>>
    <3>1. /\ ManifestFaults(m, LoadedSet) = {} /\ m.id \notin IdsIn(LoadedSet) /\ ClaimFaults(m) = {}
          /\ loaded' = Append(loaded, m) /\ owner' = Claimed(m) /\ first' = FirstClaimed(m)
      BY <1>3, <2>3 DEF LoadCandidate, FirstClaimed
    <3>2. listing \in Listings /\ at \in DOMAIN listing
      BY <2>1, ListingsAreManifests DEF RegistryInv
    <3>3. m \in Manifest
      BY <3>2, ListingsAreManifests
    <3>4. m.fit
      BY <3>1 DEF ManifestFaults
    <3>5. Once(m)
      BY <3>2, <3>4, FitManifestsDeclareOnce, Zenon DEF Once
    <3> HIDE DEF m
    <3>6. Sound(loaded', owner', first')
      BY <3>1, <3>3, <3>5, LoadingKeepsSound, Zenon
    <3>7. loaded' \in Seq(Manifest)
      BY <3>1, <3>3 DEF RegistryInv
    <3>8. m.id \in ModuleIds
      BY <3>3 DEF Manifest
    <3>9. owner' \in [DeclaredIds -> ModuleIds \cup {Nobody}]
      BY <3>1, <3>8 DEF RegistryInv, Claimed
    <3>10. first' \in [CalcIds -> ModuleIds \cup {Nobody}]
      BY <3>1, <3>8 DEF RegistryInv, FirstClaimed
    <3> QED
      BY <1>0, <2>1, <3>6, <3>7, <3>9, <3>10, Zenon DEF RegistryInv
  <2> QED
    BY <2>2, <2>3
<1>4. CASE EndLoading
  BY <1>4, Zenon DEF EndLoading, RegistryInv
<1>5. CASE UNCHANGED registryVars
  BY <1>5, Zenon DEF registryVars, RegistryInv
<1> QED
  BY <1>1, <1>2, <1>3, <1>4, <1>5, Zenon DEF RegistryNext

LEMMA ReadersStayServed == RegistryInv => ReadersFindOwners
<1> SUFFICES ASSUME RegistryInv, NEW class \in Classes \cup {NoClass}, NEW n \in DOMAIN loaded,
                    NEW i \in DOMAIN loaded[n].calcs, NEW id \in loaded[n].calcs[i].reads
             PROVE  LET before(k, j) == /\ k < n \/ (k = n /\ j < i)
                                        /\ Applies(loaded[k], class) /\ loaded[k].calcs[j].id = id
                    IN /\ Applies(loaded[n], class) /\ InEffect(loaded[n], loaded[n].calcs[i].id)
                       /\ \E k \in 1..n : \E j \in DOMAIN loaded[k].calcs : before(k, j)
                       => \E k \in 1..n : \E j \in DOMAIN loaded[k].calcs :
                            before(k, j) /\ InEffect(loaded[k], id)
  BY Zenon DEF ReadersFindOwners
<1> DEFINE before(k, j) == /\ k < n \/ (k = n /\ j < i)
                           /\ Applies(loaded[k], class) /\ loaded[k].calcs[j].id = id
<1> SUFFICES ASSUME Applies(loaded[n], class), InEffect(loaded[n], loaded[n].calcs[i].id),
                    NEW k \in 1..n, NEW j \in DOMAIN loaded[k].calcs, before(k, j)
             PROVE  \E q \in 1..n : \E p \in DOMAIN loaded[q].calcs :
                      before(q, p) /\ InEffect(loaded[q], id)
  BY Zenon
<1>1. Finds(loaded, owner, class, n, i, id)
  BY Zenon DEF RegistryInv, Sound, Found
<1>2. owner[loaded[n].calcs[i].id] = loaded[n].id
  BY Zenon DEF InEffect
<1>3. Precedes(loaded, k, j, n, i, id) /\ Applies(loaded[k], class)
  BY Zenon DEF Precedes
<1>4. PICK q \in 1..n : \E p \in DOMAIN loaded[q].calcs :
        Precedes(loaded, q, p, n, i, id) /\ Applies(loaded[q], class) /\ owner[id] = loaded[q].id
  BY <1>1, <1>2, <1>3, Zenon DEF Finds
<1> QED
  BY <1>4, Zenon DEF Precedes, InEffect

\* A set of natural numbers that is not empty has a least one.
LEMMA LeastOne ==
  ASSUME NEW S \in SUBSET Nat, S # {} PROVE \E x \in S : \A y \in S : x <= y
<1>1. PICK x \in S : \A y \in S : ~ (<<y, x>> \in OpToRel(<, Nat))
  BY NatLessThanWellFounded, WFMin, Zenon
<1>2. \A y \in S : x <= y
  <2> SUFFICES ASSUME NEW y \in S PROVE x <= y
    BY Zenon
  <2>1. <<y, x>> \in Nat \X Nat
    BY Zenon
  <2>2. <<y, x>>[1] = y /\ <<y, x>>[2] = x
    OBVIOUS
  <2>3. ~ (<<y, x>>[1] < <<y, x>>[2])
    BY <1>1, <2>1, Zenon DEF OpToRel
  <2>4. ~ (y < x)
    BY <2>2, <2>3
  <2> QED
    BY <2>4, SMT
<1> QED
  BY <1>2

LEMMA DeclarationsStayListed == RegistryInv => EachCalculationIsListedOnce
<1> SUFFICES ASSUME RegistryInv, NEW class \in Classes, NEW m \in LoadedSet, class \in m.scope,
                    NEW id \in CalcIdsOf(m)
             PROVE  Cardinality({s \in ListedFor(class) : IdAt(s) = id}) = 1
  BY Zenon DEF EachCalculationIsListedOnce
<1> DEFINE Standing == {s \in ListedFor(class) : IdAt(s) = id}
<1>1. PICK n0 \in DOMAIN loaded : loaded[n0] = m
  BY Zenon DEF LoadedSet
<1>2. /\ IdsDiffer(loaded) /\ \A n \in DOMAIN loaded : Once(loaded[n])
      /\ \A n \in DOMAIN loaded : loaded[n] \in LoadedSet
      /\ \A r \in LoadedSet : \E n \in DOMAIN loaded : loaded[n] = r
      /\ DOMAIN loaded \subseteq Nat
  <2>1. DOMAIN loaded \subseteq Nat
    BY DEF RegistryInv
  <2> QED
    BY <2>1, Zenon DEF RegistryInv, Sound, LoadedSet
<1>3. /\ \A s \in Slots(class) :
           \E n \in DOMAIN loaded : class \in loaded[n].scope /\ \E i \in DOMAIN loaded[n].calcs : s = <<n, i>>
      /\ \A n \in DOMAIN loaded : class \in loaded[n].scope =>
           \A i \in DOMAIN loaded[n].calcs : <<n, i>> \in Slots(class)
  <2> DEFINE named == {k \in DOMAIN loaded : class \in loaded[k].scope}
             of(n) == {<<n, i>> : i \in DOMAIN loaded[n].calcs}
  <2>1. Slots(class) = UNION {of(n) : n \in named}
    BY DEF Slots
  <2>2. ASSUME NEW s \in Slots(class) PROVE \E n \in named : s \in of(n)
    BY <2>1, <2>2
  <2>3. ASSUME NEW n \in named, NEW s \in of(n) PROVE s \in Slots(class)
    BY <2>1, <2>3
  <2> QED
    BY <2>2, <2>3, Zenon
<1>4. \A n, i : IdAt(<<n, i>>) = loaded[n].calcs[i].id /\ <<n, i>>[1] = n
  BY DEF IdAt
<1>5. CASE OwnerListed(id, class)
  <2>1. PICK k \in DOMAIN loaded : loaded[k].id = owner[id] /\ id \in CalcIdsOf(loaded[k])
    BY <1>1, DeclaredIsOwned, Zenon
  <2>2. class \in loaded[k].scope
    BY <1>2, <1>5, <2>1, Zenon DEF OwnerListed, InEffect, IdsDiffer
  <2>3. PICK i \in DOMAIN loaded[k].calcs : loaded[k].calcs[i].id = id
    BY <2>1, Zenon DEF CalcIdsOf
  <2>4. <<k, i>> \in Standing
    <3>1. IdAt(<<k, i>>) = id /\ <<k, i>>[1] = k
      BY <1>4, <2>3, Zenon
    <3>2. <<k, i>> \in Slots(class)
      BY <1>3, <2>1, <2>2, <2>3, Zenon
    <3>3. InEffect(loaded[(<<k, i>>)[1]], IdAt(<<k, i>>))
      BY <2>1, <3>1, Zenon DEF InEffect
    <3> QED
      BY <3>1, <3>2, <3>3, Zenon DEF ListedFor
  <2>5. ASSUME NEW s \in Standing PROVE s = <<k, i>>
    <3>1. PICK n \in DOMAIN loaded : class \in loaded[n].scope /\ \E j \in DOMAIN loaded[n].calcs : s = <<n, j>>
      BY <1>3, <2>5, Zenon DEF ListedFor
    <3>2. PICK j \in DOMAIN loaded[n].calcs : s = <<n, j>>
      BY <3>1, Zenon
    <3>3. loaded[n].calcs[j].id = id /\ loaded[n].id = owner[id]
      BY <1>4, <1>5, <2>5, <3>2, Zenon DEF ListedFor, InEffect
    <3>4. n = k
      BY <1>2, <2>1, <3>3, Zenon DEF IdsDiffer
    <3>5. j \in DOMAIN loaded[k].calcs /\ loaded[k].calcs[j].id = loaded[k].calcs[i].id
      BY <2>3, <3>3, <3>4, Zenon
    <3>6. j = i
      BY <1>2, <2>3, <3>5, Zenon DEF Once
    <3> QED
      BY <3>2, <3>4, <3>6, Zenon
  <2>6. Standing = {<<k, i>>}
    BY <2>4, <2>5, Zenon
  <2> QED
    BY <2>6, FS_Singleton, Zenon
<1>6. CASE ~OwnerListed(id, class)
  <2> DEFINE Ns == {n \in DOMAIN loaded : class \in loaded[n].scope /\ id \in CalcIdsOf(loaded[n])}
  <2>1. PICK k \in Ns : \A n \in Ns : k <= n
    <3>1. n0 \in Ns /\ Ns \in SUBSET Nat
      BY <1>1, <1>2, Zenon
    <3> HIDE DEF Ns
    <3> QED
      BY <3>1, LeastOne, Zenon
  <2>2. PICK i \in DOMAIN loaded[k].calcs : loaded[k].calcs[i].id = id
    BY <2>1, Zenon DEF CalcIdsOf
  <2>3. ASSUME NEW t \in Slots(class), IdAt(t) = id PROVE t[1] \in Ns
    <3>1. PICK n \in DOMAIN loaded : class \in loaded[n].scope /\ \E j \in DOMAIN loaded[n].calcs : t = <<n, j>>
      BY <1>3, <2>3, Zenon
    <3>2. PICK j \in DOMAIN loaded[n].calcs : t = <<n, j>>
      BY <3>1, Zenon
    <3>3. loaded[n].calcs[j].id = id /\ t[1] = n
      BY <1>4, <2>3, <3>2, Zenon
    <3> QED
      BY <3>1, <3>3, Zenon DEF CalcIdsOf
  <2>4. <<k, i>> \in Standing
    <3>1. <<k, i>> \in Slots(class) /\ IdAt(<<k, i>>) = id /\ <<k, i>>[1] = k
      BY <1>3, <1>4, <2>1, <2>2, Zenon
    <3>2. \A t \in Slots(class) : IdAt(t) = IdAt(<<k, i>>) => <<k, i>>[1] <= t[1]
      BY <2>1, <2>3, <3>1, Zenon
    <3> QED
      BY <1>6, <3>1, <3>2, Zenon DEF ListedFor
  <2>5. ASSUME NEW s \in Standing PROVE s = <<k, i>>
    <3>1. PICK n \in DOMAIN loaded : class \in loaded[n].scope /\ \E j \in DOMAIN loaded[n].calcs : s = <<n, j>>
      BY <1>3, <2>5, Zenon DEF ListedFor
    <3>2. PICK j \in DOMAIN loaded[n].calcs : s = <<n, j>>
      BY <3>1, Zenon
    <3>3. loaded[n].calcs[j].id = id /\ s[1] = n /\ IdAt(s) = id
      BY <1>4, <2>5, <3>2, Zenon
    <3>4. ~InEffect(loaded[n], id)
      BY <1>2, <1>6, <3>1, Zenon DEF OwnerListed
    <3>5. \A t \in Slots(class) : IdAt(t) = id => s[1] <= t[1]
      BY <2>5, <3>3, <3>4, Zenon DEF ListedFor
    <3>6. n <= k
      <4>1. <<k, i>> \in Slots(class) /\ IdAt(<<k, i>>) = id /\ <<k, i>>[1] = k
        BY <1>3, <1>4, <2>1, <2>2, Zenon
      <4>2. s[1] <= <<k, i>>[1]
        BY <3>5, <4>1, Zenon
      <4> QED
        BY <3>3, <4>1, <4>2, Zenon
    <3>7. n \in Ns
      BY <3>1, <3>2, <3>3, Zenon DEF CalcIdsOf
    <3>8. n = k
      BY <1>2, <2>1, <3>6, <3>7
    <3>9. j \in DOMAIN loaded[k].calcs /\ loaded[k].calcs[j].id = loaded[k].calcs[i].id
      BY <2>2, <3>3, <3>8, Zenon
    <3>10. j = i
      BY <1>2, <2>2, <3>9, Zenon DEF Once
    <3> QED
      BY <3>2, <3>8, <3>10, Zenon
  <2>6. Standing = {<<k, i>>}
    BY <2>4, <2>5, Zenon
  <2> QED
    BY <2>6, FS_Singleton, Zenon
<1> QED
  BY <1>5, <1>6

\* VII.3: whatever is overridden, in however long a chain, a calculation that
\* would find a value finds that of the owner, and every class that lists an id
\* lists one declaration of it.
THEOREM OverridesStayWithReaders == RegistrySpec => []OverridesStayAvailable
BY RegistriesStartSound, StepsKeepRegistriesSound, ReadersStayServed, DeclarationsStayListed,
   PTL DEF RegistrySpec, OverridesStayAvailable
=============================================================================
