----------------------------- MODULE MCRegistry -----------------------------
(***************************************************************************)
(* Lists of three modules, each with some dependencies, zero to two           *)
(* calculations and a scope, of four that form longer chains, and of two that *)
(* declare a section, with signatures.                                       *)
(***************************************************************************)
EXTENDS RegistryProperties

CONSTANTS ma, mb, mc, md, x, ya, yb, yc, yd, s1, office

MCModules == {ma, mb, mc, md}
MCCalcs == {x, ya, yb, yc, yd}
OwnCalc(m) == CASE m = ma -> ya [] m = mb -> yb [] m = mc -> yc [] m = md -> yd

Declare(id, reads) == [id |-> id, reads |-> reads]
Reader(m) == Declare(OwnCalc(m), {x})
MCLists(m) ==
  { <<>>, <<Declare(x, {})>>, <<Reader(m)>>, <<Declare(x, {x})>>,
    <<Reader(m), Declare(x, {})>>, <<Declare(x, {}), Reader(m)>> }

Plain(m, deps, calcs) ==
  [id |-> m, deps |-> deps, sections |-> {}, calcs |-> calcs, scope |-> {},
   fit |-> TRUE, signature |-> "good"]

\* By symmetry the modules are listed as ma, mb, mc, md; what varies is the rest.
OfThree(m, named, scopes) ==
  { [Plain(m, deps, calcs) EXCEPT !.scope = scope] :
      deps \in named, calcs \in MCLists(m), scope \in scopes }
Chained(m, earlier) ==
  { Plain(m, deps, calcs) :
      deps \in SUBSET earlier, calcs \in {<<>>, <<Declare(x, {})>>, <<Reader(m)>>} }
Sectioned(m) ==
  { [Plain(m, deps, <<>>) EXCEPT !.sections = {s1}, !.signature = sign, !.fit = fit] :
      deps \in {{}, {ma}}, sign \in {"none", "good", "bad"}, fit \in BOOLEAN }

MCListings ==
  {<<a, b, c>> : a \in OfThree(ma, {{}}, {{}}), b \in OfThree(mb, {{}, {ma}, {mc}}, {{}, {office}}),
                      c \in OfThree(mc, {{}, {ma}, {mb}}, {{}})}
    \cup {<<a, b, c, d>> : a \in Chained(ma, {}), b \in Chained(mb, {ma}),
                            c \in Chained(mc, {ma, mb}), d \in Chained(md, {ma, mb, mc})}
    \cup {<<a, b>> : a \in Sectioned(ma), b \in Sectioned(ma) \cup Sectioned(mb)}
=============================================================================
