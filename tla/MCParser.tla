------------------------------ MODULE MCParser ------------------------------
(***************************************************************************)
(* Parser and Envelope with every mixture of up to MaxBlocks marked, live,    *)
(* named, unnamed and role-carrying blocks of one section of each kind (a    *)
(* multi-variant section is a map whatever the roles of its blocks).        *)
(***************************************************************************)
EXTENDS Envelope

CONSTANTS single, multi, ext, v1, dflt, src, body

MCSingle == {single}
MCMulti == {multi}
MCExt == {ext}
MCCustom == {}
MCVariants == {v1, dflt}

MCScannable ==
  LET with(s, v, sup, role) ==
        [section |-> s, variant |-> v, source |-> src, revision |-> 1,
         superseded |-> sup, role |-> role, body |-> body,
         hash |-> Absent, parent |-> Absent]
  IN   {with(s, v, sup, role) : s \in {single, ext},
          v \in {v1, NoVariant}, sup \in BOOLEAN, role \in BOOLEAN}
  \cup {with(multi, v, sup, FALSE) : v \in {v1, NoVariant}, sup \in BOOLEAN}
  \cup {with(multi, dflt, FALSE, FALSE), with(PipelineLog, NoVariant, FALSE, FALSE)}
=============================================================================
