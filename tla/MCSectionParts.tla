--------------------------- MODULE MCSectionParts ---------------------------
(***************************************************************************)
(* Records of up to three rows, in any order, with keys missing or repeated. *)
(***************************************************************************)
EXTENDS SectionParts

MCKeys == 1..2
MCRecords == BoundedSeq([key : MCKeys \cup {NoKey}, content : {"v"}], 3)
=============================================================================
