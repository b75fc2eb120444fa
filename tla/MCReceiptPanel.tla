--------------------------- MODULE MCReceiptPanel ---------------------------
(***************************************************************************)
(* The web editor with one undo step and one file, which is the sample too   *)
(* and states a size below zero; an edit that mends the size, one that is not *)
(* financial, and a receipt of the file.                                    *)
(***************************************************************************)
EXTENDS ReceiptPanel

CONSTANTS file, scaffold, resize, note

MCFinding ==
  [x \in {file, scaffold} \cup Ops |->
     CASE x = file -> "negative" [] x = note -> "as before" [] OTHER -> "sound"]

MCFileReceipts ==
  { [digest |-> Canonical(Begun(file)), comparable |-> TRUE, perSize |-> FALSE,
     rest |-> "verified", issuedFrom |-> None] }
=============================================================================
