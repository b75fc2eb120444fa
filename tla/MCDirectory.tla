---------------------------- MODULE MCDirectory ----------------------------
(***************************************************************************)
(* Directory with two paths and three processes: two that edit the first      *)
(* file, one that may have begun it, and one that begins or edits either.    *)
(***************************************************************************)
EXTENDS Directory

CONSTANTS f1, f2, sh1, sh2, sh3

MCFiles == {f1, f2}
MCShells == {sh1, sh2, sh3}
MCCommands ==
  ({sh1} \X {"supersede", "replace"} \X {f1}) \cup ({sh2} \X {"init", "supersede"} \X {f1})
    \cup ({sh3} \X {"init"} \X MCFiles) \cup {<<sh3, "supersede", f2>>}
=============================================================================
