----------------------------- MODULE MCReceipts -----------------------------
(***************************************************************************)
(* A metric of the dictionary and a calculation of the pack's own; a pack in   *)
(* two versions, and two releases that canonicalize and compute differently. *)
(***************************************************************************)
EXTENDS Receipts

CONSTANTS noi, score, market, child

MCCalculations == {noi, score}
MCFinancials ==
  {[c \in MCCalculations |-> IF c = noi THEN f[1] ELSE f[2]] :
     f \in {<<"this", "this">>, <<"that", "this">>, <<"negative", "this">>,
            <<"this", "nonsense">>, <<"this", "nothing">>}}
MCReformed == {c \in MCFinancials : c[noi] = "that"}
MCPacks ==
  {[id |-> "starter", version |-> "1", outputs |-> {noi, score}],
   [id |-> "starter", version |-> "2", outputs |-> {noi}]}
MCReleases ==
  {[engine |-> "1", canon |-> "1", drift |-> {}], [engine |-> "2", canon |-> "2", drift |-> {noi}]}
=============================================================================
