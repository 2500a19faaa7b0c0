-------------------------------- MODULE DedupMC --------------------------------
(* A small instance of Dedup. *)
EXTENDS Dedup, TLC

CONSTANTS e1, e2, e3, e4

FirstOwner == (1 :> e1) @@ (2 :> e2) @@ (3 :> e3) @@ (4 :> None)
AlikeArticles == {{1, 2}, {2, 3}, {1, 3}}
AkinArticles == {{1, 4}}
HashBits == (e1 :> <<0, 0>>) @@ (e2 :> <<0, 1>>) @@ (e3 :> <<1, 0>>) @@ (e4 :> <<1, 1>>)
================================================================================
