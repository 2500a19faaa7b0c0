----------------------------- MODULE StaticSiteMC ------------------------------
(* Small instances of StaticSite. *)
EXTENDS StaticSite, TLC

CONSTANTS s1, s2, css1, css2

Symmetric == Permutations({s1, s2}) \cup Permutations({css1, css2})
=============================================================================
