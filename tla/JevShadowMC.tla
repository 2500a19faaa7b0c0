------------------------------ MODULE JevShadowMC ------------------------------
(* Small instances of JevShadow. *)
EXTENDS JevShadow, TLC
=============================================================================
