------------------------------ MODULE ModelCallsMC -----------------------------
(* A small instance of ModelCalls. *)
EXTENDS ModelCalls

CONSTANTS w1, w2, x1, s1, s2

FlexLabels == <<x1>>
StandardLabels == <<s1, s2>>
================================================================================
