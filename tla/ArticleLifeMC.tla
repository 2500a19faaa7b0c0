----------------------------- MODULE ArticleLifeMC -----------------------------
(* A small instance of ArticleLife: one text in two feeds, once behind a     *)
(* redirect to the page that the other feed lists itself, without a date.    *)
EXTENDS ArticleLife, TLC

CONSTANTS f1, f2, e1, e2, link, page, v1, v2

Sources == e1 :> f1 @@ e2 :> f2
Versions == e1 :> 1 @@ e2 :> 1
Links == e1 :> link @@ e2 :> page
Pages == link :> page @@ page :> page
Guids == e1 :> 1 @@ e2 :> 1
Texts == e1 :> 1 @@ e2 :> 1
Dates == e1 :> 0 @@ e2 :> None
Changes == f1 :> 2 @@ f2 :> 1
================================================================================
