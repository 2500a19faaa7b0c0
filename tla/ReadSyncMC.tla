----------------------------- MODULE ReadSyncMC --------------------------------
(* Small instances of ReadSync. *)
EXTENDS ReadSync, TLC

CONSTANTS t1, t2, phone, laptop, g1

TwoBrowsers == (t1 :> phone) @@ (t2 :> laptop)
OneBrowser  == (t1 :> phone) @@ (t2 :> phone)
Swapped == {p \in Permutations({t1, t2, phone, laptop}) : \A t \in {t1, t2} : p[t] \in {t1, t2} /\ p[TwoBrowsers[t]] = TwoBrowsers[p[t]]}
=============================================================================
