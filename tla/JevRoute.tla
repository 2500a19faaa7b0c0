-------------------------------- MODULE JevRoute -------------------------------
(***************************************************************************)
(* pipeline/jev.py: a pair of events goes to Jev once, at the pace and     *)
(* with the cooldown its threads share, and to the Gemini chain if Jev is  *)
(* not to be asked or fails.                                               *)
(***************************************************************************)
EXTENDS GeminiChain

CONSTANTS Slots, JevInterval, JevTimeout, JevCooldown, JevAccountCooldown, JevRetryAfters

ASSUME JevRouteAssumption ==
    /\ {Slots, JevInterval} \subseteq Nat \ {0}
    /\ {JevTimeout, JevCooldown, JevAccountCooldown} \cup JevRetryAfters \subseteq Nat

VARIABLES
    free,        \* slots of the semaphore
    nextRequest, \* when the next request may go out
    jevCooling,  \* cooldown_until
    jevAsked,    \* history: the longest delay a failure has asked for
    jevExcused,  \* history: the threads past the last check when that delay began
    jevSpaced    \* history: the interval since the last request that is left

jev == <<free, nextRequest, jevCooling, jevAsked, jevExcused, jevSpaced>>

Due == nextRequest
ReservedFromNow == JevInterval \* mutant: the turn that is waited for is not added
Reserved == Due + JevInterval

\* With a slot: take the next turn, or leave at once while Jev cools down.
TakeTurn(w) ==
    /\ At(w, "jev") /\ free > 0
    /\ IF jevCooling > 0 THEN Goto(w, [Idle EXCEPT !.at = "chain"]) /\ UNCHANGED <<free, nextRequest>>
       ELSE /\ Goto(w, [Idle EXCEPT !.at = "paced", !.wake = Due])
            /\ nextRequest' = Reserved
            /\ free' = free - 1
    /\ UNCHANGED <<cool, flex, jevCooling, jevAsked, jevExcused, jevSpaced>>

Cooled == jevCooling > 0

SlotKept == free \* mutant: only an answer gives the slot back
SlotBack == free + 1

\* After the wait for its turn, under the lock again.
CheckAgain(w) ==
    /\ Woken(w, "paced")
    /\ Goto(w, [Idle EXCEPT !.at = IF Cooled THEN "chain" ELSE "jevReady"])
    /\ free' = IF Cooled THEN SlotBack ELSE free
    /\ UNCHANGED <<cool, flex, nextRequest, jevCooling, jevAsked, jevExcused, jevSpaced>>

\* The request, without the lock: Jev may have begun to cool down meanwhile.
SendPair(w) ==
    /\ At(w, "jevReady")
    /\ Goto(w, [Idle EXCEPT !.at = "jevSent", !.wake = JevTimeout])
    /\ jevExcused' = jevExcused \ {w}
    /\ jevSpaced' = JevInterval
    /\ UNCHANGED <<cool, flex, free, nextRequest, jevCooling, jevAsked>>

JevAnswers(w) ==
    /\ At(w, "jevSent") /\ End(w) /\ free' = free + 1
    /\ UNCHANGED <<cool, flex, nextRequest, jevCooling, jevAsked, jevExcused, jevSpaced>>

\* What a failure asks for: one without a reply, or before the request is
\* built, knows of the configured cooldown only.
JevDelays(w) ==
    {JevCooldown} \cup
    IF At(w, "jevSent") THEN {Max2(base, hint) : base \in {JevCooldown, JevAccountCooldown}, hint \in JevRetryAfters}
    ELSE {}

JevFails(w) ==
    /\ At(w, "jevReady") \/ At(w, "jevSent")
    /\ \E delay \in JevDelays(w) : jevCooling' = Max2(jevCooling, delay) /\ jevAsked' = Max2(jevAsked, delay)
    /\ jevExcused' = (IF jevAsked = 0 THEN {v \in Workers : At(v, "jevReady")} ELSE jevExcused) \ {w}
    /\ Goto(w, [Idle EXCEPT !.at = "chain"]) /\ free' = SlotBack
    /\ UNCHANGED <<cool, flex, nextRequest, jevSpaced>>

Jevs(w) == TakeTurn(w) \/ CheckAgain(w) \/ SendPair(w) \/ JevAnswers(w) \/ JevFails(w)

JevElapse ==
    /\ nextRequest' = Less(nextRequest) /\ jevCooling' = Less(jevCooling)
    /\ jevAsked' = Less(jevAsked) /\ jevSpaced' = Less(jevSpaced)
    /\ UNCHANGED <<free, jevExcused>>

JevInit ==
    /\ free = Slots /\ nextRequest = 0 /\ jevCooling = 0
    /\ jevAsked = 0 /\ jevExcused = {} /\ jevSpaced = 0
================================================================================
