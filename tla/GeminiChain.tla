------------------------------ MODULE GeminiChain ------------------------------
(***************************************************************************)
(* pipeline/llm.py, FallbackGeminiClient: worker threads share one chain   *)
(* of clients.  A call tries the Flex models (half price) within the       *)
(* window of an outage, then the standard models.  Instants are kept as    *)
(* the time that is left until them, so that calls can go on for ever.     *)
(***************************************************************************)
EXTENDS Naturals, Sequences, FiniteSets

CONSTANTS
    Workers, None,
    Flex, Standard,    \* the labels (model and tier) of the clients, in order
    FlexWindow,        \* llm.flex_retry_seconds
    FlexTimeout, FlexCooldown, Poll,
    StandardTimeout, StandardCooldown,
    MaxAttempts, Backoff \* of one standard client

ASSUME GeminiChainAssumption ==
    /\ IsFiniteSet(Workers) /\ None \notin Nat
    /\ {Len(Flex), Len(Standard)} \subseteq Nat \ {0}
    \* a label names the tier
    /\ \A k \in 1 .. Len(Flex), n \in 1 .. Len(Standard) : Flex[k] # Standard[n]
    /\ {FlexWindow, FlexTimeout, FlexCooldown, Poll, StandardTimeout, StandardCooldown,
        MaxAttempts, Backoff} \subseteq Nat \ {0}

VARIABLES
    call,     \* call[w]: where the call of worker w is
    cooling,  \* _unavailable_until, for each label
    avoid,    \* avoid[w]: labels whose _unavailable_until is after the time at
              \* which the call of w turned to the standard clients
    flexAge,  \* the age of _flex_started, None for none
    outage    \* history: the time since the first call after Flex last worked

flex == <<flexAge, outage>>
cool == <<cooling, avoid>>
chain == <<call, cool, flex>>

Labels == {Flex[k] : k \in 1 .. Len(Flex)} \cup {Standard[k] : k \in 1 .. Len(Standard)}
Min2(a, b) == IF a < b THEN a ELSE b
Max2(a, b) == IF a < b THEN b ELSE a
Less(n) == IF n = 0 THEN 0 ELSE n - 1

Idle == [at |-> "idle", i |-> 0, wake |-> 0, left |-> 0, probe |-> FALSE,
         empty |-> {}, tries |-> 0]
At(w, s) == call[w].at = s
Woken(w, s) == At(w, s) /\ call[w].wake = 0
Goto(w, r) == call' = [call EXCEPT ![w] = r]
End(w) == Goto(w, Idle)

--------------------------------------------------------------------------------
(* _try_flex *)

OwnAge == 0 \* mutant: every call has a window of its own
Age == IF flexAge = None THEN 0 ELSE flexAge

\* The window starts with the first call since Flex last worked.
EnterFlex(w) ==
    /\ At(w, "chain")
    /\ flexAge' = Age
    /\ outage' = IF outage = None THEN 0 ELSE outage
    /\ Goto(w, [Idle EXCEPT !.at = "flex", !.i = 1, !.left = FlexWindow - Age, !.probe = (Age = FlexWindow)])
    /\ UNCHANGED cool

\* The clients this round may still try.
Ready(c) == {k \in c.i .. Len(Flex) : Flex[k] \notin c.empty /\ cooling[Flex[k]] = 0}
First(S) == {k \in S : \A n \in S : k <= n}
RoundOver(c) == (c.left = 0 /\ ~ c.probe) \/ Ready(c) = {}
AllEmpty(c) == \A k \in 1 .. Len(Flex) : Flex[k] \in c.empty

SendFlex(w) ==
    LET c == call[w]
    IN  /\ At(w, "flex") /\ ~ RoundOver(c)
        /\ \E k \in First(Ready(c)) :
             Goto(w, [c EXCEPT !.at = "flexSent", !.i = k,
                      !.wake = IF c.probe THEN FlexTimeout ELSE Min2(FlexTimeout, Max2(1, c.left))])
        /\ UNCHANGED <<cool, flex>>

FlexSucceeds(w) ==
    /\ At(w, "flexSent")
    /\ flexAge' = None /\ outage' = None
    /\ cooling' = [cooling EXCEPT ![Flex[call[w].i]] = 0]
    /\ End(w)
    /\ UNCHANGED avoid

\* A refusal that no other client would accept: the outage, if there is one,
\* neither ends nor begins.
FlexFails(w) == At(w, "flexSent") /\ End(w) /\ UNCHANGED <<cool, flex>>

\* Once the window is over a failure ends the round.
NextFlex(w, empty) ==
    LET c == call[w]
    IN  Goto(w, [c EXCEPT !.at = "flex", !.wake = 0, !.empty = empty,
                 !.i = IF c.left = 0 THEN Len(Flex) + 1 ELSE c.i + 1])

FlexEmpty(w) ==
    /\ At(w, "flexSent")
    /\ NextFlex(w, call[w].empty \cup {Flex[call[w].i]})
    /\ UNCHANGED <<cool, flex>>

\* A capacity failure, or no answer in time.
FlexBusy(w) ==
    /\ At(w, "flexSent")
    /\ cooling' = [cooling EXCEPT ![Flex[call[w].i]] = FlexCooldown]
    /\ NextFlex(w, call[w].empty)
    /\ UNCHANGED <<avoid, flex>>

\* When the first of the clients that may be tried again has cooled down.
Rested(c) == First({cooling[Flex[k]] : k \in {n \in 1 .. Len(Flex) : Flex[n] \notin c.empty}})

\* Mutant: only a call that has not waited gives up.
GivesUpAwake(c) == RoundOver(c) /\ ~ AllEmpty(c) /\ c.left = 0 /\ c.probe
GivesUp(c) == RoundOver(c) /\ ~ AllEmpty(c) /\ c.left = 0

NapFlex(w) ==
    LET c == call[w]
    IN  /\ At(w, "flex") /\ RoundOver(c) /\ ~ AllEmpty(c) /\ ~ GivesUp(c)
        /\ \E rest \in Rested(c) :
             Goto(w, [c EXCEPT !.at = "nap", !.wake = Min2(Poll, Min2(c.left, Max2(1, rest)))])
        /\ UNCHANGED <<cool, flex>>

WakeFlex(w) ==
    /\ Woken(w, "nap") /\ Goto(w, [call[w] EXCEPT !.at = "flex", !.i = 1])
    /\ UNCHANGED <<cool, flex>>

FlexRaisesEmpty(w) ==
    /\ At(w, "flex") /\ RoundOver(call[w]) /\ AllEmpty(call[w])
    /\ End(w) /\ UNCHANGED <<cool, flex>>

--------------------------------------------------------------------------------
(* generate_json: the standard clients *)

EnterStandard(w) ==
    /\ At(w, "flex") /\ GivesUp(call[w])
    /\ Goto(w, [Idle EXCEPT !.at = "standard", !.i = 1])
    /\ avoid' = [avoid EXCEPT ![w] = {Standard[k] : k \in {n \in 1 .. Len(Standard) : cooling[Standard[n]] > 0}}]
    /\ UNCHANGED <<cooling, flex>>

\* A client that was cooling then, or has begun to since, is passed over, also
\* when it has rested meanwhile; the last one never is.
Usable(w) == {k \in call[w].i .. Len(Standard) : k = Len(Standard) \/ Standard[k] \notin avoid[w]}

SendStandard(w) ==
    LET c == call[w]
    IN  /\ At(w, "standard")
        /\ \E k \in First(Usable(w)) :
             Goto(w, [c EXCEPT !.at = "sent", !.i = k, !.tries = 1, !.wake = StandardTimeout])
        /\ UNCHANGED <<cool, flex>>

\* An answer, or an error that is not worth a retry.
StandardEnds(w) == At(w, "sent") /\ End(w) /\ UNCHANGED <<cool, flex>>

NextStandard(w) ==
    IF call[w].i = Len(Standard) THEN End(w)
    ELSE Goto(w, [call[w] EXCEPT !.at = "standard", !.i = @ + 1, !.wake = 0])

StandardEmpty(w) == At(w, "sent") /\ NextStandard(w) /\ UNCHANGED <<cool, flex>>

StandardRetries(w) ==
    /\ At(w, "sent") /\ call[w].tries < MaxAttempts
    /\ Goto(w, [call[w] EXCEPT !.at = "backoff", !.wake = Backoff])
    /\ UNCHANGED <<cool, flex>>

Resend(w) ==
    /\ Woken(w, "backoff")
    /\ Goto(w, [call[w] EXCEPT !.at = "sent", !.tries = @ + 1, !.wake = StandardTimeout])
    /\ UNCHANGED <<cool, flex>>

InStandard(w) == call[w].at \in {"standard", "sent", "backoff"}

StandardBusy(w) ==
    /\ At(w, "sent") /\ call[w].tries = MaxAttempts
    /\ cooling' = [cooling EXCEPT ![Standard[call[w].i]] = StandardCooldown]
    /\ avoid' = [v \in Workers |-> IF InStandard(v) THEN avoid[v] \cup {Standard[call[w].i]} ELSE avoid[v]]
    /\ NextStandard(w)
    /\ UNCHANGED flex

Chained(w) ==
    \/ EnterFlex(w) \/ SendFlex(w) \/ FlexSucceeds(w) \/ FlexFails(w) \/ FlexEmpty(w) \/ FlexBusy(w)
    \/ NapFlex(w) \/ WakeFlex(w) \/ FlexRaisesEmpty(w) \/ EnterStandard(w) \/ SendStandard(w)
    \/ StandardEnds(w) \/ StandardEmpty(w) \/ StandardRetries(w) \/ Resend(w) \/ StandardBusy(w)

Older(age) == IF age = None THEN None ELSE Min2(FlexWindow, age + 1)

ChainElapse ==
    /\ call' = [w \in Workers |-> [call[w] EXCEPT !.wake = Less(@), !.left = Less(@)]]
    /\ cooling' = [l \in Labels |-> Less(cooling[l])]
    /\ flexAge' = Older(flexAge) /\ outage' = Older(outage)
    \* what a call that has ended noted is of no use
    /\ avoid' = [w \in Workers |-> IF InStandard(w) THEN avoid[w] ELSE {}]

ChainInit ==
    /\ call = [w \in Workers |-> Idle]
    /\ cooling = [l \in Labels |-> 0] /\ avoid = [w \in Workers |-> {}]
    /\ flexAge = None /\ outage = None
================================================================================
