---------------------------- MODULE ModelCallsProofs ----------------------------
(***************************************************************************)
(* Theorems about ModelCalls, for any number of worker threads, any chains *)
(* of clients and any timeouts and cooldowns.                              *)
(***************************************************************************)
EXTENDS ModelCalls, FiniteSetTheorems, TLAPS

USE GeminiChainAssumption, ClaudeRouteAssumption, JevRouteAssumption

Ages == (0 .. FlexWindow) \cup {None}

Calls == [at : {"idle"} \cup Waits \cup Moves, i : Nat, wake : Nat, left : 0 .. FlexWindow, probe : BOOLEAN,
          empty : SUBSET Labels, tries : 0 .. MaxAttempts]

InFlex == {"flex", "flexSent", "nap"}
InChain == {"chain", "standard", "sent", "backoff"} \cup InFlex

\* The client of a call that is at the clients is one of the chain, and a call
\* waits for Flex no longer than it has left, except for a probe.
Placed(c) ==
    /\ c.at = "flex" => c.i \in 1 .. Len(Flex) + 1
    /\ c.at \in {"flexSent", "nap"} => c.i \in 0 .. Len(Flex) + 1
    /\ c.at = "flexSent" => c.i \in 1 .. Len(Flex)
    /\ c.at \in {"standard", "sent", "backoff"} => c.i \in 1 .. Len(Standard)
    /\ c.at = "backoff" => c.tries < MaxAttempts
    /\ c.at \notin InFlex \cup {"standard", "sent", "backoff"} => c.i = 0
    /\ c.at \in {"flexSent", "nap"} /\ ~ c.probe => c.wake <= Max2(1, c.left)

Shared ==
    /\ cooling \in [Labels -> Nat] /\ avoid \in [Workers -> SUBSET Labels]
    /\ flexAge \in Ages /\ outage \in Ages
    /\ circuit \in Nat /\ claudeAsked \in Nat
    /\ claudeExcused \subseteq Workers /\ jevExcused \subseteq Workers
    /\ nextRequest \in Nat /\ jevCooling \in Nat /\ jevAsked \in Nat /\ jevSpaced \in Nat
    /\ route \in {"claude", "jev"}

Typed == call \in [Workers -> Calls] /\ (\A w \in Workers : Placed(call[w])) /\ Shared

--------------------------------------------------------------------------------
LEMMA IdleType == Idle \in Calls /\ Placed(Idle)
BY DEF Idle, Calls, Placed, InFlex, Waits, Sent, Moves

LEMMA GotoType ==
    ASSUME Typed, NEW w \in Workers, NEW r \in Calls, Placed(r), Goto(w, r)
    PROVE  call' \in [Workers -> Calls] /\ \A v \in Workers : Placed(call'[v])
BY DEF Typed, Goto

LEMMA LabelTypes == (\A k \in 1 .. Len(Flex) : Flex[k] \in Labels) /\ (\A k \in 1 .. Len(Standard) : Standard[k] \in Labels)
BY DEF Labels

LEMMA StartType == ASSUME Typed, NEW w \in Workers, Start(w), UNCHANGED <<claude, jev, route>> PROVE Typed'
<1>1. [Idle EXCEPT !.at = route] \in Calls /\ Placed([Idle EXCEPT !.at = route])
  <2> DEFINE c == [Idle EXCEPT !.at = route]
  <2>1. route \in {"idle"} \cup Waits \cup Moves
    BY DEF Typed, Shared, Moves
  <2>2. c \in Calls /\ c.at = route /\ c.i = 0
    BY <2>1, IdleType DEF Calls, Idle
  <2> QED
    BY <2>2 DEF Typed, Shared, Placed, InFlex
<1> QED
  BY <1>1, GotoType DEF Start, Typed, Shared, cool, flex, claude, jev

LEMMA ElapseType == ASSUME Typed, Elapse PROVE Typed'
<1>1. \A n \in Nat : Less(n) \in Nat
  BY DEF Less
<1>2. call' \in [Workers -> Calls] /\ \A w \in Workers : Placed(call'[w])
  <2>1. ASSUME NEW c \in Calls, Placed(c)
        PROVE  LET d == [c EXCEPT !.wake = Less(@), !.left = Less(@)] IN d \in Calls /\ Placed(d)
    <3> DEFINE d == [c EXCEPT !.wake = Less(@), !.left = Less(@)]
    <3>1. Less(c.wake) \in Nat /\ Less(c.left) \in 0 .. FlexWindow
      BY SMTT(40) DEF Calls, Less
    <3>2. d \in Calls
      BY <3>1 DEF Calls
    <3>3. d.at = c.at /\ d.i = c.i /\ d.tries = c.tries /\ d.probe = c.probe /\ d.wake = Less(c.wake) /\ d.left = Less(c.left)
      BY DEF Calls
    <3>4. c.wake <= Max2(1, c.left) => d.wake <= Max2(1, d.left)
      BY SMTT(40), <3>3 DEF Calls, Less, Max2
    <3> QED
      BY <2>1, <3>2, <3>3, <3>4 DEF Placed
  <2> QED
    BY <2>1 DEF Elapse, ChainElapse, Typed
<1>3. \A age \in Ages : Older(age) \in Ages
  BY DEF Ages, Older, Min2
<1>4. avoid' \in [Workers -> SUBSET Labels]
  BY DEF Typed, Shared, Elapse, ChainElapse
<1>5. Shared'
  BY <1>1, <1>3, <1>4 DEF Typed, Shared, Elapse, ChainElapse, ClaudeElapse, JevElapse
<1> QED
  BY <1>2, <1>5 DEF Typed

--------------------------------------------------------------------------------
(* What a step of each client does to the call of its thread.                *)

\* A step at the Gemini chain: the time left for Flex is set on entry only.
ChainMove(w, r) ==
    /\ Goto(w, r) /\ r \in Calls /\ Placed(r)
    /\ call[w].at \in InChain /\ r.at \in InChain \cup {"idle"}
    /\ r.at \in InFlex =>
         \/ EnterFlex(w) /\ r.left = FlexWindow - Age
         \/ UNCHANGED flex /\ call[w].at \in InFlex /\ r.left = call[w].left

LEMMA EndMove ==
    ASSUME Typed, NEW w \in Workers, End(w), call[w].at \in InChain PROVE ChainMove(w, Idle)
BY IdleType DEF End, ChainMove, Idle, InFlex, InChain

LEMMA FlexMove ==
    ASSUME Typed, NEW w \in Workers,
           \/ EnterFlex(w) \/ SendFlex(w) \/ FlexSucceeds(w) \/ FlexFails(w) \/ FlexEmpty(w) \/ FlexBusy(w)
           \/ NapFlex(w) \/ WakeFlex(w) \/ FlexRaisesEmpty(w) \/ EnterStandard(w)
    PROVE  \E r : ChainMove(w, r)
<1> DEFINE c == call[w]
<1>0. c \in Calls /\ Placed(c) /\ (\A l \in Labels : cooling[l] \in Nat)
  BY DEF Typed, Shared
<1> HIDE DEF c
<1>1. CASE EnterFlex(w)
  <2> DEFINE r == [Idle EXCEPT !.at = "flex", !.i = 1, !.left = FlexWindow - Age, !.probe = (Age = FlexWindow)]
  <2>1. FlexWindow - Age \in 0 .. FlexWindow
    BY DEF Age, Typed, Shared, Ages
  <2>2. r \in Calls
    BY <2>1, IdleType DEF Calls, Idle, Waits, Sent, Moves
  <2>3. r.at = "flex" /\ r.i = 1 /\ r.left = FlexWindow - Age
    BY DEF Idle
  <2>4. Placed(r)
    BY <2>3 DEF Placed, InFlex
  <2> QED
    BY <1>1, <2>2, <2>3, <2>4 DEF EnterFlex, ChainMove, At, InFlex, InChain
<1>2. CASE SendFlex(w)
  <2>1. PICK k \in First(Ready(c)) :
          Goto(w, [c EXCEPT !.at = "flexSent", !.i = k,
                            !.wake = IF c.probe THEN FlexTimeout ELSE Min2(FlexTimeout, Max2(1, c.left))])
    BY <1>2 DEF SendFlex, c
  <2> DEFINE t == IF c.probe THEN FlexTimeout ELSE Min2(FlexTimeout, Max2(1, c.left))
             r == [c EXCEPT !.at = "flexSent", !.i = k, !.wake = t]
  <2>2. c.at = "flex" /\ k \in 1 .. Len(Flex)
    <3>1. c.at = "flex"
      BY <1>2 DEF SendFlex, At, c
    <3>2. c.i \in 1 .. Len(Flex) + 1
      BY <1>0, <3>1 DEF Placed
    <3>3. k \in c.i .. Len(Flex)
      BY DEF First, Ready
    <3> QED
      BY <3>1, <3>2, <3>3
  <2>3. t \in Nat /\ (~ c.probe => t <= Max2(1, c.left))
    BY <1>0 DEF Calls, Min2, Max2
  <2> HIDE DEF t
  <2>4. r \in Calls /\ r.at = "flexSent" /\ r.i = k /\ r.left = c.left /\ r.probe = c.probe /\ r.wake = t
    <3>1. "flexSent" \in Waits /\ k \in Nat
      BY <2>2 DEF Waits, Sent
    <3> QED
      BY <1>0, <2>3, <3>1 DEF Calls
  <2>5. Placed(r)
    BY <2>2, <2>3, <2>4 DEF Placed, InFlex
  <2>6. Goto(w, r) /\ UNCHANGED flex
    BY <1>2, <2>1 DEF SendFlex, t
  <2> HIDE DEF r
  <2> QED
    BY <2>2, <2>4, <2>5, <2>6 DEF ChainMove, InFlex, InChain, c
<1>3. CASE FlexSucceeds(w) \/ FlexFails(w) \/ FlexRaisesEmpty(w)
  BY <1>3, EndMove DEF FlexSucceeds, FlexFails, FlexRaisesEmpty, At, InFlex, InChain
<1>4. ASSUME NEW empty \in SUBSET Labels, At(w, "flexSent"), NextFlex(w, empty), UNCHANGED flex
      PROVE  \E r : ChainMove(w, r)
  <2> DEFINE j == IF c.left = 0 THEN Len(Flex) + 1 ELSE c.i + 1
             r == [c EXCEPT !.at = "flex", !.wake = 0, !.empty = empty, !.i = j]
  <2>1. c.at = "flexSent" /\ j \in 1 .. Len(Flex) + 1
    <3>1. c.at = "flexSent"
      BY <1>4 DEF At, c
    <3>2. c.i \in 1 .. Len(Flex)
      BY <1>0, <3>1 DEF Placed
    <3> QED
      BY <3>1, <3>2
  <2> HIDE DEF j
  <2>2. r \in Calls /\ r.at = "flex" /\ r.i = j /\ r.left = c.left
    <3>1. "flex" \in Moves /\ j \in Nat
      BY <2>1 DEF Moves
    <3> QED
      BY <1>0, <3>1 DEF Calls
  <2>3. Placed(r)
    BY <2>1, <2>2 DEF Placed, InFlex
  <2>4. Goto(w, r)
    BY <1>4 DEF NextFlex, c, j
  <2> HIDE DEF r
  <2> QED
    BY <1>4, <2>1, <2>2, <2>3, <2>4 DEF ChainMove, InFlex, InChain, c
<1>5. CASE FlexEmpty(w) \/ FlexBusy(w)
  <2>1. c.empty \in SUBSET Labels /\ c.empty \cup {Flex[c.i]} \in SUBSET Labels /\ At(w, "flexSent")
    BY <1>0, <1>5, LabelTypes DEF FlexEmpty, FlexBusy, Calls, Placed, At, c
  <2> QED
    BY <1>4, <1>5, <2>1 DEF FlexEmpty, FlexBusy, c
<1>6. CASE NapFlex(w)
  <2>1. PICK rest \in Rested(c) : Goto(w, [c EXCEPT !.at = "nap", !.wake = Min2(Poll, Min2(c.left, Max2(1, rest)))])
    BY <1>6 DEF NapFlex, c
  <2> DEFINE t == Min2(Poll, Min2(c.left, Max2(1, rest)))
             r == [c EXCEPT !.at = "nap", !.wake = t]
  <2>2. rest \in Nat
    BY <1>0, <2>1, LabelTypes DEF Rested, First
  <2>3. t \in Nat /\ t <= Max2(1, c.left)
    BY <1>0, <2>2 DEF Calls, Min2, Max2
  <2>4. c.at = "flex"
    BY <1>6 DEF NapFlex, At, c
  <2> HIDE DEF t
  <2>5. r \in Calls /\ r.at = "nap" /\ r.i = c.i /\ r.left = c.left /\ r.wake = t
    BY <1>0, <2>3 DEF Calls, Waits
  <2>6. Placed(r)
    BY <1>0, <2>3, <2>4, <2>5 DEF Placed, InFlex, Calls
  <2>7. Goto(w, r) /\ UNCHANGED flex
    BY <1>6, <2>1 DEF NapFlex, t
  <2> HIDE DEF r
  <2> QED
    BY <2>4, <2>5, <2>6, <2>7 DEF ChainMove, InFlex, InChain, c
<1>7. CASE WakeFlex(w)
  <2> DEFINE r == [c EXCEPT !.at = "flex", !.i = 1]
  <2>1. r \in Calls /\ r.at = "flex" /\ r.i = 1 /\ r.left = c.left /\ c.at = "nap"
    BY <1>0, <1>7 DEF Calls, Moves, WakeFlex, Woken, At, c
  <2>2. Placed(r)
    BY <2>1 DEF Placed, InFlex
  <2>3. Goto(w, r) /\ UNCHANGED flex
    BY <1>7 DEF WakeFlex, c
  <2> HIDE DEF r
  <2> QED
    BY <2>1, <2>2, <2>3 DEF ChainMove, InFlex, InChain, c
<1>8. CASE EnterStandard(w)
  <2> DEFINE r == [Idle EXCEPT !.at = "standard", !.i = 1]
  <2>1. r \in Calls /\ r.at = "standard" /\ r.i = 1
    BY IdleType DEF Calls, Idle, Moves
  <2>2. Placed(r)
    BY <2>1 DEF Placed, InFlex
  <2> HIDE DEF r
  <2> QED
    BY <1>8, <2>1, <2>2 DEF EnterStandard, ChainMove, At, InFlex, InChain, r
<1> QED
  BY <1>1, <1>2, <1>3, <1>5, <1>6, <1>7, <1>8

LEMMA StandardMove ==
    ASSUME Typed, NEW w \in Workers,
           \/ SendStandard(w) \/ StandardEnds(w) \/ StandardEmpty(w) \/ StandardRetries(w)
           \/ Resend(w) \/ StandardBusy(w)
    PROVE  UNCHANGED flex /\ \E r : ChainMove(w, r)
<1> DEFINE c == call[w]
<1>0. c \in Calls /\ Placed(c)
  BY DEF Typed
<1> HIDE DEF c
\* A move to a standard client.
<1>1. ASSUME NEW r \in Calls, Goto(w, r), c.at \in InChain,
             r.at \in {"standard", "sent", "backoff"}, r.i \in 1 .. Len(Standard),
             r.at = "backoff" => r.tries < MaxAttempts
      PROVE  ChainMove(w, r)
  BY <1>1 DEF ChainMove, Placed, InFlex, InChain, c
<1>2. CASE SendStandard(w)
  <2>1. PICK k \in First(Usable(w)) :
          Goto(w, [c EXCEPT !.at = "sent", !.i = k, !.tries = 1, !.wake = StandardTimeout])
    BY <1>2 DEF SendStandard, c
  <2> DEFINE r == [c EXCEPT !.at = "sent", !.i = k, !.tries = 1, !.wake = StandardTimeout]
  <2>2. c.at = "standard" /\ k \in 1 .. Len(Standard)
    <3>1. c.at = "standard"
      BY <1>2 DEF SendStandard, At, c
    <3>2. c.i \in 1 .. Len(Standard)
      BY <1>0, <3>1 DEF Placed
    <3>3. k \in c.i .. Len(Standard)
      BY DEF First, Usable, c
    <3> QED
      BY <3>1, <3>2, <3>3
  <2>3. r \in Calls /\ r.at = "sent" /\ r.i = k
    <3>1. "sent" \in Waits /\ k \in Nat /\ 1 \in 0 .. MaxAttempts /\ StandardTimeout \in Nat
      BY <2>2 DEF Waits, Sent
    <3> QED
      BY <1>0, <3>1 DEF Calls
  <2> HIDE DEF r
  <2> QED
    BY <1>1, <1>2, <2>1, <2>2, <2>3 DEF SendStandard, InChain, r
<1>3. ASSUME NextStandard(w), c.at = "sent" PROVE \E r : ChainMove(w, r)
  <2>1. CASE c.i = Len(Standard)
    BY <1>3, <2>1, EndMove DEF NextStandard, InChain, c
  <2>2. CASE c.i # Len(Standard)
    <3> DEFINE r == [c EXCEPT !.at = "standard", !.i = c.i + 1, !.wake = 0]
    <3>1. c.i + 1 \in 1 .. Len(Standard)
      BY SMTT(40), <1>0, <1>3, <2>2 DEF Placed
    <3>2. r \in Calls /\ r.at = "standard" /\ r.i = c.i + 1
      <4>1. "standard" \in Moves /\ c.i + 1 \in Nat
        BY <3>1 DEF Moves
      <4> QED
        BY <1>0, <4>1 DEF Calls
    <3>3. Goto(w, r)
      BY <1>3, <2>2 DEF NextStandard, c
    <3> HIDE DEF r
    <3> QED
      BY <1>1, <1>3, <3>1, <3>2, <3>3 DEF InChain
  <2> QED
    BY <2>1, <2>2
<1>4. CASE StandardEnds(w)
  BY <1>4, EndMove DEF StandardEnds, At, InChain
<1>5. CASE StandardEmpty(w) \/ StandardBusy(w)
  BY <1>3, <1>5 DEF StandardEmpty, StandardBusy, At, c
<1>6. CASE StandardRetries(w)
  <2> DEFINE r == [c EXCEPT !.at = "backoff", !.wake = Backoff]
  <2>1. r \in Calls /\ r.at = "backoff" /\ r.i = c.i /\ r.tries = c.tries
    <3>1. "backoff" \in Waits /\ Backoff \in Nat
      BY DEF Waits
    <3> QED
      BY <1>0, <3>1 DEF Calls
  <2>2. c.at = "sent" /\ c.i \in 1 .. Len(Standard) /\ c.tries < MaxAttempts /\ Goto(w, r)
    BY <1>0, <1>6 DEF StandardRetries, At, Placed, c
  <2> HIDE DEF r
  <2> QED
    BY <1>1, <1>6, <2>1, <2>2 DEF StandardRetries, InChain
<1>7. CASE Resend(w)
  <2> DEFINE r == [c EXCEPT !.at = "sent", !.tries = c.tries + 1, !.wake = StandardTimeout]
  <2>1. c.at = "backoff" /\ c.i \in 1 .. Len(Standard) /\ Goto(w, r)
    BY <1>0, <1>7 DEF Resend, Woken, At, Placed, c
  <2>2. c.tries + 1 \in 0 .. MaxAttempts
    BY <1>0, <2>1 DEF Calls, Placed
  <2>3. r \in Calls /\ r.at = "sent" /\ r.i = c.i
    <3>1. "sent" \in Waits /\ StandardTimeout \in Nat
      BY DEF Waits, Sent
    <3> QED
      BY <1>0, <2>2, <3>1 DEF Calls
  <2> HIDE DEF r
  <2> QED
    BY <1>1, <1>7, <2>1, <2>3 DEF Resend, InChain
<1>8. UNCHANGED flex
  BY DEF SendStandard, StandardEnds, StandardEmpty, StandardRetries, Resend, StandardBusy
<1> QED
  BY <1>2, <1>4, <1>5, <1>6, <1>7, <1>8

LEMMA ChainStep == ASSUME Typed, NEW w \in Workers, Chained(w) PROVE \E r : ChainMove(w, r)
BY FlexMove, StandardMove DEF Chained

\* A step at Claude: a request is on its way only once the circuit was closed.
ClaudeMove(w, r) ==
    /\ Goto(w, r) /\ r \in Calls /\ Placed(r)
    /\ call[w].at \in {"claude", "claudeReady", "claudeSent"}
    /\ r.at \in {"idle", "claudeReady", "claudeSent", "chain"}
    /\ r.at = "claudeReady" => circuit = 0
    /\ r.at = "claudeSent" => At(w, "claudeReady")

LEMMA ClaudeStep ==
    ASSUME Typed, NEW w \in Workers, Claudes(w)
    PROVE  UNCHANGED <<cool, flex>> /\ \E r : ClaudeMove(w, r)
<1> DEFINE ready == [Idle EXCEPT !.at = "claudeReady"]
           sent == [Idle EXCEPT !.at = "claudeSent", !.wake = ClaudeTimeout]
           next == [Idle EXCEPT !.at = "chain"]
<1>1. /\ sent \in Calls /\ sent.at = "claudeSent" /\ sent.i = 0
      /\ ready \in Calls /\ ready.at = "claudeReady" /\ ready.i = 0
  BY IdleType DEF Calls, Idle, Waits, Sent, Moves
<1>2. next \in Calls /\ next.at = "chain" /\ next.i = 0
  BY IdleType DEF Calls, Idle, Moves
<1>3. Placed(sent) /\ Placed(next) /\ Placed(ready)
  BY <1>1, <1>2 DEF Placed, InFlex
<1>4. UNCHANGED <<cool, flex>> /\ call[w].at \in {"claude", "claudeReady", "claudeSent"}
  BY DEF Claudes, CheckCircuit, SendClaude, ClaudeAnswers, ClaudeFails, At
<1>5. \/ Goto(w, ready) /\ circuit = 0
      \/ Goto(w, sent) /\ At(w, "claudeReady")
      \/ Goto(w, next) \/ Goto(w, Idle)
  BY DEF Claudes, CheckCircuit, SendClaude, ClaudeAnswers, ClaudeFails, End
<1> HIDE DEF ready, sent, next
<1> QED
  BY <1>1, <1>2, <1>3, <1>4, <1>5, IdleType DEF ClaudeMove, Idle

Holding == {"paced", "jevReady", "jevSent"}

\* A step at Jev: a thread takes a slot with its turn, and a request is on its
\* way only at the end of the turn, once Jev did not cool down.
JevMove(w, r) ==
    /\ Goto(w, r) /\ r \in Calls /\ Placed(r)
    /\ call[w].at \in {"jev"} \cup Holding /\ r.at \in {"idle", "chain"} \cup Holding
    /\ r.at = "paced" => call[w].at = "jev" /\ r.wake = Due /\ nextRequest' = Reserved
    /\ r.at # "paced" => nextRequest' = nextRequest
    /\ r.at = "jevReady" => Woken(w, "paced") /\ jevCooling = 0 /\ r.wake = 0
    /\ r.at = "jevSent" => At(w, "jevReady") /\ jevSpaced' = JevInterval
    /\ r.at # "jevSent" => jevSpaced' = jevSpaced
    /\ \/ free' = free /\ (call[w].at \in Holding <=> r.at \in Holding)
       \/ free' = free + 1 /\ call[w].at \in Holding /\ r.at \notin Holding
       \/ free > 0 /\ free' = free - 1 /\ call[w].at \notin Holding /\ r.at \in Holding

LEMMA JevStep ==
    ASSUME Typed, NEW w \in Workers, Jevs(w)
    PROVE  UNCHANGED <<cool, flex>> /\ \E r : JevMove(w, r)
<1> DEFINE next == [Idle EXCEPT !.at = "chain"]
           turn == [Idle EXCEPT !.at = "paced", !.wake = Due]
           ready == [Idle EXCEPT !.at = "jevReady"]
           sent == [Idle EXCEPT !.at = "jevSent", !.wake = JevTimeout]
<1>1. next \in Calls /\ next.at = "chain" /\ next.i = 0
  BY IdleType DEF Calls, Idle, Moves
<1>2. turn \in Calls /\ turn.at = "paced" /\ turn.i = 0 /\ turn.wake = Due
  BY IdleType DEF Typed, Shared, Calls, Idle, Waits, Due
<1>3. /\ sent \in Calls /\ sent.at = "jevSent" /\ sent.i = 0
      /\ ready \in Calls /\ ready.at = "jevReady" /\ ready.i = 0 /\ ready.wake = 0
  BY IdleType DEF Calls, Idle, Waits, Sent, Moves
<1>4. Placed(next) /\ Placed(turn) /\ Placed(sent) /\ Placed(ready)
  BY <1>1, <1>2, <1>3 DEF Placed, InFlex
<1>5. UNCHANGED <<cool, flex>>
  BY DEF Jevs, TakeTurn, CheckAgain, SendPair, JevAnswers, JevFails
<1>6. jevCooling \in Nat
  BY DEF Typed, Shared
<1>7. CASE TakeTurn(w)
  <2>1. call[w].at = "jev" /\ free > 0 /\ jevSpaced' = jevSpaced
    BY <1>7 DEF TakeTurn, At
  <2>2. \/ Goto(w, next) /\ UNCHANGED <<free, nextRequest>>
        \/ Goto(w, turn) /\ nextRequest' = Reserved /\ free' = free - 1
    BY <1>7 DEF TakeTurn
  <2> HIDE DEF next, turn, ready, sent
  <2> QED
    BY <1>1, <1>2, <1>4, <1>5, <2>1, <2>2 DEF JevMove, Holding
<1>8. CASE CheckAgain(w)
  <2>1. call[w].at = "paced" /\ Woken(w, "paced") /\ UNCHANGED <<nextRequest, jevSpaced>>
    BY <1>8 DEF CheckAgain, Woken, At
  <2>2. \/ Goto(w, next) /\ free' = free + 1
        \/ Goto(w, ready) /\ free' = free /\ jevCooling = 0
    BY <1>6, <1>8 DEF CheckAgain, SlotBack, Cooled
  <2> HIDE DEF next, turn, ready, sent
  <2> QED
    BY <1>1, <1>3, <1>4, <1>5, <2>1, <2>2 DEF JevMove, Holding
<1>9. CASE SendPair(w)
  <2>1. call[w].at = "jevReady" /\ At(w, "jevReady") /\ UNCHANGED <<free, nextRequest>> /\ jevSpaced' = JevInterval
    BY <1>9 DEF SendPair, At
  <2>2. Goto(w, sent)
    BY <1>9 DEF SendPair
  <2> HIDE DEF next, turn, ready, sent
  <2> QED
    BY <1>3, <1>4, <1>5, <2>1, <2>2 DEF JevMove, Holding
<1>10. CASE JevAnswers(w) \/ JevFails(w)
  <2>1. call[w].at \in {"jevReady", "jevSent"} /\ free' = free + 1 /\ UNCHANGED <<nextRequest, jevSpaced>>
    BY <1>10 DEF JevAnswers, JevFails, SlotBack, At
  <2>2. Goto(w, next) \/ Goto(w, Idle)
    BY <1>10 DEF JevAnswers, JevFails, End
  <2>3. Idle.at = "idle"
    BY DEF Idle
  <2> HIDE DEF next, turn, ready, sent
  <2> QED
    BY <1>1, <1>4, <1>5, <2>1, <2>2, <2>3, IdleType DEF JevMove, Holding
<1> QED
  BY <1>7, <1>8, <1>9, <1>10 DEF Jevs

--------------------------------------------------------------------------------
(* Types.                                                                    *)

LEMMA SharedType == ASSUME Typed, NEW w \in Workers, Advance(w) PROVE Shared'
<1>1. route' \in {"claude", "jev"}
  BY DEF Typed, Shared, Advance
<1>2. cooling' \in [Labels -> Nat] /\ avoid' \in [Workers -> SUBSET Labels]
  <2>0. cooling \in [Labels -> Nat] /\ avoid \in [Workers -> SUBSET Labels]
    BY DEF Typed, Shared
  <2>1. CASE FlexSucceeds(w) \/ FlexBusy(w)
    <3>1. (\E l, n : n \in Nat /\ cooling' = [cooling EXCEPT ![l] = n]) /\ avoid' = avoid
      BY <2>1 DEF FlexSucceeds, FlexBusy
    <3> QED
      BY <2>0, <3>1
  <2>2. CASE EnterStandard(w)
    <3> DEFINE held == {Standard[k] : k \in {n \in 1 .. Len(Standard) : cooling[Standard[n]] > 0}}
    <3>1. held \subseteq Labels
      BY LabelTypes
    <3>2. avoid' = [avoid EXCEPT ![w] = held] /\ cooling' = cooling
      BY <2>2 DEF EnterStandard
    <3> HIDE DEF held
    <3> QED
      BY <2>0, <3>1, <3>2
  <2>3. CASE StandardBusy(w)
    <3> DEFINE label == Standard[call[w].i]
    <3>1. label \in Labels
      BY <2>3, LabelTypes DEF StandardBusy, At, Typed, Placed
    <3>2. /\ cooling' = [cooling EXCEPT ![label] = StandardCooldown]
          /\ avoid' = [v \in Workers |-> IF InStandard(v) THEN avoid[v] \cup {label} ELSE avoid[v]]
      BY <2>3 DEF StandardBusy
    <3> HIDE DEF label
    <3>3. avoid' \in [Workers -> SUBSET Labels]
      <4>1. \A v \in Workers : (IF InStandard(v) THEN avoid[v] \cup {label} ELSE avoid[v]) \in SUBSET Labels
        BY <2>0, <3>1
      <4> HIDE DEF InStandard
      <4> QED
        BY <3>2, <4>1
    <3> QED
      BY <2>0, <3>2, <3>3
  <2>4. CASE UNCHANGED cool
    BY <2>0, <2>4 DEF cool
  <2> QED
    BY <2>1, <2>2, <2>3, <2>4, ClaudeStep, JevStep
       DEF Advance, Chained, EnterFlex, SendFlex, FlexFails, FlexEmpty, NapFlex, WakeFlex, FlexRaisesEmpty,
           SendStandard, StandardEnds, StandardEmpty, StandardRetries, Resend
<1>3. flexAge' \in Ages /\ outage' \in Ages
  <2>1. CASE EnterFlex(w)
    BY <2>1 DEF EnterFlex, Age, Ages, Typed, Shared
  <2>2. CASE FlexSucceeds(w)
    BY <2>2 DEF FlexSucceeds, Ages
  <2>3. CASE UNCHANGED flex
    BY <2>3 DEF flex, Typed, Shared
  <2> QED
    BY <2>1, <2>2, <2>3, ClaudeStep, JevStep, StandardMove
       DEF Advance, Chained, SendFlex, FlexFails, FlexEmpty, FlexBusy, NapFlex, WakeFlex, FlexRaisesEmpty, EnterStandard
<1>4. circuit' \in Nat /\ claudeAsked' \in Nat /\ claudeExcused' \subseteq Workers
  BY DEF Advance, Claudes, CheckCircuit, SendClaude, ClaudeAnswers, ClaudeFails, Later, Max2, claude, Typed, Shared
<1>5. /\ nextRequest' \in Nat /\ jevCooling' \in Nat /\ jevAsked' \in Nat /\ jevSpaced' \in Nat
      /\ jevExcused' \subseteq Workers
  <2>1. CASE TakeTurn(w) \/ CheckAgain(w) \/ SendPair(w) \/ JevAnswers(w)
    BY SMTT(40), <2>1 DEF TakeTurn, CheckAgain, SendPair, JevAnswers, Reserved, Due, Typed, Shared
  <2>2. CASE JevFails(w)
    <3>1. JevDelays(w) \subseteq Nat
      BY DEF JevDelays, Max2
    <3>2. UNCHANGED <<nextRequest, jevSpaced>> /\ jevExcused' \subseteq Workers
      BY <2>2 DEF JevFails, Typed, Shared
    <3>3. PICK delay \in JevDelays(w) : jevCooling' = Max2(jevCooling, delay) /\ jevAsked' = Max2(jevAsked, delay)
      BY <2>2 DEF JevFails
    <3> QED
      BY <3>1, <3>2, <3>3 DEF Max2, Typed, Shared
  <2>3. CASE UNCHANGED jev
    BY <2>3 DEF jev, Typed, Shared
  <2> QED
    BY <2>1, <2>2, <2>3 DEF Advance, Jevs
<1> QED
  BY <1>1, <1>2, <1>3, <1>4, <1>5 DEF Shared

LEMMA AdvanceType == ASSUME Typed, NEW w \in Workers, Advance(w) PROVE Typed'
<1>1. \E r \in Calls : Placed(r) /\ Goto(w, r)
  BY ChainStep, ClaudeStep, JevStep DEF Advance, ChainMove, ClaudeMove, JevMove
<1> QED
  BY <1>1, GotoType, SharedType DEF Typed

--------------------------------------------------------------------------------
(* The invariants.                                                           *)

\* The history variables are what the code's own variables remember.
Remembered == flexAge = outage /\ circuit = claudeAsked /\ jevCooling = jevAsked

\* No call has more time left for Flex than the outage has.
Window == \A w \in Workers : call[w].at \in InFlex /\ outage # None => call[w].left + outage <= FlexWindow

\* While a delay runs, the threads on their way past the check are excused.
Excused ==
    /\ claudeAsked > 0 => \A w \in Workers : At(w, "claudeReady") => w \in claudeExcused
    /\ jevAsked > 0 => \A w \in Workers : At(w, "jevReady") => w \in jevExcused

InTurn == {"paced", "jevReady"}

\* The turns at Jev are an interval apart, and the next one follows the last.
Turns ==
    /\ jevSpaced <= nextRequest
    /\ \A w \in Workers : call[w].at = "jevReady" => call[w].wake = 0
    /\ \A w \in Workers : call[w].at \in InTurn =>
         /\ jevSpaced <= call[w].wake /\ call[w].wake + JevInterval <= nextRequest
         /\ \A v \in Workers \ {w} : call[v].at \in InTurn =>
              \/ call[v].wake + JevInterval <= call[w].wake
              \/ call[w].wake + JevInterval <= call[v].wake

Holders == {w \in Workers : call[w].at \in Holding}
SlotsAccounted == free = Slots - Cardinality(Holders) /\ free \in Nat

CallsInv == Typed /\ Remembered /\ Excused /\ Window /\ Turns /\ SlotsAccounted

LEMMA RememberedStep == ASSUME Typed, Remembered, NEW w \in Workers, Advance(w) PROVE Remembered'
<1>1. flexAge' = outage'
  <2>1. CASE EnterFlex(w)
    BY <2>1 DEF EnterFlex, Age, Remembered
  <2>2. CASE FlexSucceeds(w)
    BY <2>2 DEF FlexSucceeds
  <2>3. CASE UNCHANGED flex
    BY <2>3 DEF flex, Remembered
  <2> QED
    BY <2>1, <2>2, <2>3, ClaudeStep, JevStep, StandardMove
       DEF Advance, Chained, SendFlex, FlexFails, FlexEmpty, FlexBusy, NapFlex, WakeFlex, FlexRaisesEmpty, EnterStandard
<1>2. circuit' = claudeAsked'
  <2>1. CASE ClaudeFails(w)
    BY <2>1 DEF ClaudeFails, Later, Remembered
  <2> QED
    BY <2>1 DEF Advance, Claudes, CheckCircuit, SendClaude, ClaudeAnswers, claude, Remembered
<1>3. jevCooling' = jevAsked'
  <2>1. CASE JevFails(w)
    BY <2>1 DEF JevFails, Remembered
  <2> QED
    BY <2>1 DEF Advance, Jevs, TakeTurn, CheckAgain, SendPair, JevAnswers, jev, Remembered
<1> QED
  BY <1>1, <1>2, <1>3 DEF Remembered

\* What a step does not touch: the calls of the other threads.
LEMMA OthersKept ==
    ASSUME Typed, NEW w \in Workers, NEW r, Goto(w, r)
    PROVE  call'[w] = r /\ \A v \in Workers \ {w} : call'[v] = call[v]
BY DEF Typed, Goto

LEMMA ExcusedStep == ASSUME Typed, Remembered, Excused, NEW w \in Workers, Advance(w) PROVE Excused'
<1>0. claudeAsked \in Nat /\ jevAsked \in Nat /\ circuit = claudeAsked /\ jevCooling = jevAsked
  BY DEF Typed, Shared, Remembered
\* A step that asks for no new delay lets no thread past the check while one runs.
<1>1. ASSUME NEW r, Goto(w, r), r.at = "claudeReady" => claudeAsked = 0,
             claudeAsked' = claudeAsked, claudeExcused \ {w} \subseteq claudeExcused',
             w \in claudeExcused => w \in claudeExcused' \/ r.at # "claudeReady"
      PROVE  (claudeAsked > 0 => \A v \in Workers : At(v, "claudeReady") => v \in claudeExcused)'
  BY <1>0, <1>1, OthersKept DEF Excused, At
<1>2. ASSUME NEW r, Goto(w, r), r.at = "jevReady" => jevAsked = 0,
             jevAsked' = jevAsked, jevExcused \ {w} \subseteq jevExcused',
             w \in jevExcused => w \in jevExcused' \/ r.at # "jevReady"
      PROVE  (jevAsked > 0 => \A v \in Workers : At(v, "jevReady") => v \in jevExcused)'
  BY <1>0, <1>2, OthersKept DEF Excused, At
<1>3. CASE Chained(w) /\ UNCHANGED <<claude, jev>>
  <2>1. \E r : Goto(w, r) /\ r.at \notin {"claudeReady", "jevReady"}
    BY <1>3, ChainStep DEF ChainMove, InChain, InFlex
  <2> QED
    BY <1>1, <1>2, <1>3, <2>1 DEF Excused, claude, jev
<1>4. CASE Claudes(w) /\ UNCHANGED jev
  <2>1. PICK r : ClaudeMove(w, r)
    BY <1>4, ClaudeStep
  <2>2. (jevAsked > 0 => \A v \in Workers : At(v, "jevReady") => v \in jevExcused)'
    BY <1>2, <1>4, <2>1 DEF ClaudeMove, jev
  <2>3. CASE CheckCircuit(w) \/ SendClaude(w) \/ ClaudeAnswers(w)
    <3>1. claudeAsked' = claudeAsked /\ claudeExcused \ {w} \subseteq claudeExcused'
      BY <2>3 DEF CheckCircuit, SendClaude, ClaudeAnswers, claude
    <3>2. r.at = "claudeReady" => claudeAsked = 0
      BY <1>0, <2>1 DEF ClaudeMove
    <3>3. w \in claudeExcused => w \in claudeExcused' \/ r.at # "claudeReady"
      <4>1. CASE SendClaude(w)
        <5>1. call'[w] = r /\ call'[w] = [Idle EXCEPT !.at = "claudeSent", !.wake = ClaudeTimeout]
          BY <2>1, <4>1, OthersKept DEF SendClaude, ClaudeMove
        <5> QED
          BY <5>1 DEF Idle
      <4> QED
        BY <2>3, <4>1 DEF CheckCircuit, ClaudeAnswers, claude
    <3> QED
      BY <1>1, <2>1, <2>2, <3>1, <3>2, <3>3 DEF ClaudeMove, Excused
  <2>4. CASE ClaudeFails(w)
    <3>1. \A v \in Workers : At(v, "claudeReady")' => v # w /\ At(v, "claudeReady")
      <4>1. Goto(w, [Idle EXCEPT !.at = "chain"]) /\ [Idle EXCEPT !.at = "chain"].at = "chain"
        BY <2>4 DEF ClaudeFails, Idle
      <4> QED
        BY <4>1, OthersKept DEF At
    <3>2. claudeExcused' = IF claudeAsked = 0 THEN {v \in Workers : At(v, "claudeReady")} ELSE claudeExcused
      BY <2>4 DEF ClaudeFails
    <3> QED
      BY <1>0, <2>2, <3>1, <3>2 DEF Excused
  <2> QED
    BY <1>4, <2>3, <2>4 DEF Claudes
<1>5. CASE Jevs(w) /\ UNCHANGED claude
  <2>1. PICK r : JevMove(w, r)
    BY <1>5, JevStep
  <2>2. (claudeAsked > 0 => \A v \in Workers : At(v, "claudeReady") => v \in claudeExcused)'
    BY <1>1, <1>5, <2>1 DEF JevMove, Holding, claude
  <2>3. CASE TakeTurn(w) \/ CheckAgain(w) \/ SendPair(w) \/ JevAnswers(w)
    <3>1. jevAsked' = jevAsked /\ jevExcused \ {w} \subseteq jevExcused'
      BY <2>3 DEF TakeTurn, CheckAgain, SendPair, JevAnswers
    <3>2. r.at = "jevReady" => jevAsked = 0
      BY <1>0, <2>1 DEF JevMove
    <3>3. w \in jevExcused => w \in jevExcused' \/ r.at # "jevReady"
      <4>1. CASE SendPair(w)
        <5>1. call'[w] = r /\ call'[w] = [Idle EXCEPT !.at = "jevSent", !.wake = JevTimeout]
          BY <2>1, <4>1, OthersKept DEF SendPair, JevMove
        <5> QED
          BY <5>1 DEF Idle
      <4> QED
        BY <2>3, <4>1 DEF TakeTurn, CheckAgain, JevAnswers
    <3> QED
      BY <1>2, <2>1, <2>2, <3>1, <3>2, <3>3 DEF JevMove, Excused
  <2>4. CASE JevFails(w)
    <3>1. \A v \in Workers : At(v, "jevReady")' => v # w /\ At(v, "jevReady")
      <4>1. Goto(w, [Idle EXCEPT !.at = "chain"]) /\ [Idle EXCEPT !.at = "chain"].at = "chain"
        BY <2>4 DEF JevFails, Idle
      <4> QED
        BY <4>1, OthersKept DEF At
    <3>2. jevExcused' = (IF jevAsked = 0 THEN {v \in Workers : At(v, "jevReady")} ELSE jevExcused) \ {w}
      BY <2>4 DEF JevFails
    <3> QED
      BY <1>0, <2>2, <3>1, <3>2 DEF Excused
  <2> QED
    BY <1>5, <2>3, <2>4 DEF Jevs
<1> QED
  BY <1>3, <1>4, <1>5 DEF Advance

LEMMA WindowStep == ASSUME Typed, Remembered, Window, NEW w \in Workers, Advance(w) PROVE Window'
<1>0. outage \in Ages /\ \A v \in Workers : call[v].left \in 0 .. FlexWindow
  BY DEF Typed, Shared, Calls
<1>1. CASE Chained(w)
  <2>1. PICK r : ChainMove(w, r)
    BY <1>1, ChainStep
  <2>2. r.left \in 0 .. FlexWindow /\ call'[w] = r /\ \A v \in Workers \ {w} : call'[v] = call[v]
    BY <2>1, OthersKept DEF ChainMove, Calls
  <2>3. CASE EnterFlex(w)
    <3>1. r.at \in InFlex => r.left = FlexWindow - Age
      BY <2>1, <2>3 DEF ChainMove, EnterFlex, At, InFlex
    <3>2. outage' = Age /\ outage' \in 0 .. FlexWindow /\ (outage # None => outage' = outage)
      BY <1>0, <2>3 DEF EnterFlex, Age, Remembered, Ages
    <3>3. outage = None => outage' = 0
      BY <2>3 DEF EnterFlex
    <3> QED
      BY SMTT(40), <1>0, <2>2, <3>1, <3>2, <3>3 DEF Window
  <2>4. CASE outage' = None
    BY <2>4 DEF Window
  <2>5. CASE ~ EnterFlex(w) /\ outage' = outage
    BY <2>1, <2>2, <2>5 DEF Window, ChainMove
  <2>6. EnterFlex(w) \/ outage' = None \/ outage' = outage
    BY <1>1, StandardMove
       DEF Chained, SendFlex, FlexSucceeds, FlexFails, FlexEmpty, FlexBusy, NapFlex, WakeFlex, FlexRaisesEmpty,
           EnterStandard, flex
  <2> QED
    BY <2>3, <2>4, <2>5, <2>6
<1>2. ASSUME NEW r, Goto(w, r), r.at \notin InFlex, outage' = outage PROVE Window'
  BY <1>2, OthersKept DEF Window
<1> QED
  BY <1>1, <1>2, ClaudeStep, JevStep DEF Advance, ClaudeMove, JevMove, InFlex, Holding, flex

\* Outside Jev the turns and the slots stay as they are.
LEMMA TurnsKept ==
    ASSUME Typed, Turns, NEW w \in Workers, NEW r, Goto(w, r), r.at \notin InTurn, UNCHANGED <<nextRequest, jevSpaced>>
    PROVE  Turns'
<1>1. \A v \in Workers : call'[v].at \in InTurn => v # w /\ call'[v] = call[v]
  BY OthersKept
<1>2. \A v \in Workers : call'[v].at = "jevReady" => v # w /\ call'[v] = call[v]
  BY <1>1 DEF InTurn
<1> QED
  BY <1>1, <1>2 DEF Turns

LEMMA TurnsStep == ASSUME Typed, Turns, NEW w \in Workers, Advance(w) PROVE Turns'
<1>0. /\ nextRequest \in Nat /\ jevSpaced \in Nat /\ JevInterval \in Nat \ {0}
      /\ \A v \in Workers : call[v].wake \in Nat
  BY DEF Typed, Shared, Calls
<1>1. CASE Jevs(w)
  <2>1. PICK r : JevMove(w, r)
    BY <1>1, JevStep
  <2>2. call'[w] = r /\ \A v \in Workers \ {w} : call'[v] = call[v]
    BY <2>1, OthersKept DEF JevMove
  <2>3. CASE r.at = "paced"
    <3>1. r.wake = nextRequest /\ nextRequest' = nextRequest + JevInterval /\ jevSpaced' = jevSpaced
      BY <2>1, <2>3 DEF JevMove, Due, Reserved
    <3>2. \A v \in Workers : call[v].at \in InTurn => call[v].wake + JevInterval <= nextRequest /\ jevSpaced <= call[v].wake
      BY DEF Turns
    <3>3. r.wake + JevInterval = nextRequest' /\ jevSpaced' <= r.wake
      BY <3>1 DEF Turns
    <3>4. jevSpaced' <= nextRequest' /\ nextRequest <= nextRequest'
      BY <1>0, <3>1 DEF Turns
    <3>5. \A v \in Workers : call'[v].at = "jevReady" => call'[v].wake = 0
      BY <2>2, <2>3 DEF Turns
    <3>6. ASSUME NEW v \in Workers \ {w}, call'[v].at \in InTurn
          PROVE  /\ call'[v].wake + JevInterval <= r.wake /\ call'[v].wake + JevInterval <= nextRequest'
                 /\ jevSpaced' <= call'[v].wake
      <4>1. call'[v] = call[v] /\ call[v].wake \in Nat /\ JevInterval \in Nat
        BY <1>0, <2>2
      <4>2. call[v].wake + JevInterval <= nextRequest /\ jevSpaced <= call[v].wake
        BY <3>2, <3>6, <4>1
      <4> DEFINE k == call[v].wake
      <4>3. k \in Nat /\ k + JevInterval <= nextRequest /\ jevSpaced <= k /\ call'[v].wake = k
        BY <4>1, <4>2
      <4> HIDE DEF k
      <4>4. k + JevInterval <= nextRequest + JevInterval
        BY <1>0, <4>3
      <4> QED
        BY <3>1, <4>3, <4>4
    <3>7. \A v, u \in Workers \ {w} : u # v /\ call'[v].at \in InTurn /\ call'[u].at \in InTurn =>
            call'[v].wake + JevInterval <= call'[u].wake \/ call'[u].wake + JevInterval <= call'[v].wake
      BY <2>2 DEF Turns
    <3>8. ASSUME NEW v \in Workers, call'[v].at \in InTurn
          PROVE  jevSpaced' <= call'[v].wake /\ call'[v].wake + JevInterval <= nextRequest'
      <4>1. CASE v = w
        BY <1>0, <2>2, <3>1, <3>3, <4>1
      <4> QED
        BY <3>6, <3>8, <4>1
    <3>9. ASSUME NEW v \in Workers, NEW u \in Workers \ {v}, call'[v].at \in InTurn, call'[u].at \in InTurn
          PROVE  call'[v].wake + JevInterval <= call'[u].wake \/ call'[u].wake + JevInterval <= call'[v].wake
      <4>1. CASE u = w
        BY <2>2, <3>6, <3>9, <4>1
      <4>2. CASE v = w
        BY <2>2, <3>6, <3>9, <4>2
      <4> QED
        BY <3>7, <3>9, <4>1, <4>2
    <3> QED
      BY <3>4, <3>8, <3>9, <3>5 DEF Turns
  <2>4. CASE r.at = "jevReady"
    <3>1. /\ call[w].at = "paced" /\ call[w].wake = 0 /\ r.wake = 0
          /\ nextRequest' = nextRequest /\ jevSpaced' = jevSpaced
      BY <2>1, <2>4 DEF JevMove, Woken, At
    <3>2. \A v \in Workers : call'[v].wake = call[v].wake /\ (call'[v].at \in InTurn <=> call[v].at \in InTurn)
      BY <2>2, <2>4, <3>1 DEF InTurn
    <3>3. \A v \in Workers : call'[v].at = "jevReady" => call'[v].wake = 0
      BY <2>2, <3>1 DEF Turns
    <3> QED
      BY <3>1, <3>2, <3>3 DEF Turns
  <2>5. CASE r.at = "jevSent"
    <3>1. call[w].at = "jevReady" /\ call[w].wake = 0 /\ nextRequest' = nextRequest /\ jevSpaced' = JevInterval
      BY <2>1, <2>5 DEF JevMove, At, Turns
    <3>2. call[w].at \in InTurn /\ r.at \notin InTurn
      BY <2>5, <3>1 DEF InTurn
    <3>3. JevInterval <= nextRequest
      <4>1. call[w].wake + JevInterval <= nextRequest
        BY <3>2 DEF Turns
      <4> QED
        BY <1>0, <3>1, <4>1
    <3>4. ASSUME NEW v \in Workers \ {w}, call[v].at \in InTurn PROVE JevInterval <= call[v].wake
      <4>1. call[v].wake + JevInterval <= call[w].wake \/ call[w].wake + JevInterval <= call[v].wake
        BY <3>2, <3>4 DEF Turns
      <4> QED
        BY <1>0, <3>1, <4>1
    <3>5. \A v \in Workers : call'[v].at = "jevReady" => call'[v].wake = 0
      BY <2>2, <2>5 DEF Turns
    <3>6. ASSUME NEW v \in Workers, call'[v].at \in InTurn PROVE v # w /\ call'[v] = call[v]
      BY <2>2, <3>2, <3>6
    <3>7. ASSUME NEW v \in Workers, call'[v].at \in InTurn
          PROVE  jevSpaced' <= call'[v].wake /\ call'[v].wake + JevInterval <= nextRequest'
      BY <3>1, <3>4, <3>6, <3>7 DEF Turns
    <3>8. ASSUME NEW v \in Workers, NEW u \in Workers \ {v}, call'[v].at \in InTurn, call'[u].at \in InTurn
          PROVE  call'[v].wake + JevInterval <= call'[u].wake \/ call'[u].wake + JevInterval <= call'[v].wake
      BY <3>6, <3>8 DEF Turns
    <3> QED
      BY <3>1, <3>3, <3>5, <3>7, <3>8 DEF Turns
  <2>6. CASE r.at \notin Holding
    BY <2>1, <2>6, TurnsKept DEF JevMove, Holding, InTurn
  <2> QED
    BY <2>1, <2>3, <2>4, <2>5, <2>6 DEF Holding
<1>2. CASE UNCHANGED jev /\ (Chained(w) \/ Claudes(w))
  <2>1. \E r : Goto(w, r) /\ r.at \notin InTurn
    BY <1>2, ChainStep, ClaudeStep DEF ChainMove, ClaudeMove, InChain, InFlex, InTurn
  <2> QED
    BY <1>2, <2>1, TurnsKept DEF jev
<1> QED
  BY <1>1, <1>2 DEF Advance

\* How the number of slot holders changes with the call of one thread.
LEMMA HoldersChange ==
    ASSUME Typed, NEW w \in Workers, NEW r, Goto(w, r)
    PROVE  /\ IsFiniteSet(Holders) /\ Cardinality(Holders) \in Nat
           /\ (call[w].at \in Holding <=> r.at \in Holding) => Cardinality(Holders)' = Cardinality(Holders)
           /\ call[w].at \in Holding /\ r.at \notin Holding => Cardinality(Holders)' = Cardinality(Holders) - 1
           /\ call[w].at \notin Holding /\ r.at \in Holding => Cardinality(Holders)' = Cardinality(Holders) + 1
<1>1. IsFiniteSet(Holders) /\ Cardinality(Holders) \in Nat
  BY FS_Subset, FS_CardinalityType DEF Holders
<1>2. call'[w] = r /\ \A v \in Workers \ {w} : call'[v] = call[v]
  BY OthersKept
<1>3. ASSUME call[w].at \in Holding <=> r.at \in Holding PROVE Holders' = Holders
  BY <1>2, <1>3 DEF Holders
<1>4. ASSUME call[w].at \in Holding, r.at \notin Holding PROVE Holders' = Holders \ {w} /\ w \in Holders
  BY <1>2, <1>4 DEF Holders
<1>5. ASSUME call[w].at \notin Holding, r.at \in Holding PROVE Holders' = Holders \cup {w} /\ w \notin Holders
  BY <1>2, <1>5 DEF Holders
<1>6. call[w].at \notin Holding /\ r.at \in Holding => Cardinality(Holders)' = Cardinality(Holders) + 1
  BY <1>1, <1>5, FS_AddElement
<1>7. call[w].at \in Holding /\ r.at \notin Holding => Cardinality(Holders)' = Cardinality(Holders) - 1
  BY <1>1, <1>4, FS_RemoveElement
<1> QED
  BY <1>1, <1>3, <1>6, <1>7

LEMMA SlotsStep == ASSUME Typed, SlotsAccounted, NEW w \in Workers, Advance(w) PROVE SlotsAccounted'
<1>1. CASE Jevs(w)
  <2>1. PICK r : JevMove(w, r)
    BY <1>1, JevStep
  <2> DEFINE n == Cardinality(Holders)
  <2>2. n \in Nat /\ Cardinality(Holders') \in Nat /\ Slots \in Nat /\ free \in Nat /\ free = Slots - n
    <3>1. IsFiniteSet(Holders) /\ IsFiniteSet(Holders')
      BY FS_Subset DEF Holders
    <3> QED
      BY <3>1, FS_CardinalityType DEF SlotsAccounted
  <2>3. CASE free' = free /\ (call[w].at \in Holding <=> r.at \in Holding)
    <3>1. n' = n
      BY <2>1, <2>3, HoldersChange DEF JevMove
    <3> QED
      BY <2>2, <2>3, <3>1 DEF SlotsAccounted
  <2>4. CASE free' = free + 1 /\ call[w].at \in Holding /\ r.at \notin Holding
    <3>1. n' = n - 1
      BY <2>1, <2>4, HoldersChange DEF JevMove
    <3> QED
      BY <2>2, <2>4, <3>1 DEF SlotsAccounted
  <2>5. CASE free > 0 /\ free' = free - 1 /\ call[w].at \notin Holding /\ r.at \in Holding
    <3>1. n' = n + 1
      BY <2>1, <2>5, HoldersChange DEF JevMove
    <3> HIDE DEF n
    <3>2. free' = Slots - n' /\ free' \in Nat
      BY <2>2, <2>5, <3>1
    <3> QED
      BY <3>2 DEF SlotsAccounted, n
  <2> QED
    BY <2>1, <2>3, <2>4, <2>5 DEF JevMove
<1>2. CASE UNCHANGED jev /\ (Chained(w) \/ Claudes(w))
  <2>1. \E r : Goto(w, r) /\ r.at \notin Holding /\ call[w].at \notin Holding
    BY <1>2, ChainStep, ClaudeStep DEF ChainMove, ClaudeMove, InChain, InFlex, Holding
  <2> QED
    BY <1>2, <2>1, HoldersChange DEF jev, SlotsAccounted
<1> QED
  BY <1>1, <1>2 DEF Advance

LEMMA StartKeeps == ASSUME CallsInv, NEW w \in Workers, Start(w), UNCHANGED <<claude, jev, route>> PROVE CallsInv'
<1> DEFINE r == [Idle EXCEPT !.at = route]
<1>1. Goto(w, r) /\ call[w].at = "idle" /\ UNCHANGED <<cool, flex, claude, jev>>
  BY DEF Start, At
<1>2. r.at \in {"claude", "jev"}
  BY DEF CallsInv, Typed, Shared, Idle
<1> HIDE DEF r
<1>3. Typed'
  BY StartType DEF CallsInv
<1>4. Remembered'
  BY <1>1 DEF CallsInv, Remembered, flex, claude, jev
<1>5. Window'
  BY <1>1, <1>2, OthersKept DEF CallsInv, Window, InFlex, flex
<1>6. Turns'
  BY <1>1, <1>2, TurnsKept DEF CallsInv, InTurn, jev
<1>7. SlotsAccounted'
  BY <1>1, <1>2, HoldersChange DEF CallsInv, SlotsAccounted, Holding, jev
<1>8. Excused'
  BY <1>1, <1>2, OthersKept DEF CallsInv, Excused, At, claude, jev
<1> QED
  BY <1>3, <1>4, <1>5, <1>6, <1>7, <1>8 DEF CallsInv

LEMMA ElapseKeeps == ASSUME CallsInv, Elapse PROVE CallsInv'
<1>0. Typed
  BY DEF CallsInv
<1>1. ASSUME NEW v \in Workers
      PROVE  /\ call[v].wake \in Nat /\ call[v].left \in 0 .. FlexWindow
             /\ call'[v].at = call[v].at
             /\ call'[v].wake = Less(call[v].wake) /\ call'[v].left = Less(call[v].left)
  <2>1. call[v] \in Calls
    BY <1>0 DEF Typed
  <2>2. call'[v] = [call[v] EXCEPT !.wake = Less(@), !.left = Less(@)]
    BY DEF Elapse, ChainElapse
  <2> QED
    BY <2>1, <2>2 DEF Calls
<1>2. \A v \in Workers : /\ call[v].wake \in Nat /\ call[v].left \in 0 .. FlexWindow
                          /\ call'[v].at = call[v].at
                          /\ call'[v].wake = Less(call[v].wake) /\ call'[v].left = Less(call[v].left)
  BY <1>1
<1>3. Typed'
  BY <1>0, ElapseType
<1>4. Remembered'
  BY DEF CallsInv, Remembered, Elapse, ChainElapse, ClaudeElapse, JevElapse
<1>5. Window'
  <2>1. outage \in Ages /\ outage' = Older(outage)
    BY <1>0 DEF Typed, Shared, Elapse, ChainElapse
  <2>2. ASSUME NEW v \in Workers, call[v].at \in InFlex, outage' # None
        PROVE  call'[v].left + outage' <= FlexWindow
    <3>1. outage \in 0 .. FlexWindow /\ outage' = Min2(FlexWindow, outage + 1)
      BY <2>1, <2>2 DEF Ages, Older
    <3>2. call[v].left + outage <= FlexWindow
      BY <2>2, <3>1 DEF CallsInv, Window
    <3> DEFINE n == call[v].left
    <3>3. n \in Nat /\ call'[v].left = Less(n) /\ FlexWindow \in Nat
      BY <1>2
    <3> HIDE DEF n
    <3>4. Less(n) + Min2(FlexWindow, outage + 1) <= FlexWindow
      <4>1. n + outage <= FlexWindow
        BY <3>2 DEF n
      <4> QED
        BY <3>1, <3>3, <4>1 DEF Less, Min2
    <3> QED
      BY <3>1, <3>3, <3>4
  <2> QED
    BY <1>2, <2>2 DEF Window
<1>6. Turns'
  <2>1. \A v \in Workers : call[v].at # "jevReady" /\ (call[v].at \in InTurn => call[v].wake > 0)
    BY DEF Elapse, At, InTurn, Waits, Sent
  <2>2. nextRequest \in Nat /\ jevSpaced \in Nat /\ nextRequest' = Less(nextRequest) /\ jevSpaced' = Less(jevSpaced)
    BY <1>0 DEF Typed, Shared, Elapse, JevElapse
  <2>3. \A m, n \in Nat : m <= n => Less(m) <= Less(n)
    BY DEF Less
  <2>4. \A m, n \in Nat : m > 0 /\ m + JevInterval <= n => Less(m) + JevInterval <= Less(n)
    BY DEF Less
  <2>5. Turns
    BY DEF CallsInv
  <2>6. jevSpaced' <= nextRequest'
    BY <2>2, <2>3, <2>5 DEF Turns
  <2>7. ASSUME NEW w \in Workers, call[w].at \in InTurn
        PROVE  jevSpaced' <= call'[w].wake /\ call'[w].wake + JevInterval <= nextRequest'
    BY <1>2, <2>1, <2>2, <2>3, <2>4, <2>5, <2>7 DEF Turns
  <2>8. ASSUME NEW w \in Workers, NEW v \in Workers \ {w}, call[w].at \in InTurn, call[v].at \in InTurn
        PROVE  call'[v].wake + JevInterval <= call'[w].wake \/ call'[w].wake + JevInterval <= call'[v].wake
    BY <1>2, <2>1, <2>4, <2>5, <2>8 DEF Turns
  <2> QED
    BY <1>2, <2>1, <2>6, <2>7, <2>8 DEF Turns
<1>7. SlotsAccounted'
  BY <1>2 DEF CallsInv, SlotsAccounted, Holders, Elapse, JevElapse
<1>8. Excused'
  <2>1. claudeAsked \in Nat /\ jevAsked \in Nat
    BY <1>0 DEF Typed, Shared
  <2>2. /\ claudeAsked' = Less(claudeAsked) /\ jevAsked' = Less(jevAsked)
        /\ UNCHANGED <<claudeExcused, jevExcused>>
    BY DEF Elapse, ClaudeElapse, JevElapse
  <2>3. \A n \in Nat : Less(n) > 0 => n > 0
    BY DEF Less
  <2>4. claudeAsked' > 0 => claudeAsked > 0
    BY <2>1, <2>2, <2>3
  <2>5. jevAsked' > 0 => jevAsked > 0
    BY <2>1, <2>2, <2>3
  <2> QED
    BY <1>2, <2>2, <2>4, <2>5 DEF CallsInv, Excused, At
<1> QED
  BY <1>3, <1>4, <1>5, <1>6, <1>7, <1>8 DEF CallsInv

LEMMA InitKeeps == ASSUME Init PROVE CallsInv
<1>1. Typed
  BY IdleType DEF Init, ChainInit, ClaudeInit, JevInit, Typed, Shared, Ages
<1>2. \A w \in Workers : call[w].at = "idle"
  BY DEF Init, ChainInit, Idle
<1>3. Remembered /\ Excused /\ Window /\ Turns
  BY <1>2 DEF Init, ChainInit, ClaudeInit, JevInit, Remembered, Excused, At, Window, Turns, InFlex, InTurn
<1>4. SlotsAccounted
  <2>1. Holders = {}
    BY <1>2 DEF Holders, Holding
  <2> QED
    BY <2>1, FS_EmptySet DEF Init, JevInit, SlotsAccounted
<1> QED
  BY <1>1, <1>3, <1>4 DEF CallsInv

LEMMA AdvanceKeeps == ASSUME CallsInv, NEW w \in Workers, Advance(w) PROVE CallsInv'
BY AdvanceType, RememberedStep, ExcusedStep, WindowStep, TurnsStep, SlotsStep DEF CallsInv

LEMMA NextKeeps == ASSUME CallsInv, [Next]_vars PROVE CallsInv'
<1>1. CASE UNCHANGED vars
  BY <1>1 DEF vars, chain, cool, flex, claude, jev, CallsInv, Typed, Shared, Remembered, Excused, At, Window,
             Turns, SlotsAccounted, Holders
<1> QED
  BY <1>1, ElapseKeeps, StartKeeps, AdvanceKeeps DEF Next

\* The worker threads keep the invariant that the theorems below rest on.
THEOREM CallsSound == Spec => []CallsInv
<1>1. Init => CallsInv
  BY InitKeeps
<1>2. CallsInv /\ [Next]_vars => CallsInv'
  BY NextKeeps
<1> QED
  BY <1>1, <1>2, PTL DEF Spec

--------------------------------------------------------------------------------
\* Every call of every thread has a place, a client of the chain and at most
\* MaxAttempts tries, and every slot of Jev is free or held by a call
\* (ModelCalls!TypeOK).
THEOREM CallsTyped == Spec => []TypeOK
<1>1. CallsInv => TypeOK
  <2>1. SUFFICES ASSUME CallsInv PROVE TypeOK
    OBVIOUS
  <2>2. ASSUME NEW w \in Workers
        PROVE  /\ call[w].at \in {"idle"} \cup Waits \cup Moves
               /\ call[w].left \in 0 .. FlexWindow /\ call[w].wake \in Nat /\ call[w].tries \in 0 .. MaxAttempts
               /\ call[w].empty \cup avoid[w] \subseteq Labels
               /\ call[w].i \in 0 .. Max2(Len(Flex), Len(Standard)) + 1
    <3>1. call[w] \in Calls /\ Placed(call[w])
      BY <2>1 DEF CallsInv, Typed
    <3>2. call[w].i \in 0 .. Len(Flex) + 1 \/ call[w].i \in 0 .. Len(Standard)
      BY <3>1 DEF Placed, InFlex, Calls
    <3>3. call[w].i \in 0 .. Max2(Len(Flex), Len(Standard)) + 1
      BY <3>2 DEF Max2
    <3>4. avoid[w] \subseteq Labels
      BY <2>1 DEF CallsInv, Typed, Shared
    <3> QED
      BY <3>1, <3>3, <3>4 DEF Calls
  <2> QED
    BY <2>1, <2>2 DEF TypeOK, CallsInv, Typed, Shared, Ages, SlotsAccounted, Holders, Holding
<1> QED
  BY <1>1, CallsSound, PTL

\* While Flex does not work, no call waits for it past the window that the
\* first of the calls opened (ModelCalls!OutageWaitedOnce), for any number of
\* threads and clients.
THEOREM OutageIsWaitedOnce == Spec => []OutageWaitedOnce
<1>1. CallsInv => OutageWaitedOnce
  <2>1. SUFFICES ASSUME CallsInv, NEW w \in Workers, call[w].at \in {"nap", "flexSent"}, ~ call[w].probe, outage # None
                 PROVE  call[w].wake <= Max2(1, FlexWindow - outage)
    BY DEF OutageWaitedOnce
  <2>2. call[w] \in Calls /\ Placed(call[w]) /\ outage \in 0 .. FlexWindow
    BY <2>1 DEF CallsInv, Typed, Shared, Ages
  <2>3. call[w].left + outage <= FlexWindow
    BY <2>1 DEF CallsInv, Window, InFlex
  <2>4. call[w].wake <= Max2(1, call[w].left)
    BY <2>1, <2>2 DEF Placed
  <2> DEFINE wake == call[w].wake
             left == call[w].left
  <2>5. wake \in Nat /\ left \in Nat /\ outage \in Nat
    BY <2>2 DEF Calls
  <2>6. left + outage <= FlexWindow /\ wake <= Max2(1, left)
    BY <2>3, <2>4
  <2> HIDE DEF wake, left
  <2>7. wake <= Max2(1, FlexWindow - outage)
    BY <2>5, <2>6 DEF Max2
  <2> QED
    BY <2>7 DEF wake
<1> QED
  BY <1>1, CallsSound, PTL

\* When a call is sent, and what was asked for until then.
SentAs(w) ==
    /\ call'[w].at = "claudeSent" /\ ~ At(w, "claudeSent") => claudeAsked = 0 \/ w \in claudeExcused
    /\ call'[w].at = "jevSent" /\ ~ At(w, "jevSent") => jevAsked = 0 \/ w \in jevExcused
    /\ call'[w].at = "jevSent" /\ ~ At(w, "jevSent") => jevSpaced = 0

LEMMA SentInTime == ASSUME CallsInv, [Next]_vars, NEW w \in Workers PROVE SentAs(w)
<1> USE DEF CallsInv
<1>1. CASE UNCHANGED call
  BY <1>1 DEF SentAs, At
<1>2. CASE Elapse
  <2>1. call[w] \in Calls /\ call'[w] = [call[w] EXCEPT !.wake = Less(@), !.left = Less(@)]
    BY <1>2 DEF Elapse, ChainElapse, Typed
  <2>2. call'[w].at = call[w].at
    BY <2>1 DEF Calls
  <2> QED
    BY <2>2 DEF SentAs, At
<1>3. ASSUME NEW v \in Workers, NEW r, Goto(v, r),
             r.at = "claudeSent" => At(v, "claudeReady"),
             r.at = "jevSent" => At(v, "jevReady")
      PROVE  SentAs(w)
  <2>1. call'[v] = r /\ (w # v => call'[w] = call[w])
    BY <1>3, OthersKept
  <2>2. claudeAsked \in Nat /\ jevAsked \in Nat /\ jevSpaced \in Nat
    BY DEF Typed, Shared
  <2>3. At(v, "claudeReady") => claudeAsked = 0 \/ v \in claudeExcused
    BY <2>2 DEF Excused
  <2>4. At(v, "jevReady") => jevAsked = 0 \/ v \in jevExcused
    BY <2>2 DEF Excused
  <2>5. At(v, "jevReady") => jevSpaced = 0
    BY <2>2 DEF At, Turns, InTurn
  <2> QED
    BY <1>3, <2>1, <2>3, <2>4, <2>5 DEF SentAs, At
<1>4. ASSUME NEW v \in Workers, Start(v)
      PROVE  \E r : Goto(v, r) /\ r.at \in {"claude", "jev"}
  BY <1>4 DEF Start, Typed, Shared, Idle
<1>5. ASSUME NEW v \in Workers, Advance(v)
      PROVE  \E r : /\ Goto(v, r)
                    /\ r.at = "claudeSent" => At(v, "claudeReady")
                    /\ r.at = "jevSent" => At(v, "jevReady")
  BY <1>5, ChainStep, ClaudeStep, JevStep DEF Advance, ChainMove, ClaudeMove, JevMove, InChain, InFlex, Holding
<1> QED
  BY <1>1, <1>2, <1>3, <1>4, <1>5 DEF Next, vars, chain

\* No request goes to Claude, and none to Jev, before the longest delay that any
\* failure of theirs has asked for, except the one of a thread that had passed its last
\* check of the delay when the first of those failures came
\* (ModelCalls!DelaysHonoured), for any number of threads.
THEOREM DelaysAreHonoured == Spec => DelaysHonoured
<1>1. CallsInv /\ [Next]_vars =>
        [\A w \in Workers :
           /\ call'[w].at = "claudeSent" /\ ~ At(w, "claudeSent") => claudeAsked = 0 \/ w \in claudeExcused
           /\ call'[w].at = "jevSent" /\ ~ At(w, "jevSent") => jevAsked = 0 \/ w \in jevExcused]_vars
  BY SentInTime DEF SentAs
<1> QED
  BY <1>1, CallsSound, PTL DEF Spec, DelaysHonoured

\* Two requests to Jev are an interval apart (ModelCalls!JevPaced), however many
\* threads take their turns.
THEOREM JevIsPaced == Spec => JevPaced
<1>1. CallsInv /\ [Next]_vars =>
        [\A w \in Workers : call'[w].at = "jevSent" /\ ~ At(w, "jevSent") => jevSpaced = 0]_vars
  BY SentInTime DEF SentAs
<1> QED
  BY <1>1, CallsSound, PTL DEF Spec, JevPaced
================================================================================
