-------------------------- MODULE FreeAdmissionProofs --------------------------
(***************************************************************************)
(* Theorems about FreeAdmission, for any number of workers and any values  *)
(* of the policy.                                                          *)
(***************************************************************************)
EXTENDS FreeAdmission, FiniteSetTheorems, TLAPS

USE FreeAdmissionAssumption

Flying == {w \in Workers : InFlight(w)}

\* The part of the type invariant that needs no bound on the clock.
Types ==
    /\ now \in Nat
    /\ policy \in Policies
    /\ call \in [Workers -> Calls]
    /\ left \in Int \cup {Unknown}
    /\ quiet \in Nat

\* Where a call goes next, and that it only goes on while it has attempts left.
Route(c) ==
    /\ c.at = "leave" => c.next \in {"send", "pay"}
    /\ c.at = "release" => c.next \in {"idle", "pause", "join", "pay"}
    /\ c.next \in {"pause", "join"} => c.at = "release" /\ c.attempt < MaxAttempts
    /\ c.at = "pause" => c.attempt < MaxAttempts

RouteInv == \A w \in Workers : Route(call[w])

\* The policy remembers the longest of the delays that 429s asked for.
DelayInv == quiet <= policy.rateUntil

SlotInv == policy.active = Cardinality(Flying) /\ policy.active <= MaxActive

AdmissionInv == Types /\ RouteInv /\ DelayInv /\ SlotInv

--------------------------------------------------------------------------------
LEMMA TodayType == ASSUME now \in Nat PROVE Today \in Nat
BY DEF Today

LEMMA LaterType == ASSUME NEW a \in Nat, NEW b \in Nat PROVE Larger(a, b) \in Nat /\ Larger(a, b) >= a /\ Larger(a, b) >= b
BY DEF Larger

\* The lookups stop at a cooldown, at the catalog, or at the count.
LEMMA LookupsCases ==
    ASSUME NEW found \in Lookups
    PROVE  \/ found = [policy |-> policy, left |-> left, available |-> FALSE]
           \/ \E c \in AfterCatalog(policy) : ~ c.offered /\
                 found = [policy |-> c, left |-> left, available |-> Usable(c)]
           \/ \E c \in AfterCatalog(policy) : \E f \in AfterQuota(c) :
                 found = [policy |-> f.policy, left |-> f.left, available |-> Usable(f.policy)]
<1>1. ASSUME NEW c \in AfterCatalog(policy),
             NEW f \in IF c.offered THEN AfterQuota(c) ELSE {[policy |-> c, left |-> left]},
             found = [policy |-> f.policy, left |-> f.left, available |-> Usable(f.policy)]
      PROVE  \/ ~ c.offered /\ found = [policy |-> c, left |-> left, available |-> Usable(c)]
             \/ f \in AfterQuota(c)
  BY <1>1
<1> QED
  BY <1>1 DEF Lookups

\* What a refresh of the count sets, and what it leaves alone.
LEMMA CheckedKeeps ==
    ASSUME Types, NEW p \in Policies, NEW count \in Nat \cup {Unknown}, NEW valid \in BOOLEAN
    PROVE  LET q == Checked(p, count, valid)
           IN  /\ q \in Policies /\ q.active = p.active /\ q.rateUntil = p.rateUntil
               /\ q.remaining = count /\ q.valid = valid /\ q.day = Today
<1>1. Today \in Nat /\ now + TTL \in Nat
  BY TodayType DEF Types
<1> QED
  BY <1>1 DEF Checked, Policies

\* The metadata lookups change neither the slots nor the delays, and report the
\* model as available only with a positive count.
LEMMA LookupsKeep ==
    ASSUME Types, NEW found \in Lookups
    PROVE  /\ found.policy \in Policies
           /\ found.policy.active = policy.active
           /\ found.policy.rateUntil = policy.rateUntil
           /\ found.left \in Int \cup {Unknown}
           /\ found.available => found.policy.remaining \in Nat \ {0}
<1>1. Today \in Nat
  BY TodayType DEF Types
<1>2. ASSUME NEW p \in Policies, NEW c \in AfterCatalog(p)
      PROVE  c \in Policies /\ c.active = p.active /\ c.rateUntil = p.rateUntil
  <2>1. CASE c = p
    BY <2>1, <1>2
  <2>2. CASE \E o \in BOOLEAN : c = [p EXCEPT !.offered = o, !.offeredUntil = now + TTL]
    <3>1. PICK o \in BOOLEAN : c = [p EXCEPT !.offered = o, !.offeredUntil = now + TTL]
      BY <2>2
    <3>2. now + TTL \in Nat
      BY DEF Types
    <3> QED
      BY <3>1, <3>2, <1>2 DEF Policies
  <2> QED
    BY <2>1, <2>2, <1>2 DEF AfterCatalog
<1>3. ASSUME NEW r \in Reports, NEW p \in Policies, NEW known \in Nat \cup {Unknown}
      PROVE  Remaining(p, r, known) \in Nat
  BY <1>3 DEF Reports, Remaining, Smaller, Policies
<1>4. ASSUME NEW p \in Policies, NEW f \in AfterQuota(p)
      PROVE  /\ f.policy \in Policies /\ f.policy.active = p.active /\ f.policy.rateUntil = p.rateUntil
             /\ f.left \in Int \cup {Unknown}
  <2>1. CASE f = [policy |-> p, left |-> left]
    BY <2>1, <1>4 DEF Types
  <2>2. CASE ~ (now < p.quotaUntil /\ Today = p.day)
    <3> DEFINE known == IF Today = p.day THEN p.remaining ELSE Unknown
    <3>1. known \in Nat \cup {Unknown}
      BY DEF Policies
    <3>2. \/ f = [policy |-> Checked(p, known, FALSE), left |-> left]
          \/ \E r \in Reports : f = [policy |-> Checked(p, Remaining(p, r, known), TRUE), left |-> Least(r)]
      BY <2>2, <1>4, Zenon DEF AfterQuota
    <3> HIDE DEF known
    <3>3. CASE f = [policy |-> Checked(p, known, FALSE), left |-> left]
      BY <1>4, <3>1, <3>3, CheckedKeeps DEF Types
    <3>4. CASE \E r \in Reports : f = [policy |-> Checked(p, Remaining(p, r, known), TRUE), left |-> Least(r)]
      <4>1. PICK r \in Reports : f = [policy |-> Checked(p, Remaining(p, r, known), TRUE), left |-> Least(r)]
        BY <3>4
      <4>2. Remaining(p, r, known) \in Nat /\ Least(r) \in Int \cup {Unknown}
        BY <1>3, <1>4, <3>1 DEF Least, Smaller, Reports, Types
      <4> QED
        BY <1>4, <4>1, <4>2, CheckedKeeps
    <3> QED
      BY <3>2, <3>3, <3>4
  <2> QED
    BY <2>1, <2>2, <1>4 DEF AfterQuota
<1>5. policy \in Policies
  BY DEF Types
<1>6. CASE found = [policy |-> policy, left |-> left, available |-> FALSE]
  BY <1>5, <1>6 DEF Types
<1>7. CASE \E c \in AfterCatalog(policy) : ~ c.offered /\
              found = [policy |-> c, left |-> left, available |-> Usable(c)]
  <2>1. PICK c \in AfterCatalog(policy) :
              found = [policy |-> c, left |-> left, available |-> Usable(c)]
    BY <1>7
  <2>2. c \in Policies /\ c.active = policy.active /\ c.rateUntil = policy.rateUntil
    BY <1>2, <1>5
  <2> QED
    BY <2>1, <2>2 DEF Usable, Policies, Types
<1>8. CASE \E c \in AfterCatalog(policy) : \E f \in AfterQuota(c) :
              found = [policy |-> f.policy, left |-> f.left, available |-> Usable(f.policy)]
  <2>0. PICK c \in AfterCatalog(policy) : \E f \in AfterQuota(c) :
              found = [policy |-> f.policy, left |-> f.left, available |-> Usable(f.policy)]
    BY <1>8
  <2>1. PICK f \in AfterQuota(c) :
              found = [policy |-> f.policy, left |-> f.left, available |-> Usable(f.policy)]
    BY <2>0
  <2>2. /\ f.policy \in Policies /\ f.policy.active = policy.active /\ f.policy.rateUntil = policy.rateUntil
        /\ f.left \in Int \cup {Unknown}
    BY <1>2, <1>4, <1>5
  <2> QED
    BY <2>1, <2>2 DEF Usable, Policies
<1> QED
  BY <1>6, <1>7, <1>8, LookupsCases

--------------------------------------------------------------------------------
(* A step of one worker, and what it does to the number of slots in use.     *)

Aloft(c) == c.at \in {"send", "release"} \/ (c.at = "leave" /\ c.next = "send")

LEMMA Move ==
    ASSUME Types, RouteInv, NEW w \in Workers, NEW c \in Calls, Goto(w, c), Route(c)
    PROVE  /\ call' \in [Workers -> Calls]
           /\ RouteInv'
           /\ Cardinality(Flying) \in Nat
           /\ (Aloft(c) <=> InFlight(w)) => Cardinality(Flying)' = Cardinality(Flying)
           /\ Aloft(c) /\ ~ InFlight(w) => Cardinality(Flying)' = Cardinality(Flying) + 1
           /\ InFlight(w) /\ ~ Aloft(c) =>
                 Cardinality(Flying)' = Cardinality(Flying) - 1 /\ Cardinality(Flying) >= 1
<1>1. /\ call' \in [Workers -> Calls]
      /\ call'[w] = c
      /\ \A v \in Workers \ {w} : call'[v] = call[v]
  BY DEF Goto, Types
<1>2. RouteInv'
  BY <1>1 DEF RouteInv, Route
<1>3. IsFiniteSet(Flying)
  BY FS_Subset DEF Flying
<1>4. Cardinality(Flying) \in Nat
  BY <1>3, FS_CardinalityType
<1>5. /\ InFlight(w)' <=> Aloft(c)
      /\ \A v \in Workers \ {w} : InFlight(v)' <=> InFlight(v)
  BY <1>1 DEF InFlight, Aloft
<1>6. CASE Aloft(c) <=> InFlight(w)
  <2>1. Flying' = Flying
    BY <1>5, <1>6 DEF Flying
  <2> QED
    BY <1>1, <1>2, <1>4, <1>6, <2>1
<1>7. CASE Aloft(c) /\ ~ InFlight(w)
  <2>1. Flying' = Flying \cup {w} /\ w \notin Flying
    BY <1>5, <1>7 DEF Flying
  <2>2. Cardinality(Flying') = Cardinality(Flying) + 1
    BY <2>1, <1>3, FS_AddElement
  <2> QED
    BY <1>1, <1>2, <1>4, <1>7, <2>2
<1>8. CASE InFlight(w) /\ ~ Aloft(c)
  <2>1. Flying' = Flying \ {w} /\ w \in Flying
    BY <1>5, <1>8 DEF Flying
  <2>2. Cardinality(Flying') = Cardinality(Flying) - 1
    BY <2>1, <1>3, FS_RemoveElement
  <2>3. Cardinality(Flying) # 0
    BY <2>1, <1>3, FS_EmptySet
  <2> QED
    BY <1>1, <1>2, <1>4, <1>8, <2>2, <2>3
<1> QED
  BY <1>6, <1>7, <1>8

LEMMA InitAdmission == Init => AdmissionInv
<1> SUFFICES ASSUME Init PROVE AdmissionInv
  OBVIOUS
<1>1. Idle \in Calls /\ Route(Idle)
  BY DEF Idle, Calls, Places, Route
<1>2. Types
  BY <1>1 DEF Init, Types, Policies
<1>3. RouteInv
  BY <1>1 DEF Init, RouteInv
<1>4. DelayInv
  BY DEF Init, DelayInv
<1>5. Flying = {}
  BY DEF Init, Flying, InFlight, Idle
<1> QED
  BY <1>2, <1>3, <1>4, <1>5, FS_EmptySet DEF AdmissionInv, SlotInv, Init

--------------------------------------------------------------------------------
(* Every action preserves the invariant.                                     *)

\* Actions that move a worker and leave the policy alone.
LEMMA QuietMove ==
    ASSUME AdmissionInv, NEW w \in Workers, NEW c \in Calls, Goto(w, c), Route(c),
           Aloft(c) <=> InFlight(w),
           now' \in Nat, left' \in Int \cup {Unknown},
           UNCHANGED <<policy, quiet>>
    PROVE  AdmissionInv'
<1>1. /\ call' \in [Workers -> Calls] /\ RouteInv'
      /\ Cardinality(Flying)' = Cardinality(Flying)
  BY Move DEF AdmissionInv
<1> QED
  BY <1>1 DEF AdmissionInv, Types, DelayInv, SlotInv

LEMMA JoinStep ==
    ASSUME AdmissionInv, NEW w \in Workers, Join(w)
    PROVE  AdmissionInv'
<1> DEFINE c == [call[w] EXCEPT !.at = "wait", !.waited = FALSE]
<1>1. call[w] \in Calls /\ Route(call[w])
  BY DEF AdmissionInv, Types, RouteInv
<1>2. c \in Calls /\ Route(c) /\ (Aloft(c) <=> InFlight(w))
  BY <1>1 DEF Join, Calls, Places, Route, Aloft, InFlight
<1> HIDE DEF c
<1> QED
  BY <1>2, QuietMove DEF Join, AdmissionInv, Types, c

LEMMA LeaveStep ==
    ASSUME AdmissionInv, NEW w \in Workers, Leave(w)
    PROVE  AdmissionInv'
<1> DEFINE c == [call[w] EXCEPT !.at = call[w].next, !.waited = FALSE]
<1>1. call[w] \in Calls /\ Route(call[w])
  BY DEF AdmissionInv, Types, RouteInv
<1>2. c \in Calls /\ Route(c) /\ (Aloft(c) <=> InFlight(w))
  BY <1>1 DEF Leave, Calls, Places, Route, Aloft, InFlight
<1> HIDE DEF c
<1> QED
  BY <1>2, QuietMove DEF Leave, AdmissionInv, Types, c

LEMMA StartCallStep ==
    ASSUME AdmissionInv, NEW w \in Workers, StartCall(w)
    PROVE  AdmissionInv'
<1> DEFINE c == [Idle EXCEPT !.at = "join", !.deadline = now + MaxWait]
<1>1. now + MaxWait \in Nat
  BY DEF AdmissionInv, Types
<1>2. Idle \in Calls /\ Idle.next = "idle"
  BY DEF Idle, Calls, Places
<1>3. c \in Calls /\ c.at = "join" /\ c.next = "idle"
  BY <1>1, <1>2 DEF Calls, Places
<1>4. Route(c) /\ (Aloft(c) <=> InFlight(w))
  BY <1>3 DEF StartCall, Route, Aloft, InFlight
<1> HIDE DEF c
<1> QED
  BY <1>3, <1>4, QuietMove DEF StartCall, AdmissionInv, Types, c

LEMMA ChargeStep ==
    ASSUME AdmissionInv, NEW w \in Workers, Charge(w)
    PROVE  AdmissionInv'
<1> DEFINE c == [call[w] EXCEPT !.charged = TRUE]
<1>1. call[w] \in Calls /\ Route(call[w])
  BY DEF AdmissionInv, Types, RouteInv
<1>2. c \in Calls /\ Route(c) /\ (Aloft(c) <=> InFlight(w))
  BY <1>1 DEF Charge, Calls, Places, Route, Aloft, InFlight
<1>3. left' \in Int \cup {Unknown}
  BY DEF Charge, AdmissionInv, Types
<1> HIDE DEF c
<1> QED
  BY <1>2, <1>3, QuietMove DEF Charge, AdmissionInv, Types, c

LEMMA PauseStep ==
    ASSUME AdmissionInv, NEW w \in Workers, Pause(w)
    PROVE  AdmissionInv'
<1> DEFINE c == [call[w] EXCEPT !.at = "join", !.attempt = @ + 1]
<1>1. call[w] \in Calls /\ Route(call[w])
  BY DEF AdmissionInv, Types, RouteInv
<1>2. call[w].attempt + 1 \in 1 .. MaxAttempts
  BY <1>1 DEF Pause, Route, Calls
<1>3. c \in Calls
  BY <1>1, <1>2 DEF Calls, Places
<1>4. Route(c) /\ (Aloft(c) <=> InFlight(w))
  BY <1>1, <1>2 DEF Pause, Calls, Route, Aloft, InFlight
<1> HIDE DEF c
<1> QED
  BY <1>3, <1>4, QuietMove DEF Pause, AdmissionInv, Types, c

LEMMA PayStep ==
    ASSUME AdmissionInv, NEW w \in Workers, Pay(w)
    PROVE  AdmissionInv'
<1>1. Idle \in Calls /\ Route(Idle) /\ (Aloft(Idle) <=> InFlight(w))
  BY DEF Pay, Idle, Calls, Places, Route, Aloft, InFlight
<1> QED
  BY <1>1, QuietMove DEF Pay, AdmissionInv, Types

\* An answer keeps the slot until the finally clause; a 429 moves the delay up.
LEMMA AnswerStep ==
    ASSUME AdmissionInv, NEW w \in Workers, Answer(w)
    PROVE  AdmissionInv'
<1>1. call[w] \in Calls /\ Route(call[w])
  BY DEF AdmissionInv, Types, RouteInv
<1>2. ASSUME NEW n \in {"idle", "pause", "join", "pay"}, Answered(w, n),
             n \in {"pause", "join"} => ~ Exhausted(w)
      PROVE  call' \in [Workers -> Calls] /\ RouteInv' /\ Cardinality(Flying)' = Cardinality(Flying)
  <2> DEFINE c == [call[w] EXCEPT !.at = "release", !.next = n]
  <2>1. call[w].attempt \in 1 .. MaxAttempts
    BY <1>1 DEF Calls
  <2>2. c \in Calls /\ c.at = "release" /\ c.next = n /\ c.attempt = call[w].attempt
    BY <1>1, <1>2 DEF Calls, Places
  <2>3. n \in {"pause", "join"} => c.attempt < MaxAttempts
    BY <1>2, <2>1, <2>2 DEF Exhausted
  <2>4. Route(c)
    BY <1>2, <2>2, <2>3 DEF Route
  <2>5. Aloft(c) <=> InFlight(w)
    BY <1>2, <2>2 DEF Answered, Aloft, InFlight
  <2> HIDE DEF c
  <2> QED
    BY <1>2, <2>2, <2>4, <2>5, Move DEF Answered, AdmissionInv, c
<1>3. CASE Succeed(w) \/ TryAgain(w)
  BY <1>2, <1>3 DEF Succeed, TryAgain, Answered, AdmissionInv, Types, DelayInv, SlotInv
<1>4. CASE CoolDown(w)
  <2>1. PICK d \in Delays :
          /\ Answered(w, "pay") /\ UNCHANGED quiet
          /\ policy' = [policy EXCEPT !.cooldown = Extend(@, now + Larger(d, CoolTime)), !.quotaUntil = 0]
    BY <1>4 DEF CoolDown
  <2>2. policy \in Policies /\ Extend(policy.cooldown, now + Larger(d, CoolTime)) \in Nat
    BY <2>1, LaterType DEF Extend, Larger, Policies, AdmissionInv, Types
  <2>3. policy' \in Policies /\ policy'.active = policy.active /\ policy'.rateUntil = policy.rateUntil
    BY <2>1, <2>2 DEF Policies
  <2> QED
    BY <1>2, <2>1, <2>3 DEF Answered, AdmissionInv, Types, DelayInv, SlotInv
<1>5. CASE RateLimited(w)
  <2>1. PICK d \in Delays :
          /\ Answered(w, IF Exhausted(w) THEN "pay" ELSE "join")
          /\ policy' = [policy EXCEPT !.rateUntil = Extend(@, now + Larger(d, RateRetry)), !.quotaUntil = 0]
          /\ quiet' = Larger(quiet, now + Larger(d, RateRetry))
    BY <1>5 DEF RateLimited
  <2>2. policy \in Policies /\ quiet \in Nat /\ now + Larger(d, RateRetry) \in Nat
    BY <2>1, LaterType DEF Larger, AdmissionInv, Types
  <2>3. Extend(policy.rateUntil, now + Larger(d, RateRetry)) \in Nat /\ quiet' \in Nat
    BY <2>1, <2>2 DEF Extend, Larger, Policies
  <2>4. quiet' <= Extend(policy.rateUntil, now + Larger(d, RateRetry))
    BY <2>1, <2>2 DEF Extend, Larger, Policies, AdmissionInv, DelayInv
  <2>5. /\ policy' \in Policies /\ policy'.active = policy.active
        /\ policy'.rateUntil = Extend(policy.rateUntil, now + Larger(d, RateRetry))
    BY <2>1, <2>2, <2>3 DEF Policies
  <2> QED
    BY <1>2, <2>1, <2>3, <2>4, <2>5 DEF Answered, AdmissionInv, Types, DelayInv, SlotInv
<1> QED
  BY <1>3, <1>4, <1>5 DEF Answer

\* The finally clause gives back the slot of a request in flight, so one was taken.
LEMMA ReleaseStep ==
    ASSUME AdmissionInv, NEW w \in Workers, Release(w)
    PROVE  AdmissionInv'
<1> DEFINE c == IF call[w].next = "idle" THEN Idle
                ELSE [call[w] EXCEPT !.at = call[w].next, !.next = "idle", !.charged = FALSE,
                                     !.attempt = NextAttempt(w)]
<1>1. call[w] \in Calls /\ Route(call[w]) /\ call[w].at = "release"
  BY DEF AdmissionInv, Types, RouteInv, Release
<1>2. NextAttempt(w) \in 1 .. MaxAttempts
  BY <1>1 DEF NextAttempt, Route, Calls
<1>3. c \in Calls /\ Route(c) /\ ~ Aloft(c)
  <2>1. CASE call[w].next = "idle"
    BY <2>1 DEF Idle, Calls, Places, Route, Aloft
  <2>2. CASE call[w].next # "idle"
    <3> DEFINE d == [call[w] EXCEPT !.at = call[w].next, !.next = "idle", !.charged = FALSE,
                                    !.attempt = NextAttempt(w)]
    <3>1. d \in Calls /\ d.at = call[w].next /\ d.next = "idle" /\ d.attempt = NextAttempt(w)
      BY <1>1, <1>2 DEF Calls, Places
    <3>2. d.at \in {"pause", "join", "pay"}
      BY <1>1, <2>2, <3>1 DEF Route
    <3>3. d.at = "pause" => d.attempt < MaxAttempts
      BY <1>1, <3>1 DEF Route, NextAttempt
    <3>4. Route(d) /\ ~ Aloft(d)
      BY <3>1, <3>2, <3>3 DEF Route, Aloft
    <3> QED
      BY <2>2, <3>1, <3>4
  <2> QED
    BY <2>1, <2>2
<1>4. Goto(w, c)
  BY DEF Release
<1> HIDE DEF c
<1>5. InFlight(w)
  BY <1>1 DEF InFlight
<1>6. /\ call' \in [Workers -> Calls] /\ RouteInv'
      /\ Cardinality(Flying) \in Nat /\ Cardinality(Flying) >= 1
      /\ Cardinality(Flying)' = Cardinality(Flying) - 1
  BY <1>3, <1>4, <1>5, Move DEF AdmissionInv
<1>7. policy.active = Cardinality(Flying) /\ policy.active - 1 \in Nat
  BY <1>6 DEF AdmissionInv, SlotInv
<1>8. policy' \in Policies /\ policy'.active = policy.active - 1 /\ policy'.rateUntil = policy.rateUntil
  BY <1>7 DEF Release, Freed, Policies, AdmissionInv, Types
<1> QED
  BY <1>6, <1>7, <1>8 DEF Release, AdmissionInv, Types, DelayInv, SlotInv

\* An admission takes one slot, and only while one is free and no 429's delay runs.
LEMMA PollStep ==
    ASSUME AdmissionInv, NEW w \in Workers, Poll(w)
    PROVE  /\ AdmissionInv'
           /\ policy'.active > policy.active => now >= quiet
<1>1. call[w] \in Calls /\ Route(call[w]) /\ call[w].at = "wait" /\ ~ InFlight(w) /\ Today \in Nat
  BY TodayType DEF AdmissionInv, Types, RouteInv, Poll, InFlight
<1>2. ASSUME NEW n \in {"send", "pay"}
      PROVE  LET c == [call[w] EXCEPT !.at = "leave", !.next = n]
             IN  c \in Calls /\ c.at = "leave" /\ c.next = n /\ Route(c)
  BY <1>1 DEF Calls, Places, Route
<1>3. PICK found \in Lookups :
        LET p == found.policy
            admit == found.available /\ ~Overslept(w) /\ Admissible(p, w)
            stay  == found.available /\ ~Overslept(w) /\ ~Admissible(p, w) /\ ~NoPatience(p, w)
        IN  /\ left' = found.left
            /\ \/ /\ admit
                  /\ policy' = Admitted(p)
                  /\ Goto(w, [call[w] EXCEPT !.at = "leave", !.next = "send"])
               \/ /\ stay
                  /\ policy' = p
                  /\ Goto(w, [call[w] EXCEPT !.waited = TRUE])
               \/ /\ ~admit /\ ~stay
                  /\ policy' = p
                  /\ Goto(w, [call[w] EXCEPT !.at = "leave", !.next = "pay"])
  BY DEF Poll
<1> DEFINE p == found.policy
<1>4. /\ p \in Policies /\ p.active = policy.active /\ p.rateUntil = policy.rateUntil
      /\ found.left \in Int \cup {Unknown}
      /\ found.available => p.remaining \in Nat \ {0}
  BY LookupsKeep DEF AdmissionInv
<1>5. /\ now \in Nat /\ quiet \in Nat /\ UNCHANGED <<now, quiet>>
      /\ left' \in Int \cup {Unknown}
  BY <1>3, <1>4 DEF Poll, AdmissionInv, Types
<1> HIDE DEF p
<1>6. CASE /\ found.available /\ Admissible(p, w)
           /\ policy' = Admitted(p)
           /\ Goto(w, [call[w] EXCEPT !.at = "leave", !.next = "send"])
  <2> DEFINE c == [call[w] EXCEPT !.at = "leave", !.next = "send"]
  <2>1. c \in Calls /\ c.at = "leave" /\ c.next = "send" /\ Route(c)
    BY <1>1, <1>2
  <2> HIDE DEF c
  <2>2. Aloft(c)
    BY <2>1 DEF Aloft
  <2>3. /\ call' \in [Workers -> Calls] /\ RouteInv'
        /\ Cardinality(Flying)' = Cardinality(Flying) + 1
    BY <1>1, <1>6, <2>1, <2>2, Move DEF AdmissionInv, c
  <2>4. p.remaining - 1 \in Nat /\ now + Gap \in Nat /\ p.active + 1 \in Nat
    BY <1>4, <1>5, <1>6 DEF Policies
  <2>5. policy' \in Policies /\ policy'.active = policy.active + 1 /\ policy'.rateUntil = policy.rateUntil
    BY <1>4, <1>6, <2>4 DEF Admitted, Policies
  <2>6. p.active < MaxActive /\ ReadyAt(p) <= now
    BY <1>6 DEF Admissible
  <2>7. p.rateUntil <= now
    BY <1>4, <1>5, <2>6, LaterType DEF ReadyAt, Larger, Policies
  <2>8. policy'.active <= MaxActive
    BY <1>4, <2>5, <2>6 DEF Policies
  <2>9. quiet <= now
    BY <1>4, <1>5, <2>7 DEF AdmissionInv, DelayInv, Policies
  <2>10. policy'.active = Cardinality(Flying)'
    BY <2>3, <2>5 DEF AdmissionInv, SlotInv
  <2> QED
    BY <1>5, <2>3, <2>5, <2>8, <2>9, <2>10 DEF AdmissionInv, Types, DelayInv, SlotInv
<1>7. CASE policy' = p /\ Goto(w, [call[w] EXCEPT !.waited = TRUE])
  <2> DEFINE c == [call[w] EXCEPT !.waited = TRUE]
  <2>1. c \in Calls /\ Route(c) /\ ~ Aloft(c)
    BY <1>1 DEF Calls, Route, Aloft
  <2> HIDE DEF c
  <2>2. /\ call' \in [Workers -> Calls] /\ RouteInv'
        /\ Cardinality(Flying)' = Cardinality(Flying)
    BY <1>1, <1>7, <2>1, Move DEF AdmissionInv, c
  <2> QED
    BY <1>4, <1>5, <1>7, <2>2 DEF AdmissionInv, Types, DelayInv, SlotInv, Policies
<1>8. CASE policy' = p /\ Goto(w, [call[w] EXCEPT !.at = "leave", !.next = "pay"])
  <2> DEFINE c == [call[w] EXCEPT !.at = "leave", !.next = "pay"]
  <2>1. c \in Calls /\ Route(c) /\ ~ Aloft(c)
    BY <1>1 DEF Calls, Places, Route, Aloft
  <2> HIDE DEF c
  <2>2. /\ call' \in [Workers -> Calls] /\ RouteInv'
        /\ Cardinality(Flying)' = Cardinality(Flying)
    BY <1>1, <1>8, <2>1, Move DEF AdmissionInv, c
  <2> QED
    BY <1>4, <1>5, <1>8, <2>2 DEF AdmissionInv, Types, DelayInv, SlotInv, Policies
<1> QED
  BY <1>3, <1>6, <1>7, <1>8 DEF p

LEMMA TickStep ==
    ASSUME AdmissionInv, Tick \/ UNCHANGED vars
    PROVE  AdmissionInv'
<1>1. UNCHANGED <<policy, call, quiet>> /\ now' \in Nat /\ left' \in Int \cup {Unknown}
  BY DEF Tick, vars, AdmissionInv, Types
<1>2. Flying' = Flying
  BY <1>1 DEF Flying, InFlight
<1> QED
  BY <1>1, <1>2 DEF AdmissionInv, Types, RouteInv, DelayInv, SlotInv

LEMMA NextAdmission == AdmissionInv /\ [Next]_vars => AdmissionInv'
<1> SUFFICES ASSUME AdmissionInv, [Next]_vars
             PROVE  AdmissionInv'
  OBVIOUS
<1>1. ASSUME NEW w \in Workers, Proceed(w)
      PROVE  AdmissionInv'
  BY <1>1, JoinStep, PollStep, LeaveStep, AnswerStep, ReleaseStep, PauseStep, PayStep DEF Proceed
<1> QED
  BY <1>1, StartCallStep, ChargeStep, TickStep DEF Next

LEMMA AdmissionInvariant == Spec => []AdmissionInv
<1> QED
  BY InitAdmission, NextAdmission, PTL DEF Spec

--------------------------------------------------------------------------------
(* The theorems.                                                             *)

\* Every slot the policy counts belongs to a request in flight, whatever
\* answers, failures and midnights come between (release in the finally clause).
THEOREM SlotsAreAccounted == Spec => []SlotsAccounted
<1>1. AdmissionInv => SlotsAccounted
  BY DEF AdmissionInv, SlotInv, SlotsAccounted, Flying
<1> QED
  BY <1>1, AdmissionInvariant, PTL

\* The requests in flight never exceed max_in_flight_per_model.
ConcurrencyKept == Cardinality({w \in Workers : InFlight(w)}) <= MaxActive

THEOREM ConcurrencyIsKept == Spec => []ConcurrencyKept
<1>1. AdmissionInv => ConcurrencyKept
  BY DEF AdmissionInv, SlotInv, ConcurrencyKept, Flying
<1> QED
  BY <1>1, AdmissionInvariant, PTL

\* No worker is admitted before the longest delay any 429 has asked for.
THEOREM RateLimitHonoured == Spec => HonoursRateLimit
<1> DEFINE Patient == policy'.active > policy.active => now >= quiet
<1>1. AdmissionInv /\ [Next]_vars => [Patient]_vars
  <2> SUFFICES ASSUME AdmissionInv, Next
               PROVE  Patient
    OBVIOUS
  <2>1. policy.active \in Nat
    BY DEF AdmissionInv, Types, Policies
  <2>2. ASSUME NEW w \in Workers, Answer(w)
        PROVE  policy'.active = policy.active
    BY <2>2 DEF Answer, Succeed, TryAgain, CoolDown, RateLimited, AdmissionInv, Types, Policies
  <2>3. ASSUME NEW w \in Workers, Release(w)
        PROVE  policy'.active = policy.active - 1
    BY <2>3 DEF Release, Freed, AdmissionInv, Types, Policies
  <2>4. ASSUME NEW w \in Workers,
               Join(w) \/ Leave(w) \/ Pause(w) \/ Pay(w) \/ StartCall(w) \/ Charge(w)
        PROVE  policy' = policy
    BY <2>4 DEF Join, Leave, Pause, Pay, StartCall, Charge
  <2>5. Tick => policy' = policy
    BY DEF Tick
  <2> QED
    BY <2>1, <2>2, <2>3, <2>4, <2>5, PollStep DEF Next, Proceed
<1> QED
  BY <1>1, AdmissionInvariant, PTL DEF Spec, HonoursRateLimit

--------------------------------------------------------------------------------
(* The daily quota.                                                          *)

\* Requests in flight that the provider may still charge.
Open(c) == Aloft(c) /\ ~ c.charged

\* Once a count of today is known, what the policy may still admit and what is
\* in flight fit every report of the day together.
Covered(p, least) ==
    /\ p.day <= Today
    /\ least # Unknown <=> p.day = Today /\ p.remaining # Unknown
    /\ least # Unknown => p.remaining = 0 \/ p.remaining + Cardinality(Unsettled) <= least

CoverInv == Covered(policy, left)

\* Midnight begins a later day, and no other second does.
LEMMA DayChange ==
    ASSUME now \in Nat, now' = now + 1
    PROVE  /\ Today \in Nat /\ Today' \in Nat
           /\ now' % DayLength # 0 => Today' = Today
           /\ now' % DayLength = 0 => Today' > Today
<1>2. now \in Nat /\ DayLength \in Nat \ {0}
  OBVIOUS
<1> HIDE FreeAdmissionAssumption
<1>1. ASSUME NEW n \in Nat, NEW D \in Nat \ {0}
      PROVE  /\ n \div D \in Nat
             /\ (n + 1) % D # 0 => (n + 1) \div D = n \div D
             /\ (n + 1) % D = 0 => (n + 1) \div D > n \div D
  <2>1. n \div D \in Nat
    OBVIOUS
  <2>2. (n + 1) % D # 0 => (n + 1) \div D = n \div D
    OBVIOUS
  <2>3. (n + 1) % D = 0 => (n + 1) \div D > n \div D
    OBVIOUS
  <2> QED
    BY <2>1, <2>2, <2>3
<1>3. /\ now \div DayLength \in Nat
      /\ (now + 1) % DayLength # 0 => (now + 1) \div DayLength = now \div DayLength
      /\ (now + 1) % DayLength = 0 => (now + 1) \div DayLength > now \div DayLength
  BY <1>1, <1>2, Zenon
<1>4. (now + 1) \div DayLength \in Nat
  BY <1>1, <1>2
<1> QED
  BY <1>3, <1>4 DEF Today

\* A set that gains or loses at most one element.
LEMMA Tally ==
    ASSUME NEW S, NEW T, NEW x, IsFiniteSet(S), S \ {x} = T \ {x}
    PROVE  /\ Cardinality(S) \in Nat /\ Cardinality(T) \in Nat
           /\ (x \in S <=> x \in T) => Cardinality(T) = Cardinality(S)
           /\ x \in T /\ x \notin S => Cardinality(T) = Cardinality(S) + 1
           /\ x \in S /\ x \notin T => Cardinality(T) = Cardinality(S) - 1
<1>1. Cardinality(S) \in Nat
  BY FS_CardinalityType
<1>2. CASE x \in S <=> x \in T
  <2>1. S = T
    BY <1>2
  <2> QED
    BY <1>1, <1>2, <2>1
<1>3. CASE x \in T /\ x \notin S
  <2>1. T = S \cup {x}
    BY <1>3
  <2>2. Cardinality(T) = Cardinality(S) + 1
    BY <1>3, <2>1, FS_AddElement
  <2> QED
    BY <1>1, <1>3, <2>2
<1>4. CASE x \in S /\ x \notin T
  <2>1. T = S \ {x}
    BY <1>4
  <2>2. Cardinality(T) = Cardinality(S) - 1 /\ IsFiniteSet(T)
    BY <1>4, <2>1, FS_RemoveElement
  <2>3. Cardinality(T) \in Nat
    BY <2>2, FS_CardinalityType
  <2> QED
    BY <1>1, <1>4, <2>2, <2>3
<1> QED
  BY <1>2, <1>3, <1>4

\* A step of one worker, and what it does to the number of these requests.
LEMMA OpenMove ==
    ASSUME Types, NEW w \in Workers, NEW c \in Calls, Goto(w, c)
    PROVE  /\ Cardinality(Unsettled) \in Nat /\ Cardinality(Unsettled)' \in Nat
           /\ Cardinality(Unsettled)' <= Cardinality(Unsettled) + 1
           /\ (Open(c) => Open(call[w])) => Cardinality(Unsettled)' <= Cardinality(Unsettled)
           /\ Open(call[w]) /\ ~ Open(c) => Cardinality(Unsettled)' = Cardinality(Unsettled) - 1
<1>1. /\ call'[w] = c
      /\ \A v \in Workers \ {w} : call'[v] = call[v]
  BY DEF Goto, Types
<1>2. /\ w \in Unsettled' <=> Open(c)
      /\ w \in Unsettled <=> Open(call[w])
      /\ Unsettled \ {w} = Unsettled' \ {w}
  BY <1>1 DEF Unsettled, InFlight, Open, Aloft
<1>3. IsFiniteSet(Unsettled)
  BY FS_Subset DEF Unsettled
<1>4. /\ Cardinality(Unsettled) \in Nat /\ Cardinality(Unsettled') \in Nat
      /\ (w \in Unsettled <=> w \in Unsettled') => Cardinality(Unsettled') = Cardinality(Unsettled)
      /\ w \in Unsettled' /\ w \notin Unsettled => Cardinality(Unsettled') = Cardinality(Unsettled) + 1
      /\ w \in Unsettled /\ w \notin Unsettled' => Cardinality(Unsettled') = Cardinality(Unsettled) - 1
  BY <1>2, <1>3, Tally
<1>5. CASE Open(c) <=> Open(call[w])
  BY <1>2, <1>4, <1>5
<1>6. CASE Open(c) /\ ~ Open(call[w])
  BY <1>2, <1>4, <1>6
<1>7. CASE Open(call[w]) /\ ~ Open(c)
  BY <1>2, <1>4, <1>7
<1> QED
  BY <1>5, <1>6, <1>7

\* They are among the requests that hold a slot.
LEMMA UnsettledHoldSlots ==
    ASSUME AdmissionInv
    PROVE  /\ Cardinality(Unsettled) \in Nat
           /\ Cardinality(Unsettled) <= policy.active
<1>1. Unsettled \in SUBSET Flying
  BY DEF Unsettled, Flying
<1>2. IsFiniteSet(Flying)
  BY FS_Subset DEF Flying
<1>3. IsFiniteSet(Unsettled) /\ Cardinality(Unsettled) <= Cardinality(Flying)
  <2>1. ASSUME NEW S, IsFiniteSet(S), NEW T \in SUBSET S
        PROVE  IsFiniteSet(T) /\ Cardinality(T) <= Cardinality(S)
    BY <2>1, FS_Subset
  <2> QED
    BY <1>1, <1>2, <2>1
<1> QED
  BY <1>3, FS_CardinalityType DEF AdmissionInv, SlotInv

\* A refresh admits no more than its report leaves to the requests in flight,
\* nor more than was known; one that fails changes nothing.
LEMMA LookupsCover ==
    ASSUME AdmissionInv, CoverInv, NEW found \in Lookups
    PROVE  /\ Covered(found.policy, found.left)
           /\ found.available => found.policy.day = Today /\ found.policy.remaining \in Nat \ {0}
<1>1. /\ Types
      /\ now \in Nat /\ Today \in Nat /\ policy \in Policies /\ left \in Int \cup {Unknown}
      /\ now + TTL \in Nat
  BY TodayType DEF AdmissionInv, Types
<1>2. Cardinality(Unsettled) \in Nat /\ Cardinality(Unsettled) <= policy.active
  BY UnsettledHoldSlots
<1>3. ASSUME NEW c \in AfterCatalog(policy)
      PROVE  /\ c \in Policies /\ c.active = policy.active
             /\ c.day = policy.day /\ c.remaining = policy.remaining
  <2>1. CASE c = policy
    BY <1>1, <2>1
  <2>2. CASE \E o \in BOOLEAN : c = [policy EXCEPT !.offered = o, !.offeredUntil = now + TTL]
    <3>1. PICK o \in BOOLEAN : c = [policy EXCEPT !.offered = o, !.offeredUntil = now + TTL]
      BY <2>2
    <3> QED
      BY <1>1, <3>1 DEF Policies
  <2> QED
    BY <2>1, <2>2 DEF AfterCatalog
<1>4. ASSUME NEW c \in AfterCatalog(policy)
      PROVE  Covered(c, left)
  BY <1>3, <1>4 DEF CoverInv, Covered
<1>5. ASSUME NEW c \in AfterCatalog(policy), NEW f \in AfterQuota(c)
      PROVE  Covered(f.policy, f.left) /\ f.policy.day = Today /\ f.policy \in Policies
  <2>1. CASE f = [policy |-> c, left |-> left] /\ Today = c.day
    BY <1>3, <1>4, <2>1
  <2>2. CASE ~ (now < c.quotaUntil /\ Today = c.day)
    <3> DEFINE known == IF Today = c.day THEN c.remaining ELSE Unknown
    <3>0. c \in Policies /\ Types
      BY <1>1, <1>3
    <3>1. /\ known \in Nat \cup {Unknown}
          /\ left # Unknown <=> known # Unknown
          /\ left # Unknown => known = 0 \/ known + Cardinality(Unsettled) <= left
      BY <1>3, <1>4 DEF Policies, Covered
    <3>2. \/ f = [policy |-> Checked(c, known, FALSE), left |-> left]
          \/ \E r \in Reports : f = [policy |-> Checked(c, Remaining(c, r, known), TRUE), left |-> Least(r)]
      BY <2>2, <1>5, Zenon DEF AfterQuota
    <3> HIDE DEF known
    <3>3. CASE f = [policy |-> Checked(c, known, FALSE), left |-> left]
      <4>1. /\ f.policy \in Policies /\ f.policy.remaining = known /\ f.policy.day = Today
            /\ f.left = left
        BY <3>0, <3>1, <3>3, CheckedKeeps
      <4> QED
        BY <1>1, <3>1, <4>1 DEF Covered
    <3>4. CASE \E r \in Reports : f = [policy |-> Checked(c, Remaining(c, r, known), TRUE), left |-> Least(r)]
      <4>1. PICK r \in Reports : f = [policy |-> Checked(c, Remaining(c, r, known), TRUE), left |-> Least(r)]
        BY <3>4
      <4> DEFINE count == Remaining(c, r, known)
      <4>2. r \in Nat /\ c.active \in Nat /\ c.active = policy.active
        BY <1>3 DEF Reports, Policies
      <4>3. /\ count \in Nat
            /\ count = 0 \/ count + Cardinality(Unsettled) <= r
            /\ known # Unknown => count <= known
        BY <1>2, <3>1, <4>2 DEF Remaining, Smaller
      <4>4. Least(r) \in Int /\ Least(r) # Unknown
        BY <1>1, <4>2 DEF Least, Smaller
      <4> HIDE DEF count
      <4>5. count = 0 \/ count + Cardinality(Unsettled) <= Least(r)
        <5>1. CASE left = Unknown
          BY <4>2, <4>3, <5>1 DEF Least
        <5>2. CASE left # Unknown
          <6>1. left \in Int /\ Least(r) = IF left <= r THEN left ELSE r
            BY <1>1, <5>2 DEF Least, Smaller
          <6>2. CASE known # Unknown
            BY <1>2, <3>1, <4>2, <4>3, <6>1, <6>2
          <6>3. CASE known = Unknown
            BY <3>1, <5>2, <6>3
          <6> QED
            BY <6>2, <6>3
        <5> QED
          BY <5>1, <5>2
      <4>6. /\ f.policy \in Policies /\ f.policy.remaining = count /\ f.policy.day = Today
            /\ f.left = Least(r)
        BY <3>0, <4>1, <4>3, CheckedKeeps DEF count
      <4>7. count # Unknown
        BY <4>3
      <4> QED
        BY <1>1, <4>4, <4>5, <4>6, <4>7 DEF Covered
    <3> QED
      BY <3>2, <3>3, <3>4
  <2> QED
    BY <2>1, <2>2, <1>5 DEF AfterQuota
<1>6. CASE found = [policy |-> policy, left |-> left, available |-> FALSE]
  BY <1>6 DEF CoverInv
<1>7. CASE \E c \in AfterCatalog(policy) : ~ c.offered /\
              found = [policy |-> c, left |-> left, available |-> Usable(c)]
  <2>1. PICK c \in AfterCatalog(policy) : ~ c.offered /\
              found = [policy |-> c, left |-> left, available |-> Usable(c)]
    BY <1>7
  <2>2. ~ found.available /\ found.policy = c /\ found.left = left
    BY <2>1 DEF Usable
  <2> QED
    BY <1>4, <2>2
<1>8. CASE \E c \in AfterCatalog(policy) : \E f \in AfterQuota(c) :
              found = [policy |-> f.policy, left |-> f.left, available |-> Usable(f.policy)]
  <2>0. PICK c \in AfterCatalog(policy) : \E f \in AfterQuota(c) :
              found = [policy |-> f.policy, left |-> f.left, available |-> Usable(f.policy)]
    BY <1>8
  <2>1. PICK f \in AfterQuota(c) :
              found = [policy |-> f.policy, left |-> f.left, available |-> Usable(f.policy)]
    BY <2>0
  <2>2. Covered(f.policy, f.left) /\ f.policy.day = Today /\ f.policy \in Policies
    BY <1>5
  <2> QED
    BY <2>1, <2>2 DEF Usable, Policies
<1> QED
  BY <1>6, <1>7, <1>8, LookupsCases

--------------------------------------------------------------------------------
\* Every action keeps what the policy may still admit within the reports.
LEMMA InitCover == Init => CoverInv
<1> SUFFICES ASSUME Init PROVE CoverInv
  OBVIOUS
<1>1. Today \in Nat
  BY TodayType DEF Init
<1> QED
  BY <1>1 DEF Init, CoverInv, Covered

\* Midnight makes every report and count one of an earlier day.
LEMMA TickCover ==
    ASSUME AdmissionInv, CoverInv, Tick
    PROVE  CoverInv'
<1>1. /\ Today \in Nat /\ Today' \in Nat /\ policy.day \in Nat
      /\ now' % DayLength # 0 => Today' = Today
      /\ now' % DayLength = 0 => Today' > Today
  BY DayChange DEF Tick, AdmissionInv, Types, Policies
<1>2. UNCHANGED <<policy, call>> /\ left' = IF now' % DayLength = 0 THEN Unknown ELSE left
  BY DEF Tick
<1>3. Unsettled' = Unsettled
  BY <1>2 DEF Unsettled, InFlight
<1>4. CASE now' % DayLength = 0
  BY <1>1, <1>2, <1>4 DEF CoverInv, Covered
<1>5. CASE now' % DayLength # 0
  BY <1>1, <1>2, <1>3, <1>5 DEF CoverInv, Covered
<1> QED
  BY <1>4, <1>5

\* Steps that put no request in flight and leave the counts alone.
LEMMA KeepCover ==
    ASSUME AdmissionInv, CoverInv, NEW w \in Workers, NEW c \in Calls, Goto(w, c),
           Open(c) => Open(call[w]),
           UNCHANGED <<now, left>>,
           policy'.day = policy.day, policy'.remaining = policy.remaining
    PROVE  CoverInv'
<1>1. /\ Cardinality(Unsettled) \in Nat /\ Cardinality(Unsettled)' \in Nat
      /\ Cardinality(Unsettled)' <= Cardinality(Unsettled)
  BY OpenMove DEF AdmissionInv
<1>2. Today' = Today /\ policy \in Policies /\ left \in Int \cup {Unknown}
  BY DEF Today, AdmissionInv, Types
<1>3. policy.remaining \in Nat \cup {Unknown}
  BY <1>2 DEF Policies
<1> QED
  BY <1>1, <1>2, <1>3 DEF CoverInv, Covered

\* A charge takes the same request off the reports and off those in flight.
LEMMA ChargeCover ==
    ASSUME AdmissionInv, CoverInv, NEW w \in Workers, Charge(w)
    PROVE  CoverInv'
<1> DEFINE c == [call[w] EXCEPT !.charged = TRUE]
<1>1. call[w] \in Calls /\ call[w].at = "send" /\ ~ call[w].charged
  BY DEF Charge, AdmissionInv, Types
<1>2. c \in Calls /\ Open(call[w]) /\ ~ Open(c)
  BY <1>1 DEF Calls, Open, Aloft
<1>3. Goto(w, c) /\ UNCHANGED <<now, policy>>
      /\ left' = IF left = Unknown THEN Unknown ELSE left - 1
  BY DEF Charge
<1> HIDE DEF c
<1>4. /\ Cardinality(Unsettled) \in Nat
      /\ Cardinality(Unsettled)' = Cardinality(Unsettled) - 1
  BY <1>2, <1>3, OpenMove DEF AdmissionInv
<1>5. Today' = Today /\ policy \in Policies /\ left \in Int \cup {Unknown}
  BY <1>3 DEF Today, AdmissionInv, Types
<1>6. policy.remaining \in Nat \cup {Unknown}
  BY <1>5 DEF Policies
<1> QED
  BY <1>3, <1>4, <1>5, <1>6 DEF CoverInv, Covered

LEMMA AnswerCover ==
    ASSUME AdmissionInv, CoverInv, NEW w \in Workers, Answer(w)
    PROVE  CoverInv'
<1>1. call[w] \in Calls /\ policy \in Policies
  BY DEF AdmissionInv, Types
<1>2. policy'.day = policy.day /\ policy'.remaining = policy.remaining
  BY <1>1 DEF Answer, Succeed, TryAgain, CoolDown, RateLimited, Policies
<1>3. PICK n \in {"idle", "pause", "pay", "join"} : Answered(w, n)
  BY DEF Answer, Succeed, TryAgain, CoolDown, RateLimited
<1> DEFINE c == [call[w] EXCEPT !.at = "release", !.next = n]
<1>4. c \in Calls /\ c.charged = call[w].charged
  BY <1>1 DEF Calls, Places
<1>5. call[w].at = "send" /\ Goto(w, c) /\ UNCHANGED <<now, left>>
  BY <1>3 DEF Answered
<1> HIDE DEF c
<1>6. Open(c) => Open(call[w])
  BY <1>4, <1>5 DEF Open, Aloft
<1> QED
  BY <1>2, <1>4, <1>5, <1>6, KeepCover

LEMMA ReleaseCover ==
    ASSUME AdmissionInv, CoverInv, NEW w \in Workers, Release(w)
    PROVE  CoverInv'
<1> DEFINE c == IF call[w].next = "idle" THEN Idle
                ELSE [call[w] EXCEPT !.at = call[w].next, !.next = "idle", !.charged = FALSE,
                                     !.attempt = NextAttempt(w)]
<1>1. call[w] \in Calls /\ Route(call[w]) /\ call[w].at = "release" /\ policy \in Policies
  BY DEF AdmissionInv, Types, RouteInv, Release
<1>2. NextAttempt(w) \in 1 .. MaxAttempts
  BY <1>1 DEF NextAttempt, Route, Calls
<1>3. c \in Calls /\ ~ Open(c)
  <2>1. CASE call[w].next = "idle"
    BY <2>1 DEF Idle, Calls, Places, Open, Aloft
  <2>2. CASE call[w].next # "idle"
    <3>1. call[w].next \in {"pause", "join", "pay"}
      BY <1>1, <2>2 DEF Route
    <3> QED
      BY <1>1, <1>2, <2>2, <3>1 DEF Calls, Places, Open, Aloft
  <2> QED
    BY <2>1, <2>2
<1>4. /\ Goto(w, c) /\ UNCHANGED <<now, left>>
      /\ policy'.day = policy.day /\ policy'.remaining = policy.remaining
  BY <1>1 DEF Release, Policies
<1> HIDE DEF c
<1> QED
  BY <1>3, <1>4, KeepCover

\* Moves through the queue and between attempts.
LEMMA QueueCover ==
    ASSUME AdmissionInv, CoverInv, NEW w \in Workers,
           Join(w) \/ Leave(w) \/ StartCall(w) \/ Pause(w) \/ Pay(w)
    PROVE  CoverInv'
<1>1. call[w] \in Calls /\ Route(call[w]) /\ now + MaxWait \in Nat
  BY DEF AdmissionInv, Types, RouteInv
<1>2. Idle \in Calls /\ ~ Open(Idle)
  BY DEF Idle, Calls, Places, Open, Aloft
<1>3. PICK c \in Calls : Goto(w, c) /\ (Open(c) => Open(call[w]))
  <2>1. CASE Join(w)
    <3>1. [call[w] EXCEPT !.at = "wait", !.waited = FALSE] \in Calls
      BY <1>1 DEF Calls, Places
    <3> QED
      BY <1>1, <2>1, <3>1 DEF Join, Calls, Open, Aloft
  <2>2. CASE Leave(w)
    <3> DEFINE c == [call[w] EXCEPT !.at = call[w].next, !.waited = FALSE]
    <3>1. c \in Calls /\ call[w].next \in {"send", "pay"} /\ call[w].at = "leave"
          /\ c.at = call[w].next /\ c.charged = call[w].charged
      BY <1>1, <2>2 DEF Leave, Route, Calls, Places
    <3>2. Goto(w, c)
      BY <2>2 DEF Leave
    <3> HIDE DEF c
    <3>3. Open(c) => Open(call[w])
      BY <3>1 DEF Open, Aloft
    <3> QED
      BY <3>1, <3>2, <3>3
  <2>3. CASE StartCall(w)
    <3> DEFINE c == [Idle EXCEPT !.at = "join", !.deadline = now + MaxWait]
    <3>1. c \in Calls /\ c.at = "join"
      BY <1>1, <1>2 DEF Calls, Places
    <3>2. Goto(w, c)
      BY <2>3 DEF StartCall
    <3> HIDE DEF c
    <3> QED
      BY <3>1, <3>2 DEF Open, Aloft
  <2>4. CASE Pause(w)
    <3> DEFINE c == [call[w] EXCEPT !.at = "join", !.attempt = @ + 1]
    <3>1. call[w].attempt + 1 \in 1 .. MaxAttempts
      BY <1>1, <2>4 DEF Pause, Route, Calls
    <3>2. c \in Calls /\ c.at = "join" /\ call[w].next = c.next
      BY <1>1, <3>1 DEF Calls, Places
    <3>3. Goto(w, c)
      BY <2>4 DEF Pause
    <3> HIDE DEF c
    <3> QED
      BY <3>2, <3>3 DEF Open, Aloft
  <2>5. CASE Pay(w)
    BY <1>2, <2>5 DEF Pay
  <2> QED
    BY <2>1, <2>2, <2>3, <2>4, <2>5
<1>4. UNCHANGED <<now, left, policy>>
  BY DEF Join, Leave, StartCall, Pause, Pay
<1> QED
  BY <1>3, <1>4, KeepCover

\* An admission moves one request from those the policy may still admit to
\* those in flight, so every report of the day has room for them.
LEMMA PollCover ==
    ASSUME AdmissionInv, CoverInv, NEW w \in Workers, Poll(w)
    PROVE  /\ CoverInv'
           /\ policy'.active > policy.active => left' # Unknown /\ Cardinality(Unsettled') <= left'
<1>1. call[w] \in Calls /\ call[w].at = "wait" /\ ~ Open(call[w]) /\ Today' = Today
  BY DEF AdmissionInv, Types, Poll, Open, Aloft, Today
<1>2. PICK found \in Lookups :
        LET p == found.policy
            admit == found.available /\ ~Overslept(w) /\ Admissible(p, w)
            stay  == found.available /\ ~Overslept(w) /\ ~Admissible(p, w) /\ ~NoPatience(p, w)
        IN  /\ left' = found.left
            /\ \/ /\ admit
                  /\ policy' = Admitted(p)
                  /\ Goto(w, [call[w] EXCEPT !.at = "leave", !.next = "send"])
               \/ /\ stay
                  /\ policy' = p
                  /\ Goto(w, [call[w] EXCEPT !.waited = TRUE])
               \/ /\ ~admit /\ ~stay
                  /\ policy' = p
                  /\ Goto(w, [call[w] EXCEPT !.at = "leave", !.next = "pay"])
  BY DEF Poll
<1> DEFINE p == found.policy
<1>3. /\ p \in Policies /\ p.active = policy.active
      /\ left' \in Int \cup {Unknown}
  BY <1>2, LookupsKeep DEF AdmissionInv
<1>4. /\ Covered(p, left')
      /\ found.available => p.day = Today /\ p.remaining \in Nat \ {0}
  BY <1>2, LookupsCover
<1> HIDE DEF p
<1>5. CASE /\ found.available
           /\ policy' = Admitted(p)
           /\ Goto(w, [call[w] EXCEPT !.at = "leave", !.next = "send"])
  <2>1. [call[w] EXCEPT !.at = "leave", !.next = "send"] \in Calls
    BY <1>1 DEF Calls, Places
  <2>2. /\ Cardinality(Unsettled) \in Nat /\ Cardinality(Unsettled)' \in Nat
        /\ Cardinality(Unsettled)' <= Cardinality(Unsettled) + 1
    BY <1>5, <2>1, OpenMove DEF AdmissionInv
  <2>3. p.day = Today /\ p.remaining \in Nat /\ p.remaining # 0 /\ p.remaining # Unknown
    BY <1>4, <1>5
  <2>4. left' \in Int /\ left' # Unknown /\ p.remaining + Cardinality(Unsettled) <= left'
    BY <1>3, <1>4, <2>3 DEF Covered
  <2>5. policy'.day = Today /\ policy'.remaining = p.remaining - 1
    BY <1>3, <1>5, <2>3 DEF Admitted, Policies
  <2>6. p.remaining - 1 \in Nat /\ p.remaining - 1 # Unknown /\ Today <= Today
    <3>1. Today \in Nat
      BY TodayType DEF AdmissionInv, Types
    <3>2. p.remaining - 1 \in Nat
      BY <2>3
    <3> QED
      BY <3>1, <3>2
  <2>7. Cardinality(Unsettled') <= left'
    BY <2>2, <2>3, <2>4
  <2>8. policy'.remaining + Cardinality(Unsettled)' <= left'
    BY <2>2, <2>3, <2>4, <2>5
  <2>9. CoverInv'
    BY <1>1, <2>4, <2>5, <2>6, <2>8 DEF CoverInv, Covered
  <2> QED
    BY <2>4, <2>7, <2>9
<1>6. ASSUME NEW c \in Calls, ~ Open(c), policy' = p, Goto(w, c)
      PROVE  CoverInv' /\ ~ (policy'.active > policy.active)
  <2>1. /\ Cardinality(Unsettled) \in Nat /\ Cardinality(Unsettled)' \in Nat
        /\ Cardinality(Unsettled)' <= Cardinality(Unsettled)
    BY <1>6, OpenMove DEF AdmissionInv
  <2>2. p.remaining \in Nat \cup {Unknown} /\ p.active \in Nat
    BY <1>3 DEF Policies
  <2>3. ~ (policy'.active > policy.active)
    BY <1>3, <1>6, <2>2
  <2>4. left' # Unknown => policy'.remaining = 0 \/ policy'.remaining + Cardinality(Unsettled)' <= left'
    BY <1>3, <1>4, <1>6, <2>1, <2>2 DEF Covered
  <2> QED
    BY <1>1, <1>4, <1>6, <2>3, <2>4 DEF CoverInv, Covered
<1>7. CASE policy' = p /\ Goto(w, [call[w] EXCEPT !.waited = TRUE])
  <2>1. [call[w] EXCEPT !.waited = TRUE] \in Calls /\ ~ Open([call[w] EXCEPT !.waited = TRUE])
    BY <1>1 DEF Calls, Open, Aloft
  <2> QED
    BY <1>6, <1>7, <2>1
<1>8. CASE policy' = p /\ Goto(w, [call[w] EXCEPT !.at = "leave", !.next = "pay"])
  <2> DEFINE c == [call[w] EXCEPT !.at = "leave", !.next = "pay"]
  <2>1. c \in Calls /\ ~ Open(c)
    BY <1>1 DEF Calls, Places, Open, Aloft
  <2> QED
    BY <1>6, <1>8, <2>1
<1> QED
  BY <1>2, <1>5, <1>7, <1>8 DEF p

LEMMA NextCover == AdmissionInv /\ CoverInv /\ [Next]_vars => CoverInv'
<1> SUFFICES ASSUME AdmissionInv, CoverInv, [Next]_vars
             PROVE  CoverInv'
  OBVIOUS
<1>1. ASSUME NEW w \in Workers, Proceed(w)
      PROVE  CoverInv'
  BY <1>1, QueueCover, PollCover, AnswerCover, ReleaseCover DEF Proceed
<1>2. CASE UNCHANGED vars
  BY <1>2 DEF vars, CoverInv, Covered, Unsettled, InFlight, Today
<1> QED
  BY <1>1, <1>2, QueueCover, ChargeCover, TickCover DEF Next

\* No request is admitted that some report of the day, less the requests
\* charged since, does not cover together with the other requests in flight and
\* not charged: whatever the counter reports and whenever (_refresh_quota).
THEOREM ReportsAreCovered == Spec => ReportsCover
<1> DEFINE Covering == policy'.active > policy.active =>
                          left' # Unknown /\ Cardinality(Unsettled') <= left'
<1>1. AdmissionInv /\ CoverInv /\ [Next]_vars => [Covering]_vars
  <2> SUFFICES ASSUME AdmissionInv, CoverInv, Next
               PROVE  Covering
    OBVIOUS
  <2>1. policy.active \in Nat
    BY DEF AdmissionInv, Types, Policies
  <2>2. ASSUME NEW w \in Workers, Answer(w)
        PROVE  policy'.active = policy.active
    BY <2>2 DEF Answer, Succeed, TryAgain, CoolDown, RateLimited, AdmissionInv, Types, Policies
  <2>3. ASSUME NEW w \in Workers, Release(w)
        PROVE  policy'.active = policy.active - 1
    BY <2>3 DEF Release, Freed, AdmissionInv, Types, Policies
  <2>4. ASSUME NEW w \in Workers,
               Join(w) \/ Leave(w) \/ Pause(w) \/ Pay(w) \/ StartCall(w) \/ Charge(w)
        PROVE  policy' = policy
    BY <2>4 DEF Join, Leave, Pause, Pay, StartCall, Charge
  <2>5. Tick => policy' = policy
    BY DEF Tick
  <2> QED
    BY <2>1, <2>2, <2>3, <2>4, <2>5, PollCover DEF Next, Proceed
<1>2. Init => AdmissionInv /\ CoverInv
  BY InitAdmission, InitCover
<1>3. AdmissionInv /\ CoverInv /\ [Next]_vars => (AdmissionInv /\ CoverInv)'
  BY NextAdmission, NextCover
<1> QED
  BY <1>1, <1>2, <1>3, PTL DEF Spec, ReportsCover

================================================================================
