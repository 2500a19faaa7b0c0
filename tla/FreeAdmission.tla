----------------------------- MODULE FreeAdmission -----------------------------
(***************************************************************************)
(* pipeline/free_routing.py: how the worker threads of a stage share the   *)
(* zero-priced model.  FreeModelPolicy admits one request at a time, in    *)
(* the order in which workers queued, within the account's daily quota,    *)
(* the pacing, the concurrency limit and the cooldowns; a worker that is   *)
(* not admitted before its deadline pays for the fallback.                 *)
(*                                                                         *)
(* Every `with self._lock` block is one action.  The provider charges a    *)
(* request to the quota at some moment while it is in flight, or never.    *)
(* Nothing is assumed of the counter that the code asks: it may report any *)
(* number of requests, whatever it has charged or reported before.         *)
(***************************************************************************)
EXTENDS Integers, Sequences, FiniteSets

CONSTANTS
    Workers,      \* the threads
    Limit,        \* bound: the largest number of requests the counter reports
    MaxActive,    \* max_in_flight_per_model
    MaxAttempts,  \* max_attempts of a call
    Gap,          \* 60 / rpm and the margin
    TTL,          \* metadata_ttl_seconds
    RateRetry,    \* rate_limit_retry_seconds
    CoolTime,     \* cooldown_seconds
    Delays,       \* Retry-After values the provider sends, 0 for none
    MaxWait,      \* max_wait_seconds: the budget of a call
    DayLength,    \* the UTC day
    Unknown,      \* a remaining count that is not known
    MaxNow        \* bound on the clock

ASSUME FreeAdmissionAssumption ==
    /\ IsFiniteSet(Workers)
    /\ Limit \in Nat /\ MaxActive \in Nat /\ MaxAttempts \in Nat \ {0}
    /\ Gap \in Nat /\ TTL \in Nat /\ RateRetry \in Nat /\ CoolTime \in Nat
    /\ Delays \subseteq Nat
    /\ MaxWait \in Nat /\ DayLength \in Nat \ {0} /\ MaxNow \in Nat
    /\ Unknown \notin Int

VARIABLES
    now,        \* the clock
    policy,     \* the state of FreeModelPolicy for the model
    queue,      \* tickets, one per worker
    call,       \* call[w]: where worker w is in generate_json
    left,       \* history: the least that any report of this day has left, the
                \* requests charged since then taken off
    quiet       \* history: the latest time any 429 asked to wait for

vars == <<now, policy, queue, call, left, quiet>>

Today == now \div DayLength
Larger(a, b) == IF a >= b THEN a ELSE b
Smaller(a, b) == IF a <= b THEN a ELSE b

Policies ==
    [offered : BOOLEAN, offeredUntil : Nat,
     remaining : Nat \cup {Unknown}, valid : BOOLEAN, day : Nat, quotaUntil : Nat,
     active : Nat, cooldown : Nat, rateUntil : Nat, nextAt : Nat]

Places == {"idle", "join", "wait", "leave", "send", "release", "pause", "pay"}
Calls == [at : Places, next : Places,
          deadline : Nat, attempt : 1 .. MaxAttempts, waited : BOOLEAN,
          charged : BOOLEAN]  \* the provider has charged the request

Idle == [at |-> "idle", next |-> "idle", deadline |-> 0, attempt |-> 1, waited |-> FALSE,
         charged |-> FALSE]

TypeOK ==
    /\ now \in 0 .. MaxNow
    /\ policy \in Policies
    /\ queue \in Seq(Workers)
    /\ call \in [Workers -> Calls]
    /\ left \in Int \cup {Unknown}
    /\ quiet \in Nat

Init ==
    /\ now = 0
    /\ policy = [offered |-> FALSE, offeredUntil |-> 0,
                 remaining |-> Unknown, valid |-> FALSE, day |-> 0, quotaUntil |-> 0,
                 active |-> 0, cooldown |-> 0, rateUntil |-> 0, nextAt |-> 0]
    /\ queue = <<>>
    /\ call = [w \in Workers |-> Idle]
    /\ left = Unknown
    /\ quiet = 0

Tick ==
    /\ now < MaxNow
    /\ now' = now + 1
    /\ left' = IF now' % DayLength = 0 THEN Unknown ELSE left
    /\ UNCHANGED <<policy, queue, call, quiet>>

-----------------------------------------------------------------------------
(* FreeModelPolicy: what a poll finds.                                     *)

\* _refresh_catalog: the model may be missing, priced, or the request fail.
AfterCatalog(p) ==
    IF now < p.offeredUntil THEN {p}
    ELSE {[p EXCEPT !.offered = o, !.offeredUntil = now + TTL] : o \in BOOLEAN}

\* Other processes use the account too, and the counter may lag or jump.
Reports == 0 .. Limit

TrustCounter(p, report, known) == report
\* In-flight requests may not be counted yet; a slot consumed here is not
\* restored by a delayed counter.
Remaining(p, report, known) ==
    LET free == IF report > p.active THEN report - p.active ELSE 0
    IN  IF known = Unknown THEN free ELSE Smaller(free, known)

Least(report) == IF left = Unknown THEN report ELSE Smaller(left, report)

Checked(p, count, valid) ==
    [p EXCEPT !.remaining = count, !.valid = valid, !.day = Today, !.quotaUntil = now + TTL]

\* _refresh_quota: the policy after it, and what today's reports have left.
AfterQuota(p) ==
    IF now < p.quotaUntil /\ Today = p.day THEN {[policy |-> p, left |-> left]}
    ELSE LET known == IF Today = p.day THEN p.remaining ELSE Unknown
         IN  {[policy |-> Checked(p, known, FALSE), left |-> left]} \cup
             {[policy |-> Checked(p, Remaining(p, r, known), TRUE), left |-> Least(r)] : r \in Reports}

Usable(p) == p.offered /\ p.valid /\ p.remaining \notin {0, Unknown}

\* _unavailable: what the lookups leave, and whether the model is available.
Lookups ==
    IF policy.cooldown > now THEN {[policy |-> policy, left |-> left, available |-> FALSE]}
    ELSE UNION {
        {[policy |-> f.policy, left |-> f.left, available |-> Usable(f.policy)] :
            f \in IF c.offered THEN AfterQuota(c) ELSE {[policy |-> c, left |-> left]}}
        : c \in AfterCatalog(policy)}

ReadyAt(p) == Larger(p.nextAt, p.rateUntil)

MyTurn(w) == Head(queue) = w

Admissible(p, w) == MyTurn(w) /\ ReadyAt(p) <= now /\ p.active < MaxActive

Admitted(p) == [p EXCEPT !.remaining = @ - 1, !.nextAt = now + Gap, !.active = @ + 1]

-----------------------------------------------------------------------------
(* reserve_attempt.                                                        *)

Goto(w, c) == call' = [call EXCEPT ![w] = c]

Join(w) ==
    /\ call[w].at = "join"
    /\ queue' = Append(queue, w)
    /\ Goto(w, [call[w] EXCEPT !.at = "wait", !.waited = FALSE])
    /\ UNCHANGED <<now, policy, left, quiet>>

Overslept(w) == call[w].waited /\ now > call[w].deadline
NoPatience(p, w) == now >= call[w].deadline \/ ReadyAt(p) > call[w].deadline

\* One pass of the loop; sleeping, then polling again, is a later Poll.
Poll(w) ==
    /\ call[w].at = "wait"
    /\ \E found \in Lookups :
         LET p == found.policy
             admit == found.available /\ ~Overslept(w) /\ Admissible(p, w)
             stay  == found.available /\ ~Overslept(w) /\ ~Admissible(p, w) /\ ~NoPatience(p, w)
         IN  /\ left' = found.left
             /\ \/ /\ admit
                   /\ policy' = Admitted(p)
                   /\ Goto(w, [call[w] EXCEPT !.at = "leave", !.next = "send"])
                \/ /\ stay
                   /\ policy' = p
                   /\ Goto(w, [call[w] EXCEPT !.waited = TRUE])
                \/ /\ ~admit /\ ~stay
                   /\ policy' = p
                   /\ Goto(w, [call[w] EXCEPT !.at = "leave", !.next = "pay"])
    /\ UNCHANGED <<now, queue, quiet>>

StayQueued(w) == queue
Without(w) == SelectSeq(queue, LAMBDA v : v # w)

\* The finally clause removes the ticket under a new lock.
Leave(w) ==
    /\ call[w].at = "leave"
    /\ queue' = Without(w)
    /\ Goto(w, [call[w] EXCEPT !.at = call[w].next, !.waited = FALSE])
    /\ UNCHANGED <<now, policy, left, quiet>>

-----------------------------------------------------------------------------
(* generate_json of FreeFirstClient.                                       *)

StartCall(w) ==
    /\ call[w].at = "idle"
    /\ now + MaxWait < MaxNow
    /\ Goto(w, [Idle EXCEPT !.at = "join", !.deadline = now + MaxWait])
    /\ UNCHANGED <<now, policy, queue, left, quiet>>

\* The provider accepts the request.
Charge(w) ==
    /\ call[w].at = "send" /\ ~call[w].charged
    /\ Goto(w, [call[w] EXCEPT !.charged = TRUE])
    /\ left' = IF left = Unknown THEN Unknown ELSE left - 1
    /\ UNCHANGED <<now, policy, queue, quiet>>

Exhausted(w) == call[w].attempt = MaxAttempts
Answered(w, next) ==
    /\ call[w].at = "send"
    /\ Goto(w, [call[w] EXCEPT !.at = "release", !.next = next])
    /\ UNCHANGED <<now, queue, left>>

Succeed(w) ==
    /\ call[w].charged
    /\ Answered(w, "idle")
    /\ UNCHANGED <<policy, quiet>>

\* A transport error or an empty answer, with an attempt left and no delay.
TryAgain(w) ==
    /\ ~Exhausted(w)
    /\ Answered(w, "pause")
    /\ UNCHANGED <<policy, quiet>>

Overwrite(until, time) == time
Extend(until, time) == Larger(until, time)

\* failed() for any other failure: the model cools down, the worker pays.
CoolDown(w) ==
    \E d \in Delays :
        /\ Answered(w, "pay")
        /\ policy' = [policy EXCEPT !.cooldown = Extend(@, now + Larger(d, CoolTime)), !.quotaUntil = 0]
        /\ UNCHANGED quiet

\* failed(rate_limited=True): every worker honours the provider's delay.
RateLimited(w) ==
    \E d \in Delays :
        LET until == now + Larger(d, RateRetry)
        IN  /\ Answered(w, IF Exhausted(w) THEN "pay" ELSE "join")
            /\ policy' = [policy EXCEPT !.rateUntil = Extend(@, until), !.quotaUntil = 0]
            /\ quiet' = Larger(quiet, until)

OnlyOnSuccess(w) == IF call[w].next = "idle" THEN 1 ELSE 0
Freed(w) == 1

NextAttempt(w) == IF call[w].next = "join" THEN call[w].attempt + 1 ELSE call[w].attempt

\* The finally clause of an attempt.
Release(w) ==
    /\ call[w].at = "release"
    /\ policy' = [policy EXCEPT !.active = @ - Freed(w)]
    /\ Goto(w, IF call[w].next = "idle" THEN Idle
               ELSE [call[w] EXCEPT !.at = call[w].next, !.next = "idle", !.charged = FALSE,
                                    !.attempt = NextAttempt(w)])
    /\ UNCHANGED <<now, queue, left, quiet>>

\* sleep(1) before the next attempt.
Pause(w) ==
    /\ call[w].at = "pause"
    /\ Goto(w, [call[w] EXCEPT !.at = "join", !.attempt = @ + 1])
    /\ UNCHANGED <<now, policy, queue, left, quiet>>

\* The fallback answers or raises; both end the call.
Pay(w) ==
    /\ call[w].at = "pay"
    /\ Goto(w, Idle)
    /\ UNCHANGED <<now, policy, queue, left, quiet>>

-----------------------------------------------------------------------------
Answer(w) == Succeed(w) \/ TryAgain(w) \/ CoolDown(w) \/ RateLimited(w)
Proceed(w) == Join(w) \/ Poll(w) \/ Leave(w) \/ Answer(w) \/ Release(w) \/ Pause(w) \/ Pay(w)

Next == Tick \/ \E w \in Workers : StartCall(w) \/ Charge(w) \/ Proceed(w)

\* Threads run, the clock advances and requests time out.
Spec == Init /\ [][Next]_vars /\ WF_vars(Tick) /\ \A w \in Workers : WF_vars(Proceed(w))

-----------------------------------------------------------------------------
(* Properties.                                                             *)

InFlight(w) == call[w].at \in {"send", "release"} \/ (call[w].at = "leave" /\ call[w].next = "send")

\* Requests in flight that the provider may still charge to the quota.
Unsettled == {w \in Workers : InFlight(w) /\ ~call[w].charged}

\* Every admission takes one slot and every way out of an attempt gives it
\* back (release in the finally clause): the model never runs out of slots.
SlotsAccounted == policy.active = Cardinality({w \in Workers : InFlight(w)})

\* A request is admitted only when every report of the day had room for it and
\* for every other request in flight that the provider has not charged, besides
\* those charged since the report: also when a later report forgets requests,
\* when reports fail and for requests admitted before midnight (_refresh_quota:
\* "Reserve conservatively for already running requests and do not restore
\* locally consumed slots from a delayed API counter").
ReportsCover ==
    [][policy'.active > policy.active => left' # Unknown /\ Cardinality(Unsettled') <= left']_vars

\* No worker is admitted before the time any worker's 429 asked to wait for,
\* also when a later 429 asks for less (failed, _rate_limit_until).
HonoursRateLimit == [][policy'.active > policy.active => now >= quiet]_vars

\* Every call ends, and its ticket is gone: a worker that gives up or crashes
\* in the queue blocks nobody behind it (the finally of reserve_attempt).
CallsEnd ==
    \A w \in Workers :
        call[w].at # "idle" ~> call[w].at = "idle" /\ \A i \in 1 .. Len(queue) : queue[i] # w
=============================================================================
