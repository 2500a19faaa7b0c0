------------------------------- MODULE JevShadow -------------------------------
(***************************************************************************)
(* pipeline/jev_shadow.py: the worker that a minute cron starts to review  *)
(* queued pairs with a paid provider.  Its queue, its attempts, its daily  *)
(* budget and the provider's cooldown are files, because the process may   *)
(* die at any step.  One process runs at a time (flock); in it, the jobs   *)
(* of a batch are processed by one thread each.                            *)
(*                                                                         *)
(* Every request reserves one unit of the budget, the most it can cost.    *)
(* An answer may report what it did cost; without that the reservation     *)
(* stands for the cost.                                                    *)
(***************************************************************************)
EXTENDS Naturals, Sequences, FiniteSets

CONSTANTS
    Jobs,           \* the captured pairs, numbered in the order of capture
    Concurrency,    \* threads of a batch
    MaxAttempts,    \* max_attempts
    Budget,         \* daily_budget_usd in reservations
    Delays,         \* cooldowns the provider asks for
    DayLength,      \* the UTC day
    Unreported,     \* usage or cost is missing in an answer
    MaxNow          \* bound on the clock

ASSUME JevShadowAssumption ==
    /\ Jobs \subseteq Nat /\ IsFiniteSet(Jobs)
    /\ Concurrency \in Nat \ {0} /\ MaxAttempts \in Nat \ {0} /\ Budget \in Nat
    /\ Delays \subseteq Nat \ {0}
    /\ DayLength \in Nat \ {0} /\ MaxNow \in Nat
    /\ Unreported \notin Nat

VARIABLES
    now,        \* the clock
    attempts,   \* attempts[j]: the files attempt-1.json, attempt-2.json, ...
    decided,    \* the jobs with a result.json
    rows,       \* rows[<<j, i>>]: llm_usage rows with the attempt's run id
    cooldown,   \* cooldown.json: until, 0 if there is no such file
    run,        \* the process: "off", "reconcile" or "batches"
    day,        \* its day
    spent,      \* its charged
    stop,       \* its stop event
    left,       \* jobs it has not submitted to a thread
    at,         \* at[j]: where the thread of job j is
    index,      \* index[j]: the attempt it is at
    fresh       \* the jobs whose thread has made that attempt itself

vars == <<now, attempts, decided, rows, cooldown, run, day, spent, stop, left, at, index, fresh>>
process == <<run, day, spent, stop, left>>
threads == <<at, index, fresh>>

Today == now \div DayLength

\* busy: worth another attempt (transport error, 5xx, context too long);
\* limited: 402, 403, 429; final: a decision, an invalid answer, another error.
Http == {"final", "busy", "limited"}
Attempts == [status : {"reserved", "returned"}, day : Nat, accounted : BOOLEAN,
             cost : {0, 1, Unreported}, http : Http, wait : Nat]
Places == {"none", "loop", "reserve", "send", "correct", "insert", "flag", "limit", "judge"}
Tries == Jobs \X (1 .. MaxAttempts)

TypeOK ==
    /\ now \in 0 .. MaxNow /\ day \in Nat /\ spent \in Nat
    /\ attempts \in [Jobs -> Seq(Attempts)]
    /\ \A j \in Jobs : Len(attempts[j]) <= MaxAttempts
    /\ decided \subseteq Jobs
    /\ rows \in [Tries -> Nat]
    /\ cooldown \in Nat
    /\ run \in {"off", "reconcile", "batches"} /\ stop \in BOOLEAN
    /\ left \subseteq Jobs
    /\ at \in [Jobs -> Places]
    /\ index \in [Jobs -> 1 .. MaxAttempts]
    /\ fresh \subseteq Jobs

Init ==
    /\ now = 0 /\ day = 0 /\ spent = 0
    /\ attempts = [j \in Jobs |-> <<>>]
    /\ decided = {}
    /\ rows = [t \in Tries |-> 0]
    /\ cooldown = 0
    /\ run = "off" /\ stop = FALSE /\ left = {}
    /\ at = [j \in Jobs |-> "none"]
    /\ index = [j \in Jobs |-> 1]
    /\ fresh = {}

Tick ==
    /\ now < MaxNow
    /\ now' = now + 1
    /\ UNCHANGED <<attempts, decided, rows, cooldown, process, threads>>

-----------------------------------------------------------------------------
Exists(j, i) == i <= Len(attempts[j])
AllTries == {t \in Tries : Exists(t[1], t[2])}

\* budget_charge: the reported cost, or the whole reservation.
BudgetCharge(a) == IF a.cost = Unreported THEN 1 ELSE a.cost

\* The sum over the attempt files of a day: each charges one unit or none.
ChargedOn(d) ==
    Cardinality({t \in AllTries : /\ attempts[t[1]][t[2]].day = d
                                 /\ BudgetCharge(attempts[t[1]][t[2]]) = 1})

-----------------------------------------------------------------------------
(* The process.                                                            *)

\* cron starts a worker: charged is the sum over the files of the day.
Start ==
    /\ run = "off"
    /\ run' = "reconcile"
    /\ day' = Today /\ spent' = ChargedOn(Today)
    /\ stop' = FALSE
    /\ UNCHANGED <<now, attempts, decided, rows, cooldown, left, threads>>

Unaccounted(j, i) == attempts[j][i].cost # Unreported /\ ~attempts[j][i].accounted

\* run() first accounts every attempt that was interrupted before that.
Reconcile(j, i) ==
    /\ run = "reconcile" /\ \A k \in Jobs : at[k] = "none"
    /\ Exists(j, i) /\ Unaccounted(j, i)
    /\ at' = [at EXCEPT ![j] = "insert"]
    /\ index' = [index EXCEPT ![j] = i]
    /\ UNCHANGED <<now, attempts, decided, rows, cooldown, process, fresh>>

BeginAtOnce ==
    /\ run = "reconcile" /\ \A k \in Jobs : at[k] = "none"
    /\ IF cooldown > now
          THEN run' = "off" /\ UNCHANGED left
          ELSE run' = "batches" /\ left' = Jobs \ decided
    /\ UNCHANGED <<now, attempts, decided, rows, cooldown, day, spent, stop, threads>>
\* Reconciled: the cooldown is looked at, and the pending jobs are listed.
Begin ==
    /\ run = "reconcile" /\ \A k \in Jobs : at[k] = "none"
    /\ \A t \in AllTries : ~Unaccounted(t[1], t[2])
    /\ IF cooldown > now
          THEN run' = "off" /\ UNCHANGED left
          ELSE run' = "batches" /\ left' = Jobs \ decided
    /\ UNCHANGED <<now, attempts, decided, rows, cooldown, day, spent, stop, threads>>

\* The next batch, when every thread of the previous one has returned.
Batch ==
    LET first == {j \in left : Cardinality({k \in left : k < j}) < Concurrency}
    IN  /\ run = "batches" /\ \A j \in Jobs : at[j] = "none"
        /\ IF stop \/ left = {}
              THEN run' = "off" /\ left' = {} /\ UNCHANGED <<at, index>>
              ELSE /\ left' = left \ first
                   /\ at' = [j \in Jobs |-> IF j \in first THEN "loop" ELSE "none"]
                   /\ index' = [j \in Jobs |-> 1]
                   /\ UNCHANGED run
        /\ fresh' = {}
        /\ UNCHANGED <<now, attempts, decided, rows, cooldown, day, spent, stop>>

Crash ==
    /\ run # "off"
    /\ run' = "off"
    /\ left' = {} /\ stop' = FALSE /\ fresh' = {}
    /\ at' = [j \in Jobs |-> "none"]
    /\ index' = [j \in Jobs |-> 1]
    /\ UNCHANGED <<now, attempts, decided, rows, cooldown, day, spent>>

-----------------------------------------------------------------------------
(* process: the thread of job j.                                           *)

Goto(j, place) == at' = [at EXCEPT ![j] = place]
Decide(j) == decided' = decided \cup {j} /\ Goto(j, "none")
This(j) == attempts[j][index[j]]

ResendReserved(j) == FALSE
\* A reserved attempt of an earlier process: it may have been sent.
Interrupted(j) == This(j).status = "reserved"

\* The top of the loop over the attempts.
Loop(j) ==
    /\ at[j] = "loop"
    /\ IF stop THEN Goto(j, "none") /\ UNCHANGED decided
       ELSE IF ~Exists(j, index[j]) THEN Goto(j, "reserve") /\ UNCHANGED decided
       ELSE IF Unaccounted(j, index[j]) THEN Goto(j, "insert") /\ UNCHANGED decided
       ELSE IF Interrupted(j) THEN Decide(j)
       ELSE Goto(j, "judge") /\ UNCHANGED decided
    /\ fresh' = fresh \ {j}
    /\ UNCHANGED <<now, attempts, rows, cooldown, process, index>>

SpentToday == IF day = Today THEN spent ELSE ChargedOn(Today)

\* reserve, after the pause of pace.
Reserve(j) ==
    /\ at[j] = "reserve"
    /\ day' = Today
    /\ IF stop \/ SpentToday + 1 > Budget
          THEN /\ Goto(j, "none")
               /\ spent' = SpentToday
               /\ UNCHANGED <<attempts, fresh>>
          ELSE /\ attempts' = [attempts EXCEPT ![j] = Append(@,
                    [status |-> "reserved", day |-> Today, accounted |-> FALSE,
                     cost |-> Unreported, http |-> "busy", wait |-> 0])]
               /\ spent' = SpentToday + 1
               /\ fresh' = fresh \cup {j}
               /\ Goto(j, "send")
    /\ UNCHANGED <<now, decided, rows, cooldown, run, stop, left, index>>

\* The answer to the request, or the exception, is written to the attempt file.
Answer(j) ==
    /\ at[j] = "send"
    /\ \E h \in Http, c \in {0, 1, Unreported}, d \in Delays :
          attempts' = [attempts EXCEPT ![j][index[j]] =
                [@ EXCEPT !.status = "returned", !.http = h,
                          !.cost = c,
                          !.wait = IF h = "limited" THEN d ELSE 0]]
    /\ Goto(j, "correct")
    /\ UNCHANGED <<now, decided, rows, cooldown, process, index, fresh>>

AfterAccount(j) ==
    IF run = "reconcile" THEN "none"
    ELSE IF j \in fresh /\ This(j).http = "limited" THEN "limit" ELSE "judge"

CorrectAnyDay(j) == (spent + BudgetCharge(This(j))) - 1
\* The reservation is replaced by the charge, unless the day has changed.
Corrected(j) == IF This(j).day = day THEN (spent + BudgetCharge(This(j))) - 1 ELSE spent

Correct(j) ==
    /\ at[j] = "correct"
    /\ spent' = Corrected(j)
    /\ Goto(j, IF Unaccounted(j, index[j]) THEN "insert" ELSE AfterAccount(j))
    /\ UNCHANGED <<now, attempts, decided, rows, cooldown, run, day, stop, left, index, fresh>>

InsertOnce(t) == IF rows[t] = 0 THEN [rows EXCEPT ![t] = 1] ELSE rows

\* account: the row of the attempt, unless its run id has one ...
Insert(j) ==
    /\ at[j] = "insert"
    /\ rows' = InsertOnce(<<j, index[j]>>)
    /\ Goto(j, "flag")
    /\ UNCHANGED <<now, attempts, decided, cooldown, process, index, fresh>>

\* ... and in a later step the flag in the attempt file.
Flag(j) ==
    /\ at[j] = "flag"
    /\ attempts' = [attempts EXCEPT ![j][index[j]].accounted = TRUE]
    /\ Goto(j, AfterAccount(j))
    /\ UNCHANGED <<now, decided, rows, cooldown, process, index, fresh>>

\* The database is locked or the disk is full: safe_process gives the job up;
\* in run() the exception ends the process.
AccountFails(j) ==
    /\ at[j] \in {"insert", "flag"} /\ run = "batches"
    /\ Decide(j)
    /\ UNCHANGED <<now, attempts, rows, cooldown, process, index, fresh>>

\* 402, 403 and 429: no thread reserves from here on, nor does a later process
\* before the time in cooldown.json.
Limit(j) ==
    /\ at[j] = "limit"
    /\ stop' = TRUE
    /\ cooldown' = now + This(j).wait
    /\ Goto(j, "judge")
    /\ UNCHANGED <<now, attempts, decided, rows, run, day, spent, left, index, fresh>>

\* Only busy answers are worth another attempt, while there are any left.
Judge(j) ==
    /\ at[j] = "judge"
    /\ IF This(j).http = "busy" /\ index[j] < MaxAttempts
          THEN /\ index' = [index EXCEPT ![j] = @ + 1]
               /\ Goto(j, "loop")
               /\ UNCHANGED decided
          ELSE /\ Decide(j)
               /\ UNCHANGED index
    /\ UNCHANGED <<now, attempts, rows, cooldown, process, fresh>>

-----------------------------------------------------------------------------
Work(j) ==
    \/ Loop(j) \/ Reserve(j) \/ Answer(j) \/ Correct(j)
    \/ Insert(j) \/ Flag(j) \/ AccountFails(j) \/ Limit(j) \/ Judge(j)
Proceed == Begin \/ Batch \/ (\E t \in Tries : Reconcile(t[1], t[2])) \/ (\E j \in Jobs : Work(j))

Next == Tick \/ Start \/ Crash \/ Proceed

Spec == Init /\ [][Next]_vars

-----------------------------------------------------------------------------
(* Properties.                                                             *)

MayHaveCost(a) == a.cost = Unreported \/ a.cost = 1

\* README.md: "a $0.50 UTC-day reservation budget.  Unknown charges retain
\* reservations": what the attempts of a day have cost, or may have, is within
\* the budget, however often the worker dies and whatever answers leave out.
BudgetKept ==
    \A d \in 0 .. Today :
        Cardinality({t \in AllTries : /\ attempts[t[1]][t[2]].day = d
                                     /\ MayHaveCost(attempts[t[1]][t[2]])}) <= Budget

\* README.md: "interrupted requests are not blindly reissued": an attempt whose
\* outcome is not on disk is the job's last one.  Every charge that was reported
\* is recorded once, although the process may die between the row and the flag,
\* and flagged only when it is recorded.
OnceOnly ==
    /\ \A j \in Jobs : \A i \in 1 .. Len(attempts[j]) - 1 : attempts[j][i].status = "returned"
    /\ \A t \in Tries : rows[t] <= 1
    /\ \A t \in AllTries : attempts[t[1]][t[2]].accounted => rows[t] = 1

\* No charge is forgotten by a crash: whatever an earlier process has left
\* unrecorded is recorded before a worker takes up any job (the first loop of run).
ChargesSettled ==
    [][run = "reconcile" /\ run' = "batches" =>
         \A t \in AllTries : attempts[t[1]][t[2]].cost # Unreported => rows[t] = 1]_vars
=============================================================================
