------------------------------- MODULE WindowPlan ------------------------------
(***************************************************************************)
(* pipeline/aggregate.py, aggregate_once: the sliding windows of a run and *)
(* what becomes of the articles in them.  Which event a model puts an      *)
(* article in is open; how groups are divided and written is Aggregation.  *)
(***************************************************************************)
EXTENDS ArticleStore

Floor(t) == t - (t % StepSize)
Window(w) == w .. w + StepSize + Overlap - 1
InWindow(w, U) == {u \in U : rows[u].at \in Window(w)}

\* mutant: a completed window is done with
SkipCompleted(w, latest) == w \in completed /\ w # latest

\* A completed window is skipped, unless it is the latest one or holds an
\* article without an event.
Skip(w, latest) == w \in completed /\ w # latest /\ InWindow(w, Open) = {}

\* plan_sliding_windows over [start, end): only the windows in which an article
\* waits, and the latest completed one; with force all of them.
Planned(start, end, force) ==
    LET latest == IF completed = {} THEN None ELSE Max(completed)
        all    == {w \in Starts : start <= w /\ w < end}
        sparse == {Floor(rows[u].at) : u \in {v \in Open : start <= rows[v].at /\ rows[v].at < end}}
    IN  IF force THEN all
        ELSE {w \in all : (w \in sparse \/ w = latest) /\ ~ Skip(w, latest)}

\* Mutant: the window of the last article is left out.
BoundsShort(U) ==
    [first |-> Floor(Max({Min({rows[u].at : u \in U}), Midnight(days)})),
     last  |-> Floor(Max({rows[u].at : u \in U}))]

Bounds(U) ==
    [first |-> Floor(Max({Min({rows[u].at : u \in U}), Midnight(days)})),
     last  |-> Floor(Max({rows[u].at : u \in U})) + StepSize]

StartAggregate ==
    /\ Idle /\ next = "aggregate" /\ stage' = "aggregate"
    /\ plan' = IF ~ \E u \in Open : rows[u].at >= Midnight(days) THEN {}
               ELSE Planned(Bounds(Open).first, Bounds(Open).last, FALSE)
    /\ UNCHANGED <<world, etag, data, next, op, faults, collector, excused,
                   todo, batch, deferred, missed, answered>>

\* --force: everything the windows hold loses its event or its filter, in one
\* transaction, together with the events that keep no article.
StartForced ==
    LET digested == {u \in Rows : rows[u].digest = "completed" /\ rows[u].at >= Midnight(days)}
        chosen == Planned(Bounds(digested).first, Bounds(digested).last, TRUE)
        reset == {u \in UNION {InWindow(w, Rows) : w \in chosen} :
                    \/ rows[u].event # None
                    \/ rows[u].digest = "completed" /\ rows[u].state \in {"filtered", "expired"}}
    IN  /\ Idle /\ next = "aggregate" /\ digested # {}
        /\ stage' = "aggregate" /\ plan' = chosen
        /\ rows' = [u \in Urls |-> IF u \in reset
                      THEN [rows[u] EXCEPT !.event = None, !.state = "pending"] ELSE rows[u]]
        /\ events' = [v \in Events |-> IF Members(v) # {} /\ Members(v) \subseteq reset
                      THEN [events[v] EXCEPT !.status = "none"] ELSE events[v]]
        /\ UNCHANGED <<world, etag, files, completed, next, op, faults, collector, excused,
                       todo, batch, deferred, missed, answered>>

\* load_window_articles: what is irrelevant is filtered, what has no digest waits.
OpenWindow ==
    /\ In("aggregate") /\ plan # {}
    /\ LET w == Min(plan)
           ready == {u \in InWindow(w, Open) : HasFile(u) /\ files[PathOf(u)].digest}
           low == {u \in ready : TextOf[rows[u].by] \in Irrelevant}
       IN  /\ op' = [step |-> "window", start |-> w]
           /\ completed' = completed \ {w}
           /\ rows' = [u \in Urls |-> IF u \in low THEN [rows[u] EXCEPT !.state = "filtered"] ELSE rows[u]]
           /\ todo' = ready \ low
    /\ UNCHANGED <<world, etag, files, events, stage, next, faults, collector, excused,
                   plan, batch, deferred, missed, answered>>

\* A new event's id is made from its articles; here it is any that is not used.
NewEvent ==
    LET unused == {v \in Events : events[v].status = "none"}
    IN  IF unused = {} THEN {} ELSE {CHOOSE v \in unused : TRUE}

InsideWindow == stage = "aggregate" /\ op # None

AssignEvent ==
    /\ InsideWindow
    /\ \E u \in todo, v \in Live \cup NewEvent :
         /\ rows' = [rows EXCEPT ![u].event = v, ![u].state = "assigned"]
         /\ events' = [events EXCEPT ![v] = [status |-> "active", updated |-> now]]
         /\ todo' = todo \ {u}
    /\ UNCHANGED <<world, etag, files, completed, stage, next, op, faults, collector, excused,
                   plan, batch, deferred, missed, answered>>

\* A batch fails, or all do: the window is not completed.
WindowFails ==
    /\ InsideWindow /\ todo # {} /\ Fault
    /\ todo' = {} /\ plan' = plan \ {op.start} /\ op' = None
    /\ UNCHANGED <<world, etag, data, stage, next, collector, excused,
                   batch, deferred, missed, answered>>

CloseWindow ==
    /\ InsideWindow /\ todo = {}
    /\ completed' = completed \cup {op.start}
    /\ plan' = plan \ {op.start} /\ op' = None
    /\ UNCHANGED <<world, etag, rows, files, events, stage, next, faults, collector, excused,
                   todo, batch, deferred, missed, answered>>

EndAggregate ==
    /\ In("aggregate") /\ plan = {}
    /\ Leave("lifecycle")
    /\ UNCHANGED <<world, etag, data, op, faults, collector, excused, work>>

Aggregating ==
    \/ StartAggregate \/ StartForced \/ OpenWindow \/ AssignEvent
    \/ WindowFails \/ CloseWindow \/ EndAggregate

\* Every digested article that waits for an event within the retention is in a
\* window of the run, whatever windows earlier runs completed, left or failed.
PlanCovers ==
    [][stage = "idle" /\ stage' = "aggregate" =>
         \A u \in Open : rows[u].digest = "completed" /\ rows[u].at >= Midnight(days) =>
            \E w \in plan' : rows[u].at \in Window(w)]_lifeVars
================================================================================
