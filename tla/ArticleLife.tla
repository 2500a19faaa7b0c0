------------------------------ MODULE ArticleLife ------------------------------
(***************************************************************************)
(* An article from its feed to its end: the collector, the digest stage,   *)
(* the windows of the aggregation and pipeline/maintenance.py, one after   *)
(* the other as a run has them, with crashes and days passing between.     *)
(***************************************************************************)
EXTENDS Collection, DigestStage, WindowPlan

LifeInit ==
    /\ now = 0 /\ days = Retention
    /\ version = [f \in Feeds |-> 1] /\ etag = [f \in Feeds |-> 0]
    /\ rows = [u \in Urls |-> None] /\ files = [p \in Paths |-> None]
    /\ events = [v \in Events |-> [status |-> "none", updated |-> 0]]
    /\ completed = {}
    /\ stage = "idle" /\ next = "lifecycle" /\ op = None /\ faults = 0
    /\ fetching = {} /\ waiting = {} /\ reading = {} /\ seenIds = {} /\ excused = {}
    /\ todo = {} /\ plan = {} /\ batch = {} /\ deferred = {} /\ missed = {} /\ answered = {}

\* Time passes between runs: a run is short against half a day.
BetweenRuns == Idle /\ next = "lifecycle"

Tick ==
    /\ BetweenRuns /\ now < MaxNow
    /\ now' = now + 1
    /\ UNCHANGED <<days, version, etag, data, stage, next, op, faults, collector, excused, work>>

Publish(f) ==
    /\ BetweenRuns /\ version[f] < MaxVersion[f]
    /\ version' = [version EXCEPT ![f] = @ + 1]
    /\ UNCHANGED <<now, days, etag, data, stage, next, op, faults, collector, excused, work>>

\* The operator raises the retention.
Raise ==
    /\ BetweenRuns /\ days = Retention
    /\ days' = Retention + 1
    /\ UNCHANGED <<now, version, etag, data, stage, next, op, faults, collector, excused, work>>

--------------------------------------------------------------------------------
(* Maintenance.  Each step is a transaction, or a loop that a later run       *)
(* takes up again.                                                            *)

Step(from, to) == In(from) /\ stage' = to /\ UNCHANGED next

Aged(v) ==
    IF v \notin Live THEN events[v].status
    ELSE IF events[v].updated + ArchiveAfter < now THEN "archived"
    ELSE IF events[v].updated + StaleAfter < now THEN "stale" ELSE events[v].status

ApplyLifecycle ==
    /\ BetweenRuns /\ stage' = "restore"
    /\ events' = [v \in Events |-> [events[v] EXCEPT !.status = Aged(v)]]
    /\ UNCHANGED <<world, etag, rows, files, completed, next, op, faults, collector, excused, work>>

SetState(U, s) == rows' = [u \in Urls |-> IF u \in U THEN [rows[u] EXCEPT !.state = s] ELSE rows[u]]

RestoreExpired ==
    /\ Step("restore", "expire")
    /\ SetState({u \in Rows : rows[u].state = "expired" /\ rows[u].at >= Midnight(days)}, "pending")
    /\ UNCHANGED <<world, etag, files, events, completed, op, faults, collector, excused, work>>

Outside == {u \in Open : rows[u].at < Midnight(days)}

ExpireOld ==
    /\ Step("expire", "reconcile")
    /\ SetState(Outside, "expired")
    /\ UNCHANGED <<world, etag, files, events, completed, op, faults, collector, excused, work>>

\* An event without articles goes.
ReconcileEvents ==
    /\ Step("reconcile", "compact")
    /\ events' = [v \in Events |-> IF v \in Live /\ Members(v) = {}
                    THEN [events[v] EXCEPT !.status = "none"] ELSE events[v]]
    /\ UNCHANGED <<world, etag, rows, files, completed, op, faults, collector, excused, work>>

\* The text of old articles goes that are filtered or of an archived event.
FilteredAnyAge == Rows \ Kept \* mutant: whatever their age
Compactable == {u \in (Rows \ Kept) \cup Archived : Older(rows[u].at, days)}

Compact ==
    /\ In("compact") /\ Leave("collect")
    /\ files' = [p \in Paths |-> IF files[p] # None /\ \E u \in Compactable : p = PathOf(u)
                                 THEN [files[p] EXCEPT !.text = FALSE] ELSE files[p]]
    /\ UNCHANGED <<world, etag, rows, events, completed, op, faults, collector, excused, work>>

Maintaining == ApplyLifecycle \/ RestoreExpired \/ ExpireOld \/ ReconcileEvents \/ Compact

--------------------------------------------------------------------------------
\* The process dies: files and tables stay, the next run starts over.
Crash ==
    /\ stage # "idle" /\ Fault
    /\ stage' = "idle" /\ next' = "lifecycle" /\ op' = None
    /\ excused' = excused \cup
         SamePage(waiting \cup reading \cup (IF stage = "collect" /\ op # None THEN {files[op.path].by} ELSE {}))
    /\ fetching' = {} /\ waiting' = {} /\ reading' = {} /\ seenIds' = {}
    /\ todo' = {} /\ plan' = {} /\ batch' = {} /\ deferred' = {} /\ missed' = {} /\ answered' = {}
    /\ UNCHANGED <<world, etag, data>>

RunNext == Collecting \/ Digesting \/ Aggregating \/ Maintaining
LifeNext == RunNext \/ Tick \/ Raise \/ Crash \/ \E f \in Feeds : Publish(f)

\* A timer starts the runs, and requests time out.
LifeSpec == LifeInit /\ [][LifeNext]_lifeVars /\ WF_lifeVars(RunNext)

--------------------------------------------------------------------------------
\* An article within the retention has its file, with its text: file and row
\* are written, removed, cleaned and compacted in orders that keep this through
\* crashes.
TextKept ==
    \A u \in Rows :
        rows[u].at + 2 * Retention >= now => HasFile(u) /\ files[PathOf(u)].text

\* No article waits for ever: it gets an event, is filtered or leaves the
\* horizon, whatever fails, and whichever run digested it.
PendingEnds == \A u \in Urls : u \in Open ~> u \in Rows /\ u \notin Open
================================================================================
