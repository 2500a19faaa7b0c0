------------------------------ MODULE EventStore -------------------------------
(***************************************************************************)
(* What the pipeline keeps about articles and events: two SQLite tables    *)
(* (pipeline/state.py), an event file and a story file per event.  Each    *)
(* write below is one transaction or one atomically replaced file, so a    *)
(* crash can fall between any two of them.                                 *)
(*                                                                         *)
(* An event's row is abstracted to its editorial checkpoint, its file to   *)
(* the articles it lists, a story to the articles behind it.  Ages are     *)
(* left out: no event goes stale or is archived and no article expires.    *)
(***************************************************************************)
EXTENDS Naturals, FiniteSets, Functions

CONSTANTS
    Articles,       \* numbered in the order of their rows
    Events, None,
    Incremental,    \* aggregation.incremental_grouping
    MaxFailures,    \* times a digest may fail (pipeline.max_item_retries)
    MaxFaults,      \* bound on crashes, exceptions and failed model calls
    MaxMerges       \* bound on duplicate merges

ASSUME EventStoreAssumption ==
    /\ Articles \subseteq Nat /\ IsFiniteSet(Articles)
    /\ None \notin Articles \cup Events
    /\ Articles \cap Events = {}
    /\ Incremental \in BOOLEAN
    /\ MaxFailures \in Nat \ {0} /\ MaxFaults \in Nat /\ MaxMerges \in Nat

VARIABLES
    stage,      \* stage[a]: how far article a is
    owner,      \* owner[a]: the event_id of a's row
    failures,   \* failures[a]: failed digests of a in the errors table
    row,        \* row[e]: e's checkpoint: last_editorial_at is null ("unset"),
                \* older than updated_at ("updated") or not ("current")
    file,       \* file[e]: e's file: its articles and those last found coherent
    story,      \* story[e]: articles behind the prose, articles listed as
                \* sources, and the _pending_coherence mark
    rejected,   \* rejected[e]: e's row in editorial_rejections
    \* the run, alone under the pipeline lock
    at,         \* the stage it is in
    pass,       \* backlog, prior or final work
    collecting, \* whether the collection thread is running
    snap,       \* articles the backlog and prior passes are limited to
    todo,       \* articles or events the stage still has to take
    queue,      \* groups it still has to apply
    batch,      \* candidate_event_ids of the editorial stage
    op,         \* the operation it is in the middle of
    \* bounds and history
    faults, merges,
    torn,       \* history: winners of a broken merge with their old checkpoint
    leftover,   \* history: losers of one, with their old story
    seen        \* history: seen[e]: e's articles at its last checkpoint

store == <<stage, owner, failures, row, file, story, rejected>>
run == <<at, pass, collecting, snap, todo, queue, batch, op>>
history == <<faults, merges, torn, leftover, seen>>
vars == <<store, run, history>>

Stages == {"absent", "collected", "digested", "filtered"}
Phases == {"idle", "maintain", "edit", "digest", "group",
           "review", "dedup", "blocked", "join"}

Members(e) == {a \in Articles : owner[a] = e}
Live == {e \in Events : row[e] # "none"}
Unused == Events \ Live

Groups == [articles : SUBSET Articles, event : Events \cup {None}]
Files == [articles : SUBSET Articles, reviewed : SUBSET Articles]
Stories == [basis : SUBSET Articles, sources : SUBSET Articles, hidden : BOOLEAN]
Rejections == [input : SUBSET Articles, attempts : Nat, cooling : BOOLEAN]
StepNames == {"row", "assign", "loser file", "loser story", "winner file", "winner row",
              "requeue", "partition", "split files", "unlink", "unreject", "story", "mark"}
Operations ==
    [step : StepNames, event : Events, other : Events \cup {None},
     articles : SUBSET Articles, left : SUBSET Events, hidden : BOOLEAN]

ASSUME NoneAssumption == None \notin Files \cup Stories \cup Rejections \cup Operations

TypeOK ==
    /\ stage \in [Articles -> Stages]
    /\ owner \in [Articles -> Events \cup {None}]
    /\ failures \in [Articles -> 0 .. MaxFailures]
    /\ row \in [Events -> {"none", "unset", "updated", "current"}]
    /\ \A e \in Events :
          /\ file[e] \in Files \cup {None}
          /\ story[e] \in Stories \cup {None}
          /\ rejected[e] \in Rejections \cup {None}
    /\ at \in Phases /\ pass \in {"backlog", "prior", "final"}
    /\ collecting \in BOOLEAN /\ snap \subseteq Articles
    /\ todo \subseteq Articles \/ todo \subseteq Events
    /\ queue \subseteq Groups /\ batch \subseteq Events
    /\ op \in Operations \cup {None}
    /\ faults \in 0 .. MaxFaults /\ merges \in 0 .. MaxMerges
    /\ torn \subseteq Events /\ leftover \subseteq Events /\ seen \in [Events -> SUBSET Articles]
    \* an article belongs to an event only with a digest and without a filter
    /\ \A a \in Articles : owner[a] # None => stage[a] = "digested" /\ owner[a] \in Live

--------------------------------------------------------------------------------
\* Mutant: an upsert that keeps updated_at.
KeepsUpdatedAt(r) == IF r = "none" THEN "unset" ELSE r

\* The row an upsert leaves: updated_at moves to the present, last_editorial_at stays.
Upserted(r) == IF r \in {"none", "unset"} THEN "unset" ELSE "updated"

\* An operation between two of its writes.
Step(s, e) == [step |-> s, event |-> e, other |-> None,
               articles |-> {}, left |-> {}, hidden |-> FALSE]

\* The operation op goes on with step s.
Continue(s) == op' = [op EXCEPT !.step = s]

At(s) == op # None /\ op.step = s

Unhindered(phase) == at = phase /\ op = None

Fault == faults < MaxFaults /\ faults' = faults + 1

================================================================================
