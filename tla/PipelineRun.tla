------------------------------ MODULE PipelineRun ------------------------------
(***************************************************************************)
(* pipeline/cli.py, run_completed_pipeline: one run after another, each    *)
(* under the pipeline lock, over what EventStore keeps.  A run reconciles  *)
(* the event files, finishes the work earlier runs left while a thread     *)
(* collects new articles, and only then takes the new ones.                *)
(*                                                                         *)
(*     maintain -> edit (backlog) -> digest -> group -> edit (prior) ->    *)
(*     join -> digest -> group -> review -> dedup -> edit (final) -> idle  *)
(*                                                                         *)
(* The lock itself is PipelineLock; presentation, which reads the stories  *)
(* and writes only its own output, is StaticSite.                          *)
(***************************************************************************)
EXTENDS Aggregation, Editorial

Init ==
    /\ stage = [a \in Articles |-> "absent"]
    /\ owner = [a \in Articles |-> None]
    /\ failures = [a \in Articles |-> 0]
    /\ row = [e \in Events |-> "none"]
    /\ file = [e \in Events |-> None]
    /\ story = [e \in Events |-> None]
    /\ rejected = [e \in Events |-> None]
    /\ at = "idle" /\ pass = "backlog" /\ collecting = FALSE
    /\ snap = {} /\ todo = {} /\ queue = {} /\ batch = {} /\ op = None
    /\ faults = 0 /\ merges = 0 /\ torn = {} /\ leftover = {}
    /\ seen = [e \in Events |-> {}]

\* Mutant: the digest stage ignores the snapshot.
UndigestedAnywhere(limit) == {a \in Articles : stage[a] = "collected"}

Undigested(limit) == {a \in limit : stage[a] = "collected"}

\* _pending_upstream_counts
Upstream(limit) ==
    Undigested(limit) \cup {a \in limit : stage[a] = "digested" /\ owner[a] = None}

Candidates == {e \in Events : NeedsEditorial(e)}

\* Ends of a run, and the entry into a stage.
EndRun ==
    /\ at' = "idle" /\ pass' = "backlog" /\ collecting' = FALSE
    /\ snap' = {} /\ todo' = {} /\ queue' = {} /\ batch' = {} /\ op' = None

EnterEdit(p) ==
    /\ at' = "edit" /\ pass' = p
    /\ todo' = Candidates /\ batch' = Candidates

EnterDigest(p, limit) ==
    /\ at' = "digest" /\ pass' = p
    /\ todo' = Undigested(limit) /\ batch' = {}

EnterJoin == at' = "join" /\ todo' = {} /\ batch' = {} /\ UNCHANGED pass

\* The articles a pass may touch: those present when the run began, or all.
Limit == IF pass = "final" THEN Articles ELSE snap

Done(phase) == Unhindered(phase) /\ todo = {} /\ queue = {}

--------------------------------------------------------------------------------
(* Maintenance.                                                              *)

\* Between runs a rejection's six hours may pass.
Start ==
    /\ at = "idle"
    /\ at' = "maintain" /\ todo' = Live
    /\ \E cooled \in SUBSET {e \in Events : rejected[e] # None /\ rejected[e].cooling} :
          rejected' = [e \in Events |->
                IF e \in cooled THEN [rejected[e] EXCEPT !.cooling = FALSE] ELSE rejected[e]]
    /\ UNCHANGED <<stage, owner, failures, row, file, story, history,
                   pass, collecting, snap, queue, batch, op>>

\* An event without articles loses its row, then its file.
DeleteEmpty ==
    /\ Unhindered("maintain")
    /\ \E e \in todo :
          /\ Members(e) = {}
          /\ row' = [row EXCEPT ![e] = "none"]
          /\ op' = Step("unlink", e)
          /\ todo' = todo \ {e}
    /\ UNCHANGED <<stage, owner, failures, file, story, rejected, history,
                   at, pass, collecting, snap, queue, batch>>

UnlinkEmpty ==
    /\ At("unlink")
    /\ file' = [file EXCEPT ![op.event] = None]
    /\ op' = None
    /\ UNCHANGED <<stage, owner, failures, row, story, rejected, history,
                   at, pass, collecting, snap, todo, queue, batch>>

\* Mutant: a file keeps the articles it lists.
ReconcileMissing ==
    /\ Unhindered("maintain")
    /\ \E e \in todo :
          /\ Members(e) # {}
          /\ file' = [file EXCEPT ![e] = Grown(@, Members(e))]
          /\ todo' = todo \ {e}
    /\ UNCHANGED <<stage, owner, failures, row, story, rejected, history,
                   at, pass, collecting, snap, queue, batch, op>>

\* The file is rebuilt from the database; updated_at stays.
Reconcile ==
    /\ Unhindered("maintain")
    /\ \E e \in todo :
          /\ Members(e) # {}
          /\ file' = [file EXCEPT ![e] =
                [articles |-> Members(e),
                 reviewed |-> IF file[e] = None THEN {} ELSE file[e].reviewed]]
          /\ todo' = todo \ {e}
    /\ UNCHANGED <<stage, owner, failures, row, story, rejected, history,
                   at, pass, collecting, snap, queue, batch, op>>

ReconcileFails ==
    /\ Unhindered("maintain") /\ Fault
    /\ \E e \in todo : todo' = todo \ {e}
    /\ UNCHANGED <<store, merges, torn, leftover, seen, at, pass, collecting, snap, queue, batch, op>>

\* The run notes how far the articles go, starts the collection thread and
\* turns to what earlier runs left.
Snapshot ==
    /\ Done("maintain")
    /\ snap' = {a \in Articles : stage[a] # "absent"}
    /\ collecting' = TRUE
    /\ \/ Candidates # {} /\ EnterEdit("backlog")
       \/ Candidates = {} /\ Upstream(snap') # {} /\ EnterDigest("prior", snap')
       \/ Candidates = {} /\ Upstream(snap') = {} /\ EnterJoin
    /\ UNCHANGED <<store, history, queue, op>>

--------------------------------------------------------------------------------
(* The collection thread.                                                    *)

\* An article's number is its rowid.
Collect(a) ==
    /\ collecting /\ stage[a] = "absent"
    /\ \A b \in Articles : b < a => stage[b] # "absent"
    /\ stage' = [stage EXCEPT ![a] = "collected"]
    /\ UNCHANGED <<owner, failures, row, file, story, rejected, run, history>>

CollectDone ==
    /\ collecting /\ collecting' = FALSE
    /\ UNCHANGED <<store, history, at, pass, snap, todo, queue, batch, op>>

--------------------------------------------------------------------------------
(* Digests.                                                                  *)

\* A digest is written, or copied from another article with the same text.
Digest ==
    /\ Unhindered("digest")
    /\ \E a \in todo :
          /\ failures[a] < MaxFailures \/ \E b \in Articles : stage[b] = "digested"
          /\ stage' = [stage EXCEPT ![a] = "digested"]
          /\ todo' = todo \ {a}
    /\ UNCHANGED <<owner, failures, row, file, story, rejected, history,
                   at, pass, collecting, snap, queue, batch, op>>

\* Nothing to digest (no text, a video page, an old page) or failed too often.
DropArticle ==
    /\ Unhindered("digest")
    /\ \E a \in todo :
          /\ stage' = [stage EXCEPT ![a] = "filtered"]
          /\ todo' = todo \ {a}
    /\ UNCHANGED <<owner, failures, row, file, story, rejected, history,
                   at, pass, collecting, snap, queue, batch, op>>

DigestFails ==
    /\ Unhindered("digest") /\ Fault
    /\ \E a \in todo :
          /\ failures[a] < MaxFailures
          /\ failures' = [failures EXCEPT ![a] = @ + 1]
          /\ todo' = todo \ {a}
    /\ UNCHANGED <<stage, owner, row, file, story, rejected, merges, torn, leftover, seen,
                   at, pass, collecting, snap, queue, batch, op>>

--------------------------------------------------------------------------------
(* From stage to stage.                                                      *)

EndDigest ==
    /\ Done("digest")
    /\ at' = "group" /\ todo' = Loadable(Limit)
    /\ UNCHANGED <<store, history, pass, collecting, snap, queue, batch, op>>

EndGroup ==
    /\ Done("group")
    /\ \/ pass = "prior" /\ EnterEdit("prior")
       \/ pass = "final" /\ at' = "review" /\ todo' = Reviewable /\ UNCHANGED <<pass, batch>>
    /\ UNCHANGED <<store, history, collecting, snap, queue, op>>

EndReview ==
    /\ Done("review")
    /\ at' = "dedup"
    /\ UNCHANGED <<store, history, pass, collecting, snap, todo, queue, batch, op>>

EndDedup ==
    /\ Done("dedup")
    /\ EnterEdit("final")
    /\ UNCHANGED <<store, history, collecting, snap, queue, op>>

\* _blocking_editorial_count: a candidate this pass left undone.
Blocked == \E e \in batch : NeedsEditorial(e)

EndEdit ==
    /\ Done("edit")
    /\ \/ /\ pass = "final" /\ EndRun
       \/ /\ pass # "final" /\ Blocked
          /\ at' = "blocked"
          /\ UNCHANGED <<pass, collecting, snap, todo, queue, batch, op>>
       \/ /\ pass # "final" /\ ~ Blocked
          /\ IF pass = "backlog" /\ Upstream(snap) # {}
             THEN EnterDigest("prior", snap) ELSE EnterJoin
          /\ UNCHANGED <<collecting, snap, queue, op>>
    /\ UNCHANGED <<store, history>>

\* New work waits for a run whose backlog passes leave nothing undone.
EndBlocked ==
    /\ at = "blocked" /\ ~ collecting
    /\ EndRun
    /\ UNCHANGED <<store, history>>

EndJoin ==
    /\ Done("join") /\ ~ collecting
    /\ EnterDigest("final", Articles)
    /\ UNCHANGED <<store, history, collecting, snap, queue, op>>

\* The process dies, or an exception no stage handles ends the run.
Crash ==
    /\ at # "idle" /\ Fault
    /\ EndRun
    /\ UNCHANGED <<store, merges, torn, leftover, seen>>

--------------------------------------------------------------------------------
Maintaining == DeleteEmpty \/ UnlinkEmpty \/ Reconcile \/ ReconcileFails \/ Snapshot

Digesting == Digest \/ DropArticle \/ DigestFails \/ EndDigest

Grouping ==
    \/ TakeGroup \/ GroupFails \/ SetAside \/ Replay \/ Found \/ Extend
    \/ UpsertGroup \/ Assign \/ EndGroup

Reviewing ==
    \/ Coherent \/ ReviewFails \/ Hide \/ Partition \/ PartitionFails
    \/ WriteSplit \/ SplitFails \/ EndReview

Merging ==
    \/ Merge \/ UnlinkLoser \/ UnlinkLoserStory \/ WriteWinner
    \/ UpsertWinner \/ Requeue \/ MergeFails \/ EndDedup

Editing ==
    \/ Refresh \/ Unreject \/ Mark \/ GateSkips \/ Approve \/ WriteStory
    \/ Reject \/ StoryFails \/ EndEdit \/ EndBlocked \/ EndJoin

RunNext ==
    \/ Start \/ Maintaining \/ Digesting \/ Grouping
    \/ Reviewing \/ Merging \/ Editing

Next ==
    \/ RunNext \/ CollectDone \/ Crash
    \/ \E a \in Articles : Collect(a)

Spec == Init /\ [][Next]_vars

\* A timer starts the next run; calls to models and feeds time out.
FairSpec == Spec /\ WF_vars(RunNext) /\ WF_vars(CollectDone)

--------------------------------------------------------------------------------
(* Safety.                                                                   *)

\* A story readers can see rests on articles of its own event only: a split
\* never leaves a mixed story visible, whatever fails between its writes.
\* (A merge broken off half-way may leave the loser's story behind.)
VisibleStoryIsClean ==
    \A e \in Live \ leftover :
       story[e] # None /\ ~ story[e].hidden => story[e].basis \subseteq Members(e)

\* No article slips past the editorial stage: every article of an event whose
\* checkpoint is current was with it when the checkpoint was set.
CheckpointSawMembers ==
    \A e \in Live \ torn : row[e] = "current" => Members(e) \subseteq seen[e]

\* Grouping never moves an article between events, so it merges none: only
\* the coherence review and the duplicate review do.
NoImplicitMerge ==
    [][\A a \in Articles :
          owner[a] # None /\ owner'[a] # owner[a] => at \in {"review", "dedup"}]_vars

\* Articles that arrive during the run wait for its final pass: while the
\* collection thread runs, only articles of the snapshot are digested,
\* filtered or given an event.
BacklogFirst ==
    [][collecting => \A a \in Articles \ snap :
                        /\ owner'[a] = owner[a]
                        /\ stage[a] # "absent" => stage'[a] = stage[a]]_vars

--------------------------------------------------------------------------------
(* Liveness.                                                                 *)

Settled(a) ==
    \/ stage[a] = "filtered"
    \/ owner[a] # None /\ (row[owner[a]] = "current" \/ Deferred(owner[a]))

\* Whatever fails on the way, a collected article ends up filtered or behind
\* the checkpoint of an event, or its event waits for other articles.
EveryArticleSettles == \A a \in Articles : stage[a] = "collected" ~> Settled(a)

\* "excluded from the active index until regenerated" (docs/design.md): an
\* event whose story the coherence review hid is a candidate for a new one.
HiddenAwaitsEditorial ==
    \A e \in Live :
       at = "idle" /\ story[e] # None /\ story[e].hidden => row[e] \in {"unset", "updated"}

================================================================================
