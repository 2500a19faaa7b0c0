------------------------------ MODULE Aggregation ------------------------------
(***************************************************************************)
(* pipeline/aggregate.py and pipeline/coherence.py: grouping articles into *)
(* events, the coherence review that splits an event, and the duplicate    *)
(* review that merges two.                                                 *)
(*                                                                         *)
(* What a model answers is open: any groups, any existing event for a      *)
(* group, any rejected extensions, any partition, any pair to merge.       *)
(* Windows, category batches and impact scores only decide which articles  *)
(* meet in one call, which is part of that choice.                         *)
(***************************************************************************)
EXTENDS EventStore

\* Articles a window loads.
Loadable(limit) ==
    {a \in limit : stage[a] = "digested" /\ (Incremental => owner[a] = None)}

Owners(G) == {owner[a] : a \in G} \ {None}

\* Mutant: a group goes to its target as a whole.
Undivided(G, target) ==
    {[articles |-> G,
      event |-> IF target # None \/ Owners(G) = {} THEN target ELSE CHOOSE e \in Owners(G) : TRUE]}

\* A group that would join articles of several events is divided: each
\* article stays with its event, the others go to the group's target.
Buckets(G, target) ==
    LET Key(a) == IF owner[a] = None THEN target ELSE owner[a]
        known == Owners(G) \cup ({target} \ {None})
    IN  IF Cardinality(known) <= 1
        THEN {[articles |-> G, event |-> IF known = {} THEN None ELSE CHOOSE e \in known : TRUE]}
        ELSE {[articles |-> {a \in G : Key(a) = k}, event |-> k] : k \in {Key(a) : a \in G}}

\* Unassigned articles that would extend an existing event.
Extensions(buckets) ==
    {a \in UNION {b.articles : b \in {x \in buckets : x.event # None}} : owner[a] = None}

\* The membership review turns rejected extensions into groups of their own.
Guarded(buckets, refused) ==
    {[b EXCEPT !.articles = @ \ refused] : b \in {x \in buckets : ~ x.articles \subseteq refused}}
        \cup {[articles |-> {a}, event |-> None] : a \in refused}

TakeGroup ==
    /\ Unhindered("group") /\ queue = {}
    /\ \E G \in (SUBSET todo) \ {{}}, target \in Live \cup {None} :
          \E refused \in SUBSET Extensions(Buckets(G, target)) :
             /\ todo' = todo \ G
             /\ queue' = Guarded(Buckets(G, target), refused)
    /\ UNCHANGED <<store, history, at, pass, collecting, snap, batch, op>>

\* A category batch fails, or an exception ends the window between two
\* writes.  A later window of the pass may meet the articles again.
GroupFails ==
    /\ at = "group"
    /\ todo # {} \/ queue # {} \/ op # None
    /\ Fault
    /\ queue' = {} /\ op' = None
    /\ LET held == (UNION {b.articles : b \in queue})
                      \cup (IF op = None THEN {} ELSE op.articles)
       IN  \E again \in SUBSET (todo \cup held) : todo' = again
    /\ UNCHANGED <<store, merges, torn, leftover, seen, at, pass, collecting, snap, batch>>

\* A group of opinion pieces founds no event.
SetAside ==
    /\ Unhindered("group")
    /\ \E b \in queue :
          /\ b.event = None
          /\ stage' = [a \in Articles |-> IF a \in b.articles THEN "filtered" ELSE stage[a]]
          /\ queue' = queue \ {b}
    /\ UNCHANGED <<owner, failures, row, file, story, rejected, history,
                   at, pass, collecting, snap, todo, batch, op>>

\* The window was taken before: the event's file lists the group already.
Replay ==
    /\ Unhindered("group")
    /\ \E b \in queue :
          /\ b.event # None /\ file[b.event] # None
          /\ b.articles \subseteq file[b.event].articles
          /\ queue' = queue \ {b}
    /\ UNCHANGED <<store, history, at, pass, collecting, snap, todo, batch, op>>

Grown(f, A) ==
    IF f = None THEN [articles |-> A, reviewed |-> {}]
    ELSE [f EXCEPT !.articles = @ \cup A]

\* A group is written to its event's file ...
WriteEvent(b, e, old) ==
    /\ file' = [file EXCEPT ![e] = Grown(old, b.articles)]
    /\ op' = [Step("row", e) EXCEPT !.articles = b.articles]
    /\ queue' = queue \ {b}
    /\ UNCHANGED <<stage, owner, failures, row, story, rejected, history,
                   at, pass, collecting, snap, todo, batch>>

Found ==
    /\ Unhindered("group")
    /\ \E b \in queue, e \in Unused : b.event = None /\ WriteEvent(b, e, None)

Extend ==
    /\ Unhindered("group")
    /\ \E b \in queue :
          /\ b.event # None
          /\ file[b.event] # None => ~ b.articles \subseteq file[b.event].articles
          /\ WriteEvent(b, b.event, file[b.event])

\* ... then to its row ...
UpsertGroup ==
    /\ At("row")
    /\ row' = [row EXCEPT ![op.event] = Upserted(@)]
    /\ Continue("assign")
    /\ UNCHANGED <<stage, owner, failures, file, story, rejected, history,
                   at, pass, collecting, snap, todo, queue, batch>>

\* ... and the articles are assigned last.
Assign ==
    /\ At("assign")
    /\ owner' = [a \in Articles |-> IF a \in op.articles THEN op.event ELSE owner[a]]
    /\ op' = None
    /\ UNCHANGED <<stage, failures, row, file, story, rejected, history,
                   at, pass, collecting, snap, todo, queue, batch>>

--------------------------------------------------------------------------------
(* The coherence review.                                                     *)

Reviewable ==
    {e \in Live : Cardinality(Members(e)) >= 2 /\ file[e] # None
                    /\ file[e].reviewed # Members(e)}

Coherent ==
    /\ Unhindered("review")
    /\ \E e \in todo :
          /\ file' = [file EXCEPT ![e].reviewed = Members(e)]
          /\ todo' = todo \ {e}
    /\ UNCHANGED <<stage, owner, failures, row, story, rejected, history,
                   at, pass, collecting, snap, queue, batch, op>>

ReviewFails ==
    /\ Unhindered("review") /\ Fault
    /\ \E e \in todo : todo' = todo \ {e}
    /\ UNCHANGED <<store, merges, torn, leftover, seen, at, pass, collecting, snap, queue, batch, op>>

\* Mutant: the story of an event that is to be split stays visible.
SplitVisible ==
    /\ Unhindered("review")
    /\ \E e \in todo :
          /\ Unused # {}
          /\ op' = Step("partition", e)
          /\ todo' = todo \ {e}
    /\ UNCHANGED <<store, history, at, pass, collecting, snap, queue, batch>>

\* An event is to be split: its story, if it has one, is hidden first.
Hide ==
    /\ Unhindered("review")
    /\ \E e \in todo :
          /\ Unused # {}
          /\ story' = IF story[e] = None THEN story ELSE [story EXCEPT ![e].hidden = TRUE]
          /\ op' = [Step("partition", e) EXCEPT
                       !.hidden = story[e] # None /\ story[e].hidden]
          /\ todo' = todo \ {e}
    /\ UNCHANGED <<stage, owner, failures, row, file, rejected, history,
                   at, pass, collecting, snap, queue, batch>>

\* One transaction moves the articles to their new events; the event keeps
\* some of them, and every part is without a checkpoint.
Partition ==
    /\ At("partition")
    /\ \E part \in [Members(op.event) -> Unused \cup {op.event}] :
          /\ op.event \in Range(part) /\ Cardinality(Range(part)) >= 2
          /\ owner' = [a \in Articles |->
                          IF a \in DOMAIN part THEN part[a] ELSE owner[a]]
          /\ row' = [e \in Events |-> IF e \in Range(part) THEN "unset" ELSE row[e]]
          /\ op' = [op EXCEPT !.step = "split files", !.left = Range(part)]
    /\ UNCHANGED <<stage, failures, file, story, rejected, history,
                   at, pass, collecting, snap, todo, queue, batch>>

\* The transaction fails: the story is written back as it was.
PartitionFails ==
    /\ At("partition") /\ Fault
    /\ story' = IF story[op.event] = None THEN story
                ELSE [story EXCEPT ![op.event].hidden = op.hidden]
    /\ op' = None
    /\ UNCHANGED <<stage, owner, failures, row, file, rejected, merges, torn, leftover, seen,
                   at, pass, collecting, snap, todo, queue, batch>>

\* A file of the partition cannot be written: the others are not either.
SplitFails ==
    /\ At("split files") /\ Fault
    /\ op' = None
    /\ UNCHANGED <<store, merges, torn, leftover, seen, at, pass, collecting, snap, todo, queue, batch>>

WriteSplit ==
    /\ At("split files")
    /\ \E e \in op.left :
          /\ file' = [file EXCEPT ![e] = [articles |-> Members(e), reviewed |-> Members(e)]]
          /\ op' = IF op.left = {e} THEN None ELSE [op EXCEPT !.left = @ \ {e}]
    /\ UNCHANGED <<stage, owner, failures, row, story, rejected, history,
                   at, pass, collecting, snap, todo, queue, batch>>

--------------------------------------------------------------------------------
(* Merging duplicates.  Which event wins is decided by article counts read   *)
(* at the start of the stage, which earlier merges may have changed: open.   *)

\* Pairs the review may be asked about: both still have a row and articles.
\* Without the winner's file the merge is given up before it writes.
Mergeable(w, l) ==
    /\ w # l /\ {w, l} \subseteq Live
    /\ Members(w) # {} /\ Members(l) # {}
    /\ file[w] # None

Merge ==
    /\ Unhindered("dedup") /\ merges < MaxMerges
    /\ \E w, l \in Live :
          /\ Mergeable(w, l)
          /\ owner' = [a \in Articles |-> IF owner[a] = l THEN w ELSE owner[a]]
          /\ row' = [row EXCEPT ![l] = "none"]
          /\ op' = [Step("loser file", w) EXCEPT !.other = l]
          /\ torn' = (torn \ {l}) \cup {w} /\ leftover' = leftover \cup {l}
    /\ merges' = merges + 1
    /\ UNCHANGED <<stage, failures, file, story, rejected, faults, seen,
                   at, pass, collecting, snap, todo, queue, batch>>

UnlinkLoser ==
    /\ At("loser file")
    /\ file' = [file EXCEPT ![op.other] = None]
    /\ Continue("loser story")
    /\ UNCHANGED <<stage, owner, failures, row, story, rejected, history,
                   at, pass, collecting, snap, todo, queue, batch>>

UnlinkLoserStory ==
    /\ At("loser story")
    /\ story' = [story EXCEPT ![op.other] = None]
    /\ leftover' = leftover \ {op.other}
    /\ Continue("winner file")
    /\ UNCHANGED <<stage, owner, failures, row, file, rejected, faults, merges, torn, seen,
                   at, pass, collecting, snap, todo, queue, batch>>

WriteWinner ==
    /\ At("winner file")
    /\ file' = [file EXCEPT ![op.event] = Grown(@, Members(op.event))]
    /\ Continue("winner row")
    /\ UNCHANGED <<stage, owner, failures, row, story, rejected, history,
                   at, pass, collecting, snap, todo, queue, batch>>

\* updated_at becomes the later of the two events': later than the winner's
\* checkpoint or not.
UpsertWinner ==
    /\ At("winner row")
    /\ \E later \in BOOLEAN :
          row' = IF later THEN [row EXCEPT ![op.event] = Upserted(@)] ELSE row
    /\ Continue("requeue")
    /\ UNCHANGED <<stage, owner, failures, file, story, rejected, history,
                   at, pass, collecting, snap, todo, queue, batch>>

\* The winner's checkpoint is cleared last.
Requeue ==
    /\ At("requeue")
    /\ row' = [row EXCEPT ![op.event] = "unset"]
    /\ torn' = torn \ {op.event}
    /\ op' = None
    /\ UNCHANGED <<stage, owner, failures, file, story, rejected, faults, merges, leftover, seen,
                   at, pass, collecting, snap, todo, queue, batch>>

\* An exception in a merge ends the duplicate review, not the run.
MergeFails ==
    /\ at = "dedup" /\ op # None /\ Fault
    /\ op' = None
    /\ UNCHANGED <<store, merges, torn, leftover, seen, at, pass, collecting, snap, todo, queue, batch>>

================================================================================
