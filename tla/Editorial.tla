------------------------------- MODULE Editorial -------------------------------
(***************************************************************************)
(* pipeline/editorial.py: an event whose checkpoint is behind gets a story,*)
(* or its story's list of sources is brought up to date.                   *)
(*                                                                         *)
(* A story is the set of articles its prose rests on ("basis") and the set *)
(* it links to ("sources").  What the models write, whether they find an   *)
(* update material and whether the verification approves is open.  Left    *)
(* out: the hold on new single-article events and the choice of categories *)
(* to fill (every event with an article is eligible), the backfill of old  *)
(* stories, operator overrides, usage records and the homepage curation.   *)
(***************************************************************************)
EXTENDS EventStore

\* An event the verification turned down waits: six hours for its second
\* attempt, and after that for other articles.
Deferred(e) ==
    /\ rejected[e] # None
    /\ rejected[e].input = Members(e)
    /\ rejected[e].attempts >= 2 \/ rejected[e].cooling

NeedsEditorial(e) ==
    row[e] \in {"unset", "updated"} /\ Members(e) # {} /\ ~ Deferred(e)

\* The checkpoint moves to the present.
Checkpoint(e) ==
    /\ row' = [row EXCEPT ![e] = "current"]
    /\ seen' = [seen EXCEPT ![e] = Members(e)]
    /\ torn' = torn \ {e}

\* A verified story keeps its prose and gains links ...
Refresh ==
    /\ Unhindered("edit")
    /\ \E e \in todo :
          /\ story[e] # None /\ ~ story[e].hidden
          /\ story' = [story EXCEPT ![e].sources = @ \cup Members(e)]
          /\ op' = Step("unreject", e)
          /\ todo' = todo \ {e}
    /\ UNCHANGED <<stage, owner, failures, row, file, rejected, history,
                   at, pass, collecting, snap, queue, batch>>

\* ... then its rejection is forgotten ...
Unreject ==
    /\ At("unreject")
    /\ rejected' = [rejected EXCEPT ![op.event] = None]
    /\ Continue("mark")
    /\ UNCHANGED <<stage, owner, failures, row, file, story, history,
                   at, pass, collecting, snap, todo, queue, batch>>

\* ... and the checkpoint advances, as it does after a new story.
Mark ==
    /\ At("mark")
    /\ Checkpoint(op.event)
    /\ op' = None
    /\ UNCHANGED <<stage, owner, failures, file, story, rejected, faults, merges, leftover,
                   at, pass, collecting, snap, todo, queue, batch>>

\* Articles the story does not know.
NewArticles(e) == Members(e) \ story[e].sources

\* The update gate keeps a hidden story as it is: it asks the model only
\* when the event has an article the story does not list.
GateSkips ==
    /\ Unhindered("edit")
    /\ \E e \in todo :
          /\ story[e] # None /\ story[e].hidden
          /\ Checkpoint(e)
          /\ todo' = todo \ {e}
    /\ UNCHANGED <<stage, owner, failures, file, story, rejected, faults, merges, leftover,
                   at, pass, collecting, snap, queue, batch, op>>

Generable(e) == story[e] # None => story[e].hidden /\ NewArticles(e) # {}

\* An approved draft: the rejection goes first ...
Approve ==
    /\ Unhindered("edit")
    /\ \E e \in todo :
          /\ Generable(e)
          /\ rejected' = [rejected EXCEPT ![e] = None]
          /\ op' = Step("story", e)
          /\ todo' = todo \ {e}
    /\ UNCHANGED <<stage, owner, failures, row, file, story, history,
                   at, pass, collecting, snap, queue, batch>>

\* ... then the story replaces what was there; it rests on the articles the
\* evidence quotes.
WriteStory ==
    /\ At("story")
    /\ \E used \in (SUBSET Members(op.event)) \ {{}} :
          story' = [story EXCEPT ![op.event] =
                       [basis |-> used, sources |-> used, hidden |-> FALSE]]
    /\ leftover' = leftover \ {op.event}
    /\ Continue("mark")
    /\ UNCHANGED <<stage, owner, failures, row, file, rejected, faults, merges, torn, seen,
                   at, pass, collecting, snap, todo, queue, batch>>

Attempts(e) ==
    IF rejected[e] # None /\ rejected[e].input = Members(e) THEN rejected[e].attempts ELSE 0

\* The evidence or the draft does not stand.
Reject ==
    /\ Unhindered("edit")
    /\ \E e \in todo :
          /\ Generable(e)
          /\ rejected' = [rejected EXCEPT ![e] =
                [input |-> Members(e), attempts |-> Attempts(e) + 1, cooling |-> TRUE]]
          /\ todo' = todo \ {e}
    /\ UNCHANGED <<stage, owner, failures, row, file, story, history,
                   at, pass, collecting, snap, queue, batch, op>>

\* No model answers: the event stays as it was.
StoryFails ==
    /\ Unhindered("edit") /\ Fault
    /\ \E e \in todo : Generable(e) /\ todo' = todo \ {e}
    /\ UNCHANGED <<store, merges, torn, leftover, seen, at, pass, collecting, snap, queue, batch, op>>

================================================================================
