------------------------------ MODULE DigestStage ------------------------------
(***************************************************************************)
(* pipeline/digest.py: one digest stage.  Candidates are looked at one by  *)
(* one: a reprint of a digested article copies its digest, a reprint of a  *)
(* candidate waits for it, and the others go to the model in parallel,     *)
(* whose answers the main thread takes one at a time.  A digest goes to    *)
(* the article's file, then to its row.  The prompt version does not       *)
(* change, and the answers the review rejects are among the failures.      *)
(***************************************************************************)
EXTENDS ArticleStore

Text(u) == TextOf[rows[u].by]
AddDigest(u) == [files EXCEPT ![PathOf(u)].digest = TRUE]

\* _digest_candidate_rows
StartDigest ==
    /\ Idle /\ next = "digest" /\ stage' = "digest"
    /\ todo' = {u \in Kept : rows[u].digest \in {"none", "failed"} /\ rows[u].at >= Midnight(days)}
    /\ UNCHANGED <<world, etag, data, next, op, faults, collector, excused,
                   plan, batch, deferred, missed, answered>>

\* Digested articles with u's text; the lookup reads the file of one of them,
\* and remembers within the stage when it finds nothing.
Donors(u) == {v \in Kept : Text(v) = Text(u) /\ rows[v].digest = "completed"}
HasDigest(v) == HasFile(v) /\ files[PathOf(v)].digest

Copy ==
    /\ In("digest")
    /\ \E u \in todo :
         /\ Text(u) \notin missed /\ \E v \in Donors(u) : HasDigest(v)
         /\ todo' = todo \ {u}
         /\ IF HasFile(u) THEN files' = AddDigest(u) /\ op' = [step |-> "record", url |-> u]
            ELSE UNCHANGED <<files, op>>
    /\ UNCHANGED <<world, etag, rows, events, completed, stage, next, faults, collector, excused,
                   plan, batch, deferred, missed, answered>>

LookupFails(u) == Text(u) \in missed \/ Donors(u) = {} \/ \E v \in Donors(u) : ~ HasDigest(v)
NeverReprint(u) == FALSE \* mutant: every candidate goes to the model
IsReprint(u) == \E c \in batch : Text(c) = Text(u)

Skipped(r) == [r EXCEPT !.digest = "skipped", !.state = IF @ = "assigned" THEN @ ELSE "dropped"]
Done(r) == [r EXCEPT !.digest = "completed", !.state = IF @ = "assigned" THEN @ ELSE "pending"]

\* _load_article_for_pipeline_digest
Load ==
    /\ In("digest")
    /\ \E u \in todo :
         LET f == files[PathOf(u)]
             drop == f = None \/ Text(u) \in Unusable \/ rows[u].errors >= MaxRetries
         IN  /\ LookupFails(u)
             /\ missed' = missed \cup {Text(u)} /\ todo' = todo \ {u}
             /\ \/ IsReprint(u) /\ deferred' = deferred \cup {u} /\ UNCHANGED <<rows, batch>>
                \/ /\ ~ IsReprint(u)
                   /\ drop \/ ~ (f.digest \/ f.text)
                   /\ rows' = [rows EXCEPT ![u] = Skipped(@)]
                   /\ UNCHANGED <<batch, deferred>>
                \/ /\ ~ IsReprint(u) /\ ~ drop /\ f.digest
                   /\ rows' = [rows EXCEPT ![u] = Done(@)]
                   /\ UNCHANGED <<batch, deferred>>
                \/ /\ ~ IsReprint(u) /\ ~ drop /\ ~ f.digest /\ f.text
                   /\ batch' = batch \cup {u}
                   /\ UNCHANGED <<rows, deferred>>
    /\ UNCHANGED <<world, etag, files, events, completed, stage, next, op, faults, collector,
                   excused, plan, answered>>

\* An answer is taken: its file, and with Record its row.
Answer ==
    /\ In("digest") /\ todo = {}
    /\ \E u \in batch :
         /\ files' = AddDigest(u)
         /\ op' = [step |-> "record", url |-> u]
         /\ batch' = batch \ {u} /\ answered' = answered \cup {Text(u)}
    /\ UNCHANGED <<world, etag, rows, events, completed, stage, next, faults, collector, excused,
                   todo, plan, deferred, missed>>

\* A request fails, and its reprints with it; only it counts a failure.
AnswerFails ==
    /\ In("digest") /\ todo = {} /\ Fault
    /\ \E u \in batch :
         LET reprints == {d \in deferred : Text(d) = Text(u)}
         IN  /\ rows' = [v \in Urls |->
                    IF v = u THEN [rows[v] EXCEPT !.digest = "failed", !.errors = @ + 1]
                    ELSE IF v \in reprints THEN [rows[v] EXCEPT !.digest = "failed"] ELSE rows[v]]
             /\ batch' = batch \ {u} /\ deferred' = deferred \ reprints
    /\ UNCHANGED <<world, etag, files, events, completed, stage, next, op, collector, excused,
                   todo, plan, missed, answered>>

Record ==
    /\ stage = "digest" /\ op # None
    /\ rows' = [rows EXCEPT ![op.url] = Done(@)]
    /\ op' = None
    /\ UNCHANGED <<world, etag, files, events, completed, stage, next, faults, collector, excused,
                   work>>

CopyDeferred ==
    /\ In("digest")
    /\ \E d \in deferred :
         /\ Text(d) \in answered
         /\ deferred' = deferred \ {d}
         /\ IF HasFile(d) THEN files' = AddDigest(d) /\ op' = [step |-> "record", url |-> d]
            ELSE UNCHANGED <<files, op>>
    /\ UNCHANGED <<world, etag, rows, events, completed, stage, next, faults, collector, excused,
                   todo, plan, batch, missed, answered>>

EndDigest ==
    /\ In("digest") /\ todo \cup batch \cup deferred = {}
    /\ Leave("aggregate")
    /\ missed' = {} /\ answered' = {}
    /\ UNCHANGED <<world, etag, data, op, faults, collector, excused, todo, plan, batch, deferred>>

Digesting ==
    StartDigest \/ Copy \/ Load \/ Answer \/ AnswerFails \/ Record \/ CopyDeferred \/ EndDigest

\* The model is asked for one digest of a text in a stage, however many
\* articles have it, and whichever of them are looked at first.
OneCallPerText ==
    \A u \in batch :
        /\ Text(u) \notin answered
        /\ \A v \in batch : Text(v) = Text(u) => v = u
================================================================================
