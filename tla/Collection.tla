------------------------------ MODULE Collection -------------------------------
(***************************************************************************)
(* pipeline/collect.py: one collector run.  Its tasks share one event      *)
(* loop, so what a task does between two awaits is one action: the checks  *)
(* before the page is fetched (Begin...), and those after it, up to the    *)
(* write of the file.  The row follows the file without an await, but a    *)
(* crash can fall between the two.                                         *)
(***************************************************************************)
EXTENDS ArticleStore

Listed(f) == {e \in Entries : SourceOf[e] = f /\ ListedFrom[e] <= version[f]}
At(e) == IF PublishedAt[e] = None THEN now ELSE PublishedAt[e]
TooOld(e) == PublishedAt[e] # None /\ Older(PublishedAt[e], days)

\* find_article_by_url_or_guid: the articles stored from the entry's link, or
\* under it, or from an entry of the same feed with its guid.
KnownAs(e) ==
    {u \in Rows :
        \/ u = LinkOf[e] \/ LinkOf[rows[u].by] = LinkOf[e]
        \/ SourceOf[rows[u].by] = SourceOf[e] /\ GuidOf[rows[u].by] = GuidOf[e]}

NewRow(file) == [by |-> file.by, at |-> file.at, digest |-> "none",
                 state |-> "pending", event |-> None, errors |-> 0]

\* Entries whose page is the page of one of E: their tasks may have relied on it.
SamePage(E) == {e \in Entries : \E d \in E : PageOf[LinkOf[e]] = PageOf[LinkOf[d]]}

\* The run begins with the files of archived events' old articles.
StartCollect ==
    /\ Idle /\ next = "collect" /\ stage' = "collect"
    /\ LET old == {u \in Archived : Older(rows[u].at, days)}
       IN  files' = [p \in Paths |-> IF \E u \in old : p = PathOf(u) THEN None ELSE files[p]]
    /\ fetching' = Feeds /\ seenIds' = {}
    /\ UNCHANGED <<world, etag, rows, events, completed, next, op, faults, waiting, reading,
                   excused, work>>

\* The validator is saved before the entries are looked at.  A reservation
\* that a failed task has left lasts until the run ends.
FetchFeed(f) ==
    /\ In("collect") /\ f \in fetching /\ etag[f] # version[f]
    /\ etag' = [etag EXCEPT ![f] = version[f]]
    /\ fetching' = fetching \ {f}
    /\ waiting' = waiting \cup Listed(f)
    /\ excused' = excused \ {e \in Listed(f) : {LinkOf[e], PageOf[LinkOf[e]]} \cap seenIds = {}}
    /\ UNCHANGED <<world, data, stage, next, op, faults, reading, seenIds, work>>

\* 304, or the feed cannot be fetched.
NoFeed(f) ==
    /\ In("collect") /\ f \in fetching
    /\ \/ etag[f] = version[f] /\ UNCHANGED faults
       \/ Fault
    /\ fetching' = fetching \ {f}
    /\ UNCHANGED <<world, etag, data, stage, next, op, waiting, reading, seenIds, excused, work>>

--------------------------------------------------------------------------------
\* Mutant: a file on disk counts as known.
SkipFile(e, u, file) == seenIds' = seenIds \cup {u} /\ UNCHANGED <<rows, faults, excused>>

\* A file without a row gets one, from what the file says; if the insert fails
\* the entry is skipped all the same.
SkipOnDisk(e, u, file) ==
    /\ seenIds' = seenIds \cup {u}
    /\ IF u \in seenIds \cup Rows THEN UNCHANGED <<rows, faults, excused>>
       ELSE \/ rows' = [rows EXCEPT ![u] = NewRow(file)] /\ UNCHANGED <<faults, excused>>
            \/ Fault /\ excused' = excused \cup SamePage({e}) /\ UNCHANGED rows

OnDisk(u, at) == files[Path(u, at)]

\* The checks that need no page: an entry is too old, known, or taken by
\* another task, or its task reserves the id of its link and goes on.
Begin(e) ==
    /\ In("collect") /\ e \in waiting
    /\ waiting' = waiting \ {e}
    /\ \E match \in IF KnownAs(e) = {} THEN {None} ELSE KnownAs(e) :
         LET u == LinkOf[e]
             known == match # None /\ (match \in seenIds \/ HasFile(match))
             disk == OnDisk(u, At(e))
         IN  \/ TooOld(e) /\ UNCHANGED <<rows, faults, reading, seenIds, excused>>
             \/ /\ ~ TooOld(e) /\ known
                /\ seenIds' = seenIds \cup {match}
                /\ UNCHANGED <<rows, faults, reading, excused>>
             \/ /\ ~ TooOld(e) /\ ~ known /\ disk # None
                /\ SkipOnDisk(e, u, disk)
                /\ UNCHANGED reading
             \/ /\ ~ TooOld(e) /\ ~ known /\ disk = None
                /\ IF u \in seenIds \cup Rows THEN UNCHANGED <<reading, seenIds>>
                   ELSE reading' = reading \cup {e} /\ seenIds' = seenIds \cup {u}
                /\ UNCHANGED <<rows, faults, excused>>
    /\ UNCHANGED <<world, etag, files, events, completed, stage, next, op, fetching, work>>

\* Where the article ends up: a page that cannot be fetched leaves the link.
Resolved(e) == IF e \in FullText THEN {LinkOf[e]} ELSE {LinkOf[e], PageOf[LinkOf[e]]}

Finish(e) ==
    /\ In("collect") /\ e \in reading
    /\ reading' = reading \ {e}
    /\ \E u \in Resolved(e) :
         LET disk == OnDisk(u, At(e))
         IN  \/ /\ disk # None
                /\ SkipOnDisk(e, u, disk)
                /\ UNCHANGED <<files, op>>
             \/ /\ disk = None /\ u # LinkOf[e] /\ u \in seenIds \cup Rows
                /\ UNCHANGED <<rows, files, seenIds, faults, excused, op>>
             \/ /\ disk = None /\ (u = LinkOf[e] \/ u \notin seenIds \cup Rows)
                /\ seenIds' = seenIds \cup {u}
                /\ files' = [files EXCEPT ![Path(u, At(e))] =
                               [by |-> e, at |-> At(e), text |-> TRUE, digest |-> FALSE]]
                /\ op' = [step |-> "insert", url |-> u, path |-> Path(u, At(e))]
                /\ UNCHANGED <<rows, faults, excused>>
    /\ UNCHANGED <<world, etag, events, completed, stage, next, fetching, waiting, work>>

\* INSERT OR IGNORE
Insert ==
    /\ stage = "collect" /\ op # None
    /\ rows' = IF op.url \in Rows THEN rows ELSE [rows EXCEPT ![op.url] = NewRow(files[op.path])]
    /\ op' = None
    /\ UNCHANGED <<world, etag, files, events, completed, stage, next, faults, collector, excused, work>>

\* The insert fails: the file goes, the reservation stays.
InsertFails ==
    /\ stage = "collect" /\ op # None /\ Fault
    /\ files' = [files EXCEPT ![op.path] = None]
    /\ excused' = excused \cup SamePage({files[op.path].by})
    /\ op' = None
    /\ UNCHANGED <<world, etag, rows, events, completed, stage, next, collector, work>>

EndCollect ==
    /\ In("collect") /\ fetching \cup waiting \cup reading = {}
    /\ Leave("digest") /\ seenIds' = {}
    /\ UNCHANGED <<world, etag, data, op, faults, fetching, waiting, reading, excused, work>>

Collecting ==
    \/ StartCollect \/ Insert \/ InsertFails \/ EndCollect
    \/ \E f \in Feeds : FetchFeed(f) \/ NoFeed(f)
    \/ \E e \in Entries : Begin(e) \/ Finish(e)

\* An entry has an article: its page, or one that it is known as; or is too old.
Stored(e) ==
    \/ PublishedAt[e] # None /\ Older(PublishedAt[e], Retention)
    \/ PageOf[LinkOf[e]] \in Rows \/ KnownAs(e) # {}

\* Every entry of a feed whose validator is current has an article: the next
\* run will not be given it again.  Only the entries of a task that failed or
\* was cut off are excused, and those that share its page.
ListedMeansStored ==
    stage = "idle" =>
        \A f \in Feeds : etag[f] = version[f] => \A e \in Listed(f) \ excused : Stored(e)
================================================================================
