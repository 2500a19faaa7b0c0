----------------------------- MODULE ArticleStore ------------------------------
(***************************************************************************)
(* An article on its way from a feed to an event: the files under the      *)
(* article directory, the article and event rows (pipeline/state.py), and  *)
(* the state of the stages that write them.  Time is counted in half days. *)
(*                                                                         *)
(* Stages run one after another under the pipeline lock.  The collection   *)
(* thread that a run has next to them is in PipelineRun.                   *)
(***************************************************************************)
EXTENDS Naturals, FiniteSets, FiniteSetsExt, Functions

CONSTANTS
    Feeds, Entries, Urls, Events, None,
    SourceOf,     \* the feed that lists an entry
    ListedFrom,   \* the version of its feed that lists it first
    LinkOf,       \* its link, as a canonical URL
    PageOf,       \* the URL a fetch of a URL ends at, after redirects
    GuidOf,       \* its guid within the feed
    TextOf,       \* its text: the same for reprints
    PublishedAt,  \* when it was published, None for an undated entry
    FullText,     \* entries whose feed text is complete: no page is fetched
    Unusable,     \* texts the digest stage drops: too thin, video pages, old pages
    Irrelevant,   \* texts whose impact is below the floor of their category
    Retention,    \* retention.staging_article_days
    StaleAfter, ArchiveAfter, \* stale_threshold_hours, archived_event_days
    StepSize, Overlap,        \* window_step_hours (= window_hours), overlap
    MaxRetries,   \* pipeline.max_item_retries
    MaxVersion,   \* bound: how often each feed changes
    MaxNow, MaxFaults \* bounds on the clock and the failures

ASSUME ArticleStoreAssumption ==
    /\ PageOf \in [Urls -> Urls] /\ \A u \in Urls : PageOf[PageOf[u]] = PageOf[u]
    /\ SourceOf \in [Entries -> Feeds] /\ LinkOf \in [Entries -> Urls]
    /\ \A e \in Entries : ListedFrom[e] \in 1 .. MaxVersion[SourceOf[e]]
    /\ FullText \subseteq Entries
    /\ PublishedAt \in [Entries -> 0 .. MaxNow \cup {None}]
    /\ Retention \in Nat \ {0} /\ StepSize \in Nat \ {0} /\ Overlap \in Nat
    /\ StaleAfter \in Nat /\ ArchiveAfter \in Nat /\ MaxRetries \in Nat
    /\ MaxVersion \in [Feeds -> Nat \ {0}] /\ MaxNow \in Nat /\ MaxFaults \in Nat

VARIABLES
    now, days,   \* the clock; the retention, which an operator may raise
    version,     \* version[f]: the feed as its publisher serves it
    etag,        \* etag[f]: the validator in feed_state, 0 for none
    rows,        \* rows[u]: the row of the article whose id is made from u
    files,       \* files[<<u, day>>]: the article's file
    events,      \* events[v]: status and updated_at
    completed,   \* starts of the windows that are completed
    stage, next, \* the stage that is running, and the one that is next
    op,          \* the write between a file and its row
    faults,
    \* the collector
    fetching, waiting, reading, seenIds, \* its feeds and entries, seen_article_ids
    excused,     \* history: entries whose task failed or was cut off
    \* the other stages
    todo, plan, batch, deferred, missed, \* articles, windows; reprints; the lookup cache
    answered     \* history: texts the model digested in this stage

collector == <<fetching, waiting, reading, seenIds>>
work == <<todo, plan, batch, deferred, missed, answered>>
data == <<rows, files, events, completed>>
world == <<now, days, version>>
lifeVars == <<world, etag, data, stage, next, op, faults, collector, excused, work>>

Stages == {"idle", "lifecycle", "restore", "expire", "reconcile", "compact", "collect", "digest", "aggregate"}
Days == 0 .. MaxNow \div 2
Paths == Urls \X Days

Row == [by : Entries, at : 0 .. MaxNow, digest : {"none", "failed", "completed", "skipped"},
        state : {"pending", "assigned", "filtered", "dropped", "expired"}, event : Events \cup {None},
        errors : 0 .. MaxRetries]
File == [by : Entries, at : 0 .. MaxNow, text : BOOLEAN, digest : BOOLEAN]
Starts == {StepSize * k : k \in 0 .. MaxNow \div StepSize}

\* What op may be: a file without its row, a row behind its file, an open window.
Insertions == [step : {"insert"}, url : Urls, path : Paths]
Recordings == [step : {"record"}, url : Urls]
Openings == [step : {"window"}, start : Starts]

ASSUME NoneAssumption ==
    /\ None \notin 0 .. MaxNow /\ None \notin Urls /\ None \notin Events
    /\ None \notin Row /\ None \notin File
    /\ None \notin Insertions /\ None \notin Recordings /\ None \notin Openings

StoreTypeOK ==
    /\ now \in 0 .. MaxNow /\ days \in {Retention, Retention + 1}
    /\ version \in [Feeds -> Nat \ {0}] /\ etag \in [Feeds -> Nat]
    /\ \A f \in Feeds : etag[f] <= version[f] /\ version[f] <= MaxVersion[f]
    /\ rows \in [Urls -> Row \cup {None}] /\ files \in [Paths -> File \cup {None}]
    /\ events \in [Events -> [status : {"none", "active", "stale", "archived"}, updated : 0 .. MaxNow]]
    /\ completed \subseteq Starts /\ plan \subseteq Starts
    /\ stage \in Stages /\ next \in Stages
    /\ op \in Insertions \cup Recordings \cup Openings \cup {None}
    /\ faults \in 0 .. MaxFaults
    /\ fetching \subseteq Feeds /\ waiting \cup reading \cup excused \subseteq Entries
    /\ todo \cup batch \cup deferred \cup seenIds \subseteq Urls

--------------------------------------------------------------------------------
Rows == {u \in Urls : rows[u] # None}
Path(u, at) == <<u, at \div 2>>
PathOf(u) == Path(u, rows[u].at)
HasFile(u) == files[PathOf(u)] # None

\* The start of the day that is d days before today.
Midnight(d) == IF now \div 2 < d THEN 0 ELSE 2 * (now \div 2 - d)
Older(at, d) == at + 2 * d < now
Open == {u \in Rows : rows[u].state = "pending"}
Kept == {u \in Rows : rows[u].state \in {"pending", "assigned"}}
\* Mutant: what is older than the retention does not count.
RecentMembers(v) == {u \in Rows : rows[u].event = v /\ rows[u].at >= Midnight(days)}
Members(v) == {u \in Rows : rows[u].event = v}
Live == {v \in Events : events[v].status \in {"active", "stale"}}
Archived == {u \in Rows : rows[u].event # None /\ events[rows[u].event].status = "archived"}

Fault == faults < MaxFaults /\ faults' = faults + 1
Idle == stage = "idle" /\ op = None
In(s) == stage = s /\ op = None
Leave(s) == stage' = "idle" /\ next' = s

\* An article that has an event is assigned and the other way round, and its
\* event is not gone: whatever reconciliation, forced runs and crashes remove,
\* no row is left behind that refers to it.
EventsLinked ==
    \A u \in Rows :
        /\ (rows[u].event # None) = (rows[u].state = "assigned")
        /\ rows[u].event # None => events[rows[u].event].status # "none"
================================================================================
