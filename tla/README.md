# A verification project for news-tldr

TLA+ models of news-tldr, TLC configurations that check them on small
instances, and theorems about them with proofs for TLAPS. Paths are relative to
the repository root, and `AG`, `ED`, ... below stand for files of `pipeline/`
(`aggregate.py`, `editorial.py`).

news-tldr is an hourly news pipeline in Python. It collects feeds into SQLite
and JSON files, writes a digest of each article with a language model, groups
articles into events, reviews and merges events, writes one story per event and
builds a static site. The site carries a reader script (JavaScript inside
`pipeline/present.py`) that remembers what has been read and, if the reader
asks for it, synchronizes that between browsers through a small PHP service with
a database of its own. Separate processes, started by cron, evaluate alternative
models.

To run it: `tlc -config LockRace.cfg PipelineLockMC` (section 4 has the module of
each configuration) and `tlapm PipelineProofs.tla`.

## 1. Inventory

What each part keeps, what it does, what is hard about it, and what makes it
correct. "Modelled" names the module of section 3.

| Part | State | Operations | Hard | Correct means | Modelled |
|---|---|---|---|---|---|
| **Pipeline lock** `pipeline/lock.py`, `scripts/run-scheduled.sh` | `data/state/pipeline.lock`: pid, start ticks, boot id, host, time | acquire, judge a stale lock, watchdog kill, release, preflight | system calls of several processes interleave; crash, reboot and pid reuse between them; the holder expires | one holder; the watchdog ends only whom it has verified; acquire ends; release removes only its own file | PipelineLock, Mutex |
| **Reader sync, browser** `pipeline/present.py` (reader script) | `localStorage` (viewed, watermark, revision, token), page memory, the request in flight | load, mark, compact, merge request, answer, failure, page close; create, import, disconnect, delete a group | lost, late and repeated requests; pages that share storage; expiry while a page is open | nothing unread looks read; reads reach the origin; a revision means its content is known | ReadState, ReadSync, SyncSession |
| **Reader sync, origin** `server/sync/*.php` | `sync_groups` rows, daily counters | create, merge, delete, cleanup | cleanup beside merges; limits; idle groups expire | the revision names the content; only the oldest reads go | ReadState, ReadSync, SyncSession |
| **Static site** `pipeline/present.py` (build, deploy) | `dist/`, backups, published directory, its manifest, `runs` row | render, swap directories, copy, prune, publish home | stop at any system call; caches hold old pages | home never links to a missing page; assets stay; a success is complete | StaticSite |
| **Free-model admission** `pipeline/free_routing.py` | quota, pacing, cooldowns, slots, the queue of tickets | reserve, release, fail, refresh metadata, fall back | threads, deadlines, a lagging counter, midnight | every report of the quota covers the admissions; no slot leaks; cooldowns and waits honoured; every call ends | FreeAdmission |
| **Jev shadow** `pipeline/jev_shadow.py` | attempt files, `result.json`, `cooldown.json`, `llm_usage` rows | capture, reserve, send, correct, account, limit, decide, reconcile | a paid request and a crash; threads share a budget; midnight | budget kept; no attempt repeated blindly; every charge recorded once | JevShadow |
| **Orchestration** `pipeline/cli.py` | snapshot of rowids, collection thread, `runs` rows | maintenance, backlog passes, gates, final pass | a thread inserts while the passes run; a gate may block all new work | backlog first; a failure blocks nothing for ever | PipelineRun |
| **State database** `pipeline/state.py` | articles, events, rejections, errors, runs, feeds, fingerprints, usage, windows | one transaction per operation | JSON files beside the rows are written separately | rows and files agree, or are made to | EventStore, ArticleStore, WindowPlan, Dedup (all tables but usage, evidence and fingerprints) |
| **Collection** `pipeline/collect.py`, `sources.py`, `scrapers/` | feeds, article files and rows, identities | fetch, canonicalize, deduplicate, store, record errors | file before row; redirects, republication, retries | what a feed lists and stays listed is stored, once | Collection, ArticleStore; PipelineRun (its effect beside the stages) |
| **Digest** `pipeline/digest.py` | digest files, errors | select, generate, review, copy for reprints, filter, give up | failures are counted over runs | every article is digested, filtered or given up; no text is paid for twice in a run | DigestStage; PipelineRun |
| **Aggregation** `pipeline/aggregate.py`, `coherence.py`, `local_curation.py` | event rows and files, articles' event ids, windows, stored reviews | plan windows, propose and apply groups, guard extensions, split, find and merge duplicates, reset | multi-step writes; proposals contradict the store; decisions taken in parallel and applied in turn | no implicit merge; no mixed story is visible; every waiting article is in a planned window; merges are what was reviewed | Aggregation, WindowPlan, Dedup |
| **Editorial** `pipeline/editorial.py`, `evidence.py` | story files, checkpoints, rejections, holds, active index | candidates, update gate, generate, verify, checkpoint, reject, defer, curate | checkpoint, story and rejection are separate writes | no article is skipped; two attempts per input | Editorial |
| **Eligibility** `pipeline/eligibility.py` | admissions by category and hour | admit into gaps | kept after failures | hourly caps | planned (section 2) |
| **Maintenance** `pipeline/maintenance.py` | event files and rows, ages | reconcile, age, expire, restore, compact | runs after any interruption; the retention may be raised | files match rows again; text stays while it may be read | ArticleLife; PipelineRun (reconciliation) |
| **HTTP client** `pipeline/http_client.py`, `security.py` | time of the last request per domain | rate limit, retry, validate URLs | threads share the table | spacing per domain | planned (section 2) |
| **LLM clients** `pipeline/llm.py`, `claude.py`, `openrouter.py`, `jev.py` | circuits, outage window, usage | call, fall back, wait for a cheaper tier, open and close a circuit, pace | threads share circuits, an outage window and a pace | one window per outage; delays and pace kept; every call ends | GeminiChain, ClaudeRoute, JevRoute, ModelCalls (`openrouter.py`: FreeAdmission) |
| **Briefing packet** `pipeline/brief.py` | none of its own | takes the lock, reads | very long lock timeout | never killed by the watchdog's age rule | PipelineLock (`Patient`, `Preflight`) |
| **Operations reports** `pipeline/operations.py` | none | read-only reports | none | none | no |
| **Configuration, utilities** `config.py`, `paths.py`, `util.py` | none | parsing; `atomic_write_json` | rename is atomic | a file is old or new | as single steps |
| **Scripts** `scripts/*.py`, `install-sync-origin.sh` | none | administration, offline evaluation | none | none | no |

How they meet: every stage command, the combined run and the brief hold the
**pipeline lock** for their whole duration, so the pipeline's stages are
sequential except for the collection thread of a combined run and the worker
threads of one stage. Stages talk through the **store** only. **Presentation**
reads stories and writes its own directories. The **reader script** sees the site
only through the pages it is part of, and the **sync origin** only through merge
requests. Worker threads of digest and editorial share **free-model admission**, and behind
it the **LLM clients** with their circuits.
The **Jev shadow** worker has its own `flock` and shares the `llm_usage` table.

## 2. The plan

Order of work: what several actors touch at once first, then what a crash can
tear.

1. *Mutex, PipelineLock*, with proofs (done).
2. *ReadState, ReadSync*: read history on both sides of the network (done), with
   proofs.
3. *StaticSite*: build and deployment as system calls (done), with proofs.
4. *FreeAdmission, JevShadow*: worker threads, money and midnight (done), with
   proofs.
5. *EventStore, Aggregation, Editorial, PipelineRun*: the store, the stages and
   the run that composes them (done, without ages), with proofs.
6. *SyncSession*: tokens that come and go in a browser, several groups with
   their limits, deletion and expiry (done).
7. *ArticleStore, Collection, DigestStage, WindowPlan, ArticleLife*: an article from
   its feed to its end, with ages, retention and crashes (done), with proofs.
8. *Dedup*: candidates, stored reviews, rounds and merges (done), with proofs.
9. *GeminiChain, ClaudeRoute, JevRoute, ModelCalls*: what threads share when they
   call the paid models (done), with proofs.
10. *Eligibility*: admission slots by category and hour, gap admissions, holds.
    `generate_editorial_stories` admits at one instant and
    `editorial_candidate_rows` previews eligibility at a later one, so an event that
    becomes eligible in between is drafted without an admission row and left out
    of the public index until a later run: the module should say what an admission
    promises before the first draft.
11. *DomainPacing*: the per-domain rate limit of `http_client.py`.

What composes what: `SyncSession` extends `ReadSync`, which extends `ReadState`;
`Aggregation` and `Editorial` each extend `EventStore`, and `PipelineRun` extends
both and puts maintenance, collection and digest around them. `ArticleLife` extends
`Collection`, `DigestStage` and `WindowPlan`, which share `ArticleStore`: it looks at
the same run from the article's side, with days passing, where `PipelineRun` looks
at it from the event's. `ModelCalls` extends `ClaudeRoute` and `JevRoute`, which
share `GeminiChain`. `PipelineLock` implements `Mutex`, which is what
`PipelineRun`, `ArticleLife`, `Dedup` and `StaticSite` rely on when they let one
run happen at a time.

Abstract specifications worth stating: the mutex (done); a grow-only read
history with expiry, for ReadSync; a queue of articles each settled once, for
PipelineRun and ArticleLife; a budget that only reservations lower, for
JevShadow and FreeAdmission.

Proved: every safety property of PipelineLock, ReadSync, StaticSite, FreeAdmission,
SyncSession, JevShadow, PipelineRun, ArticleLife, Dedup and ModelCalls (section 5). What is
left to the model checker is at the end of section 5.

## 3. The modules

Each module names the code it translates in its heading; `PROJECT.json` maps every
definition to its lines. Operators that a comment calls a mutant are not part of
the model: each is a plausible bug in the definition below it, and putting it in
that definition's place must make a property fail.

### PipelineLock, Mutex

A process is one command's life: `idle`, then optionally the scheduler's
`Preflight`, then `Create` (exclusive creation, the file is still empty),
`WritePayload`, `held`, `ReleaseRead`, `ReleaseUnlink`. A process that finds the
file goes through `Recover` (it reads the payload), `Decide` (host, boot, age and
identity of the writer) and `Unlink`, and tries again. The watchdog goes through
`Verify` (the identity is read once more), `Signal` (SIGTERM, sent to whoever has the
pid by then; it may fail, or find nobody) and `PollExit` (the poll that finds the
process gone, or the last one, after which SIGKILL is a second `Signal` with no check but
that poll, and more polls follow). The split is at the system calls of
`lock.py:67-180`, because that is where other processes can act. `Die`, `Reboot`
and `Age` are always possible, in every gap.

`file` names the creator of the file at `LOCK_PATH`, so that a payload
written to an unlinked inode stays out of a successor's file. `PidOf` gives the pid of a process,
which is free again when the process has exited, and `TicksOf` its start time: no two
processes of one boot have both, two of different boots may. A process
asks for the lock at most once, as every command does. The history variable `fresh` holds
the processes started since a watchdog last looked at the identity of the one it is about to
signal.

`Mutex` is the abstract specification: a set of processes inside, of at most
one. `Holders` refines it.

Left out: data lost because a power failure comes before `fsync` has reached the
disk, and processes other than the pipeline's that are given a reused pid (they are hit
in the same way).

### ReadState, ReadSync, SyncSession, ReadSyncProofs

`ReadState` holds the pure functions both sides apply to a read history: the
server's `normalizeState` and merge, the browser's compaction, payload and
absorption. A story revision is identified with its publication time, since
read orders are unique `milliseconds:id` strings compared in that order. A
history is the time of each read, the set of entries that carry an order and the
watermark. Where PHP and JavaScript truncate a history, `Newest` gives all sets
their sorts can leave.

`ReadSync` is the protocol for browsers that have their token: page `Open` (with
the opening request that applies the answer), `Mark`, `Send`, `Receive`, `Abort`,
`Close`, the origin's `Serve` and the daily `CleanupSelect`, `CleanupUpdate`.
`mergeGroup` is one `BEGIN IMMEDIATE` transaction, hence one action; the cleanup
selects and updates in separate statements outside any transaction, hence two. A
request the page has given up after eight seconds, or sent with `keepalive` while
it closes, is lost or moves to `stray`, from where it may be served at any later
time. `QuietSpec` is the protocol without a merge between the cleanup's two
statements. A group's row is `None` or a state, a revision and the time it
expires.

`SyncSession` adds how tokens come and go. In a page: `OpenLink` and `FollowLink`
(a link at page load, and in an open page, whose request `Join` waits for the one
in flight), `AskCreate` and `Created`, `AskDelete` and `Deleted`, `Disconnect`,
`AskFails`, `NoGroup` (a merge finds no group). In another page of the browser:
`Elsewhere`, and the storage event `Notice`. At the origin: `ServeCreate` (expiry,
the two limits, a new row and the daily counter in one transaction),
`ServeDelete`, `CleanupDelete`. `Peer` is the other members of a group. Tokens are never
issued twice (32 random bytes). `told` remembers the pages that learned
their token from a storage event: such a page sends nothing of its own until its
next mark, close or load, which `ReadsReachServer` says.

One behaviour the model has and no document promises: the answer to a creation or
a deletion changes whatever token the page has by then, so a link that is
followed meanwhile is forgotten again (`present.py:796`, `present.py:839`).

Left out: pages restored from the back/forward cache, disagreeing clocks, a
second request of the dialog while one is in flight (its buttons are disabled),
and a delete request that is served after it has failed. A story the site
withholds while later ones are read and that appears afterwards is hidden by the
watermark unread; the model has such stories (`Holdable`), and
`NeverHiddenUnread` states exactly that exception.

### StaticSite, StaticSiteProofs

One presentation at a time, under the lock: `Begin`, `Render`, the two renames
`MoveAside` and `Install`, `Discard`, then `ReadFiles`, `Copy` in path order,
`Prune`, `PublishHome`, `WriteManifest`, `Finish`; `Fail` and `Crash` at any step. A
file is abstracted to the number of the build it is from. `Archive` stands for
the pages whose path sorts before `assets/` (`404.html`, `archive/`): they are copied
before the assets they reference, so they are not among the pages
`CachedPagesStyled` speaks of. Temporary files and backups that a crash leaves are never
removed by the code, and `dist/` is missing between the two renames.

### FreeAdmission, FreeAdmissionProofs

One action per `with self._lock` block of `free_routing.py`, and one per step of
`generate_json` between them. The provider is an environment of which nothing is
assumed: it charges a request at some time while the request is in flight, or never, and
the counter it is asked for may report any number up to `Limit`, whatever it has charged or
reported before (`Reports`). The history variable `left` is the least that any report of the
day has left, with the requests charged since taken off. `ReportsCover` is what the code achieves:
a request is admitted only when that leaves room for it and for every other uncharged request in
flight. That the *provider's* quota is kept does not follow, and the code does not secure it: a
request that a worker has given up and the provider charges later, or one that is answered between
midnight and the day's first lookup and that the counter does not show yet, is in nobody's count
(`free_routing.py:111`). Metadata lookups take no model
time. The clock stops at `MaxNow`, so a run may end there: that is why its
configuration does not look for deadlocks.

Left out: the rules by which `ValidationSession` repairs an answer, and the HTTP
client below.

### JevShadow, JevShadowProofs

The worker process: `Start` (reads the files), `Reconcile` (accounts for what an
earlier process left), `Batch`, and per job `Loop`, `Reserve`, `Answer`, `Correct`,
`Insert`, `Flag`, `Limit`, `Judge`; `Crash` loses everything but the files and
rows. One reservation is one unit of the budget, the most a request can cost, and what a
day has cost is the number of its attempts that were charged that unit or still may be
(`MayHaveCost`): an attempt whose price is unknown counts in full. Left
out: capture (a single atomic write), and money below one unit. One thing the
model shows and no document promises: threads that are limited at the same
time each write `cooldown.json`, and the last write stands, also when it is the shortest.

### EventStore, Aggregation, Editorial, PipelineRun

`EventStore` is what the stages share. A row of `events` is abstracted to its
checkpoint (`unset`: `last_editorial_at` is null; `updated`: older than
`updated_at`; `current`), an event file to the articles it lists and those last
found coherent, a story to the articles its prose rests on, the articles
it links to and the mark `_pending_coherence`. SQLite transactions and atomically
replaced files are single steps; an operation with several of them keeps its
place in `op`, and a crash may fall between any two.

| Operation of the code | Steps of the model |
|---|---|
| `apply_grouping_result` (`AG:1571-1701`) | `TakeGroup` (divided by owners, guarded by the membership review), `SetAside` / `Replay` / `Found` / `Extend` (event file), `UpsertGroup`, `Assign` |
| `review_event_coherence` (`coherence.py:82-244`) | `Coherent`, or `Hide` (story file), `Partition` (one transaction; `PartitionFails` restores the story), `WriteSplit` (a file per part) |
| `merge_events` (`AG:3112-3160`) | `Merge` (transaction), `UnlinkLoser`, `UnlinkLoserStory`, `WriteWinner`, `UpsertWinner`, `Requeue` (checkpoint cleared) |
| `_refresh_frozen_sources` (`ED:364-392`) | `Refresh`, `Unreject`, `Mark` |
| `generate_story`, `_finish_story` | `GateSkips`, or `Approve`, `WriteStory`, `Mark`; `Reject`; `StoryFails` |
| `_reconcile_event_artifacts` (`maintenance.py:315-372`) | `DeleteEmpty`, `UnlinkEmpty`, `Reconcile`, `ReconcileFails` |
| `run_completed_pipeline` (`cli.py:202-387`) | `Start`, `Snapshot`, the `End...` actions, `EndBlocked`, `EndJoin`; `Collect` and `CollectDone` are its collection thread |

Whatever a model answers is open: any grouping, any target, any rejected
extension, any partition, any pair to merge, any verdict of the update gate and
of the verification. Windows, categories and impact scores only choose which
articles meet in one call and are part of that choice; the coherence limit of ten
reviews never binds at this size.

Left out: ages (in `ArticleLife`), windows (in `WindowPlan`), how duplicates are
found (in `Dedup`), eligibility and the hold on new single-article events, the
backfill and `--force`, homepage curation, dry runs, and the single-stage commands.

Two crashes inside `merge_events` have lasting effects. Between the winner's
upsert and the clearing of its checkpoint (`AG:3160`) a crash
leaves a winner whose story is never regenerated for the articles it gained.
Before the loser's story is unlinked (`AG:3117`) it leaves a story that a
later event with the same id takes for its own. No document promises recovery
here. The history variable `torn` holds the winners of merges broken off half-way,
until their checkpoint is set or cleared, and `leftover` the losers, until their story
is gone or replaced; `CheckpointSawMembers` speaks of the events that are not in
`torn`, `VisibleStoryIsClean` of those not in `leftover`. The two sets are apart
because an event can leave one and not the other: a loser whose id is taken
again may win a later merge, which clears its checkpoint and not its old story.

### ArticleStore, Collection, DigestStage, WindowPlan, ArticleLife

`ArticleStore` is what a run keeps of an article: the row, the file with its text
and its digest, the event rows and the completed windows. Time is counted in half
days; stages follow one another, and the clock moves between runs only.

| Operation of the code | Steps of the model |
|---|---|
| `collect_once`, `_collect_entry` (`collect.py`) | `StartCollect`; per feed `FetchFeed` (304 or a page, the ETag is saved) or `NoFeed`; per entry `Begin` (the checks before its page is fetched), `Finish` (those after it, up to the write of the file), `Insert` or `InsertFails` |
| `digest_once` (`digest.py`) | `StartDigest`, `Copy` (a digested reprint), `Load` (checked, sent, or deferred behind the same text), `Answer`, `AnswerFails`, `Record`, `CopyDeferred` |
| `aggregate_once` (`AG:650-1499`) | `StartAggregate` or `StartForced` (after the retention was raised), `OpenWindow`, `AssignEvent`, `NewEvent` or `WindowFails`, `CloseWindow`, `EndAggregate` |
| `run_maintenance` (`maintenance.py`) | `ApplyLifecycle`, `RestoreExpired`, `ExpireOld`, `ReconcileEvents`, `Compact` |

The tasks of one collector run share an event loop, so what a task does between two
awaits is one step; threads of the digest stage only hold answers that the main
thread takes one at a time. `Raise` is an operator who raises the retention.

Three behaviours the model shows and no document promises. A collector that dies
after it has saved a feed's ETag finds a 304 at its next fetch, and what that
version listed is not offered again until the feed changes. A task that fails
leaves its id reserved for the rest of the run, so another entry of the same page is
skipped until the next one. After a crash between a digest's file and its row
the cached lookup of a reprint can miss it, and the text is sent a second time.
`ListedMeansStored` and `OneCallPerText` except exactly these (`excused`, crashes).
And what a raised retention restores has no text if it was compacted before:
`TextKept` speaks of the retention of the configuration file, not of the raised one.

`EventsLinked` relates rows to events: an article has an event exactly when it is
assigned, and that event's row exists. Reconciliation and the forced reset delete
events by counting the articles that refer to them, whatever their age.

Left out: scrapers, similarity of URLs, the review of an answer by a second model,
a change of the prompt version, and undated files another day's crash has left.

### Dedup

`StartPass` computes the candidates from what the events say when the pass begins:
the cheap gates (`Gated`), then the prescreen in chunks of at most `Batch` around
`Anchors` (`Chunks`, `Screened`), cut to `MaxPairs` in order of priority after the pairs
that stored reviews settle (`Selections`, `Cached`). `NextRound` takes disjoint pairs;
`Approve` or `Decline` stores a review, `NoDecision` is an error, `Merge` applies an
approval to articles read again, `Rest` goes on, `EndPass` starts the next pass.
`Crash` and the other faults fall between any two.

The hazard (`AG:3430`): `record_deduplication_review` commits before
`merge_events` begins. A crash or an exception in between, or a winner
whose file cannot be read, leaves a stored approval; later runs take the pair for settled
and never apply it, while `docs/design.md:384` keeps reviews so that "unchanged negative pairs
are not paid for or retried every hour". `lost` holds the pairs a fault has hit, and
`ApprovalsApplied` says that there are no others.

Left out: more than one category group, ages, and the wording of prompts. Titles
and counts of a pair deferred to a later round are those of the beginning of the
pass (only its articles are read again), which the model does not tell apart.

### GeminiChain, ClaudeRoute, JevRoute, ModelCalls

One action per lock block and per request of `llm.py`, `claude.py` and `jev.py`. A
call with a role tries Claude once unless its circuit is open (`CheckCircuit`, then
`SendClaude` outside the lock, `ClaudeFails`); a pair of events takes a turn of Jev's pace
(`TakeTurn`), waits for it, looks at the cooldown again (`CheckAgain`), and is sent outside
the lock (`SendPair`; `JevFails` also when the request cannot be built); both end in the Gemini
chain, which tries
the Flex clients in rounds within the outage window (`EnterFlex`, `SendFlex`,
`FlexBusy`, `NapFlex`) and then the standard ones (`EnterStandard`, `StandardBusy`,
`StandardRetries`). Instants are kept as the time left until them, so
that calls go on for ever in a finite state space; `Elapse` moves all of them. The standard
clients' cooldowns are compared with the time at which the call turned to them
(`llm.py:365`), so `avoid` keeps the labels that were cooling then or have begun to since.

Between the check of a delay and the request another thread may fail, in `claude.py:138-186` as in
`jev.py:55-64`, and the request then goes out within the delay that failure asked for.
`claudeExcused` and `jevExcused` hold the threads that were in that gap when the first failure of a
delay came; `DelaysHonoured` excepts one request of each of them and no other.
`JevPaced` holds of requests because what a thread does between two waits takes no
time in the model; the code promises it of turns (`jev.py:50`), and a thread that is
suspended between its turn and its request comes late.

The model shows one divergence from `docs/pipeline.md:343-352`, without a run of its
own: a Flex error that is not a lack of capacity leaves `_flex_started` set,
so a single capacity failure ten minutes later goes to standard prices at once.

Left out: request bodies, schemas, costs, a second call of one thread, and httpx's
separate limits on connecting and reading (one time limit per request).

## 4. The runs

| Run | Command | What it shows | States |
|---|---|---|---|
| `lock_race` | `tlc -config LockRace.cfg PipelineLockMC` | four commands of one host in every interleaving, also between the watchdog's checks and its signals, through two boots and reused pids: every acquire ends, and a signal ends only the expired writer of the judged lock or a process given its pid after the last look | 928,014 |
| `lock_serial` | `LockSerial.cfg PipelineLockMC` | four commands on two hosts whose acquisitions do not overlap: the file implements `Mutex` (one holder), a release removes its own file | 1,206,056 |
| `sync_merge` | `SyncMerge.cfg ReadSyncMC` | two browsers, a withheld story, retention 1, a limit of one read, the cleanup: what a revision means, what merges and cleanup forget, and that nothing unread looks read | 2,154,921 |
| `sync_delivery` | `SyncDelivery.cfg SyncSessionMC` | one page whose token changes twice among two groups that are created, joined, deleted and expire, with late requests: no revision is taken for another group's, and reads reach the group | 785,129 |
| `site_crash` | `SiteCrash.cfg StaticSiteMC` | three builds that fail or crash anywhere: home is never ahead, cached pages keep their assets, only an interruption leaves orphans, a good build is not lost | 1,570,543 |
| `free_quota` | `FreeQuota.cfg FreeAdmissionMC` | two workers across midnight, with a counter that reports anything: reports cover the admissions, slots, cooldowns, and every call ends | 940,171 |
| `jev_crash` | `JevCrash.cfg JevShadowMC` | two threads of a worker that dies anywhere: budget, no blind repetition, each charge recorded once and at the latest by the next process | 2,796,618 |
| `pipeline_crash` | `PipelineCrash.cfg PipelineRunMC` | run after run with a collection thread, one failure anywhere and one merge: the properties below | 657,968 |
| `article_life` | `ArticleLife.cfg ArticleLifeMC` | run after run over six half days, one failure or crash anywhere, one page in two feeds: listed articles are stored, texts are sent once and kept, no article refers to an event that is gone, windows cover what waits, nothing waits for ever | 594,601 |
| `model_calls` | `ModelCalls.cfg ModelCallsMC` | two threads calling for ever, over either route: one window per outage, delays kept but for threads past their check, pace kept, calls end | 443,834 |
| `dedup` | `Dedup.cfg DedupMC` | run after run over four events with a late article and one fault anywhere: merges are what was reviewed, approvals are applied, every pair is reviewed | 129,535 |
| `hidden_story` | `HiddenStory.cfg PipelineRunMC` | a story the coherence review hides stays hidden (finding) | counterexample |

All states are distinct states of complete searches (`sync_merge`: up to swapping
its two browsers, which are alike, for safety properties only); each run takes
about three minutes at most.

**Why the bounds are enough.** *Lock*: a race needs a holder, a recoverer and a
newcomer; the fourth command of `lock_race` has the pid of the first with another start time, so
that it can be given it within the boot, and the third has both, so that it can be after a reboot.
In `lock_serial` the fourth is on a second host, where nobody can see whether the writer is alive. The configurations do not look
for deadlocks, because a process ends after its one command. *Read sync*: every
loss needs two writers and one read each; two stories are needed for a watermark
to pass over one, `MaxReads = 1` makes the limit bind, `Retention = 1`
within three instants makes reads and watermarks expire under an open page. The session run
has one story and one page, since its question is which group an answer, a revision or a
read belongs to; two turns of the reader give a page its second token while a request
with the first is in flight, `MaxDaily = 1` makes the limit bind, `GroupRetention = 2` lets a group
expire under a page, and the first group may begin with a read the page does not know. *Site*: a
lasting effect needs an interrupted build, one that builds on its leftovers and one
that repairs them, hence three; stories and stylesheets are symmetric.
*Admission*: two workers are told of at most `Limit = 2` requests left, so that a report is too small
for one, exact or too large, over two days, with delays shorter and longer than the waiting budget. *Jev*: two
jobs with two attempts each against a budget of two reservations, one midnight.
*Pipeline*: two articles make a split and a merge possible, two events
are what they move between, `MaxFaults = 1` puts one crash, exception or failed
call at every step, and the next run is fault-free.
*Article life*: two entries of two feeds, one behind a redirect to the other's page with the same
text, are enough for identities and reprints to meet; six half days take an article through
retention 1, staleness and two windows; one fault as above. *Model calls*: two threads are
enough to share an outage, a cooldown and a pace; one Flex and two standard clients,
delays below and above the windows; time is relative, so that no bound ends a behaviour. With
`Slots = 2` the two threads never wait for Jev's semaphore but for its pace; with `Slots = 1` in
`ModelCalls.cfg` one does (`free = 0` in `Elapse`), and `CallsEnd` was searched there as well
(407,935 states), where keeping the slot after a failure (`SlotKept`) refutes it.
*Dedup*: four events make two disjoint pairs and a chain; a limit of two pairs binds, batches of
three need more than one chunk; two faults were searched too. Larger
instances of the safety properties (two faults; three events; three articles)
were searched too, without liveness, and gave the same answers. With no unused
event id left a founding group can only be set aside, which is the bound on
`Events` and not a behaviour of the code.

`pipeline_crash` sets `Incremental = FALSE`, the option under which assigned articles meet
the grouping again, since with `TRUE` (production's default) the division of groups by owner
would have less to decide; `hidden_story` uses `TRUE`.

**The properties that say most.**
- `KillsAsVerified`, `ReleaseRemovesOwn`: reads and acts are separate system
  calls, and the file or the process may have changed in between.
- `RevisionMeansApplied`: the short answer leaves the state out, so a current revision
  must mean that the content is known, on the page and in storage, also when the
  token changes while an answer is on its way.
- `NeverHiddenUnread`: watermarks of different pages, merged, pass over no story that
  nobody has read.
- `ForgetsOnlyOldest`: limits and expiry never forget a read that can still be
  shown while an older one stays.
- `ReadsReachServer`: a read on a page that stays open and connected reaches the group it is
  connected to by then, unless its story expires.
- `HomeNeverAhead`, `CachedPagesStyled`: an order of copies, removals and the
  homepage that holds on every prefix a crash leaves, over several builds.
- `ReportsCover`: a counter that forgets, requests in flight and midnight together.
- `OnceOnly`, `ChargesSettled`: a row and a flag in two stores, with a crash between.
- `CheckpointSawMembers`: whatever arrives, splits, merges or crashes, no
  article of an event slips behind a checkpoint that never saw it.
- `VisibleStoryIsClean`: a split hides the mixed story before it commits and shows it
  again only if it did not.
- `BacklogFirst`: nothing collected during a run is touched before the final pass.
- `EveryArticleSettles`: after any failure the following runs bring a collected
  article to a checkpoint, a filter or a deferral.
- `ListedMeansStored`: whatever two feeds, redirects and leftover files do, an entry a
  finished run was offered has a row.
- `EventsLinked`: events are deleted by counting rows that other stages change.
- `PlanCovers`, `PendingEnds`: a window that was completed is opened again for an article
  that comes late.
- `TextKept`: five steps of maintenance, in their order and torn by crashes, never drop a text
  a later step may read.
- `OutageWaitedOnce`, `DelaysHonoured`: two threads' outages and cooldowns overlap, and what
  one reports outlives what the other does; the exception is as narrow as the gap in the code.
- `MergedAsReviewed`, `ApprovalsApplied`: decisions taken in parallel on what events said
  before other merges.

**Findings.** `hidden_story` refutes what a document says, quoted in `PROJECT.json`:
after a split the remaining articles are a subset of those the hidden story lists,
the update gate sees nothing new and the checkpoint advances; the story stays
hidden. Four more disagreements take an edit of a configuration to see:
1. Two acquisitions that overlap both get the lock: `os.open` leaves an empty file
   until the payload is written (`lock.py:108`), an empty file counts as stale
   (`lock.py:152`), so the second acquirer unlinks it; `docs/design.md:856` allows one run at a
   time. Add `INVARIANT MutualExclusion` to `LockRace.cfg`. The hourly
   schedule makes an overlap unlikely; two manual commands can meet it.
2. In two pages of one browser, the one that never applies the remote state overwrites
   the history another has stored together with its revision (`present.py:694`); the next
   load sends that revision and gets no state (`docs/plan.md:266`). Set
   `BrowserOf <- OneBrowser` in `SyncMerge.cfg`, without its `SYMMETRY`.
3. The cleanup writes the revision it computed from a row it selected before later merges
   (`lib.php:321`), and their reads are lost (`docs/design.md:770`). Set
   `SPECIFICATION Spec` in `SyncMerge.cfg`.
4. The watchdog verifies a process and then signals its pid, in two system calls
   (`lock.py:72`, `lock.py:76`); before the SIGKILL there is only the last poll
   (`lock.py:82`). The
   expired holder may exit in between and its pid be given to another command, which is then
   killed; `docs/design.md:867` says "terminate only that verified process". Set
   `PROPERTY NeverKillsBystander` in `LockRace.cfg`.

**Fairness.** `PipelineLock`: weak fairness of each process's acquisition steps,
because `acquire` waits for nobody and the kernel keeps scheduling it; nothing
else is fair, not even a release. `ReadSync`: a page's timer fires (weak), requests and answers
get through if they are tried again and again (strong: each try may be aborted),
and a cleanup that has selected a row updates it. `FreeAdmission`: time passes
and threads are scheduled (each request has a timeout). `PipelineRun`: the timer starts another run and the calls of a
stage time out, so some step of the run is taken (weak fairness of `RunNext`
as a whole); the collection thread ends. Which articles appear, what models answer,
crashes and faults are never fair. `ReadsReachServer` takes `SyncSession`'s form of the same fairness. `ArticleLife` and `Dedup`: the
timer starts the next run and a step of it is taken (weak fairness of `RunNext`, of
`Deduplicate`); days, feeds, faults and operators are not fair. `ModelCalls`: each
thread is scheduled, and time passes (strong fairness of `Advance(w)` and `Elapse`: a thread is
runnable again and again rather than always, since others' steps and the clock come in
between; every wait is bounded by a timeout). `StaticSite` and `JevShadow` claim no liveness.

## 5. What is proved

`tlapm` checks the theorems below for every value of the constants that satisfies
the assumptions.

### The lock (`PipelineProofs.tla`, first part)

Assumed: `LockAssumption` (every process has a host, `Patient` is a set of
processes, the marker for "no file" is not a process). `Procs` and `Hosts` may
be infinite, and `MaxBoot` is any number.

- `TypeCorrect`: `Spec => []TypeOK`, which includes that only complete payloads
  are ever judged.
- `IdentityCorrect`: `Spec => []IdentityInv`. A recorded pid, start time, boot id
  and host stand for one process: identities are unique in a boot, a live process is of
  the current boot and shares its pid with no other, and whoever acts as the watchdog has checked
  host, boot and age. The last conjunct bridges the gap between check and signal: whoever holds
  the pid by then is the verified process or in `fresh` (`VerifiedPid`).
- `KillsOnlyVerified`: `Spec => KillsAsVerified`, from `TypeOK` and `IdentityInv`.
  The property is not inductive alone: between `Decide` and the signals the file may be
  released, unlinked or created again, the process may exit and its pid be reused, and what
  remains true is what `IdentityInv` says of the payload the process has *read*. The stronger
  `NeverKillsBystander` is false (finding 4).
- `SerialMutualExclusion`, `SerialReleaseRemovesOwn`, `SerialImplementsMutex`, under
  `SerialSpec`: acquisitions do not overlap in time (`OneAcquirer`), while holders,
  releases, deaths, reboots and the clock are unconstrained. Without that
  condition they are false (finding 1 of section 4). The inductive invariant adds
  `HoldInv`: a holder's payload stays in the file, whoever judges a lock judges
  the present holder's, and nobody is about to unlink a lock that is held. The
  refinement maps `inside` to `Holders`: `Create` and `Recover` stutter, `WritePayload`
  enters, `ReleaseUnlink`, `Die`, `Signal` and `Reboot` leave.

### Read history (`ReadSyncProofs.tla`)

Assumed: `ReadStateAssumption`, `ReadSyncAssumption` and, for the sessions, `SyncSessionAssumption` (finitely
many stories, identified by their publication times; at least one token; groups are kept longer than reads; a
day has a length, and the limits on groups are numbers).
Pages, browsers and groups may be infinite in number, requests are lost, late or never answered as in the model.

`ReadInv` is the inductive invariant: types, `AllBacked` and `Built`. `AllBacked` says that every
history that is stored or on its way (rows, localStorage, open pages, requests, late requests, the
cleanup's selection) is `Backed`: an entry stands for a read, no earlier than its story, and a
watermark passes only over stories that were read or withheld. `Built` says that an open page has every story up to
its newest card but those that were withheld. `NeverHiddenUnread` alone is not inductive: a watermark that no page has
applied yet can be merged into one that is applied later. `NormalizedFacts`, `NormalizedKeeps`,
`MergeFacts` and `MergedKeeps` are the lemmas about the functions of `ReadState`: what
normalization, truncation and a merge may drop.

- `ReadInvariant`, `TypeCorrect`: `Spec => []ReadInv`, hence `[]TypeOK`;
- `UnreadStaysVisible`: `Spec => []NeverHiddenUnread`, with merges inside the cleanup allowed.

`RevInv` adds what revisions mean: no page, localStorage or answer has a later revision of a row than
the row, no row exceeds the limit, and the cleanup's selection is the row as it is. The last part needs that no merge
commits between the cleanup's statements, which is finding 3 of section 4, so these are theorems of `QuietSpec`:

- `RevisionInvariant`: `QuietSpec => [](ReadInv /\ RevInv)`;
- `RevisionsName`: `QuietSpec => RevisionNamesContent`;
- `OldestForgotten`: `QuietSpec => ForgetsOnlyOldest`;
- `ShortAnswerHidesNothing`: `OnePage` implies `QuietSpec => []RevisionMeansApplied`. `OnePage`: no two pages
  share a localStorage; without it the property is false (finding 2). The invariant adds `Coupled` (a request
  in flight carries its page's revision and no read the page has not) and `Informed` (page, storage or answer with the row's
  revision have its reads). `Coupled` is needed because the origin answers short on the strength of the
  request's revision, and the page applies the answer to what it has by then.

The same four are proved of `SessionSpec`, where tokens change. `SessionInv` adds two things to `ReadInv`, `RevInv` and
`SessionTypeOK`. `Issued`: a token that no link carries is in no page, request or localStorage. The code draws
tokens at random; the model has few, and lets one that nobody was ever given be issued again once its row has expired. `Issued` is what makes
that harmless: nobody has a later revision of it than the new row's 1. `Asking`: a page that asks for a group is open, and the state in the answer to `createGroup` has every read of the
row as long as the row has revision 1, though `createGroup` normalizes and other members may merge before the answer arrives.
The steps fall into kinds, each with its lemma: a
token is exchanged (`Retoken`: links, disconnecting, storage events), a call is taken up or dropped (`CallStep`), rows change (`RowStep`:
deletion, expiry, other members' merges), and the steps of ReadSync, which leave the session alone (`Steady`).
Creating a group and opening a link are kinds of their own.

- `SessionInvariant`, `SessionTypes`: `SessionSpec => []SessionInv`, hence `[]SessionTypeOK`;
- `SessionHidesNothing`: `OnePage` implies `SessionSpec => []RevisionMeansApplied`;
- `SessionUnreadStaysVisible`, `SessionRevisionsName`, `SessionOldestForgotten`: `SessionSpec =>` `[]NeverHiddenUnread`,
  `RevisionNamesContent` and `ForgetsOnlyOldest`. TLC checks these three under `QuietSpec` only (run `sync_merge`).

### The static site (`StaticSiteProofs.tla`)

Assumed: `StaticSiteAssumption` (stories, styles, the archive page and the homepage are different files). Stories, styles and
the number of builds are arbitrary, every step may fail or crash.

`SiteInv` is the inductive invariant: types, `Phased` and the promises themselves. `Phased` is what a
deployment knows at each `pc`: `Copying` (pages and assets that are not left to copy are already of this build), `Pruning`
(stale files that are not left to remove are gone or retained), `Begun` (the homepage is not yet of this build),
`Rendered` (a published file is one its build rendered), `InPlace` and `Unpublished`. The order copy, prune, homepage,
manifest is what the proof uses: each promise that one phase could break is kept by what the phase before has finished.

- `SiteInvariant`, `TypeCorrect`: `Spec => []SiteInv`, hence `[]TypeOK`;
- `HomeFollows`, `CachesStyled`, `OrphansInterrupted`: `Spec => []HomeNeverAhead`, and likewise
  for `CachedPagesStyled` and `OrphansOnlyByInterruption`;
- `BuildSurvives`: `Spec => LastGoodKept`.

### Free-model admission (`FreeAdmissionProofs.tla`)

Assumed: `FreeAdmissionAssumption` (finitely many workers; natural numbers for the
limits and delays; a day has some length). All the other bounds are arbitrary.

`AdmissionInv` is the first inductive invariant: types, `RouteInv` (where a call goes next,
and that it tries again only with attempts left), `DelayInv` (the policy's
`rateUntil` is at least the longest delay any 429 has asked for) and `SlotInv`
(the count of slots is the number of requests in flight, within the limit).
`RouteInv` is needed because a slot is taken in one lock block and given back in
another, and in between only `next` tells a worker that holds a slot from one
that gave up. `Move` does the counting once: a step of one worker leaves the
set of requests in flight alone, adds that worker or removes it. `LookupsKeep`
says that metadata lookups change neither slots nor delays. From these follow

- `SlotsAreAccounted`: `Spec => []SlotsAccounted`;
- `ConcurrencyIsKept`: never more than `MaxActive` requests are in flight;
- `RateLimitHonoured`: `Spec => HonoursRateLimit`.

`CoverInv` is the second, on top of it: `Covered` says that, once a report of today is known, what
the policy may still admit and the `Unsettled` requests fit together in the least of the day's
reports, `left`. `ReportsCover` alone is not inductive, since it speaks of admissions only and not of
what a refresh, a charge or midnight does between them. `UnsettledHoldSlots` and `LookupsCover` are the
argument: an uncharged request holds a slot, so the reservation of one request per slot at a
refresh covers it, also when it was admitted before midnight, and a report larger than the
count restores nothing. `DayChange` is midnight: the reports of the day before no longer count, nor
does what the policy knows from them.

- `ReportsAreCovered`: `Spec => ReportsCover`, whatever the counter reports. It is about
  the reports, not about the provider's quota (section 3).

### Jev shadow evaluation (`JevShadowProofs.tla`)

Assumed: `JevShadowAssumption` (finitely many jobs, natural numbers for the limits, a day has some
length). Threads, attempts, the budget and the number of crashes are arbitrary.

`JevInv` is the inductive invariant. `Placed`: where a thread is tells what the file of its
attempt says (`Located`), a file that is only reserved has no charge (`Filed`), and before the first batch
only accounting runs (`Manned`). `Counted`: no file is of a later day than the process knows (`Dated`), and what the process has counted for
its day covers the files' charges and the reservations whose correction is still to come (`Covered`). `BudgetKept`
speaks of files only and is not inductive: between the answer and the correction the counter, not the file, holds the unit.

- `JevInvariant`, `TypeCorrect`: `Spec => []JevInv`, hence `[]TypeOK`;
- `BudgetIsKept`: `Spec => []BudgetKept`; `NothingTwice`: `Spec => []OnceOnly`;
- `SettledFirst`: `Spec => ChargesSettled`.

### The pipeline's run (`PipelineRunProofs.tla`)

Assumed: `EventStoreAssumption` (finitely many articles, numbered; articles and events are
different things) and `NoneAssumption` (the value for "nothing" is no file, story, rejection or operation).
Events may be infinite in number; failures, faults and merges have any limits.

`RunInv` is the inductive invariant. `Control`: an operation is in the middle of something only in its
own stage (`Stepping`), the collection thread has ended when the final pass begins (`Phased`), and what a stage
still has to take is within the pass's limit and untouched (`Listed`). `Grouped`: the articles of a queued group, and those
of the group that is being written, are of no event or of the one they go to, and no two groups
share one (`Queued`, `Taken`); between the upsert and the assignment the row's checkpoint is behind.
`Stored`: `Told` and `Checked` are the two promises for all events, and `Hiding` is what a split in progress knows
of its story. `VisibleStoryIsClean` alone is not inductive in two places: a split that fails shows the story again as it was
before, so the operation has to remember that it was clean (`Hiding`); and the new events of a split are
ids without articles, which must not have a story already (the second half of `Told`). `CheckpointSawMembers`
needs `Taken`: an assignment is harmless because the upsert came first.

`BucketsDivided` and `GuardedDivided` say what the code's division of a proposed group does, for any
proposal: the parts are disjoint, each of one event at most.

- `RunInvariant`, `TypeCorrect`: `Spec => []RunInv`, hence `[]TypeOK`;
- `StoriesStayClean`: `Spec => []VisibleStoryIsClean`; `CheckpointsSeeMembers`:
  `Spec => []CheckpointSawMembers`;
- `GroupingMergesNothing`: `Spec => NoImplicitMerge`; `BacklogComesFirst`: `Spec => BacklogFirst`.

### Duplicate events (`DedupProofs.tla`)

Assumed: `DedupAssumption` (articles have an event or none, hashes are distinct, fewer
anchors than a batch holds). Events, articles, limits and the number of faults are arbitrary.

`DedupInv` is the inductive invariant. `Types` and `Idle` say what a pass may hold;
`Apart`: the pairs of a round share no event; `Known`: what is known of the events of a round is
what they are *now*; `Approved`: the pair that is being merged was approved as it is;
`Settled`: the events of a stored approval have been put together (`Together`), unless a fault hit
the pair. `Apart` is what carries a round's decisions through its merges: a merge
changes what two events say, and no other pair of the round contains them. `Settled`
speaks of the articles a review saw, so it survives later merges of the same events.

- `RoundsSound`: `Spec => []DedupInv`;
- `MergesAreReviewed`: `Spec => MergedAsReviewed`;
- `ApprovalsAreApplied`: `Spec => []ApprovalsApplied`.

### The paid models (`ModelCallsProofs.tla`)

Assumed: the modules' named assumptions (finitely many workers, natural numbers, at least
one client of each kind and one slot).

- `CallsSound`: `Spec => []CallsInv`, the inductive invariant: types (`Typed`), `Remembered` (the
  code's circuit, cooldown and outage start are the longest delays asked for and the time since
  Flex last worked), `Window` (a call's time left and the outage's age fit in one window),
  `Turns` (turns at Jev that are waited for or about to be used are an interval apart),
  `Excused` (while a delay runs, whoever is past its check was so when the delay began) and the
  count of Jev's slots. `Window` is
  needed because a thread that joins an outage late reads its age once and then
  counts by itself; `Turns` and `Excused` because turns and delays are looked at under a lock and
  acted upon outside it;
- `CallsTyped`: `Spec => []TypeOK`, from it;
- `OutageIsWaitedOnce`, `DelaysAreHonoured`, `JevIsPaced` follow from it, the first for every
  state, the others for every step.

### The articles (`PipelineProofs.tla`, second part)

Assumed: `ArticleStoreAssumption` (a canonical URL resolves to one page, which resolves to itself;
natural numbers for the retention, ages, windows and limits, of which the retention and the window's step are not zero)
and `NoneAssumption` (the marker for "nothing" is none of the things it is put beside). Feeds,
entries, URLs and events may be infinite in number; any step may fail or be cut off by a crash. The articles
are in one module with the lock because they are what the lock is for: each proof
splits a step by the one stage that is running.

`LifeInv` is the inductive invariant: types, the promises themselves, and

- `StagesInv`: each stage leaves its own sets empty, works on articles that have rows, and sends
  nothing to the model that has failed too often;
- `FilesInv`: a file lies in the directory of its day, and has its text unless its article has a row;
- `OpInv`: what a stage may be in the middle of. A file without its row is that of a fetched page, with its text;
  if an article with that id and that path has a row all the same, the row is past the retention;
- `ReservedInv`: an id in `seen_article_ids` is *covered*, or the id of its page is:
  it has a row, a task or a write that will make one, or all entries that rely on it are excused;
- `ListedInv`: at every moment, an entry of a feed whose validator is current is stored, waits,
  is read, relies on a reserved id, or is excused.

`ListedMeansStored` speaks of the time between two runs and is not inductive: what makes it true is what
the reservations stand for while tasks are in flight, and that is `ReservedInv`. It needs the second
alternative, the page behind a link, because a task reserves its link, finds the page, and gives up
the link when another task has taken the page; and it needs that two tasks in flight
never have the same link. `TextKept` needs `OpInv`: an insert that fails removes its file,
which would be the file of an older row with that path.

- `LifeInvariant`, `LifeTypeCorrect`: `LifeSpec => []LifeInv`, hence `[]StoreTypeOK`;
- `LinksHold`: `LifeSpec => []EventsLinked`;
- `TextStays`: `LifeSpec => []TextKept`. It rests on `RowsKept` (no step loses a row, or changes which article
  and which day it is of) and `FilesKept` (the file of a row within the retention keeps its text);
- `OneCall`: `LifeSpec => []OneCallPerText`;
- `ListedAreStored`: `LifeSpec => []ListedMeansStored`;
- `PlansCover`: `LifeSpec => PlanCovers`. `BoundsHold` and `FloorStarts` are its arithmetic: the least and the
  greatest time of a set, rounded down to the step of the windows, enclose each of its times, for every
  step, overlap and retention; the window of a waiting article is never skipped, completed or not.

The lemmas on `Min`, `Max` and division stand in for what the community modules define and do not prove.

### What is only model-checked

Liveness (`AcquireEnds`, `ReadsReachServer`, `CallsEnd`, `EveryArticleSettles`,
`PendingEnds`, `PairsReviewed`): reasoning from fairness needs `ENABLED`, which the prover does
not support. `FreeAdmission`'s type invariant for the queue:
`SelectSeq` is opaque to the provers, and no other proof needs the queue's contents. Facts that need
induction over data (what the chunks of a prescreen cover) stay with TLC.

## 6. What is not modelled

- Formatting: rendering pages, feeds, prompts, packets and reports.
- Parsing and heuristics: scrapers, URL canonicalization, similarity of titles,
  impact scores. Where they choose something a property depends on, the choice is
  open.
- What models answer: always open.
- `operations.py` (reads only), configuration, and scripts for administration and
  offline evaluation.
- Planned and not yet there: eligibility and gap admissions, per-domain pacing
  (section 2).
- `clean-data` (`cli.py:75`) looks for the lock without taking it; it is a manual
  command.
- The last write of `cooldown.json` stands (`jev_shadow.py:303`): section 3.
- Crashes inside `merge_events` before the loser's story is gone and before the winner's
  checkpoint is cleared (`aggregate.py:3117`, `aggregate.py:3160`): modelled, and excepted by
  the properties (section 3).
- The limits on creating groups (`lib.php:139`) are modelled as guards of one transaction; only
  `SessionTypeOK` is about them.
