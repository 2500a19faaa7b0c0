------------------------------- MODULE ReadSync --------------------------------
(***************************************************************************)
(* Synchronized read history: the pages of the reader script               *)
(* (pipeline/present.py), the localStorage that the pages of one browser   *)
(* share, and the rows of the groups on the sync origin                    *)
(* (server/sync/lib.php) with its merge endpoint and its daily cleanup.    *)
(* Here every browser has the token of its group; SyncSession adds how     *)
(* browsers get tokens and lose them.                                      *)
(*                                                                         *)
(* A merge is one immediate SQLite transaction and one action.  The        *)
(* cleanup has no transaction around its SELECT and its UPDATE, so it is   *)
(* two actions.  A request may be aborted after eight seconds or outlive   *)
(* its page (keepalive) and still be served; answers may be lost.          *)
(***************************************************************************)
EXTENDS ReadState

CONSTANTS
    Tokens, None,
    Tabs,       \* pages of the site
    BrowserOf,  \* the browser, hence the localStorage, of each page
    Holdable,   \* stories the site may leave out and show again later
    GroupRetention, \* group_retention_seconds
    MaxNow,     \* bound on the clock
    MaxStray    \* bound on the requests that outlived their page or timeout

ASSUME ReadSyncAssumption ==
    /\ DOMAIN BrowserOf = Tabs
    /\ Holdable \subseteq Stories
    /\ Tokens # {} /\ None \notin Tokens /\ GroupRetention \in Nat /\ Retention < GroupRetention
    /\ MaxNow \in Nat \ {0} /\ MaxStray \in Nat

Browsers == {BrowserOf[t] : t \in Tabs}

VARIABLES
    now,       \* clock of the server and of every browser
    groups,    \* groups[g]: the row of the group with token g
    saved,     \* saved[b]: localStorage, the read history, the token, and the
               \* revision with the token it belongs to
    open,      \* the pages that are open
    page,      \* page[t]: the stories whose cards the page shows
    mine,      \* mine[t]: viewed and readBefore
    token,     \* token[t]: syncToken
    known,     \* known[t]: syncRevision, 0 for null
    dirty,     \* the pages with syncDirty set
    call,      \* call[t]: the merge request in flight (syncInFlight)
    stray,     \* requests nobody waits for any more
    cleaner,   \* the row the daily cleanup has selected
    marked,    \* history variable: the stories some reader has read
    withheld   \* history variable: the stories some page was built without

history == <<marked, withheld>>
tabVars == <<open, page, mine, token, known, dirty, call>>
vars == <<now, groups, saved, tabVars, stray, cleaner, history>>

\* A request has the reader script's reason: page load, an imported link, or
\* the timer.  The remote state is applied for the first two.
NoCall == [phase |-> "none"]
Reasons == {"load", "import", "timer"}
Calls ==
    {NoCall} \cup
    [phase : {"sent"}, of : Tokens, state : Histories, known : Nat, why : Reasons] \cup
    [phase : {"full"}, of : Tokens, state : Histories, rev : Nat, why : Reasons] \cup
    [phase : {"short"}, of : Tokens, rev : Nat, why : Reasons] \cup
    [phase : {"gone"}, of : Tokens, why : Reasons]

Idle == [at |-> 0]
NoMark == [of |-> None, rev |-> 0]
Groups == {g \in Tokens : groups[g] # None}

TypeOK ==
    /\ now \in 1 .. MaxNow
    /\ DOMAIN groups = Tokens
    /\ \A g \in Groups :
         /\ groups[g] \in [state : Histories, rev : Nat \ {0}, until : Nat]
         /\ groups[g].state.ordered \subseteq Entries(groups[g].state)  \* encodeState looks them up
    /\ saved \in [Browsers -> [state : Histories, token : Tokens \cup {None},
                              mark : [of : Tokens \cup {None}, rev : Nat]]]
    /\ open \subseteq Tabs /\ dirty \subseteq Tabs
    /\ page \in [Tabs -> SUBSET Stories]
    /\ mine \in [Tabs -> Histories]
    /\ token \in [Tabs -> Tokens \cup {None}]
    /\ known \in [Tabs -> Nat]
    /\ call \in [Tabs -> Calls]
    /\ stray \subseteq [of : Tokens, state : Histories]
    /\ cleaner \in {Idle} \cup [of : Tokens, state : Histories, rev : Nat, at : 1 .. MaxNow]
    /\ marked \subseteq Stories /\ withheld \subseteq Holdable

\* When an unused row expires; no clock goes past its bound.
Until == IF now + GroupRetention > MaxNow THEN MaxNow + 1 ELSE now + GroupRetention

InitTabs ==
    /\ open = {} /\ dirty = {}
    /\ page = [t \in Tabs |-> {}]
    /\ mine = [t \in Tabs |-> Empty]
    /\ token = [t \in Tabs |-> None]
    /\ known = [t \in Tabs |-> 0]
    /\ call = [t \in Tabs |-> NoCall]
    /\ stray = {} /\ cleaner = Idle
    /\ withheld = {}

\* Every browser is connected to one group, whose creation has answered
\* revision 1.
Init ==
    /\ now = 1
    /\ LET g == CHOOSE g \in Tokens : TRUE IN
         /\ groups = [f \in Tokens |-> IF f = g THEN [state |-> Empty, rev |-> 1, until |-> Until] ELSE None]
         /\ saved = [b \in Browsers |-> [state |-> Empty, token |-> g, mark |-> NoMark]]
    /\ InitTabs /\ marked = {}

\* The stories that are generated and within the site's rolling window.
Published == {s \in Stories : s <= now /\ Fresh(s, now)}

Tick ==
    /\ now < MaxNow
    /\ now' = now + 1
    /\ UNCHANGED <<groups, saved, tabVars, stray, cleaner, history>>

-----------------------------------------------------------------------------
(* The reader script.                                                      *)

Request(g, h, cards, rev, why) ==
    {[phase |-> "sent", of |-> g, state |-> p, known |-> rev, why |-> why] : p \in Payloads(h, cards, now)}

\* loadSyncRevision: the saved revision, if it belongs to the token.
RevisionOf(store, g) == IF g # None /\ store.mark.of = g THEN store.mark.rev ELSE 0

\* setSyncRevision
Marked(g, rev) == IF g # None /\ rev # 0 THEN [of |-> g, rev |-> rev] ELSE NoMark

\* Page load, with the token g: the history is read from localStorage and
\* rewritten without what has expired, and a connected page asks for the
\* remote state.
Load(t, g) ==
    LET b == BrowserOf[t]
        loaded == Loaded(saved[b].state, now)
        rev == RevisionOf(saved[b], g)
    IN  /\ t \notin open
        /\ open' = open \cup {t}
        /\ \E held \in SUBSET (Holdable \cap Published) :
             /\ page' = [page EXCEPT ![t] = Published \ held]
             /\ withheld' = withheld \cup held
        /\ mine' = [mine EXCEPT ![t] = loaded]
        /\ token' = [token EXCEPT ![t] = g]
        /\ known' = [known EXCEPT ![t] = rev]
        /\ saved' = [saved EXCEPT ![b] =
             [state |-> loaded, token |-> g, mark |-> IF g = @.token THEN @.mark ELSE Marked(g, rev)]]
        /\ IF g = None THEN UNCHANGED call
           ELSE \E r \in Request(g, loaded, page'[t], rev, "load") : call' = [call EXCEPT ![t] = r]
        /\ dirty' = dirty \ {t}
        /\ UNCHANGED <<now, groups, stray, cleaner, marked>>

Open(t) == Load(t, saved[BrowserOf[t]].token)

\* The read observer starts when the opening request has settled.
Opening(t) == call[t].phase # "none" /\ call[t].why = "load"

\* markViewed, with compactViewedState and scheduleSync.
Mark(t, s) ==
    LET read == [mine[t] EXCEPT !.reads[s] = now]
    IN  /\ t \in open /\ ~Opening(t)
        /\ s \in page[t] /\ ~IsRead(mine[t], s, now)
        /\ mine' = [mine EXCEPT ![t] = Compact(read, page[t], now)]
        /\ saved' = [saved EXCEPT ![BrowserOf[t]].state = mine'[t]]
        /\ dirty' = IF token[t] = None THEN dirty ELSE dirty \cup {t}
        /\ marked' = marked \cup {s}
        /\ UNCHANGED <<now, groups, open, page, token, known, call, stray, cleaner, withheld>>

\* synchronizeReads, when the timer of scheduleSync fires.
Send(t) ==
    /\ t \in open /\ t \in dirty /\ call[t] = NoCall /\ token[t] # None
    /\ \E r \in Request(token[t], mine[t], page[t], known[t], "timer") : call' = [call EXCEPT ![t] = r]
    /\ dirty' = dirty \ {t}
    /\ UNCHANGED <<now, groups, saved, open, page, mine, token, known, stray, cleaner, history>>

AdvanceAlways(a) == TRUE
\* Only an applied answer, or one without remote state, advances the known
\* revision.
Applies(a) == a.why # "timer"
Advances(a) == Applies(a) \/ a.phase = "short"

AnyAnswer(t) == TRUE \* mutant
\* An answer counts if the page still has the token of its request.
Counts(t) == call[t].of = token[t]

Receive(t) ==
    LET a == call[t]
        b == BrowserOf[t]
        absorbed == IF Applies(a) /\ a.phase = "full" THEN Absorb(mine[t], a.state, page[t], now)
                                                      ELSE mine[t]
    IN  /\ a.phase \in {"full", "short"}
        /\ call' = [call EXCEPT ![t] = NoCall]
        /\ IF ~ Counts(t) THEN UNCHANGED <<mine, known, saved>>
           ELSE /\ mine' = [mine EXCEPT ![t] = absorbed]
                /\ known' = IF Advances(a) THEN [known EXCEPT ![t] = a.rev] ELSE known
                /\ saved' = [saved EXCEPT
                     ![b].state = IF absorbed # mine[t] THEN absorbed ELSE @,
                     ![b].mark  = IF Advances(a) THEN Marked(token[t], a.rev) ELSE @]
        /\ UNCHANGED <<now, groups, open, page, token, dirty, stray, cleaner, history>>

\* A request nobody waits for any more is lost or served later.
Abandon(g, payload) ==
    /\ stray' \in {stray, stray \cup {[of |-> g, state |-> payload]}}
    /\ Cardinality(stray') <= MaxStray

\* The request fails or times out: syncDirty, and another one is scheduled.
\* The origin may still serve the request.
ForgetFailure(t) == dirty
AfterFailure(t) == dirty \cup {t}

Abort(t) ==
    /\ call[t] # NoCall
    /\ IF call[t].phase = "sent" THEN Abandon(call[t].of, call[t].state) ELSE UNCHANGED stray
    /\ dirty' = AfterFailure(t)
    /\ call' = [call EXCEPT ![t] = NoCall]
    /\ UNCHANGED <<now, groups, saved, open, page, mine, token, known, cleaner, history>>

\* pagehide: a dirty page without a request in flight sends one with keepalive;
\* behind a request in flight it would wait, and the page is gone by then.
Close(t) ==
    /\ t \in open
    /\ open' = open \ {t}
    /\ \/ /\ call[t] = NoCall /\ t \in dirty /\ token[t] # None
          /\ \E p \in Payloads(mine[t], page[t], now) : Abandon(token[t], p)
       \/ call[t].phase = "sent" /\ Abandon(call[t].of, call[t].state)
       \/ call[t].phase \in {"full", "short", "gone"} /\ UNCHANGED stray
       \/ call[t] = NoCall /\ (t \notin dirty \/ token[t] = None) /\ UNCHANGED stray
    /\ call' = [call EXCEPT ![t] = NoCall]
    /\ dirty' = dirty \ {t}
    /\ page' = [page EXCEPT ![t] = {}]
    /\ mine' = [mine EXCEPT ![t] = Empty]
    /\ token' = [token EXCEPT ![t] = None] /\ known' = [known EXCEPT ![t] = 0]
    /\ UNCHANGED <<now, groups, saved, cleaner, history>>

-----------------------------------------------------------------------------
(* The sync origin.                                                        *)

\* deleteExpiredGroups
Unexpired == [g \in Tokens |-> IF g \in Groups /\ groups[g].until <= now THEN None ELSE groups[g]]

\* mergeGroup's result for a row and a payload: the row is renormalized, merged
\* and normalized, a new revision names content that differs, and in any case
\* the row's time to expire begins anew.
Stored(row, state) ==
    [state |-> state, rev |-> IF state = row.state THEN row.rev ELSE row.rev + 1, until |-> Until]

Merged(row, payload) ==
    {Stored(row, m) :
        m \in UNION {Normalized(MergeReads(r, p), Entries(r), now) :
                r \in Normalized(row.state, {}, now), p \in Normalized(payload, {}, now)}}

\* One transaction: if there is no such group it is rolled back.
MergeGroup(g, payload) ==
    IF Unexpired[g] = None THEN UNCHANGED groups
    ELSE \E row \in Merged(groups[g], payload) : groups' = [Unexpired EXCEPT ![g] = row]

\* The short answer is for a client whose revision the row had before the merge.
Short(request, before, after) == request.known = before.rev

Answer(r, before, after) ==
    IF before = None THEN [phase |-> "gone", of |-> r.of, why |-> r.why]
    ELSE IF Short(r, before, after)
    THEN [phase |-> "short", of |-> r.of, rev |-> after.rev, why |-> r.why]
    ELSE [phase |-> "full", of |-> r.of, rev |-> after.rev, why |-> r.why,
          state |-> [after.state EXCEPT !.ordered = {}]]

Serve(t) ==
    /\ call[t].phase = "sent"
    /\ MergeGroup(call[t].of, call[t].state)
    /\ call' = [call EXCEPT ![t] = Answer(@, Unexpired[@.of], groups'[@.of])]
    /\ UNCHANGED <<now, saved, open, page, mine, token, known, dirty, stray, cleaner, history>>

ServeStray ==
    \E r \in stray :
        /\ MergeGroup(r.of, r.state)
        /\ stray' = stray \ {r}
        /\ UNCHANGED <<now, saved, tabVars, cleaner, history>>

\* cleanup selects the rows, then rewrites those whose state has expired parts.
CleanupSelect ==
    /\ cleaner = Idle
    /\ \E g \in Groups :
         /\ Unexpired[g] # None
         /\ Normalized(groups[g].state, {}, now) # {groups[g].state}
         /\ cleaner' = [of |-> g, state |-> groups[g].state, rev |-> groups[g].rev, at |-> now]
    /\ UNCHANGED <<now, groups, saved, tabVars, stray, history>>

Rewrite(rev) ==
    /\ cleaner # Idle
    /\ LET g == cleaner.of
       IN  \E n \in Normalized(cleaner.state, {}, cleaner.at) :
             groups' = [groups EXCEPT ![g] = IF @ = None THEN None ELSE [@ EXCEPT !.state = n, !.rev = rev]]
    /\ cleaner' = Idle
    /\ UNCHANGED <<now, saved, tabVars, stray, history>>

RewriteSameRevision == Rewrite(cleaner.rev) \* mutant
CleanupUpdate == Rewrite(cleaner.rev + 1)

-----------------------------------------------------------------------------
PageStep(t) == Open(t) \/ (\E s \in Stories : Mark(t, s)) \/ Receive(t) \/ Abort(t) \/ Serve(t)
Around == Tick \/ ServeStray \/ CleanupSelect \/ CleanupUpdate
Next == Around \/ \E t \in Tabs : PageStep(t) \/ Send(t) \/ Close(t)

\* No merge commits between the cleanup's SELECT and its UPDATE.
Undisturbed == cleaner # Idle /\ groups' # groups => cleaner' = Idle
QuietNext == Next /\ Undisturbed

Spec == Init /\ [][Next]_vars
QuietSpec == Init /\ [][QuietNext]_vars

-----------------------------------------------------------------------------
(* Safety.                                                                 *)

\* What a reader has to know about: the stories whose order is still valid.
ReadIn(h) == {s \in Stories : Fresh(s, now) /\ IsRead(h, s, now)}

\* A page whose known revision is the current one of the group it is connected
\* to shows every read the group holds, and a browser that comes back with the
\* current revision has them in localStorage: the short answer, which carries
\* no state, hides nothing, through changes of the token, answers that come
\* after them, and revisions saved for another group (known_revision of
\* currentReadPayload, loadSyncRevision, the early return of mergeGroup).
RevisionMeansApplied ==
    \A g \in Groups :
        LET held == ReadIn(groups[g].state)
        IN  /\ \A t \in open : token[t] = g /\ known[t] = groups[g].rev => held \subseteq ReadIn(mine[t])
            /\ \A b \in Browsers : RevisionOf(saved[b], g) = groups[g].rev => held \subseteq ReadIn(saved[b].state)

\* No page shows a story as read that no reader of the group has read, whatever
\* watermarks were merged (compactViewedState, mergeRemoteState, normalizeState);
\* except a story that a page was built without: it keeps its order, and a
\* watermark may have passed it meanwhile (write_active_stories_index).
NeverHiddenUnread == \A t \in open : page[t] \cap ReadIn(mine[t]) \subseteq marked \cup withheld

\* A revision names one content: a row that changes gets a revision no page
\* and no browser has been given.
RevisionNamesContent ==
    [][\A g \in Groups : groups'[g] # None /\ groups'[g].state # groups[g].state =>
         /\ \A t \in Tabs : token[t] = g => groups'[g].rev # known[t]
         /\ \A b \in Browsers : groups'[g].rev # RevisionOf(saved[b], g)]_vars

\* The origin forgets a read of a story that can still be shown only for the
\* limit on reads, and then the reads it keeps are at least as recent: no merge
\* and no cleanup loses a read that was stored (mergeGroup, normalizeState).
ForgetsOnlyOldest ==
    [][\A g \in Groups : groups'[g] # None =>
         \A s \in ReadIn(groups[g].state) : Fresh(s, now') /\ s \notin ReadIn(groups[g].state)' =>
            /\ Cardinality({u \in Stories : IsRead(groups'[g].state, u, now')}) >= MaxReads
            /\ \A u \in Entries(groups'[g].state) : groups'[g].state.reads[u] >= groups[g].state.reads[s]]_vars
=============================================================================
