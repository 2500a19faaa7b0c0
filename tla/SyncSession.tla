------------------------------ MODULE SyncSession ------------------------------
(***************************************************************************)
(* How browsers get the token of a sync group and lose it: creating a      *)
(* group, following its link, disconnecting, deleting it, and the same     *)
(* done in another page of the browser (pipeline/present.py); on the       *)
(* origin, creation with its limits, deletion and expiry                   *)
(* (server/sync/lib.php).  The other members of a group are an             *)
(* environment that merges what it reads.                                  *)
(***************************************************************************)
EXTENDS ReadSync

CONSTANTS
    MaxGroups, MaxDaily, \* max_active_groups, max_daily_group_creations
    DayLength,           \* of the counter of created groups
    MaxTurns             \* bound on what the reader does in dialogs and with links

ASSUME SyncSessionAssumption == {MaxGroups, MaxDaily} \subseteq Nat /\ {DayLength, MaxTurns} \subseteq Nat \ {0}

VARIABLES
    asking,   \* asking[t]: the dialog's request: to create or to delete a group
    joining,  \* pages with an imported link, behind a request in flight
    created,  \* groups_created, per day
    turns,    \* what the reader has done in dialogs and with links
    links,    \* tokens of which somebody has the link
    told      \* history: pages whose token another page changed

session == <<asking, joining, created, turns, links, told>>
allVars == <<vars, session>>

NoAsk == [phase |-> "none"]
Today == now \div DayLength

\* A token is 32 random bytes: no other group has or had it.
Unissued == {g \in Tokens \ (Groups \cup links) : \A t \in Tabs : asking[t].phase # "created" \/ asking[t].of # g}

Asks ==
    {NoAsk} \cup
    [phase : {"create"}, state : Histories] \cup [phase : {"created"}, of : Tokens, state : Histories] \cup
    [phase : {"delete"}, of : Tokens] \cup [phase : {"deleted", "refused"}]

SessionTypeOK ==
    /\ TypeOK
    /\ asking \in [Tabs -> Asks]
    /\ joining \subseteq Tabs /\ told \subseteq Tabs /\ links \subseteq Tokens
    /\ \A d \in DOMAIN created : created[d] \in 0 .. MaxDaily

\* Another browser has created a group from what it has read, and its link is
\* around.
SessionInit ==
    /\ now = 1 /\ marked \in SUBSET Published
    /\ LET g == CHOOSE g \in Tokens : TRUE
           read == [Empty EXCEPT !.reads = [s \in Stories |-> IF s \in marked THEN now ELSE 0], !.ordered = marked]
       IN  /\ groups = [f \in Tokens |-> IF f = g THEN [state |-> read, rev |-> 1, until |-> Until] ELSE None]
           /\ links = {g}
    /\ saved = [b \in Browsers |-> [state |-> Empty, token |-> None, mark |-> NoMark]]
    /\ InitTabs
    /\ asking = [t \in Tabs |-> NoAsk] /\ joining = {} /\ told = {} /\ turns = 0
    /\ created = [d \in 0 .. MaxNow \div DayLength |-> 0]

Turn == turns < MaxTurns /\ turns' = turns + 1

--------------------------------------------------------------------------------
(* The reader script.                                                        *)

\* setSyncToken: a revision saved for the new token is taken over.
SetToken(t, g) ==
    LET b == BrowserOf[t]
        rev == RevisionOf(saved[b], g)
    IN  /\ token' = [token EXCEPT ![t] = g]
        /\ known' = IF g = token[t] THEN known ELSE [known EXCEPT ![t] = rev]
        /\ saved' = [saved EXCEPT ![b].token = g,
                                  ![b].mark = IF g = token[t] THEN @ ELSE Marked(g, rev)]

\* The page is loaded from a group's link.
OpenLink(t) ==
    /\ Turn /\ \E g \in links : Load(t, g)
    /\ UNCHANGED <<asking, joining, created, links, told>>

\* A link is followed in an open page (hashchange).  Its request waits for the
\* one that is in flight.
FollowLink(t) ==
    /\ t \in open /\ Turn
    /\ \E g \in links : SetToken(t, g)
    /\ joining' = joining \cup {t} /\ told' = told \ {t}
    /\ UNCHANGED <<now, groups, open, page, mine, dirty, call, stray, cleaner, history, asking, created, links>>

Join(t) ==
    /\ t \in joining /\ call[t] = NoCall
    /\ joining' = joining \ {t}
    /\ IF token[t] = None THEN UNCHANGED <<call, dirty>>
       ELSE /\ \E r \in Request(token[t], mine[t], page[t], known[t], "import") : call' = [call EXCEPT ![t] = r]
            /\ dirty' = dirty \ {t}
    /\ UNCHANGED <<now, groups, saved, open, page, mine, token, known, stray, cleaner, history,
                   asking, created, links, told, turns>>

\* The buttons of the dialog are disabled during its own requests.
Importing(t) == call[t] # NoCall /\ call[t].why = "import"
Ready(t) == t \in open /\ asking[t] = NoAsk /\ ~ Importing(t)

AskCreate(t) ==
    /\ Ready(t) /\ token[t] = None /\ Turn
    /\ \E p \in Payloads(mine[t], page[t], now) : asking' = [asking EXCEPT ![t] = [phase |-> "create", state |-> p]]
    /\ UNCHANGED <<vars, joining, created, links, told>>

AskDelete(t) ==
    /\ Ready(t) /\ token[t] # None /\ Turn
    /\ asking' = [asking EXCEPT ![t] = [phase |-> "delete", of |-> token[t]]]
    /\ UNCHANGED <<vars, joining, created, links, told>>

\* createSyncGroup, when the group is there: the page takes its token, whatever
\* token it has by then.
Created(t) ==
    LET a == asking[t]
        b == BrowserOf[t]
        absorbed == Absorb(mine[t], a.state, page[t], now)
    IN  /\ a.phase = "created"
        /\ token' = [token EXCEPT ![t] = a.of] /\ known' = [known EXCEPT ![t] = 1]
        /\ mine' = [mine EXCEPT ![t] = absorbed]
        /\ saved' = [saved EXCEPT ![b] = [state |-> IF absorbed # mine[t] THEN absorbed ELSE @.state,
                                          token |-> a.of, mark |-> Marked(a.of, 1)]]
        /\ dirty' = dirty \cup {t}
        /\ asking' = [asking EXCEPT ![t] = NoAsk]
        /\ links' = links \cup {a.of} /\ told' = told \ {t}
        /\ UNCHANGED <<now, groups, open, page, call, stray, cleaner, history, joining, created, turns>>

\* disconnectSync
Forget(t) ==
    /\ token' = [token EXCEPT ![t] = None] /\ known' = [known EXCEPT ![t] = 0]
    /\ saved' = [saved EXCEPT ![BrowserOf[t]].token = None, ![BrowserOf[t]].mark = NoMark]
    /\ dirty' = dirty \ {t}

Disconnect(t) ==
    /\ Ready(t) /\ token[t] # None /\ Turn
    /\ Forget(t)
    /\ UNCHANGED <<now, groups, open, page, mine, call, stray, cleaner, history,
                   asking, joining, created, links, told>>

\* deleteSyncGroup, when the group is gone.
Deleted(t) ==
    /\ asking[t].phase = "deleted"
    /\ Forget(t)
    /\ asking' = [asking EXCEPT ![t] = NoAsk]
    /\ UNCHANGED <<now, groups, open, page, mine, call, stray, cleaner, history, joining, created, links, told, turns>>

\* The dialog's request is refused, fails or is given up; the origin may still
\* have served it.
AskFails(t) ==
    /\ asking[t] # NoAsk
    /\ asking' = [asking EXCEPT ![t] = NoAsk]
    /\ UNCHANGED <<vars, joining, created, links, told, turns>>

\* A merge request finds no group: it is not tried again.
NoGroup(t) ==
    /\ call[t].phase = "gone"
    /\ call' = [call EXCEPT ![t] = NoCall]
    /\ UNCHANGED <<now, groups, saved, open, page, mine, token, known, dirty, stray, cleaner, history, session>>

CloseSession(t) ==
    /\ Close(t)
    /\ asking' = [asking EXCEPT ![t] = NoAsk] /\ joining' = joining \ {t} /\ told' = told \ {t}
    /\ UNCHANGED <<created, links, turns>>

\* Another page of the browser follows a link without reaching the origin, or
\* disconnects ...
Elsewhere(b) ==
    /\ Turn
    /\ \E g \in links \cup {None} :
         /\ g # saved[b].token
         /\ saved' = [saved EXCEPT ![b].token = g, ![b].mark = Marked(g, RevisionOf(saved[b], g))]
    /\ UNCHANGED <<now, groups, tabVars, stray, cleaner, history, asking, joining, created, links, told>>

\* ... and a storage event says so.
Notice(t) ==
    LET store == saved[BrowserOf[t]]
    IN  /\ t \in open /\ token[t] # store.token
        /\ token' = [token EXCEPT ![t] = store.token]
        /\ known' = [known EXCEPT ![t] = RevisionOf(store, store.token)]
        /\ told' = told \cup {t}
        /\ UNCHANGED <<now, groups, saved, open, page, mine, dirty, call, stray, cleaner, history,
                       asking, joining, created, links, turns>>

\* What waits for the request in flight goes before the timer.
SendSession(t) == t \notin joining /\ Send(t) /\ UNCHANGED session

--------------------------------------------------------------------------------
(* The sync origin.                                                          *)

\* createGroup: one transaction, rolled back at a limit.
Full == Cardinality({g \in Tokens : Unexpired[g] # None}) >= MaxGroups \/ created[Today] >= MaxDaily

ServeCreate(t) ==
    /\ asking[t].phase = "create"
    /\ \/ /\ Full
          /\ asking' = [asking EXCEPT ![t] = [phase |-> "refused"]]
          /\ UNCHANGED <<groups, created>>
       \/ /\ ~ Full /\ Unissued # {}
          /\ LET g == CHOOSE g \in Unissued : TRUE
             IN  \E n \in Normalized(asking[t].state, {}, now) :
                   /\ groups' = [Unexpired EXCEPT ![g] = [state |-> n, rev |-> 1, until |-> Until]]
                   /\ asking' = [asking EXCEPT ![t] = [phase |-> "created", of |-> g,
                                                      state |-> [n EXCEPT !.ordered = {}]]]
          /\ created' = [created EXCEPT ![Today] = @ + 1]
    /\ UNCHANGED <<now, saved, tabVars, stray, cleaner, history, joining, links, told, turns>>

\* deleteGroup
ServeDelete(t) ==
    LET g == asking[t].of
    IN  /\ asking[t].phase = "delete"
        /\ groups' = [groups EXCEPT ![g] = None]
        /\ asking' = [asking EXCEPT ![t] = [phase |-> IF groups[g] = None THEN "refused" ELSE "deleted"]]
        /\ UNCHANGED <<now, saved, tabVars, stray, cleaner, history, joining, created, links, told, turns>>

CleanupDelete ==
    /\ Unexpired # groups /\ groups' = Unexpired
    /\ UNCHANGED <<now, saved, tabVars, stray, cleaner, history, session>>

\* Another member of a group has read a story, above a card it has not read.
Peer ==
    /\ \E g \in links, s \in Published :
         /\ s \notin ReadIn(IF groups[g] = None THEN Empty ELSE groups[g].state)
         /\ MergeGroup(g, [Empty EXCEPT !.reads[s] = now, !.ordered = {s}])
         /\ marked' = marked \cup {s}
    /\ UNCHANGED <<now, saved, tabVars, stray, cleaner, withheld, session>>

--------------------------------------------------------------------------------
Dialog(t) ==
    \/ OpenLink(t) \/ FollowLink(t) \/ Join(t) \/ AskCreate(t) \/ AskDelete(t) \/ Created(t)
    \/ Disconnect(t) \/ Deleted(t) \/ AskFails(t) \/ NoGroup(t) \/ Notice(t)
    \/ SendSession(t) \/ CloseSession(t) \/ ServeCreate(t) \/ ServeDelete(t)

SessionNext ==
    \/ (Around \/ \E t \in Tabs : PageStep(t)) /\ UNCHANGED session
    \/ \E t \in Tabs : Dialog(t)
    \/ \E b \in Browsers : Elsewhere(b)
    \/ CleanupDelete \/ Peer

\* The timer of a page fires, answers arrive, and not every request fails.
Delivery ==
    \A t \in Tabs :
        /\ WF_allVars(SendSession(t)) /\ WF_allVars(Join(t))
        /\ SF_allVars(Serve(t) /\ UNCHANGED session) /\ SF_allVars(Receive(t) /\ UNCHANGED session)

SessionSpec ==
    /\ SessionInit /\ [][SessionNext /\ Undisturbed]_allVars
    /\ Delivery /\ WF_allVars(CleanupUpdate /\ UNCHANGED session)

--------------------------------------------------------------------------------
\* A read on a page that stays open and connected reaches the group, or its
\* story expires: failed requests are sent again, and a page that creates or
\* joins a group sends what it has read before (the catch and finally of
\* synchronizeReads).  Only a page that learns of its token by a storage event
\* sends nothing of its own.
ReadsReachServer ==
    \A t \in Tabs, s \in Stories :
        <>[](t \in open \ told /\ token[t] \in Groups) =>
            [](s \in ReadIn(mine[t]) =>
                 <>(~ Fresh(s, now) \/ (token[t] \in Groups /\ s \in ReadIn(groups[token[t]].state))))
================================================================================
