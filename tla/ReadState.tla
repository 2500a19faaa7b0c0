------------------------------- MODULE ReadState -------------------------------
(***************************************************************************)
(* The read history that browsers and the sync origin exchange, and the    *)
(* pure functions both sides apply to it: normalizeState and the merge of  *)
(* server/sync/lib.php, compactViewedState, mergeRemoteState and           *)
(* currentReadPayload of the reader script in pipeline/present.py.         *)
(*                                                                         *)
(* A story revision is identified with its publication time: read orders   *)
(* are "milliseconds:id" strings, unique and compared in that order.       *)
(* A history is a record                                                   *)
(*    reads    story -> time at which it was read, 0 if it has no entry    *)
(*    ordered  the entries that carry their read order                     *)
(*    upto     read_before: every ordered story up to it is read, 0: none  *)
(* Both sides reject future times by the same five minutes; clocks agree   *)
(* here, so that check never fires and is left out.                        *)
(***************************************************************************)
EXTENDS Naturals, FiniteSets

CONSTANTS
    Stories,    \* publication times of the story revisions, positive
    Retention,  \* three days: read_retention_seconds and VIEWED_RETENTION_MS
    MaxReads    \* max_reads of the server and SYNC_MAX_READS of the browser

ASSUME ReadStateAssumption ==
    /\ Stories \subseteq Nat \ {0} /\ IsFiniteSet(Stories)
    /\ Retention \in Nat
    /\ MaxReads \in Nat \ {0}

Histories == [reads : [Stories -> Nat], ordered : SUBSET Stories, upto : Nat]

Empty == [reads |-> [s \in Stories |-> 0], ordered |-> {}, upto |-> 0]

\* normalizeStoryOrder, validStoryOrder and the retention test on timestamps.
Fresh(time, now) == time # 0 /\ time + Retention >= now

Entries(h) == {s \in Stories : h.reads[s] # 0}

Oldest(reads, entries, settled) ==
    {kept \in SUBSET entries :
        /\ Cardinality(kept) <= MaxReads
        /\ entries # kept => Cardinality(kept) = MaxReads
        /\ \A s \in kept, u \in entries \ kept :
              \/ reads[s] < reads[u]
              \/ reads[s] = reads[u] /\ (u \in settled => s \in settled)}
\* Of a set of entries the most recently read ones that fit into the limit;
\* arsort is stable, so that of equal timestamps those of the row stay.
Newest(reads, entries, settled) ==
    {kept \in SUBSET entries :
        /\ Cardinality(kept) <= MaxReads
        /\ entries # kept => Cardinality(kept) = MaxReads
        /\ \A s \in kept, u \in entries \ kept :
              \/ reads[s] > reads[u]
              \/ reads[s] = reads[u] /\ (u \in settled => s \in settled)}

Only(reads, kept) == [s \in Stories |-> IF s \in kept THEN reads[s] ELSE 0]

Retained(h, now) == {s \in Entries(h) : Fresh(h.reads[s], now)}

DropCovered(ordered, covered) == ordered \ covered

\* normalizeState: drop expired entries, keep the newest, drop expired orders
\* and an expired watermark, and drop what the watermark covers.
Normalized(h, settled, now) ==
    {LET ordered == {s \in h.ordered \cap kept : Fresh(s, now)}
         upto    == IF Fresh(h.upto, now) THEN h.upto ELSE 0
         covered == {s \in ordered : s <= upto}
     IN  [reads   |-> Only(h.reads, kept \ covered),
          ordered |-> DropCovered(ordered, covered),
          upto    |-> upto]
       : kept \in Newest(h.reads, Retained(h, now), settled)}

Later(a, b) == IF a >= b THEN a ELSE b

ReplaceReads(mine, theirs) ==
    [reads   |-> [s \in Stories |-> IF theirs.reads[s] # 0 THEN theirs.reads[s] ELSE mine.reads[s]],
     ordered |-> mine.ordered \cup theirs.ordered,
     upto    |-> theirs.upto]
\* mergeGroup: the later read time of each story, any order the client knows,
\* the later watermark.
MergeReads(mine, theirs) ==
    [reads   |-> [s \in Stories |-> Later(mine.reads[s], theirs.reads[s])],
     ordered |-> mine.ordered \cup theirs.ordered,
     upto    |-> Later(mine.upto, theirs.upto)]

\* isStoryRead: by its entry or, while its order is valid, by the watermark.
IsRead(h, s, now) == h.reads[s] # 0 \/ (s <= h.upto /\ Fresh(s, now))

-----------------------------------------------------------------------------
(* The browser's side: viewed and readBefore, with the cards on its page.  *)

SkipUnread(h, valid, upto) == {c \in valid : h.reads[c] # 0}
\* The cards up to which every card above the watermark has been viewed.
ReadPrefix(h, valid, upto) == {c \in valid : \A d \in valid : upto < d /\ d <= c => h.reads[d] # 0}

\* compactViewedState: the watermark moves over the longest run of read cards.
Compact(h, cards, now) ==
    LET valid  == {c \in cards : Fresh(c, now)}
        upto   == IF Fresh(h.upto, now) THEN h.upto ELSE 0
        prefix == ReadPrefix(h, valid, upto)
        mark   == CHOOSE m \in prefix \cup {upto} : \A c \in prefix \cup {upto} : c <= m
    IN  [reads   |-> [s \in Stories |-> IF s \in valid /\ s <= mark THEN 0 ELSE h.reads[s]],
         ordered |-> {},
         upto    |-> mark]

\* loadViewed and loadReadBefore.
Loaded(h, now) ==
    [reads   |-> Only(h.reads, Retained(h, now)),
     ordered |-> {},
     upto    |-> IF Fresh(h.upto, now) THEN h.upto ELSE 0]

\* currentReadPayload: an entry is ordered when its card is on the page.
Payloads(h, cards, now) ==
    {[reads   |-> Only(h.reads, kept),
      ordered |-> {s \in kept \cap cards : Fresh(s, now)},
      upto    |-> IF Fresh(h.upto, now) THEN h.upto ELSE 0]
        : kept \in Newest(h.reads, Retained(h, now), {})}

\* mergeRemoteState: nothing is touched unless something changed.
Absorb(h, remote, cards, now) ==
    LET upto  == IF Fresh(remote.upto, now) THEN Later(h.upto, remote.upto) ELSE h.upto
        all   == [s \in Stories |->
                    IF Fresh(remote.reads[s], now) THEN Later(h.reads[s], remote.reads[s])
                                                   ELSE h.reads[s]]
        kept  == {s \in Stories : Fresh(all[s], now)}
        next  == [reads |-> Only(all, kept), ordered |-> {}, upto |-> upto]
    IN  IF next = h THEN h ELSE Compact(next, cards, now)
=============================================================================
