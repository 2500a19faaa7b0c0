--------------------------------- MODULE Dedup ---------------------------------
(***************************************************************************)
(* pipeline/aggregate.py, deduplicate_active_events_llm, run after run:    *)
(* cheap gates and a model's prescreen name pairs of events, a strict      *)
(* review decides the pairs that no stored review settles, and approved    *)
(* pairs are merged.  Reviews go out in rounds of disjoint pairs and are   *)
(* applied one after the other; a crash can come between any two writes.   *)
(*                                                                         *)
(* What an event says is its set of articles: titles do not change while   *)
(* the stage runs.  All events are recent and of one category group.       *)
(* The files that a merge writes are in Aggregation.                       *)
(***************************************************************************)
EXTENDS Naturals, Sequences, FiniteSets, FiniteSetsExt

CONSTANTS
    Events, Articles, None,
    First,             \* the event of each article at the beginning, or None
    Alike,             \* pairs of articles by which the cheap gates find events
    Akin,              \* pairs of articles by which the prescreen does
    Hash,              \* bits of the hash of each event's id
    Batch, Anchors,    \* the most events of a prescreen, and its anchors
    MaxPairs,          \* aggregation.deduplication_max_pairs
    MaxPasses,
    MaxFaults          \* bound on crashes, errors, missing files and Lite answers

ASSUME DedupAssumption ==
    /\ First \in [Articles -> Events \cup {None}] /\ None \notin Events
    /\ \A p \in Alike \cup Akin : p \subseteq Articles
    /\ \A e, f \in Events : Hash[e] = Hash[f] => e = f
    /\ Batch \in Nat /\ Anchors \in Nat /\ Anchors < Batch
    /\ {MaxPairs, MaxPasses} \subseteq Nat \ {0} /\ MaxFaults \in Nat

VARIABLES
    owner,    \* owner[a]: the event_id of a's row
    filed,    \* the events whose file can be read
    reviews,  \* deduplication_reviews: what was compared and decided, per pair
    at,       \* "idle", "pass", "rounds" or "merge"
    passes, merged, \* passes begun, merges of this one
    size,     \* article_count as the pass read it
    known,    \* event_articles_by_id
    pending,  \* pairs that wait for a round
    round,    \* pairs of the round whose decisions are not applied yet
    pair,     \* the approved pair that is to be merged
    faults,
    lost      \* history: pairs approved when a fault kept them apart

store == <<owner, filed, reviews>>
pass == <<at, passes, merged, size, known, pending, round, pair>>
vars == <<store, pass, faults, lost>>

Pairs == {p \in SUBSET Events : Cardinality(p) = 2}
Members(e) == {a \in Articles : owner[a] = e}
Live == {e \in Events : Members(e) # {}}
Input(p) == [e \in p |-> Members(e)]

Fault == faults < MaxFaults /\ faults' = faults + 1

Init ==
    /\ owner = First /\ filed = Live
    /\ reviews = [p \in Pairs |-> None]
    /\ at = "idle" /\ passes = 0 /\ merged = 0
    /\ size = [e \in Events |-> 0] /\ known = [e \in Events |-> {}]
    /\ pending = {} /\ round = {} /\ pair = {}
    /\ faults = 0 /\ lost = {}

--------------------------------------------------------------------------------
(* Candidates.                                                               *)

Joined(articles) == {p \in Pairs : \E a \in articles : {owner[x] : x \in a} = p}

\* Pairs by titles, headlines and keywords.
Gated == Joined(Alike)

\* The largest events stand in every prescreen.
AnchorSets(L) ==
    {A \in SUBSET L : /\ Cardinality(A) = Min({Anchors, Cardinality(L) - 1})
                      /\ \A e \in A, f \in L \ A : Cardinality(Members(e)) >= Cardinality(Members(f))}

\* The others are divided by the leading bits of their hashes.
Branch(X, e, k) == {f \in X : SubSeq(Hash[f], 1, k) = SubSeq(Hash[e], 1, k)}
Depths == 0 .. Max({Len(Hash[e]) : e \in Events})
Leaves(X, n) ==
    {S \in SUBSET X : \E e \in X, k \in Depths :
        /\ S = Branch(X, e, k) /\ Cardinality(S) <= n
        /\ k > 0 => Cardinality(Branch(X, e, k - 1)) > n}

Chunks(L, A) == IF Cardinality(L) <= Batch THEN {L} ELSE {A \cup X : X \in Leaves(L \ A, Batch - Cardinality(A))}

\* What the prescreens of the chunks name.  A chunk that was answered before is
\* not sent again, and names the same pairs.
Screened(chunks) == {p \in Joined(Akin) : \E C \in chunks : p \subseteq C}

\* A stored review of the same input, whatever it decided.
Cached(p) == reviews[p] # None /\ reviews[p].input = Input(p)

\* Mutant: the limit counts the settled pairs too.
CutFirst(strong, weak) ==
    LET c == strong \cup weak
    IN  {S \ {p \in c : Cached(p)} : S \in {x \in SUBSET c :
            /\ Cardinality(x) = Min({MaxPairs, Cardinality(c)})
            /\ x \subseteq strong \/ strong \subseteq x}}

\* The new pairs, the strong ones first, up to the limit.
Selections(strong, weak) ==
    LET c == {p \in strong \cup weak : ~ Cached(p)}
    IN  {x \in SUBSET c : /\ Cardinality(x) = Min({MaxPairs, Cardinality(c)})
                          /\ x \subseteq strong \/ c \cap strong \subseteq x}

\* A prescreen that fails names no pairs.
StartPass ==
    /\ at = "pass"
    /\ \E A \in AnchorSets(Live) : \E answered \in SUBSET Chunks(Live, A) :
         /\ IF answered = Chunks(Live, A) THEN UNCHANGED faults ELSE Fault
         /\ pending' \in Selections(Gated, Screened(answered))
    /\ passes' = passes + 1 /\ merged' = 0
    /\ size' = [e \in Events |-> Cardinality(Members(e))]
    /\ known' = [e \in Events |-> IF e \in UNION pending' THEN Members(e) ELSE {}]
    /\ at' = "rounds"
    /\ UNCHANGED <<store, round, pair, lost>>

--------------------------------------------------------------------------------
(* Rounds.                                                                   *)

Disjoint(R) ==
    /\ \A p, q \in R : p = q \/ p \cap q = {}
    /\ \A p \in pending \ R : \E q \in R : p \cap q # {}

\* Pairs that lost an event to a merge are dropped.
NextRound ==
    /\ at = "rounds" /\ round = {} /\ pending # {}
    /\ \E R \in SUBSET pending :
         /\ Disjoint(R)
         /\ round' = {p \in R : p \subseteq Live /\ \A e \in p : known[e] # {}}
         /\ pending' = pending \ R
    /\ UNCHANGED <<store, at, passes, merged, size, known, pair, faults, lost>>

Asked(p) == [e \in p |-> known[e]]

\* The decision is stored before anything is merged.
Record(p, merge) == reviews' = [reviews EXCEPT ![p] = [input |-> Asked(p), merge |-> merge]]

Approve ==
    /\ at = "rounds"
    /\ \E p \in round :
         /\ Record(p, "yes") /\ round' = round \ {p}
         /\ pair' = p /\ at' = "merge"
    /\ UNCHANGED <<owner, filed, passes, merged, size, known, pending, faults, lost>>

\* Apart, or together with too little confidence.
Decline ==
    /\ at = "rounds"
    /\ \E p \in round, merge \in {"no", "unsure"} : Record(p, merge) /\ round' = round \ {p}
    /\ UNCHANGED <<owner, filed, at, passes, merged, size, known, pending, pair, faults, lost>>

KeepAny(p) == Record(p, "yes") \* mutant
NotKept(p) == UNCHANGED reviews

\* A review fails, or Lite answers: it may not merge, so its answer is not kept.
NoDecision ==
    /\ at = "rounds" /\ Fault
    /\ \E p \in round : NotKept(p) /\ round' = round \ {p}
    /\ UNCHANGED <<owner, filed, at, passes, merged, size, known, pending, pair, lost>>

\* The event that had more articles when the pass began, or either.
Winner(w, l) == size[w] >= size[l]

Unread(w, l) == known \* mutant: the articles of the winner are not read again
Reread(w, l) == [known EXCEPT ![w] = {a \in Articles : owner'[a] = w}, ![l] = {}]

Merge ==
    /\ at = "merge"
    /\ \E w, l \in pair :
         /\ w # l /\ Winner(w, l)
         /\ IF w \in filed
            THEN /\ owner' = [a \in Articles |-> IF owner[a] = l THEN w ELSE owner[a]]
                 /\ filed' = filed \ {l}
                 /\ UNCHANGED lost
            ELSE UNCHANGED <<owner, filed>> /\ lost' = lost \cup {pair}
         /\ known' = Reread(w, l)
    /\ merged' = merged + 1 /\ pair' = {} /\ at' = "rounds"
    /\ UNCHANGED <<reviews, passes, size, pending, round, faults>>

Rest ==
    /\ passes' = 0 /\ merged' = 0
    /\ size' = [e \in Events |-> 0] /\ known' = [e \in Events |-> {}]
    /\ pending' = {} /\ round' = {} /\ pair' = {} /\ at' = "idle"

EndPass ==
    /\ at = "rounds" /\ round = {} /\ pending = {}
    /\ IF merged > 0 /\ passes < MaxPasses
       THEN at' = "pass" /\ UNCHANGED <<passes, merged, size, known, pending, round, pair>>
       ELSE Rest
    /\ UNCHANGED <<store, faults, lost>>

--------------------------------------------------------------------------------
(* The runs around the stage.                                                *)

\* Maintenance rebuilds the files that are missing.  A split of the coherence
\* review may then fail before it writes one.
Start ==
    /\ at = "idle" /\ at' = "pass"
    /\ \/ filed' = Live /\ UNCHANGED faults
       \/ Fault /\ \E e \in Live : filed' = Live \ {e}
    /\ UNCHANGED <<owner, reviews, passes, merged, size, known, pending, round, pair, lost>>

Arrive ==
    /\ at = "idle"
    /\ \E a \in Articles, e \in Events :
         /\ owner[a] = None
         /\ owner' = [owner EXCEPT ![a] = e] /\ filed' = filed \cup {e}
    /\ UNCHANGED <<reviews, pass, faults, lost>>

\* The process dies, or an exception ends the stage.
Crash ==
    /\ at # "idle" /\ Fault /\ Rest
    /\ lost' = lost \cup ({pair} \ {{}})
    /\ UNCHANGED store

Deduplicate ==
    \/ Start \/ StartPass \/ NextRound \/ Approve \/ Decline \/ NoDecision
    \/ Merge \/ EndPass

Next == Deduplicate \/ Arrive \/ Crash

\* A timer starts the next run; calls to models time out.
Spec == Init /\ [][Next]_vars /\ WF_vars(Deduplicate)

--------------------------------------------------------------------------------
\* Two events become one only on a full review of exactly what the two say at
\* that moment, however many merges the round and the pass have made before.
MergedAsReviewed ==
    [][~ (Live \subseteq Live') =>
          /\ Live \ Live' \subseteq pair
          /\ reviews[pair].input = Input(pair) /\ reviews[pair].merge = "yes"]_vars

\* A stored approval settles its pair for good, so it stays behind, for events
\* as they are, only if a fault came between the review and the merge.
ApprovalsApplied ==
    \A p \in Pairs \ lost : p # pair /\ p \subseteq Live /\ Cached(p) => reviews[p].merge # "yes"

\* However many pairs come first, a pair that the cheap gates name is reviewed
\* as it is, or it changes.
PairsReviewed ==
    \A p \in Pairs : p \in Gated ~> p \notin Gated \/ Cached(p)
================================================================================
