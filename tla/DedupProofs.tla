------------------------------ MODULE DedupProofs ------------------------------
(***************************************************************************)
(* Theorems about Dedup, for any events, articles, gates, prescreens and   *)
(* limits.                                                                 *)
(***************************************************************************)
EXTENDS Dedup, FiniteSetTheorems, TLAPS

USE DedupAssumption

Types ==
    /\ owner \in [Articles -> Events \cup {None}]
    /\ DOMAIN reviews = Pairs
    /\ known \in [Events -> SUBSET Articles]
    /\ pending \subseteq Pairs /\ round \subseteq Pairs

\* Outside a pass nothing waits, and a pair is on its way only to its merge.
Idle ==
    /\ at \in {"idle", "pass"} => pending = {} /\ round = {}
    /\ at # "merge" => pair = {}

\* The pairs of a round share no event, with each other or with the pair that
\* is to be merged.
Apart ==
    /\ \A p, q \in round : p = q \/ p \cap q = {}
    /\ at = "merge" => \A p \in round : p \cap pair = {}

\* What is known of the events of a round is what they are; of the events that
\* wait, that or nothing.
Known ==
    /\ \A p \in round : \A e \in p : known[e] = Members(e) /\ known[e] # {}
    /\ \A p \in pending : \A e \in p : known[e] = Members(e) \/ known[e] = {}

\* The pair that is to be merged was approved as it is.
Approved ==
    at = "merge" =>
        /\ pair \in Pairs /\ pair \subseteq Live
        /\ reviews[pair].input = Input(pair) /\ reviews[pair].merge = "yes"

\* Two articles that the review saw in different events are in one event now.
Together(p) ==
    \E a, b \in Articles : \E e, f \in p :
        /\ e # f /\ a \in reviews[p].input[e] /\ b \in reviews[p].input[f]
        /\ owner[a] = owner[b] /\ owner[a] # None

Settled ==
    \A p \in Pairs \ lost :
        p # pair /\ reviews[p] # None /\ reviews[p].merge = "yes" => Together(p)

RoundInv == Types /\ Idle /\ Apart /\ Known /\ Approved
DedupInv == RoundInv /\ Settled

--------------------------------------------------------------------------------
LEMMA JoinedPairs == \A X : Joined(X) \subseteq Pairs
BY DEF Joined

LEMMA SelectedPairs ==
    ASSUME NEW C, NEW S \in Selections(Gated, Screened(C)) PROVE S \subseteq Pairs
<1>1. Gated \subseteq Pairs /\ Screened(C) \subseteq Pairs
  BY JoinedPairs DEF Gated, Screened
<1> QED
  BY <1>1 DEF Selections

\* A step that leaves the articles and the reviews alone keeps what was settled
\* settled, unless it drops a pair that is not lost.
LEMMA SettledKept ==
    ASSUME Settled, UNCHANGED <<owner, reviews>>, lost \subseteq lost',
           pair' = pair \/ pair = {} \/ pair \in lost'
    PROVE  Settled'
<1>1. Pairs' = Pairs
  BY DEF Pairs
<1>2. SUFFICES ASSUME NEW p \in Pairs, p \notin lost', p # pair',
                      reviews[p] # None, reviews[p].merge = "yes"
               PROVE  Together(p)'
  BY <1>1 DEF Settled
<1>3. {} \notin Pairs
  <2>1. Cardinality({}) = 0
    BY FS_EmptySet
  <2> QED
    BY <2>1 DEF Pairs
<1>4. p \notin lost /\ p # pair
  BY <1>2, <1>3
<1> QED
  BY <1>2, <1>4 DEF Settled, Together

--------------------------------------------------------------------------------
(* The steps.                                                                *)

LEMMA InitKeeps == ASSUME Init PROVE DedupInv
<1>1. RoundInv
  BY DEF Init, RoundInv, Types, Idle, Apart, Known, Approved
<1>2. Settled
  BY DEF Init, Settled
<1> QED
  BY <1>1, <1>2 DEF DedupInv

\* Outside a pass, nothing is compared.
LEMMA QuietRound ==
    ASSUME Types', at' \in {"idle", "pass"}, pending' = {}, round' = {}, pair' = {}
    PROVE  RoundInv'
BY DEF RoundInv, Types, Idle, Apart, Known, Approved

LEMMA RestKeeps ==
    ASSUME DedupInv, Rest, UNCHANGED store, lost \subseteq lost', pair = {} \/ pair \in lost'
    PROVE  DedupInv'
<1>1. Types'
  BY DEF DedupInv, RoundInv, Types, Rest, store, Pairs
<1>2. RoundInv'
  BY <1>1, QuietRound DEF Rest
<1>3. Settled'
  BY SettledKept DEF DedupInv, store
<1> QED
  BY <1>2, <1>3 DEF DedupInv

LEMMA StartKeeps == ASSUME DedupInv, Start PROVE DedupInv'
<1>1. Types'
  BY DEF DedupInv, RoundInv, Types, Start, Pairs
<1>2. RoundInv'
  BY <1>1, QuietRound DEF Start, DedupInv, RoundInv, Idle
<1>3. Settled'
  BY SettledKept DEF DedupInv, Start
<1> QED
  BY <1>2, <1>3 DEF DedupInv

LEMMA StartPassKeeps == ASSUME DedupInv, StartPass PROVE DedupInv'
<1> USE DEF DedupInv, RoundInv
<1>1. pending' \subseteq Pairs
  BY SelectedPairs DEF StartPass
<1>2. Types'
  <2>1. known' \in [Events -> SUBSET Articles]
    BY DEF StartPass, Members
  <2> QED
    BY <1>1, <2>1 DEF StartPass, Types, store, Pairs
<1>3. round' = {} /\ at' = "rounds" /\ pair' = {}
  BY DEF StartPass, Idle
<1>4. \A p \in pending' : \A e \in p : known'[e] = Members(e)
  BY <1>1 DEF StartPass, Pairs
<1>5. Idle' /\ Apart' /\ Known' /\ Approved'
  BY <1>3, <1>4 DEF Idle, Apart, Known, Approved, StartPass, store, Members
<1>6. Settled'
  BY SettledKept DEF StartPass, store
<1> QED
  BY <1>2, <1>5, <1>6

LEMMA NextRoundKeeps == ASSUME DedupInv, NextRound PROVE DedupInv'
<1> USE DEF DedupInv, RoundInv
<1>1. PICK R \in SUBSET pending :
        /\ Disjoint(R)
        /\ round' = {p \in R : p \subseteq Live /\ \A e \in p : known[e] # {}}
        /\ pending' = pending \ R
  BY DEF NextRound
<1>2. /\ at = "rounds" /\ pair = {} /\ pending' \subseteq pending /\ round' \subseteq pending
      /\ UNCHANGED <<owner, reviews, at, known, pair, lost>>
  BY <1>1 DEF NextRound, Idle, store
<1>3. Types' /\ Idle' /\ Approved'
  BY <1>2 DEF Types, Idle, Approved, Pairs
<1>4. Apart'
  BY <1>1, <1>2 DEF Apart, Disjoint
<1>5. Known'
  BY <1>1, <1>2 DEF Known, Members
<1>6. Settled'
  BY <1>2, SettledKept
<1> QED
  BY <1>3, <1>4, <1>5, <1>6

\* What is asked of the model is what the two events are.
LEMMA AskedIsInput ==
    ASSUME RoundInv, NEW p \in round
    PROVE  Asked(p) = Input(p) /\ p \in Pairs /\ p \subseteq Live
<1>1. p \in Pairs /\ p \subseteq Events
  BY DEF RoundInv, Types, Pairs
<1>2. \A e \in p : known[e] = Members(e) /\ Members(e) # {}
  BY DEF RoundInv, Known
<1> QED
  BY <1>1, <1>2 DEF Asked, Input, Live

LEMMA ApproveKeeps == ASSUME DedupInv, Approve PROVE DedupInv'
<1> USE DEF DedupInv, RoundInv
<1>1. PICK p \in round : Record(p, "yes") /\ round' = round \ {p} /\ pair' = p /\ at' = "merge"
  BY DEF Approve
<1>2. UNCHANGED <<owner, known, pending, lost>> /\ at = "rounds" /\ pair = {} /\ Pairs' = Pairs
  BY DEF Approve, Idle, Pairs
<1>3. p \in Pairs /\ p \subseteq Live /\ Asked(p) = Input(p)
  BY AskedIsInput
<1>4. /\ DOMAIN reviews' = Pairs
      /\ reviews'[p] = [input |-> Input(p), merge |-> "yes"]
      /\ \A q \in Pairs : q # p => reviews'[q] = reviews[q]
  BY <1>1, <1>3 DEF Record, Types
<1>5. Types' /\ Idle' /\ Apart' /\ Known'
  BY <1>1, <1>2, <1>4 DEF Types, Idle, Apart, Known, Members
<1>6. Approved'
  BY <1>1, <1>2, <1>3, <1>4 DEF Approved, Input, Live, Members
<1>7. Settled'
  <2>1. SUFFICES ASSUME NEW q \in Pairs, q \notin lost, q # p,
                        reviews'[q] # None, reviews'[q].merge = "yes"
                 PROVE  Together(q)'
    BY <1>1, <1>2 DEF Settled
  <2>2. reviews'[q] = reviews[q] /\ q # pair
    <3>1. q # {}
      BY FS_EmptySet DEF Pairs
    <3> QED
      BY <1>2, <1>4, <2>1, <3>1
  <2> QED
    BY <1>2, <2>1, <2>2 DEF Settled, Together
<1> QED
  BY <1>5, <1>6, <1>7

\* A pair leaves its round with a decision to leave it apart, or with none.
LEMMA LeaveApart ==
    ASSUME DedupInv, at = "rounds", NEW p \in round, round' = round \ {p},
           \/ UNCHANGED reviews
           \/ \E merge \in {"no", "unsure"} : Record(p, merge),
           UNCHANGED <<owner, filed, at, known, pending, pair, lost>>
    PROVE  DedupInv'
<1> USE DEF DedupInv, RoundInv
<1>1. /\ DOMAIN reviews' = Pairs /\ Pairs' = Pairs
      /\ \A q \in Pairs : reviews'[q] = reviews[q] \/ reviews'[q].merge # "yes"
  BY DEF Record, Types, Pairs
<1>2. Types' /\ Idle' /\ Apart' /\ Known' /\ Approved'
  BY <1>1 DEF Types, Idle, Apart, Known, Approved, Members
<1>3. Settled'
  BY <1>1 DEF Settled, Together
<1> QED
  BY <1>2, <1>3

LEMMA DeclineKeeps == ASSUME DedupInv, Decline PROVE DedupInv'
<1>1. PICK p \in round, merge \in {"no", "unsure"} : Record(p, merge) /\ round' = round \ {p}
  BY DEF Decline
<1> QED
  BY <1>1, LeaveApart DEF Decline

LEMMA NoDecisionKeeps == ASSUME DedupInv, NoDecision PROVE DedupInv'
<1>1. PICK p \in round : NotKept(p) /\ round' = round \ {p}
  BY DEF NoDecision
<1> QED
  BY <1>1, LeaveApart DEF NoDecision, NotKept

\* What a merge does to the two events, and that it does nothing to others.
LEMMA MergeMoves ==
    ASSUME RoundInv, Merge
    PROVE  /\ at = "merge" /\ pair \in Pairs
           /\ UNCHANGED <<reviews, pending, round>> /\ pair' = {} /\ at' = "rounds"
           /\ \E w, l \in pair :
                /\ w # l
                /\ \/ owner' = [a \in Articles |-> IF owner[a] = l THEN w ELSE owner[a]] /\ lost' = lost
                   \/ owner' = owner /\ lost' = lost \cup {pair}
                /\ known' = Reread(w, l)
BY DEF Merge, RoundInv, Approved

LEMMA MergeKeeps == ASSUME DedupInv, Merge PROVE DedupInv'
<1> USE DEF DedupInv, RoundInv
<1>1. /\ at = "merge" /\ pair \in Pairs /\ Pairs' = Pairs
      /\ UNCHANGED <<reviews, pending, round>> /\ pair' = {} /\ at' = "rounds"
  BY MergeMoves DEF Pairs
<1>2. PICK w \in pair, l \in pair :
        /\ w # l
        /\ \/ owner' = [a \in Articles |-> IF owner[a] = l THEN w ELSE owner[a]] /\ lost' = lost
           \/ owner' = owner /\ lost' = lost \cup {pair}
        /\ known' = Reread(w, l)
  BY MergeMoves
<1>3. w \in Events /\ l \in Events /\ pair \subseteq Events
  BY <1>1 DEF Pairs
<1>4. owner' \in [Articles -> Events \cup {None}]
  BY <1>2, <1>3 DEF Types
<1>5. known' = [e \in Events |-> IF e = l THEN {}
                              ELSE IF e = w THEN {a \in Articles : owner'[a] = w} ELSE known[e]]
  BY <1>2, <1>3 DEF Reread, Types
<1>6. Types'
  BY <1>1, <1>4, <1>5 DEF Types
<1>7. \A e \in Events \ {w, l} : Members(e)' = Members(e) /\ known'[e] = known[e]
  BY <1>2, <1>3, <1>5 DEF Members, Types
<1>8. known'[w] = Members(w)' /\ known'[l] = {}
  BY <1>2, <1>3, <1>5 DEF Members
<1>9. Idle' /\ Apart' /\ Approved'
  BY <1>1 DEF Idle, Apart, Approved
<1>10. Known'
  <2>1. \A p \in round : p \subseteq Events \ {w, l}
    BY <1>1, <1>2 DEF Types, Pairs, Apart
  <2>2. \A p \in round : \A e \in p : known'[e] = Members(e)' /\ known'[e] # {}
    BY <1>7, <2>1 DEF Known
  <2>3. \A p \in pending : \A e \in p : known'[e] = Members(e)' \/ known'[e] = {}
    BY <1>7, <1>8 DEF Known, Types, Pairs
  <2> QED
    BY <1>1, <2>2, <2>3 DEF Known
<1>11. Settled'
  <2>1. SUFFICES ASSUME NEW p \in Pairs, p \notin lost',
                        reviews[p] # None, reviews[p].merge = "yes"
                 PROVE  Together(p)'
    BY <1>1 DEF Settled
  <2>2. CASE p = pair
    <3>1. owner' = [a \in Articles |-> IF owner[a] = l THEN w ELSE owner[a]]
      BY <1>2, <2>1, <2>2
    <3>2. reviews[p].input[w] = Members(w) /\ reviews[p].input[l] = Members(l)
      BY <1>1, <2>2 DEF Approved, Input
    <3>3. PICK a \in Members(w), b \in Members(l) : TRUE
      BY <1>1 DEF Approved, Live
    <3>4. a \in Articles /\ b \in Articles /\ owner'[a] = w /\ owner'[b] = w /\ w # None
      BY <1>2, <1>3, <3>1, <3>3 DEF Members
    <3> QED
      BY <1>1, <1>2, <2>2, <3>2, <3>3, <3>4 DEF Together
  <2>3. CASE p # pair
    <3>1. Together(p)
      BY <1>2, <2>1, <2>3 DEF Settled
    <3>2. \A a, b \in Articles : owner[a] = owner[b] /\ owner[a] # None => owner'[a] = owner'[b] /\ owner'[a] # None
      BY <1>2, <1>3
    <3> QED
      BY <1>1, <3>1, <3>2 DEF Together
  <2> QED
    BY <2>2, <2>3
<1> QED
  BY <1>6, <1>9, <1>10, <1>11

LEMMA EndPassKeeps == ASSUME DedupInv, EndPass PROVE DedupInv'
<1>1. CASE Rest
  BY <1>1, RestKeeps DEF EndPass, DedupInv, RoundInv, Idle
<1>2. CASE at' = "pass" /\ UNCHANGED <<passes, merged, size, known, pending, round, pair>>
  <2>1. Types'
    BY <1>2 DEF EndPass, DedupInv, RoundInv, Types, store, Pairs
  <2>2. RoundInv'
    BY <1>2, <2>1, QuietRound DEF EndPass, DedupInv, RoundInv, Idle
  <2>3. Settled'
    BY <1>2, SettledKept DEF EndPass, DedupInv, store
  <2> QED
    BY <2>2, <2>3 DEF DedupInv
<1> QED
  BY <1>1, <1>2 DEF EndPass

LEMMA ArriveKeeps == ASSUME DedupInv, Arrive PROVE DedupInv'
<1> USE DEF DedupInv, RoundInv
<1>1. PICK a \in Articles, e \in Events : owner[a] = None /\ owner' = [owner EXCEPT ![a] = e]
  BY DEF Arrive
<1>2. UNCHANGED <<reviews, at, known, pending, round, pair, lost>> /\ at = "idle" /\ Pairs' = Pairs
  BY DEF Arrive, pass, Pairs
<1>3. Types'
  BY <1>1, <1>2 DEF Types
<1>4. RoundInv'
  BY <1>2, <1>3, QuietRound DEF Idle
<1>5. Settled'
  <2>1. \A x, y \in Articles : owner[x] = owner[y] /\ owner[x] # None => owner'[x] = owner'[y] /\ owner'[x] # None
    BY <1>1 DEF Types
  <2> QED
    BY <1>2, <2>1 DEF Settled, Together
<1> QED
  BY <1>4, <1>5

LEMMA CrashKeeps == ASSUME DedupInv, Crash PROVE DedupInv'
BY RestKeeps DEF Crash

LEMMA StutterKeeps == ASSUME DedupInv, UNCHANGED vars PROVE DedupInv'
<1> USE DEF DedupInv, RoundInv
<1>1. UNCHANGED <<owner, reviews, at, known, pending, round, pair, lost>> /\ Pairs' = Pairs
  BY DEF vars, store, pass, Pairs
<1>2. Types' /\ Idle' /\ Apart' /\ Known' /\ Approved'
  BY <1>1 DEF Types, Idle, Apart, Known, Approved, Members, Input, Live
<1>3. Settled'
  BY <1>1, SettledKept
<1> QED
  BY <1>2, <1>3

LEMMA NextKeeps == ASSUME DedupInv, [Next]_vars PROVE DedupInv'
BY StartKeeps, StartPassKeeps, NextRoundKeeps, ApproveKeeps, DeclineKeeps, NoDecisionKeeps,
   MergeKeeps, EndPassKeeps, ArriveKeeps, CrashKeeps, StutterKeeps
   DEF Next, Deduplicate

\* The rounds of every run keep the invariant that the theorems below rest on.
THEOREM RoundsSound == Spec => []DedupInv
<1>1. Init => DedupInv
  BY InitKeeps
<1>2. DedupInv /\ [Next]_vars => DedupInv'
  BY NextKeeps
<1> QED
  BY <1>1, <1>2, PTL DEF Spec

--------------------------------------------------------------------------------
\* Only a merge takes all the articles of an event, of its own pair.
LEMMA TakesFromPair ==
    ASSUME DedupInv, [Next]_vars
    PROVE  ~ (Live \subseteq Live') =>
               /\ Live \ Live' \subseteq pair
               /\ reviews[pair].input = Input(pair) /\ reviews[pair].merge = "yes"
<1> USE DEF DedupInv, RoundInv
<1>1. CASE owner' = owner
  BY <1>1 DEF Live, Members
<1>2. CASE Arrive
  <2>1. PICK a \in Articles, e \in Events : owner[a] = None /\ owner' = [owner EXCEPT ![a] = e]
    BY <1>2 DEF Arrive
  <2>2. \A x \in Articles : owner[x] # None => owner'[x] = owner[x]
    BY <2>1 DEF Types
  <2> QED
    BY <2>2 DEF Live, Members
<1>3. CASE Merge
  <2>1. PICK w \in pair, l \in pair :
          \/ owner' = [a \in Articles |-> IF owner[a] = l THEN w ELSE owner[a]]
          \/ owner' = owner
    BY <1>3, MergeMoves
  <2>2. \A e \in Events : e # l => Members(e) \subseteq Members(e)'
    BY <2>1 DEF Members, Types
  <2>3. Live \ Live' \subseteq pair
    BY <2>1, <2>2 DEF Live
  <2> QED
    BY <1>3, <2>3, MergeMoves DEF Approved
<1> QED
  BY <1>1, <1>2, <1>3
     DEF Next, Deduplicate, Start, StartPass, NextRound, Approve, Decline, NoDecision, EndPass, Crash, store, vars

\* Two events become one only on a full review of exactly what the two say at
\* that moment (Dedup!MergedAsReviewed), for any number of pairs, rounds,
\* passes, runs and faults.
THEOREM MergesAreReviewed == Spec => MergedAsReviewed
<1>1. DedupInv /\ [Next]_vars =>
        [~ (Live \subseteq Live') =>
            /\ Live \ Live' \subseteq pair
            /\ reviews[pair].input = Input(pair) /\ reviews[pair].merge = "yes"]_vars
  BY TakesFromPair
<1> QED
  BY <1>1, RoundsSound, PTL DEF Spec, MergedAsReviewed

\* Without a fault between the review and the merge, no approval that still
\* holds waits in the database (Dedup!ApprovalsApplied).
THEOREM ApprovalsAreApplied == Spec => []ApprovalsApplied
<1>1. DedupInv => ApprovalsApplied
  <2>1. SUFFICES ASSUME DedupInv, NEW p \in Pairs \ lost, p # pair, p \subseteq Live, Cached(p), reviews[p].merge = "yes"
                 PROVE  FALSE
    BY DEF ApprovalsApplied
  <2>2. Together(p) /\ reviews[p].input = Input(p)
    BY <2>1 DEF DedupInv, Settled, Cached
  <2> QED
    BY <2>2 DEF Together, Input, Members
<1> QED
  BY <1>1, RoundsSound, PTL
================================================================================
