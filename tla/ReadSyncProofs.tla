---------------------------- MODULE ReadSyncProofs -----------------------------
(***************************************************************************)
(* What ReadSync and SyncSession promise, for any stories, pages, browsers,*)
(* groups and limits, through aborted and late requests, lost answers and  *)
(* expiry; then the same through created, followed, forgotten and deleted  *)
(* groups.                                                                 *)
(***************************************************************************)
EXTENDS SyncSession, FiniteSetTheorems, WellFoundedInduction, TLAPS

USE ReadStateAssumption, ReadSyncAssumption

--------------------------------------------------------------------------------
(* The read histories.                                                       *)

\* A bounded set of numbers has a greatest one: compactViewedState finds a mark.
LEMMA Greatest ==
    ASSUME NEW T \in SUBSET Nat, T # {}, NEW n \in Nat, \A y \in T : y <= n
    PROVE  \E x \in T : \A y \in T : y <= x
<1> DEFINE Above(x) == {y \in T : y > x}
           U == {Above(x) : x \in T}
<1>1. \A x \in T : Above(x) \in FiniteSubsetsOf(T)
  <2>1. IsFiniteSet(T) /\ \A x \in T : Above(x) \in SUBSET T
    BY FS_BoundedSetOfNaturals
  <2> QED
    BY <2>1, FS_Subset DEF FiniteSubsetsOf
<1>2. U \subseteq FiniteSubsetsOf(T) /\ U # {}
  BY <1>1
<1>3. PICK A \in U : \A B \in U : ~ (<<B, A>> \in StrictSubsetOrdering(T))
  <2> HIDE DEF U
  <2> QED
    BY <1>2, WFMin, FS_StrictSubsetOrderingWellFounded
<1>4. PICK x \in T : A = Above(x)
  OBVIOUS
<1>5. ASSUME NEW y \in T, y > x PROVE FALSE
  <2>1. Above(y) \subseteq Above(x) /\ y \in Above(x) /\ y \notin Above(y)
    <3>1. x \in Nat /\ y \in Nat /\ \A z \in T : z \in Nat /\ (z > y => z > x) /\ ~(y > y)
      BY <1>5
    <3> HIDE DEF U
    <3> QED
      BY <1>5, <3>1
  <2>2. Above(y) \in SUBSET T /\ Above(x) \in SUBSET T /\ Above(y) # Above(x) /\ Above(y) \in U
    BY <2>1
  <2> HIDE DEF Above, U
  <2>3. <<Above(y), Above(x)>> \in StrictSubsetOrdering(T)
    BY <2>1, <2>2 DEF StrictSubsetOrdering
  <2> QED
    BY <1>3, <1>4, <2>2, <2>3
<1> QED
  BY <1>5

LEMMA FreshFacts ==
    ASSUME NEW s \in Nat, NEW t \in Nat, NEW n \in Nat
    PROVE  /\ Fresh(s, n) /\ s <= t => Fresh(t, n)
           /\ \A m \in Nat : Fresh(s, n) /\ m <= n => Fresh(s, m)
BY DEF Fresh

LEMMA EmptyHistory ==
    /\ Empty \in Histories /\ Entries(Empty) = {}
    /\ Empty.upto = 0 /\ \A s \in Stories : Empty.reads[s] = 0
BY DEF Empty, Histories, Entries

LEMMA HistoryFacts ==
    ASSUME NEW h \in Histories
    PROVE  /\ h.reads \in [Stories -> Nat] /\ h.ordered \subseteq Stories /\ h.upto \in Nat
           /\ \A s \in Stories : h.reads[s] \in Nat /\ s \in Nat /\ s # 0
           /\ Entries(h) \subseteq Stories /\ IsFiniteSet(Entries(h))
BY FS_Subset DEF Histories, Entries

\* normalizeState only drops: entries, orders, or a watermark that has expired.
LEMMA NormalizedFacts ==
    ASSUME NEW h \in Histories, NEW settled, NEW n \in Nat, NEW m \in Normalized(h, settled, n)
    PROVE  /\ m \in Histories /\ m.ordered \subseteq Entries(m)
           /\ m.upto = IF Fresh(h.upto, n) THEN h.upto ELSE 0
           /\ \A s \in Stories : m.reads[s] = 0 \/ m.reads[s] = h.reads[s]
           /\ Cardinality(Entries(m)) <= MaxReads
<1>1. PICK kept \in Newest(h.reads, Retained(h, n), settled) :
        LET ordered == {s \in h.ordered \cap kept : Fresh(s, n)}
            upto    == IF Fresh(h.upto, n) THEN h.upto ELSE 0
            covered == {s \in ordered : s <= upto}
        IN  m = [reads   |-> Only(h.reads, kept \ covered),
                 ordered |-> DropCovered(ordered, covered),
                 upto    |-> upto]
  BY DEF Normalized
<1>2. kept \subseteq Retained(h, n) /\ Cardinality(kept) <= MaxReads
  BY DEF Newest
<1>3. kept \subseteq Entries(h)
  BY <1>2 DEF Retained
<1> DEFINE ordered == {s \in h.ordered \cap kept : Fresh(s, n)}
           upto    == IF Fresh(h.upto, n) THEN h.upto ELSE 0
           covered == {s \in ordered : s <= upto}
<1>4. /\ m.reads = [s \in Stories |-> IF s \in kept \ covered THEN h.reads[s] ELSE 0]
      /\ m.ordered = ordered \ covered /\ m.upto = upto
      /\ m = [reads |-> m.reads, ordered |-> m.ordered, upto |-> m.upto]
  BY <1>1 DEF Only, DropCovered
<1>5. m \in Histories
  BY <1>4, HistoryFacts DEF Histories
<1>6. Entries(m) = kept \ covered
  BY <1>3, <1>4 DEF Entries
<1>7. Cardinality(Entries(m)) <= MaxReads
  <2>1. IsFiniteSet(kept)
    BY <1>3, HistoryFacts, FS_Subset
  <2>2. Cardinality(kept \ covered) <= Cardinality(kept)
    BY <2>1, FS_Subset
  <2>3. Cardinality(kept \ covered) \in Nat /\ Cardinality(kept) \in Nat
    BY <2>1, FS_Subset, FS_CardinalityType
  <2> QED
    BY <1>2, <1>6, <2>2, <2>3
<1> QED
  BY <1>4, <1>5, <1>6, <1>7

\* A history in which a story has been read since it was published.
Sound(h) == \A s \in Stories : h.reads[s] # 0 => s <= h.reads[s]

\* Of the stories that can still be shown, normalizeState drops a read only for
\* the limit, and then it keeps as many as the limit that are as recent.
LEMMA NormalizedKeeps ==
    ASSUME NEW h \in Histories, Sound(h), NEW settled, NEW n \in Nat,
           NEW m \in Normalized(h, settled, n),
           NEW s \in Stories, Fresh(s, n), IsRead(h, s, n), ~IsRead(m, s, n)
    PROVE  /\ h.reads[s] # 0
           /\ Cardinality({u \in Stories : IsRead(m, u, n)}) >= MaxReads
           /\ \A u \in Entries(m) : m.reads[u] >= h.reads[s]
           /\ Cardinality(Entries(h)) > MaxReads
<1>1. PICK kept \in Newest(h.reads, Retained(h, n), settled) :
        LET ordered == {u \in h.ordered \cap kept : Fresh(u, n)}
            upto    == IF Fresh(h.upto, n) THEN h.upto ELSE 0
            covered == {u \in ordered : u <= upto}
        IN  m = [reads   |-> Only(h.reads, kept \ covered),
                 ordered |-> DropCovered(ordered, covered),
                 upto    |-> upto]
  BY DEF Normalized
<1> DEFINE ordered == {u \in h.ordered \cap kept : Fresh(u, n)}
           upto    == IF Fresh(h.upto, n) THEN h.upto ELSE 0
           covered == {u \in ordered : u <= upto}
<1>2. /\ m.reads = [u \in Stories |-> IF u \in kept \ covered THEN h.reads[u] ELSE 0]
      /\ m.upto = upto /\ upto \in Nat
  BY <1>1, HistoryFacts DEF Only
<1>3. /\ kept \subseteq Retained(h, n) /\ Cardinality(kept) <= MaxReads
      /\ Retained(h, n) # kept => Cardinality(kept) = MaxReads
      /\ \A a \in kept, u \in Retained(h, n) \ kept :
            h.reads[a] > h.reads[u] \/ h.reads[a] = h.reads[u]
  BY DEF Newest
<1>4. Retained(h, n) \subseteq Entries(h) /\ Retained(h, n) \subseteq Stories
  BY DEF Retained, Entries
<1>5. h.reads[s] # 0 /\ ~(s <= upto)
  <2>1. s <= h.upto => Fresh(h.upto, n)
    BY HistoryFacts, FreshFacts
  <2> QED
    BY <1>2, <2>1 DEF IsRead
<1>6. s \in Retained(h, n)
  <2>1. s <= h.reads[s] /\ h.reads[s] \in Nat /\ s \in Nat
    BY <1>5, HistoryFacts DEF Sound
  <2>2. Fresh(h.reads[s], n)
    BY <2>1, FreshFacts
  <2> QED
    BY <1>5, <2>2 DEF Retained, Entries
<1>7. s \notin kept
  BY <1>2, <1>5 DEF IsRead
<1>8. ASSUME NEW u \in kept PROVE h.reads[u] >= h.reads[s]
  <2>1. h.reads[u] > h.reads[s] \/ h.reads[u] = h.reads[s]
    BY <1>3, <1>6, <1>7
  <2>2. h.reads[u] \in Nat /\ h.reads[s] \in Nat
    BY <1>3, <1>4, HistoryFacts
  <2> QED
    BY <2>1, <2>2
<1>9. Cardinality(kept) = MaxReads /\ IsFiniteSet(kept) /\ IsFiniteSet(Entries(h))
  BY <1>3, <1>4, <1>6, <1>7, HistoryFacts, FS_Subset
<1>10. Cardinality({u \in Stories : IsRead(m, u, n)}) >= MaxReads
  <2>1. kept \subseteq {u \in Stories : IsRead(m, u, n)}
    <3>1. \A u \in kept \cap covered : u <= m.upto /\ Fresh(u, n)
      BY <1>2
    <3>2. \A u \in kept \ covered : m.reads[u] # 0
      BY <1>2, <1>3, <1>4 DEF Entries
    <3> QED
      BY <1>3, <1>4, <3>1, <3>2 DEF IsRead
  <2>2. IsFiniteSet({u \in Stories : IsRead(m, u, n)})
    BY FS_Subset
  <2>3. Cardinality(kept) <= Cardinality({u \in Stories : IsRead(m, u, n)})
    BY <2>1, <2>2, FS_Subset
  <2> QED
    BY <1>9, <2>3
<1>11. \A u \in Entries(m) : m.reads[u] >= h.reads[s]
  BY <1>2, <1>8 DEF Entries
<1>12. Cardinality(Entries(h)) > MaxReads
  <2>1. kept \cup {s} \subseteq Entries(h)
    BY <1>3, <1>4, <1>6
  <2>2. Cardinality(kept \cup {s}) = MaxReads + 1
    BY <1>7, <1>9, FS_AddElement
  <2>3. Cardinality(kept \cup {s}) <= Cardinality(Entries(h)) /\ Cardinality(Entries(h)) \in Nat
    BY <1>9, <2>1, FS_Subset, FS_CardinalityType
  <2> QED
    BY <2>2, <2>3
<1> QED
  BY <1>5, <1>10, <1>11, <1>12

\* mergeGroup forgets nothing of the row and nothing of the payload.
LEMMA MergeFacts ==
    ASSUME NEW a \in Histories, NEW b \in Histories
    PROVE  LET m == MergeReads(a, b)
           IN  /\ m \in Histories /\ (m.upto = a.upto \/ m.upto = b.upto)
               /\ m.upto >= a.upto /\ m.upto >= b.upto
               /\ \A s \in Stories :
                     /\ m.reads[s] = a.reads[s] \/ m.reads[s] = b.reads[s]
                     /\ m.reads[s] >= a.reads[s] /\ m.reads[s] >= b.reads[s]
BY HistoryFacts DEF MergeReads, Later, Histories

\* currentReadPayload sends a part of what the page has read.
LEMMA PayloadFacts ==
    ASSUME NEW h \in Histories, NEW cards, NEW n \in Nat, NEW p \in Payloads(h, cards, n)
    PROVE  /\ p \in Histories /\ (p.upto = 0 \/ p.upto = h.upto)
           /\ \A s \in Stories : p.reads[s] = 0 \/ p.reads[s] = h.reads[s]
<1>1. PICK kept \in Newest(h.reads, Retained(h, n), {}) :
        p = [reads   |-> Only(h.reads, kept),
             ordered |-> {s \in kept \cap cards : Fresh(s, n)},
             upto    |-> IF Fresh(h.upto, n) THEN h.upto ELSE 0]
  BY DEF Payloads
<1>2. kept \subseteq Stories
  BY DEF Newest, Retained, Entries
<1> QED
  BY <1>1, <1>2, HistoryFacts DEF Only, Histories

LEMMA LoadedFacts ==
    ASSUME NEW h \in Histories, NEW n \in Nat
    PROVE  LET m == Loaded(h, n)
           IN  /\ m \in Histories /\ m.upto = (IF Fresh(h.upto, n) THEN h.upto ELSE 0)
               /\ \A s \in Stories :
                     m.reads[s] = IF h.reads[s] # 0 /\ Fresh(h.reads[s], n) THEN h.reads[s] ELSE 0
BY HistoryFacts DEF Loaded, Only, Retained, Entries, Histories

\* compactViewedState moves the watermark over cards that have been read.
LEMMA CompactFacts ==
    ASSUME NEW h \in Histories, NEW n \in Nat, NEW cards \in SUBSET Stories, \A c \in cards : c <= n
    PROVE  LET m == Compact(h, cards, n)
           IN  /\ m \in Histories /\ (m.upto \in cards \cup {0} \/ m.upto = h.upto)
               /\ Fresh(h.upto, n) => h.upto <= m.upto
               /\ \A s \in Stories : m.reads[s] = h.reads[s] \/
                     (m.reads[s] = 0 /\ s \in cards /\ Fresh(s, n) /\ s <= m.upto)
               /\ \A c \in cards : Fresh(c, n) /\ c <= m.upto => c <= h.upto \/ h.reads[c] # 0
<1> DEFINE valid  == {c \in cards : Fresh(c, n)}
           upto   == IF Fresh(h.upto, n) THEN h.upto ELSE 0
           prefix == {c \in valid : \A d \in valid : upto < d /\ d <= c => h.reads[d] # 0}
           mark   == CHOOSE m \in prefix \cup {upto} : \A c \in prefix \cup {upto} : c <= m
<1>1. upto \in Nat /\ valid \subseteq cards /\ prefix \subseteq valid /\ cards \subseteq Nat
  BY HistoryFacts
<1>2. mark \in prefix \cup {upto} /\ \A c \in prefix \cup {upto} : c <= mark
  <2>1. \E x \in prefix \cup {upto} : \A y \in prefix \cup {upto} : y <= x
    <3> DEFINE bound == n + upto
               T == prefix \cup {upto}
    <3>1. T \in SUBSET Nat /\ T # {} /\ bound \in Nat /\ \A y \in T : y <= bound
      <4>1. n <= n + upto /\ upto <= n + upto /\ bound \in Nat
        BY <1>1
      <4>2. \A y \in prefix : y \in Nat /\ y <= n
        BY <1>1
      <4> HIDE DEF prefix, upto
      <4>3. \A y \in T : y \in Nat /\ y <= bound
        BY <1>1, <4>1, <4>2
      <4> QED
        BY <4>1, <4>3
    <3> HIDE DEF bound, T
    <3>2. \E x \in T : \A y \in T : y <= x
      BY <3>1, Greatest
    <3> QED
      BY <3>2 DEF T
  <2> QED
    BY <2>1
<1>3. Compact(h, cards, n) =
        [reads   |-> [s \in Stories |-> IF s \in valid /\ s <= mark THEN 0 ELSE h.reads[s]],
         ordered |-> {}, upto |-> mark]
  BY DEF Compact, ReadPrefix
<1> HIDE DEF mark
<1>4. mark \in Nat /\ upto <= mark
  BY <1>1, <1>2
<1>5. Compact(h, cards, n) \in Histories
  BY <1>3, <1>4, HistoryFacts DEF Histories
<1>6. ASSUME NEW c \in cards, Fresh(c, n), c <= mark PROVE c <= h.upto \/ h.reads[c] # 0
  <2>1. CASE mark = upto
    BY <1>1, <1>6, <2>1, HistoryFacts
  <2>2. CASE mark \in prefix
    <3>1. upto < c => h.reads[c] # 0
      BY <1>6, <2>2
    <3> QED
      BY <1>1, <1>6, <3>1, HistoryFacts
  <2> QED
    BY <1>2, <2>1, <2>2
<1>7. mark \in cards \cup {0} \/ mark = h.upto
  BY <1>1, <1>2
<1> QED
  BY <1>3, <1>4, <1>5, <1>6, <1>7

\* ... and so keeps what is read of the stories that can still be shown.
LEMMA CompactKeeps ==
    ASSUME NEW h \in Histories, NEW n \in Nat, NEW cards \in SUBSET Stories, \A c \in cards : c <= n,
           NEW s \in Stories, Fresh(s, n), IsRead(h, s, n)
    PROVE  IsRead(Compact(h, cards, n), s, n)
<1>1. s <= h.upto => Fresh(h.upto, n)
  BY HistoryFacts, FreshFacts
<1> QED
  BY <1>1, CompactFacts, HistoryFacts DEF IsRead, Histories

\* mergeRemoteState adds what is read of the stories that can still be shown.
LEMMA AbsorbFacts ==
    ASSUME NEW h \in Histories, NEW remote \in Histories, NEW n \in Nat,
           NEW cards \in SUBSET Stories, \A c \in cards : c <= n
    PROVE  LET m == Absorb(h, remote, cards, n)
           IN  /\ m \in Histories
               /\ m.upto \in cards \cup {0} \/ m.upto = h.upto \/ m.upto = remote.upto
               /\ \A s \in Stories :
                     m.reads[s] = 0 \/ m.reads[s] = h.reads[s] \/ m.reads[s] = remote.reads[s]
               /\ \A c \in cards : Fresh(c, n) /\ c <= m.upto =>
                     c <= h.upto \/ c <= remote.upto \/ h.reads[c] # 0 \/ remote.reads[c] # 0
               /\ Sound(h) /\ Sound(remote) =>
                     \A s \in Stories : Fresh(s, n) /\ (IsRead(h, s, n) \/ IsRead(remote, s, n)) =>
                        IsRead(m, s, n)
<1> DEFINE upto == IF Fresh(remote.upto, n) THEN Later(h.upto, remote.upto) ELSE h.upto
           all  == [s \in Stories |->
                      IF Fresh(remote.reads[s], n) THEN Later(h.reads[s], remote.reads[s])
                                                   ELSE h.reads[s]]
           kept == {s \in Stories : Fresh(all[s], n)}
           next == [reads |-> Only(all, kept), ordered |-> {}, upto |-> upto]
           m    == Absorb(h, remote, cards, n)
<1>1. m = IF next = h THEN h ELSE Compact(next, cards, n)
  BY DEF Absorb
<1>2. /\ upto \in Nat /\ (upto = h.upto \/ upto = remote.upto) /\ h.upto <= upto
      /\ Fresh(remote.upto, n) => remote.upto <= upto
  BY HistoryFacts DEF Later
<1>3. ASSUME NEW s \in Stories
      PROVE  /\ all[s] \in Nat /\ (all[s] = h.reads[s] \/ all[s] = remote.reads[s])
             /\ h.reads[s] <= all[s]
             /\ Fresh(remote.reads[s], n) => remote.reads[s] <= all[s]
  BY HistoryFacts DEF Later
<1> HIDE DEF upto, all
<1>4. /\ next \in Histories /\ next.upto = upto
      /\ \A s \in Stories : next.reads[s] = IF Fresh(all[s], n) THEN all[s] ELSE 0
  BY <1>2, <1>3 DEF Only, Histories
<1>5. ASSUME Sound(h), Sound(remote), NEW s \in Stories, Fresh(s, n),
             IsRead(h, s, n) \/ IsRead(remote, s, n)
      PROVE  IsRead(next, s, n)
  <2>1. CASE s <= h.upto \/ s <= remote.upto
    <3>1. s <= remote.upto => Fresh(remote.upto, n)
      BY <1>5, HistoryFacts, FreshFacts
    <3>2. s <= upto
      BY <1>2, <2>1, <3>1, HistoryFacts
    <3> QED
      BY <1>4, <1>5, <3>2 DEF IsRead
  <2>2. CASE h.reads[s] # 0
    <3>1. s <= h.reads[s] /\ h.reads[s] <= all[s] /\ h.reads[s] \in Nat /\ s \in Nat
      BY <1>3, <1>5, <2>2, HistoryFacts DEF Sound
    <3>2. Fresh(all[s], n) /\ all[s] # 0
      BY <1>3, <1>5, <3>1, FreshFacts DEF Fresh
    <3> QED
      BY <1>4, <3>2 DEF IsRead
  <2>3. CASE remote.reads[s] # 0
    <3>1. s <= remote.reads[s] /\ remote.reads[s] \in Nat /\ s \in Nat
      BY <1>5, <2>3, HistoryFacts DEF Sound
    <3>2. Fresh(remote.reads[s], n)
      BY <1>5, <3>1, FreshFacts
    <3>3. Fresh(all[s], n) /\ all[s] # 0
      BY <1>3, <3>1, <3>2, FreshFacts DEF Fresh
    <3> QED
      BY <1>4, <3>3 DEF IsRead
  <2> QED
    BY <1>5, <2>1, <2>2, <2>3 DEF IsRead
<1> HIDE DEF next
<1>6. CASE next = h
  BY <1>1, <1>2, <1>4, <1>5, <1>6
<1>7. CASE next # h
  <2>1. m = Compact(next, cards, n)
    BY <1>1, <1>7
  <2>2. \A c \in cards : Fresh(c, n) /\ c <= m.upto =>
           c <= h.upto \/ c <= remote.upto \/ h.reads[c] # 0 \/ remote.reads[c] # 0
    <3>1. \A c \in cards : Fresh(c, n) /\ c <= m.upto => c <= upto \/ next.reads[c] # 0
      BY <1>4, <2>1, CompactFacts
    <3> QED
      BY <1>2, <1>3, <1>4, <3>1
  <2>3. Sound(h) /\ Sound(remote) =>
           \A s \in Stories : Fresh(s, n) /\ (IsRead(h, s, n) \/ IsRead(remote, s, n)) =>
              IsRead(m, s, n)
    BY <1>4, <1>5, <2>1, CompactKeeps
  <2>4. /\ m \in Histories /\ (m.upto \in cards \cup {0} \/ m.upto = h.upto \/ m.upto = remote.upto)
        /\ \A s \in Stories : m.reads[s] = 0 \/ m.reads[s] = next.reads[s]
    BY <1>2, <1>4, <2>1, CompactFacts
  <2>5. \A s \in Stories :
           m.reads[s] = 0 \/ m.reads[s] = h.reads[s] \/ m.reads[s] = remote.reads[s]
    BY <1>3, <1>4, <2>4
  <2> QED
    BY <2>2, <2>3, <2>4, <2>5
<1> QED
  BY <1>6, <1>7

--------------------------------------------------------------------------------
(***************************************************************************)
(* What every history that is stored or on its way has behind it: the      *)
(* entries are reads, and of the stories that can still be shown the       *)
(* watermark passes only those that were read or withheld from a page.     *)
(***************************************************************************)
Backed(h, n, read, held) ==
    /\ h.upto <= n /\ Sound(h)
    /\ \A s \in Stories : /\ h.reads[s] # 0 => s \in read
                          /\ s <= h.upto /\ Fresh(s, n) => s \in read \cup held

\* A page shows every story that can still be shown, up to its newest card,
\* except those that were withheld from it.
Complete(cards, n, held) ==
    \A c \in cards : c <= n /\ \A s \in Stories : s <= c /\ Fresh(s, n) => s \in cards \cup held

OK(h) == Backed(h, now, marked, withheld)

AllBacked ==
    /\ \A g \in Groups : OK(groups[g].state)
    /\ \A b \in Browsers : OK(saved[b].state)
    /\ \A t \in Tabs : OK(mine[t])
    /\ \A t \in Tabs : call[t].phase \in {"sent", "full"} => OK(call[t].state)
    /\ \A r \in stray : OK(r.state)
    /\ cleaner # Idle => OK(cleaner.state)

Built == \A t \in Tabs : Complete(page[t], now, withheld)

ReadInv == TypeOK /\ AllBacked /\ Built

\* What a history hides of the stories that can still be shown.
ReadAt(h, n) == {s \in Stories : Fresh(s, n) /\ IsRead(h, s, n)}

\* Whatever is made of backed histories and read cards is backed.
LEMMA BackedFrom ==
    ASSUME NEW a \in Histories, NEW b \in Histories, NEW m \in Histories, NEW n \in Nat,
           NEW read, NEW held, Backed(a, n, read, held), Backed(b, n, read, held),
           NEW cards \in SUBSET Stories, Complete(cards, n, held),
           m.upto \in cards \cup {0} \/ m.upto = a.upto \/ m.upto = b.upto,
           \A s \in Stories : m.reads[s] = 0 \/ m.reads[s] = a.reads[s] \/ m.reads[s] = b.reads[s],
           \A c \in cards : Fresh(c, n) /\ c <= m.upto =>
              c <= a.upto \/ c <= b.upto \/ a.reads[c] # 0 \/ b.reads[c] # 0
    PROVE  Backed(m, n, read, held)
<1>1. m.upto <= n
  <2>1. a.upto <= n /\ b.upto <= n /\ 0 <= n /\ \A c \in cards : c <= n
    BY DEF Backed, Complete
  <2> QED
    BY <2>1
<1>2. Sound(m) /\ \A s \in Stories : m.reads[s] # 0 => s \in read
  BY DEF Backed, Sound
<1>3. ASSUME NEW s \in Stories, s <= m.upto, Fresh(s, n) PROVE s \in read \cup held
  <2>1. CASE m.upto = a.upto \/ m.upto = b.upto
    BY <1>3, <2>1 DEF Backed
  <2>2. CASE m.upto = 0
    BY <1>3, <2>2, HistoryFacts
  <2>3. CASE m.upto \in cards
    <3>1. s \in cards \cup held
      BY <1>3, <2>3 DEF Complete
    <3> QED
      BY <1>3, <3>1 DEF Backed
  <2> QED
    BY <2>1, <2>2, <2>3
<1> QED
  BY <1>1, <1>2, <1>3 DEF Backed

\* The same, when no card is involved.
LEMMA BackedParts ==
    ASSUME NEW a \in Histories, NEW b \in Histories, NEW m \in Histories, NEW n \in Nat,
           NEW read, NEW held, Backed(a, n, read, held), Backed(b, n, read, held),
           m.upto = 0 \/ m.upto = a.upto \/ m.upto = b.upto,
           \A s \in Stories : m.reads[s] = 0 \/ m.reads[s] = a.reads[s] \/ m.reads[s] = b.reads[s]
    PROVE  Backed(m, n, read, held)
<1>1. Complete({}, n, held)
  BY DEF Complete
<1> QED
  BY <1>1, BackedFrom

\* Time passes, and more is read and withheld.
LEMMA BackedLater ==
    ASSUME NEW h \in Histories, NEW n \in Nat, NEW k \in Nat, n <= k,
           NEW read, NEW held, NEW more, NEW most, read \subseteq more, held \subseteq most
    PROVE  /\ Backed(h, n, read, held) => Backed(h, k, more, most)
           /\ \A cards \in SUBSET Stories : Complete(cards, n, held) => Complete(cards, k, most)
<1>1. \A s \in Stories : Fresh(s, k) => Fresh(s, n)
  BY HistoryFacts, FreshFacts
<1>2. Backed(h, n, read, held) => Backed(h, k, more, most)
  BY <1>1, HistoryFacts DEF Backed
<1>3. \A cards \in SUBSET Stories : Complete(cards, n, held) => Complete(cards, k, most)
  BY <1>1, HistoryFacts DEF Complete
<1> QED
  BY <1>2, <1>3

--------------------------------------------------------------------------------
(* What the types say.                                                       *)

LEMMA CallFacts ==
    ASSUME NEW c \in Calls
    PROVE  /\ c.phase \in {"none", "sent", "full", "short", "gone"}
           /\ c.phase # "none" => c.of \in Tokens /\ c.why \in Reasons
           /\ c.phase \in {"sent", "full"} => c.state \in Histories
           /\ c.phase = "sent" => c.known \in Nat
           /\ c.phase \in {"full", "short"} => c.rev \in Nat
           /\ c = NoCall <=> c.phase = "none"
BY DEF Calls, NoCall

LEMMA StateFacts ==
    ASSUME TypeOK
    PROVE  /\ now \in Nat /\ NoCall \in Calls /\ NoCall.phase = "none"
           /\ \A t \in Tabs : /\ BrowserOf[t] \in Browsers /\ page[t] \subseteq Stories
                              /\ mine[t] \in Histories /\ token[t] \in Tokens \cup {None}
                              /\ known[t] \in Nat /\ call[t] \in Calls
           /\ \A b \in Browsers : /\ saved[b].state \in Histories
                                  /\ saved[b].token \in Tokens \cup {None}
                                  /\ saved[b].mark.of \in Tokens \cup {None}
                                  /\ saved[b].mark.rev \in Nat
           /\ \A r \in stray : r.of \in Tokens /\ r.state \in Histories
           /\ cleaner # Idle => /\ cleaner.of \in Tokens /\ cleaner.state \in Histories
                                /\ cleaner.rev \in Nat /\ cleaner.at \in Nat
BY DEF TypeOK, Browsers, Calls, NoCall

RowOK(row) ==
    /\ row \in [state : Histories, rev : Nat \ {0}, until : Nat]
    /\ row.state.ordered \subseteq Entries(row.state)

LEMMA RowFacts ==
    ASSUME TypeOK, NEW g \in Groups
    PROVE  g \in Tokens /\ RowOK(groups[g]) /\ groups[g].state \in Histories /\ groups[g].rev \in Nat \ {0}
BY DEF TypeOK, Groups, RowOK

--------------------------------------------------------------------------------
(* The origin.                                                               *)

\* What a merge makes of a row and a payload.
LEMMA MergedFacts ==
    ASSUME TypeOK, NEW row, RowOK(row), NEW payload \in Histories, NEW new \in Merged(row, payload)
    PROVE  /\ RowOK(new)
           /\ new.rev = row.rev \/ new.rev = row.rev + 1
           /\ new.state # row.state => new.rev = row.rev + 1
           /\ \A read, held :
                 Backed(row.state, now, read, held) /\ Backed(payload, now, read, held) =>
                    Backed(new.state, now, read, held)
<1>1. PICK r \in Normalized(row.state, {}, now), q \in Normalized(payload, {}, now) :
         \E x \in Normalized(MergeReads(r, q), Entries(r), now) : new = Stored(row, x)
  BY DEF Merged
<1>0. PICK m \in Normalized(MergeReads(r, q), Entries(r), now) : new = Stored(row, m)
  BY <1>1
<1>2. now \in Nat /\ row.state \in Histories /\ row.rev \in Nat \ {0}
  BY StateFacts DEF RowOK
<1>3. /\ r \in Histories /\ (r.upto = 0 \/ r.upto = row.state.upto)
      /\ \A s \in Stories : r.reads[s] = 0 \/ r.reads[s] = row.state.reads[s]
  <2> DEFINE h == row.state
  <2>1. h \in Histories /\ r \in Normalized(h, {}, now)
    BY <1>1, <1>2
  <2> HIDE DEF h
  <2>2. /\ r \in Histories /\ (r.upto = 0 \/ r.upto = h.upto)
        /\ \A s \in Stories : r.reads[s] = 0 \/ r.reads[s] = h.reads[s]
    BY <1>2, <2>1, NormalizedFacts
  <2> QED
    BY <2>2 DEF h
<1>4. /\ q \in Histories /\ (q.upto = 0 \/ q.upto = payload.upto)
      /\ \A s \in Stories : q.reads[s] = 0 \/ q.reads[s] = payload.reads[s]
  BY <1>2, NormalizedFacts
<1>5. LET x == MergeReads(r, q)
      IN  /\ x \in Histories /\ (x.upto = r.upto \/ x.upto = q.upto)
          /\ \A s \in Stories : x.reads[s] = r.reads[s] \/ x.reads[s] = q.reads[s]
  BY <1>3, <1>4, MergeFacts
<1>6. /\ m \in Histories /\ m.ordered \subseteq Entries(m)
      /\ (m.upto = 0 \/ m.upto = MergeReads(r, q).upto)
      /\ \A s \in Stories : m.reads[s] = 0 \/ m.reads[s] = MergeReads(r, q).reads[s]
  BY <1>2, <1>5, NormalizedFacts
<1>7. Until \in Nat
  BY <1>2 DEF Until
<1>8. /\ new.state = m /\ RowOK(new)
      /\ new.rev = IF m = row.state THEN row.rev ELSE row.rev + 1
  BY <1>0, <1>2, <1>6, <1>7 DEF Stored, RowOK
<1>9. ASSUME NEW read, NEW held, Backed(row.state, now, read, held), Backed(payload, now, read, held)
      PROVE  Backed(m, now, read, held)
  <2>1. Backed(r, now, read, held) /\ Backed(q, now, read, held)
    BY <1>2, <1>3, <1>4, <1>9, BackedParts
  <2>2. Backed(MergeReads(r, q), now, read, held)
    BY <1>2, <1>3, <1>4, <1>5, <2>1, BackedParts
  <2> QED
    BY <1>2, <1>5, <1>6, <2>2, BackedParts
<1> QED
  BY <1>2, <1>8, <1>9

\* A merge changes one row at most; others may expire.
LEMMA MergeGroupFacts ==
    ASSUME TypeOK, NEW g \in Tokens, NEW payload \in Histories, MergeGroup(g, payload)
    PROVE  /\ DOMAIN groups' = Tokens
           /\ Unexpired[g] = None => groups' = groups
           /\ Unexpired[g] # None => groups[g] = Unexpired[g] /\ groups'[g] \in Merged(groups[g], payload)
           /\ \A f \in Tokens \ {g} : groups'[f] = groups[f] \/ groups'[f] = None
           /\ groups[g] = None => groups'[g] = None
           /\ \A f \in Tokens : groups'[f] # None => RowOK(groups'[f])
<1>1. DOMAIN groups = Tokens /\ DOMAIN Unexpired = Tokens
  BY DEF TypeOK, Unexpired
<1>2. \A f \in Tokens : /\ Unexpired[f] = groups[f] \/ Unexpired[f] = None
                        /\ groups[f] = None => Unexpired[f] = None
                        /\ groups[f] # None => RowOK(groups[f])
  BY RowFacts DEF Unexpired, Groups
<1>3. CASE Unexpired[g] = None
  BY <1>1, <1>2, <1>3 DEF MergeGroup
<1>4. CASE Unexpired[g] # None
  <2>1. PICK row \in Merged(groups[g], payload) : groups' = [Unexpired EXCEPT ![g] = row]
    BY <1>4 DEF MergeGroup
  <2>2. RowOK(row)
    BY <1>2, <1>4, MergedFacts
  <2> QED
    BY <1>1, <1>2, <1>4, <2>1, <2>2
<1> QED
  BY <1>3, <1>4

LEMMA MergeGroupBacked ==
    ASSUME ReadInv, NEW g \in Tokens, NEW payload \in Histories, MergeGroup(g, payload),
           NEW read, marked \subseteq read, Backed(payload, now, read, withheld)
    PROVE  \A f \in Groups' : RowOK(groups'[f]) /\ Backed(groups'[f].state, now, read, withheld)
<1>1. \A f \in Groups : RowOK(groups[f]) /\ Backed(groups[f].state, now, read, withheld)
  BY RowFacts DEF ReadInv, AllBacked, OK, Backed
<1>2. \A f \in Groups' : RowOK(groups'[f])
  BY MergeGroupFacts DEF ReadInv, Groups
<1>3. ASSUME NEW f \in Groups' PROVE Backed(groups'[f].state, now, read, withheld)
  <2>1. f \in Tokens /\ groups'[f] # None
    BY DEF Groups
  <2>2. CASE groups'[f] = groups[f]
    BY <1>1, <2>1, <2>2 DEF Groups
  <2>3. CASE groups'[f] # groups[f]
    <3>1. f = g /\ Unexpired[g] # None /\ groups[g] # None /\ groups'[g] \in Merged(groups[g], payload)
      BY <2>1, <2>3, MergeGroupFacts DEF ReadInv, Unexpired
    <3>2. g \in Groups
      BY <3>1 DEF Groups
    <3> QED
      BY <1>1, <3>1, <3>2, MergedFacts DEF ReadInv
  <2> QED
    BY <2>2, <2>3
<1> QED
  BY <1>2, <1>3

--------------------------------------------------------------------------------
(* What is stored and on its way stays backed.                               *)

\* A step that lets time pass, and more be read and withheld.
LEMMA StaysBacked ==
    ASSUME ReadInv, now' \in Nat, now <= now', marked \subseteq marked', withheld \subseteq withheld'
    PROVE  /\ \A h \in Histories : OK(h) => Backed(h, now', marked', withheld')
           /\ \A t \in Tabs : Complete(page[t], now', withheld')
<1>1. now \in Nat /\ \A t \in Tabs : page[t] \subseteq Stories
  BY StateFacts DEF ReadInv
<1>2. \A h \in Histories : OK(h) => Backed(h, now', marked', withheld')
  BY <1>1, BackedLater DEF OK
<1>3. \A cards \in SUBSET Stories : Complete(cards, now, withheld) => Complete(cards, now', withheld')
  BY <1>1, BackedLater, EmptyHistory
<1> QED
  BY <1>1, <1>2, <1>3 DEF ReadInv, Built

\* The history of a page, and what it sends, is a part of what was there.
LEMMA SentBacked ==
    ASSUME NEW h \in Histories, NEW n \in Nat, NEW read, NEW held, Backed(h, n, read, held), NEW cards
    PROVE  /\ Loaded(h, n) \in Histories /\ Backed(Loaded(h, n), n, read, held)
           /\ \A p \in Payloads(h, cards, n) : p \in Histories /\ Backed(p, n, read, held)
           /\ \A p \in Normalized(h, {}, n) : p \in Histories /\ Backed(p, n, read, held)
           /\ [h EXCEPT !.ordered = {}] \in Histories /\ Backed([h EXCEPT !.ordered = {}], n, read, held)
<1>1. Loaded(h, n) \in Histories /\ Backed(Loaded(h, n), n, read, held)
  <2> DEFINE m == Loaded(h, n)
  <2>1. m \in Histories /\ (m.upto = 0 \/ m.upto = h.upto)
        /\ \A s \in Stories : m.reads[s] = 0 \/ m.reads[s] = h.reads[s]
    BY LoadedFacts
  <2> HIDE DEF m
  <2>2. Backed(m, n, read, held)
    BY <2>1, BackedParts
  <2> QED
    BY <2>1, <2>2 DEF m
<1>2. ASSUME NEW p \in Payloads(h, cards, n) PROVE p \in Histories /\ Backed(p, n, read, held)
  BY PayloadFacts, BackedParts
<1>3. ASSUME NEW p \in Normalized(h, {}, n) PROVE p \in Histories /\ Backed(p, n, read, held)
  <2>1. p \in Histories /\ (p.upto = 0 \/ p.upto = h.upto)
        /\ \A s \in Stories : p.reads[s] = 0 \/ p.reads[s] = h.reads[s]
    BY NormalizedFacts
  <2> QED
    BY <2>1, BackedParts
<1>4. [h EXCEPT !.ordered = {}] \in Histories /\ Backed([h EXCEPT !.ordered = {}], n, read, held)
  BY HistoryFacts DEF Histories, Backed, Sound
<1> QED
  BY <1>1, <1>2, <1>3, <1>4

LEMMA TickBacked == ASSUME ReadInv, Tick PROVE ReadInv'
<1> USE DEF Tick, tabVars, history
<1>1. /\ now \in 1 .. MaxNow /\ now' = now + 1 /\ now < MaxNow /\ now' \in 1 .. MaxNow /\ now' \in Nat
      /\ now <= now' /\ marked' = marked /\ withheld' = withheld /\ UNCHANGED <<groups, saved, tabVars, stray, cleaner>>
  BY DEF ReadInv, TypeOK
<1>2. /\ \A h \in Histories : OK(h) => Backed(h, now', marked', withheld')
      /\ \A t \in Tabs : Complete(page[t], now', withheld')
  BY <1>1, StaysBacked
<1>3. TypeOK'
  BY <1>1 DEF ReadInv, TypeOK, Groups
<1>4. AllBacked'
  <2>1. \A g \in Groups' : Backed(groups'[g].state, now', marked', withheld')
    BY <1>1, <1>2, RowFacts DEF ReadInv, AllBacked, Groups
  <2> QED
    BY <1>1, <1>2, <2>1, StateFacts, CallFacts DEF ReadInv, AllBacked, OK
<1> QED
  BY <1>1, <1>2, <1>3, <1>4 DEF ReadInv, Built

LEMMA ServeStrayBacked == ASSUME ReadInv, ServeStray PROVE ReadInv'
<1>1. PICK r \in stray :
        /\ MergeGroup(r.of, r.state)
        /\ stray' = stray \ {r}
        /\ UNCHANGED <<now, saved, tabVars, cleaner, history>>
  BY DEF ServeStray
<1>2. r.of \in Tokens /\ r.state \in Histories /\ OK(r.state)
  BY StateFacts DEF ReadInv, AllBacked
<1>3. /\ DOMAIN groups' = Tokens
      /\ \A f \in Groups' : RowOK(groups'[f]) /\ Backed(groups'[f].state, now, marked, withheld)
  BY <1>1, <1>2, MergeGroupFacts, MergeGroupBacked DEF ReadInv, OK, history
<1>4. TypeOK'
  BY <1>1, <1>3 DEF ReadInv, TypeOK, RowOK, tabVars, history
<1>5. AllBacked'
  BY <1>1, <1>3 DEF ReadInv, AllBacked, OK, tabVars, history
<1> QED
  BY <1>1, <1>4, <1>5 DEF ReadInv, Built, tabVars, history

LEMMA CleanupSelectBacked == ASSUME ReadInv, CleanupSelect PROVE ReadInv'
<1>1. PICK g \in Groups : cleaner' = [of |-> g, state |-> groups[g].state, rev |-> groups[g].rev, at |-> now]
  BY DEF CleanupSelect
<1>2. UNCHANGED <<now, groups, saved, tabVars, stray, history>>
  BY DEF CleanupSelect
<1>3. g \in Tokens /\ groups[g].state \in Histories /\ groups[g].rev \in Nat /\ OK(groups[g].state)
  BY RowFacts DEF ReadInv, AllBacked
<1>4. TypeOK'
  <2>1. cleaner' \in [of : Tokens, state : Histories, rev : Nat, at : 1 .. MaxNow]
    BY <1>1, <1>3 DEF ReadInv, TypeOK
  <2> QED
    BY <1>2, <2>1 DEF ReadInv, TypeOK, Groups, tabVars, history
<1>5. AllBacked'
  BY <1>1, <1>2, <1>3 DEF ReadInv, AllBacked, OK, Groups, tabVars, history
<1> QED
  BY <1>2, <1>4, <1>5 DEF ReadInv, Built, tabVars, history

LEMMA CleanupUpdateBacked == ASSUME ReadInv, CleanupUpdate PROVE ReadInv'
<1> DEFINE g == cleaner.of
<1>1. /\ cleaner # Idle /\ cleaner' = Idle /\ UNCHANGED <<now, saved, tabVars, stray, history>>
      /\ \E n \in Normalized(cleaner.state, {}, cleaner.at) :
           groups' = [groups EXCEPT ![g] = IF @ = None THEN None ELSE [@ EXCEPT !.state = n, !.rev = cleaner.rev + 1]]
  BY DEF CleanupUpdate, Rewrite
<1>2. PICK n \in Normalized(cleaner.state, {}, cleaner.at) :
         groups' = [groups EXCEPT ![g] = IF @ = None THEN None ELSE [@ EXCEPT !.state = n, !.rev = cleaner.rev + 1]]
  BY <1>1
<1>3. g \in Tokens /\ cleaner.state \in Histories /\ cleaner.rev \in Nat /\ cleaner.at \in Nat /\ OK(cleaner.state)
  BY <1>1, StateFacts DEF ReadInv, AllBacked
<1>4. /\ n \in Histories /\ n.ordered \subseteq Entries(n) /\ (n.upto = 0 \/ n.upto = cleaner.state.upto)
      /\ \A s \in Stories : n.reads[s] = 0 \/ n.reads[s] = cleaner.state.reads[s]
  BY <1>3, NormalizedFacts
<1>5. OK(n)
  BY <1>3, <1>4, BackedParts, StateFacts DEF OK, ReadInv
<1>6. DOMAIN groups' = Tokens
  BY <1>2 DEF ReadInv, TypeOK
<1>7. ASSUME NEW f \in Groups' PROVE RowOK(groups'[f]) /\ OK(groups'[f].state)
  <2>1. f \in Tokens /\ f \in Groups
    BY <1>2, <1>3 DEF Groups, ReadInv, TypeOK
  <2>2. RowOK(groups[f]) /\ OK(groups[f].state)
    BY <2>1, RowFacts DEF ReadInv, AllBacked
  <2>3. CASE f # g
    BY <1>2, <2>1, <2>2, <2>3 DEF ReadInv, TypeOK
  <2>4. CASE f = g
    <3>1. groups'[f] = [groups[f] EXCEPT !.state = n, !.rev = cleaner.rev + 1]
      BY <1>2, <2>1, <2>4 DEF ReadInv, TypeOK, Groups
    <3>2. cleaner.rev + 1 \in Nat \ {0}
      BY <1>3
    <3> DEFINE row == groups[f]
               rev == cleaner.rev + 1
    <3>3. RowOK(row) /\ rev \in Nat \ {0} /\ groups'[f] = [row EXCEPT !.state = n, !.rev = rev]
      BY <2>2, <3>1, <3>2
    <3> HIDE DEF row, rev
    <3>4. PICK new : new = groups'[f]
      OBVIOUS
    <3>5. RowOK(new) /\ new.state = n
      <4>1. new = [row EXCEPT !.state = n, !.rev = rev]
        BY <3>3, <3>4
      <4> QED
        BY <1>4, <3>3, <4>1 DEF RowOK
    <3> QED
      BY <1>5, <3>4, <3>5
  <2> QED
    BY <2>3, <2>4
<1>8. TypeOK'
  BY <1>1, <1>6, <1>7 DEF ReadInv, TypeOK, RowOK, tabVars, history
<1>9. AllBacked'
  BY <1>1, <1>7 DEF ReadInv, AllBacked, OK, tabVars, history
<1> QED
  BY <1>1, <1>8, <1>9 DEF ReadInv, Built, tabVars, history

LEMMA LoadBacked ==
    ASSUME ReadInv, NEW t \in Tabs, NEW g \in Tokens \cup {None}, Load(t, g)
    PROVE  ReadInv'
<1> DEFINE b == BrowserOf[t]
           loaded == Loaded(saved[b].state, now)
           rev == RevisionOf(saved[b], g)
           mark == IF g = saved[b].token THEN saved[b].mark ELSE Marked(g, rev)
<1>1. /\ open' = open \cup {t} /\ dirty' = dirty \ {t}
      /\ mine' = [mine EXCEPT ![t] = loaded]
      /\ token' = [token EXCEPT ![t] = g] /\ known' = [known EXCEPT ![t] = rev]
      /\ saved' = [saved EXCEPT ![b] = [state |-> loaded, token |-> g, mark |-> mark]]
      /\ IF g = None THEN UNCHANGED call
         ELSE \E r \in Request(g, loaded, page'[t], rev, "load") : call' = [call EXCEPT ![t] = r]
      /\ UNCHANGED <<now, groups, stray, cleaner, marked>>
  BY StateFacts DEF Load, ReadInv, TypeOK
<1>2. PICK held \in SUBSET (Holdable \cap Published) :
         page' = [page EXCEPT ![t] = Published \ held] /\ withheld' = withheld \cup held
  BY DEF Load
<1>3. /\ b \in Browsers /\ now \in Nat /\ saved[b].state \in Histories /\ OK(saved[b].state)
      /\ rev \in Nat /\ mark \in [of : Tokens \cup {None}, rev : Nat]
  BY StateFacts DEF ReadInv, AllBacked, RevisionOf, Marked, NoMark, TypeOK
<1>4. /\ \A h \in Histories : OK(h) => Backed(h, now', marked', withheld')
      /\ \A u \in Tabs : Complete(page[u], now', withheld')
  <2>1. now' \in Nat /\ now <= now' /\ marked \subseteq marked' /\ withheld \subseteq withheld'
    BY <1>1, <1>2, <1>3
  <2> QED
    BY <2>1, StaysBacked
<1>5. loaded \in Histories /\ OK(loaded)
  BY <1>3, SentBacked DEF OK
<1>6. call' \in [Tabs -> Calls] /\ \A u \in Tabs : call'[u].phase \in {"sent", "full"} => OK(call'[u].state)
  <2> HIDE DEF loaded, rev, mark
  <2>1. CASE g = None
    BY <1>1, <2>1 DEF ReadInv, TypeOK, AllBacked
  <2>2. CASE g # None
    <3>1. PICK p \in Payloads(loaded, page'[t], now) :
            call' = [call EXCEPT ![t] = [phase |-> "sent", of |-> g, state |-> p, known |-> rev, why |-> "load"]]
      BY <1>1, <2>2 DEF Request
    <3>2. p \in Histories /\ OK(p)
      BY <1>3, <1>5, SentBacked DEF OK
    <3>3. [phase |-> "sent", of |-> g, state |-> p, known |-> rev, why |-> "load"] \in Calls
      BY <1>3, <2>2, <3>2 DEF Calls, Reasons
    <3> QED
      BY <3>1, <3>2, <3>3 DEF ReadInv, TypeOK, AllBacked
  <2> QED
    BY <2>1, <2>2
<1>7. Published \subseteq Stories /\ held \subseteq Holdable /\ page' \in [Tabs -> SUBSET Stories]
  BY <1>2 DEF Published, ReadInv, TypeOK
<1>8. TypeOK'
  <2>1. saved' \in [Browsers -> [state : Histories, token : Tokens \cup {None}, mark : [of : Tokens \cup {None}, rev : Nat]]]
    <3> HIDE DEF loaded, mark
    <3> QED
      BY <1>1, <1>3, <1>5 DEF ReadInv, TypeOK
  <2>2. mine' \in [Tabs -> Histories] /\ token' \in [Tabs -> Tokens \cup {None}] /\ known' \in [Tabs -> Nat]
    <3> HIDE DEF loaded, rev, mark
    <3> QED
      BY <1>1, <1>3, <1>5 DEF ReadInv, TypeOK
  <2> HIDE DEF loaded, rev, mark
  <2> QED
    BY <1>1, <1>2, <1>6, <1>7, <2>1, <2>2 DEF ReadInv, TypeOK, Groups
<1>9. AllBacked'
  <2> HIDE DEF loaded, rev, mark
  <2>1. \A f \in Groups' : Backed(groups'[f].state, now', marked', withheld')
    BY <1>1, <1>4, RowFacts DEF ReadInv, AllBacked, Groups
  <2>2. \A c \in Browsers : Backed(saved'[c].state, now', marked', withheld')
    BY <1>1, <1>3, <1>4, <1>5, StateFacts DEF ReadInv, AllBacked, TypeOK
  <2>3. \A u \in Tabs : Backed(mine'[u], now', marked', withheld')
    BY <1>1, <1>4, <1>5, StateFacts DEF ReadInv, AllBacked, TypeOK
  <2>4. \A u \in Tabs : call'[u].phase \in {"sent", "full"} => Backed(call'[u].state, now', marked', withheld')
    <3>1. \A u \in Tabs : call'[u].phase \in {"sent", "full"} => call'[u].state \in Histories
      BY <1>6, CallFacts
    <3> QED
      BY <1>4, <1>6, <3>1
  <2>5. /\ \A r \in stray' : Backed(r.state, now', marked', withheld')
        /\ cleaner' # Idle => Backed(cleaner'.state, now', marked', withheld')
    BY <1>1, <1>4, StateFacts DEF ReadInv, AllBacked
  <2> QED
    BY <2>1, <2>2, <2>3, <2>4, <2>5 DEF AllBacked, OK
<1>10. Built'
  <2>1. Complete(Published \ held, now, withheld')
    <3>1. \A c \in Published : c \in Nat /\ c <= now
      BY DEF Published
    <3>2. ASSUME NEW c \in Published, NEW s \in Stories, s <= c, Fresh(s, now) PROVE s \in Published
      <4>1. s \in Nat /\ s <= now
        BY <1>3, <3>1, <3>2
      <4> QED
        BY <3>2, <4>1 DEF Published
    <3> QED
      BY <1>2, <3>1, <3>2 DEF Complete
  <2> QED
    BY <1>1, <1>2, <1>4, <2>1 DEF Built, ReadInv, TypeOK
<1> QED
  BY <1>8, <1>9, <1>10 DEF ReadInv

LEMMA OpenBacked == ASSUME ReadInv, NEW t \in Tabs, Open(t) PROVE ReadInv'
BY LoadBacked, StateFacts DEF Open, ReadInv

LEMMA MarkBacked == ASSUME ReadInv, NEW t \in Tabs, NEW s \in Stories, Mark(t, s) PROVE ReadInv'
<1> DEFINE b == BrowserOf[t]
           read == [mine[t] EXCEPT !.reads[s] = now]
           new == Compact(read, page[t], now)
<1>1. /\ s \in page[t] /\ mine' = [mine EXCEPT ![t] = new]
      /\ saved' = [saved EXCEPT ![b].state = new]
      /\ dirty' \subseteq dirty \cup {t} /\ marked' = marked \cup {s}
      /\ UNCHANGED <<now, groups, open, page, token, known, call, stray, cleaner, withheld>>
  BY DEF Mark, ReadInv, TypeOK
<1>2. /\ b \in Browsers /\ now \in Nat /\ mine[t] \in Histories /\ OK(mine[t])
      /\ page[t] \in SUBSET Stories /\ Complete(page[t], now, withheld) /\ \A c \in page[t] : c <= now
  BY StateFacts DEF ReadInv, AllBacked, Built, Complete
<1>3. /\ \A h \in Histories : OK(h) => Backed(h, now', marked', withheld')
      /\ \A u \in Tabs : Complete(page[u], now', withheld')
  <2>1. now' \in Nat /\ now <= now' /\ marked \subseteq marked' /\ withheld \subseteq withheld'
    BY <1>1, <1>2
  <2> QED
    BY <2>1, StaysBacked
<1>4. /\ read \in Histories /\ read.upto = mine[t].upto
      /\ \A u \in Stories : read.reads[u] = IF u = s THEN now ELSE mine[t].reads[u]
  BY <1>2 DEF Histories
<1>5. Backed(read, now, marked', withheld)
  <2>1. s <= now
    BY <1>1, <1>2
  <2> HIDE DEF read
  <2> QED
    BY <1>1, <1>2, <1>4, <2>1 DEF OK, Backed, Sound
<1>6. new \in Histories /\ Backed(new, now, marked', withheld)
  <2> HIDE DEF read
  <2>1. /\ new \in Histories /\ (new.upto \in page[t] \cup {0} \/ new.upto = read.upto)
        /\ \A u \in Stories : new.reads[u] = 0 \/ new.reads[u] = read.reads[u]
        /\ \A c \in page[t] : Fresh(c, now) /\ c <= new.upto => c <= read.upto \/ read.reads[c] # 0
    <3> DEFINE cards == page[t]
    <3>1. cards \in SUBSET Stories /\ new = Compact(read, cards, now) /\ \A c \in cards : c <= now
      BY <1>2
    <3> HIDE DEF cards, new
    <3>2. /\ new \in Histories /\ (new.upto \in cards \cup {0} \/ new.upto = read.upto)
          /\ \A u \in Stories : new.reads[u] = 0 \/ new.reads[u] = read.reads[u]
          /\ \A c \in cards : Fresh(c, now) /\ c <= new.upto => c <= read.upto \/ read.reads[c] # 0
      BY <1>2, <1>4, <3>1, CompactFacts
    <3> QED
      BY <3>2 DEF cards
  <2> HIDE DEF new
  <2> QED
    BY <1>2, <1>4, <1>5, <2>1, BackedFrom
<1> HIDE DEF new, read
<1>7. TypeOK'
  <2>1. saved' \in [Browsers -> [state : Histories, token : Tokens \cup {None}, mark : [of : Tokens \cup {None}, rev : Nat]]]
    BY SMTT(40), <1>1, <1>2, <1>6 DEF ReadInv, TypeOK
  <2>2. mine' \in [Tabs -> Histories]
    BY <1>1, <1>2, <1>6 DEF ReadInv, TypeOK
  <2> QED
    BY <1>1, <2>1, <2>2 DEF ReadInv, TypeOK, Groups
<1>8. AllBacked'
  <2>1. \A f \in Groups' : Backed(groups'[f].state, now', marked', withheld')
    BY <1>1, <1>3, RowFacts DEF ReadInv, AllBacked, Groups
  <2>2. ASSUME NEW c \in Browsers PROVE Backed(saved'[c].state, now', marked', withheld')
    <3>1. saved'[c].state = IF c = b THEN new ELSE saved[c].state
      BY <1>1, <1>2 DEF ReadInv, TypeOK
    <3>2. saved[c].state \in Histories /\ OK(saved[c].state)
      BY StateFacts DEF ReadInv, AllBacked
    <3> QED
      BY <1>1, <1>3, <1>6, <3>1, <3>2
  <2>3. \A u \in Tabs : Backed(mine'[u], now', marked', withheld')
    BY <1>1, <1>3, <1>6, StateFacts DEF ReadInv, AllBacked, TypeOK
  <2>4. \A u \in Tabs : call'[u].phase \in {"sent", "full"} => Backed(call'[u].state, now', marked', withheld')
    BY <1>1, <1>3, StateFacts, CallFacts DEF ReadInv, AllBacked
  <2>5. /\ \A r \in stray' : Backed(r.state, now', marked', withheld')
        /\ cleaner' # Idle => Backed(cleaner'.state, now', marked', withheld')
    BY <1>1, <1>3, StateFacts DEF ReadInv, AllBacked
  <2> QED
    BY <2>1, <2>2, <2>3, <2>4, <2>5 DEF AllBacked, OK
<1> QED
  BY <1>1, <1>3, <1>7, <1>8 DEF ReadInv, Built

LEMMA SendBacked == ASSUME ReadInv, NEW t \in Tabs, Send(t) PROVE ReadInv'
<1>1. PICK p \in Payloads(mine[t], page[t], now) :
        call' = [call EXCEPT ![t] = [phase |-> "sent", of |-> token[t], state |-> p, known |-> known[t], why |-> "timer"]]
  BY DEF Send, Request
<1>2. /\ token[t] # None /\ dirty' = dirty \ {t}
      /\ UNCHANGED <<now, groups, saved, open, page, mine, token, known, stray, cleaner, history>>
  BY DEF Send
<1>3. now \in Nat /\ mine[t] \in Histories /\ OK(mine[t]) /\ token[t] \in Tokens /\ known[t] \in Nat
  BY <1>2, StateFacts DEF ReadInv, AllBacked
<1>4. p \in Histories /\ OK(p)
  BY <1>1, <1>3, SentBacked DEF OK
<1>5. [phase |-> "sent", of |-> token[t], state |-> p, known |-> known[t], why |-> "timer"] \in Calls
  BY <1>3, <1>4 DEF Calls, Reasons
<1>6. call' \in [Tabs -> Calls] /\ \A u \in Tabs : call'[u].phase \in {"sent", "full"} => OK(call'[u].state)
  BY <1>1, <1>4, <1>5 DEF ReadInv, TypeOK, AllBacked
<1>7. TypeOK'
  BY <1>2, <1>6 DEF ReadInv, TypeOK, Groups, history
<1>8. AllBacked'
  BY <1>2, <1>6 DEF ReadInv, AllBacked, OK, Groups, history
<1> QED
  BY <1>2, <1>7, <1>8 DEF ReadInv, Built, history

LEMMA AbandonFacts ==
    ASSUME ReadInv, NEW g \in Tokens, NEW p \in Histories, OK(p), Abandon(g, p),
           UNCHANGED <<now, marked, withheld>>
    PROVE  /\ stray' \subseteq [of : Tokens, state : Histories]
           /\ \A r \in stray' : OK(r.state)
BY DEF Abandon, ReadInv, TypeOK, AllBacked

LEMMA AbortBacked == ASSUME ReadInv, NEW t \in Tabs, Abort(t) PROVE ReadInv'
<1>1. /\ IF call[t].phase = "sent" THEN Abandon(call[t].of, call[t].state) ELSE UNCHANGED stray
      /\ dirty' = dirty \cup {t} /\ call' = [call EXCEPT ![t] = NoCall]
      /\ UNCHANGED <<now, groups, saved, open, page, mine, token, known, cleaner, history>>
  BY DEF Abort, AfterFailure
<1>2. call[t] \in Calls /\ NoCall \in Calls /\ NoCall.phase = "none"
  BY StateFacts DEF ReadInv
<1>3. call[t].phase = "sent" => call[t].of \in Tokens /\ call[t].state \in Histories /\ OK(call[t].state)
  BY <1>2, CallFacts DEF ReadInv, AllBacked
<1>4. stray' \subseteq [of : Tokens, state : Histories] /\ \A r \in stray' : OK(r.state)
  BY <1>1, <1>3, AbandonFacts DEF history, ReadInv, TypeOK, AllBacked
<1>5. call' \in [Tabs -> Calls] /\ \A u \in Tabs : call'[u].phase \in {"sent", "full"} => OK(call'[u].state)
  BY <1>1, <1>2 DEF ReadInv, TypeOK, AllBacked
<1>6. TypeOK'
  BY <1>1, <1>4, <1>5 DEF ReadInv, TypeOK, Groups, history
<1>7. AllBacked'
  BY <1>1, <1>4, <1>5 DEF ReadInv, AllBacked, OK, Groups, history
<1> QED
  BY <1>1, <1>6, <1>7 DEF ReadInv, Built, history

LEMMA CloseBacked == ASSUME ReadInv, NEW t \in Tabs, Close(t) PROVE ReadInv'
<1>1. /\ open' = open \ {t} /\ dirty' = dirty \ {t} /\ call' = [call EXCEPT ![t] = NoCall]
      /\ page' = [page EXCEPT ![t] = {}] /\ mine' = [mine EXCEPT ![t] = Empty]
      /\ token' = [token EXCEPT ![t] = None] /\ known' = [known EXCEPT ![t] = 0]
      /\ UNCHANGED <<now, groups, saved, cleaner, history>>
  BY DEF Close
<1>2. /\ now \in Nat /\ call[t] \in Calls /\ NoCall \in Calls /\ NoCall.phase = "none"
      /\ mine[t] \in Histories /\ OK(mine[t]) /\ token[t] \in Tokens \cup {None}
  BY StateFacts DEF ReadInv, AllBacked
<1>3. stray' \subseteq [of : Tokens, state : Histories] /\ \A r \in stray' : OK(r.state)
  <2>1. CASE UNCHANGED stray
    BY <1>1, <2>1 DEF ReadInv, TypeOK, AllBacked
  <2>2. CASE call[t].phase = "sent" /\ Abandon(call[t].of, call[t].state)
    <3>1. call[t].of \in Tokens /\ call[t].state \in Histories /\ OK(call[t].state)
      BY <1>2, <2>2, CallFacts DEF ReadInv, AllBacked
    <3> QED
      BY <1>1, <2>2, <3>1, AbandonFacts DEF history
  <2>3. CASE token[t] # None /\ \E p \in Payloads(mine[t], page[t], now) : Abandon(token[t], p)
    <3>1. PICK p \in Payloads(mine[t], page[t], now) : Abandon(token[t], p)
      BY <2>3
    <3>2. token[t] \in Tokens /\ p \in Histories /\ OK(p)
      BY <1>2, <2>3, <3>1, SentBacked DEF OK
    <3> QED
      BY <1>1, <3>1, <3>2, AbandonFacts DEF history
  <2> QED
    BY <2>1, <2>2, <2>3 DEF Close
<1>4. call' \in [Tabs -> Calls] /\ \A u \in Tabs : call'[u].phase \in {"sent", "full"} => OK(call'[u].state)
  BY <1>1, <1>2 DEF ReadInv, TypeOK, AllBacked
<1>5. OK(Empty) /\ Complete({}, now, withheld)
  <2>1. 0 <= now /\ \A s \in Stories : s \in Nat /\ ~(s <= 0)
    <3>1. now \in Nat
      BY <1>2
    <3> QED
      BY <3>1
  <2> QED
    BY <2>1, EmptyHistory DEF OK, Backed, Sound, Complete
<1>6. TypeOK'
  BY <1>1, <1>3, <1>4, EmptyHistory DEF ReadInv, TypeOK, Groups, history
<1>7. AllBacked'
  BY <1>1, <1>3, <1>4, <1>5 DEF ReadInv, TypeOK, AllBacked, OK, Groups, history
<1>8. Built'
  BY <1>1, <1>5 DEF ReadInv, TypeOK, Built, history
<1> QED
  BY <1>6, <1>7, <1>8 DEF ReadInv

LEMMA ServeBacked == ASSUME ReadInv, NEW t \in Tabs, Serve(t) PROVE ReadInv'
<1> DEFINE r == call[t]
           before == Unexpired[r.of]
           after == groups'[r.of]
           new == Answer(r, before, after)
<1>1. /\ r.phase = "sent" /\ MergeGroup(r.of, r.state)
      /\ call' = [call EXCEPT ![t] = new]
      /\ UNCHANGED <<now, saved, open, page, mine, token, known, dirty, stray, cleaner, history>>
  BY DEF Serve
<1>2. r.of \in Tokens /\ r.why \in Reasons /\ r.state \in Histories /\ OK(r.state) /\ now \in Nat
  BY <1>1, StateFacts, CallFacts DEF ReadInv, AllBacked
<1>3. /\ DOMAIN groups' = Tokens
      /\ \A f \in Groups' : RowOK(groups'[f]) /\ Backed(groups'[f].state, now, marked, withheld)
  BY <1>1, <1>2, MergeGroupFacts, MergeGroupBacked DEF ReadInv, OK, history
<1>4. new \in Calls /\ (new.phase \in {"sent", "full"} => OK(new.state))
  <2>1. CASE before = None
    BY <1>2, <2>1 DEF Answer, Calls
  <2>2. CASE before # None
    <3>1. after \in Merged(groups[r.of], r.state) /\ groups[r.of] # None
      BY <1>1, <1>2, <2>2, MergeGroupFacts DEF ReadInv
    <3>2. RowOK(after) /\ OK(after.state)
      <4>1. r.of \in Groups
        BY <1>2, <3>1 DEF Groups
      <4>2. RowOK(groups[r.of]) /\ OK(groups[r.of].state)
        BY <4>1, RowFacts DEF ReadInv, AllBacked
      <4> QED
        BY <1>2, <3>1, <4>2, MergedFacts DEF ReadInv, OK
    <3>3. /\ after.rev \in Nat /\ after.state \in Histories
          /\ [after.state EXCEPT !.ordered = {}] \in Histories /\ OK([after.state EXCEPT !.ordered = {}])
      BY <1>2, <3>2, SentBacked DEF RowOK, OK
    <3> HIDE DEF r, before, after
    <3> QED
      BY <1>2, <2>2, <3>3 DEF Answer, Calls
  <2> QED
    BY <2>1, <2>2
<1> HIDE DEF new
<1>5. call' \in [Tabs -> Calls] /\ \A u \in Tabs : call'[u].phase \in {"sent", "full"} => OK(call'[u].state)
  BY <1>1, <1>4 DEF ReadInv, TypeOK, AllBacked
<1>6. TypeOK'
  BY <1>1, <1>3, <1>5 DEF ReadInv, TypeOK, RowOK, history
<1>7. AllBacked'
  BY <1>1, <1>3, <1>5 DEF ReadInv, AllBacked, OK, history
<1> QED
  BY <1>1, <1>6, <1>7 DEF ReadInv, Built, history

\* A page takes over what the group holds, and keeps what it has read.
LEMMA AbsorbBacked ==
    ASSUME ReadInv, NEW t \in Tabs, NEW remote \in Histories, OK(remote)
    PROVE  LET m == Absorb(mine[t], remote, page[t], now)
           IN  /\ m \in Histories /\ OK(m)
               /\ ReadAt(mine[t], now) \subseteq ReadAt(m, now)
               /\ ReadAt(remote, now) \subseteq ReadAt(m, now)
<1> DEFINE h == mine[t]
           cards == page[t]
           m == Absorb(h, remote, cards, now)
<1>1. /\ now \in Nat /\ h \in Histories /\ cards \in SUBSET Stories
      /\ \A c \in cards : c <= now
  BY StateFacts DEF ReadInv, Built, Complete
<1>2. OK(h) /\ Complete(cards, now, withheld)
  BY DEF ReadInv, AllBacked, Built
<1> HIDE DEF h, cards, m
<1>3. m = Absorb(h, remote, cards, now)
  BY DEF m
<1>4. /\ m \in Histories
      /\ m.upto \in cards \cup {0} \/ m.upto = h.upto \/ m.upto = remote.upto
      /\ \A s \in Stories : m.reads[s] = 0 \/ m.reads[s] = h.reads[s] \/ m.reads[s] = remote.reads[s]
      /\ \A c \in cards : Fresh(c, now) /\ c <= m.upto =>
            c <= h.upto \/ c <= remote.upto \/ h.reads[c] # 0 \/ remote.reads[c] # 0
  BY <1>1, <1>3, AbsorbFacts
<1>5. \A s \in Stories : Fresh(s, now) /\ (IsRead(h, s, now) \/ IsRead(remote, s, now)) => IsRead(m, s, now)
  <2>1. Sound(h) /\ Sound(remote)
    BY <1>2 DEF OK, Backed
  <2> QED
    BY <1>1, <1>3, <2>1, AbsorbFacts
<1>6. OK(m)
  BY <1>1, <1>2, <1>4, BackedFrom DEF OK
<1>7. ReadAt(h, now) \subseteq ReadAt(m, now) /\ ReadAt(remote, now) \subseteq ReadAt(m, now)
  BY <1>5 DEF ReadAt
<1> QED
  BY <1>3, <1>4, <1>6, <1>7 DEF h, cards

LEMMA ReceiveBacked == ASSUME ReadInv, NEW t \in Tabs, Receive(t) PROVE ReadInv'
<1> DEFINE a == call[t]
           b == BrowserOf[t]
           new == IF Applies(a) /\ a.phase = "full" THEN Absorb(mine[t], a.state, page[t], now) ELSE mine[t]
<1>1. /\ a.phase \in {"full", "short"} /\ call' = [call EXCEPT ![t] = NoCall]
      /\ UNCHANGED <<now, groups, open, page, token, dirty, stray, cleaner, history>>
  BY DEF Receive
<1>2. \/ UNCHANGED <<mine, known, saved>>
      \/ /\ mine' = [mine EXCEPT ![t] = new]
         /\ known' = IF Advances(a) THEN [known EXCEPT ![t] = a.rev] ELSE known
         /\ saved' = [saved EXCEPT ![b].state = IF new # mine[t] THEN new ELSE @,
                                   ![b].mark  = IF Advances(a) THEN Marked(token[t], a.rev) ELSE @]
  BY DEF Receive
<1>3. /\ now \in Nat /\ a \in Calls /\ NoCall \in Calls /\ NoCall.phase = "none" /\ b \in Browsers
      /\ mine[t] \in Histories /\ OK(mine[t]) /\ token[t] \in Tokens \cup {None}
      /\ page[t] \in SUBSET Stories /\ Complete(page[t], now, withheld) /\ \A c \in page[t] : c <= now
  BY StateFacts DEF ReadInv, AllBacked, Built, Complete
<1>4. a.rev \in Nat /\ (a.phase = "full" => a.state \in Histories /\ OK(a.state))
  BY <1>1, <1>3, CallFacts DEF ReadInv, AllBacked
<1>5. new \in Histories /\ OK(new)
  <2>1. CASE ~ (Applies(a) /\ a.phase = "full")
    BY <1>3, <2>1
  <2>2. CASE Applies(a) /\ a.phase = "full"
    <3> DEFINE remote == a.state
    <3>1. remote \in Histories /\ OK(remote)
      BY <1>4, <2>2
    <3>2. new = Absorb(mine[t], remote, page[t], now)
      BY <2>2
    <3> HIDE DEF remote, new
    <3> QED
      BY <3>1, <3>2, AbsorbBacked
  <2> QED
    BY <2>1, <2>2
<1> HIDE DEF new
<1>6. call' \in [Tabs -> Calls] /\ \A u \in Tabs : call'[u].phase \in {"sent", "full"} => OK(call'[u].state)
  BY <1>1, <1>3 DEF ReadInv, TypeOK, AllBacked
<1>7. Marked(token[t], a.rev) \in [of : Tokens \cup {None}, rev : Nat]
  BY <1>3, <1>4 DEF Marked, NoMark
<1>8. /\ mine' \in [Tabs -> Histories] /\ \A u \in Tabs : OK(mine'[u])
      /\ known' \in [Tabs -> Nat]
  <2>1. /\ mine \in [Tabs -> Histories] /\ known \in [Tabs -> Nat] /\ \A u \in Tabs : OK(mine[u])
    BY DEF ReadInv, TypeOK, AllBacked
  <2>2. mine' \in [Tabs -> Histories] /\ \A u \in Tabs : OK(mine'[u])
    BY <1>2, <1>5, <2>1
  <2>3. known' \in [Tabs -> Nat]
    BY <1>2, <1>4, <2>1
  <2> QED
    BY <2>2, <2>3
<1>9. /\ saved' \in [Browsers -> [state : Histories, token : Tokens \cup {None}, mark : [of : Tokens \cup {None}, rev : Nat]]]
      /\ \A c \in Browsers : OK(saved'[c].state)
  <2>1. CASE saved' = saved
    BY <2>1 DEF ReadInv, TypeOK, AllBacked
  <2>2. CASE saved' # saved
    <3>1. saved' = [saved EXCEPT ![b].state = IF new # mine[t] THEN new ELSE @,
                                 ![b].mark  = IF Advances(a) THEN Marked(token[t], a.rev) ELSE @]
      BY <1>2, <2>2
    <3>2. PICK st \in Histories, mk \in [of : Tokens \cup {None}, rev : Nat] :
            /\ saved' = [saved EXCEPT ![b].state = st, ![b].mark = mk] /\ OK(st)
      <4>1. saved \in [Browsers -> [state : Histories, token : Tokens \cup {None}, mark : [of : Tokens \cup {None}, rev : Nat]]]
            /\ OK(saved[b].state) /\ saved[b].state \in Histories
            /\ saved[b].mark \in [of : Tokens \cup {None}, rev : Nat]
        BY <1>3 DEF ReadInv, TypeOK, AllBacked
      <4> DEFINE st == IF new # mine[t] THEN new ELSE saved[b].state
                 mk == IF Advances(a) THEN Marked(token[t], a.rev) ELSE saved[b].mark
      <4>2. st \in Histories /\ OK(st) /\ mk \in [of : Tokens \cup {None}, rev : Nat]
        BY <1>5, <1>7, <4>1
      <4>3. saved' = [saved EXCEPT ![b].state = st, ![b].mark = mk]
        BY <1>3, <3>1, <4>1
      <4> HIDE DEF st, mk
      <4> QED
        BY <4>2, <4>3
    <3>3. ASSUME NEW c \in Browsers PROVE OK(saved'[c].state)
      BY <1>3, <3>2 DEF ReadInv, TypeOK, AllBacked
    <3> QED
      BY <1>3, <3>2, <3>3 DEF ReadInv, TypeOK
  <2> QED
    BY <2>1, <2>2
<1>10. TypeOK'
  BY <1>1, <1>6, <1>8, <1>9 DEF ReadInv, TypeOK, Groups, history
<1>11. AllBacked'
  BY <1>1, <1>6, <1>8, <1>9 DEF ReadInv, AllBacked, OK, Groups, history
<1> QED
  BY <1>1, <1>10, <1>11 DEF ReadInv, Built, history

LEMMA InitBacked == ASSUME Init PROVE ReadInv
<1> DEFINE g == CHOOSE g \in Tokens : TRUE
           row == [state |-> Empty, rev |-> 1, until |-> Until]
<1>1. /\ now = 1 /\ groups = [f \in Tokens |-> IF f = g THEN row ELSE None]
      /\ saved = [b \in Browsers |-> [state |-> Empty, token |-> g, mark |-> NoMark]]
      /\ marked = {}
  BY DEF Init
<1>2. /\ open = {} /\ dirty = {} /\ page = [t \in Tabs |-> {}] /\ mine = [t \in Tabs |-> Empty]
      /\ token = [t \in Tabs |-> None] /\ known = [t \in Tabs |-> 0] /\ call = [t \in Tabs |-> NoCall]
      /\ stray = {} /\ cleaner = Idle /\ withheld = {}
  BY DEF Init, InitTabs
<1>3. OK(Empty) /\ Complete({}, now, withheld)
  <2>1. 0 <= now /\ \A s \in Stories : s \in Nat /\ ~(s <= 0)
    BY <1>1
  <2> QED
    BY <2>1, EmptyHistory DEF OK, Backed, Sound, Complete
<1>4. row \in [state : Histories, rev : Nat \ {0}, until : Nat] /\ Empty.ordered = {}
  <2>1. Until \in Nat
    BY <1>1 DEF Until
  <2>2. 1 \in Nat \ {0} /\ Empty.ordered = {}
    BY DEF Empty
  <2> QED
    BY <2>1, <2>2, EmptyHistory
<1>5. NoCall \in Calls /\ NoCall.phase = "none" /\ NoMark \in [of : Tokens \cup {None}, rev : Nat]
  BY DEF Calls, NoCall, NoMark
<1>6. Groups \subseteq {g} /\ Groups \subseteq Tokens /\ (Groups # {} => groups[g] = row)
  BY <1>1 DEF Groups
<1> HIDE DEF row
<1>7. TypeOK
  <2>1. DOMAIN groups = Tokens /\ \A f \in Groups :
          /\ groups[f] \in [state : Histories, rev : Nat \ {0}, until : Nat]
          /\ groups[f].state.ordered \subseteq Entries(groups[f].state)
    BY <1>1, <1>4, <1>6 DEF row
  <2>2. now \in 1 .. MaxNow
    BY <1>1
  <2>3. saved \in [Browsers -> [state : Histories, token : Tokens \cup {None}, mark : [of : Tokens \cup {None}, rev : Nat]]]
    <3>1. g \in Tokens
      BY DEF Init
    <3> QED
      BY <1>1, <1>5, <3>1, EmptyHistory
  <2> QED
    BY <1>1, <1>2, <1>5, <2>1, <2>2, <2>3, EmptyHistory DEF TypeOK
<1>8. AllBacked
  BY <1>1, <1>2, <1>3, <1>5, <1>6 DEF AllBacked, row
<1> QED
  BY <1>2, <1>3, <1>7, <1>8 DEF ReadInv, Built

LEMMA StepBacked == ASSUME ReadInv, [Next]_vars PROVE ReadInv'
<1>1. CASE Around
  BY <1>1, TickBacked, ServeStrayBacked, CleanupSelectBacked, CleanupUpdateBacked DEF Around
<1>2. ASSUME NEW t \in Tabs, PageStep(t) \/ Send(t) \/ Close(t) PROVE ReadInv'
  BY <1>2, OpenBacked, MarkBacked, ReceiveBacked, AbortBacked, ServeBacked, SendBacked, CloseBacked
     DEF PageStep
<1>3. CASE UNCHANGED vars
  BY <1>3 DEF vars, tabVars, history, ReadInv, TypeOK, AllBacked, OK, Built, Groups
<1> QED
  BY <1>1, <1>2, <1>3 DEF Next

\* Whatever is stored on the origin and in the browsers, on its way between
\* them or late, has reads behind it, also when merges commit between the
\* cleanup's SELECT and its UPDATE (mergeGroup, mergeRemoteState, markViewed,
\* loadViewed, cleanup).
THEOREM ReadInvariant == Spec => []ReadInv
<1>1. Init => ReadInv
  BY InitBacked
<1>2. ReadInv /\ [Next]_vars => ReadInv'
  BY StepBacked
<1> QED
  BY <1>1, <1>2, PTL DEF Spec

\* The rows, the saved histories, the pages and the requests have the shape
\* that the code relies on.
THEOREM TypeCorrect == Spec => []TypeOK
BY ReadInvariant, PTL DEF ReadInv

LEMMA BackedMeans == ASSUME ReadInv PROVE NeverHiddenUnread
<1> SUFFICES ASSUME NEW t \in open, NEW s \in page[t], s \in ReadIn(mine[t])
             PROVE  s \in marked \cup withheld
  BY DEF NeverHiddenUnread
<1>1. t \in Tabs /\ OK(mine[t]) /\ s \in Stories
  BY DEF ReadInv, TypeOK, AllBacked, ReadIn
<1> QED
  BY <1>1 DEF OK, Backed, ReadIn, IsRead

\* No page shows a story as read that no reader has read, unless the site left
\* it out for a while: no watermark passes an unread card (compactViewedState,
\* mergeRemoteState, normalizeState).
THEOREM UnreadStaysVisible == Spec => []NeverHiddenUnread
<1>1. ReadInv => NeverHiddenUnread
  BY BackedMeans
<1> QED
  BY <1>1, ReadInvariant, PTL

--------------------------------------------------------------------------------
(***************************************************************************)
(* Revisions.  Nobody holds a revision of a row that is later than the     *)
(* row's, and a row whose content changes gets a later one: this needs     *)
(* that no merge commits while the cleanup has a row selected.             *)
(***************************************************************************)
Heard(g, k) ==
    \/ k <= 1 \/ g = None
    \/ \E t \in Tabs : token[t] = g /\ known[t] = k
    \/ \E b \in Browsers : saved[b].mark.of = g /\ saved[b].mark.rev = k
    \/ \E t \in Tabs : call[t].phase = "sent" /\ call[t].of = g /\ call[t].known = k
    \/ \E t \in Tabs : call[t].phase \in {"full", "short"} /\ call[t].of = g /\ call[t].rev = k

SelectedRow ==
    cleaner # Idle =>
       /\ cleaner.at <= now
       /\ cleaner.of \in Groups =>
             groups[cleaner.of].state = cleaner.state /\ groups[cleaner.of].rev = cleaner.rev

RevInv ==
    /\ \A g \in Groups :
          /\ Cardinality(Entries(groups[g].state)) <= MaxReads
          /\ \A k \in Nat : Heard(g, k) => k <= groups[g].rev
    /\ SelectedRow

\* A merge adds what the payload has read, and drops a read only for the limit.
LEMMA MergedKeeps ==
    ASSUME TypeOK, NEW row, RowOK(row), NEW payload \in Histories, NEW new \in Merged(row, payload),
           Sound(row.state), Sound(payload), Cardinality(Entries(row.state)) <= MaxReads
    PROVE  /\ Cardinality(Entries(new.state)) <= MaxReads
           /\ \A s \in Stories : Fresh(s, now) /\ IsRead(new.state, s, now) =>
                 IsRead(row.state, s, now) \/ IsRead(payload, s, now)
           /\ \A s \in Stories : Fresh(s, now) /\ IsRead(row.state, s, now) /\ ~ IsRead(new.state, s, now) =>
                 /\ Cardinality({u \in Stories : IsRead(new.state, u, now)}) >= MaxReads
                 /\ \A u \in Entries(new.state) : new.state.reads[u] >= row.state.reads[s]
<1> DEFINE h == row.state
<1>1. PICK r \in Normalized(h, {}, now), q \in Normalized(payload, {}, now) :
         \E x \in Normalized(MergeReads(r, q), Entries(r), now) : new = Stored(row, x)
  BY DEF Merged
<1> DEFINE x == MergeReads(r, q)
<1>2. PICK m \in Normalized(x, Entries(r), now) : new = Stored(row, m)
  BY <1>1
<1>3. new.state = m /\ now \in Nat /\ h \in Histories /\ Sound(h) /\ Cardinality(Entries(h)) <= MaxReads
  BY <1>2, StateFacts DEF Stored, RowOK
<1> HIDE DEF h
<1>4. /\ r \in Histories /\ (r.upto = 0 \/ r.upto = h.upto)
      /\ \A s \in Stories : r.reads[s] = 0 \/ r.reads[s] = h.reads[s]
  BY <1>1, <1>3, NormalizedFacts
<1>5. /\ q \in Histories /\ (q.upto = 0 \/ q.upto = payload.upto)
      /\ \A s \in Stories : q.reads[s] = 0 \/ q.reads[s] = payload.reads[s]
  BY <1>1, <1>3, NormalizedFacts
<1>6. /\ x \in Histories /\ (x.upto = r.upto \/ x.upto = q.upto)
      /\ x.upto >= r.upto /\ x.upto >= q.upto
      /\ \A s \in Stories : /\ x.reads[s] = r.reads[s] \/ x.reads[s] = q.reads[s]
                            /\ x.reads[s] >= r.reads[s] /\ x.reads[s] >= q.reads[s]
  BY <1>4, <1>5, MergeFacts
<1> HIDE DEF x
<1>7. /\ m \in Histories /\ m.upto = (IF Fresh(x.upto, now) THEN x.upto ELSE 0)
      /\ \A s \in Stories : m.reads[s] = 0 \/ m.reads[s] = x.reads[s]
      /\ Cardinality(Entries(m)) <= MaxReads
  <2> DEFINE e == Entries(r)
  <2>1. m \in Normalized(x, e, now)
    BY <1>2
  <2> HIDE DEF e
  <2> QED
    BY <1>3, <1>6, <2>1, NormalizedFacts
<1>8. ASSUME NEW s \in Stories, Fresh(s, now), IsRead(m, s, now)
      PROVE  IsRead(h, s, now) \/ IsRead(payload, s, now)
  <2>1. CASE m.reads[s] # 0
    BY <1>4, <1>5, <1>6, <1>7, <2>1 DEF IsRead
  <2>2. CASE s <= m.upto
    <3>1. s # 0 /\ s \in Nat /\ s <= x.upto
      <4>1. s \in Nat /\ ~(s <= 0) /\ s # 0
        OBVIOUS
      <4> QED
        BY <1>7, <2>2, <4>1
    <3>2. s <= r.upto \/ s <= q.upto
      BY <1>6, <3>1
    <3>3. ~(s <= 0)
      BY <3>1
    <3> QED
      BY <1>4, <1>5, <1>8, <3>2, <3>3 DEF IsRead
  <2> QED
    BY <1>8, <2>1, <2>2 DEF IsRead
<1>9. Sound(x)
  BY <1>3, <1>4, <1>5, <1>6 DEF Sound
<1>10. ASSUME NEW s \in Stories, Fresh(s, now), IsRead(h, s, now), ~ IsRead(m, s, now)
       PROVE  /\ Cardinality({u \in Stories : IsRead(m, u, now)}) >= MaxReads
              /\ \A u \in Entries(m) : m.reads[u] >= h.reads[s]
  <2>1. IsRead(r, s, now)
    <3>1. Sound(h) /\ Cardinality(Entries(h)) \in Nat
      BY <1>3, HistoryFacts, FS_CardinalityType
    <3>2. ~ (Cardinality(Entries(h)) > MaxReads)
      BY <1>3, <3>1
    <3> QED
      BY <1>1, <1>3, <1>10, <3>1, <3>2, NormalizedKeeps
  <2>2. ~(s <= r.upto)
    <3>1. ASSUME s <= r.upto PROVE FALSE
      <4>1. s <= x.upto /\ x.upto \in Nat /\ s \in Nat
        BY <1>4, <1>6, <3>1, HistoryFacts
      <4>2. m.upto = x.upto
        BY <1>3, <1>7, <1>10, <4>1, FreshFacts
      <4> QED
        BY <1>10, <4>1, <4>2 DEF IsRead
    <3> QED
      BY <3>1
  <2>3. r.reads[s] # 0 /\ r.reads[s] = h.reads[s]
    BY <1>4, <2>1, <2>2 DEF IsRead
  <2>4. h.reads[s] \in Nat /\ x.reads[s] \in Nat /\ x.reads[s] >= h.reads[s] /\ x.reads[s] # 0
    BY <1>3, <1>6, <2>3, HistoryFacts
  <2>5. IsRead(x, s, now)
    BY <2>4 DEF IsRead
  <2>6. /\ Cardinality({u \in Stories : IsRead(m, u, now)}) >= MaxReads
        /\ \A u \in Entries(m) : m.reads[u] >= x.reads[s]
    <3> DEFINE e == Entries(r)
    <3>1. m \in Normalized(x, e, now)
      BY <1>2
    <3> HIDE DEF e
    <3> QED
      BY ZenonT(60), <1>3, <1>6, <1>9, <1>10, <2>5, <3>1, NormalizedKeeps
  <2>7. ASSUME NEW u \in Entries(m) PROVE m.reads[u] >= h.reads[s]
    <3>1. m.reads[u] \in Nat /\ m.reads[u] >= x.reads[s]
      BY <1>7, <2>6, HistoryFacts
    <3> QED
      BY <2>4, <3>1
  <2> QED
    BY <2>6, <2>7
<1> QED
  BY <1>3, <1>7, <1>8, <1>10 DEF h

\* What a step may do to the rows.
RowsAdvance ==
    \A f \in Groups' :
       /\ f \in Groups
       /\ Cardinality(Entries(groups'[f].state)) <= MaxReads
       /\ groups'[f].rev = groups[f].rev \/ groups'[f].rev = groups[f].rev + 1
       /\ groups'[f].state # groups[f].state => groups'[f].rev = groups[f].rev + 1

LEMMA SameRows == ASSUME RevInv, UNCHANGED groups PROVE RowsAdvance
BY DEF RevInv, RowsAdvance, Groups

LEMMA MergeRows ==
    ASSUME ReadInv, RevInv, NEW g \in Tokens, NEW payload \in Histories, Sound(payload), MergeGroup(g, payload)
    PROVE  RowsAdvance
<1> SUFFICES ASSUME NEW f \in Groups'
             PROVE  /\ f \in Groups
                    /\ Cardinality(Entries(groups'[f].state)) <= MaxReads
                    /\ groups'[f].rev = groups[f].rev \/ groups'[f].rev = groups[f].rev + 1
                    /\ groups'[f].state # groups[f].state => groups'[f].rev = groups[f].rev + 1
  BY DEF RowsAdvance
<1>1. f \in Tokens /\ groups'[f] # None
  BY DEF Groups
<1>2. CASE groups'[f] = groups[f]
  BY <1>1, <1>2 DEF Groups, RevInv
<1>3. CASE groups'[f] # groups[f]
  <2>1. f = g /\ groups[g] # None /\ groups'[g] \in Merged(groups[g], payload)
    BY <1>1, <1>3, MergeGroupFacts DEF ReadInv, Unexpired
  <2>2. g \in Groups
    BY <2>1 DEF Groups
  <2>3. RowOK(groups[g]) /\ Sound(groups[g].state) /\ Cardinality(Entries(groups[g].state)) <= MaxReads
    BY <2>2, RowFacts DEF ReadInv, AllBacked, OK, Backed, RevInv
  <2>4. /\ groups'[g].rev = groups[g].rev \/ groups'[g].rev = groups[g].rev + 1
        /\ groups'[g].state # groups[g].state => groups'[g].rev = groups[g].rev + 1
    BY <2>1, <2>3, MergedFacts DEF ReadInv
  <2>5. Cardinality(Entries(groups'[g].state)) <= MaxReads
    BY <2>1, <2>3, MergedKeeps DEF ReadInv
  <2> QED
    BY <2>1, <2>2, <2>4, <2>5
<1> QED
  BY <1>2, <1>3

LEMMA UpdateRows == ASSUME ReadInv, RevInv, CleanupUpdate PROVE RowsAdvance
<1> DEFINE g == cleaner.of
<1>1. cleaner # Idle /\ \E n \in Normalized(cleaner.state, {}, cleaner.at) :
         groups' = [groups EXCEPT ![g] = IF @ = None THEN None ELSE [@ EXCEPT !.state = n, !.rev = cleaner.rev + 1]]
  BY DEF CleanupUpdate, Rewrite
<1>2. PICK n \in Normalized(cleaner.state, {}, cleaner.at) :
         groups' = [groups EXCEPT ![g] = IF @ = None THEN None ELSE [@ EXCEPT !.state = n, !.rev = cleaner.rev + 1]]
  BY <1>1
<1>3. g \in Tokens /\ cleaner.state \in Histories /\ cleaner.at \in Nat
  BY <1>1, StateFacts DEF ReadInv
<1>4. Cardinality(Entries(n)) <= MaxReads
  BY <1>3, NormalizedFacts
<1> SUFFICES ASSUME NEW f \in Groups'
             PROVE  /\ f \in Groups
                    /\ Cardinality(Entries(groups'[f].state)) <= MaxReads
                    /\ groups'[f].rev = groups[f].rev \/ groups'[f].rev = groups[f].rev + 1
                    /\ groups'[f].state # groups[f].state => groups'[f].rev = groups[f].rev + 1
  BY DEF RowsAdvance
<1>5. f \in Tokens /\ f \in Groups /\ DOMAIN groups = Tokens
  BY <1>2, <1>3 DEF Groups, ReadInv, TypeOK
<1>6. CASE f # g
  BY <1>2, <1>5, <1>6 DEF RevInv
<1>7. CASE f = g
  <2>1. groups[g] # None /\ groups[g].rev = cleaner.rev /\ RowOK(groups[g])
    BY <1>1, <1>5, <1>7, RowFacts DEF Groups, RevInv, SelectedRow, ReadInv
  <2> DEFINE row == groups[g]
             rev == cleaner.rev + 1
  <2>2. groups'[g] = [row EXCEPT !.state = n, !.rev = rev]
    BY <1>2, <1>5, <1>7, <2>1
  <2>3. RowOK(row)
    BY <2>1
  <2> HIDE DEF row, rev
  <2>4. groups'[g].state = n /\ groups'[g].rev = rev
    BY <2>2, <2>3 DEF RowOK
  <2> QED
    BY <1>4, <1>5, <1>7, <2>1, <2>4 DEF rev
<1> QED
  BY <1>6, <1>7

LEMMA QuietRows == ASSUME ReadInv, RevInv, [QuietNext]_vars PROVE RowsAdvance
<1>1. CASE ServeStray
  BY <1>1, MergeRows, StateFacts DEF ServeStray, ReadInv, AllBacked, OK, Backed
<1>2. CASE CleanupUpdate
  BY <1>2, UpdateRows
<1>3. ASSUME NEW t \in Tabs, Serve(t) PROVE RowsAdvance
  <2>1. call[t].phase = "sent" /\ MergeGroup(call[t].of, call[t].state)
    BY <1>3 DEF Serve
  <2>2. call[t].of \in Tokens /\ call[t].state \in Histories /\ Sound(call[t].state)
    BY <2>1, StateFacts, CallFacts DEF ReadInv, AllBacked, OK, Backed
  <2> QED
    BY <2>1, <2>2, MergeRows
<1>4. CASE UNCHANGED groups
  BY <1>4, SameRows
<1>5. CASE Tick \/ CleanupSelect \/ UNCHANGED vars
  BY <1>4, <1>5 DEF Tick, CleanupSelect, vars
<1>6. ASSUME NEW t \in Tabs,
             Open(t) \/ (\E s \in Stories : Mark(t, s)) \/ Receive(t) \/ Abort(t) \/ Send(t) \/ Close(t)
      PROVE  RowsAdvance
  BY <1>4, <1>6 DEF Open, Load, Mark, Receive, Abort, Send, Close
<1> QED
  BY <1>1, <1>2, <1>3, <1>5, <1>6 DEF QuietNext, Next, Around, PageStep

\* Where the revisions of pages, browsers and answers come from.
LEMMA KnownFrom ==
    ASSUME ReadInv, [Next]_vars, NEW t \in Tabs
    PROVE  \/ token'[t] = token[t] /\ known'[t] = known[t]
           \/ token'[t] = None
           \/ known'[t] = 0
           \/ token'[t] = saved[BrowserOf[t]].mark.of /\ known'[t] = saved[BrowserOf[t]].mark.rev
           \/ /\ call[t].phase \in {"full", "short"} /\ call[t].of = token[t]
              /\ token'[t] = token[t] /\ known'[t] = call[t].rev
<1>1. token \in [Tabs -> Tokens \cup {None}] /\ known \in [Tabs -> Nat]
  BY DEF ReadInv, TypeOK
<1>2. CASE UNCHANGED <<token, known>>
  BY <1>2
<1>3. CASE Around \/ UNCHANGED vars
  BY <1>2, <1>3 DEF Around, Tick, ServeStray, CleanupSelect, CleanupUpdate, Rewrite, tabVars, vars
<1>4. ASSUME NEW u \in Tabs,
             (\E s \in Stories : Mark(u, s)) \/ Abort(u) \/ Serve(u) \/ Send(u)
      PROVE  UNCHANGED <<token, known>>
  BY <1>4 DEF Mark, Abort, Serve, Send
<1>5. ASSUME NEW u \in Tabs, Open(u)
      PROVE  /\ token' = [token EXCEPT ![u] = saved[BrowserOf[u]].token]
             /\ known' = [known EXCEPT ![u] = RevisionOf(saved[BrowserOf[u]], saved[BrowserOf[u]].token)]
  BY <1>5 DEF Open, Load
<1>6. ASSUME NEW u \in Tabs, Receive(u)
      PROVE  /\ token' = token
             /\ known' = known \/ /\ call[u].phase \in {"full", "short"} /\ call[u].of = token[u]
                                  /\ known' = [known EXCEPT ![u] = call[u].rev]
  BY <1>6 DEF Receive, Counts
<1>7. ASSUME NEW u \in Tabs, Close(u)
      PROVE  token' = [token EXCEPT ![u] = None] /\ known' = [known EXCEPT ![u] = 0]
  BY <1>7 DEF Close
<1>8. ASSUME NEW u \in Tabs, PageStep(u) \/ Send(u) \/ Close(u)
      PROVE  \/ token'[t] = token[t] /\ known'[t] = known[t]
             \/ token'[t] = None
             \/ known'[t] = 0
             \/ token'[t] = saved[BrowserOf[t]].mark.of /\ known'[t] = saved[BrowserOf[t]].mark.rev
             \/ /\ call[t].phase \in {"full", "short"} /\ call[t].of = token[t]
                /\ token'[t] = token[t] /\ known'[t] = call[t].rev
  <2>1. CASE Open(u)
    <3>1. CASE t = u
      BY <1>1, <1>5, <2>1, <3>1 DEF RevisionOf
    <3>2. CASE t # u
      BY <1>1, <1>5, <2>1, <3>2
    <3> QED
      BY <3>1, <3>2
  <2>2. CASE Receive(u)
    <3>1. CASE t = u
      BY <1>1, <1>6, <2>2, <3>1
    <3>2. CASE t # u
      BY <1>1, <1>6, <2>2, <3>2
    <3> QED
      BY <3>1, <3>2
  <2>3. CASE Close(u)
    BY <1>1, <1>7, <2>3
  <2> QED
    BY <1>4, <1>8, <2>1, <2>2, <2>3 DEF PageStep
<1> QED
  BY <1>2, <1>3, <1>8 DEF Next

LEMMA MarkFrom ==
    ASSUME ReadInv, [Next]_vars, NEW b \in Browsers
    PROVE  \/ saved'[b].mark = saved[b].mark
           \/ saved'[b].mark.of = None
           \/ \E t \in Tabs : /\ call[t].phase \in {"full", "short"} /\ call[t].of = saved'[b].mark.of
                              /\ saved'[b].mark.rev = call[t].rev
<1>1. saved \in [Browsers -> [state : Histories, token : Tokens \cup {None}, mark : [of : Tokens \cup {None}, rev : Nat]]]
      /\ \A t \in Tabs : BrowserOf[t] \in Browsers
  BY StateFacts DEF ReadInv, TypeOK
<1>2. CASE UNCHANGED saved
  BY <1>2
<1>3. CASE Around \/ UNCHANGED vars
  BY <1>2, <1>3 DEF Around, Tick, ServeStray, CleanupSelect, CleanupUpdate, Rewrite, tabVars, vars
<1>4. ASSUME NEW u \in Tabs, Abort(u) \/ Serve(u) \/ Send(u) \/ Close(u)
      PROVE  UNCHANGED saved
  BY <1>4 DEF Abort, Serve, Send, Close
<1>5. ASSUME NEW u \in Tabs, Open(u)
      PROVE  saved'[b].mark = saved[b].mark
  BY <1>1, <1>5 DEF Open, Load
<1>6. ASSUME NEW u \in Tabs, NEW s \in Stories, Mark(u, s)
      PROVE  saved'[b].mark = saved[b].mark
  BY <1>1, <1>6 DEF Mark
<1>7. ASSUME NEW u \in Tabs, Receive(u)
      PROVE  \/ saved'[b].mark = saved[b].mark
             \/ saved'[b].mark.of = None
             \/ /\ call[u].phase \in {"full", "short"} /\ call[u].of = saved'[b].mark.of
                /\ saved'[b].mark.rev = call[u].rev
  <2> DEFINE c == BrowserOf[u]
             mk == Marked(token[u], call[u].rev)
  <2>1. /\ call[u].phase \in {"full", "short"}
        /\ \/ saved' = saved
           \/ /\ call[u].of = token[u]
              /\ \E st : saved' = [saved EXCEPT ![c].state = st, ![c].mark = IF Advances(call[u]) THEN mk ELSE @]
    BY <1>7 DEF Receive, Counts
  <2>2. CASE saved' = saved
    BY <2>2
  <2>3. CASE saved' # saved
    <3>1. saved'[b].mark = saved[b].mark \/ saved'[b].mark = mk
      <4>1. PICK st : saved' = [saved EXCEPT ![c].state = st, ![c].mark = IF Advances(call[u]) THEN mk ELSE @]
        BY <2>1, <2>3
      <4>2. c \in Browsers /\ DOMAIN saved = Browsers /\ \A d \in Browsers : DOMAIN saved[d] = {"state", "token", "mark"}
        BY <1>1
      <4> HIDE DEF mk, c
      <4> QED
        BY <4>1, <4>2
    <3>2. mk.of = None \/ (mk.of = call[u].of /\ mk.rev = call[u].rev)
      BY <2>1, <2>3 DEF Marked, NoMark
    <3> QED
      BY <2>1, <3>1, <3>2
  <2> QED
    BY <2>2, <2>3
<1>8. ASSUME NEW u \in Tabs, PageStep(u) \/ Send(u) \/ Close(u)
      PROVE  \/ saved'[b].mark = saved[b].mark
             \/ saved'[b].mark.of = None
             \/ \E t \in Tabs : /\ call[t].phase \in {"full", "short"} /\ call[t].of = saved'[b].mark.of
                                /\ saved'[b].mark.rev = call[t].rev
  BY <1>4, <1>5, <1>6, <1>7, <1>8 DEF PageStep
<1> QED
  BY <1>2, <1>3, <1>8 DEF Next

LEMMA AnswerFrom ==
    ASSUME ReadInv, [Next]_vars, NEW t \in Tabs, call'[t].phase \in {"full", "short"}
    PROVE  \/ call'[t] = call[t]
           \/ /\ Serve(t) /\ call[t].phase = "sent" /\ call'[t].of = call[t].of
              /\ call'[t].rev = groups'[call[t].of].rev
<1>1. call \in [Tabs -> Calls] /\ NoCall.phase = "none"
  BY DEF ReadInv, TypeOK, NoCall
<1>2. CASE UNCHANGED call
  BY <1>2
<1>3. CASE Around \/ UNCHANGED vars
  BY <1>2, <1>3 DEF Around, Tick, ServeStray, CleanupSelect, CleanupUpdate, Rewrite, tabVars, vars
<1>4. ASSUME NEW u \in Tabs, NEW s \in Stories, Mark(u, s) PROVE UNCHANGED call
  BY <1>4 DEF Mark
<1>5. ASSUME NEW u \in Tabs, Receive(u) \/ Abort(u) \/ Close(u) PROVE call'[t] = call[t]
  BY <1>1, <1>5 DEF Receive, Abort, Close
<1>6. ASSUME NEW u \in Tabs, Open(u) \/ Send(u) PROVE call'[t] = call[t]
  <2>1. UNCHANGED call \/ \E g, h, cards, rev, why : \E r \in Request(g, h, cards, rev, why) : call' = [call EXCEPT ![u] = r]
    BY <1>6 DEF Open, Load, Send
  <2>2. UNCHANGED call \/ \E r : call' = [call EXCEPT ![u] = r] /\ r.phase = "sent"
    BY <2>1 DEF Request
  <2> QED
    BY <1>1, <2>2
<1>7. ASSUME NEW u \in Tabs, Serve(u)
      PROVE  \/ call'[t] = call[t]
             \/ /\ Serve(t) /\ call[t].phase = "sent" /\ call'[t].of = call[t].of
                /\ call'[t].rev = groups'[call[t].of].rev
  <2>1. call[u].phase = "sent" /\ call' = [call EXCEPT ![u] = Answer(call[u], Unexpired[call[u].of], groups'[call[u].of])]
    BY <1>1, <1>7 DEF Serve
  <2>2. CASE t # u
    BY <1>1, <2>1, <2>2
  <2>3. CASE t = u
    <3>1. call'[t] = Answer(call[t], Unexpired[call[t].of], groups'[call[t].of])
      BY <1>1, <2>1, <2>3
    <3> QED
      BY <1>7, <2>1, <2>3, <3>1 DEF Answer
  <2> QED
    BY <2>2, <2>3
<1>8. ASSUME NEW u \in Tabs, PageStep(u) \/ Send(u) \/ Close(u)
      PROVE  \/ call'[t] = call[t]
             \/ /\ Serve(t) /\ call[t].phase = "sent" /\ call'[t].of = call[t].of
                /\ call'[t].rev = groups'[call[t].of].rev
  BY <1>2, <1>4, <1>5, <1>6, <1>7, <1>8 DEF PageStep
<1> QED
  BY <1>2, <1>3, <1>8 DEF Next

LEMMA SentFrom ==
    ASSUME ReadInv, [Next]_vars, NEW t \in Tabs, call'[t].phase = "sent"
    PROVE  \/ call'[t] = call[t]
           \/ call'[t].of = token[t] /\ call'[t].known = known[t]
           \/ call'[t].known = 0
           \/ call'[t].of = saved[BrowserOf[t]].mark.of /\ call'[t].known = saved[BrowserOf[t]].mark.rev
<1>1. call \in [Tabs -> Calls] /\ NoCall.phase = "none"
  BY DEF ReadInv, TypeOK, NoCall
<1>2. CASE UNCHANGED call
  BY <1>2
<1>3. CASE Around \/ UNCHANGED vars
  BY <1>2, <1>3 DEF Around, Tick, ServeStray, CleanupSelect, CleanupUpdate, Rewrite, tabVars, vars
<1>4. ASSUME NEW u \in Tabs, NEW s \in Stories, Mark(u, s) PROVE UNCHANGED call
  BY <1>4 DEF Mark
<1>5. ASSUME NEW u \in Tabs, Receive(u) \/ Abort(u) \/ Close(u) PROVE call'[t] = call[t]
  BY <1>1, <1>5 DEF Receive, Abort, Close
<1>6. ASSUME NEW u \in Tabs, Open(u)
      PROVE  \/ call'[t] = call[t]
             \/ call'[t].known = 0
             \/ call'[t].of = saved[BrowserOf[t]].mark.of /\ call'[t].known = saved[BrowserOf[t]].mark.rev
  <2> DEFINE g == saved[BrowserOf[u]].token
             rev == RevisionOf(saved[BrowserOf[u]], g)
  <2>1. UNCHANGED call \/ \E p : call' = [call EXCEPT ![u] = [phase |-> "sent", of |-> g, state |-> p,
                                                               known |-> rev, why |-> "load"]]
    BY <1>6 DEF Open, Load, Request
  <2>2. rev = 0 \/ (g = saved[BrowserOf[u]].mark.of /\ rev = saved[BrowserOf[u]].mark.rev)
    BY DEF RevisionOf
  <2> HIDE DEF g, rev
  <2>3. CASE t = u
    BY <1>1, <2>1, <2>2, <2>3
  <2>4. CASE t # u
    BY <1>1, <2>1, <2>4
  <2> QED
    BY <2>3, <2>4
<1>7. ASSUME NEW u \in Tabs, Send(u)
      PROVE  call'[t] = call[t] \/ (call'[t].of = token[t] /\ call'[t].known = known[t])
  <2>1. \E p : call' = [call EXCEPT ![u] = [phase |-> "sent", of |-> token[u], state |-> p,
                                            known |-> known[u], why |-> "timer"]]
    BY <1>7 DEF Send, Request
  <2> QED
    BY <1>1, <2>1
<1>8. ASSUME NEW u \in Tabs, Serve(u)
      PROVE  call'[t] = call[t]
  <2>1. call[u].phase = "sent" /\ \E a, b : call' = [call EXCEPT ![u] = Answer(call[u], a, b)]
    BY <1>1, <1>8 DEF Serve
  <2>2. CASE t # u
    BY <1>1, <2>1, <2>2
  <2>3. CASE t = u
    BY <1>1, <2>1, <2>3 DEF Answer
  <2> QED
    BY <2>2, <2>3
<1>9. ASSUME NEW u \in Tabs, PageStep(u) \/ Send(u) \/ Close(u)
      PROVE  \/ call'[t] = call[t]
             \/ call'[t].of = token[t] /\ call'[t].known = known[t]
             \/ call'[t].known = 0
             \/ call'[t].of = saved[BrowserOf[t]].mark.of /\ call'[t].known = saved[BrowserOf[t]].mark.rev
  BY <1>2, <1>4, <1>5, <1>6, <1>7, <1>8, <1>9 DEF PageStep
<1> QED
  BY <1>2, <1>3, <1>9 DEF Next

\* Whatever revision anybody has after a step, somebody had before it, except
\* for an answer, which has the row's.
Learned ==
    /\ \A t \in Tabs : Heard(token'[t], known'[t])
    /\ \A b \in Browsers : Heard(saved'[b].mark.of, saved'[b].mark.rev)
    /\ \A t \in Tabs : call'[t].phase = "sent" => Heard(call'[t].of, call'[t].known)
    /\ \A t \in Tabs : call'[t].phase \in {"full", "short"} =>
          Heard(call'[t].of, call'[t].rev) \/ call'[t].rev = groups'[call'[t].of].rev

LEMMA RevisionsStay ==
    ASSUME ReadInv, ReadInv', RevInv, RowsAdvance, Learned, SelectedRow'
    PROVE  RevInv'
<1> SUFFICES ASSUME NEW g \in Groups', NEW k \in Nat, Heard(g, k)'
             PROVE  k <= groups'[g].rev
  BY DEF RevInv, RowsAdvance
<1>1. /\ g \in Groups /\ g # None /\ groups[g].rev \in Nat /\ groups'[g].rev \in Nat \ {0}
      /\ groups[g].rev <= groups'[g].rev
  <2>1. g \in Groups /\ g # None /\ groups[g].rev \in Nat \ {0}
    BY RowFacts DEF RowsAdvance, ReadInv, Groups
  <2> QED
    BY <2>1 DEF RowsAdvance
<1>2. Heard(g, k) => k <= groups'[g].rev
  BY <1>1 DEF RevInv
<1>3. k <= 1 \/ Heard(g, k) \/ k = groups'[g].rev
  BY <1>1 DEF Heard, Learned
<1> QED
  BY <1>1, <1>2, <1>3

LEMMA StepRevisions == ASSUME ReadInv, RevInv, [QuietNext]_vars PROVE RevInv'
<1>1. RowsAdvance /\ [Next]_vars /\ ReadInv'
  BY QuietRows, StepBacked DEF QuietNext
<1>2. ASSUME NEW t \in Tabs PROVE Heard(token'[t], known'[t])
  BY <1>1, KnownFrom, StateFacts DEF Heard, ReadInv
<1>3. ASSUME NEW b \in Browsers PROVE Heard(saved'[b].mark.of, saved'[b].mark.rev)
  BY <1>1, MarkFrom DEF Heard
<1>4. ASSUME NEW t \in Tabs, call'[t].phase = "sent" PROVE Heard(call'[t].of, call'[t].known)
  BY <1>1, <1>4, SentFrom, StateFacts DEF Heard, ReadInv
<1>5. ASSUME NEW t \in Tabs, call'[t].phase \in {"full", "short"}
      PROVE  Heard(call'[t].of, call'[t].rev) \/ call'[t].rev = groups'[call'[t].of].rev
  BY <1>1, <1>5, AnswerFrom DEF Heard
<1>6. SelectedRow'
  <2>1. CASE CleanupSelect
    <3>1. PICK g \in Groups : cleaner' = [of |-> g, state |-> groups[g].state, rev |-> groups[g].rev, at |-> now]
      BY <2>1 DEF CleanupSelect
    <3>2. groups' = groups /\ now' = now /\ now \in Nat
      BY <2>1, StateFacts DEF CleanupSelect, ReadInv
    <3> QED
      BY <3>1, <3>2 DEF SelectedRow
  <2>2. CASE CleanupUpdate
    BY <2>2 DEF CleanupUpdate, Rewrite, SelectedRow
  <2>3. CASE cleaner' = cleaner
    <3>1. CASE cleaner = Idle
      BY <2>3, <3>1 DEF SelectedRow
    <3>2. CASE cleaner # Idle
      <4>1. groups' = groups
        BY <2>3, <3>2 DEF QuietNext, Undisturbed, vars
      <4>2. now' \in Nat /\ now \in Nat /\ now <= now' /\ cleaner.at \in Nat
        <5>1. now' \in Nat /\ now \in Nat /\ cleaner.at \in Nat
          BY <1>1, <3>2, StateFacts DEF ReadInv, TypeOK
        <5>2. now' = now \/ now' = now + 1
          BY <1>1 DEF Next, Around, PageStep, Tick, ServeStray, CleanupSelect, CleanupUpdate, Rewrite,
                      Open, Load, Mark, Receive, Abort, Serve, Send, Close, vars
        <5> QED
          BY <5>1, <5>2
      <4> QED
        BY <2>3, <3>2, <4>1, <4>2 DEF RevInv, SelectedRow, Groups
    <3> QED
      BY <3>1, <3>2
  <2> QED
    BY <1>1, <2>1, <2>2, <2>3 DEF Next, Around, PageStep, Tick, ServeStray,
                      Open, Load, Mark, Receive, Abort, Serve, Send, Close, vars
<1> QED
  BY <1>1, <1>2, <1>3, <1>4, <1>5, <1>6, RevisionsStay DEF Learned

LEMMA InitRevisions == ASSUME Init PROVE RevInv
<1>1. ReadInv /\ known = [t \in Tabs |-> 0] /\ call = [t \in Tabs |-> NoCall] /\ cleaner = Idle
  BY InitBacked DEF Init, InitTabs
<1>2. \A b \in Browsers : saved[b].mark = NoMark
  BY DEF Init
<1>3. ASSUME NEW g \in Groups PROVE g # None /\ groups[g].state = Empty /\ groups[g].rev \in Nat \ {0}
  BY <1>1, RowFacts DEF Init, Groups, ReadInv
<1>4. Cardinality(Entries(Empty)) <= MaxReads
  BY EmptyHistory, FS_EmptySet
<1>5. \A g \in Groups, k \in Nat : k <= 1 => k <= groups[g].rev
  BY <1>3
<1> QED
  BY <1>1, <1>2, <1>3, <1>4, <1>5 DEF RevInv, Heard, SelectedRow, NoCall, NoMark

\* As long as no merge commits between the cleanup's SELECT and its UPDATE,
\* nobody holds a revision the row has not had.
THEOREM RevisionInvariant == QuietSpec => [](ReadInv /\ RevInv)
<1>1. Init => ReadInv /\ RevInv
  BY InitBacked, InitRevisions
<1>2. ReadInv /\ RevInv /\ [QuietNext]_vars => (ReadInv /\ RevInv)'
  BY StepBacked, StepRevisions DEF QuietNext
<1> QED
  BY <1>1, <1>2, PTL DEF QuietSpec

\* The revision after a row's has been given to nobody.
LEMMA LaterUnknown ==
    ASSUME ReadInv, RevInv, NEW g \in Groups
    PROVE  /\ \A t \in Tabs : token[t] = g => groups[g].rev + 1 # known[t]
           /\ \A b \in Browsers : groups[g].rev + 1 # RevisionOf(saved[b], g)
<1>1. g \in Tokens /\ groups[g].rev \in Nat
  BY RowFacts DEF ReadInv
<1>2. ASSUME NEW t \in Tabs, token[t] = g PROVE groups[g].rev + 1 # known[t]
  <2>1. known[t] \in Nat /\ known[t] <= groups[g].rev
    BY <1>2, StateFacts DEF ReadInv, RevInv, Heard
  <2> QED
    BY <1>1, <2>1
<1>3. ASSUME NEW b \in Browsers PROVE groups[g].rev + 1 # RevisionOf(saved[b], g)
  <2>1. saved[b].mark.rev \in Nat /\ (saved[b].mark.of = g => saved[b].mark.rev <= groups[g].rev)
    BY StateFacts DEF ReadInv, RevInv, Heard
  <2>2. RevisionOf(saved[b], g) \in Nat /\ RevisionOf(saved[b], g) <= groups[g].rev
    BY <1>1, <2>1 DEF RevisionOf
  <2> QED
    BY <1>1, <2>2
<1> QED
  BY <1>2, <1>3

\* A row that changes gets a revision that no page and no browser has been
\* given, so that a known revision names one content of the row (mergeGroup,
\* cleanup, setSyncRevision).
THEOREM RevisionsName == QuietSpec => RevisionNamesContent
<1>1. ReadInv /\ RevInv /\ [QuietNext]_vars =>
        \A g \in Groups : groups'[g] # None /\ groups'[g].state # groups[g].state =>
           /\ \A t \in Tabs : token[t] = g => groups'[g].rev # known[t]
           /\ \A b \in Browsers : groups'[g].rev # RevisionOf(saved[b], g)
  <2> SUFFICES ASSUME ReadInv, RevInv, [QuietNext]_vars,
                      NEW g \in Groups, groups'[g] # None, groups'[g].state # groups[g].state
               PROVE  /\ \A t \in Tabs : token[t] = g => groups'[g].rev # known[t]
                      /\ \A b \in Browsers : groups'[g].rev # RevisionOf(saved[b], g)
    OBVIOUS
  <2>1. g \in Tokens /\ groups[g].rev \in Nat
    BY RowFacts DEF ReadInv
  <2>2. groups'[g].rev = groups[g].rev + 1
    BY <2>1, QuietRows DEF RowsAdvance, Groups
  <2> QED
    BY <2>2, LaterUnknown
<1> QED
  BY <1>1, RevisionInvariant, PTL DEF QuietSpec, RevisionNamesContent

LEMMA TimePasses ==
    ASSUME ReadInv, [Next]_vars
    PROVE  now \in Nat /\ now' \in Nat /\ (now' = now \/ (now' = now + 1 /\ UNCHANGED groups))
<1>1. now' = now \/ (now' = now + 1 /\ UNCHANGED groups)
  BY DEF Next, Around, PageStep, Tick, ServeStray, CleanupSelect, CleanupUpdate, Rewrite,
         Open, Load, Mark, Receive, Abort, Serve, Send, Close, vars
<1> QED
  BY <1>1, StateFacts, StepBacked DEF ReadInv

\* What has been read of a story remains so until its order expires.
LEMMA StillRead ==
    ASSUME NEW h, NEW s \in Stories, NEW n, NEW k, IsRead(h, s, n), Fresh(s, k)
    PROVE  IsRead(h, s, k)
BY DEF IsRead

\* The limit is the only reason for which a row loses a read: at the limit it
\* keeps reads that are as recent.
LoseOldest(g) ==
    \A s \in ReadIn(groups[g].state) : Fresh(s, now') /\ s \notin ReadIn(groups[g].state)' =>
       /\ Cardinality({u \in Stories : IsRead(groups'[g].state, u, now')}) >= MaxReads
       /\ \A u \in Entries(groups'[g].state) : groups'[g].state.reads[u] >= groups[g].state.reads[s]

LEMMA SameContent ==
    ASSUME NEW g, groups'[g] = groups[g] \/ groups'[g].state = groups[g].state
    PROVE  LoseOldest(g)
BY StillRead DEF LoseOldest, ReadIn

LEMMA MergeForgets ==
    ASSUME ReadInv, RevInv, NEW g \in Tokens, NEW payload \in Histories, Sound(payload), MergeGroup(g, payload),
           UNCHANGED now, NEW f \in Groups, groups'[f] # None
    PROVE  LoseOldest(f)
<1>1. CASE groups'[f] = groups[f]
  BY <1>1, SameContent
<1>2. CASE groups'[f] # groups[f]
  <2>1. f = g /\ groups[g] # None /\ groups'[g] \in Merged(groups[g], payload)
    BY <1>2, MergeGroupFacts DEF ReadInv, Unexpired, Groups
  <2>2. RowOK(groups[g]) /\ Sound(groups[g].state) /\ Cardinality(Entries(groups[g].state)) <= MaxReads
    BY <2>1, RowFacts DEF ReadInv, AllBacked, OK, Backed, RevInv, Groups
  <2> DEFINE row == groups[g]
             new == groups'[g]
  <2>3. \A s \in Stories : Fresh(s, now) /\ IsRead(row.state, s, now) /\ ~ IsRead(new.state, s, now) =>
           /\ Cardinality({u \in Stories : IsRead(new.state, u, now)}) >= MaxReads
           /\ \A u \in Entries(new.state) : new.state.reads[u] >= row.state.reads[s]
    BY <2>1, <2>2, MergedKeeps DEF ReadInv
  <2> QED
    BY <2>1, <2>3 DEF LoseOldest, ReadIn
<1> QED
  BY <1>1, <1>2

LEMMA UpdateForgets ==
    ASSUME ReadInv, RevInv, CleanupUpdate, NEW f \in Groups, groups'[f] # None
    PROVE  LoseOldest(f)
<1> DEFINE g == cleaner.of
           h == cleaner.state
           n == cleaner.at
<1>1. /\ cleaner # Idle /\ now' = now
      /\ \E m \in Normalized(h, {}, n) :
         groups' = [groups EXCEPT ![g] = IF @ = None THEN None ELSE [@ EXCEPT !.state = m, !.rev = cleaner.rev + 1]]
  BY DEF CleanupUpdate, Rewrite
<1>2. PICK m \in Normalized(h, {}, n) :
         groups' = [groups EXCEPT ![g] = IF @ = None THEN None ELSE [@ EXCEPT !.state = m, !.rev = cleaner.rev + 1]]
  BY <1>1
<1>3. g \in Tokens /\ h \in Histories /\ n \in Nat /\ OK(h) /\ now \in Nat /\ n <= now
  BY <1>1, StateFacts DEF ReadInv, AllBacked, RevInv, SelectedRow
<1>4. CASE f # g
  <2>1. groups'[f] = groups[f]
    BY <1>2, <1>4 DEF ReadInv, TypeOK, Groups
  <2> QED
    BY <2>1, SameContent
<1>5. CASE f = g
  <2>1. groups[g] # None /\ groups[g].state = h /\ RowOK(groups[g])
    BY <1>1, <1>5, RowFacts DEF Groups, RevInv, SelectedRow, ReadInv
  <2>2. groups'[g].state = m
    <3> DEFINE row == groups[g]
               rev == cleaner.rev + 1
    <3>1. RowOK(row) /\ groups'[g] = [row EXCEPT !.state = m, !.rev = rev]
      BY <1>2, <1>3, <2>1 DEF ReadInv, TypeOK
    <3> HIDE DEF row, rev
    <3> QED
      BY <3>1 DEF RowOK
  <2>3. ~ (Cardinality(Entries(h)) > MaxReads) /\ Sound(h)
    <3>1. Cardinality(Entries(h)) <= MaxReads /\ Cardinality(Entries(h)) \in Nat
      BY <1>3, <1>5, <2>1, HistoryFacts, FS_CardinalityType DEF RevInv
    <3> QED
      BY <1>3, <3>1 DEF OK, Backed
  <2> HIDE DEF g, h, n
  <2>4. ASSUME NEW s \in Stories, Fresh(s, now), IsRead(h, s, now) PROVE IsRead(m, s, now)
    <3>1. Fresh(s, n)
      BY <1>3, <2>4, FreshFacts
    <3>2. IsRead(h, s, n)
      BY <2>4, <3>1, StillRead
    <3>3. IsRead(m, s, n)
      BY <1>2, <1>3, <2>3, <3>1, <3>2, NormalizedKeeps
    <3> QED
      BY <2>4, <3>3, StillRead
  <2> QED
    BY <1>1, <1>5, <2>1, <2>2, <2>4 DEF LoseOldest, ReadIn
<1> QED
  BY <1>4, <1>5

LEMMA StepForgets ==
    ASSUME ReadInv, RevInv, [QuietNext]_vars, NEW g \in Groups, groups'[g] # None
    PROVE  LoseOldest(g)
<1>1. CASE ServeStray
  <2>1. PICK r \in stray : MergeGroup(r.of, r.state) /\ UNCHANGED now
    BY <1>1 DEF ServeStray
  <2>2. r.of \in Tokens /\ r.state \in Histories /\ Sound(r.state)
    BY StateFacts DEF ReadInv, AllBacked, OK, Backed
  <2> QED
    BY <2>1, <2>2, MergeForgets
<1>2. CASE CleanupUpdate
  BY <1>2, UpdateForgets
<1>3. ASSUME NEW t \in Tabs, Serve(t) PROVE LoseOldest(g)
  <2>1. call[t].phase = "sent" /\ MergeGroup(call[t].of, call[t].state) /\ UNCHANGED now
    BY <1>3 DEF Serve
  <2>2. call[t].of \in Tokens /\ call[t].state \in Histories /\ Sound(call[t].state)
    BY <2>1, StateFacts, CallFacts DEF ReadInv, AllBacked, OK, Backed
  <2> QED
    BY <2>1, <2>2, MergeForgets
<1>4. CASE UNCHANGED groups
  BY <1>4, SameContent
<1>5. CASE Tick \/ CleanupSelect \/ UNCHANGED vars
  BY <1>4, <1>5 DEF Tick, CleanupSelect, vars
<1>6. ASSUME NEW t \in Tabs,
             Open(t) \/ (\E s \in Stories : Mark(t, s)) \/ Receive(t) \/ Abort(t) \/ Send(t) \/ Close(t)
      PROVE  LoseOldest(g)
  BY <1>4, <1>6 DEF Open, Load, Mark, Receive, Abort, Send, Close
<1> QED
  BY <1>1, <1>2, <1>3, <1>5, <1>6 DEF QuietNext, Next, Around, PageStep

\* No merge and no cleanup loses a read that was stored, except for the limit,
\* and then the reads that are kept are at least as recent (mergeGroup,
\* normalizeState, cleanup).
THEOREM OldestForgotten == QuietSpec => ForgetsOnlyOldest
<1>1. ReadInv /\ RevInv /\ [QuietNext]_vars => \A g \in Groups : groups'[g] # None => LoseOldest(g)
  BY StepForgets
<1> QED
  BY <1>1, RevisionInvariant, PTL DEF QuietSpec, ForgetsOnlyOldest, LoseOldest

--------------------------------------------------------------------------------
(***************************************************************************)
(* What a revision stands for, when no two pages share the localStorage of *)
(* one browser.  The page, its localStorage, and an answer on its way that *)
(* has the row's revision hold every read of the row; a request in flight  *)
(* carries the page's known revision and nothing the page has not read, so *)
(* that the short answer to it may leave out the row's reads.              *)
(***************************************************************************)
OnePage == \A t \in Tabs, u \in Tabs : BrowserOf[t] = BrowserOf[u] => t = u

Holds(g, h) == ReadAt(groups[g].state, now) \subseteq ReadAt(h, now)

Coupled(t) ==
    /\ t \in open => saved[BrowserOf[t]].state = mine[t]
    /\ call[t] # NoCall => t \in open
    /\ call[t].phase = "sent" => ReadAt(call[t].state, now) \subseteq ReadAt(mine[t], now)

Informed(t) ==
    \A g \in Groups :
       /\ t \in open /\ token[t] = g /\ known[t] = groups[g].rev => Holds(g, mine[t])
       /\ RevisionOf(saved[BrowserOf[t]], g) = groups[g].rev => Holds(g, saved[BrowserOf[t]].state)
       /\ call[t] # NoCall /\ call[t].of = g =>
             /\ call[t].phase = "sent" /\ call[t].known = groups[g].rev => Holds(g, mine[t])
             /\ call[t].phase = "full" /\ call[t].rev = groups[g].rev => Holds(g, call[t].state)
             /\ call[t].phase = "short" /\ call[t].rev = groups[g].rev => Holds(g, mine[t])

AppliedInv == ReadInv /\ RevInv /\ \A t \in Tabs : Coupled(t) /\ Informed(t)

LEMMA ReadAtFacts ==
    ASSUME NEW a, NEW b, NEW n \in Nat, NEW k \in Nat, n <= k
    PROVE  /\ ReadAt(a, k) \subseteq ReadAt(a, n)
           /\ ReadAt(a, n) \subseteq ReadAt(b, n) => ReadAt(a, k) \subseteq ReadAt(b, k)
<1>1. \A s \in Stories : Fresh(s, k) => Fresh(s, n)
  BY FreshFacts
<1> QED
  BY <1>1 DEF ReadAt, IsRead

\* A step that changes no row without a later revision.
Onward == RowsAdvance /\ now' \in Nat /\ now <= now'

LEMMA QuietOnward == ASSUME ReadInv, RevInv, [QuietNext]_vars PROVE Onward
<1>1. now \in Nat /\ now' \in Nat /\ (now' = now \/ now' = now + 1)
  BY TimePasses DEF QuietNext
<1> QED
  BY <1>1, QuietRows DEF Onward

\* What a revision that was given out before the step stands for after it.
LEMMA HoldsLater ==
    ASSUME ReadInv, Onward, NEW g \in Groups', NEW k \in Nat, NEW h, NEW new,
           k <= groups[g].rev, k = groups[g].rev => Holds(g, h),
           ReadAt(h, now') \subseteq ReadAt(new, now'), groups'[g].rev = k
    PROVE  ReadAt(groups'[g].state, now') \subseteq ReadAt(new, now')
<1>1. /\ g \in Groups
      /\ groups'[g].rev = groups[g].rev \/ groups'[g].rev = groups[g].rev + 1
      /\ groups'[g].state # groups[g].state => groups'[g].rev = groups[g].rev + 1
  BY DEF Onward, RowsAdvance
<1>2. groups[g].rev \in Nat
  BY <1>1, RowFacts DEF ReadInv
<1>3. groups[g].rev = k /\ groups'[g].state = groups[g].state
  BY <1>1, <1>2
<1>4. now \in Nat /\ now' \in Nat /\ now <= now'
  BY StateFacts DEF ReadInv, Onward
<1> QED
  BY <1>1, <1>3, <1>4, ReadAtFacts DEF Holds

LEMMA GivenOut ==
    ASSUME ReadInv, RevInv, NEW t \in Tabs, NEW g \in Groups
    PROVE  /\ known[t] \in Nat /\ (token[t] = g => known[t] <= groups[g].rev)
           /\ LET k == RevisionOf(saved[BrowserOf[t]], g) IN k \in Nat /\ k <= groups[g].rev
           /\ call[t].phase = "sent" /\ call[t].of = g => call[t].known \in Nat /\ call[t].known <= groups[g].rev
           /\ call[t].phase \in {"full", "short"} /\ call[t].of = g =>
                 call[t].rev \in Nat /\ call[t].rev <= groups[g].rev
<1>1. groups[g].rev \in Nat /\ g \in Tokens /\ \A k \in Nat : Heard(g, k) => k <= groups[g].rev
  BY RowFacts DEF ReadInv, RevInv
<1>2. BrowserOf[t] \in Browsers /\ known[t] \in Nat /\ call[t] \in Calls /\ saved[BrowserOf[t]].mark.rev \in Nat
  BY StateFacts DEF ReadInv
<1> QED
  BY <1>1, <1>2, CallFacts DEF Heard, RevisionOf

\* A step that does not touch a page, nor the localStorage it uses.
Untouched(t) ==
    /\ t \in open' <=> t \in open
    /\ mine'[t] = mine[t] /\ token'[t] = token[t] /\ known'[t] = known[t] /\ call'[t] = call[t]
    /\ saved'[BrowserOf[t]] = saved[BrowserOf[t]]

LEMMA UntouchedStays ==
    ASSUME AppliedInv, Onward, NEW t \in Tabs, Untouched(t)
    PROVE  (Coupled(t) /\ Informed(t))'
<1>1. ReadInv /\ RevInv /\ Coupled(t) /\ Informed(t) /\ RowsAdvance
  BY DEF AppliedInv, Onward
<1>2. now \in Nat /\ now' \in Nat /\ now <= now'
  BY <1>1, StateFacts DEF ReadInv, Onward
<1>3. Coupled(t)'
  BY <1>1, <1>2, ReadAtFacts DEF Coupled, Untouched
<1> DEFINE Still(g, h) == ReadAt(groups'[g].state, now') \subseteq ReadAt(h, now')
<1>4. ASSUME NEW g \in Groups', NEW k \in Nat, NEW h, k <= groups[g].rev, k = groups[g].rev => Holds(g, h),
             k = groups'[g].rev
      PROVE  Still(g, h)
  <2>1. ReadAt(h, now') \subseteq ReadAt(h, now')
    OBVIOUS
  <2> QED
    BY <1>1, <1>4, <2>1, HoldsLater
<1> HIDE DEF Still
<1>5. ASSUME NEW g \in Groups'
      PROVE  /\ t \in open' /\ token'[t] = g /\ known'[t] = groups'[g].rev => Still(g, mine'[t])
             /\ RevisionOf(saved[BrowserOf[t]], g)' = groups'[g].rev => Still(g, saved'[BrowserOf[t]].state)
             /\ call'[t].of = g =>
                   /\ call'[t].phase = "sent" /\ call'[t].known = groups'[g].rev => Still(g, mine'[t])
                   /\ call'[t].phase = "full" /\ call'[t].rev = groups'[g].rev => Still(g, call'[t].state)
                   /\ call'[t].phase = "short" /\ call'[t].rev = groups'[g].rev => Still(g, mine'[t])
  <2>1. g \in Groups
    BY <1>1 DEF RowsAdvance
  <2> DEFINE rev == RevisionOf(saved[BrowserOf[t]], g)
  <2>2. RevisionOf(saved[BrowserOf[t]], g)' = rev
    BY DEF Untouched, RevisionOf
  <2>3. /\ known[t] \in Nat /\ (token[t] = g => known[t] <= groups[g].rev)
        /\ rev \in Nat /\ rev <= groups[g].rev
        /\ call[t].phase = "sent" /\ call[t].of = g => call[t].known \in Nat /\ call[t].known <= groups[g].rev
        /\ call[t].phase \in {"full", "short"} /\ call[t].of = g =>
              call[t].rev \in Nat /\ call[t].rev <= groups[g].rev
    BY <1>1, <2>1, GivenOut
  <2>4. /\ t \in open /\ token[t] = g /\ known[t] = groups[g].rev => Holds(g, mine[t])
        /\ rev = groups[g].rev => Holds(g, saved[BrowserOf[t]].state)
        /\ call[t].of = g =>
             /\ call[t].phase = "sent" /\ call[t].known = groups[g].rev => Holds(g, mine[t])
             /\ call[t].phase = "full" /\ call[t].rev = groups[g].rev => Holds(g, call[t].state)
             /\ call[t].phase = "short" /\ call[t].rev = groups[g].rev => Holds(g, mine[t])
    BY <1>1, <2>1 DEF Informed, NoCall
  <2> HIDE DEF rev
  <2>5. t \in open' /\ token'[t] = g /\ known'[t] = groups'[g].rev => Still(g, mine'[t])
    BY <1>4, <2>3, <2>4 DEF Untouched
  <2>6. rev = groups'[g].rev => Still(g, saved'[BrowserOf[t]].state)
    BY <1>4, <2>3, <2>4 DEF Untouched
  <2>7. call'[t].of = g =>
           /\ call'[t].phase = "sent" /\ call'[t].known = groups'[g].rev => Still(g, mine'[t])
           /\ call'[t].phase = "full" /\ call'[t].rev = groups'[g].rev => Still(g, call'[t].state)
           /\ call'[t].phase = "short" /\ call'[t].rev = groups'[g].rev => Still(g, mine'[t])
    BY <1>4, <2>3, <2>4 DEF Untouched
  <2> QED
    BY <2>2, <2>5, <2>6, <2>7
<1>6. Informed(t)'
  BY <1>5 DEF Informed, Holds, Still
<1> QED
  BY <1>3, <1>6

LEMMA NothingLost ==
    ASSUME NEW h \in Histories, Sound(h), NEW n \in Nat, NEW cards
    PROVE  /\ ReadAt(h, n) \subseteq ReadAt(Loaded(h, n), n)
           /\ \A p \in Payloads(h, cards, n) : ReadAt(p, n) \subseteq ReadAt(h, n)
<1>1. ASSUME NEW s \in Stories, Fresh(s, n), IsRead(h, s, n) PROVE IsRead(Loaded(h, n), s, n)
  <2>1. h.reads[s] # 0 => Fresh(h.reads[s], n)
    BY <1>1, HistoryFacts, FreshFacts DEF Sound
  <2>2. s <= h.upto => Fresh(h.upto, n)
    BY <1>1, HistoryFacts, FreshFacts
  <2> QED
    BY <1>1, <2>1, <2>2, LoadedFacts DEF IsRead
<1>2. ASSUME NEW p \in Payloads(h, cards, n), NEW s \in Stories, Fresh(s, n), IsRead(p, s, n)
      PROVE  IsRead(h, s, n)
  <2>1. (p.upto = 0 \/ p.upto = h.upto) /\ (p.reads[s] = 0 \/ p.reads[s] = h.reads[s])
    BY PayloadFacts
  <2>2. s \in Nat /\ ~(s <= 0)
    OBVIOUS
  <2> QED
    BY <1>2, <2>1, <2>2 DEF IsRead
<1> QED
  BY <1>1, <1>2 DEF ReadAt

LEMMA LoadApplied ==
    ASSUME AppliedInv, NEW t \in Tabs, NEW g \in Tokens \cup {None}, Load(t, g)
    PROVE  (Coupled(t) /\ Informed(t))'
<1> DEFINE b == BrowserOf[t]
           loaded == Loaded(saved[b].state, now)
           rev == RevisionOf(saved[b], g)
           mark == IF g = saved[b].token THEN saved[b].mark ELSE Marked(g, rev)
<1>1. /\ b \in Browsers /\ now \in Nat /\ saved[b].state \in Histories /\ OK(saved[b].state)
      /\ Coupled(t) /\ Informed(t) /\ TypeOK
  BY StateFacts DEF AppliedInv, ReadInv, AllBacked
<1>2. /\ t \notin open /\ open' = open \cup {t}
      /\ mine' = [mine EXCEPT ![t] = loaded]
      /\ token' = [token EXCEPT ![t] = g] /\ known' = [known EXCEPT ![t] = rev]
      /\ saved' = [saved EXCEPT ![b] = [state |-> loaded, token |-> g, mark |-> mark]]
      /\ IF g = None THEN UNCHANGED call
         ELSE \E r \in Request(g, loaded, page'[t], rev, "load") : call' = [call EXCEPT ![t] = r]
      /\ UNCHANGED <<now, groups>>
  BY <1>1 DEF Load, TypeOK
<1>3. \A f : RevisionOf([state |-> loaded, token |-> g, mark |-> mark], f) \in {RevisionOf(saved[b], f), 0}
  BY DEF RevisionOf, Marked, NoMark
<1> HIDE DEF mark
<1>4. /\ saved'[b] = [state |-> loaded, token |-> g, mark |-> mark] /\ saved'[b].state = loaded
      /\ mine'[t] = loaded /\ token'[t] = g /\ known'[t] = rev /\ t \in open'
  BY <1>2, <1>1 DEF TypeOK
<1>5. loaded \in Histories /\ Sound(loaded) /\ ReadAt(saved[b].state, now) \subseteq ReadAt(loaded, now)
  BY <1>1, NothingLost, SentBacked DEF OK, Backed
<1>6. \/ call'[t] = NoCall
      \/ \E p \in Payloads(loaded, page'[t], now) :
           call'[t] = [phase |-> "sent", of |-> g, state |-> p, known |-> rev, why |-> "load"]
  BY <1>2, <1>1 DEF TypeOK, Coupled, Request
<1> HIDE DEF loaded, rev
<1>7. /\ Coupled(t)' /\ call'[t].phase \notin {"full", "short"}
      /\ call'[t].phase = "sent" => call'[t].of = g /\ call'[t].known = rev
  <2>1. CASE call'[t] = NoCall
    BY <1>4, <2>1 DEF Coupled, NoCall
  <2>2. CASE call'[t] # NoCall
    <3>1. PICK p \in Payloads(loaded, page'[t], now) :
            call'[t] = [phase |-> "sent", of |-> g, state |-> p, known |-> rev, why |-> "load"]
      BY <1>6, <2>2
    <3>2. ReadAt(p, now) \subseteq ReadAt(loaded, now)
      BY <1>1, <1>5, NothingLost
    <3>3. /\ call'[t].phase = "sent" /\ call'[t].of = g /\ call'[t].known = rev /\ call'[t].state = p
      BY <3>1
    <3> QED
      BY <1>2, <1>4, <3>2, <3>3 DEF Coupled
  <2> QED
    BY <2>1, <2>2
<1>8. ASSUME NEW f \in Groups
      PROVE  /\ RevisionOf(saved[b], f) = groups[f].rev => Holds(f, loaded)
             /\ groups[f].rev # 0
  BY <1>1, <1>5, RowFacts DEF Informed, Holds
<1>9. ASSUME NEW f \in Groups
      PROVE  /\ g = f /\ rev = groups[f].rev => Holds(f, loaded)
             /\ RevisionOf(saved'[b], f) = groups[f].rev => Holds(f, loaded)
  BY <1>3, <1>4, <1>8 DEF rev
<1>10. Informed(t)'
  <2> SUFFICES ASSUME NEW f \in Groups
               PROVE  /\ g = f /\ rev = groups[f].rev => Holds(f, loaded)
                      /\ RevisionOf(saved'[b], f) = groups[f].rev => Holds(f, loaded)
                      /\ call'[t].of = f /\ call'[t].phase = "sent" /\ call'[t].known = groups[f].rev => Holds(f, loaded)
    BY <1>2, <1>4, <1>7 DEF Informed, Holds, Groups, RevisionOf
  <2> QED
    BY <1>7, <1>9
<1> QED
  BY <1>7, <1>10

LEMMA MarkApplied ==
    ASSUME AppliedInv, NEW t \in Tabs, NEW s \in Stories, Mark(t, s)
    PROVE  (Coupled(t) /\ Informed(t))'
<1> DEFINE b == BrowserOf[t]
           read == [mine[t] EXCEPT !.reads[s] = now]
           new == Compact(read, page[t], now)
<1>1. /\ t \in open /\ s \in page[t] /\ mine' = [mine EXCEPT ![t] = new]
      /\ saved' = [saved EXCEPT ![b].state = mine'[t]]
      /\ UNCHANGED <<now, groups, open, token, known, call>>
  BY DEF Mark
<1>2. /\ b \in Browsers /\ now \in Nat /\ now # 0 /\ mine[t] \in Histories /\ Coupled(t) /\ Informed(t) /\ TypeOK
      /\ page[t] \in SUBSET Stories /\ \A c \in page[t] : c <= now
  BY StateFacts DEF AppliedInv, ReadInv, Built, Complete, TypeOK
<1>3. /\ saved'[b].state = new /\ saved'[b].mark = saved[b].mark /\ mine'[t] = new
  BY <1>1, <1>2 DEF TypeOK
<1>4. ReadAt(mine[t], now) \subseteq ReadAt(new, now)
  <2>1. /\ read \in Histories /\ read.upto = mine[t].upto
        /\ \A u \in Stories : read.reads[u] = IF u = s THEN now ELSE mine[t].reads[u]
    BY <1>2 DEF Histories
  <2> DEFINE cards == page[t]
  <2>2. cards \in SUBSET Stories /\ \A c \in cards : c <= now
    BY <1>2
  <2> HIDE DEF read, cards
  <2>3. \A u \in Stories : IsRead(mine[t], u, now) => IsRead(read, u, now)
    BY <1>2, <2>1 DEF IsRead
  <2>4. \A u \in Stories : Fresh(u, now) /\ IsRead(read, u, now) => IsRead(Compact(read, cards, now), u, now)
    BY <1>2, <2>1, <2>2, CompactKeeps
  <2> QED
    BY <2>3, <2>4 DEF ReadAt, cards
<1> HIDE DEF new
<1>5. Coupled(t)'
  BY <1>1, <1>2, <1>3, <1>4 DEF Coupled
<1>6. Informed(t)'
  BY <1>1, <1>2, <1>3, <1>4 DEF Coupled, Informed, Holds, Groups, RevisionOf
<1> QED
  BY <1>5, <1>6

LEMMA ReceiveApplied ==
    ASSUME AppliedInv, NEW t \in Tabs, Receive(t)
    PROVE  (Coupled(t) /\ Informed(t))'
<1> DEFINE a == call[t]
           b == BrowserOf[t]
           new == IF Applies(a) /\ a.phase = "full" THEN Absorb(mine[t], a.state, page[t], now) ELSE mine[t]
<1>1. /\ a.phase \in {"full", "short"} /\ call' = [call EXCEPT ![t] = NoCall]
      /\ UNCHANGED <<now, groups, open, token>>
  BY DEF Receive
<1>2. /\ now \in Nat /\ a \in Calls /\ b \in Browsers /\ mine[t] \in Histories /\ OK(mine[t])
      /\ page[t] \in SUBSET Stories /\ (\A c \in page[t] : c <= now)
      /\ Coupled(t) /\ Informed(t) /\ TypeOK
      /\ (a.phase = "full" => a.state \in Histories /\ OK(a.state))
  BY StateFacts, CallFacts DEF AppliedInv, ReadInv, AllBacked, Built, Complete
<1>3. t \in open /\ saved[b].state = mine[t] /\ call'[t] = NoCall
  BY <1>1, <1>2 DEF Coupled, NoCall, TypeOK
<1>4. CASE ~ Counts(t)
  BY <1>4, <1>1, <1>2, <1>3 DEF Receive, Coupled, Informed, Holds, Groups, RevisionOf, NoCall
<1> SUFFICES ASSUME Counts(t)
             PROVE  (Coupled(t) /\ Informed(t))'
  BY <1>4
<1>5. /\ mine'[t] = new /\ call'[t] = NoCall
      /\ known'[t] = IF Advances(a) THEN a.rev ELSE known[t]
      /\ saved'[b].state = new
      /\ saved'[b].mark = IF Advances(a) THEN Marked(token[t], a.rev) ELSE saved[b].mark
  <2>1. /\ mine' = [mine EXCEPT ![t] = new]
        /\ known' = IF Advances(a) THEN [known EXCEPT ![t] = a.rev] ELSE known
        /\ saved' = [saved EXCEPT ![b].state = IF new # mine[t] THEN new ELSE @,
                                  ![b].mark  = IF Advances(a) THEN Marked(token[t], a.rev) ELSE @]
    BY <1>3 DEF Receive, Counts
  <2> DEFINE mk == Marked(token[t], a.rev)
  <2>2. DOMAIN saved = Browsers /\ DOMAIN saved[b] = {"state", "token", "mark"}
        /\ DOMAIN mine = Tabs /\ DOMAIN known = Tabs /\ DOMAIN call = Tabs
    BY <1>2 DEF TypeOK
  <2> HIDE DEF new, mk, a, b
  <2> QED
    BY <1>1, <1>2, <1>3, <2>1, <2>2 DEF mk
<1>6. /\ ReadAt(mine[t], now) \subseteq ReadAt(new, now)
      /\ a.phase = "full" /\ Advances(a) => ReadAt(a.state, now) \subseteq ReadAt(new, now)
  <2>1. CASE ~ (Applies(a) /\ a.phase = "full")
    BY <2>1 DEF Advances
  <2>2. CASE Applies(a) /\ a.phase = "full"
    <3> DEFINE remote == a.state
    <3>1. remote \in Histories /\ OK(remote) /\ ReadInv
      BY <1>2, <2>2 DEF AppliedInv
    <3>2. new = Absorb(mine[t], remote, page[t], now)
      BY <2>2
    <3> HIDE DEF remote, new
    <3>3. ReadAt(mine[t], now) \subseteq ReadAt(new, now) /\ ReadAt(remote, now) \subseteq ReadAt(new, now)
      BY <3>1, <3>2, AbsorbBacked
    <3> QED
      BY <3>3 DEF remote
  <2> QED
    BY <2>1, <2>2
<1> HIDE DEF new
<1>7. Coupled(t)'
  BY <1>1, <1>3, <1>5 DEF Coupled, NoCall
<1>8. ASSUME NEW g \in Groups
      PROVE  /\ token[t] = g /\ known'[t] = groups[g].rev => Holds(g, new)
             /\ RevisionOf(saved'[b], g) = groups[g].rev => Holds(g, new)
  <2>1. token[t] = g /\ known[t] = groups[g].rev => Holds(g, mine[t])
    BY <1>2, <1>3 DEF Informed
  <2>2. RevisionOf(saved[b], g) = groups[g].rev => Holds(g, mine[t])
    BY <1>2, <1>3 DEF Informed
  <2>3. a.of = g /\ a.rev = groups[g].rev /\ Advances(a) => Holds(g, new)
    BY <1>1, <1>2, <1>6 DEF Informed, Holds, NoCall
  <2>4. Holds(g, mine[t]) => Holds(g, new)
    BY <1>6 DEF Holds
  <2>5. groups[g].rev # 0
    BY <1>2, RowFacts
  <2>6. CASE Advances(a)
    BY <1>3, <1>5, <2>3, <2>5, <2>6 DEF RevisionOf, Marked, NoMark, Counts
  <2>7. CASE ~ Advances(a)
    BY <1>5, <2>1, <2>2, <2>4, <2>7 DEF RevisionOf
  <2> QED
    BY <2>6, <2>7
<1>9. Informed(t)'
  BY <1>1, <1>5, <1>8 DEF Informed, Holds, Groups, RevisionOf, NoCall
<1> QED
  BY <1>7, <1>9

LEMMA LeaveApplied ==
    ASSUME AppliedInv, NEW t \in Tabs, Send(t) \/ Abort(t) \/ Close(t)
    PROVE  (Coupled(t) /\ Informed(t))'
<1>1. Coupled(t) /\ Informed(t) /\ TypeOK /\ ReadInv /\ NoCall.phase = "none"
  BY DEF AppliedInv, ReadInv, NoCall
<1>2. CASE Send(t)
  <2>1. PICK p \in Payloads(mine[t], page[t], now) :
          call' = [call EXCEPT ![t] = [phase |-> "sent", of |-> token[t], state |-> p, known |-> known[t], why |-> "timer"]]
    BY <1>2 DEF Send, Request
  <2>2. t \in open /\ UNCHANGED <<now, groups, saved, open, mine, token, known>>
    BY <1>2 DEF Send
  <2>3. mine[t] \in Histories /\ Sound(mine[t]) /\ now \in Nat
    BY <1>1, StateFacts DEF ReadInv, AllBacked, OK, Backed
  <2>4. ReadAt(p, now) \subseteq ReadAt(mine[t], now)
    BY <2>3, NothingLost
  <2>5. call'[t] = [phase |-> "sent", of |-> token[t], state |-> p, known |-> known[t], why |-> "timer"]
    BY <1>1, <2>1 DEF TypeOK
  <2>6. Coupled(t)'
    BY <1>1, <2>2, <2>4, <2>5 DEF Coupled
  <2>7. Informed(t)'
    BY <1>1, <2>2, <2>5 DEF Informed, Holds, Groups, RevisionOf
  <2> QED
    BY <2>6, <2>7
<1>3. CASE Abort(t)
  <2>1. call' = [call EXCEPT ![t] = NoCall] /\ UNCHANGED <<now, groups, saved, open, mine, token, known>>
    BY <1>3 DEF Abort
  <2>2. call'[t] = NoCall
    BY <1>1, <2>1 DEF TypeOK
  <2> QED
    BY <1>1, <2>1, <2>2 DEF Coupled, Informed, Holds, Groups, RevisionOf
<1>4. CASE Close(t)
  <2>1. call' = [call EXCEPT ![t] = NoCall] /\ open' = open \ {t} /\ UNCHANGED <<now, groups, saved>>
    BY <1>4 DEF Close
  <2>2. call'[t] = NoCall /\ t \notin open'
    BY <1>1, <2>1 DEF TypeOK
  <2> QED
    BY <1>1, <2>1, <2>2 DEF Coupled, Informed, Holds, Groups, RevisionOf
<1> QED
  BY <1>2, <1>3, <1>4

LEMMA ServeApplied ==
    ASSUME AppliedInv, Onward, NEW t \in Tabs, Serve(t)
    PROVE  (Coupled(t) /\ Informed(t))'
<1> DEFINE r == call[t]
           before == Unexpired[r.of]
           after == groups'[r.of]
           b == BrowserOf[t]
<1>1. /\ r.phase = "sent" /\ MergeGroup(r.of, r.state)
      /\ call' = [call EXCEPT ![t] = Answer(r, before, after)]
      /\ UNCHANGED <<now, saved, open, mine, token, known>>
  BY DEF Serve
<1>2. /\ ReadInv /\ RevInv /\ TypeOK /\ Coupled(t) /\ Informed(t) /\ RowsAdvance /\ now \in Nat
      /\ r.of \in Tokens /\ r.state \in Histories /\ OK(r.state) /\ call'[t] = Answer(r, before, after)
  BY <1>1, StateFacts, CallFacts DEF AppliedInv, ReadInv, AllBacked, TypeOK, Onward
<1>3. /\ t \in open
      /\ ReadAt(r.state, now) \subseteq ReadAt(mine[t], now)
  BY <1>1, <1>2 DEF Coupled, NoCall
<1>4. /\ call'[t].phase \in {"full", "short", "gone"} /\ call'[t].of = r.of
      /\ before = None => call'[t].phase = "gone"
      /\ call'[t].phase \in {"full", "short"} => call'[t].rev = after.rev
      /\ call'[t].phase = "short" => r.known = before.rev
      /\ call'[t].phase = "full" => call'[t].state = [after.state EXCEPT !.ordered = {}]
  <2> HIDE DEF r, before, after
  <2>1. CASE before = None
    BY <1>2, <2>1 DEF Answer
  <2>2. CASE before # None
    BY <1>2, <2>2 DEF Answer, Short
  <2> QED
    BY <2>1, <2>2
<1>5. Coupled(t)'
  BY <1>1, <1>2, <1>3, <1>4 DEF Coupled
<1>6. ASSUME NEW g \in Groups'
      PROVE  /\ token[t] = g /\ known[t] = groups'[g].rev =>
                   ReadAt(groups'[g].state, now') \subseteq ReadAt(mine[t], now')
             /\ RevisionOf(saved[b], g) = groups'[g].rev =>
                   ReadAt(groups'[g].state, now') \subseteq ReadAt(saved[b].state, now')
  <2>1. g \in Groups
    BY <1>2 DEF RowsAdvance
  <2>2. ASSUME token[t] = g, known[t] = groups'[g].rev
        PROVE  ReadAt(groups'[g].state, now') \subseteq ReadAt(mine[t], now')
    <3> DEFINE k == known[t]
               h == mine[t]
    <3>1. k \in Nat /\ k <= groups[g].rev /\ (k = groups[g].rev => Holds(g, h)) /\ k = groups'[g].rev
      BY <1>2, <1>3, <2>1, <2>2, GivenOut DEF Informed
    <3> HIDE DEF k, h
    <3>2. ReadInv /\ Onward /\ ReadAt(h, now') \subseteq ReadAt(h, now')
      BY <1>2
    <3>3. ReadAt(groups'[g].state, now') \subseteq ReadAt(h, now')
      BY <3>1, <3>2, HoldsLater
    <3> QED
      BY <3>3 DEF h
  <2>3. ASSUME RevisionOf(saved[b], g) = groups'[g].rev
        PROVE  ReadAt(groups'[g].state, now') \subseteq ReadAt(saved[b].state, now')
    <3> DEFINE k == RevisionOf(saved[b], g)
               h == saved[b].state
    <3>1. k \in Nat /\ k <= groups[g].rev /\ (k = groups[g].rev => Holds(g, h)) /\ k = groups'[g].rev
      BY <1>2, <2>1, <2>3, GivenOut DEF Informed
    <3> HIDE DEF k, h
    <3>2. ReadInv /\ Onward /\ ReadAt(h, now') \subseteq ReadAt(h, now')
      BY <1>2
    <3>3. ReadAt(groups'[g].state, now') \subseteq ReadAt(h, now')
      BY <3>1, <3>2, HoldsLater
    <3> QED
      BY <3>3 DEF h
  <2> QED
    BY <2>2, <2>3
<1>7. call'[t].phase = "full" => ReadAt(after.state, now) \subseteq ReadAt(call'[t].state, now)
  <2>1. ASSUME call'[t].phase = "full"
        PROVE  ReadAt(after.state, now) \subseteq ReadAt([after.state EXCEPT !.ordered = {}], now)
    <3>1. before # None
      BY <1>4, <2>1
    <3>2. after \in Merged(groups[r.of], r.state) /\ r.of \in Groups
      BY <1>1, <1>2, <3>1, MergeGroupFacts DEF Groups, Unexpired
    <3>3. RowOK(after)
      BY <1>2, <3>2, RowFacts, MergedFacts
    <3> DEFINE h == after.state
    <3>4. h \in Histories
      BY <3>3 DEF RowOK
    <3> HIDE DEF h
    <3>5. [h EXCEPT !.ordered = {}].reads = h.reads /\ [h EXCEPT !.ordered = {}].upto = h.upto
      BY <3>4 DEF Histories
    <3>6. ReadAt(h, now) \subseteq ReadAt([h EXCEPT !.ordered = {}], now)
      BY <3>5 DEF ReadAt, IsRead
    <3> QED
      BY <3>6 DEF h
  <2> QED
    BY <1>4, <2>1
<1>8. call'[t].phase = "short" => ReadAt(after.state, now) \subseteq ReadAt(mine[t], now)
  <2> SUFFICES ASSUME call'[t].phase = "short"
               PROVE  ReadAt(after.state, now) \subseteq ReadAt(mine[t], now)
    OBVIOUS
  <2>1. before # None /\ r.known = before.rev
    BY <1>4
  <2>2. /\ after \in Merged(groups[r.of], r.state) /\ r.of \in Groups /\ before = groups[r.of]
    BY <1>1, <1>2, <2>1, MergeGroupFacts DEF Groups, Unexpired
  <2>3. ReadAt(groups[r.of].state, now) \subseteq ReadAt(mine[t], now)
    BY <1>1, <1>2, <1>3, <2>1, <2>2 DEF Informed, Holds, NoCall
  <2>4. \A s \in Stories : Fresh(s, now) /\ IsRead(after.state, s, now) =>
           IsRead(groups[r.of].state, s, now) \/ IsRead(r.state, s, now)
    <3> DEFINE row == groups[r.of]
               payload == r.state
    <3>1. /\ RowOK(row) /\ payload \in Histories /\ after \in Merged(row, payload)
          /\ Sound(row.state) /\ Sound(payload) /\ Cardinality(Entries(row.state)) <= MaxReads
      BY <1>2, <2>2, RowFacts DEF ReadInv, RevInv, AllBacked, OK, Backed
    <3> HIDE DEF row, payload, after
    <3>2. \A s \in Stories : Fresh(s, now) /\ IsRead(after.state, s, now) =>
             IsRead(row.state, s, now) \/ IsRead(payload, s, now)
      BY <1>2, <3>1, MergedKeeps
    <3> QED
      BY <3>2 DEF row, payload
  <2> QED
    BY <1>3, <2>3, <2>4 DEF ReadAt
<1>9. Informed(t)'
  <2> HIDE DEF r
  <2> QED
    BY <1>1, <1>3, <1>4, <1>6, <1>7, <1>8 DEF Informed, Holds, RevisionOf
<1> QED
  BY <1>5, <1>9

LEMMA OthersUntouched ==
    ASSUME OnePage, ReadInv, NEW u \in Tabs, PageStep(u) \/ Send(u) \/ Close(u), NEW t \in Tabs, t # u
    PROVE  Untouched(t)
<1>1. TypeOK /\ BrowserOf[t] \in Browsers /\ BrowserOf[u] \in Browsers /\ BrowserOf[t] # BrowserOf[u]
  BY StateFacts DEF ReadInv, OnePage
<1>2. CASE Open(u)
  <2>1. \/ call' = call
        \/ \E r : call' = [call EXCEPT ![u] = r]
    BY <1>2 DEF Open, Load
  <2> QED
    BY <1>1, <1>2, <2>1 DEF Open, Load, Untouched, TypeOK
<1>3. ASSUME NEW s \in Stories, Mark(u, s) PROVE Untouched(t)
  BY <1>1, <1>3 DEF Mark, Untouched, TypeOK
<1>4. CASE Receive(u)
  <2>1. saved'[BrowserOf[t]] = saved[BrowserOf[t]]
    BY <1>1, <1>4 DEF Receive, TypeOK
  <2>2. mine'[t] = mine[t] /\ known'[t] = known[t] /\ call'[t] = call[t] /\ open' = open /\ token' = token
    BY <1>1, <1>4 DEF Receive, TypeOK
  <2> QED
    BY <2>1, <2>2 DEF Untouched
<1>5. CASE Abort(u) \/ Serve(u)
  BY <1>1, <1>5 DEF Abort, Serve, Untouched, TypeOK
<1>6. CASE Send(u)
  <2>1. \E r : call' = [call EXCEPT ![u] = r]
    BY <1>6 DEF Send
  <2> QED
    BY <1>1, <1>6, <2>1 DEF Send, Untouched, TypeOK
<1>7. CASE Close(u)
  BY <1>1, <1>7 DEF Close, Untouched, TypeOK
<1> QED
  BY <1>2, <1>3, <1>4, <1>5, <1>6, <1>7 DEF PageStep

LEMMA StepApplied == ASSUME OnePage, AppliedInv, [QuietNext]_vars PROVE AppliedInv'
<1>1. ReadInv /\ RevInv /\ ReadInv' /\ RevInv' /\ Onward
  BY StepBacked, StepRevisions, QuietOnward DEF AppliedInv, QuietNext
<1>2. CASE Around \/ UNCHANGED vars
  <2>1. \A t \in Tabs : Untouched(t)
    BY <1>2 DEF Around, Tick, ServeStray, CleanupSelect, CleanupUpdate, Rewrite, Untouched, tabVars, vars
  <2> QED
    BY <1>1, <2>1, UntouchedStays DEF AppliedInv
<1>3. ASSUME NEW u \in Tabs, PageStep(u) \/ Send(u) \/ Close(u), NEW t \in Tabs
      PROVE  (Coupled(t) /\ Informed(t))'
  <2>1. CASE t # u
    BY <1>1, <1>3, <2>1, OthersUntouched, UntouchedStays
  <2>2. CASE t = u
    <3>1. CASE Serve(t)
      BY <1>1, <3>1, ServeApplied
    <3>2. ASSUME NEW s \in Stories, Mark(t, s) PROVE (Coupled(t) /\ Informed(t))'
      BY <3>2, MarkApplied
    <3>3. CASE Open(t)
      BY <3>3, LoadApplied, StateFacts DEF Open, AppliedInv, ReadInv
    <3>4. CASE Receive(t)
      BY <3>4, ReceiveApplied
    <3>5. CASE Send(t) \/ Abort(t) \/ Close(t)
      BY <3>5, LeaveApplied
    <3> QED
      BY <1>3, <2>2, <3>1, <3>2, <3>3, <3>4, <3>5 DEF PageStep
  <2> QED
    BY <2>1, <2>2
<1>4. (\A t \in Tabs : Coupled(t) /\ Informed(t))'
  <2>1. CASE Around \/ UNCHANGED vars
    BY <1>2, <2>1 DEF AppliedInv
  <2>2. ASSUME NEW u \in Tabs, PageStep(u) \/ Send(u) \/ Close(u)
        PROVE  (\A t \in Tabs : Coupled(t) /\ Informed(t))'
    BY <1>3, <2>2
  <2> QED
    BY <2>1, <2>2 DEF QuietNext, Next
<1> QED
  BY <1>1, <1>4 DEF AppliedInv

LEMMA InitApplied == ASSUME Init PROVE AppliedInv
<1>1. ReadInv /\ RevInv /\ open = {} /\ call = [t \in Tabs |-> NoCall]
  BY InitBacked, InitRevisions DEF Init, InitTabs
<1>2. \A b \in Browsers : saved[b].mark = NoMark
  BY DEF Init
<1>3. \A g \in Groups : g # None /\ groups[g].rev # 0
  BY <1>1, RowFacts DEF ReadInv
<1>4. ASSUME NEW t \in Tabs PROVE Coupled(t) /\ Informed(t)
  <2>1. BrowserOf[t] \in Browsers /\ NoCall.phase = "none" /\ NoMark.of = None
    BY DEF Browsers, NoCall, NoMark
  <2> QED
    BY <1>1, <1>2, <1>3, <2>1 DEF Coupled, Informed, RevisionOf
<1> QED
  BY <1>1, <1>4 DEF AppliedInv

LEMMA AppliedMeans == ASSUME AppliedInv PROVE RevisionMeansApplied
<1> SUFFICES ASSUME NEW g \in Groups
             PROVE  LET held == ReadIn(groups[g].state)
                    IN  /\ \A t \in open : token[t] = g /\ known[t] = groups[g].rev => held \subseteq ReadIn(mine[t])
                        /\ \A b \in Browsers : RevisionOf(saved[b], g) = groups[g].rev =>
                              held \subseteq ReadIn(saved[b].state)
  BY DEF RevisionMeansApplied
<1>1. ASSUME NEW t \in open, token[t] = g, known[t] = groups[g].rev
      PROVE  ReadIn(groups[g].state) \subseteq ReadIn(mine[t])
  <2>1. Informed(t)
    BY DEF AppliedInv, ReadInv, TypeOK
  <2> QED
    BY <1>1, <2>1 DEF Informed, Holds, ReadIn, ReadAt
<1>2. ASSUME NEW b \in Browsers, RevisionOf(saved[b], g) = groups[g].rev
      PROVE  ReadIn(groups[g].state) \subseteq ReadIn(saved[b].state)
  <2>1. PICK t \in Tabs : b = BrowserOf[t]
    BY DEF Browsers
  <2>2. Informed(t)
    BY DEF AppliedInv
  <2> QED
    BY <1>2, <2>1, <2>2 DEF Informed, Holds, ReadIn, ReadAt
<1> QED
  BY <1>1, <1>2

\* The short answer, which carries no state, hides nothing: a page or a browser
\* with the current revision of its group holds every read of the row, through
\* late and lost answers, reopened pages, expiry and the cleanup, provided that
\* the pages of one browser do not share its localStorage (known_revision of
\* currentReadPayload, loadSyncRevision, the early return of mergeGroup).
THEOREM ShortAnswerHidesNothing ==
    ASSUME OnePage
    PROVE  QuietSpec => []RevisionMeansApplied
<1>1. Init => AppliedInv
  BY InitApplied
<1>2. AppliedInv /\ [QuietNext]_vars => AppliedInv'
  BY StepApplied
<1>3. AppliedInv => RevisionMeansApplied
  BY AppliedMeans
<1> QED
  BY <1>1, <1>2, <1>3, PTL DEF QuietSpec

USE SyncSessionAssumption

--------------------------------------------------------------------------------
(***************************************************************************)
(* Sessions.  Tokens travel by links: a group that nobody has a link of is *)
(* unknown to every page, request and browser, so that a token may be      *)
(* issued again.  A page that has asked for a group is open, and the state *)
(* of the answer holds every read of the row as long as that is new.       *)
(***************************************************************************)
Issued ==
    /\ \A t \in Tabs : /\ token[t] \in links \cup {None}
                       /\ call[t] # NoCall => call[t].of \in links
    /\ \A b \in Browsers : {saved[b].token, saved[b].mark.of} \subseteq links \cup {None}

Asking(t) ==
    /\ t \in joining \/ asking[t] # NoAsk => t \in open
    /\ asking[t].phase \in {"create", "created"} => OK(asking[t].state)
    /\ asking[t].phase = "created" /\ asking[t].of \in Groups /\ groups[asking[t].of].rev = 1 =>
          Holds(asking[t].of, asking[t].state)

SessionInv == ReadInv /\ RevInv /\ SessionTypeOK /\ Issued /\ \A t \in Tabs : Asking(t)

LEMMA AskFacts ==
    ASSUME NEW a \in Asks
    PROVE  /\ a.phase \in {"none", "create", "created", "delete", "deleted", "refused"}
           /\ a = NoAsk <=> a.phase = "none"
           /\ a.phase \in {"create", "created"} => a.state \in Histories
           /\ a.phase \in {"created", "delete"} => a.of \in Tokens
BY DEF Asks, NoAsk

\* What a dialog has asked for stays so when rows change and time passes.
LEMMA AskingStays ==
    ASSUME SessionInv, Onward, marked \subseteq marked', withheld \subseteq withheld', NEW t \in Tabs,
           asking'[t] = asking[t] \/ asking'[t].phase \notin {"create", "created"},
           t \in joining' \/ asking'[t] # NoAsk => t \in open'
    PROVE  Asking(t)'
<1>1. ReadInv /\ asking[t] \in Asks /\ Asking(t) /\ now' \in Nat /\ now <= now'
  BY DEF SessionInv, SessionTypeOK, Onward
<1>2. CASE asking'[t].phase \notin {"create", "created"}
  BY <1>2 DEF Asking
<1>3. CASE asking'[t] = asking[t] /\ asking[t].phase \in {"create", "created"}
  <2> DEFINE h == asking[t].state
             g == asking[t].of
  <2>1. h \in Histories /\ OK(h)
    BY <1>1, <1>3, AskFacts DEF Asking
  <2>2. Backed(h, now', marked', withheld')
    BY <1>1, <2>1, StaysBacked
  <2>3. ASSUME asking[t].phase = "created", g \in Groups', groups'[g].rev = 1
        PROVE  ReadAt(groups'[g].state, now') \subseteq ReadAt(h, now')
    <3>1. g \in Groups /\ groups[g].rev \in Nat \ {0}
      BY <1>1, <2>3, RowFacts DEF Onward, RowsAdvance, ReadInv
    <3>2. groups[g].rev = 1 => Holds(g, h)
      BY <1>1, <2>3, <3>1 DEF Asking
    <3> HIDE DEF h, g
    <3> DEFINE k == 1
    <3>3. k \in Nat /\ k <= groups[g].rev /\ (k = groups[g].rev => Holds(g, h)) /\ groups'[g].rev = k
      BY <2>3, <3>1, <3>2
    <3> HIDE DEF k
    <3>4. ReadAt(h, now') \subseteq ReadAt(h, now')
      OBVIOUS
    <3> QED
      BY <1>1, <2>3, <3>3, <3>4, HoldsLater
  <2> QED
    BY <1>3, <2>2, <2>3 DEF Asking, OK, Holds
<1> QED
  BY <1>2, <1>3

--------------------------------------------------------------------------------
(* A page or a browser takes a token, or gives it up.                        *)

Histored == [state : Histories, token : Tokens \cup {None}, mark : [of : Tokens \cup {None}, rev : Nat]]

\* With the token it takes the revision that was saved for it, if any.
Retoken ==
    /\ UNCHANGED <<now, groups, open, page, mine, call, stray, cleaner, history, created, links>>
    /\ dirty' \subseteq Tabs /\ joining' \subseteq Tabs /\ told' \subseteq Tabs
    /\ token' \in [Tabs -> Tokens \cup {None}] /\ known' \in [Tabs -> Nat]
    /\ saved' \in [Browsers -> Histored]
    /\ \A t \in Tabs :
          /\ token'[t] \in links \cup {None}
          /\ \/ token'[t] = token[t] /\ known'[t] = known[t]
             \/ known'[t] \in {0, RevisionOf(saved[BrowserOf[t]], token'[t])}
          /\ t \in joining' => t \in joining \/ t \in open
    /\ \A b \in Browsers :
          /\ saved'[b].state = saved[b].state /\ saved'[b].token \in links \cup {None}
          /\ saved'[b].mark \in {saved[b].mark, NoMark, Marked(saved'[b].token, RevisionOf(saved[b], saved'[b].token))}
    /\ asking' \in [Tabs -> Asks] /\ \A t \in Tabs : asking'[t] \in {asking[t], NoAsk}

LEMMA SavedFacts ==
    ASSUME NEW store \in Histored, NEW g \in Tokens \cup {None}
    PROVE  /\ RevisionOf(store, g) \in Nat
           /\ Marked(g, RevisionOf(store, g)) \in [of : Tokens \cup {None}, rev : Nat]
           /\ NoMark \in [of : Tokens \cup {None}, rev : Nat]
           /\ NoMark.of = None /\ NoMark.rev = 0 /\ Marked(g, RevisionOf(store, g)).of \in {g, None}
           /\ RevisionOf(store, g) = 0 \/ (g # None /\ store.mark.of = g /\ store.mark.rev = RevisionOf(store, g))
           /\ \A mark \in {store.mark, NoMark, Marked(g, RevisionOf(store, g))} :
                /\ mark.of = None \/ (mark.of = store.mark.of /\ mark.rev = store.mark.rev)
                /\ \A f : f # None /\ mark.of = f => mark.rev = RevisionOf(store, f)
BY DEF Histored, RevisionOf, Marked, NoMark

LEMMA SessionFacts ==
    ASSUME SessionInv
    PROVE  /\ TypeOK /\ asking \in [Tabs -> Asks] /\ saved \in [Browsers -> Histored]
           /\ token \in [Tabs -> Tokens \cup {None}] /\ known \in [Tabs -> Nat] /\ mine \in [Tabs -> Histories]
           /\ call \in [Tabs -> Calls] /\ NoAsk \in Asks /\ NoAsk.phase = "none" /\ links \subseteq Tokens /\ None \notin links
           /\ \A t \in Tabs : BrowserOf[t] \in Browsers /\ (asking[t] # NoAsk => t \in open)
           /\ open \subseteq Tabs /\ dirty \subseteq Tabs /\ joining \subseteq Tabs /\ told \subseteq Tabs
BY DEF SessionInv, SessionTypeOK, TypeOK, Histored, Asks, NoAsk, Browsers, Asking

LEMMA TokenFacts ==
    ASSUME SessionInv, NEW b \in Browsers, NEW g \in links \cup {None}, NEW mk \in [of : Tokens \cup {None}, rev : Nat],
           saved' = [saved EXCEPT ![b].token = g, ![b].mark = mk]
    PROVE  /\ saved' \in [Browsers -> Histored]
           /\ saved'[b].state = saved[b].state /\ saved'[b].token = g /\ saved'[b].mark = mk
           /\ \A c \in Browsers \ {b} : saved'[c] = saved[c]
<1>1. saved \in [Browsers -> Histored] /\ g \in Tokens \cup {None}
  BY SessionFacts
<1> QED
  BY <1>1 DEF Histored

LEMMA Kept ==
    ASSUME SessionInv
    PROVE  /\ \A t \in Tabs : token[t] \in links \cup {None}
           /\ \A b \in Browsers : saved[b].token \in links \cup {None}
BY DEF SessionInv, Issued

LEMMA FollowRetoken == ASSUME SessionInv, NEW t \in Tabs, FollowLink(t) PROVE Retoken
<1> DEFINE b == BrowserOf[t]
<1>1. PICK g \in links : SetToken(t, g)
  BY DEF FollowLink
<1> DEFINE rev == RevisionOf(saved[b], g)
           mk == IF g = token[t] THEN saved[b].mark ELSE Marked(g, rev)
           k == IF g = token[t] THEN known[t] ELSE rev
<1>2. /\ saved \in [Browsers -> Histored] /\ token \in [Tabs -> Tokens \cup {None}] /\ known \in [Tabs -> Nat]
      /\ b \in Browsers /\ links \subseteq Tokens /\ g \in Tokens /\ asking \in [Tabs -> Asks]
      /\ dirty \subseteq Tabs /\ joining \subseteq Tabs /\ told \subseteq Tabs /\ open \subseteq Tabs
      /\ saved[b] \in Histored
  BY SessionFacts
<1>3. /\ token' = [token EXCEPT ![t] = g]
      /\ known' = [known EXCEPT ![t] = k]
      /\ saved' = [saved EXCEPT ![b].token = g, ![b].mark = mk]
  BY <1>1, <1>2 DEF SetToken, Histored
<1>4. rev \in Nat /\ k \in Nat /\ mk \in [of : Tokens \cup {None}, rev : Nat]
  BY <1>2, SavedFacts DEF Histored
<1>5. mk \in {saved[b].mark, Marked(g, RevisionOf(saved[b], g))} /\ k \in {known[t], RevisionOf(saved[b], g)}
      /\ (k = RevisionOf(saved[b], g) \/ (g = token[t] /\ k = known[t]))
  OBVIOUS
<1> HIDE DEF mk, k
<1>6. /\ saved' \in [Browsers -> Histored]
      /\ saved'[b].state = saved[b].state /\ saved'[b].token = g /\ saved'[b].mark = mk
      /\ \A c \in Browsers \ {b} : saved'[c] = saved[c]
  BY <1>2, <1>3, <1>4, TokenFacts
<1>7. /\ UNCHANGED <<now, groups, open, page, mine, dirty, call, stray, cleaner, history, asking, created, links>>
      /\ t \in open /\ joining' = joining \cup {t} /\ told' = told \ {t}
  BY DEF FollowLink
<1>8. /\ token' \in [Tabs -> Tokens \cup {None}] /\ known' \in [Tabs -> Nat]
      /\ token'[t] = g /\ known'[t] = k /\ \A u \in Tabs \ {t} : token'[u] = token[u] /\ known'[u] = known[u]
  BY <1>2, <1>3, <1>4
<1>9. \A u \in Tabs :
        /\ token'[u] \in links \cup {None}
        /\ \/ token'[u] = token[u] /\ known'[u] = known[u]
           \/ known'[u] \in {0, RevisionOf(saved[BrowserOf[u]], token'[u])}
        /\ u \in joining' => u \in joining \/ u \in open
  BY <1>5, <1>7, <1>8, Kept
<1>10. \A c \in Browsers :
          /\ saved'[c].state = saved[c].state /\ saved'[c].token \in links \cup {None}
          /\ saved'[c].mark \in {saved[c].mark, NoMark, Marked(saved'[c].token, RevisionOf(saved[c], saved'[c].token))}
  BY <1>5, <1>6, Kept
<1> QED
  BY <1>2, <1>6, <1>7, <1>8, <1>9, <1>10 DEF Retoken, history

LEMMA ForgetRetoken ==
    ASSUME SessionInv, NEW t \in Tabs, Disconnect(t) \/ Deleted(t)
    PROVE  Retoken
<1> DEFINE b == BrowserOf[t]
<1>1. /\ token' = [token EXCEPT ![t] = None] /\ known' = [known EXCEPT ![t] = 0]
      /\ saved' = [saved EXCEPT ![b].token = None, ![b].mark = NoMark]
      /\ dirty' = dirty \ {t}
      /\ UNCHANGED <<now, groups, open, page, mine, call, stray, cleaner, history, joining, created, links, told>>
      /\ asking' = asking \/ asking' = [asking EXCEPT ![t] = NoAsk]
  BY DEF Disconnect, Deleted, Forget
<1>2. /\ token \in [Tabs -> Tokens \cup {None}] /\ known \in [Tabs -> Nat] /\ asking \in [Tabs -> Asks] /\ NoAsk \in Asks
      /\ b \in Browsers /\ NoMark \in [of : Tokens \cup {None}, rev : Nat]
      /\ dirty \subseteq Tabs /\ joining \subseteq Tabs /\ told \subseteq Tabs /\ None \in links \cup {None}
  BY SessionFacts DEF NoMark
<1>3. /\ saved' \in [Browsers -> Histored]
      /\ saved'[b].state = saved[b].state /\ saved'[b].token = None /\ saved'[b].mark = NoMark
      /\ \A c \in Browsers \ {b} : saved'[c] = saved[c]
  BY <1>1, <1>2, TokenFacts
<1>4. /\ token' \in [Tabs -> Tokens \cup {None}] /\ known' \in [Tabs -> Nat] /\ asking' \in [Tabs -> Asks]
      /\ \A u \in Tabs : asking'[u] \in {asking[u], NoAsk}
      /\ token'[t] = None /\ known'[t] = 0 /\ \A u \in Tabs \ {t} : token'[u] = token[u] /\ known'[u] = known[u]
  BY <1>1, <1>2
<1>5. \A u \in Tabs :
        /\ token'[u] \in links \cup {None}
        /\ \/ token'[u] = token[u] /\ known'[u] = known[u]
           \/ known'[u] \in {0, RevisionOf(saved[BrowserOf[u]], token'[u])}
        /\ u \in joining' => u \in joining \/ u \in open
  BY <1>1, <1>4, Kept
<1>6. \A c \in Browsers :
          /\ saved'[c].state = saved[c].state /\ saved'[c].token \in links \cup {None}
          /\ saved'[c].mark \in {saved[c].mark, NoMark, Marked(saved'[c].token, RevisionOf(saved[c], saved'[c].token))}
  BY <1>3, Kept
<1> QED
  BY <1>1, <1>2, <1>3, <1>4, <1>5, <1>6 DEF Retoken, history

LEMMA NoticeRetoken == ASSUME SessionInv, NEW t \in Tabs, Notice(t) PROVE Retoken
<1> DEFINE store == saved[BrowserOf[t]]
           rev == RevisionOf(store, store.token)
<1>1. /\ token' = [token EXCEPT ![t] = store.token] /\ known' = [known EXCEPT ![t] = rev]
      /\ told' = told \cup {t}
      /\ UNCHANGED <<now, groups, saved, open, page, mine, dirty, call, stray, cleaner, history,
                     asking, joining, created, links>>
  BY DEF Notice
<1>2. /\ token \in [Tabs -> Tokens \cup {None}] /\ known \in [Tabs -> Nat] /\ asking \in [Tabs -> Asks]
      /\ BrowserOf[t] \in Browsers /\ saved \in [Browsers -> Histored] /\ store \in Histored
      /\ dirty \subseteq Tabs /\ joining \subseteq Tabs /\ told \subseteq Tabs
  BY SessionFacts
<1>3. store.token \in Tokens \cup {None} /\ store.token \in links \cup {None}
  BY <1>2, Kept DEF Histored
<1>4. rev \in Nat
  BY <1>2, <1>3, SavedFacts
<1> HIDE DEF store, rev
<1>5. /\ token' \in [Tabs -> Tokens \cup {None}] /\ known' \in [Tabs -> Nat]
      /\ token'[t] = store.token /\ known'[t] = rev
      /\ \A u \in Tabs \ {t} : token'[u] = token[u] /\ known'[u] = known[u]
  BY <1>1, <1>2, <1>3, <1>4
<1>6. \A u \in Tabs :
        /\ token'[u] \in links \cup {None}
        /\ \/ token'[u] = token[u] /\ known'[u] = known[u]
           \/ known'[u] \in {0, RevisionOf(saved[BrowserOf[u]], token'[u])}
        /\ u \in joining' => u \in joining \/ u \in open
  BY <1>1, <1>3, <1>5, Kept DEF store, rev
<1>7. \A c \in Browsers :
          /\ saved'[c].state = saved[c].state /\ saved'[c].token \in links \cup {None}
          /\ saved'[c].mark \in {saved[c].mark, NoMark, Marked(saved'[c].token, RevisionOf(saved[c], saved'[c].token))}
  BY <1>1, Kept
<1> QED
  BY <1>1, <1>2, <1>5, <1>6, <1>7 DEF Retoken, history

LEMMA ElsewhereRetoken == ASSUME SessionInv, NEW b \in Browsers, Elsewhere(b) PROVE Retoken
<1>1. PICK g \in links \cup {None} :
        saved' = [saved EXCEPT ![b].token = g, ![b].mark = Marked(g, RevisionOf(saved[b], g))]
  BY DEF Elsewhere
<1> DEFINE mk == Marked(g, RevisionOf(saved[b], g))
<1>2. /\ UNCHANGED <<now, groups, tabVars, stray, cleaner, history, asking, joining, created, links, told>>
  BY DEF Elsewhere
<1>3. /\ token \in [Tabs -> Tokens \cup {None}] /\ known \in [Tabs -> Nat] /\ asking \in [Tabs -> Asks]
      /\ saved[b] \in Histored /\ g \in Tokens \cup {None}
      /\ dirty \subseteq Tabs /\ joining \subseteq Tabs /\ told \subseteq Tabs
  BY SessionFacts
<1>4. mk \in [of : Tokens \cup {None}, rev : Nat]
  BY <1>3, SavedFacts
<1>5. saved' = [saved EXCEPT ![b].token = g, ![b].mark = mk]
  BY <1>1
<1> HIDE DEF mk
<1>6. /\ saved' \in [Browsers -> Histored]
      /\ saved'[b].state = saved[b].state /\ saved'[b].token = g /\ saved'[b].mark = mk
      /\ \A c \in Browsers \ {b} : saved'[c] = saved[c]
  BY <1>4, <1>5, TokenFacts
<1>7. \A c \in Browsers :
          /\ saved'[c].state = saved[c].state /\ saved'[c].token \in links \cup {None}
          /\ saved'[c].mark \in {saved[c].mark, NoMark, Marked(saved'[c].token, RevisionOf(saved[c], saved'[c].token))}
  BY <1>6, Kept DEF mk
<1> QED
  BY <1>2, <1>3, <1>6, <1>7, Kept DEF Retoken, history, tabVars

LEMMA RetokenBacked == ASSUME SessionInv, Retoken PROVE ReadInv'
<1>1. ReadInv /\ TypeOK
  BY SessionFacts DEF SessionInv
<1>2. /\ UNCHANGED <<now, groups, open, page, mine, call, stray, cleaner, history>>
      /\ dirty' \subseteq Tabs /\ token' \in [Tabs -> Tokens \cup {None}] /\ known' \in [Tabs -> Nat]
      /\ saved' \in [Browsers -> Histored] /\ \A b \in Browsers : saved'[b].state = saved[b].state
  BY DEF Retoken, history
<1>3. TypeOK'
  BY <1>1, <1>2 DEF TypeOK, Groups, Histored, history
<1>4. AllBacked' /\ Built'
  BY <1>1, <1>2 DEF ReadInv, AllBacked, OK, Built, Groups, history
<1> QED
  BY <1>3, <1>4 DEF ReadInv

LEMMA RetokenRevisions == ASSUME SessionInv, Retoken PROVE RevInv'
<1>1. ReadInv /\ RevInv /\ ReadInv' /\ UNCHANGED <<now, groups, call, cleaner>>
  BY RetokenBacked DEF SessionInv, Retoken
<1>2. ASSUME NEW t \in Tabs PROVE Heard(token'[t], known'[t])
  <2>1. /\ saved[BrowserOf[t]] \in Histored /\ token'[t] \in Tokens \cup {None} /\ BrowserOf[t] \in Browsers
        /\ \/ token'[t] = token[t] /\ known'[t] = known[t]
           \/ known'[t] \in {0, RevisionOf(saved[BrowserOf[t]], token'[t])}
    BY SessionFacts DEF Retoken
  <2>2. RevisionOf(saved[BrowserOf[t]], token'[t]) = 0 \/
           (saved[BrowserOf[t]].mark.of = token'[t] /\ saved[BrowserOf[t]].mark.rev = RevisionOf(saved[BrowserOf[t]], token'[t]))
    BY <2>1, SavedFacts
  <2> QED
    BY <2>1, <2>2 DEF Heard
<1>3. ASSUME NEW b \in Browsers PROVE Heard(saved'[b].mark.of, saved'[b].mark.rev)
  <2>1. /\ saved[b] \in Histored /\ saved'[b].token \in Tokens \cup {None}
        /\ saved'[b].mark \in {saved[b].mark, NoMark, Marked(saved'[b].token, RevisionOf(saved[b], saved'[b].token))}
    BY SessionFacts DEF Retoken
  <2>2. saved'[b].mark.of = None \/ (saved'[b].mark.of = saved[b].mark.of /\ saved'[b].mark.rev = saved[b].mark.rev)
    BY <2>1, SavedFacts
  <2> QED
    BY <2>2 DEF Heard
<1>4. \A t \in Tabs : /\ call'[t].phase = "sent" => Heard(call'[t].of, call'[t].known)
                      /\ call'[t].phase \in {"full", "short"} => Heard(call'[t].of, call'[t].rev)
  BY <1>1 DEF Heard
<1>5. RowsAdvance /\ SelectedRow'
  BY <1>1, SameRows DEF RevInv, SelectedRow, Groups
<1> QED
  BY <1>1, <1>2, <1>3, <1>4, <1>5, RevisionsStay DEF Learned

\* What is in the dialogs and links after a step that leaves the rows alone.
LEMMA SameRowsAsking ==
    ASSUME SessionInv, UNCHANGED <<now, groups>>, marked \subseteq marked', withheld \subseteq withheld',
           \A t \in Tabs : asking'[t] = asking[t] \/ asking'[t].phase \notin {"create", "created"},
           \A t \in Tabs : t \in joining' \/ asking'[t] # NoAsk => t \in open'
    PROVE  \A t \in Tabs : Asking(t)'
<1>1. Onward
  BY SameRows, StateFacts DEF Onward, SessionInv, ReadInv
<1> QED
  BY <1>1, AskingStays

LEMMA RetokenSession == ASSUME SessionInv, Retoken PROVE SessionInv'
<1>1. ReadInv' /\ RevInv'
  BY RetokenBacked, RetokenRevisions
<1>2. SessionTypeOK'
  BY <1>1 DEF ReadInv, Retoken, SessionInv, SessionTypeOK
<1>3. Issued'
  <2>1. ASSUME NEW b \in Browsers PROVE saved'[b].mark.of \in links \cup {None}
    <3>1. /\ saved[b] \in Histored /\ saved'[b].token \in Tokens \cup {None} /\ saved[b].mark.of \in links \cup {None}
          /\ saved'[b].mark \in {saved[b].mark, NoMark, Marked(saved'[b].token, RevisionOf(saved[b], saved'[b].token))}
      BY SessionFacts DEF Retoken, SessionInv, Issued
    <3>2. saved'[b].mark.of = None \/ saved'[b].mark.of = saved[b].mark.of
      BY <3>1, SavedFacts
    <3> QED
      BY <3>1, <3>2
  <2> QED
    BY <2>1 DEF Retoken, SessionInv, Issued
<1>4. \A t \in Tabs : Asking(t)'
  <2>1. /\ UNCHANGED <<now, groups>> /\ marked \subseteq marked' /\ withheld \subseteq withheld'
        /\ \A t \in Tabs : asking'[t] \in {asking[t], NoAsk}
        /\ \A t \in Tabs : t \in joining' \/ asking'[t] # NoAsk => t \in open'
    BY DEF Retoken, history, SessionInv, Asking
  <2> QED
    BY <2>1, SessionFacts, SameRowsAsking
<1> QED
  BY <1>1, <1>2, <1>3, <1>4 DEF SessionInv

LEMMA RetokenApplied ==
    ASSUME SessionInv, AppliedInv, Retoken, NEW t \in Tabs
    PROVE  (Coupled(t) /\ Informed(t))'
<1> DEFINE b == BrowserOf[t]
<1>1. /\ UNCHANGED <<now, groups, open, mine, call>> /\ saved'[b].state = saved[b].state
      /\ \/ token'[t] = token[t] /\ known'[t] = known[t]
         \/ known'[t] \in {0, RevisionOf(saved[b], token'[t])}
      /\ saved'[b].mark \in {saved[b].mark, NoMark, Marked(saved'[b].token, RevisionOf(saved[b], saved'[b].token))}
      /\ saved[b] \in Histored /\ saved'[b].token \in Tokens \cup {None}
  BY SessionFacts DEF Retoken
<1>2. Coupled(t) /\ Informed(t) /\ TypeOK /\ ReadInv
  BY SessionFacts DEF AppliedInv
<1>3. Coupled(t)'
  BY <1>1, <1>2 DEF Coupled
<1>4. ASSUME NEW f \in Groups
      PROVE  /\ t \in open /\ token'[t] = f /\ known'[t] = groups[f].rev => Holds(f, mine[t])
             /\ RevisionOf(saved'[b], f) = groups[f].rev => Holds(f, saved[b].state)
  <2>1. f # None /\ groups[f].rev # 0
    BY <1>2, RowFacts
  <2>2. RevisionOf(saved'[b], f) \in {0, RevisionOf(saved[b], f)}
    <3>1. saved'[b].mark.of = f => saved'[b].mark.rev = RevisionOf(saved[b], f)
      BY <1>1, <2>1, SavedFacts
    <3> QED
      BY <2>1, <3>1 DEF RevisionOf
  <2>3. /\ t \in open /\ token[t] = f /\ known[t] = groups[f].rev => Holds(f, mine[t])
        /\ RevisionOf(saved[b], f) = groups[f].rev => Holds(f, saved[b].state)
        /\ t \in open => saved[b].state = mine[t]
    BY <1>2 DEF Informed, Coupled
  <2> QED
    BY <1>1, <2>1, <2>2, <2>3
<1>5. Informed(t)'
  BY <1>1, <1>2, <1>4 DEF Informed, Holds, Groups
<1> QED
  BY <1>3, <1>5

--------------------------------------------------------------------------------
(* Requests that start or end because of the session.                        *)

CallStep(t, c) ==
    /\ UNCHANGED <<now, groups, saved, open, page, mine, token, known, stray, cleaner, history, asking, created, links>>
    /\ dirty' \subseteq Tabs /\ joining' \subseteq joining /\ told' \subseteq told
    /\ call' = [call EXCEPT ![t] = c]
    /\ c = NoCall \/ /\ c.phase = "sent" /\ c.of = token[t] /\ c.known = known[t] /\ t \in open
                     /\ OK(c.state) /\ ReadAt(c.state, now) \subseteq ReadAt(mine[t], now)

LEMMA JoinCalls ==
    ASSUME SessionInv, NEW t \in Tabs, Join(t), token[t] # None
    PROVE  \E c \in Calls : CallStep(t, c)
<1>1. PICK p \in Payloads(mine[t], page[t], now) :
        call' = [call EXCEPT ![t] = [phase |-> "sent", of |-> token[t], state |-> p, known |-> known[t], why |-> "import"]]
  BY DEF Join, Request
<1> DEFINE c == [phase |-> "sent", of |-> token[t], state |-> p, known |-> known[t], why |-> "import"]
<1>2. /\ now \in Nat /\ mine[t] \in Histories /\ OK(mine[t]) /\ token[t] \in Tokens /\ known[t] \in Nat
      /\ dirty \subseteq Tabs /\ t \in open
  BY StateFacts, SessionFacts DEF SessionInv, ReadInv, AllBacked, Join, Asking
<1>3. p \in Histories /\ OK(p) /\ ReadAt(p, now) \subseteq ReadAt(mine[t], now)
  <2>1. p \in Histories /\ OK(p)
    BY <1>2, SentBacked DEF OK
  <2>2. Sound(mine[t])
    BY <1>2 DEF OK, Backed
  <2> QED
    BY <1>2, <2>1, <2>2, NothingLost
<1>4. c \in Calls
  BY <1>2, <1>3 DEF Calls, Reasons
<1>5. CallStep(t, c)
  BY <1>1, <1>2, <1>3 DEF CallStep, Join
<1> QED
  BY <1>4, <1>5

LEMMA NoGroupCalls == ASSUME SessionInv, NEW t \in Tabs, NoGroup(t) PROVE NoCall \in Calls /\ CallStep(t, NoCall)
BY SessionFacts DEF NoGroup, CallStep, session, Calls

LEMMA CallSession == ASSUME SessionInv, NEW t \in Tabs, NEW c \in Calls, CallStep(t, c) PROVE SessionInv'
<1>1. /\ ReadInv /\ RevInv /\ TypeOK /\ call \in [Tabs -> Calls] /\ NoCall.phase = "none"
      /\ c.phase = "sent" => c.of = token[t] /\ c.known = known[t] /\ OK(c.state)
      /\ c.phase \in {"none", "sent"}
  BY SessionFacts DEF SessionInv, CallStep, NoCall
<1>2. /\ UNCHANGED <<now, groups, saved, open, page, mine, token, known, stray, cleaner, history>>
      /\ dirty' \subseteq Tabs
      /\ call' \in [Tabs -> Calls] /\ call'[t] = c /\ \A u \in Tabs \ {t} : call'[u] = call[u]
  BY <1>1 DEF CallStep, history
<1>3. ReadInv'
  <2>1. TypeOK'
    BY <1>1, <1>2 DEF TypeOK, Groups, history
  <2>2. \A u \in Tabs : call'[u].phase \in {"sent", "full"} => OK(call'[u].state)
    BY <1>1, <1>2 DEF ReadInv, AllBacked
  <2>3. AllBacked' /\ Built'
    BY <1>1, <1>2, <2>2 DEF ReadInv, AllBacked, OK, Built, Groups, history
  <2> QED
    BY <2>1, <2>3 DEF ReadInv
<1>4. RevInv'
  <2>1. \A u \in Tabs : Heard(token'[u], known'[u])
    BY <1>2 DEF Heard
  <2>2. \A b \in Browsers : Heard(saved'[b].mark.of, saved'[b].mark.rev)
    BY <1>2 DEF Heard
  <2>3. \A u \in Tabs : /\ call'[u].phase = "sent" => Heard(call'[u].of, call'[u].known)
                        /\ call'[u].phase \in {"full", "short"} => Heard(call'[u].of, call'[u].rev)
    BY <1>1, <1>2 DEF Heard
  <2>4. RowsAdvance /\ SelectedRow'
    BY <1>1, <1>2, SameRows DEF RevInv, SelectedRow, Groups
  <2> QED
    BY <1>1, <1>3, <2>1, <2>2, <2>3, <2>4, RevisionsStay DEF Learned
<1>5. SessionTypeOK'
  BY <1>3 DEF ReadInv, CallStep, SessionInv, SessionTypeOK
<1>6. Issued'
  <2>1. c # NoCall => c.of \in links
    <3>1. c # NoCall => c.of = token[t] /\ c.of \in Tokens
      BY <1>1, CallFacts
    <3> QED
      BY <3>1, Kept
  <2>2. \A u \in Tabs : call'[u] # NoCall => call'[u].of \in links
    BY <1>2, <2>1 DEF SessionInv, Issued
  <2> QED
    BY <1>2, <2>2 DEF SessionInv, Issued, CallStep
<1>7. \A u \in Tabs : Asking(u)'
  <2>1. /\ UNCHANGED <<now, groups>> /\ marked \subseteq marked' /\ withheld \subseteq withheld'
        /\ \A u \in Tabs : asking'[u] = asking[u]
        /\ \A u \in Tabs : u \in joining' \/ asking'[u] # NoAsk => u \in open'
    BY DEF CallStep, history, SessionInv, Asking
  <2> QED
    BY <2>1, SameRowsAsking
<1> QED
  BY <1>3, <1>4, <1>5, <1>6, <1>7 DEF SessionInv

LEMMA CallApplied ==
    ASSUME SessionInv, AppliedInv, NEW t \in Tabs, NEW c \in Calls, CallStep(t, c), NEW u \in Tabs
    PROVE  (Coupled(u) /\ Informed(u))'
<1>1. Coupled(u) /\ Informed(u) /\ call \in [Tabs -> Calls]
  BY SessionFacts DEF AppliedInv
<1>2. /\ UNCHANGED <<now, groups, saved, open, mine, token, known>>
      /\ call'[u] = IF u = t THEN c ELSE call[u]
  BY <1>1 DEF CallStep
<1>3. CASE u # t
  BY <1>1, <1>2, <1>3 DEF Coupled, Informed, Holds, Groups, RevisionOf
<1>4. CASE u = t /\ c = NoCall
  BY <1>1, <1>2, <1>4 DEF Coupled, Informed, Holds, Groups, RevisionOf, NoCall
<1>5. CASE u = t /\ c # NoCall
  <2>1. /\ call'[u].phase = "sent" /\ call'[u].of = token[u] /\ call'[u].known = known[u] /\ u \in open
        /\ ReadAt(call'[u].state, now) \subseteq ReadAt(mine[u], now)
    BY <1>2, <1>5 DEF CallStep
  <2> QED
    BY <1>1, <1>2, <2>1 DEF Coupled, Informed, Holds, Groups, RevisionOf
<1> QED
  BY <1>3, <1>4, <1>5

--------------------------------------------------------------------------------
(* A page takes over what the group holds.                                   *)

LEMMA CreatedFacts ==
    ASSUME SessionInv, NEW t \in Tabs, Created(t)
    PROVE  \E m \in Histories, g \in Tokens :
             LET b == BrowserOf[t]
             IN  /\ UNCHANGED <<now, groups, open, page, call, stray, cleaner, history, joining, created>>
                 /\ dirty' \subseteq Tabs /\ told' \subseteq Tabs
                 /\ token' = [token EXCEPT ![t] = g] /\ known' = [known EXCEPT ![t] = 1]
                 /\ mine' = [mine EXCEPT ![t] = m]
                 /\ \E st \in Histories :
                      /\ saved' = [saved EXCEPT ![b] = [state |-> st, token |-> g, mark |-> [of |-> g, rev |-> 1]]]
                      /\ OK(st) /\ (saved[b].state = mine[t] => st = m)
                 /\ asking' = [asking EXCEPT ![t] = NoAsk] /\ links' = links \cup {g}
                 /\ OK(m) /\ ReadAt(mine[t], now) \subseteq ReadAt(m, now)
                 /\ g \in Groups /\ groups[g].rev = 1 => Holds(g, m)
                 /\ t \in open
<1> DEFINE a == asking[t]
           b == BrowserOf[t]
           m == Absorb(mine[t], a.state, page[t], now)
           st == IF m # mine[t] THEN m ELSE saved[b].state
<1>1. /\ ReadInv /\ a \in Asks /\ Asking(t) /\ a.phase = "created" /\ b \in Browsers
      /\ saved[b].state \in Histories /\ OK(saved[b].state) /\ mine[t] \in Histories
      /\ dirty \subseteq Tabs /\ told \subseteq Tabs
  BY SessionFacts, StateFacts DEF SessionInv, ReadInv, AllBacked, Created
<1>2. a.state \in Histories /\ OK(a.state) /\ a.of \in Tokens /\ a.of # None /\ t \in open
  BY <1>1, AskFacts DEF Asking, NoAsk
<1>3. /\ m \in Histories /\ OK(m)
      /\ ReadAt(mine[t], now) \subseteq ReadAt(m, now) /\ ReadAt(a.state, now) \subseteq ReadAt(m, now)
  BY <1>1, <1>2, AbsorbBacked
<1>4. /\ token' = [token EXCEPT ![t] = a.of] /\ known' = [known EXCEPT ![t] = 1]
      /\ mine' = [mine EXCEPT ![t] = m]
      /\ saved' = [saved EXCEPT ![b] = [state |-> st, token |-> a.of, mark |-> [of |-> a.of, rev |-> 1]]]
      /\ dirty' = dirty \cup {t} /\ asking' = [asking EXCEPT ![t] = NoAsk]
      /\ links' = links \cup {a.of} /\ told' = told \ {t}
      /\ UNCHANGED <<now, groups, open, page, call, stray, cleaner, history, joining, created>>
  <2>1. Marked(a.of, 1) = [of |-> a.of, rev |-> 1]
    BY <1>2 DEF Marked
  <2>2. saved' = [saved EXCEPT ![b] = [state |-> IF m # mine[t] THEN m ELSE @.state, token |-> a.of, mark |-> Marked(a.of, 1)]]
    BY DEF Created
  <2>3. DOMAIN saved = Browsers
    BY SessionFacts
  <2>4. saved' = [saved EXCEPT ![b] = [state |-> st, token |-> a.of, mark |-> [of |-> a.of, rev |-> 1]]]
    <3> HIDE DEF m, a
    <3> QED
      BY <2>1, <2>2, <2>3
  <2> QED
    BY <2>4 DEF Created
<1>5. a.of \in Groups /\ groups[a.of].rev = 1 => Holds(a.of, m)
  BY <1>1, <1>3 DEF Asking, Holds
<1>6. st \in Histories /\ OK(st) /\ (saved[b].state = mine[t] => st = m)
  BY <1>1, <1>3
<1> HIDE DEF m, st, a
<1> DEFINE g == a.of
<1>7. g \in Tokens
  BY <1>2
<1> QED
  BY <1>1, <1>2, <1>3, <1>4, <1>5, <1>6, <1>7

LEMMA CreatedSession == ASSUME SessionInv, NEW t \in Tabs, Created(t) PROVE SessionInv'
<1> DEFINE b == BrowserOf[t]
<1>1. PICK m \in Histories, g \in Tokens :
        /\ UNCHANGED <<now, groups, open, page, call, stray, cleaner, history, joining, created>>
        /\ dirty' \subseteq Tabs /\ told' \subseteq Tabs
        /\ token' = [token EXCEPT ![t] = g] /\ known' = [known EXCEPT ![t] = 1]
        /\ mine' = [mine EXCEPT ![t] = m]
        /\ \E st \in Histories :
             /\ saved' = [saved EXCEPT ![b] = [state |-> st, token |-> g, mark |-> [of |-> g, rev |-> 1]]]
             /\ OK(st) /\ (saved[b].state = mine[t] => st = m)
        /\ asking' = [asking EXCEPT ![t] = NoAsk] /\ links' = links \cup {g}
        /\ OK(m)
  BY CreatedFacts
<1>2. PICK st \in Histories :
        saved' = [saved EXCEPT ![b] = [state |-> st, token |-> g, mark |-> [of |-> g, rev |-> 1]]] /\ OK(st)
  BY <1>1
<1>3. /\ ReadInv /\ RevInv /\ TypeOK /\ Issued /\ saved \in [Browsers -> Histored] /\ asking \in [Tabs -> Asks]
      /\ token \in [Tabs -> Tokens \cup {None}] /\ known \in [Tabs -> Nat] /\ mine \in [Tabs -> Histories]
      /\ b \in Browsers /\ links \subseteq Tokens /\ NoAsk \in Asks /\ NoAsk.phase = "none" /\ joining \subseteq Tabs
  BY SessionFacts DEF SessionInv
<1>4. /\ [state |-> st, token |-> g, mark |-> [of |-> g, rev |-> 1]] \in Histored
      /\ saved' \in [Browsers -> Histored]
      /\ \A c \in Browsers : saved'[c] = IF c = b THEN [state |-> st, token |-> g, mark |-> [of |-> g, rev |-> 1]] ELSE saved[c]
  <2>1. [state |-> st, token |-> g, mark |-> [of |-> g, rev |-> 1]] \in Histored
    BY DEF Histored
  <2> DEFINE store == [state |-> st, token |-> g, mark |-> [of |-> g, rev |-> 1]]
  <2> HIDE DEF store
  <2>2. store \in Histored /\ saved' = [saved EXCEPT ![b] = store]
    BY <1>2, <2>1 DEF store
  <2>3. saved' \in [Browsers -> Histored] /\ \A c \in Browsers : saved'[c] = IF c = b THEN store ELSE saved[c]
    BY <1>3, <2>2
  <2> QED
    BY <2>1, <2>3 DEF store
<1>5. /\ token' \in [Tabs -> Tokens \cup {None}] /\ known' \in [Tabs -> Nat] /\ mine' \in [Tabs -> Histories]
      /\ asking' \in [Tabs -> Asks]
      /\ \A u \in Tabs : /\ token'[u] = IF u = t THEN g ELSE token[u]
                         /\ known'[u] = IF u = t THEN 1 ELSE known[u]
                         /\ mine'[u] = IF u = t THEN m ELSE mine[u]
                         /\ asking'[u] = IF u = t THEN NoAsk ELSE asking[u]
  BY <1>1, <1>3
<1>6. ReadInv'
  <2>1. TypeOK'
    BY <1>1, <1>3, <1>4, <1>5 DEF TypeOK, Groups, Histored, history
  <2>2. \A c \in Browsers : OK(saved'[c].state)
    BY <1>2, <1>3, <1>4 DEF ReadInv, AllBacked
  <2>3. \A u \in Tabs : OK(mine'[u])
    BY <1>1, <1>3, <1>5 DEF ReadInv, AllBacked
  <2>4. AllBacked' /\ Built'
    BY <1>1, <1>3, <2>2, <2>3 DEF ReadInv, AllBacked, OK, Built, Groups, history
  <2> QED
    BY <2>1, <2>4 DEF ReadInv
<1>7. RevInv'
  <2>1. \A u \in Tabs : Heard(token'[u], known'[u])
    BY <1>5 DEF Heard
  <2>2. \A c \in Browsers : Heard(saved'[c].mark.of, saved'[c].mark.rev)
    BY <1>4 DEF Heard
  <2>3. \A u \in Tabs : /\ call'[u].phase = "sent" => Heard(call'[u].of, call'[u].known)
                        /\ call'[u].phase \in {"full", "short"} => Heard(call'[u].of, call'[u].rev)
    BY <1>1 DEF Heard
  <2>4. RowsAdvance /\ SelectedRow'
    BY <1>1, <1>3, SameRows DEF RevInv, SelectedRow, Groups
  <2> QED
    BY <1>3, <1>6, <2>1, <2>2, <2>3, <2>4, RevisionsStay DEF Learned
<1>8. SessionTypeOK'
  BY <1>1, <1>3, <1>5, <1>6 DEF ReadInv, SessionInv, SessionTypeOK
<1>9. Issued'
  <2>1. \A u \in Tabs : token'[u] \in links' \cup {None} /\ (call'[u] # NoCall => call'[u].of \in links')
    BY <1>1, <1>3, <1>5 DEF Issued
  <2>2. \A c \in Browsers : {saved'[c].token, saved'[c].mark.of} \subseteq links' \cup {None}
    BY <1>1, <1>3, <1>4 DEF Issued
  <2> QED
    BY <2>1, <2>2 DEF Issued
<1>10. \A u \in Tabs : Asking(u)'
  <2>1. /\ UNCHANGED <<now, groups>> /\ marked \subseteq marked' /\ withheld \subseteq withheld'
        /\ \A u \in Tabs : asking'[u] = asking[u] \/ asking'[u].phase \notin {"create", "created"}
        /\ \A u \in Tabs : u \in joining' \/ asking'[u] # NoAsk => u \in open'
    BY <1>1, <1>3, <1>5 DEF history, SessionInv, Asking
  <2> QED
    BY <2>1, SameRowsAsking
<1> QED
  BY <1>6, <1>7, <1>8, <1>9, <1>10 DEF SessionInv

LEMMA CreatedApplied ==
    ASSUME SessionInv, AppliedInv, OnePage, NEW t \in Tabs, Created(t), NEW u \in Tabs
    PROVE  (Coupled(u) /\ Informed(u))'
<1> DEFINE b == BrowserOf[t]
<1>1. PICK m \in Histories, g \in Tokens :
        /\ UNCHANGED <<now, groups, open, call>>
        /\ token' = [token EXCEPT ![t] = g] /\ known' = [known EXCEPT ![t] = 1]
        /\ mine' = [mine EXCEPT ![t] = m]
        /\ \E st \in Histories :
             /\ saved' = [saved EXCEPT ![b] = [state |-> st, token |-> g, mark |-> [of |-> g, rev |-> 1]]]
             /\ saved[b].state = mine[t] => st = m
        /\ ReadAt(mine[t], now) \subseteq ReadAt(m, now)
        /\ g \in Groups /\ groups[g].rev = 1 => Holds(g, m)
        /\ t \in open
  BY CreatedFacts
<1>2. /\ ReadInv /\ TypeOK /\ Coupled(t) /\ Informed(t) /\ Coupled(u) /\ Informed(u)
      /\ saved \in [Browsers -> Histored] /\ b \in Browsers /\ BrowserOf[u] \in Browsers
      /\ token \in [Tabs -> Tokens \cup {None}] /\ known \in [Tabs -> Nat] /\ mine \in [Tabs -> Histories]
  BY SessionFacts DEF AppliedInv
<1> DEFINE store == [state |-> m, token |-> g, mark |-> [of |-> g, rev |-> 1]]
<1>3. saved' = [saved EXCEPT ![b] = store]
  BY <1>1, <1>2 DEF Coupled
<1> HIDE DEF store
<1>4. CASE u # t
  <2>1. BrowserOf[u] # b
    BY <1>4 DEF OnePage
  <2>2. Untouched(u)
    BY <1>1, <1>2, <1>3, <1>4, <2>1 DEF Untouched
  <2>3. Onward
    BY <1>1, SameRows, StateFacts DEF Onward, SessionInv, ReadInv
  <2> QED
    BY <2>2, <2>3, UntouchedStays
<1>5. CASE u = t
  <2>1. /\ token'[t] = g /\ known'[t] = 1 /\ mine'[t] = m /\ saved'[b] = store
        /\ store.state = m /\ store.mark.of = g /\ store.mark.rev = 1
    <3>1. token'[t] = g /\ known'[t] = 1 /\ mine'[t] = m /\ saved'[b] = store
      BY <1>1, <1>2, <1>3
    <3> QED
      BY <3>1 DEF store
  <2>2. Coupled(t)'
    BY <1>1, <1>2, <2>1 DEF Coupled
  <2>3. ASSUME NEW f \in Groups
        PROVE  /\ token'[t] = f /\ known'[t] = groups[f].rev => Holds(f, m)
               /\ RevisionOf(saved'[b], f) = groups[f].rev => Holds(f, m)
               /\ Holds(f, mine[t]) => Holds(f, m)
    <3>1. groups[f].rev # 0
      BY <1>2, RowFacts
    <3> QED
      BY <1>1, <2>1, <3>1 DEF RevisionOf, Holds
  <2>4. Informed(t)'
    BY <1>1, <1>2, <2>1, <2>3 DEF Informed, Holds, Groups
  <2> QED
    BY <1>5, <2>2, <2>4
<1> QED
  BY <1>4, <1>5

LEMMA OpenLinkFacts ==
    ASSUME SessionInv, NEW t \in Tabs, OpenLink(t)
    PROVE  \E g \in links :
             LET b == BrowserOf[t]
                 rev == RevisionOf(saved[b], g)
             IN  /\ Load(t, g) /\ open' = open \cup {t}
                 /\ UNCHANGED <<now, groups, cleaner, marked, asking, joining, created, links, told>>
                 /\ withheld \subseteq withheld'
                 /\ \A u \in Tabs \ {t} : /\ token'[u] = token[u] /\ known'[u] = known[u] /\ mine'[u] = mine[u]
                                          /\ call'[u] = call[u]
                 /\ token'[t] = g /\ known'[t] = rev
                 /\ call'[t].phase = "sent" /\ call'[t].of = g /\ call'[t].known = rev
                 /\ \A c \in Browsers \ {b} : saved'[c] = saved[c]
                 /\ saved'[b].token = g /\ saved'[b].mark \in {saved[b].mark, Marked(g, rev)}
<1>1. PICK g \in links : Load(t, g)
  BY DEF OpenLink
<1> DEFINE b == BrowserOf[t]
           rev == RevisionOf(saved[b], g)
           loaded == Loaded(saved[b].state, now)
           mark == IF g = saved[b].token THEN saved[b].mark ELSE Marked(g, rev)
<1>2. /\ g \in Tokens /\ g # None /\ b \in Browsers /\ saved \in [Browsers -> Histored]
      /\ token \in [Tabs -> Tokens \cup {None}] /\ known \in [Tabs -> Nat] /\ mine \in [Tabs -> Histories]
      /\ call \in [Tabs -> Calls]
  BY SessionFacts
<1>3. /\ open' = open \cup {t}
      /\ mine' = [mine EXCEPT ![t] = loaded]
      /\ token' = [token EXCEPT ![t] = g] /\ known' = [known EXCEPT ![t] = rev]
      /\ saved' = [saved EXCEPT ![b] = [state |-> loaded, token |-> g, mark |-> mark]]
      /\ \E r \in Request(g, loaded, page'[t], rev, "load") : call' = [call EXCEPT ![t] = r]
      /\ UNCHANGED <<now, groups, cleaner, marked>>
      /\ withheld \subseteq withheld'
  BY <1>1, <1>2 DEF Load
<1>4. mark \in {saved[b].mark, Marked(g, rev)}
  OBVIOUS
<1>5. PICK p : call' = [call EXCEPT ![t] = [phase |-> "sent", of |-> g, state |-> p, known |-> rev, why |-> "load"]]
  BY <1>3 DEF Request
<1> HIDE DEF loaded, mark, rev
<1>6. /\ \A u \in Tabs \ {t} : token'[u] = token[u] /\ known'[u] = known[u] /\ mine'[u] = mine[u] /\ call'[u] = call[u]
      /\ token'[t] = g /\ known'[t] = rev
      /\ call'[t].phase = "sent" /\ call'[t].of = g /\ call'[t].known = rev
  BY <1>2, <1>3, <1>5
<1>7. /\ \A c \in Browsers \ {b} : saved'[c] = saved[c]
      /\ saved'[b].token = g /\ saved'[b].mark = mark
  BY <1>2, <1>3
<1>8. UNCHANGED <<asking, joining, created, links, told>>
  BY DEF OpenLink
<1> QED
  BY <1>1, <1>3, <1>4, <1>6, <1>7, <1>8 DEF rev

LEMMA OpenLinkSession == ASSUME SessionInv, NEW t \in Tabs, OpenLink(t) PROVE SessionInv'
<1> DEFINE b == BrowserOf[t]
<1>1. PICK g \in links :
        LET rev == RevisionOf(saved[b], g)
        IN  /\ Load(t, g) /\ open' = open \cup {t}
            /\ UNCHANGED <<now, groups, cleaner, marked, asking, joining, created, links, told>>
            /\ withheld \subseteq withheld'
            /\ \A u \in Tabs \ {t} : /\ token'[u] = token[u] /\ known'[u] = known[u] /\ mine'[u] = mine[u]
                                     /\ call'[u] = call[u]
            /\ token'[t] = g /\ known'[t] = rev
            /\ call'[t].phase = "sent" /\ call'[t].of = g /\ call'[t].known = rev
            /\ \A c \in Browsers \ {b} : saved'[c] = saved[c]
            /\ saved'[b].token = g /\ saved'[b].mark \in {saved[b].mark, Marked(g, rev)}
  BY OpenLinkFacts
<1> DEFINE rev == RevisionOf(saved[b], g)
<1>2. /\ ReadInv /\ RevInv /\ TypeOK /\ Issued /\ saved[b] \in Histored /\ g \in Tokens /\ g # None /\ b \in Browsers
  BY SessionFacts DEF SessionInv
<1>3. ReadInv'
  BY <1>1, <1>2, LoadBacked
<1>4. /\ rev = 0 \/ (saved[b].mark.of = g /\ saved[b].mark.rev = rev)
      /\ saved'[b].mark.of = None \/ (saved'[b].mark.of = saved[b].mark.of /\ saved'[b].mark.rev = saved[b].mark.rev)
  BY <1>1, <1>2, SavedFacts
<1>5. RevInv'
  <2>1. \A u \in Tabs : Heard(token'[u], known'[u])
    BY <1>1, <1>2, <1>4 DEF Heard
  <2>2. \A c \in Browsers : Heard(saved'[c].mark.of, saved'[c].mark.rev)
    BY <1>1, <1>2, <1>4 DEF Heard
  <2>3. \A u \in Tabs : /\ call'[u].phase = "sent" => Heard(call'[u].of, call'[u].known)
                        /\ call'[u].phase \in {"full", "short"} => Heard(call'[u].of, call'[u].rev)
    BY <1>1, <1>2, <1>4 DEF Heard
  <2>4. RowsAdvance /\ SelectedRow'
    BY <1>1, <1>2, SameRows DEF RevInv, SelectedRow, Groups
  <2> QED
    BY <1>2, <1>3, <2>1, <2>2, <2>3, <2>4, RevisionsStay DEF Learned
<1>6. SessionTypeOK'
  BY <1>1, <1>3 DEF ReadInv, SessionInv, SessionTypeOK
<1>7. Issued'
  <2>1. \A u \in Tabs : token'[u] \in links \cup {None} /\ (call'[u] # NoCall => call'[u].of \in links)
    BY <1>1, <1>2 DEF Issued
  <2>2. \A c \in Browsers : {saved'[c].token, saved'[c].mark.of} \subseteq links \cup {None}
    BY <1>1, <1>2, <1>4 DEF Issued
  <2> QED
    BY <1>1, <2>1, <2>2 DEF Issued
<1>8. \A u \in Tabs : Asking(u)'
  <2>1. /\ UNCHANGED <<now, groups>> /\ marked \subseteq marked' /\ withheld \subseteq withheld'
        /\ \A u \in Tabs : asking'[u] = asking[u]
        /\ \A u \in Tabs : u \in joining' \/ asking'[u] # NoAsk => u \in open'
    BY <1>1 DEF SessionInv, Asking
  <2> QED
    BY <2>1, SameRowsAsking
<1> QED
  BY <1>3, <1>5, <1>6, <1>7, <1>8 DEF SessionInv

LEMMA OpenLinkApplied ==
    ASSUME SessionInv, AppliedInv, OnePage, NEW t \in Tabs, OpenLink(t), NEW u \in Tabs
    PROVE  (Coupled(u) /\ Informed(u))'
<1> DEFINE b == BrowserOf[t]
<1>1. PICK g \in links :
        /\ Load(t, g) /\ open' = open \cup {t} /\ UNCHANGED <<now, groups>>
        /\ \A w \in Tabs \ {t} : /\ token'[w] = token[w] /\ known'[w] = known[w] /\ mine'[w] = mine[w]
                                 /\ call'[w] = call[w]
        /\ \A c \in Browsers \ {b} : saved'[c] = saved[c]
  BY OpenLinkFacts
<1>2. g \in Tokens /\ BrowserOf[u] \in Browsers
  BY SessionFacts
<1>3. CASE u = t
  BY <1>1, <1>2, <1>3, LoadApplied
<1>4. CASE u # t
  <2>1. BrowserOf[u] # b
    BY <1>4 DEF OnePage
  <2>2. Untouched(u)
    BY <1>1, <1>2, <1>4, <2>1 DEF Untouched
  <2>3. Onward
    BY <1>1, SameRows, StateFacts DEF Onward, SessionInv, ReadInv
  <2> QED
    BY <2>2, <2>3, UntouchedStays
<1> QED
  BY <1>3, <1>4

--------------------------------------------------------------------------------
(* The rows that are deleted, that other members change, and that are new.   *)

LEMMA RowsBacked ==
    ASSUME ReadInv, DOMAIN groups' = Tokens,
           \A f \in Groups' : RowOK(groups'[f]) /\ Backed(groups'[f].state, now, marked', withheld),
           marked \subseteq marked', marked' \subseteq Stories,
           UNCHANGED <<now, saved, tabVars, stray, cleaner, withheld>>
    PROVE  ReadInv'
<1>1. TypeOK'
  BY DEF ReadInv, TypeOK, RowOK, tabVars
<1>2. /\ \A h \in Histories : OK(h) => Backed(h, now', marked', withheld')
      /\ \A t \in Tabs : Complete(page[t], now', withheld')
  BY StaysBacked, StateFacts DEF ReadInv
<1>3. AllBacked'
  <2>1. /\ \A b \in Browsers : saved[b].state \in Histories
        /\ \A t \in Tabs : mine[t] \in Histories /\ (call[t].phase \in {"sent", "full"} => call[t].state \in Histories)
        /\ \A r \in stray : r.state \in Histories
        /\ cleaner # Idle => cleaner.state \in Histories
    BY StateFacts, CallFacts DEF ReadInv
  <2> QED
    BY <1>2, <2>1 DEF ReadInv, AllBacked, OK, tabVars
<1> QED
  BY <1>1, <1>2, <1>3 DEF ReadInv, Built, tabVars

RowStep ==
    /\ UNCHANGED <<now, saved, tabVars, stray, cleaner, withheld, joining, links, told>>
    /\ marked \subseteq marked'
    /\ asking' \in [Tabs -> Asks]
    /\ \A t \in Tabs : asking'[t] # NoAsk => asking[t] # NoAsk
    /\ \A d \in DOMAIN created' : created'[d] \in 0 .. MaxDaily

LEMMA RowsSession ==
    ASSUME SessionInv, ReadInv', RowsAdvance, Undisturbed, RowStep,
           \A t \in Tabs : asking'[t] = asking[t] \/ asking'[t].phase \notin {"create", "created"}
    PROVE  SessionInv'
<1>1. ReadInv /\ RevInv /\ now \in Nat
  BY StateFacts DEF SessionInv, ReadInv
<1>2. RevInv'
  <2>1. Learned
    BY <1>1 DEF Learned, Heard, RowStep, tabVars
  <2>2. SelectedRow'
    BY <1>1 DEF Undisturbed, RevInv, SelectedRow, Groups, RowStep
  <2> QED
    BY <1>1, <2>1, <2>2, RevisionsStay
<1>3. SessionTypeOK'
  BY DEF ReadInv, SessionInv, SessionTypeOK, RowStep
<1>4. Issued'
  BY DEF SessionInv, Issued, RowStep, tabVars
<1>5. Onward
  BY <1>1 DEF Onward, RowStep
<1>6. ASSUME NEW t \in Tabs PROVE Asking(t)'
  <2>1. t \in joining' \/ asking'[t] # NoAsk => t \in open'
    BY DEF RowStep, SessionInv, Asking, tabVars
  <2>2. marked \subseteq marked' /\ withheld \subseteq withheld'
    BY DEF RowStep
  <2> QED
    BY <1>5, <2>1, <2>2, AskingStays
<1> QED
  BY <1>2, <1>3, <1>4, <1>6 DEF SessionInv

LEMMA RowsApplied ==
    ASSUME AppliedInv, RowsAdvance, RowStep, NEW t \in Tabs
    PROVE  (Coupled(t) /\ Informed(t))'
<1>1. Onward
  BY StateFacts DEF Onward, RowStep, AppliedInv, ReadInv
<1>2. Untouched(t)
  BY DEF Untouched, RowStep, tabVars
<1> QED
  BY <1>1, <1>2, UntouchedStays

\* Rows that are as they were, or gone.
LEMMA RowsGone ==
    ASSUME SessionInv, DOMAIN groups' = Tokens, \A f \in Tokens : groups'[f] = groups[f] \/ groups'[f] = None,
           UNCHANGED <<now, saved, tabVars, stray, cleaner, history>>
    PROVE  ReadInv' /\ RowsAdvance
<1>1. \A f \in Groups' : f \in Groups /\ groups'[f] = groups[f]
  BY DEF Groups
<1>2. RowsAdvance
  BY <1>1 DEF RowsAdvance, SessionInv, RevInv
<1>3. \A f \in Groups' : RowOK(groups'[f]) /\ Backed(groups'[f].state, now, marked', withheld)
  BY <1>1, RowFacts DEF SessionInv, ReadInv, AllBacked, OK, history
<1>4. marked \subseteq marked' /\ marked' \subseteq Stories /\ withheld' = withheld
  BY DEF SessionInv, ReadInv, TypeOK, history
<1>5. ReadInv'
  BY <1>3, <1>4, RowsBacked DEF SessionInv
<1> QED
  BY <1>2, <1>5

LEMMA DeleteRows ==
    ASSUME SessionInv, CleanupDelete \/ \E t \in Tabs : ServeDelete(t)
    PROVE  /\ ReadInv' /\ RowsAdvance /\ RowStep
           /\ \A t \in Tabs : asking'[t] = asking[t] \/ asking'[t].phase \notin {"create", "created"}
<1>1. /\ DOMAIN groups = Tokens /\ asking \in [Tabs -> Asks] /\ \A d \in DOMAIN created : created[d] \in 0 .. MaxDaily
  BY SessionFacts DEF TypeOK, SessionInv, SessionTypeOK
<1>2. CASE CleanupDelete
  <2>1. /\ UNCHANGED <<now, saved, tabVars, stray, cleaner, history, session>>
        /\ groups' = Unexpired
    BY <1>2 DEF CleanupDelete
  <2>2. DOMAIN groups' = Tokens /\ \A f \in Tokens : groups'[f] = groups[f] \/ groups'[f] = None
    BY <1>1, <2>1 DEF Unexpired
  <2> QED
    BY <1>1, <2>1, <2>2, RowsGone DEF RowStep, session, history
<1>3. ASSUME NEW t \in Tabs, ServeDelete(t)
      PROVE  /\ ReadInv' /\ RowsAdvance /\ RowStep
             /\ \A u \in Tabs : asking'[u] = asking[u] \/ asking'[u].phase \notin {"create", "created"}
  <2>1. /\ asking[t].phase = "delete" /\ groups' = [groups EXCEPT ![asking[t].of] = None]
        /\ asking' = [asking EXCEPT ![t] = [phase |-> IF groups[asking[t].of] = None THEN "refused" ELSE "deleted"]]
        /\ UNCHANGED <<now, saved, tabVars, stray, cleaner, history, joining, created, links, told>>
    BY <1>3 DEF ServeDelete
  <2>2. DOMAIN groups' = Tokens /\ \A f \in Tokens : groups'[f] = groups[f] \/ groups'[f] = None
    BY <1>1, <2>1
  <2> DEFINE a == [phase |-> IF groups[asking[t].of] = None THEN "refused" ELSE "deleted"]
  <2>3. a \in Asks /\ a.phase \notin {"create", "created"} /\ asking[t] # NoAsk
    BY <2>1 DEF Asks, NoAsk
  <2> HIDE DEF a
  <2>4. asking' = [asking EXCEPT ![t] = a]
    BY <2>1 DEF a
  <2>5. asking' \in [Tabs -> Asks] /\ \A u \in Tabs : asking'[u] = IF u = t THEN a ELSE asking[u]
    BY <1>1, <2>3, <2>4
  <2> QED
    BY <1>1, <2>1, <2>2, <2>3, <2>5, RowsGone DEF RowStep, history
<1> QED
  BY <1>2, <1>3

\* What another member reads is merged.
LEMMA PeerMerges ==
    ASSUME SessionInv, Peer
    PROVE  \E g \in Tokens, payload \in Histories :
             /\ Sound(payload) /\ MergeGroup(g, payload) /\ marked \subseteq marked' /\ marked' \subseteq Stories
             /\ Backed(payload, now, marked', withheld)
             /\ UNCHANGED <<now, saved, tabVars, stray, cleaner, withheld, session>>
<1>1. PICK g \in links, s \in Published :
        /\ MergeGroup(g, [Empty EXCEPT !.reads[s] = now, !.ordered = {s}])
        /\ marked' = marked \cup {s}
  BY DEF Peer
<1>2. UNCHANGED <<now, saved, tabVars, stray, cleaner, withheld, session>>
  BY DEF Peer
<1> DEFINE payload == [Empty EXCEPT !.reads[s] = now, !.ordered = {s}]
<1>3. s \in Stories /\ s <= now /\ now \in Nat /\ g \in Tokens /\ marked \subseteq Stories
  BY SessionFacts DEF Published, TypeOK
<1>4. /\ payload \in Histories /\ payload.upto = 0
      /\ \A u \in Stories : payload.reads[u] = IF u = s THEN now ELSE 0
  BY <1>3 DEF Empty, Histories
<1>5. MergeGroup(g, payload)
  BY <1>1
<1> HIDE DEF payload
<1>6. Sound(payload)
  BY <1>3, <1>4 DEF Sound
<1>7. Backed(payload, now, marked', withheld)
  <2>1. \A u \in Stories : u \in Nat /\ ~ (u <= 0)
    OBVIOUS
  <2> QED
    BY <1>1, <1>3, <1>4, <1>6, <2>1 DEF Backed
<1> QED
  BY <1>1, <1>2, <1>3, <1>4, <1>5, <1>6, <1>7

LEMMA PeerRows ==
    ASSUME SessionInv, Peer
    PROVE  ReadInv' /\ RowsAdvance /\ RowStep /\ asking' = asking
<1>1. PICK g \in Tokens, payload \in Histories :
        /\ Sound(payload) /\ MergeGroup(g, payload) /\ marked \subseteq marked' /\ marked' \subseteq Stories
        /\ Backed(payload, now, marked', withheld)
        /\ UNCHANGED <<now, saved, tabVars, stray, cleaner, withheld, session>>
  BY PeerMerges
<1>2. ReadInv /\ RevInv /\ TypeOK
  BY SessionFacts DEF SessionInv
<1>3. RowsAdvance
  BY <1>1, <1>2, MergeRows
<1>4. DOMAIN groups' = Tokens /\ \A f \in Groups' : RowOK(groups'[f]) /\ Backed(groups'[f].state, now, marked', withheld)
  BY <1>1, <1>2, MergeGroupFacts, MergeGroupBacked
<1>5. ReadInv'
  BY <1>1, <1>2, <1>4, RowsBacked
<1> QED
  BY <1>1, <1>3, <1>5 DEF RowStep, session, SessionInv, SessionTypeOK

\* A new group has a token nobody has, and revision 1.
LEMMA CreateFacts ==
    ASSUME SessionInv, NEW t \in Tabs, ServeCreate(t)
    PROVE  \/ /\ UNCHANGED <<groups, history, created>>
              /\ asking' = [asking EXCEPT ![t] = [phase |-> "refused"]]
           \/ /\ \A d \in DOMAIN created' : created'[d] \in 0 .. MaxDaily
              /\ UNCHANGED history
              /\ \E g \in Unissued, n \in Histories :
                   /\ n.ordered \subseteq Entries(n) /\ OK(n) /\ Cardinality(Entries(n)) <= MaxReads
                   /\ groups' = [Unexpired EXCEPT ![g] = [state |-> n, rev |-> 1, until |-> Until]]
                   /\ asking' = [asking EXCEPT ![t] = [phase |-> "created", of |-> g, state |-> [n EXCEPT !.ordered = {}]]]
<1>1. /\ asking[t] \in Asks /\ asking[t].phase = "create" /\ Asking(t) /\ now \in Nat
      /\ \A d \in DOMAIN created : created[d] \in 0 .. MaxDaily
  BY SessionFacts, StateFacts DEF ServeCreate, SessionInv, SessionTypeOK
<1>2. asking[t].state \in Histories /\ OK(asking[t].state)
  BY <1>1, AskFacts DEF Asking
<1>3. CASE ~ Full /\ Unissued # {} /\ created' = [created EXCEPT ![Today] = @ + 1]
           /\ LET g == CHOOSE g \in Unissued : TRUE
              IN  \E n \in Normalized(asking[t].state, {}, now) :
                    /\ groups' = [Unexpired EXCEPT ![g] = [state |-> n, rev |-> 1, until |-> Until]]
                    /\ asking' = [asking EXCEPT ![t] = [phase |-> "created", of |-> g, state |-> [n EXCEPT !.ordered = {}]]]
  <2> DEFINE g == CHOOSE g \in Unissued : TRUE
  <2>1. PICK n \in Normalized(asking[t].state, {}, now) :
          /\ groups' = [Unexpired EXCEPT ![g] = [state |-> n, rev |-> 1, until |-> Until]]
          /\ asking' = [asking EXCEPT ![t] = [phase |-> "created", of |-> g, state |-> [n EXCEPT !.ordered = {}]]]
    BY <1>3
  <2>2. g \in Unissued
    BY <1>3
  <2>3. n \in Histories /\ n.ordered \subseteq Entries(n) /\ Cardinality(Entries(n)) <= MaxReads
    BY <1>1, <1>2, NormalizedFacts
  <2>4. OK(n)
    BY <1>1, <1>2, SentBacked DEF OK
  <2>5. \A d \in DOMAIN created' : created'[d] \in 0 .. MaxDaily
    <3>1. MaxDaily \in Nat /\ ~ (created[Today] >= MaxDaily) /\ DOMAIN created' = DOMAIN created
      BY <1>3, SyncSessionAssumption DEF Full
    <3>2. ASSUME NEW d \in DOMAIN created PROVE created'[d] \in 0 .. MaxDaily
      <4>1. created'[d] = IF d = Today THEN created[Today] + 1 ELSE created[d]
        BY <1>3
      <4>2. created[d] \in 0 .. MaxDaily
        BY <1>1
      <4> HIDE DEF Today
      <4> QED
        BY <3>1, <4>1, <4>2
    <3> QED
      BY <3>1, <3>2
  <2> HIDE DEF g
  <2> QED
    BY <2>1, <2>2, <2>3, <2>4, <2>5 DEF ServeCreate
<1> QED
  BY <1>3 DEF ServeCreate

LEMMA CreateSession == ASSUME SessionInv, NEW t \in Tabs, ServeCreate(t), Undisturbed PROVE SessionInv'
<1>1. /\ UNCHANGED <<now, saved, tabVars, stray, cleaner, history, joining, links, told>>
      /\ asking[t].phase = "create" /\ asking[t] # NoAsk /\ t \in open
  BY DEF ServeCreate, history, NoAsk, SessionInv, Asking
<1>2. /\ ReadInv /\ RevInv /\ TypeOK /\ now \in Nat /\ asking \in [Tabs -> Asks] /\ DOMAIN groups = Tokens
      /\ \A d \in DOMAIN created : created[d] \in 0 .. MaxDaily
      /\ None \notin Tokens /\ links \subseteq Tokens
  BY SessionFacts, StateFacts DEF SessionInv, SessionTypeOK, TypeOK
<1>3. CASE UNCHANGED <<groups, created>> /\ asking' = [asking EXCEPT ![t] = [phase |-> "refused"]]
  <2>1. ReadInv' /\ RowsAdvance
    BY <1>1, <1>2, <1>3, RowsGone
  <2> DEFINE a == [phase |-> "refused"]
  <2>2. a \in Asks /\ a.phase \notin {"create", "created"}
    BY DEF Asks
  <2> HIDE DEF a
  <2>3. asking' \in [Tabs -> Asks] /\ \A u \in Tabs : asking'[u] = IF u = t THEN a ELSE asking[u]
    BY <1>2, <1>3, <2>2 DEF a
  <2> QED
    BY <1>1, <1>2, <1>3, <2>1, <2>2, <2>3, RowsSession DEF RowStep, history
<1>4. CASE /\ \A d \in DOMAIN created' : created'[d] \in 0 .. MaxDaily
           /\ \E g \in Unissued, n \in Histories :
                /\ n.ordered \subseteq Entries(n) /\ OK(n) /\ Cardinality(Entries(n)) <= MaxReads
                /\ groups' = [Unexpired EXCEPT ![g] = [state |-> n, rev |-> 1, until |-> Until]]
                /\ asking' = [asking EXCEPT ![t] = [phase |-> "created", of |-> g, state |-> [n EXCEPT !.ordered = {}]]]
  <2>1. PICK g \in Unissued, n \in Histories :
          /\ n.ordered \subseteq Entries(n) /\ OK(n) /\ Cardinality(Entries(n)) <= MaxReads
          /\ groups' = [Unexpired EXCEPT ![g] = [state |-> n, rev |-> 1, until |-> Until]]
          /\ asking' = [asking EXCEPT ![t] = [phase |-> "created", of |-> g, state |-> [n EXCEPT !.ordered = {}]]]
    BY <1>4
  <2> DEFINE row == [state |-> n, rev |-> 1, until |-> Until]
             h == [n EXCEPT !.ordered = {}]
             a == [phase |-> "created", of |-> g, state |-> h]
  <2>2. /\ g \in Tokens /\ g \notin Groups /\ g \notin links /\ g # None
        /\ \A u \in Tabs : asking[u].phase # "created" \/ asking[u].of # g
    BY <1>2 DEF Unissued
  <2>3. RowOK(row) /\ row.state = n /\ row.rev = 1
    <3>1. Until \in Nat
      BY <1>2 DEF Until
    <3> QED
      BY <2>1, <3>1 DEF RowOK
  <2>4. /\ h \in Histories /\ OK(h) /\ h.reads = n.reads /\ h.upto = n.upto
    BY <2>1 DEF Histories, OK, Backed, Sound
  <2> HIDE DEF h
  <2>5. a \in Asks /\ a.phase = "created" /\ a.of = g /\ a.state = h
    BY <2>2, <2>4 DEF Asks
  <2> HIDE DEF row, a
  <2>6. groups' = [Unexpired EXCEPT ![g] = row] /\ asking' = [asking EXCEPT ![t] = a]
    BY <2>1 DEF row, a, h
  <2>7. /\ DOMAIN groups' = Tokens /\ groups'[g] = row
        /\ \A f \in Tokens \ {g} : groups'[f] = groups[f] \/ groups'[f] = None
        /\ asking' \in [Tabs -> Asks] /\ \A u \in Tabs : asking'[u] = IF u = t THEN a ELSE asking[u]
    <3>1. DOMAIN Unexpired = Tokens /\ \A f \in Tokens : Unexpired[f] = groups[f] \/ Unexpired[f] = None
      BY DEF Unexpired
    <3> QED
      BY <1>2, <2>2, <2>5, <2>6, <3>1
  <2>8. \A f \in Groups' : f \in Tokens /\ (f = g \/ (f \in Groups /\ groups'[f] = groups[f]))
    BY <2>7 DEF Groups
  <2>9. ReadInv'
    <3>1. \A f \in Groups' : RowOK(groups'[f]) /\ Backed(groups'[f].state, now, marked', withheld)
      BY <1>1, <1>2, <2>1, <2>3, <2>7, <2>8, RowFacts DEF ReadInv, AllBacked, OK, history
    <3>2. marked \subseteq marked' /\ marked' \subseteq Stories
      BY <1>1, <1>2 DEF TypeOK, history
    <3> QED
      BY <1>1, <1>2, <2>7, <3>1, <3>2, RowsBacked DEF history
  <2>10. RevInv'
    <3>1. SelectedRow'
      BY <1>1, <1>2 DEF Undisturbed, RevInv, SelectedRow, Groups
    <3>2. ASSUME NEW f \in Groups', f # g, NEW k \in Nat, Heard(f, k)' PROVE k <= groups'[f].rev
      <4>1. f \in Groups /\ groups'[f] = groups[f]
        BY <2>8, <3>2
      <4>2. Heard(f, k)
        BY <1>1, <3>2 DEF Heard, tabVars
      <4> QED
        BY <1>2, <4>1, <4>2 DEF RevInv
    <3>3. ASSUME NEW k \in Nat, Heard(g, k)' PROVE k <= 1
      <4>1. /\ \A u \in Tabs : token[u] # g /\ (call[u] # NoCall => call[u].of # g)
            /\ \A b \in Browsers : saved[b].mark.of # g
        BY <2>2 DEF SessionInv, Issued
      <4> QED
        BY <1>1, <2>2, <3>3, <4>1 DEF Heard, tabVars, NoCall
    <3>4. \A f \in Groups' : Cardinality(Entries(groups'[f].state)) <= MaxReads
      BY <1>2, <2>1, <2>3, <2>7, <2>8 DEF RevInv
    <3> QED
      BY <2>3, <2>7, <3>1, <3>2, <3>3, <3>4 DEF RevInv
  <2>11. SessionTypeOK' /\ Issued'
    BY <1>1, <1>4, <2>7, <2>9 DEF SessionInv, SessionTypeOK, Issued, tabVars, ReadInv
  <2>12. ASSUME NEW u \in Tabs PROVE Asking(u)'
    <3>1. Asking(u)
      BY DEF SessionInv
    <3>2. CASE u = t
      <4>1. ReadAt(groups'[g].state, now) \subseteq ReadAt(h, now)
        BY <2>3, <2>4, <2>7 DEF ReadAt, IsRead
      <4> QED
        BY <1>1, <2>4, <2>5, <2>7, <3>2, <4>1 DEF Asking, Holds, OK, tabVars, history
    <3>3. CASE u # t
      <4>1. asking'[u] = asking[u]
        BY <2>7, <3>3
      <4>2. asking[u].phase = "created" /\ asking[u].of \in Groups' =>
               asking[u].of \in Groups /\ groups'[asking[u].of] = groups[asking[u].of]
        BY <2>2, <2>8
      <4> QED
        BY <1>1, <3>1, <4>1, <4>2 DEF Asking, Holds, OK, tabVars, history
    <3> QED
      BY <3>2, <3>3
  <2> QED
    BY <2>9, <2>10, <2>11, <2>12 DEF SessionInv
<1> QED
  BY <1>3, <1>4, CreateFacts

LEMMA CreateApplied ==
    ASSUME SessionInv, AppliedInv, NEW t \in Tabs, ServeCreate(t), NEW u \in Tabs
    PROVE  (Coupled(u) /\ Informed(u))'
<1>1. /\ UNCHANGED <<now, saved, tabVars>> /\ Coupled(u) /\ Informed(u) /\ BrowserOf[u] \in Browsers
      /\ DOMAIN groups = Tokens
  BY SessionFacts DEF ServeCreate, AppliedInv, TypeOK
<1>2. \A f \in Groups' : \/ f \in Groups /\ groups'[f] = groups[f]
                         \/ f \in Unissued /\ f \in Tokens /\ f \notin links /\ f # None
  <2>1. CASE groups' = groups
    BY <2>1 DEF Groups
  <2>2. ASSUME NEW g \in Unissued, NEW row, groups' = [Unexpired EXCEPT ![g] = row]
        PROVE  \A f \in Groups' : \/ f \in Groups /\ groups'[f] = groups[f]
                                  \/ f \in Unissued /\ f \in Tokens /\ f \notin links /\ f # None
    <3>1. DOMAIN Unexpired = Tokens /\ \A f \in Tokens : Unexpired[f] = groups[f] \/ Unexpired[f] = None
      BY DEF Unexpired
    <3>2. \A f \in Unissued : f \in Tokens /\ f \notin links /\ f # None
      BY DEF Unissued
    <3> QED
      BY <2>2, <3>1, <3>2 DEF Groups
  <2> QED
    BY <2>1, <2>2, CreateFacts
<1>3. Coupled(u)'
  BY <1>1 DEF Coupled, tabVars
<1>4. \A f \in Groups' \ Groups : /\ token[u] # f /\ (call[u] # NoCall => call[u].of # f)
                                  /\ RevisionOf(saved[BrowserOf[u]], f) = 0 /\ groups'[f].rev # 0
  <2>1. ASSUME NEW f \in Groups', f \notin Groups PROVE groups'[f].rev # 0
    <3>1. groups' # groups
      BY <2>1 DEF Groups
    <3>2. PICK g \in Unissued, n \in Histories :
            groups' = [Unexpired EXCEPT ![g] = [state |-> n, rev |-> 1, until |-> Until]]
      BY <3>1, CreateFacts
    <3>3. DOMAIN Unexpired = Tokens /\ \A d \in Tokens : Unexpired[d] = groups[d] \/ Unexpired[d] = None
      BY DEF Unexpired
    <3> QED
      BY <2>1, <3>2, <3>3 DEF Groups
  <2>2. ASSUME NEW f \in Groups', f \notin Groups
        PROVE  /\ token[u] # f /\ (call[u] # NoCall => call[u].of # f)
               /\ RevisionOf(saved[BrowserOf[u]], f) = 0
    BY <1>1, <1>2, <2>2 DEF SessionInv, Issued, RevisionOf
  <2> QED
    BY <2>1, <2>2
<1>5. Informed(u)'
  <2> SUFFICES ASSUME NEW f \in Groups'
               PROVE  /\ u \in open' /\ token'[u] = f /\ known'[u] = groups'[f].rev => Holds(f, mine[u])'
                      /\ RevisionOf(saved[BrowserOf[u]], f)' = groups'[f].rev => Holds(f, saved[BrowserOf[u]].state)'
                      /\ call'[u] # NoCall /\ call'[u].of = f =>
                            /\ call'[u].phase = "sent" /\ call'[u].known = groups'[f].rev => Holds(f, mine[u])'
                            /\ call'[u].phase = "full" /\ call'[u].rev = groups'[f].rev => Holds(f, call[u].state)'
                            /\ call'[u].phase = "short" /\ call'[u].rev = groups'[f].rev => Holds(f, mine[u])'
    BY DEF Informed
  <2>1. CASE f \in Groups
    <3>1. groups'[f] = groups[f]
      BY <1>2, <2>1 DEF Unissued
    <3> QED
      BY <1>1, <2>1, <3>1 DEF Informed, Holds, tabVars, RevisionOf
  <2>2. CASE f \notin Groups
    BY <1>1, <1>4, <2>2 DEF tabVars, RevisionOf
  <2> QED
    BY <2>1, <2>2
<1> QED
  BY <1>3, <1>5

--------------------------------------------------------------------------------
(* The steps of ReadSync within a session.                                   *)

LEMMA StepSaves ==
    ASSUME SessionInv, [Next]_vars, NEW b \in Browsers
    PROVE  /\ saved'[b].token = saved[b].token
           /\ saved'[b].mark.of \in {saved[b].mark.of, None} \cup {token[t] : t \in Tabs}
<1>1. saved \in [Browsers -> Histored] /\ \A t \in Tabs : BrowserOf[t] \in Browsers
  BY SessionFacts
<1>2. CASE UNCHANGED saved
  BY <1>2
<1>3. ASSUME NEW t \in Tabs, Open(t)
      PROVE  saved'[b].token = saved[b].token /\ saved'[b].mark = saved[b].mark
  <2>1. \E st : saved' = [saved EXCEPT ![BrowserOf[t]] = [state |-> st, token |-> saved[BrowserOf[t]].token,
                                                         mark |-> saved[BrowserOf[t]].mark]]
    BY <1>1, <1>3 DEF Open, Load
  <2> QED
    BY <1>1, <2>1
<1>4. ASSUME NEW t \in Tabs, NEW s \in Stories, Mark(t, s)
      PROVE  saved'[b].token = saved[b].token /\ saved'[b].mark = saved[b].mark
  BY <1>1, <1>4 DEF Mark, Histored
<1>5. ASSUME NEW t \in Tabs, Receive(t)
      PROVE  /\ saved'[b].token = saved[b].token
             /\ saved'[b].mark.of \in {saved[b].mark.of, None, token[t]}
  <2> DEFINE c == BrowserOf[t]
  <2>1. saved' = saved \/ \E st, mk : /\ saved' = [saved EXCEPT ![c].state = st, ![c].mark = mk]
                                      /\ mk \in {saved[c].mark, Marked(token[t], call[t].rev)}
    <3>1. CASE ~ Counts(t)
      BY <1>5, <3>1 DEF Receive
    <3>2. CASE Counts(t)
      <4> DEFINE new == IF Applies(call[t]) /\ call[t].phase = "full" THEN Absorb(mine[t], call[t].state, page[t], now) ELSE mine[t]
                 st == IF new # mine[t] THEN new ELSE saved[c].state
                 mk == IF Advances(call[t]) THEN Marked(token[t], call[t].rev) ELSE saved[c].mark
      <4>1. saved' = [saved EXCEPT ![c].state = IF new # mine[t] THEN new ELSE @,
                                   ![c].mark = IF Advances(call[t]) THEN Marked(token[t], call[t].rev) ELSE @]
        BY <1>5, <3>2 DEF Receive
      <4>2. saved' = [saved EXCEPT ![c].state = st, ![c].mark = mk]
        <5>1. saved[c] \in Histored /\ c \in Browsers
          BY <1>1
        <5> HIDE DEF new, c
        <5> QED
          BY <1>1, <4>1, <5>1 DEF Histored
      <4>3. mk \in {saved[c].mark, Marked(token[t], call[t].rev)}
        OBVIOUS
      <4> HIDE DEF st, mk
      <4> QED
        BY <4>2, <4>3
    <3> QED
      BY <3>1, <3>2
  <2>2. CASE saved' = saved
    BY <2>2
  <2>3. ASSUME NEW st, NEW mk, saved' = [saved EXCEPT ![c].state = st, ![c].mark = mk],
               mk \in {saved[c].mark, Marked(token[t], call[t].rev)}
        PROVE  /\ saved'[b].token = saved[b].token
               /\ saved'[b].mark.of \in {saved[b].mark.of, None, token[t]}
    <3>1. mk.of \in {saved[c].mark.of, None, token[t]}
      BY <2>3 DEF Marked, NoMark
    <3>2. DOMAIN saved = Browsers /\ \A d \in Browsers : DOMAIN saved[d] = {"state", "token", "mark"}
      BY <1>1 DEF Histored
    <3>3. saved'[b].token = saved[b].token /\ saved'[b].mark = IF b = c THEN mk ELSE saved[b].mark
      <4> HIDE DEF c
      <4> QED
        BY <2>3, <3>2
    <3> QED
      BY <3>1, <3>3
  <2> QED
    BY <2>1, <2>2, <2>3
<1>6. ASSUME NEW t \in Tabs, Abort(t) \/ Serve(t) \/ Send(t) \/ Close(t) PROVE UNCHANGED saved
  BY <1>6 DEF Abort, Serve, Send, Close
<1>7. CASE Around \/ UNCHANGED vars
  BY <1>2, <1>7 DEF Around, Tick, ServeStray, CleanupSelect, CleanupUpdate, Rewrite, vars
<1> QED
  BY <1>2, <1>3, <1>4, <1>5, <1>6, <1>7 DEF Next, PageStep

LEMMA StepCalls ==
    ASSUME SessionInv, [Next]_vars, NEW t \in Tabs
    PROVE  /\ token'[t] \in {token[t], None, saved[BrowserOf[t]].token}
           /\ call'[t] # NoCall =>
                \/ call[t] # NoCall /\ call'[t].of = call[t].of
                \/ call'[t].of \in Tokens /\ call'[t].of \in {token[t], saved[BrowserOf[t]].token}
<1>1. /\ token \in [Tabs -> Tokens \cup {None}] /\ call \in [Tabs -> Calls] /\ NoCall.phase = "none" /\ None \notin Tokens
      /\ saved[BrowserOf[t]] \in Histored
  BY SessionFacts DEF NoCall
<1>2. CASE UNCHANGED <<token, call>>
  BY <1>2
<1>3. CASE Around \/ UNCHANGED vars
  BY <1>2, <1>3 DEF Around, Tick, ServeStray, CleanupSelect, CleanupUpdate, Rewrite, tabVars, vars
<1>4. ASSUME NEW u \in Tabs, (\E s \in Stories : Mark(u, s)) PROVE UNCHANGED <<token, call>>
  BY <1>4 DEF Mark
<1>5. ASSUME NEW u \in Tabs, Receive(u) \/ Abort(u)
      PROVE  token' = token /\ (call'[t] = call[t] \/ call'[t] = NoCall)
  BY <1>1, <1>5 DEF Receive, Abort
<1>6. ASSUME NEW u \in Tabs, Close(u)
      PROVE  token'[t] \in {token[t], None} /\ (call'[t] = call[t] \/ call'[t] = NoCall)
  BY <1>1, <1>6 DEF Close
<1>7. ASSUME NEW u \in Tabs, Serve(u)
      PROVE  token' = token /\ (call'[t] = call[t] \/ (call[t] # NoCall /\ call'[t].of = call[t].of))
  <2>1. /\ call[u].phase = "sent" /\ token' = token
        /\ \E x, y : call' = [call EXCEPT ![u] = Answer(call[u], x, y)]
    BY <1>1, <1>7 DEF Serve
  <2>2. \A x, y : Answer(call[u], x, y).of = call[u].of
    BY DEF Answer
  <2> QED
    BY <1>1, <2>1, <2>2
<1>8. ASSUME NEW u \in Tabs, Send(u)
      PROVE  token' = token /\ (call'[t] = call[t] \/ (call'[t].of = token[t] /\ token[t] # None))
  <2>1. /\ token[u] # None /\ token' = token
        /\ \E p : call' = [call EXCEPT ![u] = [phase |-> "sent", of |-> token[u], state |-> p, known |-> known[u], why |-> "timer"]]
    BY <1>8 DEF Send, Request
  <2> QED
    BY <1>1, <2>1
<1>9. ASSUME NEW u \in Tabs, Open(u)
      PROVE  /\ token'[t] \in {token[t], saved[BrowserOf[t]].token}
             /\ call'[t] = call[t] \/ (call'[t].of = saved[BrowserOf[t]].token /\ saved[BrowserOf[t]].token # None)
  <2> DEFINE g == saved[BrowserOf[u]].token
  <2>1. /\ token' = [token EXCEPT ![u] = g]
        /\ \/ call' = call
           \/ g # None /\ \E p, k : call' = [call EXCEPT ![u] = [phase |-> "sent", of |-> g, state |-> p, known |-> k, why |-> "load"]]
    BY <1>9 DEF Open, Load, Request
  <2> QED
    BY <1>1, <2>1
<1>10. token[t] \in Tokens \cup {None} /\ saved[BrowserOf[t]].token \in Tokens \cup {None}
  BY <1>1 DEF Histored
<1>11. ASSUME NEW u \in Tabs, PageStep(u) \/ Send(u) \/ Close(u)
       PROVE  /\ token'[t] \in {token[t], None, saved[BrowserOf[t]].token}
              /\ call'[t] # NoCall =>
                   \/ call[t] # NoCall /\ call'[t].of = call[t].of
                   \/ call'[t].of \in Tokens /\ call'[t].of \in {token[t], saved[BrowserOf[t]].token}
  BY <1>2, <1>4, <1>5, <1>6, <1>7, <1>8, <1>9, <1>10, <1>11 DEF PageStep
<1> QED
  BY <1>2, <1>3, <1>11 DEF Next

LEMMA StepIssued == ASSUME SessionInv, [Next]_vars, UNCHANGED links PROVE Issued'
<1>1. Issued /\ links \subseteq Tokens /\ None \notin Tokens /\ \A t \in Tabs : BrowserOf[t] \in Browsers
  BY SessionFacts DEF SessionInv
<1>2. ASSUME NEW t \in Tabs PROVE token'[t] \in links \cup {None} /\ (call'[t] # NoCall => call'[t].of \in links)
  BY <1>1, StepCalls DEF Issued
<1>3. ASSUME NEW b \in Browsers PROVE {saved'[b].token, saved'[b].mark.of} \subseteq links \cup {None}
  BY <1>1, StepSaves DEF Issued
<1> QED
  BY <1>2, <1>3 DEF Issued

LEMMA HistoryGrows == ASSUME ReadInv, [Next]_vars PROVE marked \subseteq marked' /\ withheld \subseteq withheld'
BY DEF Next, Around, PageStep, Tick, ServeStray, CleanupSelect, CleanupUpdate, Rewrite,
       Open, Load, Mark, Receive, Abort, Serve, Send, Close, vars, history

\* A step of ReadSync, with what it does to the dialogs.
Steady ==
    /\ [QuietNext]_vars
    /\ UNCHANGED <<created, links>>
    /\ joining' \subseteq Tabs /\ told' \subseteq Tabs /\ asking' \in [Tabs -> Asks]
    /\ \A t \in Tabs : /\ asking'[t] \in {asking[t], NoAsk} \/ asking'[t].phase = "delete"
                       /\ t \in joining' \/ asking'[t] # NoAsk => t \in open'

LEMMA SteadySession == ASSUME SessionInv, Steady PROVE SessionInv'
<1>1. ReadInv /\ RevInv /\ [QuietNext]_vars /\ [Next]_vars
  BY DEF SessionInv, Steady, QuietNext
<1>2. ReadInv' /\ RevInv' /\ Onward
  BY <1>1, StepBacked, StepRevisions, QuietOnward
<1>3. SessionTypeOK'
  BY <1>2 DEF ReadInv, SessionInv, SessionTypeOK, Steady
<1>4. Issued'
  BY <1>1, StepIssued DEF Steady
<1>5. marked \subseteq marked' /\ withheld \subseteq withheld'
  BY <1>1, HistoryGrows
<1>6. ASSUME NEW t \in Tabs PROVE Asking(t)'
  <2>1. asking'[t] = asking[t] \/ asking'[t].phase \notin {"create", "created"}
    BY SessionFacts DEF Steady
  <2>2. t \in joining' \/ asking'[t] # NoAsk => t \in open'
    BY DEF Steady
  <2> QED
    BY <1>2, <1>5, <2>1, <2>2, AskingStays
<1> QED
  BY <1>2, <1>3, <1>4, <1>6 DEF SessionInv

\* Only a page that closes stops being open.
LEMMA StaysOpen ==
    ASSUME NEW t \in Tabs, Around \/ (\E u \in Tabs : PageStep(u) \/ Send(u)) \/ UNCHANGED vars, t \in open
    PROVE  t \in open'
BY DEF Around, PageStep, Tick, ServeStray, CleanupSelect, CleanupUpdate, Rewrite,
       Open, Load, Mark, Receive, Abort, Serve, Send, vars, tabVars

LEMMA PlainSteady ==
    ASSUME SessionInv, Undisturbed, UNCHANGED session,
           Around \/ (\E t \in Tabs : PageStep(t) \/ Send(t)) \/ UNCHANGED vars
    PROVE  Steady
<1>1. [QuietNext]_vars
  BY DEF QuietNext, Next
<1>2. /\ joining \subseteq Tabs /\ told \subseteq Tabs /\ asking \in [Tabs -> Asks]
      /\ \A t \in Tabs : t \in joining \/ asking[t] # NoAsk => t \in open
  BY SessionFacts DEF SessionInv, Asking
<1>3. \A t \in Tabs : t \in open => t \in open'
  BY StaysOpen
<1> QED
  BY <1>1, <1>2, <1>3 DEF Steady, session

LEMMA CloseSteady == ASSUME SessionInv, Undisturbed, NEW t \in Tabs, CloseSession(t) PROVE Steady
<1>1. [QuietNext]_vars
  BY DEF QuietNext, Next, CloseSession
<1>2. /\ open' = open \ {t} /\ asking' = [asking EXCEPT ![t] = NoAsk] /\ joining' = joining \ {t} /\ told' = told \ {t}
      /\ UNCHANGED <<created, links>>
  BY DEF CloseSession, Close
<1>3. /\ joining \subseteq Tabs /\ told \subseteq Tabs /\ asking \in [Tabs -> Asks] /\ NoAsk \in Asks
      /\ \A u \in Tabs : u \in joining \/ asking[u] # NoAsk => u \in open
  BY SessionFacts DEF SessionInv, Asking
<1>4. asking' \in [Tabs -> Asks] /\ \A u \in Tabs : asking'[u] = IF u = t THEN NoAsk ELSE asking[u]
  BY <1>2, <1>3
<1> QED
  BY <1>1, <1>2, <1>3, <1>4 DEF Steady

LEMMA DialogSteady ==
    ASSUME SessionInv, NEW t \in Tabs, AskDelete(t) \/ AskFails(t) \/ (Join(t) /\ token[t] = None)
    PROVE  Steady
<1>1. /\ joining \subseteq Tabs /\ told \subseteq Tabs /\ asking \in [Tabs -> Asks] /\ NoAsk \in Asks
      /\ token \in [Tabs -> Tokens \cup {None}]
      /\ \A u \in Tabs : u \in joining \/ asking[u] # NoAsk => u \in open
  BY SessionFacts DEF SessionInv, Asking
<1>2. CASE AskDelete(t)
  <2> DEFINE a == [phase |-> "delete", of |-> token[t]]
  <2>1. a \in Asks /\ a.phase = "delete"
    BY <1>1, <1>2 DEF AskDelete, Asks
  <2> HIDE DEF a
  <2>2. asking' = [asking EXCEPT ![t] = a] /\ t \in open /\ UNCHANGED <<vars, joining, created, links, told>>
    BY <1>2 DEF AskDelete, Ready, a
  <2>3. asking' \in [Tabs -> Asks] /\ \A u \in Tabs : asking'[u] = IF u = t THEN a ELSE asking[u]
    BY <1>1, <2>1, <2>2
  <2> QED
    BY <1>1, <2>1, <2>2, <2>3 DEF Steady, vars, tabVars
<1>3. CASE AskFails(t)
  <2>1. asking' \in [Tabs -> Asks] /\ \A u \in Tabs : asking'[u] = IF u = t THEN NoAsk ELSE asking[u]
    BY <1>1, <1>3 DEF AskFails
  <2> QED
    BY <1>1, <1>3, <2>1 DEF AskFails, Steady, vars, tabVars
<1>4. CASE Join(t) /\ token[t] = None
  BY <1>1, <1>4 DEF Join, Steady, vars, tabVars
<1> QED
  BY <1>2, <1>3, <1>4

LEMMA AskCreateSession == ASSUME SessionInv, NEW t \in Tabs, AskCreate(t) PROVE SessionInv'
<1>1. /\ ReadInv /\ RevInv /\ Issued /\ now \in Nat /\ mine[t] \in Histories /\ OK(mine[t]) /\ asking \in [Tabs -> Asks]
      /\ \A u \in Tabs : Asking(u)
  BY SessionFacts, StateFacts DEF SessionInv, ReadInv, AllBacked
<1>2. PICK p \in Payloads(mine[t], page[t], now) : asking' = [asking EXCEPT ![t] = [phase |-> "create", state |-> p]]
  BY DEF AskCreate
<1>3. p \in Histories /\ OK(p)
  BY <1>1, SentBacked DEF OK
<1> DEFINE a == [phase |-> "create", state |-> p]
<1>4. a \in Asks /\ a.phase = "create" /\ a.state = p
  BY <1>3 DEF Asks
<1> HIDE DEF a
<1>5. asking' = [asking EXCEPT ![t] = a]
  BY <1>2 DEF a
<1>6. asking' \in [Tabs -> Asks] /\ \A u \in Tabs : asking'[u] = IF u = t THEN a ELSE asking[u]
  BY <1>1, <1>4, <1>5
<1>7. t \in open /\ UNCHANGED <<vars, joining, created, links, told>>
  BY DEF AskCreate, Ready
<1>8. ReadInv' /\ RevInv'
  BY <1>1, <1>7, StepBacked, StepRevisions
<1>9. SessionTypeOK' /\ Issued'
  BY <1>6, <1>7, <1>8 DEF ReadInv, SessionInv, SessionTypeOK, Issued, vars, tabVars
<1>10. ASSUME NEW u \in Tabs PROVE Asking(u)'
  BY <1>1, <1>3, <1>4, <1>6, <1>7 DEF Asking, Holds, OK, Groups, vars, tabVars, history
<1> QED
  BY <1>8, <1>9, <1>10 DEF SessionInv

\* The kinds of steps of a session.
LEMMA SessionCases ==
    ASSUME SessionInv, [SessionNext /\ Undisturbed]_allVars
    PROVE  \/ Steady \/ Retoken
           \/ \E t \in Tabs : AskCreate(t) \/ OpenLink(t) \/ Created(t)
           \/ \E t \in Tabs, c \in Calls : CallStep(t, c)
           \/ Undisturbed /\ (Peer \/ CleanupDelete \/ \E t \in Tabs : ServeDelete(t) \/ ServeCreate(t))
<1>1. CASE UNCHANGED allVars
  <2>1. UNCHANGED vars /\ UNCHANGED session /\ groups' = groups
    BY <1>1 DEF allVars, vars
  <2> QED
    BY <2>1, PlainSteady DEF Undisturbed
<1>2. CASE SessionNext /\ Undisturbed
  <2>1. CASE (Around \/ \E t \in Tabs : PageStep(t)) /\ UNCHANGED session
    BY <1>2, <2>1, PlainSteady
  <2>2. ASSUME NEW b \in Browsers, Elsewhere(b) PROVE Retoken
    BY <2>2, ElsewhereRetoken
  <2>3. ASSUME NEW t \in Tabs, Dialog(t)
        PROVE  \/ Steady \/ Retoken \/ AskCreate(t) \/ OpenLink(t) \/ Created(t) \/ ServeDelete(t) \/ ServeCreate(t)
               \/ \E c \in Calls : CallStep(t, c)
    <3>1. SendSession(t) => Steady
      BY <1>2, PlainSteady DEF SendSession
    <3>2. CloseSession(t) => Steady
      BY <1>2, CloseSteady
    <3>3. AskDelete(t) \/ AskFails(t) => Steady
      BY DialogSteady
    <3>4. Join(t) => Steady \/ \E c \in Calls : CallStep(t, c)
      BY DialogSteady, JoinCalls
    <3>5. NoGroup(t) => \E c \in Calls : CallStep(t, c)
      BY NoGroupCalls
    <3>6. FollowLink(t) \/ Disconnect(t) \/ Deleted(t) \/ Notice(t) => Retoken
      BY FollowRetoken, ForgetRetoken, NoticeRetoken
    <3> QED
      BY <2>3, <3>1, <3>2, <3>3, <3>4, <3>5, <3>6 DEF Dialog
  <2> QED
    BY <1>2, <2>1, <2>2, <2>3 DEF SessionNext
<1> QED
  BY <1>1, <1>2

LEMMA SessionStep == ASSUME SessionInv, [SessionNext /\ Undisturbed]_allVars PROVE SessionInv'
<1>1. CASE Peer /\ Undisturbed
  BY <1>1, PeerRows, RowsSession
<1>2. CASE Undisturbed /\ (CleanupDelete \/ \E t \in Tabs : ServeDelete(t))
  BY <1>2, DeleteRows, RowsSession
<1>3. ASSUME NEW t \in Tabs, AskCreate(t) \/ OpenLink(t) \/ Created(t) \/ (ServeCreate(t) /\ Undisturbed)
             \/ \E c \in Calls : CallStep(t, c)
      PROVE  SessionInv'
  BY <1>3, AskCreateSession, OpenLinkSession, CreatedSession, CreateSession, CallSession
<1>4. CASE Steady \/ Retoken
  BY <1>4, SteadySession, RetokenSession
<1> QED
  BY <1>1, <1>2, <1>3, <1>4, SessionCases

LEMMA SessionInitially == ASSUME SessionInit PROVE SessionInv /\ AppliedInv
<1> DEFINE g == CHOOSE g \in Tokens : TRUE
           read == [Empty EXCEPT !.reads = [s \in Stories |-> IF s \in marked THEN now ELSE 0], !.ordered = marked]
           row == [state |-> read, rev |-> 1, until |-> Until]
<1>1. /\ now = 1 /\ marked \subseteq Published
      /\ groups = [f \in Tokens |-> IF f = g THEN row ELSE None] /\ links = {g}
      /\ saved = [b \in Browsers |-> [state |-> Empty, token |-> None, mark |-> NoMark]]
      /\ asking = [t \in Tabs |-> NoAsk] /\ joining = {} /\ told = {}
      /\ created = [d \in 0 .. MaxNow \div DayLength |-> 0]
  BY DEF SessionInit
<1>2. /\ open = {} /\ dirty = {} /\ page = [t \in Tabs |-> {}] /\ mine = [t \in Tabs |-> Empty]
      /\ token = [t \in Tabs |-> None] /\ known = [t \in Tabs |-> 0] /\ call = [t \in Tabs |-> NoCall]
      /\ stray = {} /\ cleaner = Idle /\ withheld = {}
  BY DEF SessionInit, InitTabs
<1>3. g \in Tokens /\ marked \subseteq Stories /\ marked \subseteq {1}
  <2>1. \A s \in marked : s \in Stories /\ s \in Nat \ {0} /\ s <= 1
    BY <1>1 DEF Published
  <2> QED
    BY <2>1
<1>4. /\ read \in Histories /\ read.upto = 0 /\ read.ordered = marked
      /\ \A s \in Stories : read.reads[s] = IF s \in marked THEN 1 ELSE 0
  BY <1>1, <1>3 DEF Empty, Histories
<1> HIDE DEF read
<1>5. Entries(read) = marked /\ Cardinality(Entries(read)) <= MaxReads
  <2>1. Entries(read) = marked
    BY <1>3, <1>4 DEF Entries
  <2>2. IsFiniteSet({1}) /\ Cardinality({1}) = 1
    BY FS_Singleton
  <2>3. IsFiniteSet(marked) /\ Cardinality(marked) <= Cardinality({1})
    BY <1>3, <2>2, FS_Subset
  <2>4. Cardinality(marked) \in Nat
    BY <2>3, FS_CardinalityType
  <2> QED
    BY <2>1, <2>2, <2>3, <2>4
<1>6. OK(read) /\ OK(Empty) /\ Complete({}, now, withheld)
  <2>1. 0 <= now /\ \A s \in Stories : s \in Nat /\ ~(s <= 0)
    BY <1>1
  <2>2. OK(read)
    BY <1>1, <1>3, <1>4, <2>1 DEF OK, Backed, Sound
  <2>3. OK(Empty) /\ Complete({}, now, withheld)
    BY <2>1, EmptyHistory DEF OK, Backed, Sound, Complete
  <2> QED
    BY <2>2, <2>3
<1>7. /\ row \in [state : Histories, rev : Nat \ {0}, until : Nat]
      /\ row.state = read /\ row.rev = 1
  <2>1. Until \in Nat /\ 1 \in Nat \ {0}
    BY <1>1 DEF Until
  <2> QED
    BY <1>4, <2>1
<1>8. NoCall \in Calls /\ NoCall.phase = "none" /\ NoMark \in [of : Tokens \cup {None}, rev : Nat] /\ NoMark.of = None
      /\ NoMark.rev = 0 /\ NoAsk \in Asks /\ NoAsk.phase = "none"
  BY DEF Calls, NoCall, NoMark, NoAsk, Asks
<1> HIDE DEF row
<1>9. Groups \subseteq {g} /\ Groups \subseteq Tokens /\ (Groups # {} => groups[g] = row)
  BY <1>1 DEF Groups
<1>10. TypeOK
  <2>1. DOMAIN groups = Tokens /\ \A f \in Groups :
          /\ groups[f] \in [state : Histories, rev : Nat \ {0}, until : Nat]
          /\ groups[f].state.ordered \subseteq Entries(groups[f].state)
    BY <1>1, <1>4, <1>5, <1>7, <1>9
  <2>2. now \in 1 .. MaxNow
    BY <1>1
  <2>3. saved \in [Browsers -> [state : Histories, token : Tokens \cup {None}, mark : [of : Tokens \cup {None}, rev : Nat]]]
    BY <1>1, <1>8, EmptyHistory
  <2> QED
    BY <1>1, <1>2, <1>3, <1>8, <2>1, <2>2, <2>3, EmptyHistory DEF TypeOK
<1>11. ReadInv
  <2>1. AllBacked
    BY <1>1, <1>2, <1>6, <1>7, <1>8, <1>9 DEF AllBacked
  <2> QED
    BY <1>2, <1>6, <1>10, <2>1 DEF ReadInv, Built
<1>12. RevInv
  <2>1. \A f \in Groups : f # None /\ groups[f].rev = 1 /\ Cardinality(Entries(groups[f].state)) <= MaxReads
    BY <1>5, <1>7, <1>9
  <2>2. ASSUME NEW f \in Groups, NEW k \in Nat, Heard(f, k) PROVE k <= 1
    BY <1>1, <1>2, <1>8, <2>1, <2>2 DEF Heard
  <2> QED
    BY <1>2, <2>1, <2>2 DEF RevInv, SelectedRow
<1>13. SessionTypeOK
  <2>1. \A d \in DOMAIN created : created[d] \in 0 .. MaxDaily
    BY <1>1, SyncSessionAssumption
  <2> QED
    BY <1>1, <1>3, <1>8, <1>10, <2>1 DEF SessionTypeOK
<1>14. Issued
  BY <1>1, <1>2, <1>8 DEF Issued
<1>15. \A t \in Tabs : Asking(t)
  BY <1>1, <1>8 DEF Asking
<1>16. ASSUME NEW t \in Tabs PROVE Coupled(t) /\ Informed(t)
  <2>1. BrowserOf[t] \in Browsers /\ \A f \in Groups : f # None /\ groups[f].rev = 1
    BY <1>7, <1>9 DEF Browsers
  <2>2. \A f \in Groups : RevisionOf(saved[BrowserOf[t]], f) = 0
    BY <1>1, <1>8, <2>1 DEF RevisionOf
  <2> QED
    BY <1>2, <1>8, <2>1, <2>2 DEF Coupled, Informed
<1> QED
  BY <1>11, <1>12, <1>13, <1>14, <1>15, <1>16 DEF SessionInv, AppliedInv

LEMMA SessionApplied ==
    ASSUME OnePage, SessionInv, AppliedInv, [SessionNext /\ Undisturbed]_allVars
    PROVE  AppliedInv'
<1>1. SessionInv'
  BY SessionStep
<1>2. CASE Steady
  BY <1>2, StepApplied DEF Steady
<1>3. CASE Retoken
  BY <1>1, <1>3, RetokenApplied DEF AppliedInv, SessionInv
<1>4. ASSUME NEW t \in Tabs, AskCreate(t) PROVE AppliedInv'
  BY <1>4, StepApplied DEF AskCreate
<1>5. ASSUME NEW t \in Tabs,
             OpenLink(t) \/ Created(t) \/ ServeCreate(t) \/ \E c \in Calls : CallStep(t, c)
      PROVE  AppliedInv'
  <2>1. \A u \in Tabs : (Coupled(u) /\ Informed(u))'
    BY <1>5, OpenLinkApplied, CreatedApplied, CreateApplied, CallApplied
  <2> QED
    BY <1>1, <2>1 DEF AppliedInv, SessionInv
<1>6. CASE Peer \/ CleanupDelete \/ \E t \in Tabs : ServeDelete(t)
  <2>1. RowsAdvance /\ RowStep
    BY <1>6, PeerRows, DeleteRows
  <2> QED
    BY <1>1, <2>1, RowsApplied DEF AppliedInv, SessionInv
<1> QED
  BY <1>2, <1>3, <1>4, <1>5, <1>6, SessionCases

\* Through new, followed, forgotten and deleted groups, whose tokens come by
\* links, dialogs and storage events and may be issued again once a row has
\* expired unseen, every history has reads behind it, and nobody has a revision
\* that its row has not had (setSyncToken, createSyncGroup, disconnectSync,
\* createGroup, deleteGroup, the storage listener).
THEOREM SessionInvariant == SessionSpec => []SessionInv
<1>1. SessionInit => SessionInv
  BY SessionInitially
<1>2. SessionInv /\ [SessionNext /\ Undisturbed]_allVars => SessionInv'
  BY SessionStep
<1> QED
  BY <1>1, <1>2, PTL DEF SessionSpec

\* The dialogs, links and counters of a session, too, have the shape the code
\* gives them; the number of groups created in a day stays within its limit
\* (createGroup).
THEOREM SessionTypes == SessionSpec => []SessionTypeOK
<1>1. SessionInv => SessionTypeOK
  BY DEF SessionInv
<1> QED
  BY <1>1, SessionInvariant, PTL

\* The short answer hides nothing either when pages get their tokens by links,
\* dialogs and storage events, disconnect, and meet answers to requests they
\* sent for another group (setSyncToken, loadSyncRevision, createSyncGroup, the
\* token checks of synchronizeReads, the early return of mergeGroup).
THEOREM SessionHidesNothing ==
    ASSUME OnePage
    PROVE  SessionSpec => []RevisionMeansApplied
<1>1. SessionInit => SessionInv /\ AppliedInv
  BY SessionInitially
<1>2. SessionInv /\ AppliedInv /\ [SessionNext /\ Undisturbed]_allVars => (SessionInv /\ AppliedInv)'
  BY SessionStep, SessionApplied
<1>3. AppliedInv => RevisionMeansApplied
  BY AppliedMeans
<1> QED
  BY <1>1, <1>2, <1>3, PTL DEF SessionSpec

\* No page shows a story as read that no reader of the group has read, whatever
\* groups it has been in (mergeRemoteState, createSyncGroup, normalizeState).
THEOREM SessionUnreadStaysVisible == SessionSpec => []NeverHiddenUnread
<1>1. SessionInv => NeverHiddenUnread
  BY BackedMeans DEF SessionInv
<1> QED
  BY <1>1, SessionInvariant, PTL

LEMMA SessionRows ==
    ASSUME SessionInv, [SessionNext /\ Undisturbed]_allVars, NEW g \in Groups, groups'[g] # None
    PROVE  /\ groups'[g].state # groups[g].state => groups'[g].rev = groups[g].rev + 1
           /\ LoseOldest(g)
<1>1. ReadInv /\ RevInv /\ g \in Tokens /\ DOMAIN groups = Tokens
  BY SessionFacts, RowFacts DEF SessionInv, TypeOK
<1>2. RowsAdvance => (groups'[g].state # groups[g].state => groups'[g].rev = groups[g].rev + 1)
  BY <1>1 DEF RowsAdvance, Groups
<1>3. CASE Steady
  BY <1>1, <1>2, <1>3, QuietRows, StepForgets DEF Steady
<1>4. CASE groups'[g] = groups[g]
  BY <1>4, SameContent
<1>5. CASE Retoken \/ (\E t \in Tabs : AskCreate(t) \/ OpenLink(t) \/ Created(t)) \/ \E t \in Tabs, c \in Calls : CallStep(t, c)
  BY <1>4, <1>5 DEF Retoken, AskCreate, vars, OpenLink, Load, Created, CallStep
<1>6. CASE CleanupDelete \/ \E t \in Tabs : ServeDelete(t)
  BY <1>1, <1>4, <1>6 DEF CleanupDelete, ServeDelete, Unexpired
<1>7. ASSUME NEW t \in Tabs, ServeCreate(t) PROVE groups'[g] = groups[g]
  <2>1. Unexpired[g] = groups[g] \/ Unexpired[g] = None
    BY <1>1 DEF Unexpired
  <2>2. ASSUME NEW new \in Unissued, NEW n,
               groups' = [Unexpired EXCEPT ![new] = [state |-> n, rev |-> 1, until |-> Until]]
        PROVE  groups'[g] = groups[g]
    <3>1. g # new /\ DOMAIN Unexpired = Tokens
      BY DEF Unissued, Unexpired
    <3> QED
      BY <1>1, <2>1, <2>2, <3>1
  <2> QED
    BY <1>7, <2>2, CreateFacts
<1>8. CASE Peer
  <2>1. PICK f \in Tokens, payload \in Histories : Sound(payload) /\ MergeGroup(f, payload) /\ UNCHANGED now
    BY <1>8, PeerMerges
  <2> QED
    BY <1>1, <1>2, <2>1, MergeRows, MergeForgets
<1> QED
  BY <1>3, <1>4, <1>5, <1>6, <1>7, <1>8, SessionCases

\* A row that changes gets a revision that no page and no browser has been
\* given, also when its group is new or other members merge into it.
THEOREM SessionRevisionsName == SessionSpec => RevisionNamesContent
<1>1. SessionInv /\ [SessionNext /\ Undisturbed]_allVars =>
        \A g \in Groups : groups'[g] # None /\ groups'[g].state # groups[g].state =>
           /\ \A t \in Tabs : token[t] = g => groups'[g].rev # known[t]
           /\ \A b \in Browsers : groups'[g].rev # RevisionOf(saved[b], g)
  <2> SUFFICES ASSUME SessionInv, [SessionNext /\ Undisturbed]_allVars,
                      NEW g \in Groups, groups'[g] # None, groups'[g].state # groups[g].state
               PROVE  /\ \A t \in Tabs : token[t] = g => groups'[g].rev # known[t]
                      /\ \A b \in Browsers : groups'[g].rev # RevisionOf(saved[b], g)
    OBVIOUS
  <2>1. groups'[g].rev = groups[g].rev + 1
    BY SessionRows
  <2> QED
    BY <2>1, LaterUnknown DEF SessionInv
<1> QED
  BY <1>1, SessionInvariant, PTL DEF SessionSpec, RevisionNamesContent

\* The origin forgets a read only for the limit on reads, also what other
\* members of a group have read.
THEOREM SessionOldestForgotten == SessionSpec => ForgetsOnlyOldest
<1>1. SessionInv /\ [SessionNext /\ Undisturbed]_allVars => \A g \in Groups : groups'[g] # None => LoseOldest(g)
  BY SessionRows
<1> QED
  BY <1>1, SessionInvariant, PTL DEF SessionSpec, ForgetsOnlyOldest, LoseOldest
================================================================================
