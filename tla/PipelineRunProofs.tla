--------------------------- MODULE PipelineRunProofs ----------------------------
(***************************************************************************)
(* What PipelineRun promises, for any articles and events, any number of   *)
(* faults and merges, and collection at any moment.                        *)
(***************************************************************************)
EXTENDS PipelineRun, FiniteSetTheorems, TLAPS

USE EventStoreAssumption, NoneAssumption

StoreType ==
    /\ stage \in [Articles -> Stages]
    /\ owner \in [Articles -> Events \cup {None}]
    /\ failures \in [Articles -> 0 .. MaxFailures]
    /\ row \in [Events -> {"none", "unset", "updated", "current"}]
    /\ DOMAIN file = Events /\ DOMAIN story = Events /\ DOMAIN rejected = Events
    /\ \A e \in Events :
          /\ file[e] \in Files \cup {None}
          /\ story[e] \in Stories \cup {None}
          /\ rejected[e] \in Rejections \cup {None}
    /\ \A a \in Articles : owner[a] # None => stage[a] = "digested" /\ owner[a] \in Live

RunType ==
    /\ at \in Phases /\ pass \in {"backlog", "prior", "final"}
    /\ collecting \in BOOLEAN /\ snap \subseteq Articles
    /\ queue \subseteq Groups /\ batch \subseteq Events
    /\ op \in Operations \cup {None}

HistoryType ==
    /\ faults \in 0 .. MaxFaults /\ merges \in 0 .. MaxMerges
    /\ torn \subseteq Events /\ leftover \subseteq Events /\ seen \in [Events -> SUBSET Articles]

\* An operation is in the middle of something only in its own stage.
Stepping ==
    op # None =>
       \/ at = "maintain" /\ op.step = "unlink"
       \/ at = "edit" /\ op.step \in {"unreject", "story", "mark"}
       \/ at = "group" /\ op.step \in {"row", "assign"}
       \/ at = "review" /\ op.step \in {"partition", "split files"}
       \/ at = "dedup" /\ op.step \in {"loser file", "loser story", "winner file", "winner row", "requeue"}

\* The collection thread has ended when the final pass begins.
Phased ==
    /\ pass = "final" \/ at \in {"idle", "maintain"} => ~ collecting
    /\ at \in {"idle", "maintain"} => pass = "backlog"
    /\ at \in {"review", "dedup"} => pass = "final"

\* What a stage still has to take, none of it touched by anybody else.
Listed ==
    /\ at \in {"maintain", "review", "edit"} => todo \subseteq Events
    /\ at = "review" => \A e \in todo : file[e] # None
    /\ at = "digest" => \A a \in todo : a \in Limit /\ stage[a] = "collected"
    /\ at = "group" => \A a \in todo : a \in Limit /\ stage[a] = "digested"
    /\ at \notin {"maintain", "review", "edit", "digest", "group"} => todo = {}

\* Articles on their way to event e belong to no other event.
Takes(A, e) == A \subseteq Limit /\ \A a \in A : stage[a] = "digested" /\ owner[a] \in {None, e}

Queued ==
    /\ at # "group" => queue = {}
    /\ \A b \in queue :
          /\ Takes(b.articles, b.event) /\ b.event \in Live \cup {None}
          /\ b.articles \cap todo = {}
          /\ \A c \in queue : b # c => b.articles \cap c.articles = {}

Taken ==
    at = "group" /\ op # None =>
       /\ Takes(op.articles, op.event)
       /\ \A b \in queue : b.articles \cap op.articles = {}
       /\ op.step = "assign" => row[op.event] \in {"unset", "updated"}

Clean(e) == story[e].basis \subseteq Members(e)

\* While an event is being split its story is hidden, and if it was not
\* hidden before, it still rests on the event's articles.
Hiding ==
    At("partition") /\ story[op.event] # None =>
       story[op.event].hidden /\ (op.hidden \/ op.event \in leftover \/ Clean(op.event))

\* A story is clean or hidden, and an event without articles has none.
Told ==
    \A e \in Events \ leftover :
       /\ story[e] # None /\ ~ story[e].hidden => Clean(e)
       /\ Members(e) = {} => story[e] = None

Checked == \A e \in Events \ torn : row[e] = "current" => Members(e) \subseteq seen[e]

Typed == StoreType /\ RunType /\ HistoryType
Control == Stepping /\ Phased /\ Listed
Grouped == Queued /\ Taken
Stored == Hiding /\ Told /\ Checked
RunInv == Typed /\ Control /\ Grouped /\ Stored

--------------------------------------------------------------------------------
(* Frames.                                                                   *)

LEMMA TypedOK == RunInv => TypeOK
<1> SUFFICES ASSUME RunInv PROVE TypeOK
  OBVIOUS
<1>1. todo \subseteq Articles \/ todo \subseteq Events
  <2>1. Limit \subseteq Articles
    BY DEF Limit, RunInv, Typed, RunType
  <2> QED
    BY <2>1 DEF RunInv, Control, Listed
<1> QED
  BY <1>1 DEF RunInv, Typed, StoreType, RunType, HistoryType, TypeOK

\* Outside grouping nothing is queued.
LEMMA NothingQueued == ASSUME queue' = {}, at' # "group" PROVE Grouped'
BY DEF Grouped, Queued, Taken

\* Steps that leave the stories, the checkpoints and the members alone.
LEMMA NothingStored ==
    ASSUME Stored, UNCHANGED <<owner, row, story, torn, leftover, seen>>,
           op' = op \/ op' = None \/ op'.step # "partition"
    PROVE  Stored'
<1>1. \A e : Members(e)' = Members(e) /\ (Clean(e)' <=> Clean(e))
  BY DEF Members, Clean
<1>2. Hiding'
  BY <1>1 DEF Stored, Hiding, At
<1>3. Told' /\ Checked'
  BY <1>1 DEF Stored, Told, Checked
<1> QED
  BY <1>2, <1>3 DEF Stored

LEMMA StepType ==
    ASSUME NEW e \in Events, NEW s \in StepNames
    PROVE  Step(s, e) \in Operations /\ Step(s, e).step = s /\ Step(s, e).event = e /\ Step(s, e) # None
<1>2. Step(s, e) = [step |-> s, event |-> e, other |-> None, articles |-> {}, left |-> {}, hidden |-> FALSE]
  BY DEF Step
<1>3. Step(s, e) \in Operations
  BY <1>2 DEF Operations
<1>4. Step(s, e) # None
  BY <1>3
<1> QED
  BY <1>2, <1>3, <1>4

\* An operation that goes on keeps all but its step.
LEMMA Continued ==
    ASSUME op \in Operations, NEW s \in StepNames,
           Continue(s)
    PROVE  /\ op' \in Operations /\ op'.step = s /\ op'.event = op.event /\ op'.other = op.other
           /\ op'.articles = op.articles /\ op'.hidden = op.hidden /\ op'.left = op.left
BY DEF Continue, Operations

LEMMA InitRun == Init => RunInv
<1> SUFFICES ASSUME Init PROVE RunInv
  OBVIOUS
<1>1. StoreType
  <2>1. /\ stage \in [Articles -> Stages] /\ owner \in [Articles -> Events \cup {None}]
        /\ failures \in [Articles -> 0 .. MaxFailures]
        /\ row \in [Events -> {"none", "unset", "updated", "current"}]
    BY DEF Init, Stages
  <2>2. /\ DOMAIN file = Events /\ DOMAIN story = Events /\ DOMAIN rejected = Events
        /\ \A e \in Events : file[e] = None /\ story[e] = None /\ rejected[e] = None
    BY DEF Init
  <2>3. \A a \in Articles : owner[a] = None
    BY DEF Init
  <2> QED
    BY <2>1, <2>2, <2>3 DEF StoreType
<1>2. RunType
  BY DEF Init, RunType, Phases
<1>0. HistoryType
  BY DEF Init, HistoryType
<1>3. Control /\ Grouped
  BY DEF Init, Control, Stepping, Phased, Listed, Grouped, Queued, Taken
<1>4. Stored
  BY DEF Init, Stored, Hiding, Told, Checked, At
<1> QED
  BY <1>0, <1>1, <1>2, <1>3, <1>4 DEF RunInv, Typed

--------------------------------------------------------------------------------
(* Maintenance.                                                              *)

LEMMA StartStep ==
    ASSUME RunInv, Start
    PROVE  RunInv'
<1>1. StoreType'
  <2>1. PICK cooled \in SUBSET {e \in Events : rejected[e] # None /\ rejected[e].cooling} :
          rejected' = [e \in Events |->
                IF e \in cooled THEN [rejected[e] EXCEPT !.cooling = FALSE] ELSE rejected[e]]
    BY DEF Start
  <2>2. \A e \in Events : rejected'[e] \in Rejections \cup {None}
    <3> SUFFICES ASSUME NEW e \in Events PROVE rejected'[e] \in Rejections \cup {None}
      OBVIOUS
    <3>1. rejected[e] \in Rejections \cup {None}
      BY DEF RunInv, Typed, StoreType
    <3>2. CASE e \in cooled
      <4>1. rejected'[e] = [rejected[e] EXCEPT !.cooling = FALSE]
        BY <2>1, <3>2
      <4>2. rejected[e] \in Rejections
        BY <3>1, <3>2
      <4> QED
        BY <4>1, <4>2 DEF Rejections
    <3>3. CASE e \notin cooled
      BY <2>1, <3>1, <3>3
    <3> QED
      BY <3>2, <3>3
  <2>3. DOMAIN rejected' = Events
    BY <2>1
  <2> QED
    BY <2>2, <2>3 DEF Start, RunInv, Typed, StoreType, Live
<1>2. RunType' /\ HistoryType'
  BY DEF Start, history, RunInv, Typed, RunType, HistoryType, Phases
<1>3. queue = {}
  BY DEF Start, RunInv, Grouped, Queued
<1>4. op = None
  BY DEF Start, RunInv, Control, Stepping
<1>5. Control'
  BY <1>4 DEF Start, RunInv, Control, Stepping, Phased, Listed, Live
<1>6. Grouped'
  BY <1>3, NothingQueued DEF Start
<1>7. Stored'
  BY NothingStored DEF Start, history, RunInv
<1> QED
  BY <1>1, <1>2, <1>5, <1>6, <1>7 DEF RunInv, Typed

LEMMA DeleteEmptyStep ==
    ASSUME RunInv, DeleteEmpty
    PROVE  RunInv'
<1>1. PICK e \in todo :
        /\ Members(e) = {}
        /\ row' = [row EXCEPT ![e] = "none"]
        /\ op' = Step("unlink", e)
        /\ todo' = todo \ {e}
  BY DEF DeleteEmpty
<1>2. e \in Events /\ at = "maintain" /\ todo \subseteq Events /\ queue = {}
  BY DEF DeleteEmpty, Unhindered, RunInv, Control, Listed, Grouped, Queued
<1>3. op' \in Operations /\ op'.step = "unlink"
  BY <1>1, <1>2, StepType DEF StepNames
<1>4. /\ row' \in [Events -> {"none", "unset", "updated", "current"}]
      /\ \A d \in Events : row'[d] = IF d = e THEN "none" ELSE row[d]
  BY <1>1, <1>2 DEF RunInv, Typed, StoreType
<1>5. StoreType'
  <2>1. \A a \in Articles : owner[a] # e
    BY <1>1 DEF Members
  <2> QED
    BY <1>4, <2>1 DEF DeleteEmpty, RunInv, Typed, StoreType, Live
<1>6. RunType' /\ HistoryType'
  BY <1>3 DEF DeleteEmpty, history, RunInv, Typed, RunType, HistoryType
<1>7. Control'
  BY <1>1, <1>2, <1>3 DEF DeleteEmpty, RunInv, Control, Stepping, Phased, Listed
<1>8. Grouped'
  BY <1>2, NothingQueued DEF DeleteEmpty
<1>9. Stored'
  <2>1. Told'
    BY DEF DeleteEmpty, history, RunInv, Stored, Told, Clean, Members
  <2>2. Checked'
    BY <1>4 DEF DeleteEmpty, history, RunInv, Stored, Checked, Members
  <2> QED
    BY <1>3, <2>1, <2>2 DEF Stored, Hiding, At
<1> QED
  BY <1>5, <1>6, <1>7, <1>8, <1>9 DEF RunInv, Typed

LEMMA UnlinkEmptyStep ==
    ASSUME RunInv, UnlinkEmpty
    PROVE  RunInv'
<1>1. at = "maintain" /\ queue = {}
  BY DEF UnlinkEmpty, At, RunInv, Control, Stepping, Grouped, Queued
<1>2. StoreType'
  BY DEF UnlinkEmpty, RunInv, Typed, StoreType, Live
<1>3. RunType' /\ HistoryType'
  BY DEF UnlinkEmpty, history, RunInv, Typed, RunType, HistoryType
<1>4. Control'
  BY <1>1 DEF UnlinkEmpty, RunInv, Control, Stepping, Phased, Listed
<1>5. Grouped'
  BY <1>1, NothingQueued DEF UnlinkEmpty
<1>6. Stored'
  BY NothingStored DEF UnlinkEmpty, history, RunInv
<1> QED
  BY <1>2, <1>3, <1>4, <1>5, <1>6 DEF RunInv, Typed

LEMMA ReconcileStep ==
    ASSUME RunInv, Reconcile
    PROVE  RunInv'
<1>1. PICK e \in todo :
        /\ file' = [file EXCEPT ![e] =
              [articles |-> Members(e),
               reviewed |-> IF file[e] = None THEN {} ELSE file[e].reviewed]]
        /\ todo' = todo \ {e}
  BY DEF Reconcile
<1>2. e \in Events /\ at = "maintain" /\ op = None /\ todo \subseteq Events /\ queue = {}
  BY DEF Reconcile, Unhindered, RunInv, Control, Listed, Grouped, Queued
<1>3. StoreType'
  <2>1. [articles |-> Members(e), reviewed |-> IF file[e] = None THEN {} ELSE file[e].reviewed] \in Files
    BY <1>2 DEF RunInv, Typed, StoreType, Files, Members
  <2>2. DOMAIN file' = Events /\ \A d \in Events : file'[d] \in Files \cup {None}
    BY <1>1, <2>1 DEF RunInv, Typed, StoreType
  <2> QED
    BY <2>2 DEF Reconcile, RunInv, Typed, StoreType, Live
<1>4. RunType' /\ HistoryType'
  BY DEF Reconcile, history, RunInv, Typed, RunType, HistoryType
<1>5. Control'
  BY <1>1, <1>2 DEF Reconcile, RunInv, Control, Stepping, Phased, Listed
<1>6. Grouped'
  BY <1>2, NothingQueued DEF Reconcile
<1>7. Stored'
  BY NothingStored DEF Reconcile, history, RunInv
<1> QED
  BY <1>3, <1>4, <1>5, <1>6, <1>7 DEF RunInv, Typed

--------------------------------------------------------------------------------
(* Collection and digests.                                                   *)

LEMMA CollectStep ==
    ASSUME RunInv, NEW a \in Articles, Collect(a)
    PROVE  RunInv'
<1>1. stage' = [stage EXCEPT ![a] = "collected"] /\ stage[a] = "absent" /\ UNCHANGED <<run, history>>
  BY DEF Collect
<1>2. /\ stage' \in [Articles -> Stages]
      /\ \A b \in Articles : stage'[b] = IF b = a THEN "collected" ELSE stage[b]
  BY <1>1 DEF RunInv, Typed, StoreType, Stages
<1>3. StoreType'
  BY <1>1, <1>2 DEF Collect, RunInv, Typed, StoreType, Live
<1>4. RunType' /\ HistoryType'
  BY <1>1 DEF run, history, RunInv, Typed, RunType, HistoryType
<1>5. Limit' = Limit /\ Limit \subseteq Articles
  BY <1>1 DEF run, Limit, RunInv, Typed, RunType
<1>6. Control'
  BY <1>1, <1>2, <1>5 DEF Collect, run, RunInv, Control, Stepping, Phased, Listed
<1>7. \A A, e : Takes(A, e) => Takes(A, e)'
  BY <1>1, <1>2, <1>5 DEF Collect, Takes
<1>8. Queued'
  BY <1>1, <1>7 DEF Collect, run, RunInv, Grouped, Queued, Live
<1>9. Taken'
  BY <1>1, <1>7 DEF Collect, run, RunInv, Grouped, Taken
<1>10. Stored'
  BY <1>1, NothingStored DEF Collect, run, history, RunInv
<1> QED
  BY <1>3, <1>4, <1>6, <1>8, <1>9, <1>10 DEF RunInv, Typed, Grouped

\* A step of the digest stage changes one of its articles, or a count of failures.
LEMMA DigestingStep ==
    ASSUME RunInv, Digest \/ DropArticle \/ DigestFails
    PROVE  RunInv'
<1>1. PICK a \in todo :
        /\ todo' = todo \ {a}
        /\ \/ stage' = [stage EXCEPT ![a] = "digested"] /\ UNCHANGED failures
           \/ stage' = [stage EXCEPT ![a] = "filtered"] /\ UNCHANGED failures
           \/ stage' = stage /\ failures[a] < MaxFailures /\ failures' = [failures EXCEPT ![a] = @ + 1]
  BY DEF Digest, DropArticle, DigestFails
<1>2. /\ at = "digest" /\ at' = "digest" /\ op = None /\ op' = None
      /\ UNCHANGED <<owner, row, file, story, rejected, merges, torn, leftover, seen, pass, collecting, snap, queue, batch>>
      /\ faults' \in {faults, faults + 1} /\ faults' \in 0 .. MaxFaults
  BY DEF Digest, DropArticle, DigestFails, Unhindered, Fault, history, RunInv, Typed, HistoryType
<1>3. /\ a \in Articles /\ stage[a] = "collected" /\ queue = {}
      /\ Limit' = Limit /\ \A b \in todo : b \in Limit /\ stage[b] = "collected"
  <2>1. Limit \subseteq Articles
    BY DEF Limit, RunInv, Typed, RunType
  <2> QED
    BY <1>2, <2>1 DEF Limit, RunInv, Control, Listed, Grouped, Queued
<1>4. owner[a] = None
  BY <1>3 DEF RunInv, Typed, StoreType
<1>5. /\ stage' \in [Articles -> Stages]
      /\ \A b \in Articles \ {a} : stage'[b] = stage[b]
  BY <1>1, <1>3 DEF RunInv, Typed, StoreType, Stages
<1>6. failures' \in [Articles -> 0 .. MaxFailures]
  <2>1. failures \in [Articles -> 0 .. MaxFailures]
    BY DEF RunInv, Typed, StoreType
  <2>2. CASE failures' = failures
    BY <2>1, <2>2
  <2>3. CASE failures[a] < MaxFailures /\ failures' = [failures EXCEPT ![a] = @ + 1]
    <3>1. failures[a] + 1 \in 0 .. MaxFailures
      BY <1>3, <2>1, <2>3
    <3> QED
      BY <2>1, <2>3, <3>1
  <2> QED
    BY <1>1, <2>2, <2>3
<1>7. StoreType'
  BY <1>2, <1>4, <1>5, <1>6 DEF RunInv, Typed, StoreType, Live
<1>8. RunType' /\ HistoryType'
  BY <1>2 DEF RunInv, Typed, RunType, HistoryType
<1>9. Listed'
  <2>1. \A b \in todo' : b \in Limit' /\ stage'[b] = "collected"
    <3>1. Limit \subseteq Articles
      BY DEF Limit, RunInv, Typed, RunType
    <3> QED
      BY <1>1, <1>3, <1>5, <3>1
  <2> QED
    BY <1>2, <2>1 DEF Listed
<1>10. Control'
  BY <1>2, <1>9 DEF RunInv, Control, Stepping, Phased
<1>11. Grouped'
  BY <1>2, <1>3, NothingQueued
<1>12. Stored'
  BY <1>2, NothingStored DEF RunInv
<1> QED
  BY <1>7, <1>8, <1>10, <1>11, <1>12 DEF RunInv, Typed

--------------------------------------------------------------------------------
(* Grouping.                                                                 *)

\* Groups of articles of G, each of them at most of its event, no two with an
\* article in common.
Divided(Q, G) ==
    \A b \in Q :
       /\ b \in Groups /\ b.articles \subseteq G /\ b.event \in Live \cup {None}
       /\ \A a \in b.articles : owner[a] \in {None, b.event}
       /\ \A c \in Q : b # c => b.articles \cap c.articles = {}

LEMMA AtMostOne ==
    ASSUME NEW S, IsFiniteSet(S), Cardinality(S) <= 1, NEW x \in S, NEW y \in S
    PROVE  x = y
<1> SUFFICES ASSUME x # y PROVE FALSE
  OBVIOUS
<1>1. IsFiniteSet({x}) /\ Cardinality({x}) = 1
  BY FS_Singleton
<1>2. IsFiniteSet({x} \cup {y}) /\ Cardinality({x} \cup {y}) = 2
  <2>1. /\ IsFiniteSet({x} \cup {y})
        /\ Cardinality({x} \cup {y}) = IF y \in {x} THEN Cardinality({x}) ELSE Cardinality({x}) + 1
    BY <1>1, FS_AddElement
  <2>2. y \notin {x}
    OBVIOUS
  <2>3. Cardinality({x} \cup {y}) = Cardinality({x}) + 1
    BY <2>1, <2>2
  <2>4. Cardinality({x}) + 1 = 2
    BY <1>1
  <2> QED
    BY <2>1, <2>3, <2>4
<1>3. ({x} \cup {y}) \in SUBSET S
  OBVIOUS
<1>4. Cardinality({x} \cup {y}) <= Cardinality(S)
  BY <1>3, FS_Subset
<1>5. Cardinality(S) \in Nat
  BY FS_CardinalityType
<1> QED
  BY <1>2, <1>4, <1>5

LEMMA BucketsDivided ==
    ASSUME RunInv, NEW G \in SUBSET Articles, NEW target \in Live \cup {None}
    PROVE  Divided(Buckets(G, target), G)
<1> DEFINE Key(a) == IF owner[a] = None THEN target ELSE owner[a]
           known == Owners(G) \cup ({target} \ {None})
<1>1. /\ \A a \in G : owner[a] \in Live \cup {None}
      /\ Live \subseteq Events /\ None \notin Events
  BY DEF RunInv, Typed, StoreType, Live
<1>2. \A k \in known : k \in Live /\ k # None
  BY <1>1 DEF Owners
<1>3. IsFiniteSet(known)
  <2> DEFINE I == {owner[a] : a \in G}
             f == [a \in G |-> owner[a]]
  <2>0. IsFiniteSet(Articles)
    BY EventStoreAssumption
  <2>1. IsFiniteSet(G)
    BY <2>0, FS_Subset
  <2>7. f \in Surjection(G, I)
    BY DEF Surjection
  <2>2. IsFiniteSet(I)
    <3> HIDE DEF I, f
    <3> QED
      BY <2>1, <2>7, FS_Surjection
  <2>3. Owners(G) \in SUBSET {owner[a] : a \in G}
    BY DEF Owners
  <2>4. IsFiniteSet(Owners(G))
    BY <2>2, <2>3, FS_Subset
  <2>5. known \in SUBSET (Owners(G) \cup {target})
    OBVIOUS
  <2>6. IsFiniteSet(Owners(G) \cup {target})
    BY <2>4, FS_AddElement
  <2> QED
    BY <2>5, <2>6, FS_Subset
<1>4. CASE Cardinality(known) <= 1
  <2> DEFINE k == IF known = {} THEN None ELSE CHOOSE e \in known : TRUE
             b == [articles |-> G, event |-> k]
  <2>1. Buckets(G, target) = {b}
    BY <1>4 DEF Buckets
  <2>2. \A a \in G : owner[a] \in {None, k}
    <3> SUFFICES ASSUME NEW a \in G, owner[a] # None PROVE owner[a] = k
      OBVIOUS
    <3>1. owner[a] \in known
      BY DEF Owners
    <3>2. k \in known
      BY <3>1
    <3> HIDE DEF known, k
    <3> QED
      BY <1>3, <1>4, <3>1, <3>2, AtMostOne
  <2>3. k \in Live \cup {None}
    BY <1>2
  <2> HIDE DEF k
  <2>4. b \in Groups /\ b.articles = G /\ b.event = k
    BY <1>1, <2>3 DEF Groups
  <2> HIDE DEF b
  <2> QED
    BY <2>1, <2>2, <2>3, <2>4 DEF Divided
<1>5. CASE ~ (Cardinality(known) <= 1)
  <2>1. Buckets(G, target) = {[articles |-> {a \in G : Key(a) = k}, event |-> k] : k \in {Key(a) : a \in G}}
    BY <1>5 DEF Buckets
  <2> SUFFICES ASSUME NEW b \in Buckets(G, target)
               PROVE  /\ b \in Groups /\ b.articles \subseteq G /\ b.event \in Live \cup {None}
                      /\ \A a \in b.articles : owner[a] \in {None, b.event}
                      /\ \A c \in Buckets(G, target) : b # c => b.articles \cap c.articles = {}
    BY DEF Divided
  <2>2. PICK k \in {Key(a) : a \in G} : b = [articles |-> {a \in G : Key(a) = k}, event |-> k]
    BY <2>1
  <2>3. k \in Live \cup {None}
    BY <1>1, <2>2
  <2>4. b \in Groups
    BY <1>1, <2>2, <2>3 DEF Groups
  <2>5. \A a \in b.articles : owner[a] \in {None, b.event}
    BY <2>2
  <2>6. ASSUME NEW c \in Buckets(G, target), b # c PROVE b.articles \cap c.articles = {}
    <3>1. PICK j \in {Key(a) : a \in G} : c = [articles |-> {a \in G : Key(a) = j}, event |-> j]
      BY <2>1
    <3>2. j # k
      BY <2>2, <2>6, <3>1
    <3> QED
      BY <2>2, <3>1, <3>2
  <2> QED
    BY <2>2, <2>3, <2>4, <2>5, <2>6
<1> QED
  BY <1>4, <1>5

\* A rejected extension leaves its group and founds one of its own.
LEMMA GuardedDivided ==
    ASSUME RunInv, NEW G \in SUBSET Articles, NEW B, Divided(B, G), NEW refused \in SUBSET Extensions(B)
    PROVE  Divided(Guarded(B, refused), G)
<1> DEFINE Rest(b) == [b EXCEPT !.articles = @ \ refused]
           Alone(a) == [articles |-> {a}, event |-> None]
<1>1. \A q \in Guarded(B, refused) :
         (\E b \in B : q = Rest(b)) \/ (\E a \in refused : q = Alone(a))
  BY DEF Guarded
<1>2. \A a \in refused : a \in G /\ owner[a] = None
  BY DEF Extensions, Divided
<1>3. \A b \in B : /\ Rest(b) \in Groups /\ Rest(b).articles = b.articles \ refused /\ Rest(b).event = b.event
  BY DEF Divided, Groups
<1>4. \A a \in refused : Alone(a) \in Groups /\ Alone(a).articles = {a} /\ Alone(a).event = None
  BY <1>2 DEF Groups
<1> HIDE DEF Rest, Alone
<1> SUFFICES ASSUME NEW q \in Guarded(B, refused)
             PROVE  /\ q \in Groups /\ q.articles \subseteq G /\ q.event \in Live \cup {None}
                    /\ \A a \in q.articles : owner[a] \in {None, q.event}
                    /\ \A c \in Guarded(B, refused) : q # c => q.articles \cap c.articles = {}
  BY DEF Divided
<1>5. CASE \E b \in B : q = Rest(b)
  <2>1. PICK b \in B : q = Rest(b)
    BY <1>5
  <2>2. /\ q \in Groups /\ q.articles \subseteq G /\ q.event \in Live \cup {None}
        /\ \A a \in q.articles : owner[a] \in {None, q.event}
    BY <1>3, <2>1 DEF Divided
  <2>3. ASSUME NEW c \in Guarded(B, refused), q # c PROVE q.articles \cap c.articles = {}
    <3>1. CASE \E d \in B : c = Rest(d)
      <4>1. PICK d \in B : c = Rest(d)
        BY <3>1
      <4>2. b # d
        BY <2>1, <2>3, <4>1
      <4>3. b.articles \cap d.articles = {}
        BY <4>2 DEF Divided
      <4> QED
        BY <1>3, <2>1, <4>1, <4>3
    <3>2. CASE \E a \in refused : c = Alone(a)
      BY <1>3, <1>4, <2>1, <3>2
    <3> QED
      BY <1>1, <3>1, <3>2
  <2> QED
    BY <2>2, <2>3
<1>6. CASE \E a \in refused : q = Alone(a)
  <2>1. PICK a \in refused : q = Alone(a)
    BY <1>6
  <2>2. /\ q \in Groups /\ q.articles \subseteq G /\ q.event \in Live \cup {None}
        /\ \A x \in q.articles : owner[x] \in {None, q.event}
    BY <1>2, <1>4, <2>1
  <2>3. ASSUME NEW c \in Guarded(B, refused), q # c PROVE q.articles \cap c.articles = {}
    <3>1. CASE \E d \in B : c = Rest(d)
      BY <1>3, <1>4, <2>1, <3>1
    <3>2. CASE \E x \in refused : c = Alone(x)
      <4>1. PICK x \in refused : c = Alone(x)
        BY <3>2
      <4>2. x # a
        BY <2>1, <2>3, <4>1
      <4> QED
        BY <1>4, <2>1, <4>1, <4>2
    <3> QED
      BY <1>1, <3>1, <3>2
  <2> QED
    BY <2>2, <2>3
<1> QED
  BY <1>1, <1>5, <1>6

LEMMA TakeGroupStep ==
    ASSUME RunInv, TakeGroup
    PROVE  RunInv'
<1>1. PICK G \in (SUBSET todo) \ {{}}, target \in Live \cup {None} :
        \E refused \in SUBSET Extensions(Buckets(G, target)) :
             /\ todo' = todo \ G
             /\ queue' = Guarded(Buckets(G, target), refused)
  BY DEF TakeGroup
<1>2. PICK refused \in SUBSET Extensions(Buckets(G, target)) :
             /\ todo' = todo \ G
             /\ queue' = Guarded(Buckets(G, target), refused)
  BY <1>1
<1>3. /\ at = "group" /\ op = None /\ G \subseteq todo
      /\ UNCHANGED <<store, history, at, pass, collecting, snap, batch, op>>
  BY DEF TakeGroup, Unhindered
<1>4. \A a \in todo : a \in Limit /\ stage[a] = "digested"
  BY <1>3 DEF RunInv, Control, Listed
<1>5. Limit \subseteq Articles /\ Limit' = Limit
  BY <1>3 DEF Limit, RunInv, Typed, RunType
<1>6. Divided(queue', G)
  <2> DEFINE B == Buckets(G, target)
  <2>1. G \in SUBSET Articles
    BY <1>3, <1>4, <1>5
  <2>2. Divided(B, G)
    BY <2>1, BucketsDivided
  <2>3. refused \in SUBSET Extensions(B) /\ queue' = Guarded(B, refused)
    BY <1>2
  <2> HIDE DEF B
  <2> QED
    BY <2>1, <2>2, <2>3, GuardedDivided
<1>7. StoreType'
  BY <1>3 DEF store, RunInv, Typed, StoreType, Live
<1>8. RunType' /\ HistoryType'
  BY <1>3, <1>6 DEF history, RunInv, Typed, RunType, HistoryType, Divided
<1>9. Control'
  BY <1>2, <1>3, <1>4, <1>5 DEF store, RunInv, Control, Stepping, Phased, Listed
<1>10. Queued'
  <2> SUFFICES ASSUME NEW b \in queue'
               PROVE  /\ Takes(b.articles, b.event)' /\ b.event \in Live' \cup {None}
                      /\ b.articles \cap todo' = {}
                      /\ \A c \in queue' : b # c => b.articles \cap c.articles = {}
    BY <1>3 DEF Queued
  <2>1. /\ b.articles \subseteq G /\ b.event \in Live \cup {None}
        /\ \A a \in b.articles : owner[a] \in {None, b.event}
        /\ \A c \in queue' : b # c => b.articles \cap c.articles = {}
    BY <1>6 DEF Divided
  <2>2. Live' = Live
    BY <1>3 DEF store, Live
  <2>3. Takes(b.articles, b.event)'
    BY <1>3, <1>4, <1>5, <2>1 DEF store, Takes
  <2> QED
    BY <1>2, <2>1, <2>2, <2>3
<1>11. Taken'
  BY <1>3 DEF Taken
<1>12. Stored'
  BY <1>3, NothingStored DEF store, history, RunInv
<1> QED
  BY <1>7, <1>8, <1>9, <1>10, <1>11, <1>12 DEF RunInv, Typed, Grouped

\* A group set aside: its articles are in no other group and of no event.
LEMMA SetAsideStep ==
    ASSUME RunInv, SetAside
    PROVE  RunInv'
<1>1. PICK b \in queue :
        /\ b.event = None
        /\ stage' = [a \in Articles |-> IF a \in b.articles THEN "filtered" ELSE stage[a]]
        /\ queue' = queue \ {b}
  BY DEF SetAside
<1>2. /\ at = "group" /\ op = None
      /\ UNCHANGED <<owner, failures, row, file, story, rejected, history,
                     at, pass, collecting, snap, todo, batch, op>>
  BY DEF SetAside, Unhindered
<1>3. /\ \A a \in b.articles : owner[a] = None /\ a \notin todo
      /\ \A c \in queue' : c \in queue /\ b.articles \cap c.articles = {}
  BY <1>1 DEF RunInv, Grouped, Queued, Takes
<1>4. Limit \subseteq Articles /\ Limit' = Limit
  BY <1>2 DEF Limit, RunInv, Typed, RunType
<1>5. /\ stage' \in [Articles -> Stages]
      /\ \A a \in Articles \ b.articles : stage'[a] = stage[a]
  BY <1>1 DEF RunInv, Typed, StoreType, Stages
<1>6. StoreType'
  BY <1>2, <1>3, <1>5 DEF RunInv, Typed, StoreType, Live
<1>7. RunType' /\ HistoryType'
  BY <1>1, <1>2 DEF history, RunInv, Typed, RunType, HistoryType
<1>8. Control'
  BY <1>2, <1>3, <1>4, <1>5 DEF RunInv, Control, Stepping, Phased, Listed
<1>9. Queued'
  <2> SUFFICES ASSUME NEW c \in queue'
               PROVE  /\ Takes(c.articles, c.event)' /\ c.event \in Live' \cup {None}
                      /\ c.articles \cap todo' = {}
                      /\ \A d \in queue' : c # d => c.articles \cap d.articles = {}
    BY <1>2 DEF Queued
  <2>1. /\ Takes(c.articles, c.event) /\ c.event \in Live \cup {None} /\ c.articles \cap todo = {}
        /\ \A d \in queue' : c # d => c.articles \cap d.articles = {}
    BY <1>3 DEF RunInv, Grouped, Queued
  <2>2. Takes(c.articles, c.event)'
    BY <1>2, <1>3, <1>4, <1>5, <2>1 DEF Takes
  <2> QED
    BY <1>2, <2>1, <2>2 DEF Live
<1>10. Taken'
  BY <1>2 DEF Taken
<1>11. Stored'
  BY <1>2, NothingStored DEF history, RunInv
<1> QED
  BY <1>6, <1>7, <1>8, <1>9, <1>10, <1>11 DEF RunInv, Typed, Grouped

LEMMA ReplayStep ==
    ASSUME RunInv, Replay
    PROVE  RunInv'
<1>1. /\ queue' \subseteq queue /\ op = None
      /\ UNCHANGED <<store, history, at, pass, collecting, snap, todo, batch, op>>
  BY DEF Replay, Unhindered
<1>2. Typed'
  BY <1>1 DEF store, history, RunInv, Typed, StoreType, RunType, HistoryType, Live
<1>3. Limit' = Limit
  BY <1>1 DEF Limit
<1>4. Control'
  BY <1>1, <1>3 DEF store, RunInv, Control, Stepping, Phased, Listed
<1>5. Queued'
  BY <1>1, <1>3 DEF store, RunInv, Grouped, Queued, Takes, Live
<1>6. Taken'
  BY <1>1 DEF Taken
<1>7. Stored'
  BY <1>1, NothingStored DEF store, history, RunInv
<1> QED
  BY <1>2, <1>4, <1>5, <1>6, <1>7 DEF RunInv, Grouped

LEMMA WriteEventStep ==
    ASSUME RunInv, Unhindered("group"),
           NEW b \in queue, NEW e \in Events, NEW old \in Files \cup {None},
           Takes(b.articles, e), WriteEvent(b, e, old)
    PROVE  RunInv'
<1>1. /\ file' = [file EXCEPT ![e] = Grown(old, b.articles)]
      /\ op' = [Step("row", e) EXCEPT !.articles = b.articles]
      /\ queue' = queue \ {b}
      /\ at = "group" /\ op = None
      /\ UNCHANGED <<stage, owner, failures, row, story, rejected, history,
                     at, pass, collecting, snap, todo, batch>>
  BY DEF WriteEvent, Unhindered
<1>2. b.articles \subseteq Articles
  BY DEF RunInv, Typed, RunType, Groups
<1>3. /\ op' \in Operations /\ op' # None
      /\ op'.step = "row" /\ op'.event = e /\ op'.articles = b.articles
  <2>1. /\ op' \in Operations
        /\ op'.step = "row" /\ op'.event = e /\ op'.articles = b.articles
    BY <1>1, <1>2 DEF Step, StepNames, Operations
  <2> QED
    BY <2>1
<1>4. StoreType'
  <2>1. Grown(old, b.articles) \in Files
    BY <1>2 DEF Grown, Files
  <2>2. DOMAIN file' = Events /\ \A d \in Events : file'[d] \in Files \cup {None}
    BY <1>1, <2>1 DEF RunInv, Typed, StoreType
  <2> QED
    BY <1>1, <2>2 DEF RunInv, Typed, StoreType, Live
<1>5. RunType' /\ HistoryType'
  BY <1>1, <1>3 DEF history, RunInv, Typed, RunType, HistoryType
<1>6. Limit' = Limit
  BY <1>1 DEF Limit
<1>7. Control'
  BY <1>1, <1>3, <1>6 DEF RunInv, Control, Stepping, Phased, Listed
<1>8. \A A, d : Takes(A, d) => Takes(A, d)'
  BY <1>1, <1>6 DEF Takes
<1>9. Queued'
  BY <1>1, <1>8 DEF RunInv, Grouped, Queued, Live
<1>10. Taken'
  <2>1. Takes(op.articles, op.event)'
    <3>1. Takes(b.articles, e)'
      BY <1>8
    <3> QED
      BY <1>3, <3>1 DEF Takes
  <2>2. \A c \in queue' : b.articles \cap c.articles = {}
    BY <1>1 DEF RunInv, Grouped, Queued
  <2>3. \A c \in queue' : c.articles \cap op'.articles = {}
    BY <1>3, <2>2
  <2> QED
    BY <1>3, <2>1, <2>3 DEF Taken
<1>11. Stored'
  BY <1>1, <1>3, NothingStored DEF history, RunInv
<1> QED
  BY <1>4, <1>5, <1>7, <1>9, <1>10, <1>11 DEF RunInv, Typed, Grouped

LEMMA FoundStep ==
    ASSUME RunInv, Found
    PROVE  RunInv'
<1>1. PICK b \in queue, e \in Unused : b.event = None /\ WriteEvent(b, e, None)
  BY DEF Found
<1>2. Unhindered("group") /\ e \in Events
  BY DEF Found, Unused
<1>3. Takes(b.articles, e)
  BY <1>1 DEF RunInv, Grouped, Queued, Takes
<1> QED
  BY <1>1, <1>2, <1>3, WriteEventStep

LEMMA ExtendStep ==
    ASSUME RunInv, Extend
    PROVE  RunInv'
<1>1. PICK b \in queue : b.event # None /\ WriteEvent(b, b.event, file[b.event])
  BY DEF Extend
<1>2. Unhindered("group") /\ b.event \in Events /\ Takes(b.articles, b.event)
  BY <1>1 DEF Extend, RunInv, Grouped, Queued, Live
<1>3. file[b.event] \in Files \cup {None}
  BY <1>2 DEF RunInv, Typed, StoreType
<1> QED
  BY <1>1, <1>2, <1>3, WriteEventStep

LEMMA UpsertGroupStep ==
    ASSUME RunInv, UpsertGroup
    PROVE  RunInv'
<1>1. /\ op # None /\ op.step = "row" /\ op \in Operations
      /\ row' = [row EXCEPT ![op.event] = Upserted(@)]
      /\ UNCHANGED <<stage, owner, failures, file, story, rejected, history,
                     at, pass, collecting, snap, todo, queue, batch>>
  BY DEF UpsertGroup, At, RunInv, Typed, RunType
<1>2. /\ op' \in Operations /\ op' # None /\ op'.step = "assign"
      /\ op'.event = op.event /\ op'.articles = op.articles
  <2>1. /\ op' \in Operations /\ op'.step = "assign"
        /\ op'.event = op.event /\ op'.articles = op.articles
    BY <1>1, Continued DEF UpsertGroup, StepNames
  <2> QED
    BY <2>1
<1>3. op.event \in Events /\ at = "group"
  BY <1>1 DEF Operations, RunInv, Control, Stepping
<1>4. /\ row' \in [Events -> {"none", "unset", "updated", "current"}]
      /\ row'[op.event] \in {"unset", "updated"}
      /\ \A d \in Events \ {op.event} : row'[d] = row[d]
  BY <1>1, <1>3 DEF Upserted, RunInv, Typed, StoreType
<1>5. Live \subseteq Live'
  BY <1>4 DEF Live
<1>6. StoreType'
  BY <1>1, <1>4, <1>5 DEF RunInv, Typed, StoreType
<1>7. RunType' /\ HistoryType'
  BY <1>1, <1>2 DEF history, RunInv, Typed, RunType, HistoryType
<1>8. Limit' = Limit
  BY <1>1 DEF Limit
<1>9. Control'
  BY <1>1, <1>2, <1>3, <1>8 DEF RunInv, Control, Stepping, Phased, Listed
<1>10. \A A, d : Takes(A, d) => Takes(A, d)'
  BY <1>1, <1>8 DEF Takes
<1>11. Queued'
  BY <1>1, <1>5, <1>10 DEF RunInv, Grouped, Queued
<1>12. Taken'
  BY <1>1, <1>2, <1>3, <1>4, <1>10 DEF RunInv, Grouped, Taken
<1>13. Stored'
  <2>1. \A e : Members(e)' = Members(e) /\ (Clean(e)' <=> Clean(e))
    BY <1>1 DEF Members, Clean
  <2>2. Told'
    BY <1>1, <2>1 DEF history, RunInv, Stored, Told
  <2>3. Checked'
    BY <1>1, <1>4, <2>1 DEF history, RunInv, Stored, Checked
  <2> QED
    BY <1>2, <2>2, <2>3 DEF Stored, Hiding, At
<1> QED
  BY <1>6, <1>7, <1>9, <1>11, <1>12, <1>13 DEF RunInv, Typed, Grouped

\* The articles were of no event or of this one, so no event loses a member.
LEMMA AssignStep ==
    ASSUME RunInv, Assign
    PROVE  RunInv'
<1>1. /\ op # None /\ op.step = "assign" /\ op \in Operations
      /\ owner' = [a \in Articles |-> IF a \in op.articles THEN op.event ELSE owner[a]]
      /\ op' = None
      /\ UNCHANGED <<stage, failures, row, file, story, rejected, history,
                     at, pass, collecting, snap, todo, queue, batch>>
  BY DEF Assign, At, RunInv, Typed, RunType
<1>2. op.event \in Events /\ op.articles \subseteq Articles /\ at = "group"
  BY <1>1 DEF Operations, RunInv, Control, Stepping
<1>3. /\ \A a \in op.articles : stage[a] = "digested" /\ owner[a] \in {None, op.event}
      /\ row[op.event] \in {"unset", "updated"}
      /\ \A b \in queue : b.articles \cap op.articles = {}
  BY <1>1, <1>2 DEF RunInv, Grouped, Taken, Takes
<1>4. op.event # None
  BY <1>2
<1>5. \A e \in Events : Members(e) \subseteq Members(e)'
  BY <1>1, <1>2, <1>3, <1>4 DEF Members
<1>6. \A e \in Events : e # op.event => Members(e)' = Members(e)
  BY <1>1, <1>2, <1>3, <1>4 DEF Members
<1>7. StoreType'
  <2>1. owner' \in [Articles -> Events \cup {None}]
    BY <1>1, <1>2 DEF RunInv, Typed, StoreType
  <2>2. Live' = Live /\ op.event \in Live
    BY <1>1, <1>2, <1>3 DEF Live
  <2>3. \A a \in Articles : owner'[a] # None => stage'[a] = "digested" /\ owner'[a] \in Live'
    BY <1>1, <1>3, <2>2 DEF RunInv, Typed, StoreType
  <2> QED
    BY <1>1, <2>1, <2>3 DEF RunInv, Typed, StoreType
<1>8. RunType' /\ HistoryType'
  BY <1>1 DEF history, RunInv, Typed, RunType, HistoryType
<1>9. Limit' = Limit /\ Limit \subseteq Articles
  BY <1>1 DEF Limit, RunInv, Typed, RunType
<1>10. Control'
  BY <1>1, <1>9 DEF RunInv, Control, Stepping, Phased, Listed
<1>11. Queued'
  <2> SUFFICES ASSUME NEW c \in queue
               PROVE  Takes(c.articles, c.event)' /\ c.event \in Live' \cup {None}
    BY <1>1, <1>2 DEF RunInv, Grouped, Queued
  <2>1. Takes(c.articles, c.event) /\ c.event \in Live \cup {None}
    BY DEF RunInv, Grouped, Queued
  <2>2. \A a \in c.articles : owner'[a] = owner[a]
    BY <1>1, <1>3, <1>9, <2>1 DEF Takes
  <2>3. Takes(c.articles, c.event)'
    BY <1>1, <1>9, <2>1, <2>2 DEF Takes
  <2>4. c.event \in Live' \cup {None}
    BY <1>1, <2>1 DEF Live
  <2> QED
    BY <2>3, <2>4
<1>12. Taken'
  BY <1>1 DEF Taken
<1>13. Stored'
  <2>2. Told'
    BY <1>1, <1>5 DEF history, RunInv, Stored, Told, Clean
  <2>3. Checked'
    BY <1>1, <1>3, <1>6 DEF history, RunInv, Stored, Checked
  <2> QED
    BY <1>1, <2>2, <2>3 DEF Stored, Hiding, At
<1> QED
  BY <1>7, <1>8, <1>10, <1>11, <1>12, <1>13 DEF RunInv, Typed, Grouped

\* The articles the window held may be met again in this pass.
LEMMA GroupFailsStep ==
    ASSUME RunInv, GroupFails
    PROVE  RunInv'
<1> DEFINE grouped == UNION {b.articles : b \in queue}
           taken == IF op = None THEN {} ELSE op.articles
           held == grouped \cup taken
<1>0. \E again \in SUBSET (todo \cup held) : todo' = again
  BY DEF GroupFails
<1>1. /\ at = "group" /\ queue' = {} /\ op' = None
      /\ todo' \subseteq todo \cup held
      /\ faults' = faults + 1 /\ faults < MaxFaults
      /\ UNCHANGED <<store, merges, torn, leftover, seen, at, pass, collecting, snap, batch>>
  <2> HIDE DEF held
  <2> QED
    BY <1>0 DEF GroupFails, Fault
<1>2. \A a \in held : a \in Limit /\ stage[a] = "digested"
  <2>1. \A a \in grouped : a \in Limit /\ stage[a] = "digested"
    BY DEF RunInv, Grouped, Queued, Takes
  <2>2. \A a \in taken : a \in Limit /\ stage[a] = "digested"
    BY <1>1 DEF RunInv, Grouped, Taken, Takes
  <2> HIDE DEF grouped, taken
  <2> QED
    BY <2>1, <2>2
<1>3. \A a \in todo : a \in Limit /\ stage[a] = "digested"
  BY <1>1 DEF RunInv, Control, Listed
<1>4. Typed'
  BY <1>1 DEF store, RunInv, Typed, StoreType, RunType, HistoryType, Live
<1>5. Control'
  <2>1. Limit' = Limit
    BY <1>1 DEF Limit
  <2> HIDE DEF held
  <2> QED
    BY <1>1, <1>2, <1>3, <2>1 DEF store, RunInv, Control, Stepping, Phased, Listed
<1>6. Grouped'
  BY <1>1 DEF Grouped, Queued, Taken
<1>7. Stored'
  BY <1>1, NothingStored DEF store, RunInv
<1> QED
  BY <1>4, <1>5, <1>6, <1>7 DEF RunInv

--------------------------------------------------------------------------------
(* The coherence review.                                                     *)

LEMMA CoherentStep ==
    ASSUME RunInv, Coherent
    PROVE  RunInv'
<1>1. PICK e \in todo :
        /\ file' = [file EXCEPT ![e].reviewed = Members(e)]
        /\ todo' = todo \ {e}
  BY DEF Coherent
<1>2. /\ at = "review" /\ at' = "review" /\ op = None /\ queue = {} /\ todo \subseteq Events
      /\ \A d \in todo : file[d] # None
      /\ UNCHANGED <<stage, owner, failures, row, story, rejected, history,
                     pass, collecting, snap, queue, batch, op>>
  BY DEF Coherent, Unhindered, RunInv, Control, Listed, Grouped, Queued
<1>3. file[e] \in Files /\ e \in Events
  BY <1>2 DEF RunInv, Typed, StoreType
<1>4. /\ DOMAIN file' = Events
      /\ \A d \in Events : file'[d] \in Files \cup {None} /\ (file[d] # None => file'[d] # None)
  <2>1. Members(e) \in SUBSET Articles
    BY DEF Members
  <2>2. [file[e] EXCEPT !.reviewed = Members(e)] \in Files
    BY <1>3, <2>1 DEF Files
  <2>3. \A d \in Events : file'[d] = IF d = e THEN [file[e] EXCEPT !.reviewed = Members(e)] ELSE file[d]
    BY <1>1, <1>3 DEF RunInv, Typed, StoreType
  <2>4. DOMAIN file' = Events
    BY <1>1 DEF RunInv, Typed, StoreType
  <2> QED
    BY <2>2, <2>3, <2>4 DEF RunInv, Typed, StoreType
<1>5. StoreType'
  BY <1>2, <1>4 DEF RunInv, Typed, StoreType, Live
<1>6. RunType' /\ HistoryType'
  BY <1>2 DEF history, RunInv, Typed, RunType, HistoryType
<1>7. Control'
  BY <1>1, <1>2, <1>4 DEF RunInv, Control, Stepping, Phased, Listed
<1>8. Grouped'
  BY <1>2, NothingQueued
<1>9. Stored'
  BY <1>2, NothingStored DEF history, RunInv
<1> QED
  BY <1>5, <1>6, <1>7, <1>8, <1>9 DEF RunInv, Typed

\* Failures that leave the store alone and drop at most something still to take.
LEMMA DroppedStep ==
    ASSUME RunInv, at \in {"maintain", "review", "dedup", "edit"}, Fault,
           todo' \subseteq todo, op' \in {op, None},
           UNCHANGED <<store, merges, torn, leftover, seen, at, pass, collecting, snap, queue, batch>>
    PROVE  RunInv'
<1>1. Typed'
  BY DEF Fault, store, RunInv, Typed, StoreType, RunType, HistoryType, Live
<1>2. Control'
  BY DEF store, RunInv, Control, Stepping, Phased, Listed
<1>3. queue = {}
  BY DEF RunInv, Grouped, Queued
<1>4. Grouped'
  BY <1>3, NothingQueued
<1>5. Stored'
  BY NothingStored DEF store, RunInv
<1> QED
  BY <1>1, <1>2, <1>4, <1>5 DEF RunInv

LEMMA FailureSteps ==
    ASSUME RunInv, ReconcileFails \/ ReviewFails \/ SplitFails \/ MergeFails \/ StoryFails
    PROVE  RunInv'
<1>1. CASE ReconcileFails
  BY <1>1, DroppedStep DEF ReconcileFails, Unhindered
<1>2. CASE ReviewFails
  BY <1>2, DroppedStep DEF ReviewFails, Unhindered
<1>3. CASE SplitFails
  BY <1>3, DroppedStep DEF SplitFails, At, RunInv, Control, Stepping
<1>4. CASE MergeFails
  BY <1>4, DroppedStep DEF MergeFails
<1>5. CASE StoryFails
  BY <1>5, DroppedStep DEF StoryFails, Unhindered
<1> QED
  BY <1>1, <1>2, <1>3, <1>4, <1>5

\* An operation of the review: what is left to show of a step of one.
LEMMA ReviewFrame ==
    ASSUME RunInv, at = "review", UNCHANGED <<at, pass, collecting, queue>>,
           todo' \subseteq todo, \A d \in Events : file[d] # None => file'[d] # None,
           op' = None \/ op'.step \in {"partition", "split files"}
    PROVE  Control' /\ Grouped'
<1>1. queue = {}
  BY DEF RunInv, Grouped, Queued
<1>2. Grouped'
  BY <1>1, NothingQueued
<1>3. Control'
  BY DEF RunInv, Control, Stepping, Phased, Listed
<1> QED
  BY <1>2, <1>3

LEMMA HideStep ==
    ASSUME RunInv, Hide
    PROVE  RunInv'
<1>1. PICK e \in todo :
        /\ story' = IF story[e] = None THEN story ELSE [story EXCEPT ![e].hidden = TRUE]
        /\ op' = [Step("partition", e) EXCEPT !.hidden = story[e] # None /\ story[e].hidden]
        /\ todo' = todo \ {e}
  BY DEF Hide
<1>2. /\ at = "review" /\ todo \subseteq Events
      /\ UNCHANGED <<stage, owner, failures, row, file, rejected, history,
                     at, pass, collecting, snap, queue, batch>>
  BY DEF Hide, Unhindered, RunInv, Control, Listed
<1>3. e \in Events /\ story[e] \in Stories \cup {None}
  BY <1>2 DEF RunInv, Typed, StoreType
<1>4. /\ op' \in Operations /\ op'.step = "partition" /\ op'.event = e
      /\ op'.hidden = (story[e] # None /\ story[e].hidden)
  <2>1. (story[e] # None /\ story[e].hidden) \in BOOLEAN
    OBVIOUS
  <2> QED
    BY <1>1, <1>3, <2>1 DEF Step, StepNames, Operations
<1>5. /\ DOMAIN story' = Events
      /\ \A d \in Events \ {e} : story'[d] = story[d]
      /\ story[e] = None => story'[e] = None
      /\ story[e] # None => /\ story'[e] \in Stories /\ story'[e].hidden = TRUE
                            /\ story'[e].basis = story[e].basis
  <2>1. CASE story[e] = None
    BY <1>1, <2>1 DEF RunInv, Typed, StoreType
  <2>2. CASE story[e] # None
    <3>1. story' = [story EXCEPT ![e] = [story[e] EXCEPT !.hidden = TRUE]]
      BY <1>1, <2>2
    <3>2. story[e] \in Stories
      BY <1>3, <2>2
    <3>3. /\ [story[e] EXCEPT !.hidden = TRUE] \in Stories
          /\ [story[e] EXCEPT !.hidden = TRUE].hidden = TRUE
          /\ [story[e] EXCEPT !.hidden = TRUE].basis = story[e].basis
      BY <3>2 DEF Stories
    <3> QED
      BY <1>3, <2>2, <3>1, <3>3 DEF RunInv, Typed, StoreType
  <2> QED
    BY <2>1, <2>2
<1>6. StoreType'
  BY <1>2, <1>5 DEF RunInv, Typed, StoreType, Live
<1>7. RunType' /\ HistoryType'
  BY <1>2, <1>4 DEF history, RunInv, Typed, RunType, HistoryType
<1>8. Control' /\ Grouped'
  BY <1>1, <1>2, <1>4, ReviewFrame
<1>9. \A d \in Events : Members(d)' = Members(d)
  BY <1>2 DEF Members
<1>10. \A d \in Events \ {e} : Clean(d)' <=> Clean(d)
  BY <1>5, <1>9 DEF Clean
<1>11. story[e] # None => (Clean(e)' <=> Clean(e))
  BY <1>3, <1>5, <1>9 DEF Clean
<1>12. UNCHANGED <<row, seen, torn, leftover>>
  BY <1>2 DEF history
<1>13. Hiding'
  <2> SUFFICES ASSUME story'[e] # None
               PROVE  story'[e].hidden /\ (op'.hidden \/ e \in leftover \/ Clean(e)')
    BY <1>4, <1>12 DEF Hiding, At
  <2>1. story[e] # None /\ story'[e].hidden
    BY <1>5
  <2>2. CASE story[e].hidden
    BY <1>4, <2>1, <2>2
  <2>3. CASE ~ story[e].hidden
    <3>1. e \in leftover \/ Clean(e)
      BY <1>3, <2>1, <2>3 DEF RunInv, Stored, Told
    <3> QED
      BY <1>11, <2>1, <3>1
  <2> QED
    BY <2>1, <2>2, <2>3
<1>14. Told'
  <2> SUFFICES ASSUME NEW d \in Events \ leftover
               PROVE  /\ story'[d] # None /\ ~ story'[d].hidden => Clean(d)'
                      /\ Members(d)' = {} => story'[d] = None
    BY <1>12 DEF Told
  <2>1. /\ story[d] # None /\ ~ story[d].hidden => Clean(d)
        /\ Members(d) = {} => story[d] = None
    BY DEF RunInv, Stored, Told
  <2>2. CASE d = e
    BY <1>5, <1>9, <2>1, <2>2
  <2>3. CASE d # e
    BY <1>5, <1>9, <1>10, <2>1, <2>3
  <2> QED
    BY <2>2, <2>3
<1>15. Checked'
  BY <1>9, <1>12 DEF RunInv, Stored, Checked
<1> QED
  BY <1>6, <1>7, <1>8, <1>13, <1>14, <1>15 DEF RunInv, Typed, Stored

\* The event keeps an article, its story is hidden, and the events the others
\* go to had no articles, hence no story.
LEMMA PartitionStep ==
    ASSUME RunInv, Partition
    PROVE  RunInv'
<1> DEFINE o == op.event
<1>1. /\ op # None /\ op \in Operations /\ op.step = "partition" /\ at = "review" /\ o \in Events
  BY DEF Partition, At, RunInv, Typed, RunType, Operations, Control, Stepping
<1>2. PICK part \in [Members(o) -> Unused \cup {o}] :
        /\ o \in Range(part)
        /\ owner' = [a \in Articles |-> IF a \in DOMAIN part THEN part[a] ELSE owner[a]]
        /\ row' = [e \in Events |-> IF e \in Range(part) THEN "unset" ELSE row[e]]
        /\ op' = [op EXCEPT !.step = "split files", !.left = Range(part)]
  BY DEF Partition
<1>3. UNCHANGED <<stage, failures, file, story, rejected, history,
                  at, pass, collecting, snap, todo, queue, batch>>
  BY DEF Partition
<1>4. /\ Range(part) \subseteq Unused \cup {o} /\ Range(part) \subseteq Events
      /\ \A a \in Members(o) : part[a] \in Range(part)
      /\ \E a \in Members(o) : part[a] = o
  BY <1>1, <1>2 DEF Range, Unused
<1>5. \A a \in Articles : owner'[a] = IF owner[a] = o THEN part[a] ELSE owner[a]
  BY <1>2 DEF Members
<1>6. \A e \in Events : row'[e] = IF e \in Range(part) THEN "unset" ELSE row[e]
  BY <1>2
<1>7. /\ op' \in Operations /\ op' # None /\ op'.step = "split files"
  <2>1. op' \in Operations /\ op'.step = "split files"
    BY <1>1, <1>2, <1>4 DEF Operations, StepNames
  <2> QED
    BY <2>1
<1> HIDE DEF o
<1>8. StoreType'
  <2>1. owner' \in [Articles -> Events \cup {None}]
    BY <1>2, <1>4 DEF Members, RunInv, Typed, StoreType
  <2>2. row' \in [Events -> {"none", "unset", "updated", "current"}]
    BY <1>2 DEF RunInv, Typed, StoreType
  <2>3. Live \subseteq Live' /\ Range(part) \subseteq Live'
    BY <1>4, <1>6 DEF Live
  <2>4. \A a \in Articles : owner'[a] # None => stage'[a] = "digested" /\ owner'[a] \in Live'
    <3> SUFFICES ASSUME NEW a \in Articles, owner'[a] # None
                 PROVE  stage'[a] = "digested" /\ owner'[a] \in Live'
      OBVIOUS
    <3>1. CASE owner[a] = o
      <4>1. a \in Members(o) /\ owner[a] # None
        BY <1>1, <3>1 DEF Members
      <4> QED
        BY <1>3, <1>4, <1>5, <2>3, <3>1, <4>1 DEF RunInv, Typed, StoreType
    <3>2. CASE owner[a] # o
      BY <1>3, <1>5, <2>3, <3>2 DEF RunInv, Typed, StoreType
    <3> QED
      BY <3>1, <3>2
  <2> QED
    BY <1>3, <2>1, <2>2, <2>4 DEF RunInv, Typed, StoreType
<1>9. RunType' /\ HistoryType'
  BY <1>3, <1>7 DEF history, RunInv, Typed, RunType, HistoryType
<1>10. Control' /\ Grouped'
  BY <1>1, <1>3, <1>7, ReviewFrame
<1>11. ASSUME NEW e \in Events, e \notin Range(part) PROVE Members(e)' = Members(e)
  <2>1. e # o
    BY <1>2, <1>11
  <2>2. \A a \in Articles : owner'[a] = e <=> owner[a] = e
    <3> SUFFICES ASSUME NEW a \in Articles PROVE owner'[a] = e <=> owner[a] = e
      OBVIOUS
    <3>1. CASE owner[a] = o
      <4>1. a \in Members(o)
        BY <3>1 DEF Members
      <4> QED
        BY <1>4, <1>5, <1>11, <2>1, <3>1, <4>1
    <3>2. CASE owner[a] # o
      BY <1>5, <3>2
    <3> QED
      BY <3>1, <3>2
  <2> QED
    BY <2>2 DEF Members
<1>12. Told'
  <2>1. UNCHANGED <<story, leftover>>
    BY <1>3 DEF history
  <2> SUFFICES ASSUME NEW e \in Events \ leftover
               PROVE  /\ story[e] # None /\ ~ story[e].hidden => Clean(e)'
                      /\ Members(e)' = {} => story[e] = None
    BY <2>1 DEF Told
  <2>2. /\ story[e] # None /\ ~ story[e].hidden => Clean(e)
        /\ Members(e) = {} => story[e] = None
    BY DEF RunInv, Stored, Told
  <2>3. CASE e = o
    <3>1. story[e] # None => story[e].hidden
      BY <1>1, <2>3 DEF RunInv, Stored, Hiding, At, o
    <3>2. PICK a \in Members(o) : part[a] = o
      BY <1>4
    <3>3. a \in Articles /\ owner'[a] = o
      BY <1>5, <3>2 DEF Members
    <3>4. Members(e)' # {}
      BY <2>3, <3>3 DEF Members
    <3> QED
      BY <3>1, <3>4
  <2>4. CASE e # o /\ e \in Range(part)
    <3>1. e \notin Live
      BY <1>4, <2>4 DEF Unused
    <3>2. Members(e) = {}
      <4> SUFFICES ASSUME NEW a \in Articles, owner[a] = e PROVE FALSE
        BY DEF Members
      <4>1. e # None
        OBVIOUS
      <4> QED
        BY <3>1, <4>1 DEF RunInv, Typed, StoreType
    <3> QED
      BY <2>2, <3>2
  <2>5. CASE e \notin Range(part)
    <3>1. Members(e)' = Members(e)
      BY <1>11, <2>5
    <3> QED
      BY <2>1, <2>2, <3>1 DEF Clean
  <2> QED
    BY <2>3, <2>4, <2>5
<1>13. Checked'
  <2>1. UNCHANGED <<torn, seen>>
    BY <1>3 DEF history
  <2> SUFFICES ASSUME NEW e \in Events \ torn, row'[e] = "current"
               PROVE  Members(e)' \subseteq seen[e]
    BY <2>1 DEF Checked
  <2>2. e \notin Range(part) /\ row[e] = "current"
    BY <1>6
  <2> QED
    BY <1>11, <2>2 DEF RunInv, Stored, Checked
<1>14. Hiding'
  BY <1>7 DEF Hiding, At
<1> QED
  BY <1>8, <1>9, <1>10, <1>12, <1>13, <1>14 DEF RunInv, Typed, Stored

\* The story is as it was before it was hidden.
LEMMA PartitionFailsStep ==
    ASSUME RunInv, PartitionFails
    PROVE  RunInv'
<1> DEFINE o == op.event
<1>1. /\ op # None /\ op \in Operations /\ op.step = "partition" /\ at = "review" /\ o \in Events
      /\ op.hidden \in BOOLEAN
  BY DEF PartitionFails, At, RunInv, Typed, RunType, Operations, Control, Stepping
<1>2. /\ story' = IF story[o] = None THEN story ELSE [story EXCEPT ![o].hidden = op.hidden]
      /\ op' = None /\ faults < MaxFaults /\ faults' = faults + 1
      /\ UNCHANGED <<stage, owner, failures, row, file, rejected, merges, torn, leftover, seen,
                     at, pass, collecting, snap, todo, queue, batch>>
  BY DEF PartitionFails, Fault
<1>3. story[o] \in Stories \cup {None}
  BY <1>1 DEF RunInv, Typed, StoreType
<1>4. /\ DOMAIN story' = Events
      /\ \A d \in Events : d # o => story'[d] = story[d]
      /\ story[o] = None => story'[o] = None
      /\ story[o] # None => /\ story'[o] \in Stories /\ story'[o].hidden = op.hidden
                            /\ story'[o].basis = story[o].basis
  <2>1. CASE story[o] = None
    BY <1>2, <2>1 DEF RunInv, Typed, StoreType
  <2>2. CASE story[o] # None
    <3> DEFINE s == [story[o] EXCEPT !.hidden = op.hidden]
    <3>1. story' = [story EXCEPT ![o] = s]
      BY <1>2, <2>2
    <3>2. story[o] \in Stories
      BY <1>3, <2>2
    <3>3. s \in Stories /\ s.hidden = op.hidden /\ s.basis = story[o].basis
      BY <1>1, <3>2 DEF Stories
    <3> HIDE DEF s
    <3> QED
      BY <1>1, <2>2, <3>1, <3>3 DEF RunInv, Typed, StoreType
  <2> QED
    BY <2>1, <2>2
<1>5. StoreType'
  BY <1>1, <1>2, <1>4 DEF RunInv, Typed, StoreType, Live
<1>6. RunType' /\ HistoryType'
  BY <1>2 DEF RunInv, Typed, RunType, HistoryType
<1>7. Control' /\ Grouped'
  BY <1>1, <1>2, ReviewFrame
<1>8. \A d \in Events : Members(d)' = Members(d)
  BY <1>2 DEF Members
<1>9. Told'
  <2> SUFFICES ASSUME NEW d \in Events \ leftover
               PROVE  /\ story'[d] # None /\ ~ story'[d].hidden => Clean(d)'
                      /\ Members(d)' = {} => story'[d] = None
    BY <1>2 DEF Told
  <2>1. /\ story[d] # None /\ ~ story[d].hidden => Clean(d)
        /\ Members(d) = {} => story[d] = None
    BY DEF RunInv, Stored, Told
  <2>2. CASE d # o
    BY <1>4, <1>8, <2>1, <2>2 DEF Clean
  <2>3. CASE d = o
    <3>1. Members(d)' = {} => story'[d] = None
      BY <1>4, <1>8, <2>1, <2>3
    <3>2. ASSUME story'[d] # None, ~ story'[d].hidden PROVE Clean(d)'
      <4>1. story[d] # None /\ ~ op.hidden
        BY <1>4, <2>3, <3>2
      <4>2. Clean(d)
        BY <1>1, <2>3, <4>1 DEF RunInv, Stored, Hiding, At
      <4> QED
        BY <1>4, <1>8, <2>3, <4>1, <4>2 DEF Clean
    <3> QED
      BY <3>1, <3>2
  <2> QED
    BY <2>2, <2>3
<1>10. Checked'
  BY <1>2, <1>8 DEF RunInv, Stored, Checked
<1>11. Hiding'
  BY <1>2 DEF Hiding, At
<1> QED
  BY <1>5, <1>6, <1>7, <1>9, <1>10, <1>11 DEF RunInv, Typed, Stored

LEMMA WriteSplitStep ==
    ASSUME RunInv, WriteSplit
    PROVE  RunInv'
<1>1. /\ op # None /\ op \in Operations /\ op.step = "split files" /\ at = "review"
      /\ op.left \subseteq Events
  BY DEF WriteSplit, At, RunInv, Typed, RunType, Operations, Control, Stepping
<1>2. PICK e \in op.left :
        /\ file' = [file EXCEPT ![e] = [articles |-> Members(e), reviewed |-> Members(e)]]
        /\ \/ op' = None
           \/ op.left # {e} /\ op' = [op EXCEPT !.left = @ \ {e}]
  BY DEF WriteSplit
<1>3. UNCHANGED <<stage, owner, failures, row, story, rejected, history,
                  at, pass, collecting, snap, todo, queue, batch>>
  BY DEF WriteSplit
<1>4. op' = None \/ (op' \in Operations /\ op'.step = "split files")
  <2> SUFFICES ASSUME op' = [op EXCEPT !.left = op.left \ {e}]
               PROVE  op' \in Operations /\ op'.step = "split files"
    BY <1>2
  <2>1. op.left \ {e} \in SUBSET Events
    BY <1>1
  <2> QED
    BY <1>1, <2>1 DEF Operations
<1>5. /\ DOMAIN file' = Events
      /\ \A d \in Events : file'[d] \in Files \cup {None} /\ (file[d] # None => file'[d] # None)
  <2>1. [articles |-> Members(e), reviewed |-> Members(e)] \in Files
    BY DEF Members, Files
  <2>2. /\ DOMAIN file' = Events
        /\ \A d \in Events : file'[d] = IF d = e THEN [articles |-> Members(e), reviewed |-> Members(e)] ELSE file[d]
    BY <1>2 DEF RunInv, Typed, StoreType
  <2> QED
    BY <2>1, <2>2 DEF RunInv, Typed, StoreType
<1>6. StoreType'
  BY <1>3, <1>5 DEF RunInv, Typed, StoreType, Live
<1>7. RunType' /\ HistoryType'
  BY <1>3, <1>4 DEF history, RunInv, Typed, RunType, HistoryType
<1>8. Control' /\ Grouped'
  BY <1>1, <1>3, <1>4, <1>5, ReviewFrame
<1>9. Stored'
  BY <1>3, <1>4, NothingStored DEF history, RunInv
<1> QED
  BY <1>6, <1>7, <1>8, <1>9 DEF RunInv, Typed

--------------------------------------------------------------------------------
(* The duplicate review.                                                     *)

\* What is left to show of a step that ends in the duplicate review.
LEMMA DedupFrame ==
    ASSUME RunInv, at = "dedup", UNCHANGED <<at, pass, collecting, todo, queue>>,
           op' = None \/ op'.step \in {"loser file", "loser story", "winner file", "winner row", "requeue"}
    PROVE  Control' /\ Grouped'
<1>1. queue = {}
  BY DEF RunInv, Grouped, Queued
<1>2. Grouped'
  BY <1>1, NothingQueued
<1>3. Control'
  BY DEF RunInv, Control, Stepping, Phased, Listed
<1> QED
  BY <1>2, <1>3

\* The loser loses its row with its last member; its story is left over.
LEMMA MergeStep ==
    ASSUME RunInv, Merge
    PROVE  RunInv'
<1>1. PICK w \in Live, l \in Live :
        /\ w # l
        /\ owner' = [a \in Articles |-> IF owner[a] = l THEN w ELSE owner[a]]
        /\ row' = [row EXCEPT ![l] = "none"]
        /\ op' = [Step("loser file", w) EXCEPT !.other = l]
        /\ torn' = (torn \ {l}) \cup {w} /\ leftover' = leftover \cup {l}
  BY DEF Merge, Mergeable
<1>2. /\ at = "dedup" /\ merges < MaxMerges /\ merges' = merges + 1
      /\ UNCHANGED <<stage, failures, file, story, rejected, faults, seen,
                     at, pass, collecting, snap, todo, queue, batch>>
  BY DEF Merge, Unhindered
<1>3. w \in Events /\ l \in Events
  BY DEF Live
<1>4. op' \in Operations /\ op'.step = "loser file"
  BY <1>1, <1>3 DEF Step, StepNames, Operations
<1>5. /\ row' \in [Events -> {"none", "unset", "updated", "current"}]
      /\ \A e \in Events : row'[e] = IF e = l THEN "none" ELSE row[e]
  BY <1>1, <1>3 DEF RunInv, Typed, StoreType
<1>6. \A a \in Articles : owner'[a] = IF owner[a] = l THEN w ELSE owner[a]
  BY <1>1
<1>7. StoreType'
  <2>1. owner' \in [Articles -> Events \cup {None}]
    BY <1>1, <1>3 DEF RunInv, Typed, StoreType
  <2>2. Live' = Live \ {l}
    BY <1>5 DEF Live
  <2>3. \A a \in Articles : owner'[a] # None => stage'[a] = "digested" /\ owner'[a] \in Live'
    BY <1>1, <1>2, <1>3, <1>6, <2>2 DEF RunInv, Typed, StoreType
  <2> QED
    BY <1>2, <1>5, <2>1, <2>3 DEF RunInv, Typed, StoreType
<1>8. RunType' /\ HistoryType'
  <2>1. RunType'
    BY <1>2, <1>4 DEF RunInv, Typed, RunType
  <2>2. merges' \in 0 .. MaxMerges
    BY <1>2 DEF RunInv, Typed, HistoryType
  <2>3. torn' \subseteq Events /\ leftover' \subseteq Events
    BY <1>1, <1>3 DEF RunInv, Typed, HistoryType
  <2> QED
    BY <1>2, <2>1, <2>2, <2>3 DEF RunInv, Typed, HistoryType
<1>9. Control' /\ Grouped'
  BY <1>2, <1>4, DedupFrame
<1>10. \A e \in Events : e # l => Members(e) \subseteq Members(e)'
  BY <1>6 DEF Members
<1>11. \A e \in Events : e # l /\ e # w => Members(e)' = Members(e)
  BY <1>6 DEF Members
<1>12. Told'
  BY <1>1, <1>2, <1>10 DEF RunInv, Stored, Told, Clean
<1>13. Checked'
  BY <1>1, <1>2, <1>5, <1>11 DEF RunInv, Stored, Checked
<1>14. Hiding'
  BY <1>4 DEF Hiding, At
<1> QED
  BY <1>7, <1>8, <1>9, <1>12, <1>13, <1>14 DEF RunInv, Typed, Stored

LEMMA UnlinkLoserStep ==
    ASSUME RunInv, UnlinkLoser
    PROVE  RunInv'
<1>1. /\ op \in Operations /\ at = "dedup"
      /\ file' = [file EXCEPT ![op.other] = None]
      /\ UNCHANGED <<stage, owner, failures, row, story, rejected, history,
                     at, pass, collecting, snap, todo, queue, batch>>
  BY DEF UnlinkLoser, At, RunInv, Typed, RunType, Control, Stepping
<1>2. op' \in Operations /\ op'.step = "loser story"
  BY <1>1, Continued DEF UnlinkLoser, StepNames
<1>3. StoreType'
  BY <1>1 DEF RunInv, Typed, StoreType, Live
<1>4. RunType' /\ HistoryType'
  BY <1>1, <1>2 DEF history, RunInv, Typed, RunType, HistoryType
<1>5. Control' /\ Grouped'
  BY <1>1, <1>2, DedupFrame
<1>6. Stored'
  BY <1>1, <1>2, NothingStored DEF history, RunInv
<1> QED
  BY <1>3, <1>4, <1>5, <1>6 DEF RunInv, Typed

LEMMA UnlinkLoserStoryStep ==
    ASSUME RunInv, UnlinkLoserStory
    PROVE  RunInv'
<1>1. /\ op \in Operations /\ at = "dedup"
      /\ story' = [story EXCEPT ![op.other] = None]
      /\ leftover' = leftover \ {op.other}
      /\ UNCHANGED <<stage, owner, failures, row, file, rejected, faults, merges, torn, seen,
                     at, pass, collecting, snap, todo, queue, batch>>
  BY DEF UnlinkLoserStory, At, RunInv, Typed, RunType, Control, Stepping
<1>2. op' \in Operations /\ op'.step = "winner file"
  BY <1>1, Continued DEF UnlinkLoserStory, StepNames
<1>3. StoreType'
  BY <1>1 DEF RunInv, Typed, StoreType, Live
<1>4. RunType' /\ HistoryType'
  BY <1>1, <1>2 DEF RunInv, Typed, RunType, HistoryType
<1>5. Control' /\ Grouped'
  BY <1>1, <1>2, DedupFrame
<1>6. \A e : Members(e)' = Members(e)
  BY <1>1 DEF Members
<1>7. Told'
  <2> SUFFICES ASSUME NEW e \in Events, e \notin leftover'
               PROVE  /\ story'[e] # None /\ ~ story'[e].hidden => Clean(e)'
                      /\ Members(e)' = {} => story'[e] = None
    BY DEF Told
  <2>1. CASE e = op.other
    BY <1>1, <2>1 DEF RunInv, Typed, StoreType
  <2>2. CASE e # op.other
    <3>1. e \notin leftover /\ story'[e] = story[e]
      BY <1>1, <2>2 DEF RunInv, Typed, StoreType
    <3> QED
      BY <1>6, <3>1 DEF Clean, RunInv, Stored, Told
  <2> QED
    BY <2>1, <2>2
<1>8. Checked'
  BY <1>1, <1>6 DEF RunInv, Stored, Checked
<1>9. Hiding'
  BY <1>2 DEF Hiding, At
<1> QED
  BY <1>3, <1>4, <1>5, <1>7, <1>8, <1>9 DEF RunInv, Typed, Stored

LEMMA WriteWinnerStep ==
    ASSUME RunInv, WriteWinner
    PROVE  RunInv'
<1>1. /\ op \in Operations /\ at = "dedup" /\ op.event \in Events
      /\ file' = [file EXCEPT ![op.event] = Grown(@, Members(op.event))]
      /\ UNCHANGED <<stage, owner, failures, row, story, rejected, history,
                     at, pass, collecting, snap, todo, queue, batch>>
  BY DEF WriteWinner, At, RunInv, Typed, RunType, Operations, Control, Stepping
<1>2. op' \in Operations /\ op'.step = "winner row"
  BY <1>1, Continued DEF WriteWinner, StepNames
<1>3. StoreType'
  <2>1. file[op.event] \in Files \cup {None} /\ Members(op.event) \in SUBSET Articles
    BY <1>1 DEF Members, RunInv, Typed, StoreType
  <2>2. Grown(file[op.event], Members(op.event)) \in Files
    BY <2>1 DEF Grown, Files
  <2>3. DOMAIN file' = Events /\ \A e \in Events : file'[e] \in Files \cup {None}
    BY <1>1, <2>2 DEF RunInv, Typed, StoreType
  <2> QED
    BY <1>1, <2>3 DEF RunInv, Typed, StoreType, Live
<1>4. RunType' /\ HistoryType'
  BY <1>1, <1>2 DEF history, RunInv, Typed, RunType, HistoryType
<1>5. Control' /\ Grouped'
  BY <1>1, <1>2, DedupFrame
<1>6. Stored'
  BY <1>1, <1>2, NothingStored DEF history, RunInv
<1> QED
  BY <1>3, <1>4, <1>5, <1>6 DEF RunInv, Typed

\* Neither write of the winner's row makes its checkpoint current.
LEMMA UpsertWinnerStep ==
    ASSUME RunInv, UpsertWinner
    PROVE  RunInv'
<1>1. /\ op \in Operations /\ at = "dedup" /\ op.event \in Events
      /\ row' = [row EXCEPT ![op.event] = Upserted(@)] \/ row' = row
      /\ UNCHANGED <<stage, owner, failures, file, story, rejected, history,
                     at, pass, collecting, snap, todo, queue, batch>>
  BY DEF UpsertWinner, At, RunInv, Typed, RunType, Operations, Control, Stepping
<1>2. op' \in Operations /\ op'.step = "requeue"
  BY <1>1, Continued DEF UpsertWinner, StepNames
<1>3. /\ row' \in [Events -> {"none", "unset", "updated", "current"}]
      /\ \A e \in Events : row'[e] = row[e] \/ row'[e] \in {"unset", "updated"}
  BY <1>1 DEF Upserted, RunInv, Typed, StoreType
<1>4. Live \subseteq Live'
  BY <1>3 DEF Live
<1>5. StoreType'
  BY <1>1, <1>3, <1>4 DEF RunInv, Typed, StoreType
<1>6. RunType' /\ HistoryType'
  BY <1>1, <1>2 DEF history, RunInv, Typed, RunType, HistoryType
<1>7. Control' /\ Grouped'
  BY <1>1, <1>2, DedupFrame
<1>8. \A e : Members(e)' = Members(e)
  BY <1>1 DEF Members
<1>9. Told'
  BY <1>1, <1>8 DEF history, Clean, RunInv, Stored, Told
<1>10. Checked'
  BY <1>1, <1>3, <1>8 DEF history, RunInv, Stored, Checked
<1>11. Hiding'
  BY <1>2 DEF Hiding, At
<1> QED
  BY <1>5, <1>6, <1>7, <1>9, <1>10, <1>11 DEF RunInv, Typed, Stored

LEMMA RequeueStep ==
    ASSUME RunInv, Requeue
    PROVE  RunInv'
<1>1. /\ op \in Operations /\ at = "dedup" /\ op.event \in Events
      /\ row' = [row EXCEPT ![op.event] = "unset"]
      /\ torn' = torn \ {op.event} /\ op' = None
      /\ UNCHANGED <<stage, owner, failures, file, story, rejected, faults, merges, leftover, seen,
                     at, pass, collecting, snap, todo, queue, batch>>
  BY DEF Requeue, At, RunInv, Typed, RunType, Operations, Control, Stepping
<1>2. /\ row' \in [Events -> {"none", "unset", "updated", "current"}]
      /\ row'[op.event] = "unset"
      /\ \A e \in Events : e # op.event => row'[e] = row[e]
  BY <1>1 DEF RunInv, Typed, StoreType
<1>3. Live \subseteq Live'
  BY <1>2 DEF Live
<1>4. StoreType'
  BY <1>1, <1>2, <1>3 DEF RunInv, Typed, StoreType
<1>5. RunType' /\ HistoryType'
  BY <1>1 DEF RunInv, Typed, RunType, HistoryType
<1>6. Control' /\ Grouped'
  BY <1>1, DedupFrame
<1>7. \A e : Members(e)' = Members(e)
  BY <1>1 DEF Members
<1>8. Told'
  BY <1>1, <1>7 DEF Clean, RunInv, Stored, Told
<1>9. Checked'
  BY <1>1, <1>2, <1>7 DEF RunInv, Stored, Checked
<1>10. Hiding'
  BY <1>1 DEF Hiding, At
<1> QED
  BY <1>4, <1>5, <1>6, <1>8, <1>9, <1>10 DEF RunInv, Typed, Stored

--------------------------------------------------------------------------------
(* The editorial stage.                                                      *)

\* What is left to show of a step that ends in the editorial stage.
LEMMA EditFrame ==
    ASSUME RunInv, at = "edit", UNCHANGED <<at, pass, collecting, queue>>, todo' \subseteq todo,
           op' = None \/ op'.step \in {"unreject", "story", "mark"}
    PROVE  Control' /\ Grouped'
<1>1. queue = {}
  BY DEF RunInv, Grouped, Queued
<1>2. Grouped'
  BY <1>1, NothingQueued
<1>3. Control'
  BY DEF RunInv, Control, Stepping, Phased, Listed
<1> QED
  BY <1>2, <1>3

LEMMA RefreshStep ==
    ASSUME RunInv, Refresh
    PROVE  RunInv'
<1>1. PICK e \in todo :
        /\ story[e] # None
        /\ story' = [story EXCEPT ![e].sources = @ \cup Members(e)]
        /\ op' = Step("unreject", e)
        /\ todo' = todo \ {e}
  BY DEF Refresh
<1>2. /\ at = "edit" /\ todo \subseteq Events /\ e \in Events
      /\ UNCHANGED <<stage, owner, failures, row, file, rejected, history,
                     at, pass, collecting, snap, queue, batch>>
  BY DEF Refresh, Unhindered, RunInv, Control, Listed
<1>3. op' \in Operations /\ op'.step = "unreject"
  BY <1>1, <1>2, StepType DEF StepNames
<1>4. \A d : Members(d)' = Members(d)
  BY <1>2 DEF Members
<1>5. /\ DOMAIN story' = Events
      /\ \A d \in Events : d # e => story'[d] = story[d]
      /\ story'[e] \in Stories
      /\ story'[e].hidden = story[e].hidden /\ story'[e].basis = story[e].basis
  <2> DEFINE s == [story[e] EXCEPT !.sources = @ \cup Members(e)]
  <2>1. story[e] \in Stories
    BY <1>1, <1>2 DEF RunInv, Typed, StoreType
  <2>2. s \in Stories /\ s.hidden = story[e].hidden /\ s.basis = story[e].basis
    BY <2>1 DEF Stories, Members
  <2>3. story' = [story EXCEPT ![e] = s]
    BY <1>1
  <2> HIDE DEF s
  <2> QED
    BY <1>2, <2>2, <2>3 DEF RunInv, Typed, StoreType
<1>6. StoreType'
  BY <1>2, <1>5 DEF RunInv, Typed, StoreType, Live
<1>7. RunType' /\ HistoryType'
  BY <1>2, <1>3 DEF history, RunInv, Typed, RunType, HistoryType
<1>8. Control' /\ Grouped'
  BY <1>1, <1>2, <1>3, EditFrame
<1>9. Told'
  <2> SUFFICES ASSUME NEW d \in Events \ leftover
               PROVE  /\ story'[d] # None /\ ~ story'[d].hidden => Clean(d)'
                      /\ Members(d)' = {} => story'[d] = None
    BY <1>2 DEF history, Told
  <2>1. /\ story[d] # None /\ ~ story[d].hidden => Clean(d)
        /\ Members(d) = {} => story[d] = None
    BY DEF RunInv, Stored, Told
  <2>2. CASE d = e
    BY <1>1, <1>4, <1>5, <2>1, <2>2 DEF Clean
  <2>3. CASE d # e
    BY <1>4, <1>5, <2>1, <2>3 DEF Clean
  <2> QED
    BY <2>2, <2>3
<1>10. Checked'
  BY <1>2, <1>4 DEF history, RunInv, Stored, Checked
<1>11. Hiding'
  BY <1>3 DEF Hiding, At
<1> QED
  BY <1>6, <1>7, <1>8, <1>9, <1>10, <1>11 DEF RunInv, Typed, Stored

\* Steps that change a rejection only.
LEMMA RejectionStep ==
    ASSUME RunInv, at = "edit",
           NEW e \in Events, NEW r \in Rejections \cup {None}, rejected' = [rejected EXCEPT ![e] = r],
           todo' \subseteq todo,
           op' = None \/ (op' \in Operations /\ op'.step \in {"unreject", "story", "mark"}),
           UNCHANGED <<stage, owner, failures, row, file, story, history,
                       at, pass, collecting, snap, queue, batch>>
    PROVE  RunInv'
<1>1. StoreType'
  BY DEF RunInv, Typed, StoreType, Live
<1>2. RunType' /\ HistoryType'
  BY DEF history, RunInv, Typed, RunType, HistoryType
<1>3. Control' /\ Grouped'
  BY EditFrame
<1>4. Stored'
  BY NothingStored DEF history, RunInv
<1> QED
  BY <1>1, <1>2, <1>3, <1>4 DEF RunInv, Typed

LEMMA RejectionSteps ==
    ASSUME RunInv, Unreject \/ Approve \/ Reject
    PROVE  RunInv'
<1>1. CASE Unreject
  <2>1. /\ at = "edit" /\ op \in Operations /\ op.event \in Events
        /\ op' \in Operations /\ op'.step = "mark"
    BY <1>1, Continued DEF Unreject, At, Operations, StepNames, RunInv, Typed, RunType, Control, Stepping
  <2> QED
    BY <1>1, <2>1, RejectionStep DEF Unreject
<1>2. CASE Approve
  <2>1. PICK e \in todo :
          /\ rejected' = [rejected EXCEPT ![e] = None]
          /\ op' = Step("story", e)
          /\ todo' = todo \ {e}
    BY <1>2 DEF Approve
  <2>2. at = "edit" /\ e \in Events
    BY <1>2 DEF Approve, Unhindered, RunInv, Control, Listed
  <2>3. op' \in Operations /\ op'.step = "story"
    BY <2>1, <2>2, StepType DEF StepNames
  <2> QED
    BY <1>2, <2>1, <2>2, <2>3, RejectionStep DEF Approve
<1>3. CASE Reject
  <2>1. PICK e \in todo :
          /\ rejected' = [rejected EXCEPT ![e] =
                [input |-> Members(e), attempts |-> Attempts(e) + 1, cooling |-> TRUE]]
          /\ todo' = todo \ {e}
    BY <1>3 DEF Reject
  <2>2. at = "edit" /\ e \in Events /\ op = None /\ op' = None
    BY <1>3 DEF Reject, Unhindered, RunInv, Control, Listed
  <2>3. Attempts(e) \in Nat
    BY <2>2 DEF Attempts, RunInv, Typed, StoreType, Rejections
  <2>4. [input |-> Members(e), attempts |-> Attempts(e) + 1, cooling |-> TRUE] \in Rejections
    <3>1. Members(e) \in SUBSET Articles /\ Attempts(e) + 1 \in Nat
      BY <2>3 DEF Members
    <3> HIDE DEF Members, Attempts
    <3> QED
      BY <3>1 DEF Rejections
  <2> QED
    BY <1>3, <2>1, <2>2, <2>4, RejectionStep DEF Reject
<1> QED
  BY <1>1, <1>2, <1>3

\* A checkpoint sees the members there are.
LEMMA CheckpointStep ==
    ASSUME RunInv, at = "edit", NEW e \in Events, Checkpoint(e), todo' \subseteq todo, op' = None,
           UNCHANGED <<stage, owner, failures, file, story, rejected, faults, merges, leftover,
                       at, pass, collecting, snap, queue, batch>>
    PROVE  RunInv'
<1>1. /\ row' = [row EXCEPT ![e] = "current"]
      /\ seen' = [seen EXCEPT ![e] = Members(e)]
      /\ torn' = torn \ {e}
  BY DEF Checkpoint
<1>2. /\ row' \in [Events -> {"none", "unset", "updated", "current"}]
      /\ row'[e] = "current" /\ \A d \in Events : d # e => row'[d] = row[d]
  BY <1>1 DEF RunInv, Typed, StoreType
<1>3. /\ seen' \in [Events -> SUBSET Articles]
      /\ seen'[e] = Members(e) /\ \A d \in Events : d # e => seen'[d] = seen[d]
  <2>1. Members(e) \in SUBSET Articles
    BY DEF Members
  <2> QED
    BY <1>1, <2>1 DEF RunInv, Typed, HistoryType
<1>4. Live \subseteq Live'
  BY <1>2 DEF Live
<1>5. StoreType'
  BY <1>2, <1>4 DEF RunInv, Typed, StoreType
<1>6. RunType' /\ HistoryType'
  BY <1>1, <1>3 DEF RunInv, Typed, RunType, HistoryType
<1>7. Control' /\ Grouped'
  BY EditFrame
<1>8. \A d : Members(d)' = Members(d)
  BY DEF Members
<1>9. Told'
  BY <1>8 DEF Clean, RunInv, Stored, Told
<1>10. Checked'
  <2> SUFFICES ASSUME NEW d \in Events, d \notin torn', row'[d] = "current"
               PROVE  Members(d)' \subseteq seen'[d]
    BY DEF Checked
  <2>1. CASE d = e
    BY <1>3, <1>8, <2>1
  <2>2. CASE d # e
    BY <1>1, <1>2, <1>3, <1>8, <2>2 DEF RunInv, Stored, Checked
  <2> QED
    BY <2>1, <2>2
<1>11. Hiding'
  BY DEF Hiding, At
<1> QED
  BY <1>5, <1>6, <1>7, <1>9, <1>10, <1>11 DEF RunInv, Typed, Stored

LEMMA CheckpointSteps ==
    ASSUME RunInv, Mark \/ GateSkips
    PROVE  RunInv'
<1>1. CASE Mark
  <2>1. at = "edit" /\ op.event \in Events
    BY <1>1 DEF Mark, At, Operations, RunInv, Typed, RunType, Control, Stepping
  <2> QED
    BY <1>1, <2>1, CheckpointStep DEF Mark
<1>2. CASE GateSkips
  <2>1. PICK e \in todo : Checkpoint(e) /\ todo' = todo \ {e}
    BY <1>2 DEF GateSkips
  <2>2. at = "edit" /\ e \in Events /\ op' = None
    BY <1>2 DEF GateSkips, Unhindered, RunInv, Control, Listed
  <2> QED
    BY <1>2, <2>1, <2>2, CheckpointStep DEF GateSkips
<1> QED
  BY <1>1, <1>2

\* A new story rests on members of its event.
LEMMA WriteStoryStep ==
    ASSUME RunInv, WriteStory
    PROVE  RunInv'
<1>1. /\ op \in Operations /\ at = "edit" /\ op.event \in Events
      /\ leftover' = leftover \ {op.event}
      /\ UNCHANGED <<stage, owner, failures, row, file, rejected, faults, merges, torn, seen,
                     at, pass, collecting, snap, todo, queue, batch>>
  BY DEF WriteStory, At, RunInv, Typed, RunType, Operations, Control, Stepping
<1>2. PICK used \in (SUBSET Members(op.event)) \ {{}} :
        story' = [story EXCEPT ![op.event] = [basis |-> used, sources |-> used, hidden |-> FALSE]]
  BY DEF WriteStory
<1>3. op' \in Operations /\ op'.step = "mark"
  BY <1>1, Continued DEF WriteStory, StepNames
<1>4. \A d : Members(d)' = Members(d)
  BY <1>1 DEF Members
<1>5. /\ DOMAIN story' = Events
      /\ \A d \in Events : d # op.event => story'[d] = story[d]
      /\ story'[op.event] = [basis |-> used, sources |-> used, hidden |-> FALSE]
  BY <1>1, <1>2 DEF RunInv, Typed, StoreType
<1>6. StoreType'
  <2>1. [basis |-> used, sources |-> used, hidden |-> FALSE] \in Stories
    BY DEF Stories, Members
  <2> QED
    BY <1>1, <1>5, <2>1 DEF RunInv, Typed, StoreType, Live
<1>7. RunType' /\ HistoryType'
  BY <1>1, <1>3 DEF RunInv, Typed, RunType, HistoryType
<1>8. Control' /\ Grouped'
  BY <1>1, <1>3, EditFrame
<1>9. Told'
  <2> SUFFICES ASSUME NEW d \in Events, d \notin leftover'
               PROVE  /\ story'[d] # None /\ ~ story'[d].hidden => Clean(d)'
                      /\ Members(d)' = {} => story'[d] = None
    BY DEF Told
  <2>1. CASE d = op.event
    <3>1. used \subseteq Members(d) /\ Members(d) # {}
      BY <2>1
    <3>2. story'[d].basis = used
      BY <1>5, <2>1
    <3> QED
      BY <1>4, <3>1, <3>2 DEF Clean
  <2>2. CASE d # op.event
    BY <1>1, <1>4, <1>5, <2>2 DEF Clean, RunInv, Stored, Told
  <2> QED
    BY <2>1, <2>2
<1>10. Checked'
  BY <1>1, <1>4 DEF RunInv, Stored, Checked
<1>11. Hiding'
  BY <1>3 DEF Hiding, At
<1> QED
  BY <1>6, <1>7, <1>8, <1>9, <1>10, <1>11 DEF RunInv, Typed, Stored

--------------------------------------------------------------------------------
(* From stage to stage.                                                      *)

\* A step that only turns to other work, or ends the run.
LEMMA TurnStep ==
    ASSUME RunInv, op' = None, queue' = {}, UNCHANGED <<store, merges, torn, leftover, seen>>,
           faults' \in 0 .. MaxFaults, RunType', Phased', Listed'
    PROVE  RunInv'
<1>1. Typed'
  BY DEF store, RunInv, Typed, StoreType, HistoryType, Live
<1>2. Control'
  BY DEF Control, Stepping
<1>3. Grouped'
  BY DEF Grouped, Queued, Taken
<1>4. Stored'
  BY NothingStored DEF store, RunInv
<1> QED
  BY <1>1, <1>2, <1>3, <1>4 DEF RunInv

LEMMA FaultsKept == ASSUME RunInv, UNCHANGED history PROVE faults' \in 0 .. MaxFaults
BY DEF history, RunInv, Typed, HistoryType

LEMMA CandidatesAreEvents == Candidates \subseteq Events /\ Live \subseteq Events
BY DEF Candidates, Live

LEMMA SnapshotStep ==
    ASSUME RunInv, Snapshot
    PROVE  RunInv'
<1>1. /\ at = "maintain" /\ op = None /\ op' = None /\ queue = {} /\ queue' = {}
      /\ snap' \subseteq Articles /\ collecting' = TRUE
      /\ UNCHANGED <<store, history, queue>>
  BY DEF Snapshot, Done, Unhindered
<1>2. UNCHANGED <<stage, merges, torn, leftover, seen>> /\ faults' \in 0 .. MaxFaults
  BY <1>1, FaultsKept DEF store, history
<1>3. pass = "backlog"
  BY <1>1 DEF RunInv, Control, Phased
<1>4. CASE EnterEdit("backlog")
  BY <1>1, <1>2, <1>4, TurnStep, CandidatesAreEvents
     DEF EnterEdit, RunInv, Typed, RunType, Phases, Phased, Listed
<1>5. CASE EnterDigest("prior", snap')
  <2>1. /\ at' = "digest" /\ pass' = "prior" /\ batch' = {}
        /\ todo' = {a \in snap' : stage[a] = "collected"}
    BY <1>5 DEF EnterDigest, Undigested
  <2>2. Limit' = snap'
    BY <2>1 DEF Limit
  <2> QED
    BY <1>1, <1>2, <2>1, <2>2, TurnStep DEF RunInv, Typed, RunType, Phases, Phased, Listed
<1>6. CASE EnterJoin
  BY <1>1, <1>2, <1>3, <1>6, TurnStep DEF EnterJoin, RunInv, Typed, RunType, Phases, Phased, Listed
<1> QED
  BY <1>4, <1>5, <1>6 DEF Snapshot

\* The end of collection changes no list.
LEMMA CollectDoneStep ==
    ASSUME RunInv, CollectDone
    PROVE  RunInv'
<1>1. collecting' = FALSE /\ UNCHANGED <<store, history, at, pass, snap, todo, queue, batch, op>>
  BY DEF CollectDone
<1>2. Limit' = Limit
  BY <1>1 DEF Limit
<1>3. Typed'
  BY <1>1 DEF store, history, RunInv, Typed, StoreType, RunType, HistoryType, Live
<1>4. Control'
  BY <1>1, <1>2 DEF store, RunInv, Control, Stepping, Phased, Listed
<1>5. Grouped'
  BY <1>1, <1>2 DEF store, RunInv, Grouped, Queued, Taken, Takes, Live
<1>6. Stored'
  BY <1>1, NothingStored DEF store, history, RunInv
<1> QED
  BY <1>3, <1>4, <1>5, <1>6 DEF RunInv

LEMMA EndDigestStep ==
    ASSUME RunInv, EndDigest
    PROVE  RunInv'
<1>1. /\ at = "digest" /\ op' = None /\ queue' = {} /\ at' = "group" /\ todo' = Loadable(Limit)
      /\ UNCHANGED <<store, history, pass, collecting, snap, queue, batch, op>>
  BY DEF EndDigest, Done, Unhindered
<1>2. UNCHANGED <<stage, merges, torn, leftover, seen>> /\ faults' \in 0 .. MaxFaults
  BY <1>1, FaultsKept DEF store, history
<1>3. Limit' = Limit
  BY <1>1 DEF Limit
<1>4. \A a \in todo' : a \in Limit' /\ stage'[a] = "digested"
  BY <1>1, <1>2, <1>3 DEF Loadable
<1> QED
  BY <1>1, <1>2, <1>4, TurnStep DEF RunInv, Typed, RunType, Phases, Control, Phased, Listed

LEMMA EndGroupStep ==
    ASSUME RunInv, EndGroup
    PROVE  RunInv'
<1>1. /\ at = "group" /\ op' = None /\ queue' = {}
      /\ UNCHANGED <<store, history, collecting, snap, queue, op>>
  BY DEF EndGroup, Done, Unhindered
<1>2. UNCHANGED <<file, merges, torn, leftover, seen>> /\ faults' \in 0 .. MaxFaults
  BY <1>1, FaultsKept DEF store, history
<1>3. CASE pass = "prior" /\ EnterEdit("prior")
  BY <1>1, <1>2, <1>3, TurnStep, CandidatesAreEvents
     DEF EnterEdit, RunInv, Typed, RunType, Phases, Phased, Listed
<1>4. CASE pass = "final" /\ at' = "review" /\ todo' = Reviewable /\ UNCHANGED <<pass, batch>>
  <2>1. todo' \subseteq Events /\ \A e \in todo' : file'[e] # None
    BY <1>2, <1>4, CandidatesAreEvents DEF Reviewable
  <2> QED
    BY <1>1, <1>2, <1>4, <2>1, TurnStep DEF RunInv, Typed, RunType, Phases, Control, Phased, Listed
<1> QED
  BY <1>3, <1>4 DEF EndGroup

LEMMA EndReviewStep ==
    ASSUME RunInv, EndReview
    PROVE  RunInv'
<1>1. /\ at = "review" /\ op' = None /\ queue' = {} /\ at' = "dedup" /\ todo' = {}
      /\ UNCHANGED <<store, history, pass, collecting, snap, batch>>
  BY DEF EndReview, Done, Unhindered
<1>2. UNCHANGED <<merges, torn, leftover, seen>> /\ faults' \in 0 .. MaxFaults
  BY <1>1, FaultsKept DEF history
<1> QED
  BY <1>1, <1>2, TurnStep DEF RunInv, Typed, RunType, Phases, Control, Phased, Listed

LEMMA EndDedupStep ==
    ASSUME RunInv, EndDedup
    PROVE  RunInv'
<1>1. /\ at = "dedup" /\ op' = None /\ queue' = {} /\ EnterEdit("final")
      /\ UNCHANGED <<store, history, collecting, snap>>
  BY DEF EndDedup, Done, Unhindered
<1>2. UNCHANGED <<merges, torn, leftover, seen>> /\ faults' \in 0 .. MaxFaults
  BY <1>1, FaultsKept DEF history
<1> QED
  BY <1>1, <1>2, TurnStep, CandidatesAreEvents
     DEF EnterEdit, RunInv, Typed, RunType, Phases, Control, Phased, Listed

\* A run that ends leaves nothing to take up but what it stored.
LEMMA EndRunStep ==
    ASSUME RunInv, EndRun, UNCHANGED <<store, merges, torn, leftover, seen>>, faults' \in 0 .. MaxFaults
    PROVE  RunInv'
BY TurnStep DEF EndRun, RunType, Phases, Phased, Listed

LEMMA EndEditStep ==
    ASSUME RunInv, EndEdit
    PROVE  RunInv'
<1>1. at = "edit" /\ op = None /\ queue = {} /\ todo = {} /\ UNCHANGED <<store, history>>
  BY DEF EndEdit, Done, Unhindered
<1>2. UNCHANGED <<stage, merges, torn, leftover, seen>> /\ faults' \in 0 .. MaxFaults
  BY <1>1, FaultsKept DEF store, history
<1>3. CASE EndRun
  BY <1>1, <1>2, <1>3, EndRunStep
<1>4. CASE at' = "blocked" /\ UNCHANGED <<pass, collecting, snap, todo, queue, batch, op>>
  BY <1>1, <1>2, <1>4, TurnStep DEF RunInv, Typed, RunType, Phases, Control, Phased, Listed
<1>5. CASE EnterDigest("prior", snap) /\ UNCHANGED <<collecting, snap, queue, op>>
  <2>1. /\ at' = "digest" /\ pass' = "prior" /\ batch' = {}
        /\ todo' = {a \in snap : stage[a] = "collected"}
    BY <1>5 DEF EnterDigest, Undigested
  <2>2. Limit' = snap
    BY <1>5, <2>1 DEF Limit
  <2> QED
    BY <1>1, <1>2, <1>5, <2>1, <2>2, TurnStep DEF RunInv, Typed, RunType, Phases, Phased, Listed
<1>6. CASE EnterJoin /\ UNCHANGED <<collecting, snap, queue, op>>
  BY <1>1, <1>2, <1>6, TurnStep DEF EnterJoin, RunInv, Typed, RunType, Phases, Control, Phased, Listed
<1> QED
  BY <1>3, <1>4, <1>5, <1>6 DEF EndEdit

LEMMA EndJoinStep ==
    ASSUME RunInv, EndJoin
    PROVE  RunInv'
<1>1. /\ op' = None /\ queue' = {} /\ collecting' = FALSE
      /\ EnterDigest("final", Articles)
      /\ UNCHANGED <<store, history, snap>>
  BY DEF EndJoin, Done, Unhindered, RunInv, Typed, RunType
<1>2. UNCHANGED <<stage, merges, torn, leftover, seen>> /\ faults' \in 0 .. MaxFaults
  BY <1>1, FaultsKept DEF store, history
<1>3. /\ at' = "digest" /\ pass' = "final" /\ batch' = {}
      /\ todo' = {a \in Articles : stage[a] = "collected"}
  BY <1>1 DEF EnterDigest, Undigested
<1>4. Limit' = Articles
  BY <1>3 DEF Limit
<1> QED
  BY <1>1, <1>2, <1>3, <1>4, TurnStep DEF RunInv, Typed, RunType, Phases, Phased, Listed

LEMMA EndSteps ==
    ASSUME RunInv, EndBlocked \/ Crash
    PROVE  RunInv'
<1>1. EndRun /\ UNCHANGED <<store, merges, torn, leftover, seen>>
  BY DEF EndBlocked, Crash, history
<1>2. faults' \in 0 .. MaxFaults
  BY DEF EndBlocked, Crash, Fault, history, RunInv, Typed, HistoryType
<1> QED
  BY <1>1, <1>2, EndRunStep

--------------------------------------------------------------------------------
(* The invariant, and what follows from it.                                  *)

LEMMA StutterStep ==
    ASSUME RunInv, UNCHANGED vars
    PROVE  RunInv'
<1>1. UNCHANGED <<store, run, history>>
  BY DEF vars
<1>2. Typed'
  BY <1>1 DEF store, run, history, RunInv, Typed, StoreType, RunType, HistoryType, Live
<1>3. Limit' = Limit
  BY <1>1 DEF run, Limit
<1>4. Control'
  BY <1>1, <1>3 DEF store, run, RunInv, Control, Stepping, Phased, Listed
<1>5. Grouped'
  BY <1>1, <1>3 DEF store, run, RunInv, Grouped, Queued, Taken, Takes, Live
<1>6. Stored'
  BY <1>1, NothingStored DEF store, run, history, RunInv
<1> QED
  BY <1>2, <1>4, <1>5, <1>6 DEF RunInv

LEMMA NextRun == RunInv /\ [Next]_vars => RunInv'
<1> SUFFICES ASSUME RunInv, [Next]_vars PROVE RunInv'
  OBVIOUS
<1>1. CASE Start \/ Maintaining
  BY <1>1, StartStep, DeleteEmptyStep, UnlinkEmptyStep, ReconcileStep, FailureSteps, SnapshotStep
     DEF Maintaining
<1>2. CASE Digesting
  BY <1>2, DigestingStep, EndDigestStep DEF Digesting
<1>3. CASE Grouping
  BY <1>3, TakeGroupStep, GroupFailsStep, SetAsideStep, ReplayStep, FoundStep, ExtendStep,
     UpsertGroupStep, AssignStep, EndGroupStep DEF Grouping
<1>4. CASE Reviewing
  BY <1>4, CoherentStep, FailureSteps, HideStep, PartitionStep, PartitionFailsStep, WriteSplitStep,
     EndReviewStep DEF Reviewing
<1>5. CASE Merging
  BY <1>5, MergeStep, UnlinkLoserStep, UnlinkLoserStoryStep, WriteWinnerStep, UpsertWinnerStep,
     RequeueStep, FailureSteps, EndDedupStep DEF Merging
<1>6. CASE Editing
  BY <1>6, RefreshStep, RejectionSteps, CheckpointSteps, WriteStoryStep, FailureSteps, EndEditStep,
     EndSteps, EndJoinStep DEF Editing
<1>7. CASE CollectDone \/ Crash \/ \E a \in Articles : Collect(a)
  BY <1>7, CollectDoneStep, EndSteps, CollectStep
<1>8. CASE UNCHANGED vars
  BY <1>8, StutterStep
<1> QED
  BY <1>1, <1>2, <1>3, <1>4, <1>5, <1>6, <1>7, <1>8 DEF Next, RunNext

\* The invariant of the pipeline's run: the types, what each stage may have in
\* hand, which articles the groups hold, and what the stories, the members and
\* the checkpoints have to do with each other (pipeline/cli.py,
\* run_completed_pipeline, and the stages it calls).
THEOREM RunInvariant == Spec => []RunInv
BY InitRun, NextRun, PTL DEF Spec

\* The variables keep their types: an article is of an event only once it is
\* digested, and only of one that has a row (pipeline/state.py).
THEOREM TypeCorrect == Spec => []TypeOK
BY RunInvariant, TypedOK, PTL

\* A story readers can see rests on articles of its own event, whatever fails
\* between the writes of a split or a generation (pipeline/coherence.py hides it
\* first, pipeline/editorial.py writes it last); a merge broken off half-way may
\* leave the loser's story to an event that takes the loser's id.
THEOREM StoriesStayClean == Spec => []VisibleStoryIsClean
<1>1. RunInv => VisibleStoryIsClean
  BY DEF RunInv, Stored, Told, Clean, VisibleStoryIsClean, Live
<1> QED
  BY <1>1, RunInvariant, PTL

\* No article slips past the editorial stage: an event whose checkpoint is
\* current had all of its articles when the checkpoint was set, because a group
\* moves updated_at before it assigns and a split clears the checkpoints with
\* the assignment; a merge clears the winner's last, and may be broken off.
THEOREM CheckpointsSeeMembers == Spec => []CheckpointSawMembers
<1>1. RunInv => CheckpointSawMembers
  BY DEF RunInv, Stored, Checked, CheckpointSawMembers, Live
<1> QED
  BY <1>1, RunInvariant, PTL

\* The steps that change an article's event or how far it is.
LEMMA Movers ==
    ASSUME [Next]_vars
    PROVE  \/ SetAside \/ Assign \/ Partition \/ Merge \/ Digest \/ DropArticle
           \/ \E a \in Articles : Collect(a)
           \/ UNCHANGED <<stage, owner>>
<1>1. CASE Start \/ Maintaining
  BY <1>1 DEF Start, Maintaining, DeleteEmpty, UnlinkEmpty, Reconcile, ReconcileFails, Snapshot, store
<1>2. CASE Digesting
  BY <1>2 DEF Digesting, DigestFails, EndDigest, store
<1>3. CASE Grouping
  BY <1>3 DEF Grouping, TakeGroup, GroupFails, Replay, Found, Extend, WriteEvent, UpsertGroup, EndGroup, store
<1>4. CASE Reviewing
  BY <1>4 DEF Reviewing, Coherent, ReviewFails, Hide, PartitionFails, WriteSplit, SplitFails, EndReview, store
<1>5. CASE Merging
  BY <1>5 DEF Merging, UnlinkLoser, UnlinkLoserStory, WriteWinner, UpsertWinner, Requeue, MergeFails,
              EndDedup, store
<1>6. CASE Editing
  BY <1>6 DEF Editing, Refresh, Unreject, Mark, GateSkips, Approve, WriteStory, Reject, StoryFails,
              EndEdit, EndBlocked, EndJoin, store
<1>7. CASE CollectDone \/ Crash \/ \E a \in Articles : Collect(a)
  BY <1>7 DEF CollectDone, Crash, store
<1>8. CASE UNCHANGED vars
  BY <1>8 DEF vars, store
<1> QED
  BY <1>1, <1>2, <1>3, <1>4, <1>5, <1>6, <1>7, <1>8 DEF Next, RunNext

\* Grouping takes articles of no event or of the one it extends, so it merges
\* no two events: an article changes from one event to another only in the
\* coherence review and the duplicate review (pipeline/aggregate.py).
THEOREM GroupingMergesNothing == Spec => NoImplicitMerge
<1> DEFINE Kept == \A a \in Articles :
                      owner[a] # None /\ owner'[a] # owner[a] => at \in {"review", "dedup"}
<1>1. RunInv /\ [Next]_vars => Kept
  <2> SUFFICES ASSUME RunInv, [Next]_vars,
                      NEW a \in Articles, owner[a] # None, owner'[a] # owner[a]
               PROVE  at \in {"review", "dedup"}
    OBVIOUS
  <2>1. CASE SetAside \/ Digest \/ DropArticle \/ (\E b \in Articles : Collect(b)) \/ UNCHANGED <<stage, owner>>
    BY <2>1 DEF SetAside, Digest, DropArticle, Collect
  <2>2. CASE Assign
    <3>1. op # None /\ op.step = "assign" /\ at = "group"
      BY <2>2 DEF Assign, At, RunInv, Control, Stepping
    <3>2. \A b \in op.articles : owner[b] \in {None, op.event}
      BY <3>1 DEF RunInv, Grouped, Taken, Takes
    <3> QED
      BY <2>2, <3>2 DEF Assign
  <2>3. CASE Partition
    BY <2>3 DEF Partition, At, RunInv, Control, Stepping
  <2>4. CASE Merge
    BY <2>4 DEF Merge, Unhindered
  <2> QED
    BY <2>1, <2>2, <2>3, <2>4, Movers
<1> QED
  BY <1>1, RunInvariant, PTL DEF Spec, NoImplicitMerge

\* While the collection thread runs, the run digests, filters and groups only
\* articles its snapshot holds: those that arrive wait for the final pass
\* (pipeline/cli.py passes the snapshot's last rowid to every backlog stage).
THEOREM BacklogComesFirst == Spec => BacklogFirst
<1> DEFINE Waits == collecting => \A a \in Articles \ snap :
                        /\ owner'[a] = owner[a]
                        /\ stage[a] # "absent" => stage'[a] = stage[a]
<1>1. RunInv /\ [Next]_vars => Waits
  <2> SUFFICES ASSUME RunInv, [Next]_vars, collecting, NEW a \in Articles \ snap
               PROVE  owner'[a] = owner[a] /\ (stage[a] # "absent" => stage'[a] = stage[a])
    OBVIOUS
  <2>1. pass # "final" /\ a \notin Limit /\ at \notin {"review", "dedup"}
    BY DEF Limit, RunInv, Control, Phased
  <2>2. CASE \E b \in Articles : Collect(b)
    <3>1. PICK b \in Articles : Collect(b)
      BY <2>2
    <3>2. owner' = owner /\ stage[b] = "absent" /\ stage' = [stage EXCEPT ![b] = "collected"]
      BY <3>1 DEF Collect
    <3> QED
      BY <3>2 DEF RunInv, Typed, StoreType
  <2>3. CASE Digest \/ DropArticle
    <3>1. PICK b \in todo, s \in {"digested", "filtered"} : owner' = owner /\ stage' = [stage EXCEPT ![b] = s]
      BY <2>3 DEF Digest, DropArticle
    <3>2. a # b
      BY <2>1, <2>3 DEF Digest, DropArticle, Unhindered, RunInv, Control, Listed
    <3> QED
      BY <3>1, <3>2 DEF RunInv, Typed, StoreType
  <2>4. CASE SetAside
    <3>1. PICK b \in queue :
            stage' = [c \in Articles |-> IF c \in b.articles THEN "filtered" ELSE stage[c]]
      BY <2>4 DEF SetAside
    <3>2. a \notin b.articles
      BY <2>1 DEF RunInv, Grouped, Queued, Takes
    <3> QED
      BY <2>4, <3>1, <3>2 DEF SetAside
  <2>5. CASE Assign
    <3>1. op # None /\ op.step = "assign" /\ at = "group"
      BY <2>5 DEF Assign, At, RunInv, Control, Stepping
    <3>2. a \notin op.articles
      BY <2>1, <3>1 DEF RunInv, Grouped, Taken, Takes
    <3> QED
      BY <2>5, <3>2 DEF Assign
  <2>6. CASE Partition
    BY <2>1, <2>6 DEF Partition, At, RunInv, Control, Stepping
  <2>7. CASE Merge
    BY <2>1, <2>7 DEF Merge, Unhindered
  <2>8. CASE UNCHANGED <<stage, owner>>
    BY <2>8
  <2> QED
    BY <2>2, <2>3, <2>4, <2>5, <2>6, <2>7, <2>8, Movers
<1> QED
  BY <1>1, RunInvariant, PTL DEF Spec, BacklogFirst
================================================================================
