---------------------------- MODULE JevShadowProofs ----------------------------
(***************************************************************************)
(* What the worker of JevShadow promises, for any jobs, threads, attempts  *)
(* and budgets, and through crashes at every step.                         *)
(***************************************************************************)
EXTENDS JevShadow, FiniteSetTheorems, SequenceTheorems, TLAPS

File(t) == attempts[t[1]][t[2]]

(***************************************************************************)
(* The inductive invariant.                                                *)
(***************************************************************************)

\* Threads belong to a process; the first loop of run only accounts.
Manned ==
    /\ run = "off" => \A j \in Jobs : at[j] = "none"
    /\ run = "reconcile" => \A j \in Jobs : at[j] \in {"none", "insert", "flag"}

\* Where a thread is, against the file of the attempt it is at.
Place(j) ==
    /\ at[j] \in {"send", "correct", "insert", "flag", "limit", "judge"} => Exists(j, index[j])
    /\ at[j] = "loop" =>
          /\ index[j] <= Len(attempts[j]) + 1
          /\ \A i \in 1 .. index[j] - 1 : attempts[j][i].status = "returned"
    /\ at[j] = "reserve" =>
          /\ index[j] = Len(attempts[j]) + 1
          /\ \A i \in 1 .. Len(attempts[j]) : attempts[j][i].status = "returned"
    /\ at[j] = "send" => This(j).status = "reserved"
    /\ at[j] \in {"correct", "limit", "judge"} => This(j).status = "returned"
    /\ at[j] \in {"insert", "flag"} => This(j).cost # Unreported
    /\ at[j] = "flag" => rows[<<j, index[j]>>] = 1
Located == \A j \in Jobs : Place(j)

\* A charge comes with an answer, and is flagged after its row.
Filed ==
    \A t \in AllTries : File(t).status = "reserved" => File(t).cost = Unreported /\ ~File(t).accounted

\* No file is from a day to come, or from a later day than the process knows.
Dated ==
    /\ run # "off" => day <= Today
    /\ \A t \in AllTries : File(t).day <= Today /\ (run # "off" => File(t).day <= day)

\* What counts on a day for the process: what the files charge, and the
\* reservations whose correction is still to come.
Held(d) ==
    {t \in AllTries : /\ File(t).day = d
                      /\ \/ MayHaveCost(File(t))
                         \/ at[t[1]] = "correct" /\ t[2] = index[t[1]]}

Covered == run # "off" => Cardinality(Held(day)) <= spent

Placed == Manned /\ Located /\ Filed /\ OnceOnly
Counted == Dated /\ Covered /\ BudgetKept
JevInv == TypeOK /\ Placed /\ Counted

USE JevShadowAssumption

--------------------------------------------------------------------------------
(* The clock and the attempt files.                                          *)

LEMMA Days ==
    ASSUME NEW n \in Nat, NEW m \in Nat \ {0}
    PROVE  n \div m \in Nat /\ n \div m <= (n + 1) \div m
<1>1. n \div m \in Nat
  OBVIOUS
<1>2. n \div m <= (n + 1) \div m
  OBVIOUS
<1> QED
  BY <1>1, <1>2

LEMMA TodayType == ASSUME TypeOK PROVE Today \in Nat
BY Days DEF TypeOK, Today

LEMMA TryFacts ==
    ASSUME TypeOK
    PROVE  /\ IsFiniteSet(AllTries) /\ AllTries \subseteq Tries
           /\ \A t \in AllTries : /\ t[1] \in Jobs /\ t[2] \in 1 .. Len(attempts[t[1]])
                                  /\ t = <<t[1], t[2]>> /\ File(t) \in Attempts
           /\ \A j \in Jobs : \A i \in 1 .. Len(attempts[j]) :
                 <<j, i>> \in AllTries /\ File(<<j, i>>) = attempts[j][i]
           /\ \A j \in Jobs : Len(attempts[j]) \in 0 .. MaxAttempts
<1>1. \A j \in Jobs : Len(attempts[j]) \in 0 .. MaxAttempts /\ attempts[j] \in Seq(Attempts)
  BY DEF TypeOK
<1>2. IsFiniteSet(Tries)
  <2>1. IsFiniteSet(Jobs) /\ IsFiniteSet(1 .. MaxAttempts)
    BY FS_Interval
  <2> QED
    BY <2>1, FS_Product DEF Tries
<1>3. IsFiniteSet(AllTries) /\ AllTries \subseteq Tries
  BY <1>2, FS_Subset DEF AllTries
<1>4. ASSUME NEW t \in AllTries
      PROVE  /\ t[1] \in Jobs /\ t[2] \in 1 .. Len(attempts[t[1]])
             /\ t = <<t[1], t[2]>> /\ File(t) \in Attempts
  <2>1. t[1] \in Jobs /\ t[2] \in 1 .. Len(attempts[t[1]]) /\ t = <<t[1], t[2]>>
    BY <1>1 DEF AllTries, Tries, Exists
  <2> QED
    BY <1>1, <2>1, ElementOfSeq DEF File
<1>5. \A j \in Jobs : \A i \in 1 .. Len(attempts[j]) :
         <<j, i>> \in AllTries /\ File(<<j, i>>) = attempts[j][i]
  BY <1>1 DEF AllTries, Tries, Exists, File
<1> QED
  BY <1>1, <1>3, <1>4, <1>5

\* The file of the attempt a thread is at is replaced.
LEMMA RewriteFacts ==
    ASSUME TypeOK, NEW j \in Jobs, Exists(j, index[j]), NEW a \in Attempts,
           attempts' = [attempts EXCEPT ![j][index[j]] = a]
    PROVE  /\ attempts' \in [Jobs -> Seq(Attempts)]
           /\ \A k \in Jobs : Len(attempts'[k]) = Len(attempts[k])
           /\ \A k \in Jobs \ {j} : attempts'[k] = attempts[k]
           /\ \A i \in 1 .. Len(attempts[j]) :
                 attempts'[j][i] = IF i = index[j] THEN a ELSE attempts[j][i]
           /\ AllTries' = AllTries /\ <<j, index[j]>> \in AllTries
           /\ \A t \in AllTries : File(t)' = IF t = <<j, index[j]>> THEN a ELSE File(t)
<1>1. attempts[j] \in Seq(Attempts) /\ index[j] \in 1 .. Len(attempts[j])
  BY DEF TypeOK, Exists
<1>2. /\ attempts'[j] \in Seq(Attempts) /\ Len(attempts'[j]) = Len(attempts[j])
      /\ \A i \in 1 .. Len(attempts[j]) :
            attempts'[j][i] = IF i = index[j] THEN a ELSE attempts[j][i]
  <2>1. attempts'[j] = [attempts[j] EXCEPT ![index[j]] = a]
    BY DEF TypeOK
  <2> QED
    BY <1>1, <2>1, ExceptSeq
<1>3. \A k \in Jobs \ {j} : attempts'[k] = attempts[k]
  BY DEF TypeOK
<1>4. attempts' \in [Jobs -> Seq(Attempts)] /\ \A k \in Jobs : Len(attempts'[k]) = Len(attempts[k])
  BY <1>2, <1>3 DEF TypeOK
<1>5. AllTries' = AllTries /\ <<j, index[j]>> \in AllTries
  BY <1>1, <1>4, TryFacts DEF AllTries, Tries, Exists
<1>6. \A t \in AllTries : File(t)' = IF t = <<j, index[j]>> THEN a ELSE File(t)
  BY <1>2, <1>3, TryFacts DEF File
<1> QED
  BY <1>2, <1>3, <1>4, <1>5, <1>6

\* The charges of a day can be counted.
LEMMA CountFacts ==
    ASSUME TypeOK, NEW d
    PROVE  /\ IsFiniteSet(Held(d)) /\ Cardinality(Held(d)) \in Nat
           /\ ChargedOn(d) = Cardinality({t \in AllTries : File(t).day = d /\ MayHaveCost(File(t))})
           /\ ChargedOn(d) \in Nat /\ ChargedOn(d) <= Cardinality(Held(d))
<1> DEFINE C == {t \in AllTries : File(t).day = d /\ MayHaveCost(File(t))}
<1>1. Held(d) \subseteq AllTries /\ C \subseteq Held(d)
  BY DEF Held
<1>2. IsFiniteSet(Held(d)) /\ Cardinality(Held(d)) \in Nat
  BY <1>1, TryFacts, FS_Subset, FS_CardinalityType
<1>3. IsFiniteSet(C) /\ Cardinality(C) \in Nat /\ Cardinality(C) <= Cardinality(Held(d))
  BY <1>1, <1>2, FS_Subset, FS_CardinalityType
<1>4. C = {t \in AllTries : attempts[t[1]][t[2]].day = d /\ BudgetCharge(attempts[t[1]][t[2]]) = 1}
  BY DEF MayHaveCost, BudgetCharge, File
<1> QED
  BY <1>2, <1>3, <1>4 DEF ChargedOn

\* The budget is kept on a day when the files charge no more than it.
LEMMA BudgetByDay == ASSUME TypeOK PROVE BudgetKept <=> \A d \in 0 .. Today : ChargedOn(d) <= Budget
<1>1. \A d : ChargedOn(d) = Cardinality({t \in AllTries : File(t).day = d /\ MayHaveCost(File(t))})
  BY CountFacts
<1> QED
  BY <1>1 DEF BudgetKept, File

--------------------------------------------------------------------------------
(* What most steps leave alone.                                              *)

\* A step that adds no file and no charge.
LEMMA FewerCounts ==
    ASSUME TypeOK, Counted, UNCHANGED <<now, day, spent>>, run' # "off" => run # "off",
           AllTries' = AllTries, Held(day)' \subseteq Held(day),
           \A t \in AllTries :
              File(t)'.day = File(t).day /\ (MayHaveCost(File(t))' => MayHaveCost(File(t)))
    PROVE  Counted'
<1>1. Dated'
  BY DEF Counted, Dated, Today
<1>2. Covered'
  <2>1. IsFiniteSet(Held(day)) /\ Cardinality(Held(day)) \in Nat
    BY CountFacts
  <2>2. Cardinality(Held(day)') <= Cardinality(Held(day)) /\ Cardinality(Held(day)') \in Nat
    BY <2>1, FS_Subset, FS_CardinalityType
  <2> QED
    BY <2>1, <2>2 DEF Counted, Covered, TypeOK
<1>3. BudgetKept'
  <2> DEFINE C(d) == {t \in AllTries : File(t).day = d /\ MayHaveCost(File(t))}
  <2>1. SUFFICES ASSUME NEW d \in 0 .. Today PROVE Cardinality(C(d)') <= Budget
    BY DEF BudgetKept, Today, File
  <2>2. IsFiniteSet(C(d)) /\ Cardinality(C(d)) \in Nat
    BY TryFacts, FS_Subset, FS_CardinalityType
  <2>3. C(d)' \subseteq C(d)
    OBVIOUS
  <2>4. Cardinality(C(d)') <= Cardinality(C(d)) /\ Cardinality(C(d)') \in Nat
    BY <2>2, <2>3, FS_Subset, FS_CardinalityType
  <2>5. Cardinality(C(d)) <= Budget
    BY <2>1 DEF Counted, BudgetKept, File
  <2> QED
    BY <2>2, <2>4, <2>5
<1> QED
  BY <1>1, <1>2, <1>3 DEF Counted

\* A step that neither writes a file nor lets a thread wait for its correction.
LEMMA SameCounts ==
    ASSUME TypeOK, Counted, UNCHANGED <<attempts, now, day, spent>>, run' # "off" => run # "off",
           \A j \in Jobs : at'[j] = "correct" => at[j] = "correct" /\ index'[j] = index[j]
    PROVE  Counted'
<1>1. AllTries' = AllTries /\ \A t : File(t)' = File(t)
  BY DEF AllTries, Exists, File
<1>2. Held(day)' \subseteq Held(day)
  BY <1>1, TryFacts DEF Held, MayHaveCost
<1> QED
  BY <1>1, <1>2, FewerCounts DEF MayHaveCost

\* The files and the rows are those of before.
LEMMA SameFiles ==
    ASSUME Filed, OnceOnly, UNCHANGED <<attempts, rows>>
    PROVE  Filed' /\ OnceOnly'
BY DEF Filed, OnceOnly, File, AllTries, Exists

\* A thread moves, and no file or row of another thread is taken back.
LEMMA OneMoves ==
    ASSUME Located, NEW j \in Jobs, Place(j)',
           \A k \in Jobs \ {j} :
              /\ at'[k] = at[k] /\ index'[k] = index[k] /\ attempts'[k] = attempts[k]
              /\ rows[<<k, index[k]>>] = 1 => rows'[<<k, index[k]>>] = 1
    PROVE  Located'
<1>1. ASSUME NEW k \in Jobs \ {j} PROVE Place(k)'
  <2>1. Place(k) /\ This(k)' = This(k) /\ (Exists(k, index[k])' <=> Exists(k, index[k]))
    BY DEF Located, Exists, This
  <2> QED
    BY <2>1 DEF Place
<1> QED
  BY <1>1 DEF Located

\* Where a thread works, a process runs; most of a thread's steps are in a batch.
LEMMA Working ==
    ASSUME TypeOK, Manned, NEW j \in Jobs, at[j] # "none"
    PROVE  run # "off" /\ (at[j] \notin {"insert", "flag"} => run = "batches")
BY DEF TypeOK, Manned

\* What a thread knows of the file it is at.
LEMMA ThreadFacts ==
    ASSUME TypeOK, Located, NEW j \in Jobs
    PROVE  /\ index[j] \in 1 .. MaxAttempts /\ at[j] \in Places
           /\ Len(attempts[j]) \in 0 .. MaxAttempts
           /\ at[j] \in {"send", "correct", "insert", "flag", "limit", "judge"} =>
                 index[j] \in 1 .. Len(attempts[j])
           /\ Exists(j, index[j]) =>
                 /\ index[j] \in 1 .. Len(attempts[j]) /\ <<j, index[j]>> \in AllTries
                 /\ This(j) = File(<<j, index[j]>>) /\ This(j) \in Attempts
<1>1. index[j] \in 1 .. MaxAttempts /\ at[j] \in Places /\ Len(attempts[j]) \in 0 .. MaxAttempts
  BY TryFacts DEF TypeOK
<1>2. ASSUME Exists(j, index[j])
      PROVE  /\ index[j] \in 1 .. Len(attempts[j]) /\ <<j, index[j]>> \in AllTries
             /\ This(j) = File(<<j, index[j]>>) /\ This(j) \in Attempts
  <2>1. index[j] \in 1 .. Len(attempts[j])
    BY <1>1, <1>2 DEF Exists
  <2> QED
    BY <2>1, TryFacts DEF This, File
<1> QED
  BY <1>1, <1>2 DEF Located, Place

--------------------------------------------------------------------------------
(* The steps of the process.                                                 *)

LEMMA InitKeeps == ASSUME Init PROVE JevInv
<1>1. AllTries = {}
  BY DEF Init, AllTries, Tries, Exists
<1>2. TypeOK
  <2>1. <<>> \in Seq(Attempts) /\ Len(<<>>) = 0
    BY EmptySeq
  <2>2. attempts \in [Jobs -> Seq(Attempts)] /\ \A j \in Jobs : Len(attempts[j]) <= MaxAttempts
    BY <2>1 DEF Init
  <2>3. 1 \in 1 .. MaxAttempts /\ index \in [Jobs -> 1 .. MaxAttempts]
    BY DEF Init
  <2>4. at \in [Jobs -> Places] /\ rows \in [Tries -> Nat] /\ fresh \subseteq Jobs
    BY DEF Init, Places
  <2>5. now \in 0 .. MaxNow /\ day \in Nat /\ spent \in Nat /\ cooldown \in Nat
    BY DEF Init
  <2> QED
    BY <2>2, <2>3, <2>4, <2>5 DEF Init, TypeOK
<1>3. Placed
  BY <1>1 DEF Init, Placed, Manned, Located, Place, Filed, OnceOnly
<1>4. Counted
  <2>1. \A d : ChargedOn(d) = 0
    BY <1>1, FS_EmptySet DEF ChargedOn
  <2> QED
    BY <1>1, <1>2, <2>1, BudgetByDay DEF Init, Counted, Dated, Covered
<1> QED
  BY <1>2, <1>3, <1>4 DEF JevInv

LEMMA TickKeeps == ASSUME JevInv, Tick PROVE JevInv'
<1> USE DEF Tick, process, threads
<1>1. TypeOK' /\ TypeOK
  BY DEF JevInv, TypeOK, Places, Exists, AllTries
<1>2. Placed'
  BY DEF JevInv, Placed, Manned, Located, Place, Exists, This, Filed, OnceOnly, AllTries, File
<1>3. Today \in Nat /\ Today' \in Nat /\ Today <= Today'
  BY <1>1, Days DEF TypeOK, Today
<1>4. Dated'
  <2>1. AllTries' = AllTries /\ \A t \in AllTries : File(t)' = File(t) /\ File(t).day \in Nat
    BY <1>1, TryFacts DEF AllTries, Exists, File, Attempts
  <2> QED
    BY <1>1, <1>3, <2>1 DEF JevInv, Counted, Dated, TypeOK
<1>5. Covered'
  BY DEF JevInv, Counted, Covered, Held, AllTries, Exists, File, MayHaveCost
<1>6. BudgetKept'
  <2>1. SUFFICES ASSUME NEW d \in 0 .. Today' PROVE ChargedOn(d) <= Budget
    <3>1. \A d : ChargedOn(d) = Cardinality({t \in AllTries : File(t).day = d /\ MayHaveCost(File(t))})
      BY <1>1, CountFacts
    <3> QED
      BY <2>1, <3>1 DEF BudgetKept, AllTries, Exists, File, MayHaveCost
  <2>2. CASE d <= Today
    BY <1>1, <1>3, <2>1, <2>2, BudgetByDay DEF JevInv, Counted
  <2>3. CASE d > Today
    <3>1. ASSUME NEW t \in AllTries PROVE attempts[t[1]][t[2]].day # d
      <4>1. File(t).day \in Nat /\ File(t).day <= Today
        BY <1>1, TryFacts DEF JevInv, Counted, Dated, Attempts
      <4> QED
        BY <1>3, <2>1, <2>3, <4>1 DEF File
    <3>2. ChargedOn(d) = 0
      BY <3>1, FS_EmptySet DEF ChargedOn
    <3> QED
      BY <3>2
  <2> QED
    BY <1>3, <2>1, <2>2, <2>3
<1> QED
  BY <1>1, <1>2, <1>4, <1>5, <1>6 DEF JevInv, Counted

LEMMA StartKeeps == ASSUME JevInv, Start PROVE JevInv'
<1> USE DEF Start, threads
<1>1. Today \in Nat /\ ChargedOn(Today) \in Nat /\ Today' = Today
  BY TodayType, CountFacts DEF JevInv, Today
<1>2. TypeOK'
  BY <1>1 DEF JevInv, TypeOK, Places, Exists, AllTries
<1>3. Placed'
  BY DEF JevInv, Placed, Manned, Located, Place, Exists, This, Filed, OnceOnly, AllTries, File
<1>4. Dated'
  BY <1>1 DEF JevInv, Counted, Dated, AllTries, Exists, File
<1>5. Covered'
  <2>1. Held(day)' = {t \in AllTries : File(t).day = Today /\ MayHaveCost(File(t))}
    BY TryFacts DEF JevInv, Placed, Manned, Held, AllTries, Exists, File, MayHaveCost
  <2> QED
    BY <1>1, <2>1, CountFacts DEF JevInv, Covered
<1>6. BudgetKept'
  BY DEF JevInv, Counted, BudgetKept, AllTries, Exists, Today
<1> QED
  BY <1>2, <1>3, <1>4, <1>5, <1>6 DEF JevInv, Counted

LEMMA ReconcileKeeps == ASSUME JevInv, NEW t \in Tries, Reconcile(t[1], t[2]) PROVE JevInv'
<1> DEFINE j == t[1]
           i == t[2]
<1> USE DEF Reconcile, process
<1>1. j \in Jobs /\ i \in 1 .. MaxAttempts
  BY DEF Tries
<1>2. TypeOK' /\ TypeOK
  BY <1>1 DEF JevInv, TypeOK, Places, Exists, AllTries
<1>3. Manned'
  BY <1>1, <1>2 DEF JevInv, Placed, Manned, TypeOK
<1>4. Located'
  <2>1. Place(j)'
    BY <1>1, <1>2 DEF TypeOK, Place, Exists, This, Unaccounted
  <2> QED
    BY <1>1, <1>2, <2>1, OneMoves DEF JevInv, Placed, TypeOK
<1>5. Counted'
  BY <1>1, <1>2, SameCounts DEF JevInv, TypeOK
<1> QED
  BY <1>2, <1>3, <1>4, <1>5, SameFiles DEF JevInv, Placed

LEMMA BeginKeeps == ASSUME JevInv, Begin PROVE JevInv'
<1> USE DEF Begin, threads
<1>1. TypeOK' /\ TypeOK
  BY DEF JevInv, TypeOK, Places, Exists, AllTries
<1>2. Manned' /\ Located'
  BY DEF JevInv, Placed, Manned, Located, Place, Exists, This
<1>3. Counted'
  BY <1>1, SameCounts DEF JevInv
<1> QED
  BY <1>1, <1>2, <1>3, SameFiles DEF JevInv, Placed

LEMMA BatchKeeps == ASSUME JevInv, Batch PROVE JevInv'
<1> USE DEF Batch
<1>1. TypeOK' /\ TypeOK
  <2>1. 1 \in 1 .. MaxAttempts
    OBVIOUS
  <2>2. CASE stop \/ left = {}
    BY <2>2 DEF JevInv, TypeOK, Places, Exists, AllTries
  <2>3. CASE ~(stop \/ left = {})
    BY <2>1, <2>3 DEF JevInv, TypeOK, Places, Exists, AllTries
  <2> QED
    BY <2>2, <2>3
<1>2. \A j \in Jobs : at'[j] = "none" \/ (at'[j] = "loop" /\ index'[j] = 1 /\ run' = "batches")
  BY <1>1 DEF TypeOK
<1>3. Manned'
  BY <1>1, <1>2 DEF JevInv, Placed, Manned, TypeOK
<1>4. Located'
  BY <1>2, TryFacts DEF JevInv, Located, Place
<1>5. Counted'
  BY <1>1, <1>2, SameCounts DEF JevInv
<1> QED
  BY <1>1, <1>3, <1>4, <1>5, SameFiles DEF JevInv, Placed

LEMMA CrashKeeps == ASSUME JevInv, Crash PROVE JevInv'
<1> USE DEF Crash
<1>1. TypeOK' /\ TypeOK
  <2>1. 1 \in 1 .. MaxAttempts
    OBVIOUS
  <2> QED
    BY <2>1 DEF JevInv, TypeOK, Places, Exists, AllTries
<1>2. Manned' /\ Located'
  BY DEF Manned, Located, Place
<1>3. Counted'
  BY <1>1, SameCounts DEF JevInv
<1> QED
  BY <1>1, <1>2, <1>3, SameFiles DEF JevInv, Placed

LEMMA StutterKeeps == ASSUME JevInv, UNCHANGED vars PROVE JevInv'
<1> USE DEF vars, process, threads
<1>1. TypeOK' /\ TypeOK
  BY DEF JevInv, TypeOK, Places, Exists, AllTries
<1>2. Manned' /\ Located'
  BY DEF JevInv, Placed, Manned, Located, Place, Exists, This
<1>3. Counted'
  BY <1>1, SameCounts DEF JevInv
<1> QED
  BY <1>1, <1>2, <1>3, SameFiles DEF JevInv, Placed

--------------------------------------------------------------------------------
(* The steps of a thread.                                                    *)

\* A thread that writes no file, and does not come to its correction.
LEMMA QuietThread ==
    ASSUME JevInv, NEW j \in Jobs, TypeOK', Place(j)', at[j] # "none",
           at' = [at EXCEPT ![j] = at'[j]],
           at'[j] # "correct", run = "reconcile" => at'[j] \in {"none", "insert", "flag"},
           UNCHANGED <<now, attempts, rows, run, day, spent>>,
           \A k \in Jobs \ {j} : index'[k] = index[k]
    PROVE  JevInv'
<1>1. TypeOK /\ \A k \in Jobs \ {j} : at'[k] = at[k]
  BY DEF JevInv, TypeOK
<1>2. Manned'
  BY <1>1, Working DEF JevInv, Placed, Manned, TypeOK
<1>3. Located'
  BY <1>1, OneMoves DEF JevInv, Placed
<1>4. Counted'
  BY <1>1, SameCounts DEF JevInv
<1> QED
  BY <1>2, <1>3, <1>4, SameFiles DEF JevInv, Placed

LEMMA LoopKeeps == ASSUME JevInv, NEW j \in Jobs, Loop(j) PROVE JevInv'
<1> USE DEF Loop, Goto, Decide, process
<1>1. TypeOK' /\ TypeOK /\ at' = [at EXCEPT ![j] = at'[j]]
      /\ at'[j] \in {"none", "reserve", "insert", "judge"}
  BY DEF JevInv, TypeOK, Places, Exists, AllTries
<1>2. run = "batches"
  BY Working DEF JevInv, Placed
<1>3. Place(j)'
  <2>1. CASE at'[j] = "none"
    BY <2>1 DEF Place
  <2>2. CASE at'[j] = "reserve"
    <3>1. ~Exists(j, index[j])
      BY <1>1, <2>2 DEF TypeOK
    <3>2. /\ index[j] <= Len(attempts[j]) + 1
          /\ \A i \in 1 .. index[j] - 1 : attempts[j][i].status = "returned"
      BY DEF JevInv, Placed, Located, Place
    <3>3. index[j] \in 1 .. MaxAttempts /\ Len(attempts[j]) \in 0 .. MaxAttempts
      BY ThreadFacts DEF JevInv, Placed
    <3>4. index[j] = Len(attempts[j]) + 1 /\ index[j] - 1 = Len(attempts[j])
      BY <3>1, <3>2, <3>3 DEF Exists
    <3> QED
      BY <2>2, <3>2, <3>4 DEF Place
  <2>3. CASE at'[j] = "insert"
    BY <1>1, <2>3 DEF TypeOK, Place, Exists, This, Unaccounted
  <2>4. CASE at'[j] = "judge"
    <3>1. Exists(j, index[j]) /\ ~Interrupted(j)
      BY <1>1, <2>4 DEF TypeOK
    <3>2. This(j).status = "returned"
      BY <1>1, <3>1, ThreadFacts DEF JevInv, Placed, Interrupted, Attempts
    <3> QED
      BY <2>4, <3>1, <3>2 DEF Place, Exists, This
  <2> QED
    BY <1>1, <2>1, <2>2, <2>3, <2>4
<1> QED
  BY <1>1, <1>2, <1>3, QuietThread

LEMMA InsertKeeps == ASSUME JevInv, NEW j \in Jobs, Insert(j) PROVE JevInv'
<1> USE DEF Insert, Goto, process
<1> DEFINE t == <<j, index[j]>>
<1>1. /\ TypeOK /\ t \in Tries /\ at' = [at EXCEPT ![j] = "flag"]
      /\ \A u \in Tries : rows[u] \in {0, 1}
  <2>1. \A u \in Tries : rows[u] \in Nat /\ rows[u] <= 1
    BY DEF JevInv, Placed, OnceOnly, TypeOK
  <2> QED
    BY <2>1, ThreadFacts DEF JevInv, Placed, Tries
<1>2. rows' \in [Tries -> Nat] /\ \A u \in Tries : rows'[u] = IF u = t THEN 1 ELSE rows[u]
  BY <1>1 DEF TypeOK, InsertOnce
<1>3. TypeOK'
  BY <1>1, <1>2 DEF TypeOK, Places, Exists, AllTries
<1>4. Manned'
  BY <1>1, Working DEF JevInv, Placed, Manned, TypeOK
<1>5. Located'
  <2>1. Place(j)'
    BY ZenonT(40), <1>1, <1>2 DEF JevInv, Placed, Located, Place, TypeOK, Exists, This
  <2> QED
    BY <1>1, <1>2, <2>1, OneMoves DEF JevInv, Placed, TypeOK, Tries
<1>6. Filed'
  BY DEF JevInv, Placed, Filed, File, AllTries, Exists
<1>7. OnceOnly'
  <2>1. \A u \in Tries : rows'[u] <= 1 /\ (rows[u] = 1 => rows'[u] = 1)
    BY <1>1, <1>2
  <2> QED
    BY <2>1 DEF JevInv, Placed, OnceOnly, AllTries, Exists
<1>8. Counted'
  BY <1>1, <1>3, SameCounts DEF JevInv, TypeOK
<1> QED
  BY <1>3, <1>4, <1>5, <1>6, <1>7, <1>8 DEF JevInv, Placed

LEMMA AccountFailsKeeps == ASSUME JevInv, NEW j \in Jobs, AccountFails(j) PROVE JevInv'
<1> USE DEF AccountFails, Goto, Decide, process
<1>1. TypeOK' /\ at' = [at EXCEPT ![j] = "none"] /\ at'[j] = "none"
  BY DEF JevInv, TypeOK, Places, Exists, AllTries
<1>2. Place(j)'
  BY <1>1 DEF Place
<1> QED
  BY <1>1, <1>2, QuietThread

LEMMA LimitKeeps == ASSUME JevInv, NEW j \in Jobs, Limit(j) PROVE JevInv'
<1> USE DEF Limit, Goto
<1>1. TypeOK /\ This(j) \in Attempts /\ Exists(j, index[j])
  BY ThreadFacts DEF JevInv, Placed, Located, Place
<1>2. TypeOK' /\ at' = [at EXCEPT ![j] = "judge"] /\ at'[j] = "judge"
  <2>1. cooldown' \in Nat
    BY <1>1 DEF TypeOK, Attempts
  <2> QED
    BY <1>1, <2>1 DEF TypeOK, Places, Exists, AllTries
<1>3. Place(j)'
  BY <1>2 DEF JevInv, Placed, Located, Place, Exists, This
<1>4. run = "batches"
  BY Working DEF JevInv, Placed
<1> QED
  BY <1>2, <1>3, <1>4, QuietThread

LEMMA JudgeKeeps == ASSUME JevInv, NEW j \in Jobs, Judge(j) PROVE JevInv'
<1> USE DEF Judge, Goto, Decide, process
<1>1. TypeOK /\ index[j] \in 1 .. Len(attempts[j])
      /\ \A i \in 1 .. index[j] : attempts[j][i].status = "returned"
  <2>1. index[j] \in 1 .. Len(attempts[j]) /\ Len(attempts[j]) \in 0 .. MaxAttempts
    BY ThreadFacts DEF JevInv, Placed
  <2>2. This(j).status = "returned"
    BY DEF JevInv, Placed, Located, Place
  <2>3. \A i \in 1 .. Len(attempts[j]) - 1 : attempts[j][i].status = "returned"
    BY DEF JevInv, Placed, OnceOnly
  <2> QED
    BY <2>1, <2>2, <2>3 DEF This, JevInv
<1>2. TypeOK' /\ at' = [at EXCEPT ![j] = at'[j]] /\ at'[j] \in {"none", "loop"}
      /\ \A k \in Jobs \ {j} : index'[k] = index[k]
  <2>1. CASE This(j).http = "busy" /\ index[j] < MaxAttempts
    <3>1. index[j] + 1 \in 1 .. MaxAttempts
      BY <1>1, <2>1 DEF TypeOK
    <3> QED
      BY ZenonT(40), <1>1, <2>1, <3>1 DEF TypeOK, Places, Exists, AllTries
  <2>2. CASE ~(This(j).http = "busy" /\ index[j] < MaxAttempts)
    BY <1>1, <2>2 DEF TypeOK, Places, Exists, AllTries
  <2> QED
    BY <2>1, <2>2
<1>3. Place(j)'
  <2>1. CASE at'[j] = "none"
    BY <2>1 DEF Place
  <2>2. CASE at'[j] = "loop"
    <3>1. index'[j] = index[j] + 1
      BY <1>1, <2>2 DEF TypeOK
    <3>2. index'[j] <= Len(attempts[j]) + 1 /\ index'[j] - 1 = index[j]
      BY <1>1, <3>1, TryFacts
    <3> QED
      BY <1>1, <2>2, <3>2 DEF Place
  <2> QED
    BY <1>2, <2>1, <2>2
<1>4. run = "batches"
  BY Working DEF JevInv, Placed
<1> QED
  BY <1>2, <1>3, <1>4, QuietThread

LEMMA FlagKeeps == ASSUME JevInv, NEW j \in Jobs, Flag(j) PROVE JevInv'
<1> DEFINE t == <<j, index[j]>>
<1>1. /\ TypeOK /\ Exists(j, index[j]) /\ t \in AllTries /\ This(j) = File(t)
      /\ This(j) \in Attempts /\ rows[t] = 1 /\ This(j).cost # Unreported
  BY ThreadFacts DEF Flag, JevInv, Placed, Located, Place
<1>2. PICK a : /\ a \in Attempts /\ a.day = This(j).day /\ a.cost = This(j).cost
               /\ a.status = This(j).status
               /\ attempts' = [attempts EXCEPT ![j][index[j]] = a]
  <2> DEFINE b == [This(j) EXCEPT !.accounted = TRUE]
  <2>1. attempts' = [attempts EXCEPT ![j][index[j]] = b]
    BY DEF Flag, This
  <2>2. b \in Attempts /\ b.day = This(j).day /\ b.cost = This(j).cost /\ b.status = This(j).status
    BY <1>1 DEF Attempts
  <2> QED
    BY <2>1, <2>2
<1>3. This(j).status = "returned"
  BY <1>1 DEF JevInv, Placed, Filed, Attempts
<1>4. /\ attempts' \in [Jobs -> Seq(Attempts)]
      /\ \A k \in Jobs : Len(attempts'[k]) = Len(attempts[k])
      /\ \A k \in Jobs \ {j} : attempts'[k] = attempts[k]
      /\ \A i \in 1 .. Len(attempts[j]) :
            attempts'[j][i] = IF i = index[j] THEN a ELSE attempts[j][i]
      /\ AllTries' = AllTries
      /\ \A u \in AllTries : File(u)' = IF u = t THEN a ELSE File(u)
  BY ZenonT(40), <1>1, <1>2, RewriteFacts
<1>5. a.status = "returned" /\ a.cost # Unreported
  BY <1>1, <1>2, <1>3
<1>6. /\ at' = [at EXCEPT ![j] = at'[j]] /\ at'[j] \in {"none", "limit", "judge"} /\ at[j] = "flag"
      /\ run = "reconcile" => at'[j] = "none"
      /\ UNCHANGED <<now, decided, rows, cooldown, run, day, spent, stop, left, index, fresh>>
  BY <1>1 DEF TypeOK, AfterAccount, Flag, Goto, process
<1>7. TypeOK'
  BY SMTT(30), <1>1, <1>4, <1>6 DEF TypeOK, Places
<1>8. Manned'
  BY <1>1, <1>6, Working DEF JevInv, Placed, Manned, TypeOK
<1>9. Located'
  <2>1. Place(j)'
    BY <1>1, <1>2, <1>4, <1>5, <1>6, ThreadFacts DEF Place, Exists, This, JevInv, Placed
  <2>2. \A k \in Jobs \ {j} : at'[k] = at[k]
    BY <1>1, <1>6 DEF TypeOK
  <2> QED
    BY <1>4, <1>6, <2>1, <2>2, OneMoves DEF JevInv, Placed
<1>10. Filed'
  BY <1>4, <1>5 DEF JevInv, Placed, Filed
<1>11. OnceOnly'
  <2>1. \A k \in Jobs : \A i \in 1 .. Len(attempts[k]) - 1 : attempts'[k][i].status = "returned"
    BY <1>1, <1>2, <1>4, <1>5, TryFacts DEF JevInv, Placed, OnceOnly
  <2>2. \A u \in AllTries : File(u)'.accounted => rows[u] = 1
    BY <1>1, <1>4 DEF JevInv, Placed, OnceOnly, File
  <2> QED
    BY <1>4, <1>6, <2>1, <2>2 DEF JevInv, Placed, OnceOnly, File
<1>12. Counted'
  <2>1. \A u \in AllTries : File(u)'.day = File(u).day /\ (MayHaveCost(File(u))' <=> MayHaveCost(File(u)))
    BY <1>1, <1>2, <1>4 DEF MayHaveCost
  <2>2. \A k \in Jobs : at'[k] = "correct" => at[k] = "correct"
    BY <1>1, <1>6 DEF TypeOK
  <2>3. Held(day)' \subseteq Held(day)
    BY <1>1, <1>4, <1>6, <2>1, <2>2, TryFacts DEF Held
  <2> QED
    BY <1>1, <1>4, <1>6, <2>1, <2>3, FewerCounts DEF JevInv
<1> QED
  BY <1>7, <1>8, <1>9, <1>10, <1>11, <1>12 DEF JevInv, Placed

LEMMA AnswerKeeps == ASSUME JevInv, NEW j \in Jobs, Answer(j) PROVE JevInv'
<1> USE DEF Answer, Goto, process
<1> DEFINE t == <<j, index[j]>>
<1>1. /\ TypeOK /\ Exists(j, index[j]) /\ t \in AllTries /\ This(j) = File(t)
      /\ This(j) \in Attempts /\ This(j).status = "reserved"
  BY ThreadFacts DEF JevInv, Placed, Located, Place
<1>2. This(j).cost = Unreported /\ ~This(j).accounted
  BY <1>1 DEF JevInv, Placed, Filed
<1>3. PICK a : /\ a \in Attempts /\ a.status = "returned" /\ a.day = This(j).day /\ ~a.accounted
               /\ attempts' = [attempts EXCEPT ![j][index[j]] = a]
  <2>1. PICK h \in Http, c \in {0, 1, Unreported}, d \in Delays :
          attempts' = [attempts EXCEPT ![j][index[j]] =
                [@ EXCEPT !.status = "returned", !.http = h,
                          !.cost = c,
                          !.wait = IF h = "limited" THEN d ELSE 0]]
    OBVIOUS
  <2> DEFINE b == [This(j) EXCEPT !.status = "returned", !.http = h, !.cost = c,
                                  !.wait = IF h = "limited" THEN d ELSE 0]
  <2>2. attempts' = [attempts EXCEPT ![j][index[j]] = b]
    BY <2>1 DEF This
  <2>3. b \in Attempts /\ b.status = "returned" /\ b.day = This(j).day /\ ~b.accounted
    BY <1>1, <1>2 DEF Attempts
  <2> QED
    BY <2>2, <2>3
<1>4. /\ attempts' \in [Jobs -> Seq(Attempts)]
      /\ \A k \in Jobs : Len(attempts'[k]) = Len(attempts[k])
      /\ \A k \in Jobs \ {j} : attempts'[k] = attempts[k]
      /\ \A i \in 1 .. Len(attempts[j]) :
            attempts'[j][i] = IF i = index[j] THEN a ELSE attempts[j][i]
      /\ AllTries' = AllTries
      /\ \A u \in AllTries : File(u)' = IF u = t THEN a ELSE File(u)
  BY <1>1, <1>3, RewriteFacts
<1>5. at' = [at EXCEPT ![j] = "correct"] /\ at'[j] = "correct"
  BY <1>1 DEF TypeOK
<1>6. TypeOK'
  BY SMTT(30), <1>1, <1>4, <1>5 DEF TypeOK, Places
<1>7. Manned'
  BY <1>1, <1>5, Working DEF JevInv, Placed, Manned, TypeOK
<1>8. Located'
  <2>1. Place(j)'
    BY <1>1, <1>3, <1>4, <1>5, ThreadFacts DEF Place, Exists, This, JevInv, Placed
  <2>2. \A k \in Jobs \ {j} : at'[k] = at[k]
    BY <1>1, <1>5 DEF TypeOK
  <2> QED
    BY <1>4, <2>1, <2>2, OneMoves DEF JevInv, Placed
<1>9. Filed'
  BY SMTT(30), <1>1, <1>3, <1>4 DEF JevInv, Placed, Filed
<1>10. OnceOnly'
  <2>1. \A k \in Jobs : \A i \in 1 .. Len(attempts[k]) - 1 : attempts'[k][i].status = "returned"
    BY <1>1, <1>3, <1>4, TryFacts DEF JevInv, Placed, OnceOnly
  <2>2. \A u \in AllTries : File(u)'.accounted => rows[u] = 1
    BY <1>1, <1>3, <1>4 DEF JevInv, Placed, OnceOnly, File
  <2> QED
    BY <1>4, <2>1, <2>2 DEF JevInv, Placed, OnceOnly, File
<1>11. Counted'
  <2>1. \A u \in AllTries : File(u)'.day = File(u).day /\ (MayHaveCost(File(u))' => MayHaveCost(File(u)))
    BY <1>1, <1>2, <1>3, <1>4 DEF MayHaveCost
  <2>2. \A u \in AllTries : u # t /\ at'[u[1]] = "correct" => at[u[1]] = "correct" \/ u[2] # index[u[1]]
    BY SMTT(30), <1>1, <1>5, TryFacts DEF TypeOK
  <2>3. MayHaveCost(File(t))
    BY <1>1, <1>2 DEF MayHaveCost
  <2>4. Held(day)' \subseteq Held(day)
    BY <1>4, <2>1, <2>2, <2>3 DEF Held
  <2> QED
    BY <1>1, <1>4, <2>1, <2>4, FewerCounts DEF JevInv
<1> QED
  BY <1>6, <1>7, <1>8, <1>9, <1>10, <1>11 DEF JevInv, Placed

LEMMA CorrectKeeps == ASSUME JevInv, NEW j \in Jobs, Correct(j) PROVE JevInv'
<1> USE DEF Correct, Goto
<1> DEFINE t == <<j, index[j]>>
<1>1. /\ TypeOK /\ Exists(j, index[j]) /\ t \in AllTries /\ This(j) = File(t)
      /\ This(j) \in Attempts /\ This(j).status = "returned" /\ run = "batches"
  BY ThreadFacts, Working DEF JevInv, Placed, Located, Place
<1>2. at' = [at EXCEPT ![j] = at'[j]] /\ at'[j] \in {"insert", "limit", "judge"}
      /\ (at'[j] = "insert" => This(j).cost # Unreported)
  BY <1>1 DEF TypeOK, AfterAccount, Unaccounted, This
<1>3. AllTries' = AllTries /\ \A u : File(u)' = File(u)
  BY DEF AllTries, Exists, File
<1>4. Held(day)' \subseteq Held(day)
  BY <1>1, <1>2, <1>3, TryFacts DEF Held, TypeOK, MayHaveCost
<1>5. /\ IsFiniteSet(Held(day)) /\ Cardinality(Held(day)) \in Nat
      /\ IsFiniteSet(Held(day)') /\ Cardinality(Held(day)') \in Nat
      /\ Cardinality(Held(day)') <= Cardinality(Held(day)) /\ Cardinality(Held(day)) <= spent
  <2>1. IsFiniteSet(Held(day)) /\ Cardinality(Held(day)) \in Nat
    BY <1>1, CountFacts
  <2> QED
    BY <1>1, <1>4, <2>1, FS_Subset, FS_CardinalityType DEF JevInv, Counted, Covered
<1>6. spent' \in Nat /\ Cardinality(Held(day)') <= spent'
  <2>1. CASE This(j).day # day
    BY <1>1, <1>5, <2>1 DEF Corrected, TypeOK
  <2>2. CASE This(j).day = day /\ MayHaveCost(This(j))
    <3>1. BudgetCharge(This(j)) = 1
      BY <2>2 DEF MayHaveCost, BudgetCharge
    <3> QED
      BY <1>1, <1>5, <2>2, <3>1 DEF Corrected, TypeOK
  <2>3. CASE This(j).day = day /\ ~MayHaveCost(This(j))
    <3>1. BudgetCharge(This(j)) = 0
      BY <1>1, <2>3 DEF MayHaveCost, BudgetCharge, Attempts
    <3>2. t \in Held(day) /\ t \notin Held(day)'
      BY <1>1, <1>2, <1>3, <2>3 DEF Held, MayHaveCost
    <3>3. Held(day)' \subseteq Held(day) \ {t}
      BY <1>4, <3>2
    <3>4. /\ IsFiniteSet(Held(day) \ {t})
          /\ Cardinality(Held(day) \ {t}) = Cardinality(Held(day)) - 1
      BY <1>5, <3>2, FS_RemoveElement
    <3>5. Cardinality(Held(day)') <= Cardinality(Held(day)) - 1
      BY <3>3, <3>4, FS_Subset
    <3> QED
      BY <1>1, <1>5, <2>3, <3>1, <3>5 DEF Corrected, TypeOK
  <2> QED
    BY <2>1, <2>2, <2>3
<1>7. TypeOK'
  BY <1>1, <1>2, <1>6 DEF TypeOK, Places, Exists, AllTries
<1>8. Manned'
  BY <1>1 DEF Manned
<1>9. Located'
  <2>1. Place(j)'
    BY <1>1, <1>2 DEF Place, Exists, This
  <2>2. \A k \in Jobs \ {j} : at'[k] = at[k]
    BY <1>1, <1>2 DEF TypeOK
  <2> QED
    BY <2>1, <2>2, OneMoves DEF JevInv, Placed
<1>10. Counted'
  BY <1>3, <1>6 DEF JevInv, Counted, Dated, Covered, BudgetKept, Today, File
<1> QED
  BY <1>7, <1>8, <1>9, <1>10, SameFiles DEF JevInv, Placed

\* What reserve finds is spent covers what counts today; a new day has no file yet.
LEMMA SpentFacts ==
    ASSUME JevInv, run # "off"
    PROVE  SpentToday \in Nat /\ Cardinality(Held(Today)) <= SpentToday
<1>1. TypeOK /\ Today \in Nat
  BY TodayType DEF JevInv
<1>2. CASE day = Today
  BY <1>2 DEF JevInv, TypeOK, Counted, Covered, SpentToday
<1>3. CASE day # Today
  <2>1. ASSUME NEW t \in AllTries PROVE File(t).day # Today
    <3>1. File(t).day \in Nat /\ File(t).day <= day /\ day <= Today /\ day \in Nat
      BY <1>1, TryFacts DEF JevInv, Counted, Dated, TypeOK, Attempts
    <3> QED
      BY <1>1, <1>3, <3>1
  <2>2. Held(Today) = {}
    BY <2>1 DEF Held
  <2>3. SpentToday \in Nat
    BY <1>1, <1>3, CountFacts DEF SpentToday
  <2> QED
    BY <2>2, <2>3, FS_EmptySet
<1> QED
  BY <1>2, <1>3

LEMMA RefusedKeeps ==
    ASSUME JevInv, NEW j \in Jobs, Reserve(j), stop \/ SpentToday + 1 > Budget PROVE JevInv'
<1>1. /\ TypeOK /\ run = "batches" /\ run' = "batches" /\ now' = now
      /\ SpentToday \in Nat /\ Cardinality(Held(Today)) <= SpentToday
      /\ Today \in Nat /\ Today' = Today
  BY Working, SpentFacts, TodayType DEF JevInv, Placed, Reserve, Today
<1>2. /\ at' = [at EXCEPT ![j] = "none"] /\ at'[j] = "none"
      /\ day' = Today /\ spent' = SpentToday
      /\ UNCHANGED <<attempts, decided, rows, cooldown, run, stop, left, index, fresh>>
  BY <1>1 DEF Reserve, Goto, TypeOK
<1>3. TypeOK'
  BY <1>1, <1>2 DEF Reserve, TypeOK, Places, Exists, AllTries
<1>4. AllTries' = AllTries /\ \A u : File(u)' = File(u)
  BY <1>2 DEF AllTries, Exists, File
<1>5. Manned'
  BY <1>1 DEF Manned
<1>6. Located'
  <2>1. Place(j)' /\ \A k \in Jobs \ {j} : at'[k] = at[k]
    BY <1>1, <1>2 DEF TypeOK, Place
  <2> QED
    BY <1>2, <2>1, OneMoves DEF JevInv, Placed
<1>7. Dated'
  BY <1>1, <1>2, <1>4 DEF JevInv, Counted, Dated
<1>8. Covered'
  <2>1. Held(day)' \subseteq Held(Today)
    BY <1>1, <1>2, <1>4, TryFacts DEF Held, TypeOK, MayHaveCost
  <2>2. IsFiniteSet(Held(Today)) /\ Cardinality(Held(Today)) \in Nat
    BY <1>1, CountFacts
  <2>3. Cardinality(Held(day)') \in Nat /\ Cardinality(Held(day)') <= Cardinality(Held(Today))
    BY <2>1, <2>2, FS_Subset, FS_CardinalityType
  <2> QED
    BY <1>1, <1>2, <2>2, <2>3 DEF Covered
<1>9. BudgetKept'
  BY <1>1, <1>2, <1>4 DEF JevInv, Counted, BudgetKept, MayHaveCost
<1> QED
  BY <1>2, <1>3, <1>5, <1>6, <1>7, <1>8, <1>9, SameFiles DEF JevInv, Placed, Counted

LEMMA ReservedKeeps ==
    ASSUME JevInv, NEW j \in Jobs, Reserve(j), ~(stop \/ SpentToday + 1 > Budget) PROVE JevInv'
<1> PICK n : n = index[j]
  OBVIOUS
<1> DEFINE t == <<j, n>>
           C(d) == {u \in AllTries : File(u).day = d /\ MayHaveCost(File(u))}
<1>1. /\ TypeOK /\ run = "batches" /\ run' = "batches" /\ now' = now
      /\ SpentToday \in Nat /\ Cardinality(Held(Today)) <= SpentToday
      /\ Today \in Nat /\ Today' = Today
  BY Working, SpentFacts, TodayType DEF JevInv, Placed, Reserve, Today
<1>2. PICK a : /\ a \in Attempts /\ a.status = "reserved" /\ a.day = Today
               /\ a.cost = Unreported /\ ~a.accounted
               /\ attempts' = [attempts EXCEPT ![j] = Append(attempts[j], a)]
  <2> DEFINE b == [status |-> "reserved", day |-> Today, accounted |-> FALSE,
                   cost |-> Unreported, http |-> "busy", wait |-> 0]
  <2>1. b \in Attempts
    BY <1>1 DEF Attempts, Http
  <2>2. attempts' = [attempts EXCEPT ![j] = Append(attempts[j], b)]
    BY DEF Reserve
  <2> QED
    BY <2>1, <2>2
<1>3. /\ at' = [at EXCEPT ![j] = "send"] /\ at'[j] = "send"
      /\ day' = Today /\ spent' = SpentToday + 1 /\ spent' <= Budget
      /\ fresh' = fresh \cup {j}
      /\ UNCHANGED <<decided, rows, cooldown, run, stop, left, index>>
  BY <1>1 DEF Reserve, Goto, TypeOK
<1>4. /\ n = Len(attempts[j]) + 1 /\ n \in 1 .. MaxAttempts /\ Len(attempts[j]) \in 0 .. MaxAttempts
      /\ \A i \in 1 .. Len(attempts[j]) : attempts[j][i].status = "returned"
  <2>1. index[j] \in 1 .. MaxAttempts /\ Len(attempts[j]) \in 0 .. MaxAttempts
    BY <1>1, ThreadFacts DEF JevInv, Placed
  <2>2. at[j] = "reserve" /\ Place(j)
    BY DEF JevInv, Placed, Located, Reserve
  <2> QED
    BY <2>1, <2>2 DEF Place
<1>5. /\ attempts' \in [Jobs -> Seq(Attempts)]
      /\ Len(attempts'[j]) = n /\ attempts'[j][n] = a
      /\ \A i \in 1 .. Len(attempts[j]) : attempts'[j][i] = attempts[j][i]
      /\ \A k \in Jobs \ {j} : attempts'[k] = attempts[k]
  <2>1. attempts[j] \in Seq(Attempts) /\ attempts'[j] = Append(attempts[j], a)
    BY <1>1, <1>2 DEF TypeOK
  <2> QED
    BY <1>1, <1>2, <1>4, <2>1 DEF TypeOK
<1>6. /\ AllTries' = AllTries \cup {t} /\ t \notin AllTries /\ t \in Tries
      /\ File(t)' = a /\ \A u \in AllTries : File(u)' = File(u)
  <2>1. t \in Tries /\ t \notin AllTries /\ File(t)' = a
    BY <1>4, <1>5 DEF AllTries, Tries, Exists, File
  <2>2. ASSUME NEW u \in AllTries PROVE Exists(u[1], u[2])' /\ File(u)' = File(u)
    <3>1. u[1] \in Jobs /\ u[2] \in 1 .. Len(attempts[u[1]])
      BY <1>1, TryFacts
    <3>2. CASE u[1] = j
      BY <1>4, <1>5, <3>1, <3>2 DEF File, Exists
    <3>3. CASE u[1] # j
      <4>1. attempts'[u[1]] = attempts[u[1]] /\ Exists(u[1], u[2])
        BY <1>5, <3>1, <3>3 DEF AllTries
      <4> QED
        BY <4>1 DEF File, Exists
    <3> QED
      BY <3>2, <3>3
  <2>3. ASSUME NEW u \in Tries, Exists(u[1], u[2])', ~Exists(u[1], u[2]) PROVE u = t
    <3>1. u[1] \in Jobs /\ u[2] \in Nat /\ u = <<u[1], u[2]>>
      BY DEF Tries
    <3>2. u[1] = j
      BY <1>5, <2>3, <3>1 DEF Exists
    <3> QED
      BY <1>4, <1>5, <2>3, <3>1, <3>2 DEF Exists
  <2>4. Exists(j, n)'
    BY <1>4, <1>5 DEF Exists
  <2> QED
    BY <2>1, <2>2, <2>3, <2>4 DEF AllTries
<1>7. TypeOK'
  <2>1. ASSUME NEW k \in Jobs PROVE Len(attempts'[k]) <= MaxAttempts
    <3>1. Len(attempts[k]) <= MaxAttempts
      BY <1>1 DEF TypeOK
    <3> QED
      BY <1>4, <1>5, <3>1
  <2>2. at' \in [Jobs -> Places] /\ spent' \in Nat
    BY <1>1, <1>3 DEF TypeOK, Places
  <2> QED
    BY <1>1, <1>3, <1>5, <2>1, <2>2 DEF TypeOK
<1>8. Manned'
  BY <1>1 DEF Manned
<1>9. Located'
  <2>1. Place(j)' /\ \A k \in Jobs \ {j} : at'[k] = at[k]
    BY <1>1, <1>2, <1>3, <1>4, <1>5 DEF TypeOK, Place, Exists, This
  <2> QED
    BY <1>3, <1>5, <2>1, OneMoves DEF JevInv, Placed
<1>10. Filed'
  BY <1>2, <1>6 DEF JevInv, Placed, Filed
<1>11. OnceOnly'
  <2>1. ASSUME NEW k \in Jobs, NEW i \in 1 .. Len(attempts'[k]) - 1
        PROVE  attempts'[k][i].status = "returned"
    <3>1. CASE k = j
      <4>1. Len(attempts'[j]) - 1 = Len(attempts[j])
        BY <1>4, <1>5
      <4>2. i \in 1 .. Len(attempts[j])
        BY <2>1, <3>1, <4>1
      <4> QED
        BY <1>4, <1>5, <3>1, <4>2
    <3>2. CASE k # j
      <4>1. attempts'[k] = attempts[k]
        BY <1>5, <3>2
      <4>2. i \in 1 .. Len(attempts[k]) - 1
        BY <2>1, <4>1
      <4> QED
        BY <4>1, <4>2 DEF JevInv, Placed, OnceOnly
    <3> QED
      BY <3>1, <3>2
  <2>2. \A u \in AllTries' : File(u)'.accounted => rows[u] = 1
    BY <1>2, <1>6 DEF JevInv, Placed, OnceOnly, File
  <2> QED
    BY <1>3, <2>1, <2>2 DEF JevInv, Placed, OnceOnly, File
<1>12. Dated'
  BY <1>1, <1>2, <1>3, <1>6 DEF JevInv, Counted, Dated
<1>13. /\ IsFiniteSet(Held(Today)) /\ Cardinality(Held(Today)) \in Nat
       /\ IsFiniteSet(Held(Today) \cup {t})
       /\ Cardinality(Held(Today) \cup {t}) = Cardinality(Held(Today)) + 1
  <2>1. IsFiniteSet(Held(Today)) /\ Cardinality(Held(Today)) \in Nat
    BY <1>1, CountFacts
  <2>2. t \notin Held(Today)
    BY <1>6 DEF Held
  <2> QED
    BY <2>1, <2>2, FS_AddElement
<1>14. Covered'
  <2>1. Held(day)' \subseteq Held(Today) \cup {t}
    BY <1>1, <1>3, <1>6, TryFacts DEF Held, TypeOK, MayHaveCost
  <2>2. Cardinality(Held(day)') \in Nat /\ Cardinality(Held(day)') <= Cardinality(Held(Today)) + 1
    BY <1>13, <2>1, FS_Subset, FS_CardinalityType
  <2> QED
    BY <1>1, <1>3, <1>13, <2>2 DEF Covered
<1>15. BudgetKept'
  <2>1. SUFFICES ASSUME NEW d \in 0 .. Today PROVE Cardinality(C(d)') <= Budget
    BY <1>1 DEF BudgetKept, File
  <2>2. CASE d = Today
    <3>1. C(d)' \subseteq Held(Today) \cup {t}
      BY <1>6, <2>2 DEF Held, MayHaveCost
    <3>2. Cardinality(C(d)') \in Nat /\ Cardinality(C(d)') <= Cardinality(Held(Today)) + 1
      BY <1>13, <3>1, FS_Subset, FS_CardinalityType
    <3> QED
      BY <1>1, <1>3, <1>13, <3>2
  <2>3. CASE d # Today
    <3>1. C(d)' = C(d)
      BY <1>2, <1>6, <2>3 DEF MayHaveCost
    <3>2. Cardinality(C(d)) <= Budget
      BY <2>1 DEF JevInv, Counted, BudgetKept, File
    <3> QED
      BY <3>1, <3>2
  <2> QED
    BY <2>2, <2>3
<1> QED
  BY <1>7, <1>8, <1>9, <1>10, <1>11, <1>12, <1>14, <1>15 DEF JevInv, Placed, Counted

LEMMA WorkKeeps == ASSUME JevInv, NEW j \in Jobs, Work(j) PROVE JevInv'
BY LoopKeeps, RefusedKeeps, ReservedKeeps, AnswerKeeps, CorrectKeeps, InsertKeeps, FlagKeeps,
   AccountFailsKeeps, LimitKeeps, JudgeKeeps DEF Work

LEMMA StepKeeps == ASSUME JevInv, [Next]_vars PROVE JevInv'
BY TickKeeps, StartKeeps, CrashKeeps, BeginKeeps, BatchKeeps, ReconcileKeeps, WorkKeeps,
   StutterKeeps DEF Next, Proceed

--------------------------------------------------------------------------------
(* The theorems.                                                             *)

\* Where every thread is, and what the process has counted, whatever interrupts
\* the worker and wherever the day changes.
THEOREM JevInvariant == Spec => []JevInv
<1>1. Init => JevInv
  BY InitKeeps
<1>2. JevInv /\ [Next]_vars => JevInv'
  BY StepKeeps
<1> QED
  BY <1>1, <1>2, PTL DEF Spec

\* The variables keep their types: charged does not go below zero, and no job
\* has more attempts than max_attempts.
THEOREM TypeCorrect == Spec => []TypeOK
<1>1. JevInv => TypeOK
  BY DEF JevInv
<1> QED
  BY <1>1, JevInvariant, PTL

\* What the attempts of a day have cost, or may have, is within the daily budget.
THEOREM BudgetIsKept == Spec => []BudgetKept
<1>1. JevInv => BudgetKept
  BY DEF JevInv, Counted
<1> QED
  BY <1>1, JevInvariant, PTL

\* A request that may have been sent is not sent again, and every charge has one
\* row, which it has before it is flagged.
THEOREM NothingTwice == Spec => []OnceOnly
<1>1. JevInv => OnceOnly
  BY DEF JevInv, Placed
<1> QED
  BY <1>1, JevInvariant, PTL

\* No worker takes up a job before what earlier ones have left is recorded.
THEOREM SettledFirst == Spec => ChargesSettled
<1>1. JevInv /\ [Next]_vars =>
        [run = "reconcile" /\ run' = "batches" =>
            \A t \in AllTries : attempts[t[1]][t[2]].cost # Unreported => rows[t] = 1]_vars
  <2>1. SUFFICES ASSUME JevInv, Next, run = "reconcile", run' = "batches",
                        NEW t \in AllTries, attempts[t[1]][t[2]].cost # Unreported
                 PROVE  rows[t] = 1
    OBVIOUS
  <2>2. Begin
    BY <2>1
       DEF Next, Proceed, Work, Tick, Start, Crash, Batch, Reconcile, Loop, Reserve, Answer,
           Correct, Insert, Flag, AccountFails, Limit, Judge, process
  <2>3. ~Unaccounted(t[1], t[2])
    BY <2>1, <2>2 DEF Begin
  <2> QED
    BY <2>1, <2>3 DEF Unaccounted, JevInv, Placed, OnceOnly
<1> QED
  BY <1>1, JevInvariant, PTL DEF Spec, ChargesSettled
================================================================================
