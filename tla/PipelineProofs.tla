---------------------------- MODULE PipelineProofs ----------------------------
(***************************************************************************)
(* Theorems about PipelineLock, for every set of processes and hosts; and  *)
(* about ArticleLife, the articles that the stages collect, digest and     *)
(* group one after the other under that lock, for every set of feeds,      *)
(* entries, URLs and events.                                               *)
(***************************************************************************)
EXTENDS PipelineLock, ArticleLife, WellFoundedInduction, TLAPS

USE LockAssumption

\* Every step of every process keeps the variables in their types, and only
\* complete payloads are read.
LEMMA InitTypeOK == Init => TypeOK
BY DEF Init, TypeOK, Phases

LEMMA NextTypeOK == TypeOK /\ [Next]_vars => TypeOK'
<1> SUFFICES ASSUME TypeOK, [Next]_vars
             PROVE  TypeOK'
  OBVIOUS
<1> USE DEF TypeOK, Phases, Acquiring, Watching, Signalling, Holding, Goto
<1>1. ASSUME NEW p \in Procs, NEW first \in {"check", "create"}, Start(p, first)
      PROVE  TypeOK'
  BY <1>1 DEF Start
<1>2. ASSUME NEW p \in Procs, Preflight(p)
      PROVE  TypeOK'
  BY <1>2 DEF Preflight
<1>3. ASSUME NEW p \in Procs, Create(p)
      PROVE  TypeOK'
  BY <1>3 DEF Create
<1>4. ASSUME NEW p \in Procs, WritePayload(p)
      PROVE  TypeOK'
  BY <1>4 DEF WritePayload
<1>5. ASSUME NEW p \in Procs, Recover(p)
      PROVE  TypeOK'
  BY <1>5 DEF Recover, Readable
<1>6. ASSUME NEW p \in Procs, Decide(p)
      PROVE  TypeOK'
  BY <1>6 DEF Decide, Verdict
<1>7. ASSUME NEW p \in Procs, Verify(p)
      PROVE  TypeOK'
  BY <1>7 DEF Verify
<1>15. ASSUME NEW p \in Procs, Signal(p)
       PROVE  TypeOK'
  BY <1>15 DEF Signal, Polls
<1>16. ASSUME NEW p \in Procs, PollExit(p)
       PROVE  TypeOK'
  BY <1>16 DEF PollExit
<1>8. ASSUME NEW p \in Procs, Unlink(p)
      PROVE  TypeOK'
  BY <1>8 DEF Unlink
<1>9. ASSUME NEW p \in Procs, ReleaseRead(p)
      PROVE  TypeOK'
  BY <1>9 DEF ReleaseRead
<1>10. ASSUME NEW p \in Procs, ReleaseUnlink(p)
       PROVE  TypeOK'
  BY <1>10 DEF ReleaseUnlink
<1>11. ASSUME NEW p \in Procs, Die(p)
       PROVE  TypeOK'
  BY <1>11 DEF Die
<1>12. ASSUME NEW p \in Procs, Age(p)
       PROVE  TypeOK'
  BY <1>12 DEF Age
<1>13. ASSUME NEW h \in Hosts, Reboot(h)
       PROVE  TypeOK'
  BY <1>13 DEF Reboot
<1>14. CASE UNCHANGED vars
  BY <1>14 DEF vars
<1> QED
  BY <1>1, <1>2, <1>3, <1>4, <1>5, <1>6, <1>7, <1>8, <1>9, <1>10, <1>11, <1>12,
     <1>13, <1>14, <1>15, <1>16 DEF Next, ProcStep, AcquireStep

THEOREM TypeCorrect == Spec => []TypeOK
BY InitTypeOK, NextTypeOK, PTL DEF Spec

-----------------------------------------------------------------------------
(* The recorded identity of a lock stands for one process.                 *)

LEMMA InitIdentity == Init => IdentityInv
BY DEF Init, IdentityInv, Running, HasPid, Watching, Signalling

\* Verified, the writer of the lock is the process that has its pid.
LEMMA VerifiedPid ==
  ASSUME TypeOK, IdentityInv, NEW p \in Procs, pc[p] \in Watching,
         SameProcess(p, seen[p]), NEW r \in Procs, HasPid(p, seen[p], r)
  PROVE  r = seen[p]
<1>1. PICK x \in Procs : Matches(p, seen[p], x)
  BY DEF SameProcess
<1>2. /\ seen[p] \in Procs /\ HostOf[seen[p]] = HostOf[p]
      /\ bootOf[seen[p]] = boot[HostOf[seen[p]]]
  BY DEF IdentityInv, SameHost, SameBoot
<1>3. bootOf[x] = bootOf[seen[p]] /\ bootOf[x] # 0
  BY <1>1, <1>2 DEF IdentityInv, Matches, HasPid, Running, TypeOK
<1>4. x = seen[p]
  BY <1>1, <1>2, <1>3 DEF IdentityInv, Matches, HasPid
<1>5. r = x
  BY <1>1, <1>4 DEF IdentityInv, Matches, HasPid
<1> QED
  BY <1>4, <1>5

LEMMA NextIdentity == TypeOK /\ IdentityInv /\ [Next]_vars => IdentityInv'
<1> SUFFICES ASSUME TypeOK, IdentityInv, [Next]_vars
             PROVE  IdentityInv'
  OBVIOUS
<1> USE DEF TypeOK, IdentityInv, Running, SameHost, SameBoot, HasPid, Expired,
            Watching, Signalling, Goto
<1>1. ASSUME NEW p \in Procs, NEW first \in {"check", "create"}, Start(p, first)
      PROVE  IdentityInv'
  BY <1>1 DEF Start
<1>2. ASSUME NEW p \in Procs, Preflight(p)
      PROVE  IdentityInv'
  BY <1>2 DEF Preflight
<1>3. ASSUME NEW p \in Procs, Create(p)
      PROVE  IdentityInv'
  BY <1>3 DEF Create
<1>4. ASSUME NEW p \in Procs, WritePayload(p)
      PROVE  IdentityInv'
  BY <1>4 DEF WritePayload
<1>5. ASSUME NEW p \in Procs, Recover(p)
      PROVE  IdentityInv'
  BY <1>5 DEF Recover, Readable
<1>6. ASSUME NEW p \in Procs, Decide(p)
      PROVE  IdentityInv'
  BY <1>6 DEF Decide, Verdict
<1>7. ASSUME NEW p \in Procs, Verify(p)
      PROVE  IdentityInv'
  <2>1. ASSUME SameProcess(p, seen[p]), NEW r \in Procs, HasPid(p, seen[p], r)
        PROVE  r = seen[p]
    BY <1>7, <2>1, VerifiedPid DEF Verify
  <2>2. pc'[p] = "term" => SameProcess(p, seen[p])
    BY <1>7 DEF Verify, SameProcess
  <2> QED
    BY <1>7, <2>1, <2>2 DEF Verify
<1>15. ASSUME NEW p \in Procs, Signal(p)
       PROVE  IdentityInv'
  BY <1>15 DEF Signal, Polls
<1>16. ASSUME NEW p \in Procs, PollExit(p)
       PROVE  IdentityInv'
  <2>1. ASSUME SameProcess(p, seen[p]), NEW r \in Procs, HasPid(p, seen[p], r)
        PROVE  r = seen[p]
    BY <1>16, <2>1, VerifiedPid DEF PollExit
  <2> QED
    BY <1>16, <2>1 DEF PollExit
<1>8. ASSUME NEW p \in Procs, Unlink(p)
      PROVE  IdentityInv'
  BY <1>8 DEF Unlink
<1>9. ASSUME NEW p \in Procs, ReleaseRead(p)
      PROVE  IdentityInv'
  BY <1>9 DEF ReleaseRead
<1>10. ASSUME NEW p \in Procs, ReleaseUnlink(p)
       PROVE  IdentityInv'
  BY <1>10 DEF ReleaseUnlink
<1>11. ASSUME NEW p \in Procs, Die(p)
       PROVE  IdentityInv'
  BY <1>11 DEF Die
<1>12. ASSUME NEW p \in Procs, Age(p)
       PROVE  IdentityInv'
  BY <1>12 DEF Age
<1>13. ASSUME NEW h \in Hosts, Reboot(h)
       PROVE  IdentityInv'
  BY <1>13 DEF Reboot
<1>14. CASE UNCHANGED vars
  BY <1>14 DEF vars
<1> QED
  BY <1>1, <1>2, <1>3, <1>4, <1>5, <1>6, <1>7, <1>8, <1>9, <1>10, <1>11, <1>12,
     <1>13, <1>14, <1>15, <1>16 DEF Next, ProcStep, AcquireStep

THEOREM IdentityCorrect == Spec => []IdentityInv
BY InitTypeOK, NextTypeOK, InitIdentity, NextIdentity, PTL DEF Spec

\* The watchdog's signals reach nobody but the expired writer of the lock it
\* judged, or a process that was given the pid of that writer, which has
\* exited, since the watchdog last looked.
THEOREM KillsOnlyVerified == Spec => KillsAsVerified
<1> DEFINE Kill(p, q) ==
      pc[p] \in Signalling /\ pc'[p] = Polls(p) /\ Alive(q) /\ ~Alive(q)'
    Victim(p, q) ==
      /\ q = seen[p] \/ (q \in fresh[p] /\ ~Alive(seen[p]))
      /\ seen[p] \in old /\ p \notin Patient
<1>1. ASSUME TypeOK, IdentityInv, Next, NEW p \in Procs, NEW q \in Procs, Kill(p, q)
      PROVE  Victim(p, q)
  <2>1. PICK s \in Procs : ProcStep(s)
    <3>1. ASSUME NEW h \in Hosts, Reboot(h)
          PROVE  FALSE
      BY <1>1, <3>1 DEF Reboot, TypeOK, Polls, Signalling
    <3> QED
      BY <1>1, <3>1 DEF Next
  <2>2. Signal(p)
    <3> USE DEF TypeOK, Goto, Alive, Polls, Signalling
    <3>1. s = p \/ ~ProcStep(s)
      <4>1. ASSUME s # p, Signal(s)
            PROVE  FALSE
        BY <1>1, <4>1 DEF Signal
      <4>2. CASE ~Signal(s)
        BY <1>1, <4>2 DEF ProcStep, AcquireStep, Start, Preflight, Create,
           WritePayload, Recover, Decide, Verify, PollExit, Unlink, ReleaseRead,
           ReleaseUnlink, Die, Age
      <4> QED
        BY <4>1, <4>2
    <3> QED
      BY <1>1, <2>1, <3>1 DEF ProcStep, AcquireStep, Start, Preflight, Create,
         WritePayload, Recover, Decide, Verify, PollExit, Unlink, ReleaseRead,
         ReleaseUnlink, Die, Age
  <2>3. PICK r \in Procs \ {p} :
           /\ HasPid(p, seen[p], r)
           /\ pc' = [pc EXCEPT ![p] = Polls(p), ![r] = "dead"] \/ Goto(p, Polls(p))
    BY <1>1, <2>2 DEF Signal, Goto, TypeOK, Polls, Signalling
  <2>4. r = q
    BY <1>1, <2>3 DEF Alive, TypeOK, Goto, Polls, Signalling
  <2>5. /\ seen[p] \in Procs /\ SameHost(p, seen[p]) /\ SameBoot(p, seen[p])
        /\ Expired(p, seen[p])
    BY <1>1 DEF IdentityInv, Watching
  <2>6. r = seen[p] \/ r \in fresh[p]
    BY <1>1, <2>3 DEF IdentityInv
  <2>7. ASSUME r # seen[p]
        PROVE  ~Alive(seen[p])
    <3>1. ~Running(seen[p])
      BY <1>1, <2>3, <2>5, <2>7 DEF IdentityInv, HasPid, SameHost
    <3>2. bootOf[seen[p]] # 0
      BY <2>5, <1>1 DEF SameBoot, TypeOK, SameHost
    <3> QED
      BY <1>1, <2>5, <3>1, <3>2 DEF IdentityInv, Running, Alive
  <2> QED
    BY <2>4, <2>5, <2>6, <2>7 DEF Expired
<1>2. TypeOK /\ IdentityInv /\ [Next]_vars
        => [\A p, q \in Procs : Kill(p, q) => Victim(p, q)]_vars
  BY <1>1
<1> QED
  BY <1>2, TypeCorrect, IdentityCorrect, PTL DEF Spec, KillsAsVerified

-----------------------------------------------------------------------------
(* Mutual exclusion while acquisitions do not overlap.                     *)

LEMMA InitHold == Init => HoldInv
BY DEF Init, HoldInv, OneAcquirer, Acquiring, Watching, Signalling, Holding

LEMMA NextHold == TypeOK /\ IdentityInv /\ HoldInv /\ [SerialNext]_vars => HoldInv'
<1> SUFFICES ASSUME TypeOK, IdentityInv, HoldInv, [SerialNext]_vars
             PROVE  HoldInv'
  OBVIOUS
<1> USE DEF TypeOK, IdentityInv, HoldInv, OneAcquirer, Acquiring, Watching, Signalling,
            Holding, Running, SameHost, SameBoot, Goto
<1>0. OneAcquirer'
  BY DEF SerialNext, vars
<1> USE <1>0
<1>1. ASSUME NEW p \in Procs, NEW first \in {"check", "create"}, Start(p, first)
      PROVE  HoldInv'
  BY <1>1 DEF Start
<1>2. ASSUME NEW p \in Procs, Preflight(p)
      PROVE  HoldInv'
  BY <1>2 DEF Preflight
<1>3. ASSUME NEW p \in Procs, Create(p)
      PROVE  HoldInv'
  BY <1>3 DEF Create
<1>4. ASSUME NEW p \in Procs, WritePayload(p)
      PROVE  HoldInv'
  BY <1>4 DEF WritePayload
<1>5. ASSUME NEW p \in Procs, Recover(p)
      PROVE  HoldInv'
  BY <1>5 DEF Recover, Readable
<1>6. ASSUME NEW p \in Procs, Decide(p)
      PROVE  HoldInv'
  <2>1. ASSUME NEW q \in Procs, pc[q] \in Holding, Verdict(p, seen[p]) = "unlink"
        PROVE  FALSE
    <3>1. seen[p] = q /\ Running(q)
      BY <1>6, <2>1 DEF Decide
    <3>2. SameHost(p, q) => SameBoot(p, q) /\ SameProcess(p, q)
      BY <3>1 DEF SameProcess, Matches, HasPid
    <3> QED
      BY <2>1, <3>1, <3>2 DEF Verdict
  <2>2. Verdict(p, seen[p]) \in {"done", "terminate", "unlink"}
    BY DEF Verdict
  <2> HIDE DEF SameHost, SameBoot
  <2> QED
    BY <1>6, <2>1, <2>2 DEF Decide
<1>7. ASSUME NEW p \in Procs, Verify(p)
      PROVE  HoldInv'
  BY <1>7 DEF Verify
<1>15. ASSUME NEW p \in Procs, Signal(p)
       PROVE  HoldInv'
  <2>1. ASSUME NEW q \in Procs, pc[q] \in Holding
        PROVE  HasPid(p, seen[p], q)
    BY <1>15, <2>1 DEF Signal, HasPid
  <2>2. ASSUME NEW r \in Procs \ {p}, HasPid(p, seen[p], r),
               \/ pc' = [pc EXCEPT ![p] = Polls(p), ![r] = "dead"]
               \/ Goto(p, Polls(p))
               \/ Goto(p, "done")
        PROVE  HoldInv'
    BY <1>15, <2>2 DEF Signal, Polls
  <2>3. ASSUME ~ \E r \in Procs : HasPid(p, seen[p], r), Goto(p, "unlink")
        PROVE  HoldInv'
    <3>1. \A q \in Procs : pc[q] \notin Holding
      BY <2>1, <2>3
    <3> QED
      BY <1>15, <2>3, <3>1 DEF Signal
  <2> QED
    BY <1>15, <2>2, <2>3 DEF Signal
<1>16. ASSUME NEW p \in Procs, PollExit(p)
       PROVE  HoldInv'
  <2>1. ASSUME NEW q \in Procs, pc[q] \in Holding
        PROVE  SameProcess(p, seen[p])
    <3>1. seen[p] = q /\ SameHost(p, q) /\ Running(q)
      BY <1>16, <2>1 DEF PollExit
    <3> QED
      BY <3>1 DEF SameProcess, Matches, HasPid
  <2>2. CASE SameProcess(p, seen[p])
    BY <1>16, <2>2 DEF PollExit
  <2>3. CASE ~SameProcess(p, seen[p])
    BY <1>16, <2>1, <2>3 DEF PollExit
  <2> QED
    BY <2>2, <2>3
<1>8. ASSUME NEW p \in Procs, Unlink(p)
      PROVE  HoldInv'
  BY <1>8 DEF Unlink
<1>9. ASSUME NEW p \in Procs, ReleaseRead(p)
      PROVE  HoldInv'
  BY <1>9 DEF ReleaseRead, OwnLock
<1>10. ASSUME NEW p \in Procs, ReleaseUnlink(p)
      PROVE  HoldInv'
  BY <1>10 DEF ReleaseUnlink
<1>11. ASSUME NEW p \in Procs, Die(p)
      PROVE  HoldInv'
  BY <1>11 DEF Die
<1>12. ASSUME NEW p \in Procs, Age(p)
      PROVE  HoldInv'
  BY <1>12 DEF Age
<1>13. ASSUME NEW h \in Hosts, Reboot(h)
       PROVE  HoldInv'
  BY <1>13 DEF Reboot
<1>14. CASE UNCHANGED vars
  BY <1>14 DEF vars
<1> QED
  BY <1>1, <1>2, <1>3, <1>4, <1>5, <1>6, <1>7, <1>8, <1>9, <1>10, <1>11, <1>12,
     <1>13, <1>14, <1>15, <1>16 DEF SerialNext, Next, ProcStep, AcquireStep

LEMMA SerialInvariant == SerialSpec => [](TypeOK /\ IdentityInv /\ HoldInv)
<1>1. Init => TypeOK /\ IdentityInv /\ HoldInv
  BY InitTypeOK, InitIdentity, InitHold
<1>2. TypeOK /\ IdentityInv /\ HoldInv /\ [SerialNext]_vars
        => (TypeOK /\ IdentityInv /\ HoldInv)'
  <2>1. [SerialNext]_vars => [Next]_vars
    BY DEF SerialNext
  <2> QED
    BY <2>1, NextTypeOK, NextIdentity, NextHold
<1> QED
  BY <1>1, <1>2, PTL DEF SerialSpec

\* Two processes never run under the lock at once, whatever crashes, reboots,
\* expires or is released meanwhile.
THEOREM SerialMutualExclusion == SerialSpec => []MutualExclusion
<1>1. HoldInv => MutualExclusion
  BY DEF HoldInv, MutualExclusion
<1> QED
  BY <1>1, SerialInvariant, PTL

\* The read-then-unlink of release() removes nobody else's lock.
THEOREM SerialReleaseRemovesOwn == SerialSpec => ReleaseRemovesOwn
<1> DEFINE A == \A p \in Procs : pc[p] = "release" /\ pc'[p] = "done" => file = p
<1>1. HoldInv => A
  BY DEF HoldInv, Holding
<1>2. HoldInv /\ [SerialNext]_vars => [A]_vars
  BY <1>1
<1> QED
  BY <1>2, SerialInvariant, PTL DEF SerialSpec, ReleaseRemovesOwn

-----------------------------------------------------------------------------
(* The lock file implements the abstract mutex.                            *)

\* A step of the lock lets one process in when nobody is, or only lets
\* processes out.
LEMMA HoldersStep ==
  ASSUME TypeOK, HoldInv, [SerialNext]_vars
  PROVE  \/ \E p \in Procs : Holders = {} /\ Holders' = {p}
         \/ Holders' \subseteq Holders
<1> USE DEF TypeOK, Goto, Holders, Holding
<1>1. ASSUME NEW p \in Procs, WritePayload(p)
      PROVE  Holders = {} /\ Holders' = {p}
  <2>1. \A q \in Procs : pc[q] \notin Holding
    BY <1>1 DEF WritePayload, HoldInv
  <2> QED
    BY <1>1, <2>1 DEF WritePayload
<1>2. ASSUME NEW p \in Procs, NEW first \in {"check", "create"}, Start(p, first)
      PROVE  Holders' \subseteq Holders
  BY <1>2 DEF Start
<1>3. ASSUME NEW p \in Procs, Preflight(p) \/ Create(p) \/ Recover(p) \/ Unlink(p)
      PROVE  Holders' \subseteq Holders
  BY <1>3 DEF Preflight, Create, Recover, Unlink
<1>4. ASSUME NEW p \in Procs, Decide(p)
      PROVE  Holders' \subseteq Holders
  BY <1>4 DEF Decide, Verdict
<1>5. ASSUME NEW p \in Procs, Verify(p) \/ Signal(p) \/ PollExit(p)
      PROVE  Holders' \subseteq Holders
  BY <1>5 DEF Verify, Signal, PollExit, Polls
<1>6. ASSUME NEW p \in Procs, ReleaseRead(p) \/ ReleaseUnlink(p) \/ Die(p) \/ Age(p)
      PROVE  Holders' \subseteq Holders
  BY <1>6 DEF ReleaseRead, ReleaseUnlink, Die, Age
<1>7. ASSUME NEW h \in Hosts, Reboot(h)
      PROVE  Holders' \subseteq Holders
  BY <1>7 DEF Reboot
<1>8. CASE UNCHANGED vars
  BY <1>8 DEF vars
<1> QED
  BY <1>1, <1>2, <1>3, <1>4, <1>5, <1>6, <1>7, <1>8
     DEF SerialNext, Next, ProcStep, AcquireStep

THEOREM SerialImplementsMutex == SerialSpec => ImplementsMutex
<1>1. Init => Abstract!Init
  BY DEF Init, Abstract!Init, Holders, Holding
<1>2. TypeOK /\ HoldInv /\ [SerialNext]_vars => [Abstract!Next]_Holders
  <2> SUFFICES ASSUME TypeOK, HoldInv, [SerialNext]_vars
               PROVE  [Abstract!Next]_Holders
    OBVIOUS
  <2>1. ASSUME NEW p \in Procs, Holders = {}, Holders' = {p}
        PROVE  Abstract!Next
    BY <2>1 DEF Abstract!Next, Abstract!Enter
  <2>2. ASSUME Holders' \subseteq Holders, Holders' # Holders
        PROVE  Abstract!Next
    <3>1. Abstract!Leave(Holders \ Holders')
      BY <2>2 DEF Abstract!Leave
    <3>2. Holders \ Holders' \in SUBSET Procs
      BY DEF Holders
    <3> QED
      BY <3>1, <3>2 DEF Abstract!Next
  <2> QED
    BY <2>1, <2>2, HoldersStep
<1> QED
  BY <1>1, <1>2, SerialInvariant, PTL DEF SerialSpec, ImplementsMutex, Abstract!Spec

HIDE LockAssumption

--------------------------------------------------------------------------------
(* ArticleLife.                                                              *)

USE ArticleStoreAssumption, NoneAssumption

\* Division by two, of natural numbers.
LEMMA Halves ==
    ASSUME NEW a \in Nat, NEW b \in Nat
    PROVE  /\ a \div 2 \in Nat
           /\ a <= b => a \div 2 <= b \div 2
OBVIOUS

LEMMA DayTypes == Days \subseteq Nat /\ (\A at \in 0 .. MaxNow : at \div 2 \in Days)
BY Halves DEF Days

LEMMA PathTypes ==
    /\ \A u \in Urls, at \in 0 .. MaxNow : Path(u, at) \in Paths
    /\ \A u, v \in Urls, a, b \in 0 .. MaxNow : Path(u, a) = Path(v, b) => u = v
BY DayTypes DEF Path, Paths

\* The rows and files that steps make are rows and files.
LEMMA RowFields ==
    ASSUME NEW r \in Row
    PROVE  /\ r # None /\ r.by \in Entries /\ r.at \in 0 .. MaxNow
           /\ r.event \in Events \cup {None} /\ r.errors \in 0 .. MaxRetries
BY DEF Row

LEMMA FileFields ==
    ASSUME NEW f \in File
    PROVE  f # None /\ f.by \in Entries /\ f.at \in 0 .. MaxNow /\ f.text \in BOOLEAN
BY DEF File

LEMMA NewRows ==
    ASSUME NEW f \in File
    PROVE  /\ NewRow(f) \in Row /\ NewRow(f) # None
           /\ NewRow(f).by = f.by /\ NewRow(f).at = f.at
           /\ NewRow(f).event = None /\ NewRow(f).state = "pending"
BY DEF NewRow, Row, File

Same(r, s) == r.by = s.by /\ r.at = s.at /\ r.event = s.event /\ r.errors = s.errors

LEMMA SkippedRows ==
    ASSUME NEW r \in Row
    PROVE  /\ Skipped(r) \in Row /\ Same(Skipped(r), r)
           /\ Skipped(r).state = "assigned" <=> r.state = "assigned"
BY DEF Skipped, Row, Same

LEMMA DoneRows ==
    ASSUME NEW r \in Row
    PROVE  /\ Done(r) \in Row /\ Same(Done(r), r)
           /\ Done(r).state = "assigned" <=> r.state = "assigned"
BY DEF Done, Row, Same

Failed(r) == [r EXCEPT !.digest = "failed"]
FailedAgain(r) == [r EXCEPT !.digest = "failed", !.errors = @ + 1]

LEMMA FailedRows ==
    ASSUME NEW r \in Row
    PROVE  /\ Failed(r) \in Row /\ Same(Failed(r), r) /\ Failed(r).state = r.state
           /\ r.errors < MaxRetries =>
                /\ FailedAgain(r) \in Row /\ FailedAgain(r).by = r.by /\ FailedAgain(r).at = r.at
                /\ FailedAgain(r).event = r.event /\ FailedAgain(r).state = r.state
<1>1. Failed(r) \in Row /\ Same(Failed(r), r) /\ Failed(r).state = r.state
  BY DEF Row, Same, Failed
<1>2. ASSUME r.errors < MaxRetries
      PROVE  FailedAgain(r) \in Row
  <2>1. r.errors + 1 \in 0 .. MaxRetries
    BY <1>2 DEF Row
  <2> QED
    BY <2>1 DEF Row, FailedAgain
<1>3. /\ FailedAgain(r).by = r.by /\ FailedAgain(r).at = r.at
      /\ FailedAgain(r).event = r.event /\ FailedAgain(r).state = r.state
  BY DEF Row, FailedAgain
<1> QED
  BY <1>1, <1>2, <1>3

InState(r, s) == [r EXCEPT !.state = s]

LEMMA StateRows ==
    ASSUME NEW r \in Row, NEW s \in {"pending", "filtered", "expired"}
    PROVE  /\ InState(r, s) \in Row /\ InState(r, s) # None
           /\ Same(InState(r, s), r) /\ InState(r, s).state = s
BY DEF Row, Same, InState

WithEvent(r, v) == [r EXCEPT !.event = v, !.state = "assigned"]
Reset(r) == [r EXCEPT !.event = None, !.state = "pending"]

LEMMA EventRows ==
    ASSUME NEW r \in Row
    PROVE  /\ \A v \in Events :
                 /\ WithEvent(r, v) \in Row /\ WithEvent(r, v).by = r.by /\ WithEvent(r, v).at = r.at
                 /\ WithEvent(r, v).event = v /\ WithEvent(r, v).state = "assigned"
           /\ Reset(r) \in Row /\ Reset(r).by = r.by /\ Reset(r).at = r.at
           /\ Reset(r).event = None /\ Reset(r).state = "pending"
BY DEF Row, WithEvent, Reset

\* The stages are apart: each leaves its own sets empty, and works on articles
\* that have rows; what waits for an answer of the digest model has its text.
StagesInv ==
    /\ stage # "collect" => waiting = {} /\ reading = {} /\ seenIds = {}
    /\ stage # "digest" => batch = {} /\ deferred = {} /\ answered = {}
    /\ todo \cup batch \cup deferred \subseteq Rows
    /\ \A u \in batch : HasFile(u) /\ rows[u].errors < MaxRetries
    /\ stage = "digest" /\ todo # {} => answered = {}

\* A file is of the day it says, and has its text or a row.
FilesInv ==
    \A u \in Urls, d \in Days : files[<<u, d>>] # None =>
        /\ files[<<u, d>>].at \div 2 = d
        /\ files[<<u, d>>].text \/ u \in Rows

\* The write that a stage is in the middle of.  A file without its row is of
\* an article that has no row of that day, unless it is past the retention.
OpInv ==
    /\ op \in Insertions =>
        /\ stage = "collect" /\ op.path[1] = op.url
        /\ files[op.path] # None /\ files[op.path].text
        /\ PageOf[LinkOf[files[op.path].by]] = PageOf[op.url]
        /\ op.url \in Rows /\ PathOf(op.url) = op.path => rows[op.url].at + 2 * Retention < now
    /\ op \in Recordings => stage = "digest" /\ op.url \in Rows
    /\ op \in Openings => stage = "aggregate"

\* A reserved id has its row, or a task or a write that will make it, or the
\* entries that rely on it are excused; or this is so of the page behind it.
Covered(u) ==
    \/ u \in Rows
    \/ \E e \in reading : LinkOf[e] = u
    \/ op \in Insertions /\ op.url = u
    \/ \A e \in Entries : u \in {LinkOf[e], PageOf[LinkOf[e]]} => e \in excused

ReservedInv ==
    /\ \A e \in reading : LinkOf[e] \in seenIds /\ OnDisk(LinkOf[e], At(e)) = None
    /\ \A d, e \in reading : LinkOf[d] = LinkOf[e] => d = e
    /\ \A u \in seenIds :
         Covered(u) \/ (PageOf[u] \in seenIds \cup Rows /\ Covered(PageOf[u]))

\* A listed entry is stored, waits, or relies on an id that is reserved.
ListedInv ==
    \A f \in Feeds : etag[f] = version[f] =>
        \A e \in Listed(f) \ excused :
            \/ Stored(e) \/ e \in waiting \cup reading
            \/ LinkOf[e] \in seenIds \/ PageOf[LinkOf[e]] \in seenIds

LifeInv ==
    /\ StoreTypeOK /\ StagesInv /\ FilesInv /\ OpInv /\ ReservedInv /\ ListedInv
    /\ EventsLinked /\ OneCallPerText /\ TextKept

--------------------------------------------------------------------------------
\* What every step does to the rows: none goes, and what a row says of its
\* article does not change.
RowsType == rows \in [Urls -> Row \cup {None}]
RowsKept ==
    /\ rows' \in [Urls -> Row \cup {None}]
    /\ \A u \in Rows : rows'[u] # None /\ rows'[u].by = rows[u].by /\ rows'[u].at = rows[u].at

LEMMA RowValues == RowsType => \A u \in Rows : u \in Urls /\ rows[u] \in Row
BY DEF RowsType, Rows

LEMMA InsertedRow ==
    ASSUME RowsType, NEW u \in Urls, u \notin Rows, NEW f \in File,
           rows' = [rows EXCEPT ![u] = NewRow(f)]
    PROVE  RowsKept /\ Rows' = Rows \cup {u}
BY NewRows DEF RowsType, RowsKept, Rows

LEMMA ChangedRow ==
    ASSUME RowsType, NEW u \in Rows, NEW r \in Row, r.by = rows[u].by, r.at = rows[u].at,
           rows' = [rows EXCEPT ![u] = r]
    PROVE  RowsKept /\ Rows' = Rows
BY RowFields DEF RowsType, RowsKept, Rows

LEMMA ChangedRows ==
    ASSUME RowsType, rows' = [u \in Urls |-> rows'[u]],
           \A u \in Rows : rows'[u] \in Row /\ rows'[u].by = rows[u].by /\ rows'[u].at = rows[u].at,
           \A u \in Urls \ Rows : rows'[u] = None
    PROVE  RowsKept /\ Rows' = Rows
BY RowFields DEF RowsType, RowsKept, Rows

LEMMA SameRows ==
    ASSUME RowsType, rows' = rows
    PROVE  RowsKept /\ Rows' = Rows
BY RowFields DEF RowsType, RowsKept, Rows

LEMMA StatesSet ==
    ASSUME RowsType, NEW U \in SUBSET Rows, NEW s \in {"pending", "filtered", "expired"}, SetState(U, s)
    PROVE  /\ RowsKept /\ Rows' = Rows
           /\ \A u \in Urls \ U : rows'[u] = rows[u]
           /\ \A u \in U : rows'[u].state = s /\ rows'[u].event = rows[u].event
                           /\ rows'[u].errors = rows[u].errors
<1>1. \A u \in Rows : u \in Urls /\ rows[u] \in Row /\ rows[u] # None
  BY RowValues, RowFields
<1>2. \A u \in Urls : rows'[u] = IF u \in U THEN InState(rows[u], s) ELSE rows[u]
  BY DEF SetState, InState
<1>3. \A u \in U : rows'[u] \in Row /\ Same(rows'[u], rows[u]) /\ rows'[u].state = s
  <2> SUFFICES ASSUME NEW u \in U
               PROVE  rows'[u] \in Row /\ Same(rows'[u], rows[u]) /\ rows'[u].state = s
    OBVIOUS
  <2>1. rows[u] \in Row /\ rows'[u] = InState(rows[u], s)
    BY <1>1, <1>2
  <2> QED
    BY <2>1, StateRows
<1>4. rows' = [u \in Urls |-> rows'[u]]
  BY DEF SetState
<1>5. \A u \in Urls \ Rows : rows'[u] = None
  BY <1>2 DEF Rows
<1>6. RowsKept /\ Rows' = Rows
  BY <1>1, <1>2, <1>3, <1>4, <1>5, ChangedRows DEF Same
<1> QED
  BY <1>1, <1>2, <1>3, <1>6 DEF Same

LEMMA SkipRows ==
    ASSUME RowsType, NEW e, NEW u \in Urls, NEW f \in File, SkipOnDisk(e, u, f)
    PROVE  RowsKept
BY InsertedRow, SameRows DEF SkipOnDisk

LEMMA CollectRows ==
    ASSUME StoreTypeOK, OpInv, Collecting
    PROVE  RowsKept
<1> RowsType
  BY DEF StoreTypeOK, RowsType
<1>1. CASE StartCollect \/ EndCollect \/ InsertFails \/ \E f \in Feeds : FetchFeed(f) \/ NoFeed(f)
  BY <1>1, SameRows DEF StartCollect, EndCollect, InsertFails, FetchFeed, NoFeed, data
<1>2. ASSUME NEW e \in Entries, Begin(e)
      PROVE  RowsKept
  <2>1. LinkOf[e] \in Urls /\ At(e) \in 0 .. MaxNow
    BY DEF StoreTypeOK, At
  <2>2. OnDisk(LinkOf[e], At(e)) # None => OnDisk(LinkOf[e], At(e)) \in File
    BY <2>1, PathTypes DEF StoreTypeOK, OnDisk
  <2>3. CASE rows' = rows
    BY <2>3, SameRows
  <2>4. CASE OnDisk(LinkOf[e], At(e)) # None /\ SkipOnDisk(e, LinkOf[e], OnDisk(LinkOf[e], At(e)))
    BY <2>1, <2>2, <2>4, SkipRows
  <2> QED
    BY <1>2, <2>3, <2>4 DEF Begin
<1>3. ASSUME NEW e \in Entries, Finish(e)
      PROVE  RowsKept
  <2>1. PICK u \in Resolved(e) :
          \/ rows' = rows
          \/ OnDisk(u, At(e)) # None /\ SkipOnDisk(e, u, OnDisk(u, At(e)))
    BY <1>3 DEF Finish
  <2>2. u \in Urls /\ At(e) \in 0 .. MaxNow
    BY DEF StoreTypeOK, At, Resolved
  <2>3. OnDisk(u, At(e)) # None => OnDisk(u, At(e)) \in File
    BY <2>2, PathTypes DEF StoreTypeOK, OnDisk
  <2> QED
    BY <2>1, <2>2, <2>3, SameRows, SkipRows
<1>4. CASE Insert
  <2>1. op \in Insertions
    BY <1>4 DEF Insert, StoreTypeOK, OpInv
  <2>2. op.url \in Urls /\ files[op.path] \in File
    BY <2>1 DEF OpInv, Insertions, StoreTypeOK
  <2> QED
    BY <1>4, <2>2, InsertedRow, SameRows DEF Insert
<1> QED
  BY <1>1, <1>2, <1>3, <1>4 DEF Collecting

LEMMA DigestRows ==
    ASSUME StoreTypeOK, StagesInv, OpInv, Digesting
    PROVE  RowsKept /\ Rows' = Rows
<1> RowsType
  BY DEF StoreTypeOK, RowsType
<1> \A u \in Rows : u \in Urls /\ rows[u] \in Row /\ rows[u] # None
  BY RowValues, RowFields
<1>1. CASE StartDigest \/ Copy \/ Answer \/ CopyDeferred \/ EndDigest
  BY <1>1, SameRows DEF StartDigest, Copy, Answer, CopyDeferred, EndDigest, data
<1>2. CASE Load
  <2>1. PICK u \in todo : \/ rows' = rows
                          \/ rows' = [rows EXCEPT ![u] = Skipped(rows[u])]
                          \/ rows' = [rows EXCEPT ![u] = Done(rows[u])]
    BY <1>2 DEF Load
  <2>2. u \in Rows
    BY DEF StagesInv
  <2> QED
    BY <2>1, <2>2, SameRows, ChangedRow, SkippedRows, DoneRows DEF Same
<1>3. CASE AnswerFails
  <2>1. PICK u \in batch, R \in SUBSET deferred :
          rows' = [v \in Urls |-> IF v = u THEN FailedAgain(rows[v])
                                  ELSE IF v \in R THEN Failed(rows[v]) ELSE rows[v]]
    <3>1. PICK u \in batch :
            LET R == {d \in deferred : Text(d) = Text(u)}
            IN  rows' = [v \in Urls |-> IF v = u THEN FailedAgain(rows[v])
                                        ELSE IF v \in R THEN Failed(rows[v]) ELSE rows[v]]
      BY <1>3 DEF AnswerFails, FailedAgain, Failed
    <3> QED
      BY <3>1
  <2>2. u \in Rows /\ R \subseteq Rows /\ rows[u].errors < MaxRetries
    BY DEF StagesInv
  <2>3. \A v \in Rows : rows'[v] \in Row /\ rows'[v].by = rows[v].by /\ rows'[v].at = rows[v].at
    <3> SUFFICES ASSUME NEW v \in Rows
                 PROVE  rows'[v] \in Row /\ rows'[v].by = rows[v].by /\ rows'[v].at = rows[v].at
      OBVIOUS
    <3>1. \/ v = u /\ rows'[v] = FailedAgain(rows[v])
          \/ rows'[v] = Failed(rows[v])
          \/ rows'[v] = rows[v]
      BY <2>1
    <3> QED
      BY <2>2, <3>1, FailedRows DEF Same
  <2>4. \A v \in Urls \ Rows : rows'[v] = None
    BY <2>1, <2>2 DEF Rows
  <2>5. rows' = [v \in Urls |-> rows'[v]]
    BY <2>1
  <2> QED
    BY <2>3, <2>4, <2>5, ChangedRows
<1>4. CASE Record
  <2>1. op \in Recordings /\ op.url \in Rows
    BY <1>4 DEF Record, StoreTypeOK, OpInv
  <2> QED
    BY <1>4, <2>1, ChangedRow, DoneRows DEF Record, Same
<1> QED
  BY <1>1, <1>2, <1>3, <1>4 DEF Digesting

LEMMA NewEvents == NewEvent \subseteq {v \in Events : events[v].status = "none"}
BY DEF NewEvent

LEMMA AggregateRows ==
    ASSUME StoreTypeOK, StagesInv, Aggregating
    PROVE  RowsKept /\ Rows' = Rows
<1> RowsType
  BY DEF StoreTypeOK, RowsType
<1> \A u \in Rows : u \in Urls /\ rows[u] \in Row /\ rows[u] # None
  BY RowValues, RowFields
<1>1. CASE StartAggregate \/ WindowFails \/ CloseWindow \/ EndAggregate
  BY <1>1, SameRows DEF StartAggregate, WindowFails, CloseWindow, EndAggregate, data
<1>2. CASE StartForced
  <2>1. PICK R \in SUBSET Rows : rows' = [u \in Urls |-> IF u \in R THEN Reset(rows[u]) ELSE rows[u]]
    <3> DEFINE D == {u \in Rows : rows[u].digest = "completed" /\ rows[u].at >= Midnight(days)}
               W == Planned(Bounds(D).first, Bounds(D).last, TRUE)
               R == {u \in UNION {InWindow(w, Rows) : w \in W} :
                        \/ rows[u].event # None
                        \/ rows[u].digest = "completed" /\ rows[u].state \in {"filtered", "expired"}}
    <3>1. rows' = [u \in Urls |-> IF u \in R THEN Reset(rows[u]) ELSE rows[u]]
      BY <1>2 DEF StartForced, Reset
    <3> HIDE DEF W
    <3>2. R \subseteq Rows
      BY DEF InWindow
    <3> QED
      BY <3>1, <3>2
  <2>2. \A u \in Rows : rows'[u] \in Row /\ rows'[u].by = rows[u].by /\ rows'[u].at = rows[u].at
    BY <2>1, EventRows
  <2>3. (\A u \in Urls \ Rows : rows'[u] = None) /\ rows' = [u \in Urls |-> rows'[u]]
    BY <2>1 DEF Rows
  <2> QED
    BY <2>2, <2>3, ChangedRows
<1>3. CASE OpenWindow
  <2>1. PICK L \in SUBSET Rows : SetState(L, "filtered")
    BY <1>3 DEF OpenWindow, InWindow, Open, SetState
  <2> QED
    BY <2>1, StatesSet
<1>4. CASE AssignEvent
  <2>1. PICK u \in todo, v \in Events : rows' = [rows EXCEPT ![u] = WithEvent(rows[u], v)]
    <3>1. Live \cup NewEvent \subseteq Events
      BY NewEvents DEF Live
    <3>2. PICK u \in todo, v \in Events :
            rows' = [rows EXCEPT ![u].event = v, ![u].state = "assigned"]
      BY <1>4, <3>1 DEF AssignEvent
    <3>3. rows \in [Urls -> Row \cup {None}] /\ u \in Urls
      BY DEF RowsType, StagesInv, Rows
    <3>4. rows' = [rows EXCEPT ![u] = WithEvent(rows[u], v)]
      BY <3>2, <3>3 DEF WithEvent
    <3> QED
      BY <3>4
  <2>2. u \in Rows
    BY DEF StagesInv
  <2>3. /\ WithEvent(rows[u], v) \in Row /\ WithEvent(rows[u], v).by = rows[u].by
        /\ WithEvent(rows[u], v).at = rows[u].at
    BY <2>2, EventRows
  <2> QED
    BY <2>1, <2>2, <2>3, ChangedRow
<1> QED
  BY <1>1, <1>2, <1>3, <1>4 DEF Aggregating

LEMMA MaintainRows ==
    ASSUME StoreTypeOK, Maintaining
    PROVE  RowsKept /\ Rows' = Rows
<1> RowsType
  BY DEF StoreTypeOK, RowsType
<1>1. CASE ApplyLifecycle \/ ReconcileEvents \/ Compact
  BY <1>1, SameRows DEF ApplyLifecycle, ReconcileEvents, Compact
<1>2. CASE RestoreExpired
  BY <1>2, StatesSet DEF RestoreExpired
<1>3. CASE ExpireOld
  BY <1>3, StatesSet DEF ExpireOld, Outside, Open
<1> QED
  BY <1>1, <1>2, <1>3 DEF Maintaining

\* No step loses a row or what it says of its article.
LEMMA RowsStay ==
    ASSUME StoreTypeOK, StagesInv, OpInv, [LifeNext]_lifeVars
    PROVE  RowsKept
<1> RowsType
  BY DEF StoreTypeOK, RowsType
<1>1. CASE Tick \/ Raise \/ Crash \/ (\E f \in Feeds : Publish(f)) \/ UNCHANGED lifeVars
  BY <1>1, SameRows DEF Tick, Raise, Crash, Publish, lifeVars, data
<1> QED
  BY <1>1, CollectRows, DigestRows, AggregateRows, MaintainRows DEF LifeNext, RunNext

--------------------------------------------------------------------------------
\* What every step does to the files: within the retention a row's file keeps
\* its text.
FilesType == files \in [Paths -> File \cup {None}]
Fresh(u) == rows[u].at + 2 * Retention >= now
FilesKept ==
    /\ files' \in [Paths -> File \cup {None}] /\ FilesInv'
    /\ \A u \in Rows : Fresh(u) /\ HasFile(u) /\ files[PathOf(u)].text
                          => files'[PathOf(u)] # None /\ files'[PathOf(u)].text

LEMMA RowPaths ==
    ASSUME RowsType
    PROVE  /\ \A u \in Rows : PathOf(u) \in Paths /\ rows[u].at \in 0 .. MaxNow
           /\ \A u \in Rows, v \in Urls, at \in 0 .. MaxNow : PathOf(u) = Path(v, at) => u = v
           /\ \A u, v \in Rows : PathOf(u) = PathOf(v) => u = v
BY RowValues, RowFields, PathTypes DEF PathOf

LEMMA SameFiles ==
    ASSUME FilesType, FilesInv, RowsKept, files' = files
    PROVE  FilesKept
BY DEF FilesType, FilesInv, RowsKept, FilesKept, Rows, HasFile

LEMMA WrittenFile ==
    ASSUME FilesType, FilesInv, RowsType, RowsKept, NEW u \in Urls, NEW at \in 0 .. MaxNow, NEW e \in Entries,
           files[Path(u, at)] = None,
           files' = [files EXCEPT ![Path(u, at)] = [by |-> e, at |-> at, text |-> TRUE, digest |-> FALSE]]
    PROVE  FilesKept
<1> DEFINE f == [by |-> e, at |-> at, text |-> TRUE, digest |-> FALSE]
<1>1. f \in File /\ f # None /\ f.at = at /\ f.text
  BY FileFields DEF File
<1>2. Path(u, at) \in Paths /\ Path(u, at) = <<u, at \div 2>>
  BY PathTypes DEF Path
<1>3. files' \in [Paths -> File \cup {None}]
  BY <1>1, <1>2 DEF FilesType
<1>4. FilesInv'
  <2> SUFFICES ASSUME NEW v \in Urls, NEW d \in Days, files'[<<v, d>>] # None
               PROVE  files'[<<v, d>>].at \div 2 = d /\ (files'[<<v, d>>].text \/ v \in Rows')
    BY DEF FilesInv
  <2>1. <<v, d>> \in Paths
    BY DEF Paths
  <2>2. CASE <<v, d>> = Path(u, at)
    BY <1>1, <1>2, <2>1, <2>2 DEF FilesType
  <2>3. CASE <<v, d>> # Path(u, at)
    BY <2>1, <2>3 DEF FilesType, FilesInv, RowsKept, Rows
  <2> QED
    BY <2>2, <2>3
<1>5. \A v \in Rows : HasFile(v) => files'[PathOf(v)] = files[PathOf(v)]
  BY <1>2, RowPaths DEF FilesType, HasFile
<1> QED
  BY <1>3, <1>4, <1>5 DEF FilesKept, HasFile

LEMMA RemovedFiles ==
    ASSUME FilesType, FilesInv, RowsType, RowsKept, NEW P \in SUBSET Paths,
           \A p \in P, u \in Rows : p = PathOf(u) => ~ Fresh(u),
           files' = [p \in Paths |-> IF p \in P THEN None ELSE files[p]]
    PROVE  FilesKept
<1>1. files' \in [Paths -> File \cup {None}]
  BY DEF FilesType
<1>2. FilesInv'
  BY DEF FilesType, FilesInv, RowsKept, Rows, Paths
<1>3. \A u \in Rows : Fresh(u) => files'[PathOf(u)] = files[PathOf(u)]
  BY RowPaths
<1> QED
  BY <1>1, <1>2, <1>3 DEF FilesKept, HasFile

LEMMA DigestedFile ==
    ASSUME FilesType, FilesInv, RowsType, RowsKept, NEW u \in Rows, HasFile(u), files' = AddDigest(u)
    PROVE  FilesKept
<1> DEFINE f == files[PathOf(u)]
           g == [f EXCEPT !.digest = TRUE]
<1>1. PathOf(u) \in Paths /\ f \in File
  BY RowPaths DEF FilesType, HasFile
<1>2. g \in File /\ g # None /\ g.at = f.at /\ g.text = f.text
  BY <1>1, FileFields DEF File
<1>3. files' = [files EXCEPT ![PathOf(u)] = g]
  BY <1>1 DEF AddDigest, FilesType
<1> HIDE DEF g
<1>4. files' \in [Paths -> File \cup {None}]
  BY <1>1, <1>2, <1>3 DEF FilesType
<1>5. \A p \in Paths : /\ (files'[p] # None) = (files[p] # None)
                       /\ files[p] # None => files'[p].at = files[p].at /\ files'[p].text = files[p].text
  BY <1>1, <1>2, <1>3 DEF FilesType, HasFile
<1>6. FilesInv'
  BY <1>5 DEF FilesInv, RowsKept, Rows, Paths
<1> QED
  BY <1>4, <1>5, <1>6, RowPaths DEF FilesKept, HasFile

LEMMA CompactedFiles ==
    ASSUME FilesType, FilesInv, RowsType, RowsKept, NEW U \in SUBSET Rows, \A u \in U : ~ Fresh(u),
           files' = [p \in Paths |-> IF files[p] # None /\ \E u \in U : p = PathOf(u)
                                     THEN [files[p] EXCEPT !.text = FALSE] ELSE files[p]]
    PROVE  FilesKept
<1>1. \A p \in Paths : files[p] # None => files[p] \in File
  BY DEF FilesType
<1>2. \A f \in File : /\ [f EXCEPT !.text = FALSE] \in File /\ [f EXCEPT !.text = FALSE].at = f.at
                      /\ [f EXCEPT !.text = FALSE] # None
  BY FileFields DEF File
<1>3. files' \in [Paths -> File \cup {None}]
  BY <1>1, <1>2 DEF FilesType
<1>4. FilesInv'
  <2> SUFFICES ASSUME NEW v \in Urls, NEW d \in Days, files'[<<v, d>>] # None
               PROVE  files'[<<v, d>>].at \div 2 = d /\ (files'[<<v, d>>].text \/ v \in Rows')
    BY DEF FilesInv
  <2>1. <<v, d>> \in Paths
    BY DEF Paths
  <2>2. CASE files'[<<v, d>>] = files[<<v, d>>]
    <3>1. files[<<v, d>>].at \div 2 = d /\ (files[<<v, d>>].text \/ v \in Rows)
      BY <2>2 DEF FilesInv
    <3>2. v \in Rows => v \in Rows'
      BY DEF RowsKept, Rows
    <3> QED
      BY <2>2, <3>1, <3>2
  <2>3. ASSUME NEW u \in U, files[<<v, d>>] # None, <<v, d>> = PathOf(u),
               files'[<<v, d>>] = [files[<<v, d>>] EXCEPT !.text = FALSE]
        PROVE  files'[<<v, d>>].at \div 2 = d /\ v \in Rows'
    <3>1. v = u
      BY <2>3 DEF PathOf, Path
    <3>2. files'[<<v, d>>].at = files[<<v, d>>].at
      BY <1>1, <1>2, <2>1, <2>3
    <3> QED
      BY <2>3, <3>1, <3>2 DEF FilesInv, RowsKept, Rows
  <2> QED
    BY <2>1, <2>2, <2>3
<1>5. \A u \in Rows : Fresh(u) => files'[PathOf(u)] = files[PathOf(u)]
  BY RowPaths
<1> QED
  BY <1>3, <1>4, <1>5 DEF FilesKept, HasFile

\* Between two midnights or not, what is older than the retention in force is
\* not fresh.
LEMMA OldNotFresh ==
    ASSUME StoreTypeOK, NEW u \in Rows, Older(rows[u].at, days)
    PROVE  ~ Fresh(u)
<1>1. rows[u].at \in 0 .. MaxNow
  BY RowValues, RowFields DEF StoreTypeOK, RowsType
<1> QED
  BY <1>1 DEF StoreTypeOK, Fresh, Older

LEMMA CollectFiles ==
    ASSUME StoreTypeOK, StagesInv, FilesInv, OpInv, Collecting
    PROVE  FilesKept
<1> RowsKept /\ FilesType /\ RowsType
  BY CollectRows DEF StoreTypeOK, FilesType, RowsType
<1>1. CASE StartCollect
  <2> DEFINE aged == {u \in Archived : Older(rows[u].at, days)}
             P == {p \in Paths : \E u \in aged : p = PathOf(u)}
  <2>1. files' = [p \in Paths |-> IF p \in P THEN None ELSE files[p]]
    BY <1>1 DEF StartCollect, PathOf
  <2>2. \A p \in P, u \in Rows : p = PathOf(u) => ~ Fresh(u)
    BY RowPaths, OldNotFresh DEF Archived
  <2> HIDE DEF P
  <2>3. P \in SUBSET Paths
    BY DEF P
  <2> QED
    BY <2>1, <2>2, <2>3, RemovedFiles
<1>2. ASSUME NEW e \in Entries, Finish(e)
      PROVE  FilesKept
  <2>1. PICK u \in Resolved(e) :
          \/ files' = files
          \/ /\ files[Path(u, At(e))] = None
             /\ files' = [files EXCEPT ![Path(u, At(e))] =
                             [by |-> e, at |-> At(e), text |-> TRUE, digest |-> FALSE]]
    BY <1>2 DEF Finish, OnDisk
  <2>2. u \in Urls /\ At(e) \in 0 .. MaxNow
    BY DEF StoreTypeOK, At, Resolved
  <2> QED
    BY <2>1, <2>2, SameFiles, WrittenFile
<1>3. CASE InsertFails
  <2>1. op \in Insertions
    BY <1>3 DEF InsertFails, StoreTypeOK, OpInv
  <2>2. op.path \in Paths /\ op.url \in Urls /\ op.path[1] = op.url
    BY <2>1 DEF OpInv, Insertions
  <2>3. files' = [p \in Paths |-> IF p \in {op.path} THEN None ELSE files[p]]
    BY <1>3, <2>2 DEF InsertFails, FilesType
  <2>4. \A p \in {op.path}, u \in Rows : p = PathOf(u) => ~ Fresh(u)
    <3> SUFFICES ASSUME NEW u \in Rows, op.path = PathOf(u)
                 PROVE  ~ Fresh(u)
      OBVIOUS
    <3>1. u = op.url
      BY <2>2 DEF Path, PathOf
    <3>2. rows[u].at + 2 * Retention < now
      BY <2>1, <3>1 DEF OpInv
    <3>3. rows[u].at \in 0 .. MaxNow
      BY RowPaths
    <3> QED
      BY <3>2, <3>3 DEF StoreTypeOK, Fresh
  <2> DEFINE P == {op.path}
  <2>5. P \in SUBSET Paths
    BY <2>2
  <2> HIDE DEF P
  <2>6. /\ files' = [p \in Paths |-> IF p \in P THEN None ELSE files[p]]
        /\ \A p \in P, u \in Rows : p = PathOf(u) => ~ Fresh(u)
    BY <2>3, <2>4 DEF P
  <2> QED
    BY <2>5, <2>6, RemovedFiles
<1>4. CASE files' = files
  BY <1>4, SameFiles
<1> QED
  BY <1>1, <1>2, <1>3, <1>4 DEF Collecting, FetchFeed, NoFeed, Begin, Insert, EndCollect, data

LEMMA DigestFiles ==
    ASSUME StoreTypeOK, StagesInv, FilesInv, OpInv, Digesting
    PROVE  FilesKept
<1> RowsKept /\ FilesType /\ RowsType
  BY DigestRows DEF StoreTypeOK, FilesType, RowsType
<1>1. CASE Copy
  BY <1>1, SameFiles, DigestedFile DEF Copy, StagesInv
<1>2. CASE Answer
  BY <1>2, DigestedFile DEF Answer, StagesInv
<1>3. CASE CopyDeferred
  BY <1>3, SameFiles, DigestedFile DEF CopyDeferred, StagesInv
<1>4. CASE files' = files
  BY <1>4, SameFiles
<1> QED
  BY <1>1, <1>2, <1>3, <1>4 DEF Digesting, StartDigest, Load, AnswerFails, Record, EndDigest, data

\* Within the retention no step takes the text of an article.
LEMMA FilesStay ==
    ASSUME StoreTypeOK, StagesInv, FilesInv, OpInv, [LifeNext]_lifeVars
    PROVE  FilesKept
<1> RowsKept /\ FilesType /\ RowsType
  BY RowsStay DEF StoreTypeOK, FilesType, RowsType
<1>1. CASE Compact
  <2> DEFINE U == Compactable
  <2>1. U \subseteq Rows /\ \A u \in U : ~ Fresh(u)
    BY OldNotFresh DEF Compactable, Archived
  <2>2. files' = [p \in Paths |-> IF files[p] # None /\ \E u \in U : p = PathOf(u)
                                  THEN [files[p] EXCEPT !.text = FALSE] ELSE files[p]]
    BY <1>1 DEF Compact, PathOf
  <2> HIDE DEF U
  <2> QED
    BY <2>1, <2>2, CompactedFiles
<1>2. CASE files' = files
  BY <1>2, SameFiles
<1>3. CASE Collecting \/ Digesting
  BY <1>3, CollectFiles, DigestFiles
<1>4. CASE Aggregating
  BY <1>2, <1>4 DEF Aggregating, StartAggregate, StartForced, OpenWindow, AssignEvent,
                    WindowFails, CloseWindow, EndAggregate, data
<1>5. CASE Maintaining
  BY <1>1, <1>2, <1>5 DEF Maintaining, ApplyLifecycle, RestoreExpired, ExpireOld, ReconcileEvents
<1>6. CASE Tick \/ Raise \/ Crash \/ (\E f \in Feeds : Publish(f)) \/ UNCHANGED lifeVars
  BY <1>2, <1>6 DEF Tick, Raise, Crash, Publish, lifeVars, data
<1> QED
  BY <1>3, <1>4, <1>5, <1>6 DEF LifeNext, RunNext

\* A row is made of a file that has its text.
RowsHaveText ==
    \A u \in Rows' \ Rows :
        files'[Path(u, rows'[u].at)] # None /\ files'[Path(u, rows'[u].at)].text

LEMMA SkipHasText ==
    ASSUME FilesType, FilesInv, RowsType, NEW e, NEW u \in Urls, NEW at \in 0 .. MaxNow,
           OnDisk(u, at) # None, SkipOnDisk(e, u, OnDisk(u, at)), files' = files
    PROVE  RowsHaveText
<1> DEFINE f == OnDisk(u, at)
<1>1. Path(u, at) \in Paths /\ f \in File /\ at \div 2 \in Days
  BY PathTypes, DayTypes DEF OnDisk, FilesType
<1>2. CASE rows' = rows
  BY <1>2 DEF RowsHaveText, Rows
<1>3. CASE u \notin Rows /\ rows' = [rows EXCEPT ![u] = NewRow(f)]
  <2>1. Rows' = Rows \cup {u} /\ rows'[u].at = f.at
    BY <1>1, <1>3, InsertedRow, NewRows DEF RowsType
  <2>2. f.at \div 2 = at \div 2 /\ f.text
    BY <1>1, <1>3 DEF OnDisk, FilesInv, Path
  <2>3. Path(u, rows'[u].at) = Path(u, at)
    BY <2>1, <2>2 DEF Path
  <2> QED
    BY <2>1, <2>2, <2>3 DEF RowsHaveText, OnDisk
<1> QED
  BY <1>2, <1>3 DEF SkipOnDisk

LEMMA CollectHasText ==
    ASSUME StoreTypeOK, StagesInv, FilesInv, OpInv, Collecting
    PROVE  RowsHaveText
<1> FilesType /\ RowsType
  BY DEF StoreTypeOK, FilesType, RowsType
<1>1. CASE rows' = rows
  BY <1>1 DEF RowsHaveText, Rows
<1>2. ASSUME NEW e \in Entries, Begin(e)
      PROVE  RowsHaveText
  <2>1. LinkOf[e] \in Urls /\ At(e) \in 0 .. MaxNow
    BY DEF StoreTypeOK, At
  <2> QED
    BY <1>1, <1>2, <2>1, SkipHasText DEF Begin
<1>3. ASSUME NEW e \in Entries, Finish(e)
      PROVE  RowsHaveText
  <2>1. PICK u \in Resolved(e) :
          \/ rows' = rows
          \/ OnDisk(u, At(e)) # None /\ SkipOnDisk(e, u, OnDisk(u, At(e))) /\ files' = files
    BY <1>3 DEF Finish
  <2>2. u \in Urls /\ At(e) \in 0 .. MaxNow
    BY DEF StoreTypeOK, At, Resolved
  <2> QED
    BY <1>1, <2>1, <2>2, SkipHasText
<1>4. CASE Insert
  <2>1. op \in Insertions
    BY <1>4 DEF Insert, StoreTypeOK, OpInv
  <2>2. op.path \in Paths /\ op.url \in Urls /\ op.path[1] = op.url
        /\ files[op.path] \in File /\ files[op.path].text
    BY <2>1 DEF OpInv, Insertions, FilesType
  <2>3. CASE op.url \notin Rows /\ rows' = [rows EXCEPT ![op.url] = NewRow(files[op.path])]
    <3>1. Rows' = Rows \cup {op.url} /\ rows'[op.url].at = files[op.path].at
      BY <2>2, <2>3, InsertedRow, NewRows DEF RowsType
    <3>2. op.path = <<op.url, op.path[2]>>
      BY <2>2 DEF Path, Paths
    <3>3. files[op.path].at \div 2 = op.path[2]
      BY <2>2, <3>2, FileFields DEF FilesInv, Paths
    <3>4. Path(op.url, rows'[op.url].at) = op.path
      BY <3>1, <3>2, <3>3 DEF Path
    <3>5. files' = files
      BY <1>4 DEF Insert
    <3> QED
      BY <2>2, <3>1, <3>4, <3>5, FileFields DEF RowsHaveText
  <2> QED
    BY <1>1, <1>4, <2>3 DEF Insert
<1> QED
  BY <1>1, <1>2, <1>3, <1>4
  DEF Collecting, StartCollect, FetchFeed, NoFeed, InsertFails, EndCollect, data

LEMMA RowsMade ==
    ASSUME StoreTypeOK, StagesInv, FilesInv, OpInv, [LifeNext]_lifeVars
    PROVE  RowsHaveText
<1>1. CASE Rows' = Rows
  BY <1>1 DEF RowsHaveText
<1>2. CASE Tick \/ Raise \/ Crash \/ (\E f \in Feeds : Publish(f)) \/ UNCHANGED lifeVars
  BY <1>1, <1>2 DEF Tick, Raise, Crash, Publish, lifeVars, data, Rows
<1> QED
  BY <1>1, <1>2, CollectHasText, DigestRows, AggregateRows, MaintainRows DEF LifeNext, RunNext

\* Time does not go back.
LEMMA TimeStep ==
    ASSUME StoreTypeOK, [LifeNext]_lifeVars
    PROVE  now' \in 0 .. MaxNow /\ now <= now' /\ days' \in {Retention, Retention + 1} /\ days <= days'
<1>1. CASE Tick
  BY <1>1 DEF Tick, StoreTypeOK
<1>2. CASE Raise
  BY <1>2 DEF Raise, StoreTypeOK
<1>3. CASE now' = now /\ days' = days
  BY <1>3 DEF StoreTypeOK
<1>4. CASE Collecting
  BY <1>3, <1>4 DEF Collecting, StartCollect, FetchFeed, NoFeed, Begin, Finish, Insert, InsertFails, EndCollect, world
<1>5. CASE Digesting
  BY <1>3, <1>5 DEF Digesting, StartDigest, Copy, Load, Answer, AnswerFails, Record, CopyDeferred, EndDigest, world
<1>6. CASE Aggregating
  BY <1>3, <1>6 DEF Aggregating, StartAggregate, StartForced, OpenWindow, AssignEvent,
                    WindowFails, CloseWindow, EndAggregate, world
<1>7. CASE Maintaining
  BY <1>3, <1>7 DEF Maintaining, ApplyLifecycle, RestoreExpired, ExpireOld, ReconcileEvents, Compact, world
<1>8. CASE Crash \/ (\E f \in Feeds : Publish(f)) \/ UNCHANGED lifeVars
  BY <1>3, <1>8 DEF Crash, Publish, lifeVars, world
<1> QED
  BY <1>1, <1>2, <1>4, <1>5, <1>6, <1>7, <1>8 DEF LifeNext, RunNext

LEMMA TextStep ==
    ASSUME StoreTypeOK, StagesInv, FilesInv, OpInv, TextKept, [LifeNext]_lifeVars
    PROVE  TextKept'
<1> SUFFICES ASSUME NEW u \in Rows', rows'[u].at + 2 * Retention >= now'
             PROVE  files'[Path(u, rows'[u].at)] # None /\ files'[Path(u, rows'[u].at)].text
  BY DEF TextKept, HasFile, PathOf
<1>1. CASE u \in Rows
  <2>1. rows'[u].at = rows[u].at /\ rows[u].at \in 0 .. MaxNow
    BY <1>1, RowsStay, RowPaths DEF RowsKept, StoreTypeOK, RowsType
  <2>2. Fresh(u)
    BY <2>1, TimeStep DEF Fresh, StoreTypeOK
  <2>3. files'[PathOf(u)] # None /\ files'[PathOf(u)].text
    BY <1>1, <2>2, FilesStay DEF FilesKept, TextKept, Fresh
  <2> QED
    BY <2>1, <2>3 DEF PathOf
<1>2. CASE u \notin Rows
  BY <1>2, RowsMade DEF RowsHaveText
<1> QED
  BY <1>1, <1>2

--------------------------------------------------------------------------------
\* A stage is in the middle of one write at most, and of one of its own.
LEMMA OpKinds ==
    /\ Insertions \cap Recordings = {} /\ Insertions \cap Openings = {} /\ Recordings \cap Openings = {}
    /\ None \notin Insertions /\ None \notin Recordings /\ None \notin Openings
BY DEF Insertions, Recordings, Openings

LEMMA NoOp == op' = None => OpInv'
BY OpKinds DEF OpInv

LEMMA FinishOp ==
    ASSUME StoreTypeOK, TextKept, NEW e \in Entries, Finish(e)
    PROVE  op' \in Insertions \cup {None} /\ OpInv'
<1> FilesType /\ RowsType
  BY DEF StoreTypeOK, FilesType, RowsType
<1>1. At(e) \in 0 .. MaxNow
  BY DEF StoreTypeOK, At
<1>2. PICK u \in Resolved(e) :
        \/ op' = None
        \/ /\ files[Path(u, At(e))] = None
           /\ files' = [files EXCEPT ![Path(u, At(e))] =
                           [by |-> e, at |-> At(e), text |-> TRUE, digest |-> FALSE]]
           /\ op' = [step |-> "insert", url |-> u, path |-> Path(u, At(e))]
           /\ rows' = rows
  BY DEF Finish, OnDisk, In
<1>3. u \in Urls /\ PageOf[LinkOf[e]] = PageOf[u]
  BY DEF Resolved
<1>4. CASE op' = None
  BY <1>4, NoOp
<1>5. ASSUME files[Path(u, At(e))] = None,
             files' = [files EXCEPT ![Path(u, At(e))] =
                           [by |-> e, at |-> At(e), text |-> TRUE, digest |-> FALSE]],
             op' = [step |-> "insert", url |-> u, path |-> Path(u, At(e))], rows' = rows
      PROVE  op' \in Insertions \cup {None} /\ OpInv'
  <2> DEFINE p == Path(u, At(e))
             f == [by |-> e, at |-> At(e), text |-> TRUE, digest |-> FALSE]
  <2>1. p \in Paths /\ p[1] = u
    BY <1>1, <1>3, PathTypes DEF Path
  <2>2. f \in File /\ f # None /\ f.by = e /\ f.text
    BY <1>1, FileFields DEF File
  <2>3. op' \in Insertions /\ op'.url = u /\ op'.path = p
    BY <1>3, <1>5, <2>1 DEF Insertions
  <2>4. files'[p] = f
    BY <1>5, <2>1 DEF FilesType
  <2>5. stage' = "collect" /\ now' = now
    BY DEF Finish, In, world
  <2>6. ASSUME u \in Rows, PathOf(u) = p
        PROVE  rows[u].at + 2 * Retention < now
    <3>1. ~ HasFile(u)
      BY <1>5, <2>6 DEF HasFile
    <3>2. rows[u].at \in 0 .. MaxNow
      BY <2>6, RowPaths
    <3> QED
      BY <2>6, <3>1, <3>2 DEF TextKept, StoreTypeOK
  <2>7. u \in Rows' /\ PathOf(u)' = p => rows'[u].at + 2 * Retention < now'
    BY <1>5, <2>5, <2>6 DEF PathOf, Rows
  <2> HIDE DEF p, f
  <2>8. op' \notin Recordings /\ op' \notin Openings
    BY <2>3, OpKinds
  <2> QED
    BY <1>3, <2>1, <2>2, <2>3, <2>4, <2>5, <2>7, <2>8 DEF OpInv, PathOf
<1> QED
  BY <1>2, <1>4, <1>5

LEMMA RecordOp ==
    ASSUME StoreTypeOK, StagesInv, Copy \/ Answer \/ CopyDeferred
    PROVE  op' \in Recordings \cup {None} /\ OpInv'
<1>1. PICK u \in Rows : op' = None \/ op' = [step |-> "record", url |-> u]
  BY DEF Copy, Answer, CopyDeferred, StagesInv, In
<1>2. stage' = "digest" /\ Rows' = Rows
  BY DEF Copy, Answer, CopyDeferred, In, Rows
<1>3. CASE op' = None
  BY <1>3, NoOp
<1>4. CASE op' = [step |-> "record", url |-> u]
  <2>1. op' \in Recordings /\ op'.url = u
    BY <1>4 DEF Recordings, Rows
  <2> QED
    BY <1>2, <2>1, OpKinds DEF OpInv
<1> QED
  BY <1>1, <1>3, <1>4

LEMMA OpStep ==
    ASSUME StoreTypeOK, StagesInv, FilesInv, OpInv, TextKept, [LifeNext]_lifeVars
    PROVE  OpInv'
<1>1. CASE op' = None
  BY <1>1, NoOp
<1>2. ASSUME NEW e \in Entries, Finish(e)
      PROVE  OpInv'
  BY <1>2, FinishOp
<1>3. CASE Copy \/ Answer \/ CopyDeferred
  BY <1>3, RecordOp
<1>4. CASE OpenWindow
  BY <1>4, OpKinds DEF OpenWindow, OpInv, Insertions, Recordings, In
<1>5. CASE AssignEvent
  <2>1. op \in Openings /\ op' = op /\ stage' = "aggregate"
    BY <1>5 DEF AssignEvent, InsideWindow, OpInv, StoreTypeOK
  <2> QED
    BY <2>1, OpKinds DEF OpInv
<1>6. CASE UNCHANGED lifeVars
  BY <1>6 DEF lifeVars, OpInv, data, world, Rows, PathOf
<1>7. CASE Collecting
  BY <1>1, <1>2, <1>7 DEF Collecting, StartCollect, FetchFeed, NoFeed, Begin, Insert, InsertFails, EndCollect, In, Idle
<1>8. CASE Digesting
  BY <1>1, <1>3, <1>8 DEF Digesting, StartDigest, Load, AnswerFails, Record, EndDigest, In, Idle
<1>9. CASE Aggregating
  BY <1>1, <1>4, <1>5, <1>9 DEF Aggregating, StartAggregate, StartForced, WindowFails, CloseWindow, EndAggregate, In, Idle
<1>10. CASE Maintaining
  BY <1>1, <1>10 DEF Maintaining, ApplyLifecycle, RestoreExpired, ExpireOld, ReconcileEvents, Compact,
                     BetweenRuns, Step, In, Idle
<1>11. CASE Tick \/ Raise \/ Crash \/ (\E f \in Feeds : Publish(f))
  BY <1>1, <1>11 DEF Tick, Raise, Crash, Publish, BetweenRuns, Idle
<1> QED
  BY <1>6, <1>7, <1>8, <1>9, <1>10, <1>11 DEF LifeNext, RunNext

--------------------------------------------------------------------------------
\* The stages: what each leaves when it ends, and what the digest stage sends.
LEMMA DigestKeepsFiles ==
    ASSUME StoreTypeOK, StagesInv, Digesting
    PROVE  \A p \in Paths : files[p] # None => files'[p] # None
<1> FilesType /\ RowsType
  BY DEF StoreTypeOK, FilesType, RowsType
<1>1. ASSUME NEW u \in Rows, HasFile(u), files' = AddDigest(u)
      PROVE  \A p \in Paths : files[p] # None => files'[p] # None
  <2> DEFINE g == [files[PathOf(u)] EXCEPT !.digest = TRUE]
  <2>1. PathOf(u) \in Paths /\ files[PathOf(u)] \in File
    BY <1>1, RowPaths DEF FilesType, HasFile
  <2>2. g \in File /\ g # None
    BY <2>1, FileFields DEF File
  <2>3. files' = [files EXCEPT ![PathOf(u)] = g]
    BY <1>1, <2>1 DEF AddDigest, FilesType
  <2> QED
    BY <2>1, <2>2, <2>3 DEF FilesType
<1>2. CASE files' = files
  BY <1>2
<1>3. CASE Copy \/ CopyDeferred
  BY <1>1, <1>2, <1>3 DEF Copy, CopyDeferred, StagesInv
<1>4. CASE Answer
  BY <1>1, <1>4 DEF Answer, StagesInv
<1> QED
  BY <1>2, <1>3, <1>4 DEF Digesting, StartDigest, Load, AnswerFails, Record, EndDigest, data

LEMMA DigestErrors ==
    ASSUME StoreTypeOK, StagesInv, OpInv, Digesting, NEW v \in batch'
    PROVE  v \in Rows /\ rows'[v].errors < MaxRetries /\ HasFile(v)
<1> RowsType
  BY DEF StoreTypeOK, RowsType
<1> \A u \in Rows : u \in Urls /\ rows[u] \in Row /\ rows[u] # None
  BY RowValues, RowFields
<1>1. ASSUME NEW u \in todo, rows' = rows, batch' = batch \cup {u}, HasFile(u), ~ rows[u].errors >= MaxRetries
      PROVE  v \in Rows /\ rows'[v].errors < MaxRetries /\ HasFile(v)
  BY <1>1, RowFields DEF StagesInv
<1>2. ASSUME batch' \subseteq batch, rows'[v] = rows[v] \/ Same(rows'[v], rows[v])
      PROVE  v \in Rows /\ rows'[v].errors < MaxRetries /\ HasFile(v)
  BY <1>2 DEF StagesInv, Same
<1>3. CASE Load
  <2>1. PICK u \in todo :
          \/ rows' = rows /\ batch' = batch
          \/ batch' = batch /\ (rows' = [rows EXCEPT ![u] = Skipped(rows[u])]
                                \/ rows' = [rows EXCEPT ![u] = Done(rows[u])])
          \/ rows' = rows /\ batch' = batch \cup {u} /\ HasFile(u) /\ ~ rows[u].errors >= MaxRetries
    BY <1>3 DEF Load, HasFile
  <2>2. u \in Rows
    BY DEF StagesInv
  <2>3. CASE batch' = batch
    <3>1. v \in Rows
      BY <2>3 DEF StagesInv
    <3> QED
      BY <1>2, <2>1, <2>2, <2>3, <3>1, SkippedRows, DoneRows DEF RowsType
  <2> QED
    BY <1>1, <2>1, <2>3
<1>4. CASE AnswerFails
  <2>1. PICK u \in batch :
          /\ batch' = batch \ {u}
          /\ \A w \in Urls \ {u} : rows'[w] = rows[w] \/ rows'[w] = Failed(rows[w])
    BY <1>4, ZenonT(60) DEF AnswerFails, Failed
  <2>2. v \in Rows /\ v # u
    BY <2>1 DEF StagesInv
  <2> QED
    BY <1>2, <2>1, <2>2, FailedRows
<1>5. CASE Record
  <2>1. op.url \in Rows /\ rows' = [rows EXCEPT ![op.url] = Done(rows[op.url])] /\ batch' = batch
    BY <1>5 DEF Record, OpInv, StoreTypeOK, work
  <2>2. v \in Rows
    BY <2>1 DEF StagesInv
  <2> QED
    BY <1>2, <2>1, <2>2, DoneRows DEF RowsType
<1>6. CASE StartDigest \/ Copy \/ Answer \/ CopyDeferred \/ EndDigest
  BY <1>2, <1>6 DEF StartDigest, Copy, Answer, CopyDeferred, EndDigest, data
<1> QED
  BY <1>3, <1>4, <1>5, <1>6 DEF Digesting

LEMMA DigestStages ==
    ASSUME StoreTypeOK, StagesInv, OpInv, Digesting
    PROVE  StagesInv'
<1> Rows' = Rows /\ RowsType /\ RowsKept
  BY DigestRows DEF StoreTypeOK, RowsType
<1>1. todo' \cup batch' \cup deferred' \subseteq Rows'
  BY DEF StagesInv, Digesting, StartDigest, Copy, Load, Answer, AnswerFails, Record, CopyDeferred,
         EndDigest, Kept, work
<1>2. \A u \in batch' : HasFile(u)' /\ rows'[u].errors < MaxRetries
  <2> SUFFICES ASSUME NEW u \in batch'
               PROVE  HasFile(u)' /\ rows'[u].errors < MaxRetries
    OBVIOUS
  <2>1. u \in Rows /\ rows'[u].errors < MaxRetries /\ HasFile(u)
    BY DigestErrors
  <2>2. PathOf(u)' = PathOf(u) /\ PathOf(u) \in Paths
    BY <2>1, RowPaths DEF RowsKept, PathOf
  <2> QED
    BY <2>1, <2>2, DigestKeepsFiles DEF HasFile
<1>3. /\ waiting' = {} /\ reading' = {} /\ seenIds' = {}
      /\ stage' # "digest" => batch' = {} /\ deferred' = {} /\ answered' = {}
      /\ stage' = "digest" /\ todo' # {} => answered' = {}
  BY DEF StagesInv, Digesting, StartDigest, Copy, Load, Answer, AnswerFails, Record, CopyDeferred,
         EndDigest, work, collector, In, Idle, Leave
<1> QED
  BY <1>1, <1>2, <1>3 DEF StagesInv

LEMMA OtherStages ==
    ASSUME StoreTypeOK, StagesInv, OpInv, [LifeNext]_lifeVars, ~ Digesting
    PROVE  StagesInv'
<1> RowsKept
  BY RowsStay
<1> Rows \subseteq Rows'
  BY DEF RowsKept, Rows
<1>1. CASE Collecting
  <2>1. batch = {} /\ deferred = {} /\ answered = {} /\ work' = work
    BY <1>1 DEF StagesInv, Collecting, StartCollect, FetchFeed, NoFeed, Begin, Finish, Insert,
                InsertFails, EndCollect, Idle, In
  <2>2. stage' # "digest"
    BY <1>1 DEF Collecting, StartCollect, FetchFeed, NoFeed, Begin, Finish, Insert,
                InsertFails, EndCollect, Idle, In, Leave
  <2>3. stage' # "collect" => waiting' = {} /\ reading' = {} /\ seenIds' = {}
    BY <1>1 DEF Collecting, StartCollect, FetchFeed, NoFeed, Begin, Finish, Insert,
                InsertFails, EndCollect, Idle, In
  <2> QED
    BY <2>1, <2>2, <2>3 DEF StagesInv, work
<1>2. CASE Aggregating
  <2>1. /\ batch' = {} /\ deferred' = {} /\ answered' = {}
        /\ waiting' = {} /\ reading' = {} /\ seenIds' = {} /\ stage' # "digest"
    BY <1>2 DEF StagesInv, Aggregating, StartAggregate, StartForced, OpenWindow, AssignEvent,
                WindowFails, CloseWindow, EndAggregate, Idle, In, InsideWindow, Leave, collector, work
  <2>2. todo' \subseteq Rows
    BY <1>2 DEF StagesInv, Aggregating, StartAggregate, StartForced, OpenWindow, AssignEvent,
                WindowFails, CloseWindow, EndAggregate, work, InWindow, Open
  <2> QED
    BY <2>1, <2>2 DEF StagesInv
<1>3. CASE Maintaining \/ Tick \/ Raise \/ \E f \in Feeds : Publish(f)
  <2>1. /\ batch = {} /\ deferred = {} /\ answered = {}
        /\ waiting = {} /\ reading = {} /\ seenIds = {} /\ stage' # "digest"
    BY <1>3 DEF StagesInv, Maintaining, ApplyLifecycle, RestoreExpired, ExpireOld, ReconcileEvents,
                Compact, Tick, Raise, Publish, BetweenRuns, Step, Idle, In, Leave
  <2>2. work' = work /\ collector' = collector
    BY <1>3 DEF Maintaining, ApplyLifecycle, RestoreExpired, ExpireOld, ReconcileEvents,
                Compact, Tick, Raise, Publish
  <2> QED
    BY <2>1, <2>2 DEF StagesInv, work, collector
<1>4. CASE Crash
  BY <1>4 DEF Crash, StagesInv
<1>5. CASE UNCHANGED lifeVars
  <2>1. /\ Rows' = Rows /\ rows' = rows /\ \A u : HasFile(u)' = HasFile(u)
        /\ todo' = todo /\ batch' = batch /\ deferred' = deferred /\ answered' = answered
        /\ waiting' = waiting /\ reading' = reading /\ seenIds' = seenIds /\ stage' = stage
    BY <1>5 DEF lifeVars, data, work, collector, Rows, HasFile, PathOf
  <2> QED
    BY <2>1 DEF StagesInv
<1> QED
  BY <1>1, <1>2, <1>3, <1>4, <1>5 DEF LifeNext, RunNext

LEMMA StagesStep ==
    ASSUME StoreTypeOK, StagesInv, OpInv, [LifeNext]_lifeVars
    PROVE  StagesInv'
BY DigestStages, OtherStages

\* The digest model: a text is not asked for again while its answer is awaited
\* or known.
LEMMA CallStep ==
    ASSUME StoreTypeOK, StagesInv, OpInv, OneCallPerText, [LifeNext]_lifeVars
    PROVE  OneCallPerText'
<1> RowsKept /\ StagesInv'
  BY RowsStay, StagesStep
<1> batch \subseteq Rows
  BY DEF StagesInv
<1>1. \A u \in Rows : Text(u)' = Text(u)
  BY DEF RowsKept, Text
<1>2. CASE batch' \subseteq batch /\ answered' \subseteq answered
  BY <1>1, <1>2 DEF OneCallPerText
<1>3. CASE Load
  <2>1. PICK u \in todo : batch' \in {batch, batch \cup {u}} /\ (batch' = batch \/ ~ IsReprint(u))
    BY <1>3 DEF Load
  <2>2. u \in Rows /\ answered = {} /\ answered' = {}
    BY <1>3, <2>1 DEF Load, StagesInv, In
  <2> QED
    BY <1>1, <2>1, <2>2 DEF OneCallPerText, IsReprint
<1>4. CASE Answer
  <2>1. PICK u \in batch : batch' = batch \ {u} /\ answered' = answered \cup {Text(u)}
    BY <1>4 DEF Answer
  <2> QED
    BY <1>1, <2>1 DEF OneCallPerText
<1>5. CASE batch' = {}
  BY <1>5 DEF OneCallPerText
<1>6. CASE Digesting
  BY <1>2, <1>3, <1>4, <1>5, <1>6 DEF Digesting, StartDigest, Copy, AnswerFails, Record, CopyDeferred,
          EndDigest, work, StagesInv, Idle, In
<1>7. CASE UNCHANGED lifeVars
  BY <1>2, <1>7 DEF lifeVars, work
<1>8. CASE stage' # "digest"
  BY <1>5, <1>8 DEF StagesInv
<1>9. CASE LifeNext /\ ~ Digesting
  <2>1. stage' # "digest"
    BY <1>9 DEF LifeNext, RunNext,
        Collecting, StartCollect, FetchFeed, NoFeed, Begin, Finish, Insert, InsertFails, EndCollect,
        Aggregating, StartAggregate, StartForced, OpenWindow, AssignEvent, WindowFails, CloseWindow, EndAggregate,
        Maintaining, ApplyLifecycle, RestoreExpired, ExpireOld, ReconcileEvents, Compact,
        Tick, Raise, Publish, Crash, BetweenRuns, Step, Idle, In, InsideWindow, Leave
  <2> QED
    BY <1>8, <2>1
<1> QED
  BY <1>6, <1>7, <1>9

--------------------------------------------------------------------------------
\* Articles and events.
\* A step that changes no event and links no row that was not.
LEMMA LinksStay ==
    ASSUME EventsLinked, events' = events,
           \A u \in Rows' :
               \/ u \in Rows /\ rows'[u].event = rows[u].event
                             /\ (rows'[u].state = "assigned") = (rows[u].state = "assigned")
               \/ rows'[u].event = None /\ rows'[u].state # "assigned"
    PROVE  EventsLinked'
BY DEF EventsLinked

LEMMA InsertLinks ==
    ASSUME RowsType, EventsLinked, events' = events, NEW u \in Urls, u \notin Rows, NEW f \in File,
           rows' = [rows EXCEPT ![u] = NewRow(f)]
    PROVE  EventsLinked'
<1>1. Rows' = Rows \cup {u} /\ rows'[u].event = None /\ rows'[u].state = "pending"
  BY InsertedRow, NewRows DEF RowsType
<1>2. \A v \in Rows : rows'[v] = rows[v]
  BY DEF RowsType, Rows
<1> QED
  BY <1>1, <1>2, LinksStay

LEMMA CollectLinks ==
    ASSUME StoreTypeOK, OpInv, EventsLinked, Collecting
    PROVE  EventsLinked'
<1> RowsType /\ FilesType
  BY DEF StoreTypeOK, RowsType, FilesType
<1> events' = events
  BY DEF Collecting, StartCollect, FetchFeed, NoFeed, Begin, Finish, Insert, InsertFails, EndCollect, data
<1>1. CASE rows' = rows
  BY <1>1 DEF EventsLinked, Rows
<1>2. ASSUME NEW e \in Entries, Begin(e)
      PROVE  EventsLinked'
  <2>1. LinkOf[e] \in Urls /\ At(e) \in 0 .. MaxNow
    BY DEF StoreTypeOK, At
  <2>2. OnDisk(LinkOf[e], At(e)) # None => OnDisk(LinkOf[e], At(e)) \in File
    BY <2>1, PathTypes DEF FilesType, OnDisk
  <2> QED
    BY <1>1, <1>2, <2>1, <2>2, InsertLinks DEF Begin, SkipOnDisk
<1>3. ASSUME NEW e \in Entries, Finish(e)
      PROVE  EventsLinked'
  <2>1. PICK u \in Resolved(e) :
          \/ rows' = rows
          \/ OnDisk(u, At(e)) # None /\ SkipOnDisk(e, u, OnDisk(u, At(e)))
    BY <1>3 DEF Finish
  <2>2. u \in Urls /\ At(e) \in 0 .. MaxNow
    BY DEF StoreTypeOK, At, Resolved
  <2>3. OnDisk(u, At(e)) # None => OnDisk(u, At(e)) \in File
    BY <2>2, PathTypes DEF FilesType, OnDisk
  <2> QED
    BY <1>1, <2>1, <2>2, <2>3, InsertLinks DEF SkipOnDisk
<1>4. CASE Insert
  <2>1. op \in Insertions
    BY <1>4 DEF Insert, StoreTypeOK, OpInv
  <2>2. op.url \in Urls /\ files[op.path] \in File
    BY <2>1 DEF OpInv, Insertions, StoreTypeOK
  <2> QED
    BY <1>1, <1>4, <2>2, InsertLinks DEF Insert
<1> QED
  BY <1>1, <1>2, <1>3, <1>4 DEF Collecting, StartCollect, FetchFeed, NoFeed, InsertFails, EndCollect, data

LEMMA DigestLinks ==
    ASSUME StoreTypeOK, StagesInv, OpInv, EventsLinked, Digesting
    PROVE  EventsLinked'
<1> RowsType /\ Rows' = Rows
  BY DigestRows DEF StoreTypeOK, RowsType
<1> \A u \in Rows : u \in Urls /\ rows[u] \in Row /\ rows[u] # None
  BY RowValues, RowFields
<1> events' = events
  BY DEF Digesting, StartDigest, Copy, Load, Answer, AnswerFails, Record, CopyDeferred, EndDigest, data
<1>1. CASE rows' = rows
  BY <1>1 DEF EventsLinked, Rows
<1>2. ASSUME NEW u \in Rows, rows' = [rows EXCEPT ![u] = Skipped(rows[u])] \/ rows' = [rows EXCEPT ![u] = Done(rows[u])]
      PROVE  EventsLinked'
  <2>1. \A v \in Rows \ {u} : rows'[v] = rows[v]
    BY <1>2 DEF RowsType
  <2>2. rows'[u].event = rows[u].event /\ (rows'[u].state = "assigned") = (rows[u].state = "assigned")
    BY <1>2, SkippedRows, DoneRows DEF RowsType, Same
  <2> QED
    BY <2>1, <2>2, LinksStay
<1>3. CASE Load
  <2>1. PICK u \in todo : \/ rows' = rows
                          \/ rows' = [rows EXCEPT ![u] = Skipped(rows[u])]
                          \/ rows' = [rows EXCEPT ![u] = Done(rows[u])]
    BY <1>3 DEF Load
  <2> QED
    BY <1>1, <1>2, <2>1 DEF StagesInv
<1>4. CASE AnswerFails
  <2>1. PICK u \in batch :
          /\ rows'[u] = FailedAgain(rows[u])
          /\ \A w \in Urls \ {u} : rows'[w] = rows[w] \/ rows'[w] = Failed(rows[w])
    <3>1. batch \subseteq Urls
      BY DEF StagesInv
    <3> QED
      BY <1>4, <3>1, ZenonT(60) DEF AnswerFails, Failed, FailedAgain
  <2>2. u \in Rows /\ rows[u].errors < MaxRetries
    BY DEF StagesInv
  <2>3. rows'[u].event = rows[u].event /\ rows'[u].state = rows[u].state
    BY <2>1, <2>2, FailedRows
  <2>4. \A w \in Rows \ {u} : rows'[w].event = rows[w].event /\ rows'[w].state = rows[w].state
    BY <2>1, FailedRows DEF Same
  <2> QED
    BY <2>3, <2>4, LinksStay
<1>5. CASE Record
  <2>1. op.url \in Rows /\ rows' = [rows EXCEPT ![op.url] = Done(rows[op.url])]
    BY <1>5 DEF Record, OpInv, StoreTypeOK
  <2> QED
    BY <1>2, <2>1
<1> QED
  BY <1>1, <1>3, <1>4, <1>5 DEF Digesting, StartDigest, Copy, Answer, CopyDeferred, EndDigest, data

LEMMA ForcedLinks ==
    ASSUME StoreTypeOK, StagesInv, EventsLinked, StartForced
    PROVE  EventsLinked'
<1> RowsType /\ Rows' = Rows
  BY AggregateRows DEF StoreTypeOK, RowsType, Aggregating
<1> \A u \in Rows : u \in Urls /\ rows[u] \in Row /\ rows[u] # None
  BY RowValues, RowFields
<1>1. PICK R \in SUBSET Rows :
        /\ rows' = [u \in Urls |-> IF u \in R THEN Reset(rows[u]) ELSE rows[u]]
        /\ events' = [v \in Events |-> IF Members(v) # {} /\ Members(v) \subseteq R
                                       THEN [events[v] EXCEPT !.status = "none"] ELSE events[v]]
  <2> DEFINE D == {u \in Rows : rows[u].digest = "completed" /\ rows[u].at >= Midnight(days)}
             W == Planned(Bounds(D).first, Bounds(D).last, TRUE)
             R == {u \in UNION {InWindow(w, Rows) : w \in W} :
                      \/ rows[u].event # None
                      \/ rows[u].digest = "completed" /\ rows[u].state \in {"filtered", "expired"}}
  <2>1. /\ rows' = [u \in Urls |-> IF u \in R THEN Reset(rows[u]) ELSE rows[u]]
        /\ events' = [v \in Events |-> IF Members(v) # {} /\ Members(v) \subseteq R
                                       THEN [events[v] EXCEPT !.status = "none"] ELSE events[v]]
    BY DEF StartForced, Reset
  <2> HIDE DEF W
  <2>2. R \subseteq Rows
    BY DEF InWindow
  <2> QED
    BY <2>1, <2>2
<1> SUFFICES ASSUME NEW u \in Rows
             PROVE  /\ (rows'[u].event # None) = (rows'[u].state = "assigned")
                    /\ rows'[u].event # None => events'[rows'[u].event].status # "none"
  BY DEF EventsLinked
<1>2. CASE u \in R
  BY <1>1, <1>2, EventRows
<1>3. CASE u \notin R
  <2>1. rows'[u] = rows[u]
    BY <1>1, <1>3
  <2>2. ASSUME rows[u].event # None
        PROVE  events'[rows[u].event] = events[rows[u].event]
    <3>1. rows[u].event \in Events /\ u \in Members(rows[u].event)
      BY <2>2, RowFields DEF Members
    <3> QED
      BY <1>1, <1>3, <3>1
  <2> QED
    BY <2>1, <2>2 DEF EventsLinked
<1> QED
  BY <1>2, <1>3

LEMMA AssignLinks ==
    ASSUME StoreTypeOK, StagesInv, EventsLinked, AssignEvent
    PROVE  EventsLinked'
<1> RowsType /\ Rows' = Rows
  BY AggregateRows DEF StoreTypeOK, RowsType, Aggregating
<1> \A u \in Rows : u \in Urls /\ rows[u] \in Row /\ rows[u] # None
  BY RowValues, RowFields
<1>1. Live \cup NewEvent \subseteq Events
  BY NewEvents DEF Live
<1>2. PICK u \in todo, v \in Events :
        /\ rows' = [rows EXCEPT ![u].event = v, ![u].state = "assigned"]
        /\ events' = [events EXCEPT ![v] = [status |-> "active", updated |-> now]]
  BY <1>1 DEF AssignEvent
<1>3. u \in Rows
  BY DEF StagesInv
<1>4. rows'[u].event = v /\ rows'[u].state = "assigned" /\ \A w \in Rows \ {u} : rows'[w] = rows[w]
  <2>1. rows' = [rows EXCEPT ![u] = WithEvent(rows[u], v)]
    BY <1>2, <1>3 DEF RowsType, WithEvent
  <2>2. WithEvent(rows[u], v).event = v /\ WithEvent(rows[u], v).state = "assigned"
    BY <1>3, EventRows
  <2> QED
    BY <1>3, <2>1, <2>2 DEF RowsType
<1>5. events'[v].status = "active" /\ \A w \in Events \ {v} : events'[w] = events[w]
  BY <1>2 DEF StoreTypeOK
<1>6. \A w \in Rows : rows[w].event # None => rows[w].event \in Events
  BY RowFields
<1> QED
  BY <1>3, <1>4, <1>5, <1>6 DEF EventsLinked

LEMMA AggregateLinks ==
    ASSUME StoreTypeOK, StagesInv, EventsLinked, Aggregating
    PROVE  EventsLinked'
<1> RowsType /\ Rows' = Rows
  BY AggregateRows DEF StoreTypeOK, RowsType
<1>1. CASE OpenWindow
  <2>1. PICK L \in SUBSET Open : SetState(L, "filtered")
    BY <1>1 DEF OpenWindow, InWindow, SetState
  <2>2. L \subseteq Rows /\ \A u \in L : rows[u].event = None
    BY DEF Open, EventsLinked
  <2>3. events' = events
    BY <1>1 DEF OpenWindow
  <2> QED
    BY <2>1, <2>2, <2>3, StatesSet, LinksStay DEF Rows
<1>2. CASE rows' = rows /\ events' = events
  BY <1>2 DEF EventsLinked, Rows
<1> QED
  BY <1>1, <1>2, ForcedLinks, AssignLinks
  DEF Aggregating, StartAggregate, WindowFails, CloseWindow, EndAggregate, data

LEMMA MaintainLinks ==
    ASSUME StoreTypeOK, EventsLinked, Maintaining
    PROVE  EventsLinked'
<1> RowsType /\ Rows' = Rows
  BY MaintainRows DEF StoreTypeOK, RowsType
<1>1. \A u \in Rows : rows[u].event # None => rows[u].event \in Events
  BY RowValues, RowFields
<1>2. ASSUME NEW U \in SUBSET Rows, NEW s \in {"pending", "expired"}, SetState(U, s),
             \A u \in U : rows[u].event = None, events' = events
      PROVE  EventsLinked'
  BY <1>2, StatesSet, LinksStay DEF Rows
<1>3. CASE RestoreExpired
  <2> DEFINE U == {u \in Rows : rows[u].state = "expired" /\ rows[u].at >= Midnight(days)}
  <2>1. U \subseteq Rows /\ SetState(U, "pending") /\ events' = events
    BY <1>3 DEF RestoreExpired
  <2>2. \A u \in U : rows[u].event = None
    BY DEF EventsLinked
  <2> HIDE DEF U
  <2> QED
    BY <1>2, <2>1, <2>2
<1>4. CASE ExpireOld
  <2>1. Outside \subseteq Rows /\ SetState(Outside, "expired") /\ events' = events
    BY <1>4 DEF ExpireOld, Outside, Open
  <2>2. \A u \in Outside : rows[u].event = None
    BY DEF EventsLinked, Outside, Open
  <2> QED
    BY <1>2, <2>1, <2>2
<1>5. CASE ApplyLifecycle
  <2>1. \A v \in Events : events[v].status # "none" => events'[v].status # "none"
    <3> SUFFICES ASSUME NEW v \in Events, events[v].status # "none"
                 PROVE  events'[v].status # "none"
      OBVIOUS
    <3>1. Aged(v) # "none"
      BY DEF Aged
    <3>2. events'[v].status = Aged(v)
      BY <1>5 DEF ApplyLifecycle, StoreTypeOK
    <3> QED
      BY <3>1, <3>2
  <2>2. rows' = rows
    BY <1>5 DEF ApplyLifecycle
  <2> QED
    BY <1>1, <2>1, <2>2 DEF EventsLinked
<1>6. CASE ReconcileEvents
  <2>1. \A v \in Events : Members(v) # {} => events'[v] = events[v]
    BY <1>6 DEF ReconcileEvents
  <2>2. rows' = rows
    BY <1>6 DEF ReconcileEvents
  <2>3. \A u \in Rows : rows[u].event # None => Members(rows[u].event) # {}
    BY DEF Members
  <2> QED
    BY <1>1, <2>1, <2>2, <2>3 DEF EventsLinked
<1>7. CASE Compact
  BY <1>7 DEF Compact, EventsLinked, Rows
<1> QED
  BY <1>3, <1>4, <1>5, <1>6, <1>7 DEF Maintaining

LEMMA LinksStep ==
    ASSUME StoreTypeOK, StagesInv, OpInv, EventsLinked, [LifeNext]_lifeVars
    PROVE  EventsLinked'
<1>1. CASE rows' = rows /\ events' = events
  BY <1>1 DEF EventsLinked, Rows
<1>2. CASE Tick \/ Raise \/ Crash \/ (\E f \in Feeds : Publish(f)) \/ UNCHANGED lifeVars
  BY <1>1, <1>2 DEF Tick, Raise, Crash, Publish, lifeVars, data
<1> QED
  BY <1>2, CollectLinks, DigestLinks, AggregateLinks, MaintainLinks DEF LifeNext, RunNext

--------------------------------------------------------------------------------
\* Least and greatest elements.
LEMMA MinOf ==
    ASSUME NEW S \in SUBSET Nat, S # {}
    PROVE  Min(S) \in S /\ \A x \in S : Min(S) <= x
<1> DEFINE R == OpToRel(<, Nat)
<1>1. \A x, y \in Nat : x < y => <<x, y>> \in R
  BY DEF OpToRel
<1>2. IsWellFoundedOn(R, Nat)
  BY NatLessThanWellFounded
<1> HIDE DEF R
<1>3. S \subseteq Nat
  OBVIOUS
<1>4. PICK m \in S : \A x \in S : ~ (<<x, m>> \in R)
  BY <1>2, <1>3, WFMin
<1>5. \A x \in S : m <= x
  <2> SUFFICES ASSUME NEW x \in S, ~ (m <= x)
               PROVE  FALSE
    OBVIOUS
  <2>1. x \in Nat /\ m \in Nat /\ x < m
    BY <1>3
  <2> QED
    BY <1>1, <1>4, <2>1
<1> QED
  BY <1>5 DEF Min

LEMMA MaxOf ==
    ASSUME NEW n \in Nat, NEW S \in SUBSET (0 .. n), S # {}
    PROVE  Max(S) \in S /\ \A x \in S : x <= Max(S)
<1> DEFINE T == {m \in 0 .. n : n - m \in S}
<1>1. T \subseteq Nat
  OBVIOUS
<1>2. PICK x \in S : TRUE
  OBVIOUS
<1>3. n - x \in 0 .. n /\ n - (n - x) = x
  BY <1>2
<1>4. \A y \in S : n - y \in T
  OBVIOUS
<1>5. T # {}
  BY <1>2, <1>4
<1>6. Min(T) \in T /\ \A m \in T : Min(T) <= m
  BY <1>1, <1>5, MinOf
<1> DEFINE m == Min(T)
<1> HIDE DEF m
<1>7. m \in 0 .. n /\ n - m \in S /\ \A y \in S : n - y \in T /\ m <= n - y
  BY <1>4, <1>6 DEF m
<1>8. n - m \in S /\ \A y \in S : n - m >= y
  BY <1>7
<1> QED
  BY <1>8 DEF Max

--------------------------------------------------------------------------------
\* Types, variable by variable.
LEMMA FeedStep ==
    ASSUME StoreTypeOK, [LifeNext]_lifeVars
    PROVE  /\ version' \in [Feeds -> Nat \ {0}] /\ etag' \in [Feeds -> Nat]
           /\ \A f \in Feeds : etag'[f] <= version'[f] /\ version'[f] <= MaxVersion[f]
<1>1. ASSUME NEW f \in Feeds, FetchFeed(f)
      PROVE  /\ version' \in [Feeds -> Nat \ {0}] /\ etag' \in [Feeds -> Nat]
             /\ \A g \in Feeds : etag'[g] <= version'[g] /\ version'[g] <= MaxVersion[g]
  BY <1>1 DEF FetchFeed, StoreTypeOK, world
<1>2. ASSUME NEW f \in Feeds, Publish(f)
      PROVE  /\ version' \in [Feeds -> Nat \ {0}] /\ etag' \in [Feeds -> Nat]
             /\ \A g \in Feeds : etag'[g] <= version'[g] /\ version'[g] <= MaxVersion[g]
  BY <1>2 DEF Publish, StoreTypeOK
<1>3. CASE version' = version /\ etag' = etag
  BY <1>3 DEF StoreTypeOK
<1>4. CASE Collecting
  BY <1>1, <1>3, <1>4 DEF Collecting, StartCollect, NoFeed, Begin, Finish, Insert, InsertFails, EndCollect, world
<1>5. CASE Digesting
  BY <1>3, <1>5 DEF Digesting, StartDigest, Copy, Load, Answer, AnswerFails, Record, CopyDeferred, EndDigest, world
<1>6. CASE Aggregating
  BY <1>3, <1>6 DEF Aggregating, StartAggregate, StartForced, OpenWindow, AssignEvent,
                    WindowFails, CloseWindow, EndAggregate, world
<1>7. CASE Maintaining
  BY <1>3, <1>7 DEF Maintaining, ApplyLifecycle, RestoreExpired, ExpireOld, ReconcileEvents, Compact, world
<1>8. CASE Tick \/ Raise \/ Crash \/ UNCHANGED lifeVars
  BY <1>3, <1>8 DEF Tick, Raise, Crash, lifeVars, world
<1> QED
  BY <1>2, <1>4, <1>5, <1>6, <1>7, <1>8 DEF LifeNext, RunNext

LEMMA EventStep ==
    ASSUME StoreTypeOK, StagesInv, [LifeNext]_lifeVars
    PROVE  events' \in [Events -> [status : {"none", "active", "stale", "archived"}, updated : 0 .. MaxNow]]
<1> DEFINE E == [status : {"none", "active", "stale", "archived"}, updated : 0 .. MaxNow]
<1>1. \A v \in Events : /\ [events[v] EXCEPT !.status = "none"] \in E
                        /\ [events[v] EXCEPT !.status = Aged(v)] \in E
                        /\ events[v] \in E
  BY DEF StoreTypeOK, Aged
<1>2. CASE events' = events
  BY <1>2 DEF StoreTypeOK
<1>3. CASE StartForced
  <2>1. PICK V : events' = [v \in Events |-> IF v \in V THEN [events[v] EXCEPT !.status = "none"] ELSE events[v]]
    <3> DEFINE D == {u \in Rows : rows[u].digest = "completed" /\ rows[u].at >= Midnight(days)}
               W == Planned(Bounds(D).first, Bounds(D).last, TRUE)
               R == {u \in UNION {InWindow(w, Rows) : w \in W} :
                        \/ rows[u].event # None
                        \/ rows[u].digest = "completed" /\ rows[u].state \in {"filtered", "expired"}}
               V == {v \in Events : Members(v) # {} /\ Members(v) \subseteq R}
    <3>1. events' = [v \in Events |-> IF Members(v) # {} /\ Members(v) \subseteq R
                                      THEN [events[v] EXCEPT !.status = "none"] ELSE events[v]]
      BY <1>3 DEF StartForced
    <3>2. \A v \in Events : v \in V <=> Members(v) # {} /\ Members(v) \subseteq R
      OBVIOUS
    <3> HIDE DEF R, V
    <3>3. events' = [v \in Events |-> IF v \in V THEN [events[v] EXCEPT !.status = "none"] ELSE events[v]]
      BY <3>1, <3>2
    <3> QED
      BY <3>3
  <2> QED
    BY <1>1, <2>1
<1>4. CASE AssignEvent
  <2>1. Live \cup NewEvent \subseteq Events
    BY NewEvents DEF Live
  <2>2. PICK v \in Events : events' = [events EXCEPT ![v] = [status |-> "active", updated |-> now]]
    BY <1>4, <2>1 DEF AssignEvent
  <2>3. [status |-> "active", updated |-> now] \in E
    BY DEF StoreTypeOK
  <2> QED
    BY <2>2, <2>3 DEF StoreTypeOK
<1>5. CASE ApplyLifecycle
  BY <1>1, <1>5 DEF ApplyLifecycle
<1>6. CASE ReconcileEvents
  BY <1>1, <1>6 DEF ReconcileEvents
<1>7. CASE Collecting
  BY <1>2, <1>7 DEF Collecting, StartCollect, FetchFeed, NoFeed, Begin, Finish, Insert, InsertFails, EndCollect, data
<1>8. CASE Digesting
  BY <1>2, <1>8 DEF Digesting, StartDigest, Copy, Load, Answer, AnswerFails, Record, CopyDeferred, EndDigest, data
<1>9. CASE Aggregating
  BY <1>2, <1>3, <1>4, <1>9 DEF Aggregating, StartAggregate, OpenWindow, WindowFails, CloseWindow, EndAggregate, data
<1>10. CASE Maintaining
  BY <1>2, <1>5, <1>6, <1>10 DEF Maintaining, RestoreExpired, ExpireOld, Compact
<1>11. CASE Tick \/ Raise \/ Crash \/ (\E f \in Feeds : Publish(f)) \/ UNCHANGED lifeVars
  BY <1>2, <1>11 DEF Tick, Raise, Crash, Publish, lifeVars, data
<1> QED
  BY <1>7, <1>8, <1>9, <1>10, <1>11 DEF LifeNext, RunNext

\* The windows that are planned, opened or completed start at a step.
LEMMA WindowStep ==
    ASSUME StoreTypeOK, OpInv, [LifeNext]_lifeVars
    PROVE  completed' \subseteq Starts /\ plan' \subseteq Starts
<1>1. CASE completed' \subseteq completed /\ plan' \subseteq plan
  BY <1>1 DEF StoreTypeOK
<1>2. CASE StartAggregate \/ StartForced
  BY <1>2 DEF StartAggregate, StartForced, Planned, StoreTypeOK, data
<1>3. CASE OpenWindow \/ WindowFails \/ EndAggregate \/ AssignEvent
  BY <1>1, <1>3 DEF OpenWindow, WindowFails, EndAggregate, AssignEvent, data, work
<1>4. CASE CloseWindow
  <2>1. op \in Openings
    BY <1>4 DEF CloseWindow, InsideWindow, StoreTypeOK, OpInv
  <2> QED
    BY <1>4, <2>1 DEF CloseWindow, StoreTypeOK, Openings
<1>5. CASE Collecting
  BY <1>1, <1>5 DEF Collecting, StartCollect, FetchFeed, NoFeed, Begin, Finish, Insert, InsertFails, EndCollect, data, work
<1>6. CASE Digesting
  BY <1>1, <1>6 DEF Digesting, StartDigest, Copy, Load, Answer, AnswerFails, Record, CopyDeferred, EndDigest, data, work
<1>7. CASE Maintaining
  BY <1>1, <1>7 DEF Maintaining, ApplyLifecycle, RestoreExpired, ExpireOld, ReconcileEvents, Compact, work
<1>8. CASE Tick \/ Raise \/ Crash \/ (\E f \in Feeds : Publish(f)) \/ UNCHANGED lifeVars
  BY <1>1, <1>8 DEF Tick, Raise, Crash, Publish, lifeVars, data, work
<1> QED
  BY <1>2, <1>3, <1>4, <1>5, <1>6, <1>7, <1>8 DEF LifeNext, RunNext, Aggregating

LEMMA StartTypes == Starts \subseteq Nat
<1> SUFFICES ASSUME NEW k \in 0 .. MaxNow \div StepSize
             PROVE  StepSize * k \in Nat
  BY DEF Starts
<1>1. k \in Nat /\ StepSize \in Nat
  OBVIOUS
<1> QED
  BY <1>1

LEMMA OpTypeStep ==
    ASSUME StoreTypeOK, StagesInv, OpInv, TextKept, [LifeNext]_lifeVars
    PROVE  op' \in Insertions \cup Recordings \cup Openings \cup {None}
<1>1. CASE op' = None \/ op' = op
  BY <1>1 DEF StoreTypeOK
<1>2. ASSUME NEW e \in Entries, Finish(e)
      PROVE  op' \in Insertions \cup {None}
  BY <1>2, FinishOp
<1>3. CASE Copy \/ Answer \/ CopyDeferred
  BY <1>3, RecordOp
<1>4. CASE OpenWindow
  <2>1. Min(plan) \in Starts
    BY <1>4, StartTypes, MinOf DEF OpenWindow, StoreTypeOK
  <2> QED
    BY <1>4, <2>1 DEF OpenWindow, Openings
<1>5. CASE Collecting
  BY <1>1, <1>2, <1>5 DEF Collecting, StartCollect, FetchFeed, NoFeed, Begin, Insert, InsertFails, EndCollect
<1>6. CASE Digesting
  BY <1>1, <1>3, <1>6 DEF Digesting, StartDigest, Load, AnswerFails, Record, EndDigest
<1>7. CASE Aggregating
  BY <1>1, <1>4, <1>7 DEF Aggregating, StartAggregate, StartForced, AssignEvent, WindowFails, CloseWindow, EndAggregate
<1>8. CASE Maintaining
  BY <1>1, <1>8 DEF Maintaining, ApplyLifecycle, RestoreExpired, ExpireOld, ReconcileEvents, Compact
<1>9. CASE Tick \/ Raise \/ Crash \/ (\E f \in Feeds : Publish(f)) \/ UNCHANGED lifeVars
  BY <1>1, <1>9 DEF Tick, Raise, Crash, Publish, lifeVars
<1> QED
  BY <1>5, <1>6, <1>7, <1>8, <1>9 DEF LifeNext, RunNext

ControlType ==
    /\ stage \in Stages /\ next \in Stages /\ faults \in 0 .. MaxFaults
    /\ fetching \subseteq Feeds /\ waiting \cup reading \cup excused \subseteq Entries
    /\ seenIds \subseteq Urls

LEMMA SamePageType == \A E : SamePage(E) \subseteq Entries
BY DEF SamePage

LEMMA ControlStep ==
    ASSUME StoreTypeOK, OpInv, [LifeNext]_lifeVars
    PROVE  ControlType'
<1> USE DEF StoreTypeOK, ControlType, Stages, Fault
<1>1. ASSUME NEW e \in Entries, Begin(e)
      PROVE  ControlType'
  <2>1. LinkOf[e] \in Urls /\ KnownAs(e) \subseteq Urls
    BY DEF KnownAs, Rows
  <2> QED
    BY <1>1, <2>1, SamePageType DEF Begin, SkipOnDisk, In
<1>2. ASSUME NEW e \in Entries, Finish(e)
      PROVE  ControlType'
  <2>1. Resolved(e) \subseteq Urls
    BY DEF Resolved
  <2> QED
    BY <1>2, <2>1, SamePageType DEF Finish, SkipOnDisk, In
<1>3. ASSUME NEW f \in Feeds, FetchFeed(f) \/ NoFeed(f)
      PROVE  ControlType'
  BY <1>3 DEF FetchFeed, NoFeed, Listed, In
<1>4. CASE StartCollect \/ Insert \/ EndCollect
  BY <1>4 DEF StartCollect, Insert, EndCollect, Idle, In, Leave, collector
<1>5. CASE InsertFails
  BY <1>5, SamePageType DEF InsertFails, collector
<1>6. CASE Digesting
  <2>1. /\ stage' \in {"digest", "idle"} /\ next' \in {next, "aggregate"}
        /\ UNCHANGED <<collector, excused>> /\ (faults' = faults \/ Fault)
    BY <1>6 DEF Digesting, StartDigest, Copy, Load, Answer, AnswerFails, Record, CopyDeferred, EndDigest,
                In, Idle, Leave
  <2> QED
    BY <2>1 DEF collector
<1>7. CASE Aggregating
  <2>1. /\ stage' \in {"aggregate", "idle"} /\ next' \in {next, "lifecycle"}
        /\ UNCHANGED <<collector, excused>> /\ (faults' = faults \/ Fault)
    BY <1>7 DEF Aggregating, StartAggregate, StartForced, OpenWindow, AssignEvent, WindowFails, CloseWindow,
                EndAggregate, In, Idle, InsideWindow, Leave
  <2> QED
    BY <2>1 DEF collector
<1>8. CASE Maintaining
  BY <1>8 DEF Maintaining, ApplyLifecycle, RestoreExpired, ExpireOld, ReconcileEvents, Compact,
              BetweenRuns, Step, In, Idle, Leave, collector
<1>9. CASE Tick \/ Raise \/ (\E f \in Feeds : Publish(f)) \/ UNCHANGED lifeVars
  BY <1>9 DEF Tick, Raise, Publish, lifeVars, collector
<1>10. CASE Crash
  BY <1>10, SamePageType DEF Crash
<1> QED
  BY <1>1, <1>2, <1>3, <1>4, <1>5, <1>6, <1>7, <1>8, <1>9, <1>10 DEF LifeNext, RunNext, Collecting

LEMMA TypeStep ==
    ASSUME StoreTypeOK, StagesInv, FilesInv, OpInv, TextKept, [LifeNext]_lifeVars
    PROVE  StoreTypeOK'
<1>1. rows' \in [Urls -> Row \cup {None}] /\ files' \in [Paths -> File \cup {None}]
  BY RowsStay, FilesStay DEF RowsKept, FilesKept
<1>2. todo' \cup batch' \cup deferred' \subseteq Urls
  BY StagesStep DEF StagesInv, Rows
<1> QED
  BY <1>1, <1>2, TimeStep, FeedStep, EventStep, WindowStep, OpTypeStep, ControlStep
  DEF StoreTypeOK, ControlType

--------------------------------------------------------------------------------
\* The collector: a reserved id is never left without a row, unless its entries
\* are excused.
CoveredId(u) == Covered(u) \/ (PageOf[u] \in seenIds \cup Rows /\ Covered(PageOf[u]))

LEMMA ReservedParts ==
    ReservedInv <=>
        /\ \A e \in reading : LinkOf[e] \in seenIds /\ OnDisk(LinkOf[e], At(e)) = None
        /\ \A d, e \in reading : LinkOf[d] = LinkOf[e] => d = e
        /\ \A u \in seenIds : CoveredId(u)
BY DEF ReservedInv, CoveredId

LEMMA FetchReserved ==
    ASSUME StoreTypeOK, ReservedInv, NEW f \in Feeds, FetchFeed(f)
    PROVE  ReservedInv'
<1>1. /\ reading' = reading /\ seenIds' = seenIds /\ op' = op /\ rows' = rows /\ files' = files
      /\ now' = now /\ Rows' = Rows
      /\ excused' = excused \ {e \in Listed(f) : {LinkOf[e], PageOf[LinkOf[e]]} \cap seenIds = {}}
  BY DEF FetchFeed, data, world, Rows
<1>2. \A u \in seenIds \cup Rows : Covered(u) => Covered(u)'
  <2> SUFFICES ASSUME NEW u \in seenIds \cup Rows, Covered(u)
               PROVE  Covered(u)'
    OBVIOUS
  <2>1. CASE \A e \in Entries : u \in {LinkOf[e], PageOf[LinkOf[e]]} => e \in excused
    <3>1. CASE u \in seenIds
      BY <1>1, <2>1, <3>1 DEF Covered
    <3>2. CASE u \in Rows
      BY <1>1, <3>2 DEF Covered
    <3> QED
      BY <3>1, <3>2
  <2>2. CASE u \in Rows \/ (\E e \in reading : LinkOf[e] = u) \/ (op \in Insertions /\ op.url = u)
    BY <1>1, <2>2 DEF Covered
  <2> QED
    BY <2>1, <2>2 DEF Covered
<1>3. \A u \in seenIds : CoveredId(u) => CoveredId(u)'
  BY <1>1, <1>2 DEF CoveredId
<1>4. \A e \in reading : At(e)' = At(e) /\ OnDisk(LinkOf[e], At(e))' = OnDisk(LinkOf[e], At(e))
  BY <1>1 DEF At, OnDisk
<1> QED
  BY <1>1, <1>3, <1>4, ReservedParts DEF ReservedInv, CoveredId

\* The entries of the page that a link or a page leads to.
LEMMA PageExcused ==
    ASSUME NEW e \in Entries, NEW u \in Urls, PageOf[u] = PageOf[LinkOf[e]], SamePage({e}) \subseteq excused'
    PROVE  Covered(u)'
BY DEF Covered, SamePage

LEMMA CoverStays ==
    ASSUME NEW u, Covered(u), Rows \subseteq Rows', excused \subseteq excused',
           \A e \in reading : LinkOf[e] = u => e \in reading', op = None \/ op' = op
    PROVE  Covered(u)'
BY OpKinds DEF Covered

LEMMA SkipCovered ==
    ASSUME StoreTypeOK, NEW e \in Entries, NEW u \in Urls, NEW f \in File, SkipOnDisk(e, u, f),
           PageOf[u] = PageOf[LinkOf[e]]
    PROVE  /\ seenIds' = seenIds \cup {u} /\ excused \subseteq excused' /\ Rows \subseteq Rows'
           /\ u \notin seenIds => Covered(u)'
<1> RowsType
  BY DEF StoreTypeOK, RowsType
<1>1. seenIds' = seenIds \cup {u} /\ excused \subseteq excused'
  BY DEF SkipOnDisk
<1>2. CASE rows' = rows /\ u \in seenIds \cup Rows
  BY <1>1, <1>2 DEF Rows, Covered
<1>3. CASE rows' = [rows EXCEPT ![u] = NewRow(f)] /\ u \notin Rows
  <2>1. Rows' = Rows \cup {u}
    BY <1>3, InsertedRow
  <2> QED
    BY <1>1, <2>1 DEF Covered
<1>4. CASE rows' = rows /\ SamePage({e}) \subseteq excused'
  BY <1>1, <1>4, PageExcused DEF Rows
<1> QED
  BY <1>2, <1>3, <1>4 DEF SkipOnDisk

LEMMA BeginReserved ==
    ASSUME StoreTypeOK, ReservedInv, NEW e \in Entries, Begin(e)
    PROVE  ReservedInv'
<1> DEFINE u == LinkOf[e]
<1>1. u \in Urls /\ At(e) \in 0 .. MaxNow
  BY DEF StoreTypeOK, At
<1>2. OnDisk(u, At(e)) # None => OnDisk(u, At(e)) \in File
  BY <1>1, PathTypes DEF StoreTypeOK, OnDisk
<1>3. op = None /\ op' = op /\ files' = files /\ now' = now
  BY DEF Begin, In, world
<1>4. \/ /\ \/ rows' = rows /\ seenIds' = seenIds
            \/ rows' = rows /\ \E m \in Rows : seenIds' = seenIds \cup {m}
            \/ OnDisk(u, At(e)) # None /\ SkipOnDisk(e, u, OnDisk(u, At(e)))
         /\ reading' = reading /\ excused \subseteq excused'
      \/ /\ OnDisk(u, At(e)) = None /\ u \notin seenIds \cup Rows
         /\ reading' = reading \cup {e} /\ seenIds' = seenIds \cup {u}
         /\ rows' = rows /\ excused' = excused
  <2> HIDE DEF u
  <2>1. KnownAs(e) \subseteq Rows
    BY DEF KnownAs
  <2> QED
    BY <2>1 DEF Begin, SkipOnDisk, u
<1>5. /\ Rows \subseteq Rows' /\ excused \subseteq excused' /\ reading \subseteq reading'
      /\ seenIds \subseteq seenIds'
  BY <1>1, <1>2, <1>4, SkipCovered DEF Rows
<1>6. \A v : Covered(v) => Covered(v)'
  BY <1>3, <1>5, CoverStays
<1>7. \A v \in seenIds' \ seenIds : Covered(v)'
  <2>1. ASSUME NEW m \in Rows
        PROVE  Covered(m)'
    BY <1>5, <2>1 DEF Covered
  <2>2. ASSUME reading' = reading \cup {e}
        PROVE  Covered(u)'
    BY <2>2 DEF Covered
  <2> QED
    BY <1>1, <1>2, <1>4, <2>1, <2>2, SkipCovered
<1>8. \A v \in seenIds' : CoveredId(v)'
  BY <1>5, <1>6, <1>7, ReservedParts DEF CoveredId
<1>9. \A d \in Entries : At(d)' = At(d) /\ OnDisk(LinkOf[d], At(d))' = OnDisk(LinkOf[d], At(d))
  BY <1>3 DEF At, OnDisk
<1>10. reading \cup reading' \subseteq Entries
  BY <1>4 DEF StoreTypeOK
<1>11. \A d \in reading' : LinkOf[d] \in seenIds' /\ OnDisk(LinkOf[d], At(d))' = None
  BY <1>4, <1>5, <1>9, <1>10 DEF ReservedInv
<1>12. \A c, d \in reading' : LinkOf[c] = LinkOf[d] => c = d
  BY <1>4 DEF ReservedInv
<1> QED
  BY <1>8, <1>11, <1>12 DEF ReservedInv, CoveredId

LEMMA FinishReserved ==
    ASSUME StoreTypeOK, ReservedInv, NEW e \in Entries, Finish(e)
    PROVE  ReservedInv'
<1>1. LinkOf[e] \in Urls /\ At(e) \in 0 .. MaxNow /\ e \in reading /\ reading' = reading \ {e}
  BY DEF StoreTypeOK, At, Finish
<1>2. op = None /\ now' = now
  BY DEF Finish, In, world
<1>3. PICK u \in Resolved(e) :
        \/ /\ OnDisk(u, At(e)) # None /\ SkipOnDisk(e, u, OnDisk(u, At(e)))
           /\ files' = files /\ op' = op
        \/ /\ u # LinkOf[e] /\ u \in seenIds \cup Rows
           /\ rows' = rows /\ files' = files /\ seenIds' = seenIds /\ excused' = excused /\ op' = op
        \/ /\ u = LinkOf[e] \/ u \notin seenIds \cup Rows
           /\ seenIds' = seenIds \cup {u} /\ rows' = rows /\ excused' = excused
           /\ files' = [files EXCEPT ![Path(u, At(e))] =
                           [by |-> e, at |-> At(e), text |-> TRUE, digest |-> FALSE]]
           /\ op' = [step |-> "insert", url |-> u, path |-> Path(u, At(e))]
  BY DEF Finish, In
<1>4. u \in Urls /\ PageOf[u] = PageOf[LinkOf[e]] /\ u \in {LinkOf[e], PageOf[LinkOf[e]]}
  BY DEF Resolved
<1>5. OnDisk(u, At(e)) # None => OnDisk(u, At(e)) \in File
  BY <1>1, <1>4, PathTypes DEF StoreTypeOK, OnDisk
<1>6. OnDisk(u, At(e)) # None => u # LinkOf[e]
  BY <1>1 DEF ReservedInv
<1>7. /\ Rows \subseteq Rows' /\ excused \subseteq excused' /\ seenIds \subseteq seenIds'
      /\ u \in seenIds' \cup Rows' /\ seenIds' \subseteq seenIds \cup {u}
  BY <1>3, <1>4, <1>5, SkipCovered DEF Rows
<1>8. \A v : Covered(v) /\ v # LinkOf[e] => Covered(v)'
  BY <1>1, <1>2, <1>7, CoverStays
<1>9. Covered(u)'
  <2>1. CASE u \in seenIds \cup Rows /\ u # LinkOf[e]
    <3>1. PageOf[u] = u
      BY <1>4, <2>1
    <3>2. Covered(u)
      BY <2>1, <3>1 DEF ReservedInv, Covered
    <3> QED
      BY <1>8, <2>1, <3>2
  <2>2. CASE op' = [step |-> "insert", url |-> u, path |-> Path(u, At(e))]
    <3>1. op' \in Insertions /\ op'.url = u
      BY <1>1, <1>4, <2>2, PathTypes DEF Insertions
    <3> QED
      BY <3>1 DEF Covered
  <2>3. CASE u \notin seenIds /\ OnDisk(u, At(e)) # None /\ SkipOnDisk(e, u, OnDisk(u, At(e)))
    BY <1>4, <1>5, <2>3, SkipCovered
  <2> QED
    BY <1>3, <1>6, <2>1, <2>2, <2>3
<1>10. \A v \in seenIds' : CoveredId(v)'
  <2> SUFFICES ASSUME NEW v \in seenIds', v # u
               PROVE  CoveredId(v)'
    BY <1>9 DEF CoveredId
  <2>1. v \in seenIds /\ v \in Urls /\ CoveredId(v)
    BY <1>7, ReservedParts DEF StoreTypeOK
  <2>2. CASE Covered(v) /\ v # LinkOf[e]
    BY <1>8, <2>2 DEF CoveredId
  <2>3. CASE v = LinkOf[e]
    <3>1. PageOf[v] = u
      BY <1>4, <2>3
    <3> QED
      BY <1>7, <1>9, <3>1 DEF CoveredId
  <2>4. CASE PageOf[v] \in seenIds \cup Rows /\ Covered(PageOf[v]) /\ PageOf[v] # LinkOf[e]
    BY <1>7, <1>8, <2>4 DEF CoveredId
  <2>5. CASE PageOf[v] = LinkOf[e]
    <3>1. PageOf[PageOf[v]] = PageOf[v]
      BY <2>1
    <3>2. PageOf[v] = u
      BY <1>4, <2>5, <3>1
    <3> QED
      BY <1>7, <1>9, <3>2 DEF CoveredId
  <2> QED
    BY <2>1, <2>2, <2>3, <2>4, <2>5 DEF CoveredId
<1>11. \A d \in reading' : LinkOf[d] \in seenIds' /\ OnDisk(LinkOf[d], At(d))' = None
  <2> SUFFICES ASSUME NEW d \in reading, d # e
               PROVE  LinkOf[d] \in seenIds' /\ OnDisk(LinkOf[d], At(d))' = None
    BY <1>1
  <2>1. /\ d \in Entries /\ LinkOf[d] \in Urls /\ At(d) \in 0 .. MaxNow /\ At(d)' = At(d)
        /\ LinkOf[d] \in seenIds /\ LinkOf[d] # LinkOf[e] /\ files[Path(LinkOf[d], At(d))] = None
    BY <1>1, <1>2 DEF ReservedInv, StoreTypeOK, At, OnDisk
  <2>2. CASE files' = files
    BY <1>7, <2>1, <2>2 DEF OnDisk
  <2>3. CASE /\ u = LinkOf[e] \/ u \notin seenIds \cup Rows
             /\ files' = [files EXCEPT ![Path(u, At(e))] =
                              [by |-> e, at |-> At(e), text |-> TRUE, digest |-> FALSE]]
    <3>1. LinkOf[d] # u
      BY <2>1, <2>3
    <3>2. Path(LinkOf[d], At(d)) # Path(u, At(e)) /\ Path(LinkOf[d], At(d)) \in Paths
      BY <1>1, <1>4, <2>1, <3>1, PathTypes
    <3>3. files'[Path(LinkOf[d], At(d))] = None
      BY <2>1, <2>3, <3>2 DEF StoreTypeOK
    <3> QED
      BY <1>7, <2>1, <3>3 DEF OnDisk
  <2> QED
    BY <1>3, <2>2, <2>3
<1>12. \A c, d \in reading' : LinkOf[c] = LinkOf[d] => c = d
  BY <1>1 DEF ReservedInv
<1> QED
  BY <1>10, <1>11, <1>12 DEF ReservedInv, CoveredId

LEMMA InsertReserved ==
    ASSUME StoreTypeOK, OpInv, ReservedInv, Insert \/ InsertFails
    PROVE  ReservedInv'
<1>1. op \in Insertions /\ op' = None /\ reading' = reading /\ seenIds' = seenIds /\ now' = now
  BY DEF Insert, InsertFails, StoreTypeOK, OpInv, collector, world
<1>2. op.url \in Urls /\ files[op.path] \in File /\ op.path \in Paths
  BY <1>1 DEF OpInv, Insertions, StoreTypeOK
<1>3. RowsType
  BY DEF StoreTypeOK, RowsType
<1>4. CASE Insert
  <2>1. files' = files /\ excused' = excused
    BY <1>4 DEF Insert
  <2>2. Rows' = Rows \cup {op.url}
    BY <1>2, <1>3, <1>4, InsertedRow DEF Insert, Rows
  <2>3. \A v : Covered(v) => Covered(v)'
    BY <1>1, <2>1, <2>2 DEF Covered
  <2>4. \A v \in seenIds' : CoveredId(v)'
    BY <1>1, <2>2, <2>3, ReservedParts DEF CoveredId
  <2>5. \A e \in reading : OnDisk(LinkOf[e], At(e))' = OnDisk(LinkOf[e], At(e))
    BY <1>1, <2>1 DEF At, OnDisk
  <2> QED
    BY <1>1, <2>4, <2>5 DEF ReservedInv, CoveredId
<1>5. CASE InsertFails
  <2>1. /\ rows' = rows /\ Rows' = Rows /\ excused \subseteq excused'
        /\ SamePage({files[op.path].by}) \subseteq excused'
        /\ files' = [files EXCEPT ![op.path] = None]
    BY <1>5 DEF InsertFails, Rows
  <2>2. PageOf[op.url] = PageOf[LinkOf[files[op.path].by]] /\ files[op.path].by \in Entries
    BY <1>1, <1>2, FileFields DEF OpInv
  <2>3. PICK u \in Urls : u = op.url
    BY <1>2
  <2>4. \A v : Covered(v) => Covered(v)'
    <3>1. Covered(u)'
      BY <2>1, <2>2, <2>3, PageExcused
    <3> QED
      BY <1>1, <2>1, <2>3, <3>1 DEF Covered
  <2>5. \A v \in seenIds' : CoveredId(v)'
    BY <1>1, <2>1, <2>4, ReservedParts DEF CoveredId
  <2>6. \A e \in reading : LinkOf[e] \in seenIds' /\ OnDisk(LinkOf[e], At(e))' = None
    <3> SUFFICES ASSUME NEW e \in reading
                 PROVE  OnDisk(LinkOf[e], At(e))' = None
      BY <1>1 DEF ReservedInv
    <3>1. /\ e \in Entries /\ LinkOf[e] \in Urls /\ At(e) \in 0 .. MaxNow /\ At(e)' = At(e)
          /\ files[Path(LinkOf[e], At(e))] = None
      BY <1>1 DEF StoreTypeOK, At, ReservedInv, OnDisk
    <3>2. files'[Path(LinkOf[e], At(e))] = None
      BY <2>1, <3>1, PathTypes DEF StoreTypeOK
    <3> QED
      BY <3>1, <3>2 DEF OnDisk
  <2> QED
    BY <1>1, <2>5, <2>6 DEF ReservedInv, CoveredId
<1> QED
  BY <1>4, <1>5

LEMMA ReservedStep ==
    ASSUME StoreTypeOK, StagesInv, OpInv, ReservedInv, [LifeNext]_lifeVars
    PROVE  ReservedInv'
<1>1. ASSUME seenIds' = {}, reading' = {}
      PROVE  ReservedInv'
  BY <1>1 DEF ReservedInv
<1>2. ASSUME stage # "collect", UNCHANGED collector
      PROVE  ReservedInv'
  BY <1>1, <1>2 DEF StagesInv, collector
<1>3. ASSUME rows' = rows, files' = files, seenIds' = seenIds, reading' = reading, now' = now,
             excused' = excused, op' = op
      PROVE  ReservedInv'
  <2>1. Rows' = Rows /\ \A v : Covered(v)' = Covered(v)
    BY <1>3 DEF Covered, Rows
  <2>2. \A e \in reading : OnDisk(LinkOf[e], At(e))' = OnDisk(LinkOf[e], At(e))
    BY <1>3 DEF At, OnDisk
  <2> QED
    BY <1>3, <2>1, <2>2 DEF ReservedInv
<1>4. CASE \E f \in Feeds : NoFeed(f)
  BY <1>3, <1>4 DEF NoFeed, data, world
<1>5. CASE StartCollect \/ EndCollect
  BY <1>1, <1>5 DEF StartCollect, EndCollect, Idle, In, StagesInv
<1>6. CASE Collecting
  BY <1>4, <1>5, <1>6, FetchReserved, BeginReserved, FinishReserved, InsertReserved DEF Collecting
<1>7. CASE Digesting
  BY <1>2, <1>7 DEF Digesting, StartDigest, Copy, Load, Answer, AnswerFails, Record, CopyDeferred, EndDigest,
                    In, Idle
<1>8. CASE Aggregating
  BY <1>2, <1>8 DEF Aggregating, StartAggregate, StartForced, OpenWindow, AssignEvent, WindowFails,
                    CloseWindow, EndAggregate, In, Idle, InsideWindow
<1>9. CASE Maintaining
  BY <1>2, <1>9 DEF Maintaining, ApplyLifecycle, RestoreExpired, ExpireOld, ReconcileEvents, Compact,
                    BetweenRuns, Step, In, Idle
<1>10. CASE Tick \/ Raise \/ \E f \in Feeds : Publish(f)
  BY <1>2, <1>10 DEF Tick, Raise, Publish, BetweenRuns, Idle
<1>11. CASE Crash
  BY <1>1, <1>11 DEF Crash
<1>12. CASE UNCHANGED lifeVars
  BY <1>3, <1>12 DEF lifeVars, data, world, collector
<1> QED
  BY <1>6, <1>7, <1>8, <1>9, <1>10, <1>11, <1>12 DEF LifeNext, RunNext

--------------------------------------------------------------------------------
\* What is listed stays stored, or on its way.
LEMMA StoredStays ==
    ASSUME StoreTypeOK, RowsKept, now <= now', now' \in Nat, NEW e \in Entries, Stored(e)
    PROVE  Stored(e)'
<1> RowsType
  BY DEF StoreTypeOK, RowsType
<1>1. Rows \subseteq Rows'
  BY DEF RowsKept, Rows
<1>2. KnownAs(e) \subseteq KnownAs(e)'
  BY <1>1 DEF KnownAs, RowsKept
<1>3. ASSUME PublishedAt[e] # None, Older(PublishedAt[e], Retention)
      PROVE  Older(PublishedAt[e], Retention)'
  <2>1. PublishedAt[e] \in Nat /\ Retention \in Nat /\ now \in Nat
    BY <1>3 DEF StoreTypeOK
  <2> QED
    BY <1>3, <2>1 DEF Older
<1> QED
  BY <1>1, <1>2, <1>3 DEF Stored

LEMMA RowStored ==
    ASSUME NEW e \in Entries, LinkOf[e] \in Rows \/ PageOf[LinkOf[e]] \in Rows
    PROVE  Stored(e)
BY DEF Stored, KnownAs

LEMMA OldStored ==
    ASSUME StoreTypeOK, NEW e \in Entries, TooOld(e)
    PROVE  Stored(e)
<1>1. PublishedAt[e] \in Nat /\ Retention \in Nat /\ now \in Nat /\ days \in {Retention, Retention + 1}
  BY DEF StoreTypeOK, TooOld
<1> QED
  BY <1>1 DEF TooOld, Older, Stored

\* An entry that relies on a reserved id.
Relies(e) == LinkOf[e] \in seenIds \/ PageOf[LinkOf[e]] \in seenIds

\* Where such an entry stands when the reservations are forgotten.
LEMMA ReliesOn ==
    ASSUME StoreTypeOK, ReservedInv, NEW e \in Entries, Relies(e)
    PROVE  \/ Stored(e) \/ e \in excused
           \/ \E d \in reading : PageOf[LinkOf[d]] = PageOf[LinkOf[e]]
           \/ op \in Insertions /\ PageOf[op.url] = PageOf[LinkOf[e]]
<1>1. PICK u \in seenIds : u \in {LinkOf[e], PageOf[LinkOf[e]]}
  BY DEF Relies
<1>2. LinkOf[e] \in Urls /\ PageOf[u] = PageOf[LinkOf[e]] /\ PageOf[PageOf[u]] = PageOf[u]
  BY <1>1
<1>3. PICK v \in {u, PageOf[u]} : Covered(v)
  BY <1>1 DEF ReservedInv
<1>4. v \in {LinkOf[e], PageOf[LinkOf[e]]} /\ PageOf[v] = PageOf[LinkOf[e]]
  BY <1>1, <1>2
<1> QED
  BY <1>3, <1>4, RowStored DEF Covered

LEMMA ListsStay ==
    ASSUME ListedInv, version' = version, etag' = etag, excused \subseteq excused', seenIds \subseteq seenIds',
           \A e \in Entries : Stored(e) => Stored(e)',
           \A e \in waiting \cup reading : e \in waiting' \cup reading' \/ Stored(e)' \/ Relies(e)'
    PROVE  ListedInv'
<1>1. \A f \in Feeds : Listed(f)' = Listed(f)
  BY DEF Listed
<1>2. \A e \in Entries : Relies(e) => Relies(e)'
  BY DEF Relies
<1>3. \A f \in Feeds : Listed(f) \subseteq Entries
  BY DEF Listed
<1> QED
  BY <1>1, <1>2, <1>3 DEF ListedInv, Relies

LEMMA FetchListed ==
    ASSUME StoreTypeOK, ListedInv, NEW f \in Feeds, FetchFeed(f), \A e \in Entries : Stored(e) => Stored(e)'
    PROVE  ListedInv'
<1> SUFFICES ASSUME NEW g \in Feeds, etag'[g] = version'[g], NEW e \in Listed(g)', e \notin excused'
             PROVE  Stored(e)' \/ e \in waiting' \cup reading' \/ Relies(e)'
  BY DEF ListedInv, Relies
<1>1. /\ version' = version /\ etag' = [etag EXCEPT ![f] = version[f]] /\ reading' = reading /\ seenIds' = seenIds
      /\ waiting' = waiting \cup Listed(f)
      /\ excused' = excused \ {d \in Listed(f) : {LinkOf[d], PageOf[LinkOf[d]]} \cap seenIds = {}}
  BY DEF FetchFeed, world
<1>2. e \in Listed(g) /\ e \in Entries
  BY <1>1 DEF Listed
<1>3. CASE g = f \/ e \in excused
  BY <1>1, <1>2, <1>3
<1>4. CASE g # f /\ e \notin excused
  <2>1. etag[g] = version[g]
    BY <1>1, <1>4 DEF StoreTypeOK
  <2>2. Stored(e) \/ e \in waiting \cup reading \/ Relies(e)
    BY <1>2, <1>4, <2>1 DEF ListedInv, Relies
  <2> QED
    BY <1>1, <1>2, <2>2 DEF Relies
<1> QED
  BY <1>3, <1>4

LEMMA PublishListed ==
    ASSUME StoreTypeOK, ListedInv, NEW f \in Feeds, Publish(f), \A e \in Entries : Stored(e) => Stored(e)'
    PROVE  ListedInv'
<1> SUFFICES ASSUME NEW g \in Feeds, etag'[g] = version'[g], NEW e \in Listed(g)', e \notin excused'
             PROVE  Stored(e)' \/ e \in waiting' \cup reading' \/ Relies(e)'
  BY DEF ListedInv, Relies
<1>1. /\ version' = [version EXCEPT ![f] = @ + 1] /\ etag' = etag
      /\ waiting' = waiting /\ reading' = reading /\ seenIds' = seenIds /\ excused' = excused
  BY DEF Publish, collector
<1>2. g # f
  <2>1. etag[f] <= version[f] /\ etag[f] \in Nat /\ version[f] \in Nat
    BY DEF StoreTypeOK
  <2>2. g = f => version'[g] = version[f] + 1
    BY <1>1 DEF StoreTypeOK
  <2> QED
    BY <1>1, <2>1, <2>2
<1>3. etag[g] = version[g] /\ e \in Listed(g) /\ e \in Entries
  BY <1>1, <1>2 DEF StoreTypeOK, Listed
<1>4. Stored(e) \/ e \in waiting \cup reading \/ Relies(e)
  BY <1>1, <1>3 DEF ListedInv, Relies
<1> QED
  BY <1>1, <1>3, <1>4 DEF Relies

LEMMA BeginListed ==
    ASSUME StoreTypeOK, ListedInv, NEW e \in Entries, Begin(e), \A d \in Entries : Stored(d) => Stored(d)'
    PROVE  ListedInv'
<1>1. /\ version' = version /\ etag' = etag /\ waiting' = waiting \ {e}
  BY DEF Begin, world
<1>2. /\ excused \subseteq excused' /\ seenIds \subseteq seenIds' /\ reading \subseteq reading'
      /\ TooOld(e) \/ KnownAs(e) # {} \/ LinkOf[e] \in seenIds' \/ LinkOf[e] \in Rows
  BY DEF Begin, SkipOnDisk
<1>3. Stored(e)' \/ Relies(e)'
  BY <1>2, OldStored, RowStored DEF Stored, Relies
<1> QED
  BY <1>1, <1>2, <1>3, ListsStay

LEMMA FinishListed ==
    ASSUME StoreTypeOK, ReservedInv, ListedInv, NEW e \in Entries, Finish(e),
           \A d \in Entries : Stored(d) => Stored(d)'
    PROVE  ListedInv'
<1>1. /\ version' = version /\ etag' = etag /\ waiting' = waiting /\ e \in reading /\ reading' = reading \ {e}
  BY DEF Finish, world
<1>2. excused \subseteq excused' /\ seenIds \subseteq seenIds'
  BY DEF Finish, SkipOnDisk
<1>3. Relies(e)'
  BY <1>1, <1>2 DEF ReservedInv, Relies
<1> QED
  BY <1>1, <1>2, <1>3, ListsStay

LEMMA EndListed ==
    ASSUME StoreTypeOK, StagesInv, OpInv, ReservedInv, ListedInv, EndCollect \/ Crash,
           \A d \in Entries : Stored(d) => Stored(d)'
    PROVE  ListedInv'
<1> SUFFICES ASSUME NEW f \in Feeds, etag'[f] = version'[f], NEW e \in Listed(f)', e \notin excused'
             PROVE  Stored(e)'
  BY DEF ListedInv
<1>1. version' = version /\ etag' = etag /\ excused \subseteq excused'
  BY DEF EndCollect, Crash, world
<1>2. e \in Listed(f) /\ e \in Entries /\ e \notin excused
  BY <1>1 DEF Listed
<1>3. Stored(e) \/ e \in waiting \cup reading \/ Relies(e)
  BY <1>1, <1>2 DEF ListedInv, Relies
<1>4. CASE EndCollect
  <2>1. waiting \cup reading = {} /\ op = None
    BY <1>4 DEF EndCollect, In
  <2> QED
    BY <1>2, <1>3, <2>1, ReliesOn, NoneAssumption
<1>5. CASE Crash
  <2> DEFINE B == IF stage = "collect" /\ op # None THEN {files[op.path].by} ELSE {}
  <2>1. \A d \in waiting \cup reading \cup B : PageOf[LinkOf[d]] # PageOf[LinkOf[e]]
    BY <1>2, <1>5 DEF Crash, SamePage
  <2>2. op \in Insertions => PageOf[op.url] # PageOf[LinkOf[e]]
    BY <2>1, NoneAssumption DEF OpInv
  <2> QED
    BY <1>2, <1>3, <2>1, <2>2, ReliesOn
<1> QED
  BY <1>4, <1>5

LEMMA ListedStep ==
    ASSUME StoreTypeOK, StagesInv, OpInv, ReservedInv, ListedInv, [LifeNext]_lifeVars
    PROVE  ListedInv'
<1>1. \A e \in Entries : Stored(e) => Stored(e)'
  BY RowsStay, TimeStep, StoredStays
<1>2. ASSUME version' = version, etag' = etag, excused \subseteq excused', UNCHANGED <<waiting, reading, seenIds>>
      PROVE  ListedInv'
  BY <1>1, <1>2, ListsStay
<1>3. CASE Insert \/ InsertFails \/ \E f \in Feeds : NoFeed(f)
  BY <1>2, <1>3 DEF Insert, InsertFails, NoFeed, world, collector
<1>4. CASE StartCollect
  <2>1. seenIds = {}
    BY <1>4 DEF StartCollect, Idle, StagesInv
  <2> QED
    BY <1>2, <1>4, <2>1 DEF StartCollect, world
<1>5. CASE Collecting
  BY <1>1, <1>3, <1>4, <1>5, FetchListed, BeginListed, FinishListed, EndListed DEF Collecting
<1>6. CASE Digesting
  BY <1>2, <1>6 DEF Digesting, StartDigest, Copy, Load, Answer, AnswerFails, Record, CopyDeferred, EndDigest,
                    collector, world
<1>7. CASE Aggregating
  BY <1>2, <1>7 DEF Aggregating, StartAggregate, StartForced, OpenWindow, AssignEvent, WindowFails,
                    CloseWindow, EndAggregate, collector, world
<1>8. CASE Maintaining
  BY <1>2, <1>8 DEF Maintaining, ApplyLifecycle, RestoreExpired, ExpireOld, ReconcileEvents, Compact,
                    collector, world
<1>9. CASE Tick \/ Raise \/ UNCHANGED lifeVars
  BY <1>2, <1>9 DEF Tick, Raise, lifeVars, collector, world
<1> QED
  BY <1>1, <1>5, <1>6, <1>7, <1>8, <1>9, PublishListed, EndListed DEF LifeNext, RunNext

--------------------------------------------------------------------------------
\* Windows: the floor of a time is a start, and its window holds the time.
LEMMA Products ==
    ASSUME NEW s \in Nat \ {0}, NEW a \in Int, NEW b \in Int, s * a < s * b + s
    PROVE  a <= b
<1> SUFFICES ASSUME b + 1 <= a
             PROVE  FALSE
  OBVIOUS
<1>1. PICK c \in Nat : a = b + 1 + c
  <2>1. a - b - 1 \in Nat /\ a = b + 1 + (a - b - 1)
    OBVIOUS
  <2> QED
    BY <2>1
<1>2. s * a = s * b + s + s * c
  BY <1>1
<1>3. s * c \in Nat
  OBVIOUS
<1> QED
  BY <1>2, <1>3

LEMMA Division ==
    ASSUME NEW s \in Nat \ {0}, NEW t \in Nat
    PROVE  /\ t \div s \in Nat /\ s * (t \div s) \in Nat
           /\ t = s * (t \div s) + (t % s) /\ t % s < s /\ t % s \in Nat
OBVIOUS

LEMMA Floors ==
    ASSUME NEW t \in Nat
    PROVE  /\ Floor(t) \in Nat /\ Floor(t) <= t /\ t < Floor(t) + StepSize
           /\ Floor(t) = StepSize * (t \div StepSize) /\ t \div StepSize \in Nat
<1> DEFINE p == StepSize * (t \div StepSize)
           r == t % StepSize
<1>1. StepSize \in Nat \ {0}
  OBVIOUS
<1>2. t \div StepSize \in Nat /\ p \in Nat /\ t = p + r /\ r < StepSize /\ r \in Nat
  BY <1>1, Division
<1>3. Floor(t) = t - r
  BY DEF Floor
<1> HIDE DEF p, r
<1>4. Floor(t) = p
  BY <1>2, <1>3
<1> QED
  BY <1>1, <1>2, <1>4 DEF p

LEMMA FloorOrder ==
    ASSUME NEW t \in Nat, NEW v \in Nat, t <= v
    PROVE  Floor(t) <= Floor(v) /\ t \div StepSize <= v \div StepSize
<1> DEFINE a == t \div StepSize
           b == v \div StepSize
<1>1. a \in Nat /\ b \in Nat /\ Floor(t) = StepSize * a /\ Floor(v) = StepSize * b
  <2>1. a \in Nat /\ Floor(t) = StepSize * a
    BY Floors
  <2>2. b \in Nat /\ Floor(v) = StepSize * b
    BY Floors
  <2> HIDE DEF a, b
  <2> QED
    BY <2>1, <2>2
<1> HIDE DEF a, b
<1>2. StepSize * a < StepSize * b + StepSize
  <2>1. Floor(t) \in Nat /\ Floor(t) <= t /\ Floor(v) \in Nat /\ v < Floor(v) + StepSize
    BY Floors
  <2>2. Floor(t) < Floor(v) + StepSize
    BY <2>1
  <2> QED
    BY <1>1, <2>2
<1>3. a <= b
  BY <1>1, <1>2, Products
<1>4. PICK c \in Nat : b = a + c
  <2>1. b - a \in Nat /\ b = a + (b - a)
    BY <1>1, <1>3
  <2> QED
    BY <2>1
<1>5. StepSize * b = StepSize * a + StepSize * c /\ StepSize * c \in Nat /\ StepSize * a \in Nat
  BY <1>1, <1>4
<1> QED
  BY <1>1, <1>3, <1>5 DEF a, b

LEMMA FloorStarts == \A t \in 0 .. MaxNow : Floor(t) \in Starts /\ t \in Window(Floor(t))
<1> SUFFICES ASSUME NEW t \in 0 .. MaxNow
             PROVE  Floor(t) \in Starts /\ t \in Window(Floor(t))
  OBVIOUS
<1>1. t \in Nat /\ t <= MaxNow /\ MaxNow \in Nat
  OBVIOUS
<1>2. t \div StepSize \in 0 .. MaxNow \div StepSize
  <2>1. t \div StepSize \in Nat /\ MaxNow \div StepSize \in Nat
    BY <1>1, Floors
  <2>2. t \div StepSize <= MaxNow \div StepSize
    BY <1>1, FloorOrder
  <2> QED
    BY <2>1, <2>2
<1>3. Floor(t) = StepSize * (t \div StepSize) /\ Floor(t) \in Nat /\ Floor(t) <= t /\ t < Floor(t) + StepSize
  BY <1>1, Floors
<1>4. Floor(t) \in Starts
  BY <1>2, <1>3 DEF Starts
<1> HIDE DEF Floor
<1>5. t \in Window(Floor(t))
  BY <1>1, <1>3 DEF Window
<1> QED
  BY <1>4, <1>5

LEMMA MidnightType == StoreTypeOK => \A d \in {Retention, Retention + 1} : Midnight(d) \in Nat
<1> SUFFICES ASSUME StoreTypeOK, NEW d \in {Retention, Retention + 1}
             PROVE  Midnight(d) \in Nat
  OBVIOUS
<1>1. now \in Nat /\ d \in Nat
  BY DEF StoreTypeOK
<1>2. now \div 2 \in Nat
  BY <1>1, Halves
<1> QED
  BY <1>1, <1>2 DEF Midnight

\* The bounds of a set of articles hold each that is within the retention.
LEMMA BoundsHold ==
    ASSUME StoreTypeOK, NEW U \in SUBSET Rows, NEW u \in U, rows[u].at >= Midnight(days)
    PROVE  LET at == rows[u].at
               b  == Bounds(U)
           IN  b.first <= Floor(at) /\ Floor(at) < b.last /\ b.first <= at /\ at < b.last
<1> DEFINE A == {rows[v].at : v \in U}
           m == Min(A)
           M == Max(A)
           at == rows[u].at
           first == Max({m, Midnight(days)})
<1> RowsType
  BY DEF StoreTypeOK, RowsType
<1>1. A \subseteq 0 .. MaxNow /\ at \in A
  BY RowValues, RowFields
<1>2. Midnight(days) \in Nat /\ Midnight(days) <= at
  <2>1. Midnight(days) \in Nat
    BY MidnightType DEF StoreTypeOK
  <2> QED
    BY <1>1, <2>1
<1>3. Bounds(U).first = Floor(first) /\ Bounds(U).last = Floor(M) + StepSize
  BY DEF Bounds
<1> HIDE DEF A, at
<1>4. m \in Nat /\ m <= at /\ M \in Nat /\ at <= M /\ at \in Nat
  <2>1. A \in SUBSET Nat /\ A \in SUBSET (0 .. MaxNow) /\ A # {} /\ MaxNow \in Nat
    BY <1>1
  <2> QED
    BY <1>1, <2>1, MinOf, MaxOf
<1> HIDE DEF m, M
<1>5. first \in Nat /\ first <= at
  <2> DEFINE S == {m, Midnight(days)}
  <2>1. S \in SUBSET (0 .. at) /\ S # {}
    BY <1>2, <1>4
  <2> HIDE DEF S
  <2>2. Max(S) \in S
    BY <1>4, <2>1, MaxOf
  <2> QED
    BY <1>4, <2>1, <2>2 DEF S
<1> HIDE DEF first
<1>6. Floor(first) <= Floor(at) /\ Floor(at) <= Floor(M)
  BY <1>4, <1>5, FloorOrder
<1>7. /\ Floor(first) \in Nat /\ Floor(first) <= first
      /\ Floor(M) \in Nat /\ M < Floor(M) + StepSize /\ Floor(at) \in Nat
  BY <1>4, <1>5, Floors
<1>8. /\ Floor(first) <= Floor(at) /\ Floor(at) < Floor(M) + StepSize
      /\ Floor(first) <= at /\ at < Floor(M) + StepSize
  BY <1>4, <1>5, <1>6, <1>7
<1> QED
  BY <1>3, <1>8 DEF at

LEMMA CoversStep ==
    ASSUME StoreTypeOK, [LifeNext]_lifeVars, stage = "idle", stage' = "aggregate",
           NEW u \in Open, rows[u].digest = "completed", rows[u].at >= Midnight(days)
    PROVE  \E w \in plan' : rows[u].at \in Window(w)
<1> DEFINE at == rows[u].at
           w == Floor(at)
<1>1. u \in Rows /\ at \in 0 .. MaxNow
  BY RowValues, RowFields DEF StoreTypeOK, RowsType, Open
<1>2. w \in Starts /\ at \in Window(w)
  BY <1>1, FloorStarts
<1>3. ASSUME NEW U \in SUBSET Rows, u \in U
      PROVE  Bounds(U).first <= w /\ w < Bounds(U).last /\ Bounds(U).first <= at /\ at < Bounds(U).last
  BY <1>3, BoundsHold
<1>4. CASE StartAggregate
  <2>1. plan' = Planned(Bounds(Open).first, Bounds(Open).last, FALSE)
    BY <1>4 DEF StartAggregate
  <2>2. Bounds(Open).first <= w /\ w < Bounds(Open).last /\ Bounds(Open).first <= at /\ at < Bounds(Open).last
    <3>1. Open \in SUBSET Rows
      BY DEF Open
    <3> QED
      BY <1>3, <3>1
  <2>3. \A latest : ~ Skip(w, latest)
    BY <1>2 DEF Skip, InWindow
  <2> HIDE DEF w
  <2>4. w \in {Floor(rows[v].at) : v \in {x \in Open : /\ Bounds(Open).first <= rows[x].at
                                                       /\ rows[x].at < Bounds(Open).last}}
    BY <2>2 DEF w
  <2>5. w \in plan'
    BY <1>2, <2>1, <2>2, <2>3, <2>4 DEF Planned
  <2> QED
    BY <1>2, <2>5
<1>5. CASE StartForced
  <2> DEFINE D == {v \in Rows : rows[v].digest = "completed" /\ rows[v].at >= Midnight(days)}
  <2>1. plan' = Planned(Bounds(D).first, Bounds(D).last, TRUE)
    BY <1>5 DEF StartForced
  <2>2. D \in SUBSET Rows /\ u \in D
    BY <1>1
  <2> HIDE DEF D
  <2>3. Bounds(D).first <= w /\ w < Bounds(D).last
    BY <1>3, <2>2
  <2> HIDE DEF w
  <2>4. w \in plan'
    BY <1>2, <2>1, <2>3 DEF Planned
  <2> QED
    BY <1>2, <2>4
<1>6. ~ (Collecting \/ Digesting \/ Maintaining)
  BY DEF Collecting, StartCollect, FetchFeed, NoFeed, Begin, Finish, Insert, InsertFails, EndCollect,
         Digesting, StartDigest, Copy, Load, Answer, AnswerFails, Record, CopyDeferred, EndDigest,
         Maintaining, ApplyLifecycle, RestoreExpired, ExpireOld, ReconcileEvents, Compact, Step, In, Leave
<1>7. ~ (OpenWindow \/ AssignEvent \/ WindowFails \/ CloseWindow \/ EndAggregate)
  BY DEF OpenWindow, AssignEvent, WindowFails, CloseWindow, EndAggregate, InsideWindow, In, Leave
<1>8. ~ (Tick \/ Raise \/ Crash \/ (\E f \in Feeds : Publish(f)) \/ UNCHANGED lifeVars)
  BY DEF Tick, Raise, Crash, Publish, lifeVars
<1> QED
  BY <1>4, <1>5, <1>6, <1>7, <1>8 DEF LifeNext, RunNext, Aggregating

--------------------------------------------------------------------------------
LEMMA LifeInitInv == LifeInit => LifeInv
<1> SUFFICES ASSUME LifeInit
             PROVE  LifeInv
  OBVIOUS
<1> USE DEF LifeInit
<1>1. Rows = {} /\ \A u \in Urls, d \in Days : files[<<u, d>>] = None
  BY DEF Rows, Paths
<1>2. StoreTypeOK
  BY DEF StoreTypeOK, Stages
<1>3. StagesInv /\ FilesInv
  BY <1>1 DEF StagesInv, FilesInv
<1>4. OpInv
  BY NoneAssumption DEF OpInv
<1>5. ReservedInv
  BY DEF ReservedInv
<1>6. ListedInv
  <2>1. \A f \in Feeds : etag[f] # version[f]
    OBVIOUS
  <2> QED
    BY <2>1 DEF ListedInv
<1>7. EventsLinked /\ OneCallPerText /\ TextKept
  BY <1>1 DEF EventsLinked, OneCallPerText, TextKept
<1> QED
  BY <1>2, <1>3, <1>4, <1>5, <1>6, <1>7 DEF LifeInv

LEMMA LifeNextInv == LifeInv /\ [LifeNext]_lifeVars => LifeInv'
<1> SUFFICES ASSUME LifeInv, [LifeNext]_lifeVars
             PROVE  LifeInv'
  OBVIOUS
<1> USE DEF LifeInv
<1>1. StoreTypeOK'
  BY TypeStep
<1>2. StagesInv' /\ OpInv' /\ FilesInv'
  BY StagesStep, OpStep, FilesStay DEF FilesKept
<1>3. ReservedInv' /\ ListedInv'
  BY ReservedStep, ListedStep
<1>4. EventsLinked' /\ OneCallPerText' /\ TextKept'
  BY LinksStep, CallStep, TextStep
<1> QED
  BY <1>1, <1>2, <1>3, <1>4

\* What each stage has in hand, what a file without its row may be, what every
\* reserved id stands for, and where every listed entry is: collect_once,
\* digest_once, aggregate_once and maintenance_once keep this together.
THEOREM LifeInvariant == LifeSpec => []LifeInv
BY LifeInitInv, LifeNextInv, PTL DEF LifeSpec

\* The rows, files, events and stages are what the program writes: none of its
\* steps, crashes and failures leaves a value that it does not expect.
THEOREM LifeTypeCorrect == LifeSpec => []StoreTypeOK
<1>1. LifeInv => StoreTypeOK
  BY DEF LifeInv
<1> QED
  BY <1>1, LifeInvariant, PTL

\* No row refers to an event that is gone, and an article is assigned when it
\* has an event: assign_article_to_event, the forced reset and reconcile_events.
THEOREM LinksHold == LifeSpec => []EventsLinked
<1>1. LifeInv => EventsLinked
  BY DEF LifeInv
<1> QED
  BY <1>1, LifeInvariant, PTL

\* An article within the retention has its file, with its text: the order of
\* file and row in _collect_entry, cleanup_old_staging_data before a collection,
\* and what _compact_old_article_json may strip.
THEOREM TextStays == LifeSpec => []TextKept
<1>1. LifeInv => TextKept
  BY DEF LifeInv
<1> QED
  BY <1>1, LifeInvariant, PTL

\* digest_articles_for_aggregation asks the model for a text once in a stage,
\* however many articles have it and whichever of them is looked at first.
THEOREM OneCall == LifeSpec => []OneCallPerText
<1>1. LifeInv => OneCallPerText
  BY DEF LifeInv
<1> QED
  BY <1>1, LifeInvariant, PTL

\* Between the runs, every entry of a feed whose validator is current has its
\* article, unless a task of its page failed or was cut off: the ids that the
\* tasks of _collect_entry reserve hide no entry without an article behind them.
THEOREM ListedAreStored == LifeSpec => []ListedMeansStored
<1>1. LifeInv => ListedMeansStored
  BY DEF LifeInv, StagesInv, ListedInv, ListedMeansStored
<1> QED
  BY <1>1, LifeInvariant, PTL

\* plan_sliding_windows gives a run a window for every digested article that
\* waits for an event within the retention.
THEOREM PlansCover == LifeSpec => PlanCovers
<1>1. LifeInv /\ [LifeNext]_lifeVars =>
        [stage = "idle" /\ stage' = "aggregate" =>
           \A u \in Open : rows[u].digest = "completed" /\ rows[u].at >= Midnight(days) =>
              \E w \in plan' : rows[u].at \in Window(w)]_lifeVars
  BY CoversStep DEF LifeInv
<1> QED
  BY <1>1, LifeInvariant, PTL DEF LifeSpec, PlanCovers
===============================================================================
