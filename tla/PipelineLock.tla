----------------------------- MODULE PipelineLock -----------------------------
(***************************************************************************)
(* pipeline/lock.py: the lock file data/state/pipeline.lock that every     *)
(* stage command, the combined run and the brief take for their duration.  *)
(*                                                                         *)
(* A process is one operating-system process that runs one such command,   *)
(* so it acquires the lock at most once in its life.  acquire() is split   *)
(* at every system call another process can observe or disturb: exclusive  *)
(* creation, the later write of the payload, the reading of somebody       *)
(* else's file, the liveness decision, the watchdog's check, each of its   *)
(* signals and the polls after it, the unlink.                             *)
(*                                                                         *)
(* The file is named by the process that created it: a creator keeps its   *)
(* descriptor, so a payload written after the file was unlinked goes to    *)
(* the unlinked inode and never into a successor's file.                   *)
(***************************************************************************)
EXTENDS Naturals

CONSTANTS
    Procs,      \* processes that may ever ask for the lock
    Hosts,      \* hosts that share the state directory
    HostOf,     \* the host of each process
    PidOf,      \* the pid of each process, free again when it has exited
    TicksOf,    \* its start time in ticks since the boot: no other process of
                \* the boot has both, one of the next boot may
    Patient,    \* processes whose timeout never passes (brief: 365 days)
    NoFile,     \* "there is no lock file"
    MaxBoot     \* bound: number of boots of each host

ASSUME LockAssumption ==
    /\ HostOf \in [Procs -> Hosts]
    /\ Patient \subseteq Procs
    /\ NoFile \notin Procs
    /\ MaxBoot \in Nat

VARIABLES
    pc,         \* where each process is
    file,       \* creator of the file now at LOCK_PATH, or NoFile
    written,    \* creators whose payload has reached their file
    seen,       \* the payload each process read in _recover_or_raise or release
    old,        \* processes whose acquired_at is past the watchdog timeout
    boot,       \* current boot of each host
    bootOf,     \* boot in which each process was started, 0 before that
    fresh       \* history: processes started since each watchdog last looked
                \* at the process that it is about to signal

vars == <<pc, file, written, seen, old, boot, bootOf, fresh>>

Signalling == {"term", "kill"}
Watching   == {"terminate", "termPoll", "killPoll"} \cup Signalling
Acquiring  == {"create", "write", "recover", "decide", "unlink"} \cup Watching
Holding    == {"held", "release"}
Phases    == {"idle", "check", "done", "dead"} \cup Acquiring \cup Holding

\* Only complete payloads are ever parsed: no process decides anything from
\* the empty file that exclusive creation leaves before the payload is written.
TypeOK ==
    /\ pc \in [Procs -> Phases]
    /\ file \in Procs \cup {NoFile}
    /\ written \subseteq Procs
    /\ seen \in [Procs -> written \cup {NoFile}]
    /\ old \subseteq Procs
    /\ boot \in [Hosts -> Nat \ {0}]
    /\ bootOf \in [Procs -> Nat]
    /\ fresh \in [Procs -> SUBSET Procs]

Init ==
    /\ pc = [p \in Procs |-> "idle"]
    /\ file = NoFile
    /\ written = {}
    /\ seen = [p \in Procs |-> NoFile]
    /\ old = {}
    /\ boot = [h \in Hosts |-> 1]
    /\ bootOf = [p \in Procs |-> 0]
    /\ fresh = [p \in Procs |-> {}]

Running(p) == pc[p] \notin {"idle", "dead"}

-----------------------------------------------------------------------------
(* The checks of _recover_or_raise, made by p on the payload q wrote.      *)

AnyHost(p, q) == TRUE
SameHost(p, q) == HostOf[q] = HostOf[p]

AnyBoot(p, q) == TRUE
SameBoot(p, q) == bootOf[q] = boot[HostOf[p]]

\* r runs on p's host under the recorded pid: it is whom os.kill reaches.
HasPid(p, q, r) == Running(r) /\ HostOf[r] = HostOf[p] /\ PidOf[r] = PidOf[q]

\* ... and has the recorded start ticks.
AnyTicks(p, q, r) == HasPid(p, q, r)
Matches(p, q, r) == HasPid(p, q, r) /\ TicksOf[r] = TicksOf[q]
SameProcess(p, q) == \E r \in Procs : Matches(p, q, r)

Expired(p, q) == q \in old /\ p \notin Patient

-----------------------------------------------------------------------------
Goto(p, phase) == pc' = [pc EXCEPT ![p] = phase]

\* Cron or an operator starts a command: it looks at the lock first, or goes
\* straight to acquire().
Start(p, first) ==
    /\ pc[p] = "idle"
    /\ \A r \in Procs : HostOf[r] = HostOf[p] /\ PidOf[r] = PidOf[p] =>
          /\ ~Running(r)
          /\ TicksOf[r] = TicksOf[p] => bootOf[r] # boot[HostOf[p]]
    /\ bootOf' = [bootOf EXCEPT ![p] = boot[HostOf[p]]]
    /\ Goto(p, first)
    /\ fresh' = [w \in Procs |-> IF pc[w] \in Signalling THEN fresh[w] \cup {p} ELSE fresh[w]]
    /\ UNCHANGED <<file, written, seen, old, boot>>

\* json.load succeeds on the file at LOCK_PATH.
Readable == file \in written

\* lock_holder: a readable payload of another host, or of a live process.
HolderReported(p) ==
    /\ Readable
    /\ ~SameHost(p, file) \/ (SameBoot(p, file) /\ SameProcess(p, file))

\* run-scheduled.sh and brief_once look first and give up on a live holder.
Preflight(p) ==
    /\ pc[p] = "check"
    /\ Goto(p, IF HolderReported(p) THEN "done" ELSE "create")
    /\ UNCHANGED <<file, written, seen, old, boot, bootOf, fresh>>

\* os.open(O_CREAT | O_EXCL): the file exists from here on, still empty.
Create(p) ==
    /\ pc[p] = "create"
    /\ IF file = NoFile
          THEN file' = p /\ Goto(p, "write")
          ELSE Goto(p, "recover") /\ UNCHANGED file
    /\ UNCHANGED <<written, seen, old, boot, bootOf, fresh>>

WritePayload(p) ==
    /\ pc[p] = "write"
    /\ written' = written \cup {p}
    /\ Goto(p, "held")
    /\ UNCHANGED <<file, seen, old, boot, bootOf, fresh>>

\* A missing file and one without a payload are both unlinked without a look
\* at who created it.
Recover(p) ==
    /\ pc[p] = "recover"
    /\ IF Readable
          THEN seen' = [seen EXCEPT ![p] = file] /\ Goto(p, "decide")
          ELSE Goto(p, "unlink") /\ UNCHANGED seen
    /\ UNCHANGED <<file, written, old, boot, bootOf, fresh>>

RetryWithoutUnlink(p, q) ==
    IF SameHost(p, q) /\ ~(SameBoot(p, q) /\ SameProcess(p, q)) THEN "create" ELSE "done"
BreakWithoutKill(p, q) ==
    IF SameHost(p, q) /\ Expired(p, q) THEN "unlink" ELSE "done"
\* Where _recover_or_raise goes for the payload of q; "done" is LockError.
Verdict(p, q) ==
    IF ~SameHost(p, q) THEN "done"
    ELSE IF SameBoot(p, q) /\ SameProcess(p, q)
            THEN IF Expired(p, q) THEN "terminate" ELSE "done"
            ELSE "unlink"

Decide(p) ==
    /\ pc[p] = "decide"
    /\ Goto(p, Verdict(p, seen[p]))
    /\ UNCHANGED <<file, written, seen, old, boot, bootOf, fresh>>

-----------------------------------------------------------------------------
(* _terminate_verified_process: two signals by pid, each after a check of   *)
(* the identity in a system call of its own.                               *)

\* A writer that is gone by now, or has p's own pid, makes acquire raise.
Verify(p) ==
    /\ pc[p] = "terminate"
    /\ Goto(p, IF \E r \in Procs \ {p} : Matches(p, seen[p], r) THEN "term" ELSE "done")
    /\ fresh' = [fresh EXCEPT ![p] = {}]
    /\ UNCHANGED <<file, written, seen, old, boot, bootOf>>

Polls(p) == IF pc[p] = "term" THEN "termPoll" ELSE "killPoll"

\* os.kill.  The signal ends the process that has the pid now, at once or in a
\* while; p may lack the permission, or find nobody (or a zombie).
Signal(p) ==
    /\ pc[p] \in Signalling
    /\ \/ \E r \in Procs \ {p} :
            /\ HasPid(p, seen[p], r)
            /\ \/ pc' = [pc EXCEPT ![p] = Polls(p), ![r] = "dead"]
               \/ Goto(p, Polls(p))
               \/ Goto(p, "done")
       \/ /\ ~ \E r \in Procs : HasPid(p, seen[p], r)
          /\ Goto(p, "unlink")
    /\ UNCHANGED <<file, written, seen, old, boot, bootOf, fresh>>

\* The poll that ends the wait: the first to miss the process, or the last of
\* twenty, after which SIGKILL is sent, or acquire raises.  The polls before it
\* change nothing.
PollExit(p) ==
    /\ pc[p] \in {"termPoll", "killPoll"}
    /\ Goto(p, IF ~SameProcess(p, seen[p]) THEN "unlink"
               ELSE IF pc[p] = "termPoll" THEN "kill" ELSE "done")
    /\ fresh' = [fresh EXCEPT ![p] = {}]
    /\ UNCHANGED <<file, written, seen, old, boot, bootOf>>

-----------------------------------------------------------------------------
Unlink(p) ==
    /\ pc[p] = "unlink"
    /\ file' = NoFile
    /\ Goto(p, "create")
    /\ UNCHANGED <<written, seen, old, boot, bootOf, fresh>>

-----------------------------------------------------------------------------
(* release() reads the file, and in a later step unlinks the path if what  *)
(* it read was its own payload.  An unreadable payload raises out of it.   *)

OwnLock(p) == file = p /\ p \in written

ReleaseRead(p) ==
    /\ pc[p] = "held"
    /\ Goto(p, IF OwnLock(p) THEN "release" ELSE "done")
    /\ UNCHANGED <<file, written, seen, old, boot, bootOf, fresh>>

ReleaseUnlink(p) ==
    /\ pc[p] = "release"
    /\ file' = NoFile
    /\ Goto(p, "done")
    /\ UNCHANGED <<written, seen, old, boot, bootOf, fresh>>

-----------------------------------------------------------------------------
(* What the operating system and the clock do.                             *)

\* The process exits, is killed, or crashes; its lock file stays.
Die(p) ==
    /\ Running(p)
    /\ Goto(p, "dead")
    /\ UNCHANGED <<file, written, seen, old, boot, bootOf, fresh>>

Reboot(h) ==
    /\ boot[h] < MaxBoot
    /\ boot' = [boot EXCEPT ![h] = @ + 1]
    /\ pc' = [p \in Procs |-> IF HostOf[p] = h /\ Running(p) THEN "dead" ELSE pc[p]]
    /\ UNCHANGED <<file, written, seen, old, bootOf, fresh>>

\* The watchdog timeout passes since p computed acquired_at.
Age(p) ==
    /\ pc[p] # "idle"
    /\ old' = old \cup {p}
    /\ UNCHANGED <<pc, file, written, seen, boot, bootOf, fresh>>

-----------------------------------------------------------------------------
AcquireStep(p) ==
    \/ Create(p) \/ WritePayload(p) \/ Recover(p)
    \/ Decide(p) \/ Verify(p) \/ Signal(p) \/ PollExit(p) \/ Unlink(p)

ProcStep(p) ==
    \/ \E first \in {"check", "create"} : Start(p, first)
    \/ Preflight(p) \/ AcquireStep(p)
    \/ ReleaseRead(p) \/ ReleaseUnlink(p) \/ Die(p) \/ Age(p)

Next ==
    \/ \E p \in Procs : ProcStep(p)
    \/ \E h \in Hosts : Reboot(h)

\* Only code that acquire() runs without waiting for anybody is fair: the
\* kernel keeps scheduling a process until it dies.
Fairness == \A p \in Procs : WF_vars(AcquireStep(p))

Spec == Init /\ [][Next]_vars /\ Fairness

\* Acquisitions that do not overlap in time: the hourly schedule, and an
\* operator who does not start a command while another one is starting.
\* Holders, releases, deaths, reboots and the clock stay unconstrained.
OneAcquirer ==
    \A p, q \in Procs : pc[p] \in Acquiring /\ pc[q] \in Acquiring => p = q

SerialNext == Next /\ OneAcquirer'
SerialSpec == Init /\ [][SerialNext]_vars

-----------------------------------------------------------------------------
(* Properties.                                                             *)

Alive(p) == pc[p] # "dead"

\* docs/design.md, "Concurrency Control": "Only one pipeline run may execute
\* at a time".  Holds when acquisitions do not overlap; two acquirers that
\* meet at an empty or a stale file can both get in.
MutualExclusion ==
    \A p, q \in Procs : pc[p] \in Holding /\ pc[q] \in Holding => p = q

\* docs/design.md, "Concurrency Control": "terminate only that verified
\* process".  Fails: the process may exit, and its pid be given to another one,
\* between the check and the signal.
NeverKillsBystander ==
    [][\A p, q \in Procs :
        pc[p] \in Signalling /\ pc'[p] = Polls(p) /\ Alive(q) /\ ~Alive(q)' => q = seen[p]]_vars

\* What the checks do achieve: whoever a signal of the watchdog ends is the
\* process that wrote the lock it judged, after its timeout, or one that was
\* given the pid of that process, which has exited, since the watchdog last
\* looked.  A pid and start time that a process of an earlier boot left in the
\* file, a second recoverer, a release or an exit during the polls redirect no
\* signal to anybody else (_terminate_verified_process, _pid_is_same_process).
KillsAsVerified ==
    [][\A p, q \in Procs :
        pc[p] \in Signalling /\ pc'[p] = Polls(p) /\ Alive(q) /\ ~Alive(q)' =>
            /\ q = seen[p] \/ (q \in fresh[p] /\ ~Alive(seen[p]))
            /\ seen[p] \in old /\ p \notin Patient]_vars

\* A recorded identity stands for one process: identities are unique within a
\* boot, live processes belong to the current boot and have pids of their own,
\* and whoever acts as the watchdog has checked host, boot and age of the lock
\* it read.  About to signal, it knows the holder of the pid, but for those
\* started since.
IdentityInv ==
    /\ \A p \in Procs : Running(p) => bootOf[p] = boot[HostOf[p]]
    /\ \A p \in Procs : bootOf[p] = 0 <=> pc[p] = "idle"
    /\ \A p, q \in Procs :
          /\ bootOf[p] # 0 /\ bootOf[q] = bootOf[p]
          /\ HostOf[p] = HostOf[q] /\ PidOf[p] = PidOf[q] /\ TicksOf[p] = TicksOf[q]
          => p = q
    /\ \A p, q \in Procs : Running(p) /\ HasPid(p, p, q) => p = q
    /\ \A p \in Procs : pc[p] \in {"decide"} \cup Watching => seen[p] \in Procs
    /\ \A p \in Procs : pc[p] \in Watching =>
          SameHost(p, seen[p]) /\ SameBoot(p, seen[p]) /\ Expired(p, seen[p])
    /\ \A p, r \in Procs :
          pc[p] \in Signalling /\ HasPid(p, seen[p], r) => r = seen[p] \/ r \in fresh[p]

\* Why mutual exclusion holds while acquisitions do not overlap: a holder's
\* payload stays in the file, whoever judges a lock judges the present
\* holder's, and nobody is about to unlink a lock that is held.
HoldInv ==
    /\ OneAcquirer
    /\ \A p \in Procs : pc[p] \in Holding \cup {"write"} => file = p
    /\ \A p \in Procs : pc[p] \in Holding => p \in written
    /\ \A p, q \in Procs :
          pc[p] \in {"decide"} \cup Watching /\ pc[q] \in Holding => seen[p] = q
    /\ \A p, q \in Procs : pc[p] = "unlink" => pc[q] \notin Holding

\* release() never unlinks a lock file somebody else created, although it
\* reads the file in one step and unlinks the path in a later one.
ReleaseRemovesOwn ==
    [][\A p \in Procs : pc[p] = "release" /\ pc'[p] = "done" => file = p]_vars

\* Every acquire() ends: no crash, half-written file, reboot or expired
\* holder leaves a file behind on which the retry loop spins for ever.
AcquireEnds ==
    \A p \in Procs : pc[p] \in Acquiring ~> pc[p] \notin Acquiring

\* The lock file implements the abstract mutex when acquisitions do not
\* overlap: holders are the processes inside.
Holders == {p \in Procs : pc[p] \in Holding}
Abstract == INSTANCE Mutex WITH inside <- Holders
ImplementsMutex == Abstract!Spec

=============================================================================
