---------------------------- MODULE PipelineLockMC ----------------------------
(* Small instances of PipelineLock for TLC. *)
EXTENDS PipelineLock, TLC

CONSTANTS p1, p2, p3, p4, h1, h2

\* Commands of one host.  p3 can have p1's pid and start ticks after a reboot,
\* p4 its pid as soon as p1 has exited.  p3 is the brief.
FourProcs == {p1, p2, p3, p4}
OneHost == {h1}
FourOnOneHost == [p \in FourProcs |-> h1]
FourPids == (p1 :> 1) @@ (p2 :> 2) @@ (p3 :> 1) @@ (p4 :> 1)
FourTicks == (p1 :> 1) @@ (p2 :> 1) @@ (p3 :> 1) @@ (p4 :> 2)
BriefOnly == {p3}

\* p4 runs on a second host that shares the directory.
TwoHosts == {h1, h2}
FourOnTwoHosts == [p \in FourProcs |-> IF p = p4 THEN h2 ELSE h1]
=============================================================================
