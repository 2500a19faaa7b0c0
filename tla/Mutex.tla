-------------------------------- MODULE Mutex --------------------------------
(***************************************************************************)
(* What data/state/pipeline.lock promises (docs/design.md, "Concurrency    *)
(* Control"): at most one process at a time runs the part of the pipeline  *)
(* that the lock covers.  How a process gets in, and why it gets out       *)
(* (release, crash, watchdog, reboot), is left to the implementation.      *)
(***************************************************************************)
CONSTANT Procs

VARIABLE inside     \* the processes running under the lock

Init == inside = {}

Enter(p) ==
    /\ inside = {}
    /\ inside' = {p}

\* A reboot may take several processes out at once.
Leave(S) ==
    /\ S # {}
    /\ inside' = inside \ S

Next ==
    \/ \E p \in Procs : Enter(p)
    \/ \E S \in SUBSET Procs : Leave(S)

Spec == Init /\ [][Next]_inside
=============================================================================
