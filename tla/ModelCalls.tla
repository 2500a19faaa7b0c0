------------------------------- MODULE ModelCalls ------------------------------
(***************************************************************************)
(* The calls of one stage's worker threads to the paid models.  A stage    *)
(* uses one of two routes: roles go through Claude (pipeline/claude.py),   *)
(* duplicate pairs through Jev (pipeline/jev.py); both fall back to a      *)
(* Gemini chain (pipeline/llm.py).  The free models that may come first    *)
(* are in FreeAdmission.                                                   *)
(***************************************************************************)
EXTENDS ClaudeRoute, JevRoute

VARIABLE route \* the route of the stage

vars == <<chain, claude, jev, route>>

Sent == {"claudeSent", "jevSent", "flexSent", "sent"}
Waits == Sent \cup {"paced", "nap", "backoff"}
Moves == {"claude", "claudeReady", "jev", "jevReady", "chain", "flex", "standard"}

TypeOK ==
    /\ \A w \in Workers :
         /\ call[w].at \in {"idle"} \cup Waits \cup Moves
         /\ call[w].i \in 0 .. Max2(Len(Flex), Len(Standard)) + 1
         /\ call[w].left \in 0 .. FlexWindow /\ call[w].wake \in Nat /\ call[w].tries \in 0 .. MaxAttempts
         /\ call[w].empty \cup avoid[w] \subseteq Labels
    /\ cooling \in [Labels -> Nat] /\ flexAge \in 0 .. FlexWindow \cup {None}
    /\ claudeExcused \cup jevExcused \subseteq Workers
    /\ circuit \in Nat /\ nextRequest \in Nat /\ jevCooling \in Nat
    \* every slot of Jev is free or held by a call
    /\ free = Slots - Cardinality({w \in Workers : call[w].at \in {"paced", "jevReady", "jevSent"}})

Init == ChainInit /\ ClaudeInit /\ JevInit /\ route \in {"claude", "jev"}

Start(w) == At(w, "idle") /\ Goto(w, [Idle EXCEPT !.at = route]) /\ UNCHANGED <<cool, flex>>

Advance(w) ==
    /\ \/ Chained(w) /\ UNCHANGED <<claude, jev>>
       \/ Claudes(w) /\ UNCHANGED jev
       \/ Jevs(w) /\ UNCHANGED claude
    /\ UNCHANGED route

\* Time passes while every call waits: for an answer that may come, for its
\* turn or for a slot.  What a thread does between two waits takes no time.
Elapse ==
    /\ \A w \in Workers :
         \/ At(w, "idle")
         \/ call[w].at \in Waits /\ call[w].wake > 0
         \/ At(w, "jev") /\ free = 0
    /\ ChainElapse /\ ClaudeElapse /\ JevElapse
    /\ UNCHANGED route

Next ==
    \/ Elapse
    \/ \E w \in Workers : Advance(w) \/ (Start(w) /\ UNCHANGED <<claude, jev, route>>)

\* Time goes on, however fast the answers come; sleeps end and requests time
\* out.  A stage has finitely many pairs, so no thread is passed over for ever
\* when a slot is free.
Spec ==
    /\ Init /\ [][Next]_vars
    /\ SF_vars(Elapse) /\ \A w \in Workers : SF_vars(Advance(w))

--------------------------------------------------------------------------------
\* While Flex does not work, no call waits for it past the window that the
\* first of the calls opened, whenever it joins and whatever the others do:
\* neither asleep nor for an answer, except for a single probe.
OutageWaitedOnce ==
    \A w \in Workers :
        LET c == call[w]
        IN  c.at \in {"nap", "flexSent"} /\ ~ c.probe /\ outage # None =>
                c.wake <= Max2(1, FlexWindow - outage)

\* No request goes to Claude, and none to Jev, before the longest delay that any
\* failure has asked for, except from a thread that had passed its last check
\* of the delay when the first of those failures came, and from it one: other
\* threads, whose requests were on their way or that were waiting for their
\* turn, neither shorten a delay nor miss it.
DelaysHonoured ==
    [][\A w \in Workers :
         /\ call'[w].at = "claudeSent" /\ ~ At(w, "claudeSent") => claudeAsked = 0 \/ w \in claudeExcused
         /\ call'[w].at = "jevSent" /\ ~ At(w, "jevSent") => jevAsked = 0 \/ w \in jevExcused]_vars

\* Two requests to Jev are an interval apart, whichever threads send them.
JevPaced == [][\A w \in Workers : call'[w].at = "jevSent" /\ ~ At(w, "jevSent") => jevSpaced = 0]_vars

\* Every call ends, whatever the models answer.
CallsEnd == \A w \in Workers : ~ At(w, "idle") ~> At(w, "idle")
================================================================================
