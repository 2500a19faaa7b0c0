------------------------------ MODULE ClaudeRoute ------------------------------
(***************************************************************************)
(* pipeline/claude.py: a call with a role goes to Claude once, unless the  *)
(* circuit of the key is open, and to the Gemini chain if that fails.      *)
(* The circuit is shared by all clients of the process.                    *)
(***************************************************************************)
EXTENDS GeminiChain

CONSTANTS ClaudeTimeout, ClaudeCooldown, AccountCooldown,
          RetryAfters \* what a Retry-After header may ask for

ASSUME ClaudeRouteAssumption ==
    {ClaudeTimeout, ClaudeCooldown, AccountCooldown} \cup RetryAfters \subseteq Nat

VARIABLES
    circuit,       \* until when calls find the circuit open
    claudeAsked,   \* history: the longest delay a failure has asked for
    claudeExcused  \* history: the threads past the check when that delay began

claude == <<circuit, claudeAsked, claudeExcused>>

\* Circuit.available, under the lock of the circuit.
CheckCircuit(w) ==
    /\ At(w, "claude")
    /\ Goto(w, [Idle EXCEPT !.at = IF circuit = 0 THEN "claudeReady" ELSE "chain"])
    /\ UNCHANGED <<cool, flex, claude>>

\* The request, without it: the circuit may have been opened meanwhile.
SendClaude(w) ==
    /\ At(w, "claudeReady")
    /\ Goto(w, [Idle EXCEPT !.at = "claudeSent", !.wake = ClaudeTimeout])
    /\ claudeExcused' = claudeExcused \ {w}
    /\ UNCHANGED <<cool, flex, circuit, claudeAsked>>

ClaudeAnswers(w) == At(w, "claudeSent") /\ End(w) /\ UNCHANGED <<cool, flex, claude>>

Replaced(until, delay) == delay \* mutant: the last failure decides
Later(until, delay) == Max2(until, delay)

\* An answer that is no good opens the circuit like an error.
ClaudeFails(w) ==
    /\ At(w, "claudeSent")
    /\ \E base \in {ClaudeCooldown, AccountCooldown}, hint \in RetryAfters :
         /\ circuit' = Later(circuit, Max2(base, hint))
         /\ claudeAsked' = Max2(claudeAsked, Max2(base, hint))
    /\ claudeExcused' = IF claudeAsked = 0 THEN {v \in Workers : At(v, "claudeReady")} ELSE claudeExcused
    /\ Goto(w, [Idle EXCEPT !.at = "chain"])
    /\ UNCHANGED <<cool, flex>>

Claudes(w) == CheckCircuit(w) \/ SendClaude(w) \/ ClaudeAnswers(w) \/ ClaudeFails(w)
ClaudeElapse == circuit' = Less(circuit) /\ claudeAsked' = Less(claudeAsked) /\ UNCHANGED claudeExcused
ClaudeInit == circuit = 0 /\ claudeAsked = 0 /\ claudeExcused = {}
================================================================================
