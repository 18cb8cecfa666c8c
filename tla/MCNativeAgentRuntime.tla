------------------------- MODULE MCNativeAgentRuntime -------------------------
(* Model-checking instances of NativeAgentRuntime.                           *)
EXTENDS NativeAgentRuntime, TLC

CONSTANTS a1, a2, r1, r2, d1, d2, o1, o2, x1, x2

\* Identities of runs, callers and roots are random ids and paths: no action
\* tells one from another.  Used by the runs that check safety only.
Symmetry ==
    Permutations(AgentRuns) \cup Permutations(Dispatchers)
        \cup Permutations(Roots) \cup Permutations(AutomationRuns)
        \cup Permutations(Operators)

AllowOnly == {"allow"}
EveryVerdict == AllVerdicts
WithoutAsk == AllVerdicts \ {"ask"}
AskOnly == {"ask"}
AskOrAllow == {"ask", "allow"}
=============================================================================
