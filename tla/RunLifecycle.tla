---------------------------- MODULE RunLifecycle ----------------------------
(***************************************************************************)
(* What the native agent promises to whoever queues automation work,       *)
(* without tables, dispatchers or approvals: every automation run is       *)
(* claimed at most once and for good, a run that is over stays over, only  *)
(* a run that is over is retried, and an automation run is reported ended  *)
(* only while the run that executes it is over.  NativeAgentRuntime        *)
(* implements it.                                                          *)
(***************************************************************************)
CONSTANTS AutomationRuns, AgentRuns, NoRun

VARIABLES
    phase,    \* of each run: "absent", "live" or "done"
    claimed,  \* the run that executes each automation run, or NoRun
    ended     \* the automation runs reported ended

lifecycleVars == <<phase, claimed, ended>>

Init ==
    /\ phase = [r \in AgentRuns |-> "absent"]
    /\ claimed = [a \in AutomationRuns |-> NoRun]
    /\ ended = {}

Begin(r) ==
    /\ phase[r] = "absent"
    /\ phase' = [phase EXCEPT ![r] = "live"]

Claim(a, r) ==
    /\ claimed[a] = NoRun
    /\ Begin(r)
    /\ claimed' = [claimed EXCEPT ![a] = r]
    /\ UNCHANGED ended

Retry(source, r) ==
    /\ phase[source] = "done"
    /\ Begin(r)
    /\ UNCHANGED <<claimed, ended>>

Finish(r) ==
    /\ phase[r] = "live"
    /\ phase' = [phase EXCEPT ![r] = "done"]
    /\ UNCHANGED <<claimed, ended>>

Report(a) ==
    /\ claimed[a] # NoRun
    /\ phase[claimed[a]] = "done"
    /\ ended' = ended \cup {a}
    /\ UNCHANGED <<phase, claimed>>

\* A write of "running" that was on its way takes a report back.
Withdraw(a) ==
    /\ ended' = ended \ {a}
    /\ UNCHANGED <<phase, claimed>>

Next ==
    \/ \E a \in AutomationRuns, r \in AgentRuns : Claim(a, r)
    \/ \E source, r \in AgentRuns : Retry(source, r)
    \/ \E r \in AgentRuns : Finish(r)
    \/ \E a \in AutomationRuns : Report(a) \/ Withdraw(a)

Spec == Init /\ [][Next]_lifecycleVars
=============================================================================
