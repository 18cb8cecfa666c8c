--------------------------- MODULE NativeAgentStore ---------------------------
(***************************************************************************)
(* The two tables behind a native agent run, as                           *)
(* PostgresNativeAgentStore (src/src/native-agent-store.ts) keeps them:    *)
(* agent_runs and automation_runs.  Every operator below is ONE SQL        *)
(* statement, the unit the database makes atomic.  finishAgentRun and      *)
(* setAgentRunStatus are two statements each (the agent run, then the      *)
(* automation run it is linked to), with an await between them; the        *)
(* modules that use this one decide what happens in between.               *)
(*                                                                         *)
(* Each table row keeps the columns the statements read or guard on.       *)
(* Timestamps, results, error texts and owners are left out.               *)
(***************************************************************************)
EXTENDS Integers, FiniteSets

CONSTANTS
    AutomationRuns,   \* ids of rows of automation_runs
    AgentRuns,        \* ids a row of agent_runs may get (randomUUID)
    NoAutomation,     \* automation_run_id is null
    NoRun             \* no agent run: not a retry

ASSUME StoreAssumption ==
    /\ NoAutomation \notin AutomationRuns
    /\ NoRun \notin AgentRuns

TerminalStatus == {"succeeded", "failed", "cancelled", "timed_out"}
LiveStatus == {"queued", "claiming", "running", "waiting_input"}
AgentStatus == TerminalStatus \cup LiveStatus
AutomationStatus == {"queued", "running", "succeeded", "failed", "cancelled"}

\* "absent": the id has no row yet.
RunRow == [status     : AgentStatus \cup {"absent"},
           automation : AutomationRuns \cup {NoAutomation},
           attempt    : Nat,
           retryOf    : AgentRuns \cup {NoRun}]

AbsentRow == [status |-> "absent", automation |-> NoAutomation,
              attempt |-> 0, retryOf |-> NoRun]

VARIABLES
    automation,   \* automation_runs.status
    agentRun      \* agent_runs

storeVars == <<automation, agentRun>>

StoreTypeOK ==
    /\ automation \in [AutomationRuns -> AutomationStatus]
    /\ agentRun \in [AgentRuns -> RunRow]

StoreInit ==
    /\ automation = [a \in AutomationRuns |-> "queued"]
    /\ agentRun = [r \in AgentRuns |-> AbsentRow]

-----------------------------------------------------------------------------
Exists(r)   == agentRun[r].status # "absent"
Terminal(r) == agentRun[r].status \in TerminalStatus
Linked(a)   == {r \in AgentRuns : agentRun[r].automation = a}

\* Mutant: the timeout falls through.
AutomationStatusFor_TimeoutMissing(status) ==
    CASE status = "succeeded" -> "succeeded"
      [] status = "cancelled" -> "cancelled"
      [] status = "failed"    -> "failed"
      [] OTHER                -> "running"

\* automationStatusForAgentStatus
AutomationStatusFor(status) ==
    CASE status = "succeeded" -> "succeeded"
      [] status = "cancelled" -> "cancelled"
      [] status \in {"timed_out", "failed"} -> "failed"
      [] OTHER                -> "running"

-----------------------------------------------------------------------------
\* Mutant: neither of the two conditions.
ClaimAutomationRun_Unguarded(a, r) ==
    /\ agentRun[r].status = "absent"
    /\ automation' = [automation EXCEPT ![a] = "running"]
    /\ agentRun' = [agentRun EXCEPT ![r] =
           [status |-> "running", automation |-> a, attempt |-> 1, retryOf |-> NoRun]]

\* claimAutomationRun: one statement updates the queued row and inserts the
\* run; "on conflict (automation_run_id) do nothing" leaves the inserted row
\* out when the automation run already has one.
ClaimAutomationRun(a, r) ==
    /\ automation[a] = "queued"
    /\ agentRun[r].status = "absent"
    /\ automation' = [automation EXCEPT ![a] = "running"]
    /\ agentRun' = IF Linked(a) = {}
                     THEN [agentRun EXCEPT ![r] =
                             [status |-> "running", automation |-> a,
                              attempt |-> 1, retryOf |-> NoRun]]
                     ELSE agentRun

\* createAgentRun as createNativeAgentRetry calls it: queued, no automation
\* run, one attempt more than the run it retries.
CreateRetryRun(source, r) ==
    /\ agentRun[r].status = "absent"
    /\ agentRun' = [agentRun EXCEPT ![r] =
           [status |-> "queued", automation |-> NoAutomation,
            attempt |-> agentRun[source].attempt + 1, retryOf |-> source]]
    /\ UNCHANGED automation

\* Mutant: without "is it terminal".
SetAgentRunRow_Unguarded(r, status) ==
    /\ agentRun' = [agentRun EXCEPT ![r].status = status]
    /\ UNCHANGED automation

\* First statement of setAgentRunStatus: skips a run that is terminal.
SetAgentRunRow(r, status) ==
    /\ agentRun' = IF Terminal(r) THEN agentRun
                                  ELSE [agentRun EXCEPT ![r].status = status]
    /\ UNCHANGED automation

\* First statement of finishAgentRun: has no condition on the status.
FinishAgentRunRow(r, status) ==
    /\ agentRun' = [agentRun EXCEPT ![r].status = status]
    /\ UNCHANGED automation

\* Second statement of both: the linked automation run takes the status that
\* the first statement returned, whatever has happened since.
MirrorToAutomation(r, status) ==
    /\ automation' = [automation EXCEPT ![agentRun[r].automation] =
                                            AutomationStatusFor(status)]
    /\ UNCHANGED agentRun
=============================================================================
