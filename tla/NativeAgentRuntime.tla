-------------------------- MODULE NativeAgentRuntime --------------------------
(***************************************************************************)
(* Dispatch of native agent runs: src/src/native-agent-runtime.ts over the *)
(* tables of NativeAgentStore, with the operator's commands of             *)
(* src/src/native-agent-operator.ts and src/src/native-agent-api.ts.       *)
(*                                                                         *)
(* A dispatcher is one call of dispatchNativeAgentOnce or                  *)
(* dispatchNativeAgentRunOnce (a CLI process or an API request); its slot  *)
(* is reused when the call returns.  An operator is one API request or CLI *)
(* call that cancels, retries, requests or resolves an approval.  A step   *)
(* is what a caller does up to its next awaited database statement, so     *)
(* callers interleave exactly where the code awaits.                       *)
(*                                                                         *)
(* Of agent_run_events, `log` keeps the events that announce an end, and   *)
(* `approvals` the approval events, folded as they are appended into what  *)
(* approvalsFromEvents computes from the log on every read.  No caller     *)
(* reads the other events, or the rows of agent_tool_calls, to decide      *)
(* anything: the steps that only write those are left out.                 *)
(***************************************************************************)
EXTENDS NativeAgentStore, Sequences

CONSTANTS
    Dispatchers,     \* concurrent dispatch calls
    Operators,       \* concurrent operator commands
    Roots,           \* workspace roots: all of a fingerprint that varies
    NoRoot,          \* an approval an operator requested: no fingerprint
    Verdicts,        \* what workspace, hooks and policy may decide
    MaxApprovals,    \* bound on approvals when an operator requests one
    MayThrow,        \* may a call end with an exception or a crash?
    Serial           \* is a command started only when no other is running?

\* "refused": no workspace, or blocked by a hook or by the policy.
AllVerdicts == {"refused", "root_rejected", "ask", "allow"}

ASSUME RuntimeAssumption ==
    /\ NoRoot \notin Roots
    /\ Verdicts \subseteq AllVerdicts
    /\ MaxApprovals \in Nat
    /\ MayThrow \in BOOLEAN
    /\ Serial \in BOOLEAN

Announcements == {"run.succeeded", "run.failed", "run.timed_out",
                  "run.cancel_requested"}

Decisions == {"approved", "denied"}

\* status "expired" is "denied" with the code NATIVE_APPROVAL_TIMEOUT.
Approval == [root      : Roots \cup {NoRoot},
             status    : {"pending", "approved", "denied", "expired"},
             decisions : SUBSET {"approved", "denied", "expired"},
             overdue   : BOOLEAN]

DispatcherPC == {"idle", "begin", "starting", "gate",
                 "ensure", "request", "expire", "expireWrite", "wait",
                 "accept", "tool", "reading", "succeed", "fail", "finish",
                 "mirror"}
OperatorPC == {"idle", "cancel", "mirror", "retry", "resolve"}

\* A dispatch: the run, the root, whether approval was asked for, the approval
\* found overdue, the status it is writing, and where it goes on after the write to automation_runs.
Job == [run : AgentRuns \cup {NoRun}, root : Roots \cup {NoRoot},
        asked : BOOLEAN, approval : Nat, status : AgentStatus, next : DispatcherPC]
NoJob == [run |-> NoRun, root |-> NoRoot, asked |-> FALSE, approval |-> 0,
          status |-> "running", next |-> "idle"]

Command == [run : AgentRuns \cup {NoRun}, index : Nat, decision : Decisions]
NoCommand == [run |-> NoRun, index |-> 0, decision |-> "denied"]

VARIABLES
    pc,          \* where each dispatch is
    job,         \* its local variables
    process,     \* the child of its own NativeProcessManager
    approvals,   \* per run, its approvals in the order they were requested
    log,         \* per run, the ends announced in agent_run_events
    opPc,        \* where each operator command is
    command      \* its local variables

callers == <<pc, job, process>>
commands == <<opPc, command>>
vars == <<automation, agentRun, pc, job, process, approvals, log,
          opPc, command>>

TypeOK ==
    /\ StoreTypeOK
    /\ pc \in [Dispatchers -> DispatcherPC]
    /\ job \in [Dispatchers -> Job]
    /\ process \in [Dispatchers -> {"none", "running"}]
    /\ approvals \in [AgentRuns -> Seq(Approval)]
    /\ log \in [AgentRuns -> SUBSET Announcements]
    /\ opPc \in [Operators -> OperatorPC]
    /\ command \in [Operators -> Command]

Init ==
    /\ StoreInit
    /\ pc = [d \in Dispatchers |-> "idle"]
    /\ job = [d \in Dispatchers |-> NoJob]
    /\ process = [d \in Dispatchers |-> "none"]
    /\ approvals = [r \in AgentRuns |-> <<>>]
    /\ log = [r \in AgentRuns |-> {}]
    /\ opPc = [o \in Operators |-> "idle"]
    /\ command = [o \in Operators |-> NoCommand]

-----------------------------------------------------------------------------
Idle == /\ \A d \in Dispatchers : pc[d] = "idle"
        /\ \A o \in Operators : opPc[o] = "idle"

MayStart == Serial => Idle

\* AgentRuns bounds how many runs are made: an insert is begun only when an
\* id is left for it and for every insert already begun.
IdLeft == Cardinality({o \in Operators : opPc[o] = "retry"})
              < Cardinality({r \in AgentRuns : ~Exists(r)})

Goto(d, next) == pc' = [pc EXCEPT ![d] = next]
Log(r, events) == log' = [log EXCEPT ![r] = @ \cup events]

\* The call returns (or throws): withNativeRuntime closes its process manager.
Return(d) ==
    /\ Goto(d, "idle")
    /\ job' = [job EXCEPT ![d] = NoJob]
    /\ process' = [process EXCEPT ![d] = "none"]

\* Go on to write `status` to the linked automation run, then to `next`.
ThenMirror(d, status, next) ==
    /\ Goto(d, "mirror")
    /\ job' = [job EXCEPT ![d].status = status, ![d].next = next]

\* First statement of setAgentRunStatus, and the test on the row it returns.
SetStatus(d, status, next) ==
    LET r == job[d].run IN
    /\ SetAgentRunRow(r, status)
    /\ IF ~Terminal(r) /\ agentRun[r].automation # NoAutomation
         THEN ThenMirror(d, status, next) /\ UNCHANGED process
         ELSE IF next = "idle" THEN Return(d)
                               ELSE Goto(d, next) /\ UNCHANGED <<job, process>>

-----------------------------------------------------------------------------
\* dispatchNativeAgentOnce: claim a queued automation run and execute it.
DispatchOnce(d, a, r, root) ==
    /\ pc[d] = "idle"
    /\ MayStart
    /\ IdLeft
    /\ ClaimAutomationRun(a, r)
    /\ IF agentRun' # agentRun
         THEN /\ Goto(d, "starting")
              /\ job' = [job EXCEPT ![d].run = r, ![d].root = root]
         ELSE UNCHANGED <<pc, job>>
    /\ UNCHANGED <<process, approvals, log, opPc, command>>

\* dispatchNativeAgentRunOnce: execute any run that is not terminal.
DispatchRun(d, r, root) ==
    /\ pc[d] = "idle"
    /\ MayStart
    /\ Exists(r)
    /\ ~Terminal(r)
    /\ Goto(d, IF agentRun[r].status \in {"queued", "claiming"} THEN "begin" ELSE "starting")
    /\ job' = [job EXCEPT ![d].run = r, ![d].root = root]
    /\ UNCHANGED <<automation, agentRun, process, approvals, log,
                   opPc, command>>

MarkRunning(d) ==
    /\ pc[d] = "begin"
    /\ SetStatus(d, "running", "starting")
    /\ UNCHANGED <<approvals, log, opPc, command>>

\* Second statement of setAgentRunStatus and of finishAgentRun.
Mirror(d) ==
    /\ pc[d] = "mirror"
    /\ MirrorToAutomation(job[d].run, job[d].status)
    /\ IF job[d].next = "idle" THEN Return(d)
                               ELSE Goto(d, job[d].next) /\ UNCHANGED <<job, process>>
    /\ UNCHANGED <<approvals, log, opPc, command>>

-----------------------------------------------------------------------------
(* From run.started to the decision on the tool: workspace root, Start and  *)
(* WorkflowStep hooks, policy, PreToolUse hook.                             *)

\* No workspace, a blocking hook, or policy "block" (whose tool call row
\* blockProcessTool writes): the run is going to fail.
Refuse(d) ==
    /\ pc[d] = "starting"
    /\ "refused" \in Verdicts
    /\ Goto(d, "fail")
    /\ job' = [job EXCEPT ![d].status = "failed"]
    /\ UNCHANGED <<automation, agentRun, process, approvals, log, opPc, command>>

\* assertAllowedPath throws on a root outside the allowed ones: nothing
\* catches it, and the run keeps the status it has.
RejectRoot(d) ==
    /\ pc[d] = "starting"
    /\ "root_rejected" \in Verdicts
    /\ Return(d)
    /\ UNCHANGED <<automation, agentRun, approvals, log, opPc, command>>

Proceed(d) ==
    /\ pc[d] = "starting"
    /\ \E verdict \in Verdicts \cap {"ask", "allow"} :
         /\ Goto(d, IF verdict = "ask" THEN "gate" ELSE "tool")
         /\ job' = [job EXCEPT ![d].asked = (verdict = "ask")]
    /\ UNCHANGED <<automation, agentRun, process, approvals, log, opPc, command>>

-----------------------------------------------------------------------------
(* resolveApprovalGate.                                                     *)

\* Mutant: any approval of the run will do.
Matching_AnyFingerprint(r, root) == DOMAIN approvals[r]

\* Mutant: an approval that was decided is not found again.
Matching_UndecidedOnly(r, root) ==
    {i \in DOMAIN approvals[r] : /\ approvals[r][i].root = root
                                 /\ approvals[r][i].status = "pending"}

\* The approvals with the fingerprint of this dispatch.
Matching(r, root) == {i \in DOMAIN approvals[r] : approvals[r][i].root = root}

\* What the dispatch does with the approval it found or made.
Decide(d, status) ==
    /\ Goto(d, CASE status = "pending"  -> "wait"
                 [] status = "approved" -> "accept"
                 [] status \in {"denied", "expired"} -> "fail")
    /\ job' = [job EXCEPT ![d].approval = 0,
                          ![d].status = IF status = "expired" THEN "timed_out"
                                                              ELSE "failed"]

PermissionHook(d) ==
    /\ pc[d] = "gate"
    /\ \/ Goto(d, "ensure") /\ UNCHANGED job
       \/ Goto(d, "fail") /\ job' = [job EXCEPT ![d].status = "failed"]
    /\ UNCHANGED <<automation, agentRun, process, approvals, log, opPc, command>>

\* ensureNativeAgentPolicyApproval reads the approvals and takes the last one
\* requested with the fingerprint ...
EnsureApproval(d) ==
    /\ pc[d] = "ensure"
    /\ LET r == job[d].run
           found == Matching(r, job[d].root)
       IN  \/ found = {} /\ Goto(d, "request") /\ UNCHANGED job
           \/ \E i \in found :
                /\ \A j \in found : j <= i
                /\ IF approvals[r][i].status = "pending" /\ approvals[r][i].overdue
                     THEN Goto(d, "expire") /\ job' = [job EXCEPT ![d].approval = i]
                     ELSE Decide(d, approvals[r][i].status)
    /\ UNCHANGED <<automation, agentRun, process, approvals, log, opPc, command>>

\* ... and requests one when it found none.  Nothing makes the two one step.
RequestApproval(d) ==
    /\ pc[d] = "request"
    /\ approvals' = [approvals EXCEPT ![job[d].run] =
           Append(@, [root |-> job[d].root, status |-> "pending",
                      decisions |-> {}, overdue |-> FALSE])]
    /\ Decide(d, "pending")
    /\ UNCHANGED <<automation, agentRun, process, log, opPc, command>>

\* expireNativeAgentApproval reads again, and keeps a decision that came first.
RecheckExpired(d) ==
    /\ pc[d] = "expire"
    /\ LET status == approvals[job[d].run][job[d].approval].status
       IN  IF status = "pending" THEN Goto(d, "expireWrite") /\ UNCHANGED job
                                 ELSE Decide(d, status)
    /\ UNCHANGED <<automation, agentRun, process, approvals, log, opPc, command>>

RecordDecision(r, i, decision) ==
    LET old == approvals[r][i]
        new == [old EXCEPT !.status = decision, !.decisions = old.decisions \cup {decision}]
    IN  approvals' = [approvals EXCEPT ![r][i] = new]

ExpireApproval(d) ==
    /\ pc[d] = "expireWrite"
    /\ RecordDecision(job[d].run, job[d].approval, "expired")
    /\ Decide(d, "expired")
    /\ UNCHANGED <<automation, agentRun, process, log, opPc, command>>

\* Mutant: the status of the run is not set.
WaitForApproval_StatusForgotten(d) ==
    /\ pc[d] = "wait"
    /\ Return(d)
    /\ UNCHANGED <<automation, agentRun, approvals, log, opPc, command>>

\* waitForApproval
WaitForApproval(d) ==
    /\ pc[d] = "wait"
    /\ SetStatus(d, "waiting_input", "idle")
    /\ UNCHANGED <<approvals, log, opPc, command>>

\* An approved run goes on whether or not setAgentRunStatus found it live.
AcceptApproval(d) ==
    /\ pc[d] = "accept"
    /\ SetStatus(d, "running", "tool")
    /\ UNCHANGED <<approvals, log, opPc, command>>

-----------------------------------------------------------------------------
(* The process, and the end of the run.                                     *)

\* recordToolCallStart, then processManager.start.
StartProcess(d) ==
    /\ pc[d] = "tool"
    /\ process' = [process EXCEPT ![d] = "running"]
    /\ Goto(d, "reading")
    /\ UNCHANGED <<automation, agentRun, job, approvals, log, opPc, command>>

\* The read loop sees the child's end: an exit code 0 or, after a signal, none
\* at all, which the code reads as 0; a failure; or the hard timeout.
FinishTool(d) ==
    /\ pc[d] = "reading"
    /\ process' = [process EXCEPT ![d] = "none"]
    /\ \E status \in {"succeeded", "failed", "timed_out"} :
         /\ job' = [job EXCEPT ![d].status = status]
         /\ Goto(d, IF status = "succeeded" THEN "succeed" ELSE "fail")
    /\ UNCHANGED <<automation, agentRun, approvals, log, opPc, command>>

\* The events of a success, in order, before the row says so.
LogSuccess(d) ==
    /\ pc[d] = "succeed"
    /\ Log(job[d].run, {"run.succeeded"})
    /\ Goto(d, "finish")
    /\ UNCHANGED <<automation, agentRun, job, process, approvals, opPc, command>>

\* Mutant: the event of a failure, also for a timeout.
LogFailure_WrongEvent(d) ==
    /\ pc[d] = "fail"
    /\ Log(job[d].run, {"run.failed"})
    /\ Goto(d, "finish")
    /\ UNCHANGED <<automation, agentRun, job, process, approvals, opPc, command>>

\* failRun: its events ...
LogFailure(d) ==
    /\ pc[d] = "fail"
    /\ Log(job[d].run, {IF job[d].status = "timed_out" THEN "run.timed_out"
                                                       ELSE "run.failed"})
    /\ Goto(d, "finish")
    /\ UNCHANGED <<automation, agentRun, job, process, approvals, opPc, command>>

\* Mutant: the automation run is written first.
FinishRun_AutomationFirst(d) ==
    /\ pc[d] = "finish"
    /\ IF agentRun[job[d].run].automation # NoAutomation
         THEN /\ MirrorToAutomation(job[d].run, job[d].status)
              /\ job' = [job EXCEPT ![d].next = "idle"]
              /\ Goto(d, "mirror")
              /\ UNCHANGED process
         ELSE FinishAgentRunRow(job[d].run, job[d].status) /\ Return(d)
    /\ UNCHANGED <<approvals, log, opPc, command>>

\* ... and the first statement of finishAgentRun, for success and failure.
FinishRun(d) ==
    /\ pc[d] = "finish"
    /\ FinishAgentRunRow(job[d].run, job[d].status)
    /\ IF agentRun[job[d].run].automation # NoAutomation
         THEN ThenMirror(d, job[d].status, "idle") /\ UNCHANGED process
         ELSE Return(d)
    /\ UNCHANGED <<approvals, log, opPc, command>>

\* An exception, or the end of the whole process, at any await of a dispatch.
DispatchThrows(d) ==
    /\ MayThrow
    /\ pc[d] # "idle"
    /\ Return(d)
    /\ UNCHANGED <<automation, agentRun, approvals, log, opPc, command>>

-----------------------------------------------------------------------------
(* Operator commands.                                                       *)

StartCommand(o, next, cmd) ==
    /\ opPc[o] = "idle"
    /\ MayStart
    /\ opPc' = [opPc EXCEPT ![o] = next]
    /\ command' = [command EXCEPT ![o] = cmd]

EndCommand(o) ==
    /\ opPc' = [opPc EXCEPT ![o] = "idle"]
    /\ command' = [command EXCEPT ![o] = NoCommand]

\* cancelAgentRun: the event, then finishAgentRun; no test of the status, and
\* nothing reaches the dispatcher or its child.
RequestCancel(o, r) ==
    /\ Exists(r)
    /\ StartCommand(o, "cancel", [NoCommand EXCEPT !.run = r])
    /\ Log(r, {"run.cancel_requested"})
    /\ UNCHANGED <<automation, agentRun, pc, job, process, approvals>>

CancelRun(o) ==
    /\ opPc[o] = "cancel"
    /\ FinishAgentRunRow(command[o].run, "cancelled")
    /\ IF agentRun[command[o].run].automation # NoAutomation
         THEN opPc' = [opPc EXCEPT ![o] = "mirror"] /\ UNCHANGED command
         ELSE EndCommand(o)
    /\ UNCHANGED <<pc, job, process, approvals, log>>

MirrorCancel(o) ==
    /\ opPc[o] = "mirror"
    /\ MirrorToAutomation(command[o].run, "cancelled")
    /\ EndCommand(o)
    /\ UNCHANGED <<pc, job, process, approvals, log>>

\* createNativeAgentRetry: the status is read, then the retry is inserted.
CheckRetry(o, r) ==
    /\ Terminal(r)
    /\ IdLeft
    /\ StartCommand(o, "retry", [NoCommand EXCEPT !.run = r])
    /\ UNCHANGED <<automation, agentRun, pc, job, process, approvals, log>>

CreateRetry(o, new) ==
    /\ opPc[o] = "retry"
    /\ CreateRetryRun(command[o].run, new)
    /\ EndCommand(o)
    /\ UNCHANGED <<pc, job, process, approvals, log>>

\* requestNativeAgentApproval from the API or the CLI: it has no fingerprint.
\* MaxApprovals bounds how many an operator adds.
OperatorRequestsApproval(o, r) ==
    /\ Exists(r)
    /\ opPc[o] = "idle"
    /\ MayStart
    /\ Len(approvals[r]) < MaxApprovals
    /\ approvals' = [approvals EXCEPT ![r] =
           Append(@, [root |-> NoRoot, status |-> "pending",
                      decisions |-> {}, overdue |-> FALSE])]
    /\ UNCHANGED <<automation, agentRun, pc, job, process, log, opPc, command>>

\* resolveNativeAgentApproval: reads that the approval is pending ...
CheckPending(o, r, i, decision) ==
    /\ approvals[r][i].status = "pending"
    /\ StartCommand(o, "resolve",
           [NoCommand EXCEPT !.run = r, !.index = i, !.decision = decision])
    /\ UNCHANGED <<automation, agentRun, pc, job, process, approvals, log>>

\* ... and appends the decision.  The last decision in the log counts.
ResolveApproval(o) ==
    /\ opPc[o] = "resolve"
    /\ RecordDecision(command[o].run, command[o].index, command[o].decision)
    /\ EndCommand(o)
    /\ UNCHANGED <<automation, agentRun, pc, job, process, log>>

CommandThrows(o) ==
    /\ MayThrow
    /\ opPc[o] # "idle"
    /\ EndCommand(o)
    /\ UNCHANGED <<automation, agentRun, pc, job, process, approvals, log>>

\* The clock passes expiresAt of an approval a dispatch requested.
ApprovalOverdue(r, i) ==
    /\ approvals[r][i].root # NoRoot
    /\ approvals[r][i].status = "pending"
    /\ ~approvals[r][i].overdue
    /\ approvals' = [approvals EXCEPT ![r][i].overdue = TRUE]
    /\ UNCHANGED <<automation, agentRun, pc, job, process, log, opPc, command>>

-----------------------------------------------------------------------------
\* A dispatch in progress.
Continue(d) ==
    \/ MarkRunning(d) \/ Mirror(d)
    \/ Refuse(d) \/ RejectRoot(d) \/ Proceed(d)
    \/ PermissionHook(d) \/ EnsureApproval(d) \/ RequestApproval(d)
    \/ RecheckExpired(d) \/ ExpireApproval(d)
    \/ WaitForApproval(d) \/ AcceptApproval(d)
    \/ StartProcess(d) \/ FinishTool(d)
    \/ LogSuccess(d) \/ LogFailure(d) \/ FinishRun(d)

StartDispatch(d) ==
    \E root \in Roots, r \in AgentRuns :
        \/ \E a \in AutomationRuns : DispatchOnce(d, a, r, root)
        \/ DispatchRun(d, r, root)

OperatorStarts(o) ==
    \E r \in AgentRuns :
        \/ RequestCancel(o, r)
        \/ CheckRetry(o, r)
        \/ OperatorRequestsApproval(o, r)
        \/ \E i \in DOMAIN approvals[r], decision \in Decisions :
               CheckPending(o, r, i, decision)

OperatorContinues(o) ==
    \/ CancelRun(o) \/ MirrorCancel(o)
    \/ (\E new \in AgentRuns : CreateRetry(o, new))
    \/ ResolveApproval(o)

Clock == \E r \in AgentRuns : \E i \in DOMAIN approvals[r] : ApprovalOverdue(r, i)

Next ==
    \/ \E d \in Dispatchers : StartDispatch(d) \/ Continue(d) \/ DispatchThrows(d)
    \/ \E o \in Operators : OperatorStarts(o) \/ OperatorContinues(o) \/ CommandThrows(o)
    \/ Clock

Spec == Init /\ [][Next]_vars

\* The event loop keeps running what it has started, and the hard timeout
\* ends every child.
FairSpec == Spec /\ \A d \in Dispatchers : WF_vars(Continue(d))

-----------------------------------------------------------------------------
(* Properties.                                                              *)

\* The dispatcher claims queued automation work exactly once: an automation
\* run has a native run as soon as it leaves the queue, and never two
\* (claimAutomationRun).
ClaimedOnce ==
    \A a \in AutomationRuns :
        Cardinality(Linked(a)) = IF automation[a] = "queued" THEN 0 ELSE 1

\* An automation run is reported finished only when the native run that
\* executes it has finished, in every interleaving of dispatchers and
\* operators (finishAgentRun writes the run first, the automation run next,
\* and setAgentRunStatus leaves a finished run alone).
AutomationEndsAfterRun ==
    \A a \in AutomationRuns : automation[a] \in AutomationStatus \ {"queued", "running"}
        => \E r \in Linked(a) : Terminal(r)

\* A finished run never becomes live again, though a dispatcher that knew it
\* as live may still want to mark it running or waiting (setAgentRunStatus).
FinishedForGood == [][\A r \in AgentRuns : Terminal(r) => Terminal(r)']_vars

\* A retry descends from a run that has finished, is one attempt later, and
\* retries something else than itself (createNativeAgentRetry).
RetriesFollowFinishedRuns ==
    \A r \in AgentRuns : agentRun[r].retryOf # NoRun =>
        LET source == agentRun[r].retryOf IN
        /\ source # r
        /\ Terminal(source)
        /\ agentRun[r].attempt = agentRun[source].attempt + 1

\* When policy or a hook asked, the process starts only after somebody
\* approved a request with this very fingerprint, whatever requests, decisions
\* and expirations race with it (resolveApprovalGate).
ProcessIsApproved ==
    \A d \in Dispatchers : process[d] = "running" /\ job[d].asked =>
        \E i \in DOMAIN approvals[job[d].run] :
            LET approval == approvals[job[d].run][i] IN
            /\ approval.root = job[d].root
            /\ "approved" \in approval.decisions

\* The log of a run accounts for the status its row shows: every terminal
\* status was announced by its own event before the row was written, whoever
\* wrote it (failRun, executeNativeAgentRun, cancelAgentRun).
StatusIsAccountedFor ==
    \A r \in AgentRuns :
        /\ agentRun[r].status = "succeeded" => "run.succeeded" \in log[r]
        /\ agentRun[r].status = "failed"    => "run.failed" \in log[r]
        /\ agentRun[r].status = "timed_out" => "run.timed_out" \in log[r]
        /\ agentRun[r].status = "cancelled" => "run.cancel_requested" \in log[r]

\* Under FairSpec and when no call throws: a run does not stay running, it
\* ends or waits for an approval.
RunningIsLeft ==
    \A r \in AgentRuns : agentRun[r].status = "running" ~> agentRun[r].status # "running"

\* When a run has finished and nothing is in progress, the linked automation
\* run shows the same end, a timeout as a failure (finishAgentRun's second
\* statement): never a different end, and never that it is still running.
AutomationMirrorsRun ==
    Idle => \A a \in AutomationRuns : \A r \in Linked(a) :
        LET status == agentRun[r].status IN
        /\ Terminal(r) /\ status # "timed_out" => automation[a] = status
        /\ status = "timed_out" => automation[a] = "failed"

\* A cancelled run stays cancelled (cancelAgentRun).
CancelIsKept ==
    [][\A r \in AgentRuns : agentRun[r].status = "cancelled"
                               => agentRun'[r].status = "cancelled"]_vars

\* Equivalent dispatches share one approval: there are never two requests
\* with one fingerprint (ensureNativeAgentPolicyApproval).
OnePromptPerFingerprint ==
    \A r \in AgentRuns : \A i, j \in DOMAIN approvals[r] :
        approvals[r][i].root = approvals[r][j].root /\ approvals[r][i].root # NoRoot
            => i = j

-----------------------------------------------------------------------------
(* What makes the properties inductive: how the two tables agree, and what  *)
(* a call in flight may rely on after its last await.                       *)

RowsAgree ==
    /\ \A r \in AgentRuns : ~Exists(r) => agentRun[r] = AbsentRow
    /\ \A a \in AutomationRuns : \A r, s \in Linked(a) : r = s
    /\ \A a \in AutomationRuns : automation[a] = "queued" <=> Linked(a) = {}

DispatchKnows(d) ==
    /\ pc[d] # "idle" => job[d].run \in AgentRuns /\ Exists(job[d].run)
    /\ pc[d] \in {"fail", "succeed", "finish"} => job[d].status \in TerminalStatus
    /\ pc[d] = "mirror" =>
           /\ agentRun[job[d].run].automation # NoAutomation
           /\ job[d].status \in TerminalStatus => Terminal(job[d].run)
           /\ job[d].next \in {"idle", "starting", "tool"}
    /\ pc[d] \in {"expire", "expireWrite"} =>
           job[d].approval \in DOMAIN approvals[job[d].run]

CommandKnows(o) ==
    /\ opPc[o] # "idle" => command[o].run \in AgentRuns
    /\ opPc[o] = "cancel" => Exists(command[o].run)
    /\ opPc[o] \in {"mirror", "retry"} => Terminal(command[o].run)
    /\ opPc[o] = "mirror" => agentRun[command[o].run].automation # NoAutomation
    /\ opPc[o] = "resolve" => command[o].index \in DOMAIN approvals[command[o].run]

\* The inductive invariant: a call that is about to write to automation_runs
\* knows that the run it writes about is linked and, if it is going to report
\* an end, over; a retry in flight knows that its source is over.
Consistent ==
    /\ TypeOK
    /\ RowsAgree
    /\ \A d \in Dispatchers : DispatchKnows(d)
    /\ \A o \in Operators : CommandKnows(o)
    /\ AutomationEndsAfterRun
    /\ RetriesFollowFinishedRuns

-----------------------------------------------------------------------------
(* Refinement.                                                              *)

Phase(r) == IF ~Exists(r) THEN "absent" ELSE IF Terminal(r) THEN "done" ELSE "live"
OnlyRun(S) == IF S = {} THEN NoRun ELSE CHOOSE r \in S : TRUE
Claimer(a) == OnlyRun(Linked(a))

Lifecycle == INSTANCE RunLifecycle WITH
    phase   <- [r \in AgentRuns |-> Phase(r)],
    claimed <- [a \in AutomationRuns |-> Claimer(a)],
    ended   <- {a \in AutomationRuns : automation[a] \notin {"queued", "running"}}

\* Dispatchers and operators together implement the life cycle promised to
\* whoever queues automation work (module RunLifecycle).
ImplementsLifecycle == Lifecycle!Spec
=============================================================================
