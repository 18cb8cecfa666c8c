---------------------------- MODULE HookedDispatch ----------------------------
(***************************************************************************)
(* The decisions of one run: every dispatch runs the hooks of Start, of    *)
(* each workflow step and of PreToolUse, asks for an approval when policy  *)
(* or hooks say so, starts the process, and runs the hooks of PostToolUse  *)
(* and Stop.  A hook is the built-in handler of its event and then the     *)
(* configured rules that match, each recorded before its answer counts.    *)
(* NativeAgentRuntime has the same dispatch with these answers left open.  *)
(***************************************************************************)
EXTENDS CommandPolicy, FiniteSets, SequencesExt

CONSTANTS
    Plays,       \* how the dispatches of the run are configured, in order:
                 \* [profile, dispatches : sequence of [rules, workflow]]
    MaxCrashes,  \* bound on dispatches cut short (a throw, or the process dies)
    None

VARIABLES
    play,      \* the configuration of this run
    turn,      \* the number of the dispatch that is or was last under way
    at,        \* "idle", the hook event that runs, "process", "ended"
    step,      \* the workflow step, counted from 1
    hook,      \* NativeRuntimeHookManager.run: its merged result, and what is left
    request,   \* the fingerprint of the approval this dispatch asks for
    ending,    \* "open", "waiting", "succeeded", or why the run failed
    approvals, \* the run's approvals, by fingerprint
    decided,   \* the run.hook.decision events
    steps,     \* the run.loop.step events: ids of steps
    rows,      \* agent_runtime_hooks
    crashes

hookVars == <<play, turn, at, step, hook, request, ending, approvals, decided, steps, rows, crashes>>

HookEvents == {"Start", "WorkflowStep", "PreToolUse", "PermissionRequest", "PostToolUse", "Stop"}

\* isRuntimeHookRecordEvent
RowEvents == HookEvents \ {"Start", "WorkflowStep"}

Result(decision, continue, rule) == [decision |-> decision, continue |-> continue, rule |-> rule]

\* Mutant: only the flag is looked at.
Blocking_FlagOnly(result) == ~result.continue

\* isBlockingNativeRuntimeHookResult
Blocking(result) == ~result.continue \/ result.decision \in {"block", "deny"}

DefaultResult == Result("audit_only", TRUE, None)

\* What the rules of a run may answer; None is no answer.
RulesOf(p) == UNION {ToSet(p.dispatches[t].rules) : t \in DOMAIN p.dispatches}
ResultType(rules) == [decision : Decisions, continue : BOOLEAN, rule : {None} \cup {r.id : r \in rules}]

IsSequence(s) == Len(s) \in Nat /\ DOMAIN s = 1 .. Len(s)

ASSUME HooksAssumption ==
    /\ MaxCrashes \in Nat
    /\ \A p \in Plays :
          /\ IsSequence(p.dispatches)
          /\ \A t \in DOMAIN p.dispatches :
                /\ IsSequence(p.dispatches[t].rules)
                /\ \A k \in DOMAIN p.dispatches[t].rules :
                      LET rule == p.dispatches[t].rules[k]
                      IN  rule.decision \in Decisions /\ rule.continue \in BOOLEAN \cup {None}
          /\ None \notin ResultType(RulesOf(p))

-----------------------------------------------------------------------------
(* Who answers an event.                                                    *)

Rules == play.dispatches[turn].rules
WorkflowId == KnownWorkflow(play.dispatches[turn].workflow)
Profile == EffectiveProfile(play.profile, Workflows[WorkflowId].profile)
Verdict0 == Policy(ProcessInput(Profile))

Payload(event) ==
    CASE event = "Start" -> [stage |-> "before", workflowIds |-> WorkflowId]
      [] event = "WorkflowStep" ->
           [stage |-> "before", workflowIds |-> WorkflowId, stepPhases |-> Workflows[WorkflowId].phases[step]]
      [] event \in {"PreToolUse", "PermissionRequest"} ->
           [stage |-> "before", workflowIds |-> WorkflowId, toolNames |-> "process",
            risks |-> Verdict0.risk, policyDecisions |-> Verdict0.decision]
      [] event = "PostToolUse" ->
           [stage |-> "after", workflowIds |-> WorkflowId, toolNames |-> "process"]
      [] event = "Stop" -> [stage |-> "after", workflowIds |-> WorkflowId]

\* A rule has an id, its events, the fields it filters on with the values it
\* takes ([] is any value), and its answer; "continue" may be left out.
RuleMatches(rule, event) ==
    LET payload == Payload(event)
    IN  /\ event \in rule.events
        /\ \A f \in DOMAIN rule.only :
              rule.only[f] = {} \/ (f \in DOMAIN payload /\ payload[f] \in rule.only[f])

RuleResult(rule) ==
    Result(rule.decision,
           IF rule.continue = None THEN rule.decision \notin {"block", "deny"} ELSE rule.continue,
           rule.id)

\* defaultNativeRuntimeHooks: PostToolUse has no handler.
HasHandler(event) == event # "PostToolUse"

HandlerResult(event) ==
    CASE event = "PreToolUse" ->
           IF Verdict0.decision = "block" THEN Result("block", FALSE, None)
           ELSE IF Verdict0.decision = "audit_only" THEN Result("audit_only", TRUE, None)
           ELSE Result(IF Verdict0.risk = "high" THEN "ask" ELSE "allow", TRUE, None)
      [] event = "PermissionRequest" ->
           IF Verdict0.decision = "block" THEN Result("deny", FALSE, None) ELSE Result("allow", TRUE, None)
      [] event \in {"Start", "WorkflowStep", "Stop"} -> Result("audit_only", TRUE, None)

\* The observers of an event: 0 is the handler, k > 0 the k-th rule.
Observers(event) ==
    (IF HasHandler(event) THEN {0} ELSE {})
        \cup {k \in DOMAIN Rules : RuleMatches(Rules[k], event)}

Answer(event, k) == IF k = 0 THEN HandlerResult(event) ELSE RuleResult(Rules[k])

\* Mutant: the last answer wins.
Merge_LastWins(previous, result) == result

\* mergeHookResults
Merge(previous, result) ==
    IF ~result.continue THEN result
    ELSE IF ~previous.continue THEN previous
    ELSE IF Rank(result.decision) > Rank(previous.decision) THEN result ELSE previous

-----------------------------------------------------------------------------
NewHook == [next |-> 0, merged |-> DefaultResult, answer |-> None, returned |-> FALSE]

Enter(event) == at' = event /\ hook' = NewHook

StepId(s) == <<WorkflowId, s>>

HooksInit ==
    /\ play \in Plays
    /\ turn = 0 /\ at = "idle" /\ step = 0 /\ hook = NewHook
    /\ request = None /\ ending = "open"
    /\ approvals = << >> /\ decided = <<>> /\ steps = {} /\ rows = <<>> /\ crashes = 0

Terminal == ending \notin {"open", "waiting"}

\* dispatchNativeAgentRunOnce: a run that is not terminal, from the beginning.
Dispatch ==
    /\ at = "idle" /\ ~Terminal
    /\ turn < Len(play.dispatches)
    /\ turn' = turn + 1
    /\ step' = 0
    /\ request' = None
    /\ Enter("Start")
    /\ UNCHANGED <<play, ending, approvals, decided, steps, rows, crashes>>

Remaining == {k \in Observers(at) : k >= hook.next}
NextObserver == CHOOSE k \in Remaining : \A other \in Remaining : k <= other

\* One answer, appended as run.hook.decision before anything else happens
\* with it; with nobody to answer, the default result is recorded.
LogDecision ==
    /\ at \in HookEvents /\ ~hook.returned /\ hook.answer = None
    /\ Remaining # {} \/ hook.next = 0
    /\ LET asked == Remaining # {}
           result == IF asked THEN Answer(at, NextObserver) ELSE DefaultResult
       IN  /\ decided' = Append(decided, [turn |-> turn, event |-> at,
                                  step |-> IF at = "WorkflowStep" THEN StepId(step) ELSE None,
                                  result |-> result])
           /\ hook' = [hook EXCEPT !.answer = result,
                                   !.next = IF asked THEN NextObserver + 1 ELSE Len(Rules) + 1]
    /\ UNCHANGED <<play, turn, at, step, request, ending, approvals, steps, rows, crashes>>

RecordRow(event, result) ==
    rows' = IF event \in RowEvents
              THEN Append(rows, [turn |-> turn, event |-> event, result |-> result]) ELSE rows

Observe ==
    /\ at \in HookEvents /\ hook.answer # None
    /\ RecordRow(at, hook.answer)
    /\ hook' = [hook EXCEPT !.merged = Merge(hook.merged, hook.answer),
                            !.answer = None,
                            !.returned = ~hook.answer.continue \/ Remaining = {}]
    /\ UNCHANGED <<play, turn, at, step, request, ending, approvals, decided, steps, crashes>>

-----------------------------------------------------------------------------
(* What the dispatch does with the result.                                  *)

Finish(status) == at' = "ended" /\ ending' = status /\ UNCHANGED <<step, hook, request, approvals, steps>>

Pause == at' = "idle" /\ ending' = "waiting" /\ UNCHANGED <<step, hook, request, steps>>

EnterStep(s) ==
    /\ Enter("WorkflowStep")
    /\ step' = s
    /\ steps' = steps \cup {StepId(s)}
    /\ UNCHANGED <<request, ending, approvals>>

AfterStart ==
    /\ at = "Start"
    /\ IF Blocking(hook.merged) THEN Finish("hook_blocked") ELSE EnterStep(1)

\* appendLoopPlan
AfterStep ==
    /\ at = "WorkflowStep"
    /\ IF Blocking(hook.merged) THEN Finish("hook_blocked")
       ELSE IF step < Len(Workflows[WorkflowId].phases) THEN EnterStep(step + 1)
       ELSE Enter("PreToolUse") /\ UNCHANGED <<step, request, ending, approvals, steps>>

\* The workflow and the hook's decision and reason stand for the whole
\* request that an approval is given for.
Fingerprint(result) == <<WorkflowId, result.decision, result.rule>>

Asks(result) == Verdict0.decision = "ask" \/ result.decision = "ask"

\* A refused tool gets its blocked call row (blockProcessTool) and the run fails.
AfterPreToolUse ==
    /\ at = "PreToolUse"
    /\ IF Verdict0.decision = "block" \/ Blocking(hook.merged) THEN Finish("policy_blocked")
       ELSE /\ IF Asks(hook.merged)
                 THEN Enter("PermissionRequest") /\ request' = Fingerprint(hook.merged)
                 ELSE at' = "process" /\ UNCHANGED <<hook, request>>
            /\ UNCHANGED <<step, ending, approvals, steps>>

\* resolveApprovalGate: the approval with this fingerprint, made when there is none.
Approval == IF request \in DOMAIN approvals THEN approvals[request] ELSE "pending"

AfterPermission ==
    /\ at = "PermissionRequest"
    /\ IF Blocking(hook.merged) THEN Finish("approval_denied")
       ELSE \/ /\ Approval = "pending"
               /\ approvals' = [f \in DOMAIN approvals \cup {request} |->
                                   IF f = request THEN "pending" ELSE approvals[f]]
               /\ Pause
            \/ Approval = "denied" /\ Finish("approval_denied")
            \/ /\ Approval = "approved"
               /\ at' = "process" /\ ending' = "open"
               /\ UNCHANGED <<step, hook, request, approvals, steps>>

\* The results of the last two events change nothing.
AfterProcess ==
    \/ at = "PostToolUse" /\ Enter("Stop") /\ UNCHANGED <<step, request, ending, approvals, steps>>
    \/ at = "Stop" /\ Finish("succeeded")

Proceed ==
    /\ at \in HookEvents /\ hook.returned
    /\ AfterStart \/ AfterStep \/ AfterPreToolUse \/ AfterPermission \/ AfterProcess
    /\ UNCHANGED <<play, turn, decided, rows, crashes>>

ProcessEnds ==
    /\ at = "process"
    /\ \/ Enter("PostToolUse") /\ UNCHANGED <<step, request, ending, approvals, steps>>
       \/ Finish("process_failed")
    /\ UNCHANGED <<play, turn, decided, rows, crashes>>

\* resolveNativeAgentApproval
Decide ==
    /\ \E f \in DOMAIN approvals, decision \in {"approved", "denied"} :
          /\ approvals[f] = "pending"
          /\ approvals' = [approvals EXCEPT ![f] = decision]
    /\ UNCHANGED <<play, turn, at, step, hook, request, ending, decided, steps, rows, crashes>>

\* A store that throws, or the end of this process: the run stays as it is.
Crash ==
    /\ at \notin {"idle", "ended"}
    /\ crashes < MaxCrashes
    /\ crashes' = crashes + 1
    /\ at' = "idle" /\ hook' = NewHook
    /\ UNCHANGED <<play, turn, step, request, ending, approvals, decided, steps, rows>>

HooksNext == Dispatch \/ LogDecision \/ Observe \/ Proceed \/ ProcessEnds \/ Decide \/ Crash

HooksSpec == HooksInit /\ [][HooksNext]_hookVars

-----------------------------------------------------------------------------
(* What the operator's replay makes of the log.                             *)

\* hookDecisionsFromEvents: an answer that blocked, seen from its record.
ShownBlocking(entry) == ~entry.result.continue \/ entry.result.decision \in {"block", "deny"}

AnswersOfStep(id) == {i \in DOMAIN decided : decided[i].event = "WorkflowStep" /\ decided[i].step = id}

\* Mutant: the first answer of a step is kept.
ShownAnswer_First(id) == decided[CHOOSE i \in AnswersOfStep(id) : \A j \in AnswersOfStep(id) : i <= j]

\* workflowStepsFromEvents: the last answer recorded for a step is its status.
ShownAnswer(id) == decided[CHOOSE i \in AnswersOfStep(id) : \A j \in AnswersOfStep(id) : j <= i]

ShownBlocked(id) == AnswersOfStep(id) # {} /\ ShownBlocking(ShownAnswer(id))

-----------------------------------------------------------------------------
HooksTypeOK ==
    LET results == ResultType(RulesOf(play))
        stepIds == (DOMAIN Workflows) \X (1 .. 4)
    IN  /\ play \in Plays
        /\ turn \in 0 .. Len(play.dispatches)
        /\ at \in HookEvents \cup {"idle", "process", "ended"}
        /\ step \in 0 .. 4
        /\ hook \in [next : Nat, merged : results, answer : results \cup {None}, returned : BOOLEAN]
        /\ ending \in {"open", "waiting", "succeeded", "hook_blocked", "policy_blocked",
                         "approval_denied", "process_failed"}
        /\ \A f \in DOMAIN approvals : approvals[f] \in {"pending", "approved", "denied"}
        /\ ToSet(decided) \subseteq [turn : DOMAIN play.dispatches, event : HookEvents,
                                  step : stepIds \cup {None}, result : results]
        /\ steps \subseteq stepIds
        /\ ToSet(rows) \subseteq [turn : DOMAIN play.dispatches, event : RowEvents, result : results]
        /\ crashes \in 0 .. MaxCrashes

Refuses(result) == ~result.continue \/ result.decision \in {"block", "deny"}

AnswersNow == {decided[i].result : i \in {j \in DOMAIN decided : decided[j].turn = turn}}
PreToolUseNow == {decided[i].result : i \in {j \in DOMAIN decided : decided[j].turn = turn /\ decided[j].event = "PreToolUse"}}

(* The process of a dispatch starts only if neither the command policy nor   *)
(* any hook answer recorded in that dispatch refused it, whatever answers    *)
(* came after: no rule is a way around another rule or the policy.  And if   *)
(* any answer before the tool was "ask", the operator approved the request   *)
(* of this very dispatch: its workflow and its hook result, not those of an  *)
(* earlier dispatch with other rules (NativeRuntimeHookManager.run,          *)
(* executeNativeAgentRun, resolveApprovalGate).                              *)
ProcessWasAllowed ==
    at = "process" =>
        /\ Verdict0.decision # "block"
        /\ \A result \in AnswersNow : ~Refuses(result)
        /\ (\E result \in PreToolUseNow : result.decision = "ask") =>
               /\ request \in DOMAIN approvals /\ approvals[request] = "approved"
               /\ request[1] = WorkflowId

(* What the hooks of an event decide does not depend on the order of the     *)
(* rules: they refuse if anybody they would ask refuses, and otherwise ask   *)
(* if anybody asks (the early return and mergeHookResults together).         *)
RuleOrderIsIrrelevant ==
    at \in HookEvents /\ hook.returned =>
        LET answers == {Answer(at, k) : k \in Observers(at)}
        IN  /\ Refuses(hook.merged) <=> \E result \in answers : Refuses(result)
            /\ ~Refuses(hook.merged) =>
                   ((hook.merged.decision = "ask") <=> \E result \in answers : result.decision = "ask")

(* What the operator is shown of a dispatch agrees with what happened.  As   *)
(* long as no rule overrides "continue", the replay of a finished run shows  *)
(* a step that its last dispatch reached as blocked exactly if that step     *)
(* ended the run (workflowStepsFromEvents keeps a step's last answer).  And  *)
(* the audit table has a row for every answer about a tool, a permission or  *)
(* the end of a run, except at most one per dispatch that was cut short, and *)
(* rows of nothing else (recordRuntimeHook).                                 *)
RecordsAgree ==
    /\ at = "ended" /\ (\A k \in DOMAIN Rules : Rules[k].continue = None) =>
           \A s \in 1 .. step :
               /\ StepId(s) \in steps
               /\ ShownBlocked(StepId(s)) <=> (ending = "hook_blocked" /\ s = step)
    /\ LET due == {i \in DOMAIN decided : decided[i].event \in HookEvents \ {"Start", "WorkflowStep"}}
           open == IF at \in {"PreToolUse", "PermissionRequest", "PostToolUse", "Stop"} /\ hook.answer # None
                     THEN 1 ELSE 0
       IN  Cardinality(due) - Len(rows) \in open .. crashes + open
=============================================================================
