---------------------- MODULE NativeAgentRuntime_proofs ----------------------
(***************************************************************************)
(* Proofs about NativeAgentRuntime, for every set of automation runs,      *)
(* runs, dispatchers, operators and roots.                                 *)
(*                                                                         *)
(* Consistent is inductive.  The lemmas of the first two sections say what *)
(* each statement does to the tables and to the approvals; the lemmas      *)
(* after them, one per action, add what the caller knows afterwards.  The  *)
(* last three sections take one command at a time.                         *)
(***************************************************************************)
EXTENDS NativeAgentRuntime, SequenceTheorems, FiniteSetTheorems, TLAPS

-----------------------------------------------------------------------------
(* The tables.                                                              *)

\* What Consistent says of the two tables.
TablesConsistent ==
    /\ StoreTypeOK
    /\ RowsAgree
    /\ AutomationEndsAfterRun
    /\ RetriesFollowFinishedRuns

\* Rows only gain: they keep their link, and what exists or is over stays so.
RowsGrow ==
    \A r \in AgentRuns :
        /\ Exists(r) => Exists(r)'
        /\ Exists(r) => agentRun'[r].automation = agentRun[r].automation
        /\ Terminal(r) => Terminal(r)'

LEMMA TablesFrame ==
    ASSUME Consistent, UNCHANGED storeVars
    PROVE  TablesConsistent' /\ RowsGrow
BY DEF Consistent, TypeOK, TablesConsistent, StoreTypeOK, storeVars, RowsAgree, RowsGrow,
       AutomationEndsAfterRun, RetriesFollowFinishedRuns, Exists, Terminal, Linked

\* automationStatusForAgentStatus never says "queued", and reports an end only
\* for an end.
LEMMA AutomationStatusOfRun ==
    ASSUME NEW status \in AgentStatus
    PROVE  /\ AutomationStatusFor(status) \in AutomationStatus \ {"queued"}
           /\ status \notin TerminalStatus => AutomationStatusFor(status) = "running"
           /\ status \in TerminalStatus => AutomationStatusFor(status) # "running"
<1>1. CASE status = "succeeded"
  BY <1>1 DEF AutomationStatusFor, AutomationStatus, TerminalStatus
<1>2. CASE status = "cancelled"
  BY <1>2 DEF AutomationStatusFor, AutomationStatus, TerminalStatus
<1>3. CASE status \in {"timed_out", "failed"}
  BY <1>3 DEF AutomationStatusFor, AutomationStatus, TerminalStatus
<1>4. CASE status \in LiveStatus
  BY <1>4 DEF AutomationStatusFor, AutomationStatus, TerminalStatus, LiveStatus
<1> QED
  BY <1>1, <1>2, <1>3, <1>4 DEF AgentStatus, TerminalStatus

\* Writing a live status to a run that exists, or a final one to any run.
LEMMA StatusWritten ==
    ASSUME Consistent, NEW r \in AgentRuns, Exists(r), NEW status \in AgentStatus,
           status \in TerminalStatus \/ ~Terminal(r),
           agentRun' = [agentRun EXCEPT ![r].status = status],
           automation' = automation
    PROVE  TablesConsistent' /\ RowsGrow /\ agentRun'[r].status = status
<1>1. /\ agentRun \in [AgentRuns -> RunRow]
      /\ automation \in [AutomationRuns -> AutomationStatus]
      /\ status # "absent"
  BY DEF Consistent, TypeOK, StoreTypeOK, AgentStatus, TerminalStatus, LiveStatus
<1>2. /\ agentRun'[r] = [agentRun[r] EXCEPT !.status = status]
      /\ \A s \in AgentRuns \ {r} : agentRun'[s] = agentRun[s]
  BY <1>1
<1>3. /\ agentRun'[r].status = status
      /\ agentRun'[r].automation = agentRun[r].automation
      /\ agentRun'[r].attempt = agentRun[r].attempt
      /\ agentRun'[r].retryOf = agentRun[r].retryOf
  BY <1>1, <1>2 DEF RunRow
<1>4. StoreTypeOK'
  <2>1. agentRun'[r] \in RunRow
    BY <1>1, <1>2 DEF RunRow
  <2> QED BY <1>1, <2>1 DEF StoreTypeOK
<1>5. RowsGrow
  BY <1>1, <1>2, <1>3 DEF RowsGrow, Exists, Terminal
<1>6. \A a \in AutomationRuns : Linked(a)' = Linked(a)
  BY <1>2, <1>3 DEF Linked
<1>7. RowsAgree'
  BY <1>1, <1>2, <1>3, <1>6 DEF Consistent, RowsAgree, Exists
<1>8. AutomationEndsAfterRun'
  BY <1>5, <1>6 DEF Consistent, AutomationEndsAfterRun, RowsGrow, Linked
<1>9. RetriesFollowFinishedRuns'
  BY <1>1, <1>2, <1>3, <1>5 DEF Consistent, RetriesFollowFinishedRuns, RowsGrow, RunRow
<1> QED BY <1>3, <1>4, <1>5, <1>7, <1>8, <1>9 DEF TablesConsistent

\* Writing to the linked automation run, by a caller that knows that the run
\* is over if it is to report an end.
LEMMA AutomationWritten ==
    ASSUME Consistent, NEW r \in AgentRuns, NEW status \in AgentStatus,
           agentRun[r].automation # NoAutomation,
           status \in TerminalStatus => Terminal(r),
           MirrorToAutomation(r, status)
    PROVE  TablesConsistent' /\ RowsGrow
<1> DEFINE a == agentRun[r].automation
           s == AutomationStatusFor(status)
<1>1. /\ agentRun \in [AgentRuns -> RunRow]
      /\ automation \in [AutomationRuns -> AutomationStatus]
      /\ a \in AutomationRuns
  BY DEF Consistent, TypeOK, StoreTypeOK, RunRow
<1>2. /\ s \in AutomationStatus \ {"queued"}
      /\ status \notin TerminalStatus => s = "running"
  BY AutomationStatusOfRun
<1> HIDE DEF s
<1>3. /\ automation' = [automation EXCEPT ![a] = s]
      /\ agentRun' = agentRun
  BY DEF MirrorToAutomation, s
<1>4. r \in Linked(a)
  BY DEF Linked
<1>5. \A b \in AutomationRuns : Linked(b)' = Linked(b)
  BY <1>3 DEF Linked
<1>6. StoreTypeOK' /\ RowsGrow
  BY <1>1, <1>2, <1>3 DEF StoreTypeOK, RowsGrow, Exists, Terminal
<1>7. RowsAgree'
  BY <1>1, <1>2, <1>3, <1>4, <1>5 DEF Consistent, RowsAgree, Exists
<1>8. AutomationEndsAfterRun'
  BY <1>1, <1>2, <1>3, <1>4, <1>5 DEF Consistent, AutomationEndsAfterRun, Terminal
<1>9. RetriesFollowFinishedRuns'
  BY <1>3 DEF Consistent, RetriesFollowFinishedRuns, Terminal
<1> QED BY <1>6, <1>7, <1>8, <1>9 DEF TablesConsistent

\* A claim links a run that did not exist to an automation run that had none.
LEMMA RunClaimed ==
    ASSUME Consistent, NEW a \in AutomationRuns, NEW r \in AgentRuns,
           ClaimAutomationRun(a, r)
    PROVE  TablesConsistent' /\ RowsGrow /\ Exists(r)' /\ agentRun' # agentRun
<1> DEFINE row == [status |-> "running", automation |-> a, attempt |-> 1, retryOf |-> NoRun]
<1>1. /\ agentRun \in [AgentRuns -> RunRow]
      /\ automation \in [AutomationRuns -> AutomationStatus]
      /\ a # NoAutomation
  BY StoreAssumption DEF Consistent, TypeOK, StoreTypeOK
<1>2. Linked(a) = {} /\ agentRun[r] = AbsentRow
  BY DEF Consistent, RowsAgree, ClaimAutomationRun, Exists
<1>3. /\ automation' = [automation EXCEPT ![a] = "running"]
      /\ agentRun' = [agentRun EXCEPT ![r] = row]
  BY <1>2 DEF ClaimAutomationRun
<1>4. row \in RunRow
  BY DEF RunRow, AgentStatus, LiveStatus
<1>5. /\ row.status = "running" /\ row.automation = a /\ row.retryOf = NoRun
      /\ AbsentRow.status = "absent" /\ AbsentRow.automation = NoAutomation
  BY DEF AbsentRow
<1> HIDE DEF row
<1>6. StoreTypeOK'
  BY <1>1, <1>3, <1>4 DEF StoreTypeOK, AutomationStatus
<1>7. RowsGrow
  BY <1>1, <1>2, <1>3, <1>5 DEF RowsGrow, Exists, Terminal, TerminalStatus
<1>8. /\ Linked(a)' = {r}
      /\ \A b \in AutomationRuns \ {a} : Linked(b)' = Linked(b)
  BY <1>1, <1>2, <1>3, <1>5, StoreAssumption DEF Linked
<1>9. RowsAgree'
  <2>1. \A s \in AgentRuns : ~Exists(s)' => agentRun'[s] = AbsentRow
    BY <1>1, <1>3, <1>5 DEF Consistent, RowsAgree, Exists
  <2>2. \A b \in AutomationRuns : \A s, t \in Linked(b)' : s = t
    BY <1>8 DEF Consistent, RowsAgree
  <2>3. \A b \in AutomationRuns : automation'[b] = "queued" <=> Linked(b)' = {}
    BY <1>1, <1>3, <1>8 DEF Consistent, RowsAgree
  <2> QED BY <2>1, <2>2, <2>3 DEF RowsAgree
<1>10. AutomationEndsAfterRun'
  <2> SUFFICES ASSUME NEW b \in AutomationRuns,
                      automation'[b] \in AutomationStatus \ {"queued", "running"}
               PROVE  \E s \in Linked(b)' : Terminal(s)'
    BY DEF AutomationEndsAfterRun
  <2>1. b # a /\ automation'[b] = automation[b]
    BY <1>1, <1>3
  <2> QED BY <1>7, <1>8, <2>1 DEF Consistent, AutomationEndsAfterRun, RowsGrow, Linked
<1>11. RetriesFollowFinishedRuns'
  <2> SUFFICES ASSUME NEW s \in AgentRuns, agentRun'[s].retryOf # NoRun
               PROVE  /\ agentRun'[s].retryOf # s
                      /\ agentRun'[agentRun'[s].retryOf].status \in TerminalStatus
                      /\ agentRun'[s].attempt
                            = agentRun'[agentRun'[s].retryOf].attempt + 1
    BY DEF RetriesFollowFinishedRuns, Terminal
  <2>1. agentRun'[s] = agentRun[s] /\ agentRun[s].retryOf \in AgentRuns
    BY <1>1, <1>3, <1>5 DEF RunRow
  <2>2. Terminal(agentRun[s].retryOf)
    BY <2>1 DEF Consistent, RetriesFollowFinishedRuns
  <2>3. agentRun'[agentRun[s].retryOf] = agentRun[agentRun[s].retryOf]
    BY <1>1, <1>2, <1>3, <1>5, <2>1, <2>2 DEF Terminal, TerminalStatus
  <2> QED
    BY <2>1, <2>2, <2>3 DEF Consistent, RetriesFollowFinishedRuns, Terminal
<1>12. Exists(r)' /\ agentRun' # agentRun
  BY <1>1, <1>2, <1>3, <1>5 DEF Exists
<1> QED BY <1>6, <1>7, <1>9, <1>10, <1>11, <1>12 DEF TablesConsistent

\* A retry of a run that is over.
LEMMA RetryCreated ==
    ASSUME Consistent, NEW source \in AgentRuns, NEW r \in AgentRuns,
           Terminal(source), CreateRetryRun(source, r)
    PROVE  TablesConsistent' /\ RowsGrow
<1> DEFINE row == [status |-> "queued", automation |-> NoAutomation,
                   attempt |-> agentRun[source].attempt + 1, retryOf |-> source]
<1>1. /\ agentRun \in [AgentRuns -> RunRow]
      /\ automation \in [AutomationRuns -> AutomationStatus]
  BY DEF Consistent, TypeOK, StoreTypeOK
<1>2. agentRun[r] = AbsentRow /\ source # r
  BY DEF Consistent, RowsAgree, CreateRetryRun, Exists, Terminal, TerminalStatus
<1>3. /\ automation' = automation
      /\ agentRun' = [agentRun EXCEPT ![r] = row]
  BY DEF CreateRetryRun
<1>4. row \in RunRow
  BY <1>1 DEF RunRow, AgentStatus, LiveStatus
<1>5. /\ row.status = "queued" /\ row.automation = NoAutomation
      /\ row.attempt = agentRun[source].attempt + 1 /\ row.retryOf = source
      /\ AbsentRow.status = "absent" /\ AbsentRow.automation = NoAutomation
      /\ AbsentRow.retryOf = NoRun
  BY DEF AbsentRow
<1> HIDE DEF row
<1>6. StoreTypeOK'
  BY <1>1, <1>3, <1>4 DEF StoreTypeOK
<1>7. RowsGrow
  BY <1>1, <1>2, <1>3, <1>5 DEF RowsGrow, Exists, Terminal, TerminalStatus
<1>8. \A b \in AutomationRuns : Linked(b)' = Linked(b)
  BY <1>1, <1>2, <1>3, <1>5, StoreAssumption DEF Linked
<1>9. RowsAgree'
  BY <1>1, <1>3, <1>5, <1>8 DEF Consistent, RowsAgree, Exists
<1>10. AutomationEndsAfterRun'
  BY <1>3, <1>7, <1>8 DEF Consistent, AutomationEndsAfterRun, RowsGrow, Linked
<1>11. RetriesFollowFinishedRuns'
  <2> SUFFICES ASSUME NEW s \in AgentRuns, agentRun'[s].retryOf # NoRun
               PROVE  /\ agentRun'[s].retryOf # s
                      /\ agentRun'[agentRun'[s].retryOf].status \in TerminalStatus
                      /\ agentRun'[s].attempt
                            = agentRun'[agentRun'[s].retryOf].attempt + 1
    BY DEF RetriesFollowFinishedRuns, Terminal
  <2>1. CASE s = r
    BY <1>1, <1>2, <1>3, <1>5, <2>1 DEF Terminal
  <2>2. CASE s # r
    <3>1. agentRun'[s] = agentRun[s] /\ agentRun[s].retryOf \in AgentRuns
      BY <1>1, <1>3, <2>2 DEF RunRow
    <3>2. Terminal(agentRun[s].retryOf)
      BY <3>1 DEF Consistent, RetriesFollowFinishedRuns
    <3>3. agentRun[s].retryOf # r
      BY <1>2, <1>5, <3>2 DEF Terminal, TerminalStatus
    <3>4. agentRun'[agentRun[s].retryOf] = agentRun[agentRun[s].retryOf]
      BY <1>1, <1>3, <3>1, <3>3
    <3> QED
      BY <3>1, <3>2, <3>4 DEF Consistent, RetriesFollowFinishedRuns, Terminal
  <2> QED BY <2>1, <2>2
<1> QED BY <1>6, <1>7, <1>9, <1>10, <1>11 DEF TablesConsistent

-----------------------------------------------------------------------------
(* The approvals.                                                           *)

\* A growing approval list keeps its indices.
ApprovalsGrow == \A r \in AgentRuns : DOMAIN approvals[r] \subseteq DOMAIN approvals'[r]

ApprovalsOK == approvals \in [AgentRuns -> Seq(Approval)]

LEMMA ApprovalAdded ==
    ASSUME Consistent, NEW r \in AgentRuns, NEW approval \in Approval,
           approvals' = [approvals EXCEPT ![r] = Append(@, approval)]
    PROVE  ApprovalsOK' /\ ApprovalsGrow
<1>1. approvals \in [AgentRuns -> Seq(Approval)]
  BY DEF Consistent, TypeOK
<1>2. /\ Append(approvals[r], approval) \in Seq(Approval)
      /\ Len(Append(approvals[r], approval)) = Len(approvals[r]) + 1
  BY <1>1, AppendProperties
<1>3. DOMAIN approvals[r] \subseteq DOMAIN Append(approvals[r], approval)
  BY <1>1, <1>2, LenProperties
<1> QED BY <1>1, <1>2, <1>3 DEF ApprovalsOK, ApprovalsGrow

LEMMA ApprovalReplaced ==
    ASSUME Consistent, NEW r \in AgentRuns, NEW i \in DOMAIN approvals[r],
           NEW approval \in Approval,
           approvals' = [approvals EXCEPT ![r][i] = approval]
    PROVE  ApprovalsOK' /\ ApprovalsGrow
<1>1. approvals \in [AgentRuns -> Seq(Approval)]
  BY DEF Consistent, TypeOK
<1>2. approvals' = [approvals EXCEPT ![r] = [approvals[r] EXCEPT ![i] = approval]]
  BY <1>1
<1>3. [approvals[r] EXCEPT ![i] = approval] \in Seq(Approval)
  BY <1>1, ExceptSeq, LenProperties
<1>4. DOMAIN [approvals[r] EXCEPT ![i] = approval] = DOMAIN approvals[r]
  OBVIOUS
<1> QED BY <1>1, <1>2, <1>3, <1>4 DEF ApprovalsOK, ApprovalsGrow

LEMMA DecisionRecorded ==
    ASSUME Consistent, NEW r \in AgentRuns, NEW i \in DOMAIN approvals[r],
           NEW decision \in {"approved", "denied", "expired"},
           RecordDecision(r, i, decision)
    PROVE  ApprovalsOK' /\ ApprovalsGrow
<1> DEFINE old == approvals[r][i]
           new == [old EXCEPT !.status = decision, !.decisions = old.decisions \cup {decision}]
<1>1. old \in Approval
  <2>1. approvals[r] \in Seq(Approval)
    BY DEF Consistent, TypeOK
  <2> QED BY <2>1, LenProperties
<1>2. new \in Approval
  BY <1>1 DEF Approval
<1>3. approvals' = [approvals EXCEPT ![r][i] = new]
  BY DEF RecordDecision
<1> QED BY <1>2, <1>3, ApprovalReplaced

-----------------------------------------------------------------------------
(* Assembly: what is left to show of a caller's step.                       *)

LEMMA DispatcherFrame ==
    ASSUME Consistent, RowsGrow, ApprovalsGrow,
           NEW d \in Dispatchers, pc'[d] = pc[d], job'[d] = job[d]
    PROVE  DispatchKnows(d)'
BY DEF Consistent, RowsGrow, ApprovalsGrow, DispatchKnows

LEMMA OperatorFrame ==
    ASSUME Consistent, RowsGrow, ApprovalsGrow,
           NEW o \in Operators, opPc'[o] = opPc[o], command'[o] = command[o]
    PROVE  CommandKnows(o)'
<1>1. \A r \in AgentRuns : Terminal(r) => Exists(r)
  BY DEF Terminal, Exists, TerminalStatus
<1> QED BY <1>1 DEF Consistent, RowsGrow, ApprovalsGrow, CommandKnows

LEMMA Frame ==
    ASSUME Consistent
    PROVE  /\ UNCHANGED storeVars => TablesConsistent' /\ RowsGrow
           /\ UNCHANGED approvals => ApprovalsOK' /\ ApprovalsGrow
BY TablesFrame DEF Consistent, TypeOK, ApprovalsOK, ApprovalsGrow

\* A dispatch moves to `next` with the local variables `local`.
LEMMA DispatchAssembly ==
    ASSUME Consistent, NEW d \in Dispatchers,
           TablesConsistent', RowsGrow, ApprovalsOK', ApprovalsGrow,
           NEW next \in DispatcherPC, pc' = [pc EXCEPT ![d] = next],
           NEW local \in Job, job' = [job EXCEPT ![d] = local],
           process' \in [Dispatchers -> {"none", "running"}],
           log' \in [AgentRuns -> SUBSET Announcements],
           DispatchKnows(d)',
           UNCHANGED commands
    PROVE  Consistent'
<1>1. TypeOK'
  BY DEF Consistent, TypeOK, TablesConsistent, ApprovalsOK, commands
<1>2. \A e \in Dispatchers \ {d} : pc'[e] = pc[e] /\ job'[e] = job[e]
  BY DEF Consistent, TypeOK
<1>3. \A e \in Dispatchers : DispatchKnows(e)'
  BY <1>2, DispatcherFrame
<1>4. \A o \in Operators : CommandKnows(o)'
  BY OperatorFrame DEF commands
<1> QED BY <1>1, <1>3, <1>4 DEF Consistent, TablesConsistent

\* The same for a command of an operator.
LEMMA OperatorAssembly ==
    ASSUME Consistent, NEW o \in Operators,
           TablesConsistent', RowsGrow, ApprovalsOK', ApprovalsGrow,
           NEW next \in OperatorPC, opPc' = [opPc EXCEPT ![o] = next],
           NEW local \in Command, command' = [command EXCEPT ![o] = local],
           log' \in [AgentRuns -> SUBSET Announcements],
           CommandKnows(o)',
           UNCHANGED callers
    PROVE  Consistent'
<1>1. TypeOK'
  BY DEF Consistent, TypeOK, TablesConsistent, ApprovalsOK, callers
<1>2. \A p \in Operators \ {o} : opPc'[p] = opPc[p] /\ command'[p] = command[p]
  BY DEF Consistent, TypeOK
<1>3. \A e \in Dispatchers : DispatchKnows(e)'
  BY DispatcherFrame DEF callers
<1>4. \A p \in Operators : CommandKnows(p)'
  BY <1>2, OperatorFrame
<1> QED BY <1>1, <1>3, <1>4 DEF Consistent, TablesConsistent

\* What Consistent gives about one dispatch and one command.
LEMMA LocalTypes ==
    ASSUME Consistent
    PROVE  /\ \A d \in Dispatchers : job[d] \in Job /\ DispatchKnows(d)
           /\ \A o \in Operators : command[o] \in Command /\ CommandKnows(o)
           /\ NoJob \in Job /\ NoCommand \in Command
           /\ pc \in [Dispatchers -> DispatcherPC] /\ job \in [Dispatchers -> Job]
           /\ opPc \in [Operators -> OperatorPC] /\ command \in [Operators -> Command]
           /\ process \in [Dispatchers -> {"none", "running"}]
           /\ log \in [AgentRuns -> SUBSET Announcements]
BY DEF Consistent, TypeOK, Job, NoJob, Command, NoCommand, AgentStatus, LiveStatus,
       DispatcherPC, Decisions

-----------------------------------------------------------------------------
(* The steps of a dispatch.                                                 *)

\* SetStatus, after which the dispatch writes to the automation run or goes on.
LEMMA SetStatusStep ==
    ASSUME Consistent, NEW d \in Dispatchers, pc[d] # "idle",
           NEW status \in LiveStatus, NEW next \in {"idle", "starting", "tool"},
           SetStatus(d, status, next),
           UNCHANGED <<approvals, log, opPc, command>>
    PROVE  Consistent'
<1>1. PICK r \in AgentRuns : r = job[d].run /\ Exists(r) /\ job[d] \in Job
  BY LocalTypes DEF DispatchKnows
<1>2. TablesConsistent' /\ RowsGrow
  <2>1. CASE Terminal(r)
    BY <1>1, <2>1, TablesFrame DEF SetStatus, SetAgentRunRow, storeVars
  <2>2. CASE ~Terminal(r)
    BY <1>1, <2>2, StatusWritten DEF SetStatus, SetAgentRunRow, AgentStatus
  <2> QED BY <2>1, <2>2
<1>3. ApprovalsOK' /\ ApprovalsGrow /\ UNCHANGED commands
  BY Frame DEF commands
<1>4. log' \in [AgentRuns -> SUBSET Announcements]
  BY LocalTypes
<1>5. CASE ~Terminal(r) /\ agentRun[r].automation # NoAutomation
  <2> DEFINE local == [job[d] EXCEPT !.status = status, !.next = next]
  <2>1. /\ pc' = [pc EXCEPT ![d] = "mirror"] /\ "mirror" \in DispatcherPC
        /\ job' = [job EXCEPT ![d] = local]
        /\ UNCHANGED process
    BY <1>1, <1>5 DEF SetStatus, ThenMirror, Goto, DispatcherPC
  <2>2. /\ local \in Job
        /\ local.run = r /\ local.status = status /\ local.next = next
    BY <1>1 DEF Job, AgentStatus, DispatcherPC
  <2>3. DispatchKnows(d)'
    <3>1. job'[d].run = r /\ job'[d].status = status /\ job'[d].next = next /\ pc'[d] = "mirror"
      BY <2>1, <2>2, LocalTypes
    <3>2. agentRun'[r].automation # NoAutomation /\ Exists(r)'
      BY <1>1, <1>2, <1>5 DEF RowsGrow
    <3> QED BY <1>1, <3>1, <3>2 DEF DispatchKnows, LiveStatus, TerminalStatus, Exists
  <2> HIDE DEF local
  <2>4. process' \in [Dispatchers -> {"none", "running"}]
    BY <2>1, LocalTypes
  <2> QED BY <1>2, <1>3, <1>4, <2>1, <2>2, <2>3, <2>4, DispatchAssembly
<1>6. CASE ~(~Terminal(r) /\ agentRun[r].automation # NoAutomation)
  <2> DEFINE local == IF next = "idle" THEN NoJob ELSE job[d]
  <2>1. /\ pc' = [pc EXCEPT ![d] = next] /\ next \in DispatcherPC
        /\ job' = [job EXCEPT ![d] = local]
        /\ process' \in [Dispatchers -> {"none", "running"}]
    BY <1>1, <1>6, LocalTypes DEF SetStatus, Return, Goto, DispatcherPC
  <2>2. local \in Job /\ (next # "idle" => local.run = r)
    BY <1>1, LocalTypes
  <2>3. DispatchKnows(d)'
    <3>1. pc'[d] = next /\ (next # "idle" => job'[d].run = r)
      BY <2>1, <2>2, LocalTypes
    <3> QED BY <1>1, <1>2, <3>1 DEF DispatchKnows, RowsGrow, Exists
  <2> HIDE DEF local
  <2> QED BY <1>2, <1>3, <1>4, <2>1, <2>2, <2>3, DispatchAssembly
<1> QED BY <1>5, <1>6

LEMMA MarkRunningStep ==
    ASSUME Consistent, NEW d \in Dispatchers, MarkRunning(d)
    PROVE  Consistent'
BY SetStatusStep DEF MarkRunning, LiveStatus

LEMMA WaitForApprovalStep ==
    ASSUME Consistent, NEW d \in Dispatchers, WaitForApproval(d)
    PROVE  Consistent'
BY SetStatusStep DEF WaitForApproval, LiveStatus

LEMMA AcceptApprovalStep ==
    ASSUME Consistent, NEW d \in Dispatchers, AcceptApproval(d)
    PROVE  Consistent'
BY SetStatusStep DEF AcceptApproval, LiveStatus

LEMMA DispatchOnceStep ==
    ASSUME Consistent, NEW d \in Dispatchers, NEW a \in AutomationRuns,
           NEW r \in AgentRuns, NEW root \in Roots, DispatchOnce(d, a, r, root)
    PROVE  Consistent'
<1> DEFINE local == [job[d] EXCEPT !.run = r, !.root = root]
<1>1. TablesConsistent' /\ RowsGrow /\ Exists(r)' /\ agentRun' # agentRun
  BY RunClaimed DEF DispatchOnce
<1>2. /\ pc' = [pc EXCEPT ![d] = "starting"] /\ "starting" \in DispatcherPC
      /\ job' = [job EXCEPT ![d] = local]
      /\ UNCHANGED <<process, approvals, log, commands>>
  BY <1>1 DEF DispatchOnce, Goto, commands, DispatcherPC
<1>3. local \in Job /\ local.run = r
  BY LocalTypes DEF Job
<1> HIDE DEF local
<1>4. DispatchKnows(d)'
  <2>1. pc'[d] = "starting" /\ job'[d].run = r
    BY <1>2, <1>3, LocalTypes
  <2> QED BY <1>1, <2>1 DEF DispatchKnows, Exists
<1>5. ApprovalsOK' /\ ApprovalsGrow
  BY <1>2, Frame
<1>6. /\ process' \in [Dispatchers -> {"none", "running"}]
      /\ log' \in [AgentRuns -> SUBSET Announcements]
  BY <1>2, LocalTypes
<1> QED BY <1>1, <1>2, <1>3, <1>4, <1>5, <1>6, DispatchAssembly

LEMMA MirrorStep ==
    ASSUME Consistent, NEW d \in Dispatchers, Mirror(d)
    PROVE  Consistent'
<1> DEFINE next == job[d].next
           local == IF next = "idle" THEN NoJob ELSE job[d]
<1>1. /\ job[d] \in Job /\ DispatchKnows(d) /\ pc[d] = "mirror"
      /\ job[d].run \in AgentRuns /\ Exists(job[d].run)
      /\ job[d].status \in AgentStatus /\ next \in {"idle", "starting", "tool"}
  BY LocalTypes DEF Mirror, DispatchKnows, Job
<1>2. TablesConsistent' /\ RowsGrow
  BY <1>1, AutomationWritten DEF Mirror, DispatchKnows
<1>3. /\ pc' = [pc EXCEPT ![d] = next] /\ next \in DispatcherPC
      /\ job' = [job EXCEPT ![d] = local] /\ local \in Job
      /\ process' \in [Dispatchers -> {"none", "running"}]
      /\ UNCHANGED <<approvals, log, commands>>
  BY <1>1, LocalTypes DEF Mirror, Return, Goto, commands, DispatcherPC
<1>4. DispatchKnows(d)'
  <2>1. pc'[d] = next /\ (next # "idle" => job'[d].run = job[d].run)
    BY <1>3, LocalTypes
  <2> QED BY <1>1, <1>2, <2>1 DEF DispatchKnows, RowsGrow, Exists
<1>5. ApprovalsOK' /\ ApprovalsGrow /\ log' \in [AgentRuns -> SUBSET Announcements]
  BY <1>3, Frame, LocalTypes
<1> HIDE DEF local, next
<1> QED BY <1>2, <1>3, <1>4, <1>5, DispatchAssembly

LEMMA FinishRunStep ==
    ASSUME Consistent, NEW d \in Dispatchers, FinishRun(d)
    PROVE  Consistent'
<1>1. PICK r \in AgentRuns, status \in AgentStatus :
         /\ r = job[d].run /\ Exists(r) /\ job[d] \in Job /\ pc[d] = "finish"
         /\ status = job[d].status /\ status \in TerminalStatus
  BY LocalTypes DEF FinishRun, DispatchKnows, Job
<1> DEFINE linked == agentRun[r].automation # NoAutomation
           next == IF linked THEN "mirror" ELSE "idle"
           local == IF linked THEN [job[d] EXCEPT !.status = status, !.next = "idle"]
                              ELSE NoJob
<1>2. TablesConsistent' /\ RowsGrow /\ Terminal(r)'
  BY <1>1, StatusWritten DEF FinishRun, FinishAgentRunRow, Terminal
<1>3. /\ pc' = [pc EXCEPT ![d] = next] /\ next \in DispatcherPC
      /\ job' = [job EXCEPT ![d] = local]
      /\ process' \in [Dispatchers -> {"none", "running"}]
      /\ UNCHANGED <<approvals, log, commands>>
  BY <1>1, LocalTypes DEF FinishRun, ThenMirror, Return, Goto, commands, DispatcherPC
<1>4. local \in Job /\ (linked => local.run = r /\ local.next = "idle")
  BY <1>1, LocalTypes DEF Job, DispatcherPC
<1>5. DispatchKnows(d)'
  <2>1. pc'[d] = next /\ (linked => job'[d].run = r /\ job'[d].next = "idle")
    BY <1>3, <1>4, LocalTypes
  <2>2. linked => agentRun'[r].automation # NoAutomation
    BY <1>1, <1>2 DEF RowsGrow
  <2> QED BY <1>1, <1>2, <2>1, <2>2 DEF DispatchKnows, RowsGrow, Exists
<1>6. ApprovalsOK' /\ ApprovalsGrow /\ log' \in [AgentRuns -> SUBSET Announcements]
  BY <1>3, Frame, LocalTypes
<1> HIDE DEF local, next
<1> QED BY <1>2, <1>3, <1>4, <1>5, <1>6, DispatchAssembly

\* A step that leaves the tables alone: what the dispatch has to know next.
LEMMA LocalStep ==
    ASSUME Consistent, NEW d \in Dispatchers,
           UNCHANGED <<automation, agentRun, opPc, command>>, ApprovalsOK', ApprovalsGrow,
           NEW next \in DispatcherPC, pc' = [pc EXCEPT ![d] = next],
           NEW local \in Job, job' = [job EXCEPT ![d] = local],
           process' \in [Dispatchers -> {"none", "running"}],
           log' \in [AgentRuns -> SUBSET Announcements],
           next # "mirror",
           next # "idle" => local.run \in AgentRuns /\ Exists(local.run),
           next \in {"fail", "succeed", "finish"} => local.status \in TerminalStatus,
           next \in {"expire", "expireWrite"} => local.approval \in DOMAIN approvals[local.run]
    PROVE  Consistent'
<1>1. pc'[d] = next /\ job'[d] = local
  BY LocalTypes
<1>2. DispatchKnows(d)'
  BY <1>1 DEF DispatchKnows, Exists, ApprovalsGrow
<1> QED BY <1>2, Frame, DispatchAssembly DEF storeVars, commands

\* The same for a step that changes nothing but the dispatch itself.
LEMMA Moved ==
    ASSUME Consistent, NEW d \in Dispatchers, pc[d] # "idle",
           UNCHANGED <<automation, agentRun, process, approvals, log, opPc, command>>,
           NEW next \in DispatcherPC \ {"idle", "mirror"}, Goto(d, next),
           NEW local \in Job, job' = [job EXCEPT ![d] = local], local.run = job[d].run,
           next \in {"fail", "succeed", "finish"} => local.status \in TerminalStatus,
           next \in {"expire", "expireWrite"} => local.approval \in DOMAIN approvals[local.run]
    PROVE  Consistent'
<1>1. pc' = [pc EXCEPT ![d] = next]
  BY DEF Goto
<1>2. local.run \in AgentRuns /\ Exists(local.run)
  BY LocalTypes DEF DispatchKnows
<1>3. ApprovalsOK' /\ ApprovalsGrow
  BY Frame
<1>4. /\ process' \in [Dispatchers -> {"none", "running"}]
      /\ log' \in [AgentRuns -> SUBSET Announcements]
  BY LocalTypes
<1> QED BY <1>1, <1>2, <1>3, <1>4, LocalStep

\* Deciding on an approval leads to waiting, accepting or failing.
LEMMA Decided ==
    ASSUME Consistent, NEW d \in Dispatchers, pc[d] # "idle",
           NEW status \in {"pending", "approved", "denied", "expired"}, Decide(d, status),
           UNCHANGED <<automation, agentRun, process, log, opPc, command>>,
           ApprovalsOK', ApprovalsGrow
    PROVE  Consistent'
<1> DEFINE target == IF status = "expired" THEN "timed_out" ELSE "failed"
           local == [job[d] EXCEPT !.approval = 0, !.status = target]
<1>1. job[d] \in Job /\ job[d].run \in AgentRuns /\ Exists(job[d].run)
  BY LocalTypes DEF DispatchKnows
<1>2. /\ local \in Job /\ local.run = job[d].run
      /\ local.status \in TerminalStatus
  BY <1>1 DEF Job, AgentStatus, TerminalStatus
<1>3. job' = [job EXCEPT ![d] = local]
  BY DEF Decide
<1> HIDE DEF local
<1>4. PICK next \in {"wait", "accept", "fail"} : pc' = [pc EXCEPT ![d] = next]
  <2>1. CASE status = "pending"
    BY <2>1 DEF Decide, Goto
  <2>2. CASE status = "approved"
    BY <2>2 DEF Decide, Goto
  <2>3. CASE status \in {"denied", "expired"}
    BY <2>3 DEF Decide, Goto
  <2> QED BY <2>1, <2>2, <2>3
<1>5. next \in DispatcherPC
  BY DEF DispatcherPC
<1> QED BY <1>1, <1>2, <1>3, <1>4, <1>5, LocalTypes, LocalStep

LEMMA DispatchRunStep ==
    ASSUME Consistent, NEW d \in Dispatchers, NEW r \in AgentRuns, NEW root \in Roots, DispatchRun(d, r, root)
    PROVE  Consistent'
<1> DEFINE next == IF agentRun[r].status \in {"queued", "claiming"} THEN "begin" ELSE "starting"
           local == [job[d] EXCEPT !.run = r, !.root = root]
<1>1. job[d] \in Job /\ DispatchKnows(d)
  BY LocalTypes
<1>2. /\ pc' = [pc EXCEPT ![d] = next] /\ next \in DispatcherPC
      /\ job' = [job EXCEPT ![d] = local]
      /\ UNCHANGED <<automation, agentRun, approvals, opPc, command>>
  BY <1>1, LocalTypes DEF DispatchRun, Goto, Return, DispatcherPC
<1>3. /\ process' \in [Dispatchers -> {"none", "running"}]
      /\ log' \in [AgentRuns -> SUBSET Announcements]
  BY LocalTypes DEF DispatchRun, Return, Log, Announcements
<1>4. local \in Job
  BY <1>1, LocalTypes DEF Job, AgentStatus, TerminalStatus
<1>5. next # "idle" => local.run \in AgentRuns /\ Exists(local.run)
  BY <1>1 DEF DispatchRun, DispatchKnows, Job
<1>6. next \in {"fail", "succeed", "finish"} => local.status \in TerminalStatus
  BY <1>1 DEF DispatchRun, DispatchKnows, Job, TerminalStatus
<1>7. next \notin {"mirror", "expire", "expireWrite"}
  OBVIOUS
<1> HIDE DEF local, next
<1> QED BY <1>2, <1>3, <1>4, <1>5, <1>6, <1>7, Frame, LocalStep

LEMMA RefuseStep ==
    ASSUME Consistent, NEW d \in Dispatchers, Refuse(d)
    PROVE  Consistent'
<1> DEFINE next == "fail"
           local == [job[d] EXCEPT !.status = "failed"]
<1>1. job[d] \in Job /\ DispatchKnows(d)
  BY LocalTypes
<1>2. /\ pc' = [pc EXCEPT ![d] = next] /\ next \in DispatcherPC
      /\ job' = [job EXCEPT ![d] = local]
      /\ UNCHANGED <<automation, agentRun, approvals, opPc, command>>
  BY <1>1, LocalTypes DEF Refuse, Goto, Return, DispatcherPC
<1>3. /\ process' \in [Dispatchers -> {"none", "running"}]
      /\ log' \in [AgentRuns -> SUBSET Announcements]
  BY LocalTypes DEF Refuse, Return, Log, Announcements
<1>4. local \in Job
  BY <1>1, LocalTypes DEF Job, AgentStatus, TerminalStatus
<1>5. next # "idle" => local.run \in AgentRuns /\ Exists(local.run)
  BY <1>1 DEF Refuse, DispatchKnows, Job
<1>6. next \in {"fail", "succeed", "finish"} => local.status \in TerminalStatus
  BY <1>1 DEF Refuse, DispatchKnows, Job, TerminalStatus
<1>7. next \notin {"mirror", "expire", "expireWrite"}
  OBVIOUS
<1> HIDE DEF local, next
<1> QED BY <1>2, <1>3, <1>4, <1>5, <1>6, <1>7, Frame, LocalStep

LEMMA RejectRootStep ==
    ASSUME Consistent, NEW d \in Dispatchers, RejectRoot(d)
    PROVE  Consistent'
<1> DEFINE next == "idle"
           local == NoJob
<1>1. job[d] \in Job /\ DispatchKnows(d)
  BY LocalTypes
<1>2. /\ pc' = [pc EXCEPT ![d] = next] /\ next \in DispatcherPC
      /\ job' = [job EXCEPT ![d] = local]
      /\ UNCHANGED <<automation, agentRun, approvals, opPc, command>>
  BY <1>1, LocalTypes DEF RejectRoot, Goto, Return, DispatcherPC
<1>3. /\ process' \in [Dispatchers -> {"none", "running"}]
      /\ log' \in [AgentRuns -> SUBSET Announcements]
  BY LocalTypes DEF RejectRoot, Return, Log, Announcements
<1>4. local \in Job
  BY <1>1, LocalTypes DEF Job, AgentStatus, TerminalStatus
<1>5. next # "idle" => local.run \in AgentRuns /\ Exists(local.run)
  BY <1>1 DEF RejectRoot, DispatchKnows, Job
<1>6. next \in {"fail", "succeed", "finish"} => local.status \in TerminalStatus
  BY <1>1 DEF RejectRoot, DispatchKnows, Job, TerminalStatus
<1>7. next \notin {"mirror", "expire", "expireWrite"}
  OBVIOUS
<1> HIDE DEF local, next
<1> QED BY <1>2, <1>3, <1>4, <1>5, <1>6, <1>7, Frame, LocalStep

LEMMA ProceedStep ==
    ASSUME Consistent, NEW d \in Dispatchers, Proceed(d)
    PROVE  Consistent'
<1>0. PICK verdict \in Verdicts \cap {"ask", "allow"} :
         /\ pc' = [pc EXCEPT ![d] = IF verdict = "ask" THEN "gate" ELSE "tool"]
         /\ job' = [job EXCEPT ![d].asked = (verdict = "ask")]
  BY DEF Proceed, Goto
<1> DEFINE next == IF verdict = "ask" THEN "gate" ELSE "tool"
           local == [job[d] EXCEPT !.asked = (verdict = "ask")]
<1>1. job[d] \in Job /\ DispatchKnows(d)
  BY LocalTypes
<1>2. /\ pc' = [pc EXCEPT ![d] = next] /\ next \in DispatcherPC
      /\ job' = [job EXCEPT ![d] = local]
      /\ UNCHANGED <<automation, agentRun, approvals, opPc, command>>
  BY <1>0, <1>1, LocalTypes DEF Proceed, Goto, Return, DispatcherPC
<1>3. /\ process' \in [Dispatchers -> {"none", "running"}]
      /\ log' \in [AgentRuns -> SUBSET Announcements]
  BY <1>0, LocalTypes DEF Proceed, Return, Log, Announcements
<1>4. local \in Job
  BY ZenonT(40), <1>0, <1>1, LocalTypes DEF Job, AgentStatus, TerminalStatus
<1>5. next # "idle" => local.run \in AgentRuns /\ Exists(local.run)
  BY <1>0, <1>1 DEF Proceed, DispatchKnows, Job
<1>6. next \in {"fail", "succeed", "finish"} => local.status \in TerminalStatus
  BY <1>0, <1>1 DEF Proceed, DispatchKnows, Job, TerminalStatus
<1>7. next \notin {"mirror", "expire", "expireWrite"}
  OBVIOUS
<1> HIDE DEF local, next
<1> QED BY <1>2, <1>3, <1>4, <1>5, <1>6, <1>7, Frame, LocalStep

LEMMA StartProcessStep ==
    ASSUME Consistent, NEW d \in Dispatchers, StartProcess(d)
    PROVE  Consistent'
<1> DEFINE next == "reading"
           local == job[d]
<1>1. job[d] \in Job /\ DispatchKnows(d)
  BY LocalTypes
<1>2. /\ pc' = [pc EXCEPT ![d] = next] /\ next \in DispatcherPC
      /\ job' = [job EXCEPT ![d] = local]
      /\ UNCHANGED <<automation, agentRun, approvals, opPc, command>>
  BY <1>1, LocalTypes DEF StartProcess, Goto, Return, DispatcherPC
<1>3. /\ process' \in [Dispatchers -> {"none", "running"}]
      /\ log' \in [AgentRuns -> SUBSET Announcements]
  BY LocalTypes DEF StartProcess, Return, Log, Announcements
<1>4. local \in Job
  BY <1>1, LocalTypes DEF Job, AgentStatus, TerminalStatus
<1>5. next # "idle" => local.run \in AgentRuns /\ Exists(local.run)
  BY <1>1 DEF StartProcess, DispatchKnows, Job
<1>6. next \in {"fail", "succeed", "finish"} => local.status \in TerminalStatus
  BY <1>1 DEF StartProcess, DispatchKnows, Job, TerminalStatus
<1>7. next \notin {"mirror", "expire", "expireWrite"}
  OBVIOUS
<1> HIDE DEF local, next
<1> QED BY <1>2, <1>3, <1>4, <1>5, <1>6, <1>7, Frame, LocalStep

LEMMA FinishToolStep ==
    ASSUME Consistent, NEW d \in Dispatchers, FinishTool(d)
    PROVE  Consistent'
<1>0. PICK status \in {"succeeded", "failed", "timed_out"} :
         /\ job' = [job EXCEPT ![d].status = status]
         /\ pc' = [pc EXCEPT ![d] = IF status = "succeeded" THEN "succeed" ELSE "fail"]
  BY DEF FinishTool, Goto
<1> DEFINE next == IF status = "succeeded" THEN "succeed" ELSE "fail"
           local == [job[d] EXCEPT !.status = status]
<1>1. job[d] \in Job /\ DispatchKnows(d)
  BY LocalTypes
<1>2. /\ pc' = [pc EXCEPT ![d] = next] /\ next \in DispatcherPC
      /\ job' = [job EXCEPT ![d] = local]
      /\ UNCHANGED <<automation, agentRun, approvals, opPc, command>>
  BY <1>0, <1>1, LocalTypes DEF FinishTool, Goto, Return, DispatcherPC
<1>3. /\ process' \in [Dispatchers -> {"none", "running"}]
      /\ log' \in [AgentRuns -> SUBSET Announcements]
  BY <1>0, LocalTypes DEF FinishTool, Return, Log, Announcements
<1>4. local \in Job
  BY <1>0, <1>1, LocalTypes DEF Job, AgentStatus, TerminalStatus
<1>5. next # "idle" => local.run \in AgentRuns /\ Exists(local.run)
  BY <1>0, <1>1 DEF FinishTool, DispatchKnows, Job
<1>6. next \in {"fail", "succeed", "finish"} => local.status \in TerminalStatus
  BY <1>0, <1>1 DEF FinishTool, DispatchKnows, Job, TerminalStatus
<1>7. next \notin {"mirror", "expire", "expireWrite"}
  OBVIOUS
<1> HIDE DEF local, next
<1> QED BY <1>2, <1>3, <1>4, <1>5, <1>6, <1>7, Frame, LocalStep

LEMMA LogSuccessStep ==
    ASSUME Consistent, NEW d \in Dispatchers, LogSuccess(d)
    PROVE  Consistent'
<1> DEFINE next == "finish"
           local == job[d]
<1>1. job[d] \in Job /\ DispatchKnows(d)
  BY LocalTypes
<1>2. /\ pc' = [pc EXCEPT ![d] = next] /\ next \in DispatcherPC
      /\ job' = [job EXCEPT ![d] = local]
      /\ UNCHANGED <<automation, agentRun, approvals, opPc, command>>
  BY <1>1, LocalTypes DEF LogSuccess, Goto, Return, DispatcherPC
<1>3. /\ process' \in [Dispatchers -> {"none", "running"}]
      /\ log' \in [AgentRuns -> SUBSET Announcements]
  BY LocalTypes DEF LogSuccess, Return, Log, Announcements
<1>4. local \in Job
  BY <1>1, LocalTypes DEF Job, AgentStatus, TerminalStatus
<1>5. next # "idle" => local.run \in AgentRuns /\ Exists(local.run)
  BY <1>1 DEF LogSuccess, DispatchKnows, Job
<1>6. next \in {"fail", "succeed", "finish"} => local.status \in TerminalStatus
  BY <1>1 DEF LogSuccess, DispatchKnows, Job, TerminalStatus
<1>7. next \notin {"mirror", "expire", "expireWrite"}
  OBVIOUS
<1> HIDE DEF local, next
<1> QED BY <1>2, <1>3, <1>4, <1>5, <1>6, <1>7, Frame, LocalStep

LEMMA LogFailureStep ==
    ASSUME Consistent, NEW d \in Dispatchers, LogFailure(d)
    PROVE  Consistent'
<1> DEFINE next == "finish"
           local == job[d]
<1>1. job[d] \in Job /\ DispatchKnows(d)
  BY LocalTypes
<1>2. /\ pc' = [pc EXCEPT ![d] = next] /\ next \in DispatcherPC
      /\ job' = [job EXCEPT ![d] = local]
      /\ UNCHANGED <<automation, agentRun, approvals, opPc, command>>
  BY <1>1, LocalTypes DEF LogFailure, Goto, Return, DispatcherPC
<1>3. /\ process' \in [Dispatchers -> {"none", "running"}]
      /\ log' \in [AgentRuns -> SUBSET Announcements]
  BY LocalTypes DEF LogFailure, Return, Log, Announcements
<1>4. local \in Job
  BY <1>1, LocalTypes DEF Job, AgentStatus, TerminalStatus
<1>5. next # "idle" => local.run \in AgentRuns /\ Exists(local.run)
  BY <1>1 DEF LogFailure, DispatchKnows, Job
<1>6. next \in {"fail", "succeed", "finish"} => local.status \in TerminalStatus
  BY <1>1 DEF LogFailure, DispatchKnows, Job, TerminalStatus
<1>7. next \notin {"mirror", "expire", "expireWrite"}
  OBVIOUS
<1> HIDE DEF local, next
<1> QED BY <1>2, <1>3, <1>4, <1>5, <1>6, <1>7, Frame, LocalStep

LEMMA DispatchThrowsStep ==
    ASSUME Consistent, NEW d \in Dispatchers, DispatchThrows(d)
    PROVE  Consistent'
<1> DEFINE next == "idle"
           local == NoJob
<1>1. job[d] \in Job /\ DispatchKnows(d)
  BY LocalTypes
<1>2. /\ pc' = [pc EXCEPT ![d] = next] /\ next \in DispatcherPC
      /\ job' = [job EXCEPT ![d] = local]
      /\ UNCHANGED <<automation, agentRun, approvals, opPc, command>>
  BY <1>1, LocalTypes DEF DispatchThrows, Goto, Return, DispatcherPC
<1>3. /\ process' \in [Dispatchers -> {"none", "running"}]
      /\ log' \in [AgentRuns -> SUBSET Announcements]
  BY LocalTypes DEF DispatchThrows, Return, Log, Announcements
<1>4. local \in Job
  BY <1>1, LocalTypes DEF Job, AgentStatus, TerminalStatus
<1>5. next # "idle" => local.run \in AgentRuns /\ Exists(local.run)
  BY <1>1 DEF DispatchThrows, DispatchKnows, Job
<1>6. next \in {"fail", "succeed", "finish"} => local.status \in TerminalStatus
  BY <1>1 DEF DispatchThrows, DispatchKnows, Job, TerminalStatus
<1>7. next \notin {"mirror", "expire", "expireWrite"}
  OBVIOUS
<1> HIDE DEF local, next
<1> QED BY <1>2, <1>3, <1>4, <1>5, <1>6, <1>7, Frame, LocalStep

LEMMA PermissionHookStep ==
    ASSUME Consistent, NEW d \in Dispatchers, PermissionHook(d)
    PROVE  Consistent'
<1>1. job[d] \in Job /\ pc[d] # "idle"
  BY LocalTypes DEF PermissionHook
<1>2. UNCHANGED <<automation, agentRun, process, approvals, log, opPc, command>>
  BY DEF PermissionHook
<1>3. CASE Goto(d, "ensure") /\ UNCHANGED job
  <2>1. "ensure" \in DispatcherPC \ {"idle", "mirror"}
    BY DEF DispatcherPC
  <2>2. job' = [job EXCEPT ![d] = job[d]]
    BY <1>3, LocalTypes
  <2> QED BY <1>1, <1>2, <1>3, <2>1, <2>2, Moved
<1>4. CASE Goto(d, "fail") /\ job' = [job EXCEPT ![d].status = "failed"]
  <2> DEFINE local == [job[d] EXCEPT !.status = "failed"]
  <2>1. local \in Job /\ local.run = job[d].run /\ local.status \in TerminalStatus
    BY <1>1 DEF Job, AgentStatus, TerminalStatus
  <2>2. job' = [job EXCEPT ![d] = local]
    BY <1>4
  <2> HIDE DEF local
  <2>3. "fail" \in DispatcherPC \ {"idle", "mirror"}
    BY DEF DispatcherPC
  <2> QED BY ZenonT(40), <1>1, <1>2, <1>4, <2>1, <2>2, <2>3, Moved
<1> QED BY <1>3, <1>4 DEF PermissionHook

LEMMA EnsureApprovalStep ==
    ASSUME Consistent, NEW d \in Dispatchers, EnsureApproval(d)
    PROVE  Consistent'
<1>1. PICK r \in AgentRuns : /\ r = job[d].run /\ Exists(r) /\ job[d] \in Job
                             /\ pc[d] # "idle"
  BY LocalTypes DEF EnsureApproval, DispatchKnows
<1>2. UNCHANGED <<automation, agentRun, process, approvals, log, opPc, command>>
  BY DEF EnsureApproval
<1>3. CASE Goto(d, "request") /\ UNCHANGED job
  <2>1. "request" \in DispatcherPC \ {"idle", "mirror"}
    BY DEF DispatcherPC
  <2>2. job' = [job EXCEPT ![d] = job[d]]
    BY <1>3, LocalTypes
  <2> QED BY <1>1, <1>2, <1>3, <2>1, <2>2, Moved
<1>4. ASSUME NEW i \in DOMAIN approvals[r],
             Goto(d, "expire") /\ job' = [job EXCEPT ![d].approval = i]
      PROVE  Consistent'
  <2> DEFINE local == [job[d] EXCEPT !.approval = i]
  <2>1. i \in Nat
    <3>1. approvals[r] \in Seq(Approval)
      BY DEF Consistent, TypeOK
    <3> QED BY <3>1, LenProperties
  <2>2. local \in Job /\ local.run = r /\ local.approval = i
    BY <1>1, <2>1 DEF Job
  <2>3. job' = [job EXCEPT ![d] = local]
    BY <1>4
  <2> HIDE DEF local
  <2>4. "expire" \in DispatcherPC \ {"idle", "mirror"}
    BY DEF DispatcherPC
  <2>5. /\ local.run = job[d].run /\ local.approval \in DOMAIN approvals[local.run]
        /\ Goto(d, "expire") /\ pc[d] # "idle"
    BY <1>1, <1>4, <2>2
  <2>6. "expire" \notin {"fail", "succeed", "finish"}
    OBVIOUS
  <2> QED BY <1>2, <2>2, <2>3, <2>4, <2>5, <2>6, Moved
<1>5. ASSUME NEW i \in DOMAIN approvals[r], Decide(d, approvals[r][i].status)
      PROVE  Consistent'
  <2>1. approvals[r][i].status \in {"pending", "approved", "denied", "expired"}
    <3>1. approvals[r] \in Seq(Approval)
      BY DEF Consistent, TypeOK
    <3>2. approvals[r][i] \in Approval
      BY <3>1, LenProperties
    <3> QED BY <3>2 DEF Approval
  <2> QED BY <1>2, <1>5, <2>1, Frame, Decided DEF EnsureApproval
<1> QED BY <1>1, <1>3, <1>4, <1>5 DEF EnsureApproval, Matching

LEMMA RecheckExpiredStep ==
    ASSUME Consistent, NEW d \in Dispatchers, RecheckExpired(d)
    PROVE  Consistent'
<1>1. PICK r \in AgentRuns : /\ r = job[d].run /\ Exists(r) /\ job[d] \in Job
                             /\ job[d].approval \in DOMAIN approvals[r]
                             /\ pc[d] # "idle"
  BY LocalTypes DEF RecheckExpired, DispatchKnows
<1>2. UNCHANGED <<automation, agentRun, process, approvals, log, opPc, command>>
  BY DEF RecheckExpired
<1>3. CASE Goto(d, "expireWrite") /\ UNCHANGED job
  <2>1. "expireWrite" \in DispatcherPC \ {"idle", "mirror"}
    BY DEF DispatcherPC
  <2>2. job' = [job EXCEPT ![d] = job[d]]
    BY <1>3, LocalTypes
  <2> QED BY <1>1, <1>2, <1>3, <2>1, <2>2, Moved
<1>4. CASE Decide(d, approvals[r][job[d].approval].status)
  <2>1. approvals[r] \in Seq(Approval)
    BY DEF Consistent, TypeOK
  <2>2. approvals[r][job[d].approval] \in Approval
    BY <1>1, <2>1, LenProperties
  <2>3. approvals[r][job[d].approval].status \in {"pending", "approved", "denied", "expired"}
    BY <2>2 DEF Approval
  <2> QED BY <1>2, <1>4, <2>3, Frame, Decided DEF RecheckExpired
<1> QED BY <1>1, <1>3, <1>4 DEF RecheckExpired

LEMMA RequestApprovalStep ==
    ASSUME Consistent, NEW d \in Dispatchers, RequestApproval(d)
    PROVE  Consistent'
<1> DEFINE approval == [root |-> job[d].root, status |-> "pending",
                        decisions |-> {}, overdue |-> FALSE]
<1>1. job[d] \in Job /\ job[d].run \in AgentRuns
  BY LocalTypes DEF RequestApproval, DispatchKnows
<1>2. approval \in Approval
  BY <1>1 DEF Approval, Job
<1>3. approvals' = [approvals EXCEPT ![job[d].run] = Append(@, approval)]
  BY DEF RequestApproval
<1> HIDE DEF approval
<1>4. ApprovalsOK' /\ ApprovalsGrow
  BY <1>1, <1>2, <1>3, ApprovalAdded
<1> QED BY <1>4, Decided DEF RequestApproval

LEMMA ExpireApprovalStep ==
    ASSUME Consistent, NEW d \in Dispatchers, ExpireApproval(d)
    PROVE  Consistent'
<1>1. job[d].run \in AgentRuns /\ job[d].approval \in DOMAIN approvals[job[d].run]
  BY LocalTypes DEF ExpireApproval, DispatchKnows
<1>2. ApprovalsOK' /\ ApprovalsGrow
  BY <1>1, DecisionRecorded DEF ExpireApproval
<1> QED BY <1>2, Decided DEF ExpireApproval

-----------------------------------------------------------------------------
(* The steps of a command, and of the clock.                                *)

LEMMA CommandStarts ==
    ASSUME Consistent, NEW o \in Operators,
           NEW next \in OperatorPC \ {"idle", "mirror"}, NEW cmd \in Command,
           StartCommand(o, next, cmd), cmd.run \in AgentRuns,
           next = "cancel" => Exists(cmd.run),
           next = "retry" => Terminal(cmd.run),
           next = "resolve" => cmd.index \in DOMAIN approvals[cmd.run],
           UNCHANGED <<automation, agentRun, pc, job, process, approvals>>,
           log' \in [AgentRuns -> SUBSET Announcements]
    PROVE  Consistent'
<1>1. /\ opPc' = [opPc EXCEPT ![o] = next]
      /\ command' = [command EXCEPT ![o] = cmd]
  BY DEF StartCommand
<1>2. opPc'[o] = next /\ command'[o] = cmd
  BY <1>1, LocalTypes
<1>3. CommandKnows(o)'
  BY <1>2 DEF CommandKnows, Exists, Terminal
<1> QED BY <1>1, <1>3, Frame, OperatorAssembly DEF storeVars, callers

LEMMA CommandEnds ==
    ASSUME Consistent, NEW o \in Operators, EndCommand(o),
           TablesConsistent', RowsGrow, ApprovalsOK', ApprovalsGrow,
           UNCHANGED <<pc, job, process, log>>
    PROVE  Consistent'
<1>1. /\ opPc' = [opPc EXCEPT ![o] = "idle"] /\ "idle" \in OperatorPC
      /\ command' = [command EXCEPT ![o] = NoCommand]
  BY DEF EndCommand, OperatorPC
<1>2. CommandKnows(o)'
  BY <1>1, LocalTypes DEF CommandKnows
<1> QED BY <1>1, <1>2, LocalTypes, OperatorAssembly DEF callers

\* A command about run r has a well-typed record.
LEMMA CommandAbout ==
    ASSUME NEW r \in AgentRuns
    PROVE  LET cmd == [NoCommand EXCEPT !.run = r]
           IN  cmd \in Command /\ cmd.run = r
BY DEF Command, NoCommand, Decisions

LEMMA RequestCancelStep ==
    ASSUME Consistent, NEW o \in Operators, NEW r \in AgentRuns, RequestCancel(o, r)
    PROVE  Consistent'
<1> DEFINE cmd == [NoCommand EXCEPT !.run = r]
<1>1. cmd \in Command /\ cmd.run = r
  BY CommandAbout
<1>2. StartCommand(o, "cancel", cmd) /\ Exists(r)
  BY DEF RequestCancel
<1> HIDE DEF cmd
<1>3. log' \in [AgentRuns -> SUBSET Announcements]
  BY LocalTypes DEF RequestCancel, Log, Announcements
<1>4. "cancel" \in OperatorPC \ {"idle", "mirror"} /\ "cancel" \notin {"retry", "resolve"}
  BY DEF OperatorPC
<1>5. UNCHANGED <<automation, agentRun, pc, job, process, approvals>>
  BY DEF RequestCancel
<1> QED BY <1>1, <1>2, <1>3, <1>4, <1>5, CommandStarts

LEMMA CancelRunStep ==
    ASSUME Consistent, NEW o \in Operators, CancelRun(o)
    PROVE  Consistent'
<1>1. PICK r \in AgentRuns : r = command[o].run /\ Exists(r) /\ command[o] \in Command
  BY LocalTypes DEF CancelRun, CommandKnows
<1>2. "cancelled" \in TerminalStatus /\ "cancelled" \in AgentStatus
  BY DEF TerminalStatus, AgentStatus
<1>3. TablesConsistent' /\ RowsGrow /\ Terminal(r)'
  BY <1>1, <1>2, StatusWritten DEF CancelRun, FinishAgentRunRow, Terminal
<1>4. UNCHANGED <<pc, job, process, approvals, log>>
  BY DEF CancelRun
<1>5. ApprovalsOK' /\ ApprovalsGrow
  BY <1>4, Frame
<1>6. CASE agentRun[r].automation = NoAutomation
  <2>1. EndCommand(o)
    BY <1>1, <1>6 DEF CancelRun
  <2> QED BY <1>3, <1>4, <1>5, <2>1, CommandEnds
<1>7. CASE agentRun[r].automation # NoAutomation
  <2>1. /\ opPc' = [opPc EXCEPT ![o] = "mirror"] /\ "mirror" \in OperatorPC
        /\ command' = [command EXCEPT ![o] = command[o]]
    BY <1>1, <1>7, LocalTypes DEF CancelRun, OperatorPC
  <2>2. opPc'[o] = "mirror" /\ command'[o].run = r
    BY <1>1, <2>1, LocalTypes
  <2>3. Exists(r)' /\ agentRun'[r].automation # NoAutomation
    BY <1>1, <1>3, <1>7 DEF RowsGrow
  <2>4. CommandKnows(o)'
    BY <1>3, <2>2, <2>3 DEF CommandKnows, Exists, Terminal
  <2>5. log' \in [AgentRuns -> SUBSET Announcements]
    BY <1>4, LocalTypes
  <2> QED BY <1>1, <1>3, <1>4, <1>5, <2>1, <2>4, <2>5, OperatorAssembly DEF callers
<1> QED BY <1>6, <1>7

LEMMA MirrorCancelStep ==
    ASSUME Consistent, NEW o \in Operators, MirrorCancel(o)
    PROVE  Consistent'
<1>1. PICK r \in AgentRuns :
         /\ r = command[o].run
         /\ Terminal(r)
         /\ agentRun[r].automation # NoAutomation
  BY LocalTypes DEF MirrorCancel, CommandKnows
<1>2. TablesConsistent' /\ RowsGrow
  BY <1>1, AutomationWritten DEF MirrorCancel, AgentStatus, TerminalStatus
<1> QED BY <1>2, Frame, CommandEnds DEF MirrorCancel

LEMMA CheckRetryStep ==
    ASSUME Consistent, NEW o \in Operators, NEW r \in AgentRuns, CheckRetry(o, r)
    PROVE  Consistent'
<1> DEFINE cmd == [NoCommand EXCEPT !.run = r]
<1>1. cmd \in Command /\ cmd.run = r
  BY CommandAbout
<1>2. StartCommand(o, "retry", cmd) /\ Terminal(r)
  BY DEF CheckRetry
<1> HIDE DEF cmd
<1>3. "retry" \in OperatorPC \ {"idle", "mirror"} /\ "retry" \notin {"cancel", "resolve"}
  BY DEF OperatorPC
<1>4. UNCHANGED <<automation, agentRun, pc, job, process, approvals, log>>
  BY DEF CheckRetry
<1> QED BY <1>1, <1>2, <1>3, <1>4, LocalTypes, CommandStarts

LEMMA CreateRetryStep ==
    ASSUME Consistent, NEW o \in Operators, NEW new \in AgentRuns, CreateRetry(o, new)
    PROVE  Consistent'
<1>1. PICK r \in AgentRuns : r = command[o].run /\ Terminal(r)
  BY LocalTypes DEF CreateRetry, CommandKnows
<1>2. TablesConsistent' /\ RowsGrow
  BY <1>1, RetryCreated DEF CreateRetry
<1> QED BY <1>2, Frame, CommandEnds DEF CreateRetry

LEMMA CheckPendingStep ==
    ASSUME Consistent, NEW o \in Operators, NEW r \in AgentRuns,
           NEW i \in DOMAIN approvals[r], NEW decision \in Decisions,
           CheckPending(o, r, i, decision)
    PROVE  Consistent'
<1> DEFINE cmd == [NoCommand EXCEPT !.run = r, !.index = i, !.decision = decision]
<1>1. i \in Nat
  <2>1. approvals[r] \in Seq(Approval)
    BY DEF Consistent, TypeOK
  <2> QED BY <2>1, LenProperties
<1>2. cmd \in Command /\ cmd.run = r /\ cmd.index = i
  BY <1>1 DEF Command, NoCommand
<1>3. StartCommand(o, "resolve", cmd)
  BY DEF CheckPending
<1> HIDE DEF cmd
<1>4. "resolve" \in OperatorPC \ {"idle", "mirror"} /\ "resolve" \notin {"cancel", "retry"}
  BY DEF OperatorPC
<1>5. UNCHANGED <<automation, agentRun, pc, job, process, approvals, log>>
  BY DEF CheckPending
<1> QED BY <1>2, <1>3, <1>4, <1>5, LocalTypes, CommandStarts

LEMMA ResolveApprovalStep ==
    ASSUME Consistent, NEW o \in Operators, ResolveApproval(o)
    PROVE  Consistent'
<1>1. /\ command[o].run \in AgentRuns
      /\ command[o].index \in DOMAIN approvals[command[o].run]
      /\ command[o].decision \in {"approved", "denied", "expired"}
  BY LocalTypes DEF ResolveApproval, CommandKnows, Command, Decisions
<1>2. ApprovalsOK' /\ ApprovalsGrow
  BY <1>1, DecisionRecorded DEF ResolveApproval
<1> QED BY <1>2, Frame, CommandEnds DEF ResolveApproval, storeVars

LEMMA CommandThrowsStep ==
    ASSUME Consistent, NEW o \in Operators, CommandThrows(o)
    PROVE  Consistent'
BY Frame, CommandEnds DEF CommandThrows, storeVars

\* A step that only touches the approvals.
LEMMA ApprovalsOnly ==
    ASSUME Consistent, ApprovalsOK', ApprovalsGrow,
           UNCHANGED <<automation, agentRun, pc, job, process, log, opPc, command>>
    PROVE  Consistent'
<1>1. TablesConsistent' /\ RowsGrow
  BY Frame DEF storeVars
<1>2. TypeOK'
  BY <1>1 DEF Consistent, TypeOK, TablesConsistent, ApprovalsOK
<1>3. \A d \in Dispatchers : DispatchKnows(d)'
  BY <1>1, DispatcherFrame
<1>4. \A o \in Operators : CommandKnows(o)'
  BY <1>1, OperatorFrame
<1> QED BY <1>1, <1>2, <1>3, <1>4 DEF Consistent, TablesConsistent

LEMMA OperatorRequestsApprovalStep ==
    ASSUME Consistent, NEW o \in Operators, NEW r \in AgentRuns,
           OperatorRequestsApproval(o, r)
    PROVE  Consistent'
<1> DEFINE approval == [root |-> NoRoot, status |-> "pending",
                        decisions |-> {}, overdue |-> FALSE]
<1>1. approval \in Approval
  BY DEF Approval
<1>2. approvals' = [approvals EXCEPT ![r] = Append(@, approval)]
  BY DEF OperatorRequestsApproval
<1> HIDE DEF approval
<1>3. ApprovalsOK' /\ ApprovalsGrow
  BY <1>1, <1>2, ApprovalAdded
<1> QED BY <1>3, ApprovalsOnly DEF OperatorRequestsApproval

LEMMA ApprovalOverdueStep ==
    ASSUME Consistent, NEW r \in AgentRuns, NEW i \in DOMAIN approvals[r],
           ApprovalOverdue(r, i)
    PROVE  Consistent'
<1> DEFINE approval == [approvals[r][i] EXCEPT !.overdue = TRUE]
<1>1. approvals[r] \in Seq(Approval) /\ approvals \in [AgentRuns -> Seq(Approval)]
  BY DEF Consistent, TypeOK
<1>2. approvals[r][i] \in Approval
  BY <1>1, LenProperties
<1>3. approval \in Approval
  BY <1>2 DEF Approval
<1>4. approvals' = [approvals EXCEPT ![r][i] = approval]
  BY <1>1 DEF ApprovalOverdue
<1> HIDE DEF approval
<1>5. ApprovalsOK' /\ ApprovalsGrow
  BY <1>3, <1>4, ApprovalReplaced
<1> QED BY <1>5, ApprovalsOnly DEF ApprovalOverdue

-----------------------------------------------------------------------------
(* The theorems.                                                            *)

LEMMA InitConsistent == Init => Consistent
<1> SUFFICES ASSUME Init PROVE Consistent
  OBVIOUS
<1> USE DEF Init, StoreInit
<1>1. TypeOK
  <2>1. AbsentRow \in RunRow /\ NoJob \in Job /\ NoCommand \in Command
    BY DEF AbsentRow, RunRow, NoJob, Job, NoCommand, Command, AgentStatus, LiveStatus,
           DispatcherPC, Decisions
  <2>2. /\ approvals \in [AgentRuns -> Seq(Approval)]
        /\ log \in [AgentRuns -> SUBSET Announcements]
    BY EmptySeq
  <2> QED BY <2>1, <2>2 DEF TypeOK, StoreTypeOK, AutomationStatus, DispatcherPC, OperatorPC
<1>2. \A r \in AgentRuns : agentRun[r] = AbsentRow /\ ~Exists(r)
  BY DEF Exists, AbsentRow
<1>3. \A a \in AutomationRuns : automation[a] = "queued" /\ Linked(a) = {}
  BY StoreAssumption DEF Linked, AbsentRow
<1>4. RowsAgree /\ AutomationEndsAfterRun /\ RetriesFollowFinishedRuns
  BY <1>2, <1>3 DEF RowsAgree, AutomationEndsAfterRun, RetriesFollowFinishedRuns, AbsentRow
<1>5. \A d \in Dispatchers : DispatchKnows(d)
  BY DEF DispatchKnows
<1>6. \A o \in Operators : CommandKnows(o)
  BY DEF CommandKnows
<1> QED BY <1>1, <1>4, <1>5, <1>6 DEF Consistent

LEMMA NextConsistent == Consistent /\ [Next]_vars => Consistent'
<1> SUFFICES ASSUME Consistent, [Next]_vars PROVE Consistent'
  OBVIOUS
<1>1. ASSUME NEW d \in Dispatchers, NEW root \in Roots, NEW r \in AgentRuns,
             NEW a \in AutomationRuns, DispatchOnce(d, a, r, root)
      PROVE  Consistent'
  BY <1>1, DispatchOnceStep
<1>2. ASSUME NEW d \in Dispatchers, NEW root \in Roots, NEW r \in AgentRuns,
             DispatchRun(d, r, root)
      PROVE  Consistent'
  BY <1>2, DispatchRunStep
<1>3. ASSUME NEW d \in Dispatchers, Continue(d)
      PROVE  Consistent'
  <2>1. CASE MarkRunning(d)      BY <2>1, MarkRunningStep
  <2>2. CASE Mirror(d)           BY <2>2, MirrorStep
  <2>3. CASE Refuse(d)           BY <2>3, RefuseStep
  <2>4. CASE RejectRoot(d)       BY <2>4, RejectRootStep
  <2>5. CASE Proceed(d)          BY <2>5, ProceedStep
  <2>6. CASE PermissionHook(d)   BY <2>6, PermissionHookStep
  <2>7. CASE EnsureApproval(d)   BY <2>7, EnsureApprovalStep
  <2>8. CASE RequestApproval(d)  BY <2>8, RequestApprovalStep
  <2>9. CASE RecheckExpired(d)   BY <2>9, RecheckExpiredStep
  <2>10. CASE ExpireApproval(d)  BY <2>10, ExpireApprovalStep
  <2>11. CASE WaitForApproval(d) BY <2>11, WaitForApprovalStep
  <2>12. CASE AcceptApproval(d)  BY <2>12, AcceptApprovalStep
  <2>13. CASE StartProcess(d)    BY <2>13, StartProcessStep
  <2>14. CASE FinishTool(d)      BY <2>14, FinishToolStep
  <2>15. CASE LogSuccess(d)      BY <2>15, LogSuccessStep
  <2>16. CASE LogFailure(d)      BY <2>16, LogFailureStep
  <2>17. CASE FinishRun(d)       BY <2>17, FinishRunStep
  <2> QED BY <1>3, <2>1, <2>2, <2>3, <2>4, <2>5, <2>6, <2>7, <2>8, <2>9, <2>10,
             <2>11, <2>12, <2>13, <2>14, <2>15, <2>16, <2>17 DEF Continue
<1>4. ASSUME NEW d \in Dispatchers, DispatchThrows(d)
      PROVE  Consistent'
  BY <1>4, DispatchThrowsStep
<1>5. ASSUME NEW o \in Operators, OperatorStarts(o)
      PROVE  Consistent'
  <2> PICK r \in AgentRuns :
        \/ RequestCancel(o, r)
        \/ CheckRetry(o, r)
        \/ OperatorRequestsApproval(o, r)
        \/ \E i \in DOMAIN approvals[r], decision \in Decisions :
               CheckPending(o, r, i, decision)
    BY <1>5 DEF OperatorStarts
  <2> QED BY RequestCancelStep, CheckRetryStep, OperatorRequestsApprovalStep, CheckPendingStep
<1>6. ASSUME NEW o \in Operators, OperatorContinues(o)
      PROVE  Consistent'
  BY <1>6, CancelRunStep, MirrorCancelStep, CreateRetryStep, ResolveApprovalStep
     DEF OperatorContinues
<1>7. ASSUME NEW o \in Operators, CommandThrows(o)
      PROVE  Consistent'
  BY <1>7, CommandThrowsStep
<1>8. CASE Clock
  BY <1>8, ApprovalOverdueStep DEF Clock
<1>9. CASE UNCHANGED vars
  <2>1. TablesConsistent'
    BY <1>9, TablesFrame DEF vars, storeVars
  <2>2. ApprovalsOK' /\ ApprovalsGrow
    BY <1>9, Frame DEF vars
  <2> QED BY <1>9, <2>2, ApprovalsOnly DEF vars
<1> QED BY <1>1, <1>2, <1>3, <1>4, <1>5, <1>6, <1>7, <1>8, <1>9
        DEF Next, StartDispatch

\* Consistent holds in every reachable state, for any number of runs,
\* dispatchers, operators and roots.
THEOREM ConsistentAlways == Spec => []Consistent
BY InitConsistent, NextConsistent, PTL DEF Spec

\* Every variable keeps its type: in particular every approval in the log is
\* one request with one state, and no status falls outside its column's check.
THEOREM TypeCorrect == Spec => []TypeOK
<1>1. Consistent => TypeOK
  BY DEF Consistent
<1> QED BY <1>1, ConsistentAlways, PTL

\* No interleaving of dispatchers, cancels and crashes reports an automation
\* run ended while the native run that executes it goes on (finishAgentRun).
THEOREM EndsAreInOrder == Spec => []AutomationEndsAfterRun
<1>1. Consistent => AutomationEndsAfterRun
  BY DEF Consistent
<1> QED BY <1>1, ConsistentAlways, PTL

\* Retries descend from finished runs and count their attempts
\* (createNativeAgentRetry), however many operators retry at once.
THEOREM RetriesAreSound == Spec => []RetriesFollowFinishedRuns
<1>1. Consistent => RetriesFollowFinishedRuns
  BY DEF Consistent
<1> QED BY <1>1, ConsistentAlways, PTL

\* claimAutomationRun hands each automation run to one native run: never two,
\* and none only while it is queued.
THEOREM ClaimsAreUnique == Spec => []ClaimedOnce
<1>1. Consistent => ClaimedOnce
  <2> SUFFICES ASSUME Consistent, NEW a \in AutomationRuns
               PROVE  Cardinality(Linked(a)) = IF automation[a] = "queued" THEN 0 ELSE 1
    BY DEF ClaimedOnce
  <2>1. CASE automation[a] = "queued"
    <3>1. Linked(a) = {}
      BY <2>1 DEF Consistent, RowsAgree
    <3> QED BY <2>1, <3>1, FS_EmptySet
  <2>2. CASE automation[a] # "queued"
    <3>1. PICK r : r \in Linked(a)
      BY <2>2 DEF Consistent, RowsAgree
    <3>2. Linked(a) = {r}
      BY <3>1 DEF Consistent, RowsAgree
    <3> QED BY <2>2, <3>2, FS_Singleton
  <2> QED BY <2>1, <2>2
<1> QED BY <1>1, ConsistentAlways, PTL

-----------------------------------------------------------------------------
(* What one step does to the tables, and the theorems about pairs of states. *)

\* The five things a step may do to the tables.
WritesStatus ==
    \E r \in AgentRuns, status \in AgentStatus :
        /\ Exists(r)
        /\ status \in TerminalStatus \/ ~Terminal(r)
        /\ agentRun' = [agentRun EXCEPT ![r].status = status]
        /\ automation' = automation
WritesAutomation ==
    \E r \in AgentRuns, status \in AgentStatus :
        /\ agentRun[r].automation # NoAutomation
        /\ status \in TerminalStatus => Terminal(r)
        /\ MirrorToAutomation(r, status)
Claims == \E a \in AutomationRuns, r \in AgentRuns : ClaimAutomationRun(a, r)
Retries == \E source, r \in AgentRuns : Terminal(source) /\ CreateRetryRun(source, r)

TablesStep ==
    UNCHANGED storeVars \/ WritesStatus \/ WritesAutomation \/ Claims \/ Retries

LEMMA SetStatusWrites ==
    ASSUME Consistent, NEW d \in Dispatchers, pc[d] # "idle",
           NEW status \in LiveStatus, NEW next, SetStatus(d, status, next)
    PROVE  TablesStep
<1>1. PICK r \in AgentRuns : r = job[d].run /\ Exists(r)
  BY LocalTypes DEF DispatchKnows
<1>2. CASE Terminal(r)
  BY <1>1, <1>2 DEF SetStatus, SetAgentRunRow, TablesStep, storeVars
<1>3. CASE ~Terminal(r)
  BY <1>1, <1>3 DEF SetStatus, SetAgentRunRow, TablesStep, WritesStatus, AgentStatus
<1> QED BY <1>2, <1>3

LEMMA ContinueWrites ==
    ASSUME Consistent, NEW d \in Dispatchers, Continue(d)
    PROVE  TablesStep
<1>1. /\ job[d] \in Job /\ DispatchKnows(d)
  BY LocalTypes
<1>2. CASE MarkRunning(d) \/ WaitForApproval(d) \/ AcceptApproval(d)
  BY <1>2, SetStatusWrites DEF MarkRunning, WaitForApproval, AcceptApproval, LiveStatus
<1>3. CASE Mirror(d)
  BY <1>1, <1>3 DEF Mirror, DispatchKnows, Job, TablesStep, WritesAutomation
<1>4. CASE FinishRun(d)
  BY <1>1, <1>4 DEF FinishRun, FinishAgentRunRow, DispatchKnows, Job, TablesStep, WritesStatus
<1>5. CASE UNCHANGED <<automation, agentRun>>
  BY <1>5 DEF TablesStep, storeVars
<1> QED
  BY <1>2, <1>3, <1>4, <1>5 DEF Continue, Refuse, RejectRoot, Proceed, PermissionHook,
     EnsureApproval, RequestApproval, RecheckExpired, ExpireApproval, StartProcess,
     FinishTool, LogSuccess, LogFailure

LEMMA OperatorContinuesWrites ==
    ASSUME Consistent, NEW o \in Operators, OperatorContinues(o)
    PROVE  TablesStep
<1>1. CommandKnows(o) /\ "cancelled" \in TerminalStatus /\ "cancelled" \in AgentStatus
  BY LocalTypes DEF AgentStatus, TerminalStatus
<1>2. CASE CancelRun(o)
  BY <1>1, <1>2 DEF CancelRun, FinishAgentRunRow, CommandKnows, TablesStep, WritesStatus
<1>3. CASE MirrorCancel(o)
  BY <1>1, <1>3 DEF MirrorCancel, CommandKnows, TablesStep, WritesAutomation
<1>4. CASE \E new \in AgentRuns : CreateRetry(o, new)
  BY <1>1, <1>4 DEF CreateRetry, CommandKnows, TablesStep, Retries
<1>5. CASE ResolveApproval(o)
  BY <1>5 DEF ResolveApproval, TablesStep, storeVars
<1> QED BY <1>2, <1>3, <1>4, <1>5 DEF OperatorContinues

LEMMA NextWrites ==
    ASSUME Consistent, [Next]_vars
    PROVE  TablesStep
<1>1. ASSUME NEW d \in Dispatchers, StartDispatch(d)
      PROVE  TablesStep
  BY <1>1 DEF StartDispatch, DispatchOnce, DispatchRun, TablesStep, Claims, storeVars
<1>2. ASSUME NEW d \in Dispatchers, DispatchThrows(d)
      PROVE  TablesStep
  BY <1>2 DEF DispatchThrows, TablesStep, storeVars
<1>3. ASSUME NEW o \in Operators, OperatorStarts(o) \/ CommandThrows(o)
      PROVE  TablesStep
  BY <1>3 DEF OperatorStarts, RequestCancel, CheckRetry, OperatorRequestsApproval,
              CheckPending, CommandThrows, TablesStep, storeVars
<1>4. CASE Clock
  BY <1>4 DEF Clock, ApprovalOverdue, TablesStep, storeVars
<1>5. CASE UNCHANGED vars
  BY <1>5 DEF vars, TablesStep, storeVars
<1> QED BY <1>1, <1>2, <1>3, <1>4, <1>5, ContinueWrites, OperatorContinuesWrites DEF Next

\* A finished run stays finished, though dispatchers that read its row
\* earlier still want to mark it running or waiting (setAgentRunStatus).
THEOREM FinishedStaysFinished == Spec => FinishedForGood
<1>1. ASSUME Consistent, [Next]_vars
      PROVE  RowsGrow
  BY <1>1, NextWrites, TablesFrame, StatusWritten, AutomationWritten, RunClaimed, RetryCreated
     DEF TablesStep, WritesStatus, WritesAutomation, Claims, Retries
<1>2. RowsGrow => \A r \in AgentRuns : Terminal(r) => Terminal(r)'
  BY DEF RowsGrow
<1> QED BY <1>1, <1>2, ConsistentAlways, PTL DEF Spec, FinishedForGood

-----------------------------------------------------------------------------
(* NativeAgentRuntime implements RunLifecycle.                              *)

phases  == [r \in AgentRuns |-> Phase(r)]
claims  == [a \in AutomationRuns |-> Claimer(a)]
endings == {a \in AutomationRuns : automation[a] \notin {"queued", "running"}}

LifecycleStep == [Lifecycle!Next]_<<phases, claims, endings>>

LEMMA PhaseOfRun ==
    /\ \A r \in AgentRuns : Terminal(r) => Phase(r) = "done"
    /\ \A r \in AgentRuns : Exists(r) /\ ~Terminal(r) => Phase(r) = "live"
    /\ \A r \in AgentRuns : ~Exists(r) => Phase(r) = "absent"
BY DEF Phase, Terminal, Exists, TerminalStatus

LEMMA ClaimerOfAutomation ==
    ASSUME NEW a \in AutomationRuns, NEW r, Linked(a) = {r}
    PROVE  Claimer(a) = r
BY DEF Claimer, OnlyRun

LEMMA LifecycleOfStatus ==
    ASSUME Consistent, WritesStatus
    PROVE  LifecycleStep
<1>1. PICK r \in AgentRuns, status \in AgentStatus :
        /\ Exists(r)
        /\ status \in TerminalStatus \/ ~Terminal(r)
        /\ agentRun' = [agentRun EXCEPT ![r].status = status]
        /\ automation' = automation
  BY DEF WritesStatus
<1>2. agentRun \in [AgentRuns -> RunRow] /\ status # "absent"
  BY DEF Consistent, TypeOK, StoreTypeOK, AgentStatus, TerminalStatus, LiveStatus
<1>3. /\ agentRun'[r].status = status
      /\ \A s \in AgentRuns \ {r} : agentRun'[s] = agentRun[s]
      /\ \A s \in AgentRuns : agentRun'[s].automation = agentRun[s].automation
  BY <1>1, <1>2 DEF RunRow
<1>4. claims' = claims /\ endings' = endings
  <2>1. \A a \in AutomationRuns : Linked(a)' = Linked(a)
    BY <1>3 DEF Linked
  <2>2. \A a \in AutomationRuns : Claimer(a)' = Claimer(a)
    BY <2>1 DEF Claimer
  <2> QED BY <1>1, <2>2 DEF claims, endings
<1>5. \A s \in AgentRuns \ {r} : Phase(s)' = Phase(s)
  BY <1>3 DEF Phase, Exists, Terminal
<1>6. CASE Phase(r)' = Phase(r)
  <2>1. phases' = phases
    BY <1>5, <1>6 DEF phases
  <2> QED BY <1>4, <2>1 DEF LifecycleStep
<1>7. CASE Phase(r)' # Phase(r)
  <2>1. Phase(r) = "live" /\ Phase(r)' = "done"
    BY <1>1, <1>2, <1>3, <1>7 DEF Phase, Exists, Terminal
  <2>2. phases[r] = "live" /\ phases' = [phases EXCEPT ![r] = "done"]
    BY <1>5, <2>1 DEF phases
  <2>3. Lifecycle!Finish(r)
    BY <1>4, <2>2 DEF Lifecycle!Finish, phases, claims, endings
  <2> QED BY <2>3 DEF LifecycleStep, Lifecycle!Next
<1> QED BY <1>6, <1>7

LEMMA LifecycleOfAutomation ==
    ASSUME Consistent, WritesAutomation
    PROVE  LifecycleStep
<1>1. PICK r \in AgentRuns, status \in AgentStatus :
        /\ agentRun[r].automation # NoAutomation
        /\ status \in TerminalStatus => Terminal(r)
        /\ MirrorToAutomation(r, status)
  BY DEF WritesAutomation
<1>2. PICK a \in AutomationRuns : a = agentRun[r].automation
  BY <1>1 DEF Consistent, TypeOK, StoreTypeOK, RunRow
<1>3. /\ automation' = [automation EXCEPT ![a] = AutomationStatusFor(status)]
      /\ automation \in [AutomationRuns -> AutomationStatus]
      /\ agentRun' = agentRun
  BY <1>1, <1>2 DEF MirrorToAutomation, Consistent, TypeOK, StoreTypeOK
<1>4. phases' = phases /\ claims' = claims
  <2>1. \A s \in AgentRuns : Phase(s)' = Phase(s)
    BY <1>3 DEF Phase, Exists, Terminal
  <2>2. \A b \in AutomationRuns : Linked(b)' = Linked(b)
    BY <1>3 DEF Linked
  <2> QED BY <2>1, <2>2 DEF phases, claims, Claimer
<1>5. Linked(a) = {r} /\ Claimer(a) = r
  <2>1. r \in Linked(a)
    BY <1>2 DEF Linked
  <2>2. Linked(a) = {r}
    BY <2>1 DEF Consistent, RowsAgree
  <2> QED BY <2>2, ClaimerOfAutomation
<1>6. CASE status \in TerminalStatus
  <2>1. endings' = endings \cup {a}
    BY <1>3, <1>6, AutomationStatusOfRun DEF endings
  <2>2. claims[a] = r /\ r # NoRun /\ phases[claims[a]] = "done"
    BY <1>1, <1>5, <1>6, PhaseOfRun, StoreAssumption DEF claims, phases
  <2>3. Lifecycle!Report(a)
    BY <1>4, <2>1, <2>2 DEF Lifecycle!Report, phases, claims, endings
  <2> QED BY <2>3 DEF LifecycleStep, Lifecycle!Next
<1>7. CASE status \notin TerminalStatus
  <2>1. endings' = endings \ {a}
    BY <1>3, <1>7, AutomationStatusOfRun DEF endings
  <2>2. Lifecycle!Withdraw(a)
    BY <1>4, <2>1 DEF Lifecycle!Withdraw, phases, claims, endings
  <2> QED BY <2>2 DEF LifecycleStep, Lifecycle!Next
<1> QED BY <1>6, <1>7

LEMMA LifecycleOfClaim ==
    ASSUME Consistent, Claims
    PROVE  LifecycleStep
<1>1. PICK a \in AutomationRuns, r \in AgentRuns : ClaimAutomationRun(a, r)
  BY DEF Claims
<1>2. /\ agentRun \in [AgentRuns -> RunRow] /\ a # NoAutomation
      /\ automation \in [AutomationRuns -> AutomationStatus]
      /\ Linked(a) = {} /\ agentRun[r] = AbsentRow /\ ~Exists(r)
      /\ automation[a] = "queued"
  BY <1>1, StoreAssumption DEF Consistent, TypeOK, StoreTypeOK, RowsAgree,
     ClaimAutomationRun, Exists
<1>3. /\ automation' = [automation EXCEPT ![a] = "running"]
      /\ agentRun'[r].status = "running" /\ agentRun'[r].automation = a
      /\ \A s \in AgentRuns \ {r} : agentRun'[s] = agentRun[s]
  BY <1>1, <1>2 DEF ClaimAutomationRun
<1>4. /\ Linked(a)' = {r}
      /\ \A b \in AutomationRuns \ {a} : Linked(b)' = Linked(b)
  BY <1>2, <1>3, StoreAssumption DEF Linked, AbsentRow
<1>5. claims[a] = NoRun /\ claims' = [claims EXCEPT ![a] = r]
  <2>1. Claimer(a) = NoRun /\ Claimer(a)' = r
    <3>1. OnlyRun({}) = NoRun /\ OnlyRun({r}) = r
      BY DEF OnlyRun
    <3> QED BY <1>2, <1>4, <3>1 DEF Claimer
  <2>2. \A b \in AutomationRuns \ {a} : Claimer(b)' = Claimer(b)
    BY <1>4 DEF Claimer
  <2> QED BY <2>1, <2>2 DEF claims
<1>6. phases[r] = "absent" /\ phases' = [phases EXCEPT ![r] = "live"]
  <2>1. Phase(r) = "absent" /\ Phase(r)' = "live"
    BY <1>2, <1>3 DEF Phase, Exists, Terminal, TerminalStatus
  <2>2. \A s \in AgentRuns \ {r} : Phase(s)' = Phase(s)
    BY <1>3 DEF Phase, Exists, Terminal
  <2> QED BY <2>1, <2>2 DEF phases
<1>7. endings' = endings
  BY <1>2, <1>3 DEF endings
<1>8. Lifecycle!Claim(a, r)
  BY <1>5, <1>6, <1>7 DEF Lifecycle!Claim, Lifecycle!Begin, phases, claims, endings
<1> QED BY <1>8 DEF LifecycleStep, Lifecycle!Next

LEMMA LifecycleOfRetry ==
    ASSUME Consistent, Retries
    PROVE  LifecycleStep
<1>1. PICK source \in AgentRuns, r \in AgentRuns : Terminal(source) /\ CreateRetryRun(source, r)
  BY DEF Retries
<1>2. agentRun \in [AgentRuns -> RunRow] /\ agentRun[r] = AbsentRow /\ ~Exists(r)
  BY <1>1 DEF Consistent, TypeOK, StoreTypeOK, RowsAgree, CreateRetryRun, Exists
<1>3. /\ automation' = automation
      /\ agentRun'[r].status = "queued" /\ agentRun'[r].automation = NoAutomation
      /\ \A s \in AgentRuns \ {r} : agentRun'[s] = agentRun[s]
  BY <1>1, <1>2 DEF CreateRetryRun
<1>4. claims' = claims /\ endings' = endings
  <2>1. \A a \in AutomationRuns : Linked(a)' = Linked(a)
    BY <1>2, <1>3, StoreAssumption DEF Linked, AbsentRow
  <2>2. \A a \in AutomationRuns : Claimer(a)' = Claimer(a)
    BY <2>1 DEF Claimer
  <2> QED BY <1>3, <2>2 DEF claims, endings
<1>5. phases[r] = "absent" /\ phases' = [phases EXCEPT ![r] = "live"]
  <2>1. Phase(r) = "absent" /\ Phase(r)' = "live"
    BY <1>2, <1>3 DEF Phase, Exists, Terminal, TerminalStatus
  <2>2. \A s \in AgentRuns \ {r} : Phase(s)' = Phase(s)
    BY <1>3 DEF Phase, Exists, Terminal
  <2> QED BY <2>1, <2>2 DEF phases
<1>6. phases[source] = "done"
  BY <1>1, PhaseOfRun DEF phases
<1>7. Lifecycle!Retry(source, r)
  BY <1>4, <1>5, <1>6 DEF Lifecycle!Retry, Lifecycle!Begin, phases, claims, endings
<1> QED BY <1>7 DEF LifecycleStep, Lifecycle!Next

\* Every behaviour of dispatchers and operators is a behaviour of the life
\* cycle RunLifecycle promises (the tables, read through Phase and Claimer).
THEOREM RuntimeImplementsLifecycle == Spec => ImplementsLifecycle
<1>1. Init => Lifecycle!Init
  <2> SUFFICES ASSUME Init PROVE Lifecycle!Init
    OBVIOUS
  <2>1. \A r \in AgentRuns : Phase(r) = "absent"
    BY DEF Init, StoreInit, Phase, Exists, AbsentRow
  <2>2. \A a \in AutomationRuns : Claimer(a) = NoRun
    BY StoreAssumption DEF Init, StoreInit, Claimer, OnlyRun, Linked, AbsentRow
  <2>3. endings = {}
    BY DEF Init, StoreInit, endings
  <2> QED BY <2>1, <2>2, <2>3 DEF Lifecycle!Init, endings
<1>2. ASSUME Consistent, [Next]_vars
      PROVE  [Lifecycle!Next]_(Lifecycle!lifecycleVars)
  <2>1. CASE UNCHANGED storeVars
    BY <2>1 DEF storeVars, Lifecycle!lifecycleVars, Phase, Exists, Terminal, Claimer, Linked
  <2>2. CASE WritesStatus \/ WritesAutomation \/ Claims \/ Retries
    BY <1>2, <2>2, LifecycleOfStatus, LifecycleOfAutomation, LifecycleOfClaim, LifecycleOfRetry
       DEF LifecycleStep, phases, claims, endings, Lifecycle!lifecycleVars
  <2> QED BY <1>2, <2>1, <2>2, NextWrites DEF TablesStep
<1> QED BY <1>1, <1>2, ConsistentAlways, PTL DEF Spec, ImplementsLifecycle, Lifecycle!Spec

-----------------------------------------------------------------------------
(***************************************************************************)
(* What the log of a run accounts for: the status that its row shows, and  *)
(* the process that was started after approval was asked for.  Both rest   *)
(* on Consistent and on the log and the approvals only gaining.            *)
(***************************************************************************)

(* The status.                                                              *)

\* The log of r says why its row may show `status`.
Announced(r, status) ==
    /\ status = "succeeded" => "run.succeeded" \in log[r]
    /\ status = "failed"    => "run.failed" \in log[r]
    /\ status = "timed_out" => "run.timed_out" \in log[r]
    /\ status = "cancelled" => "run.cancel_requested" \in log[r]

\* A dispatch announces an end before it writes it.
DispatchAccounts(d) ==
    /\ pc[d] = "succeed" => job[d].status = "succeeded"
    /\ pc[d] = "fail" => job[d].status \in {"failed", "timed_out"}
    /\ pc[d] = "finish" => Announced(job[d].run, job[d].status)

CommandAccounts(o) ==
    opPc[o] = "cancel" => "run.cancel_requested" \in log[command[o].run]

Accounted ==
    /\ \A r \in AgentRuns : Announced(r, agentRun[r].status)
    /\ \A d \in Dispatchers : DispatchAccounts(d)
    /\ \A o \in Operators : CommandAccounts(o)

\* The log only gains, and a row shows a new status only if it is announced.
LogGrows == \A r \in AgentRuns : log[r] \subseteq log'[r]
RowsAnnounced ==
    \A r \in AgentRuns :
        agentRun'[r].status = agentRun[r].status \/ Announced(r, agentRun'[r].status)

LEMMA RowsStayAnnounced ==
    ASSUME Accounted, LogGrows, RowsAnnounced
    PROVE  \A r \in AgentRuns : Announced(r, agentRun[r].status)'
BY DEF Accounted, LogGrows, RowsAnnounced, Announced

LEMMA DispatchAccountsFrame ==
    ASSUME Consistent, Accounted, LogGrows, NEW d \in Dispatchers,
           pc'[d] = pc[d], job'[d] = job[d]
    PROVE  DispatchAccounts(d)'
<1>1. pc[d] = "finish" => job[d].run \in AgentRuns
  BY LocalTypes DEF DispatchKnows
<1> QED BY <1>1 DEF Accounted, DispatchAccounts, LogGrows, Announced

LEMMA CommandAccountsFrame ==
    ASSUME Consistent, Accounted, LogGrows, NEW o \in Operators,
           opPc'[o] = opPc[o], command'[o] = command[o]
    PROVE  CommandAccounts(o)'
<1>1. opPc[o] = "cancel" => command[o].run \in AgentRuns
  BY LocalTypes DEF CommandKnows
<1> QED BY <1>1 DEF Accounted, CommandAccounts, LogGrows

\* What is left to show of a dispatch's step, and of a command's.
LEMMA DispatchAccountsStep ==
    ASSUME Consistent, Accounted, LogGrows, RowsAnnounced, NEW d \in Dispatchers,
           \A e \in Dispatchers \ {d} : pc'[e] = pc[e] /\ job'[e] = job[e],
           DispatchAccounts(d)', UNCHANGED <<opPc, command>>
    PROVE  Accounted'
<1>1. \A e \in Dispatchers : DispatchAccounts(e)'
  BY DispatchAccountsFrame
<1>2. \A o \in Operators : CommandAccounts(o)'
  BY CommandAccountsFrame
<1> QED BY <1>1, <1>2, RowsStayAnnounced DEF Accounted

LEMMA CommandAccountsStep ==
    ASSUME Consistent, Accounted, LogGrows, RowsAnnounced, NEW o \in Operators,
           \A p \in Operators \ {o} : opPc'[p] = opPc[p] /\ command'[p] = command[p],
           CommandAccounts(o)', UNCHANGED <<pc, job>>
    PROVE  Accounted'
<1>1. \A p \in Operators : CommandAccounts(p)'
  BY CommandAccountsFrame
<1>2. \A e \in Dispatchers : DispatchAccounts(e)'
  BY DispatchAccountsFrame
<1> QED BY <1>1, <1>2, RowsStayAnnounced DEF Accounted

\* Nothing is said of a status that is not an end.
LEMMA LiveNeedsNothing ==
    ASSUME NEW r, NEW status, status \notin TerminalStatus
    PROVE  Announced(r, status)
BY DEF Announced, TerminalStatus

\* A statement on one row.
LEMMA RowWritten ==
    ASSUME Consistent, NEW r \in AgentRuns, NEW status, Announced(r, status),
           agentRun' = [agentRun EXCEPT ![r].status = status]
    PROVE  RowsAnnounced
<1>1. agentRun \in [AgentRuns -> RunRow]
  BY DEF Consistent, TypeOK, StoreTypeOK
<1>2. agentRun'[r].status = status /\ \A s \in AgentRuns \ {r} : agentRun'[s] = agentRun[s]
  BY <1>1 DEF RunRow
<1> QED BY <1>2 DEF RowsAnnounced

LEMMA RowCreated ==
    ASSUME Consistent, NEW r \in AgentRuns, NEW row, row.status \notin TerminalStatus,
           agentRun' = [agentRun EXCEPT ![r] = row]
    PROVE  RowsAnnounced
<1>1. agentRun \in [AgentRuns -> RunRow]
  BY DEF Consistent, TypeOK, StoreTypeOK
<1>2. agentRun'[r].status = row.status /\ \A s \in AgentRuns \ {r} : agentRun'[s] = agentRun[s]
  BY <1>1
<1>3. Announced(r, row.status)
  BY LiveNeedsNothing
<1> QED BY <1>2, <1>3 DEF RowsAnnounced

\* A dispatch and its local variables after a step.
LEMMA OneDispatch ==
    ASSUME Consistent, NEW d \in Dispatchers, NEW next, NEW local,
           pc' = [pc EXCEPT ![d] = next], job' = [job EXCEPT ![d] = local]
    PROVE  /\ pc'[d] = next /\ job'[d] = local
           /\ \A e \in Dispatchers \ {d} : pc'[e] = pc[e] /\ job'[e] = job[e]
BY LocalTypes

\* A step of a dispatch that neither announces an end nor is about to.
LEMMA QuietStep ==
    ASSUME Consistent, Accounted, RowsAnnounced, NEW d \in Dispatchers,
           NEW next, next \notin {"succeed", "fail", "finish"}, NEW local,
           pc' = [pc EXCEPT ![d] = next], job' = [job EXCEPT ![d] = local],
           UNCHANGED <<log, opPc, command>>
    PROVE  Accounted'
<1>1. /\ pc'[d] = next
      /\ \A e \in Dispatchers \ {d} : pc'[e] = pc[e] /\ job'[e] = job[e]
  BY OneDispatch
<1>2. LogGrows /\ DispatchAccounts(d)'
  BY <1>1 DEF LogGrows, DispatchAccounts
<1> QED BY <1>1, <1>2, DispatchAccountsStep

\* One that is going to fail the run.
LEMMA FailingStep ==
    ASSUME Consistent, Accounted, NEW d \in Dispatchers,
           NEW status \in {"failed", "timed_out"}, NEW local, local.status = status,
           pc' = [pc EXCEPT ![d] = "fail"], job' = [job EXCEPT ![d] = local],
           UNCHANGED <<agentRun, log, opPc, command>>
    PROVE  Accounted'
<1>1. /\ pc'[d] = "fail" /\ job'[d] = local
      /\ \A e \in Dispatchers \ {d} : pc'[e] = pc[e] /\ job'[e] = job[e]
  BY OneDispatch
<1>2. LogGrows /\ RowsAnnounced /\ DispatchAccounts(d)'
  BY <1>1 DEF LogGrows, RowsAnnounced, DispatchAccounts
<1> QED BY <1>1, <1>2, DispatchAccountsStep

LEMMA FailingWith ==
    ASSUME Consistent, Accounted, NEW d \in Dispatchers, Goto(d, "fail"),
           NEW status \in {"failed", "timed_out"}, job' = [job EXCEPT ![d].status = status],
           UNCHANGED <<agentRun, log, opPc, command>>
    PROVE  Accounted'
<1> DEFINE local == [job[d] EXCEPT !.status = status]
<1>1. job[d] \in Job
  BY LocalTypes
<1>2. local.status = status
  BY <1>1 DEF Job
<1>3. job' = [job EXCEPT ![d] = local]
  OBVIOUS
<1> HIDE DEF local
<1> QED BY <1>2, <1>3, FailingStep DEF Goto

\* job[d] as a record, for steps that change some of it.
LEMMA JobUnchanged ==
    ASSUME Consistent, NEW d \in Dispatchers
    PROVE  job = [job EXCEPT ![d] = job[d]] /\ pc = [pc EXCEPT ![d] = pc[d]]
BY LocalTypes

LEMMA RowsKept ==
    ASSUME UNCHANGED agentRun
    PROVE  RowsAnnounced
BY DEF RowsAnnounced

LEMMA SetStatusAccounts ==
    ASSUME Consistent, Accounted, NEW d \in Dispatchers, pc[d] # "idle",
           NEW status \in LiveStatus, NEW next \in {"idle", "starting", "tool"},
           SetStatus(d, status, next), UNCHANGED <<log, opPc, command>>
    PROVE  Accounted'
<1>1. PICK r \in AgentRuns : r = job[d].run
  BY LocalTypes DEF DispatchKnows
<1>2. RowsAnnounced
  <2>1. Announced(r, status)
    BY LiveNeedsNothing DEF LiveStatus, TerminalStatus
  <2> QED BY <1>1, <2>1, RowWritten, RowsKept DEF SetStatus, SetAgentRunRow
<1>3. CASE ~Terminal(r) /\ agentRun[r].automation # NoAutomation
  BY <1>1, <1>2, <1>3, QuietStep DEF SetStatus, ThenMirror, Goto
<1>4. CASE ~(~Terminal(r) /\ agentRun[r].automation # NoAutomation)
  <2>1. CASE next = "idle"
    BY <1>1, <1>2, <1>4, <2>1, QuietStep DEF SetStatus, Return, Goto
  <2>2. CASE next # "idle"
    BY <1>1, <1>2, <1>4, <2>2, QuietStep, JobUnchanged DEF SetStatus, Goto
  <2> QED BY <2>1, <2>2
<1> QED BY <1>3, <1>4

LEMMA DecideAccounts ==
    ASSUME Consistent, Accounted, NEW d \in Dispatchers,
           NEW status \in {"pending", "approved", "denied", "expired"}, Decide(d, status),
           UNCHANGED <<agentRun, log, opPc, command>>
    PROVE  Accounted'
<1> DEFINE local == [job[d] EXCEPT !.approval = 0, !.status = IF status = "expired" THEN "timed_out" ELSE "failed"]
<1>1. /\ job' = [job EXCEPT ![d] = local]
      /\ \E target \in {"failed", "timed_out"} : local.status = target
  BY LocalTypes DEF Decide, Job
<1> HIDE DEF local
<1>2. CASE status = "pending"
  BY <1>1, <1>2, RowsKept, QuietStep DEF Decide, Goto
<1>3. CASE status = "approved"
  BY <1>1, <1>3, RowsKept, QuietStep DEF Decide, Goto
<1>4. CASE status \in {"denied", "expired"}
  BY <1>1, <1>4, FailingStep DEF Decide, Goto
<1> QED BY <1>2, <1>3, <1>4

LEMMA ContinueAccounts ==
    ASSUME Consistent, Accounted, NEW d \in Dispatchers, Continue(d)
    PROVE  Accounted'
<1>1. /\ job[d] \in Job /\ DispatchKnows(d) /\ DispatchAccounts(d)
  BY LocalTypes DEF Accounted
<1>2. CASE MarkRunning(d) \/ WaitForApproval(d) \/ AcceptApproval(d)
  BY <1>2, SetStatusAccounts DEF MarkRunning, WaitForApproval, AcceptApproval, LiveStatus
<1>3. CASE Mirror(d)
  <2>1. job[d].next \in {"idle", "starting", "tool"} /\ RowsAnnounced /\ UNCHANGED <<log, opPc, command>>
    BY <1>1, <1>3, RowsKept DEF Mirror, MirrorToAutomation, DispatchKnows
  <2>2. CASE job[d].next = "idle"
    BY <1>3, <2>1, <2>2, QuietStep DEF Mirror, Return, Goto
  <2>3. CASE job[d].next # "idle"
    BY <1>3, <2>1, <2>3, QuietStep, JobUnchanged DEF Mirror, Goto
  <2> QED BY <2>2, <2>3
<1>4. CASE Refuse(d)
  BY <1>4, FailingWith DEF Refuse
<1>5. CASE RejectRoot(d)
  BY <1>5, RowsKept, QuietStep DEF RejectRoot, Return, Goto
<1>6. CASE Proceed(d)
  <2>1. PICK verdict \in {"ask", "allow"} :
          /\ pc' = [pc EXCEPT ![d] = IF verdict = "ask" THEN "gate" ELSE "tool"]
          /\ job' = [job EXCEPT ![d] = [job[d] EXCEPT !.asked = (verdict = "ask")]]
    BY <1>6 DEF Proceed, Goto
  <2>2. RowsAnnounced /\ UNCHANGED <<log, opPc, command>>
    BY <1>6, RowsKept DEF Proceed
  <2>3. (IF verdict = "ask" THEN "gate" ELSE "tool") \notin {"succeed", "fail", "finish"}
    OBVIOUS
  <2> QED BY <2>1, <2>2, <2>3, QuietStep
<1>7. CASE PermissionHook(d)
  <2>1. CASE Goto(d, "ensure") /\ UNCHANGED job
    BY <1>7, <2>1, RowsKept, QuietStep, JobUnchanged DEF PermissionHook, Goto
  <2>2. CASE Goto(d, "fail") /\ job' = [job EXCEPT ![d].status = "failed"]
    BY <1>7, <2>2, FailingWith DEF PermissionHook
  <2> QED BY <1>7, <2>1, <2>2 DEF PermissionHook
<1>8. CASE EnsureApproval(d)
  <2>1. CASE Goto(d, "request") /\ UNCHANGED job
    BY <1>8, <2>1, RowsKept, QuietStep, JobUnchanged DEF EnsureApproval, Goto
  <2>2. ASSUME NEW i, Goto(d, "expire"), job' = [job EXCEPT ![d].approval = i]
        PROVE  Accounted'
    <3>1. /\ pc' = [pc EXCEPT ![d] = "expire"]
          /\ job' = [job EXCEPT ![d] = [job[d] EXCEPT !.approval = i]]
          /\ RowsAnnounced /\ UNCHANGED <<log, opPc, command>>
      BY <1>8, <2>2, RowsKept DEF EnsureApproval, Goto
    <3> QED BY <3>1, QuietStep
  <2>3. ASSUME NEW i \in Matching(job[d].run, job[d].root), Decide(d, approvals[job[d].run][i].status)
        PROVE  Accounted'
    <3>1. approvals[job[d].run][i].status \in {"pending", "approved", "denied", "expired"}
      <4>1. approvals[job[d].run] \in Seq(Approval) /\ i \in DOMAIN approvals[job[d].run]
        BY <1>1, <1>8, <2>3 DEF EnsureApproval, DispatchKnows, Consistent, TypeOK, Matching
      <4>2. approvals[job[d].run][i] \in Approval
        BY <4>1, LenProperties
      <4> QED BY <4>2 DEF Approval
    <3> QED BY <1>8, <2>3, <3>1, DecideAccounts DEF EnsureApproval
  <2> QED BY <1>8, <2>1, <2>2, <2>3 DEF EnsureApproval
<1>9. CASE RequestApproval(d)
  BY <1>9, DecideAccounts DEF RequestApproval
<1>10. CASE RecheckExpired(d)
  <2>1. CASE Goto(d, "expireWrite") /\ UNCHANGED job
    BY <1>10, <2>1, RowsKept, QuietStep, JobUnchanged DEF RecheckExpired, Goto
  <2>2. CASE Decide(d, approvals[job[d].run][job[d].approval].status)
    <3>1. approvals[job[d].run][job[d].approval].status \in {"pending", "approved", "denied", "expired"}
      <4>1. /\ approvals[job[d].run] \in Seq(Approval)
            /\ job[d].approval \in DOMAIN approvals[job[d].run]
        BY <1>1, <1>10 DEF RecheckExpired, DispatchKnows, Consistent, TypeOK
      <4>2. approvals[job[d].run][job[d].approval] \in Approval
        BY <4>1, LenProperties
      <4> QED BY <4>2 DEF Approval
    <3> QED BY <1>10, <2>2, <3>1, DecideAccounts DEF RecheckExpired
  <2> QED BY <1>10, <2>1, <2>2 DEF RecheckExpired
<1>11. CASE ExpireApproval(d)
  BY <1>11, DecideAccounts DEF ExpireApproval
<1>12. CASE StartProcess(d)
  BY <1>12, RowsKept, QuietStep, JobUnchanged DEF StartProcess, Goto
<1>13. CASE FinishTool(d)
  <2>1. PICK status \in {"succeeded", "failed", "timed_out"} :
          /\ job' = [job EXCEPT ![d].status = status]
          /\ Goto(d, IF status = "succeeded" THEN "succeed" ELSE "fail")
    BY <1>13 DEF FinishTool
  <2>2. /\ pc'[d] = IF status = "succeeded" THEN "succeed" ELSE "fail"
        /\ job'[d].status = status
        /\ \A e \in Dispatchers \ {d} : pc'[e] = pc[e] /\ job'[e] = job[e]
    BY <1>1, <2>1, LocalTypes DEF Goto, Job
  <2>3. LogGrows /\ RowsAnnounced /\ DispatchAccounts(d)'
    BY <1>13, <2>2 DEF FinishTool, LogGrows, RowsAnnounced, DispatchAccounts
  <2> QED BY <1>13, <2>2, <2>3, DispatchAccountsStep DEF FinishTool
<1>14. CASE LogSuccess(d) \/ LogFailure(d)
  <2>1. PICK r \in AgentRuns : r = job[d].run
    BY <1>1, <1>14 DEF LogSuccess, LogFailure, DispatchKnows
  <2>2. /\ pc'[d] = "finish" /\ job' = job
        /\ \A e \in Dispatchers \ {d} : pc'[e] = pc[e] /\ job'[e] = job[e]
        /\ UNCHANGED <<agentRun, opPc, command>>
    BY <1>14, LocalTypes DEF LogSuccess, LogFailure, Goto
  <2>3. LogGrows
    BY <1>14, <2>1, LocalTypes DEF LogSuccess, LogFailure, Log, LogGrows
  <2>4. /\ job[d].status = "succeeded" => "run.succeeded" \in log'[r]
        /\ job[d].status = "failed" => "run.failed" \in log'[r]
        /\ job[d].status = "timed_out" => "run.timed_out" \in log'[r]
        /\ job[d].status # "cancelled"
    BY <1>1, <1>14, <2>1, LocalTypes DEF LogSuccess, LogFailure, Log, DispatchAccounts
  <2>5. DispatchAccounts(d)'
    BY <2>1, <2>2, <2>4 DEF DispatchAccounts, Announced
  <2> QED BY <2>2, <2>3, <2>5, RowsKept, DispatchAccountsStep
<1>15. CASE FinishRun(d)
  <2>1. PICK r \in AgentRuns : r = job[d].run
    BY <1>1, <1>15 DEF FinishRun, DispatchKnows
  <2>2. RowsAnnounced
    BY <1>1, <1>15, <2>1, RowWritten DEF FinishRun, FinishAgentRunRow, DispatchAccounts
  <2>3. CASE agentRun[r].automation # NoAutomation
    BY <1>15, <2>1, <2>2, <2>3, QuietStep DEF FinishRun, ThenMirror, Goto
  <2>4. CASE agentRun[r].automation = NoAutomation
    BY <1>15, <2>1, <2>2, <2>4, QuietStep DEF FinishRun, Return, Goto
  <2> QED BY <2>3, <2>4
<1> QED
  BY <1>2, <1>3, <1>4, <1>5, <1>6, <1>7, <1>8, <1>9, <1>10, <1>11, <1>12, <1>13,
     <1>14, <1>15 DEF Continue

LEMMA StartAccounts ==
    ASSUME Consistent, Accounted, NEW d \in Dispatchers, StartDispatch(d) \/ DispatchThrows(d)
    PROVE  Accounted'
<1>1. ASSUME NEW a \in AutomationRuns, NEW r \in AgentRuns, NEW root \in Roots, DispatchOnce(d, a, r, root)
      PROVE  Accounted'
  <2>1. RowsAnnounced /\ agentRun' # agentRun
    <3> DEFINE row == [status |-> "running", automation |-> a, attempt |-> 1, retryOf |-> NoRun]
    <3>1. agentRun' # agentRun
      BY <1>1, RunClaimed DEF DispatchOnce
    <3>2. agentRun' = [agentRun EXCEPT ![r] = row]
      BY <1>1, <3>1 DEF DispatchOnce, ClaimAutomationRun
    <3>3. row.status \notin TerminalStatus
      BY DEF TerminalStatus
    <3> HIDE DEF row
    <3> QED BY <3>1, <3>2, <3>3, RowCreated
  <2> QED BY <1>1, <2>1, QuietStep DEF DispatchOnce, Goto
<1>2. ASSUME NEW r \in AgentRuns, NEW root \in Roots, DispatchRun(d, r, root)
      PROVE  Accounted'
  BY ZenonT(40), <1>2, RowsKept, QuietStep DEF DispatchRun, Goto
<1>3. CASE DispatchThrows(d)
  BY <1>3, RowsKept, QuietStep DEF DispatchThrows, Return, Goto
<1> QED BY <1>1, <1>2, <1>3 DEF StartDispatch

\* A command that does not announce a cancellation.
LEMMA QuietCommand ==
    ASSUME Consistent, Accounted, RowsAnnounced, NEW o \in Operators,
           NEW next, next # "cancel", NEW cmd,
           opPc' = [opPc EXCEPT ![o] = next], command' = [command EXCEPT ![o] = cmd],
           UNCHANGED <<pc, job, log>>
    PROVE  Accounted'
<1>1. /\ opPc'[o] = next
      /\ \A p \in Operators \ {o} : opPc'[p] = opPc[p] /\ command'[p] = command[p]
  BY LocalTypes
<1>2. LogGrows /\ CommandAccounts(o)'
  BY <1>1 DEF LogGrows, CommandAccounts
<1> QED BY <1>1, <1>2, CommandAccountsStep

LEMMA CommandUnchanged ==
    ASSUME Consistent, NEW o \in Operators
    PROVE  command = [command EXCEPT ![o] = command[o]] /\ opPc = [opPc EXCEPT ![o] = opPc[o]]
BY LocalTypes

LEMMA OperatorAccounts ==
    ASSUME Consistent, Accounted, NEW o \in Operators,
           OperatorStarts(o) \/ OperatorContinues(o) \/ CommandThrows(o)
    PROVE  Accounted'
<1>1. CommandKnows(o) /\ CommandAccounts(o)
  BY LocalTypes DEF Accounted
<1>2. ASSUME NEW r \in AgentRuns, RequestCancel(o, r)
      PROVE  Accounted'
  <2>1. /\ opPc'[o] = "cancel" /\ command'[o].run = r
        /\ \A p \in Operators \ {o} : opPc'[p] = opPc[p] /\ command'[p] = command[p]
        /\ log' = [log EXCEPT ![r] = @ \cup {"run.cancel_requested"}]
        /\ UNCHANGED <<agentRun, pc, job>>
    BY <1>2, LocalTypes DEF RequestCancel, StartCommand, Log, NoCommand
  <2>2. LogGrows /\ CommandAccounts(o)'
    BY <2>1, LocalTypes DEF LogGrows, CommandAccounts
  <2> QED BY <2>1, <2>2, RowsKept, CommandAccountsStep
<1>3. ASSUME NEW r \in AgentRuns, CheckRetry(o, r)
      PROVE  Accounted'
  BY <1>3, RowsKept, QuietCommand DEF CheckRetry, StartCommand
<1>4. ASSUME NEW r \in AgentRuns, OperatorRequestsApproval(o, r)
      PROVE  Accounted'
  BY <1>4, RowsKept, QuietCommand, CommandUnchanged DEF OperatorRequestsApproval
<1>5. ASSUME NEW r \in AgentRuns, NEW i \in DOMAIN approvals[r], NEW decision \in Decisions,
             CheckPending(o, r, i, decision)
      PROVE  Accounted'
  BY <1>5, RowsKept, QuietCommand DEF CheckPending, StartCommand
<1>6. CASE CancelRun(o)
  <2>1. PICK r \in AgentRuns : r = command[o].run
    BY <1>1, <1>6 DEF CancelRun, CommandKnows
  <2>2. RowsAnnounced
    <3>1. Announced(r, "cancelled")
      BY <1>1, <1>6, <2>1 DEF CancelRun, CommandAccounts, Announced
    <3> QED BY <1>6, <2>1, <3>1, RowWritten DEF CancelRun, FinishAgentRunRow
  <2>3. CASE agentRun[r].automation # NoAutomation
    BY <1>6, <2>1, <2>2, <2>3, QuietCommand, CommandUnchanged DEF CancelRun
  <2>4. CASE agentRun[r].automation = NoAutomation
    BY <1>6, <2>1, <2>2, <2>4, QuietCommand DEF CancelRun, EndCommand
  <2> QED BY <2>3, <2>4
<1>7. CASE MirrorCancel(o)
  BY <1>7, RowsKept, QuietCommand DEF MirrorCancel, MirrorToAutomation, EndCommand
<1>8. ASSUME NEW new \in AgentRuns, CreateRetry(o, new)
      PROVE  Accounted'
  <2> DEFINE row == [status |-> "queued", automation |-> NoAutomation,
                     attempt |-> agentRun[command[o].run].attempt + 1, retryOf |-> command[o].run]
  <2>1. agentRun' = [agentRun EXCEPT ![new] = row] /\ row.status \notin TerminalStatus
    BY <1>8 DEF CreateRetry, CreateRetryRun, TerminalStatus
  <2> HIDE DEF row
  <2>2. RowsAnnounced
    BY <2>1, RowCreated
  <2> QED BY <1>8, <2>2, QuietCommand DEF CreateRetry, EndCommand
<1>9. CASE ResolveApproval(o)
  BY <1>9, RowsKept, QuietCommand DEF ResolveApproval, EndCommand
<1>10. CASE CommandThrows(o)
  BY <1>10, RowsKept, QuietCommand DEF CommandThrows, EndCommand
<1> QED
  BY <1>2, <1>3, <1>4, <1>5, <1>6, <1>7, <1>8, <1>9, <1>10 DEF OperatorStarts, OperatorContinues

LEMMA AccountsFrame ==
    ASSUME Consistent, Accounted, UNCHANGED <<agentRun, log, pc, job, opPc, command>>
    PROVE  Accounted'
BY DEF Accounted, Announced, DispatchAccounts, CommandAccounts

\* No status is shown that was not announced, whoever writes it, in which order
\* and wherever a call is cut short (failRun, executeNativeAgentRun,
\* cancelAgentRun).
THEOREM StatusesAreAnnounced == Spec => []StatusIsAccountedFor
<1>1. Init => Accounted
  BY DEF Init, StoreInit, AbsentRow, Accounted, Announced, DispatchAccounts, CommandAccounts
<1>2. ASSUME Consistent, Accounted, [Next]_vars
      PROVE  Accounted'
  <2>1. CASE Clock
    BY <1>2, <2>1, AccountsFrame DEF Clock, ApprovalOverdue
  <2>2. CASE UNCHANGED vars
    BY <1>2, <2>2, AccountsFrame DEF vars
  <2> QED BY <1>2, <2>1, <2>2, ContinueAccounts, StartAccounts, OperatorAccounts DEF Next
<1>3. Accounted => StatusIsAccountedFor
  BY DEF Accounted, Announced, StatusIsAccountedFor
<1> QED BY <1>1, <1>2, <1>3, ConsistentAlways, PTL DEF Spec

-----------------------------------------------------------------------------
(* The approval.                                                            *)

\* The approval that a dispatch goes on with.
HasApproval(d) ==
    \E i \in DOMAIN approvals[job[d].run] :
        /\ approvals[job[d].run][i].root = job[d].root
        /\ "approved" \in approvals[job[d].run][i].decisions

GoesOn(d) ==
    pc[d] \in {"accept", "tool", "reading"} \/ (pc[d] = "mirror" /\ job[d].next = "tool")

DispatchApproved(d) ==
    /\ process[d] = "running" => pc[d] = "reading"
    /\ GoesOn(d) /\ job[d].asked => HasApproval(d)
    /\ pc[d] \in {"expire", "expireWrite"} =>
           approvals[job[d].run][job[d].approval].root = job[d].root

\* What counts as approved was decided so.
ApprovedIsDecided(approval) == approval.status = "approved" => "approved" \in approval.decisions
ApprovalsDecided == \A r \in AgentRuns : \A i \in DOMAIN approvals[r] : ApprovedIsDecided(approvals[r][i])

Approved == ApprovalsDecided /\ \A d \in Dispatchers : DispatchApproved(d)

\* Requests keep their fingerprint and gather decisions.
ApprovalsKeep ==
    \A r \in AgentRuns : \A i \in DOMAIN approvals[r] :
        /\ i \in DOMAIN approvals'[r]
        /\ approvals'[r][i].root = approvals[r][i].root
        /\ approvals[r][i].decisions \subseteq approvals'[r][i].decisions

LEMMA ApprovalAt ==
    ASSUME Consistent, NEW r \in AgentRuns, NEW i \in DOMAIN approvals[r]
    PROVE  approvals[r][i] \in Approval
<1>1. approvals[r] \in Seq(Approval)
  BY DEF Consistent, TypeOK
<1> QED BY <1>1, LenProperties

LEMMA ApprovedFrame ==
    ASSUME Consistent, Approved, ApprovalsKeep, NEW d \in Dispatchers,
           pc'[d] = pc[d], job'[d] = job[d], process'[d] = process[d]
    PROVE  DispatchApproved(d)'
<1>1. /\ pc[d] # "idle" => job[d].run \in AgentRuns
      /\ pc[d] \in {"expire", "expireWrite"} => job[d].approval \in DOMAIN approvals[job[d].run]
  BY LocalTypes DEF DispatchKnows
<1>2. DispatchApproved(d)
  BY DEF Approved
<1>3. GoesOn(d)' = GoesOn(d) /\ (GoesOn(d) => pc[d] # "idle")
  BY DEF GoesOn
<1>4. HasApproval(d) /\ pc[d] # "idle" => HasApproval(d)'
  BY <1>1 DEF HasApproval, ApprovalsKeep
<1> QED BY <1>1, <1>2, <1>3, <1>4 DEF DispatchApproved, ApprovalsKeep

LEMMA DispatchApprovedStep ==
    ASSUME Consistent, Approved, ApprovalsKeep, ApprovalsDecided', NEW d \in Dispatchers,
           \A e \in Dispatchers \ {d} :
               pc'[e] = pc[e] /\ job'[e] = job[e] /\ process'[e] = process[e],
           DispatchApproved(d)'
    PROVE  Approved'
<1>1. \A e \in Dispatchers : DispatchApproved(e)'
  BY ApprovedFrame
<1> QED BY <1>1 DEF Approved

LEMMA ApprovalsKept ==
    ASSUME Approved, UNCHANGED approvals
    PROVE  ApprovalsKeep /\ ApprovalsDecided'
BY DEF Approved, ApprovalsKeep, ApprovalsDecided, ApprovedIsDecided

LEMMA OtherDispatches ==
    ASSUME Consistent, NEW d \in Dispatchers, NEW next, NEW local, NEW child,
           pc' = [pc EXCEPT ![d] = next], job' = [job EXCEPT ![d] = local],
           process' = [process EXCEPT ![d] = child]
    PROVE  /\ pc'[d] = next /\ job'[d] = local /\ process'[d] = child
           /\ \A e \in Dispatchers \ {d} :
                  pc'[e] = pc[e] /\ job'[e] = job[e] /\ process'[e] = process[e]
BY LocalTypes

LEMMA ProcessUnchanged ==
    ASSUME Consistent, NEW d \in Dispatchers, UNCHANGED process
    PROVE  process' = [process EXCEPT ![d] = process[d]]
BY LocalTypes

LEMMA NoProcess ==
    ASSUME Consistent, Approved, NEW d \in Dispatchers, pc[d] # "reading"
    PROVE  process[d] = "none"
<1>1. process[d] \in {"none", "running"}
  BY LocalTypes
<1> QED BY <1>1 DEF Approved, DispatchApproved

\* A step to where no approval is needed.
LEMMA Unapproved ==
    ASSUME Consistent, Approved, ApprovalsKeep, ApprovalsDecided', NEW d \in Dispatchers,
           NEW next, next \notin {"accept", "tool", "reading", "expire", "expireWrite"}, NEW local,
           next = "mirror" => local.next # "tool",
           pc' = [pc EXCEPT ![d] = next], job' = [job EXCEPT ![d] = local],
           process' = [process EXCEPT ![d] = "none"]
    PROVE  Approved'
<1>1. /\ pc'[d] = next /\ job'[d] = local /\ process'[d] = "none"
      /\ \A e \in Dispatchers \ {d} :
            pc'[e] = pc[e] /\ job'[e] = job[e] /\ process'[e] = process[e]
  BY OtherDispatches
<1>2. DispatchApproved(d)'
  BY <1>1 DEF DispatchApproved, GoesOn
<1> QED BY <1>1, <1>2, DispatchApprovedStep

\* A step of a dispatch that goes on with the approval it has.
LEMMA StillApproved ==
    ASSUME Consistent, Approved, UNCHANGED approvals, NEW d \in Dispatchers, GoesOn(d),
           NEW next \in {"mirror", "tool", "reading"}, NEW local,
           local.run = job[d].run, local.root = job[d].root, local.asked = job[d].asked,
           pc' = [pc EXCEPT ![d] = next], job' = [job EXCEPT ![d] = local],
           NEW child, process' = [process EXCEPT ![d] = child], child = "running" => next = "reading"
    PROVE  Approved'
<1>1. /\ pc'[d] = next /\ job'[d] = local /\ process'[d] = child
      /\ \A e \in Dispatchers \ {d} :
            pc'[e] = pc[e] /\ job'[e] = job[e] /\ process'[e] = process[e]
  BY OtherDispatches
<1>2. job[d].asked => HasApproval(d)
  BY DEF Approved, DispatchApproved
<1>3. DispatchApproved(d)'
  BY <1>1, <1>2 DEF DispatchApproved, HasApproval
<1> QED BY <1>1, <1>3, ApprovalsKept, DispatchApprovedStep

\* The first statement of setAgentRunStatus, from where no approval is needed
\* yet, and from where it has been given.
LEMMA SetStatusUnapproved ==
    ASSUME Consistent, Approved, UNCHANGED approvals, NEW d \in Dispatchers,
           pc[d] \in {"begin", "wait"}, NEW status, NEW next \in {"idle", "starting"},
           SetStatus(d, status, next)
    PROVE  Approved'
<1>1. /\ ApprovalsKeep /\ ApprovalsDecided' /\ process[d] = "none"
      /\ process = [process EXCEPT ![d] = "none"] /\ job[d] \in Job
  BY ApprovalsKept, NoProcess, LocalTypes
<1>2. CASE ThenMirror(d, status, next) /\ UNCHANGED process
  <2> DEFINE local == [job[d] EXCEPT !.status = status, !.next = next]
  <2>1. local.next # "tool" /\ job' = [job EXCEPT ![d] = local]
    BY <1>1, <1>2 DEF ThenMirror, Job
  <2> HIDE DEF local
  <2> QED BY <1>1, <1>2, <2>1, Unapproved DEF ThenMirror, Goto
<1>3. CASE Return(d)
  BY <1>1, <1>3, Unapproved DEF Return, Goto
<1>4. CASE Goto(d, next) /\ UNCHANGED <<job, process>>
  BY <1>1, <1>4, Unapproved, JobUnchanged DEF Goto
<1> QED BY <1>2, <1>3, <1>4 DEF SetStatus

LEMMA AcceptApproved ==
    ASSUME Consistent, Approved, NEW d \in Dispatchers, AcceptApproval(d)
    PROVE  Approved'
<1>1. /\ GoesOn(d) /\ process[d] = "none" /\ job[d] \in Job
      /\ process = [process EXCEPT ![d] = "none"] /\ UNCHANGED approvals
  BY NoProcess, LocalTypes DEF AcceptApproval, GoesOn
<1>2. CASE ThenMirror(d, "running", "tool") /\ UNCHANGED process
  <2> DEFINE local == [job[d] EXCEPT !.status = "running", !.next = "tool"]
  <2>1. /\ local.run = job[d].run /\ local.root = job[d].root /\ local.asked = job[d].asked
        /\ job' = [job EXCEPT ![d] = local]
    BY <1>1, <1>2 DEF ThenMirror, Job
  <2> HIDE DEF local
  <2> QED BY <1>1, <1>2, <2>1, StillApproved DEF ThenMirror, Goto
<1>3. CASE Goto(d, "tool") /\ UNCHANGED <<job, process>>
  BY <1>1, <1>3, StillApproved, JobUnchanged DEF Goto
<1> QED BY <1>2, <1>3 DEF AcceptApproval, SetStatus

\* The dispatch decides on an approval of its own fingerprint.
LEMMA DecideApproved ==
    ASSUME Consistent, Approved, UNCHANGED <<approvals, process>>, NEW d \in Dispatchers, pc[d] \notin {"idle", "reading"},
           NEW i \in DOMAIN approvals[job[d].run], approvals[job[d].run][i].root = job[d].root,
           Decide(d, approvals[job[d].run][i].status)
    PROVE  Approved'
<1> DEFINE status == approvals[job[d].run][i].status
           local == [job[d] EXCEPT !.approval = 0, !.status = IF status = "expired" THEN "timed_out" ELSE "failed"]
<1>1. /\ job[d] \in Job /\ job[d].run \in AgentRuns /\ process[d] = "none"
      /\ process' = [process EXCEPT ![d] = "none"]
  BY LocalTypes, NoProcess DEF DispatchKnows
<1>2. /\ status \in {"pending", "approved", "denied", "expired"}
      /\ status = "approved" => "approved" \in approvals[job[d].run][i].decisions
  BY <1>1, ApprovalAt DEF Approval, Approved, ApprovalsDecided, ApprovedIsDecided
<1>3. /\ local.run = job[d].run /\ local.root = job[d].root
      /\ job' = [job EXCEPT ![d] = local]
  BY <1>1 DEF Decide, Job
<1> HIDE DEF local
<1>4. ApprovalsKeep /\ ApprovalsDecided'
  BY ApprovalsKept
<1>5. CASE status = "pending"
  BY <1>1, <1>3, <1>4, <1>5, Unapproved DEF Decide, Goto
<1>6. CASE status \in {"denied", "expired"}
  BY <1>1, <1>3, <1>4, <1>6, Unapproved DEF Decide, Goto
<1>7. CASE status = "approved"
  <2>1. pc' = [pc EXCEPT ![d] = "accept"]
    BY <1>7 DEF Decide, Goto
  <2>2. /\ pc'[d] = "accept" /\ job'[d] = local /\ process'[d] = "none"
        /\ \A e \in Dispatchers \ {d} :
              pc'[e] = pc[e] /\ job'[e] = job[e] /\ process'[e] = process[e]
    BY <1>1, <1>3, <2>1, LocalTypes
  <2>3. HasApproval(d)'
    BY <1>2, <1>3, <1>7, <2>2 DEF HasApproval
  <2>4. DispatchApproved(d)'
    BY <2>2, <2>3 DEF DispatchApproved
  <2> QED BY <1>4, <2>2, <2>4, DispatchApprovedStep
<1> QED BY <1>2, <1>5, <1>6, <1>7

\* What the statements on approvals keep.
LEMMA RequestKeeps ==
    ASSUME Consistent, Approved, NEW r \in AgentRuns, NEW approval \in Approval,
           approval.status # "approved",
           approvals' = [approvals EXCEPT ![r] = Append(@, approval)]
    PROVE  ApprovalsKeep /\ ApprovalsDecided'
<1> DEFINE old == approvals[r]
           new == Append(old, approval)
<1>1. /\ approvals \in [AgentRuns -> Seq(Approval)]
      /\ approvals'[r] = new /\ \A s \in AgentRuns \ {r} : approvals'[s] = approvals[s]
  BY DEF Consistent, TypeOK
<1>2. old \in Seq(Approval) /\ Len(old) \in Nat /\ DOMAIN old = 1 .. Len(old)
  BY <1>1, LenProperties
<1>3. /\ DOMAIN new = 1 .. Len(old) + 1
      /\ \A i \in 1 .. Len(old) : new[i] = old[i]
      /\ new[Len(old) + 1] = approval
  BY <1>2, AppendProperties
<1> HIDE DEF old, new
<1>4. \A i \in DOMAIN new : i \in DOMAIN old \/ i = Len(old) + 1
  BY <1>2, <1>3
<1>5. \A i \in DOMAIN old : i \in DOMAIN new /\ new[i] = old[i]
  BY <1>2, <1>3
<1>6. approvals[r] = old
  BY DEF old
<1>7. ApprovalsKeep
  BY <1>1, <1>5, <1>6 DEF ApprovalsKeep
<1>8. ApprovalsDecided'
  BY <1>1, <1>3, <1>4, <1>5, <1>6 DEF Approved, ApprovalsDecided, ApprovedIsDecided
<1> QED BY <1>7, <1>8

LEMMA ReplacementKeeps ==
    ASSUME Consistent, Approved, NEW r \in AgentRuns, NEW i \in DOMAIN approvals[r],
           NEW approval, ApprovedIsDecided(approval),
           approval.root = approvals[r][i].root,
           approvals[r][i].decisions \subseteq approval.decisions,
           approvals' = [approvals EXCEPT ![r][i] = approval]
    PROVE  ApprovalsKeep /\ ApprovalsDecided'
<1>1. /\ approvals \in [AgentRuns -> Seq(Approval)]
      /\ approvals'[r] = [approvals[r] EXCEPT ![i] = approval]
      /\ \A s \in AgentRuns \ {r} : approvals'[s] = approvals[s]
  BY DEF Consistent, TypeOK
<1>2. /\ DOMAIN approvals'[r] = DOMAIN approvals[r] /\ approvals'[r][i] = approval
      /\ \A j \in DOMAIN approvals[r] \ {i} : approvals'[r][j] = approvals[r][j]
  BY <1>1
<1> QED BY <1>1, <1>2 DEF ApprovalsKeep, Approved, ApprovalsDecided, ApprovedIsDecided

LEMMA DecisionKeeps ==
    ASSUME Consistent, Approved, NEW r \in AgentRuns, NEW i \in DOMAIN approvals[r],
           NEW decision \in {"approved", "denied", "expired"}, RecordDecision(r, i, decision)
    PROVE  ApprovalsKeep /\ ApprovalsDecided'
<1> DEFINE old == approvals[r][i]
           new == [old EXCEPT !.status = decision, !.decisions = old.decisions \cup {decision}]
<1>1. old \in Approval
  BY ApprovalAt
<1>2. /\ new.root = old.root /\ new.status = decision
      /\ new.decisions = old.decisions \cup {decision}
  BY <1>1 DEF Approval
<1>3. approvals' = [approvals EXCEPT ![r][i] = new]
  BY DEF RecordDecision
<1> HIDE DEF new
<1> QED BY <1>2, <1>3, ReplacementKeeps DEF ApprovedIsDecided

LEMMA ContinueApproved ==
    ASSUME Consistent, Approved, NEW d \in Dispatchers, Continue(d)
    PROVE  Approved'
<1>1. /\ job[d] \in Job /\ DispatchKnows(d) /\ DispatchApproved(d)
      /\ pc[d] # "reading" => process = [process EXCEPT ![d] = "none"]
      /\ job = [job EXCEPT ![d] = job[d]]
  BY LocalTypes, NoProcess, JobUnchanged DEF Approved
<1>2. UNCHANGED approvals => ApprovalsKeep /\ ApprovalsDecided'
  BY ApprovalsKept
<1>3. CASE MarkRunning(d) \/ WaitForApproval(d)
  BY <1>3, SetStatusUnapproved DEF MarkRunning, WaitForApproval
<1>4. CASE AcceptApproval(d)
  BY <1>4, AcceptApproved
<1>5. CASE Mirror(d)
  <2>1. job[d].next \in {"idle", "starting", "tool"} /\ UNCHANGED approvals /\ pc[d] = "mirror"
    BY <1>1, <1>5 DEF Mirror, DispatchKnows
  <2>2. CASE job[d].next = "idle"
    BY <1>1, <1>2, <1>5, <2>1, <2>2, Unapproved DEF Mirror, Return, Goto
  <2>3. CASE job[d].next = "starting"
    BY <1>1, <1>2, <1>5, <2>1, <2>3, Unapproved DEF Mirror, Goto
  <2>4. CASE job[d].next = "tool"
    <3>1. GoesOn(d)
      BY <2>1, <2>4 DEF GoesOn
    <3> QED BY <1>1, <1>5, <2>1, <2>4, <3>1, StillApproved DEF Mirror, Goto
  <2> QED BY <2>1, <2>2, <2>3, <2>4
<1>6. CASE Refuse(d)
  BY <1>1, <1>2, <1>6, Unapproved DEF Refuse, Goto
<1>7. CASE RejectRoot(d)
  BY <1>1, <1>2, <1>7, Unapproved DEF RejectRoot, Return, Goto
<1>8. CASE Proceed(d)
  <2>1. PICK verdict \in {"ask", "allow"} :
          /\ pc' = [pc EXCEPT ![d] = IF verdict = "ask" THEN "gate" ELSE "tool"]
          /\ job' = [job EXCEPT ![d] = [job[d] EXCEPT !.asked = (verdict = "ask")]]
    BY <1>8 DEF Proceed, Goto
  <2>2. process' = [process EXCEPT ![d] = "none"] /\ UNCHANGED approvals
    BY <1>1, <1>8 DEF Proceed
  <2>3. CASE verdict = "ask"
    BY <1>2, <2>1, <2>2, <2>3, Unapproved
  <2>4. CASE verdict = "allow"
    <3>1. /\ pc'[d] = "tool" /\ job'[d].asked = FALSE /\ process'[d] = "none"
          /\ \A e \in Dispatchers \ {d} :
                pc'[e] = pc[e] /\ job'[e] = job[e] /\ process'[e] = process[e]
      BY <1>1, <2>1, <2>2, <2>4, LocalTypes DEF Job
    <3>2. DispatchApproved(d)'
      BY <3>1 DEF DispatchApproved
    <3> QED BY <1>2, <2>2, <3>1, <3>2, DispatchApprovedStep
  <2> QED BY <2>3, <2>4
<1>9. CASE PermissionHook(d)
  <2>1. pc[d] = "gate" /\ UNCHANGED <<approvals, process>>
    BY <1>9 DEF PermissionHook
  <2>2. CASE Goto(d, "ensure") /\ UNCHANGED job
    BY <1>1, <1>2, <2>1, <2>2, Unapproved DEF Goto
  <2>3. CASE Goto(d, "fail") /\ job' = [job EXCEPT ![d].status = "failed"]
    BY <1>1, <1>2, <2>1, <2>3, Unapproved DEF Goto
  <2> QED BY <1>9, <2>2, <2>3 DEF PermissionHook
<1>10. CASE EnsureApproval(d)
  <2>1. pc[d] = "ensure" /\ UNCHANGED <<approvals, process>>
    BY <1>10 DEF EnsureApproval
  <2>2. CASE Goto(d, "request") /\ UNCHANGED job
    BY <1>1, <1>2, <2>1, <2>2, Unapproved DEF Goto
  <2>3. ASSUME NEW i \in Matching(job[d].run, job[d].root),
               Goto(d, "expire"), job' = [job EXCEPT ![d].approval = i]
        PROVE  Approved'
    <3>1. /\ pc'[d] = "expire" /\ process'[d] = "none" /\ job'[d].run = job[d].run
          /\ job'[d].root = job[d].root /\ job'[d].approval = i
          /\ \A e \in Dispatchers \ {d} :
                pc'[e] = pc[e] /\ job'[e] = job[e] /\ process'[e] = process[e]
      BY <1>1, <2>1, <2>3, LocalTypes DEF Job, Goto
    <3>2. approvals[job[d].run][i].root = job[d].root
      BY <2>3 DEF Matching
    <3>3. DispatchApproved(d)'
      BY <2>1, <3>1, <3>2 DEF DispatchApproved, GoesOn
    <3> QED BY <1>2, <2>1, <3>1, <3>3, DispatchApprovedStep
  <2>4. ASSUME NEW i \in Matching(job[d].run, job[d].root), Decide(d, approvals[job[d].run][i].status)
        PROVE  Approved'
    BY <2>1, <2>4, DecideApproved DEF Matching
  <2> QED BY <1>10, <2>2, <2>3, <2>4 DEF EnsureApproval
<1>11. CASE RequestApproval(d)
  <2> DEFINE approval == [root |-> job[d].root, status |-> "pending", decisions |-> {}, overdue |-> FALSE]
  <2>1. /\ pc[d] = "request" /\ UNCHANGED process /\ Decide(d, "pending")
        /\ approvals' = [approvals EXCEPT ![job[d].run] = Append(@, approval)]
    BY <1>11 DEF RequestApproval
  <2>2. approval \in Approval /\ approval.status = "pending" /\ job[d].run \in AgentRuns
    BY <1>1, <2>1 DEF Approval, Job, DispatchKnows
  <2> HIDE DEF approval
  <2>3. ApprovalsKeep /\ ApprovalsDecided'
    BY <2>1, <2>2, RequestKeeps
  <2>4. PICK local : pc' = [pc EXCEPT ![d] = "wait"] /\ job' = [job EXCEPT ![d] = local]
    BY <2>1 DEF Decide, Goto
  <2> QED BY <1>1, <2>1, <2>3, <2>4, Unapproved
<1>12. CASE RecheckExpired(d)
  <2>1. /\ pc[d] = "expire" /\ UNCHANGED <<approvals, process>>
        /\ job[d].approval \in DOMAIN approvals[job[d].run]
        /\ approvals[job[d].run][job[d].approval].root = job[d].root
    BY <1>1, <1>12 DEF RecheckExpired, DispatchKnows, DispatchApproved
  <2>2. CASE Goto(d, "expireWrite") /\ UNCHANGED job
    <3>1. /\ pc'[d] = "expireWrite" /\ process'[d] = "none" /\ job'[d] = job[d]
          /\ \A e \in Dispatchers \ {d} :
                pc'[e] = pc[e] /\ job'[e] = job[e] /\ process'[e] = process[e]
      BY <1>1, <2>1, <2>2, LocalTypes DEF Goto
    <3>2. DispatchApproved(d)'
      BY <2>1, <3>1 DEF DispatchApproved, GoesOn
    <3> QED BY <1>2, <2>1, <3>1, <3>2, DispatchApprovedStep
  <2>3. CASE Decide(d, approvals[job[d].run][job[d].approval].status)
    BY <2>1, <2>3, DecideApproved
  <2> QED BY <1>12, <2>2, <2>3 DEF RecheckExpired
<1>13. CASE ExpireApproval(d)
  <2>1. /\ pc[d] = "expireWrite" /\ UNCHANGED process /\ Decide(d, "expired")
        /\ RecordDecision(job[d].run, job[d].approval, "expired")
        /\ job[d].run \in AgentRuns /\ job[d].approval \in DOMAIN approvals[job[d].run]
    BY <1>1, <1>13 DEF ExpireApproval, DispatchKnows
  <2>2. ApprovalsKeep /\ ApprovalsDecided'
    BY <2>1, DecisionKeeps
  <2>3. PICK local : pc' = [pc EXCEPT ![d] = "fail"] /\ job' = [job EXCEPT ![d] = local]
    BY <2>1 DEF Decide, Goto
  <2> QED BY <1>1, <2>1, <2>2, <2>3, Unapproved
<1>14. CASE StartProcess(d)
  <2>1. GoesOn(d) /\ UNCHANGED approvals
    BY <1>14 DEF StartProcess, GoesOn
  <2> QED BY <1>1, <1>14, <2>1, StillApproved DEF StartProcess, Goto
<1>15. CASE FinishTool(d)
  <2>1. PICK next \in {"succeed", "fail"} : \E local :
          pc' = [pc EXCEPT ![d] = next] /\ job' = [job EXCEPT ![d] = local]
    BY <1>15 DEF FinishTool, Goto
  <2> QED BY <1>2, <1>15, <2>1, Unapproved DEF FinishTool
<1>16. CASE LogSuccess(d) \/ LogFailure(d)
  BY <1>1, <1>2, <1>16, Unapproved DEF LogSuccess, LogFailure, Goto
<1>17. CASE FinishRun(d)
  <2>1. pc[d] = "finish" /\ UNCHANGED approvals
    BY <1>17 DEF FinishRun
  <2>2. CASE ThenMirror(d, job[d].status, "idle") /\ UNCHANGED process
    <3> DEFINE local == [job[d] EXCEPT !.status = job[d].status, !.next = "idle"]
    <3>1. local.next = "idle" /\ job' = [job EXCEPT ![d] = local]
      BY <1>1, <2>2 DEF ThenMirror, Job
    <3> HIDE DEF local
    <3> QED BY <1>1, <1>2, <2>1, <2>2, <3>1, Unapproved DEF ThenMirror, Goto
  <2>3. CASE Return(d)
    BY <1>2, <2>1, <2>3, Unapproved DEF Return, Goto
  <2> QED BY <1>17, <2>2, <2>3 DEF FinishRun
<1> QED
  BY <1>3, <1>4, <1>5, <1>6, <1>7, <1>8, <1>9, <1>10, <1>11, <1>12, <1>13, <1>14,
     <1>15, <1>16, <1>17 DEF Continue

LEMMA StartApproved ==
    ASSUME Consistent, Approved, NEW d \in Dispatchers, StartDispatch(d) \/ DispatchThrows(d)
    PROVE  Approved'
<1>1. UNCHANGED approvals => ApprovalsKeep /\ ApprovalsDecided'
  BY ApprovalsKept
<1>2. pc[d] # "reading" => process = [process EXCEPT ![d] = "none"]
  BY NoProcess, LocalTypes
<1>3. ASSUME NEW a \in AutomationRuns, NEW r \in AgentRuns, NEW root \in Roots, DispatchOnce(d, a, r, root)
      PROVE  Approved'
  <2>1. agentRun' # agentRun
    BY <1>3, RunClaimed DEF DispatchOnce
  <2>2. PICK local : pc' = [pc EXCEPT ![d] = "starting"] /\ job' = [job EXCEPT ![d] = local]
    BY <1>3, <2>1 DEF DispatchOnce, Goto
  <2> QED BY <1>1, <1>2, <1>3, <2>2, Unapproved DEF DispatchOnce
<1>4. ASSUME NEW r \in AgentRuns, NEW root \in Roots, DispatchRun(d, r, root)
      PROVE  Approved'
  <2>1. PICK next \in {"begin", "starting"} : \E local :
          pc' = [pc EXCEPT ![d] = next] /\ job' = [job EXCEPT ![d] = local]
    BY <1>4 DEF DispatchRun, Goto
  <2> QED BY <1>1, <1>2, <1>4, <2>1, Unapproved DEF DispatchRun
<1>5. CASE DispatchThrows(d)
  BY <1>1, <1>5, Unapproved DEF DispatchThrows, Return, Goto
<1> QED BY <1>3, <1>4, <1>5 DEF StartDispatch

\* A step of somebody who is no dispatch.
LEMMA ApprovedStays ==
    ASSUME Consistent, Approved, UNCHANGED callers, ApprovalsKeep, ApprovalsDecided'
    PROVE  Approved'
<1>1. \A d \in Dispatchers : DispatchApproved(d)'
  BY ApprovedFrame DEF callers
<1> QED BY <1>1 DEF Approved

LEMMA OperatorApproved ==
    ASSUME Consistent, Approved, NEW o \in Operators,
           OperatorStarts(o) \/ OperatorContinues(o) \/ CommandThrows(o)
    PROVE  Approved'
<1>1. UNCHANGED approvals => ApprovalsKeep /\ ApprovalsDecided'
  BY ApprovalsKept
<1>2. ASSUME NEW r \in AgentRuns, OperatorRequestsApproval(o, r)
      PROVE  Approved'
  <2> DEFINE approval == [root |-> NoRoot, status |-> "pending", decisions |-> {}, overdue |-> FALSE]
  <2>1. /\ approvals' = [approvals EXCEPT ![r] = Append(@, approval)]
        /\ approval \in Approval /\ approval.status = "pending" /\ UNCHANGED callers
    BY <1>2 DEF OperatorRequestsApproval, Approval, callers
  <2> HIDE DEF approval
  <2> QED BY <2>1, RequestKeeps, ApprovedStays
<1>3. CASE ResolveApproval(o)
  <2>1. command[o] \in Command /\ CommandKnows(o) /\ UNCHANGED callers
    BY <1>3, LocalTypes DEF ResolveApproval, callers
  <2>2. ApprovalsKeep /\ ApprovalsDecided'
    BY <1>3, <2>1, DecisionKeeps DEF ResolveApproval, CommandKnows, Command, Decisions
  <2> QED BY <2>1, <2>2, ApprovedStays
<1>4. CASE UNCHANGED <<callers, approvals>>
  BY <1>1, <1>4, ApprovedStays
<1> QED
  BY <1>2, <1>3, <1>4 DEF OperatorStarts, OperatorContinues, RequestCancel, CheckRetry,
     CheckPending, CancelRun, MirrorCancel, CreateRetry, CommandThrows, callers

LEMMA ClockApproved ==
    ASSUME Consistent, Approved, Clock
    PROVE  Approved'
<1>1. PICK r \in AgentRuns : \E i \in DOMAIN approvals[r] : ApprovalOverdue(r, i)
  BY DEF Clock
<1>0. PICK i \in DOMAIN approvals[r] : ApprovalOverdue(r, i)
  BY <1>1
<1> DEFINE new == [approvals[r][i] EXCEPT !.overdue = TRUE]
<1>2. approvals[r][i] \in Approval /\ ApprovedIsDecided(approvals[r][i])
  BY ApprovalAt DEF Approved, ApprovalsDecided
<1>3. /\ new.root = approvals[r][i].root /\ new.decisions = approvals[r][i].decisions
      /\ new.status = approvals[r][i].status
  BY <1>2 DEF Approval
<1>4. approvals' = [approvals EXCEPT ![r][i] = new] /\ UNCHANGED callers
  BY <1>0 DEF ApprovalOverdue, callers
<1> HIDE DEF new
<1>5. ApprovalsKeep /\ ApprovalsDecided'
  BY <1>2, <1>3, <1>4, ReplacementKeeps DEF ApprovedIsDecided
<1> QED BY <1>4, <1>5, ApprovedStays

\* No process runs for a dispatch that had to ask unless a request with its
\* fingerprint was approved, however requests, decisions, expirations and
\* dispatches race (resolveApprovalGate).
THEOREM ProcessesAreApproved == Spec => []ProcessIsApproved
<1>1. Init => Approved
  BY DEF Init, Approved, ApprovalsDecided, DispatchApproved, GoesOn, NoJob
<1>2. ASSUME Consistent, Approved, [Next]_vars
      PROVE  Approved'
  <2>1. CASE UNCHANGED vars
    BY <1>2, <2>1, ApprovalsKept, ApprovedStays DEF vars, callers
  <2> QED BY <1>2, <2>1, ContinueApproved, StartApproved, OperatorApproved, ClockApproved DEF Next
<1>3. Approved => ProcessIsApproved
  BY DEF Approved, DispatchApproved, GoesOn, HasApproval, ProcessIsApproved
<1> QED BY <1>1, <1>2, <1>3, ConsistentAlways, PTL DEF Spec

-----------------------------------------------------------------------------
(* One command at a time: what Serial adds.                                 *)

\* At most one caller is in the middle of something.
InTurn ==
    /\ \A d, e \in Dispatchers : pc[d] # "idle" /\ pc[e] # "idle" => d = e
    /\ \A o, p \in Operators : opPc[o] # "idle" /\ opPc[p] # "idle" => o = p
    /\ \A d \in Dispatchers, o \in Operators : pc[d] = "idle" \/ opPc[o] = "idle"

\* Only dispatch d moves, and it or nobody was busy.
DispatchMoves(d) ==
    /\ pc[d] # "idle" \/ Idle
    /\ UNCHANGED commands
    /\ \A e \in Dispatchers \ {d} : pc'[e] = pc[e] /\ job'[e] = job[e]

CommandMoves(o) ==
    /\ opPc[o] # "idle" \/ Idle
    /\ UNCHANGED callers
    /\ \A p \in Operators \ {o} : opPc'[p] = opPc[p] /\ command'[p] = command[p]

LEMMA SetStatusMoves ==
    ASSUME Consistent, NEW d \in Dispatchers, NEW status, NEW next, SetStatus(d, status, next)
    PROVE  \A e \in Dispatchers \ {d} : pc'[e] = pc[e] /\ job'[e] = job[e]
<1>1. PICK place, local : /\ pc' = [pc EXCEPT ![d] = place]
                          /\ job' = [job EXCEPT ![d] = local]
  BY JobUnchanged DEF SetStatus, ThenMirror, Return, Goto
<1> QED BY <1>1, OneDispatch

LEMMA ContinueMoves ==
    ASSUME Consistent, NEW d \in Dispatchers, Continue(d) \/ DispatchThrows(d)
    PROVE  DispatchMoves(d) /\ pc[d] # "idle"
<1>1. pc[d] # "idle" /\ UNCHANGED commands
  BY DEF Continue, commands, MarkRunning, Mirror, Refuse, RejectRoot, Proceed, PermissionHook,
         EnsureApproval, RequestApproval, RecheckExpired, ExpireApproval, WaitForApproval,
         AcceptApproval, StartProcess, FinishTool, LogSuccess, LogFailure, FinishRun, DispatchThrows
<1>2. CASE MarkRunning(d) \/ WaitForApproval(d) \/ AcceptApproval(d)
  BY <1>1, <1>2, SetStatusMoves DEF MarkRunning, WaitForApproval, AcceptApproval, DispatchMoves
<1>3. CASE ~(MarkRunning(d) \/ WaitForApproval(d) \/ AcceptApproval(d))
  <2>1. PICK place, local : /\ pc' = [pc EXCEPT ![d] = place]
                            /\ job' = [job EXCEPT ![d] = local]
    <3>1. CASE Mirror(d) \/ FinishRun(d) \/ RejectRoot(d) \/ DispatchThrows(d)
      BY <3>1, JobUnchanged DEF Mirror, FinishRun, RejectRoot, DispatchThrows, ThenMirror, Return, Goto
    <3>2. CASE Refuse(d) \/ Proceed(d) \/ PermissionHook(d) \/ StartProcess(d) \/ FinishTool(d)
               \/ LogSuccess(d) \/ LogFailure(d)
      BY <3>2, JobUnchanged DEF Refuse, Proceed, PermissionHook, StartProcess, FinishTool,
         LogSuccess, LogFailure, Goto
    <3>3. ASSUME NEW status, Decide(d, status)
          PROVE  \E place, local : /\ pc' = [pc EXCEPT ![d] = place]
                                   /\ job' = [job EXCEPT ![d] = local]
      BY <3>3 DEF Decide, Goto
    <3>4. CASE EnsureApproval(d)
      BY <3>3, <3>4, JobUnchanged DEF EnsureApproval, Goto
    <3>5. CASE RequestApproval(d) \/ RecheckExpired(d) \/ ExpireApproval(d)
      BY <3>3, <3>5, JobUnchanged DEF RequestApproval, RecheckExpired, ExpireApproval, Goto
    <3> QED BY <1>3, <3>1, <3>2, <3>4, <3>5 DEF Continue
  <2> QED BY <1>1, <2>1, OneDispatch DEF DispatchMoves
<1> QED BY <1>2, <1>3

LEMMA StartMoves ==
    ASSUME Serial, Consistent, NEW d \in Dispatchers, StartDispatch(d)
    PROVE  DispatchMoves(d) /\ Idle
<1>1. Idle /\ UNCHANGED commands
  BY DEF StartDispatch, DispatchOnce, DispatchRun, MayStart, commands
<1>2. PICK place, local : /\ pc' = [pc EXCEPT ![d] = place]
                          /\ job' = [job EXCEPT ![d] = local]
  BY JobUnchanged DEF StartDispatch, DispatchOnce, DispatchRun, Goto
<1> QED BY <1>1, <1>2, OneDispatch DEF DispatchMoves

LEMMA OperatorMoves ==
    ASSUME Serial, Consistent, NEW o \in Operators
    PROVE  /\ OperatorStarts(o) => CommandMoves(o) /\ Idle
           /\ OperatorContinues(o) \/ CommandThrows(o) => CommandMoves(o) /\ opPc[o] # "idle"
<1>1. ASSUME OperatorStarts(o) PROVE CommandMoves(o) /\ Idle
  <2>1. Idle /\ UNCHANGED callers
    BY <1>1 DEF OperatorStarts, RequestCancel, CheckRetry, OperatorRequestsApproval, CheckPending,
       StartCommand, MayStart, callers
  <2>2. \A p \in Operators \ {o} : opPc'[p] = opPc[p] /\ command'[p] = command[p]
    BY <1>1, LocalTypes DEF OperatorStarts, RequestCancel, CheckRetry, OperatorRequestsApproval,
       CheckPending, StartCommand
  <2> QED BY <2>1, <2>2 DEF CommandMoves
<1>2. ASSUME OperatorContinues(o) \/ CommandThrows(o) PROVE CommandMoves(o) /\ opPc[o] # "idle"
  <2>1. opPc[o] # "idle" /\ UNCHANGED callers
    BY <1>2 DEF OperatorContinues, CancelRun, MirrorCancel, CreateRetry, ResolveApproval,
       CommandThrows, callers
  <2>2. \A p \in Operators \ {o} : opPc'[p] = opPc[p] /\ command'[p] = command[p]
    BY <1>2, LocalTypes DEF OperatorContinues, CancelRun, MirrorCancel, CreateRetry,
       ResolveApproval, CommandThrows, EndCommand
  <2> QED BY <2>1, <2>2 DEF CommandMoves
<1> QED BY <1>1, <1>2

LEMMA TurnStays ==
    ASSUME Serial, Consistent, InTurn, [Next]_vars
    PROVE  InTurn'
<1>1. ASSUME NEW d \in Dispatchers, DispatchMoves(d)
      PROVE  InTurn'
  <2>1. \A e \in Dispatchers \ {d} : pc[e] = "idle" /\ pc'[e] = "idle"
    BY <1>1 DEF DispatchMoves, InTurn, Idle
  <2>2. \A o \in Operators : opPc[o] = "idle" /\ opPc'[o] = "idle"
    BY <1>1 DEF DispatchMoves, InTurn, Idle, commands
  <2> QED BY <2>1, <2>2 DEF InTurn
<1>2. ASSUME NEW o \in Operators, CommandMoves(o)
      PROVE  InTurn'
  <2>1. \A p \in Operators \ {o} : opPc[p] = "idle" /\ opPc'[p] = "idle"
    BY <1>2 DEF CommandMoves, InTurn, Idle
  <2>2. \A d \in Dispatchers : pc[d] = "idle" /\ pc'[d] = "idle"
    BY <1>2 DEF CommandMoves, InTurn, Idle, callers
  <2> QED BY <2>1, <2>2 DEF InTurn
<1>3. CASE Clock \/ UNCHANGED vars
  BY <1>3 DEF Clock, ApprovalOverdue, vars, InTurn
<1> QED BY <1>1, <1>2, <1>3, ContinueMoves, StartMoves, OperatorMoves DEF Next

-----------------------------------------------------------------------------
(* Requests for approval, one command at a time.                            *)

\* A dispatch that is going to request has just seen that nobody had.
AsksOnce(d) ==
    /\ pc[d] # "idle" => job[d].root \in Roots
    /\ pc[d] = "request" => Matching(job[d].run, job[d].root) = {}

Prompts == OnePromptPerFingerprint /\ \A d \in Dispatchers : AsksOnce(d)

\* No request is added.
SameRequests ==
    \A r \in AgentRuns :
        /\ DOMAIN approvals'[r] = DOMAIN approvals[r]
        /\ \A i \in DOMAIN approvals[r] : approvals'[r][i].root = approvals[r][i].root

LEMMA RequestsKept ==
    ASSUME SameRequests, OnePromptPerFingerprint
    PROVE  /\ OnePromptPerFingerprint'
           /\ \A r \in AgentRuns : \A root : Matching(r, root)' = Matching(r, root)
BY DEF SameRequests, OnePromptPerFingerprint, Matching

LEMMA RequestReplaced ==
    ASSUME Consistent, NEW r \in AgentRuns, NEW i \in DOMAIN approvals[r], NEW approval,
           approval.root = approvals[r][i].root,
           approvals' = [approvals EXCEPT ![r][i] = approval]
    PROVE  SameRequests
<1>1. /\ approvals \in [AgentRuns -> Seq(Approval)]
      /\ approvals'[r] = [approvals[r] EXCEPT ![i] = approval]
      /\ \A s \in AgentRuns \ {r} : approvals'[s] = approvals[s]
  BY DEF Consistent, TypeOK
<1>2. /\ DOMAIN approvals'[r] = DOMAIN approvals[r] /\ approvals'[r][i] = approval
      /\ \A j \in DOMAIN approvals[r] \ {i} : approvals'[r][j] = approvals[r][j]
  BY <1>1
<1> QED BY <1>1, <1>2 DEF SameRequests

LEMMA DecisionAddsNoRequest ==
    ASSUME Consistent, NEW r \in AgentRuns, NEW i \in DOMAIN approvals[r],
           NEW decision, RecordDecision(r, i, decision)
    PROVE  SameRequests
<1> DEFINE old == approvals[r][i]
           new == [old EXCEPT !.status = decision, !.decisions = old.decisions \cup {decision}]
<1>1. new.root = old.root
  BY ApprovalAt DEF Approval
<1>2. approvals' = [approvals EXCEPT ![r][i] = new]
  BY DEF RecordDecision
<1> HIDE DEF new
<1> QED BY <1>1, <1>2, RequestReplaced

\* A request with a fingerprint that no other has, or with none at all.
LEMMA RequestAdded ==
    ASSUME Consistent, OnePromptPerFingerprint, NEW r \in AgentRuns, NEW approval \in Approval,
           approval.root = NoRoot \/ Matching(r, approval.root) = {},
           approvals' = [approvals EXCEPT ![r] = Append(@, approval)]
    PROVE  OnePromptPerFingerprint'
<1> DEFINE old == approvals[r]
           new == Append(old, approval)
<1>1. /\ approvals \in [AgentRuns -> Seq(Approval)]
      /\ approvals'[r] = new /\ \A s \in AgentRuns \ {r} : approvals'[s] = approvals[s]
  BY DEF Consistent, TypeOK
<1>2. old \in Seq(Approval) /\ Len(old) \in Nat /\ DOMAIN old = 1 .. Len(old)
  BY <1>1, LenProperties
<1>3. /\ DOMAIN new = 1 .. Len(old) + 1
      /\ \A i \in 1 .. Len(old) : new[i] = old[i]
      /\ new[Len(old) + 1] = approval
  BY <1>2, AppendProperties
<1>4. approval.root = NoRoot \/ \A i \in DOMAIN old : old[i].root # approval.root
  BY DEF Matching
<1> HIDE DEF old, new
<1>5. \A i \in DOMAIN new : (i \in DOMAIN old /\ new[i] = old[i]) \/ (i = Len(old) + 1 /\ new[i] = approval)
  BY <1>2, <1>3
<1>6. \A i, j \in DOMAIN old : old[i].root = old[j].root /\ old[i].root # NoRoot => i = j
  BY DEF OnePromptPerFingerprint, old
<1>7. \A i, j \in DOMAIN new : new[i].root = new[j].root /\ new[i].root # NoRoot => i = j
  BY <1>4, <1>5, <1>6
<1> QED BY <1>1, <1>7 DEF OnePromptPerFingerprint

\* The dispatch that moves is the only one that may be about to request.
LEMMA PromptsAfter ==
    ASSUME Consistent, InTurn, Prompts, NEW d \in Dispatchers, DispatchMoves(d),
           OnePromptPerFingerprint', AsksOnce(d)'
    PROVE  Prompts'
<1>1. \A e \in Dispatchers \ {d} : pc'[e] = "idle"
  BY DEF DispatchMoves, InTurn, Idle
<1> QED BY <1>1 DEF Prompts, AsksOnce

LEMMA ContinuePrompts ==
    ASSUME Consistent, InTurn, Prompts, NEW d \in Dispatchers, Continue(d) \/ DispatchThrows(d)
    PROVE  Prompts'
<1>1. /\ job[d] \in Job /\ job[d].run \in AgentRuns /\ job[d].root \in Roots
      /\ DispatchKnows(d) /\ AsksOnce(d) /\ DispatchMoves(d) /\ OnePromptPerFingerprint
      /\ pc \in [Dispatchers -> DispatcherPC] /\ job \in [Dispatchers -> Job]
  BY LocalTypes, ContinueMoves DEF DispatchKnows, Prompts, AsksOnce
<1>2. pc'[d] # "idle" => job'[d].root = job[d].root /\ job'[d].run = job[d].run
  <2>1. CASE MarkRunning(d) \/ WaitForApproval(d) \/ AcceptApproval(d)
    BY <1>1, <2>1 DEF MarkRunning, WaitForApproval, AcceptApproval, SetStatus, ThenMirror, Return,
       Goto, Job
  <2>2. CASE Mirror(d) \/ FinishRun(d) \/ RejectRoot(d) \/ DispatchThrows(d)
    BY <1>1, <2>2 DEF Mirror, FinishRun, RejectRoot, DispatchThrows, ThenMirror, Return, Goto, Job
  <2>3. CASE Refuse(d) \/ Proceed(d) \/ PermissionHook(d) \/ StartProcess(d) \/ FinishTool(d)
             \/ LogSuccess(d) \/ LogFailure(d)
    BY <1>1, <2>3 DEF Refuse, Proceed, PermissionHook, StartProcess, FinishTool, LogSuccess,
       LogFailure, Goto, Job
  <2>4. ASSUME NEW status, Decide(d, status)
        PROVE  job'[d].root = job[d].root /\ job'[d].run = job[d].run
    <3> DEFINE target == IF status = "expired" THEN "timed_out" ELSE "failed"
               local == [job[d] EXCEPT !.approval = 0, !.status = target]
    <3>1. job'[d] = local
      BY <1>1, <2>4 DEF Decide
    <3>2. local.root = job[d].root /\ local.run = job[d].run
      BY <1>1 DEF Job
    <3> QED BY <3>1, <3>2
  <2>5. CASE EnsureApproval(d)
    BY <1>1, <2>4, <2>5 DEF EnsureApproval, Job
  <2>6. CASE RequestApproval(d) \/ RecheckExpired(d) \/ ExpireApproval(d)
    BY <1>1, <2>4, <2>6 DEF RequestApproval, RecheckExpired, ExpireApproval
  <2> QED BY <2>1, <2>2, <2>3, <2>5, <2>6 DEF Continue
<1>3. ASSUME NEW status \in {"pending", "approved", "denied", "expired"}, Decide(d, status)
      PROVE  pc'[d] # "request"
  BY <1>1, <1>3 DEF Decide, Goto
<1>4. CASE RequestApproval(d)
  <2> DEFINE approval == [root |-> job[d].root, status |-> "pending", decisions |-> {}, overdue |-> FALSE]
  <2>1. /\ approval \in Approval /\ approval.root = job[d].root
        /\ approvals' = [approvals EXCEPT ![job[d].run] = Append(@, approval)]
    BY <1>1, <1>4 DEF RequestApproval, Approval
  <2> HIDE DEF approval
  <2>2. Matching(job[d].run, approval.root) = {}
    BY <1>1, <1>4, <2>1 DEF RequestApproval, AsksOnce
  <2>3. OnePromptPerFingerprint'
    BY <1>1, <2>1, <2>2, RequestAdded
  <2>4. AsksOnce(d)'
    BY <1>1, <1>2, <1>3, <1>4 DEF RequestApproval, AsksOnce
  <2> QED BY <1>1, <2>3, <2>4, PromptsAfter
<1>5. CASE ExpireApproval(d)
  <2>1. SameRequests
    BY <1>1, <1>5, DecisionAddsNoRequest DEF ExpireApproval, DispatchKnows
  <2>2. AsksOnce(d)'
    BY <1>1, <1>2, <1>3, <1>5 DEF ExpireApproval, AsksOnce
  <2> QED BY <1>1, <2>1, <2>2, RequestsKept, PromptsAfter
<1>6. CASE EnsureApproval(d)
  <2>1. SameRequests
    BY <1>6 DEF EnsureApproval, SameRequests
  <2>2. pc'[d] = "request" => Matching(job[d].run, job[d].root) = {}
    <3>1. CASE Matching(job[d].run, job[d].root) = {}
      BY <3>1
    <3>2. ASSUME NEW i \in Matching(job[d].run, job[d].root),
                 \/ Goto(d, "expire")
                 \/ Decide(d, approvals[job[d].run][i].status)
          PROVE  pc'[d] # "request"
      <4>1. approvals[job[d].run][i].status \in {"pending", "approved", "denied", "expired"}
        BY <1>1, ApprovalAt DEF Matching, Approval
      <4> QED BY <1>1, <1>3, <3>2, <4>1 DEF Goto
    <3> QED BY <1>6, <3>1, <3>2 DEF EnsureApproval
  <2>3. AsksOnce(d)'
    BY <1>1, <1>2, <2>1, <2>2, RequestsKept DEF AsksOnce
  <2> QED BY <1>1, <2>1, <2>3, RequestsKept, PromptsAfter
<1>7. CASE UNCHANGED approvals /\ pc'[d] # "request"
  <2>1. SameRequests
    BY <1>7 DEF SameRequests
  <2>2. AsksOnce(d)'
    BY <1>1, <1>2, <1>7 DEF AsksOnce
  <2> QED BY <1>1, <2>1, <2>2, RequestsKept, PromptsAfter
<1>8. CASE MarkRunning(d) \/ WaitForApproval(d) \/ AcceptApproval(d)
  <2>1. UNCHANGED approvals /\ pc'[d] # "request"
    BY <1>1, <1>8 DEF MarkRunning, WaitForApproval, AcceptApproval, SetStatus, ThenMirror, Return, Goto
  <2> QED BY <1>7, <2>1
<1>9. CASE Mirror(d) \/ FinishRun(d) \/ RejectRoot(d) \/ DispatchThrows(d)
  <2>1. UNCHANGED approvals /\ pc'[d] # "request"
    BY <1>1, <1>9 DEF Mirror, FinishRun, RejectRoot, DispatchThrows, ThenMirror,
       Return, Goto, DispatchKnows
  <2> QED BY <1>7, <2>1
<1>10. CASE RecheckExpired(d)
  <2>1. approvals[job[d].run][job[d].approval].status \in {"pending", "approved", "denied", "expired"}
    BY <1>1, <1>10, ApprovalAt DEF RecheckExpired, DispatchKnows, Approval
  <2>2. UNCHANGED approvals /\ pc'[d] # "request"
    BY <1>1, <1>3, <1>10, <2>1 DEF RecheckExpired, Goto
  <2> QED BY <1>7, <2>2
<1>11. CASE Refuse(d) \/ Proceed(d) \/ PermissionHook(d) \/ StartProcess(d) \/ FinishTool(d)
            \/ LogSuccess(d) \/ LogFailure(d)
  <2>1. UNCHANGED approvals /\ pc'[d] # "request"
    BY <1>1, <1>11 DEF Refuse, Proceed, PermissionHook, StartProcess, FinishTool, LogSuccess, LogFailure, Goto
  <2> QED BY <1>7, <2>1
<1> QED BY <1>4, <1>5, <1>6, <1>8, <1>9, <1>10, <1>11 DEF Continue

LEMMA StartPrompts ==
    ASSUME Serial, Consistent, InTurn, Prompts, NEW d \in Dispatchers, StartDispatch(d)
    PROVE  Prompts'
<1>1. DispatchMoves(d) /\ pc[d] = "idle"
  BY StartMoves DEF Idle
<1>2. PICK root \in Roots, r \in AgentRuns, place \in {"idle", "begin", "starting"} :
        /\ pc' = [pc EXCEPT ![d] = place]
        /\ job' = [job EXCEPT ![d].run = r, ![d].root = root] \/ place = "idle"
  <2>1. PICK root \in Roots, r \in AgentRuns :
          (\E a \in AutomationRuns : DispatchOnce(d, a, r, root)) \/ DispatchRun(d, r, root)
    BY DEF StartDispatch
  <2>2. pc = [pc EXCEPT ![d] = "idle"]
    BY <1>1, JobUnchanged
  <2>3. CASE \E a \in AutomationRuns : DispatchOnce(d, a, r, root)
    BY <2>2, <2>3 DEF DispatchOnce, Goto
  <2>4. CASE DispatchRun(d, r, root)
    BY <2>4 DEF DispatchRun, Goto
  <2> QED BY <2>1, <2>3, <2>4
<1>3. AsksOnce(d)'
  <2> DEFINE local == [job[d] EXCEPT !.run = r, !.root = root]
  <2>1. pc'[d] = place /\ job[d] \in Job
    BY <1>2, LocalTypes
  <2>2. local.root = root
    BY <2>1 DEF Job
  <2>3. place # "idle" => job'[d] = local
    BY <1>2, LocalTypes
  <2> HIDE DEF local
  <2> QED BY <1>2, <2>1, <2>2, <2>3 DEF AsksOnce
<1>4. SameRequests
  BY DEF StartDispatch, DispatchOnce, DispatchRun, SameRequests
<1> QED BY <1>1, <1>3, <1>4, RequestsKept, PromptsAfter DEF Prompts

LEMMA OperatorPrompts ==
    ASSUME Serial, Consistent, InTurn, Prompts, NEW o \in Operators,
           OperatorStarts(o) \/ OperatorContinues(o) \/ CommandThrows(o)
    PROVE  Prompts'
<1>1. CommandMoves(o)
  BY OperatorMoves
<1>2. \A d \in Dispatchers : pc'[d] = "idle"
  BY <1>1 DEF CommandMoves, callers, Idle, InTurn
<1>3. OnePromptPerFingerprint'
  <2>1. ASSUME NEW r \in AgentRuns, OperatorRequestsApproval(o, r)
        PROVE  OnePromptPerFingerprint'
    <3> DEFINE approval == [root |-> NoRoot, status |-> "pending", decisions |-> {}, overdue |-> FALSE]
    <3>1. /\ approval \in Approval /\ approval.root = NoRoot
          /\ approvals' = [approvals EXCEPT ![r] = Append(@, approval)]
      BY <2>1 DEF OperatorRequestsApproval, Approval
    <3> HIDE DEF approval
    <3> QED BY <3>1, RequestAdded DEF Prompts
  <2>2. CASE ResolveApproval(o)
    <3>1. SameRequests
      BY <2>2, LocalTypes, DecisionAddsNoRequest DEF ResolveApproval, CommandKnows
    <3> QED BY <3>1, RequestsKept DEF Prompts
  <2>3. CASE UNCHANGED approvals
    BY <2>3 DEF Prompts, OnePromptPerFingerprint
  <2> QED BY <2>1, <2>2, <2>3 DEF OperatorStarts, OperatorContinues, RequestCancel, CheckRetry,
       CheckPending, CancelRun, MirrorCancel, CreateRetry, CommandThrows
<1> QED BY <1>2, <1>3 DEF Prompts, AsksOnce

LEMMA ClockPrompts ==
    ASSUME Consistent, Prompts, Clock \/ UNCHANGED vars
    PROVE  Prompts'
<1>1. SameRequests /\ UNCHANGED <<pc, job>>
  <2>1. CASE UNCHANGED vars
    BY <2>1 DEF vars, SameRequests
  <2>2. CASE Clock
    <3>1. PICK r \in AgentRuns : \E i \in DOMAIN approvals[r] : ApprovalOverdue(r, i)
      BY <2>2 DEF Clock
    <3>2. PICK i \in DOMAIN approvals[r] : ApprovalOverdue(r, i)
      BY <3>1
    <3> DEFINE new == [approvals[r][i] EXCEPT !.overdue = TRUE]
    <3>3. new.root = approvals[r][i].root
      BY ApprovalAt DEF Approval
    <3>4. approvals' = [approvals EXCEPT ![r][i] = new] /\ UNCHANGED <<pc, job>>
      BY <3>2 DEF ApprovalOverdue
    <3> HIDE DEF new
    <3> QED BY <3>3, <3>4, RequestReplaced
  <2> QED BY <2>1, <2>2
<1>2. \A d \in Dispatchers : pc[d] # "idle" => job[d].run \in AgentRuns
  BY LocalTypes DEF DispatchKnows
<1>3. ASSUME NEW d \in Dispatchers
      PROVE  AsksOnce(d)'
  <2>1. /\ pc'[d] = pc[d] /\ job'[d] = job[d] /\ AsksOnce(d)
        /\ pc[d] # "idle" => job[d].run \in AgentRuns
    BY <1>1, <1>2 DEF Prompts
  <2>2. \A r \in AgentRuns : \A root : Matching(r, root)' = Matching(r, root)
    BY <1>1, RequestsKept DEF Prompts
  <2> QED BY <2>1, <2>2 DEF AsksOnce
<1> QED BY <1>1, <1>3, RequestsKept DEF Prompts

\* While commands do not overlap, equivalent dispatches share one approval:
\* between the read that finds no request and the request nobody adds one
\* (ensureNativeAgentPolicyApproval).
THEOREM DispatchesShareOnePrompt ==
    ASSUME Serial
    PROVE  Spec => []OnePromptPerFingerprint
<1>1. Init => InTurn /\ Prompts
  BY DEF Init, InTurn, Prompts, AsksOnce, OnePromptPerFingerprint
<1>2. ASSUME Consistent, InTurn, Prompts, [Next]_vars
      PROVE  InTurn' /\ Prompts'
  BY <1>2, TurnStays, ContinuePrompts, StartPrompts, OperatorPrompts, ClockPrompts DEF Next
<1>3. Prompts => OnePromptPerFingerprint
  BY DEF Prompts
<1> QED BY <1>1, <1>2, <1>3, ConsistentAlways, PTL DEF Spec

-----------------------------------------------------------------------------
(* The automation run, one command at a time and without a crash.           *)

\* The automation run shows the end of its run.
Mirrored(r) ==
    agentRun[r].automation # NoAutomation /\ Terminal(r)
        => automation[agentRun[r].automation] = AutomationStatusFor(agentRun[r].status)

\* A dispatch or a cancel is about to write it.
Writing(r) ==
    \/ \E d \in Dispatchers : pc[d] = "mirror" /\ job[d].run = r
    \/ \E o \in Operators : opPc[o] = "mirror" /\ command[o].run = r

\* Whoever is about to write knows the status that the row has.
EndsMirrored ==
    /\ \A r \in AgentRuns : Mirrored(r) \/ Writing(r)
    /\ \A d \in Dispatchers : pc[d] = "mirror" => job[d].status = agentRun[job[d].run].status
    /\ \A o \in Operators : opPc[o] = "mirror" => agentRun[command[o].run].status = "cancelled"

\* The three ways a statement touches what Mirrored looks at.
LEMMA EndWritten ==
    ASSUME Consistent, NEW r \in AgentRuns, NEW status,
           agentRun' = [agentRun EXCEPT ![r].status = status], automation' = automation
    PROVE  /\ agentRun'[r].status = status
           /\ agentRun'[r].automation = agentRun[r].automation
           /\ \A s \in AgentRuns \ {r} : Mirrored(s) => Mirrored(s)'
<1>1. agentRun \in [AgentRuns -> RunRow]
  BY DEF Consistent, TypeOK, StoreTypeOK
<1>2. /\ agentRun'[r] = [agentRun[r] EXCEPT !.status = status]
      /\ \A s \in AgentRuns \ {r} : agentRun'[s] = agentRun[s]
  BY <1>1
<1>3. agentRun'[r].status = status /\ agentRun'[r].automation = agentRun[r].automation
  BY <1>1, <1>2 DEF RunRow
<1> QED BY <1>2, <1>3 DEF Mirrored, Terminal

LEMMA EndMirrored ==
    ASSUME Consistent, NEW r \in AgentRuns, agentRun[r].automation # NoAutomation,
           MirrorToAutomation(r, agentRun[r].status)
    PROVE  /\ Mirrored(r)'
           /\ \A s \in AgentRuns \ {r} : Mirrored(s) => Mirrored(s)'
<1>1. /\ agentRun \in [AgentRuns -> RunRow] /\ agentRun' = agentRun
      /\ automation \in [AutomationRuns -> AutomationStatus]
      /\ agentRun[r].automation \in AutomationRuns
  BY DEF Consistent, TypeOK, StoreTypeOK, RunRow, MirrorToAutomation
<1>2. /\ automation'[agentRun[r].automation] = AutomationStatusFor(agentRun[r].status)
      /\ \A a \in AutomationRuns \ {agentRun[r].automation} : automation'[a] = automation[a]
  BY <1>1 DEF MirrorToAutomation
<1>3. \A s \in AgentRuns \ {r} : agentRun[s].automation # agentRun[r].automation
  BY <1>1 DEF Consistent, RowsAgree, Linked
<1>4. \A s \in AgentRuns : agentRun[s].automation \in AutomationRuns \cup {NoAutomation}
  BY <1>1 DEF RunRow
<1> QED BY <1>1, <1>2, <1>3, <1>4 DEF Mirrored, Terminal

LEMMA UnlinkedRowCreated ==
    ASSUME Consistent, NEW source, NEW r \in AgentRuns, CreateRetryRun(source, r)
    PROVE  \A s \in AgentRuns : Mirrored(s) => Mirrored(s)'
<1>1. agentRun \in [AgentRuns -> RunRow] /\ automation' = automation
  BY DEF Consistent, TypeOK, StoreTypeOK, CreateRetryRun
<1>2. /\ agentRun'[r].automation = NoAutomation
      /\ \A s \in AgentRuns \ {r} : agentRun'[s] = agentRun[s]
  BY <1>1 DEF CreateRetryRun
<1> QED BY <1>1, <1>2 DEF Mirrored, Terminal

LEMMA ClaimMirrors ==
    ASSUME Consistent, NEW a \in AutomationRuns, NEW r \in AgentRuns, ClaimAutomationRun(a, r)
    PROVE  \A s \in AgentRuns : Mirrored(s) => Mirrored(s)'
<1>1. agentRun \in [AgentRuns -> RunRow] /\ automation \in [AutomationRuns -> AutomationStatus]
  BY DEF Consistent, TypeOK, StoreTypeOK
<1>2. Linked(a) = {}
  BY DEF Consistent, RowsAgree, ClaimAutomationRun
<1>3. \A s \in AgentRuns \ {r} : agentRun'[s] = agentRun[s] /\ agentRun[s].automation # a
  BY <1>1, <1>2 DEF ClaimAutomationRun, Linked
<1>4. agentRun'[r].status = "running"
  BY <1>1, <1>2 DEF ClaimAutomationRun
<1>5. \A b \in AutomationRuns \ {a} : automation'[b] = automation[b]
  BY <1>1 DEF ClaimAutomationRun
<1>6. \A s \in AgentRuns : agentRun[s].automation \in AutomationRuns \cup {NoAutomation}
  BY <1>1 DEF RunRow
<1> QED BY <1>3, <1>4, <1>5, <1>6 DEF Mirrored, Terminal, TerminalStatus

LEMMA MirroredKept ==
    ASSUME UNCHANGED storeVars
    PROVE  \A s \in AgentRuns : Mirrored(s) => Mirrored(s)'
BY DEF storeVars, Mirrored, Terminal

\* In turn, nobody else is about to write.
LEMMA MirrorAfterDispatch ==
    ASSUME Consistent, InTurn, EndsMirrored, NEW d \in Dispatchers, DispatchMoves(d),
           \A r \in AgentRuns :
               \/ Mirrored(r)'
               \/ pc'[d] = "mirror" /\ job'[d].run = r,
           pc'[d] = "mirror" => job'[d].status = agentRun'[job'[d].run].status
    PROVE  EndsMirrored'
<1>1. \A e \in Dispatchers \ {d} : pc'[e] = "idle"
  BY DEF DispatchMoves, InTurn, Idle
<1>2. \A o \in Operators : opPc'[o] = "idle"
  BY DEF DispatchMoves, InTurn, Idle, commands
<1> QED BY <1>1, <1>2 DEF EndsMirrored, Writing

LEMMA MirrorAfterCommand ==
    ASSUME Consistent, InTurn, EndsMirrored, NEW o \in Operators, CommandMoves(o),
           \A r \in AgentRuns :
               \/ Mirrored(r)'
               \/ opPc'[o] = "mirror" /\ command'[o].run = r,
           opPc'[o] = "mirror" => agentRun'[command'[o].run].status = "cancelled"
    PROVE  EndsMirrored'
<1>1. \A p \in Operators \ {o} : opPc'[p] = "idle"
  BY DEF CommandMoves, InTurn, Idle
<1>2. \A d \in Dispatchers : pc'[d] = "idle"
  BY DEF CommandMoves, InTurn, Idle, callers
<1> QED BY <1>1, <1>2 DEF EndsMirrored, Writing

\* Before the step, only the run of the caller that moves may be unmirrored.
LEMMA OthersMirrored ==
    ASSUME Consistent, InTurn, EndsMirrored
    PROVE  /\ \A d \in Dispatchers, r \in AgentRuns :
                 pc[d] # "idle" /\ (pc[d] = "mirror" => job[d].run # r) => Mirrored(r)
           /\ \A o \in Operators, r \in AgentRuns :
                 opPc[o] # "idle" /\ (opPc[o] = "mirror" => command[o].run # r) => Mirrored(r)
           /\ Idle => \A r \in AgentRuns : Mirrored(r)
BY DEF InTurn, EndsMirrored, Writing, Idle

LEMMA SetStatusMirrors ==
    ASSUME Consistent, InTurn, EndsMirrored, NEW d \in Dispatchers, DispatchMoves(d),
           pc[d] \notin {"idle", "mirror"}, NEW status \in LiveStatus,
           NEW next \in {"idle", "starting", "tool"}, SetStatus(d, status, next)
    PROVE  EndsMirrored'
<1>1. PICK r \in AgentRuns :
        /\ r = job[d].run /\ job[d] \in Job
        /\ pc \in [Dispatchers -> DispatcherPC] /\ job \in [Dispatchers -> Job]
  BY LocalTypes DEF DispatchKnows
<1>2. \A s \in AgentRuns : Mirrored(s)
  BY OthersMirrored
<1>3. CASE Terminal(r)
  <2>1. UNCHANGED storeVars /\ pc'[d] # "mirror"
    BY <1>1, <1>3 DEF SetStatus, SetAgentRunRow, storeVars, Return, Goto
  <2> QED BY <1>2, <2>1, MirroredKept, MirrorAfterDispatch
<1>4. CASE ~Terminal(r)
  <2>1. agentRun' = [agentRun EXCEPT ![r].status = status] /\ automation' = automation
    BY <1>1, <1>4 DEF SetStatus, SetAgentRunRow
  <2>2. /\ agentRun'[r].status = status
        /\ \A s \in AgentRuns \ {r} : Mirrored(s) => Mirrored(s)'
    BY <2>1, EndWritten
  <2>3. Mirrored(r)'
    BY <2>2 DEF Mirrored, Terminal, LiveStatus, TerminalStatus
  <2>4. pc'[d] = "mirror" => job'[d].status = status /\ job'[d].run = r
    <3>1. CASE ThenMirror(d, status, next)
      <4> DEFINE local == [job[d] EXCEPT !.status = status, !.next = next]
      <4>1. local.status = status /\ local.run = r /\ job' = [job EXCEPT ![d] = local]
        BY <1>1, <3>1 DEF ThenMirror, Job
      <4> HIDE DEF local
      <4> QED BY <1>1, <4>1
    <3>2. CASE Return(d) \/ Goto(d, next)
      BY <1>1, <3>2 DEF Return, Goto
    <3> QED BY <3>1, <3>2 DEF SetStatus
  <2> QED BY <1>2, <2>2, <2>3, <2>4, MirrorAfterDispatch
<1> QED BY <1>3, <1>4

LEMMA ContinueMirrors ==
    ASSUME Consistent, InTurn, EndsMirrored, NEW d \in Dispatchers, Continue(d)
    PROVE  EndsMirrored'
<1>1. /\ job[d] \in Job /\ job[d].run \in AgentRuns /\ DispatchKnows(d)
      /\ DispatchMoves(d) /\ pc[d] # "idle"
      /\ pc \in [Dispatchers -> DispatcherPC] /\ job \in [Dispatchers -> Job]
  BY LocalTypes, ContinueMoves DEF DispatchKnows
<1>2. \A r \in AgentRuns : (pc[d] = "mirror" => job[d].run # r) => Mirrored(r)
  BY <1>1, OthersMirrored
<1>3. CASE MarkRunning(d) \/ WaitForApproval(d) \/ AcceptApproval(d)
  BY <1>1, <1>3, SetStatusMirrors DEF MarkRunning, WaitForApproval, AcceptApproval, LiveStatus
<1>4. CASE Mirror(d)
  <2>1. PICK r \in AgentRuns :
          /\ r = job[d].run /\ agentRun[r].automation # NoAutomation
          /\ MirrorToAutomation(r, agentRun[r].status)
    BY <1>1, <1>4 DEF Mirror, DispatchKnows, EndsMirrored
  <2>2. \A s \in AgentRuns : Mirrored(s)'
    BY <1>2, <2>1, EndMirrored
  <2>3. pc'[d] # "mirror"
    BY <1>1, <1>4 DEF Mirror, DispatchKnows, Return, Goto
  <2> QED BY <1>1, <2>2, <2>3, MirrorAfterDispatch
<1>5. CASE FinishRun(d)
  <2>1. PICK r \in AgentRuns, status \in {job[d].status} : r = job[d].run /\ status = job[d].status
    BY <1>1
  <2>2. agentRun' = [agentRun EXCEPT ![r].status = status] /\ automation' = automation
    BY <1>5, <2>1 DEF FinishRun, FinishAgentRunRow
  <2>3. /\ agentRun'[r].status = status /\ agentRun'[r].automation = agentRun[r].automation
        /\ \A s \in AgentRuns \ {r} : Mirrored(s) => Mirrored(s)'
    BY <2>2, EndWritten
  <2>4. pc[d] # "mirror"
    BY <1>5 DEF FinishRun
  <2>5. CASE agentRun[r].automation = NoAutomation
    <3>1. Mirrored(r)'
      BY <2>3, <2>5 DEF Mirrored
    <3>2. pc'[d] # "mirror"
      BY <1>1, <1>5, <2>1, <2>5 DEF FinishRun, Return, Goto
    <3> QED BY <1>1, <1>2, <2>3, <2>4, <3>1, <3>2, MirrorAfterDispatch
  <2>6. CASE agentRun[r].automation # NoAutomation
    <3> DEFINE local == [job[d] EXCEPT !.status = status, !.next = "idle"]
    <3>1. local.status = status /\ local.run = r
      BY <1>1, <2>1 DEF Job
    <3>2. /\ pc' = [pc EXCEPT ![d] = "mirror"]
          /\ job' = [job EXCEPT ![d] = local]
      BY <1>5, <2>1, <2>6 DEF FinishRun, ThenMirror, Goto
    <3> HIDE DEF local
    <3>3. pc'[d] = "mirror" /\ job'[d].run = r /\ job'[d].status = status
      BY <1>1, <3>1, <3>2
    <3> QED BY <1>1, <1>2, <2>3, <2>4, <3>3, MirrorAfterDispatch
  <2> QED BY <2>5, <2>6
<1>6. CASE UNCHANGED storeVars /\ pc[d] # "mirror" /\ pc'[d] # "mirror"
  BY <1>1, <1>2, <1>6, MirroredKept, MirrorAfterDispatch
<1>7. CASE Refuse(d) \/ RejectRoot(d) \/ Proceed(d) \/ PermissionHook(d) \/ StartProcess(d)
           \/ FinishTool(d) \/ LogSuccess(d) \/ LogFailure(d)
  <2>1. UNCHANGED storeVars /\ pc[d] # "mirror" /\ pc'[d] # "mirror"
    BY <1>1, <1>7 DEF Refuse, RejectRoot, Proceed, PermissionHook, StartProcess, FinishTool,
       LogSuccess, LogFailure, Return, Goto, storeVars
  <2> QED BY <1>6, <2>1
<1>8. ASSUME NEW status \in {"pending", "approved", "denied", "expired"}, Decide(d, status)
      PROVE  pc'[d] # "mirror"
  BY <1>1, <1>8 DEF Decide, Goto
<1>9. CASE EnsureApproval(d)
  <2>1. UNCHANGED storeVars /\ pc[d] # "mirror"
    BY <1>9 DEF EnsureApproval, storeVars
  <2>2. \A i \in Matching(job[d].run, job[d].root) :
           approvals[job[d].run][i].status \in {"pending", "approved", "denied", "expired"}
    BY <1>1, ApprovalAt DEF Matching, Approval
  <2>3. pc'[d] # "mirror"
    BY <1>1, <1>8, <1>9, <2>2 DEF EnsureApproval, Goto
  <2> QED BY <1>6, <2>1, <2>3
<1>10. CASE RecheckExpired(d)
  <2>1. approvals[job[d].run][job[d].approval].status \in {"pending", "approved", "denied", "expired"}
    BY <1>1, <1>10, ApprovalAt DEF RecheckExpired, DispatchKnows, Approval
  <2>2. UNCHANGED storeVars /\ pc[d] # "mirror" /\ pc'[d] # "mirror"
    BY <1>1, <1>8, <1>10, <2>1 DEF RecheckExpired, Goto, storeVars
  <2> QED BY <1>6, <2>2
<1>11. CASE RequestApproval(d) \/ ExpireApproval(d)
  <2>1. UNCHANGED storeVars /\ pc[d] # "mirror" /\ pc'[d] # "mirror"
    BY <1>8, <1>11 DEF RequestApproval, ExpireApproval, storeVars
  <2> QED BY <1>6, <2>1
<1> QED BY <1>3, <1>4, <1>5, <1>7, <1>9, <1>10, <1>11 DEF Continue

LEMMA StartMirrors ==
    ASSUME Serial, Consistent, InTurn, EndsMirrored, NEW d \in Dispatchers, StartDispatch(d)
    PROVE  EndsMirrored'
<1>1. /\ DispatchMoves(d) /\ \A r \in AgentRuns : Mirrored(r)
      /\ pc[d] = "idle" /\ pc \in [Dispatchers -> DispatcherPC]
  BY StartMoves, OthersMirrored, LocalTypes DEF Idle
<1>2. pc'[d] # "mirror"
  BY <1>1 DEF StartDispatch, DispatchOnce, DispatchRun, Goto
<1>3. \A r \in AgentRuns : Mirrored(r)'
  BY <1>1, ClaimMirrors, MirroredKept DEF StartDispatch, DispatchOnce, DispatchRun, storeVars
<1> QED BY <1>1, <1>2, <1>3, MirrorAfterDispatch

LEMMA OperatorMirrors ==
    ASSUME Serial, Consistent, InTurn, EndsMirrored, NEW o \in Operators,
           OperatorStarts(o) \/ OperatorContinues(o)
    PROVE  EndsMirrored'
<1>1. /\ CommandMoves(o) /\ CommandKnows(o) /\ command[o] \in Command
      /\ opPc \in [Operators -> OperatorPC] /\ command \in [Operators -> Command]
      /\ OperatorContinues(o) => opPc[o] # "idle"
      /\ OperatorStarts(o) => Idle
  BY OperatorMoves, LocalTypes
<1>2. CASE OperatorStarts(o)
  <2>1. UNCHANGED storeVars /\ opPc'[o] # "mirror"
    BY <1>1, <1>2 DEF OperatorStarts, RequestCancel, CheckRetry, OperatorRequestsApproval, CheckPending,
       StartCommand, storeVars
  <2> QED BY <1>1, <1>2, <2>1, OthersMirrored, MirroredKept, MirrorAfterCommand
<1>3. CASE CancelRun(o)
  <2>1. PICK r \in AgentRuns : r = command[o].run /\ opPc[o] = "cancel"
    BY <1>1, <1>3 DEF CancelRun, CommandKnows
  <2>2. agentRun' = [agentRun EXCEPT ![r].status = "cancelled"] /\ automation' = automation
    BY <1>3, <2>1 DEF CancelRun, FinishAgentRunRow
  <2>3. /\ agentRun'[r].status = "cancelled" /\ agentRun'[r].automation = agentRun[r].automation
        /\ \A s \in AgentRuns \ {r} : Mirrored(s)'
    <3>1. \A s \in AgentRuns : Mirrored(s)
      BY <2>1, OthersMirrored
    <3> QED BY <2>2, <3>1, EndWritten
  <2>4. CASE agentRun[r].automation = NoAutomation
    <3>1. Mirrored(r)' /\ opPc'[o] # "mirror"
      BY <1>1, <1>3, <2>1, <2>3, <2>4 DEF Mirrored, CancelRun, EndCommand
    <3> QED BY <1>1, <2>3, <3>1, MirrorAfterCommand
  <2>5. CASE agentRun[r].automation # NoAutomation
    <3>1. opPc'[o] = "mirror" /\ command'[o].run = r
      BY <1>1, <1>3, <2>1, <2>5 DEF CancelRun
    <3> QED BY <1>1, <2>3, <3>1, MirrorAfterCommand
  <2> QED BY <2>4, <2>5
<1>4. CASE MirrorCancel(o)
  <2>1. PICK r \in AgentRuns :
          /\ r = command[o].run /\ agentRun[r].automation # NoAutomation
          /\ MirrorToAutomation(r, agentRun[r].status) /\ opPc[o] = "mirror"
    BY <1>1, <1>4 DEF MirrorCancel, CommandKnows, EndsMirrored
  <2>2. \A s \in AgentRuns : Mirrored(s)'
    BY <2>1, EndMirrored, OthersMirrored
  <2>3. opPc'[o] # "mirror"
    BY <1>1, <1>4 DEF MirrorCancel, EndCommand
  <2> QED BY <1>1, <2>2, <2>3, MirrorAfterCommand
<1>5. CASE (\E new \in AgentRuns : CreateRetry(o, new)) \/ ResolveApproval(o)
  <2>1. opPc[o] \in {"retry", "resolve"} /\ opPc'[o] # "mirror"
    BY <1>1, <1>5 DEF CreateRetry, ResolveApproval, EndCommand
  <2>2. \A s \in AgentRuns : Mirrored(s)
    BY <2>1, OthersMirrored
  <2>3. \A s \in AgentRuns : Mirrored(s)'
    BY <1>5, <2>2, UnlinkedRowCreated, MirroredKept DEF CreateRetry, ResolveApproval, storeVars
  <2> QED BY <1>1, <2>1, <2>3, MirrorAfterCommand
<1> QED BY <1>2, <1>3, <1>4, <1>5 DEF OperatorContinues

\* While commands do not overlap and none is cut short, an automation run
\* shows the end of its run as soon as nothing is in progress, whoever ended
\* it (the second statement of finishAgentRun).
THEOREM AutomationShowsTheEnd ==
    ASSUME Serial, ~MayThrow
    PROVE  Spec => []AutomationMirrorsRun
<1>1. Init => InTurn /\ EndsMirrored
  <2> SUFFICES ASSUME Init PROVE InTurn /\ EndsMirrored
    OBVIOUS
  <2>1. \A r \in AgentRuns : Mirrored(r)
    BY DEF Init, StoreInit, Mirrored, AbsentRow
  <2> QED BY <2>1 DEF Init, InTurn, EndsMirrored
<1>2. ASSUME Consistent, InTurn, EndsMirrored, [Next]_vars
      PROVE  InTurn' /\ EndsMirrored'
  <2>1. CASE Clock \/ UNCHANGED vars
    <3>1. UNCHANGED <<storeVars, pc, job, opPc, command>>
      BY <2>1 DEF Clock, ApprovalOverdue, vars, storeVars
    <3> QED BY <1>2, <2>1, <3>1, TurnStays, MirroredKept DEF EndsMirrored, Writing, storeVars
  <2> QED BY <1>2, <2>1, TurnStays, ContinueMirrors, StartMirrors, OperatorMirrors
          DEF Next, DispatchThrows, CommandThrows
<1>3. Consistent /\ InTurn /\ EndsMirrored => AutomationMirrorsRun
  <2> SUFFICES ASSUME Consistent, InTurn, EndsMirrored, Idle,
                      NEW a \in AutomationRuns, NEW r \in Linked(a), Terminal(r)
               PROVE  IF agentRun[r].status # "timed_out"
                        THEN automation[a] = agentRun[r].status
                        ELSE automation[a] = "failed"
    BY DEF AutomationMirrorsRun, Terminal, TerminalStatus
  <2>1. r \in AgentRuns /\ agentRun[r].automation = a /\ a # NoAutomation
    BY StoreAssumption DEF Linked
  <2>2. automation[a] = AutomationStatusFor(agentRun[r].status)
    BY <2>1, OthersMirrored DEF Mirrored
  <2>3. agentRun[r].status \in TerminalStatus
    BY DEF Terminal
  <2>4. CASE agentRun[r].status = "succeeded"
    BY <2>2, <2>4 DEF AutomationStatusFor
  <2>5. CASE agentRun[r].status = "cancelled"
    BY <2>2, <2>5 DEF AutomationStatusFor
  <2>6. CASE agentRun[r].status \in {"failed", "timed_out"}
    BY <2>2, <2>6 DEF AutomationStatusFor
  <2> QED BY <2>3, <2>4, <2>5, <2>6 DEF TerminalStatus
<1> QED BY <1>1, <1>2, <1>3, ConsistentAlways, PTL DEF Spec
=============================================================================
