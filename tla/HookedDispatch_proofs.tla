------------------------ MODULE HookedDispatch_proofs ------------------------
(***************************************************************************)
(* The decisions of a run hold for every configuration of its dispatches.  *)
(* The command policy comes first, for every command: commands are strings *)
(* there, of which CommandPolicy names one of each kind.  Then one         *)
(* invariant of the dispatches, in five parts: Typed; HookStands, what a   *)
(* hook has merged is what the observers before its cursor answered;       *)
(* Heard, no answer of this dispatch is lost before the process starts;    *)
(* RowsStand, the audit rows keep up with the decisions; StepsStand, the   *)
(* last answer of a step is what became of it.                             *)
(***************************************************************************)
EXTENDS HookedDispatch, FiniteSetTheorems, WellFoundedInduction, TLAPS

Under(in, profile) == Rank(Policy([in EXCEPT !.profile = profile]).decision)

(* A run gets no more than its own profile and its workflow's each allow:    *)
(* the decision under the two is at least as strict as under either, so that *)
(* neither is a way around the other (effectivePermissionProfile with        *)
(* evaluateNativeCommandPolicy).                                             *)
NeitherProfileIsExceeded ==
    \A in \in PolicyInputs, a, b \in Profiles :
        LET both == EffectiveProfile(a, b)
        IN  Under(in, both) >= Under(in, a) /\ Under(in, both) >= Under(in, b)

(* No command runs outside the workspace root or in a read-only profile, and *)
(* one with the risk "high" runs without approval or audit record only when  *)
(* it is this program's own node (evaluateNativeCommandPolicy).              *)
PolicyIsConservative ==
    \A in \in PolicyInputs :
        LET verdict == Policy(in)
        IN  /\ ~in.inside \/ in.profile = "read_only" => verdict.decision = "block"
            /\ verdict.decision = "allow" /\ verdict.risk = "high" =>
                   in.internal /\ in.command \in NodeLike

\* The profiles from the strictest to the widest.
LEMMA PoliciesAreOrdered ==
    ASSUME NEW in \in PolicyInputs
    PROVE  /\ \A p \in Profiles : Under(in, p) \in 0 .. 4
           /\ \A p \in Profiles : Under(in, "read_only") >= Under(in, p)
           /\ Under(in, "workspace_write") >= Under(in, "trusted_local")
<1>1. \A p \in Profiles :
        /\ [in EXCEPT !.profile = p].profile = p
        /\ [in EXCEPT !.profile = p].command = in.command
        /\ [in EXCEPT !.profile = p].inside = in.inside
        /\ [in EXCEPT !.profile = p].internal = in.internal
        /\ CommandRisk([in EXCEPT !.profile = p]) = CommandRisk(in)
  BY DEF PolicyInputs, CommandRisk
<1>2. CommandRisk(in) \in {"low", "medium", "high"}
  BY DEF CommandRisk
<1>3. Under(in, "read_only") = 4
  BY <1>1 DEF Under, Policy, Verdict, Rank, Profiles
<1>4. Under(in, "workspace_write") =
        IF in.command = "" \/ ~in.inside THEN 4
        ELSE IF (in.internal /\ in.command \in NodeLike) \/ CommandRisk(in) # "high" THEN 1 ELSE 2
  BY <1>1, <1>2 DEF Under, Policy, Verdict, Rank, Profiles
<1>5. Under(in, "trusted_local") =
        IF in.command = "" \/ ~in.inside THEN 4
        ELSE IF CommandRisk(in) # "high" THEN 1 ELSE 0
  BY <1>1, <1>2 DEF Under, Policy, Verdict, Rank, Profiles
<1>6. \/ Under(in, "workspace_write") = 4 /\ Under(in, "trusted_local") = 4
      \/ Under(in, "workspace_write") = 1 /\ Under(in, "trusted_local") = 1
      \/ Under(in, "workspace_write") \in {1, 2} /\ Under(in, "trusted_local") = 0
  BY <1>4, <1>5, Zenon
<1>7. \A p \in Profiles : p \in {"read_only", "workspace_write", "trusted_local"}
  BY DEF Profiles
<1>8. QED
  BY <1>3, <1>6, <1>7

\* Of two profiles the dispatch takes the stricter.
THEOREM NoProfileIsExceeded == NeitherProfileIsExceeded
<1>1. SUFFICES ASSUME NEW in \in PolicyInputs, NEW a \in Profiles, NEW b \in Profiles
               PROVE  /\ Under(in, EffectiveProfile(a, b)) >= Under(in, a)
                      /\ Under(in, EffectiveProfile(a, b)) >= Under(in, b)
  BY DEF NeitherProfileIsExceeded
<1>2. /\ \A p \in Profiles : Under(in, p) \in 0 .. 4
      /\ \A p \in Profiles : Under(in, "read_only") >= Under(in, p)
      /\ Under(in, "workspace_write") >= Under(in, "trusted_local")
  BY PoliciesAreOrdered
<1>3. EffectiveProfile(a, b) \in Profiles
  BY DEF EffectiveProfile, Profiles
<1>4. QED
  BY <1>2, <1>3 DEF EffectiveProfile, Profiles

THEOREM NoWayAroundTheRoot == PolicyIsConservative
<1>1. SUFFICES ASSUME NEW in \in PolicyInputs
               PROVE  /\ ~in.inside \/ in.profile = "read_only" => Policy(in).decision = "block"
                      /\ Policy(in).decision = "allow" /\ Policy(in).risk = "high" =>
                             in.internal /\ in.command \in NodeLike
  BY DEF PolicyIsConservative
<1>2. CommandRisk(in) \in {"low", "medium", "high"}
  BY DEF CommandRisk
<1>3. QED
  BY <1>1, <1>2 DEF Policy, Verdict, PolicyInputs, Profiles

-----------------------------------------------------------------------------
(* Types of what the dispatches hold.                                       *)

Results == ResultType(RulesOf(play))
StepIds == (DOMAIN Workflows) \X (1 .. 4)
Hooks == [next : Nat, merged : Results, answer : Results \cup {None}, returned : BOOLEAN]
Answers == [turn : DOMAIN play.dispatches, event : HookEvents, step : StepIds \cup {None}, result : Results]
Rows == [turn : DOMAIN play.dispatches, event : RowEvents, result : Results]

Typed ==
    /\ play \in Plays
    /\ turn \in 0 .. Len(play.dispatches)
    /\ at # "idle" => turn \in DOMAIN play.dispatches
    /\ at \in HookEvents \cup {"idle", "process", "ended"}
    /\ step \in 0 .. 4
    /\ at = "Start" => step = 0
    /\ at = "WorkflowStep" => step # 0
    /\ hook \in Hooks
    /\ ending \in {"open", "waiting", "succeeded", "hook_blocked", "policy_blocked",
                   "approval_denied", "process_failed"}
    /\ \A f \in DOMAIN approvals : approvals[f] \in {"pending", "approved", "denied"}
    /\ decided \in Seq(Answers)
    /\ steps \subseteq StepIds
    /\ rows \in Seq(Rows)
    /\ crashes \in 0 .. MaxCrashes

-----------------------------------------------------------------------------
LEMMA ResultsAre ==
    \A r \in Results : r.decision \in Decisions /\ r.continue \in BOOLEAN
BY DEF Results, ResultType

LEMMA DefaultIsResult == DefaultResult \in Results /\ ~Refuses(DefaultResult)
                         /\ DefaultResult.decision # "ask" /\ DefaultResult.continue
BY DEF DefaultResult, Result, Results, ResultType, Decisions, Refuses

LEMMA AnswersAreResults ==
    ASSUME play \in Plays, turn \in DOMAIN play.dispatches, NEW event \in HookEvents,
           NEW k \in Observers(event)
    PROVE  Answer(event, k) \in Results /\ k \in 0 .. Len(Rules)
<1>1. /\ IsSequence(Rules)
      /\ \A n \in DOMAIN Rules : /\ Rules[n].decision \in Decisions
                                 /\ Rules[n].continue \in BOOLEAN \cup {None}
                                 /\ Rules[n] \in RulesOf(play)
  <2>1. /\ IsSequence(play.dispatches[turn].rules)
        /\ \A n \in DOMAIN play.dispatches[turn].rules :
              /\ play.dispatches[turn].rules[n].decision \in Decisions
              /\ play.dispatches[turn].rules[n].continue \in BOOLEAN \cup {None}
    BY HooksAssumption
  <2>2. \A n \in DOMAIN Rules : Rules[n] \in ToSet(play.dispatches[turn].rules)
    BY DEF Rules, ToSet
  <2>3. ToSet(play.dispatches[turn].rules) \subseteq RulesOf(play)
    BY DEF RulesOf
  <2> QED BY <2>1, <2>2, <2>3 DEF Rules
<1>2. CASE k = 0
  <2>1. event # "PostToolUse"
    BY <1>1, <1>2 DEF Observers, HasHandler, IsSequence
  <2>2. HandlerResult(event) \in Results
    BY <2>1 DEF HandlerResult, HookEvents, Results, ResultType, Result, Decisions
  <2> QED BY <1>1, <1>2, <2>2 DEF Answer, IsSequence
<1>3. CASE k # 0
  <2>1. k \in DOMAIN Rules
    BY <1>3 DEF Observers
  <2>2. RuleResult(Rules[k]) \in Results
    BY <1>1, <2>1 DEF RuleResult, Results, ResultType, Result
  <2> QED BY <1>1, <1>3, <2>1, <2>2 DEF Answer, IsSequence
<1> QED BY <1>2, <1>3

\* What the observers of an event answer depends on the dispatch only.
LEMMA SameAnswers ==
    ASSUME UNCHANGED <<play, turn, at, step>>
    PROVE  /\ \A k \in Nat : Answer(at, k)' = Answer(at, k)
           /\ Observers(at)' = Observers(at)
           /\ Rules' = Rules /\ WorkflowId' = WorkflowId /\ Verdict0' = Verdict0
<1>1. Rules' = Rules /\ WorkflowId' = WorkflowId
  BY DEF Rules, WorkflowId
<1>2. Verdict0' = Verdict0
  BY <1>1 DEF Verdict0, Profile
<1>3. HandlerResult(at)' = HandlerResult(at)
  BY <1>2 DEF HandlerResult
<1>4. \A k \in Nat : Answer(at, k)' = Answer(at, k)
  BY <1>1, <1>3 DEF Answer
<1>5. Payload(at)' = Payload(at)
  BY <1>1, <1>2 DEF Payload
<1>6. \A k \in DOMAIN Rules : RuleMatches(Rules[k], at)' <=> RuleMatches(Rules[k], at)
  BY <1>1, <1>5 DEF RuleMatches
<1>7. Observers(at)' = Observers(at)
  BY <1>1, <1>6 DEF Observers
<1> QED BY <1>1, <1>2, <1>4, <1>7

LEMMA NoResultIsNone == play \in Plays => None \notin Results
BY HooksAssumption DEF Results

\* What Merge keeps of the answers it gets.
LEMMA MergeKeeps ==
    ASSUME NEW p \in Results, NEW r \in Results
    PROVE  /\ Merge(p, r) \in Results
           /\ Refuses(Merge(p, r)) <=> Refuses(p) \/ Refuses(r)
           /\ ~Refuses(Merge(p, r)) =>
                 (Merge(p, r).decision = "ask" <=> p.decision = "ask" \/ r.decision = "ask")
           /\ Merge(p, r).continue <=> p.continue /\ r.continue
<1>1. /\ p.decision \in Decisions /\ p.continue \in BOOLEAN
      /\ r.decision \in Decisions /\ r.continue \in BOOLEAN
  BY ResultsAre
<1>2. CASE ~r.continue
  BY <1>1, <1>2 DEF Merge, Refuses
<1>3. CASE r.continue /\ ~p.continue
  BY <1>1, <1>3 DEF Merge, Refuses
<1>4. CASE r.continue /\ p.continue
  BY <1>1, <1>4 DEF Merge, Refuses, Rank, Decisions
<1> QED BY <1>1, <1>2, <1>3, <1>4

-----------------------------------------------------------------------------
(* What a hook has heard.                                                   *)

\* The observers whose answers are merged: not the one whose answer is held.
Counted == {k \in Observers(at) : k < hook.next - (IF hook.answer = None THEN 0 ELSE 1)}

MergedIs(S) ==
    /\ Refuses(hook.merged) <=> \E k \in S : Refuses(Answer(at, k))
    /\ ~Refuses(hook.merged) =>
          (hook.merged.decision = "ask" <=> \E k \in S : Answer(at, k).decision = "ask")
    /\ hook.merged.continue <=> \A k \in S : Answer(at, k).continue

HookStands ==
    at \in HookEvents =>
        /\ MergedIs(Counted)
        /\ hook.answer # None =>
              /\ ~hook.returned /\ hook.next > 0
              /\ IF hook.next - 1 \in Observers(at) THEN hook.answer = Answer(at, hook.next - 1)
                 ELSE Observers(at) = {} /\ hook.answer = DefaultResult
        /\ ~hook.returned => hook.merged.continue
        /\ hook.returned => hook.next > 0 /\ (Remaining = {} \/ ~hook.merged.continue)

LEMMA NewHookStands ==
    hook = NewHook /\ play \in Plays /\ (at # "idle" => turn \in DOMAIN play.dispatches) => HookStands /\ hook \in Hooks
<1> SUFFICES ASSUME hook = NewHook, play \in Plays, at # "idle" => turn \in DOMAIN play.dispatches
             PROVE  HookStands /\ hook \in Hooks
  OBVIOUS
<1>1. hook = [next |-> 0, merged |-> DefaultResult, answer |-> None, returned |-> FALSE]
  BY DEF NewHook
<1>2. at \in HookEvents => Counted = {}
  <2> SUFFICES ASSUME at \in HookEvents, NEW k \in Observers(at), k < hook.next - 0
               PROVE FALSE
    BY <1>1 DEF Counted
  <2>1. k \in 0 .. Len(Rules) /\ Len(Rules) \in Nat
    BY AnswersAreResults, HooksAssumption DEF Rules, IsSequence, HookEvents
  <2> QED BY <1>1, <2>1
<1> QED BY <1>1, <1>2, DefaultIsResult DEF HookStands, MergedIs, Hooks

LEMMA NewHookStandsNext ==
    hook' = NewHook /\ play' \in Plays /\ (at' # "idle" => turn' \in DOMAIN play'.dispatches) => HookStands' /\ hook' \in Hooks'
<1>1. (hook = NewHook)' <=> hook' = NewHook
  BY DEF NewHook, DefaultResult, Result
<1>2. (hook = NewHook /\ play \in Plays /\ (at # "idle" => turn \in DOMAIN play.dispatches) => HookStands /\ hook \in Hooks)'
  BY NewHookStands, PTL
<1> QED BY <1>1, <1>2

LEMMA LeastNatural ==
    ASSUME NEW S \in SUBSET Nat, S # {}
    PROVE  \E x \in S : \A y \in S : x <= y
<1>1. PICK x \in S : \A y \in S : ~(<<y, x>> \in OpToRel(<, Nat))
  BY NatLessThanWellFounded, WFMin
<1>2. \A y \in S : ~(y < x)
  BY <1>1 DEF OpToRel
<1> QED BY <1>2

\* The first of the observers that are left.
LEMMA NextIsFirst ==
    ASSUME Typed, at \in HookEvents, Remaining # {}
    PROVE  NextObserver \in Remaining /\ \A k \in Remaining : NextObserver <= k
<1>1. Remaining \in SUBSET Nat
  BY AnswersAreResults, HooksAssumption DEF Typed, Remaining, Rules, IsSequence, HookEvents
<1>2. \E k \in Remaining : \A other \in Remaining : k <= other
  BY <1>1, LeastNatural
<1> QED BY <1>2 DEF NextObserver

-----------------------------------------------------------------------------
(* The steps of a hook.                                                     *)

LEMMA LogDecisionHears ==
    ASSUME Typed, HookStands, LogDecision
    PROVE  /\ HookStands'
           /\ hook' \in Hooks
           /\ hook'.answer \in Results /\ hook'.merged = hook.merged /\ hook.merged.continue
           /\ hook'.returned = FALSE /\ hook'.next > 0
           /\ decided' = Append(decided, [turn |-> turn, event |-> at,
                                  step |-> IF at = "WorkflowStep" THEN StepId(step) ELSE None,
                                  result |-> hook'.answer])
<1> DEFINE asked == Remaining # {}
           result == IF asked THEN Answer(at, NextObserver) ELSE DefaultResult
           place == IF asked THEN NextObserver + 1 ELSE Len(Rules) + 1
<1>1. /\ hook \in Hooks
      /\ at \in HookEvents /\ ~hook.returned /\ hook.answer = None
      /\ turn \in DOMAIN play.dispatches /\ play \in Plays /\ hook.next \in Nat
  BY DEF Typed, LogDecision, HookEvents, Hooks
<1>2. asked => NextObserver \in Remaining /\ \A k \in Remaining : NextObserver <= k
  BY <1>1, NextIsFirst
<1>3. Len(Rules) \in Nat /\ Observers(at) \subseteq 0 .. Len(Rules)
  BY <1>1, AnswersAreResults, HooksAssumption DEF Rules, IsSequence
<1>4. result \in Results /\ place \in Nat /\ place > 0
  BY <1>1, <1>2, <1>3, AnswersAreResults, DefaultIsResult DEF Remaining
<1>5. hook' = [hook EXCEPT !.answer = result, !.next = place]
  BY DEF LogDecision
<1>6. /\ hook'.answer = result /\ hook'.next = place /\ hook'.merged = hook.merged
      /\ hook'.returned = FALSE
      /\ hook' \in Hooks
  <2> HIDE DEF result, place
  <2> QED BY <1>1, <1>4, <1>5 DEF Hooks
<1>7. asked \/ hook.next = 0
  BY DEF LogDecision
<1>8. /\ Counted' = Counted
      /\ IF place - 1 \in Observers(at) THEN result = Answer(at, place - 1)
         ELSE Observers(at) = {} /\ result = DefaultResult
  <2>1. result # None
    BY <1>1, <1>4, NoResultIsNone
  <2>2. Counted' = {k \in Observers(at) : k < place - 1}
    <3>1. UNCHANGED <<play, turn, at, step>>
      BY DEF LogDecision
    <3>2. Observers(at)' = Observers(at)
      BY <3>1, SameAnswers
    <3> HIDE DEF place
    <3> QED BY <1>6, <2>1, <3>2 DEF Counted
  <2>3. Counted = {k \in Observers(at) : k < hook.next}
    <3>1. hook.next - 0 = hook.next
      BY <1>1
    <3> QED BY <1>1, <3>1 DEF Counted
  <2>4. CASE asked
    <3>1. NextObserver \in Observers(at) /\ NextObserver >= hook.next /\ place - 1 = NextObserver
      BY <1>2, <1>3, <2>4 DEF Remaining
    <3>2. \A k \in Observers(at) : k < NextObserver <=> k < hook.next
      BY <1>1, <1>2, <1>3, <2>4, <3>1 DEF Remaining
    <3> QED BY <2>2, <2>3, <2>4, <3>1, <3>2
  <2>5. CASE ~asked
    <3>1. Observers(at) = {}
      BY <1>1, <1>3, <1>7, <2>5 DEF Remaining
    <3> QED BY <2>2, <2>3, <2>5, <3>1
  <2> QED BY <2>4, <2>5
<1>9. /\ UNCHANGED <<play, turn, at, step>>
      /\ \A k \in Nat : Answer(at, k)' = Answer(at, k)
      /\ Observers(at)' = Observers(at)
  <2>1. UNCHANGED <<play, turn, at, step>>
    BY DEF LogDecision
  <2> QED BY <2>1, SameAnswers
<1>10. HookStands'
  <2>1. MergedIs(Counted)' <=> MergedIs(Counted)
    <3>1. Counted \subseteq Nat
      BY <1>3 DEF Counted
    <3> HIDE DEF result, place
    <3> QED BY <1>6, <1>8, <1>9, <3>1 DEF MergedIs
  <2>2. result # None
    BY <1>1, <1>4, NoResultIsNone
  <2> HIDE DEF result, place
  <2> QED BY <1>1, <1>4, <1>6, <1>8, <1>9, <2>1, <2>2 DEF HookStands
<1> QED BY <1>1, <1>4, <1>6, <1>10 DEF LogDecision, HookStands

LEMMA ObserveMerges ==
    ASSUME Typed, HookStands, Observe
    PROVE  /\ HookStands' /\ hook' \in Hooks
           /\ hook'.answer = None /\ hook'.next = hook.next
           /\ hook'.merged = Merge(hook.merged, hook.answer)
           /\ hook.merged \in Results /\ hook.answer \in Results
           /\ hook.merged.continue
<1> DEFINE merged == Merge(hook.merged, hook.answer)
           returned == ~hook.answer.continue \/ Remaining = {}
<1>1. /\ hook \in Hooks /\ at \in HookEvents /\ hook.answer # None
      /\ turn \in DOMAIN play.dispatches /\ play \in Plays
  BY DEF Typed, Observe, HookEvents
<1>2. /\ hook.merged \in Results /\ hook.answer \in Results
      /\ ~hook.returned /\ hook.next > 0 /\ hook.next \in Nat /\ hook.merged.continue
  BY <1>1 DEF Hooks, HookStands
<1>3. /\ merged \in Results
      /\ Refuses(merged) <=> Refuses(hook.merged) \/ Refuses(hook.answer)
      /\ ~Refuses(merged) =>
            (merged.decision = "ask" <=> hook.merged.decision = "ask" \/ hook.answer.decision = "ask")
      /\ merged.continue <=> hook.merged.continue /\ hook.answer.continue
  BY <1>2, MergeKeeps
<1>4. /\ hook'.answer = None /\ hook'.next = hook.next /\ hook'.merged = merged
      /\ hook'.returned = returned /\ hook' \in Hooks
  <2>1. hook' = [hook EXCEPT !.merged = merged, !.answer = None, !.returned = returned]
    BY DEF Observe
  <2> HIDE DEF merged, returned
  <2>2. returned \in BOOLEAN
    BY DEF returned
  <2> QED BY <1>1, <1>3, <2>1, <2>2 DEF Hooks
<1>5. /\ UNCHANGED <<play, turn, at, step>>
      /\ \A k \in Nat : Answer(at, k)' = Answer(at, k)
      /\ Observers(at)' = Observers(at)
  <2>1. UNCHANGED <<play, turn, at, step>>
    BY DEF Observe
  <2> QED BY <2>1, SameAnswers
<1>6. Observers(at) \subseteq Nat
  BY <1>1, AnswersAreResults, HooksAssumption DEF Rules, IsSequence
<1>7. /\ Counted = {k \in Observers(at) : k < hook.next - 1}
      /\ Counted' = {k \in Observers(at) : k < hook.next}
  BY <1>1, <1>2, <1>4, <1>5 DEF Counted
<1>8. MergedIs(Counted)
  BY <1>1 DEF HookStands
<1>9. MergedIs(Counted)'
  <2>1. CASE hook.next - 1 \in Observers(at)
    <3>1. hook.answer = Answer(at, hook.next - 1)
      BY <1>1, <2>1 DEF HookStands
    <3>2. Counted' = Counted \cup {hook.next - 1}
      BY <1>2, <1>6, <1>7, <2>1
    <3>3. Counted' \subseteq Nat /\ Counted \subseteq Nat
      BY <1>6, <1>7
    <3> HIDE DEF merged, returned
    <3> QED BY <1>3, <1>4, <1>5, <1>8, <3>1, <3>2, <3>3 DEF MergedIs
  <2>2. CASE hook.next - 1 \notin Observers(at)
    <3>1. Observers(at) = {} /\ hook.answer = DefaultResult
      BY <1>1, <2>2 DEF HookStands
    <3>2. Counted' = {} /\ Counted = {}
      BY <1>7, <3>1
    <3>3. ~Refuses(hook.answer) /\ hook.answer.decision # "ask" /\ hook.answer.continue
      BY <3>1, DefaultIsResult
    <3> HIDE DEF merged, returned
    <3> QED BY <1>3, <1>4, <1>8, <3>2, <3>3 DEF MergedIs
  <2> QED BY <2>1, <2>2
<1>10. Remaining' = Remaining
  BY <1>4, <1>5 DEF Remaining
<1>11. HookStands'
  <2> HIDE DEF merged
  <2> QED BY <1>2, <1>3, <1>4, <1>9, <1>10 DEF HookStands
<1> QED BY <1>2, <1>4, <1>11

-----------------------------------------------------------------------------
(* Types.                                                                   *)

LEMMA WorkflowIsKnown == WorkflowId \in DOMAIN Workflows /\ Len(Workflows[WorkflowId].phases) \in 1 .. 4
<1>1. WorkflowId \in DOMAIN Workflows
  BY DEF WorkflowId, KnownWorkflow, Workflows
<1>2. Len(AllPhases) = 4 /\ Len(SubSeq(AllPhases, 1, 3)) = 3
  BY DEF AllPhases
<1>3. Workflows[WorkflowId] \in {WritingPack, ReviewPack}
  BY <1>1 DEF Workflows
<1> QED BY <1>1, <1>2, <1>3 DEF WritingPack, ReviewPack

LEMMA SameTypes ==
    play' = play => Results' = Results /\ Hooks' = Hooks /\ Answers' = Answers /\ Rows' = Rows
<1> SUFFICES ASSUME play' = play PROVE Results' = Results /\ Hooks' = Hooks /\ Answers' = Answers /\ Rows' = Rows
  OBVIOUS
<1>1. Results' = Results
  BY DEF Results, RulesOf, ResultType
<1> QED BY <1>1 DEF Hooks, Answers, Rows

LEMMA NewHookIsTyped == play \in Plays => NewHook \in Hooks
BY DefaultIsResult DEF NewHook, Hooks

LEMMA StepsAreTyped == \A s \in 1 .. 4 : StepId(s) \in StepIds
BY WorkflowIsKnown DEF StepId, StepIds

LEMMA TypedInit == HooksInit => Typed
<1> SUFFICES ASSUME HooksInit PROVE Typed
  OBVIOUS
<1>1. play \in Plays /\ Len(play.dispatches) \in Nat /\ MaxCrashes \in Nat
  BY HooksAssumption DEF HooksInit, IsSequence
<1>2. hook \in Hooks
  BY <1>1, NewHookIsTyped DEF HooksInit
<1> QED BY <1>1, <1>2 DEF HooksInit, Typed

LEMMA TypedNext ==
    ASSUME Typed, HookStands, [HooksNext]_hookVars
    PROVE  Typed'
<1>1. /\ play \in Plays /\ IsSequence(play.dispatches) /\ MaxCrashes \in Nat
      /\ NewHook \in Hooks
  BY HooksAssumption, NewHookIsTyped DEF Typed
<1>2. play' = play
  BY DEF HooksNext, hookVars, Dispatch, LogDecision, Observe, Proceed, ProcessEnds, Decide, Crash
<1>3. Results' = Results /\ Hooks' = Hooks /\ Answers' = Answers /\ Rows' = Rows
  BY <1>2, SameTypes
<1>4. CASE Dispatch
  <2>1. turn' \in DOMAIN play.dispatches /\ turn' \in 0 .. Len(play.dispatches)
    BY <1>1, <1>4 DEF Dispatch, IsSequence, Typed
  <2> QED BY <1>1, <1>2, <1>3, <1>4, <2>1 DEF Dispatch, Enter, Typed, HookEvents
<1>5. CASE LogDecision
  <2>1. hook' \in Hooks /\ hook'.answer \in Results
    BY <1>5, LogDecisionHears
  <2> DEFINE entry == [turn |-> turn, event |-> at, step |-> IF at = "WorkflowStep" THEN StepId(step) ELSE None,
                       result |-> hook'.answer]
  <2>2. entry \in Answers
    <3>1. at \in HookEvents /\ turn \in DOMAIN play.dispatches
      BY <1>5 DEF LogDecision, Typed, HookEvents
    <3>2. at = "WorkflowStep" => StepId(step) \in StepIds
      BY StepsAreTyped DEF Typed
    <3> QED BY <2>1, <3>1, <3>2 DEF Answers
  <2>3. decided' \in Seq(Answers)
    <3>1. decided' = Append(decided, entry)
      BY <1>5, LogDecisionHears
    <3>2. decided \in Seq(Answers)
      BY DEF Typed
    <3> HIDE DEF entry
    <3> QED BY <2>2, <3>1, <3>2
  <2> QED BY <1>2, <1>3, <1>5, <2>1, <2>3 DEF LogDecision, Typed
<1>6. CASE Observe
  <2>1. hook' \in Hooks /\ hook.answer \in Results
    BY <1>6, ObserveMerges
  <2>2. rows' \in Seq(Rows)
    <3>1. turn \in DOMAIN play.dispatches
      BY <1>6 DEF Observe, Typed, HookEvents
    <3>2. at \in RowEvents => [turn |-> turn, event |-> at, result |-> hook.answer] \in Rows
      BY <2>1, <3>1 DEF Rows
    <3> QED BY <1>6, <3>2 DEF Observe, RecordRow, Typed
  <2> QED BY <1>2, <1>3, <1>6, <2>1, <2>2 DEF Observe, Typed
<1>7. CASE Proceed
  <2>1. at # "idle"
    BY <1>7 DEF Proceed, HookEvents
  <2>2. UNCHANGED <<play, turn, decided, rows, crashes>>
    BY <1>7 DEF Proceed
  <2>3. CASE AfterStart \/ AfterStep
    <3>1. \A s \in 1 .. 4 : EnterStep(s) => Typed'
      <4> SUFFICES ASSUME NEW s \in 1 .. 4, EnterStep(s) PROVE Typed'
        OBVIOUS
      <4>1. StepId(s) \in StepIds
        BY StepsAreTyped
      <4> QED BY <1>1, <1>2, <1>3, <2>1, <2>2, <4>1 DEF EnterStep, Enter, Typed, HookEvents
    <3>2. Finish("hook_blocked") => Typed'
      BY <1>1, <1>2, <1>3, <2>1, <2>2 DEF Finish, Typed, HookEvents
    <3>3. Enter("PreToolUse") /\ UNCHANGED <<step, request, ending, approvals, steps>> => Typed'
      BY <1>1, <1>2, <1>3, <2>1, <2>2 DEF Enter, Typed, HookEvents
    <3>4. at = "WorkflowStep" /\ step < Len(Workflows[WorkflowId].phases) => step + 1 \in 1 .. 4
      <4>1. step \in 0 .. 4
        BY DEF Typed
      <4> DEFINE n == Len(Workflows[WorkflowId].phases)
      <4>2. n \in 1 .. 4
        BY WorkflowIsKnown
      <4>3. step < n => step + 1 \in 1 .. 4
        <5> HIDE DEF n
        <5> QED BY <4>1, <4>2
      <4> QED BY <4>3
    <3> QED BY <2>3, <3>1, <3>2, <3>3, <3>4 DEF AfterStart, AfterStep
  <2>4. CASE AfterPreToolUse
    BY <1>1, <1>2, <1>3, <2>1, <2>2, <2>4 DEF AfterPreToolUse, Finish, Enter, Typed, HookEvents
  <2>5. CASE AfterPermission
    BY <1>1, <1>2, <1>3, <2>1, <2>2, <2>5 DEF AfterPermission, Finish, Pause, Typed, HookEvents
  <2>6. CASE AfterProcess
    BY <1>1, <1>2, <1>3, <2>1, <2>2, <2>6 DEF AfterProcess, Finish, Enter, Typed, HookEvents
  <2> QED BY <1>7, <2>3, <2>4, <2>5, <2>6 DEF Proceed
<1>8. CASE ProcessEnds
  BY <1>1, <1>2, <1>3, <1>8 DEF ProcessEnds, Enter, Finish, Typed, HookEvents
<1>9. CASE Decide
  BY <1>1, <1>2, <1>3, <1>9 DEF Decide, Typed
<1>10. CASE Crash
  BY <1>1, <1>2, <1>3, <1>10 DEF Crash, Typed, HookEvents
<1>11. CASE UNCHANGED hookVars
  BY <1>2, <1>3, <1>11 DEF hookVars, Typed
<1> QED BY <1>4, <1>5, <1>6, <1>7, <1>8, <1>9, <1>10, <1>11 DEF HooksNext

LEMMA HookStandsNext ==
    ASSUME Typed, HookStands, [HooksNext]_hookVars
    PROVE  HookStands'
<1>1. Typed'
  BY TypedNext
<1>2. hook' = NewHook => HookStands'
  BY <1>1, NewHookStandsNext DEF Typed
<1>3. at' \notin HookEvents => HookStands'
  BY DEF HookStands
<1>4. CASE Dispatch
  BY <1>2, <1>4 DEF Dispatch, Enter
<1>5. CASE LogDecision
  BY <1>5, LogDecisionHears
<1>6. CASE Observe
  BY <1>6, ObserveMerges
<1>7. CASE Proceed
  <2>1. hook' = NewHook \/ at' \in {"idle", "process", "ended"}
    BY <1>7 DEF Proceed, AfterStart, AfterStep, AfterPreToolUse, AfterPermission, AfterProcess, EnterStep, Enter,
       Finish, Pause
  <2> QED BY <1>2, <1>3, <2>1 DEF HookEvents
<1>8. CASE ProcessEnds
  BY <1>2, <1>3, <1>8 DEF ProcessEnds, Enter, Finish, HookEvents
<1>9. CASE Decide \/ UNCHANGED hookVars
  <2>1. UNCHANGED <<play, turn, at, step, hook>>
    BY <1>9 DEF Decide, hookVars
  <2>2. /\ \A k \in Nat : Answer(at, k)' = Answer(at, k)
        /\ Observers(at)' = Observers(at)
    BY <2>1, SameAnswers
  <2>3. at \in HookEvents => Observers(at) \subseteq Nat /\ Counted \subseteq Nat
    <3>1. at \in HookEvents => Observers(at) \subseteq 0 .. Len(Rules) /\ Len(Rules) \in Nat
      BY AnswersAreResults, HooksAssumption DEF Typed, Rules, IsSequence, HookEvents
    <3> QED BY <3>1 DEF Counted
  <2>4. Counted' = Counted /\ Remaining' = Remaining
    BY <2>1, <2>2 DEF Counted, Remaining
  <2>5. at \in HookEvents => (MergedIs(Counted)' <=> MergedIs(Counted))
    BY <2>1, <2>2, <2>3, <2>4 DEF MergedIs
  <2>6. at \in HookEvents /\ hook.answer # None => hook.next - 1 \in Nat
    BY DEF HookStands, Typed, Hooks
  <2> QED BY <2>1, <2>2, <2>3, <2>4, <2>5, <2>6 DEF HookStands
<1>10. CASE Crash
  BY <1>3, <1>10 DEF Crash, HookEvents
<1> QED BY <1>4, <1>5, <1>6, <1>7, <1>8, <1>9, <1>10 DEF HooksNext

-----------------------------------------------------------------------------
(* No answer of this dispatch is lost before the process starts.            *)

AskedNow == \E i \in DOMAIN decided :
                decided[i].turn = turn /\ decided[i].event = "PreToolUse" /\ decided[i].result.decision = "ask"

TurnsPass == \A i \in DOMAIN decided : decided[i].turn <= turn

RefusalsHeard ==
    at \in {"Start", "WorkflowStep", "PreToolUse", "PermissionRequest", "process"} =>
        \A i \in DOMAIN decided :
            decided[i].turn = turn /\ Refuses(decided[i].result) =>
                /\ at # "process"
                /\ Refuses(hook.merged) \/ (hook.answer # None /\ Refuses(hook.answer))

AsksHeard ==
    /\ at \in {"Start", "WorkflowStep"} =>
          \A i \in DOMAIN decided : ~(decided[i].turn = turn /\ decided[i].event = "PreToolUse")
    /\ at = "PreToolUse" /\ AskedNow =>
          \/ Refuses(hook.merged) \/ hook.merged.decision = "ask"
          \/ hook.answer # None /\ hook.answer.decision = "ask"
    /\ at = "process" /\ AskedNow =>
          request \in DOMAIN approvals /\ approvals[request] = "approved" /\ request[1] = WorkflowId

GateStands ==
    /\ at \in {"PermissionRequest", "process"} => Verdict0.decision # "block"
    /\ at = "PermissionRequest" => request[1] = WorkflowId

Heard == TurnsPass /\ RefusalsHeard /\ AsksHeard /\ GateStands

LEMMA SameVerdict ==
    UNCHANGED <<play, turn>> => Verdict0' = Verdict0 /\ WorkflowId' = WorkflowId /\ Rules' = Rules
BY DEF Verdict0, Profile, WorkflowId, Rules

LEMMA AppendKeeps ==
    ASSUME NEW S, NEW s \in Seq(S), NEW x \in S
    PROVE  /\ DOMAIN Append(s, x) = DOMAIN s \cup {Len(s) + 1}
           /\ Append(s, x)[Len(s) + 1] = x
           /\ \A i \in DOMAIN s : Append(s, x)[i] = s[i] /\ i <= Len(s)
           /\ Len(s) \in Nat /\ Len(s) + 1 \notin DOMAIN s /\ DOMAIN s = 1 .. Len(s)
OBVIOUS

\* The entry of a decision, and the log with it.
LEMMA LogDecisionAppends ==
    ASSUME Typed, HookStands, LogDecision
    PROVE  \E last \in Nat :
              /\ DOMAIN decided' = DOMAIN decided \cup {last} /\ last \notin DOMAIN decided
              /\ \A i \in DOMAIN decided : decided'[i] = decided[i] /\ i <= last
              /\ decided'[last].turn = turn /\ decided'[last].event = at
              /\ decided'[last].step = IF at = "WorkflowStep" THEN StepId(step) ELSE None
              /\ decided'[last].result = hook'.answer
              /\ last = Len(decided')
<1> DEFINE entry == [turn |-> turn, event |-> at, step |-> IF at = "WorkflowStep" THEN StepId(step) ELSE None,
                     result |-> hook'.answer]
           last == Len(decided) + 1
<1>1. decided' = Append(decided, entry) /\ hook'.answer \in Results
  BY LogDecisionHears
<1>2. /\ entry.turn = turn /\ entry.event = at /\ entry.result = hook'.answer
      /\ entry.step = IF at = "WorkflowStep" THEN StepId(step) ELSE None
  OBVIOUS
<1>3. decided \in Seq(Answers)
  BY DEF Typed
<1>4. entry \in Answers
  <2>1. at \in HookEvents /\ turn \in DOMAIN play.dispatches
    BY DEF LogDecision, Typed, HookEvents
  <2>2. at = "WorkflowStep" => StepId(step) \in StepIds
    BY StepsAreTyped DEF Typed
  <2> QED BY <1>1, <2>1, <2>2 DEF Answers
<1> HIDE DEF entry
<1>5. Len(decided') = last /\ last \in Nat
  BY <1>1, <1>3, <1>4
<1>6. /\ DOMAIN decided' = DOMAIN decided \cup {last} /\ last \notin DOMAIN decided
      /\ decided'[last] = entry
      /\ \A i \in DOMAIN decided : decided'[i] = decided[i] /\ i <= last
  BY <1>1, <1>3, <1>4, AppendKeeps
<1> QED BY <1>2, <1>5, <1>6

LEMMA ReturnedHasNoAnswer ==
    Typed /\ HookStands /\ at \in HookEvents /\ hook.returned => hook.answer = None /\ hook.next > 0
BY DEF HookStands

LEMMA HeardInit == HooksInit => Heard
BY DEF HooksInit, Heard, TurnsPass, RefusalsHeard, AsksHeard, GateStands

LEMMA HeardNext ==
    ASSUME Typed, HookStands, Heard, [HooksNext]_hookVars
    PROVE  Heard'
<1> DEFINE Silent == \A i \in DOMAIN decided : ~(decided[i].turn = turn /\ Refuses(decided[i].result))
<1>1. CASE Dispatch
  <2>1. turn \in Nat /\ turn' = turn + 1 /\ decided' = decided /\ at' = "Start"
    BY <1>1, HooksAssumption DEF Dispatch, Enter, Typed, IsSequence
  <2>2. \A i \in DOMAIN decided : decided[i].turn <= turn /\ decided[i].turn \in Nat
    <3>1. \A i \in DOMAIN decided : decided[i] \in Answers
      BY DEF Typed
    <3>2. DOMAIN play.dispatches \subseteq Nat
      BY HooksAssumption DEF Typed, IsSequence
    <3> QED BY <3>1, <3>2 DEF Heard, TurnsPass, Answers
  <2>3. \A i \in DOMAIN decided' : decided'[i].turn <= turn' /\ decided'[i].turn # turn'
    BY <2>1, <2>2
  <2> QED BY <2>1, <2>3 DEF Heard, TurnsPass, RefusalsHeard, AsksHeard, GateStands
<1>2. CASE LogDecision
  <2>1. PICK last \in Nat :
              /\ DOMAIN decided' = DOMAIN decided \cup {last} /\ last \notin DOMAIN decided
              /\ \A i \in DOMAIN decided : decided'[i] = decided[i] /\ i <= last
              /\ decided'[last].turn = turn /\ decided'[last].event = at
              /\ decided'[last].result = hook'.answer
    BY <1>2, LogDecisionAppends
  <2>2. /\ hook'.answer \in Results /\ hook'.answer # None /\ hook'.merged = hook.merged /\ hook.answer = None
        /\ UNCHANGED <<play, turn, at, step, request, approvals>> /\ at \in HookEvents
    BY <1>2, LogDecisionHears, NoResultIsNone DEF LogDecision, Typed
  <2>3. TurnsPass'
    <3>1. turn <= turn
      BY HooksAssumption DEF Typed, IsSequence
    <3> QED BY <2>1, <2>2, <3>1 DEF Heard, TurnsPass
  <2>4. RefusalsHeard'
    BY <2>1, <2>2 DEF Heard, RefusalsHeard, HookEvents
  <2>5. AsksHeard'
    BY <2>1, <2>2 DEF Heard, AsksHeard, AskedNow, HookEvents
  <2>6. GateStands'
    BY <2>2, SameVerdict DEF Heard, GateStands
  <2> QED BY <2>3, <2>4, <2>5, <2>6 DEF Heard
<1>3. CASE Observe
  <2>1. /\ hook'.answer = None /\ hook'.merged = Merge(hook.merged, hook.answer)
        /\ UNCHANGED <<play, turn, at, step, request, approvals, decided>> /\ at \in HookEvents
        /\ hook.merged \in Results /\ hook.answer \in Results
    BY <1>3, ObserveMerges DEF Observe
  <2>2. /\ Refuses(hook'.merged) <=> Refuses(hook.merged) \/ Refuses(hook.answer)
        /\ ~Refuses(hook'.merged) =>
              (hook'.merged.decision = "ask" <=> hook.merged.decision = "ask" \/ hook.answer.decision = "ask")
    BY <2>1, MergeKeeps
  <2>3. TurnsPass' /\ RefusalsHeard'
    BY <2>1, <2>2 DEF Heard, TurnsPass, RefusalsHeard, HookEvents
  <2>4. AsksHeard'
    BY <2>1, <2>2 DEF Heard, AsksHeard, AskedNow, HookEvents
  <2>5. GateStands'
    BY <2>1, SameVerdict DEF Heard, GateStands
  <2> QED BY <2>3, <2>4, <2>5 DEF Heard
<1>4. CASE Proceed
  <2>1. /\ UNCHANGED <<play, turn, decided>> /\ at \in HookEvents
        /\ hook.answer = None
        /\ Verdict0' = Verdict0 /\ WorkflowId' = WorkflowId
    BY <1>4, ReturnedHasNoAnswer, SameVerdict DEF Proceed
  <2>2. TurnsPass'
    BY <2>1 DEF Heard, TurnsPass
  <2>3. ~Blocking(hook.merged) /\ at \in {"Start", "WorkflowStep", "PreToolUse", "PermissionRequest"} => Silent
    BY <2>1 DEF Heard, RefusalsHeard, Blocking, Refuses
  <2>4. at' \notin {"Start", "WorkflowStep", "PreToolUse", "PermissionRequest", "process"} => Heard'
    BY <2>2 DEF Heard, RefusalsHeard, AsksHeard, GateStands
  <2>5. Silent => RefusalsHeard'
    BY <2>1 DEF RefusalsHeard
  <2>6. CASE AfterStart \/ AfterStep
    <3>1. \A i \in DOMAIN decided : ~(decided[i].turn = turn /\ decided[i].event = "PreToolUse")
      BY <2>6 DEF Heard, AsksHeard, AfterStart, AfterStep
    <3>2. at' = "ended" \/ (at' \in {"WorkflowStep", "PreToolUse"} /\ ~Blocking(hook.merged))
      BY <2>6 DEF AfterStart, AfterStep, EnterStep, Enter, Finish
    <3>3. at' \in {"WorkflowStep", "PreToolUse"} => AsksHeard' /\ GateStands'
      BY <2>1, <3>1 DEF AsksHeard, AskedNow, GateStands
    <3> QED BY <2>2, <2>3, <2>4, <2>5, <2>6, <3>2, <3>3 DEF Heard, AfterStart, AfterStep
  <2>7. CASE AfterPreToolUse
    <3>1. CASE at' = "ended"
      BY <2>4, <3>1
    <3>2. CASE at' # "ended"
      <4>1. /\ at = "PreToolUse" /\ Verdict0.decision # "block" /\ ~Blocking(hook.merged)
            /\ \/ at' = "PermissionRequest" /\ request' = Fingerprint(hook.merged)
               \/ at' = "process" /\ hook.merged.decision # "ask"
        BY <2>7, <3>2 DEF AfterPreToolUse, Asks, Finish, Enter
      <4>2. at' = "process" => ~AskedNow
        BY <2>1, <4>1 DEF Heard, AsksHeard, Blocking, Refuses
      <4>3. GateStands'
        BY <2>1, <4>1 DEF GateStands, Fingerprint
      <4>4. AsksHeard'
        BY <2>1, <4>1, <4>2 DEF AsksHeard, AskedNow
      <4> QED BY <2>2, <2>3, <2>5, <4>1, <4>3, <4>4 DEF Heard
    <3> QED BY <3>1, <3>2
  <2>8. CASE AfterPermission
    <3>1. CASE at' # "process"
      <4>1. at' \in {"ended", "idle"}
        BY <2>8, <3>1 DEF AfterPermission, Finish, Pause
      <4> QED BY <2>4, <4>1
    <3>2. CASE at' = "process"
      <4>1. /\ at = "PermissionRequest" /\ ~Blocking(hook.merged) /\ Approval = "approved"
            /\ UNCHANGED <<request, approvals>>
        BY <2>8, <3>2 DEF AfterPermission, Finish, Pause
      <4>2. request \in DOMAIN approvals /\ approvals[request] = "approved"
        BY <4>1 DEF Approval
      <4>3. GateStands' /\ AsksHeard'
        BY <2>1, <3>2, <4>1, <4>2 DEF Heard, GateStands, AsksHeard
      <4> QED BY <2>2, <2>3, <2>5, <4>1, <4>3 DEF Heard
    <3> QED BY <3>1, <3>2
  <2>9. CASE AfterProcess
    <3>1. at' \in {"Stop", "ended"}
      BY <2>9 DEF AfterProcess, Enter, Finish
    <3> QED BY <2>4, <3>1
  <2> QED BY <1>4, <2>6, <2>7, <2>8, <2>9 DEF Proceed
<1>5. CASE ProcessEnds \/ Crash
  <2>1. UNCHANGED <<turn, decided>> /\ at' \in {"PostToolUse", "ended", "idle"}
    BY <1>5 DEF ProcessEnds, Crash, Enter, Finish
  <2> QED BY <2>1 DEF Heard, TurnsPass, RefusalsHeard, AsksHeard, GateStands
<1>6. CASE Decide
  <2>1. UNCHANGED <<play, turn, at, hook, request, decided>> /\ Verdict0' = Verdict0 /\ WorkflowId' = WorkflowId
    BY <1>6, SameVerdict DEF Decide
  <2>2. request \in DOMAIN approvals /\ approvals[request] = "approved" =>
            request' \in DOMAIN approvals' /\ approvals'[request'] = "approved"
    BY <1>6, <2>1 DEF Decide
  <2> QED BY <2>1, <2>2 DEF Heard, TurnsPass, RefusalsHeard, AsksHeard, AskedNow, GateStands
<1>7. CASE UNCHANGED hookVars
  <2>1. UNCHANGED <<play, turn, at, hook, request, decided, approvals>> /\ Verdict0' = Verdict0
        /\ WorkflowId' = WorkflowId
    BY <1>7, SameVerdict DEF hookVars
  <2> QED BY <2>1 DEF Heard, TurnsPass, RefusalsHeard, AsksHeard, AskedNow, GateStands
<1> QED BY <1>1, <1>2, <1>3, <1>4, <1>5, <1>6, <1>7 DEF HooksNext

-----------------------------------------------------------------------------
(* Rows.                                                                    *)

Due == {i \in DOMAIN decided : decided[i].event \in HookEvents \ {"Start", "WorkflowStep"}}

\* An answer is recorded whose row is not written yet.
Open == IF at \in {"PreToolUse", "PermissionRequest", "PostToolUse", "Stop"} /\ hook.answer # None THEN 1 ELSE 0

RowsStand == Cardinality(Due) - Len(rows) \in Open .. crashes + Open

LEMMA CountsAre == Typed => IsFiniteSet(Due) /\ Cardinality(Due) \in Nat /\ Len(rows) \in Nat /\ crashes \in Nat
<1> SUFFICES ASSUME Typed PROVE IsFiniteSet(Due) /\ Cardinality(Due) \in Nat /\ Len(rows) \in Nat /\ crashes \in Nat
  OBVIOUS
<1>1. Due \subseteq 1 .. Len(decided) /\ Len(decided) \in Nat
  BY DEF Typed, Due
<1>2. IsFiniteSet(Due)
  <2>1. IsFiniteSet(1 .. Len(decided))
    BY <1>1, FS_Interval
  <2> QED BY <1>1, <2>1, FS_Subset
<1>3. Cardinality(Due) \in Nat
  BY <1>2, FS_CardinalityType
<1> QED BY <1>2, <1>3, HooksAssumption DEF Typed

LEMMA RowsInit == HooksInit => RowsStand
<1> SUFFICES ASSUME HooksInit PROVE RowsStand
  OBVIOUS
<1>1. Due = {}
  BY DEF HooksInit, Due
<1>2. Cardinality(Due) = 0
  BY <1>1, FS_EmptySet
<1>3. Len(rows) = 0 /\ Open = 0 /\ crashes = 0
  BY DEF HooksInit, Open
<1> QED BY <1>2, <1>3 DEF RowsStand

LEMMA RowsNext ==
    ASSUME Typed, HookStands, RowsStand, [HooksNext]_hookVars
    PROVE  RowsStand'
<1>1. /\ IsFiniteSet(Due) /\ Cardinality(Due) \in Nat /\ Len(rows) \in Nat /\ crashes \in Nat
      /\ Open \in {0, 1} /\ Open' \in {0, 1}
  BY CountsAre DEF Open
<1>2. decided' = decided => Due' = Due
  BY DEF Due
<1>3. CASE LogDecision
  <2>1. PICK last \in Nat :
              /\ DOMAIN decided' = DOMAIN decided \cup {last} /\ last \notin DOMAIN decided
              /\ \A i \in DOMAIN decided : decided'[i] = decided[i] /\ i <= last
              /\ decided'[last].turn = turn /\ decided'[last].event = at
              /\ decided'[last].result = hook'.answer
    BY <1>3, LogDecisionAppends
  <2>2. /\ hook'.answer # None /\ hook.answer = None /\ at' = at /\ at \in HookEvents
        /\ rows' = rows /\ crashes' = crashes
    BY <1>3, LogDecisionHears, NoResultIsNone DEF LogDecision, Typed
  <2>3. CASE at \in {"Start", "WorkflowStep"}
    <3>1. Due' = Due
      BY <2>1, <2>3 DEF Due
    <3> QED BY <2>2, <2>3, <3>1 DEF RowsStand, Open
  <2>4. CASE at \notin {"Start", "WorkflowStep"}
    <3>1. Due' = Due \cup {last} /\ last \notin Due
      BY <2>1, <2>2, <2>4 DEF Due
    <3>2. Cardinality(Due') = Cardinality(Due) + 1
      BY <1>1, <3>1, FS_AddElement
    <3>3. Open = 0 /\ Open' = 1
      BY <2>2, <2>4 DEF Open, HookEvents
    <3> QED BY <1>1, <2>2, <3>2, <3>3 DEF RowsStand
  <2> QED BY <2>3, <2>4
<1>4. CASE Observe
  <2>1. /\ hook'.answer = None /\ hook.answer # None /\ at' = at /\ at \in HookEvents
        /\ decided' = decided /\ crashes' = crashes
        /\ rows' = IF at \in RowEvents
                     THEN Append(rows, [turn |-> turn, event |-> at, result |-> hook.answer]) ELSE rows
    BY <1>4, ObserveMerges DEF Observe, RecordRow
  <2>2. Open' = 0
    BY <2>1 DEF Open
  <2>3. CASE at \in RowEvents
    <3>1. Len(rows') = Len(rows) + 1
      <4>1. rows \in Seq(Rows)
        BY DEF Typed
      <4>2. [turn |-> turn, event |-> at, result |-> hook.answer] \in Rows
        BY <1>4, <2>1, <2>3, ObserveMerges DEF Rows, Typed, HookEvents
      <4> QED BY <2>1, <2>3, <4>1, <4>2
    <3>2. Open = 1
      BY <2>1, <2>3 DEF Open, RowEvents, HookEvents
    <3> QED BY <1>1, <1>2, <2>1, <2>2, <3>1, <3>2 DEF RowsStand
  <2>4. CASE at \notin RowEvents
    <3>1. Open = 0 /\ rows' = rows
      BY <2>1, <2>4 DEF Open, RowEvents, HookEvents
    <3> QED BY <1>2, <2>1, <2>2, <3>1 DEF RowsStand
  <2> QED BY <2>3, <2>4
<1>5. CASE Crash
  <2>1. crashes' = crashes + 1 /\ Open' = 0 /\ decided' = decided /\ rows' = rows
    BY <1>5 DEF Crash, Open
  <2> QED BY <1>1, <1>2, <2>1 DEF RowsStand
<1>6. CASE Dispatch \/ Proceed \/ ProcessEnds
  <2>1. decided' = decided /\ rows' = rows /\ crashes' = crashes
    BY <1>6 DEF Dispatch, Proceed, ProcessEnds
  <2>2. NewHook.answer = None
    BY DEF NewHook
  <2>3. Open = 0
    BY <1>6, ReturnedHasNoAnswer DEF Dispatch, Proceed, ProcessEnds, Open
  <2>4. hook' = NewHook \/ at' \in {"idle", "process", "ended"}
    BY <1>6 DEF Dispatch, Proceed, ProcessEnds, AfterStart, AfterStep, AfterPreToolUse, AfterPermission,
       AfterProcess, EnterStep, Enter, Finish, Pause
  <2>5. Open' = 0
    BY <2>2, <2>4 DEF Open
  <2> QED BY <1>2, <2>1, <2>3, <2>5 DEF RowsStand
<1>7. CASE Decide \/ UNCHANGED hookVars
  <2>1. UNCHANGED <<at, hook, decided, rows, crashes>>
    BY <1>7 DEF Decide, hookVars
  <2> QED BY <1>2, <2>1 DEF RowsStand, Open
<1> QED BY <1>3, <1>4, <1>5, <1>6, <1>7 DEF HooksNext

-----------------------------------------------------------------------------
(* What the replay shows of the steps.                                      *)

Plain == \A k \in DOMAIN Rules : Rules[k].continue = None

\* The last answer of a step refuses or not.
StepShown(s, refused) ==
    \E i \in AnswersOfStep(StepId(s)) :
        /\ \A j \in AnswersOfStep(StepId(s)) : j <= i
        /\ Refuses(decided[i].result) <=> refused

BlockedAt(s) == at = "ended" /\ ending = "hook_blocked" /\ s = step

\* The answer that this step's hook recorded last.
LastAnswer ==
    /\ Len(decided) \in DOMAIN decided
    /\ decided[Len(decided)].event = "WorkflowStep" /\ decided[Len(decided)].step = StepId(step)
    /\ IF hook.answer # None THEN decided[Len(decided)].result = hook.answer
       ELSE /\ ~Refuses(hook.merged) => ~Refuses(decided[Len(decided)].result)
            /\ Plain /\ Refuses(hook.merged) => Refuses(decided[Len(decided)].result)

StepsStand ==
    /\ at # "idle" => \A s \in 1 .. step : StepId(s) \in steps
    /\ at # "idle" => \A s \in 1 .. step :
          ~(at = "WorkflowStep" /\ s = step) /\ ~BlockedAt(s) => StepShown(s, FALSE)
    /\ Plain => \A s \in 1 .. step : BlockedAt(s) => StepShown(s, TRUE)
    /\ at = "WorkflowStep" /\ hook.next > 0 => LastAnswer

LEMMA PlainRefusalsStop ==
    ASSUME Typed, HookStands, Plain, at \in HookEvents, hook.merged.continue
    PROVE  ~Refuses(hook.merged)
<1>1. \A k \in Observers(at) : Refuses(Answer(at, k)) => ~Answer(at, k).continue
  <2> SUFFICES ASSUME NEW k \in Observers(at), Refuses(Answer(at, k)) PROVE ~Answer(at, k).continue
    OBVIOUS
  <2>1. CASE k = 0
    <3>1. at # "PostToolUse"
      BY <2>1, HooksAssumption DEF Observers, HasHandler, Rules, Typed, IsSequence, HookEvents
    <3> QED BY <2>1, <3>1 DEF Answer, HandlerResult, Result, Refuses, HookEvents
  <2>2. CASE k # 0
    <3>1. k \in DOMAIN Rules /\ Rules[k].continue = None
      BY <2>2 DEF Observers, Plain
    <3> QED BY <2>2, <3>1 DEF Answer, RuleResult, Result, Refuses
  <2> QED BY <2>1, <2>2
<1>2. MergedIs(Counted) /\ Counted \subseteq Observers(at)
  BY DEF HookStands, Counted
<1> QED BY <1>1, <1>2 DEF MergedIs

LEMMA SameShown ==
    ASSUME UNCHANGED <<play, turn, decided>>
    PROVE  /\ \A s \in 0 .. 4, b \in BOOLEAN : StepShown(s, b)' <=> StepShown(s, b)
           /\ \A s \in 0 .. 4 : StepId(s)' = StepId(s)
           /\ Plain' <=> Plain
<1>1. WorkflowId' = WorkflowId /\ Rules' = Rules
  BY SameVerdict
<1>2. \A s \in 0 .. 4 : StepId(s)' = StepId(s)
  BY <1>1 DEF StepId
<1>3. \A s \in 0 .. 4 : AnswersOfStep(StepId(s))' = AnswersOfStep(StepId(s))
  BY <1>2 DEF AnswersOfStep
<1> QED BY <1>1, <1>2, <1>3 DEF StepShown, Plain

\* The answers of a hook are no answers of an earlier step.
LEMMA LogDecisionKeepsShown ==
    ASSUME Typed, HookStands, LogDecision
    PROVE  /\ \A s \in 0 .. 4, b \in BOOLEAN :
                 ~(at = "WorkflowStep" /\ s = step) => (StepShown(s, b)' <=> StepShown(s, b))
           /\ \A s \in 0 .. 4 : StepId(s)' = StepId(s)
           /\ Plain' <=> Plain
<1>1. PICK last \in Nat :
          /\ DOMAIN decided' = DOMAIN decided \cup {last} /\ last \notin DOMAIN decided
          /\ \A i \in DOMAIN decided : decided'[i] = decided[i] /\ i <= last
          /\ decided'[last].event = at
          /\ decided'[last].step = IF at = "WorkflowStep" THEN StepId(step) ELSE None
  BY LogDecisionAppends
<1>2. WorkflowId' = WorkflowId /\ Rules' = Rules
  BY SameVerdict DEF LogDecision
<1>3. \A s \in 0 .. 4 : StepId(s)' = StepId(s)
  BY <1>2 DEF StepId
<1>4. \A s \in 0 .. 4 : ~(at = "WorkflowStep" /\ s = step) => AnswersOfStep(StepId(s))' = AnswersOfStep(StepId(s))
  <2> SUFFICES ASSUME NEW s \in 0 .. 4, ~(at = "WorkflowStep" /\ s = step)
               PROVE  AnswersOfStep(StepId(s))' = AnswersOfStep(StepId(s))
    OBVIOUS
  <2>1. decided'[last].event = "WorkflowStep" => decided'[last].step # StepId(s)
    BY <1>1 DEF StepId
  <2> QED BY <1>1, <1>3, <2>1 DEF AnswersOfStep
<1>5. \A s \in 0 .. 4 : AnswersOfStep(StepId(s)) \subseteq DOMAIN decided
  BY DEF AnswersOfStep
<1>6. \A s \in 0 .. 4, b \in BOOLEAN :
          ~(at = "WorkflowStep" /\ s = step) => (StepShown(s, b)' <=> StepShown(s, b))
  BY <1>1, <1>3, <1>4, <1>5 DEF StepShown
<1> QED BY <1>2, <1>3, <1>6 DEF Plain

LEMMA StepsInit == HooksInit => StepsStand
BY DEF HooksInit, StepsStand, BlockedAt

LEMMA StepsNext ==
    ASSUME Typed, HookStands, StepsStand, [HooksNext]_hookVars
    PROVE  StepsStand'
<1>1. /\ step \in 0 .. 4 /\ 1 .. step \subseteq 0 .. 4 /\ TRUE \in BOOLEAN /\ FALSE \in BOOLEAN
      /\ DOMAIN decided = 1 .. Len(decided) /\ Len(decided) \in Nat
  BY DEF Typed
<1>2. at' = "idle" => StepsStand'
  BY DEF StepsStand, BlockedAt
<1>3. CASE Dispatch
  <2>1. step' = 0 /\ at' = "Start"
    BY <1>3 DEF Dispatch, Enter
  <2>2. 1 .. step' = {}
    BY <2>1
  <2> QED BY <2>1, <2>2 DEF StepsStand
<1>4. CASE LogDecision
  <2>1. /\ \A s \in 0 .. 4, b \in BOOLEAN :
              ~(at = "WorkflowStep" /\ s = step) => (StepShown(s, b)' <=> StepShown(s, b))
        /\ \A s \in 0 .. 4 : StepId(s)' = StepId(s)
    BY <1>4, LogDecisionKeepsShown
  <2>2. UNCHANGED <<at, step, steps, ending>> /\ at \in HookEvents
    BY <1>4 DEF LogDecision
  <2>3. at = "WorkflowStep" => LastAnswer'
    <3>1. PICK last \in Nat :
              /\ DOMAIN decided' = DOMAIN decided \cup {last}
              /\ decided'[last].event = at
              /\ decided'[last].step = IF at = "WorkflowStep" THEN StepId(step) ELSE None
              /\ decided'[last].result = hook'.answer
              /\ last = Len(decided')
      BY <1>4, LogDecisionAppends
    <3>2. hook'.answer # None
      BY <1>4, LogDecisionHears, NoResultIsNone DEF Typed
    <3> QED BY <1>1, <2>1, <2>2, <3>1, <3>2 DEF LastAnswer
  <2>4. \A s \in 1 .. step : StepId(s)' \in steps'
    BY <1>1, <2>1, <2>2 DEF StepsStand, HookEvents
  <2>5. \A s \in 1 .. step : ~(at = "WorkflowStep" /\ s = step) => StepShown(s, FALSE)'
    BY <1>1, <2>1, <2>2 DEF StepsStand, BlockedAt, HookEvents
  <2>6. at # "ended"
    BY <2>2 DEF HookEvents
  <2> QED BY <2>2, <2>3, <2>4, <2>5, <2>6 DEF StepsStand, BlockedAt
<1>5. CASE Observe
  <2>1. /\ UNCHANGED <<play, turn, decided, at, step, steps, ending>> /\ at \in HookEvents
        /\ hook'.answer = None /\ hook'.next = hook.next /\ hook'.merged = Merge(hook.merged, hook.answer)
        /\ hook.answer # None /\ hook.merged \in Results /\ hook.answer \in Results /\ hook.merged.continue
    BY <1>5, ObserveMerges DEF Observe
  <2>2. Refuses(hook'.merged) <=> Refuses(hook.merged) \/ Refuses(hook.answer)
    BY <2>1, MergeKeeps
  <2>3. /\ \A s \in 0 .. 4, b \in BOOLEAN : StepShown(s, b)' <=> StepShown(s, b)
        /\ \A s \in 0 .. 4 : StepId(s)' = StepId(s)
        /\ Plain' <=> Plain
    BY <2>1, SameShown
  <2>4. Plain => ~Refuses(hook.merged)
    BY <2>1, PlainRefusalsStop
  <2>5. LastAnswer => LastAnswer'
    BY <1>1, <2>1, <2>2, <2>3, <2>4 DEF LastAnswer
  <2> QED BY <1>1, <2>1, <2>3, <2>5 DEF StepsStand, BlockedAt
<1>6. CASE Proceed
  <2>1. /\ UNCHANGED <<play, turn, decided>> /\ at \in HookEvents
        /\ hook.answer = None /\ hook.next > 0
    BY <1>6, ReturnedHasNoAnswer DEF Proceed
  <2>2. /\ \A s \in 0 .. 4, b \in BOOLEAN : StepShown(s, b)' <=> StepShown(s, b)
        /\ \A s \in 0 .. 4 : StepId(s)' = StepId(s)
        /\ Plain' <=> Plain
    BY <2>1, SameShown
  <2>3. NewHook.next = 0
    BY DEF NewHook
  <2>4. /\ \A s \in 1 .. step : StepId(s) \in steps
        /\ \A s \in 1 .. step : ~(at = "WorkflowStep" /\ s = step) => StepShown(s, FALSE)
    BY <2>1 DEF StepsStand, BlockedAt, HookEvents
  <2>5. CASE AfterStart
    <3>1. step = 0
      BY <2>5 DEF AfterStart, Typed
    <3>2. CASE Finish("hook_blocked")
      <4>1. 1 .. step' = {} /\ at' = "ended"
        BY <3>1, <3>2 DEF Finish
      <4> QED BY <4>1 DEF StepsStand
    <3>3. CASE EnterStep(1)
      <4>1. at' = "WorkflowStep" /\ hook' = NewHook /\ step' = 1 /\ steps' = steps \cup {StepId(1)}
        BY <3>3 DEF EnterStep, Enter
      <4>2. \A s \in 1 .. step' : s = step' /\ StepId(s)' \in steps'
        BY <2>2, <4>1
      <4> QED BY <2>3, <4>1, <4>2 DEF StepsStand, BlockedAt
    <3> QED BY <2>5, <3>2, <3>3 DEF AfterStart
  <2>6. CASE AfterStep
    <3>1. step # 0 /\ step \in 1 .. step
      BY <1>1, <2>6 DEF AfterStep, Typed
    <3>2. LastAnswer
      BY <2>1, <2>6 DEF AfterStep, StepsStand
    <3>3. Len(decided) \in AnswersOfStep(StepId(step)) /\ \A j \in AnswersOfStep(StepId(step)) : j <= Len(decided)
      BY <1>1, <3>2 DEF LastAnswer, AnswersOfStep
    <3>4. ~Blocking(hook.merged) => \A s \in 1 .. step : StepShown(s, FALSE)
      <4>1. ~Blocking(hook.merged) => StepShown(step, FALSE)
        BY <2>1, <3>2, <3>3 DEF LastAnswer, StepShown, Blocking, Refuses
      <4> QED BY <2>4, <4>1
    <3>5. Blocking(hook.merged) /\ Plain => StepShown(step, TRUE)
      BY <2>1, <3>2, <3>3 DEF LastAnswer, StepShown, Blocking, Refuses
    <3>6. CASE Blocking(hook.merged)
      <4>1. at' = "ended" /\ ending' = "hook_blocked" /\ step' = step /\ steps' = steps
        BY <2>6, <3>6 DEF AfterStep, Finish
      <4> QED BY <1>1, <2>2, <2>4, <3>5, <3>6, <4>1 DEF StepsStand, BlockedAt
    <3>7. CASE ~Blocking(hook.merged) /\ EnterStep(step + 1)
      <4>1. at' = "WorkflowStep" /\ hook' = NewHook /\ step' = step + 1 /\ steps' = steps \cup {StepId(step + 1)}
        BY <3>7 DEF EnterStep, Enter
      <4>2. step + 1 \in 0 .. 4 /\ \A s \in 1 .. step' : s = step' \/ s \in 1 .. step
        BY <1>1, <4>1, TypedNext DEF Typed
      <4>3. \A s \in 1 .. step' : StepId(s)' \in steps' /\ (s # step' => StepShown(s, FALSE)')
        BY <1>1, <2>2, <2>4, <3>4, <3>7, <4>1, <4>2
      <4>4. at' = "WorkflowStep" /\ hook'.next = 0
        BY <2>3, <4>1
      <4>5. \A s \in 1 .. step' : StepId(s)' \in steps'
        BY <4>3
      <4>6. \A s \in 1 .. step' : s # step' => StepShown(s, FALSE)'
        BY <4>3
      <4>7. (\A s \in 1 .. step : ~(at = "WorkflowStep" /\ s = step) /\ ~BlockedAt(s) => StepShown(s, FALSE))'
        BY <4>4, <4>6
      <4>8. (\A s \in 1 .. step : BlockedAt(s) => StepShown(s, TRUE))'
        BY <4>4 DEF BlockedAt
      <4>9. (hook.next > 0 => LastAnswer)'
        BY <4>4
      <4> QED BY <4>5, <4>7, <4>8, <4>9 DEF StepsStand
    <3>8. CASE ~Blocking(hook.merged) /\ Enter("PreToolUse") /\ UNCHANGED <<step, steps>>
      <4>1. at' = "PreToolUse" /\ step' = step /\ steps' = steps
        BY <3>8 DEF Enter
      <4> QED BY <1>1, <2>2, <2>4, <3>4, <3>8, <4>1 DEF StepsStand, BlockedAt
    <3> QED BY <2>6, <3>6, <3>7, <3>8 DEF AfterStep
  <2>7. CASE AfterPreToolUse \/ AfterPermission \/ AfterProcess
    <3>1. /\ at # "WorkflowStep" /\ at' # "WorkflowStep"
          /\ at' = "ended" => ending' # "hook_blocked"
          /\ step' = step /\ steps' = steps
      BY <2>7 DEF AfterPreToolUse, AfterPermission, AfterProcess, Finish, Pause, Enter
    <3> QED BY <1>1, <2>2, <2>4, <3>1 DEF StepsStand, BlockedAt
  <2> QED BY <1>6, <2>5, <2>6, <2>7 DEF Proceed
<1>7. CASE ProcessEnds
  <2>1. /\ UNCHANGED <<play, turn, decided, step, steps>> /\ at = "process" /\ at' \in {"PostToolUse", "ended"}
        /\ at' = "ended" => ending' # "hook_blocked"
    BY <1>7 DEF ProcessEnds, Enter, Finish
  <2>2. /\ \A s \in 0 .. 4, b \in BOOLEAN : StepShown(s, b)' <=> StepShown(s, b)
        /\ \A s \in 0 .. 4 : StepId(s)' = StepId(s)
    BY <2>1, SameShown
  <2> QED BY <1>1, <2>1, <2>2 DEF StepsStand, BlockedAt
<1>8. CASE Decide \/ UNCHANGED hookVars
  <2>1. UNCHANGED <<play, turn, decided, at, hook, step, steps, ending>>
    BY <1>8 DEF Decide, hookVars
  <2>2. /\ \A s \in 0 .. 4, b \in BOOLEAN : StepShown(s, b)' <=> StepShown(s, b)
        /\ \A s \in 0 .. 4 : StepId(s)' = StepId(s)
        /\ Plain' <=> Plain
    BY <2>1, SameShown
  <2>3. LastAnswer' <=> LastAnswer
    BY <1>1, <2>1, <2>2 DEF LastAnswer
  <2> QED BY <1>1, <2>1, <2>2, <2>3 DEF StepsStand, BlockedAt
<1>9. CASE Crash
  BY <1>2, <1>9 DEF Crash
<1> QED BY <1>3, <1>4, <1>5, <1>6, <1>7, <1>8, <1>9 DEF HooksNext

-----------------------------------------------------------------------------
HooksInv == Typed /\ HookStands /\ Heard /\ RowsStand /\ StepsStand

LEMMA HooksInvariant == HooksSpec => []HooksInv
<1>1. HooksInit => HooksInv
  <2> SUFFICES ASSUME HooksInit PROVE HooksInv
    OBVIOUS
  <2>1. HookStands
    BY DEF HooksInit, HookStands, HookEvents
  <2> QED BY <2>1, TypedInit, HeardInit, RowsInit, StepsInit DEF HooksInv
<1>2. HooksInv /\ [HooksNext]_hookVars => HooksInv'
  BY TypedNext, HookStandsNext, HeardNext, RowsNext, StepsNext DEF HooksInv
<1> QED BY <1>1, <1>2, PTL DEF HooksSpec

\* The variables of a run's decisions are of their types.
THEOREM HooksTypeCorrect == HooksSpec => []HooksTypeOK
<1>1. HooksInv => HooksTypeOK
  <2> SUFFICES ASSUME Typed PROVE HooksTypeOK
    BY DEF HooksInv
  <2>1. ToSet(decided) \subseteq Answers /\ ToSet(rows) \subseteq Rows
    BY DEF Typed, ToSet
  <2> QED BY <2>1 DEF Typed, HooksTypeOK, Answers, Rows, Hooks, StepIds, Results
<1> QED BY <1>1, HooksInvariant, PTL

\* No answer that refuses, no verdict and no missing approval is passed over,
\* whatever the rules of a run are and however often it is dispatched.
THEOREM NothingStartsRefused == HooksSpec => []ProcessWasAllowed
<1>1. HooksInv => ProcessWasAllowed
  <2> SUFFICES ASSUME HooksInv, at = "process" PROVE ProcessWasAllowed
    BY DEF ProcessWasAllowed
  <2>1. \A result \in AnswersNow : ~Refuses(result)
    BY DEF HooksInv, Heard, RefusalsHeard, AnswersNow
  <2>2. (\E result \in PreToolUseNow : result.decision = "ask") => AskedNow
    BY DEF PreToolUseNow, AskedNow
  <2> QED BY <2>1, <2>2 DEF HooksInv, Heard, AsksHeard, GateStands, ProcessWasAllowed
<1> QED BY <1>1, HooksInvariant, PTL

\* A hook's result is that of all its observers, in whatever order.
THEOREM RulesNeedNoOrder == HooksSpec => []RuleOrderIsIrrelevant
<1>1. HooksInv => RuleOrderIsIrrelevant
  <2> SUFFICES ASSUME Typed, HookStands, at \in HookEvents, hook.returned PROVE RuleOrderIsIrrelevant
    BY DEF HooksInv, RuleOrderIsIrrelevant
  <2>1. hook.answer = None /\ hook.next \in Nat /\ MergedIs(Counted)
    BY ReturnedHasNoAnswer DEF HookStands, Typed, Hooks
  <2>2. Observers(at) \subseteq Nat
    BY AnswersAreResults, HooksAssumption DEF Typed, Rules, IsSequence, HookEvents
  <2>3. Counted \subseteq Observers(at)
    BY DEF Counted
  <2>4. CASE Remaining = {}
    <3>1. \A k \in Observers(at) : k < hook.next - 0
      BY <2>1, <2>2, <2>4 DEF Remaining
    <3>2. Counted = Observers(at)
      BY <2>1, <3>1 DEF Counted
    <3> QED BY <2>1, <3>2 DEF MergedIs, RuleOrderIsIrrelevant
  <2>5. CASE ~hook.merged.continue
    <3>1. PICK k \in Counted : ~Answer(at, k).continue
      BY <2>1, <2>5 DEF MergedIs
    <3>2. Refuses(hook.merged) /\ Refuses(Answer(at, k))
      BY <2>5, <3>1 DEF Refuses
    <3> QED BY <2>3, <3>1, <3>2 DEF RuleOrderIsIrrelevant
  <2> QED BY <2>4, <2>5 DEF HookStands
<1> QED BY <1>1, HooksInvariant, PTL

\* What an operator reads of a run's decisions is what they did.
THEOREM RecordsAlwaysAgree == HooksSpec => []RecordsAgree
<1>1. HooksInv => RecordsAgree
  <2> SUFFICES ASSUME HooksInv PROVE RecordsAgree
    OBVIOUS
  <2>1. ASSUME at = "ended", Plain, NEW s \in 1 .. step
        PROVE  /\ StepId(s) \in steps
               /\ ShownBlocked(StepId(s)) <=> (ending = "hook_blocked" /\ s = step)
    <3>1. \E i \in AnswersOfStep(StepId(s)) :
             /\ \A j \in AnswersOfStep(StepId(s)) : j <= i
             /\ Refuses(decided[i].result) <=> BlockedAt(s)
      BY <2>1 DEF HooksInv, StepsStand, StepShown
    <3>2. PICK i \in AnswersOfStep(StepId(s)) :
             /\ \A j \in AnswersOfStep(StepId(s)) : j <= i
             /\ Refuses(decided[i].result) <=> BlockedAt(s)
      BY <3>1
    <3>3. AnswersOfStep(StepId(s)) \subseteq Nat
      BY DEF AnswersOfStep, HooksInv, Typed
    <3>4. ShownAnswer(StepId(s)) = decided[i]
      <4>1. \A k \in AnswersOfStep(StepId(s)) : (\A j \in AnswersOfStep(StepId(s)) : j <= k) => k = i
        BY <3>2, <3>3
      <4> QED BY <3>2, <4>1 DEF ShownAnswer
    <3>5. ShownBlocked(StepId(s)) <=> Refuses(decided[i].result)
      BY <3>2, <3>4 DEF ShownBlocked, ShownBlocking, Refuses
    <3> QED BY <2>1, <3>2, <3>5 DEF HooksInv, StepsStand, BlockedAt
  <2>2. Cardinality(Due) - Len(rows) \in Open .. crashes + Open
    BY DEF HooksInv, RowsStand
  <2> QED BY <2>1, <2>2 DEF RecordsAgree, Plain, Due, Open
<1> QED BY <1>1, HooksInvariant, PTL
=============================================================================
