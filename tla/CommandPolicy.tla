---------------------------- MODULE CommandPolicy ----------------------------
(***************************************************************************)
(* What a native agent run may start: the five workflow packs with their   *)
(* permission profiles, the profile a dispatch gets from its run and its   *)
(* workflow, and the command policy that decides under it.                 *)
(***************************************************************************)
EXTENDS Integers, Sequences

Profiles == {"read_only", "workspace_write", "trusted_local"}

\* decisionRank: a stricter decision has the higher rank.
Rank(decision) ==
    CASE decision = "audit_only" -> 0 [] decision = "allow" -> 1 [] decision = "ask" -> 2
      [] decision = "deny" -> 3 [] decision = "block" -> 4

Decisions == {"audit_only", "allow", "ask", "deny", "block"}

-----------------------------------------------------------------------------
(* Workflow packs, by their profile and the phases of their steps.          *)

AllPhases == <<"plan", "execute", "verify", "handoff">>

WritingPack == [profile |-> "workspace_write", phases |-> AllPhases]

ReviewPack == [profile |-> "read_only", phases |-> SubSeq(AllPhases, 1, 3)]

Workflows == [id \in {"manual", "github-pr-review", "feature-dev", "security-review", "test-fix"} |->
                 IF id = "security-review" THEN ReviewPack ELSE WritingPack]

\* getNativeWorkflowPack: an id nobody knows is the manual one.
KnownWorkflow(id) == IF id \in DOMAIN Workflows THEN id ELSE "manual"

EffectiveProfile(ofRun, ofWorkflow) ==
    IF "read_only" \in {ofRun, ofWorkflow} THEN "read_only"
    ELSE IF "workspace_write" \in {ofRun, ofWorkflow} THEN "workspace_write" ELSE "trusted_local"

-----------------------------------------------------------------------------
(* evaluateNativeCommandPolicy.  A command is one name of each kind that    *)
(* the policy tells apart; "" is an empty argv.                             *)

HighRiskCommands == {"rm"}
MediumRiskCommands == {"git", "node"}
NodeLike == {"node", "node.exe"}

PolicyInputs == [profile : Profiles, command : STRING,
                 inside : BOOLEAN, internal : BOOLEAN, network : BOOLEAN]

CommandRisk(in) ==
    IF in.network \/ in.command \in HighRiskCommands THEN "high"
    ELSE IF in.internal \/ in.command \in MediumRiskCommands THEN "medium" ELSE "low"

\* The policy's answer: empty argv, a directory outside the root and a
\* read-only profile come before everything else.
Verdict(decision, risk) == [decision |-> decision, risk |-> risk]

Policy(in) ==
    LET risk == CommandRisk(in)
    IN  IF in.command = "" \/ ~in.inside THEN Verdict("block", "high")
        ELSE IF in.profile = "read_only" THEN Verdict("block", "medium")
        ELSE IF in.profile = "trusted_local"
          THEN Verdict(IF risk = "high" THEN "audit_only" ELSE "allow", risk)
        ELSE IF in.internal /\ in.command \in NodeLike THEN Verdict("allow", risk)
        ELSE Verdict(IF risk = "high" THEN "ask" ELSE "allow", risk)

\* What the dispatch asks about: this process's own node, in the workspace root.
ProcessInput(profile) ==
    [profile |-> profile, command |-> "node", inside |-> TRUE, internal |-> TRUE, network |-> FALSE]
=============================================================================
