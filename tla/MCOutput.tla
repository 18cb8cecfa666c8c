------------------------------ MODULE MCOutput ------------------------------
(***************************************************************************)
(* What a run puts out, in one run of TLC: a behavior is one of a process  *)
(* and the reader that logs its output, of the log and a client that       *)
(* streams it, of the review checkpoints of one workspace, of the          *)
(* decisions the hooks of a run record, or of the schema that records are  *)
(* kept in.  They share no variable, so the parts a behavior is not about  *)
(* stay as they began.                                                     *)
(***************************************************************************)
EXTENDS NativeProcess, HookedDispatch, SchemaMigrations, EventStream, ReviewCheckpoints, TLC

CONSTANTS d, o, p, p2, p3, e, v1, v2

VARIABLE part

Rule(id, events, only, decision, continue) ==
    [id |-> id, events |-> events, only |-> only, decision |-> decision, continue |-> continue]

\* Rules that filter on each kind of field, that refuse in each way, and that
\* say "continue" against their decision.
SomeRules ==
    {Rule("ask", {"PreToolUse"}, [risks |-> {"medium"}, stage |-> {}], "ask", None),
     Rule("allow", {"PreToolUse", "PermissionRequest"}, << >>, "allow", None),
     Rule("plan", {"WorkflowStep", "PreToolUse"}, [stepPhases |-> {"plan"}], "block", None),
     Rule("on", {"WorkflowStep", "PreToolUse", "Stop"}, [stage |-> {"before"}], "block", TRUE),
     Rule("deny", {"PermissionRequest"}, [policyDecisions |-> {"allow"}], "deny", None),
     Rule("halt", {"Start", "WorkflowStep"}, [workflowIds |-> {"feature-dev"}, stepPhases |-> {"verify"}], "allow", FALSE),
     Rule("late", {"PostToolUse", "Stop"}, [stage |-> {"after"}], "block", None)}

Named(id) == CHOOSE rule \in SomeRules : rule.id = id

RuleLists == {<<>>} \cup {<<a>> : a \in SomeRules} \cup {<<a, b>> : a \in SomeRules, b \in SomeRules}

Of(rules, id) == [rules |-> rules, workflow |-> id]

\* Any two rules, dispatched twice; a run dispatched again with other rules
\* and another workflow; a run that may write nothing.
HookPlays ==
    {[profile |-> "trusted_local", dispatches |-> <<Of(r, "feature-dev"), Of(r, "feature-dev")>>] : r \in RuleLists}
        \cup {[profile |-> "workspace_write",
               dispatches |-> <<Of(r, id), Of(<<Named("ask")>>, "manual")>>] :
                  r \in {<<Named("ask"), Named("allow")>>, <<Named("plan")>>},
                  id \in {"feature-dev", "security-review"}}
        \cup {[profile |-> "read_only",
               dispatches |-> <<Of(<<r>>, "feature-dev"), Of(<<>>, "unknown")>>] : r \in SomeRules}

OneHookPlay == [profile |-> "trusted_local", dispatches |-> <<Of(<<>>, "feature-dev"), Of(<<>>, "feature-dev")>>]

Migration(v, c) == [version |-> v, checksum |-> c]

\* Builds of two releases, one with an edited file, one with a late number.
Release == <<Migration(1, "a"), Migration(3, "a")>>
Newer == Append(Release, Migration(4, "a"))
Edited == <<Migration(1, "a"), Migration(3, "b"), Migration(4, "a")>>
Between == <<Migration(1, "a"), Migration(2, "a"), Migration(3, "a")>>

Task(kind, build) == [kind |-> kind, build |-> build]

Upgrade(engine, installed, first, second, third) ==
    [engine |-> engine, installed |-> installed,
     task   |-> (p :> Task("migrate", first)) @@ (p2 :> Task("migrate", second)) @@ (p3 :> third)]

\* Two migrate, from nothing or from the oldest build, and a server starts;
\* three processes open one SQLite file.
Oldest == SubSeq(Release, 1, 1)

AllUpgrades ==
    {Upgrade("postgres", a, Release, b, Task("serve", c)) :
        a \in {<<>>, Oldest}, b \in {Release, Newer, Edited, Between}, c \in {Release, Edited}}
    \cup {Upgrade("sqlite", <<>>, Release, b, Task("migrate", Newer)) : b \in {Release, Between}}

OneUpgrade == Upgrade("sqlite", <<>>, Release, Release, Task("migrate", Newer))

OutputInit ==
    /\ part \in {"process", "stream", "reviews", "hooks", "schema"}
    /\ Init /\ StreamInit /\ ReviewInit /\ HooksInit /\ SchemaInit
    /\ part # "reviews" => eager /\ isGit
    /\ part # "hooks" => play = OneHookPlay
    /\ part # "schema" => upgrade = OneUpgrade

OfProcess(action) == part = "process" /\ action /\ UNCHANGED <<part, streamVars, reviewVars, hookVars, schemaVars>>
OfStream(action) == part = "stream" /\ action /\ UNCHANGED <<part, vars, reviewVars, hookVars, schemaVars>>
OfReviews(action) == part = "reviews" /\ action /\ UNCHANGED <<part, vars, streamVars, hookVars, schemaVars>>
OfHooks(action) == part = "hooks" /\ action /\ UNCHANGED <<part, vars, streamVars, reviewVars, schemaVars>>
OfSchema(action) == part = "schema" /\ action /\ UNCHANGED <<part, vars, streamVars, reviewVars, hookVars>>

OutputNext == OfProcess(Next) \/ OfStream(StreamNext) \/ OfReviews(ReviewNext)
              \/ OfHooks(HooksNext) \/ OfSchema(SchemaNext)

allVars == <<part, vars, streamVars, reviewVars, hookVars, schemaVars>>

\* The fairness of the two modules that state one.
OutputSpec ==
    /\ OutputInit /\ [][OutputNext]_allVars
    /\ WF_allVars(OfProcess(Spawn)) /\ WF_allVars(OfProcess(TimeoutFires))
    /\ WF_allVars(OfProcess(Read)) /\ WF_allVars(OfProcess(AppendEvent))
    /\ WF_allVars(OfStream(PollStep(p))) /\ WF_allVars(OfStream(Receive))

(* The variables of the part a behavior is about are of their types. *)
OutputTypeOK ==
    /\ part = "process" => TypeOK
    /\ part = "stream" => StreamTypeOK
    /\ part = "reviews" => ReviewTypeOK
    /\ part = "hooks" => HooksTypeOK
    /\ part = "schema" => SchemaTypeOK

(* The reader of a process ends (NativeProcess!ReaderEnds). *)
ProcessReaderEnds == part = "process" => ReaderEnds
=============================================================================
