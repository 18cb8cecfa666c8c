--------------------------- MODULE AutomationIngress ---------------------------
(***************************************************************************)
(* How an event from outside becomes an automation run: the trigger API    *)
(* (src/src/automation-api.ts), the GitHub webhook                         *)
(* (src/src/github-webhook-api.ts), the store they record in               *)
(* (src/src/postgres-automation-store.ts) and the commands that make       *)
(* sources and rotate their tokens (src/src/automation-source-cli.ts).     *)
(*                                                                         *)
(* A message is delivered several times, and each delivery has a handler   *)
(* of its own.  A handler runs up to an await on the store; the statement  *)
(* takes effect, and the handler goes on, in a later step.  The id of an   *)
(* event is a fresh randomUUID, so it is named for the delivery whose      *)
(* insert made it, and a run's id is made from the id of its event, so the *)
(* set of runs is the set of their events.                                 *)
(***************************************************************************)
EXTENDS Naturals, FiniteSets

CONSTANTS
    Messages,
    Content,          \* what a message says
    MaxDeliveries,    \* how often a message is delivered
    MaxOpen,          \* how many deliveries are handled at a time
    Sources, Owners, Tokens, Policies,
    Installed,        \* the sources made before the first delivery
    NewRows,          \* the sources an operator may make
    SentTogether,     \* sets of messages that may be sent in one behaviour
    MaxFaults,        \* failing statements and restarts of the server
    MaxEdits,         \* changes of sources
    None

\* Of a message the store compares the source, the key and the sender's id.
ASSUME IngressAssumption ==
    /\ {MaxDeliveries, MaxOpen, MaxFaults, MaxEdits} \subseteq Nat
    /\ \A m \in Messages :
          /\ {"source", "key", "eventId", "credential"} \subseteq DOMAIN Content[m]
          /\ Content[m].source \in Sources
    /\ SentTogether \subseteq SUBSET Messages
    /\ None \notin Messages \cup Sources \cup Owners \cup Tokens \cup Policies

VARIABLES
    sources,     \* per id, the row of automation_sources
    events,      \* per id, the row of automation_events
    runs,        \* the events that have a row in automation_runs
    handler,     \* per delivery, how far its handler is
    sent,        \* the messages that are sent
    faults, edits

vars == <<sources, events, runs, handler, sent, faults, edits>>

Deliveries == Messages \X (1 .. MaxDeliveries)
Source == [kind : {"api_trigger", "github_webhook"}, owner : Owners,
           status : {"enabled", "disabled"}, token : Tokens, secret : Tokens \cup {None},
           policy : Policies \cup {None}]
Event == [source : Sources, owner : Owners, message : Messages,
          status : {"accepted", "rejected"}]
Awaiting == {"source", "existing", "insert", "duplicate", "run", "create", "created"}
Reply == {"none", "queued", "ignored", "conflict", "refused", "failed", "lost"}
Handler == [at : Awaiting \cup {"new", "done"}, owner : Owners \cup {None},
            status : {"none", "accepted", "rejected"},
            event : Deliveries \cup {None}, reply : Reply]

ASSUME RowAssumption ==
    /\ Installed \in [Sources -> Source \cup {None}]
    /\ NewRows \subseteq Source
    /\ None \notin Source \cup Event \cup Deliveries

TypeOK ==
    /\ sources \in [Sources -> Source \cup {None}]
    /\ events \in [Deliveries -> Event \cup {None}]
    /\ runs \subseteq Deliveries
    /\ handler \in [Deliveries -> Handler]
    /\ sent \subseteq Messages
    /\ faults \in 0 .. MaxFaults
    /\ edits \in 0 .. MaxEdits

Init ==
    /\ sources = Installed
    /\ events = [d \in Deliveries |-> None]
    /\ runs = {}
    /\ handler = [d \in Deliveries |->
                    [at |-> "new", owner |-> None, status |-> "none",
                     event |-> None, reply |-> "none"]]
    /\ sent \in SentTogether
    /\ faults = 0
    /\ edits = 0

(***************************************************************************)
(* The validators.  A field of a message is "absent", "ok", or "bad" when  *)
(* its validator throws.                                                   *)
(***************************************************************************)
\* The required parts of a trigger are its id, its token and its key; the
\* body has to say something.
NormalizeTriggerBody(body) ==
    /\ \A field \in DOMAIN body : body[field] # "bad"
    /\ body.text = "ok" \/ body.payload = "ok"

TriggerIsWellFormed(c) ==
    /\ c.triggerId = "ok" /\ c.bearer = "ok" /\ c.idempotencyKey = "ok"
    /\ NormalizeTriggerBody(c.body)

WebhookIsWellFormed(c) ==
    \A field \in DOMAIN c.body : c.body[field] = "ok"

DefaultRoutableActions ==
    [pull_request |-> {"opened", "synchronize", "closed"}, release |-> {"published"}]

\* A configured list for the event replaces the default one.
GithubEventAllowed(policy, data) ==
    LET actions == IF data.event \in DOMAIN policy.events THEN policy.events[data.event]
                   ELSE IF data.event \in DOMAIN DefaultRoutableActions
                        THEN DefaultRoutableActions[data.event] ELSE {}
    IN  "*" \in actions \/ data.action \in actions

\* None is a list that is not configured.
EvaluateRoute(policy, data) ==
    /\ GithubEventAllowed(policy, data)
    /\ policy.repositories = None \/ data.repository \in policy.repositories
    /\ policy.branches = None \/ data.branch \in policy.branches

\* What the two fingerprints are hashed from: everything but the credential.
Fingerprint(m) == [Content[m] EXCEPT !.credential = None]

--------------------------------------------------------------------------------
Open(d) == handler[d].at \in Awaiting
Go(d, at) == handler' = [handler EXCEPT ![d].at = at]
Answer(d, reply, event) ==
    handler' = [handler EXCEPT ![d].at = "done", ![d].reply = reply, ![d].event = event]

IsTrigger(d) == Content[d[1]].kind = "api_trigger"

\* A request arrives.  The trigger API validates before its first await.
Receive(d) ==
    /\ d[1] \in sent /\ handler[d].at = "new"
    /\ d[2] > 1 => handler[<<d[1], d[2] - 1>>].at # "new"
    /\ Cardinality({e \in Deliveries : Open(e)}) < MaxOpen
    /\ IF IsTrigger(d) /\ ~TriggerIsWellFormed(Content[d[1]])
       THEN Answer(d, "refused", None)
       ELSE Go(d, "source")
    /\ UNCHANGED <<sources, events, runs, sent, faults, edits>>

Admitted(d, row, status) ==
    handler' = [handler EXCEPT ![d].at = "existing", ![d].owner = row.owner,
                               ![d].status = status]

\* getApiTriggerSourceForToken selects by id, kind and the hash of the token.
TriggerSourceForToken(row, c) ==
    row # None /\ row.kind = "api_trigger" /\ row.token = c.credential

CheckTriggerSource(d) ==
    LET c == Content[d[1]]
        row == sources[c.source] IN
    /\ handler[d].at = "source" /\ IsTrigger(d)
    /\ IF TriggerSourceForToken(row, c) /\ row.status = "enabled"
       THEN Admitted(d, row, "accepted") ELSE Answer(d, "refused", None)
    /\ UNCHANGED <<sources, events, runs, sent, faults, edits>>

GithubWebhookSource(row) == row # None /\ row.kind = "github_webhook"

\* The body is signed with the secret the source names, an environment variable.
SignatureIsValid(row, c) == row.secret = c.credential

\* A secret that is not in the environment is answered 503.
CheckWebhookSource(d) ==
    LET c == Content[d[1]]
        row == sources[c.source]
    IN
    /\ handler[d].at = "source" /\ ~IsTrigger(d)
    /\ IF ~(GithubWebhookSource(row) /\ row.status = "enabled") \/ c.body.raw # "ok"
       THEN Answer(d, "refused", None)
       ELSE IF row.secret = None THEN Answer(d, "failed", None)
       ELSE IF ~SignatureIsValid(row, c) \/ ~WebhookIsWellFormed(c) \/ row.policy = None
       THEN Answer(d, "refused", None)
       ELSE Admitted(d, row, IF EvaluateRoute(row.policy, c.data) THEN "accepted" ELSE "rejected")
    /\ UNCHANGED <<sources, events, runs, sent, faults, edits>>

(***************************************************************************)
(* recordEvent.                                                            *)
(***************************************************************************)
\* Events with the key or with the sender's id of the delivered one.
Matching(d) ==
    LET c == Content[d[1]] IN
    {e \in Deliveries :
        /\ events[e] # None
        /\ events[e].source = c.source
        /\ events[e].owner = handler[d].owner
        /\ LET f == Content[events[e].message]
           IN  f.key = c.key \/ (c.eventId # None /\ f.eventId = c.eventId)}

\* Mutant: the answer before the run.
Recorded_AtOnce(d, e, status) ==
    Answer(d, IF status = "rejected" THEN "ignored" ELSE "queued", e)

\* A rejected event is answered "ignored"; for an accepted one the run is
\* looked up.  The status is that of the recorded event.
Recorded(d, e, status) ==
    IF status = "rejected" THEN Answer(d, "ignored", e)
    ELSE handler' = [handler EXCEPT ![d].at = "run", ![d].event = e]

\* Mutant: a duplicate is taken to have its run.
Existing_HasRun(d, e) ==
    IF Fingerprint(events[e].message) # Fingerprint(d[1]) THEN Answer(d, "conflict", e)
    ELSE Answer(d, IF events[e].status = "rejected" THEN "ignored" ELSE "queued", e)

\* existingEventResult.
Existing(d, e) ==
    IF Fingerprint(events[e].message) # Fingerprint(d[1]) THEN Answer(d, "conflict", e)
    ELSE Recorded(d, e, events[e].status)

\* The select has a limit of one: any matching event.
FindExistingEvent(d) ==
    /\ handler[d].at = "existing"
    /\ IF Matching(d) = {} THEN Go(d, "insert")
       ELSE \E e \in Matching(d) : Existing(d, e)
    /\ UNCHANGED <<sources, events, runs, sent, faults, edits>>

EventRow(d) ==
    [source |-> Content[d[1]].source, owner |-> handler[d].owner,
     message |-> d[1], status |-> handler[d].status]

\* Mutant: no unique index.
InsertEvent_NoIndex(d) ==
    /\ handler[d].at = "insert"
    /\ events' = [events EXCEPT ![d] = EventRow(d)]
    /\ Recorded(d, d, handler[d].status)
    /\ UNCHANGED <<sources, runs, sent, faults, edits>>

\* Two unique indexes refuse a second event with the same key or id.
InsertEvent(d) ==
    /\ handler[d].at = "insert"
    /\ IF Matching(d) # {}
       THEN Go(d, "duplicate") /\ UNCHANGED events
       ELSE /\ events' = [events EXCEPT ![d] = EventRow(d)]
            /\ Recorded(d, d, handler[d].status)
    /\ UNCHANGED <<sources, runs, sent, faults, edits>>

FindDuplicateEvent(d) ==
    /\ handler[d].at = "duplicate"
    /\ IF Matching(d) = {} THEN Answer(d, "failed", None)
       ELSE \E e \in Matching(d) : Existing(d, e)
    /\ UNCHANGED <<sources, events, runs, sent, faults, edits>>

(***************************************************************************)
(* getOrCreateRunForEvent.                                                 *)
(***************************************************************************)
FindRun(d) ==
    LET e == handler[d].event IN
    /\ handler[d].at = "run"
    /\ IF e \in runs THEN Answer(d, "queued", e) ELSE Go(d, "create")
    /\ UNCHANGED <<sources, events, runs, sent, faults, edits>>

\* The id of a run is made from the id of its event: a second insert fails.
CreateRun(d) ==
    LET e == handler[d].event IN
    /\ handler[d].at = "create"
    /\ runs' = runs \cup {e}
    /\ IF e \in runs THEN Go(d, "created") ELSE Answer(d, "queued", e)
    /\ UNCHANGED <<sources, events, sent, faults, edits>>

FindCreatedRun(d) ==
    LET e == handler[d].event IN
    /\ handler[d].at = "created"
    /\ IF e \in runs THEN Answer(d, "queued", e) ELSE Answer(d, "failed", e)
    /\ UNCHANGED <<sources, events, runs, sent, faults, edits>>

(***************************************************************************)
(* Failures.                                                               *)
(***************************************************************************)
\* A statement fails, or it has taken effect and its answer is lost: the
\* sender gets a retryable 500.
StatementFails(d) ==
    /\ Open(d)
    /\ faults < MaxFaults
    /\ faults' = faults + 1
    /\ Answer(d, "failed", handler[d].event)
    /\ \/ UNCHANGED <<events, runs>>
       \/ /\ handler[d].at = "insert" /\ Matching(d) = {}
          /\ events' = [events EXCEPT ![d] = EventRow(d)]
          /\ UNCHANGED runs
       \/ /\ handler[d].at = "create"
          /\ runs' = runs \cup {handler[d].event}
          /\ UNCHANGED events
    /\ UNCHANGED <<sources, sent, edits>>

\* The server stops: the sender of an open request gets no answer.
Restart ==
    /\ \E d \in Deliveries : Open(d)
    /\ faults < MaxFaults
    /\ faults' = faults + 1
    /\ handler' = [d \in Deliveries |->
                     IF Open(d) THEN [handler[d] EXCEPT !.at = "done", !.reply = "lost"]
                     ELSE handler[d]]
    /\ UNCHANGED <<sources, events, runs, sent, edits>>

(***************************************************************************)
(* The sources.                                                            *)
(***************************************************************************)
TokenIsFree(t) == \A s \in Sources : sources[s] # None => sources[s].token # t

CreateSource(s, row) ==
    /\ edits < MaxEdits /\ edits' = edits + 1
    /\ sources[s] = None
    /\ TokenIsFree(row.token)
    /\ sources' = [sources EXCEPT ![s] = row]
    /\ UNCHANGED <<events, runs, handler, sent, faults>>

RotateSourceToken(s, owner, t) ==
    /\ edits < MaxEdits /\ edits' = edits + 1
    /\ sources[s] # None /\ sources[s].owner = owner
    /\ TokenIsFree(t)
    /\ sources' = [sources EXCEPT ![s].token = t]
    /\ UNCHANGED <<events, runs, handler, sent, faults>>

\* No code of the repository changes the status or the policy of a source:
\* an operator does, in the database.
DisableSource(s) ==
    /\ edits < MaxEdits /\ edits' = edits + 1
    /\ sources[s] # None /\ sources[s].status = "enabled"
    /\ sources' = [sources EXCEPT ![s].status = "disabled"]
    /\ UNCHANGED <<events, runs, handler, sent, faults>>

ChangePolicy(s, policy) ==
    /\ edits < MaxEdits /\ edits' = edits + 1
    /\ sources[s] # None /\ sources[s].policy # policy
    /\ sources[s].kind = "github_webhook"
    /\ sources' = [sources EXCEPT ![s].policy = policy]
    /\ UNCHANGED <<events, runs, handler, sent, faults>>

Handle(d) ==
    \/ CheckTriggerSource(d) \/ CheckWebhookSource(d)
    \/ FindExistingEvent(d) \/ InsertEvent(d) \/ FindDuplicateEvent(d)
    \/ FindRun(d) \/ CreateRun(d) \/ FindCreatedRun(d)

Next ==
    \/ \E d \in Deliveries : Receive(d) \/ Handle(d) \/ StatementFails(d)
    \/ Restart
    \/ \E s \in {Content[m].source : m \in sent} :
        \/ \E row \in NewRows : CreateSource(s, row)
        \/ \E o \in Owners, t \in Tokens : RotateSourceToken(s, o, t)
        \/ DisableSource(s)
        \/ \E p \in Policies \cup {None} : ChangePolicy(s, p)

Spec == Init /\ [][Next]_vars

Faulty == {"failed", "lost"}
\* Handlers run on, and a sender sends again what got no answer or a
\* retryable one.  Every handler ends, so fairness to one of them is fairness
\* to all.
Unanswered(m) == \A n \in 1 .. MaxDeliveries :
                    handler[<<m, n>>].reply \in Faulty \cup {"none"}
Redeliver(d) == Unanswered(d[1]) /\ Receive(d)
FairSpec ==
    /\ Spec
    /\ WF_vars(\E d \in Deliveries : Handle(d))
    /\ WF_vars(\E d \in Deliveries : Redeliver(d))

--------------------------------------------------------------------------------
(***************************************************************************)
(* Properties.                                                             *)
(***************************************************************************)
\* What a 202 says is so, and stays so, however deliveries overlap and
\* whatever becomes of the policy of the source in between: "queued" names an
\* event of this very content that has a run, "ignored" one that has none, a
\* run is made only for an accepted event, and deliveries of one message are
\* never told different things, but the same event, queued or ignored, or always
\* a conflict (fireAutomationTrigger, handleGithubWebhook, recordEvent,
\* getOrCreateRunForEvent).
AnswersAreTrue ==
    /\ \A d \in Deliveries :
          LET e == handler[d].event IN
          handler[d].reply \in {"queued", "ignored"} =>
              /\ events[e] # None
              /\ Fingerprint(events[e].message) = Fingerprint(d[1])
              /\ e \in runs <=> handler[d].reply = "queued"
    /\ \A e \in runs : events[e] # None /\ events[e].status = "accepted"
    /\ \A d, e \in Deliveries :
          /\ d[1] = e[1]
          /\ {handler[d].reply, handler[e].reply} \subseteq {"queued", "ignored", "conflict"}
          => /\ handler[d].reply = handler[e].reply
             /\ handler[d].reply # "conflict" => handler[d].event = handler[e].event

Refused(m) == \E n \in 1 .. MaxDeliveries : handler[<<m, n>>].reply = "refused"
Spent(m) == \A n \in 1 .. MaxDeliveries : handler[<<m, n>>].reply \in Faulty

\* An accepted event gets its run, whatever stopped the handler that
\* recorded it, unless its redelivery is refused because the source has
\* been disabled or its token rotated, or no delivery of it is left
\* (getOrCreateRunForEvent).
AcceptedEventsGetRuns ==
    <>[](\A e \in Deliveries :
            events[e] # None /\ events[e].status = "accepted"
            => e \in runs \/ Refused(e[1]) \/ Spent(e[1]))

(***************************************************************************)
(* All deliveries under one key are one job.                               *)
(***************************************************************************)
Keys == {<<Content[m].source, Content[m].key>> : m \in Messages}
EventsOf(k) ==
    {e \in Deliveries : events[e] # None
        /\ k = <<Content[events[e].message].source, Content[events[e].message].key>>}
JobOf(k) ==
    IF EventsOf(k) = {} THEN "unknown"
    ELSE IF EventsOf(k) \cap runs # {} THEN "queued"
    ELSE events[CHOOSE e \in EventsOf(k) : TRUE].status
ToldOf ==
    {<<<<Content[d[1]].source, Content[d[1]].key>>, handler[d].reply>> :
        d \in {e \in Deliveries : handler[e].reply \in {"queued", "ignored"}}}

Ingress == INSTANCE IdempotentIngress WITH job <- [k \in Keys |-> JobOf(k)], told <- ToldOf

\* The handlers implement one job per key.
ImplementsIngress == Ingress!Spec
================================================================================
