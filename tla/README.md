# Formal model of DevSpace

TLA+ modules, TLC configurations and TLAPS proofs kept beside the DevSpace
sources (`src/`, here `src/src/...` from the project root): what its long-lived,
concurrent parts promise, and how far the code keeps it.  `PROJECT.json` lists
the components, the runs, which definition models which lines, the hazards
looked for, the disagreements found and the theorems.

## The system

DevSpace lets a chat client work in local directories through MCP tools, and
grew two subsystems with a life of their own.

* **The native agent** takes automation runs from a queue in Postgres and
  executes them as local processes under a policy, asking an operator where
  the policy says so.
* **The cloud gateway** routes MCP tool calls from a public endpoint over a
  WebSocket to a desktop that executes them.

| Component | State | Operations | What is hard |
|---|---|---|---|
| Native agent store (`native-agent-store.ts`) | rows of `agent_runs`, `automation_runs`, `agent_run_events`, `agent_tool_calls` | claim, create, set status, finish, cancel, append | every operation is one or two SQL statements, no transaction; callers are different processes |
| Dispatch (`native-agent-runtime.ts`) | local variables of one call, its process manager | dispatch the next automation run, dispatch a run by id | dozens of awaits between the claim and the end; other dispatches, operators and crashes in between |
| Operator commands (`native-agent-operator.ts`, `native-agent-api.ts`) | the approvals, which are only a reading of the event log | request, ensure, resolve, expire, cancel, retry, resume | check first, append later; last writer wins |
| Process manager (`native-agent-process.ts`) | children, their output buffers and timers | start, read, write, cancel, close | output limits, the end of a child racing the reader, timeouts |
| Hooks, policy, workflows (`native-agent-hooks.ts`, `native-agent-policy.ts`, `native-agent-workflows.ts`) | the events and hook rows a run records | match, merge, decide | several rules answer one event; a run is dispatched again under other rules |
| Event stream and replay (`native-agent-api.ts`, `operator-client.ts`) | a cursor per poll, the replay the client shows | load, connect, poll, merge, resume | concurrent writers number events; polls overlap; streams break |
| Device channel (`websocket-device-channel.ts`, `cloud-device-websocket-route.ts`) | connection per device, pending tool calls with timers | hello, heartbeat, result, send, time out, close | reconnects overlap the old socket's close; late, lost and repeated answers |
| Desktop end (`local-agent-outbound-client.ts`, `local-agent-receiver.ts`) | one socket, calls in progress, approvals shown to the user | connect, execute, answer | answers after the gateway gave up |
| Routing, binding, selection (`cloud-routing-store.ts`, `cloud-session-binding.ts`, `cloud-workspace-selection-service.ts`, `gateway-mcp-tool-executor.ts` and their Postgres forms) | devices, catalogs, workspace routes, tool call routes, bindings, idempotency records | pair, list, connect, resolve, execute, complete | checks that are stale when used; read, then upsert |
| Device codes (`cloud-device-code-auth.ts`) | authorization records, tokens | create, approve, deny, poll, open a socket | read, change, write back whole; two clocks |
| Automation ingress (`automation-api.ts`, `github-webhook-api.ts`, `postgres-automation-store.ts`) | sources, events, runs, idempotency keys | trigger, webhook, edits of sources | redelivery, a crash between event and run |
| MCP sessions and workspaces (`server.ts`, `workspaces.ts`, `workspace-store.ts`, `git-worktrees.ts`) | transports, registries in memory over session rows, directories | initialize, open, use, clean up, close | memory, row and cutoff may disagree on who knows a workspace |
| Review checkpoints (`review-checkpoints.ts`) | the checkpoint of a workspace, two git refs | initialize, review | reviews overlap each other, edits and the initialization |
| OAuth provider (`oauth-provider.ts`, `oauth-store.ts`) | clients, codes, access and refresh tokens | register, authorize, exchange, refresh, revoke, sweep | two servers spend one token; long chains of refreshes |
| Database migrations (`db/*.ts`) | the schema and its ledger | migrate, ask the status, serve | two processes migrate at once; builds differ |

The rest (configuration, CLI, packaging, logging, route wiring) keeps no state
that interleaves and is not modelled.  `PROJECT.json` gives the reason per
component.

The components meet in tables and over sockets: ingress queues
`automation_runs`; dispatchers claim them, operators act on the `agent_runs`
they become; the stream and the replay read what both append.  A cancel does not
reach the dispatcher, and a dispatcher never looks at the status again once it
has started.  Device codes make the tokens sockets open with, sockets make the
connections the executor sends over, bindings and routes say to which.

### What must be right

* Store and dispatch: an automation run is executed by one native run; finished
  is finished; the linked automation run never claims an end that has not come,
  and shows the right one in the end; the log accounts for the row; no process
  without the approval the policy wanted; a run left alone does not stay running.
* Operator commands: a retry follows an end; equivalent dispatches share one
  approval; a cancelled run stays cancelled.
* Process manager and read loop: output reaches the log in order and up to the
  limit; what is lost is lost to a limit; a process's end decides the run's, and
  once.
* Hooks and policy: a process starts only if no rule refused and what was asked
  is approved for this very request; the order of rules does not matter to the
  merge; what the two records of a hook's answer say agrees; no profile gives
  more than the run's and the workflow's both do.
* Event stream: a client's view has no gap, whoever appends and wherever streams
  break, while the polls of one stream do not overlap, and every event arrives.
* Device channel and desktop: every tool call is answered once, a result comes
  from a device that ran it, and late results reach nobody; a live socket keeps
  its registration; presence follows the sockets.
* Routing and binding: a route leads to a device its user paired for that
  session; a call is sent while that device is up, and runs in the directory that
  was connected; an idempotency key has one selection; a binding stands until its
  user binds again.
* Device codes: a token follows an approval, of its user and for its device; a
  decision is not lost.
* Ingress: one event and one run per delivery key, whatever is redelivered; an
  answer says what is stored; an accepted event gets its run.
* OAuth: one pair per code and per refresh token; scopes never grow.
* Workspaces: a workspace is used by its owner, in its session's reach, and in
  the directory it was opened on.
* Reviews: what one review shows and the next begins with leaves no edit out.
* Migrations: the ledger is the schema; a report of readiness stays true.

## Modules

| Module | What it is |
|---|---|
| `NativeAgentStore` | the two tables, one operator per SQL statement |
| `NativeAgentRuntime` | dispatchers, operator commands and the clock over those tables |
| `RunLifecycle` | abstract specification: what whoever queues work may rely on |
| `NativeProcess` | one child process, its manager, and the loop that reads it |
| `CommandPolicy` | profiles and the decision on a command, as operators |
| `HookedDispatch` | the dispatches of one run around its hooks, step by step |
| `EventStream` | the numbered log of a run, the stream route, the client that merges it |
| `DeviceChannel` | both ends of the device sockets, pending tool calls, and the device's status in the two stores |
| `ToolCalls` | abstract specification: what a caller of `sendToolCall` may rely on |
| `GatewayRouting` | session binding, selection and execution of tool calls over an abstract channel (`ToolCalls`) |
| `DeviceAuthorization` | device code login and the tokens it makes |
| `AutomationIngress` | triggers and webhooks, their sources, events and runs |
| `IdempotentIngress` | abstract specification: what a sender may rely on |
| `OAuthTokens` | clients, codes and token pairs of the provider, at several servers |
| `WorkspaceSessions` | MCP sessions, their workspaces in memory, in the store and on disk |
| `ReviewCheckpoints` | the review of one workspace, git command by git command |
| `SchemaMigrations` | processes that migrate, open or serve one database |
| `MC...` | identities and instances for TLC.  `MCOutput` extends `NativeProcess`, `HookedDispatch`, `SchemaMigrations`, `EventStream` and `ReviewCheckpoints` and puts them side by side, `MCAccess` does so with `OAuthTokens`, `DeviceAuthorization` and `WorkspaceSessions`: a behavior is one of one part, chosen in `Init`; the parts share no variable |
| `..._proofs` | theorems and their proofs about `NativeAgentRuntime`, `NativeProcess`, `DeviceChannel`, `GatewayRouting`, `AutomationIngress`, `HookedDispatch` (with `CommandPolicy`) |
| `Access_proofs` | the same about `OAuthTokens`, `WorkspaceSessions`, `DeviceAuthorization` |
| `Records_proofs` | the same about `SchemaMigrations`, `ReviewCheckpoints`, `EventStream` |

`NativeProcess` and `HookedDispatch` refine what `NativeAgentRuntime` leaves open:
there a process ends in any way, and hooks and policy give any verdict; here,
how.  `GatewayRouting` uses `ToolCalls`, which `DeviceChannel` is shown to
implement, so the executor is checked against every channel that does.
`AutomationIngress` makes the queued rows `NativeAgentRuntime` begins with.

Everywhere, one action is what a caller does up to and including its next SQL
statement, file access, git command or message: callers interleave where the
code awaits something of the outside, and nowhere else.

### From code to model: runs

A *dispatcher* is one call of `dispatchNativeAgentOnce` or
`dispatchNativeAgentRunOnce`; `pc[d]` is the await it is at and `job[d]` its
local variables.  When the call returns its slot is used again.  An *operator*
is one API request or CLI command in the same sense (`opPc`, `command`).  One
action is what a caller does up to and including its next SQL statement, so
callers interleave where the code awaits and nowhere else.

| Code | Actions |
|---|---|
| `claimAutomationRun` + `dispatchNativeAgentOnce` | `DispatchOnce` |
| `dispatchNativeAgentRunOnce`, API `resume` | `DispatchRun` |
| first and second statement of `setAgentRunStatus` | `SetStatus` (in `MarkRunning`, `WaitForApproval`, `AcceptApproval`), `Mirror` |
| workspace root, hooks, policy | `Refuse`, `RejectRoot`, `Proceed` |
| `resolveApprovalGate` | `PermissionHook`, `EnsureApproval`, `RequestApproval`, `RecheckExpired`, `ExpireApproval` |
| process and read loop | `StartProcess`, `FinishTool` |
| final events, first and second statement of `finishAgentRun` | `LogSuccess`, `LogFailure`, `FinishRun`, `Mirror` |
| an exception, or the death of the process, at any await | `DispatchThrows`, `CommandThrows` |
| cancel | `RequestCancel`, `CancelRun`, `MirrorCancel` |
| retry | `CheckRetry`, `CreateRetry` |
| approvals from an operator | `OperatorRequestsApproval`, `CheckPending`, `ResolveApproval` |
| time reaching `expiresAt` | `ApprovalOverdue` |

Abstractions:

* What workspace, hooks and policy decide is a choice among `Verdicts`.  A
  fingerprint varies only with the workspace root, so a root stands for it.
* `agent_run_events` appears twice: `log` is the set of end-announcing events of
  a run; `approvals` is what `approvalsFromEvents` computes from the log, updated
  as the events are appended.  `decisions` remembers every decision a request
  got.  The order of requests is the order of the log; the code sorts by a
  timestamp taken on the same insert.
* Events nobody reads to decide anything, hook records and `agent_tool_calls`
  rows are left out, and with them the await points at which only those are
  written.
* The `cancelled` branch of the read loop is unreachable: a runtime owns its
  process manager and nothing calls its `cancel` while the loop runs.
* `Serial` (a constant) starts a command only when none is in progress.  It
  separates what the code does by itself from what overlap does to it.
* Bounds: `AgentRuns` is the set of ids (an insert is begun only when `IdLeft`
  has one for it); `MaxApprovals` bounds the approvals operators add; a
  dispatch adds at most one per root unless dispatches overlap.

### From code to model: processes

`child` is the process as the operating system has it, `status`, `exitCode` and
`failure` what `NativeProcessManager` says of it, `chunks`, `outputBytes` and
`truncated` its buffer, `timer` its timeout.  `pc`, `afterSeq`, `batch` and `seen`
are the reader's local variables, `runLog` the `run.output_delta` events it has
appended, `outcome` the status it finishes the run with.

| Code | Actions |
|---|---|
| `spawn`, "error", "close" | `Spawn`, `Close` (an "error" of a signal that cannot be sent is in `StopAs`) |
| `pushOutput` | `Output` |
| timeout, `cancel`, `close` | `TimeoutFires`, `Cancel`, `CloseManager` |
| `read` with `chunksAfter` and `applyByteLimit` | `Read` |
| the body of the loop in `executeNativeAgentRun` | `AppendEvent`, `AppendThrows`, and `Continue` for its condition |

Sizes are all that is left of output.  A read that waits may return at any time,
so `waiters` is left out; so are writes to stdin.  Three things the model shows
that a reader may not expect: a child that died of a signal has no exit code, and
that counts as 0; after the truncation notice, pieces small enough are still
kept; and a child that ignores its signal is left running when the run ends.

### From code to model: the device channel

`gateway`, `hello`, `beat` and `closed` are, per socket, the gateway's end: the
socket itself and where the handlers of its hello, its heartbeat and its close
event are.  `device` is the desktop's end.  `connections`, `pending` and `timers`
are the maps of `WebSocketDeviceChannel`; `routing` and `presence` the device's
status in `CloudRoutingStore` and its record in `CloudDeviceConnectionStore`.

| Code | Actions |
|---|---|
| `LocalAgentOutboundClient` `start`, heartbeat timer, `stop` or loss | `Connect`, `SendHeartbeat`, `DeviceLeaves` |
| hello handler, up to and after each await | `HandleHello`, `Registered`, `Recorded`, `HelloFails` |
| `handleHeartbeat` | `HandleHeartbeat`, `HeartbeatStatus`, `HeartbeatRecorded`, `HeartbeatFails` |
| "close" handler | `GatewayCloses` (with `UnregisterConnection`), `CloseStatus`, `CloseRecorded` |
| `sendToolCall`, its timer | `SendToolCall`, `ToolCallTimesOut` |
| receiver and `sendJson` on the desktop | `TakeToolCall`, `FinishToolCall` |
| `tool.result` in `handleDeviceMessage` | `HandleResult` |
| `markDeviceOffline` | `MarkDeviceOffline` |

Every message has an asynchronous handler of its own, so the handlers of one
socket interleave, and run on after it has closed.  With the in-memory stores an
await is a microtask and nothing comes between; with the Postgres stores it is a
round trip, and the model allows for that.  The flags separate what goes wrong
from why: `Overlap` lets a device connect before the gateway is done with its
last socket, `Prompt` makes a close wait for its socket's handlers, `MayFail`
lets statements fail, `MayEvict` enables `markDeviceOffline`.

Left out: refused upgrades and malformed messages, which change nothing;
catalogs; capabilities and times; `tool.cancel`, which desktops ignore; `close()`
of the channel at shutdown.  Of a socket's heartbeats one is modelled, and
approval prompts and tools on the desktop are one step with an arbitrary delay.

### From code to model: hooks and policy

`CommandPolicy` has the workflow packs, profiles and `evaluateNativeCommandPolicy`
as operators; a command is one name of each kind the policy tells apart.
`HookedDispatch` has the dispatches of one run: `at` is the event whose hook runs,
`hook` how far it is in its rules, `log` the `hook.decision` events, `rows` the
table of tool calls' hooks, `approvals` by the request they were given for.

| Code | Actions |
|---|---|
| a dispatch, up to its Start hook | `Dispatch` |
| `NativeRuntimeHookManager.run`: handler, matching rules, merge | `Enter`, `Observe`, `Continue` |
| `recordRuntimeHook`: event, then row | `LogDecision`, `RecordRow` |
| the code after each hook | `AfterStart`, `EnterStep`, `AfterStep`, `AfterPreToolUse`, `AfterPermission`, `AfterProcess` |
| process, approval by an operator, end | `ProcessEnds`, `Decide`, `Pause`, `Finish` |
| an exception or a crash | `Crash` |

Worth knowing: a dispatch always asks about its own node, as internal, so the
policy alone never answers "ask"; the packs cap the profile, so `trusted_local` is
never effective; and `security-review` is `read_only`, so its dispatch always
fails.  The model keeps the step ids of two workflows apart, where the code
would merge them in the replay of a run dispatched under both.

### From code to model: the event stream

| Code | Actions |
|---|---|
| `appendRunEvent`, in one statement that may hit the unique key | `BeginAppend`, `InsertEvent` |
| the row that ends the run | `FinishRun` |
| replay route and client load | `Load`, `ReadRun`, `Loaded` |
| stream route: snapshot, `setInterval`, pages, end | `Connect`, `SendSnapshot`, `StartPoll`, `ReadPage`, `ReadStatus`, `SendPage`, `Complete`, `PollFails` |
| broken connection, `mergeReplayStreamMessage` | `Drop`, `Receive` |

A message carries numbers only.  The client that resumes is the App's, which
reconnects from what it shows.

### From code to model: routing

`bindings`, `routes`, `toolCalls`, `catalog`, `devices` and the idempotency records
are the tables; `handler[h]` is one tool of the MCP client with its local
variables.  `devices` are also changed from outside.

| Code | Actions |
|---|---|
| arrival of a request | `Receive` |
| `resolveDevice`, `getDevice`, `listDevices` | `ReadBinding`, `TouchBinding`, `ReadDevice`, `ListOnline` |
| `bindDevice` in memory, in Postgres | `PairInMemory`; `CheckPairing`, `UpsertPairing` (after `PairDevice`) |
| `connectWorkspace` and its idempotency | `ReadCatalog`, `FindIdempotency`, `RecordInMemory`; `FindRecorded`, `InsertRecord` |
| `bindWorkspaceRoute` in memory, in Postgres | `RouteInMemory`; `CheckRouteDevice`, `CheckRoute`, `UpsertRoute` |
| `resolveWorkspaceRoute`, `recordToolCallRoute` | `ResolveInMemory`; `ReadRoute`, `ReadRouteDevice`, `TouchAndRecord` |
| send, the desktop's `findWorkspace`, the answer, `completeToolCall` | `SendToolCall`, `DesktopRuns`, `ChannelAnswers`, `CompleteToolCall` |
| pairing state, approval, catalog messages | `SetDeviceStatus`, `ChangeApproved`, `RecordCatalogInMemory`; `DeleteCatalog`, `InsertCatalogEntry` |

Owners share no row, so there is one.  `BindsOverlap = FALSE` keeps two handlers
from being between the check of one row and its upsert: see "Disagreements".

### From code to model: access

`DeviceAuthorization`: `Begin`, `Read`, `Write` are a handler's clock, its read of the
record and its write of it, with `InsertConflicts` and `WriteFails`; what is written
is `PollVerdict` or `ApproveVerdict`; `OpenSocket` is `verify` at the upgrade.  With the
memory store a request is one piece.

`OAuthTokens`: `RegisterClient`, `Authorize`, `Challenge`, `ExchangeAuthorizationCode`,
`ReadRefreshToken`, `SaveTokenPair`, `RevokeToken` are the provider's methods, the
refresh in its two parts; `Restart` loses codes (and, with `memory`, tokens) and
sweeps the file; `Tick` is time.  OIDC mode verifies tokens of somebody else and
keeps nothing.

`WorkspaceSessions`: `Initialize` and `Close` are MCP sessions; `AskOpen`, `AddWorktree`,
`CreateRow`, `SaveFiles` the statements of `open_workspace`, any of which may fail
(`StatementFails`); `Use` is a tool's `getWorkspace`, from memory or restored, whose
touch of the row is not awaited (`TouchArrives`); `BeginCleanup` and `DeleteExpired` are
the clean-up by age; `ServerRestart` loses sessions and memory, `SessionsTick` is time.

### From code to model: ingress, reviews, migrations

`AutomationIngress`: `Receive` is a delivery up to its first await;
`CheckTriggerSource`, `CheckWebhookSource` its source and token; `FindExistingEvent`,
`InsertEvent`, `FindDuplicateEvent` are `recordEvent`; `FindRun`, `CreateRun`, `FindCreatedRun`
are `getOrCreateRunForEvent`; `StatementFails` and `Restart` are faults; `CreateSource`,
`RotateSourceToken`, `DisableSource`, `ChangePolicy` an operator's edits.

`ReviewCheckpoints`: `CheckEligibility`, `TakeSnapshot`, `SetOpenRef`, `SetBaselineRef` are
the initialization, `Ask`, `Initialized`, `ReadBaseline`, `ReadCurrent`, `MarkReviewed`,
`AnswerReview` a review, `OpeningFails` and `ReviewFails` a git command that fails, `Edit` anything
that writes the tree.

`SchemaMigrations`: `Begin`, `EnsureTable`, `ReadApplied`, `SkipApplied`, `RunSql`, `Insert`,
`Commit` are a migration's statements, with `LoseRace` for the primary key and
`Fail` for a throw or a death, both of which roll back; `CheckTable` and `ReadStatus`
are the two statements of the status, `AskAgain` its repetition.

## Runs

| Run | Instance | Shows |
|---|---|---|
| `lifecycle` | 1 automation run, 2 native runs, 2 dispatchers, 1 operator, crashes, no policy that asks | `ClaimedOnce`, `AutomationEndsAfterRun`, `StatusIsAccountedFor`; `RunLifecycle` is implemented |
| `serial` | 1 run, 2 roots, 1 dispatcher, 1 operator, 3 approvals of his own, no overlap, every verdict | the automation run mirrors the native run, one prompt per fingerprint, an approval counts for its own fingerprint only |
| `live` | 1 run, 1 root, 2 dispatchers, 1 operator, the clock, no exceptions, `FairSpec` | no run stays running |
| `output` | five parts, below; `OutputSpec` | what is lost of the output, success, the stream, hooks, reviews, migrations; the reader ends and events arrive |
| `channel` | 1 device, 2 overlapping sockets, 1 heartbeat, 1 call, failing statements, evictions, `FairSpec` | `ToolCalls` is implemented, every call is answered, an offline record is true |
| `reconnect` | 2 devices, 3 sockets, heartbeats, 1 call, evictions, no overlap, prompt closes, no failures | live sockets are registered, gone devices are offline, calls fail for their own socket only |
| `gateway` | 3 requests out of 7 plays, 2 sessions, 2 devices, 2 catalog entries, 2 made-up ids (one of them a workspace's reference), 1 key, both stores, 1 change of a device | bindings stand, routes follow pairings, one selection per key, calls are sent while the device is up and run where connected |
| `ingress` | 7 messages of which 2 are sent together, 2 deliveries of each, 2 at a time, 1 fault, 1 edit, `FairSpec` | answers are true, `IdempotentIngress` is implemented, accepted events get runs |
| `access` | three parts, below | tokens, refreshes, scopes, workspaces |
| `race_cancel`, `race_poll`, `stream_resume` | the smallest instances that show it | a property fails: see "Disagreements" |

The parts of `output`: a process with a limit of 7 bytes, reads of 3, pieces of 1
and 3, a notice of 2 and 5 pieces; a log of 3 events with 2 writers, pages of 2,
1 load, 1 failure and both cursors; 1 edit, 2 reviews and 1 failure; every list
of at most two of 7 rules over two dispatches, and changes of rules and workflow
between them, with 1 crash; 3 processes of which two migrate and one serves, or
all open SQLite, with 4 builds (a newer one, an edited one, one with a number in
between) and 1 failure.  Those of `access`: 7 scenarios of 3 requests with both
stores, the code's life 3, the token's 1, the interval 2, time to 4; 2 servers,
2 handlers, 1 code, 2 scopes, 3 pairs, time to 2; 2 owners, 2 sessions, 2
workspaces, 2 paths, 2 calls, both stores, time to 2.  Symmetry is used only where
no property is temporal.

Deadlock is not checked where the model stops of itself: in `output`, `access`,
`race_poll` and `stream_resume` requests, reviews, processes and the log come to
their bound; in `channel` and `reconnect` a socket and a call happen once; in
`gateway` and `ingress` requests and deliveries do.  It is checked in `lifecycle`,
`serial`, `live` and `race_cancel`, whose slots are reused.

Why the bounds are enough: a race in this code is between two writers of one
row, or between one reader and one writer of one log; two callers of each kind
and two rows give every such pair, and slots are reused where calls may follow
one another.  A third dispatcher, run or session adds calls of kinds that are
already there.  Where three matter there are three: requests of a login (two
decisions and a poll), handlers of the gateway (a pairing, a selection and a
use), pairs of a line (a token, its successor, and the next), processes at a
database (two that migrate, one that serves), sockets of `reconnect` (a
bystander).  For a process, the limit admits a notice after two full pieces but not
after seven small ones, so every branch of `pushOutput` is met, and a read returns
one chunk, several, or one that exceeds its limit.  Lives of tokens and codes end,
and are refused, within the time given.  The proofs below remove the bounds for the
properties they cover.

Fairness, and why the code justifies it:

* `FairSpec` of `NativeAgentRuntime`: weak fairness of `Continue(d)`.  A call that has
  started keeps being run by the event loop, its SQL statements answer and its
  child ends (the hard timeout ends every child).  Nothing is assumed of
  operators, of new dispatches or of the clock.  `live` forbids exceptions,
  crashes and rejected roots because each of them does leave a run running for
  ever: the code has no lease, heartbeat or recovery for it.
* `OutputSpec`: weak fairness of `Spawn`, the timeout, reads and appends of
  `NativeProcess`, which the event loop runs when they are due, and of nothing the
  child does; and of a poll of the stream (an interval timer) and of the client's
  reads.
* `FairSpec` of `DeviceChannel`: the tool call timers only.  No answer of a device
  and no close event is assumed.
* `FairSpec` of `AutomationIngress`: handlers go on, and a sender redelivers what got
  no answer or a failure, as GitHub's users and the documented client retries do;
  what is left without a run is what such a sender was refused or gave up.

### Disagreements between documents and code

* `race_cancel`: `finishAgentRun` has no condition on the status, so the
  dispatcher overwrites `cancelled` when its process ends
  (`docs/native-agent-operator-guide.md:318,326`).
* `race_poll`: with the Postgres store, a poll writes back the whole record it
  read, and takes back an approval made meanwhile, of which the page has said
  that the desktop will get its token (`cloud-device-code-api.ts:304`).
* `stream_resume`: reconnecting with `afterSeq = nextSeq - 1`, as
  `docs/local-operator-daemon.md:218` says, replaces the replay shown by a snapshot
  without the events before.

Others are kept out of the passing runs by a named constant, and each is found by
TLC when the constant is given its other value:

* `Serial = FALSE`: two writers of one run interleave their pairs of statements,
  and the automation run keeps a status that is not the native run's
  (`docs/native-agent-runtime.md:76-78`); two overlapping dispatches both miss and
  both request an approval (`docs/native-agent-runtime.md:229-231`).
* `Overlap = TRUE`: the close handler unregisters whatever connection its device
  has, so the late close of an old socket removes the new one and answers
  `AGENT_DISCONNECTED` for a call running on it
  (`docs/xautojs-cloud-mcp-gateway.md:460`).
* `Prompt = FALSE`: a socket that closes while its hello waits has no connection
  id yet; the close handler returns, then the hello registers the closed socket
  and writes the device online (`docs/xautojs-cloud-mcp-gateway.md:757`).
* `BindsOverlap = TRUE`: with Postgres, two pairings of one session, or two
  selections of one workspace id, both find nothing and the second upsert takes
  over what the first was told it has
  (`docs/xautojs-cloud-mcp-gateway.md:752,753,453,208`).

Found while reading, and too small or too wordy for a run: a rule that says
`block` with `continue: true` does not stop the pipeline
(`docs/native-agent-runtime.md:416` says it does), and a later rule's answer hides it
in the replay; `block` of a PostToolUse or Stop rule has no effect; Stop hooks do
not run for failed runs; the stream of a run that was finished before it was
opened may send heartbeats for ever, since the status is read only after a new
event; a stream that ended with `error` is not resumed by the App; a review that
overlaps another moves the checkpoint back; a workspace id made up by the caller,
or one that `open_workspace` drew, is not known to the desktop's executor.

## Proofs

`NativeAgentRuntime_proofs` proves for every set of automation runs, runs,
dispatchers, operators and roots, from `StoreAssumption` and
`RuntimeAssumption` alone:

| Theorem | States |
|---|---|
| `ConsistentAlways` | `Spec => []Consistent` |
| `TypeCorrect` | `Spec => []TypeOK` |
| `ClaimsAreUnique` | `Spec => []ClaimedOnce` |
| `EndsAreInOrder` | `Spec => []AutomationEndsAfterRun` |
| `RetriesAreSound` | `Spec => []RetriesFollowFinishedRuns` |
| `FinishedStaysFinished` | `Spec => FinishedForGood` |
| `RuntimeImplementsLifecycle` | `Spec => ImplementsLifecycle` |
| `StatusesAreAnnounced` | `Spec => []StatusIsAccountedFor` |
| `ProcessesAreApproved` | `Spec => []ProcessIsApproved` |
| `DispatchesShareOnePrompt` | with `Serial`: `Spec => []OnePromptPerFingerprint` |
| `AutomationShowsTheEnd` | with `Serial` and without `MayThrow`: `Spec => []AutomationMirrorsRun` |

`AutomationEndsAfterRun` is not inductive: the step that writes the automation
run does not look at the native run.  `Consistent` adds what the caller knows:
at `mirror` the run is linked and, if the status to be written is final, over
(`DispatchKnows`, `CommandKnows`); a retry in flight has a finished source; and
the tables agree (`RowsAgree`: an id without a row is blank, at most one run is
linked to an automation run, one exactly when it has left the queue).  All of it
survives other callers' steps because rows only gain (`RowsGrow`): they keep
their link, and what exists or is over stays so.

The file follows that argument.  Lemmas about one SQL statement each
(`StatusWritten`, `AutomationWritten`, `RunClaimed`, `RetryCreated`) give the
new tables and `RowsGrow`; lemmas about approvals give that their lists grow;
`DispatchAssembly` and `OperatorAssembly` reduce a step to what its own caller
knows afterwards; one lemma per action supplies that; `NextConsistent` collects
them.  For pairs of states, `NextWrites` reduces every step to one of five things
done to the tables, and each of those is a step of `RunLifecycle` or a stutter.

For `StatusesAreAnnounced`, `Accounted` adds that a caller about to write a final
status has announced it (`DispatchAccounts`, `CommandAccounts`), that logs only grow,
and that a row changes only to a status announced (`RowsAnnounced`).  For
`ProcessesAreApproved`, `Approved` follows the approval from the decision to the
process: a dispatch on its way from one to the other (`GoesOn`) that had to ask has
an approved request of its fingerprint, one about to expire a request holds one of
its own (`DispatchApproved`), and whatever shows approved has that decision on
record (`ApprovalsDecided`), so a later decision that overwrites the status does not
take the approval back.

The last two hold only of commands that do not overlap, and the findings show
why: two dispatches both find no request and both add one; and a call cut short
between the two statements of `finishAgentRun` leaves the automation run as it was.
`InTurn` says that one caller at most is at work.  For the prompts, `AsksOnce` adds
that the caller about to insert a request has found none of its fingerprint.  For
the mirror, `Mirrored` says that an automation run is behind its native run only
while the caller who finished that is at the statement that brings it up to date
(`Writing`), and which status that statement will write (`EndsMirrored`).

`NativeProcess_proofs`, from `ProcessAssumption`, for all sizes and limits and any
number of pieces:

| Theorem | States |
|---|---|
| `CoherentAlways` | `Spec => []Coherent` |
| `ProcessTypes`, `LogIsInOrder`, `SuccessesAreEarned` | `Spec => []` of `TypeOK`, `LogFollowsOutput`, `SuccessIsEarned` |
| `EndsStand` | `Spec => EndStands` |
| `OutputIsAccountedFor` | `Spec => []OnlyTheLimitLosesOutput` |

`Coherent` adds to the log's order what the reader holds: its batch continues the
log (`ReaderIsInStep`); and to the outcome, that an exit once seen is still the
state of the process (`SeenIsStillTrue`), which needs how each status is come by
(`EndIsSettled`).  `ReadContinues` shows that `applyByteLimit` leaves no gap and
returns a chunk whenever there is one.

`OutputIsAccountedFor` is about sums.  `Bytes(first, last)` is the value of a recursive
function, and that the recursion has one is proved here: a first number for which
no table of sums exists has a predecessor for which one does, and one more entry
extends it (`TotalsExist`; any two tables agree, `TotalsAgree`; hence `BytesAre`).
`Accountable` adds to `Coherent` that the buffer is within its limit and its count is
the sum of its chunks (`ChunksAreOutput`), that no piece is missing before the notice
(`WholeUntilNotice`), and that the last read either took all there was or stopped
because the next chunk was too much (`LastReadIsFull`).

`DeviceChannel_proofs`, from `ChannelAssumption`, for any number of devices,
sockets and calls and every value of the flags:

| Theorem | States |
|---|---|
| `CallsAlwaysTracked` | `Spec => []CallsAreTracked` |
| `ChannelTypes`, `PendingIsExact` | `Spec => []` of `TypeOK`, `PendingIsUnanswered` |
| `ChannelImplementsToolCalls` | `Spec => ImplementsToolCalls` |
| `OfflineIsNeverAMistake` | `Spec => []OfflineIsReal` |
| `DisconnectionsAreReal` | without `Overlap`: `Spec => []DisconnectIsReal` |
| `RegistryFollowsSockets` | without `Overlap` and `MayFail`, with `Prompt`: `Spec => []RegistryIsCurrent` |

`CallsAreTracked` adds to the table's exactness that a message is of a call that
was made and a result of one that ran (`MessagesAreReal`).  One lemma per action
says what it does to the calls; from these follow both the invariant and, with
it, that each step is a step of `ToolCalls` or a stutter: an entry of the table
has no answer yet, so whatever settles it answers for the first time.

For the sockets, `SocketsAreReal` says what a handler can know of its socket: that
it has been opened, that a connection id it holds is its own, that the record of a
device names a socket of that device.  That is enough for `OfflineIsReal`, in
whatever order handlers run and fail.  The other two need what the flags exclude:
`InTurn` says that a device has one socket at a time that the gateway is not done
with, and `OnlineIsHeld` that a device is registered or online only while a socket of
its own, or a handler still to come, holds it so.  What happens without
these hypotheses is told under "Disagreements".

`GatewayRouting_proofs`, from `RoutingAssumption` and `RequestAssumption` (requests are as
the input schemas of the tools admit them), for any number of handlers, sessions,
devices and requests.  Where two calls may be between a check of one row and its
upsert, as with Postgres, both `BindingsStand` and `RoutesFollowPairing` fail, so the
theorems assume `Serialized`: binds do not overlap, or the stores are in memory.

| Theorem | States |
|---|---|
| `RoutesLeadToPairedDevices` | `Spec => [](TypeOK /\ RoutesFollowPairing)` |
| `WhatIsBoundStands` | `Spec => BindingsStand` |
| `KeysSelectOneWorkspace` | `Spec => []OneSelectionPerKey` |
| `CallsAreSentToOnlineDevices` | `Spec => []SentWhileUp` |
| `ToolsRunWhereConnected` | with `IdsAreOwn`: `Spec => []RunsWhereConnected` |

`Settled` is inductive: at each step a handler knows what its reads have told it (the
pairing, the route, the record of its key, that the device was online), and what
it knows stays so because what is bound stands.  `IdsAreOwn` says that no caller
makes up a workspace id that is another workspace's reference.  The code accepts
such an id (`cloud-workspace-selection-service.ts:53`), the desktop reads it as the
reference it equals (`desktop-cloud-agent-runner.ts:209`), and the tool then runs in
that workspace: without `IdsAreOwn` the property is false, and TLC finds the case.
Both workspaces are of the caller's own device, so it is the caller who misleads
himself.

`AutomationIngress_proofs`, from `IngressAssumption` and `RowAssumption`, for any sets of
messages, sources and owners and any number of deliveries, faults and edits:

| Theorem | States |
|---|---|
| `ConsistentAlways` | `Spec => []Consistent` |
| `SendersAreToldTheTruth` | `Spec => []AnswersAreTrue` |
| `HandlersImplementIngress` | `Spec => ImplementsIngress` |

`Consistent` says that no two events of a source have one key or one sender's id
(`EventsAreUnique`, what the unique indexes give), that a run is of an accepted
event, and of each handler that the event it has found or made is one of its own
delivery's content, or, where it answers `conflict`, one that clashes with it
(`HandlerKnows`, `AnswerHolds`).  All of it survives other handlers' steps because
rows are only added.

`HookedDispatch_proofs`, for every command:

| Theorem | States |
|---|---|
| `NoProfileIsExceeded` | the decision under the effective profile is at least as strict as under the run's and under the workflow's |
| `NoWayAroundTheRoot` | nothing runs outside its root or in a read-only profile; a command of high risk runs unasked only as the program's own node |

and, from `HooksAssumption` (a play is a sequence of dispatches, each with a list of
rules that decide one of the five things), for any rules, any number of
dispatches and of crashes:

| Theorem | States |
|---|---|
| `HooksTypeCorrect` | `HooksSpec => []HooksTypeOK` |
| `NothingStartsRefused` | `HooksSpec => []ProcessWasAllowed` |
| `RulesNeedNoOrder` | `HooksSpec => []RuleOrderIsIrrelevant` |
| `RecordsAlwaysAgree` | `HooksSpec => []RecordsAgree` |

`HookStands` says that what a hook has merged is what the observers before its
cursor answer as a set (`MergeKeeps`: merging loses no refusal and no question, so
order cannot matter), and that a hook that goes on has met no answer that stops
it.  `Heard` carries every answer of this dispatch to where it counts: a refusal is
in the merged result or the answer at hand until the run ends, a question in the
merged result of `PreToolUse` and then in an approved request of this workflow.
`StepsStand` says that the last answer recorded for a step is what became of it; that
takes `PlainRefusalsStop`, an answer that refuses stops its hook unless its rule says
otherwise, which is why `RecordsAgree` leaves out runs with such rules.

`Records_proofs`, first part: for any number of processes, builds and failures, from
`BuildsOver(Marks)`: a build numbers its migrations uniquely, `Absent` is no mark and
no report, and only Postgres schemas are served:

| Theorem | States |
|---|---|
| `LedgerTellsTheTruth`, `ReportsHoldForGood` | `SchemaSpec => []` of `LedgerIsTheSchema`, `ReportsHold` |
| `NoRowIsLost` | `SchemaSpec => LedgerStands` |

The invariant adds what a transaction knows: it runs on the ledger it has read
plus its own rows, every migration before the next one is either found or done,
and what it did is not in the ledger unless it is to lose its race.  A commit is
therefore all of a build or nothing.

For the reviews, from `ReviewAssumption` (`NoRef` is no tree), for any edits, any
number of reviews and failing git commands:

| Theorem | States |
|---|---|
| `ReviewsTypeCorrect` | `ReviewSpec => []ReviewTypeOK` |
| `EveryEditIsShown` | `ReviewSpec => []AnswersAccountForAll` |

The invariant says of each edit that the baseline leaves behind where it is
accounted for (`IsCovered`): in the opening checkpoint, in an answer given, or in
one of a review that has moved the baseline and is about to answer.  The last case
is what lets reviews overlap: a review that begins between the other's
`update-ref` and its answer compares with a baseline nobody has been shown yet.
`OpeningIsOnce` gives that the opening checkpoint, once set, does not change.

For the stream, from `StreamAssumption` (counts, and room for one event), for any
number of writers, events, loads and losses:

| Theorem | States |
|---|---|
| `StreamTypeCorrect` | `StreamSpec => []StreamTypeOK`, polls overlapping or not |
| `ClientsSeeTheLogWhole` | with `OnePoll`: `StreamSpec => []ViewIsGapless` |

`OnePoll` says that a stream has one poll at a time, that is, no poll outlasts
the interval.  Nothing in the code ensures it: `setInterval` does not wait.
With two polls in `Polls`, one writer and three events, TLC finds a poll that has read
event 1 and waits for the run's status while the next one reads event 2 and sends it
first, so that the client shows 2 without 1 until the first is done: the hypothesis
stays in the theorem.  `StreamInv` has what holds anyway: the log is `1 .. n`, because a writer asks for at most the number
after the last (`WritersAsked`), and what a poll has read is an interval.
`FlowInv` follows the events from the log to the view: for a live or ended stream
there are numbers `sent` and `d` (`Flows`) with the view ending at `d`, the wire
carrying `d + 1 .. sent` one event a message (the snapshot first, if it has not
arrived), and the poll under way holding `sent + 1 .. cursor`.  `StatusIsFinal`
adds that a status read as terminal is still so and that no event of the final
call is behind it, which is what the end of a stream needs.

`Access_proofs`, first part: for any number of servers, handlers, codes, scopes and
restarts of the provider, from numbers for the lives and bounds (`ConstantsAreNumbers`):

| Theorem | States |
|---|---|
| `TokensAreSpentOnce` | `Spec => []OneLineOfRefreshes` |
| `ScopesNeverGrow` | `Spec => []WithinTheGrant` |

The invariant adds that a code still held has no pair yet and a refresh token
still good no successor, and that what a handler read of a pair is what the pair
is.

For the workspaces, from `SessionsAssumption` (times are numbers, "unused" and
"closed" are no identities), for any number of identities, sessions, calls and
restarts, and either store:

| Theorem | States |
|---|---|
| `SessionsTypeCorrect` | `SessionsSpec => []SessionsTypeOK` |
| `WorkspacesAreUsedWhereOpened` | `SessionsSpec => []UsedWhereOpened` |

`UsedWhereOpened` speaks of the last use alone; `SessionsInv` says what a use can
find.  A session that opened a workspace keeps its owner until it is closed
(`OwnersKeepSessions`); a call that is opening one works for the opener, alone
(`CallsAreOpenings`, `OneCallEach`), on a path that is on disk from the moment it
was added; a row in the store bears the opener's name (`RowsAreOfTheOpeners`), so
that restoring from it lets nobody else in; and while its session lives a workspace
that was answered is in memory (`AnswersAreRemembered`), so that the clean-up of
rows takes nothing away.

For the login, from `LoginAssumption` (times are numbers, `Unset` is none of the
values it stands beside, and a play begins with no decision and fresh UUIDs), for
any codes, users, devices and requests under way at once:

| Theorem | States |
|---|---|
| `LoginTypeCorrect` | `LoginSpec => []LoginTypeOK` |
| `TokensAreApproved` | `LoginSpec => []TokenWasApproved` |
| `DecisionsStandInMemory` | `LoginSpec => []MemoryActsInOrder` |

A handler writes back the whole record it read, so the record is at any time what
some handler saw some time ago.  `LoginInv` therefore says of the records held by
handlers what it says of those stored: one that is approved names the owner and
device of a request that asked for both and has read the record (`Approved`,
`Approver`), in `HandlersHold`, `RowsHold` and `TokensHold` alike.  Who read the
record keeps its ask and its view of it for good, so an approver found once stays
one whatever overwrites the row.  The life of a code and its user code do not
change, which gives the bound on sockets (`SocketsHold`) and `UserCodesDiffer`.
With the store in memory one handler at a time is between its read and its write
(`MemoryIsSerial`), the stored record is the one it read, and `MemoryHolds` follows:
approvals and denials stand, and the record remembers the latest poll
(`PollIsRemembered`), from which the interval is kept.  `race_poll` shows
that the same fails with Postgres.

Model-checked only: `OutputTypeOK` and `AccessTypeOK`, which say of whatever part a
behavior is about what each part's own theorem proves, `OAuthTokens!TypeOK` (it is
part of the proved invariant, `Typed`), and, of `NativeAgentRuntime` and the login, what
the runs of the disagreements refute.  Liveness (`RunningIsLeft`, `ProcessReaderEnds`,
`EventsArrive`, `EveryCallIsAnswered`, `AcceptedEventsGetRuns`) is outside the prover.

## Not modelled

* **Native agent CLI, gateway server and audit, configuration, CLI and operator
  server**: parsing, printing, start-up and route wiring around operations that are
  modelled; the audit log is append-only and nothing reads it to decide.
* **The operator console** (`operator-app.ts`): the run selected is set before its
  replay arrives and rendered after, so a button may act on a run other than the
  one shown; it is rendering, and no doc promises otherwise.
* `agent_tool_calls`, stdin of children, capabilities and times of devices, the
  channel's `close()` at shutdown, malformed messages, OIDC mode, managed worktrees'
  removal (there is none), schemas' columns, pools and the rest of `/readyz`.
* Hazards known and not in `PROJECT.json`, because they share their place with one
  that is: an idempotency record that conflicts after its route was bound
  (`cloud-workspace-selection-service.ts:107`), a catalog replaced by a delete and
  inserts without a transaction (`postgres-cloud-workspace-catalog-store.ts:93`), the
  agent files of a workspace saved one by one, an OAuth server that restarts
  between a saved pair and its answer, a failure after a worktree was added.

## Plan

1. Done: store, dispatch, operator commands, life cycle, process, device channel,
   with proofs; ingress, routing over an abstract channel, device codes, OAuth,
   workspaces, reviews, stream, hooks and policy, migrations.
2. Done: proofs of the safety properties of every component module, from its module's
   named assumptions.
3. Models that would add most: `GatewayRouting` composed with `DeviceChannel`
   itself in place of `ToolCalls`; `HookedDispatch` in place of the free verdicts of
   `NativeAgentRuntime`.
