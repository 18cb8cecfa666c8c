---------------------------- MODULE GatewayRouting ----------------------------
(***************************************************************************)
(* How a tool call finds its desktop: the tools that pair a session with a *)
(* device and connect a workspace                                          *)
(* (src/src/cloud-desktop-tool-service.ts,                                 *)
(* cloud-workspace-selection-service.ts), the executor that routes the     *)
(* file tools (gateway-mcp-tool-executor.ts), the tables of devices,       *)
(* pairings, routes, tool calls, catalogs and idempotency keys, in memory  *)
(* and in Postgres, and the desktop's end, which turns a workspaceId into  *)
(* a local directory (desktop-cloud-agent-runner.ts).                      *)
(*                                                                         *)
(* A handler runs up to an await on a store; the statement takes effect,   *)
(* and the handler goes on, in a later step.  The stores in memory check   *)
(* and write in one step, those in Postgres in two statements.  Everything *)
(* is of one owner: owners share no row.  The channel to the devices is    *)
(* its abstract specification, ToolCalls.  Left out: the times in the      *)
(* rows, and the expiry of pairings and routes, which no code sets.  A     *)
(* statement that fails ends its handler, as does a handler that takes no  *)
(* further step, so only the failure of the one statement whose errors are *)
(* swallowed is a step of its own.                                         *)
(***************************************************************************)
EXTENDS Naturals, FiniteSets

CONSTANTS
    Handlers,
    Sessions, Conversations, Devices,
    Refs,            \* workspaceRefs of the desktops' catalogs
    Given,           \* workspaceIds that callers make up
    Keys,            \* idempotency keys
    Plays,           \* the requests that may be made in one behaviour
    Stores,          \* where the tables may be
    Present,         \* sets of devices that may be online when a behaviour begins
    BindsOverlap,    \* may two handlers be between a check of one row and its upsert?
    MaxChanges,      \* changes of devices
    None

ASSUME RoutingAssumption ==
    /\ MaxChanges \in Nat
    /\ BindsOverlap \in BOOLEAN
    /\ Stores \subseteq {"memory", "postgres"}
    /\ Present \subseteq SUBSET Devices
    /\ None \notin Sessions \cup Conversations \cup Devices \cup Refs \cup Given \cup Keys

VARIABLES
    store,          \* where the tables are
    request,        \* per handler, what it is asked
    handler,        \* per handler, how far it is
    devices,        \* per device, its row in the routing store
    bindings,       \* per session, its pairing
    routes,         \* per workspaceId, its route
    toolCalls,      \* per handler, the record of its tool call
    idempotency,    \* per key, the workspace selection recorded under it
    catalog,        \* per device, the refs in its catalog
    recording,      \* per device, the refs that recordCatalog has yet to insert
    approved,       \* per device, the workspaces of the desktop itself
    asked, ran, answer,    \* the channel
    where,          \* per handler, the local workspace in which its tool ran
    up,             \* per handler, the devices that were online while it ran
    changes

tables == <<devices, bindings, routes, toolCalls, idempotency, catalog>>
channel == <<asked, ran, answer, where>>
desktops == <<devices, catalog, recording, approved, changes>>
vars == <<store, request, handler, tables, recording, approved, channel, up, changes>>

Tools == {"connect_desktop", "list_workspaces", "connect_workspace",
          "open_workspace", "file_tool"}
DeterministicIds == Sessions \X (Conversations \cup {None}) \X Devices \X Refs
\* The id of an opened workspace is fresh, and named for the handler.
WorkspaceIds == Given \cup Handlers \cup DeterministicIds
Request == [tool : Tools, session : Sessions, conversation : Conversations \cup {None},
            device : Devices \cup {None}, ref : Refs \cup {None},
            workspace : WorkspaceIds \cup {None}, key : Keys \cup {None}]
Binding == [conversation : Conversations \cup {None}, device : Devices]
Route == [session : Sessions, conversation : Conversations \cup {None},
          device : Devices, ref : Refs]
ToolCall == [session : Sessions, conversation : Conversations \cup {None},
             workspace : WorkspaceIds, device : Devices,
             status : {"routed", "completed", "failed"}]
Selection == [session : Sessions, conversation : Conversations \cup {None},
              device : Devices, workspace : WorkspaceIds, ref : Refs]
Steps == {"new", "binding", "device", "touch", "online", "pairDevice", "pair", "upsert",
          "catalog", "replay", "routeDevice", "route", "routeUpsert", "record",
          "recordInsert", "resolve", "resolveDevice", "resolveTouch", "toolCall",
          "send", "sent", "complete", "done"}
Replies == {"none", "refused", "conflict", "failed", "listed", "paired", "connected",
          "opened", "result", "error"}
Handler == [at : Steps, device : Devices \cup {None},
            workspace : WorkspaceIds \cup {None}, reply : Replies]

\* What the input schemas of the tools require of a request.
WellFormed(r) ==
    /\ r.tool \in {"connect_workspace", "open_workspace"} => r.ref # None
    /\ r.tool = "file_tool" => r.workspace # None

ASSUME RequestAssumption ==
    /\ \A play \in Plays :
          play \in [Handlers -> Request] /\ \A h \in Handlers : WellFormed(play[h])
    /\ None \notin WorkspaceIds \cup Binding \cup Route \cup ToolCall \cup Selection

TypeOK ==
    /\ store \in Stores
    /\ request \in [Handlers -> Request]
    /\ handler \in [Handlers -> Handler]
    /\ devices \in [Devices -> {"unknown", "online", "offline", "revoked", "expired"}]
    /\ bindings \in [Sessions -> Binding \cup {None}]
    /\ routes \in [WorkspaceIds -> Route \cup {None}]
    /\ toolCalls \in [Handlers -> ToolCall \cup {None}]
    /\ idempotency \in [Keys -> Selection \cup {None}]
    /\ catalog \in [Devices -> SUBSET Refs]
    /\ recording \in [Devices -> SUBSET Refs]
    /\ approved \in [Devices -> SUBSET Refs]
    /\ asked \subseteq Handlers /\ ran \subseteq Handlers
    /\ answer \in [Handlers -> {"none", "result", "TOOL_TIMEOUT", "AGENT_DISCONNECTED"}]
    /\ where \in [Handlers -> Refs \cup {None}]
    /\ up \in [Handlers -> SUBSET Devices]
    /\ changes \in 0 .. MaxChanges

Channel == INSTANCE ToolCalls WITH Calls <- Handlers

Init ==
    /\ store \in Stores
    /\ request \in Plays
    /\ handler = [h \in Handlers |->
                    [at |-> "new", device |-> None, workspace |-> None, reply |-> "none"]]
    /\ \E P \in Present :
        /\ devices = [d \in Devices |-> IF d \in P THEN "online" ELSE "unknown"]
        /\ catalog = [d \in Devices |-> IF d \in P THEN Refs ELSE {}]
    /\ bindings = [s \in Sessions |-> None]
    /\ routes = [w \in WorkspaceIds |-> None]
    /\ toolCalls = [h \in Handlers |-> None]
    /\ idempotency = [k \in Keys |-> None]
    /\ recording = [d \in Devices |-> {}]
    /\ approved = [d \in Devices |-> Refs]
    /\ Channel!Init
    /\ where = [h \in Handlers |-> None]
    /\ up = [h \in Handlers |-> {}]
    /\ changes = 0

--------------------------------------------------------------------------------
Session(h) == request[h].session
Open(h) == handler[h].at \notin {"new", "done"}

Go(h, at) == handler' = [handler EXCEPT ![h].at = at]
\* The handler goes on with a device.
GoWith(h, at, d) == handler' = [handler EXCEPT ![h].at = at, ![h].device = d]
Reply(h, reply) == handler' = [handler EXCEPT ![h].at = "done", ![h].reply = reply]
Refuse(h) == Reply(h, "refused")

\* assertDeviceRouteable: known, not revoked, not expired, online.
Routeable(d) == devices[d] = "online"

(***************************************************************************)
(* resolveDevice and bindDevice: the pairing of a session.                 *)
(***************************************************************************)
\* Where the handler goes on when its session is paired with d.
Paired(h, d) ==
    CASE request[h].tool = "connect_desktop" ->
            handler' = [handler EXCEPT ![h].at = "done", ![h].device = d, ![h].reply = "paired"]
      [] request[h].tool = "open_workspace" -> GoWith(h, "send", d)
      [] OTHER -> GoWith(h, "catalog", d)

\* A request arrives.  A file tool looks up its route, connect_desktop for a
\* named device pairs at once, and the others resolve the pairing.
Receive(h) ==
    /\ handler[h].at = "new"
    /\ up' = [up EXCEPT ![h] = {d \in Devices : devices[d] = "online"}]
    /\ LET r == request[h] IN
       IF r.tool = "file_tool" THEN Go(h, "resolve")
       ELSE IF r.tool = "connect_desktop" /\ r.device # None
       THEN GoWith(h, "pairDevice", r.device)
       ELSE Go(h, "binding")
    /\ UNCHANGED <<store, request, tables, recording, approved, channel, changes>>

\* getBinding.  Without a pairing the session is paired with the device that
\* the request names, and connect_desktop looks for one.
ReadBinding(h) ==
    LET r == request[h]
        b == bindings[Session(h)] IN
    /\ handler[h].at = "binding"
    /\ IF b = None
       THEN IF r.device # None THEN GoWith(h, "pairDevice", r.device)
            ELSE IF r.tool = "connect_desktop" THEN Go(h, "online") ELSE Refuse(h)
       ELSE IF \/ b.conversation # None /\ b.conversation # r.conversation
               \/ r.device # None /\ b.device # r.device
            THEN Refuse(h) ELSE GoWith(h, "device", b.device)
    /\ UNCHANGED <<store, request, tables, recording, approved, channel, up, changes>>

ReadDevice(h) ==
    /\ handler[h].at = "device"
    /\ IF Routeable(handler[h].device) THEN Go(h, "touch") ELSE Refuse(h)
    /\ UNCHANGED <<store, request, tables, recording, approved, channel, up, changes>>

\* The row that is touched, and goes on, is the one of this moment.
TouchBinding(h) ==
    /\ handler[h].at = "touch"
    /\ bindings[Session(h)] # None
    /\ Paired(h, bindings[Session(h)].device)
    /\ UNCHANGED <<store, request, tables, recording, approved, channel, up, changes>>

\* singleOnlineDeviceId.
ListOnline(h) ==
    LET online == {d \in Devices : devices[d] = "online"} IN
    /\ handler[h].at = "online"
    /\ IF Cardinality(online) = 1
       THEN \E d \in online : GoWith(h, "pairDevice", d) ELSE Refuse(h)
    /\ UNCHANGED <<store, request, tables, recording, approved, channel, up, changes>>

PairDevice(h) ==
    /\ handler[h].at = "pairDevice"
    /\ IF Routeable(handler[h].device) THEN Go(h, "pair") ELSE Refuse(h)
    /\ UNCHANGED <<store, request, tables, recording, approved, channel, up, changes>>

NewBinding(h) == [conversation |-> request[h].conversation, device |-> handler[h].device]

\* Mutant: a pairing may be moved.
MayPair_Always(h) == TRUE

\* A session keeps its pairing; to pair it again with the same is allowed.
MayPair(h) == bindings[Session(h)] \in {None, NewBinding(h)}

PairInMemory(h) ==
    /\ handler[h].at = "pair" /\ store = "memory"
    /\ IF MayPair(h)
       THEN /\ bindings' = [bindings EXCEPT ![Session(h)] = NewBinding(h)]
            /\ Paired(h, handler[h].device)
       ELSE Refuse(h) /\ UNCHANGED bindings
    /\ UNCHANGED <<store, request, desktops, routes, toolCalls, idempotency, channel, up>>

CheckPairing(h) ==
    /\ handler[h].at = "pair" /\ store = "postgres"
    /\ BindsOverlap \/ \A g \in Handlers : handler[g].at = "upsert" => Session(g) # Session(h)
    /\ IF MayPair(h) THEN Go(h, "upsert") ELSE Refuse(h)
    /\ UNCHANGED <<store, request, tables, recording, approved, channel, up, changes>>

\* The insert updates on conflict, and asks nothing of the row it replaces.
UpsertPairing(h) ==
    /\ handler[h].at = "upsert"
    /\ bindings' = [bindings EXCEPT ![Session(h)] = NewBinding(h)]
    /\ Paired(h, handler[h].device)
    /\ UNCHANGED <<store, request, desktops, routes, toolCalls, idempotency, channel, up>>

(***************************************************************************)
(* The catalog, and connectWorkspace.                                      *)
(***************************************************************************)
DeterministicWorkspaceId(h) ==
    <<Session(h), request[h].conversation, handler[h].device, request[h].ref>>

ReadCatalog(h) ==
    LET r == request[h]
        w == IF r.workspace # None THEN r.workspace ELSE DeterministicWorkspaceId(h) IN
    /\ handler[h].at = "catalog"
    /\ IF r.tool = "list_workspaces" THEN Reply(h, "listed")
       ELSE IF r.ref \notin catalog[handler[h].device] THEN Refuse(h)
       ELSE handler' = [handler EXCEPT ![h].workspace = w,
                                       ![h].at = IF r.key = None THEN "routeDevice" ELSE "replay"]
    /\ UNCHANGED <<store, request, tables, recording, approved, channel, up, changes>>

\* What the fingerprint is made of; it is all of the recorded result, too.
Fingerprint(h) ==
    [session |-> Session(h), conversation |-> request[h].conversation,
     device |-> handler[h].device, workspace |-> handler[h].workspace,
     ref |-> request[h].ref]

FindIdempotency(h) ==
    LET found == idempotency[request[h].key] IN
    /\ handler[h].at = "replay"
    /\ IF found = None THEN Go(h, "routeDevice")
       ELSE Reply(h, IF found = Fingerprint(h) THEN "connected" ELSE "conflict")
    /\ UNCHANGED <<store, request, tables, recording, approved, channel, up, changes>>

(***************************************************************************)
(* bindWorkspaceRoute.                                                     *)
(***************************************************************************)
RouteRow(h) == [session |-> Session(h), conversation |-> request[h].conversation,
                device |-> handler[h].device, ref |-> request[h].ref]

SameWorkspaceBinding(route, row) ==
    /\ route.session = row.session
    /\ route.conversation = row.conversation
    /\ route.device = row.device

MayRoute(h) ==
    LET route == routes[handler[h].workspace] IN
    route # None => SameWorkspaceBinding(route, RouteRow(h))

\* Where the handler goes on when its workspace has its route.
Routed(h) ==
    IF request[h].tool = "open_workspace" THEN Reply(h, "opened")
    ELSE IF request[h].key = None THEN Reply(h, "connected")
    ELSE Go(h, "record")

RouteInMemory(h) ==
    /\ handler[h].at = "routeDevice" /\ store = "memory"
    /\ IF Routeable(handler[h].device) /\ MayRoute(h)
       THEN /\ routes' = [routes EXCEPT ![handler[h].workspace] = RouteRow(h)]
            /\ Routed(h)
       ELSE Refuse(h) /\ UNCHANGED routes
    /\ UNCHANGED <<store, request, desktops, bindings, toolCalls, idempotency, channel, up>>

CheckRouteDevice(h) ==
    /\ handler[h].at = "routeDevice" /\ store = "postgres"
    /\ IF Routeable(handler[h].device) THEN Go(h, "route") ELSE Refuse(h)
    /\ UNCHANGED <<store, request, tables, recording, approved, channel, up, changes>>

CheckRoute(h) ==
    /\ handler[h].at = "route"
    /\ BindsOverlap \/ \A g \in Handlers :
          handler[g].at = "routeUpsert" => handler[g].workspace # handler[h].workspace
    /\ IF MayRoute(h) THEN Go(h, "routeUpsert") ELSE Refuse(h)
    /\ UNCHANGED <<store, request, tables, recording, approved, channel, up, changes>>

UpsertRoute(h) ==
    /\ handler[h].at = "routeUpsert"
    /\ routes' = [routes EXCEPT ![handler[h].workspace] = RouteRow(h)]
    /\ Routed(h)
    /\ UNCHANGED <<store, request, desktops, bindings, toolCalls, idempotency, channel, up>>

(***************************************************************************)
(* recordIdempotency.                                                      *)
(***************************************************************************)
\* Mutant: the last selection is the one recorded.
RecordInMemory_Last(h) ==
    /\ handler[h].at = "record" /\ store = "memory"
    /\ Reply(h, "connected")
    /\ idempotency' = [idempotency EXCEPT ![request[h].key] = Fingerprint(h)]
    /\ UNCHANGED <<store, request, desktops, bindings, routes, toolCalls, channel, up>>

RecordInMemory(h) ==
    LET k == request[h].key IN
    /\ handler[h].at = "record" /\ store = "memory"
    /\ IF idempotency[k] \in {None, Fingerprint(h)}
       THEN /\ idempotency' = [idempotency EXCEPT ![k] = Fingerprint(h)]
            /\ Reply(h, "connected")
       ELSE Reply(h, "conflict") /\ UNCHANGED idempotency
    /\ UNCHANGED <<store, request, desktops, bindings, routes, toolCalls, channel, up>>

FindRecorded(h) ==
    LET found == idempotency[request[h].key] IN
    /\ handler[h].at = "record" /\ store = "postgres"
    /\ IF found = None THEN Go(h, "recordInsert")
       ELSE Reply(h, IF found = Fingerprint(h) THEN "connected" ELSE "conflict")
    /\ UNCHANGED <<store, request, tables, recording, approved, channel, up, changes>>

\* A unique index lets one row in per key: a second insert throws.
InsertRecord(h) ==
    LET k == request[h].key IN
    /\ handler[h].at = "recordInsert"
    /\ IF idempotency[k] = None
       THEN /\ idempotency' = [idempotency EXCEPT ![k] = Fingerprint(h)]
            /\ Reply(h, "connected")
       ELSE Reply(h, "failed") /\ UNCHANGED idempotency
    /\ UNCHANGED <<store, request, desktops, bindings, routes, toolCalls, channel, up>>

\* assertWorkspaceRouteable.
WorkspaceRouteable(h, route) ==
    /\ route # None
    /\ route.session = Session(h)
    /\ route.conversation \in {None, request[h].conversation}

\* A tool call has a fresh id: there is no record of it yet.
NewToolCall(h, route) ==
    [session |-> route.session, conversation |-> route.conversation,
     workspace |-> request[h].workspace, device |-> route.device, status |-> "routed"]

ResolveInMemory(h) ==
    LET route == routes[request[h].workspace] IN
    /\ handler[h].at = "resolve" /\ store = "memory"
    /\ IF WorkspaceRouteable(h, route) /\ Routeable(route.device)
       THEN /\ toolCalls' = [toolCalls EXCEPT ![h] = NewToolCall(h, route)]
            /\ GoWith(h, "send", route.device)
       ELSE Refuse(h) /\ UNCHANGED toolCalls
    /\ UNCHANGED <<store, request, desktops, bindings, routes, idempotency, channel, up>>

ReadRoute(h) ==
    LET route == routes[request[h].workspace] IN
    /\ handler[h].at = "resolve" /\ store = "postgres"
    /\ IF WorkspaceRouteable(h, route)
       THEN GoWith(h, "resolveDevice", route.device) ELSE Refuse(h)
    /\ UNCHANGED <<store, request, tables, recording, approved, channel, up, changes>>

\* Mutant: the device is not asked for.
ReadRouteDevice_Unchecked(h) ==
    /\ handler[h].at = "resolveDevice"
    /\ Go(h, "resolveTouch")
    /\ UNCHANGED <<store, request, tables, recording, approved, channel, up, changes>>

ReadRouteDevice(h) ==
    /\ handler[h].at = "resolveDevice"
    /\ IF Routeable(handler[h].device) THEN Go(h, "resolveTouch") ELSE Refuse(h)
    /\ UNCHANGED <<store, request, tables, recording, approved, channel, up, changes>>

\* The tool call is recorded with the route of this moment, and sent to the
\* device of the route that was read.
TouchAndRecord(h) ==
    LET route == routes[request[h].workspace] IN
    /\ handler[h].at = "resolveTouch"
    /\ route # None
    /\ toolCalls' = [toolCalls EXCEPT ![h] = NewToolCall(h, route)]
    /\ Go(h, "send")
    /\ UNCHANGED <<store, request, desktops, bindings, routes, idempotency, channel, up>>

(***************************************************************************)
(* The channel, and the desktop.                                           *)
(***************************************************************************)
SendToolCall(h) ==
    /\ handler[h].at = "send"
    /\ Channel!Ask(h)
    /\ Go(h, "sent")
    /\ UNCHANGED <<store, request, tables, recording, approved, where, up, changes>>

\* Mutant: the ref alone names the workspace.
FindWorkspace_AnyRef(h) == approved[handler[h].device]

\* The workspaces of the desktop that go by the workspaceId of the call.  Of
\* the ids it made itself it knows none.
FindWorkspace(h) ==
    LET w == request[h].workspace IN
    {r \in approved[handler[h].device] :
        \/ w = r
        \/ w = <<Session(h), request[h].conversation, handler[h].device, r>>}

\* The tool runs in a local workspace; without one it is an error.
DesktopRuns(h) ==
    /\ h \notin ran
    /\ Channel!Run(h)
    /\ IF request[h].tool = "open_workspace" \/ FindWorkspace(h) = {}
       THEN UNCHANGED where
       ELSE \E r \in FindWorkspace(h) : where' = [where EXCEPT ![h] = r]
    /\ UNCHANGED <<store, request, handler, tables, recording, approved, up, changes>>

ChannelAnswers(h, a) ==
    /\ Channel!Answer({h}, a)
    /\ UNCHANGED <<store, request, handler, tables, recording, approved, where, up, changes>>

\* A result may itself be an error of the tool.
Answered(h) ==
    LET ok == /\ answer[h] = "result"
              /\ request[h].tool = "open_workspace" \/ where[h] # None IN
    /\ handler[h].at = "sent" /\ answer[h] # "none"
    /\ \/ /\ ok
          /\ handler' = [handler EXCEPT
                ![h].at = IF request[h].tool = "open_workspace" THEN "routeDevice" ELSE "complete",
                ![h].workspace = IF request[h].tool = "open_workspace" THEN h ELSE @,
                ![h].reply = IF request[h].tool = "open_workspace" THEN @ ELSE "result"]
       \/ handler' = [handler EXCEPT
                ![h].at = IF request[h].tool = "open_workspace" THEN "done" ELSE "complete",
                ![h].reply = "error"]
    /\ UNCHANGED <<store, request, tables, recording, approved, channel, up, changes>>

\* completeToolCall: an error of the store is swallowed.
CompleteToolCall(h) ==
    /\ handler[h].at = "complete"
    /\ Go(h, "done")
    /\ \/ toolCalls' = [toolCalls EXCEPT
                ![h].status = IF handler[h].reply = "result" THEN "completed" ELSE "failed"]
       \/ store = "postgres" /\ UNCHANGED toolCalls
    /\ UNCHANGED <<store, request, desktops, bindings, routes, idempotency, channel, up>>

(***************************************************************************)
(* The devices.  DeviceChannel has the handlers that call these.           *)
(***************************************************************************)
Change == changes < MaxChanges /\ changes' = changes + 1

\* registerDevice and setDeviceStatus.  A row expires with the token of its
\* device; no code revokes one, an operator does in the database.
SetDeviceStatus(d, status) ==
    /\ Change
    /\ devices[d] # status
    /\ status \in {"offline", "revoked", "expired"} => devices[d] # "unknown"
    /\ devices' = [devices EXCEPT ![d] = status]
    /\ up' = IF status = "online" THEN [h \in Handlers |->
                IF Open(h) THEN up[h] \cup {d} ELSE up[h]] ELSE up
    /\ UNCHANGED <<store, request, handler, bindings, routes, toolCalls, idempotency,
                   catalog, recording, approved, channel>>

\* The desktop starts again with other workspaces.
ChangeApproved(d, refs) ==
    /\ Change
    /\ approved[d] # refs
    /\ approved' = [approved EXCEPT ![d] = refs]
    /\ UNCHANGED <<store, request, handler, tables, recording, channel, up>>

RecordCatalogInMemory(d) ==
    /\ store = "memory"
    /\ devices[d] # "unknown"
    /\ catalog' = [catalog EXCEPT ![d] = approved[d]]
    /\ UNCHANGED <<store, request, handler, devices, bindings, routes, toolCalls,
                   idempotency, recording, approved, channel, up, changes>>

\* In Postgres the catalog is deleted, and then inserted row by row.
DeleteCatalog(d) ==
    /\ store = "postgres"
    /\ devices[d] # "unknown"
    /\ catalog[d] # approved[d] /\ recording[d] = {}
    /\ catalog' = [catalog EXCEPT ![d] = {}]
    /\ recording' = [recording EXCEPT ![d] = approved[d]]
    /\ UNCHANGED <<store, request, handler, devices, bindings, routes, toolCalls,
                   idempotency, approved, channel, up, changes>>

InsertCatalogEntry(d) ==
    /\ \E r \in recording[d] :
        /\ catalog' = [catalog EXCEPT ![d] = @ \cup {r}]
        /\ recording' = [recording EXCEPT ![d] = @ \ {r}]
    /\ UNCHANGED <<store, request, handler, devices, bindings, routes, toolCalls,
                   idempotency, approved, channel, up, changes>>

--------------------------------------------------------------------------------
Pairing(h) ==
    \/ ReadBinding(h) \/ ReadDevice(h) \/ TouchBinding(h) \/ ListOnline(h)
    \/ PairDevice(h) \/ PairInMemory(h) \/ CheckPairing(h) \/ UpsertPairing(h)

Connecting(h) ==
    \/ ReadCatalog(h) \/ FindIdempotency(h)
    \/ RouteInMemory(h) \/ CheckRouteDevice(h) \/ CheckRoute(h) \/ UpsertRoute(h)
    \/ RecordInMemory(h) \/ FindRecorded(h) \/ InsertRecord(h)

Calling(h) ==
    \/ ResolveInMemory(h) \/ ReadRoute(h) \/ ReadRouteDevice(h) \/ TouchAndRecord(h)
    \/ SendToolCall(h) \/ DesktopRuns(h)
    \/ \E a \in Channel!Errors \cup {"result"} : ChannelAnswers(h, a)
    \/ Answered(h) \/ CompleteToolCall(h)

Next ==
    \/ \E h \in Handlers : Receive(h) \/ Pairing(h) \/ Connecting(h) \/ Calling(h)
    \/ \E d \in Devices :
        \/ \E status \in {"online", "offline", "revoked", "expired"} : SetDeviceStatus(d, status)
        \/ \E refs \in SUBSET Refs : ChangeApproved(d, refs)
        \/ RecordCatalogInMemory(d) \/ DeleteCatalog(d) \/ InsertCatalogEntry(d)

Spec == Init /\ [][Next]_vars

--------------------------------------------------------------------------------
(***************************************************************************)
(* Properties.                                                             *)
(***************************************************************************)
AgreeOn(fields, a, b) == \A f \in fields : a[f] = b[f]
Holder == {"session", "conversation", "device"}

\* What was bound stands, whatever overlapping calls ask for: a session stays
\* with the device and the conversation it was first paired with, and a
\* workspaceId with its session, conversation and device (bindDevice,
\* resolveDevice, bindWorkspaceRoute).
BindingsStand ==
    [][/\ \A s \in Sessions : bindings[s] # None => bindings'[s] = bindings[s]
       /\ \A w \in WorkspaceIds :
             routes[w] # None =>
                 routes'[w] # None /\ AgreeOn(Holder, routes[w], routes'[w])]_vars

\* A route leads to the device with which its session is paired, in the
\* conversation of the pairing: the two tables agree (connectWorkspace,
\* openWorkspace).
RoutesFollowPairing ==
    \A w \in WorkspaceIds :
        LET route == routes[w] IN
        route # None =>
            /\ bindings[route.session] # None
            /\ bindings[route.session].device = route.device
            /\ bindings[route.session].conversation \in {None, route.conversation}

\* Retries under one idempotency key connect one workspace: nobody who asks
\* for another under the key is told that he has it, and who is told that a
\* workspace is connected, at first or by a replay, has its route
\* (recordIdempotency, connectWorkspace).
OneSelectionPerKey ==
    /\ \A g, h \in Handlers :
          /\ handler[g].reply = "connected" /\ handler[h].reply = "connected"
          /\ request[g].key = request[h].key /\ request[h].key # None
          => Fingerprint(g) = Fingerprint(h)
    /\ \A h \in Handlers :
          handler[h].reply = "connected" =>
              /\ routes[handler[h].workspace] # None
              /\ AgreeOn(Holder, routes[handler[h].workspace], Fingerprint(h))

\* A tool call is sent only to a device that was online at some moment since
\* the request arrived, however long its checks took, and its record names
\* that device and the session that sent it (resolveWorkspaceRoute,
\* callWorkspaceTool, openWorkspace).
SentWhileUp ==
    \A h \in Handlers :
        /\ h \in asked => handler[h].device \in up[h]
        /\ toolCalls[h] # None =>
              toolCalls[h].device = handler[h].device /\ toolCalls[h].session = Session(h)

\* A tool runs in the local workspace whose ref was connected under its
\* workspaceId: gateway and desktop read the id in the same way; and a tool
\* call that is recorded as completed has run there
\* (DesktopCloudWorkspaceExecutor.findWorkspace, completeToolCall).
RunsWhereConnected ==
    \A h \in Handlers :
        /\ where[h] # None => where[h] = routes[request[h].workspace].ref
        /\ toolCalls[h] # None /\ toolCalls[h].status = "completed" =>
              h \in ran /\ where[h] # None
================================================================================
