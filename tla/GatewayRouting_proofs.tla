------------------------- MODULE GatewayRouting_proofs -------------------------
(***************************************************************************)
(* Proofs about GatewayRouting, for every set of handlers, sessions,       *)
(* devices and requests and any number of changes of the devices.  What    *)
(* the tables and the handlers know is proved where no two handlers are    *)
(* between a check of one row and its upsert, as they never are in memory  *)
(* (Serialized).                                                           *)
(*                                                                         *)
(* Settled is inductive.  A handler knows, at each step, what its earlier  *)
(* reads have told it, and it stays so because what is bound stands.       *)
(***************************************************************************)
EXTENDS GatewayRouting, TLAPS

USE RoutingAssumption, RequestAssumption

Serialized == BindsOverlap => Stores \subseteq {"memory"}

\* Where the pairing of the session is known, and where it is to be written.
PairingSteps == {"binding", "device", "touch", "online", "pairDevice", "pair", "upsert"}
RouteSteps == {"routeDevice", "route", "routeUpsert"}
RecordSteps == {"record", "recordInsert"}
ResolveSteps == {"resolve", "resolveDevice", "resolveTouch"}
\* The steps after which the device is known to have been online.
CheckedSteps == {"touch", "pair", "upsert", "catalog", "replay", "resolveTouch",
                 "send", "sent", "complete"} \cup RouteSteps \cup RecordSteps

ToolOf(h) == request[h].tool
IsFile(h) == ToolOf(h) = "file_tool"

\* Each step is of certain tools, and of a certain store.
StepsAreOfTools(h) ==
    LET at == handler[h].at IN
    /\ WellFormed(request[h])
    /\ at \in ResolveSteps \cup {"complete"} => IsFile(h)
    /\ at \in PairingSteps => ~IsFile(h)
    /\ at = "catalog" => ToolOf(h) \in {"list_workspaces", "connect_workspace"}
    /\ at \in {"replay"} \cup RecordSteps =>
          ToolOf(h) = "connect_workspace" /\ request[h].key # None
    /\ at \in RouteSteps => ToolOf(h) \in {"connect_workspace", "open_workspace"}
    /\ at \in {"send", "sent"} => ToolOf(h) \in {"open_workspace", "file_tool"}
    /\ at \in {"upsert", "route", "routeUpsert", "recordInsert", "resolveDevice", "resolveTouch"}
          => store = "postgres"
    /\ at \notin {"complete", "done"} => handler[h].reply = "none"
    /\ at = "complete" => handler[h].reply \in {"result", "error"}

\* The session is paired with the device, and the conversation may use it.
FollowsPairing(h) ==
    LET b == bindings[Session(h)] IN
    b # None /\ b.device = handler[h].device /\ b.conversation \in {None, request[h].conversation}

PairingIsKnown(h) ==
    LET at == handler[h].at IN
    /\ at \in {"device", "touch", "catalog", "replay"} \cup RouteSteps \cup RecordSteps
          => FollowsPairing(h)
    /\ at \in {"send", "sent"} /\ ToolOf(h) = "open_workspace" => FollowsPairing(h)
    /\ at \in {"pairDevice", "pair", "upsert"} => handler[h].device # None
    /\ at = "upsert" => MayPair(h)

RouteHolds(h) ==
    LET w == handler[h].workspace IN
    w # None /\ routes[w] # None /\ SameWorkspaceBinding(routes[w], RouteRow(h))

\* The route of the workspace that a file tool is called in.
RouteIsFollowed(h) ==
    LET route == routes[request[h].workspace] IN
    route # None /\ route.session = Session(h) /\ route.device = handler[h].device

RouteIsKnown(h) ==
    LET at == handler[h].at IN
    /\ at \in RouteSteps \cup {"replay"} \cup RecordSteps => handler[h].workspace # None
    /\ at = "routeUpsert" => MayRoute(h)
    /\ at \in RecordSteps \/ handler[h].reply = "connected" => RouteHolds(h)
    /\ handler[h].reply = "connected" /\ request[h].key # None =>
          idempotency[request[h].key] # None /\ idempotency[request[h].key] = Fingerprint(h)
    /\ IsFile(h) /\ (at \in {"resolveDevice", "resolveTouch", "send", "sent", "complete"}
                     \/ h \in asked) => RouteIsFollowed(h)

\* What has become of the call.
CallIsKnown(h) ==
    LET at == handler[h].at IN
    /\ at \in CheckedSteps \/ h \in asked => handler[h].device \in up[h]
    /\ h \in asked =>
          /\ at \in {"sent", "complete", "done"} \cup RouteSteps
          /\ ToolOf(h) \in {"open_workspace", "file_tool"}
    /\ h \in ran \/ answer[h] = "result" => h \in asked
    /\ answer[h] = "result" => h \in ran
    /\ at = "complete" /\ handler[h].reply = "result" => h \in ran /\ where[h] # None
    /\ at \in {"send", "sent", "complete"} /\ IsFile(h) => toolCalls[h] # None
    /\ toolCalls[h] # None =>
          /\ IsFile(h) /\ at \in {"send", "sent", "complete", "done"}
          /\ toolCalls[h].device = handler[h].device /\ toolCalls[h].session = Session(h)
          /\ toolCalls[h].status = "completed" => h \in ran /\ where[h] # None
    /\ where[h] # None => h \in ran /\ IsFile(h)

Knows(h) ==
    StepsAreOfTools(h) /\ PairingIsKnown(h) /\ RouteIsKnown(h) /\ CallIsKnown(h)

\* Whoever is online has been online while the handler ran.
OnlineIsUp ==
    \A h \in Handlers : Open(h) => \A d \in Devices : devices[d] = "online" => d \in up[h]

\* What is recorded under a key has its route.
SelectionsHaveRoutes ==
    \A k \in Keys :
        LET found == idempotency[k] IN
        found # None => routes[found.workspace] # None
                        /\ AgreeOn(Holder, routes[found.workspace], found)

\* Between a check and its upsert there is one handler per row.
UpsertsAreAlone ==
    \A g, h \in Handlers : g # h =>
        /\ handler[g].at = "upsert" /\ handler[h].at = "upsert" => Session(g) # Session(h)
        /\ handler[g].at = "routeUpsert" /\ handler[h].at = "routeUpsert" =>
              handler[g].workspace # handler[h].workspace

Settled ==
    /\ TypeOK
    /\ RoutesFollowPairing /\ SelectionsHaveRoutes /\ OnlineIsUp /\ UpsertsAreAlone
    /\ \A h \in Handlers : Knows(h)

-----------------------------------------------------------------------------
(* Moves of a handler.                                                      *)

Moves(h) ==
    /\ handler' \in [Handlers -> Handler]
    /\ \A g \in Handlers \ {h} : handler'[g] = handler[g]

LEMMA GoMoves ==
    ASSUME TypeOK, NEW h \in Handlers, NEW at \in Steps, Go(h, at)
    PROVE  /\ Moves(h)
           /\ handler'[h].at = at /\ handler'[h].device = handler[h].device
           /\ handler'[h].workspace = handler[h].workspace /\ handler'[h].reply = handler[h].reply
<1>1. handler \in [Handlers -> Handler] /\ handler[h] \in Handler
  BY DEF TypeOK
<1> DEFINE new == [handler[h] EXCEPT !.at = at]
<1>2. /\ new \in Handler /\ new.at = at /\ new.device = handler[h].device
      /\ new.workspace = handler[h].workspace /\ new.reply = handler[h].reply
  BY <1>1 DEF Handler
<1>3. handler' = [handler EXCEPT ![h] = new]
  BY <1>1 DEF Go
<1> HIDE DEF new
<1> QED BY <1>1, <1>2, <1>3 DEF Moves

LEMMA GoWithMoves ==
    ASSUME TypeOK, NEW h \in Handlers, NEW at \in Steps, NEW d \in Devices, GoWith(h, at, d)
    PROVE  /\ Moves(h)
           /\ handler'[h].at = at /\ handler'[h].device = d
           /\ handler'[h].workspace = handler[h].workspace /\ handler'[h].reply = handler[h].reply
<1>1. handler \in [Handlers -> Handler] /\ handler[h] \in Handler
  BY DEF TypeOK
<1> DEFINE new == [handler[h] EXCEPT !.at = at, !.device = d]
<1>2. /\ new \in Handler /\ new.at = at /\ new.device = d
      /\ new.workspace = handler[h].workspace /\ new.reply = handler[h].reply
  BY <1>1 DEF Handler
<1>3. handler' = [handler EXCEPT ![h] = new]
  BY <1>1 DEF GoWith
<1> HIDE DEF new
<1> QED BY <1>1, <1>2, <1>3 DEF Moves

LEMMA ReplyMoves ==
    ASSUME TypeOK, NEW h \in Handlers, NEW reply \in Replies, Reply(h, reply)
    PROVE  /\ Moves(h)
           /\ handler'[h].at = "done" /\ handler'[h].reply = reply
           /\ handler'[h].device = handler[h].device
           /\ handler'[h].workspace = handler[h].workspace
<1>1. handler \in [Handlers -> Handler] /\ handler[h] \in Handler
  BY DEF TypeOK
<1> DEFINE new == [handler[h] EXCEPT !.at = "done", !.reply = reply]
<1>2. /\ new \in Handler /\ new.at = "done" /\ new.reply = reply
      /\ new.workspace = handler[h].workspace /\ new.device = handler[h].device
  BY <1>1 DEF Handler, Steps
<1>3. handler' = [handler EXCEPT ![h] = new]
  BY <1>1 DEF Reply
<1> HIDE DEF new
<1> QED BY <1>1, <1>2, <1>3 DEF Moves

\* A handler goes on with the device its session is paired with.
LEMMA PairedMoves ==
    ASSUME TypeOK, NEW h \in Handlers, NEW d \in Devices, Paired(h, d)
    PROVE  /\ Moves(h)
           /\ handler'[h].device = d /\ handler'[h].workspace = handler[h].workspace
           /\ \/ /\ ToolOf(h) = "connect_desktop"
                 /\ handler'[h].at = "done" /\ handler'[h].reply = "paired"
              \/ /\ ToolOf(h) = "open_workspace"
                 /\ handler'[h].at = "send" /\ handler'[h].reply = handler[h].reply
              \/ /\ ToolOf(h) \notin {"connect_desktop", "open_workspace"}
                 /\ handler'[h].at = "catalog" /\ handler'[h].reply = handler[h].reply
<1>1. handler \in [Handlers -> Handler] /\ handler[h] \in Handler /\ {"send", "catalog"} \subseteq Steps
  BY DEF TypeOK, Steps
<1>2. CASE ToolOf(h) = "connect_desktop"
  <2> DEFINE new == [handler[h] EXCEPT !.at = "done", !.device = d, !.reply = "paired"]
  <2>1. /\ new \in Handler /\ new.at = "done" /\ new.device = d /\ new.reply = "paired"
        /\ new.workspace = handler[h].workspace
    BY <1>1 DEF Handler, Steps, Replies
  <2>2. handler' = [handler EXCEPT ![h] = new]
    BY <1>1, <1>2 DEF Paired, ToolOf
  <2> HIDE DEF new
  <2> QED BY <1>1, <1>2, <2>1, <2>2 DEF Moves
<1>3. CASE ToolOf(h) = "open_workspace"
  <2>1. GoWith(h, "send", d)
    BY <1>3 DEF Paired, ToolOf
  <2> QED BY <1>1, <1>3, <2>1, GoWithMoves
<1>4. CASE ToolOf(h) \notin {"connect_desktop", "open_workspace"}
  <2>1. GoWith(h, "catalog", d)
    BY <1>4 DEF Paired, ToolOf
  <2> QED BY <1>1, <1>4, <2>1, GoWithMoves
<1> QED BY <1>2, <1>3, <1>4

-----------------------------------------------------------------------------
(* What stands.                                                             *)

BindingsKept == \A s \in Sessions : bindings[s] # None => bindings'[s] = bindings[s]
RoutesKept ==
    \A w \in WorkspaceIds :
        routes[w] # None => routes'[w] # None /\ AgreeOn(Holder, routes[w], routes'[w])
SelectionsKept == \A k \in Keys : idempotency[k] # None => idempotency'[k] = idempotency[k]
TablesStand == BindingsKept /\ RoutesKept /\ SelectionsKept /\ UNCHANGED <<store, request>>

\* Nobody else moves, and nobody else's call does.
RestOf(g) ==
    /\ handler'[g] = handler[g] /\ toolCalls'[g] = toolCalls[g] /\ where'[g] = where[g]
    /\ answer'[g] = answer[g] /\ up[g] \subseteq up'[g]
    /\ g \in asked' <=> g \in asked
    /\ g \in ran' <=> g \in ran

LEMMA RequestTypes ==
    ASSUME TypeOK, NEW h \in Handlers
    PROVE  /\ Session(h) \in Sessions /\ request[h] \in Request
           /\ request[h].key # None => request[h].key \in Keys
           /\ request[h].workspace # None => request[h].workspace \in WorkspaceIds
           /\ request[h].device # None => request[h].device \in Devices
           /\ handler[h] \in Handler
           /\ handler[h].device # None => handler[h].device \in Devices
           /\ handler[h].workspace # None => handler[h].workspace \in WorkspaceIds
BY DEF TypeOK, Request, Session, Handler

LEMMA KnowledgeStays ==
    ASSUME TypeOK, TypeOK', TablesStand, NEW g \in Handlers, RestOf(g), Knows(g),
           handler[g].at = "upsert" => bindings'[Session(g)] = bindings[Session(g)],
           handler[g].at = "routeUpsert" =>
               routes'[handler[g].workspace] = routes[handler[g].workspace]
    PROVE  Knows(g)'
<1>1. /\ handler'[g] = handler[g] /\ request'[g] = request[g] /\ store' = store
      /\ Session(g)' = Session(g) /\ ToolOf(g)' = ToolOf(g) /\ IsFile(g)' = IsFile(g)
  BY DEF RestOf, TablesStand, Session, ToolOf, IsFile
<1>2. StepsAreOfTools(g)'
  BY <1>1 DEF Knows, StepsAreOfTools, WellFormed
<1>3. FollowsPairing(g) => FollowsPairing(g)'
  BY <1>1, RequestTypes DEF FollowsPairing, TablesStand, BindingsKept
<1>4. handler[g].at = "upsert" => MayPair(g)'
  BY <1>1 DEF Knows, PairingIsKnown, MayPair, NewBinding
<1>5. PairingIsKnown(g)'
  BY <1>1, <1>3, <1>4 DEF Knows, PairingIsKnown
<1>6. RouteHolds(g) => RouteHolds(g)'
  BY <1>1, RequestTypes
     DEF RouteHolds, TablesStand, RoutesKept, AgreeOn, Holder, SameWorkspaceBinding, RouteRow
<1>7. IsFile(g) /\ RouteIsFollowed(g) => RouteIsFollowed(g)'
  <2>1. IsFile(g) => request[g].workspace \in WorkspaceIds
    BY RequestTypes DEF Knows, StepsAreOfTools, WellFormed, IsFile, ToolOf
  <2> QED BY <1>1, <2>1 DEF RouteIsFollowed, TablesStand, RoutesKept, AgreeOn, Holder
<1>8. handler[g].at = "routeUpsert" => MayRoute(g)'
  BY <1>1 DEF Knows, RouteIsKnown, MayRoute, RouteRow
<1>9. Fingerprint(g)' = Fingerprint(g)
  BY <1>1 DEF Fingerprint
<1>10. RouteIsKnown(g)'
  <2>1. /\ request[g].key # None /\ idempotency[request[g].key] # None
           => idempotency'[request[g].key] = idempotency[request[g].key]
    BY RequestTypes DEF TablesStand, SelectionsKept
  <2> QED BY <1>1, <1>6, <1>7, <1>8, <1>9, <2>1 DEF Knows, RouteIsKnown, RestOf
<1>11. CallIsKnown(g)'
  BY <1>1 DEF Knows, CallIsKnown, RestOf
<1> QED BY <1>2, <1>5, <1>10, <1>11 DEF Knows

-----------------------------------------------------------------------------
(* Steps that leave the tables and the channel alone.                       *)

LEMMA Assembly ==
    ASSUME Settled, TypeOK', TablesStand, NEW h \in Handlers,
           \A g \in Handlers \ {h} : RestOf(g), Knows(h)',
           RoutesFollowPairing', SelectionsHaveRoutes', OnlineIsUp', UpsertsAreAlone',
           \A g \in Handlers \ {h} :
               /\ handler[g].at = "upsert" => bindings'[Session(g)] = bindings[Session(g)]
               /\ handler[g].at = "routeUpsert" =>
                      routes'[handler[g].workspace] = routes[handler[g].workspace]
    PROVE  TablesStand /\ Settled'
<1>1. \A g \in Handlers \ {h} : Knows(g)'
  BY KnowledgeStays DEF Settled
<1> QED BY <1>1 DEF Settled

Quiet == UNCHANGED <<store, request, tables, recording, approved, channel, up, changes>>

\* The handler is not about to write a row that another is about to write.
Alone(h) ==
    \A g \in Handlers \ {h} :
        /\ handler'[h].at = "upsert" /\ handler[g].at = "upsert" => Session(g) # Session(h)
        /\ handler'[h].at = "routeUpsert" /\ handler[g].at = "routeUpsert" =>
              handler[g].workspace # handler'[h].workspace

LEMMA QuietTypes ==
    ASSUME TypeOK, Quiet, handler' \in [Handlers -> Handler]
    PROVE  TypeOK'
BY DEF TypeOK, Quiet, tables, channel

LEMMA QuietSettles ==
    ASSUME Settled, NEW h \in Handlers, Quiet, Moves(h), Open(h), Alone(h), Knows(h)'
    PROVE  TablesStand /\ Settled'
<1>1. /\ UNCHANGED <<store, request, devices, bindings, routes, toolCalls, idempotency>>
      /\ UNCHANGED <<asked, ran, answer, where, up>>
  BY DEF Quiet, tables, channel
<1>2. TypeOK'
  BY QuietTypes DEF Settled, Moves
<1>3. TablesStand
  BY <1>1 DEF TablesStand, BindingsKept, RoutesKept, SelectionsKept, AgreeOn
<1>4. \A g \in Handlers \ {h} : RestOf(g)
  BY <1>1 DEF RestOf, Moves
<1>5. RoutesFollowPairing' /\ SelectionsHaveRoutes'
  BY <1>1 DEF Settled, RoutesFollowPairing, SelectionsHaveRoutes, AgreeOn
<1>6. OnlineIsUp'
  BY <1>1 DEF Settled, OnlineIsUp, Moves, Open
<1>7. UpsertsAreAlone'
  <2> SUFFICES ASSUME NEW f \in Handlers, NEW g \in Handlers, f # g
               PROVE  /\ handler'[f].at = "upsert" /\ handler'[g].at = "upsert" =>
                            Session(f) # Session(g)
                      /\ handler'[f].at = "routeUpsert" /\ handler'[g].at = "routeUpsert" =>
                            handler'[f].workspace # handler'[g].workspace
    BY <1>1 DEF UpsertsAreAlone, Session
  <2>1. CASE f # h /\ g # h
    BY <2>1 DEF Settled, UpsertsAreAlone, Moves
  <2>2. CASE f = h
    BY <2>2 DEF Alone, Moves
  <2>3. CASE g = h
    BY <2>3 DEF Alone, Moves
  <2> QED BY <2>1, <2>2, <2>3
<1> QED BY <1>1, <1>2, <1>3, <1>4, <1>5, <1>6, <1>7, Assembly

\* The conjuncts of what is known, spelled out for one handler.
LEMMA RefusalSettles ==
    ASSUME Settled, NEW h \in Handlers, Quiet, Open(h),
           handler[h].at \notin {"sent", "complete"},
           NEW reply \in {"refused", "conflict", "failed", "listed"}, Reply(h, reply)
    PROVE  TablesStand /\ Settled'
<1>1. /\ Moves(h) /\ handler'[h].at = "done" /\ handler'[h].reply = reply
      /\ handler'[h].device = handler[h].device /\ handler'[h].workspace = handler[h].workspace
  BY ReplyMoves DEF Settled, Replies
<1>2. /\ UNCHANGED <<store, request, bindings, routes, toolCalls, idempotency>>
      /\ UNCHANGED <<asked, ran, answer, where, up>>
  BY DEF Quiet, tables, channel
<1>3. Alone(h)
  BY <1>1 DEF Alone
<1>4. Knows(h)'
  <2>1. Knows(h)
    BY DEF Settled
  <2>2. StepsAreOfTools(h)'
    BY <1>1, <1>2, <2>1 DEF Knows, StepsAreOfTools, ResolveSteps, PairingSteps, RecordSteps, RouteSteps
  <2>3. PairingIsKnown(h)'
    BY <1>1 DEF PairingIsKnown, RouteSteps, RecordSteps
  <2>4. RouteIsKnown(h)'
    BY <1>1, <1>2, <2>1 DEF Knows, RouteIsKnown, RouteSteps, RecordSteps, RouteIsFollowed, IsFile, ToolOf, Session
  <2>5. CallIsKnown(h)'
    BY <1>1, <1>2, <2>1 DEF Knows, CallIsKnown, CheckedSteps, RouteSteps, RecordSteps, IsFile, ToolOf, Session
  <2> QED BY <2>2, <2>3, <2>4, <2>5 DEF Knows
<1> QED BY <1>1, <1>3, <1>4, QuietSettles

-----------------------------------------------------------------------------
(* The pairing of a session.                                                *)

\* The handler is still finding its device.
LEMMA PairingGoesOn ==
    ASSUME Settled, NEW h \in Handlers, handler[h].at \in PairingSteps, Quiet, Moves(h), Alone(h),
           handler'[h].at \in PairingSteps, handler'[h].reply = handler[h].reply,
           handler'[h].at \in {"touch", "pair", "upsert"} => handler'[h].device \in up[h],
           handler'[h].at \in {"device", "touch"} => FollowsPairing(h)',
           handler'[h].at \in {"pairDevice", "pair", "upsert"} => handler'[h].device # None,
           handler'[h].at = "upsert" => store = "postgres" /\ MayPair(h)'
    PROVE  TablesStand /\ Settled'
<1>1. /\ UNCHANGED <<store, request, bindings, routes, toolCalls, idempotency>>
      /\ UNCHANGED <<asked, ran, answer, where, up>>
  BY DEF Quiet, tables, channel
<1>2. Knows(h) /\ Open(h)
  BY DEF Settled, Open, PairingSteps
<1>3. ~IsFile(h) /\ handler[h].reply = "none" /\ h \notin asked /\ toolCalls[h] = None
  BY <1>2 DEF Knows, StepsAreOfTools, CallIsKnown, PairingSteps, RouteSteps
<1>4. IsFile(h)' = IsFile(h) /\ ToolOf(h)' = ToolOf(h)
  BY <1>1 DEF IsFile, ToolOf
<1>5. StepsAreOfTools(h)'
  BY <1>1, <1>2, <1>3, <1>4
     DEF Knows, StepsAreOfTools, ResolveSteps, PairingSteps, RecordSteps, RouteSteps
<1>6. PairingIsKnown(h)'
  BY DEF PairingIsKnown, RouteSteps, RecordSteps, PairingSteps
<1>7. RouteIsKnown(h)'
  BY <1>3, <1>4 DEF RouteIsKnown, RouteSteps, RecordSteps, PairingSteps
<1>8. CallIsKnown(h)'
  BY <1>1, <1>2, <1>3
     DEF Knows, CallIsKnown, CheckedSteps, RouteSteps, RecordSteps, PairingSteps
<1> QED BY <1>2, <1>5, <1>6, <1>7, <1>8, QuietSettles DEF Knows

\* The handler goes on with the device that the pairing names.
LEMMA PairedKnows ==
    ASSUME Settled, NEW h \in Handlers, handler[h].at \in PairingSteps, NEW d \in Devices,
           Paired(h, d), d \in up[h],
           UNCHANGED <<store, request, routes, toolCalls, idempotency>>,
           UNCHANGED <<asked, ran, answer, where, up>>,
           bindings'[Session(h)] # None, bindings'[Session(h)].device = d,
           bindings'[Session(h)].conversation \in {None, request[h].conversation}
    PROVE  Moves(h) /\ handler'[h].at \notin {"upsert", "routeUpsert"} /\ Knows(h)'
<1>1. Knows(h) /\ TypeOK
  BY DEF Settled
<1>2. ~IsFile(h) /\ handler[h].reply = "none" /\ h \notin asked /\ toolCalls[h] = None
  BY <1>1 DEF Knows, StepsAreOfTools, CallIsKnown, PairingSteps, RouteSteps
<1>3. /\ Moves(h) /\ handler'[h].device = d
      /\ \/ ToolOf(h) = "connect_desktop" /\ handler'[h].at = "done" /\ handler'[h].reply = "paired"
         \/ ToolOf(h) = "open_workspace" /\ handler'[h].at = "send" /\ handler'[h].reply = "none"
         \/ /\ ToolOf(h) \notin {"connect_desktop", "open_workspace"}
            /\ handler'[h].at = "catalog" /\ handler'[h].reply = "none"
  BY <1>1, <1>2, PairedMoves
<1>4. IsFile(h)' = IsFile(h) /\ ToolOf(h)' = ToolOf(h) /\ ToolOf(h) \in Tools
  BY <1>1, RequestTypes DEF IsFile, ToolOf, Request
<1>5. StepsAreOfTools(h)'
  BY <1>1, <1>2, <1>3, <1>4
     DEF Knows, StepsAreOfTools, ResolveSteps, PairingSteps, RecordSteps, RouteSteps, IsFile, Tools
<1>6. FollowsPairing(h)'
  BY <1>3 DEF FollowsPairing, Session
<1>7. PairingIsKnown(h)'
  BY <1>3, <1>6 DEF PairingIsKnown, RouteSteps, RecordSteps
<1>8. RouteIsKnown(h)'
  BY <1>2, <1>3, <1>4 DEF RouteIsKnown, RouteSteps, RecordSteps
<1>9. CallIsKnown(h)'
  BY <1>1, <1>2, <1>3, <1>4
     DEF Knows, CallIsKnown, CheckedSteps, RouteSteps, RecordSteps
<1> QED BY <1>3, <1>5, <1>7, <1>8, <1>9 DEF Knows

LEMMA RouteableIsUp ==
    ASSUME Settled, NEW h \in Handlers, Open(h), NEW d \in Devices, Routeable(d)
    PROVE  d \in up[h]
BY DEF Settled, OnlineIsUp, Routeable

LEMMA ReadBindingSettles ==
    ASSUME Settled, NEW h \in Handlers, ReadBinding(h)
    PROVE  TablesStand /\ Settled'
<1>1. /\ Quiet /\ Open(h) /\ TypeOK /\ handler[h].at = "binding" /\ handler[h].at \in PairingSteps
      /\ {"pairDevice", "online", "device"} \subseteq Steps
  BY DEF ReadBinding, Quiet, Open, Settled, PairingSteps, Steps
<1> DEFINE r == request[h]
           b == bindings[Session(h)]
<1>2. CASE Refuse(h)
  BY <1>1, <1>2, RefusalSettles DEF Refuse
<1>3. CASE r.device # None /\ GoWith(h, "pairDevice", r.device)
  <2>1. r.device \in Devices
    BY <1>1, <1>3, RequestTypes
  <2>2. /\ Moves(h) /\ handler'[h].at = "pairDevice" /\ handler'[h].device = r.device
        /\ handler'[h].reply = handler[h].reply
    BY <1>1, <1>3, <2>1, GoWithMoves
  <2> QED BY <1>1, <1>3, <2>2, PairingGoesOn DEF Alone, PairingSteps
<1>4. CASE Go(h, "online")
  <2>1. Moves(h) /\ handler'[h].at = "online" /\ handler'[h].reply = handler[h].reply
    BY <1>1, <1>4, GoMoves
  <2> QED BY <1>1, <2>1, PairingGoesOn DEF Alone, PairingSteps
<1>5. CASE /\ b # None /\ b.conversation \in {None, r.conversation}
           /\ GoWith(h, "device", b.device)
  <2>1. b.device \in Devices
    BY <1>1, <1>5, RequestTypes DEF TypeOK, Binding
  <2>2. /\ Moves(h) /\ handler'[h].at = "device" /\ handler'[h].device = b.device
        /\ handler'[h].reply = handler[h].reply
    BY <1>1, <1>5, <2>1, GoWithMoves
  <2>3. FollowsPairing(h)'
    BY <1>1, <1>5, <2>2 DEF FollowsPairing, Quiet, tables, Session
  <2> QED BY <1>1, <2>2, <2>3, PairingGoesOn DEF Alone, PairingSteps
<1> QED BY <1>2, <1>3, <1>4, <1>5 DEF ReadBinding

LEMMA ReadDeviceSettles ==
    ASSUME Settled, NEW h \in Handlers, ReadDevice(h)
    PROVE  TablesStand /\ Settled'
<1>1. /\ Quiet /\ Open(h) /\ TypeOK /\ handler[h].at = "device" /\ handler[h].at \in PairingSteps
      /\ "touch" \in Steps /\ Knows(h)
  BY DEF ReadDevice, Quiet, Open, Settled, PairingSteps, Steps
<1>2. CASE Refuse(h)
  BY <1>1, <1>2, RefusalSettles DEF Refuse
<1>3. CASE Routeable(handler[h].device) /\ Go(h, "touch")
  <2>1. FollowsPairing(h) /\ handler[h].device \in Devices
    <3>1. FollowsPairing(h)
      BY <1>1 DEF Knows, PairingIsKnown
    <3> QED BY <1>1, <3>1, RequestTypes DEF FollowsPairing, TypeOK, Binding
  <2>2. /\ Moves(h) /\ handler'[h].at = "touch" /\ handler'[h].device = handler[h].device
        /\ handler'[h].reply = handler[h].reply
    BY <1>1, <1>3, GoMoves
  <2>3. FollowsPairing(h)' /\ handler'[h].device \in up[h]
    BY <1>1, <1>3, <2>1, <2>2, RouteableIsUp DEF FollowsPairing, Quiet, tables, Session
  <2> QED BY <1>1, <2>2, <2>3, PairingGoesOn DEF Alone, PairingSteps
<1> QED BY <1>2, <1>3 DEF ReadDevice

LEMMA TouchBindingSettles ==
    ASSUME Settled, NEW h \in Handlers, TouchBinding(h)
    PROVE  TablesStand /\ Settled'
<1>1. /\ Quiet /\ Open(h) /\ TypeOK /\ handler[h].at = "touch" /\ handler[h].at \in PairingSteps
      /\ Knows(h)
  BY DEF TouchBinding, Quiet, Open, Settled, PairingSteps
<1>2. FollowsPairing(h) /\ handler[h].device \in Devices /\ handler[h].device \in up[h]
  <2>1. FollowsPairing(h) /\ handler[h].device \in up[h]
    BY <1>1 DEF Knows, PairingIsKnown, CallIsKnown, CheckedSteps
  <2> QED BY <1>1, <2>1, RequestTypes DEF FollowsPairing, TypeOK, Binding
<1>3. Paired(h, handler[h].device)
  BY <1>2 DEF TouchBinding, FollowsPairing
<1>4. Moves(h) /\ handler'[h].at \notin {"upsert", "routeUpsert"} /\ Knows(h)'
  BY <1>1, <1>2, <1>3, PairedKnows DEF Quiet, tables, channel, FollowsPairing
<1> QED BY <1>1, <1>4, QuietSettles DEF Alone

LEMMA ListOnlineSettles ==
    ASSUME Settled, NEW h \in Handlers, ListOnline(h)
    PROVE  TablesStand /\ Settled'
<1>1. /\ Quiet /\ Open(h) /\ TypeOK /\ handler[h].at = "online" /\ handler[h].at \in PairingSteps
      /\ "pairDevice" \in Steps
  BY DEF ListOnline, Quiet, Open, Settled, PairingSteps, Steps
<1>2. CASE Refuse(h)
  BY <1>1, <1>2, RefusalSettles DEF Refuse
<1>3. ASSUME NEW d \in Devices, GoWith(h, "pairDevice", d)
      PROVE  TablesStand /\ Settled'
  <2>1. /\ Moves(h) /\ handler'[h].at = "pairDevice" /\ handler'[h].device = d
        /\ handler'[h].reply = handler[h].reply
    BY <1>1, <1>3, GoWithMoves
  <2> QED BY <1>1, <2>1, PairingGoesOn DEF Alone, PairingSteps
<1> QED BY <1>2, <1>3 DEF ListOnline

LEMMA PairDeviceSettles ==
    ASSUME Settled, NEW h \in Handlers, PairDevice(h)
    PROVE  TablesStand /\ Settled'
<1>1. /\ Quiet /\ Open(h) /\ TypeOK /\ handler[h].at = "pairDevice" /\ handler[h].at \in PairingSteps
      /\ "pair" \in Steps /\ Knows(h)
  BY DEF PairDevice, Quiet, Open, Settled, PairingSteps, Steps
<1>2. CASE Refuse(h)
  BY <1>1, <1>2, RefusalSettles DEF Refuse
<1>3. CASE Routeable(handler[h].device) /\ Go(h, "pair")
  <2>1. handler[h].device \in Devices
    BY <1>1, RequestTypes DEF Knows, PairingIsKnown
  <2>2. /\ Moves(h) /\ handler'[h].at = "pair" /\ handler'[h].device = handler[h].device
        /\ handler'[h].reply = handler[h].reply
    BY <1>1, <1>3, GoMoves
  <2>3. handler'[h].device \in up[h]
    BY <1>1, <1>3, <2>1, <2>2, RouteableIsUp
  <2> QED BY <1>1, <2>1, <2>2, <2>3, PairingGoesOn DEF Alone, PairingSteps
<1> QED BY <1>2, <1>3 DEF PairDevice

LEMMA CheckPairingSettles ==
    ASSUME Settled, Serialized, NEW h \in Handlers, CheckPairing(h)
    PROVE  TablesStand /\ Settled'
<1>1. /\ Quiet /\ Open(h) /\ TypeOK /\ handler[h].at = "pair" /\ handler[h].at \in PairingSteps
      /\ "upsert" \in Steps /\ Knows(h) /\ store = "postgres" /\ ~BindsOverlap
  BY DEF CheckPairing, Quiet, Open, Settled, PairingSteps, Steps, Serialized, TypeOK
<1>2. CASE Refuse(h)
  BY <1>1, <1>2, RefusalSettles DEF Refuse
<1>3. CASE MayPair(h) /\ Go(h, "upsert")
  <2>1. handler[h].device # None /\ handler[h].device \in up[h]
    BY <1>1 DEF Knows, PairingIsKnown, CallIsKnown, CheckedSteps
  <2>2. /\ Moves(h) /\ handler'[h].at = "upsert" /\ handler'[h].device = handler[h].device
        /\ handler'[h].reply = handler[h].reply
    BY <1>1, <1>3, GoMoves
  <2>3. Alone(h)
    BY <1>1, <2>2 DEF CheckPairing, Alone
  <2>4. MayPair(h)'
    BY <1>1, <1>3, <2>2 DEF MayPair, NewBinding, Quiet, tables, Session
  <2> QED BY <1>1, <2>1, <2>2, <2>3, <2>4, PairingGoesOn DEF PairingSteps
<1> QED BY <1>2, <1>3 DEF CheckPairing

\* The pairing is written: it is new, or the one there was.
LEMMA PairingIsWritten ==
    ASSUME Settled, NEW h \in Handlers, handler[h].at \in {"pair", "upsert"}, MayPair(h),
           bindings' = [bindings EXCEPT ![Session(h)] = NewBinding(h)],
           Paired(h, handler[h].device),
           UNCHANGED <<store, request, desktops, routes, toolCalls, idempotency, channel, up>>,
           \A g \in Handlers \ {h} : handler[g].at = "upsert" => Session(g) # Session(h)
    PROVE  TablesStand /\ Settled'
<1>1. /\ UNCHANGED <<store, request, routes, toolCalls, idempotency>>
      /\ UNCHANGED <<asked, ran, answer, where, up>>
      /\ UNCHANGED <<devices, catalog, recording, approved, changes>>
  BY DEF desktops, channel
<1>2. TypeOK /\ Knows(h) /\ handler[h].at \in PairingSteps
  BY DEF Settled, PairingSteps
<1>3. /\ Session(h) \in Sessions /\ bindings \in [Sessions -> Binding \cup {None}]
      /\ handler[h].device \in Devices /\ handler[h].device \in up[h]
  BY <1>2, RequestTypes DEF TypeOK, Knows, PairingIsKnown, CallIsKnown, CheckedSteps
<1>4. NewBinding(h) \in Binding /\ NewBinding(h) # None
      /\ NewBinding(h).device = handler[h].device
      /\ NewBinding(h).conversation = request[h].conversation
  <2>1. request[h].conversation \in Conversations \cup {None}
    BY <1>2, RequestTypes DEF Request
  <2>2. NewBinding(h) \in Binding
    BY <1>3, <2>1 DEF NewBinding, Binding
  <2> QED BY <2>2 DEF NewBinding
<1>5. bindings' \in [Sessions -> Binding \cup {None}] /\ bindings'[Session(h)] = NewBinding(h)
      /\ \A s \in Sessions \ {Session(h)} : bindings'[s] = bindings[s]
  BY <1>3, <1>4
<1>6. Moves(h) /\ handler'[h].at \notin {"upsert", "routeUpsert"} /\ Knows(h)'
  BY <1>1, <1>2, <1>3, <1>4, <1>5, PairedKnows
<1>7. TypeOK'
  BY <1>1, <1>2, <1>5, <1>6 DEF TypeOK, Moves
<1>8. BindingsKept /\ TablesStand
  <2>1. BindingsKept
    BY <1>3, <1>5 DEF BindingsKept, MayPair
  <2> QED BY <1>1, <2>1 DEF TablesStand, RoutesKept, SelectionsKept, AgreeOn
<1>9. \A g \in Handlers \ {h} : RestOf(g)
  BY <1>1, <1>6 DEF RestOf, Moves
<1>10. RoutesFollowPairing'
  <2>1. \A w \in WorkspaceIds : routes[w] # None => routes[w].session \in Sessions
    BY <1>2 DEF TypeOK, Route
  <2> QED BY <1>1, <1>8, <2>1 DEF Settled, RoutesFollowPairing, BindingsKept
<1>11. SelectionsHaveRoutes'
  BY <1>1 DEF Settled, SelectionsHaveRoutes, AgreeOn
<1>12. OnlineIsUp'
  BY <1>1, <1>2, <1>6 DEF Settled, OnlineIsUp, Moves, Open, PairingSteps
<1>13. UpsertsAreAlone'
  BY <1>1, <1>6 DEF Settled, UpsertsAreAlone, Moves, Session
<1>14. \A g \in Handlers \ {h} :
          /\ handler[g].at = "upsert" => bindings'[Session(g)] = bindings[Session(g)]
          /\ handler[g].at = "routeUpsert" =>
                 routes'[handler[g].workspace] = routes[handler[g].workspace]
  BY <1>1, <1>2, <1>5, RequestTypes
<1> QED BY <1>6, <1>7, <1>8, <1>9, <1>10, <1>11, <1>12, <1>13, <1>14, Assembly

\* Nobody is between a check and an upsert in memory.
LEMMA NobodyInMemory ==
    ASSUME Settled, store = "memory", NEW g \in Handlers
    PROVE  handler[g].at \notin {"upsert", "routeUpsert"}
BY DEF Settled, Knows, StepsAreOfTools

LEMMA PairInMemorySettles ==
    ASSUME Settled, NEW h \in Handlers, PairInMemory(h)
    PROVE  TablesStand /\ Settled'
<1>1. CASE MayPair(h) /\ bindings' = [bindings EXCEPT ![Session(h)] = NewBinding(h)]
           /\ Paired(h, handler[h].device)
  BY <1>1, PairingIsWritten, NobodyInMemory DEF PairInMemory
<1>2. CASE Refuse(h) /\ UNCHANGED bindings
  <2>1. Quiet /\ Open(h) /\ handler[h].at = "pair"
    BY <1>2 DEF PairInMemory, Quiet, tables, desktops, Open
  <2> QED BY <1>2, <2>1, RefusalSettles DEF Refuse
<1> QED BY <1>1, <1>2 DEF PairInMemory

LEMMA UpsertPairingSettles ==
    ASSUME Settled, NEW h \in Handlers, UpsertPairing(h)
    PROVE  TablesStand /\ Settled'
<1>1. MayPair(h)
  BY DEF UpsertPairing, Settled, Knows, PairingIsKnown
<1>2. \A g \in Handlers \ {h} : handler[g].at = "upsert" => Session(g) # Session(h)
  BY DEF UpsertPairing, Settled, UpsertsAreAlone
<1> QED BY <1>1, <1>2, PairingIsWritten DEF UpsertPairing

LEMMA PairingSettles ==
    ASSUME Settled, Serialized, NEW h \in Handlers, Pairing(h)
    PROVE  TablesStand /\ Settled'
BY ReadBindingSettles, ReadDeviceSettles, TouchBindingSettles, ListOnlineSettles,
   PairDeviceSettles, PairInMemorySettles, CheckPairingSettles, UpsertPairingSettles DEF Pairing

-----------------------------------------------------------------------------
(* The route of a workspace, and the key it is selected under.              *)

ConnectSteps == {"catalog", "replay"} \cup RouteSteps \cup RecordSteps

\* What a handler knows while it connects or opens a workspace, or has.
LEMMA ConnectingKnows ==
    ASSUME Settled, NEW h \in Handlers, handler[h].at \in ConnectSteps, Moves(h),
           TablesStand, UNCHANGED <<toolCalls, asked, ran, answer, where, up>>,
           handler'[h].device = handler[h].device,
           handler'[h].at \in RouteSteps \cup RecordSteps \cup {"replay", "done"},
           handler'[h].at # "done" =>
               /\ ToolOf(h) = "connect_workspace" \/ handler[h].at \in RouteSteps
               /\ handler'[h].reply = "none" /\ handler'[h].workspace # None,
           handler'[h].at \in {"replay"} \cup RecordSteps =>
               ToolOf(h) = "connect_workspace" /\ request[h].key # None,
           handler'[h].at \in {"route", "routeUpsert", "recordInsert"} => store = "postgres",
           h \in asked => handler'[h].at \in RouteSteps \cup {"done"},
           handler'[h].at = "routeUpsert" => MayRoute(h)',
           handler'[h].at \in RecordSteps \/ handler'[h].reply = "connected" => RouteHolds(h)',
           handler'[h].reply = "connected" /\ request[h].key # None =>
               idempotency'[request[h].key] # None /\ idempotency'[request[h].key] = Fingerprint(h)'
    PROVE  Knows(h)'
<1>1. /\ UNCHANGED <<store, request>> /\ Knows(h) /\ TypeOK
      /\ ToolOf(h)' = ToolOf(h) /\ IsFile(h)' = IsFile(h)
  BY DEF TablesStand, Settled, ToolOf, IsFile
<1>2. ~IsFile(h) /\ toolCalls[h] = None /\ FollowsPairing(h) /\ handler[h].device \in up[h]
      /\ ToolOf(h) \in {"list_workspaces", "connect_workspace", "open_workspace"}
  BY <1>1 DEF Knows, StepsAreOfTools, PairingIsKnown, CallIsKnown, ConnectSteps, CheckedSteps,
              RouteSteps, RecordSteps, IsFile
<1>3. StepsAreOfTools(h)'
  BY <1>1, <1>2 DEF Knows, StepsAreOfTools, ResolveSteps, PairingSteps, RecordSteps, RouteSteps, ConnectSteps
<1>4. FollowsPairing(h)'
  BY <1>1, <1>2, RequestTypes DEF FollowsPairing, TablesStand, BindingsKept, Session
<1>5. PairingIsKnown(h)'
  BY <1>4 DEF PairingIsKnown, RouteSteps, RecordSteps
<1>6. RouteIsKnown(h)'
  BY <1>1, <1>2 DEF RouteIsKnown, RouteSteps, RecordSteps
<1>7. CallIsKnown(h)'
  BY <1>1, <1>2 DEF Knows, CallIsKnown, CheckedSteps, RouteSteps, RecordSteps
<1> QED BY <1>3, <1>5, <1>6, <1>7 DEF Knows

LEMMA QuietTables ==
    ASSUME Quiet
    PROVE  /\ TablesStand /\ UNCHANGED <<toolCalls, asked, ran, answer, where, up>>
           /\ UNCHANGED <<devices, bindings, routes, idempotency, store, request>>
BY DEF Quiet, tables, channel, TablesStand, BindingsKept, RoutesKept, SelectionsKept, AgreeOn

LEMMA ConnectTypes ==
    ASSUME Settled, NEW h \in Handlers, handler[h].at \in ConnectSteps
    PROVE  /\ TypeOK /\ Knows(h) /\ Open(h) /\ FollowsPairing(h)
           /\ handler[h].device \in Devices /\ handler[h].device \in up[h]
           /\ handler[h].reply = "none"
           /\ handler[h].at \in RouteSteps \cup RecordSteps \cup {"replay"} =>
                 handler[h].workspace \in WorkspaceIds /\ request[h].ref \in Refs
<1>1. TypeOK /\ Knows(h) /\ Open(h)
  BY DEF Settled, Open, ConnectSteps, RouteSteps, RecordSteps
<1>2. FollowsPairing(h) /\ handler[h].reply = "none" /\ handler[h].device \in up[h]
  BY <1>1 DEF Knows, StepsAreOfTools, PairingIsKnown, CallIsKnown, ConnectSteps, CheckedSteps,
              RouteSteps, RecordSteps
<1>3. handler[h].device \in Devices
  BY <1>1, <1>2, RequestTypes DEF FollowsPairing, TypeOK, Binding
<1>4. ASSUME handler[h].at \in RouteSteps \cup RecordSteps \cup {"replay"}
      PROVE  handler[h].workspace \in WorkspaceIds /\ request[h].ref \in Refs
  <2>1. handler[h].workspace # None /\ request[h].ref # None
    BY <1>1, <1>4
       DEF Knows, RouteIsKnown, StepsAreOfTools, WellFormed, ToolOf, RouteSteps, RecordSteps
  <2> QED BY <1>1, <2>1, RequestTypes DEF Request
<1> QED BY <1>1, <1>2, <1>3, <1>4

LEMMA ReadCatalogSettles ==
    ASSUME Settled, NEW h \in Handlers, ReadCatalog(h)
    PROVE  TablesStand /\ Settled'
<1> DEFINE r == request[h]
           w == IF r.workspace # None THEN r.workspace ELSE DeterministicWorkspaceId(h)
           at == IF r.key = None THEN "routeDevice" ELSE "replay"
<1>1. /\ Quiet /\ handler[h].at = "catalog" /\ handler[h].at \in ConnectSteps
      /\ TypeOK /\ Knows(h) /\ Open(h) /\ handler[h].device \in Devices
      /\ handler[h].reply = "none"
  BY ConnectTypes DEF ReadCatalog, Quiet, ConnectSteps
<1>2. CASE Reply(h, "listed") \/ Refuse(h)
  BY <1>1, <1>2, RefusalSettles DEF Refuse
<1>3. CASE /\ ToolOf(h) # "list_workspaces"
           /\ handler' = [handler EXCEPT ![h].workspace = w, ![h].at = at]
  <2>1. ToolOf(h) = "connect_workspace" /\ r.ref \in Refs /\ h \notin asked
    <3>1. ToolOf(h) = "connect_workspace" /\ r.ref # None /\ h \notin asked
      BY <1>1, <1>3
         DEF Knows, StepsAreOfTools, CallIsKnown, WellFormed, ToolOf, RouteSteps
    <3> QED BY <1>1, <3>1, RequestTypes DEF Request
  <2>2. w \in WorkspaceIds
    <3>1. DeterministicWorkspaceId(h) \in DeterministicIds
      BY <1>1, <2>1, RequestTypes DEF DeterministicWorkspaceId, DeterministicIds, Request
    <3> QED BY <1>1, <3>1, RequestTypes DEF WorkspaceIds
  <2>3. handler \in [Handlers -> Handler] /\ handler[h] \in Handler
    BY <1>1 DEF TypeOK
  <2>4. at \in {"routeDevice", "replay"} /\ (at = "replay" => r.key # None)
    OBVIOUS
  <2> HIDE DEF w, at
  <2> DEFINE new == [handler[h] EXCEPT !.workspace = w, !.at = at]
  <2>5. /\ new \in Handler /\ new.workspace = w /\ new.at = at
        /\ new.device = handler[h].device /\ new.reply = handler[h].reply
    BY <2>2, <2>3, <2>4 DEF Handler, Steps
  <2>6. handler' = [handler EXCEPT ![h] = new]
    BY <1>3, <2>3
  <2> HIDE DEF new
  <2>7. /\ Moves(h) /\ handler'[h].workspace = w /\ handler'[h].at = at
        /\ handler'[h].device = handler[h].device /\ handler'[h].reply = "none"
    BY <1>1, <2>3, <2>5, <2>6 DEF Moves
  <2>8. Knows(h)'
    BY <1>1, <2>1, <2>2, <2>4, <2>7, ConnectingKnows, QuietTables DEF RouteSteps, RecordSteps
  <2> QED BY <1>1, <2>4, <2>7, <2>8, QuietSettles DEF Alone
<1> QED BY <1>2, <1>3 DEF ReadCatalog, ToolOf

\* A handler at one of these steps goes to another, quietly.
LEMMA ConnectingGoesOn ==
    ASSUME Settled, NEW h \in Handlers, handler[h].at \in RouteSteps \cup RecordSteps \cup {"replay"},
           Quiet, Alone(h), NEW at, Go(h, at),
           at \in {"routeDevice", "route", "routeUpsert", "recordInsert"},
           at \in RouteSteps => handler[h].at \in RouteSteps \cup {"replay"},
           at = "recordInsert" => handler[h].at = "record",
           at \in {"route", "routeUpsert", "recordInsert"} => store = "postgres",
           at = "routeUpsert" => MayRoute(h)
    PROVE  TablesStand /\ Settled'
<1>1. /\ TypeOK /\ Knows(h) /\ Open(h) /\ handler[h].reply = "none"
      /\ handler[h].at \in ConnectSteps /\ handler[h].workspace \in WorkspaceIds
  BY ConnectTypes DEF ConnectSteps
<1>2. /\ Moves(h) /\ handler'[h].at = at /\ handler'[h].device = handler[h].device
      /\ handler'[h].workspace = handler[h].workspace /\ handler'[h].reply = "none"
  BY <1>1, GoMoves DEF Steps
<1>3. /\ handler[h].at \in {"replay"} \cup RecordSteps =>
            ToolOf(h) = "connect_workspace" /\ request[h].key # None
      /\ h \in asked => handler[h].at \in RouteSteps
      /\ handler[h].at = "record" => RouteHolds(h)
  BY <1>1 DEF Knows, StepsAreOfTools, CallIsKnown, RouteIsKnown, RouteSteps, RecordSteps
<1>4. /\ MayRoute(h) => MayRoute(h)'
      /\ RouteHolds(h) => RouteHolds(h)'
  BY <1>2, QuietTables DEF MayRoute, RouteHolds, RouteRow, Session
<1>5. Knows(h)'
  BY <1>1, <1>2, <1>3, <1>4, ConnectingKnows, QuietTables DEF RouteSteps, RecordSteps
<1> QED BY <1>1, <1>2, <1>5, QuietSettles

\* The handler answers that the workspace is connected.
LEMMA ConnectedSettles ==
    ASSUME Settled, NEW h \in Handlers, handler[h].at \in RecordSteps \cup {"replay"},
           Quiet, Reply(h, "connected"), RouteHolds(h),
           idempotency[request[h].key] # None, idempotency[request[h].key] = Fingerprint(h)
    PROVE  TablesStand /\ Settled'
<1>1. TypeOK /\ Knows(h) /\ Open(h) /\ handler[h].at \in ConnectSteps
  BY ConnectTypes DEF ConnectSteps
<1>2. /\ Moves(h) /\ handler'[h].at = "done" /\ handler'[h].device = handler[h].device
      /\ handler'[h].workspace = handler[h].workspace /\ handler'[h].reply = "connected"
  BY <1>1, ReplyMoves DEF Replies
<1>3. RouteHolds(h)' /\ Fingerprint(h)' = Fingerprint(h)
  BY <1>2, QuietTables DEF RouteHolds, RouteRow, Fingerprint, Session
<1>4. Knows(h)'
  BY <1>1, <1>2, <1>3, ConnectingKnows, QuietTables DEF RouteSteps, RecordSteps
<1> QED BY <1>1, <1>2, <1>4, QuietSettles DEF Alone

LEMMA FingerprintTypes ==
    ASSUME Settled, NEW h \in Handlers, handler[h].at \in RecordSteps \cup {"replay"}
    PROVE  /\ Fingerprint(h) \in Selection /\ Fingerprint(h) # None
           /\ request[h].key \in Keys
<1>1. /\ TypeOK /\ Knows(h) /\ handler[h].device \in Devices
      /\ handler[h].workspace \in WorkspaceIds /\ request[h].ref \in Refs
  BY ConnectTypes DEF ConnectSteps
<1>2. Fingerprint(h) \in Selection
  BY <1>1, RequestTypes DEF Fingerprint, Selection, Request
<1>3. request[h].key \in Keys
  BY <1>1, RequestTypes DEF Knows, StepsAreOfTools
<1> QED BY <1>2, <1>3

LEMMA FoundSelection ==
    ASSUME Settled, NEW h \in Handlers, handler[h].at \in RecordSteps \cup {"replay"},
           idempotency[request[h].key] = Fingerprint(h)
    PROVE  RouteHolds(h) /\ idempotency[request[h].key] # None
<1>1. handler[h].workspace \in WorkspaceIds /\ request[h].key \in Keys /\ Fingerprint(h) # None
  BY FingerprintTypes, ConnectTypes DEF ConnectSteps
<1>2. /\ routes[Fingerprint(h).workspace] # None
      /\ AgreeOn(Holder, routes[Fingerprint(h).workspace], Fingerprint(h))
  BY <1>1 DEF Settled, SelectionsHaveRoutes
<1> QED
  BY <1>1, <1>2 DEF RouteHolds, AgreeOn, Holder, Fingerprint, SameWorkspaceBinding, RouteRow

LEMMA FindIdempotencySettles ==
    ASSUME Settled, NEW h \in Handlers, FindIdempotency(h)
    PROVE  TablesStand /\ Settled'
<1>1. Quiet /\ handler[h].at = "replay" /\ Open(h)
  BY DEF FindIdempotency, Quiet, Open
<1>2. CASE Go(h, "routeDevice")
  BY <1>1, <1>2, ConnectingGoesOn, GoMoves DEF Alone, RouteSteps, Settled, Steps
<1>3. CASE idempotency[request[h].key] = Fingerprint(h) /\ Reply(h, "connected")
  BY <1>1, <1>3, FoundSelection, ConnectedSettles
<1>4. CASE Reply(h, "conflict")
  BY <1>1, <1>4, RefusalSettles
<1> QED BY <1>2, <1>3, <1>4 DEF FindIdempotency

\* Where the handler goes on when its workspace has its route.
LEMMA RoutedMoves ==
    ASSUME TypeOK, NEW h \in Handlers, Routed(h), handler[h].reply = "none"
    PROVE  /\ Moves(h)
           /\ handler'[h].device = handler[h].device /\ handler'[h].workspace = handler[h].workspace
           /\ \/ /\ ToolOf(h) = "open_workspace"
                 /\ handler'[h].at = "done" /\ handler'[h].reply = "opened"
              \/ /\ ToolOf(h) # "open_workspace" /\ request[h].key = None
                 /\ handler'[h].at = "done" /\ handler'[h].reply = "connected"
              \/ /\ ToolOf(h) # "open_workspace" /\ request[h].key # None
                 /\ handler'[h].at = "record" /\ handler'[h].reply = "none"
<1>1. CASE ToolOf(h) = "open_workspace"
  <2>1. Reply(h, "opened")
    BY <1>1 DEF Routed, ToolOf
  <2> QED BY <1>1, <2>1, ReplyMoves DEF Replies
<1>2. CASE ToolOf(h) # "open_workspace" /\ request[h].key = None
  <2>1. Reply(h, "connected")
    BY <1>2 DEF Routed, ToolOf
  <2> QED BY <1>2, <2>1, ReplyMoves DEF Replies
<1>3. CASE ToolOf(h) # "open_workspace" /\ request[h].key # None
  <2>1. Go(h, "record")
    BY <1>3 DEF Routed, ToolOf
  <2> QED BY <1>3, <2>1, GoMoves DEF Steps
<1> QED BY <1>1, <1>2, <1>3

\* The route is written: it is new, or it has the same session, conversation
\* and device as the one there was.
LEMMA RouteIsWritten ==
    ASSUME Settled, NEW h \in Handlers, handler[h].at \in {"routeDevice", "routeUpsert"}, MayRoute(h),
           routes' = [routes EXCEPT ![handler[h].workspace] = RouteRow(h)], Routed(h),
           UNCHANGED <<store, request, desktops, bindings, toolCalls, idempotency, channel, up>>,
           \A g \in Handlers \ {h} :
               handler[g].at = "routeUpsert" => handler[g].workspace # handler[h].workspace
    PROVE  TablesStand /\ Settled'
<1>1. /\ UNCHANGED <<store, request, bindings, toolCalls, idempotency>>
      /\ UNCHANGED <<asked, ran, answer, where, up>>
      /\ UNCHANGED <<devices, catalog, recording, approved, changes>>
  BY DEF desktops, channel
<1>2. /\ TypeOK /\ Knows(h) /\ Open(h) /\ FollowsPairing(h) /\ handler[h].at \in ConnectSteps
      /\ handler[h].device \in Devices /\ handler[h].reply = "none"
      /\ handler[h].workspace \in WorkspaceIds /\ request[h].ref \in Refs
  BY ConnectTypes DEF ConnectSteps, RouteSteps
<1> DEFINE w == handler[h].workspace
<1>3. /\ RouteRow(h) \in Route /\ RouteRow(h) # None
      /\ RouteRow(h).session = Session(h) /\ RouteRow(h).device = handler[h].device
      /\ RouteRow(h).conversation = request[h].conversation
  <2>1. RouteRow(h) \in Route
    BY <1>2, RequestTypes DEF RouteRow, Route, Request
  <2> QED BY <2>1 DEF RouteRow
<1>4. /\ routes' \in [WorkspaceIds -> Route \cup {None}] /\ routes'[w] = RouteRow(h)
      /\ \A v \in WorkspaceIds \ {w} : routes'[v] = routes[v]
  BY <1>2, <1>3 DEF TypeOK
<1>5. /\ Moves(h)
      /\ handler'[h].device = handler[h].device /\ handler'[h].workspace = handler[h].workspace
      /\ \/ /\ ToolOf(h) = "open_workspace"
            /\ handler'[h].at = "done" /\ handler'[h].reply = "opened"
         \/ /\ ToolOf(h) # "open_workspace" /\ request[h].key = None
            /\ handler'[h].at = "done" /\ handler'[h].reply = "connected"
         \/ /\ ToolOf(h) # "open_workspace" /\ request[h].key # None
            /\ handler'[h].at = "record" /\ handler'[h].reply = "none"
  BY <1>2, RoutedMoves
<1>6. TypeOK'
  BY <1>1, <1>2, <1>4, <1>5 DEF TypeOK, Moves
<1>7. TablesStand
  <2>1. routes[w] # None => AgreeOn(Holder, routes[w], RouteRow(h))
    BY DEF MayRoute, SameWorkspaceBinding, AgreeOn, Holder
  <2>2. RoutesKept
    BY <1>2, <1>3, <1>4, <2>1 DEF RoutesKept, AgreeOn
  <2> QED BY <1>1, <2>2 DEF TablesStand, BindingsKept, SelectionsKept
<1>8. \A g \in Handlers \ {h} : RestOf(g)
  BY <1>1, <1>5 DEF RestOf, Moves
<1>9. RoutesFollowPairing'
  <2> SUFFICES ASSUME NEW v \in WorkspaceIds, routes'[v] # None
               PROVE  /\ bindings[routes'[v].session] # None
                      /\ bindings[routes'[v].session].device = routes'[v].device
                      /\ bindings[routes'[v].session].conversation \in {None, routes'[v].conversation}
    BY <1>1 DEF RoutesFollowPairing
  <2>1. CASE v = w
    BY <1>2, <1>3, <1>4, <2>1 DEF FollowsPairing
  <2>2. CASE v # w
    BY <1>4, <2>2 DEF Settled, RoutesFollowPairing
  <2> QED BY <2>1, <2>2
<1>10. SelectionsHaveRoutes'
  <2>1. \A k \in Keys : idempotency[k] # None => idempotency[k].workspace \in WorkspaceIds
    BY <1>2 DEF TypeOK, Selection
  <2> QED BY <1>1, <1>7, <2>1 DEF Settled, SelectionsHaveRoutes, TablesStand, RoutesKept, AgreeOn
<1>11. OnlineIsUp'
  BY <1>1, <1>2, <1>5 DEF Settled, OnlineIsUp, Moves, Open
<1>12. UpsertsAreAlone'
  BY <1>1, <1>5 DEF Settled, UpsertsAreAlone, Moves, Session
<1>13. RouteHolds(h)'
  BY <1>1, <1>2, <1>3, <1>4, <1>5 DEF RouteHolds, SameWorkspaceBinding, RouteRow, Session
<1>14. Knows(h)'
  <2>1. ToolOf(h) # "open_workspace" => ToolOf(h) = "connect_workspace" /\ h \notin asked
    BY <1>2 DEF Knows, StepsAreOfTools, CallIsKnown, RouteSteps, IsFile
  <2> QED BY <1>1, <1>2, <1>5, <1>7, <1>13, <2>1, ConnectingKnows DEF RouteSteps, RecordSteps
<1>15. \A g \in Handlers \ {h} :
          /\ handler[g].at = "upsert" => bindings'[Session(g)] = bindings[Session(g)]
          /\ handler[g].at = "routeUpsert" =>
                 routes'[handler[g].workspace] = routes[handler[g].workspace]
  BY <1>1, <1>2, <1>4 DEF TypeOK
<1> QED BY <1>6, <1>7, <1>8, <1>9, <1>10, <1>11, <1>12, <1>14, <1>15, Assembly

LEMMA RoutingSettles ==
    ASSUME Settled, Serialized, NEW h \in Handlers,
           RouteInMemory(h) \/ CheckRouteDevice(h) \/ CheckRoute(h) \/ UpsertRoute(h)
    PROVE  TablesStand /\ Settled'
<1>1. ASSUME Quiet, Refuse(h), handler[h].at \in {"routeDevice", "route"}
      PROVE  TablesStand /\ Settled'
  BY <1>1, RefusalSettles DEF Refuse, Open
<1>2. CASE RouteInMemory(h)
  <2>1. CASE Refuse(h) /\ UNCHANGED routes
    BY <1>1, <1>2, <2>1 DEF RouteInMemory, Quiet, tables, desktops
  <2>2. CASE MayRoute(h) /\ Routed(h)
             /\ routes' = [routes EXCEPT ![handler[h].workspace] = RouteRow(h)]
    BY <1>2, <2>2, RouteIsWritten, NobodyInMemory DEF RouteInMemory
  <2> QED BY <1>2, <2>1, <2>2 DEF RouteInMemory
<1>3. CASE CheckRouteDevice(h)
  <2>1. Quiet /\ handler[h].at = "routeDevice" /\ store = "postgres"
    BY <1>3 DEF CheckRouteDevice, Quiet
  <2>2. CASE Go(h, "route")
    <3>1. handler'[h].at = "route"
      BY <2>2, GoMoves DEF Settled, Steps
    <3> QED BY <2>1, <2>2, <3>1, ConnectingGoesOn DEF Alone, RouteSteps
  <2> QED BY <1>1, <1>3, <2>1, <2>2 DEF CheckRouteDevice
<1>4. CASE CheckRoute(h)
  <2>1. Quiet /\ handler[h].at = "route" /\ store = "postgres"
    BY <1>4 DEF CheckRoute, Quiet, Settled, Knows, StepsAreOfTools
  <2>2. ~BindsOverlap
    BY <2>1 DEF Serialized, Settled, TypeOK
  <2>3. CASE MayRoute(h) /\ Go(h, "routeUpsert")
    <3>1. handler'[h].at = "routeUpsert" /\ handler'[h].workspace = handler[h].workspace
      BY <2>3, GoMoves DEF Settled, Steps
    <3>2. Alone(h)
      BY <1>4, <2>2, <3>1 DEF CheckRoute, Alone
    <3> QED BY <2>1, <2>3, <3>2, ConnectingGoesOn DEF RouteSteps
  <2> QED BY <1>1, <1>4, <2>1, <2>3 DEF CheckRoute
<1>5. CASE UpsertRoute(h)
  <2>1. MayRoute(h) /\ handler[h].at = "routeUpsert"
    BY <1>5 DEF UpsertRoute, Settled, Knows, RouteIsKnown
  <2>2. \A g \in Handlers \ {h} :
            handler[g].at = "routeUpsert" => handler[g].workspace # handler[h].workspace
    BY <2>1 DEF Settled, UpsertsAreAlone
  <2> QED BY <1>5, <2>1, <2>2, RouteIsWritten DEF UpsertRoute
<1> QED BY <1>2, <1>3, <1>4, <1>5

\* The selection is recorded: it is new, or the one there was.
LEMMA SelectionIsRecorded ==
    ASSUME Settled, NEW h \in Handlers, handler[h].at \in RecordSteps,
           NEW k, k = request[h].key, idempotency[k] \in {None, Fingerprint(h)},
           idempotency' = [idempotency EXCEPT ![k] = Fingerprint(h)], Reply(h, "connected"),
           UNCHANGED <<store, request, desktops, bindings, routes, toolCalls, channel, up>>
    PROVE  TablesStand /\ Settled'
<1>1. /\ UNCHANGED <<store, request, bindings, routes, toolCalls>>
      /\ UNCHANGED <<asked, ran, answer, where, up>>
      /\ UNCHANGED <<devices, catalog, recording, approved, changes>>
  BY DEF desktops, channel
<1>2. /\ TypeOK /\ Knows(h) /\ Open(h) /\ handler[h].at \in ConnectSteps
      /\ Fingerprint(h) \in Selection /\ Fingerprint(h) # None /\ k \in Keys
      /\ handler[h].workspace \in WorkspaceIds
  BY ConnectTypes, FingerprintTypes DEF ConnectSteps
<1>3. RouteHolds(h) /\ h \notin asked
  BY <1>2 DEF Knows, RouteIsKnown, CallIsKnown, RecordSteps, RouteSteps
<1>4. /\ idempotency' \in [Keys -> Selection \cup {None}] /\ idempotency'[k] = Fingerprint(h)
      /\ \A l \in Keys \ {k} : idempotency'[l] = idempotency[l]
  BY <1>2 DEF TypeOK
<1>5. /\ Moves(h) /\ handler'[h].at = "done" /\ handler'[h].device = handler[h].device
      /\ handler'[h].workspace = handler[h].workspace /\ handler'[h].reply = "connected"
  BY <1>2, ReplyMoves DEF Replies
<1>6. TypeOK'
  BY <1>1, <1>2, <1>4, <1>5 DEF TypeOK, Moves
<1>7. TablesStand
  <2>1. SelectionsKept
    BY <1>2, <1>4 DEF SelectionsKept
  <2> QED BY <1>1, <2>1 DEF TablesStand, BindingsKept, RoutesKept, AgreeOn
<1>8. \A g \in Handlers \ {h} : RestOf(g)
  BY <1>1, <1>5 DEF RestOf, Moves
<1>9. RoutesFollowPairing'
  BY <1>1 DEF Settled, RoutesFollowPairing
<1>10. SelectionsHaveRoutes'
  <2>1. /\ routes[Fingerprint(h).workspace] # None
        /\ AgreeOn(Holder, routes[Fingerprint(h).workspace], Fingerprint(h))
    BY <1>3 DEF RouteHolds, AgreeOn, Holder, Fingerprint, SameWorkspaceBinding, RouteRow
  <2> SUFFICES ASSUME NEW l \in Keys, idempotency'[l] # None
               PROVE  /\ routes[idempotency'[l].workspace] # None
                      /\ AgreeOn(Holder, routes[idempotency'[l].workspace], idempotency'[l])
    BY <1>1 DEF SelectionsHaveRoutes, AgreeOn
  <2>2. CASE l = k
    BY <1>4, <2>1, <2>2
  <2>3. CASE l # k
    BY <1>4, <2>3 DEF Settled, SelectionsHaveRoutes
  <2> QED BY <2>2, <2>3
<1>11. OnlineIsUp'
  BY <1>1, <1>2, <1>5 DEF Settled, OnlineIsUp, Moves, Open
<1>12. UpsertsAreAlone'
  BY <1>1, <1>5 DEF Settled, UpsertsAreAlone, Moves, Session
<1>13. RouteHolds(h)' /\ Fingerprint(h)' = Fingerprint(h)
  BY <1>1, <1>3, <1>5 DEF RouteHolds, RouteRow, Fingerprint, Session
<1>14. Knows(h)'
  BY <1>1, <1>2, <1>3, <1>4, <1>5, <1>7, <1>13, ConnectingKnows DEF RouteSteps, RecordSteps
<1>15. \A g \in Handlers \ {h} :
          /\ handler[g].at = "upsert" => bindings'[Session(g)] = bindings[Session(g)]
          /\ handler[g].at = "routeUpsert" =>
                 routes'[handler[g].workspace] = routes[handler[g].workspace]
  BY <1>1
<1> QED BY <1>6, <1>7, <1>8, <1>9, <1>10, <1>11, <1>12, <1>14, <1>15, Assembly

LEMMA RecordingSettles ==
    ASSUME Settled, NEW h \in Handlers,
           RecordInMemory(h) \/ FindRecorded(h) \/ InsertRecord(h)
    PROVE  TablesStand /\ Settled'
<1>1. handler[h].at \in RecordSteps /\ Open(h)
  BY DEF RecordInMemory, FindRecorded, InsertRecord, RecordSteps, Open
<1>2. CASE Quiet /\ (Reply(h, "conflict") \/ Reply(h, "failed"))
  BY <1>1, <1>2, RefusalSettles DEF RecordSteps
<1>3. CASE RecordInMemory(h)
  BY <1>1, <1>2, <1>3, SelectionIsRecorded DEF RecordInMemory, Quiet, tables, desktops
<1>4. CASE FindRecorded(h)
  <2>1. Quiet /\ handler[h].at = "record" /\ store = "postgres"
    BY <1>4 DEF FindRecorded, Quiet
  <2>2. CASE Go(h, "recordInsert")
    <3>1. handler'[h].at = "recordInsert"
      BY <2>2, GoMoves DEF Settled, Steps
    <3> QED BY <2>1, <2>2, <3>1, ConnectingGoesOn DEF Alone, RouteSteps, RecordSteps
  <2>3. CASE idempotency[request[h].key] = Fingerprint(h) /\ Reply(h, "connected")
    BY <1>1, <2>1, <2>3, FoundSelection, ConnectedSettles
  <2> QED BY <1>2, <1>4, <2>1, <2>2, <2>3 DEF FindRecorded
<1>5. CASE InsertRecord(h)
  BY <1>1, <1>2, <1>5, SelectionIsRecorded DEF InsertRecord, Quiet, tables, desktops
<1> QED BY <1>3, <1>4, <1>5

LEMMA ConnectingSettles ==
    ASSUME Settled, Serialized, NEW h \in Handlers, Connecting(h)
    PROVE  TablesStand /\ Settled'
BY ReadCatalogSettles, FindIdempotencySettles, RoutingSettles, RecordingSettles DEF Connecting

-----------------------------------------------------------------------------
(* The call.                                                                *)

\* A step of a call: the pairings, the routes and the devices are left alone.
LEMMA CallSettles ==
    ASSUME Settled, TypeOK', NEW h \in Handlers, Moves(h), Alone(h),
           UNCHANGED <<store, request, devices, bindings, routes, idempotency, up>>,
           Open(h)' => Open(h), \A g \in Handlers \ {h} : RestOf(g), Knows(h)'
    PROVE  TablesStand /\ Settled'
<1>1. TablesStand
  BY DEF TablesStand, BindingsKept, RoutesKept, SelectionsKept, AgreeOn
<1>2. RoutesFollowPairing' /\ SelectionsHaveRoutes'
  BY DEF Settled, RoutesFollowPairing, SelectionsHaveRoutes, AgreeOn
<1>3. OnlineIsUp'
  BY DEF Settled, OnlineIsUp, Moves, Open
<1>4. UpsertsAreAlone'
  <2> SUFFICES ASSUME NEW f \in Handlers, NEW g \in Handlers, f # g
               PROVE  /\ handler'[f].at = "upsert" /\ handler'[g].at = "upsert" =>
                            Session(f) # Session(g)
                      /\ handler'[f].at = "routeUpsert" /\ handler'[g].at = "routeUpsert" =>
                            handler'[f].workspace # handler'[g].workspace
    BY DEF UpsertsAreAlone, Session
  <2>1. CASE f # h /\ g # h
    BY <2>1 DEF Settled, UpsertsAreAlone, Moves
  <2>2. CASE f = h
    BY <2>2 DEF Alone, Moves
  <2>3. CASE g = h
    BY <2>3 DEF Alone, Moves
  <2> QED BY <2>1, <2>2, <2>3
<1> QED BY <1>1, <1>2, <1>3, <1>4, Assembly

\* What the handler of a file tool knows of its route.
LEMMA FileToolKnows ==
    ASSUME Settled, NEW h \in Handlers, IsFile(h), UNCHANGED <<store, request, routes>>,
           handler'[h].at \in {"resolveDevice", "resolveTouch", "send", "sent", "complete", "done"},
           handler'[h].at \in {"resolveDevice", "resolveTouch"} => store = "postgres",
           handler'[h].at \notin {"complete", "done"} => handler'[h].reply = "none",
           handler'[h].at = "complete" => handler'[h].reply \in {"result", "error"},
           handler'[h].reply # "connected", RouteIsFollowed(h)', CallIsKnown(h)'
    PROVE  Knows(h)'
<1>1. IsFile(h)' /\ ToolOf(h)' = ToolOf(h) /\ ToolOf(h) = "file_tool"
  BY DEF IsFile, ToolOf
<1>2. StepsAreOfTools(h)'
  BY <1>1 DEF Settled, Knows, StepsAreOfTools, ResolveSteps, PairingSteps, RecordSteps, RouteSteps
<1>3. PairingIsKnown(h)'
  BY <1>1 DEF PairingIsKnown, RouteSteps, RecordSteps
<1>4. RouteIsKnown(h)'
  BY <1>1 DEF RouteIsKnown, RouteSteps, RecordSteps
<1> QED BY <1>2, <1>3, <1>4 DEF Knows

\* The handler of a file tool looks up its route.
LEMMA FoundRoute ==
    ASSUME Settled, NEW h \in Handlers, IsFile(h),
           NEW route, route = routes[request[h].workspace], route # None
    PROVE  request[h].workspace \in WorkspaceIds /\ route \in Route /\ route.device \in Devices
<1>1. request[h].workspace \in WorkspaceIds
  BY RequestTypes DEF Settled, Knows, StepsAreOfTools, WellFormed, IsFile, ToolOf
<1> QED BY <1>1 DEF Settled, TypeOK, Route

LEMMA NewToolCallTypes ==
    ASSUME Settled, NEW h \in Handlers, IsFile(h),
           NEW route, route = routes[request[h].workspace], route # None
    PROVE  /\ NewToolCall(h, route) \in ToolCall /\ NewToolCall(h, route) # None
           /\ NewToolCall(h, route).device = route.device
           /\ NewToolCall(h, route).session = route.session
           /\ NewToolCall(h, route).status = "routed"
<1>1. NewToolCall(h, route) \in ToolCall
  BY FoundRoute DEF NewToolCall, ToolCall, Route
<1> QED BY <1>1 DEF NewToolCall

\* The tool call is recorded, and goes to the device of its route.
LEMMA ToolCallIsRecorded ==
    ASSUME Settled, NEW h \in Handlers, handler[h].at \in ResolveSteps, IsFile(h),
           NEW route, route = routes[request[h].workspace], route # None,
           route.session = Session(h),
           toolCalls' = [toolCalls EXCEPT ![h] = NewToolCall(h, route)],
           Moves(h), handler'[h].at = "send", handler'[h].reply = "none",
           handler'[h].device = route.device, route.device \in up[h],
           UNCHANGED <<store, request, desktops, bindings, routes, idempotency, channel, up>>
    PROVE  TablesStand /\ Settled'
<1>1. /\ UNCHANGED <<store, request, devices, bindings, routes, idempotency, up>>
      /\ UNCHANGED <<asked, ran, answer, where, catalog, recording, approved, changes>>
  BY DEF desktops, channel
<1>2. /\ TypeOK /\ Knows(h) /\ Open(h) /\ toolCalls \in [Handlers -> ToolCall \cup {None}]
  BY DEF Settled, Open, ResolveSteps, TypeOK
<1>3. NewToolCall(h, route) \in ToolCall
  BY NewToolCallTypes
<1>4. /\ toolCalls' \in [Handlers -> ToolCall \cup {None}]
      /\ toolCalls'[h] = NewToolCall(h, route)
      /\ \A g \in Handlers \ {h} : toolCalls'[g] = toolCalls[g]
  BY <1>2, <1>3
<1>5. TypeOK'
  BY <1>1, <1>2, <1>4 DEF TypeOK, Moves
<1>6. \A g \in Handlers \ {h} : RestOf(g)
  BY <1>1, <1>4 DEF RestOf, Moves
<1>7. h \notin asked
  BY <1>2 DEF Knows, CallIsKnown, ResolveSteps, RouteSteps
<1>8. RouteIsFollowed(h)'
  BY <1>1 DEF RouteIsFollowed, Session
<1>9. CallIsKnown(h)'
  BY <1>1, <1>2, <1>4, <1>7, NewToolCallTypes
     DEF Knows, CallIsKnown, CheckedSteps, RouteSteps, RecordSteps, IsFile, ToolOf, Session
<1>10. Knows(h)'
  BY <1>1, <1>8, <1>9, FileToolKnows
<1> QED BY <1>1, <1>2, <1>5, <1>6, <1>10, CallSettles DEF Alone

LEMMA ResolvingSettles ==
    ASSUME Settled, NEW h \in Handlers,
           ResolveInMemory(h) \/ ReadRoute(h) \/ ReadRouteDevice(h) \/ TouchAndRecord(h)
    PROVE  TablesStand /\ Settled'
<1> DEFINE route == routes[request[h].workspace]
<1>1. /\ TypeOK /\ Knows(h) /\ Open(h) /\ handler[h].at \in ResolveSteps /\ IsFile(h)
      /\ handler[h].reply = "none" /\ h \notin asked /\ toolCalls[h] = None
  <2>1. handler[h].at \in ResolveSteps
    BY DEF ResolveInMemory, ReadRoute, ReadRouteDevice, TouchAndRecord, ResolveSteps
  <2> QED BY <2>1 DEF Settled, Open, ResolveSteps, RouteSteps, Knows, StepsAreOfTools, CallIsKnown
<1>2. ASSUME Quiet, Refuse(h)
      PROVE  TablesStand /\ Settled'
  BY <1>1, <1>2, RefusalSettles DEF Refuse, ResolveSteps
<1>3. ASSUME Quiet, Moves(h), handler'[h].at \in {"resolveDevice", "resolveTouch"},
             handler'[h].reply = "none", store = "postgres", RouteIsFollowed(h)',
             handler'[h].at = "resolveTouch" => handler'[h].device \in up[h]
      PROVE  TablesStand /\ Settled'
  <2>1. CallIsKnown(h)'
    BY <1>1, <1>3, QuietTables
       DEF Knows, CallIsKnown, CheckedSteps, RouteSteps, RecordSteps
  <2>2. Knows(h)'
    BY <1>1, <1>3, <2>1, FileToolKnows, QuietTables
  <2> QED BY <1>1, <1>3, <2>2, QuietSettles DEF Alone
<1>4. CASE ResolveInMemory(h)
  <2>1. CASE Refuse(h) /\ UNCHANGED toolCalls
    BY <1>2, <1>4, <2>1 DEF ResolveInMemory, Quiet, tables, desktops
  <2>2. CASE /\ WorkspaceRouteable(h, route) /\ Routeable(route.device)
             /\ toolCalls' = [toolCalls EXCEPT ![h] = NewToolCall(h, route)]
             /\ GoWith(h, "send", route.device)
    <3>1. route # None /\ route.session = Session(h)
      BY <2>2 DEF WorkspaceRouteable
    <3>2. route.device \in Devices /\ route.device \in up[h]
      BY <1>1, <2>2, <3>1, FoundRoute, RouteableIsUp
    <3>3. Moves(h) /\ handler'[h].at = "send" /\ handler'[h].device = route.device
          /\ handler'[h].reply = "none"
      BY SMTT(20), <1>1, <2>2, <3>2, GoWithMoves DEF Steps
    <3> QED BY <1>1, <1>4, <2>2, <3>1, <3>2, <3>3, ToolCallIsRecorded DEF ResolveInMemory
  <2> QED BY <1>4, <2>1, <2>2 DEF ResolveInMemory
<1>5. CASE ReadRoute(h)
  <2>1. Quiet /\ store = "postgres"
    BY <1>5 DEF ReadRoute, Quiet
  <2>2. CASE WorkspaceRouteable(h, route) /\ GoWith(h, "resolveDevice", route.device)
    <3>1. route # None /\ route.session = Session(h) /\ route.device \in Devices
      BY <1>1, <2>2, FoundRoute DEF WorkspaceRouteable
    <3>2. Moves(h) /\ handler'[h].at = "resolveDevice" /\ handler'[h].device = route.device
          /\ handler'[h].reply = "none"
      BY <1>1, <2>2, <3>1, GoWithMoves DEF Steps
    <3>3. RouteIsFollowed(h)'
      BY <2>1, <3>1, <3>2, QuietTables DEF RouteIsFollowed, Session
    <3> QED BY <1>3, <2>1, <3>2, <3>3
  <2> QED BY <1>2, <1>5, <2>1, <2>2 DEF ReadRoute
<1>6. CASE ReadRouteDevice(h)
  <2>1. Quiet /\ store = "postgres" /\ RouteIsFollowed(h)
    BY <1>1, <1>6 DEF ReadRouteDevice, Quiet, Knows, StepsAreOfTools, RouteIsKnown
  <2>2. CASE Routeable(handler[h].device) /\ Go(h, "resolveTouch")
    <3>1. Moves(h) /\ handler'[h].at = "resolveTouch" /\ handler'[h].device = handler[h].device
          /\ handler'[h].reply = "none"
      BY <1>1, <2>2, GoMoves DEF Steps
    <3>2. handler[h].device \in Devices
      BY <1>1, <2>1, FoundRoute DEF RouteIsFollowed
    <3>3. RouteIsFollowed(h)' /\ handler'[h].device \in up[h]
      BY <1>1, <2>1, <2>2, <3>1, <3>2, QuietTables, RouteableIsUp DEF RouteIsFollowed, Session
    <3> QED BY <1>3, <2>1, <3>1, <3>3
  <2> QED BY <1>2, <1>6, <2>1, <2>2 DEF ReadRouteDevice
<1>7. CASE TouchAndRecord(h)
  <2>1. /\ route # None /\ route.session = Session(h) /\ route.device = handler[h].device
        /\ handler[h].device \in up[h]
    BY <1>1, <1>7
       DEF TouchAndRecord, Knows, RouteIsKnown, RouteIsFollowed, CallIsKnown, CheckedSteps
  <2>2. Moves(h) /\ handler'[h].at = "send" /\ handler'[h].device = route.device
        /\ handler'[h].reply = "none"
    BY <1>1, <1>7, <2>1, GoMoves DEF TouchAndRecord, Steps
  <2> QED BY <1>1, <1>7, <2>1, <2>2, ToolCallIsRecorded DEF TouchAndRecord
<1> QED BY <1>4, <1>5, <1>6, <1>7

\* Only the channel and the place of the run change.
ChannelStep ==
    UNCHANGED <<store, request, tables, recording, approved, up, changes>>

LEMMA ChannelStepTables ==
    ASSUME ChannelStep
    PROVE  /\ UNCHANGED <<store, request, devices, bindings, routes, idempotency, up>>
           /\ UNCHANGED <<toolCalls, catalog, recording, approved, changes>>
BY DEF ChannelStep, tables

\* What is known but for the call does not depend on the channel, except that
\* the route of a file tool that is called is known.
LEMMA KnowledgeOfCalls ==
    ASSUME Settled, NEW h \in Handlers, UNCHANGED <<store, request, bindings, routes, idempotency>>,
           handler'[h] = handler[h], h \in asked' => h \in asked, CallIsKnown(h)'
    PROVE  Knows(h)'
<1>1. /\ Knows(h) /\ ToolOf(h)' = ToolOf(h) /\ IsFile(h)' = IsFile(h) /\ Session(h)' = Session(h)
  BY DEF Settled, ToolOf, IsFile, Session
<1>2. StepsAreOfTools(h)'
  BY <1>1 DEF Knows, StepsAreOfTools, WellFormed
<1>3. PairingIsKnown(h)'
  BY <1>1 DEF Knows, PairingIsKnown, FollowsPairing, MayPair, NewBinding
<1>4. RouteIsKnown(h)'
  BY <1>1 DEF Knows, RouteIsKnown, MayRoute, RouteHolds, RouteRow, RouteIsFollowed, Fingerprint
<1> QED BY <1>2, <1>3, <1>4 DEF Knows

LEMMA RestingIsAlone ==
    ASSUME Settled, NEW h \in Handlers, UNCHANGED handler
    PROVE  Moves(h) /\ Alone(h)
BY DEF Settled, TypeOK, Moves, Alone, UpsertsAreAlone

LEMMA SendToolCallSettles ==
    ASSUME Settled, NEW h \in Handlers, SendToolCall(h)
    PROVE  TablesStand /\ Settled'
<1>1. /\ ChannelStep /\ TypeOK /\ Knows(h) /\ Open(h) /\ handler[h].at = "send" /\ where' = where
      /\ h \notin asked /\ asked' = asked \cup {h} /\ ran' = ran
      /\ answer' \in {answer, [answer EXCEPT ![h] = "AGENT_DISCONNECTED"]}
  BY DEF SendToolCall, ChannelStep, Settled, Open, Channel!Ask
<1>2. /\ Moves(h) /\ handler'[h].at = "sent" /\ handler'[h].device = handler[h].device
      /\ handler'[h].workspace = handler[h].workspace /\ handler'[h].reply = handler[h].reply
  BY <1>1, GoMoves DEF SendToolCall, Steps
<1>3. /\ ToolOf(h) \in {"open_workspace", "file_tool"} /\ handler[h].reply = "none"
      /\ answer[h] # "result" /\ h \notin ran /\ where[h] = None
      /\ handler[h].device \in up[h]
  BY <1>1 DEF Knows, StepsAreOfTools, CallIsKnown, CheckedSteps
<1>4. /\ answer' \in [Handlers -> {"none", "result", "TOOL_TIMEOUT", "AGENT_DISCONNECTED"}]
      /\ answer'[h] # "result" /\ \A g \in Handlers \ {h} : answer'[g] = answer[g]
  BY <1>1, <1>3 DEF TypeOK
<1>5. TypeOK'
  BY <1>1, <1>2, <1>4, ChannelStepTables DEF TypeOK, Moves
<1>6. \A g \in Handlers \ {h} : RestOf(g)
  BY <1>1, <1>2, <1>4, ChannelStepTables DEF RestOf, Moves
<1>7. ToolOf(h)' = ToolOf(h) /\ IsFile(h)' = IsFile(h) /\ Session(h)' = Session(h)
  BY <1>1, ChannelStepTables DEF ToolOf, IsFile, Session
<1>8. CallIsKnown(h)'
  BY <1>1, <1>2, <1>3, <1>4, <1>7, ChannelStepTables
     DEF Knows, CallIsKnown, CheckedSteps, RouteSteps, RecordSteps
<1>9. Knows(h)'
  <2>1. CASE IsFile(h)
    <3>1. RouteIsFollowed(h)'
      BY <1>1, <1>2, <1>7, <2>1, ChannelStepTables DEF Knows, RouteIsKnown, RouteIsFollowed
    <3> QED BY <1>1, <1>2, <1>3, <1>8, <2>1, <3>1, FileToolKnows, ChannelStepTables
  <2>2. CASE ToolOf(h) = "open_workspace"
    <3>1. StepsAreOfTools(h)'
      BY <1>1, <1>2, <1>3, <1>7, <2>2, ChannelStepTables
         DEF Knows, StepsAreOfTools, ResolveSteps, PairingSteps, RecordSteps, RouteSteps
    <3>2. PairingIsKnown(h)'
      BY <1>1, <1>2, <1>7, <2>2, ChannelStepTables
         DEF Knows, PairingIsKnown, FollowsPairing, RouteSteps, RecordSteps
    <3>3. RouteIsKnown(h)'
      BY <1>2, <1>3, <1>7, <2>2 DEF RouteIsKnown, RouteSteps, RecordSteps, IsFile
    <3> QED BY <1>8, <3>1, <3>2, <3>3 DEF Knows
  <2> QED BY <1>3, <2>1, <2>2 DEF IsFile
<1> QED BY <1>1, <1>2, <1>5, <1>6, <1>9, ChannelStepTables, CallSettles DEF Alone

LEMMA DesktopRunsSettles ==
    ASSUME Settled, NEW h \in Handlers, DesktopRuns(h)
    PROVE  TablesStand /\ Settled'
<1>1. /\ ChannelStep /\ TypeOK /\ Knows(h) /\ handler' = handler
      /\ h \in asked /\ h \notin ran /\ ran' = ran \cup {h} /\ UNCHANGED <<asked, answer>>
  BY DEF DesktopRuns, ChannelStep, Settled, Channel!Run
<1>2. ToolOf(h) \in {"open_workspace", "file_tool"} /\ where[h] = None
  <2>1. ToolOf(h) \in {"open_workspace", "file_tool"}
    BY <1>1 DEF Knows, CallIsKnown
  <2>2. where[h] = None
    BY <1>1 DEF Knows, CallIsKnown
  <2> QED BY <2>1, <2>2
<1>3. /\ where' \in [Handlers -> Refs \cup {None}]
      /\ \A g \in Handlers \ {h} : where'[g] = where[g]
      /\ where'[h] # None => IsFile(h)
  <2>1. CASE UNCHANGED where
    BY <1>1, <1>2, <2>1 DEF TypeOK
  <2>2. ASSUME ToolOf(h) # "open_workspace", NEW r \in FindWorkspace(h),
               where' = [where EXCEPT ![h] = r]
        PROVE  /\ where' \in [Handlers -> Refs \cup {None}]
               /\ \A g \in Handlers \ {h} : where'[g] = where[g]
               /\ where'[h] # None => IsFile(h)
    <3>1. handler[h].device \in up[h] /\ up[h] \subseteq Devices
      BY <1>1 DEF Knows, CallIsKnown, TypeOK
    <3>2. r \in Refs
      BY <1>1, <2>2, <3>1 DEF FindWorkspace, TypeOK
    <3> QED BY <1>1, <1>2, <2>2, <3>2 DEF TypeOK, IsFile
  <2> QED BY <2>1, <2>2 DEF DesktopRuns, ToolOf
<1>4. TypeOK'
  BY <1>1, <1>3, ChannelStepTables DEF TypeOK
<1>5. \A g \in Handlers \ {h} : RestOf(g)
  BY <1>1, <1>3, ChannelStepTables DEF RestOf
<1>6. CallIsKnown(h)'
  <2>1. ToolOf(h)' = ToolOf(h) /\ IsFile(h)' = IsFile(h) /\ Session(h)' = Session(h)
    BY <1>1, ChannelStepTables DEF ToolOf, IsFile, Session
  <2>2. h \in ran'
    BY <1>1
  <2> QED BY <1>1, <1>3, <2>1, <2>2, ChannelStepTables DEF Knows, CallIsKnown
<1>7. Knows(h)'
  BY <1>1, <1>6, KnowledgeOfCalls, ChannelStepTables
<1> QED BY <1>1, <1>4, <1>5, <1>7, RestingIsAlone, ChannelStepTables, CallSettles DEF Open

LEMMA ChannelAnswersSettles ==
    ASSUME Settled, NEW h \in Handlers, NEW a \in Channel!Errors \cup {"result"}, ChannelAnswers(h, a)
    PROVE  TablesStand /\ Settled'
<1>1. /\ ChannelStep /\ TypeOK /\ Knows(h) /\ handler' = handler /\ where' = where
      /\ h \in asked /\ (a = "result" => h \in ran) /\ UNCHANGED <<asked, ran>>
      /\ answer[h] = "none"
      /\ answer' = [g \in Handlers |-> IF g \in {h} THEN a ELSE answer[g]]
  BY DEF ChannelAnswers, ChannelStep, Settled, Channel!Answer
<1>2. TypeOK'
  BY <1>1, ChannelStepTables DEF TypeOK, Channel!Errors
<1>3. \A g \in Handlers \ {h} : RestOf(g)
  BY <1>1, ChannelStepTables DEF RestOf
<1>4. CallIsKnown(h)'
  <2>1. ToolOf(h)' = ToolOf(h) /\ IsFile(h)' = IsFile(h) /\ Session(h)' = Session(h)
    BY <1>1, ChannelStepTables DEF ToolOf, IsFile, Session
  <2> QED BY <1>1, <2>1, ChannelStepTables DEF Knows, CallIsKnown
<1>5. Knows(h)'
  BY <1>1, <1>4, KnowledgeOfCalls, ChannelStepTables
<1> QED BY <1>1, <1>2, <1>3, <1>5, RestingIsAlone, ChannelStepTables, CallSettles DEF Open

LEMMA CompleteToolCallSettles ==
    ASSUME Settled, NEW h \in Handlers, CompleteToolCall(h)
    PROVE  TablesStand /\ Settled'
<1>1. /\ UNCHANGED <<store, request, devices, bindings, routes, idempotency, up>>
      /\ UNCHANGED <<asked, ran, answer, where, catalog, recording, approved, changes>>
  BY DEF CompleteToolCall, desktops, channel
<1>2. /\ TypeOK /\ Knows(h) /\ Open(h) /\ IsFile(h) /\ handler[h].at = "complete"
      /\ toolCalls[h] # None /\ toolCalls \in [Handlers -> ToolCall \cup {None}]
      /\ toolCalls[h] \in ToolCall
      /\ handler[h].reply = "result" => h \in ran /\ where[h] # None
  BY DEF CompleteToolCall, Settled, Open, Knows, StepsAreOfTools, CallIsKnown, TypeOK
<1>3. /\ Moves(h) /\ handler'[h].at = "done" /\ handler'[h].device = handler[h].device
      /\ handler'[h].workspace = handler[h].workspace /\ handler'[h].reply = handler[h].reply
  BY <1>2, GoMoves DEF CompleteToolCall, Steps
<1> DEFINE status == IF handler[h].reply = "result" THEN "completed" ELSE "failed"
           new == [toolCalls[h] EXCEPT !.status = status]
<1>4. /\ new \in ToolCall /\ new # None /\ new.status = status
      /\ new.device = toolCalls[h].device /\ new.session = toolCalls[h].session
  <2>1. new \in ToolCall
    BY <1>2 DEF ToolCall
  <2> QED BY <1>2, <2>1 DEF ToolCall
<1>5. /\ toolCalls' \in [Handlers -> ToolCall \cup {None}]
      /\ \A g \in Handlers \ {h} : toolCalls'[g] = toolCalls[g]
      /\ \/ toolCalls'[h] = new
         \/ toolCalls'[h] = toolCalls[h]
  <2>1. toolCalls' = [toolCalls EXCEPT ![h] = new] \/ toolCalls' = toolCalls
    BY <1>2 DEF CompleteToolCall
  <2> HIDE DEF new
  <2> QED BY <1>2, <1>4, <2>1
<1> HIDE DEF new
<1>6. TypeOK'
  BY <1>1, <1>2, <1>3, <1>5 DEF TypeOK, Moves
<1>7. \A g \in Handlers \ {h} : RestOf(g)
  BY <1>1, <1>3, <1>5 DEF RestOf, Moves
<1>8. RouteIsFollowed(h)'
  BY <1>1, <1>2, <1>3 DEF Knows, RouteIsKnown, RouteIsFollowed, Session
<1>9. CallIsKnown(h)'
  <2>1. ToolOf(h)' = ToolOf(h) /\ IsFile(h)' = IsFile(h) /\ Session(h)' = Session(h)
    BY <1>1 DEF ToolOf, IsFile, Session
  <2> QED BY <1>1, <1>2, <1>3, <1>4, <1>5, <2>1
          DEF Knows, CallIsKnown, CheckedSteps, RouteSteps, RecordSteps
<1>10. handler[h].reply # "connected"
  BY <1>2 DEF Knows, StepsAreOfTools
<1>11. Knows(h)'
  BY <1>1, <1>2, <1>3, <1>8, <1>9, <1>10, FileToolKnows
<1> QED BY <1>1, <1>2, <1>3, <1>6, <1>7, <1>11, CallSettles DEF Alone

\* A tool of a workspace has run, or has not, and the handler knows.
LEMMA AnsweredSettles ==
    ASSUME Settled, NEW h \in Handlers, Answered(h)
    PROVE  TablesStand /\ Settled'
<1>1. /\ Quiet /\ TypeOK /\ Knows(h) /\ Open(h) /\ handler[h].at = "sent"
      /\ handler[h].reply = "none" /\ handler[h].device \in up[h]
      /\ handler \in [Handlers -> Handler] /\ handler[h] \in Handler
      /\ ToolOf(h) \in {"open_workspace", "file_tool"}
  BY DEF Answered, Quiet, Settled, Open, Knows, StepsAreOfTools, CallIsKnown, CheckedSteps, TypeOK
<1>2. /\ ToolOf(h)' = ToolOf(h) /\ IsFile(h)' = IsFile(h) /\ Session(h)' = Session(h)
      /\ RouteIsFollowed(h) /\ handler'[h].device = handler[h].device => RouteIsFollowed(h)'
      /\ FollowsPairing(h) /\ handler'[h].device = handler[h].device => FollowsPairing(h)'
  BY <1>1, QuietTables DEF ToolOf, IsFile, Session, RouteIsFollowed, FollowsPairing
<1>3. ASSUME IsFile(h), NEW reply \in {"result", "error"}, reply = "result" => h \in ran /\ where[h] # None,
             NEW new, new = [handler[h] EXCEPT !.at = "complete", !.reply = reply],
             handler' = [handler EXCEPT ![h] = new]
      PROVE  TablesStand /\ Settled'
  <2>1. /\ new \in Handler /\ new.at = "complete" /\ new.reply = reply
        /\ new.device = handler[h].device
    BY <1>1, <1>3 DEF Handler, Steps, Replies
  <2>2. Moves(h) /\ handler'[h] = new
    BY <1>1, <1>3, <2>1 DEF Moves
  <2>3. RouteIsFollowed(h)'
    BY <1>1, <1>2, <1>3, <2>1, <2>2 DEF Knows, RouteIsKnown
  <2>4. CallIsKnown(h)'
    BY <1>1, <1>2, <1>3, <2>1, <2>2, QuietTables
       DEF Knows, CallIsKnown, CheckedSteps, RouteSteps, RecordSteps
  <2>5. Knows(h)'
    BY <1>1, <1>3, <2>1, <2>2, <2>3, <2>4, FileToolKnows, QuietTables
  <2> QED BY <1>1, <2>1, <2>2, <2>5, QuietSettles DEF Alone
<1>4. ASSUME ToolOf(h) = "open_workspace", NEW new \in Handler,
             \/ new.at = "done" /\ new.reply = "error"
             \/ new.at = "routeDevice" /\ new.reply = "none" /\ new.workspace # None,
             new.device = handler[h].device, handler' = [handler EXCEPT ![h] = new]
      PROVE  TablesStand /\ Settled'
  <2>1. Moves(h) /\ handler'[h] = new
    BY <1>1, <1>4 DEF Moves
  <2>2. FollowsPairing(h)'
    BY <1>1, <1>2, <1>4, <2>1 DEF Knows, PairingIsKnown
  <2>3. StepsAreOfTools(h)'
    BY <1>1, <1>2, <1>4, <2>1, QuietTables
       DEF Knows, StepsAreOfTools, ResolveSteps, PairingSteps, RecordSteps, RouteSteps
  <2>4. PairingIsKnown(h)'
    BY <1>4, <2>1, <2>2 DEF PairingIsKnown, RouteSteps, RecordSteps
  <2>5. RouteIsKnown(h)'
    BY <1>2, <1>4, <2>1 DEF RouteIsKnown, RouteSteps, RecordSteps, IsFile
  <2>6. CallIsKnown(h)'
    BY <1>1, <1>2, <1>4, <2>1, QuietTables
       DEF Knows, CallIsKnown, CheckedSteps, RouteSteps, RecordSteps, IsFile
  <2>7. Knows(h)'
    BY <2>3, <2>4, <2>5, <2>6 DEF Knows
  <2> QED BY <1>1, <1>4, <2>1, <2>7, QuietSettles DEF Alone
<1>5. CASE IsFile(h)
  <2>1. \/ /\ answer[h] = "result" /\ where[h] # None
           /\ handler' = [handler EXCEPT ![h] = [handler[h] EXCEPT !.at = "complete", !.reply = "result"]]
        \/ handler' = [handler EXCEPT ![h] = [handler[h] EXCEPT !.at = "complete", !.reply = "error"]]
    <3>1. request[h].tool # "open_workspace"
      BY <1>5 DEF IsFile, ToolOf
    <3>2. [handler[h] EXCEPT !.at = "complete", !.workspace = handler[h].workspace, !.reply = "result"]
          = [handler[h] EXCEPT !.at = "complete", !.reply = "result"]
      BY <1>1 DEF Handler
    <3>3. \/ /\ answer[h] = "result" /\ where[h] # None
             /\ handler' = [handler EXCEPT ![h] = [handler[h] EXCEPT
                    !.at = "complete", !.workspace = handler[h].workspace, !.reply = "result"]]
          \/ handler' = [handler EXCEPT ![h] = [handler[h] EXCEPT !.at = "complete", !.reply = "error"]]
      BY <1>1, <3>1 DEF Answered
    <3> QED BY <3>2, <3>3
  <2>2. answer[h] = "result" => h \in ran
    BY <1>1 DEF Knows, CallIsKnown
  <2> QED BY <1>3, <1>5, <2>1, <2>2
<1>6. CASE ToolOf(h) = "open_workspace"
  <2>1. \/ handler' = [handler EXCEPT ![h] =
                [handler[h] EXCEPT !.at = "routeDevice", !.workspace = h, !.reply = handler[h].reply]]
        \/ handler' = [handler EXCEPT ![h] = [handler[h] EXCEPT !.at = "done", !.reply = "error"]]
    BY <1>1, <1>6 DEF Answered, ToolOf
  <2>2. h \in WorkspaceIds /\ h # None
    BY DEF WorkspaceIds
  <2>3. CASE handler' = [handler EXCEPT ![h] = [handler[h] EXCEPT !.at = "done", !.reply = "error"]]
    <3> DEFINE new == [handler[h] EXCEPT !.at = "done", !.reply = "error"]
    <3>1. new \in Handler /\ new.at = "done" /\ new.reply = "error" /\ new.device = handler[h].device
      BY <1>1 DEF Handler, Steps, Replies
    <3> HIDE DEF new
    <3> QED BY <1>4, <1>6, <2>3, <3>1 DEF new
  <2>4. CASE handler' = [handler EXCEPT ![h] =
                [handler[h] EXCEPT !.at = "routeDevice", !.workspace = h, !.reply = handler[h].reply]]
    <3> DEFINE new == [handler[h] EXCEPT !.at = "routeDevice", !.workspace = h, !.reply = handler[h].reply]
    <3>1. /\ new \in Handler /\ new.at = "routeDevice" /\ new.reply = "none" /\ new.workspace # None
          /\ new.device = handler[h].device
      BY <1>1, <2>2 DEF Handler, Steps
    <3>2. handler' = [handler EXCEPT ![h] = new]
      BY <2>4
    <3> HIDE DEF new
    <3> QED BY <1>4, <1>6, <3>1, <3>2
  <2> QED BY <2>1, <2>3, <2>4
<1> QED BY <1>1, <1>5, <1>6 DEF IsFile

LEMMA CallingSettles ==
    ASSUME Settled, NEW h \in Handlers, Calling(h)
    PROVE  TablesStand /\ Settled'
BY ResolvingSettles, SendToolCallSettles, DesktopRunsSettles, ChannelAnswersSettles,
   AnsweredSettles, CompleteToolCallSettles DEF Calling

-----------------------------------------------------------------------------
(* A request arrives; the devices change.                                   *)

LEMMA ReceiveSettles ==
    ASSUME Settled, NEW h \in Handlers, Receive(h)
    PROVE  TablesStand /\ Settled'
<1> DEFINE r == request[h]
           online == {d \in Devices : devices[d] = "online"}
<1>1. /\ UNCHANGED <<store, request, devices, bindings, routes, toolCalls, idempotency>>
      /\ UNCHANGED <<asked, ran, answer, where, catalog, recording, approved, changes>>
      /\ up' = [up EXCEPT ![h] = online] /\ handler[h].at = "new" /\ TypeOK /\ Knows(h)
      /\ {"resolve", "pairDevice", "binding"} \subseteq Steps
  BY DEF Receive, tables, channel, Settled, Steps
<1>2. /\ up' \in [Handlers -> SUBSET Devices] /\ up'[h] = online
      /\ \A g \in Handlers \ {h} : up'[g] = up[g]
  BY <1>1 DEF TypeOK
<1>3. /\ handler[h].reply = "none" /\ h \notin asked /\ h \notin ran /\ answer[h] # "result"
      /\ toolCalls[h] = None /\ where[h] = None /\ WellFormed(request[h])
  BY <1>1 DEF Knows, StepsAreOfTools, CallIsKnown, RouteSteps
<1>4. /\ Moves(h) /\ handler'[h].reply = "none"
      /\ \/ IsFile(h) /\ handler'[h].at = "resolve"
         \/ ~IsFile(h) /\ handler'[h].at = "binding"
         \/ ~IsFile(h) /\ handler'[h].at = "pairDevice" /\ handler'[h].device # None
  <2>1. CASE IsFile(h)
    BY <1>1, <1>3, <2>1, GoMoves DEF Receive, IsFile, ToolOf
  <2>2. CASE ~IsFile(h) /\ r.tool = "connect_desktop" /\ r.device # None
    <3>1. GoWith(h, "pairDevice", r.device) /\ r.device \in Devices
      BY <1>1, <2>2, RequestTypes DEF Receive, IsFile, ToolOf
    <3> QED BY <1>1, <1>3, <2>2, <3>1, GoWithMoves
  <2>3. CASE ~IsFile(h) /\ ~(r.tool = "connect_desktop" /\ r.device # None)
    <3>1. Go(h, "binding")
      BY <2>3 DEF Receive, IsFile, ToolOf
    <3> QED BY <1>1, <1>3, <2>3, <3>1, GoMoves
  <2> QED BY <2>1, <2>2, <2>3
<1>5. TypeOK'
  BY <1>1, <1>2, <1>4 DEF TypeOK, Moves
<1>6. TablesStand
  BY <1>1 DEF TablesStand, BindingsKept, RoutesKept, SelectionsKept, AgreeOn
<1>7. \A g \in Handlers \ {h} : RestOf(g)
  BY <1>1, <1>2, <1>4 DEF RestOf, Moves
<1>8. RoutesFollowPairing' /\ SelectionsHaveRoutes'
  BY <1>1 DEF Settled, RoutesFollowPairing, SelectionsHaveRoutes, AgreeOn
<1>9. OnlineIsUp'
  <2> SUFFICES ASSUME NEW g \in Handlers, Open(g)', NEW d \in Devices, devices[d] = "online"
               PROVE  d \in up'[g]
    BY <1>1 DEF OnlineIsUp
  <2>1. CASE g = h
    BY <1>2, <2>1
  <2>2. CASE g # h
    BY <1>2, <1>4, <2>2 DEF Settled, OnlineIsUp, Open, Moves
  <2> QED BY <2>1, <2>2
<1>10. UpsertsAreAlone'
  BY <1>1, <1>4 DEF Settled, UpsertsAreAlone, Moves, Session
<1>11. Knows(h)'
  <2>1. ToolOf(h)' = ToolOf(h) /\ IsFile(h)' = IsFile(h) /\ Session(h)' = Session(h)
    BY <1>1 DEF ToolOf, IsFile, Session
  <2>2. StepsAreOfTools(h)'
    BY <1>1, <1>3, <1>4, <2>1
       DEF StepsAreOfTools, ResolveSteps, PairingSteps, RecordSteps, RouteSteps
  <2>3. PairingIsKnown(h)' /\ RouteIsKnown(h)'
    BY <1>1, <1>3, <1>4 DEF PairingIsKnown, RouteIsKnown, RouteSteps, RecordSteps
  <2>4. CallIsKnown(h)'
    BY <1>1, <1>3, <1>4 DEF CallIsKnown, CheckedSteps, RouteSteps, RecordSteps
  <2> QED BY <2>2, <2>3, <2>4 DEF Knows
<1>12. \A g \in Handlers \ {h} :
          /\ handler[g].at = "upsert" => bindings'[Session(g)] = bindings[Session(g)]
          /\ handler[g].at = "routeUpsert" =>
                 routes'[handler[g].workspace] = routes[handler[g].workspace]
  BY <1>1
<1> QED BY <1>5, <1>6, <1>7, <1>8, <1>9, <1>10, <1>11, <1>12, Assembly

DeviceStep(d) ==
    \/ \E status \in {"online", "offline", "revoked", "expired"} : SetDeviceStatus(d, status)
    \/ \E refs \in SUBSET Refs : ChangeApproved(d, refs)
    \/ RecordCatalogInMemory(d) \/ DeleteCatalog(d) \/ InsertCatalogEntry(d)

\* No handler moves, and whoever comes online is noted.
LEMMA DeviceChanges ==
    ASSUME Settled, NEW d \in Devices, DeviceStep(d)
    PROVE  /\ TypeOK' /\ UNCHANGED <<store, request, handler, bindings, routes, toolCalls, idempotency>>
           /\ UNCHANGED <<asked, ran, answer, where>>
           /\ \A h \in Handlers : up[h] \subseteq up'[h]
           /\ OnlineIsUp'
<1>1. TypeOK /\ OnlineIsUp /\ changes \in 0 .. MaxChanges
      /\ devices \in [Devices -> {"unknown", "online", "offline", "revoked", "expired"}]
      /\ up \in [Handlers -> SUBSET Devices]
      /\ catalog \in [Devices -> SUBSET Refs] /\ recording \in [Devices -> SUBSET Refs]
      /\ approved \in [Devices -> SUBSET Refs]
  BY DEF Settled, TypeOK
<1>2. ASSUME NEW status \in {"online", "offline", "revoked", "expired"}, SetDeviceStatus(d, status)
      PROVE  /\ TypeOK' /\ UNCHANGED <<store, request, handler, bindings, routes, toolCalls, idempotency>>
             /\ UNCHANGED <<asked, ran, answer, where>>
             /\ \A h \in Handlers : up[h] \subseteq up'[h]
             /\ OnlineIsUp'
  <2>1. /\ UNCHANGED <<store, request, handler, bindings, routes, toolCalls, idempotency>>
        /\ UNCHANGED <<asked, ran, answer, where, catalog, recording, approved>>
        /\ changes' \in 0 .. MaxChanges /\ devices' = [devices EXCEPT ![d] = status]
        /\ up' = IF status = "online" THEN [h \in Handlers |->
                    IF Open(h) THEN up[h] \cup {d} ELSE up[h]] ELSE up
    BY <1>1, <1>2 DEF SetDeviceStatus, Change, channel
  <2>2. up' \in [Handlers -> SUBSET Devices] /\ \A h \in Handlers : up[h] \subseteq up'[h]
    BY <1>1, <2>1
  <2>3. OnlineIsUp'
    BY <1>1, <2>1, <2>2 DEF OnlineIsUp, Open
  <2>4. TypeOK'
    BY <1>1, <2>1, <2>2 DEF TypeOK
  <2> QED BY <2>1, <2>2, <2>3, <2>4
<1>3. ASSUME ~\E status \in {"online", "offline", "revoked", "expired"} : SetDeviceStatus(d, status)
      PROVE  /\ UNCHANGED <<store, request, handler, devices, bindings, routes, toolCalls, idempotency>>
             /\ UNCHANGED <<asked, ran, answer, where, up>>
             /\ changes' \in 0 .. MaxChanges
             /\ catalog' \in [Devices -> SUBSET Refs] /\ recording' \in [Devices -> SUBSET Refs]
             /\ approved' \in [Devices -> SUBSET Refs]
  <2>1. CASE \E refs \in SUBSET Refs : ChangeApproved(d, refs)
    BY <1>1, <2>1 DEF ChangeApproved, Change, tables, channel
  <2>2. CASE RecordCatalogInMemory(d)
    BY <1>1, <2>2 DEF RecordCatalogInMemory, channel
  <2>3. CASE DeleteCatalog(d)
    BY <1>1, <2>3 DEF DeleteCatalog, channel
  <2>4. CASE InsertCatalogEntry(d)
    BY <1>1, <2>4 DEF InsertCatalogEntry, channel
  <2> QED BY <1>3, <2>1, <2>2, <2>3, <2>4 DEF DeviceStep
<1>4. CASE ~\E status \in {"online", "offline", "revoked", "expired"} : SetDeviceStatus(d, status)
  <2>1. TypeOK'
    BY <1>1, <1>3, <1>4 DEF TypeOK
  <2>2. OnlineIsUp'
    BY <1>1, <1>3, <1>4 DEF OnlineIsUp, Open
  <2> QED BY <1>3, <1>4, <2>1, <2>2
<1> QED BY <1>2, <1>4

LEMMA DeviceSettles ==
    ASSUME Settled, NEW d \in Devices, DeviceStep(d)
    PROVE  TablesStand /\ Settled'
<1>1. /\ TypeOK' /\ UNCHANGED <<store, request, handler, bindings, routes, toolCalls, idempotency>>
      /\ UNCHANGED <<asked, ran, answer, where>>
      /\ \A h \in Handlers : up[h] \subseteq up'[h]
      /\ OnlineIsUp'
  BY DeviceChanges
<1>2. TablesStand
  BY <1>1 DEF TablesStand, BindingsKept, RoutesKept, SelectionsKept, AgreeOn
<1>3. \A h \in Handlers : RestOf(h)
  BY <1>1 DEF RestOf
<1>4. \A h \in Handlers : Knows(h)'
  BY <1>1, <1>2, <1>3, KnowledgeStays DEF Settled
<1>5. RoutesFollowPairing' /\ SelectionsHaveRoutes' /\ UpsertsAreAlone'
  BY <1>1 DEF Settled, RoutesFollowPairing, SelectionsHaveRoutes, UpsertsAreAlone, AgreeOn, Session
<1> QED BY <1>1, <1>2, <1>4, <1>5 DEF Settled

LEMMA NextSettles ==
    ASSUME Settled, Serialized, [Next]_vars
    PROVE  TablesStand /\ Settled'
<1>1. CASE UNCHANGED vars
  <2>1. /\ UNCHANGED <<store, request, handler, devices, bindings, routes, toolCalls, idempotency>>
        /\ UNCHANGED <<asked, ran, answer, where, up, catalog, recording, approved, changes>>
    BY <1>1 DEF vars, tables, channel
  <2>2. TypeOK' /\ TablesStand /\ \A h \in Handlers : RestOf(h)
    BY <2>1 DEF Settled, TypeOK, TablesStand, BindingsKept, RoutesKept, SelectionsKept, AgreeOn, RestOf
  <2>3. \A h \in Handlers : Knows(h)'
    BY <2>1, <2>2, KnowledgeStays DEF Settled
  <2>4. RoutesFollowPairing' /\ SelectionsHaveRoutes' /\ UpsertsAreAlone' /\ OnlineIsUp'
    BY <2>1 DEF Settled, RoutesFollowPairing, SelectionsHaveRoutes, UpsertsAreAlone, OnlineIsUp,
                AgreeOn, Session, Open
  <2> QED BY <2>2, <2>3, <2>4 DEF Settled
<1> QED
  BY <1>1, ReceiveSettles, PairingSettles, ConnectingSettles, CallingSettles, DeviceSettles
     DEF Next, DeviceStep

LEMMA InitSettles ==
    ASSUME Init
    PROVE  Settled
<1>1. /\ store \in Stores /\ request \in Plays
      /\ bindings = [s \in Sessions |-> None] /\ routes = [w \in WorkspaceIds |-> None]
      /\ toolCalls = [h \in Handlers |-> None] /\ idempotency = [k \in Keys |-> None]
      /\ asked = {} /\ ran = {} /\ answer = [h \in Handlers |-> "none"]
      /\ where = [h \in Handlers |-> None] /\ up = [h \in Handlers |-> {}] /\ changes = 0
  BY DEF Init, Channel!Init
<1>2. /\ handler \in [Handlers -> Handler]
      /\ \A h \in Handlers : handler[h].at = "new" /\ handler[h].device = None
                             /\ handler[h].workspace = None /\ handler[h].reply = "none"
  BY DEF Init, Handler, Steps, Replies
<1>3. request \in [Handlers -> Request] /\ \A h \in Handlers : WellFormed(request[h])
  BY <1>1
<1>4. TypeOK
  <2>1. devices \in [Devices -> {"unknown", "online", "offline", "revoked", "expired"}]
        /\ catalog \in [Devices -> SUBSET Refs]
        /\ recording \in [Devices -> SUBSET Refs] /\ approved \in [Devices -> SUBSET Refs]
    BY DEF Init
  <2> QED BY <1>1, <1>2, <1>3, <2>1 DEF TypeOK
<1>5. ASSUME NEW h \in Handlers PROVE Knows(h)
  <2>1. handler[h].at = "new" /\ handler[h].reply = "none" /\ WellFormed(request[h])
        /\ h \notin asked /\ h \notin ran /\ answer[h] = "none" /\ toolCalls[h] = None /\ where[h] = None
    BY <1>1, <1>2, <1>3
  <2>2. StepsAreOfTools(h)
    BY <2>1 DEF StepsAreOfTools, ResolveSteps, PairingSteps, RecordSteps, RouteSteps
  <2>3. PairingIsKnown(h) /\ RouteIsKnown(h)
    BY <2>1 DEF PairingIsKnown, RouteIsKnown, RouteSteps, RecordSteps
  <2>4. CallIsKnown(h)
    BY <2>1 DEF CallIsKnown, CheckedSteps, RouteSteps, RecordSteps
  <2> QED BY <2>2, <2>3, <2>4 DEF Knows
<1>6. RoutesFollowPairing /\ SelectionsHaveRoutes /\ OnlineIsUp /\ UpsertsAreAlone
  BY <1>1, <1>2 DEF RoutesFollowPairing, SelectionsHaveRoutes, OnlineIsUp, UpsertsAreAlone, Open
<1> QED BY <1>4, <1>5, <1>6 DEF Settled

-----------------------------------------------------------------------------
(* What is promised.                                                        *)

\* Two who are told that they are connected under a key find the same
\* selection recorded under it, and each has the route he is told of.
LEMMA OneSelection ==
    ASSUME Settled
    PROVE  OneSelectionPerKey
<1>1. \A h \in Handlers : Knows(h) /\ RouteIsKnown(h)
  BY DEF Settled, Knows
<1>2. ASSUME NEW g \in Handlers, NEW h \in Handlers,
             handler[g].reply = "connected", handler[h].reply = "connected",
             request[g].key = request[h].key, request[h].key # None
      PROVE  Fingerprint(g) = Fingerprint(h)
  BY <1>1, <1>2 DEF RouteIsKnown
<1>3. ASSUME NEW h \in Handlers, handler[h].reply = "connected"
      PROVE  /\ routes[handler[h].workspace] # None
             /\ AgreeOn(Holder, routes[handler[h].workspace], Fingerprint(h))
  <2>1. RouteHolds(h)
    BY <1>1, <1>3 DEF RouteIsKnown
  <2> QED BY <2>1 DEF RouteHolds, SameWorkspaceBinding, RouteRow, AgreeOn, Holder, Fingerprint
<1> QED BY <1>2, <1>3 DEF OneSelectionPerKey

LEMMA SentUp ==
    ASSUME Settled
    PROVE  SentWhileUp
BY DEF Settled, Knows, CallIsKnown, SentWhileUp

\* Routes and pairings agree, at every moment (connectWorkspace,
\* openWorkspace).
THEOREM RoutesLeadToPairedDevices ==
    ASSUME Serialized PROVE Spec => [](TypeOK /\ RoutesFollowPairing)
<1>1. Init => Settled
  BY InitSettles
<1>2. Settled /\ [Next]_vars => Settled'
  BY NextSettles
<1>3. Settled => TypeOK /\ RoutesFollowPairing
  BY DEF Settled
<1> QED BY <1>1, <1>2, <1>3, PTL DEF Spec

\* What was bound stands (bindDevice, resolveDevice, bindWorkspaceRoute).
THEOREM WhatIsBoundStands ==
    ASSUME Serialized PROVE Spec => BindingsStand
<1>1. Init => Settled
  BY InitSettles
<1>2. Settled /\ [Next]_vars => Settled'
  BY NextSettles
<1>3. Settled /\ [Next]_vars =>
          [/\ \A s \in Sessions : bindings[s] # None => bindings'[s] = bindings[s]
           /\ \A w \in WorkspaceIds :
                 routes[w] # None =>
                     routes'[w] # None /\ AgreeOn(Holder, routes[w], routes'[w])]_vars
  BY NextSettles DEF TablesStand, BindingsKept, RoutesKept
<1> QED BY <1>1, <1>2, <1>3, PTL DEF Spec, BindingsStand

\* One key, one workspace, and who is told that it is connected has its route
\* (recordIdempotency, connectWorkspace).
THEOREM KeysSelectOneWorkspace ==
    ASSUME Serialized PROVE Spec => []OneSelectionPerKey
<1>1. Init => Settled
  BY InitSettles
<1>2. Settled /\ [Next]_vars => Settled'
  BY NextSettles
<1> QED BY <1>1, <1>2, OneSelection, PTL DEF Spec

\* A call goes to a device that was online while its checks were made, and the
\* record of it is true (resolveWorkspaceRoute, callWorkspaceTool).
THEOREM CallsAreSentToOnlineDevices ==
    ASSUME Serialized PROVE Spec => []SentWhileUp
<1>1. Init => Settled
  BY InitSettles
<1>2. Settled /\ [Next]_vars => Settled'
  BY NextSettles
<1> QED BY <1>1, <1>2, SentUp, PTL DEF Spec

-----------------------------------------------------------------------------
(* Where a tool runs.                                                       *)

\* w is, for a desktop, the workspace with the ref r: the ref itself, or the
\* id that the gateway makes of it.
Names(w, r) ==
    w = r \/ \E s \in Sessions, c \in Conversations \cup {None}, d \in Devices : w = <<s, c, d, r>>

\* A workspaceId that a caller of connect_workspace makes up, and the id of an
\* opened workspace, name no other workspace of a desktop than the one that is
\* connected.  The code asks no caller for it.
IdsAreOwn ==
    /\ \A w \in Handlers, r \in Refs : ~Names(w, r)
    /\ \A w \in DeterministicIds, r \in Refs : w # r
    /\ \A play \in Plays, h \in Handlers, r \in Refs :
          play[h].tool = "connect_workspace" /\ Names(play[h].workspace, r) => play[h].ref = r

\* The steps at which a handler has the workspace that it connects.
NamedSteps == RouteSteps \cup {"replay"}

RefsAreNamed ==
    /\ request \in Plays
    /\ \A w \in WorkspaceIds : routes[w] # None =>
          \A r \in Refs : Names(w, r) => routes[w].ref = r
    /\ \A h \in Handlers :
          handler[h].at \in NamedSteps =>
              \A r \in Refs : Names(handler[h].workspace, r) => request[h].ref = r
    /\ \A h \in Handlers : where[h] # None => Names(request[h].workspace, where[h])

\* No handler comes to connect a workspace, and no tool starts to run.
KeepsNames ==
    /\ UNCHANGED <<request, where>>
    /\ \A g \in Handlers : handler'[g].at \in NamedSteps =>
          handler[g].at \in NamedSteps /\ handler'[g].workspace = handler[g].workspace

LEMMA NamesAreKept ==
    ASSUME Settled, RefsAreNamed, KeepsNames, UNCHANGED routes
    PROVE  RefsAreNamed'
BY DEF RefsAreNamed, KeepsNames

LEMMA HandlerKeepsNames ==
    ASSUME NEW h \in Handlers, Moves(h), UNCHANGED <<request, where>>,
           handler'[h].at \in NamedSteps =>
              handler[h].at \in NamedSteps /\ handler'[h].workspace = handler[h].workspace
    PROVE  KeepsNames
BY DEF KeepsNames, Moves

LEMMA DeterministicIdNames ==
    ASSUME IdsAreOwn, NEW w \in DeterministicIds, NEW r \in Refs, Names(w, r)
    PROVE  w[4] = r
BY DEF IdsAreOwn, Names, DeterministicIds

LEMMA PairingNames ==
    ASSUME Settled, RefsAreNamed, NEW h \in Handlers, Pairing(h)
    PROVE  RefsAreNamed'
<1>1. TypeOK /\ UNCHANGED <<request, where, routes>>
  BY DEF Settled, Pairing, ReadBinding, ReadDevice, TouchBinding, ListOnline, PairDevice,
         PairInMemory, CheckPairing, UpsertPairing, tables, channel
<1>2. Moves(h) /\ handler'[h].at \notin NamedSteps
  <2>1. \A at \in {"pairDevice", "online", "device", "touch", "pair", "upsert", "done"} :
            at \in Steps /\ at \notin NamedSteps
    BY DEF Steps, NamedSteps, RouteSteps
  <2>2. "refused" \in Replies /\ "send" \notin NamedSteps /\ "catalog" \notin NamedSteps
    BY DEF Replies, NamedSteps, RouteSteps
  <2>3. \A s \in Sessions : bindings[s] # None => bindings[s].device \in Devices
    BY <1>1 DEF TypeOK, Binding
  <2>4. request[h].device # None => request[h].device \in Devices
    BY <1>1, RequestTypes
  <2>5. CASE Refuse(h)
    BY <1>1, <2>1, <2>2, <2>5, ReplyMoves DEF Refuse
  <2>6. CASE \E at \in {"online", "touch", "pair", "upsert"} : Go(h, at)
    BY <1>1, <2>1, <2>6, GoMoves
  <2>7. CASE \E at \in {"pairDevice", "device"}, d \in Devices : GoWith(h, at, d)
    BY <1>1, <2>1, <2>7, GoWithMoves
  <2>8. CASE \E d \in Devices : Paired(h, d)
    BY <1>1, <2>1, <2>2, <2>8, PairedMoves
  <2>9. ReadBinding(h) => Refuse(h) \/ Go(h, "online")
                          \/ \E at \in {"pairDevice", "device"}, d \in Devices : GoWith(h, at, d)
    BY <1>1, <2>3, <2>4, RequestTypes DEF ReadBinding
  <2>10. ListOnline(h) => Refuse(h)
                          \/ \E at \in {"pairDevice", "device"}, d \in Devices : GoWith(h, at, d)
    BY DEF ListOnline
  <2>11. TouchBinding(h) => \E d \in Devices : Paired(h, d)
    BY <1>1, <2>3, RequestTypes DEF TouchBinding
  <2>12. PairInMemory(h) \/ UpsertPairing(h) => Refuse(h) \/ \E d \in Devices : Paired(h, d)
    <3>1. handler[h].at \in {"pair", "upsert"} => handler[h].device \in Devices
      BY <1>1, RequestTypes DEF Settled, Knows, CallIsKnown, PairingIsKnown, FollowsPairing, CheckedSteps, TypeOK
    <3> QED BY <3>1 DEF PairInMemory, UpsertPairing
  <2>13. ReadDevice(h) \/ PairDevice(h) \/ CheckPairing(h) =>
            Refuse(h) \/ \E at \in {"online", "touch", "pair", "upsert"} : Go(h, at)
    BY DEF ReadDevice, PairDevice, CheckPairing
  <2> QED BY <2>5, <2>6, <2>7, <2>8, <2>9, <2>10, <2>11, <2>12, <2>13 DEF Pairing
<1> QED BY <1>1, <1>2, HandlerKeepsNames, NamesAreKept

\* The id that the gateway makes up names the ref it is made of.
LEMMA ReadCatalogNames ==
    ASSUME Settled, RefsAreNamed, IdsAreOwn, NEW h \in Handlers, ReadCatalog(h)
    PROVE  RefsAreNamed'
<1> DEFINE r == request[h]
           w == IF r.workspace # None THEN r.workspace ELSE DeterministicWorkspaceId(h)
           at == IF r.key = None THEN "routeDevice" ELSE "replay"
<1>1. /\ TypeOK /\ UNCHANGED <<request, where, routes>> /\ handler[h].at = "catalog"
      /\ handler \in [Handlers -> Handler] /\ handler[h] \in Handler
      /\ Knows(h) /\ handler[h].device \in Devices
  BY RequestTypes DEF Settled, ReadCatalog, TypeOK, tables, channel, Knows, CallIsKnown, CheckedSteps
<1>2. CASE Reply(h, "listed") \/ Refuse(h)
  <2>1. Moves(h) /\ handler'[h].at \notin NamedSteps
    BY <1>1, <1>2, ReplyMoves DEF Refuse, Replies, NamedSteps, RouteSteps
  <2> QED BY <1>1, <2>1, HandlerKeepsNames, NamesAreKept
<1>3. CASE /\ ToolOf(h) # "list_workspaces"
           /\ handler' = [handler EXCEPT ![h].workspace = w, ![h].at = at]
  <2>1. ToolOf(h) = "connect_workspace" /\ r.ref \in Refs
    BY <1>1, <1>3, RequestTypes DEF Knows, StepsAreOfTools, WellFormed, ToolOf, Request
  <2>2. ASSUME NEW q \in Refs, Names(w, q) PROVE r.ref = q
    <3>1. CASE r.workspace # None
      BY <1>1, <2>1, <2>2, <3>1 DEF IdsAreOwn, RefsAreNamed, ToolOf
    <3>2. CASE r.workspace = None
      <4>1. w = <<Session(h), r.conversation, handler[h].device, r.ref>> /\ w \in DeterministicIds
        BY <1>1, <2>1, <3>2, RequestTypes DEF DeterministicWorkspaceId, DeterministicIds, Request
      <4> QED BY <2>2, <4>1, DeterministicIdNames
    <3> QED BY <3>1, <3>2
  <2> HIDE DEF w, at
  <2> DEFINE new == [handler[h] EXCEPT !.workspace = w, !.at = at]
  <2>3. new.workspace = w
    BY <1>1 DEF Handler
  <2>4. handler' = [handler EXCEPT ![h] = new]
    BY <1>1, <1>3
  <2> HIDE DEF new
  <2>5. handler'[h].workspace = w /\ \A g \in Handlers \ {h} : handler'[g] = handler[g]
    BY <1>1, <2>3, <2>4
  <2> QED BY <1>1, <2>2, <2>5 DEF RefsAreNamed
<1> QED BY <1>2, <1>3 DEF ReadCatalog, ToolOf

\* The route that is written has the ref that its workspace names.
LEMMA RoutingNames ==
    ASSUME Settled, RefsAreNamed, NEW h \in Handlers, RouteInMemory(h) \/ UpsertRoute(h)
    PROVE  RefsAreNamed'
<1>1. /\ TypeOK /\ UNCHANGED <<request, where>> /\ handler[h].at \in RouteSteps
      /\ handler[h].reply = "none" /\ handler[h].workspace \in WorkspaceIds
      /\ routes \in [WorkspaceIds -> Route \cup {None}]
  BY RequestTypes DEF Settled, RouteInMemory, UpsertRoute, RouteSteps, channel, TypeOK,
                      Knows, StepsAreOfTools, RouteIsKnown
<1>2. CASE Refuse(h) /\ UNCHANGED routes
  <2>1. Moves(h) /\ handler'[h].at \notin NamedSteps
    BY <1>1, <1>2, ReplyMoves DEF Refuse, Replies, NamedSteps, RouteSteps
  <2> QED BY <1>1, <1>2, <2>1, HandlerKeepsNames, NamesAreKept
<1>3. CASE routes' = [routes EXCEPT ![handler[h].workspace] = RouteRow(h)] /\ Routed(h)
  <2>1. Moves(h) /\ handler'[h].at \notin NamedSteps
    BY <1>1, <1>3, RoutedMoves DEF NamedSteps, RouteSteps
  <2>2. KeepsNames
    BY <1>1, <2>1, HandlerKeepsNames
  <2>3. RouteRow(h).ref = request[h].ref
    BY DEF RouteRow
  <2>4. \A r \in Refs : Names(handler[h].workspace, r) => RouteRow(h).ref = r
    BY <1>1, <2>3 DEF RefsAreNamed, NamedSteps
  <2>5. \A v \in WorkspaceIds : routes'[v] # None => \A r \in Refs : Names(v, r) => routes'[v].ref = r
    BY <1>1, <1>3, <2>4 DEF RefsAreNamed
  <2> QED BY <2>2, <2>5 DEF RefsAreNamed, KeepsNames
<1> QED BY <1>2, <1>3 DEF RouteInMemory, UpsertRoute

LEMMA ConnectingNames ==
    ASSUME Settled, RefsAreNamed, IdsAreOwn, NEW h \in Handlers, Connecting(h)
    PROVE  RefsAreNamed'
<1>1. CASE \/ FindIdempotency(h) \/ CheckRouteDevice(h) \/ CheckRoute(h)
           \/ RecordInMemory(h) \/ FindRecorded(h) \/ InsertRecord(h)
  <2>1. /\ TypeOK /\ UNCHANGED <<request, where, routes>>
        /\ \/ \E reply \in Replies : Reply(h, reply)
           \/ Go(h, "recordInsert")
           \/ handler[h].at \in NamedSteps /\ \E at \in RouteSteps : Go(h, at)
    <3>1. TypeOK /\ UNCHANGED <<request, where, routes>>
      BY <1>1 DEF Settled, FindIdempotency, CheckRouteDevice, CheckRoute, RecordInMemory,
                  FindRecorded, InsertRecord, tables, channel
    <3>2. \A reply \in {"refused", "connected", "conflict", "failed"} : reply \in Replies
      BY DEF Replies
    <3>3. FindIdempotency(h) \/ CheckRouteDevice(h) \/ CheckRoute(h) =>
             \/ \E reply \in Replies : Reply(h, reply)
             \/ handler[h].at \in NamedSteps /\ \E at \in RouteSteps : Go(h, at)
      BY <3>2 DEF FindIdempotency, CheckRouteDevice, CheckRoute, Refuse, NamedSteps, RouteSteps
    <3>4. RecordInMemory(h) \/ FindRecorded(h) \/ InsertRecord(h) =>
             (\E reply \in Replies : Reply(h, reply)) \/ Go(h, "recordInsert")
      BY <3>2 DEF RecordInMemory, FindRecorded, InsertRecord
    <3> QED BY <1>1, <3>1, <3>3, <3>4
  <2>2. /\ Moves(h)
        /\ handler'[h].at \in NamedSteps =>
              handler[h].at \in NamedSteps /\ handler'[h].workspace = handler[h].workspace
    <3>1. CASE \E reply \in Replies : Reply(h, reply)
      BY <2>1, <3>1, ReplyMoves DEF NamedSteps, RouteSteps
    <3>2. CASE Go(h, "recordInsert")
      BY <2>1, <3>2, GoMoves DEF NamedSteps, RouteSteps, Steps
    <3>3. CASE handler[h].at \in NamedSteps /\ \E at \in RouteSteps : Go(h, at)
      BY <2>1, <3>3, GoMoves DEF RouteSteps, Steps
    <3> QED BY <2>1, <3>1, <3>2, <3>3
  <2> QED BY <2>1, <2>2, HandlerKeepsNames, NamesAreKept
<1> QED BY <1>1, ReadCatalogNames, RoutingNames DEF Connecting

\* The handler of an opened workspace goes on with an id that names nothing.
LEMMA AnsweredNames ==
    ASSUME Settled, RefsAreNamed, IdsAreOwn, NEW h \in Handlers, Answered(h)
    PROVE  RefsAreNamed'
<1>1. /\ TypeOK /\ UNCHANGED <<request, where, routes>>
      /\ handler \in [Handlers -> Handler] /\ handler[h] \in Handler
  BY DEF Settled, Answered, TypeOK, tables, channel
<1>2. ASSUME NEW new, handler' = [handler EXCEPT ![h] = new],
             new.at \in NamedSteps => new.workspace = h
      PROVE  RefsAreNamed'
  <2>1. handler'[h] = new /\ \A g \in Handlers \ {h} : handler'[g] = handler[g]
    BY <1>1, <1>2
  <2>2. \A r \in Refs : ~Names(h, r)
    BY DEF IdsAreOwn
  <2> QED BY <1>1, <1>2, <2>1, <2>2 DEF RefsAreNamed
<1> DEFINE found == [handler[h] EXCEPT
                !.at = IF request[h].tool = "open_workspace" THEN "routeDevice" ELSE "complete",
                !.workspace = IF request[h].tool = "open_workspace" THEN h ELSE @,
                !.reply = IF request[h].tool = "open_workspace" THEN @ ELSE "result"]
           failed == [handler[h] EXCEPT
                !.at = IF request[h].tool = "open_workspace" THEN "done" ELSE "complete",
                !.reply = "error"]
<1>3. handler' = [handler EXCEPT ![h] = found] \/ handler' = [handler EXCEPT ![h] = failed]
  BY <1>1 DEF Answered
<1>4. found.at \in NamedSteps => found.workspace = h
  BY <1>1 DEF Handler, NamedSteps, RouteSteps
<1>5. failed.at \notin NamedSteps
  BY <1>1 DEF Handler, NamedSteps, RouteSteps
<1> HIDE DEF found, failed
<1> QED BY <1>2, <1>3, <1>4, <1>5

\* The desktop runs a tool in a workspace that the workspaceId names.
LEMMA DesktopRunsNames ==
    ASSUME Settled, RefsAreNamed, NEW h \in Handlers, DesktopRuns(h)
    PROVE  RefsAreNamed'
<1>1. /\ TypeOK /\ UNCHANGED <<request, handler, routes>> /\ where \in [Handlers -> Refs \cup {None}]
      /\ approved \in [Devices -> SUBSET Refs]
      /\ \/ UNCHANGED where
         \/ \E r \in FindWorkspace(h) : where' = [where EXCEPT ![h] = r]
  BY DEF Settled, DesktopRuns, tables, TypeOK
<1>2. CASE UNCHANGED where
  BY <1>1, <1>2 DEF RefsAreNamed
<1>3. ASSUME NEW r \in FindWorkspace(h), where' = [where EXCEPT ![h] = r]
      PROVE  RefsAreNamed'
  <2>1. h \in asked
    BY DEF DesktopRuns, Channel!Run
  <2>2. handler[h].device \in Devices /\ Session(h) \in Sessions
        /\ request[h].conversation \in Conversations \cup {None}
    <3>1. handler[h].device \in up[h] /\ up[h] \subseteq Devices
      BY <1>1, <2>1 DEF Settled, Knows, CallIsKnown, TypeOK
    <3> QED BY <1>1, <3>1, RequestTypes DEF Request
  <2>3. Names(request[h].workspace, r)
    BY <2>2 DEF FindWorkspace, Names
  <2>4. \A g \in Handlers : where'[g] # None => Names(request[g].workspace, where'[g])
    BY <1>1, <1>3, <2>3 DEF RefsAreNamed
  <2> QED BY <1>1, <2>4 DEF RefsAreNamed
<1> QED BY <1>1, <1>2, <1>3

LEMMA CallingNames ==
    ASSUME Settled, RefsAreNamed, IdsAreOwn, NEW h \in Handlers, Calling(h)
    PROVE  RefsAreNamed'
<1>1. TypeOK
  BY DEF Settled
<1>2. CASE \/ ResolveInMemory(h) \/ ReadRoute(h) \/ ReadRouteDevice(h) \/ TouchAndRecord(h)
           \/ SendToolCall(h) \/ CompleteToolCall(h)
  <2>1. UNCHANGED <<request, where, routes>>
    BY <1>2 DEF ResolveInMemory, ReadRoute, ReadRouteDevice, TouchAndRecord, SendToolCall,
                CompleteToolCall, tables, channel
  <2>2. \/ Refuse(h)
        \/ \E at \in {"resolveTouch", "send", "sent", "done"} : Go(h, at)
        \/ \E at \in {"send", "resolveDevice"}, d \in Devices : GoWith(h, at, d)
    <3>1. ReadRoute(h) \/ ResolveInMemory(h) =>
             \/ Refuse(h)
             \/ \E at \in {"send", "resolveDevice"}, d \in Devices : GoWith(h, at, d)
      <4>1. IsFile(h) /\ handler[h].at = "resolve" => request[h].workspace \in WorkspaceIds
        BY <1>1, RequestTypes DEF Settled, Knows, StepsAreOfTools, WellFormed, IsFile, ToolOf
      <4>2. handler[h].at = "resolve" => IsFile(h)
        BY DEF Settled, Knows, StepsAreOfTools, ResolveSteps
      <4>3. \A w \in WorkspaceIds : routes[w] # None => routes[w].device \in Devices
        BY <1>1 DEF TypeOK, Route
      <4> QED BY <4>1, <4>2, <4>3 DEF ReadRoute, ResolveInMemory, WorkspaceRouteable
    <3>2. \/ ReadRouteDevice(h) \/ TouchAndRecord(h) \/ SendToolCall(h) \/ CompleteToolCall(h)
             => Refuse(h) \/ \E at \in {"resolveTouch", "send", "sent", "done"} : Go(h, at)
      BY DEF ReadRouteDevice, TouchAndRecord, SendToolCall, CompleteToolCall
    <3> QED BY <1>2, <3>1, <3>2
  <2>3. Moves(h) /\ handler'[h].at \notin NamedSteps
    <3>1. CASE Refuse(h)
      BY <1>1, <3>1, ReplyMoves DEF Refuse, Replies, NamedSteps, RouteSteps
    <3>2. CASE \E at \in {"resolveTouch", "send", "sent", "done"} : Go(h, at)
      BY <1>1, <3>2, GoMoves DEF Steps, NamedSteps, RouteSteps
    <3>3. CASE \E at \in {"send", "resolveDevice"}, d \in Devices : GoWith(h, at, d)
      BY <1>1, <3>3, GoWithMoves DEF Steps, NamedSteps, RouteSteps
    <3> QED BY <2>2, <3>1, <3>2, <3>3
  <2> QED BY <2>1, <2>3, HandlerKeepsNames, NamesAreKept
<1>3. CASE \E a \in Channel!Errors \cup {"result"} : ChannelAnswers(h, a)
  <2>1. UNCHANGED <<request, handler, where, routes>>
    BY <1>3 DEF ChannelAnswers, tables
  <2> QED BY <2>1 DEF RefsAreNamed
<1> QED BY <1>2, <1>3, AnsweredNames, DesktopRunsNames DEF Calling

LEMMA NextNames ==
    ASSUME Settled, RefsAreNamed, IdsAreOwn, [Next]_vars
    PROVE  RefsAreNamed'
<1>1. CASE UNCHANGED vars
  BY <1>1 DEF RefsAreNamed, vars, tables, channel
<1>2. ASSUME NEW h \in Handlers, Receive(h) PROVE RefsAreNamed'
  <2>1. TypeOK /\ UNCHANGED <<request, where, routes>>
    BY <1>2 DEF Settled, Receive, tables, channel
  <2>2. Moves(h) /\ handler'[h].at \notin NamedSteps
    <3>1. CASE \E at \in {"resolve", "binding"} : Go(h, at)
      BY <2>1, <3>1, GoMoves DEF Steps, NamedSteps, RouteSteps
    <3>2. CASE request[h].device # None /\ GoWith(h, "pairDevice", request[h].device)
      BY <2>1, <3>2, GoWithMoves, RequestTypes DEF Steps, NamedSteps, RouteSteps
    <3> QED BY <1>2, <3>1, <3>2 DEF Receive
  <2> QED BY <2>1, <2>2, HandlerKeepsNames, NamesAreKept
<1>3. ASSUME NEW d \in Devices, DeviceStep(d) PROVE RefsAreNamed'
  <2>1. UNCHANGED <<request, handler, where, routes>>
    BY <1>3, DeviceChanges
  <2> QED BY <2>1 DEF RefsAreNamed
<1> QED
  BY <1>1, <1>2, <1>3, PairingNames, ConnectingNames, CallingNames DEF Next, DeviceStep

\* A tool runs in the workspace that was connected under its id, and a call is
\* completed when it has run there, if callers make up ids of their own
\* (findWorkspace, completeToolCall).
THEOREM ToolsRunWhereConnected ==
    ASSUME Serialized, IdsAreOwn PROVE Spec => []RunsWhereConnected
<1>1. Init => Settled /\ RefsAreNamed
  <2>1. Init => RefsAreNamed
    BY DEF Init, RefsAreNamed, NamedSteps, RouteSteps
  <2> QED BY <2>1, InitSettles
<1>2. Settled /\ RefsAreNamed /\ [Next]_vars => (Settled /\ RefsAreNamed)'
  BY NextSettles, NextNames
<1>3. ASSUME Settled, RefsAreNamed PROVE RunsWhereConnected
  <2>1. ASSUME NEW h \in Handlers, where[h] # None
        PROVE  where[h] = routes[request[h].workspace].ref
    <3>1. RouteIsFollowed(h) /\ where[h] \in Refs /\ WellFormed(request[h]) /\ IsFile(h)
      BY <2>1, <1>3 DEF Settled, Knows, CallIsKnown, RouteIsKnown, StepsAreOfTools, TypeOK
    <3>2. request[h].workspace \in WorkspaceIds
      BY <3>1, <1>3, RequestTypes DEF Settled, WellFormed, IsFile, ToolOf
    <3> QED BY <2>1, <3>1, <3>2, <1>3 DEF RefsAreNamed, RouteIsFollowed
  <2>2. \A h \in Handlers : toolCalls[h] # None /\ toolCalls[h].status = "completed" =>
            h \in ran /\ where[h] # None
    BY <1>3 DEF Settled, Knows, CallIsKnown
  <2> QED BY <2>1, <2>2 DEF RunsWhereConnected
<1> QED BY <1>1, <1>2, <1>3, PTL DEF Spec
=============================================================================
