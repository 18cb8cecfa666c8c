---------------------------- MODULE DeviceChannel ----------------------------
(***************************************************************************)
(* The gateway's end of the device sockets                                 *)
(* (src/src/cloud-device-websocket-route.ts), the table of connections and *)
(* pending tool calls (src/src/websocket-device-channel.ts), the two       *)
(* stores in which a device is online or offline, and the desktop's end    *)
(* (src/src/local-agent-outbound-client.ts, local-agent-receiver.ts).      *)
(*                                                                         *)
(* A handler of the route runs up to an await on a store; the statement it *)
(* has issued takes effect, and the handler goes on, in a later step.      *)
(* Every message and the close event have a handler of their own, so the   *)
(* handlers of one socket overlap too.                                     *)
(*                                                                         *)
(* A desktop client has one socket in its life.  The first message it      *)
(* sends is its hello; of its heartbeats one is modelled.  Left out:       *)
(* upgrades and sockets refused before they change anything, catalogs,     *)
(* the times in the records, and tool.cancel, which no gateway code sends  *)
(* and every desktop ignores.  Ids of calls are fresh, as randomUUID       *)
(* makes them.                                                             *)
(***************************************************************************)
EXTENDS Naturals, FiniteSets

CONSTANTS
    Devices,
    Sockets,
    DeviceOf,      \* the device at the other end of a socket
    Calls,
    None,
    Heartbeats,    \* the sockets on which a heartbeat is sent
    Overlap,       \* may a device connect before the gateway is done with its last socket?
    Prompt,        \* does a close wait for the handlers of its socket?
    MayFail,       \* may a statement fail?
    MayEvict       \* is markDeviceOffline ever called?

ASSUME ChannelAssumption ==
    /\ DeviceOf \in [Sockets -> Devices]
    /\ None \notin Sockets \cup Devices
    /\ Heartbeats \subseteq Sockets
    /\ {Overlap, Prompt, MayFail, MayEvict} \subseteq BOOLEAN

VARIABLES
    gateway,       \* per socket, the gateway's end
    device,        \* ... the desktop's end
    hello,         \* ... its hello, and the handler of it
    beat,          \* ... its heartbeat, and the handler of it
    closed,        \* ... the handler of its close event
    connections,   \* per device, the socket that is registered
    pending,       \* calls in pendingToolCalls
    timers,        \* calls whose timeout is armed
    routing,       \* per device, its status in the routing store
    presence,      \* per device, its record in the connection store
    call           \* per call, where it is and what was answered

sockets == <<gateway, device, hello, beat, closed>>
stores == <<routing, presence>>
channel == <<connections, pending, timers>>
vars == <<sockets, channel, stores, call>>

Answers == {"none", "result", "TOOL_TIMEOUT", "AGENT_DISCONNECTED"}
\* Where the message of a call is: on its way, with the desktop, on its way
\* back, or nowhere.
Place == {"none", "toDevice", "running", "toGateway", "gone"}
CallState == [device : Devices \cup {None}, socket : Sockets \cup {None},
              place : Place, ran : BOOLEAN, answer : Answers]

TypeOK ==
    /\ gateway \in [Sockets -> {"new", "open", "closing", "closed"}]
    /\ device \in [Sockets -> {"new", "open", "closed"}]
    /\ hello \in [Sockets -> {"unsent", "sent", "registering", "recording", "ready", "failed"}]
    /\ beat \in [Sockets -> {"unsent", "sent", "status", "statusOnly", "record", "done"}]
    /\ closed \in [Sockets -> {"no", "status", "record", "done"}]
    /\ connections \in [Devices -> Sockets \cup {None}]
    /\ pending \subseteq Calls
    /\ timers \subseteq Calls
    /\ routing \in [Devices -> {"unknown", "online", "offline"}]
    /\ presence \in [Devices -> [socket : Sockets \cup {None},
                                 status : {"unknown", "online", "offline"}]]
    /\ call \in [Calls -> CallState]

Init ==
    /\ gateway = [s \in Sockets |-> "new"]
    /\ device = [s \in Sockets |-> "new"]
    /\ hello = [s \in Sockets |-> "unsent"]
    /\ beat = [s \in Sockets |-> "unsent"]
    /\ closed = [s \in Sockets |-> "no"]
    /\ connections = [d \in Devices |-> None]
    /\ pending = {}
    /\ timers = {}
    /\ routing = [d \in Devices |-> "unknown"]
    /\ presence = [d \in Devices |-> [socket |-> None, status |-> "unknown"]]
    /\ call = [c \in Calls |-> [device |-> None, socket |-> None, place |-> "none",
                                ran |-> FALSE, answer |-> "none"]]

-----------------------------------------------------------------------------
(* Sockets.                                                                 *)

\* The handler of the hello has set connectionId.
Identified(s) == hello[s] \in {"recording", "ready"}

HandlersIdle(s) ==
    /\ hello[s] \notin {"registering", "recording"}
    /\ beat[s] \notin {"status", "statusOnly", "record"}

\* The gateway has nothing left to do for a socket.
Finished(s) == gateway[s] = "closed" /\ closed[s] = "done" /\ HandlersIdle(s)

\* websocket.close of the gateway: the close event follows.
Shut(s) == [gateway EXCEPT ![s] = IF @ = "open" THEN "closing" ELSE @]

\* Until the close event messages are handled.
Listening(s) == gateway[s] \in {"open", "closing"}

\* A client of the device connects and says hello.
Connect(s) ==
    /\ gateway[s] = "new"
    /\ ~Overlap => \A t \in Sockets \ {s} :
          DeviceOf[t] = DeviceOf[s] => gateway[t] = "new" \/ Finished(t)
    /\ gateway' = [gateway EXCEPT ![s] = "open"]
    /\ device' = [device EXCEPT ![s] = "open"]
    /\ hello' = [hello EXCEPT ![s] = "sent"]
    /\ UNCHANGED <<beat, closed, channel, stores, call>>

SendHeartbeat(s) ==
    /\ s \in Heartbeats
    /\ device[s] = "open"
    /\ beat[s] = "unsent"
    /\ beat' = [beat EXCEPT ![s] = "sent"]
    /\ UNCHANGED <<gateway, device, hello, closed, channel, stores, call>>

\* The client stops, or its connection is lost: the gateway learns of it later.
DeviceLeaves(s) ==
    /\ device[s] = "open"
    /\ device' = [device EXCEPT ![s] = "closed"]
    /\ UNCHANGED <<gateway, hello, beat, closed, channel, stores, call>>

-----------------------------------------------------------------------------
(* handleDeviceSocket: the hello.                                           *)

HandleHello(s) ==
    /\ Listening(s)
    /\ hello[s] = "sent"
    /\ hello' = [hello EXCEPT ![s] = "registering"]
    /\ UNCHANGED <<gateway, device, beat, closed, channel, stores, call>>

\* registerDevice returns, and the connection is registered at once.
Registered(s) ==
    /\ hello[s] = "registering"
    /\ routing' = [routing EXCEPT ![DeviceOf[s]] = "online"]
    /\ connections' = [connections EXCEPT ![DeviceOf[s]] = s]
    /\ hello' = [hello EXCEPT ![s] = "recording"]
    /\ UNCHANGED <<gateway, device, beat, closed, pending, timers, presence, call>>

\* recordConnected returns.
Recorded(s) ==
    /\ hello[s] = "recording"
    /\ presence' = [presence EXCEPT ![DeviceOf[s]] = [socket |-> s, status |-> "online"]]
    /\ hello' = [hello EXCEPT ![s] = "ready"]
    /\ UNCHANGED <<gateway, device, beat, closed, channel, routing, call>>

\* Either throws: the socket is shut, and `hello` stays set.
HelloFails(s) ==
    /\ MayFail
    /\ hello[s] \in {"registering", "recording"}
    /\ hello' = [hello EXCEPT ![s] = IF @ = "registering" THEN "failed" ELSE "ready"]
    /\ gateway' = Shut(s)
    /\ UNCHANGED <<device, beat, closed, channel, stores, call>>

-----------------------------------------------------------------------------
(* handleHeartbeat.                                                         *)

\* The connection id is the one of this moment: a heartbeat may overtake the
\* rest of the hello.
HandleHeartbeat(s) ==
    /\ Listening(s)
    /\ beat[s] = "sent"
    /\ hello[s] # "sent"
    /\ beat' = [beat EXCEPT ![s] = IF Identified(s) THEN "status" ELSE "statusOnly"]
    /\ UNCHANGED <<gateway, device, hello, closed, channel, stores, call>>

HeartbeatStatus(s) ==
    /\ beat[s] \in {"status", "statusOnly"}
    /\ routing[DeviceOf[s]] # "unknown"
    /\ routing' = [routing EXCEPT ![DeviceOf[s]] = "online"]
    /\ beat' = [beat EXCEPT ![s] = IF @ = "status" THEN "record" ELSE "done"]
    /\ UNCHANGED <<gateway, device, hello, closed, channel, presence, call>>

\* A device without a record is an error, as is a statement that fails.
HeartbeatFails(s) ==
    /\ \/ beat[s] \in {"status", "statusOnly"} /\ (MayFail \/ routing[DeviceOf[s]] = "unknown")
       \/ beat[s] = "record" /\ MayFail
    /\ beat' = [beat EXCEPT ![s] = "done"]
    /\ gateway' = Shut(s)
    /\ UNCHANGED <<device, hello, closed, channel, stores, call>>

\* Mutant: whichever connection the record names.
SetPresence_AnyConnection(s, status) ==
    presence' = IF presence[DeviceOf[s]].socket # None
                THEN [presence EXCEPT ![DeviceOf[s]].status = status]
                ELSE presence

\* The connection store changes a record only for the connection it names.
SetPresence(s, status) ==
    presence' = IF presence[DeviceOf[s]].socket = s
                THEN [presence EXCEPT ![DeviceOf[s]].status = status]
                ELSE presence

HeartbeatRecorded(s) ==
    /\ beat[s] = "record"
    /\ SetPresence(s, "online")
    /\ beat' = [beat EXCEPT ![s] = "done"]
    /\ UNCHANGED <<gateway, device, hello, closed, channel, routing, call>>

-----------------------------------------------------------------------------
(* Tool calls.                                                              *)

\* A pending call is settled: its timer is cleared with it.
Settle(S) == pending' = pending \ S /\ timers' = timers \ S

\* resolve counts once.
Answered(c, answer) ==
    [call[c] EXCEPT !.answer = IF @ = "none" THEN answer ELSE @]

\* Mutant: the calls of every device.
PendingOf_All(d) == pending

PendingOf(d) == {c \in pending : call[c].device = d}

\* Mutant: the error of the routing store.
SendToolCall_Offline(c, d) ==
    /\ call[c].device = None
    /\ connections[d] = None
    /\ call' = [call EXCEPT ![c] = [@ EXCEPT !.device = d, !.place = "gone",
                                            !.answer = "DEVICE_OFFLINE"]]
    /\ UNCHANGED <<sockets, channel, stores>>

\* Mutant: a call that is dropped gets no timer.
SendToolCall_TimerIfSent(c, d) ==
    /\ call[c].device = None
    /\ connections[d] # None
    /\ LET s == connections[d]
           sent == gateway[s] = "open"
       IN  /\ call' = [call EXCEPT ![c] = [@ EXCEPT !.device = d, !.socket = s,
                                !.place = IF sent THEN "toDevice" ELSE "gone"]]
           /\ pending' = pending \cup {c}
           /\ timers' = IF sent THEN timers \cup {c} ELSE timers
    /\ UNCHANGED <<sockets, connections, stores>>

\* sendToolCall.  A connection whose socket is not open drops what it sends.
SendToolCall(c, d) ==
    /\ call[c].device = None
    /\ LET s == connections[d]
       IN  IF s = None
           THEN /\ call' = [call EXCEPT ![c] =
                      [@ EXCEPT !.device = d, !.place = "gone", !.answer = "AGENT_DISCONNECTED"]]
                /\ UNCHANGED <<pending, timers>>
           ELSE /\ call' = [call EXCEPT ![c] =
                      [@ EXCEPT !.device = d, !.socket = s,
                                !.place = IF gateway[s] = "open" THEN "toDevice" ELSE "gone"]]
                /\ pending' = pending \cup {c}
                /\ timers' = timers \cup {c}
    /\ UNCHANGED <<sockets, connections, stores>>

\* Mutant: the desktop does not await the tool.
TakeToolCall_NotAwaited(c) ==
    /\ call[c].place = "toDevice"
    /\ device[call[c].socket] = "open"
    /\ call' = [call EXCEPT ![c].place = "toGateway"]
    /\ UNCHANGED <<sockets, channel, stores>>

\* The desktop starts the tool, or asks its user first.
TakeToolCall(c) ==
    /\ call[c].place = "toDevice"
    /\ device[call[c].socket] = "open"
    /\ call' = [call EXCEPT ![c].place = "running"]
    /\ UNCHANGED <<sockets, channel, stores>>

\* It has the result, or an error: sent on its socket if that is open.
FinishToolCall(c) ==
    /\ call[c].place = "running"
    /\ LET s == call[c].socket
       IN  call' = [call EXCEPT ![c] =
              [@ EXCEPT !.ran = TRUE,
                        !.place = IF device[s] = "open" /\ Listening(s)
                                  THEN "toGateway" ELSE "gone"]]
    /\ UNCHANGED <<sockets, channel, stores>>

\* handleDeviceMessage: an answer nobody waits for is dropped.
HandleResult(c) ==
    /\ call[c].place = "toGateway"
    /\ Listening(call[c].socket)
    /\ IF c \in pending
       THEN /\ call' = [call EXCEPT ![c] = [Answered(c, "result") EXCEPT !.place = "gone"]]
            /\ Settle({c})
       ELSE /\ call' = [call EXCEPT ![c].place = "gone"]
            /\ UNCHANGED <<pending, timers>>
    /\ UNCHANGED <<sockets, connections, stores>>

ToolCallTimesOut(c) ==
    /\ c \in timers
    /\ Settle({c})
    /\ call' = [call EXCEPT ![c] = Answered(c, "TOOL_TIMEOUT")]
    /\ UNCHANGED <<sockets, connections, stores>>

-----------------------------------------------------------------------------
(* The close of a socket.                                                   *)

\* unregisterConnection, whatever connection is registered.
UnregisterConnection(d) ==
    /\ connections' = [connections EXCEPT ![d] = None]
    /\ Settle(PendingOf(d))

\* What that answers.
Rejected(d, c) == IF c \in PendingOf(d) THEN Answered(c, "AGENT_DISCONNECTED") ELSE call[c]

\* Messages on their way are lost with the socket.
Lost(s, c) == call[c].socket = s /\ call[c].place \in {"toDevice", "toGateway"}

\* The close event.
GatewayCloses(s) ==
    /\ Listening(s)
    /\ Prompt => HandlersIdle(s)
    /\ gateway' = [gateway EXCEPT ![s] = "closed"]
    /\ closed' = [closed EXCEPT ![s] = IF Identified(s) THEN "status" ELSE "done"]
    /\ IF Identified(s) THEN UnregisterConnection(DeviceOf[s]) ELSE UNCHANGED channel
    /\ call' = [c \in Calls |->
          LET answered == IF Identified(s) THEN Rejected(DeviceOf[s], c) ELSE call[c]
          IN  IF Lost(s, c) THEN [answered EXCEPT !.place = "gone"] ELSE answered]
    /\ UNCHANGED <<device, hello, beat, stores>>

\* Errors of the next two statements are ignored.
CloseStatus(s) ==
    /\ closed[s] = "status"
    /\ \/ routing' = [routing EXCEPT ![DeviceOf[s]] = "offline"]
       \/ MayFail /\ routing' = routing
    /\ closed' = [closed EXCEPT ![s] = "record"]
    /\ UNCHANGED <<gateway, device, hello, beat, channel, presence, call>>

\* Mutant: the connection store is not told.
CloseRecorded_Forgotten(s) ==
    /\ closed[s] = "record"
    /\ closed' = [closed EXCEPT ![s] = "done"]
    /\ UNCHANGED <<gateway, device, hello, beat, channel, stores, call>>

CloseRecorded(s) ==
    /\ closed[s] = "record"
    /\ \/ SetPresence(s, "offline")
       \/ MayFail /\ presence' = presence
    /\ closed' = [closed EXCEPT ![s] = "done"]
    /\ UNCHANGED <<gateway, device, hello, beat, channel, routing, call>>

\* markDeviceOffline, of which a gateway may make use.
MarkDeviceOffline(d) ==
    /\ MayEvict
    /\ connections[d] # None
    /\ UnregisterConnection(d)
    /\ gateway' = Shut(connections[d])
    /\ call' = [c \in Calls |-> Rejected(d, c)]
    /\ UNCHANGED <<device, hello, beat, closed, stores>>

-----------------------------------------------------------------------------
SocketNext(s) ==
    \/ Connect(s) \/ SendHeartbeat(s) \/ DeviceLeaves(s)
    \/ HandleHello(s) \/ Registered(s) \/ Recorded(s) \/ HelloFails(s)
    \/ HandleHeartbeat(s) \/ HeartbeatStatus(s) \/ HeartbeatFails(s) \/ HeartbeatRecorded(s)
    \/ GatewayCloses(s) \/ CloseStatus(s) \/ CloseRecorded(s)

CallNext(c) ==
    \/ \E d \in Devices : SendToolCall(c, d)
    \/ TakeToolCall(c) \/ FinishToolCall(c) \/ HandleResult(c) \/ ToolCallTimesOut(c)

Next ==
    \/ \E s \in Sockets : SocketNext(s)
    \/ \E c \in Calls : CallNext(c)
    \/ \E d \in Devices : MarkDeviceOffline(d)

Spec == Init /\ [][Next]_vars

\* Timers fire.  Nothing is assumed of desktops and sockets.
FairSpec == Spec /\ \A c \in Calls : WF_vars(ToolCallTimesOut(c))

-----------------------------------------------------------------------------
(* Properties.                                                              *)

Asked == {c \in Calls : call[c].device # None}

\* A call waits in pendingToolCalls exactly as long as it has no answer, and
\* with its timer: no path (result, timeout, send, close) forgets one of them.
PendingIsUnanswered ==
    /\ pending = {c \in Asked : call[c].answer = "none"}
    /\ timers = pending

\* A call that was sent is answered AGENT_DISCONNECTED only when the socket it
\* was sent on is no longer open (rejectPendingForDevice).
DisconnectIsReal ==
    \A c \in Calls :
        call[c].answer = "AGENT_DISCONNECTED" /\ call[c].socket # None
            => gateway[call[c].socket] # "open"

\* The registry of connections and the two stores follow the sockets of every
\* device: one whose hello has been handled can be reached while its socket is
\* open, and when the desktop has closed all its sockets, and the gateway is done
\* with them, it is offline everywhere (registerConnection, unregisterConnection).
RegistryIsCurrent ==
    /\ \A s \in Sockets :
          hello[s] = "ready" /\ gateway[s] = "open" => connections[DeviceOf[s]] = s
    /\ \A d \in Devices :
          (\A s \in Sockets :
              DeviceOf[s] = d => gateway[s] = "new" \/ (device[s] = "closed" /\ Finished(s)))
          => /\ routing[d] # "online"
             /\ presence[d].status # "online"
             /\ connections[d] = None

\* The connection store calls a device offline only for a connection that is
\* closed: the end of an earlier one never hides the one that is recorded.
OfflineIsReal ==
    \A d \in Devices :
        presence[d].status = "offline" => gateway[presence[d].socket] = "closed"

Abstract == INSTANCE ToolCalls
    WITH asked <- Asked,
         ran <- {c \in Calls : call[c].ran},
         answer <- [c \in Calls |-> call[c].answer]

\* Callers of sendToolCall get what ToolCalls says: one answer, kept, and a
\* result only from a device that ran the call.
ImplementsToolCalls == Abstract!Spec

\* Every call is answered, whatever becomes of the device and its sockets.
EveryCallIsAnswered ==
    \A c \in Calls : (c \in Asked) ~> (call[c].answer # "none")
=============================================================================
