------------------------ MODULE DeviceChannel_proofs ------------------------
(***************************************************************************)
(* Proofs about DeviceChannel, for any number of devices, sockets and      *)
(* calls.  Whatever the flags, CallsAreTracked is inductive: the table of  *)
(* pending calls is exact, and an answer on its way comes from a device    *)
(* that has run the call.  SocketsAreReal is, too: it says what a handler  *)
(* of a socket can know.  The invariants of the last two sections, InTurn  *)
(* and OnlineIsHeld, need what their lemmas say of the flags.              *)
(***************************************************************************)
EXTENDS DeviceChannel, TLAPS

\* A message exists only for a call that was made, an answer only after a run.
MessagesAreReal ==
    \A c \in Calls :
        /\ call[c].place # "none" => call[c].device # None
        /\ call[c].place = "toGateway" => call[c].ran
        /\ call[c].device = None => call[c].answer = "none" /\ ~call[c].ran

CallsAreTracked == TypeOK /\ PendingIsUnanswered /\ MessagesAreReal

USE ChannelAssumption

-----------------------------------------------------------------------------
(* Types.                                                                   *)

LEMMA TypesInit == Init => TypeOK
BY DEF Init, TypeOK, CallState, Place, Answers

LEMMA AnswersAreTyped ==
    ASSUME TypeOK, NEW c \in Calls, NEW a \in Answers, NEW d \in Devices
    PROVE  Answered(c, a) \in CallState /\ Rejected(d, c) \in CallState
<1>1. \A x \in Answers : Answered(c, x) \in CallState
  <2> SUFFICES ASSUME NEW x \in Answers
               PROVE  Answered(c, x) \in CallState
    OBVIOUS
  <2>1. call[c] \in CallState
    BY DEF TypeOK
  <2>2. call[c].answer \in Answers
    BY <2>1 DEF CallState
  <2> QED
    BY <2>1, <2>2 DEF Answered, CallState
<1>2. "AGENT_DISCONNECTED" \in Answers
  BY DEF Answers
<1> QED
  BY <1>1, <1>2 DEF Rejected, TypeOK

LEMMA SocketTypes ==
    ASSUME TypeOK, NEW s \in Sockets, SocketNext(s)
    PROVE  TypeOK'
<1> USE DEF TypeOK
<1>1. CASE Connect(s)
  BY <1>1 DEF Connect, channel, stores
<1>2. CASE SendHeartbeat(s)
  BY <1>2 DEF SendHeartbeat, channel, stores
<1>3. CASE DeviceLeaves(s)
  BY <1>3 DEF DeviceLeaves, channel, stores
<1>4. CASE HandleHello(s)
  BY <1>4 DEF HandleHello, channel, stores
<1>5. CASE Registered(s)
  BY <1>5 DEF Registered, channel, stores
<1>6. CASE Recorded(s)
  BY <1>6 DEF Recorded, channel
<1>7. CASE HelloFails(s)
  BY <1>7 DEF HelloFails, Shut, channel, stores
<1>8. CASE HandleHeartbeat(s)
  BY <1>8 DEF HandleHeartbeat, channel, stores
<1>9. CASE HeartbeatStatus(s)
  BY <1>9 DEF HeartbeatStatus, channel, stores
<1>10. CASE HeartbeatFails(s)
  BY <1>10 DEF HeartbeatFails, Shut, channel, stores
<1>11. CASE HeartbeatRecorded(s)
  BY <1>11 DEF HeartbeatRecorded, SetPresence, channel
<1>12. CASE GatewayCloses(s)
  <2>1. /\ connections' \in [Devices -> Sockets \cup {None}]
        /\ pending' \subseteq Calls
        /\ timers' \subseteq Calls
    BY <1>12 DEF GatewayCloses, UnregisterConnection, Settle, channel
  <2> DEFINE answered(c) == IF Identified(s) THEN Rejected(DeviceOf[s], c) ELSE call[c]
             next(c) == IF Lost(s, c) THEN [answered(c) EXCEPT !.place = "gone"] ELSE answered(c)
  <2>2. \A c \in Calls : answered(c) \in CallState
    BY AnswersAreTyped DEF Answers
  <2>3. \A c \in Calls : next(c) \in CallState
    <3>1. \A r \in CallState : [r EXCEPT !.place = "gone"] \in CallState
      BY DEF CallState, Place
    <3> HIDE DEF answered
    <3> QED
      BY <2>2, <3>1
  <2>4. call' = [c \in Calls |-> next(c)]
    BY <1>12 DEF GatewayCloses
  <2>5. call' \in [Calls -> CallState]
    BY <2>3, <2>4
  <2> QED
    BY <1>12, <2>1, <2>5 DEF GatewayCloses, stores
<1>13. CASE CloseStatus(s)
  BY <1>13 DEF CloseStatus, channel
<1>14. CASE CloseRecorded(s)
  <2>1. SetPresence(s, "offline") \/ presence' = presence
    BY <1>14 DEF CloseRecorded
  <2>2. presence' \in [Devices -> [socket : Sockets \cup {None},
                                 status : {"unknown", "online", "offline"}]]
    BY <2>1 DEF SetPresence
  <2> QED
    BY <1>14, <2>2 DEF CloseRecorded, channel
<1> QED
  BY <1>1, <1>2, <1>3, <1>4, <1>5, <1>6, <1>7, <1>8, <1>9, <1>10, <1>11, <1>12, <1>13, <1>14
     DEF SocketNext

LEMMA CallTypes ==
    ASSUME TypeOK, NEW c \in Calls, CallNext(c)
    PROVE  TypeOK'
<1>1. call[c] \in CallState
  BY DEF TypeOK
<1>2. ASSUME NEW d \in Devices, SendToolCall(c, d)
      PROVE  TypeOK'
  <2>1. CASE connections[d] = None
    <3> DEFINE r == [call[c] EXCEPT !.device = d, !.place = "gone", !.answer = "AGENT_DISCONNECTED"]
    <3>1. r \in CallState
      BY <1>1 DEF CallState, Answers, Place
    <3>2. call' = [call EXCEPT ![c] = r]
      BY <1>2, <2>1 DEF SendToolCall, TypeOK
    <3> HIDE DEF r
    <3> QED
      BY <1>2, <2>1, <3>1, <3>2 DEF SendToolCall, TypeOK, sockets, stores
  <2>2. CASE connections[d] # None
    <3> DEFINE r == [call[c] EXCEPT !.device = d, !.socket = connections[d],
                        !.place = IF gateway[connections[d]] = "open" THEN "toDevice" ELSE "gone"]
    <3>1. connections[d] \in Sockets
      BY <2>2 DEF TypeOK
    <3>2. r \in CallState
      BY <1>1, <3>1 DEF CallState, Place
    <3>3. call' = [call EXCEPT ![c] = r]
      BY <1>2, <2>2 DEF SendToolCall, TypeOK
    <3> HIDE DEF r
    <3> QED
      BY <1>2, <2>2, <3>2, <3>3 DEF SendToolCall, TypeOK, sockets, stores
  <2> QED
    BY <2>1, <2>2
<1>3. CASE TakeToolCall(c)
  <2>1. [call[c] EXCEPT !.place = "running"] \in CallState
    BY <1>1 DEF CallState, Place
  <2>2. call' = [call EXCEPT ![c] = [call[c] EXCEPT !.place = "running"]]
    BY <1>3 DEF TakeToolCall, TypeOK
  <2> QED
    BY <1>3, <2>1, <2>2 DEF TakeToolCall, TypeOK, sockets, channel, stores
<1>4. CASE FinishToolCall(c)
  <2> DEFINE s == call[c].socket
             p == IF device[s] = "open" /\ Listening(s) THEN "toGateway" ELSE "gone"
             r == [call[c] EXCEPT !.ran = TRUE, !.place = p]
  <2>1. r \in CallState
    BY <1>1 DEF CallState, Place
  <2>2. call' = [call EXCEPT ![c] = r]
    BY <1>4 DEF FinishToolCall, TypeOK
  <2> HIDE DEF r
  <2> QED
    BY <1>4, <2>1, <2>2 DEF FinishToolCall, TypeOK, sockets, channel, stores
<1>5. CASE HandleResult(c)
  <2> DEFINE r == IF c \in pending THEN [Answered(c, "result") EXCEPT !.place = "gone"]
                                   ELSE [call[c] EXCEPT !.place = "gone"]
  <2>1. Answered(c, "result") \in CallState
    BY <1>1 DEF Answered, CallState, Answers
  <2>2. r \in CallState
    BY <1>1, <2>1 DEF CallState, Place
  <2>3. call' = [call EXCEPT ![c] = r]
    BY <1>5 DEF HandleResult, TypeOK
  <2> HIDE DEF r
  <2> QED
    BY <1>5, <2>2, <2>3 DEF HandleResult, Settle, TypeOK, sockets, stores
<1>6. CASE ToolCallTimesOut(c)
  <2>1. Answered(c, "TOOL_TIMEOUT") \in CallState
    BY <1>1 DEF Answered, CallState, Answers
  <2> QED
    BY <1>6, <2>1 DEF ToolCallTimesOut, Settle, TypeOK, sockets, stores
<1> QED
  BY <1>2, <1>3, <1>4, <1>5, <1>6 DEF CallNext

LEMMA EvictionTypes ==
    ASSUME TypeOK, NEW d \in Devices, MarkDeviceOffline(d)
    PROVE  TypeOK'
<1>1. \A c \in Calls : Rejected(d, c) \in CallState
  BY AnswersAreTyped DEF Answers
<1>2. call' \in [Calls -> CallState]
  BY <1>1 DEF MarkDeviceOffline
<1>3. connections[d] \in Sockets
  BY DEF MarkDeviceOffline, TypeOK
<1> QED
  BY <1>2, <1>3 DEF MarkDeviceOffline, UnregisterConnection, Settle, Shut, stores, TypeOK

-----------------------------------------------------------------------------
(* What a step does to the calls.                                           *)

LEMMA SendChanges ==
    ASSUME TypeOK, NEW c \in Calls, NEW d \in Devices, SendToolCall(c, d)
    PROVE  /\ call[c].device = None /\ call'[c].device = d
           /\ call'[c].ran = call[c].ran
           /\ call'[c].place \in {"gone", "toDevice"}
           /\ \/ /\ pending' = pending /\ timers' = timers
                 /\ call'[c].answer = "AGENT_DISCONNECTED"
              \/ /\ pending' = pending \cup {c} /\ timers' = timers \cup {c}
                 /\ call'[c].answer = call[c].answer
           /\ \A e \in Calls \ {c} : call'[e] = call[e]
<1>1. call[c] \in CallState
  BY DEF TypeOK
<1>2. CASE connections[d] = None
  <2>1. call' = [call EXCEPT ![c] =
            [call[c] EXCEPT !.device = d, !.place = "gone", !.answer = "AGENT_DISCONNECTED"]]
    BY <1>2 DEF SendToolCall, TypeOK
  <2> QED
    BY <1>1, <1>2, <2>1 DEF SendToolCall, TypeOK, CallState
<1>3. CASE connections[d] # None
  <2>1. call' = [call EXCEPT ![c] =
            [call[c] EXCEPT !.device = d, !.socket = connections[d],
                !.place = IF gateway[connections[d]] = "open" THEN "toDevice" ELSE "gone"]]
    BY <1>3 DEF SendToolCall, TypeOK
  <2> QED
    BY <1>1, <1>3, <2>1 DEF SendToolCall, TypeOK, CallState
<1> QED
  BY <1>2, <1>3

LEMMA FinishChanges ==
    ASSUME TypeOK, NEW c \in Calls, FinishToolCall(c)
    PROVE  /\ call[c].place = "running"
           /\ call'[c].device = call[c].device /\ call'[c].answer = call[c].answer
           /\ call'[c].ran
           /\ call'[c].place \in {"toGateway", "gone"}
           /\ \A e \in Calls \ {c} : call'[e] = call[e]
<1> DEFINE p == IF device[call[c].socket] = "open" /\ Listening(call[c].socket)
                THEN "toGateway" ELSE "gone"
<1>1. call[c] \in CallState
  BY DEF TypeOK
<1>2. call' = [call EXCEPT ![c] = [call[c] EXCEPT !.ran = TRUE, !.place = p]]
  BY DEF FinishToolCall, TypeOK
<1> QED
  BY <1>1, <1>2 DEF FinishToolCall, TypeOK, CallState

\* resolve of an entry of the table.
LEMMA AnsweredOnce ==
    ASSUME CallsAreTracked, NEW c \in pending, NEW a
    PROVE  /\ c \in Calls
           /\ Answered(c, a).answer = a
           /\ Answered(c, a).device = call[c].device
           /\ Answered(c, a).ran = call[c].ran
           /\ Answered(c, a).place = call[c].place
<1>1. c \in Calls /\ call[c] \in CallState /\ call[c].answer = "none"
  BY DEF CallsAreTracked, PendingIsUnanswered, Asked, TypeOK
<1> QED
  BY <1>1 DEF Answered, CallState

LEMMA ResultChanges ==
    ASSUME CallsAreTracked, NEW c \in Calls, HandleResult(c)
    PROVE  /\ call[c].place = "toGateway"
           /\ call'[c].device = call[c].device /\ call'[c].ran = call[c].ran
           /\ call'[c].place = "gone"
           /\ call'[c].answer = IF c \in pending THEN "result" ELSE call[c].answer
           /\ pending' = pending \ {c} /\ timers' = timers \ {c}
           /\ \A e \in Calls \ {c} : call'[e] = call[e]
<1>1. call[c] \in CallState
  BY DEF CallsAreTracked, TypeOK
<1>2. Answered(c, "result") \in CallState
  BY <1>1 DEF Answered, CallState, Answers
<1>3. CASE c \in pending
  <2>1. call' = [call EXCEPT ![c] = [Answered(c, "result") EXCEPT !.place = "gone"]]
    BY <1>3 DEF HandleResult
  <2> HIDE DEF Answered
  <2>2. call'[c] = [Answered(c, "result") EXCEPT !.place = "gone"]
    BY <2>1 DEF CallsAreTracked, TypeOK
  <2> QED
    BY <1>1, <1>2, <1>3, <2>1, <2>2, AnsweredOnce
       DEF HandleResult, Settle, CallsAreTracked, TypeOK, CallState
<1>4. CASE c \notin pending
  <2>1. call' = [call EXCEPT ![c] = [call[c] EXCEPT !.place = "gone"]]
    BY <1>4 DEF HandleResult, CallsAreTracked, TypeOK
  <2> QED
    BY <1>1, <1>2, <1>4, <2>1 DEF HandleResult, CallsAreTracked, PendingIsUnanswered, TypeOK, CallState
<1> QED
  BY <1>3, <1>4

LEMMA TimeoutChanges ==
    ASSUME CallsAreTracked, NEW c \in Calls, ToolCallTimesOut(c)
    PROVE  /\ c \in pending
           /\ call'[c].device = call[c].device /\ call'[c].ran = call[c].ran
           /\ call'[c].place = call[c].place
           /\ call'[c].answer = "TOOL_TIMEOUT"
           /\ pending' = pending \ {c} /\ timers' = timers \ {c}
           /\ \A e \in Calls \ {c} : call'[e] = call[e]
BY AnsweredOnce DEF ToolCallTimesOut, Settle, CallsAreTracked, PendingIsUnanswered, TypeOK

-----------------------------------------------------------------------------
(* The table of pending calls.                                              *)

\* The calls of a device that are rejected together leave the table together.
LEMMA RejectedAreSettled ==
    ASSUME CallsAreTracked, NEW d \in Devices, Settle(PendingOf(d)),
           call' \in [Calls -> CallState],
           \A c \in Calls : /\ call'[c].device = Rejected(d, c).device
                            /\ call'[c].answer = Rejected(d, c).answer
    PROVE  PendingIsUnanswered'
<1>1. \A c \in Calls : c \in PendingOf(d) =>
          /\ call'[c].device = call[c].device
          /\ call'[c].answer = "AGENT_DISCONNECTED"
  BY DEF CallsAreTracked, PendingIsUnanswered, TypeOK, CallState, PendingOf, Asked, Rejected, Answered
<1>2. \A c \in Calls : c \notin PendingOf(d) =>
          call'[c].device = call[c].device /\ call'[c].answer = call[c].answer
  BY DEF Rejected
<1>3. pending' = {c \in pending : c \notin PendingOf(d)} /\ timers' = pending'
  BY DEF Settle, CallsAreTracked, PendingIsUnanswered
<1> QED
  BY <1>1, <1>2, <1>3 DEF CallsAreTracked, PendingIsUnanswered, Asked, PendingOf

LEMMA SocketTracks ==
    ASSUME CallsAreTracked, NEW s \in Sockets, SocketNext(s)
    PROVE  CallsAreTracked'
<1>1. TypeOK'
  BY SocketTypes DEF CallsAreTracked
<1>2. CASE UNCHANGED <<call, pending, timers>>
  BY <1>1, <1>2 DEF CallsAreTracked, PendingIsUnanswered, MessagesAreReal, Asked
<1>3. CASE GatewayCloses(s)
  <2>1. \A c \in Calls :
            LET answered == IF Identified(s) THEN Rejected(DeviceOf[s], c) ELSE call[c]
            IN  /\ call'[c].device = answered.device
                /\ call'[c].answer = answered.answer
                /\ call'[c].ran = call[c].ran
                /\ call'[c].device = call[c].device
                /\ call'[c].place \in {call[c].place, "gone"}
                /\ call'[c].place # call[c].place => call[c].place \in {"toDevice", "toGateway"}
                /\ c \notin pending => call'[c].answer = call[c].answer
    BY <1>3 DEF GatewayCloses, CallsAreTracked, TypeOK, CallState, Rejected, Answered, PendingOf, Lost
  <2>2. MessagesAreReal'
    BY <2>1 DEF CallsAreTracked, MessagesAreReal, PendingIsUnanswered, Asked
  <2>3. CASE Identified(s)
    <3>1. DeviceOf[s] \in Devices /\ Settle(PendingOf(DeviceOf[s]))
      BY <1>3, <2>3 DEF GatewayCloses, UnregisterConnection
    <3> QED
      BY SMTT(20), <1>1, <2>1, <2>2, <2>3, <3>1, RejectedAreSettled DEF CallsAreTracked, TypeOK
  <2>4. CASE ~Identified(s)
    <3>1. pending' = pending /\ timers' = timers
      BY <1>3, <2>4 DEF GatewayCloses, channel
    <3>2. \A c \in Calls : call'[c].device = call[c].device /\ call'[c].answer = call[c].answer
      BY <2>1, <2>4
    <3>3. PendingIsUnanswered'
      BY <3>1, <3>2 DEF CallsAreTracked, PendingIsUnanswered, Asked
    <3> QED
      BY <1>1, <2>2, <3>3 DEF CallsAreTracked
  <2> QED
    BY <2>3, <2>4
<1> QED
  BY <1>2, <1>3 DEF SocketNext, Connect, SendHeartbeat, DeviceLeaves, HandleHello, Registered,
     Recorded, HelloFails, HandleHeartbeat, HeartbeatStatus, HeartbeatFails, HeartbeatRecorded,
     CloseStatus, CloseRecorded, channel

LEMMA CallTracks ==
    ASSUME CallsAreTracked, NEW c \in Calls, CallNext(c)
    PROVE  CallsAreTracked'
<1> USE DEF CallsAreTracked
<1>1. TypeOK'
  BY CallTypes
<1>2. ASSUME NEW d \in Devices, SendToolCall(c, d)
      PROVE  PendingIsUnanswered' /\ MessagesAreReal'
  <2>1. call[c].answer = "none" /\ ~call[c].ran /\ d # None
    BY <1>2, SendChanges DEF MessagesAreReal
  <2>2. PendingIsUnanswered'
    BY ZenonT(40), <1>2, <2>1, SendChanges DEF PendingIsUnanswered, Asked
  <2>3. MessagesAreReal'
    BY <1>2, <2>1, SendChanges DEF MessagesAreReal
  <2> QED
    BY <2>2, <2>3
<1>3. CASE TakeToolCall(c)
  <2>1. /\ call[c].place = "toDevice" /\ call'[c].place = "running"
        /\ call'[c].device = call[c].device /\ call'[c].ran = call[c].ran
        /\ call'[c].answer = call[c].answer
        /\ \A e \in Calls \ {c} : call'[e] = call[e]
    BY <1>3 DEF TakeToolCall, TypeOK, CallState
  <2> QED
    BY <1>1, <1>3, <2>1 DEF TakeToolCall, channel, PendingIsUnanswered, MessagesAreReal, Asked
<1>4. CASE FinishToolCall(c)
  <2>1. PendingIsUnanswered'
    <3>1. pending' = pending /\ timers' = timers
      BY <1>4 DEF FinishToolCall, channel
    <3>2. \A e \in Calls : call'[e].device = call[e].device /\ call'[e].answer = call[e].answer
      BY <1>4, FinishChanges
    <3> QED
      BY <3>1, <3>2 DEF PendingIsUnanswered, Asked
  <2>2. MessagesAreReal'
    BY <1>4, FinishChanges DEF MessagesAreReal
  <2> QED
    BY <1>1, <2>1, <2>2
<1>5. CASE HandleResult(c)
  <2>1. PendingIsUnanswered'
    <3>1. \A e \in Calls : call'[e].device = call[e].device
      BY <1>5, ResultChanges
    <3>2. \A e \in Calls : call'[e].answer = IF e = c /\ c \in pending THEN "result" ELSE call[e].answer
      BY <1>5, ResultChanges
    <3>3. pending' = pending \ {c} /\ timers' = timers \ {c}
      BY <1>5, ResultChanges
    <3> QED
      BY <3>1, <3>2, <3>3 DEF PendingIsUnanswered, Asked
  <2>2. MessagesAreReal'
    BY <1>5, ResultChanges DEF MessagesAreReal
  <2> QED
    BY <1>1, <2>1, <2>2
<1>6. CASE ToolCallTimesOut(c)
  <2>1. PendingIsUnanswered'
    BY ZenonT(40), <1>6, TimeoutChanges DEF PendingIsUnanswered, Asked
  <2>2. MessagesAreReal'
    BY <1>6, TimeoutChanges DEF MessagesAreReal, PendingIsUnanswered, Asked
  <2> QED
    BY <1>1, <2>1, <2>2
<1> QED
  BY <1>1, <1>2, <1>3, <1>4, <1>5, <1>6 DEF CallNext

LEMMA EvictionTracks ==
    ASSUME CallsAreTracked, NEW d \in Devices, MarkDeviceOffline(d)
    PROVE  CallsAreTracked'
<1>1. TypeOK'
  BY EvictionTypes DEF CallsAreTracked
<1>2. \A c \in Calls : /\ call'[c] = Rejected(d, c)
                       /\ call'[c].ran = call[c].ran
                       /\ call'[c].device = call[c].device
                       /\ call'[c].place = call[c].place
                       /\ c \notin pending => call'[c].answer = call[c].answer
  BY DEF MarkDeviceOffline, CallsAreTracked, TypeOK, CallState, Rejected, Answered, PendingOf
<1>3. MessagesAreReal'
  BY <1>2 DEF CallsAreTracked, MessagesAreReal, PendingIsUnanswered, Asked
<1>4. PendingIsUnanswered'
  BY <1>1, <1>2, RejectedAreSettled DEF MarkDeviceOffline, UnregisterConnection, TypeOK
<1> QED
  BY <1>1, <1>3, <1>4 DEF CallsAreTracked

\* The inductive invariant: no handler loses or keeps an entry of
\* pendingToolCalls, and results are sent after the tool has run.
THEOREM CallsAlwaysTracked == Spec => []CallsAreTracked
<1>1. Init => CallsAreTracked
  BY TypesInit DEF Init, CallsAreTracked, PendingIsUnanswered, MessagesAreReal, Asked
<1>2. CallsAreTracked /\ [Next]_vars => CallsAreTracked'
  <2> SUFFICES ASSUME CallsAreTracked, [Next]_vars
               PROVE  CallsAreTracked'
    OBVIOUS
  <2>1. CASE UNCHANGED vars
    BY <2>1 DEF vars, sockets, stores, channel, CallsAreTracked, TypeOK, PendingIsUnanswered,
                MessagesAreReal, Asked
  <2>2. CASE Next
    BY <2>2, SocketTracks, CallTracks, EvictionTracks DEF Next
  <2> QED
    BY <2>1, <2>2
<1> QED
  BY <1>1, <1>2, PTL DEF Spec

\* Types of the gateway's and the desktop's state.
THEOREM ChannelTypes == Spec => []TypeOK
BY CallsAlwaysTracked, PTL DEF CallsAreTracked

\* A call is in pendingToolCalls, and its timer armed, exactly while it has no
\* answer.
THEOREM PendingIsExact == Spec => []PendingIsUnanswered
BY CallsAlwaysTracked, PTL DEF CallsAreTracked

-----------------------------------------------------------------------------
(* Refinement.                                                              *)

\* Calls that are answered in one step.
LEMMA AnswersImplement ==
    ASSUME CallsAreTracked, NEW S \in SUBSET pending,
           NEW a \in {"result", "TOOL_TIMEOUT", "AGENT_DISCONNECTED"},
           a = "result" => \A c \in S : call[c].ran,
           \A c \in Calls : /\ call'[c].device = call[c].device
                            /\ call'[c].ran = call[c].ran
                            /\ call'[c].answer = IF c \in S THEN a ELSE call[c].answer
    PROVE  Abstract!Answer(S, a)
BY DEF Abstract!Answer, CallsAreTracked, PendingIsUnanswered, Asked, TypeOK

\* Calls whose answers do not change.
LEMMA NothingNewIsAStutter ==
    ASSUME \A c \in Calls : /\ call'[c].device = call[c].device
                            /\ call'[c].ran = call[c].ran
                            /\ call'[c].answer = call[c].answer
    PROVE  UNCHANGED <<Asked, {c \in Calls : call[c].ran}, [c \in Calls |-> call[c].answer]>>
BY DEF Asked

LEMMA SocketImplements ==
    ASSUME CallsAreTracked, NEW s \in Sockets, SocketNext(s)
    PROVE  \/ Abstract!Next
           \/ UNCHANGED <<Asked, {c \in Calls : call[c].ran}, [c \in Calls |-> call[c].answer]>>
<1>1. CASE UNCHANGED call
  BY <1>1 DEF Asked
<1>2. CASE GatewayCloses(s)
  <2> DEFINE S == IF Identified(s) THEN PendingOf(DeviceOf[s]) ELSE {}
  <2>1. S \in SUBSET pending
    BY DEF PendingOf
  <2>2. \A c \in Calls :
            /\ call'[c].device = call[c].device
            /\ call'[c].ran = call[c].ran
            /\ call'[c].answer = IF c \in S THEN "AGENT_DISCONNECTED" ELSE call[c].answer
    BY <1>2 DEF GatewayCloses, CallsAreTracked, PendingIsUnanswered, Asked, TypeOK, CallState,
                Rejected, Answered, PendingOf
  <2>3. Abstract!Answer(S, "AGENT_DISCONNECTED")
    BY <2>1, <2>2, AnswersImplement
  <2>4. S \in SUBSET Calls
    BY <2>1 DEF CallsAreTracked, TypeOK
  <2> QED
    BY <2>3, <2>4 DEF Abstract!Next, Abstract!Errors
<1> QED
  BY <1>1, <1>2 DEF SocketNext, Connect, SendHeartbeat, DeviceLeaves, HandleHello, Registered,
     Recorded, HelloFails, HandleHeartbeat, HeartbeatStatus, HeartbeatFails, HeartbeatRecorded,
     CloseStatus, CloseRecorded

LEMMA CallImplements ==
    ASSUME CallsAreTracked, NEW c \in Calls, CallNext(c)
    PROVE  \/ Abstract!Next
           \/ UNCHANGED <<Asked, {e \in Calls : call[e].ran}, [e \in Calls |-> call[e].answer]>>
<1> USE DEF CallsAreTracked, TypeOK, CallState
<1>1. ASSUME NEW d \in Devices, SendToolCall(c, d)
      PROVE  Abstract!Ask(c)
  <2> DEFINE answers == [e \in Calls |-> call[e].answer]
  <2>1. d # None
    OBVIOUS
  <2>2. Asked' = Asked \cup {c} /\ c \notin Asked
    BY <1>1, <2>1, SendChanges DEF Asked
  <2>3. {e \in Calls : call[e].ran}' = {e \in Calls : call[e].ran}
    BY <1>1, SendChanges
  <2>4. CASE call'[c].answer = call[c].answer
    <3>1. answers' = answers
      BY <1>1, <2>4, SendChanges
    <3> QED
      BY <2>2, <2>3, <3>1 DEF Abstract!Ask
  <2>5. CASE call'[c].answer = "AGENT_DISCONNECTED"
    <3>1. \A e \in Calls : call'[e].answer = IF e = c THEN "AGENT_DISCONNECTED" ELSE call[e].answer
      BY <1>1, <2>5, SendChanges
    <3>2. answers' = [answers EXCEPT ![c] = "AGENT_DISCONNECTED"]
      BY <3>1
    <3> QED
      BY <2>2, <2>3, <3>2 DEF Abstract!Ask
  <2> QED
    BY <1>1, <2>4, <2>5, SendChanges
<1>2. CASE TakeToolCall(c)
  <2>1. \A e \in Calls : /\ call'[e].device = call[e].device
                         /\ call'[e].ran = call[e].ran
                         /\ call'[e].answer = call[e].answer
    BY <1>2 DEF TakeToolCall, CallState
  <2> QED
    BY <2>1, NothingNewIsAStutter
<1>3. CASE FinishToolCall(c)
  <2>1. c \in Asked
    BY <1>3, FinishChanges DEF MessagesAreReal, Asked
  <2>2. Asked' = Asked
    <3>1. \A e \in Calls : call'[e].device = call[e].device
      BY <1>3, FinishChanges
    <3> QED
      BY <3>1 DEF Asked
  <2>3. {e \in Calls : call[e].ran}' = {e \in Calls : call[e].ran} \cup {c}
    BY <1>3, FinishChanges
  <2>4. [e \in Calls |-> call[e].answer]' = [e \in Calls |-> call[e].answer]
    BY SMTT(20), <1>3, FinishChanges
  <2>5. Abstract!Run(c)
    BY <2>1, <2>2, <2>3, <2>4 DEF Abstract!Run
  <2> QED
    BY <2>5 DEF Abstract!Next
<1>4. CASE HandleResult(c) /\ c \in pending
  <2>1. call[c].ran
    BY <1>4, ResultChanges DEF MessagesAreReal
  <2>2. \A e \in Calls : /\ call'[e].device = call[e].device
                         /\ call'[e].ran = call[e].ran
                         /\ call'[e].answer = IF e \in {c} THEN "result" ELSE call[e].answer
    BY <1>4, ResultChanges
  <2>3. Abstract!Answer({c}, "result")
    BY <1>4, <2>1, <2>2, AnswersImplement
  <2> QED
    BY <2>3 DEF Abstract!Next
<1>5. CASE HandleResult(c) /\ c \notin pending
  BY <1>5, ResultChanges, NothingNewIsAStutter
<1>6. CASE ToolCallTimesOut(c)
  <2>1. \A e \in Calls : /\ call'[e].device = call[e].device
                         /\ call'[e].ran = call[e].ran
                         /\ call'[e].answer = IF e \in {c} THEN "TOOL_TIMEOUT" ELSE call[e].answer
    BY <1>6, TimeoutChanges
  <2>2. Abstract!Answer({c}, "TOOL_TIMEOUT")
    BY <1>6, <2>1, TimeoutChanges, AnswersImplement
  <2> QED
    BY <2>2 DEF Abstract!Next, Abstract!Errors
<1> QED
  BY <1>1, <1>2, <1>3, <1>4, <1>5, <1>6 DEF CallNext, Abstract!Next

LEMMA EvictionImplements ==
    ASSUME CallsAreTracked, NEW d \in Devices, MarkDeviceOffline(d)
    PROVE  Abstract!Next
<1>1. PendingOf(d) \in SUBSET pending
  BY DEF PendingOf
<1>2. \A c \in Calls :
          /\ call'[c].device = call[c].device
          /\ call'[c].ran = call[c].ran
          /\ call'[c].answer = IF c \in PendingOf(d) THEN "AGENT_DISCONNECTED" ELSE call[c].answer
  BY DEF MarkDeviceOffline, CallsAreTracked, PendingIsUnanswered, Asked, TypeOK, CallState,
         Rejected, Answered, PendingOf
<1>3. Abstract!Answer(PendingOf(d), "AGENT_DISCONNECTED")
  BY <1>1, <1>2, AnswersImplement
<1>4. PendingOf(d) \in SUBSET Calls
  BY <1>1 DEF CallsAreTracked, TypeOK
<1> QED
  BY <1>3, <1>4 DEF Abstract!Next, Abstract!Errors

\* The gateway and the desktops implement ToolCalls: a call is answered once,
\* and with a result only after its device has run it.
THEOREM ChannelImplementsToolCalls == Spec => ImplementsToolCalls
<1>1. Init => Abstract!Init
  BY DEF Init, Abstract!Init, Asked
<1>2. CallsAreTracked /\ [Next]_vars
        => [Abstract!Next]_<<Asked, {c \in Calls : call[c].ran}, [c \in Calls |-> call[c].answer]>>
  <2> SUFFICES ASSUME CallsAreTracked, [Next]_vars
               PROVE  \/ Abstract!Next
                      \/ UNCHANGED <<Asked, {c \in Calls : call[c].ran},
                                     [c \in Calls |-> call[c].answer]>>
    OBVIOUS
  <2>1. CASE UNCHANGED vars
    BY <2>1 DEF vars, Asked
  <2>2. CASE Next
    BY <2>2, SocketImplements, CallImplements, EvictionImplements DEF Next
  <2> QED
    BY <2>1, <2>2
<1> QED
  BY <1>1, <1>2, CallsAlwaysTracked, PTL DEF Spec, ImplementsToolCalls, Abstract!Spec

-----------------------------------------------------------------------------
(* Sockets, the registry and the stores.                                    *)

\* A handler of a socket runs after its hello was sent, the handler of its
\* close event after its close, and nobody is registered or called on a socket
\* whose hello has not been handled.
SocketsAreReal ==
    /\ \A s \in Sockets :
          /\ gateway[s] = "new" <=> hello[s] = "unsent"
          /\ gateway[s] = "closed" <=> closed[s] # "no"
    /\ \A d \in Devices : connections[d] # None =>
          DeviceOf[connections[d]] = d /\ Identified(connections[d])
    /\ \A d \in Devices :
          IF presence[d].socket = None THEN presence[d].status = "unknown"
          ELSE DeviceOf[presence[d].socket] = d /\ Identified(presence[d].socket)
    /\ \A c \in Calls : call[c].socket # None =>
          DeviceOf[call[c].socket] = call[c].device /\ Identified(call[c].socket)

CallsStay == \A c \in Calls : call'[c].device = call[c].device /\ call'[c].socket = call[c].socket

LEMMA CloseRejects ==
    ASSUME TypeOK, NEW s \in Sockets, GatewayCloses(s)
    PROVE  /\ CallsStay
           /\ \A c \in Calls : \/ call'[c].answer = call[c].answer
                               \/ Identified(s) /\ call[c].device = DeviceOf[s]
BY DEF GatewayCloses, TypeOK, CallState, CallsStay, Rejected, Answered, PendingOf

LEMMA EvictionRejects ==
    ASSUME TypeOK, NEW d \in Devices, MarkDeviceOffline(d)
    PROVE  /\ CallsStay
           /\ \A c \in Calls : call'[c].answer = call[c].answer \/ call[c].device = d
BY DEF MarkDeviceOffline, TypeOK, CallState, CallsStay, Rejected, Answered, PendingOf

\* A call is made on the registered socket of its device, or on none.
LEMMA CallStepChanges ==
    ASSUME TypeOK, NEW c \in Calls, CallNext(c)
    PROVE  /\ UNCHANGED <<gateway, device, hello, beat, closed, connections, routing, presence>>
           /\ \A e \in Calls :
                 \/ /\ call'[e].device = call[e].device /\ call'[e].socket = call[e].socket
                    /\ call'[e].answer \in {call[e].answer, "result", "TOOL_TIMEOUT"}
                 \/ /\ call[e].device = None /\ call'[e].device \in Devices
                    /\ \/ /\ connections[call'[e].device] = None
                          /\ call'[e].socket = call[e].socket
                       \/ /\ connections[call'[e].device] # None
                          /\ call'[e].socket = connections[call'[e].device]
                          /\ call'[e].answer = call[e].answer
<1>1. /\ call[c] \in CallState
      /\ UNCHANGED <<gateway, device, hello, beat, closed, connections, routing, presence>>
  BY DEF TypeOK, CallNext, SendToolCall, TakeToolCall, FinishToolCall, HandleResult,
         ToolCallTimesOut, sockets, channel, stores
<1> DEFINE Other == \A e \in Calls \ {c} : call'[e] = call[e]
           Stays == /\ call'[c].device = call[c].device /\ call'[c].socket = call[c].socket
                    /\ call'[c].answer \in {call[c].answer, "result", "TOOL_TIMEOUT"}
<1>2. ASSUME NEW d \in Devices, SendToolCall(c, d)
      PROVE  /\ Other /\ call[c].device = None /\ call'[c].device = d
             /\ \/ /\ connections[d] = None /\ call'[c].socket = call[c].socket
                \/ /\ connections[d] # None /\ call'[c].socket = connections[d]
                   /\ call'[c].answer = call[c].answer
  <2>1. CASE connections[d] = None
    <3>1. call' = [call EXCEPT ![c] =
              [call[c] EXCEPT !.device = d, !.place = "gone", !.answer = "AGENT_DISCONNECTED"]]
      BY <1>2, <2>1 DEF SendToolCall, TypeOK
    <3> QED BY <1>1, <1>2, <2>1, <3>1 DEF SendToolCall, TypeOK, CallState
  <2>2. CASE connections[d] # None
    <3>1. call' = [call EXCEPT ![c] =
              [call[c] EXCEPT !.device = d, !.socket = connections[d],
                  !.place = IF gateway[connections[d]] = "open" THEN "toDevice" ELSE "gone"]]
      BY <1>2, <2>2 DEF SendToolCall, TypeOK
    <3> QED BY <1>1, <1>2, <2>2, <3>1 DEF SendToolCall, TypeOK, CallState
  <2> QED BY <2>1, <2>2
<1>3. CASE TakeToolCall(c)
  <2>1. Other /\ Stays
    BY <1>1, <1>3 DEF TakeToolCall, TypeOK, CallState
  <2> QED BY <1>1, <2>1
<1>4. CASE FinishToolCall(c)
  <2> DEFINE p == IF device[call[c].socket] = "open" /\ Listening(call[c].socket)
                  THEN "toGateway" ELSE "gone"
  <2>1. call' = [call EXCEPT ![c] = [call[c] EXCEPT !.ran = TRUE, !.place = p]]
    BY <1>4 DEF FinishToolCall, TypeOK
  <2>2. Other /\ Stays
    BY <1>1, <2>1 DEF TypeOK, CallState
  <2> QED BY <1>1, <2>2
<1>5. CASE HandleResult(c) \/ ToolCallTimesOut(c)
  <2>1. \A a \in {"result", "TOOL_TIMEOUT"} :
            /\ Answered(c, a).device = call[c].device /\ Answered(c, a).socket = call[c].socket
            /\ Answered(c, a).answer \in {call[c].answer, a} /\ Answered(c, a) \in CallState
    BY <1>1 DEF Answered, CallState, Answers
  <2>2. Other /\ Stays
    <3>1. CASE HandleResult(c) /\ c \in pending
      <4>1. call' = [call EXCEPT ![c] = [Answered(c, "result") EXCEPT !.place = "gone"]]
        BY <3>1 DEF HandleResult
      <4> QED BY <1>1, <2>1, <4>1 DEF TypeOK, CallState
    <3>2. CASE HandleResult(c) /\ c \notin pending
      <4>1. call' = [call EXCEPT ![c] = [call[c] EXCEPT !.place = "gone"]]
        BY <3>2 DEF HandleResult, TypeOK
      <4> QED BY <1>1, <4>1 DEF TypeOK, CallState
    <3>3. CASE ToolCallTimesOut(c)
      <4>1. call' = [call EXCEPT ![c] = Answered(c, "TOOL_TIMEOUT")]
        BY <3>3 DEF ToolCallTimesOut
      <4> QED BY <2>1, <4>1 DEF TypeOK
    <3> QED BY <1>5, <3>1, <3>2, <3>3
  <2> QED BY <1>1, <2>2
<1> QED BY <1>1, <1>2, <1>3, <1>4, <1>5 DEF CallNext

LEMMA SocketsStayReal ==
    ASSUME TypeOK, SocketsAreReal, NEW s \in Sockets, SocketNext(s)
    PROVE  SocketsAreReal'
<1> USE DEF TypeOK
<1>1. /\ \A t \in Sockets : (gateway[t] = "new" <=> hello[t] = "unsent")'
                            /\ (gateway[t] = "closed" <=> closed[t] # "no")'
      /\ \A t \in Sockets : Identified(t) => Identified(t)'
      /\ \A d \in Devices : connections'[d] # connections[d] =>
            connections'[d] = None \/ (connections'[d] = s /\ d = DeviceOf[s] /\ Identified(s)')
      /\ CallsStay
  <2>1. CASE Connect(s)
    BY <2>1 DEF Connect, channel, stores, SocketsAreReal, Identified, CallsStay
  <2>2. CASE SendHeartbeat(s) \/ DeviceLeaves(s) \/ HandleHeartbeat(s)
    BY <2>2 DEF SendHeartbeat, DeviceLeaves, HandleHeartbeat, channel, stores, SocketsAreReal, Identified, CallsStay
  <2>3. CASE HandleHello(s)
    BY <2>3 DEF HandleHello, channel, stores, SocketsAreReal, Identified, CallsStay
  <2>4. CASE Registered(s)
    BY <2>4 DEF Registered, SocketsAreReal, Identified, CallsStay
  <2>5. CASE Recorded(s)
    BY <2>5 DEF Recorded, channel, SocketsAreReal, Identified, CallsStay
  <2>6. CASE HelloFails(s)
    BY <2>6 DEF HelloFails, Shut, channel, stores, SocketsAreReal, Identified, CallsStay
  <2>7. CASE HeartbeatStatus(s) \/ HeartbeatRecorded(s)
    BY <2>7 DEF HeartbeatStatus, HeartbeatRecorded, channel, SocketsAreReal, Identified, CallsStay
  <2>8. CASE HeartbeatFails(s)
    BY <2>8 DEF HeartbeatFails, Shut, channel, stores, SocketsAreReal, Identified, CallsStay
  <2>9. CASE GatewayCloses(s)
    <3>1. /\ gateway' = [gateway EXCEPT ![s] = "closed"] /\ hello' = hello
          /\ closed'[s] # "no" /\ \A t \in Sockets \ {s} : closed'[t] = closed[t]
          /\ gateway[s] # "new"
      BY <2>9 DEF GatewayCloses, Listening
    <3>2. \A d \in Devices : connections'[d] # connections[d] => connections'[d] = None
      BY <2>9 DEF GatewayCloses, UnregisterConnection, channel
    <3> QED BY <2>9, <3>1, <3>2, CloseRejects DEF SocketsAreReal, Identified
  <2>10. CASE CloseStatus(s) \/ CloseRecorded(s)
    BY <2>10 DEF CloseStatus, CloseRecorded, channel, SocketsAreReal, Identified, CallsStay
  <2> QED
    BY <2>1, <2>2, <2>3, <2>4, <2>5, <2>6, <2>7, <2>8, <2>9, <2>10 DEF SocketNext
<1>2. (\A d \in Devices : connections[d] # None =>
           DeviceOf[connections[d]] = d /\ Identified(connections[d]))'
  BY <1>1 DEF SocketsAreReal, Identified
<1>3. (\A c \in Calls : call[c].socket # None =>
           DeviceOf[call[c].socket] = call[c].device /\ Identified(call[c].socket))'
  <2>1. \A c \in Calls : call[c].socket \in Sockets \cup {None}
    BY DEF CallState
  <2> QED BY <1>1, <2>1 DEF SocketsAreReal, CallsStay, Identified
<1>4. (\A d \in Devices :
           IF presence[d].socket = None THEN presence[d].status = "unknown"
           ELSE DeviceOf[presence[d].socket] = d /\ Identified(presence[d].socket))'
  <2>1. \A d \in Devices : \/ presence'[d] = presence[d]
                            \/ /\ presence[d].socket # None
                               /\ presence'[d].socket = presence[d].socket
                            \/ /\ d = DeviceOf[s] /\ presence'[d].socket = s
                               /\ Identified(s)'
    <3>1. CASE UNCHANGED presence
      BY <3>1
    <3>2. CASE Recorded(s)
      BY <3>2 DEF Recorded, Identified
    <3>3. CASE \E status \in {"online", "offline"} : SetPresence(s, status)
      BY <3>3 DEF SetPresence
    <3> QED
      BY <3>1, <3>2, <3>3 DEF SocketNext, Connect, SendHeartbeat, DeviceLeaves, HandleHello,
         Registered, HelloFails, HandleHeartbeat, HeartbeatStatus, HeartbeatFails, HeartbeatRecorded,
         GatewayCloses, CloseStatus, CloseRecorded, stores
  <2>2. \A d \in Devices : presence[d].socket \in Sockets \cup {None}
    OBVIOUS
  <2> QED BY <1>1, <2>1, <2>2 DEF SocketsAreReal, Identified
<1> QED BY <1>1, <1>2, <1>3, <1>4 DEF SocketsAreReal

LEMMA CallsStayReal ==
    ASSUME TypeOK, SocketsAreReal, NEW c \in Calls, CallNext(c)
    PROVE  SocketsAreReal'
<1>1. /\ UNCHANGED <<gateway, hello, closed, connections, presence>>
      /\ connections \in [Devices -> Sockets \cup {None}]
  BY CallStepChanges DEF TypeOK
<1>2. \A e \in Calls : call'[e].socket # None =>
          DeviceOf[call'[e].socket] = call'[e].device /\ Identified(call'[e].socket)
  <2> SUFFICES ASSUME NEW e \in Calls, call'[e].socket # None
               PROVE  DeviceOf[call'[e].socket] = call'[e].device /\ Identified(call'[e].socket)
    OBVIOUS
  <2>1. call[e].socket \in Sockets \cup {None}
    BY DEF TypeOK, CallState
  <2>2. CASE call[e].device = None
    <3>1. call[e].socket = None
      BY <2>1, <2>2 DEF SocketsAreReal
    <3> QED BY <3>1, CallStepChanges DEF SocketsAreReal
  <2>3. CASE call[e].device # None
    BY <2>3, CallStepChanges DEF SocketsAreReal
  <2> QED BY <2>2, <2>3
<1> QED BY <1>1, <1>2 DEF SocketsAreReal, Identified

LEMMA EvictionStaysReal ==
    ASSUME TypeOK, SocketsAreReal, NEW d \in Devices, MarkDeviceOffline(d)
    PROVE  SocketsAreReal'
<1>1. connections[d] \in Sockets
  BY DEF MarkDeviceOffline, TypeOK
<1>2. /\ gateway' = Shut(connections[d]) /\ hello' = hello /\ closed' = closed
      /\ connections' = [connections EXCEPT ![d] = None] /\ presence' = presence
  BY DEF MarkDeviceOffline, UnregisterConnection, stores
<1>3. \A s \in Sockets : /\ gateway'[s] = "new" <=> gateway[s] = "new"
                         /\ gateway'[s] = "closed" <=> gateway[s] = "closed"
                         /\ Identified(s)' <=> Identified(s)
  BY <1>1, <1>2 DEF Shut, TypeOK, Identified
<1>4. CallsStay /\ \A c \in Calls : call[c].socket \in Sockets \cup {None}
  BY EvictionRejects DEF TypeOK, CallState
<1>5. \A e \in Devices : connections'[e] # None => connections'[e] = connections[e]
  BY <1>2 DEF TypeOK
<1>6. (\A c \in Calls : call[c].socket # None =>
           DeviceOf[call[c].socket] = call[c].device /\ Identified(call[c].socket))'
  BY <1>2, <1>4 DEF SocketsAreReal, Identified, CallsStay
<1> QED BY <1>2, <1>3, <1>5, <1>6 DEF SocketsAreReal, Identified, TypeOK

LEMMA OfflineStaysReal ==
    ASSUME TypeOK, SocketsAreReal, OfflineIsReal, [Next]_vars
    PROVE  OfflineIsReal'
<1>1. CASE UNCHANGED <<gateway, presence>>
  BY <1>1 DEF OfflineIsReal
<1>2. ASSUME NEW s \in Sockets, SocketNext(s) PROVE OfflineIsReal'
  <2>1. \A d \in Devices : presence[d].status = "offline" => presence[d].socket \in Sockets \cup {None}
    BY DEF TypeOK
  <2>2. \A t \in Sockets : gateway[t] = "closed" => gateway'[t] = "closed"
    BY <1>2 DEF TypeOK, SocketNext, Connect, SendHeartbeat, DeviceLeaves, HandleHello, Registered,
       Recorded, HelloFails, HandleHeartbeat, HeartbeatStatus, HeartbeatFails, HeartbeatRecorded,
       GatewayCloses, CloseStatus, CloseRecorded, Shut
  <2>3. CASE UNCHANGED presence
    <3>1. \A d \in Devices : presence[d].status = "offline" => presence[d].socket \in Sockets
      BY <2>1 DEF SocketsAreReal
    <3> QED BY <2>2, <2>3, <3>1 DEF OfflineIsReal
  <2>4. CASE Recorded(s)
    BY <2>2, <2>4 DEF Recorded, OfflineIsReal, TypeOK
  <2>5. CASE HeartbeatRecorded(s)
    BY <2>5 DEF HeartbeatRecorded, SetPresence, OfflineIsReal, TypeOK
  <2>6. CASE CloseRecorded(s)
    <3>1. gateway[s] = "closed"
      BY <2>6 DEF CloseRecorded, SocketsAreReal
    <3>2. gateway' = gateway /\ (UNCHANGED presence \/ SetPresence(s, "offline"))
      BY <2>6 DEF CloseRecorded
    <3> QED BY <2>3, <3>1, <3>2 DEF SetPresence, OfflineIsReal, TypeOK
  <2> QED
    BY <1>2, <2>3, <2>4, <2>5, <2>6 DEF SocketNext, Connect, SendHeartbeat, DeviceLeaves, HandleHello,
       Registered, HelloFails, HandleHeartbeat, HeartbeatStatus, HeartbeatFails, GatewayCloses,
       CloseStatus, stores
<1>3. ASSUME NEW d \in Devices, MarkDeviceOffline(d) PROVE OfflineIsReal'
  BY <1>3 DEF MarkDeviceOffline, Shut, stores, OfflineIsReal, TypeOK
<1>4. ASSUME NEW c \in Calls, CallNext(c) PROVE OfflineIsReal'
  BY <1>1, <1>4, CallStepChanges
<1> QED BY <1>1, <1>2, <1>3, <1>4 DEF Next, vars, sockets, stores

LEMMA NextStaysReal ==
    ASSUME TypeOK, SocketsAreReal, [Next]_vars
    PROVE  TypeOK' /\ SocketsAreReal'
<1>1. CASE UNCHANGED vars
  BY <1>1 DEF vars, sockets, stores, channel, TypeOK, SocketsAreReal, Identified
<1>2. CASE Next
  BY <1>2, SocketTypes, CallTypes, EvictionTypes, SocketsStayReal, CallsStayReal, EvictionStaysReal DEF Next
<1> QED BY <1>1, <1>2

LEMMA SocketsInit == Init => TypeOK /\ SocketsAreReal /\ OfflineIsReal
BY TypesInit DEF Init, SocketsAreReal, OfflineIsReal, Identified

\* Whatever overlaps or fails, a device is recorded offline for a connection
\* that is closed (recordDisconnected).
THEOREM OfflineIsNeverAMistake == Spec => []OfflineIsReal
<1>1. Init => TypeOK /\ SocketsAreReal /\ OfflineIsReal
  BY SocketsInit
<1>2. TypeOK /\ SocketsAreReal /\ OfflineIsReal /\ [Next]_vars
        => (TypeOK /\ SocketsAreReal /\ OfflineIsReal)'
  BY NextStaysReal, OfflineStaysReal
<1> QED BY <1>1, <1>2, PTL DEF Spec

-----------------------------------------------------------------------------
(* Devices whose sockets follow one another.                                *)

\* Nothing is under way on a socket.
Resting(s) == gateway[s] = "new" \/ Finished(s)

OneAtATime ==
    \A s, t \in Sockets : s # t /\ DeviceOf[s] = DeviceOf[t] =>
        /\ Resting(s) \/ Resting(t)
        /\ connections[DeviceOf[s]] = s /\ Identified(t) => Finished(t)

OpenIsRegistered ==
    \A s \in Sockets : Identified(s) /\ gateway[s] = "open" => connections[DeviceOf[s]] = s

InTurn ==
    /\ CallsAreTracked /\ SocketsAreReal
    /\ OneAtATime /\ OpenIsRegistered /\ DisconnectIsReal

\* Only a hello registers its socket, and only a close and an eviction take a
\* socket from the registry.
LEMMA SocketMoves ==
    ASSUME TypeOK, SocketsAreReal, NEW s \in Sockets, SocketNext(s)
    PROVE  /\ \A t \in Sockets \ {s} :
                 /\ gateway'[t] = gateway[t] /\ hello'[t] = hello[t]
                 /\ beat'[t] = beat[t] /\ closed'[t] = closed[t]
           /\ Finished(s) => Finished(s)'
           /\ gateway[s] = "new" /\ gateway'[s] # "new" => Connect(s)
           /\ gateway'[s] = "open" => gateway[s] \in {"new", "open"}
           /\ Identified(s) => Identified(s)'
           /\ \/ UNCHANGED connections /\ (Identified(s)' => Identified(s))
              \/ /\ hello[s] = "registering" /\ gateway'[s] = gateway[s]
                 /\ connections' = [connections EXCEPT ![DeviceOf[s]] = s]
              \/ /\ Identified(s) /\ Listening(s) /\ gateway'[s] = "closed"
                 /\ connections' = [connections EXCEPT ![DeviceOf[s]] = None]
           /\ GatewayCloses(s) \/ call' = call
<1> USE DEF TypeOK, Finished, HandlersIdle, Identified
<1>1. CASE Connect(s)
  BY <1>1 DEF Connect, channel, SocketsAreReal
<1>2. CASE SendHeartbeat(s) \/ DeviceLeaves(s)
  BY <1>2 DEF SendHeartbeat, DeviceLeaves, channel
<1>3. CASE HandleHello(s) \/ HandleHeartbeat(s)
  BY <1>3 DEF HandleHello, HandleHeartbeat, Listening, channel
<1>4. CASE Registered(s)
  BY <1>4 DEF Registered
<1>5. CASE Recorded(s)
  BY <1>5 DEF Recorded, channel
<1>6. CASE HelloFails(s)
  BY <1>6 DEF HelloFails, Shut, channel
<1>7. CASE HeartbeatStatus(s) \/ HeartbeatRecorded(s)
  BY <1>7 DEF HeartbeatStatus, HeartbeatRecorded, channel
<1>8. CASE HeartbeatFails(s)
  BY <1>8 DEF HeartbeatFails, Shut, channel
<1>9. CASE GatewayCloses(s)
  <2>1. /\ gateway' = [gateway EXCEPT ![s] = "closed"] /\ hello' = hello /\ beat' = beat
        /\ \A t \in Sockets \ {s} : closed'[t] = closed[t]
        /\ Listening(s)
        /\ IF Identified(s) THEN connections' = [connections EXCEPT ![DeviceOf[s]] = None]
           ELSE connections' = connections
    BY <1>9 DEF GatewayCloses, UnregisterConnection, channel
  <2> QED BY <1>9, <2>1 DEF Listening
<1>10. CASE CloseStatus(s) \/ CloseRecorded(s)
  BY <1>10 DEF CloseStatus, CloseRecorded, channel
<1> QED
  BY <1>1, <1>2, <1>3, <1>4, <1>5, <1>6, <1>7, <1>8, <1>9, <1>10 DEF SocketNext

LEMMA RestIsOver ==
    ASSUME SocketsAreReal, NEW s \in Sockets,
           hello[s] = "registering" \/ Listening(s)
    PROVE  ~Resting(s)
BY DEF SocketsAreReal, Resting, Finished, HandlersIdle, Listening

LEMMA IdentifiedRests ==
    ASSUME SocketsAreReal, NEW s \in Sockets, Identified(s), Resting(s)
    PROVE  Finished(s) /\ gateway[s] = "closed"
BY DEF SocketsAreReal, Resting, Finished, Identified

LEMMA SocketTakesTurns ==
    ASSUME ~Overlap, InTurn, NEW s \in Sockets, SocketNext(s)
    PROVE  InTurn'
<1> USE DEF InTurn, CallsAreTracked
<1>1. CallsAreTracked' /\ SocketsAreReal'
  BY SocketTracks, NextStaysReal DEF Next
<1>2. \A t \in Sockets \ {s} : (Resting(t)' <=> Resting(t)) /\ (Finished(t)' <=> Finished(t))
                              /\ (Identified(t)' <=> Identified(t))
  BY SocketMoves DEF Resting, Finished, HandlersIdle, Identified
<1>3. Resting(s) /\ ~Resting(s)' =>
          \A t \in Sockets \ {s} : DeviceOf[t] = DeviceOf[s] => Resting(t)
  BY SocketMoves DEF Resting, Connect
<1>4. \A t \in Sockets : \A d \in Devices : connections'[d] = t => connections[d] = t \/
          (t = s /\ hello[s] = "registering" /\ d = DeviceOf[s])
  BY SocketMoves DEF TypeOK
<1>5. Identified(s)' /\ ~Identified(s) => connections'[DeviceOf[s]] = s
  BY SocketMoves DEF TypeOK
<1>6. OneAtATime'
  <2>1. ASSUME NEW t \in Sockets, NEW u \in Sockets, t # u, DeviceOf[t] = DeviceOf[u]
        PROVE  Resting(t)' \/ Resting(u)'
    BY <1>2, <1>3, <2>1 DEF OneAtATime
  <2>2. ASSUME NEW t \in Sockets, NEW u \in Sockets, t # u, DeviceOf[t] = DeviceOf[u],
               connections'[DeviceOf[t]] = t, Identified(u)'
        PROVE  Finished(u)'
    <3>1. Identified(u)
      BY <1>2, <1>5, <2>2
    <3>2. Finished(u) => Finished(u)'
      BY <1>2, SocketMoves
    <3>3. CASE connections[DeviceOf[t]] = t
      BY <2>2, <3>1, <3>2, <3>3 DEF OneAtATime
    <3>4. CASE t = s /\ hello[s] = "registering"
      BY <2>2, <3>1, <3>2, <3>4, RestIsOver, IdentifiedRests DEF OneAtATime
    <3> QED BY <1>4, <2>2, <3>3, <3>4
  <2> QED BY <2>1, <2>2 DEF OneAtATime
<1>7. OpenIsRegistered'
  <2> SUFFICES ASSUME NEW t \in Sockets, Identified(t)', gateway'[t] = "open"
               PROVE  connections'[DeviceOf[t]] = t
    BY DEF OpenIsRegistered
  <2>1. CASE t = s /\ ~Identified(s)
    BY <1>5, <2>1
  <2>2. CASE Identified(t)
    <3>1. gateway[t] = "open" /\ connections[DeviceOf[t]] = t
      BY <2>2, SocketMoves DEF SocketsAreReal, Identified, OpenIsRegistered
    <3>2. t # s /\ DeviceOf[t] = DeviceOf[s] => Resting(s)
      BY <3>1, RestIsOver DEF OneAtATime, Listening
    <3>3. connections'[DeviceOf[t]] # connections[DeviceOf[t]] =>
              DeviceOf[t] = DeviceOf[s] /\ ~Resting(s) /\ (t = s => connections'[DeviceOf[s]] = s)
      BY SocketMoves, RestIsOver, <2>2 DEF TypeOK
    <3> QED BY <3>1, <3>2, <3>3
  <2> QED BY <1>2, <2>1, <2>2
<1>8. DisconnectIsReal'
  <2> SUFFICES ASSUME NEW c \in Calls, call'[c].answer = "AGENT_DISCONNECTED", call'[c].socket # None
               PROVE  gateway'[call'[c].socket] # "open"
    BY DEF DisconnectIsReal
  <2>1. CallsStay /\ call[c].socket \in Sockets
    <3>1. call[c].socket \in Sockets \cup {None}
      BY DEF TypeOK, CallState
    <3>2. CallsStay
      BY CloseRejects, SocketMoves DEF CallsStay
    <3> QED BY <3>1, <3>2 DEF CallsStay
  <2> DEFINE t == call[c].socket
  <2>2. call'[c].socket = t /\ Identified(t) /\ DeviceOf[t] = call[c].device /\ t \in Sockets
    BY <2>1 DEF CallsStay, SocketsAreReal
  <2>3. gateway[t] # "open" => gateway'[t] # "open"
    BY <2>2, SocketMoves DEF SocketsAreReal, Identified
  <2>4. CASE call'[c].answer = call[c].answer
    BY <2>2, <2>3, <2>4 DEF DisconnectIsReal
  <2>5. CASE call'[c].answer # call[c].answer
    <3>1. GatewayCloses(s) /\ Identified(s) /\ DeviceOf[t] = DeviceOf[s]
      BY <2>2, <2>5, CloseRejects, SocketMoves
    <3>2. gateway'[s] = "closed" /\ ~Resting(s)
      BY <3>1, RestIsOver DEF GatewayCloses, TypeOK
    <3> QED BY <2>2, <2>3, <3>1, <3>2, IdentifiedRests DEF OneAtATime
  <2> QED BY <2>4, <2>5
<1> QED BY <1>1, <1>6, <1>7, <1>8

LEMMA EvictionTakesTurns ==
    ASSUME InTurn, NEW d \in Devices, MarkDeviceOffline(d)
    PROVE  InTurn'
<1> USE DEF InTurn, CallsAreTracked
<1>1. CallsAreTracked' /\ SocketsAreReal'
  BY EvictionTracks, NextStaysReal DEF Next
<1> DEFINE s == connections[d]
<1>2. /\ s \in Sockets /\ DeviceOf[s] = d /\ gateway' = Shut(s)
      /\ connections' = [connections EXCEPT ![d] = None]
      /\ UNCHANGED <<hello, beat, closed>>
  BY DEF MarkDeviceOffline, UnregisterConnection, TypeOK, SocketsAreReal
<1> HIDE DEF s
<1>3. \A t \in Sockets : /\ gateway'[t] = "new" <=> gateway[t] = "new"
                         /\ gateway'[t] = "closed" <=> gateway[t] = "closed"
                         /\ gateway'[t] = "open" => gateway[t] = "open" /\ t # s
  BY <1>2 DEF Shut, TypeOK
<1>4. \A t \in Sockets : (Resting(t)' <=> Resting(t)) /\ (Finished(t)' <=> Finished(t))
                         /\ (Identified(t)' <=> Identified(t))
  BY <1>2, <1>3 DEF Resting, Finished, HandlersIdle, Identified
<1>5. \A t \in Sockets : connections'[DeviceOf[t]] = t => connections[DeviceOf[t]] = t
  BY <1>2 DEF TypeOK
<1>6. OneAtATime'
  BY <1>4, <1>5 DEF OneAtATime
<1>7. OpenIsRegistered'
  BY <1>2, <1>3, <1>4 DEF OpenIsRegistered, TypeOK, s
<1>8. DisconnectIsReal'
  <2> SUFFICES ASSUME NEW c \in Calls, call'[c].answer = "AGENT_DISCONNECTED", call'[c].socket # None
               PROVE  gateway'[call'[c].socket] # "open"
    BY DEF DisconnectIsReal
  <2> DEFINE t == call[c].socket
  <2>1. call'[c].socket = t /\ t \in Sockets /\ Identified(t) /\ DeviceOf[t] = call[c].device
    BY EvictionRejects DEF CallsStay, TypeOK, CallState, SocketsAreReal
  <2>2. CASE call'[c].answer = call[c].answer
    BY <1>3, <2>1, <2>2 DEF DisconnectIsReal
  <2>3. CASE DeviceOf[t] = d
    <3>1. connections[DeviceOf[s]] = s
      BY <1>2 DEF s
    <3>2. t # s => gateway[t] = "closed"
      BY <1>2, <2>1, <2>3, <3>1 DEF OneAtATime, Finished
    <3> QED BY <1>3, <2>1, <3>2
  <2> QED BY <2>1, <2>2, <2>3, EvictionRejects
<1> QED BY <1>1, <1>6, <1>7, <1>8

LEMMA CallsTakeTurns ==
    ASSUME InTurn, NEW c \in Calls, CallNext(c)
    PROVE  InTurn'
<1> USE DEF InTurn, CallsAreTracked
<1>1. CallsAreTracked' /\ SocketsAreReal'
  BY CallTracks, NextStaysReal DEF Next
<1>2. UNCHANGED <<gateway, hello, beat, closed, connections>>
  BY CallStepChanges
<1>3. OneAtATime' /\ OpenIsRegistered'
  BY <1>2 DEF OneAtATime, OpenIsRegistered, Resting, Finished, HandlersIdle, Identified
<1>4. DisconnectIsReal'
  <2> SUFFICES ASSUME NEW e \in Calls, call'[e].answer = "AGENT_DISCONNECTED", call'[e].socket # None
               PROVE  gateway'[call'[e].socket] # "open"
    BY DEF DisconnectIsReal
  <2>1. CASE call[e].device = None
    <3>1. call[e].socket \in Sockets \cup {None}
      BY DEF TypeOK, CallState
    <3>2. call[e].socket = None
      BY <2>1, <3>1 DEF SocketsAreReal
    <3>3. call[e].answer = "none"
      BY <2>1 DEF MessagesAreReal
    <3> QED BY <2>1, <3>2, <3>3, CallStepChanges
  <2>2. CASE call[e].device # None
    BY <1>2, <2>2, CallStepChanges DEF DisconnectIsReal
  <2> QED BY <2>1, <2>2
<1> QED BY <1>1, <1>3, <1>4

LEMMA InTurnBegins == Init => InTurn
BY TypesInit, SocketsInit
   DEF Init, InTurn, CallsAreTracked, PendingIsUnanswered, MessagesAreReal, Asked, OneAtATime,
       Resting, OpenIsRegistered, Identified, DisconnectIsReal

LEMMA InTurnStays ==
    ASSUME ~Overlap, InTurn, [Next]_vars
    PROVE  InTurn'
<1>1. CASE UNCHANGED vars
  BY <1>1 DEF vars, sockets, stores, channel, InTurn, CallsAreTracked, TypeOK, PendingIsUnanswered,
              MessagesAreReal, Asked, SocketsAreReal, OneAtATime, Resting, Finished, HandlersIdle,
              OpenIsRegistered, Identified, DisconnectIsReal
<1>2. CASE Next
  BY <1>2, SocketTakesTurns, CallsTakeTurns, EvictionTakesTurns DEF Next
<1> QED BY <1>1, <1>2

\* A call that was sent is told that its device is gone only after its socket
\* was shut or closed, if the sockets of a device follow one another
\* (rejectPendingForDevice).
THEOREM DisconnectionsAreReal ==
    ASSUME ~Overlap PROVE Spec => []DisconnectIsReal
<1>1. Init => InTurn
  BY InTurnBegins
<1>2. InTurn /\ [Next]_vars => InTurn'
  BY InTurnStays
<1> QED BY <1>1, <1>2, PTL DEF Spec, InTurn

-----------------------------------------------------------------------------
(* Devices that are online.                                                 *)

\* What a socket will still take from the routing store, and from the
\* connection store.
Routes(s) ==
    \/ hello[s] \in {"registering", "recording", "ready"} /\ Listening(s)
    \/ closed[s] = "status"

Records(s) == Identified(s) /\ (Listening(s) \/ closed[s] \in {"status", "record"})

\* Who is online somewhere has a socket whose close, or whose handler of it,
\* is still to come.
OnlineIsHeld ==
    /\ \A s \in Sockets :
          /\ gateway[s] = "closed" => HandlersIdle(s)
          /\ hello[s] # "failed"
          /\ hello[s] \in {"unsent", "sent"} => beat[s] \in {"unsent", "sent"}
    /\ \A d \in Devices :
          /\ connections[d] # None => Listening(connections[d])
          /\ routing[d] = "online" => \E s \in Sockets : DeviceOf[s] = d /\ Routes(s)
          /\ presence[d].status = "online" => Records(presence[d].socket)

LEMMA SocketHolds ==
    ASSUME Prompt, ~MayFail, TypeOK, SocketsAreReal, OnlineIsHeld, NEW s \in Sockets, SocketNext(s)
    PROVE  /\ \A t \in Sockets :
                 /\ gateway'[t] = "closed" => HandlersIdle(t)'
                 /\ hello'[t] # "failed"
                 /\ hello'[t] \in {"unsent", "sent"} => beat'[t] \in {"unsent", "sent"}
           /\ Routes(s) => Routes(s)' \/ routing'[DeviceOf[s]] = "offline"
           /\ Records(s) => Records(s)' \/ CloseRecorded(s)
           /\ \A d \in Devices : routing'[d] # routing[d] =>
                 d = DeviceOf[s] /\ (Routes(s)' \/ routing'[d] = "offline")
           /\ CloseRecorded(s) \/ \A d \in Devices : presence'[d] # presence[d] =>
                 presence'[d].socket = s /\ Records(s)'
           /\ \A d \in Devices :
                 \/ connections'[d] = None
                 \/ connections'[d] = s /\ Listening(s) /\ gateway'[s] = gateway[s]
                 \/ connections'[d] = connections[d] /\ (connections[d] = s => ~GatewayCloses(s))
<1> USE DEF TypeOK, HandlersIdle, Identified, Listening, Routes, Records
<1>1. CASE Connect(s)
  BY <1>1 DEF Connect, channel, stores, SocketsAreReal, OnlineIsHeld, GatewayCloses
<1>2. CASE SendHeartbeat(s)
  BY <1>2 DEF SendHeartbeat, channel, stores, OnlineIsHeld, GatewayCloses
<1>3. CASE DeviceLeaves(s)
  BY <1>3 DEF DeviceLeaves, channel, stores, OnlineIsHeld, GatewayCloses
<1>4. CASE HandleHello(s)
  BY <1>4 DEF HandleHello, channel, stores, OnlineIsHeld, GatewayCloses, SocketsAreReal
<1>5. CASE HandleHeartbeat(s)
  BY <1>5 DEF HandleHeartbeat, channel, stores, OnlineIsHeld, GatewayCloses, SocketsAreReal
<1>6. CASE Registered(s)
  BY <1>6 DEF Registered, SocketsAreReal, OnlineIsHeld, GatewayCloses
<1>7. CASE Recorded(s)
  BY <1>7 DEF Recorded, channel, SocketsAreReal, OnlineIsHeld, GatewayCloses
<1>8. ~HelloFails(s)
  BY DEF HelloFails
<1>9. CASE HeartbeatStatus(s)
  BY <1>9 DEF HeartbeatStatus, channel, SocketsAreReal, OnlineIsHeld, GatewayCloses
<1>10. CASE HeartbeatFails(s)
  BY <1>10 DEF HeartbeatFails, Shut, channel, stores, OnlineIsHeld, GatewayCloses
<1>11. CASE HeartbeatRecorded(s)
  BY <1>11 DEF HeartbeatRecorded, SetPresence, channel, SocketsAreReal, OnlineIsHeld, GatewayCloses
<1>12. CASE GatewayCloses(s)
  <2>1. /\ gateway' = [gateway EXCEPT ![s] = "closed"] /\ hello' = hello /\ beat' = beat
        /\ routing' = routing /\ presence' = presence
        /\ closed' = [closed EXCEPT ![s] = IF Identified(s) THEN "status" ELSE "done"]
        /\ HandlersIdle(s)
        /\ IF Identified(s) THEN connections' = [connections EXCEPT ![DeviceOf[s]] = None]
           ELSE connections' = connections
    BY <1>12 DEF GatewayCloses, UnregisterConnection, channel, stores
  <2>2. \A t \in Sockets : /\ gateway'[t] = "closed" => HandlersIdle(t)'
                           /\ hello'[t] # "failed"
                           /\ hello'[t] \in {"unsent", "sent"} => beat'[t] \in {"unsent", "sent"}
    BY <2>1 DEF OnlineIsHeld
  <2>3. (Routes(s) => Routes(s)') /\ (Records(s) => Records(s)')
    <3>1. Listening(s) /\ closed[s] = "no"
      BY <1>12 DEF GatewayCloses, SocketsAreReal
    <3>2. hello[s] \in {"registering", "recording", "ready"} => Identified(s)
      BY <2>1
    <3>3. Identified(s) => closed'[s] = "status" /\ Identified(s)'
      BY <2>1
    <3> QED BY <3>1, <3>2, <3>3
  <2>4. \A d \in Devices :
           connections'[d] = None \/ (connections'[d] = connections[d] /\ connections[d] # s)
    BY <2>1 DEF SocketsAreReal
  <2> HIDE DEF Routes, Records, HandlersIdle
  <2> QED BY <2>1, <2>2, <2>3, <2>4
<1>13. CASE CloseStatus(s)
  BY <1>13 DEF CloseStatus, channel, SocketsAreReal, OnlineIsHeld, GatewayCloses
<1>14. CASE CloseRecorded(s)
  BY <1>14 DEF CloseRecorded, channel, SocketsAreReal, OnlineIsHeld, GatewayCloses
<1> QED
  BY <1>1, <1>2, <1>3, <1>4, <1>5, <1>6, <1>7, <1>8, <1>9, <1>10, <1>11, <1>12, <1>13, <1>14
     DEF SocketNext

LEMMA OnlineStaysHeld ==
    ASSUME Prompt, ~MayFail, TypeOK, SocketsAreReal, OnlineIsHeld, [Next]_vars
    PROVE  OnlineIsHeld'
<1>1. CASE UNCHANGED <<gateway, hello, beat, closed, connections, routing, presence>>
  BY <1>1 DEF OnlineIsHeld, HandlersIdle, Identified, Listening, Routes, Records
<1>2. ASSUME NEW c \in Calls, CallNext(c) PROVE OnlineIsHeld'
  BY <1>1, <1>2, CallStepChanges
<1>3. ASSUME NEW d \in Devices, MarkDeviceOffline(d) PROVE OnlineIsHeld'
  <2>1. /\ UNCHANGED <<hello, beat, closed, routing, presence>>
        /\ connections' = [connections EXCEPT ![d] = None]
        /\ gateway' = Shut(connections[d])
    BY <1>3 DEF MarkDeviceOffline, UnregisterConnection, stores
  <2>2. connections[d] \in Sockets
    BY <1>3 DEF MarkDeviceOffline, TypeOK
  <2>3. \A s \in Sockets : /\ Listening(s)' <=> Listening(s)
                           /\ gateway'[s] = "closed" => gateway[s] = "closed"
    BY <2>1, <2>2 DEF Shut, Listening, TypeOK
  <2>4. \A s \in Sockets : (Routes(s)' <=> Routes(s)) /\ (Records(s)' <=> Records(s))
    BY <2>1, <2>3 DEF Routes, Records, Identified
  <2>5. \A e \in Devices : connections'[e] # None => Listening(connections[e])' /\ connections'[e] = connections[e]
    BY <2>1, <2>3 DEF TypeOK, OnlineIsHeld
  <2>6. \A e \in Devices : presence[e].status = "online" => presence[e].socket \in Sockets
    BY DEF TypeOK, SocketsAreReal
  <2>7. \A e \in Devices : presence[e].status = "online" => Records(presence[e].socket)'
    BY <2>1, <2>4, <2>6 DEF OnlineIsHeld
  <2> QED
    BY <2>1, <2>3, <2>4, <2>5, <2>7 DEF OnlineIsHeld, HandlersIdle, Listening, Records, Identified
<1>4. ASSUME NEW s \in Sockets, SocketNext(s) PROVE OnlineIsHeld'
  <2>1. \A t \in Sockets \ {s} : /\ Listening(t)' <=> Listening(t)
                                 /\ Routes(t)' <=> Routes(t)
                                 /\ Records(t)' <=> Records(t)
    BY <1>4, SocketMoves DEF Listening, Routes, Records, Identified
  <2>2. (\A d \in Devices : connections[d] # None => Listening(connections[d]))'
    <3>1. \A d \in Devices : connections'[d] # None =>
              \/ connections'[d] = s /\ gateway'[s] = gateway[s] /\ Listening(s)
              \/ /\ connections'[d] = connections[d] /\ connections[d] \in Sockets
                 /\ connections[d] = s => ~GatewayCloses(s)
      BY <1>4, SocketHolds DEF TypeOK
    <3>2. Listening(s) /\ ~GatewayCloses(s) => Listening(s)'
      BY <1>4 DEF TypeOK, Listening, SocketNext, Connect, SendHeartbeat, DeviceLeaves, HandleHello,
         Registered, Recorded, HelloFails, HandleHeartbeat, HeartbeatStatus, HeartbeatFails,
         HeartbeatRecorded, CloseStatus, CloseRecorded, Shut
    <3> QED BY <2>1, <3>1, <3>2 DEF OnlineIsHeld, Listening
  <2>3. (\A d \in Devices : routing[d] = "online" => \E t \in Sockets : DeviceOf[t] = d /\ Routes(t))'
    <3> SUFFICES ASSUME NEW d \in Devices, routing'[d] = "online"
                 PROVE  \E t \in Sockets : DeviceOf[t] = d /\ Routes(t)'
      OBVIOUS
    <3>1. CASE routing'[d] = routing[d]
      BY <1>4, <2>1, <3>1, SocketHolds DEF OnlineIsHeld
    <3>2. CASE routing'[d] # routing[d]
      BY <1>4, <3>2, SocketHolds
    <3> QED BY <3>1, <3>2
  <2>4. (\A d \in Devices : presence[d].status = "online" => Records(presence[d].socket))'
    <3> SUFFICES ASSUME NEW d \in Devices, presence'[d].status = "online"
                 PROVE  \E t \in Sockets : presence'[d].socket = t /\ Records(t)'
      BY DEF Records, Identified, Listening
    <3>1. presence[d].status = "online" => presence[d].socket \in Sockets
      BY DEF TypeOK, SocketsAreReal
    <3>2. CASE presence'[d] = presence[d] /\ (presence[d].socket = s => ~CloseRecorded(s))
      BY <1>4, <2>1, <3>1, <3>2, SocketHolds DEF OnlineIsHeld
    <3>3. CASE CloseRecorded(s)
      <4>1. presence[d].socket = s => presence'[d].status = "offline"
        BY <3>3 DEF CloseRecorded, SetPresence, TypeOK, SocketsAreReal
      <4>2. presence[d].socket # s => presence'[d] = presence[d]
        BY <3>3 DEF CloseRecorded, SetPresence, TypeOK
      <4> QED BY <3>2, <4>1, <4>2
    <3>4. CASE presence'[d] # presence[d] /\ ~CloseRecorded(s)
      BY <1>4, <3>4, SocketHolds
    <3> QED BY <3>2, <3>3, <3>4
  <2> HIDE DEF Records, Routes
  <2> QED BY <1>4, <2>2, <2>3, <2>4, SocketHolds DEF OnlineIsHeld
<1> QED BY <1>1, <1>2, <1>3, <1>4 DEF Next, vars, sockets, stores, channel

\* The registry and the two stores follow the sockets, if the sockets of a
\* device follow one another, a close waits for the handlers of its socket and
\* no statement fails (registerConnection, unregisterConnection).
THEOREM RegistryFollowsSockets ==
    ASSUME ~Overlap, Prompt, ~MayFail PROVE Spec => []RegistryIsCurrent
<1>1. Init => InTurn /\ OnlineIsHeld
  <2>1. Init => OnlineIsHeld
    BY DEF Init, OnlineIsHeld, HandlersIdle
  <2> QED BY <2>1, InTurnBegins
<1>2. InTurn /\ OnlineIsHeld /\ [Next]_vars => (InTurn /\ OnlineIsHeld)'
  BY InTurnStays, OnlineStaysHeld DEF InTurn, CallsAreTracked
<1>3. ASSUME InTurn, OnlineIsHeld PROVE RegistryIsCurrent
  <2>1. \A s \in Sockets : hello[s] = "ready" /\ gateway[s] = "open" => connections[DeviceOf[s]] = s
    BY <1>3 DEF InTurn, OpenIsRegistered, Identified
  <2>2. ASSUME NEW d \in Devices,
               \A s \in Sockets :
                   DeviceOf[s] = d => gateway[s] = "new" \/ (device[s] = "closed" /\ Finished(s))
        PROVE  routing[d] # "online" /\ presence[d].status # "online" /\ connections[d] = None
    <3>1. \A s \in Sockets : DeviceOf[s] = d => ~Listening(s) /\ closed[s] \notin {"status", "record"}
      BY <1>3, <2>2 DEF InTurn, SocketsAreReal, Finished, Listening
    <3>2. connections[d] \in Sockets => DeviceOf[connections[d]] = d
      BY <1>3 DEF InTurn, CallsAreTracked, TypeOK, SocketsAreReal
    <3>3. presence[d].status = "online" => presence[d].socket \in Sockets /\ DeviceOf[presence[d].socket] = d
      BY <1>3 DEF InTurn, CallsAreTracked, TypeOK, SocketsAreReal
    <3> QED
      BY <1>3, <3>1, <3>2, <3>3 DEF OnlineIsHeld, Routes, Records, InTurn, CallsAreTracked, TypeOK
  <2> QED BY <2>1, <2>2 DEF RegistryIsCurrent
<1> QED BY <1>1, <1>2, <1>3, PTL DEF Spec
=============================================================================
