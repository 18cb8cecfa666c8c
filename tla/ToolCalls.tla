------------------------------ MODULE ToolCalls ------------------------------
(***************************************************************************)
(* What a caller of CloudDeviceChannel.sendToolCall                        *)
(* (src/src/cloud-device-channel.ts) may rely on: a call gets one answer   *)
(* and keeps it, and an answer with a result comes from a device that ran  *)
(* the call.  No answer says that a call has not run, or will not.         *)
(***************************************************************************)
CONSTANTS Calls

VARIABLES
    asked,    \* calls handed to the channel
    ran,      \* calls a device has run to their end
    answer    \* per call, "none" until it is answered

Errors == {"TOOL_TIMEOUT", "AGENT_DISCONNECTED"}

Init ==
    /\ asked = {}
    /\ ran = {}
    /\ answer = [c \in Calls |-> "none"]

\* Without a connection the answer comes at once.
Ask(c) ==
    /\ c \notin asked
    /\ asked' = asked \cup {c}
    /\ answer' \in {answer, [answer EXCEPT ![c] = "AGENT_DISCONNECTED"]}
    /\ ran' = ran

Run(c) ==
    /\ c \in asked
    /\ ran' = ran \cup {c}
    /\ UNCHANGED <<asked, answer>>

\* One event may answer several calls.
Answer(S, a) ==
    /\ S \subseteq asked
    /\ \A c \in S : answer[c] = "none"
    /\ a = "result" => S \subseteq ran
    /\ answer' = [c \in Calls |-> IF c \in S THEN a ELSE answer[c]]
    /\ UNCHANGED <<asked, ran>>

Next ==
    \/ \E c \in Calls : Ask(c) \/ Run(c)
    \/ \E S \in SUBSET Calls : \E a \in Errors \cup {"result"} : Answer(S, a)

Spec == Init /\ [][Next]_<<asked, ran, answer>>
=============================================================================
