--------------------------- MODULE MCGatewayRouting ---------------------------
(***************************************************************************)
(* Model values for GatewayRouting: the requests that are made together.   *)
(***************************************************************************)
EXTENDS GatewayRouting

CONSTANTS h1, h2, h3, s1, s2, c1, d1, d2, r1, r2, g1, k1

Empty == [tool |-> "connect_desktop", session |-> s1, conversation |-> c1, device |-> None,
          ref |-> None, workspace |-> None, key |-> None]
Pair(device) == [Empty EXCEPT !.device = device]
Select(device, ref) ==
    [Empty EXCEPT !.tool = "connect_workspace", !.device = device, !.ref = ref]
SelectAs(device, ref, w) == [Select(device, ref) EXCEPT !.workspace = w]
Retry(device, ref) == [Select(device, ref) EXCEPT !.key = k1]
OpenOn(device, ref) ==
    [Empty EXCEPT !.tool = "open_workspace", !.device = device, !.ref = ref]
ListOf(device) == [Empty EXCEPT !.tool = "list_workspaces", !.device = device]
Tool(w) == [Empty EXCEPT !.tool = "file_tool", !.workspace = w]
Elsewhere(r) == [r EXCEPT !.session = s2]
NoTalk(r) == [r EXCEPT !.conversation = None]

Cw(device, ref) == <<s1, c1, device, ref>>
Requests3(a, b, c) == [h \in Handlers |-> CASE h = h1 -> a [] h = h2 -> b [] h = h3 -> c]

MCPlays == {
    Requests3(Pair(None), Pair(d2), ListOf(None)),
    Requests3(Pair(d1), Select(d2, r1), Tool(Cw(d2, r1))),
    Requests3(Select(d1, r1), Tool(Cw(d1, r1)), NoTalk(Tool(Cw(d1, r1)))),
    Requests3(SelectAs(d1, r1, g1), Elsewhere(SelectAs(d1, r2, g1)), Tool(g1)),
    Requests3(SelectAs(d1, r1, r1), Tool(r1), Tool(Cw(d1, r1))),
    Requests3(Retry(d1, r1), Retry(d1, r1), Retry(d1, r2)),
    Requests3(NoTalk(Pair(d1)), OpenOn(None, r1), Tool(h2)) }

MCPresent == {{d1}, {d1, d2}}
================================================================================
