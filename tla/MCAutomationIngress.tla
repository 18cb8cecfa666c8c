-------------------------- MODULE MCAutomationIngress --------------------------
(***************************************************************************)
(* Model values for AutomationIngress.  Of the first source come two       *)
(* messages under one key, a third with the sender's id of the first, and  *)
(* one that says nothing; the second source is a webhook, and the third    *)
(* one that is made while its message arrives.                             *)
(***************************************************************************)
EXTENDS AutomationIngress

CONSTANTS api, hook, new, o1, o2, t1, t2, t3, m1, m2, m3, m4, h1, h2, h3

NoBody == [text |-> "absent", payload |-> "absent", eventId |-> "absent",
           conversationKey |-> "absent", workspaceHint |-> "absent", metadata |-> "absent"]
Body == [NoBody EXCEPT !.text = "ok"]
Trigger(key, eventId, body, text) ==
    [kind |-> "api_trigger", source |-> api, credential |-> t1, triggerId |-> "ok",
     bearer |-> "ok", idempotencyKey |-> "ok", body |-> body,
     key |-> key, eventId |-> eventId, data |-> text]
Hook(source, delivery, action, branch) ==
    [kind |-> "github_webhook", source |-> source, credential |-> t1,
     body |-> [raw |-> "ok", event |-> "ok", delivery |-> "ok", payload |-> "ok"],
     key |-> delivery, eventId |-> delivery,
     data |-> [event |-> "pull_request", action |-> action,
               repository |-> "repo", branch |-> branch]]

MCContent ==
    [m \in Messages |->
        CASE m = m1 -> Trigger("k1", "e1", Body, "A")
          [] m = m2 -> Trigger("k1", None, Body, "B")
          [] m = m3 -> Trigger("k2", "e1", Body, "A")
          [] m = m4 -> Trigger("k1", "e1", NoBody, "A")
          [] m = h1 -> Hook(hook, "g1", "opened", "main")
          [] m = h2 -> Hook(hook, "g1", "labeled", "main")
          [] m = h3 -> Hook(new, "g1", "opened", "main")]

NoEvents == [e \in {} |-> {}]
Main == [events |-> NoEvents, repositories |-> {"repo"}, branches |-> {"main"}]
Other == [events |-> NoEvents, repositories |-> None, branches |-> {"other"}]
MCPolicies == {Main, Other}

ApiRow == [kind |-> "api_trigger", owner |-> o1, status |-> "enabled",
           token |-> t1, secret |-> None, policy |-> None]
HookRow == [kind |-> "github_webhook", owner |-> o1, status |-> "enabled",
            token |-> t2, secret |-> t1, policy |-> Main]
MCInstalled == [s \in Sources |-> IF s = api THEN ApiRow ELSE IF s = hook THEN HookRow ELSE None]
MCNewRows == {[HookRow EXCEPT !.token = t3], [HookRow EXCEPT !.token = t3, !.secret = None]}
MCSentTogether == {{m1, m2}, {m1, m3}, {m1, m4}, {h1, h2}, {h3}}
================================================================================
