------------------------ MODULE DeviceAuthorization ------------------------
(***************************************************************************)
(* The device code login of the gateway: a desktop asks for a code, a user *)
(* approves or denies it in the browser, the desktop polls for its token   *)
(* and opens its socket with it.  Every handler reads the clock, then the  *)
(* whole record, and later writes the whole record back.  With the store   *)
(* in memory a handler runs to its end undisturbed; with the one in        *)
(* Postgres the clock and every other handler move between its steps, and  *)
(* a statement may fail.                                                   *)
(***************************************************************************)
EXTENDS Integers, FiniteSets

CONSTANTS
    DeviceCodes, \* device codes still to be given out
    UserCodes,  \* what the eight characters of a user code can be
    Owners,     \* the users that may be signed in
    Devices,    \* device ids
    Requests,   \* requests, each sent once
    Plays,      \* where behaviors begin, a set of Play records
    AuthTtl,    \* authorizationTtlSeconds
    TokenTtl,   \* tokenTtlSeconds
    Interval,   \* pollIntervalSeconds
    MaxLoginTime, \* the clock stops here
    Unset

VARIABLES
    store,      \* the store of this gateway: "memory" or "postgres"
    now,        \* the clock of gateway and devices, in steps of a second
    row,        \* the authorization of each device code
    request,    \* the handler of each request
    tokens,     \* the tokens desktops were given
    opened      \* for each device code, when its token last opened a socket

loginVars == <<store, now, row, request, tokens, opened>>

LoginTime == 0 .. MaxLoginTime

Ask == [kind : {"create", "approve", "deny", "poll"}, code : DeviceCodes \union {Unset},
        userCode : UserCodes \union {Unset}, owner : Owners \union {Unset},
        device : Devices \union {Unset}]

Authorization ==
    [userCode : UserCodes, status : {"pending", "approved", "denied"},
     device : Devices \union {Unset}, owner : Owners \union {Unset},
     expiresAt : 0 .. MaxLoginTime + AuthTtl, lastPolledAt : LoginTime \union {Unset}]

Request ==
    [step : {"idle", "begun", "writing", "answered"}, ask : Ask,
     at : LoginTime, code : DeviceCodes \union {Unset}, seen : Authorization \union {Unset},
     answer : {"none", "created", "approved", "denied", "token", "pending",
               "slow_down", "expired", "access_denied", "not_found", "error"}]

\* The store of the gateway, the codes made before, and what is asked next.
Play == [store : {"memory", "postgres"}, row : [DeviceCodes -> Authorization \union {Unset}],
         asks : [Requests -> Ask]]

Token == [code : DeviceCodes, owner : Owners, device : Devices \union {Unset},
          expiresAt : 0 .. MaxLoginTime + TokenTtl]

\* A device code is a random UUID: no two requests draw one, and none draws one
\* that was made before.  A play begins before anybody decides.
ASSUME LoginAssumption ==
    /\ {AuthTtl, TokenTtl, Interval, MaxLoginTime} \subseteq Nat
    /\ Unset \notin Authorization /\ Unset \notin LoginTime /\ Unset \notin Owners
    /\ Plays \subseteq Play
    /\ \A play \in Plays :
          /\ \A c \in DeviceCodes : play.row[c] # Unset =>
                /\ play.row[c].status = "pending"
                /\ \A e \in DeviceCodes : play.row[e] # Unset /\ play.row[e].userCode = play.row[c].userCode => e = c
          /\ \A q \in Requests : play.asks[q].kind = "create" =>
                /\ play.asks[q].code \in DeviceCodes /\ play.asks[q].userCode \in UserCodes
                /\ play.row[play.asks[q].code] = Unset
                /\ \A p \in Requests : play.asks[p].kind = "create" /\ play.asks[p].code = play.asks[q].code => p = q

LoginInit ==
    /\ now = 0
    /\ \E play \in Plays :
         /\ store = play.store
         /\ row = play.row
         /\ request = [q \in Requests |-> [step |-> "idle", ask |-> play.asks[q], at |-> 0,
                                           code |-> Unset, seen |-> Unset, answer |-> "none"]]
    /\ tokens = {}
    /\ opened = [c \in DeviceCodes |-> Unset]

Created == {c \in DeviceCodes : row[c] # Unset}

CodeExpired(expiresAt, time) == expiresAt <= time

Taken(u) == \E c \in Created : row[c].userCode = u

\* In memory nothing but the handlers that run in one turn is under way.
Undisturbed ==
    store = "postgres" \/ \A q \in Requests : request[q].step \in {"idle", "answered"}

LoginTick ==
    /\ Undisturbed
    /\ now < MaxLoginTime
    /\ now' = now + 1
    /\ UNCHANGED <<store, row, request, tokens, opened>>

(* A route takes a request; approving and denying need a signed-in user. *)
NotSignedIn(ask) == ask.kind \in {"approve", "deny"} /\ ask.owner = Unset

Begin(q) ==
    /\ Undisturbed
    /\ request[q].step = "idle"
    /\ request' = [request EXCEPT ![q].at = now,
         ![q].step = IF NotSignedIn(request[q].ask) THEN "answered" ELSE "begun",
         ![q].answer = IF NotSignedIn(request[q].ask) THEN "access_denied" ELSE "none"]
    /\ UNCHANGED <<store, now, row, tokens, opened>>

(* uniqueUserCode: a user code is drawn again when it is taken.  Which     *)
(* device code and which first user code a request draws is part of what   *)
(* it asks for.                                                            *)
DrawnUserCode(u) == IF Taken(u) THEN {v \in UserCodes : ~Taken(v)} ELSE {u}

ReadForCreate(q) ==
    LET ask == request[q].ask
    IN  /\ request[q].step = "begun" /\ ask.kind = "create"
        /\ \/ \E u \in DrawnUserCode(ask.userCode) :
                request' = [request EXCEPT ![q].step = "writing", ![q].code = ask.code, ![q].answer = "created",
                  ![q].seen = [userCode |-> u, status |-> "pending", device |-> ask.device, owner |-> Unset,
                               expiresAt |-> request[q].at + AuthTtl, lastPolledAt |-> Unset]]
           \/ /\ DrawnUserCode(ask.userCode) = {}
              /\ request' = [request EXCEPT ![q].step = "answered", ![q].answer = "error"]
        /\ UNCHANGED <<store, now, row, tokens, opened>>

\* The device an approval is for: the one it names, or the one the desktop named.
TargetDevice(ask, seen) == IF ask.device # Unset THEN ask.device ELSE seen.device

SameApprovedTarget(ask, seen) ==
    seen.owner = ask.owner /\ seen.device = TargetDevice(ask, seen)

\* Mutant: a denial can be approved away.
ApproveVerdict_Denied(ask, seen, at) ==
    CASE CodeExpired(seen.expiresAt, at) -> "expired"
      [] ~CodeExpired(seen.expiresAt, at) /\ seen.status = "approved" ->
           IF SameApprovedTarget(ask, seen) THEN "approved" ELSE "access_denied"
      [] OTHER -> "approved"

ApproveVerdict(ask, seen, at) ==
    CASE CodeExpired(seen.expiresAt, at) -> "expired"
      [] ~CodeExpired(seen.expiresAt, at) /\ seen.status = "denied" -> "access_denied"
      [] ~CodeExpired(seen.expiresAt, at) /\ seen.status = "approved" ->
           IF SameApprovedTarget(ask, seen) THEN "approved" ELSE "access_denied"
      [] OTHER -> "approved"

PolledTooSoon(seen, at) ==
    seen.lastPolledAt # Unset /\ at - seen.lastPolledAt < Interval

\* Mutant: only a denial keeps the token back.
PollVerdict_NotDenied(seen, at) ==
    CASE CodeExpired(seen.expiresAt, at) -> "expired"
      [] ~CodeExpired(seen.expiresAt, at) /\ seen.status = "denied" -> "access_denied"
      [] ~CodeExpired(seen.expiresAt, at) /\ seen.status # "denied" /\ PolledTooSoon(seen, at) -> "slow_down"
      [] OTHER -> "token"

PollVerdict(seen, at) ==
    CASE CodeExpired(seen.expiresAt, at) -> "expired"
      [] ~CodeExpired(seen.expiresAt, at) /\ seen.status = "denied" -> "access_denied"
      [] ~CodeExpired(seen.expiresAt, at) /\ seen.status # "denied" /\ PolledTooSoon(seen, at) -> "slow_down"
      [] ~CodeExpired(seen.expiresAt, at) /\ seen.status = "approved" /\ ~PolledTooSoon(seen, at) -> "token"
      [] OTHER -> "pending"

Verdict(ask, seen, at) ==
    CASE ask.kind = "approve" -> ApproveVerdict(ask, seen, at)
      [] ask.kind = "deny"    -> "denied"
      [] ask.kind = "poll"    -> PollVerdict(seen, at)

(* getByUserCode or getByDeviceCode, and what the handler makes of the record. *)
Read(q) ==
    LET ask == request[q].ask
        found == {c \in Created : IF ask.kind = "poll" THEN c = ask.code
                                  ELSE row[c].userCode = ask.userCode}
    IN  /\ request[q].step = "begun" /\ ask.kind # "create"
        /\ \/ /\ found = {}
              /\ request' = [request EXCEPT ![q].step = "answered", ![q].answer = "not_found"]
           \/ \E c \in found :
                LET verdict == Verdict(ask, row[c], request[q].at)
                    final == \/ verdict \in {"expired", "access_denied"}
                             \/ verdict = "approved" /\ row[c].status = "approved"
                IN request' = [request EXCEPT ![q].code = c, ![q].seen = row[c], ![q].answer = verdict,
                                 ![q].step = IF final THEN "answered" ELSE "writing"]
        /\ UNCHANGED <<store, now, row, tokens, opened>>

(* The record a handler writes: the one it read, with its own fields set. *)
Written(q) ==
    LET ask == request[q].ask
        seen == request[q].seen
    IN CASE ask.kind = "create"  -> seen
         [] ask.kind = "approve" -> [seen EXCEPT !.status = "approved", !.owner = ask.owner,
                                                 !.device = TargetDevice(ask, seen)]
         [] ask.kind = "deny"    -> [seen EXCEPT !.status = "denied"]
         [] ask.kind = "poll"    -> [seen EXCEPT !.lastPolledAt = request[q].at]

\* The unique user code, which only the table of Postgres insists on.
InsertConflicts(q) ==
    request[q].ask.kind = "create" /\ store = "postgres" /\ Taken(request[q].seen.userCode)

IssuedToken(q) ==
    [code |-> request[q].code, owner |-> request[q].seen.owner, device |-> request[q].seen.device,
     expiresAt |-> request[q].at + TokenTtl]

Write(q) ==
    /\ request[q].step = "writing"
    /\ ~InsertConflicts(q)
    /\ row' = [row EXCEPT ![request[q].code] = Written(q)]
    /\ request' = [request EXCEPT ![q].step = "answered"]
    /\ tokens' = IF request[q].answer = "token" THEN tokens \union {IssuedToken(q)} ELSE tokens
    /\ UNCHANGED <<store, now, opened>>

(* The write fails, or the audit event after it does: the answer is an error. *)
WriteFails(q) ==
    /\ store = "postgres"
    /\ request[q].step = "writing"
    /\ \/ row' = row
       \/ /\ ~InsertConflicts(q)
          /\ request[q].answer \notin {"pending", "slow_down"}
          /\ row' = [row EXCEPT ![request[q].code] = Written(q)]
    /\ request' = [request EXCEPT ![q].step = "answered", ![q].answer = "error"]
    /\ UNCHANGED <<store, now, tokens, opened>>

(* The upgrade of a socket verifies the token, the hello must match it. *)
OpenSocket(t, device) ==
    /\ Undisturbed
    /\ ~CodeExpired(t.expiresAt, now)
    /\ t.device # Unset => t.device = device
    /\ opened' = [opened EXCEPT ![t.code] = now]
    /\ UNCHANGED <<store, now, row, request, tokens>>

LoginNext ==
    \/ LoginTick
    \/ \E q \in Requests :
         Begin(q) \/ ReadForCreate(q) \/ Read(q) \/ Write(q) \/ WriteFails(q)
    \/ \E t \in tokens, device \in Devices : OpenSocket(t, device)

LoginSpec == LoginInit /\ [][LoginNext]_loginVars

----------------------------------------------------------------------------

(* Every record is of its type. *)
LoginTypeOK ==
    /\ store \in {"memory", "postgres"}
    /\ now \in LoginTime
    /\ row \in [DeviceCodes -> Authorization \union {Unset}]
    /\ request \in [Requests -> Request]
    /\ tokens \subseteq Token
    /\ opened \in [DeviceCodes -> LoginTime \union {Unset}]

(* A token is what its owner approved, for a bounded time.  Whatever       *)
(* approvals, denials and polls overwrite each other, it names an owner and *)
(* a device that some approval of its code asked for together; no token     *)
(* opens a socket once the life of the code and the life of a token have    *)
(* passed since the code was made, wherever the clock is read in between;   *)
(* and a user code names one authorization, so that who approves it         *)
(* approves the desktop that shows it (poll, issueCloudGatewayDeviceToken,  *)
(* verify, uniqueUserCode, the unique column).                              *)
TokenWasApproved ==
    /\ \A t \in tokens :
          \E q \in Requests :
              /\ request[q].code = t.code
              /\ request[q].ask.kind = "approve"
              /\ request[q].ask.owner = t.owner
              /\ t.device = TargetDevice(request[q].ask, request[q].seen)
    /\ \A c \in DeviceCodes : opened[c] # Unset => opened[c] < row[c].expiresAt + TokenTtl
    /\ \A c \in Created, e \in Created : row[c].userCode = row[e].userCode => c = e

Answered(q, answer) == request[q].step = "answered" /\ request[q].answer = answer

(* What the pages and the API told the user stands: a code that was said   *)
(* to be approved is approved unless somebody denied it, and a code that   *)
(* was said to be denied stays denied (approve, deny, poll).               *)
DecisionsStand ==
    \A q \in Requests :
        /\ Answered(q, "approved") =>
             \/ row[request[q].code].status = "approved"
             \/ \E p \in Requests :
                  request[p].code = request[q].code /\ request[p].ask.kind = "deny"
        /\ Answered(q, "denied") => row[request[q].code].status = "denied"

(* With the store in memory nothing comes between a read and its write:     *)
(* decisions stand; a code is approved for one owner and device, and         *)
(* everyone who is told so approved the same (approve, sameApprovedTarget); *)
(* and a poll that gets more than a request to slow down comes a whole      *)
(* interval after every poll answered before it, those that were told to    *)
(* slow down included (poll).                                               *)
MemoryActsInOrder ==
    store = "memory" =>
        /\ DecisionsStand
        /\ \A q, p \in Requests :
              /\ Answered(q, "approved") /\ Answered(p, "approved")
              /\ request[q].code = request[p].code
              => /\ request[q].ask.owner = request[p].ask.owner
                 /\ TargetDevice(request[q].ask, request[q].seen) = TargetDevice(request[p].ask, request[p].seen)
        /\ \A q, p \in Requests :
              /\ Answered(q, "token") \/ Answered(q, "pending")
              /\ Answered(p, "token") \/ Answered(p, "pending") \/ Answered(p, "slow_down")
              /\ request[p].ask.code = request[q].ask.code
              /\ request[p].at < request[q].at
              => request[q].at - request[p].at >= Interval
============================================================================
