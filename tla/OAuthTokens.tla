---------------------------- MODULE OAuthTokens ----------------------------
(***************************************************************************)
(* The owner-token OAuth provider of the MCP server: a client registers,   *)
(* the owner authorizes it with the password and it gets a code, the code  *)
(* is spent for a pair of an access and a refresh token, and each refresh  *)
(* token is spent for the next pair.  Codes live in the memory of one      *)
(* server; clients and tokens live there too, or in the SQLite file of the *)
(* state directory, which servers share and which outlives them.           *)
(***************************************************************************)
EXTENDS Integers, FiniteSets, Sequences

CONSTANTS
    Clients,     \* clients that may register
    Unwelcome,   \* those of them with a redirect host that is not allowed
    Servers,     \* server processes with one state directory
    Modes,       \* where tokens may live: "memory", "sqlite"
    Codes,       \* authorization codes still to be given out
    Handlers,    \* handlers of the token endpoint
    Scopes,      \* config.scopes
    CodeTtl,     \* CODE_TTL_MS
    AccessTtl,   \* accessTokenTtlSeconds
    RefreshTtl,  \* refreshTokenTtlSeconds
    MaxTime,     \* the clock stops here
    MaxPairs,    \* no pair is issued beyond this one
    None

VARIABLES
    mode,        \* where this server keeps its tokens
    clock,       \* the clock of the servers
    clients,     \* the registered clients
    grant,       \* for each code given out, what the owner authorized
    codes,       \* the codes not spent yet
    pair,        \* every pair of tokens issued, in order
    access,      \* the pairs whose access token is stored
    refresh,     \* the pairs whose refresh token is stored
    revoked,     \* the pairs whose stored refresh token was revoked
    handler      \* the requests the token endpoint is working on

vars == <<mode, clock, clients, grant, codes, pair, access, refresh, revoked, handler>>

Time == 0 .. MaxTime
Pairs == 1 .. MaxPairs

Grant == [client : Clients, scopes : SUBSET Scopes, server : Servers, expiresAt : 0 .. MaxTime + CodeTtl]

\* code and parent: what the pair was issued for, the code of its grant and
\* the refresh token spent, 0 for none.
Pair == [client : Clients, scopes : SUBSET Scopes, code : Codes, parent : 0 .. MaxPairs,
         accessExpires : 0 .. MaxTime + AccessTtl, refreshExpires : 0 .. MaxTime + RefreshTtl]

Handler == [step : {"idle", "challenged", "read"}, server : Servers \union {None},
            client : Clients \union {None}, code : Codes \union {None}, spends : 0 .. MaxPairs,
            scopes : SUBSET Scopes]

\* What a request may ask for: the scope parameter names at least one scope.
ScopeSets == (SUBSET Scopes) \ {{}}

Idle == [step |-> "idle", server |-> None, client |-> None, code |-> None, spends |-> 0, scopes |-> {}]

Init ==
    /\ mode \in Modes
    /\ clock = 0
    /\ clients = {}
    /\ grant = [c \in Codes |-> None]
    /\ codes = {}
    /\ pair = << >>
    /\ access = {} /\ refresh = {} /\ revoked = {}
    /\ handler = [h \in Handlers |-> Idle]

\* Servers with their tokens in memory share nothing: one of them is enough.
Serving == IF mode = "memory" THEN {CHOOSE s \in Servers : TRUE} ELSE Servers

\* The code between the read of a refresh token and the saved pair does not
\* let go of the thread.
Free(s) == \A h \in Handlers : handler[h].step = "read" => handler[h].server # s

Tick ==
    /\ clock < MaxTime
    /\ clock' = clock + 1
    /\ UNCHANGED <<mode, clients, grant, codes, pair, access, refresh, revoked, handler>>

RedirectHostAllowed(client) == client \notin Unwelcome

RegisterClient(client) ==
    /\ \E s \in Serving : Free(s)
    /\ RedirectHostAllowed(client)
    /\ clients' = clients \union {client}
    /\ UNCHANGED <<mode, clock, grant, codes, pair, access, refresh, revoked, handler>>

(* POST authorize with the owner's password and supported scopes. *)
Authorize(s, client, code, scopes) ==
    /\ Free(s)
    /\ client \in clients
    /\ grant[code] = None
    /\ grant' = [grant EXCEPT ![code] = [client |-> client, scopes |-> scopes, server |-> s,
                                         expiresAt |-> clock + CodeTtl]]
    /\ codes' = codes \union {code}
    /\ UNCHANGED <<mode, clock, clients, pair, access, refresh, revoked, handler>>

ValidCode(s, client, code) ==
    /\ code \in codes
    /\ grant[code].server = s
    /\ grant[code].client = client
    /\ grant[code].expiresAt >= clock

(* challengeForAuthorizationCode; the digest of the verifier is awaited. *)
Challenge(h, s, client, code) ==
    /\ handler[h].step = "idle"
    /\ Free(s)
    /\ client \in clients
    /\ code \in codes /\ ValidCode(s, client, code)
    /\ handler' = [handler EXCEPT ![h] = [step |-> "challenged", server |-> s, client |-> client,
                                          code |-> code, spends |-> 0, scopes |-> {}]]
    /\ UNCHANGED <<mode, clock, clients, grant, codes, pair, access, refresh, revoked>>

\* The pair issueTokens makes of a grant, and of the refresh token it spends.
Issue(client, scopes, code, parent) ==
    [client |-> client, scopes |-> scopes, code |-> code, parent |-> parent,
     accessExpires |-> clock + AccessTtl, refreshExpires |-> clock + RefreshTtl]

NextPair == Len(pair) + 1

ExchangeAuthorizationCode(h) ==
    LET c == handler[h].code
    IN  /\ handler[h].step = "challenged"
        /\ Free(handler[h].server)
        /\ handler' = [handler EXCEPT ![h] = Idle]
        /\ \/ /\ ~ValidCode(handler[h].server, handler[h].client, c)
              /\ UNCHANGED <<codes, pair, access, refresh>>
           \/ /\ ValidCode(handler[h].server, handler[h].client, c)
              /\ NextPair \in Pairs
              /\ codes' = codes \ {c}
              /\ pair' = Append(pair, Issue(handler[h].client, grant[c].scopes, c, 0))
              /\ access' = access \union {NextPair}
              /\ refresh' = refresh \union {NextPair}
        /\ UNCHANGED <<mode, clock, clients, grant, revoked>>

ValidRefresh(client, n) ==
    /\ n \in refresh
    /\ pair[n].client = client
    /\ pair[n].refreshExpires >= clock

\* Mutant: a refresh may ask for every supported scope.
ScopesGranted_Supported(n, scopes) == scopes \subseteq Scopes

ScopesGranted(n, scopes) == scopes \subseteq pair[n].scopes

(* exchangeRefreshToken up to issueTokens. *)
ReadRefreshToken(h, s, client, n, scopes) ==
    /\ handler[h].step = "idle"
    /\ Free(s)
    /\ client \in clients
    /\ ValidRefresh(client, n)
    /\ ScopesGranted(n, scopes)
    /\ handler' = [handler EXCEPT ![h] = [step |-> "read", server |-> s, client |-> client,
                                          code |-> pair[n].code, spends |-> n, scopes |-> scopes]]
    /\ UNCHANGED <<mode, clock, clients, grant, codes, pair, access, refresh, revoked>>

\* Mutant: how many rows the delete changed is not looked at.
Spendable_Unchecked(n) == TRUE

\* The transaction spends the old token only if its row is still there.
Spendable(n) == n \in refresh

(* issueTokens and saveTokenPair. *)
SaveTokenPair(h) ==
    LET n == handler[h].spends
    IN  /\ handler[h].step = "read"
        /\ handler' = [handler EXCEPT ![h] = Idle]
        /\ \/ /\ ~Spendable(n)
              /\ UNCHANGED <<pair, access, refresh>>
           \/ /\ Spendable(n)
              /\ NextPair \in Pairs
              /\ pair' = Append(pair, Issue(handler[h].client, handler[h].scopes, handler[h].code, n))
              /\ access' = access \union {NextPair}
              /\ refresh' = (refresh \ {n}) \union {NextPair}
        /\ UNCHANGED <<mode, clock, clients, grant, codes, revoked>>

(* revokeToken of an access token, or of a refresh token. *)
RevokeToken(s, n) ==
    /\ Free(s)
    /\ \/ /\ n \in access
          /\ access' = access \ {n}
          /\ UNCHANGED <<refresh, revoked>>
       \/ /\ n \in refresh
          /\ refresh' = refresh \ {n}
          /\ revoked' = revoked \union {n}
          /\ UNCHANGED access
    /\ UNCHANGED <<mode, clock, clients, grant, codes, pair, handler>>

\* deleteExpiredTokens, when a server opens the store.
Unexpired(expiresAt) == expiresAt >= clock

(* A server goes down, at any point, and is started again. *)
Restart(s) ==
    /\ codes' = {c \in codes : grant[c].server # s}
    /\ handler' = [h \in Handlers |-> IF handler[h].server = s THEN Idle ELSE handler[h]]
    /\ \/ /\ mode = "memory"
          /\ clients' = {} /\ access' = {} /\ refresh' = {}
       \/ /\ mode = "sqlite"
          /\ access' = {n \in access : Unexpired(pair[n].accessExpires)}
          /\ refresh' = {n \in refresh : Unexpired(pair[n].refreshExpires)}
          /\ UNCHANGED clients
    /\ UNCHANGED <<mode, clock, grant, pair, revoked>>

\* verifyAccessToken.
VerifyAccessToken(n) == n \in access /\ pair[n].accessExpires >= clock

Next ==
    \/ Tick
    \/ \E client \in Clients : RegisterClient(client)
    \/ \E s \in Serving, client \in Clients, code \in Codes :
         \/ \E scopes \in ScopeSets : Authorize(s, client, code, scopes)
         \/ \E h \in Handlers : Challenge(h, s, client, code)
    \/ \E h \in Handlers : ExchangeAuthorizationCode(h) \/ SaveTokenPair(h)
    \/ \E s \in Serving, h \in Handlers, client \in Clients, n \in refresh, scopes \in ScopeSets :
         ReadRefreshToken(h, s, client, n, scopes)
    \/ \E s \in Serving, n \in access \union refresh : RevokeToken(s, n)
    \/ \E s \in Serving : Restart(s)

Spec == Init /\ [][Next]_vars

----------------------------------------------------------------------------

Issued == 1 .. Len(pair)

(* Every variable is of its type. *)
TypeOK ==
    /\ mode \in {"memory", "sqlite"}
    /\ clock \in Time
    /\ clients \subseteq Clients
    /\ grant \in [Codes -> Grant \union {None}]
    /\ codes \subseteq Codes
    /\ Len(pair) \in 0 .. MaxPairs /\ \A n \in Issued : pair[n] \in Pair
    /\ access \subseteq Issued /\ refresh \subseteq Issued /\ revoked \subseteq Issued
    /\ handler \in [Handlers -> Handler]

(* The pairs that come of one authorization are one line.  Whichever server *)
(* is asked, twice at once, before and after a restart, no code and no       *)
(* refresh token is spent for two pairs; at most one refresh token of the    *)
(* line is good at any time; and one that is revoked while it was good is    *)
(* its end, even when a refresh was under way on another server              *)
(* (exchangeAuthorizationCode, saveTokenPair, revokeToken).                  *)
OneLineOfRefreshes ==
    /\ \A n, m \in Issued :
          pair[n].code = pair[m].code /\ pair[n].parent = pair[m].parent => n = m
    /\ \A n, m \in refresh : pair[n].code = pair[m].code => n = m
    /\ \A n \in revoked : \A m \in Issued : pair[m].parent # n

(* What the owner authorized bounds everything that comes of it: however     *)
(* often it is refreshed, a pair belongs to the client that was authorized   *)
(* and has no scope it was not given, nor one that was given up on the way   *)
(* (exchangeRefreshToken).                                                   *)
WithinTheGrant ==
    \A n \in Issued :
        /\ pair[n].client = grant[pair[n].code].client
        /\ pair[n].scopes \subseteq grant[pair[n].code].scopes
        /\ pair[n].parent # 0 => pair[n].scopes \subseteq pair[pair[n].parent].scopes
============================================================================
