--------------------------- MODULE Access_proofs ----------------------------
(***************************************************************************)
(* Who is let in, for any number of servers, requests and sessions: of the *)
(* OAuth provider, of the device code login and of the MCP server's        *)
(* workspace sessions.                                                     *)
(***************************************************************************)
EXTENDS OAuthTokens, DeviceAuthorization, WorkspaceSessions, TLAPS

-----------------------------------------------------------------------------
(***************************************************************************)
(* The OAuth provider, for any number of servers and requests at once, and *)
(* wherever a server is restarted: the tokens of one authorization are one *)
(* line, and never allow more than the owner did.                          *)
(***************************************************************************)

\* What the configuration gives: times in seconds, and bounds of the model.
ConstantsAreNumbers ==
    /\ MaxTime \in Nat /\ CodeTtl \in Nat /\ AccessTtl \in Nat /\ RefreshTtl \in Nat /\ MaxPairs \in Nat
    /\ Modes \subseteq {"memory", "sqlite"} /\ None \notin Grant

Typed == TypeOK /\ pair \in Seq(Pair)

\* A pair is newer than the one it was refreshed from, and of a code given out.
PairsAreOrdered ==
    \A n \in Issued : pair[n].parent < n /\ grant[pair[n].code] # None

\* A code that is still good was given out and has bought nothing.
CodesAreUnspent ==
    \A c \in codes : grant[c] # None /\ \A n \in Issued : pair[n].code # c

\* A refresh token that is still good has bought nothing and was not revoked.
RefreshIsUnspent ==
    \A n \in refresh : n \notin revoked /\ \A m \in Issued : pair[m].parent # n

\* A handler in the middle of a refresh holds what it read of the old pair.
HandlersHoldWhatTheyRead ==
    \A h \in Handlers : handler[h].step = "read" =>
        /\ handler[h].spends \in Issued
        /\ handler[h].client = pair[handler[h].spends].client
        /\ handler[h].code = pair[handler[h].spends].code
        /\ handler[h].scopes \subseteq pair[handler[h].spends].scopes

IInv ==
    /\ Typed
    /\ PairsAreOrdered /\ CodesAreUnspent /\ RefreshIsUnspent /\ HandlersHoldWhatTheyRead
    /\ OneLineOfRefreshes /\ WithinTheGrant

-----------------------------------------------------------------------------
LEMMA InitHolds == ASSUME ConstantsAreNumbers, Init PROVE IInv
<1>1. pair = << >> /\ Len(pair) = 0 /\ Issued = {}
  BY DEF Init, Issued
<1>2. Typed
  <2>1. Idle \in Handler
    BY DEF Idle, Handler, ConstantsAreNumbers
  <2>2. handler \in [Handlers -> Handler] /\ grant \in [Codes -> Grant \union {None}]
    BY <2>1 DEF Init
  <2> QED
    BY <1>1, <2>2 DEF Init, Typed, TypeOK, Time, ConstantsAreNumbers
<1> QED
  BY <1>1, <1>2 DEF Init, IInv, PairsAreOrdered, CodesAreUnspent, RefreshIsUnspent,
                    HandlersHoldWhatTheyRead, OneLineOfRefreshes, WithinTheGrant, Idle

\* A step that issues nothing: codes, refresh tokens and handlers go, and a code
\* that was not given out before may come.
IssuesNothing ==
    /\ pair' = pair
    /\ \A c \in Codes : grant[c] # None => grant'[c] = grant[c]
    /\ \A c \in codes' : c \in codes \/ (grant[c] = None /\ grant'[c] # None)
    /\ refresh' \subseteq refresh /\ revoked' \cap refresh' = {}
    /\ \A n \in revoked' : n \in revoked \/ n \in refresh

LEMMA NothingIssued ==
    ASSUME IInv, Typed', IssuesNothing, HandlersHoldWhatTheyRead'
    PROVE  IInv'
<1>1. Issued' = Issued /\ \A n \in Issued : pair[n].code \in Codes
  BY DEF IssuesNothing, Issued, IInv, Typed, TypeOK, Pair
<1>2. PairsAreOrdered'
  BY <1>1 DEF IssuesNothing, IInv, PairsAreOrdered
<1>3. CodesAreUnspent'
  BY <1>1 DEF IssuesNothing, IInv, CodesAreUnspent, PairsAreOrdered, Typed, TypeOK
<1>4. RefreshIsUnspent'
  BY <1>1 DEF IssuesNothing, IInv, RefreshIsUnspent
<1>5. OneLineOfRefreshes'
  BY <1>1 DEF IssuesNothing, IInv, OneLineOfRefreshes, RefreshIsUnspent
<1>6. WithinTheGrant'
  BY <1>1 DEF IssuesNothing, IInv, WithinTheGrant, PairsAreOrdered
<1> QED
  BY <1>2, <1>3, <1>4, <1>5, <1>6 DEF IInv

\* A step that issues one pair, and spends the code or the token it is for.
Issues(new) ==
    /\ Issued' = Issued \union {NextPair}
    /\ \A n \in Issued : pair'[n] = pair[n]
    /\ pair'[NextPair] = new
    /\ grant' = grant /\ revoked' = revoked
    /\ codes' \subseteq codes /\ new.code \notin codes'
    /\ refresh' \subseteq refresh \union {NextPair}
    /\ new.parent < NextPair /\ new.parent \notin revoked /\ new.parent \notin refresh'
    /\ \A n \in Issued : pair[n].code = new.code => pair[n].parent # new.parent
    /\ \A n \in refresh : n \in refresh' => pair[n].code # new.code

WithinItsGrant(new) ==
    /\ grant[new.code] # None /\ new.client = grant[new.code].client
    /\ new.scopes \subseteq grant[new.code].scopes
    /\ new.parent # 0 => new.parent \in Issued /\ new.scopes \subseteq pair[new.parent].scopes

LEMMA Appended ==
    ASSUME NEW S, NEW s \in Seq(S), NEW e \in S
    PROVE  /\ Append(s, e) \in Seq(S) /\ Len(Append(s, e)) = Len(s) + 1
           /\ Append(s, e)[Len(s) + 1] = e
           /\ \A n \in 1 .. Len(s) : Append(s, e)[n] = s[n]
OBVIOUS

LEMMA OneIssued ==
    ASSUME IInv, Typed', NEW new, Issues(new), WithinItsGrant(new), HandlersHoldWhatTheyRead'
    PROVE  IInv'
<1>1. /\ Len(pair) \in Nat /\ NextPair = Len(pair) + 1
      /\ refresh \subseteq Issued /\ revoked \subseteq Issued
      /\ \A n \in Issued : n \in Nat /\ n < NextPair /\ n # 0
      /\ NextPair \notin Issued /\ NextPair \in Nat
  BY DEF IInv, Typed, TypeOK, Issued, NextPair
<1>2. /\ Issued' = Issued \union {NextPair}
      /\ \A n \in Issued : pair'[n] = pair[n]
      /\ pair'[NextPair] = new
      /\ grant' = grant /\ revoked' = revoked
  BY DEF Issues
<1>3. \A n \in Issued : pair[n].parent < NextPair /\ pair[n].parent \in Nat
  BY <1>1 DEF IInv, PairsAreOrdered, Typed, TypeOK, Pair
<1>4. /\ \A n, m \in Issued : pair[n].code = pair[m].code /\ pair[n].parent = pair[m].parent => n = m
      /\ \A n, m \in refresh : pair[n].code = pair[m].code => n = m
      /\ \A n \in revoked : \A m \in Issued : pair[m].parent # n
      /\ \A n \in refresh : n \notin revoked /\ \A m \in Issued : pair[m].parent # n
      /\ \A n \in Issued : pair[n].parent < n /\ grant[pair[n].code] # None
      /\ \A c \in codes : grant[c] # None /\ \A n \in Issued : pair[n].code # c
  BY DEF IInv, OneLineOfRefreshes, RefreshIsUnspent, PairsAreOrdered, CodesAreUnspent
<1>5. \A n \in Issued : pair[n].parent # NextPair
  BY <1>1, <1>3
<1> HIDE DEF Issued, NextPair
<1>6. PairsAreOrdered' /\ CodesAreUnspent'
  <2>1. PairsAreOrdered'
    BY <1>2, <1>4 DEF PairsAreOrdered, Issues, WithinItsGrant
  <2>2. CodesAreUnspent'
    BY <1>2, <1>4 DEF CodesAreUnspent, Issues
  <2> QED
    BY <2>1, <2>2
<1>7. RefreshIsUnspent'
  <2> SUFFICES ASSUME NEW n \in refresh' PROVE n \notin revoked' /\ \A m \in Issued' : pair'[m].parent # n
    BY DEF RefreshIsUnspent
  <2>1. CASE n = NextPair
    BY <2>1, <1>1, <1>2, <1>5 DEF Issues
  <2>2. CASE n \in refresh
    BY <2>2, <1>2, <1>4 DEF Issues
  <2> QED
    BY <2>1, <2>2 DEF Issues
<1>9. OneLineOfRefreshes'
  <2>1. ASSUME NEW n \in Issued', NEW m \in Issued', pair'[n].code = pair'[m].code,
               pair'[n].parent = pair'[m].parent
        PROVE  n = m
    <3>1. CASE n \in Issued /\ m \in Issued
      BY <3>1, <2>1, <1>2, <1>4
    <3>2. CASE n \in Issued /\ m = NextPair
      BY <3>2, <2>1, <1>2 DEF Issues
    <3>3. CASE n = NextPair /\ m \in Issued
      BY <3>3, <2>1, <1>2 DEF Issues
    <3> QED
      BY <3>1, <3>2, <3>3, <1>2
  <2>2. ASSUME NEW n \in refresh', NEW m \in refresh', pair'[n].code = pair'[m].code
        PROVE  n = m
    <3>1. CASE n \in refresh /\ m \in refresh
      BY <3>1, <2>2, <1>1, <1>2, <1>4
    <3>2. CASE n \in refresh /\ m = NextPair
      BY <3>2, <2>2, <1>1, <1>2 DEF Issues
    <3>3. CASE n = NextPair /\ m \in refresh
      BY <3>3, <2>2, <1>1, <1>2 DEF Issues
    <3> QED
      BY <3>1, <3>2, <3>3 DEF Issues
  <2>3. ASSUME NEW n \in revoked', NEW m \in Issued'
        PROVE  pair'[m].parent # n
    <3>1. CASE m \in Issued
      BY <3>1, <2>3, <1>2, <1>4
    <3>2. CASE m = NextPair
      BY <3>2, <2>3, <1>2 DEF Issues
    <3> QED
      BY <3>1, <3>2, <1>2
  <2> QED
    BY <2>1, <2>2, <2>3 DEF OneLineOfRefreshes
<1>8. WithinTheGrant'
  <2>1. ASSUME NEW n \in Issued
        PROVE  /\ pair'[n].client = grant'[pair'[n].code].client
               /\ pair'[n].scopes \subseteq grant'[pair'[n].code].scopes
               /\ pair'[n].parent # 0 => pair'[n].scopes \subseteq pair'[pair'[n].parent].scopes
    <3>1. pair[n].parent # 0 => pair[n].parent \in Issued
      BY <1>1, <1>3 DEF IInv, PairsAreOrdered, Issued
    <3>2. /\ pair[n].client = grant[pair[n].code].client
          /\ pair[n].scopes \subseteq grant[pair[n].code].scopes
          /\ pair[n].parent # 0 => pair[n].scopes \subseteq pair[pair[n].parent].scopes
      BY DEF IInv, WithinTheGrant
    <3>3. pair'[n] = pair[n] /\ pair[n].parent # 0 => pair'[pair[n].parent] = pair[pair[n].parent]
      BY <3>1, <1>2
    <3> QED
      BY <3>2, <3>3, <1>2, <3>1
  <2>2. /\ new.client = grant'[new.code].client
        /\ new.scopes \subseteq grant'[new.code].scopes
        /\ new.parent # 0 => new.scopes \subseteq pair'[new.parent].scopes
    BY <1>2 DEF WithinItsGrant
  <2>3. ASSUME NEW n \in Issued'
        PROVE  /\ pair'[n].client = grant'[pair'[n].code].client
               /\ pair'[n].scopes \subseteq grant'[pair'[n].code].scopes
               /\ pair'[n].parent # 0 => pair'[n].scopes \subseteq pair'[pair'[n].parent].scopes
    BY <2>1, <2>2, <1>2, Zenon
  <2> QED
    BY <2>3, Zenon DEF WithinTheGrant
<1> QED
  BY <1>6, <1>7, <1>8, <1>9 DEF IInv

-----------------------------------------------------------------------------
LEMMA ReadRefreshTokenKeeps ==
    ASSUME ConstantsAreNumbers, IInv, NEW h \in Handlers, NEW s \in Servers, NEW client \in Clients,
           NEW n \in refresh, NEW scopes \in ScopeSets, ReadRefreshToken(h, s, client, n, scopes)
    PROVE  IInv'
<1> DEFINE asked == [step |-> "read", server |-> s, client |-> client,
                       code |-> pair[n].code, spends |-> n, scopes |-> scopes]
<1>1. /\ handler' = [handler EXCEPT ![h] = asked]
      /\ UNCHANGED <<mode, clock, clients, grant, codes, pair, access, refresh, revoked>>
      /\ n \in Issued /\ pair[n] \in Pair /\ pair[n].client = client /\ scopes \subseteq pair[n].scopes
  BY DEF ReadRefreshToken, ValidRefresh, ScopesGranted, IInv, Typed, TypeOK
<1>2. asked \in Handler
  BY SMTT(20), <1>1 DEF Handler, Pair, Issued, ScopeSets, IInv, Typed, TypeOK, ConstantsAreNumbers
<1>3. /\ asked.step = "read" /\ asked.spends = n /\ asked.code = pair[n].code
      /\ asked.client = client /\ asked.scopes = scopes
  OBVIOUS
<1> HIDE DEF asked
<1>4. Typed'
  BY <1>1, <1>2 DEF IInv, Typed, TypeOK, Issued
<1>5. \A k \in Handlers : handler'[k] = IF k = h THEN asked ELSE handler[k]
  BY <1>1 DEF IInv, Typed, TypeOK
<1>6. HandlersHoldWhatTheyRead'
  BY <1>1, <1>3, <1>5 DEF IInv, HandlersHoldWhatTheyRead, Issued
<1>7. IssuesNothing
  BY <1>1 DEF IInv, RefreshIsUnspent, IssuesNothing
<1> QED
  BY <1>4, <1>6, <1>7, NothingIssued

LEMMA ExchangeKeeps ==
    ASSUME ConstantsAreNumbers, IInv, NEW h \in Handlers, ExchangeAuthorizationCode(h)
    PROVE  IInv'
<1> DEFINE c == handler[h].code
           client == handler[h].client
           new == Issue(client, grant[c].scopes, c, 0)
<1>1. Idle \in Handler /\ Idle.step = "idle"
  BY DEF Idle, Handler, ConstantsAreNumbers
<1>2. /\ handler' = [handler EXCEPT ![h] = Idle]
      /\ UNCHANGED <<mode, clock, clients, grant, revoked>>
  BY DEF ExchangeAuthorizationCode
<1>3. \A k \in Handlers : handler'[k] = IF k = h THEN Idle ELSE handler[k]
  BY <1>2 DEF IInv, Typed, TypeOK
<1>4. handler' \in [Handlers -> Handler]
  BY <1>1, <1>2 DEF IInv, Typed, TypeOK
<1>5. CASE UNCHANGED <<codes, pair, access, refresh>>
  <2>1. Typed'
    BY <1>2, <1>4, <1>5 DEF IInv, Typed, TypeOK, Issued
  <2>2. HandlersHoldWhatTheyRead'
    BY <1>1, <1>3, <1>5 DEF IInv, HandlersHoldWhatTheyRead, Issued
  <2>3. IssuesNothing
    BY <1>2, <1>5 DEF IInv, RefreshIsUnspent, IssuesNothing
  <2> QED
    BY <2>1, <2>2, <2>3, NothingIssued
<1>6. CASE /\ ValidCode(handler[h].server, client, c)
           /\ NextPair \in Pairs
           /\ codes' = codes \ {c}
           /\ pair' = Append(pair, new)
           /\ access' = access \union {NextPair}
           /\ refresh' = refresh \union {NextPair}
  <2>1. /\ c \in codes /\ c \in Codes /\ grant[c] \in Grant /\ grant[c].client = client
        /\ clock \in 0 .. MaxTime
    BY <1>6 DEF ValidCode, IInv, CodesAreUnspent, Typed, TypeOK, Time
  <2>2. /\ new.client = client /\ new.scopes = grant[c].scopes /\ new.code = c /\ new.parent = 0
        /\ new \in Pair
    BY <2>1 DEF Issue, Pair, Grant, ConstantsAreNumbers
  <2>3. /\ pair \in Seq(Pair) /\ Len(pair) \in Nat /\ NextPair = Len(pair) + 1
        /\ refresh \subseteq Issued /\ revoked \subseteq Issued /\ access \subseteq Issued
        /\ NextPair <= MaxPairs /\ MaxPairs \in Nat /\ 0 \notin Issued /\ NextPair # 0
    BY <1>6 DEF IInv, Typed, TypeOK, Issued, NextPair, Pairs, ConstantsAreNumbers
  <2> HIDE DEF new
  <2>4. /\ Issued' = Issued \union {NextPair} /\ Len(pair') \in 0 .. MaxPairs
        /\ pair' \in Seq(Pair) /\ \A n \in Issued' : pair'[n] \in Pair
        /\ \A n \in Issued : pair'[n] = pair[n]
        /\ pair'[NextPair] = new
    BY <1>6, <2>2, <2>3, Appended DEF Issued
  <2>5. Typed'
    BY <1>2, <1>4, <1>6, <2>3, <2>4 DEF IInv, Typed, TypeOK
  <2>6. HandlersHoldWhatTheyRead'
    BY <1>1, <1>3, <2>4 DEF IInv, HandlersHoldWhatTheyRead
  <2>7. \A n \in Issued : pair[n].code # c
    BY <2>1 DEF IInv, CodesAreUnspent
  <2>8. c \notin codes' /\ codes' \subseteq codes /\ grant[c] # None
    BY <1>6, <2>1 DEF ConstantsAreNumbers
  <2> HIDE DEF c, client
  <2>9. 0 \notin refresh' /\ 0 \notin revoked
    BY <1>6, <2>3
  <2>10. 0 < NextPair
    BY <2>3
  <2>11. refresh' \subseteq refresh \union {NextPair} /\ grant' = grant /\ revoked' = revoked
    BY <1>2, <1>6
  <2>12. Issues(new)
    BY <2>2, <2>3, <2>4, <2>7, <2>8, <2>9, <2>10, <2>11 DEF Issues
  <2>13. WithinItsGrant(new)
    BY <2>1, <2>2, <2>8 DEF WithinItsGrant
  <2> QED
    BY <2>5, <2>6, <2>12, <2>13, OneIssued
<1> QED
  BY <1>5, <1>6 DEF ExchangeAuthorizationCode

LEMMA SaveTokenPairKeeps ==
    ASSUME ConstantsAreNumbers, IInv, NEW h \in Handlers, SaveTokenPair(h)
    PROVE  IInv'
<1> DEFINE c == handler[h].code
           old == handler[h].spends
           new == Issue(handler[h].client, handler[h].scopes, c, old)
<1>1. Idle \in Handler /\ Idle.step = "idle"
  BY DEF Idle, Handler, ConstantsAreNumbers
<1>2. /\ handler' = [handler EXCEPT ![h] = Idle]
      /\ UNCHANGED <<mode, clock, clients, grant, codes, revoked>>
  BY DEF SaveTokenPair
<1>3. \A k \in Handlers : handler'[k] = IF k = h THEN Idle ELSE handler[k]
  BY <1>2 DEF IInv, Typed, TypeOK
<1>4. handler' \in [Handlers -> Handler]
  BY <1>1, <1>2 DEF IInv, Typed, TypeOK
<1>5. CASE UNCHANGED <<pair, access, refresh>>
  <2>1. Typed'
    BY <1>2, <1>4, <1>5 DEF IInv, Typed, TypeOK, Issued
  <2>2. HandlersHoldWhatTheyRead'
    BY <1>1, <1>3, <1>5 DEF IInv, HandlersHoldWhatTheyRead, Issued
  <2>3. IssuesNothing
    BY <1>2, <1>5 DEF IInv, RefreshIsUnspent, IssuesNothing
  <2> QED
    BY <2>1, <2>2, <2>3, NothingIssued
<1>6. CASE /\ old \in refresh
           /\ NextPair \in Pairs
           /\ pair' = Append(pair, new)
           /\ access' = access \union {NextPair}
           /\ refresh' = (refresh \ {old}) \union {NextPair}
  <2>1. /\ old \in Issued /\ handler[h].client = pair[old].client /\ c = pair[old].code
        /\ handler[h].scopes \subseteq pair[old].scopes /\ pair[old] \in Pair
        /\ clock \in 0 .. MaxTime
    BY <1>6 DEF SaveTokenPair, IInv, HandlersHoldWhatTheyRead, Typed, TypeOK, Time
  <2>2. /\ pair \in Seq(Pair) /\ Len(pair) \in Nat /\ NextPair = Len(pair) + 1
        /\ refresh \subseteq Issued /\ revoked \subseteq Issued /\ access \subseteq Issued
        /\ NextPair <= MaxPairs /\ MaxPairs \in Nat /\ old \in 1 .. Len(pair)
    BY <1>6, <2>1 DEF IInv, Typed, TypeOK, Issued, NextPair, Pairs, ConstantsAreNumbers
  <2>3. /\ new.client = pair[old].client /\ new.scopes = handler[h].scopes /\ new.code = c
        /\ new.parent = old
    BY <2>1 DEF Issue
  <2>4. new \in Pair
    <3>1. /\ pair[old].client \in Clients /\ c \in Codes /\ handler[h].scopes \subseteq Scopes
          /\ old \in 0 .. MaxPairs
      <4>1. handler[h] \in Handler /\ pair[old] \in Pair
        BY <2>1 DEF IInv, Typed, TypeOK
      <4> HIDE DEF c, old
      <4>2. pair[old].client \in Clients /\ pair[old].code \in Codes
        BY <4>1 DEF Pair
      <4>3. handler[h].scopes \subseteq Scopes
        BY <4>1 DEF Handler
      <4>4. old \in 0 .. MaxPairs
        BY <2>2
      <4> QED
        BY <2>1, <4>2, <4>3, <4>4
    <3>2. clock + AccessTtl \in 0 .. MaxTime + AccessTtl /\ clock + RefreshTtl \in 0 .. MaxTime + RefreshTtl
      BY <2>1 DEF ConstantsAreNumbers
    <3> HIDE DEF c, old
    <3> QED
      BY <2>1, <3>1, <3>2 DEF Issue, Pair
  <2> HIDE DEF new
  <2>5. /\ Issued' = Issued \union {NextPair} /\ Len(pair') \in 0 .. MaxPairs
        /\ pair' \in Seq(Pair) /\ \A n \in Issued' : pair'[n] \in Pair
        /\ \A n \in Issued : pair'[n] = pair[n]
        /\ pair'[NextPair] = new
    BY <1>6, <2>2, <2>4, Appended DEF Issued
  <2>6. Typed'
    BY <1>2, <1>4, <1>6, <2>2, <2>5 DEF IInv, Typed, TypeOK
  <2>7. HandlersHoldWhatTheyRead'
    BY <1>1, <1>3, <2>5 DEF IInv, HandlersHoldWhatTheyRead
  <2>8. /\ old \notin revoked /\ \A n \in Issued : pair[n].parent # old
        /\ \A n \in refresh \ {old} : pair[n].code # c
        /\ grant[c] # None /\ c \notin codes'
        /\ pair[old].client = grant[c].client /\ pair[old].scopes \subseteq grant[c].scopes
    BY <1>2, <1>6, <2>1 DEF IInv, RefreshIsUnspent, OneLineOfRefreshes, PairsAreOrdered, CodesAreUnspent,
                            WithinTheGrant
  <2> HIDE DEF c, old
  <2>9. old \notin refresh' /\ old < NextPair
    BY <1>6, <2>2
  <2>10. codes' \subseteq codes /\ grant' = grant /\ revoked' = revoked
    BY <1>2
  <2>11. refresh' \subseteq refresh \union {NextPair}
    BY <1>6
  <2>12. Issues(new)
    BY <2>1, <2>2, <2>3, <2>5, <2>8, <2>9, <2>10, <2>11 DEF Issues
  <2>13. WithinItsGrant(new)
    BY <2>1, <2>3, <2>8 DEF WithinItsGrant
  <2> QED
    BY <2>6, <2>7, <2>12, <2>13, OneIssued
<1> QED
  BY <1>5, <1>6 DEF SaveTokenPair, Spendable

LEMMA QuietKeeps ==
    ASSUME ConstantsAreNumbers, IInv, Typed', IssuesNothing, handler' = handler
    PROVE  IInv'
<1>1. HandlersHoldWhatTheyRead'
  BY DEF IInv, HandlersHoldWhatTheyRead, IssuesNothing, Issued
<1> QED
  BY <1>1, NothingIssued

LEMMA ServersAreServers == ASSUME NEW s \in Serving, Servers # {} PROVE s \in Servers
BY DEF Serving

LEMMA StepHolds == ASSUME ConstantsAreNumbers, Servers # {}, IInv, [Next]_vars PROVE IInv'
<1>1. CASE UNCHANGED vars
  <2>1. UNCHANGED <<mode, clock, clients, grant, codes, pair, access, refresh, revoked, handler>>
    BY <1>1 DEF vars
  <2>2. Typed' /\ IssuesNothing
    BY <2>1 DEF IInv, Typed, TypeOK, Issued, IssuesNothing, RefreshIsUnspent, CodesAreUnspent
  <2> QED
    BY <2>1, <2>2, QuietKeeps
<1>2. CASE Tick
  <2>1. /\ clock' = clock + 1 /\ clock < MaxTime
        /\ UNCHANGED <<mode, clients, grant, codes, pair, access, refresh, revoked, handler>>
    BY <1>2 DEF Tick
  <2>2. clock' \in Time
    BY <2>1 DEF IInv, Typed, TypeOK, Time, ConstantsAreNumbers
  <2>3. Typed' /\ IssuesNothing
    BY <2>1, <2>2 DEF IInv, Typed, TypeOK, Issued, IssuesNothing, RefreshIsUnspent, CodesAreUnspent
  <2> QED
    BY <2>1, <2>3, QuietKeeps
<1>3. ASSUME NEW client \in Clients, RegisterClient(client) PROVE IInv'
  <2>1. /\ clients' = clients \union {client}
        /\ UNCHANGED <<mode, clock, grant, codes, pair, access, refresh, revoked, handler>>
    BY <1>3 DEF RegisterClient
  <2>2. Typed' /\ IssuesNothing
    BY <2>1 DEF IInv, Typed, TypeOK, Issued, IssuesNothing, RefreshIsUnspent, CodesAreUnspent
  <2> QED
    BY <2>1, <2>2, QuietKeeps
<1>4. ASSUME NEW s \in Servers, NEW client \in Clients, NEW code \in Codes, NEW scopes \in ScopeSets,
             Authorize(s, client, code, scopes)
      PROVE  IInv'
  <2> DEFINE given == [client |-> client, scopes |-> scopes, server |-> s, expiresAt |-> clock + CodeTtl]
  <2>1. /\ grant' = [grant EXCEPT ![code] = given] /\ grant[code] = None
        /\ codes' = codes \union {code}
        /\ UNCHANGED <<mode, clock, clients, pair, access, refresh, revoked, handler>>
    BY <1>4 DEF Authorize
  <2>2. given \in Grant
    <3>1. clock + CodeTtl \in 0 .. MaxTime + CodeTtl /\ scopes \subseteq Scopes
      BY DEF IInv, Typed, TypeOK, Time, ConstantsAreNumbers, ScopeSets
    <3> QED
      BY <3>1 DEF Grant
  <2>3. given # None
    BY <2>2 DEF ConstantsAreNumbers
  <2> HIDE DEF given
  <2>4. \A c \in Codes : grant'[c] = IF c = code THEN given ELSE grant[c]
    BY <2>1 DEF IInv, Typed, TypeOK
  <2>5. Typed'
    BY <2>1, <2>2 DEF IInv, Typed, TypeOK, Issued
  <2>6. IssuesNothing
    BY <2>1, <2>3, <2>4 DEF IInv, IssuesNothing, RefreshIsUnspent
  <2> QED
    BY <2>1, <2>5, <2>6, QuietKeeps
<1>5. ASSUME NEW s \in Servers, NEW client \in Clients, NEW code \in Codes, NEW h \in Handlers,
             Challenge(h, s, client, code)
      PROVE  IInv'
  <2> DEFINE asked == [step |-> "challenged", server |-> s, client |-> client,
                         code |-> code, spends |-> 0, scopes |-> {}]
  <2>1. /\ handler' = [handler EXCEPT ![h] = asked]
        /\ UNCHANGED <<mode, clock, clients, grant, codes, pair, access, refresh, revoked>>
    BY <1>5 DEF Challenge
  <2>2. asked \in Handler /\ asked.step # "read"
    BY DEF Handler, ConstantsAreNumbers
  <2> HIDE DEF asked
  <2>3. Typed' /\ IssuesNothing
    BY <2>1, <2>2 DEF IInv, Typed, TypeOK, Issued, IssuesNothing, RefreshIsUnspent, CodesAreUnspent
  <2>4. \A k \in Handlers : handler'[k] = IF k = h THEN asked ELSE handler[k]
    BY <2>1 DEF IInv, Typed, TypeOK
  <2>5. HandlersHoldWhatTheyRead'
    BY <2>1, <2>2, <2>4 DEF IInv, HandlersHoldWhatTheyRead, Issued
  <2> QED
    BY <2>3, <2>5, NothingIssued
<1>6. ASSUME NEW s \in Servers, NEW n \in access \union refresh, RevokeToken(s, n) PROVE IInv'
  <2>1. /\ \/ /\ access' = access \ {n}
              /\ UNCHANGED <<refresh, revoked>>
           \/ /\ n \in refresh
              /\ refresh' = refresh \ {n} /\ revoked' = revoked \union {n} /\ access' = access
        /\ UNCHANGED <<mode, clock, clients, grant, codes, pair, handler>>
    BY <1>6 DEF RevokeToken
  <2>2. Typed' /\ IssuesNothing
    BY ZenonT(40), <2>1 DEF IInv, Typed, TypeOK, Issued, IssuesNothing, RefreshIsUnspent, CodesAreUnspent
  <2> QED
    BY <2>1, <2>2, QuietKeeps
<1>7. ASSUME NEW s \in Servers, Restart(s) PROVE IInv'
  <2>1. /\ codes' \subseteq codes /\ access' \subseteq access /\ refresh' \subseteq refresh
        /\ clients' \subseteq clients
        /\ handler' = [h \in Handlers |-> IF handler[h].server = s THEN Idle ELSE handler[h]]
        /\ UNCHANGED <<mode, clock, grant, pair, revoked>>
    BY <1>7 DEF Restart
  <2>2. Idle \in Handler /\ Idle.step = "idle"
    BY DEF Idle, Handler, ConstantsAreNumbers
  <2>3. Typed' /\ IssuesNothing
    BY <2>1, <2>2 DEF IInv, Typed, TypeOK, Issued, IssuesNothing, RefreshIsUnspent, CodesAreUnspent
  <2>4. HandlersHoldWhatTheyRead'
    BY <2>1, <2>2 DEF IInv, HandlersHoldWhatTheyRead, Issued
  <2> QED
    BY <2>3, <2>4, NothingIssued
<1>8. CASE Next
  BY <1>2, <1>3, <1>4, <1>5, <1>6, <1>7, <1>8, ServersAreServers, ReadRefreshTokenKeeps, ExchangeKeeps,
     SaveTokenPairKeeps DEF Next
<1> QED
  BY <1>1, <1>8

(* No code and no refresh token is spent twice, and a revoked one is the end *)
(* of its line, for any number of servers, requests and restarts             *)
(* (exchangeAuthorizationCode, saveTokenPair, revokeToken).                  *)
THEOREM TokensAreSpentOnce ==
    ASSUME ConstantsAreNumbers, Servers # {} PROVE Spec => []OneLineOfRefreshes
<1>1. Init => IInv
  BY InitHolds
<1>2. IInv /\ [Next]_vars => IInv'
  BY StepHolds
<1>3. IInv => OneLineOfRefreshes
  BY DEF IInv
<1> QED
  BY <1>1, <1>2, <1>3, PTL DEF Spec

(* However often it is refreshed, a pair of tokens allows no more than the   *)
(* owner allowed its client (exchangeRefreshToken).                          *)
THEOREM ScopesNeverGrow ==
    ASSUME ConstantsAreNumbers, Servers # {} PROVE Spec => []WithinTheGrant
<1>1. Init => IInv
  BY InitHolds
<1>2. IInv /\ [Next]_vars => IInv'
  BY StepHolds
<1>3. IInv => WithinTheGrant
  BY DEF IInv
<1> QED
  BY <1>1, <1>2, <1>3, PTL DEF Spec

-----------------------------------------------------------------------------
(***************************************************************************)
(* The workspace sessions, for any number of calls, sessions and restarts: *)
(* a workspace is used by who opened it, where it was opened.              *)
(***************************************************************************)

OwnersKeepSessions ==
    \A w \in Workspaces : openedBy[w] # Nothing =>
        transport[openedBy[w].session] \in {openedBy[w].owner, "closed"}

Active(c) == call[c].pc # "idle"

CallsAreOpenings ==
    \A c \in Calls : Active(c) =>
        LET w == call[c].workspace IN
        /\ openedBy[w] # Nothing /\ w \notin answered
        /\ call[c].owner = openedBy[w].owner /\ call[c].session = openedBy[w].session
        /\ openedBy[w].mode = "worktree" /\ call[c].pc # "draw" => path[w] \in disk

OneCallEach ==
    \A c, e \in Calls : Active(c) /\ Active(e) /\ call[c].workspace = call[e].workspace => c = e

AnswersAreRemembered ==
    \A w \in answered :
        /\ openedBy[w] # Nothing
        /\ transport[openedBy[w].session] \in Identities => w \in memory[openedBy[w].session]

MemoryIsOfTheSession ==
    \A s \in Sessions : \A w \in memory[s] :
        /\ w \in answered /\ openedBy[w].session = s
        /\ openedBy[w].mode = "worktree" => path[w] \in disk

RowsAreOfTheOpeners ==
    \A w \in Workspaces : sessionRow[w] # Nothing =>
        /\ openedBy[w] # Nothing
        /\ sessionRow[w].owner = openedBy[w].owner /\ sessionRow[w].session = openedBy[w].session

SessionsInv ==
    /\ SessionsTypeOK /\ OwnersKeepSessions /\ CallsAreOpenings /\ OneCallEach
    /\ AnswersAreRemembered /\ MemoryIsOfTheSession /\ RowsAreOfTheOpeners /\ UsedWhereOpened

-----------------------------------------------------------------------------
LEMMA SessionsBegin == ASSUME SessionsInit PROVE SessionsInv
<1>1. NotCalled \in Call \union {NotCalled} /\ NotCalled.pc = "idle"
  BY DEF NotCalled
<1>2. SessionsTypeOK
  BY <1>1, SessionsAssumption DEF SessionsInit, SessionsTypeOK, Times
<1>3. \A c \in Calls : ~Active(c)
  BY <1>1 DEF SessionsInit, Active
<1>4. OwnersKeepSessions /\ RowsAreOfTheOpeners /\ AnswersAreRemembered /\ MemoryIsOfTheSession /\ UsedWhereOpened
  BY DEF SessionsInit, OwnersKeepSessions, RowsAreOfTheOpeners, AnswersAreRemembered, MemoryIsOfTheSession, UsedWhereOpened
<1>5. CallsAreOpenings /\ OneCallEach
  BY <1>3 DEF CallsAreOpenings, OneCallEach
<1> QED
  BY <1>2, <1>4, <1>5 DEF SessionsInv

LEMMA NotCalledIsIdle == NotCalled.pc = "idle"
BY DEF NotCalled

LEMMA ActiveCall ==
    ASSUME SessionsTypeOK, NEW c \in Calls, call[c].pc # "idle"
    PROVE  call[c] \in Call
BY NotCalledIsIdle DEF SessionsTypeOK

LEMMA SessionsTypeStep ==
    ASSUME SessionsTypeOK, [SessionsNext]_sessionsVars
    PROVE  SessionsTypeOK'
<1>1. ASSUME NEW o \in Identities, NEW s \in Sessions, Initialize(o, s) PROVE SessionsTypeOK'
  BY <1>1 DEF SessionsTypeOK, Initialize
<1>2. ASSUME NEW s \in Sessions, Close(s) PROVE SessionsTypeOK'
  BY <1>2 DEF SessionsTypeOK, Close
<1>3. ASSUME NEW c \in Calls, NEW o \in Identities, NEW s \in Sessions, NEW w \in Workspaces,
             NEW m \in {"checkout", "worktree"}, AskOpen(c, o, s, w, m)
      PROVE SessionsTypeOK'
  <2> DEFINE new == [pc |-> IF m = "worktree" THEN "draw" ELSE "create", owner |-> o, session |-> s, workspace |-> w]
             opening == [owner |-> o, session |-> s, mode |-> m]
  <2>1. new \in Call /\ opening \in Opening
    BY DEF Call, Opening
  <2>2. call' = [call EXCEPT ![c] = new] /\ openedBy' = [openedBy EXCEPT ![w] = opening]
    BY <1>3 DEF AskOpen
  <2> HIDE DEF new, opening
  <2> QED
    BY <1>3, <2>1, <2>2 DEF SessionsTypeOK, AskOpen
<1>4. ASSUME NEW c \in Calls, NEW p \in Paths, AddWorktree(c, p) PROVE SessionsTypeOK'
  <2>1. call[c] \in Call
    BY <1>4, ActiveCall DEF AddWorktree
  <2>2. [call[c] EXCEPT !.pc = "create"] \in Call /\ call[c].workspace \in Workspaces
    BY <2>1 DEF Call
  <2>3. call' \in [Calls -> Call \union {NotCalled}]
    <3>1. call' = [call EXCEPT ![c] = [call[c] EXCEPT !.pc = "create"]] \/ call' = [call EXCEPT ![c] = NotCalled]
      BY <1>4 DEF AddWorktree
    <3> QED
      BY <2>2, <3>1 DEF SessionsTypeOK
  <2>4. path' \in [Workspaces -> Paths \union {Nothing}] /\ disk' \subseteq Paths
    BY <1>4, <2>2 DEF SessionsTypeOK, AddWorktree
  <2> QED
    BY <1>4, <2>3, <2>4 DEF SessionsTypeOK, AddWorktree
<1>5. ASSUME NEW c \in Calls, CreateRow(c) PROVE SessionsTypeOK'
  <2> DEFINE new == [owner |-> call[c].owner, session |-> call[c].session, usedAt |-> time]
  <2>1. call[c] \in Call
    BY <1>5, ActiveCall DEF CreateRow
  <2>2. [call[c] EXCEPT !.pc = "save"] \in Call /\ call[c].workspace \in Workspaces /\ call[c].session \in Sessions
    BY <2>1 DEF Call
  <2>3. new \in Row
    BY <2>1 DEF Row, Call, SessionsTypeOK
  <2>4. sessionRow' = [sessionRow EXCEPT ![call[c].workspace] = new]
    BY <1>5 DEF CreateRow
  <2> HIDE DEF new
  <2>5. sessionRow' \in [Workspaces -> Row \union {Nothing}]
    BY <2>3, <2>4 DEF SessionsTypeOK
  <2>6. call' \in [Calls -> Call \union {NotCalled}]
    <3>1. call' = [call EXCEPT ![c] = [call[c] EXCEPT !.pc = "save"]] \/ call' = [call EXCEPT ![c] = NotCalled]
      BY <1>5 DEF CreateRow, Remember
    <3> QED
      BY <2>2, <3>1 DEF SessionsTypeOK
  <2>7. memory' \in [Sessions -> SUBSET Workspaces] /\ answered' \subseteq Workspaces
    BY <1>5, <2>2 DEF SessionsTypeOK, CreateRow, Remember
  <2> QED
    BY <1>5, <2>5, <2>6, <2>7 DEF SessionsTypeOK, CreateRow
<1>6. ASSUME NEW c \in Calls, SaveFiles(c) PROVE SessionsTypeOK'
  <2>1. call[c] \in Call
    BY <1>6, ActiveCall DEF SaveFiles
  <2>2. call[c].workspace \in Workspaces /\ call[c].session \in Sessions
    BY <2>1 DEF Call
  <2> QED
    BY <1>6, <2>2 DEF SessionsTypeOK, SaveFiles, Remember
<1>7. ASSUME NEW c \in Calls, StatementFails(c) PROVE SessionsTypeOK'
  BY <1>7 DEF SessionsTypeOK, StatementFails
<1>8. ASSUME NEW o \in Identities, NEW s \in Sessions, NEW w \in Workspaces, Use(o, s, w) PROVE SessionsTypeOK'
  <2> DEFINE answer == [owner |-> o, session |-> s, workspace |-> w, answer |-> IF Known(w, o, s) THEN "ok" ELSE "unknown"]
  <2>1. answer \in Answer
    BY DEF Answer
  <2>2. used' = answer
    BY <1>8 DEF Use
  <2> HIDE DEF answer
  <2>3. memory' \in [Sessions -> SUBSET Workspaces] /\ touches' \subseteq Workspaces \X Times
    BY <1>8 DEF SessionsTypeOK, Use, Touch
  <2>4. sessionRow' \in [Workspaces -> Row \union {Nothing}]
    <3>1. CASE sessionRow' = sessionRow
      BY <3>1 DEF SessionsTypeOK
    <3>2. CASE sessionRow[w] # Nothing /\ sessionRow' = [sessionRow EXCEPT ![w] = [sessionRow[w] EXCEPT !.usedAt = time]]
      <4>1. [sessionRow[w] EXCEPT !.usedAt = time] \in Row
        BY <3>2 DEF SessionsTypeOK, Row
      <4> QED
        BY <3>2, <4>1 DEF SessionsTypeOK
    <3> QED
      BY <1>8, <3>1, <3>2 DEF Use, Touch
  <2> QED
    BY <1>8, <2>1, <2>2, <2>3, <2>4 DEF SessionsTypeOK, Use
<1>9. ASSUME NEW t \in touches, TouchArrives(t) PROVE SessionsTypeOK'
  <2>1. t[1] \in Workspaces /\ t[2] \in Times
    BY DEF SessionsTypeOK
  <2>2. sessionRow' \in [Workspaces -> Row \union {Nothing}]
    <3>1. CASE sessionRow' = sessionRow
      BY <3>1 DEF SessionsTypeOK
    <3>2. CASE sessionRow[t[1]] # Nothing /\ sessionRow' = [sessionRow EXCEPT ![t[1]] = [sessionRow[t[1]] EXCEPT !.usedAt = t[2]]]
      <4>1. [sessionRow[t[1]] EXCEPT !.usedAt = t[2]] \in Row
        BY <2>1, <3>2 DEF SessionsTypeOK, Row
      <4> QED
        BY <2>1, <3>2, <4>1 DEF SessionsTypeOK
    <3> QED
      BY <1>9, <3>1, <3>2 DEF TouchArrives
  <2> QED
    BY <1>9, <2>2 DEF SessionsTypeOK, TouchArrives
<1>10. CASE BeginCleanup
  <2>1. time - Ttl \in -Ttl .. MaxSessionTime
    BY SessionsAssumption DEF SessionsTypeOK, Times
  <2> QED
    BY <1>10, <2>1 DEF SessionsTypeOK, BeginCleanup
<1>11. CASE DeleteExpired
  BY <1>11 DEF SessionsTypeOK, DeleteExpired
<1>12. CASE SessionsTick
  <2>1. time + 1 \in Times
    BY <1>12, SessionsAssumption DEF SessionsTypeOK, Times, SessionsTick
  <2> QED
    BY <1>12, <2>1 DEF SessionsTypeOK, SessionsTick
<1>13. CASE ServerRestart
  BY <1>13 DEF SessionsTypeOK, ServerRestart
<1>14. CASE UNCHANGED sessionsVars
  BY <1>14 DEF SessionsTypeOK, sessionsVars
<1> QED
  BY <1>1, <1>2, <1>3, <1>4, <1>5, <1>6, <1>7, <1>8, <1>9, <1>10, <1>11, <1>12, <1>13, <1>14 DEF SessionsNext

-----------------------------------------------------------------------------
\* What a step leaves alone keeps what is said about it.
Holds ==
    /\ OwnersKeepSessions /\ CallsAreOpenings /\ OneCallEach
    /\ AnswersAreRemembered /\ MemoryIsOfTheSession /\ RowsAreOfTheOpeners

LEMMA NothingUsed == (Holds /\ used = Nothing => UsedWhereOpened)'
<1>1. Holds /\ used = Nothing => UsedWhereOpened
  BY DEF Holds, UsedWhereOpened, MemoryIsOfTheSession
<1> QED
  BY <1>1, PTL

LEMMA InitializeHolds ==
    ASSUME SessionsInv, NEW o \in Identities, NEW s \in Sessions, Initialize(o, s)
    PROVE  Holds'
<1>1. transport \in [Sessions -> Identities \union {"unused", "closed"}] /\ transport[s] = "unused"
  BY DEF SessionsInv, SessionsTypeOK, Initialize
<1>2. \A w \in Workspaces : openedBy[w] # Nothing => openedBy[w] \in Opening
  BY DEF SessionsInv, SessionsTypeOK
<1>3. OwnersKeepSessions'
  <2> SUFFICES ASSUME NEW w \in Workspaces, openedBy[w] # Nothing
               PROVE  transport'[openedBy[w].session] \in {openedBy[w].owner, "closed"}
    BY DEF Initialize, OwnersKeepSessions
  <2>1. openedBy[w].owner \in Identities /\ openedBy[w].session \in Sessions
    BY <1>2 DEF Opening
  <2>2. transport[openedBy[w].session] \in {openedBy[w].owner, "closed"}
    BY DEF SessionsInv, OwnersKeepSessions
  <2>3. openedBy[w].session # s
    BY <1>1, <2>1, <2>2, SessionsAssumption
  <2> QED
    BY <1>1, <2>1, <2>2, <2>3 DEF Initialize
<1>4. AnswersAreRemembered'
  <2> SUFFICES ASSUME NEW w \in answered
               PROVE  /\ openedBy[w] # Nothing
                      /\ transport'[openedBy[w].session] \in Identities => w \in memory[openedBy[w].session]
    BY DEF Initialize, AnswersAreRemembered
  <2>1. w \in Workspaces /\ openedBy[w] # Nothing
    BY DEF SessionsInv, SessionsTypeOK, AnswersAreRemembered
  <2>2. openedBy[w].owner \in Identities /\ openedBy[w].session \in Sessions
    BY <1>2, <2>1 DEF Opening
  <2>3. transport[openedBy[w].session] \in {openedBy[w].owner, "closed"}
    BY <2>1 DEF SessionsInv, OwnersKeepSessions
  <2>4. openedBy[w].session # s
    BY <1>1, <2>2, <2>3, SessionsAssumption
  <2> QED
    BY <1>1, <2>1, <2>2, <2>4 DEF Initialize, SessionsInv, AnswersAreRemembered
<1>5. CallsAreOpenings' /\ OneCallEach' /\ MemoryIsOfTheSession' /\ RowsAreOfTheOpeners'
  BY DEF SessionsInv, Initialize, CallsAreOpenings, OneCallEach, MemoryIsOfTheSession, RowsAreOfTheOpeners, Active
<1> QED
  BY <1>3, <1>4, <1>5 DEF Holds

LEMMA CloseHolds ==
    ASSUME SessionsInv, NEW s \in Sessions, Close(s)
    PROVE  Holds'
<1>1. transport' = [transport EXCEPT ![s] = "closed"] /\ transport \in [Sessions -> Identities \union {"unused", "closed"}]
  BY DEF SessionsInv, SessionsTypeOK, Close
<1>2. \A r : r \in Sessions => transport'[r] \in {transport[r], "closed"}
  BY <1>1
<1>3. \A w \in Workspaces : openedBy[w] # Nothing => openedBy[w].session \in Sessions
  BY DEF SessionsInv, SessionsTypeOK, Opening
<1>4. OwnersKeepSessions'
  BY <1>2, <1>3 DEF SessionsInv, Close, OwnersKeepSessions
<1>5. AnswersAreRemembered'
  <2> SUFFICES ASSUME NEW w \in answered
               PROVE  /\ openedBy[w] # Nothing
                      /\ transport'[openedBy[w].session] \in Identities => w \in memory[openedBy[w].session]
    BY DEF Close, AnswersAreRemembered
  <2>1. w \in Workspaces /\ openedBy[w] # Nothing
    BY DEF SessionsInv, SessionsTypeOK, AnswersAreRemembered
  <2>2. transport'[openedBy[w].session] \in {transport[openedBy[w].session], "closed"}
    BY <1>2, <1>3, <2>1
  <2> QED
    BY <2>1, <2>2, SessionsAssumption DEF SessionsInv, AnswersAreRemembered
<1>6. CallsAreOpenings' /\ OneCallEach' /\ MemoryIsOfTheSession' /\ RowsAreOfTheOpeners'
  BY DEF SessionsInv, Close, CallsAreOpenings, OneCallEach, MemoryIsOfTheSession, RowsAreOfTheOpeners, Active
<1> QED
  BY <1>4, <1>5, <1>6 DEF Holds

LEMMA AskOpenHolds ==
    ASSUME SessionsInv, NEW c \in Calls, NEW o \in Identities, NEW s \in Sessions, NEW w \in Workspaces,
           NEW m \in {"checkout", "worktree"}, AskOpen(c, o, s, w, m)
    PROVE  Holds'
<1> DEFINE new == [pc |-> IF m = "worktree" THEN "draw" ELSE "create", owner |-> o, session |-> s, workspace |-> w]
           opening == [owner |-> o, session |-> s, mode |-> m]
<1>1. /\ new.pc \in {"draw", "create"} /\ (m = "worktree" => new.pc = "draw")
      /\ new.owner = o /\ new.session = s /\ new.workspace = w
      /\ opening.owner = o /\ opening.session = s /\ opening.mode = m /\ opening \in Opening
  BY DEF Opening
<1>2. call' = [call EXCEPT ![c] = new] /\ openedBy' = [openedBy EXCEPT ![w] = opening]
  BY DEF AskOpen
<1> HIDE DEF new, opening
<1>3. opening # Nothing
  BY <1>1, SessionsAssumption
<1>4. openedBy[w] = Nothing /\ transport[s] = o /\ call[c] = NotCalled
  BY DEF AskOpen, MayEnter
<1>5. /\ openedBy'[w] = opening /\ \A v \in Workspaces : v # w => openedBy'[v] = openedBy[v]
      /\ call'[c] = new /\ \A e \in Calls : e # c => call'[e] = call[e]
  BY <1>2 DEF SessionsInv, SessionsTypeOK
<1>6. /\ w \notin answered /\ sessionRow[w] = Nothing
      /\ \A e \in Calls : Active(e) => call[e].workspace # w
      /\ \A r \in Sessions : w \notin memory[r]
  BY <1>4 DEF SessionsInv, AnswersAreRemembered, RowsAreOfTheOpeners, CallsAreOpenings, MemoryIsOfTheSession
<1>7. OwnersKeepSessions'
  BY <1>1, <1>4, <1>5 DEF SessionsInv, OwnersKeepSessions, AskOpen
<1>8. CallsAreOpenings' /\ OneCallEach'
  <2>1. ASSUME NEW e \in Calls, Active(e)' PROVE e = c \/ (Active(e) /\ call'[e] = call[e] /\ call[e].workspace \in Workspaces /\ call[e].workspace # w)
    <3>1. CASE e # c
      <4>1. call'[e] = call[e] /\ Active(e)
        BY <1>5, <2>1, <3>1 DEF Active
      <4>2. call[e] \in Call
        BY <4>1, ActiveCall DEF SessionsInv, Active
      <4> QED
        BY <1>6, <4>1, <4>2 DEF Call
    <3> QED
      BY <3>1
  <2>2. CallsAreOpenings'
    <3> SUFFICES ASSUME NEW e \in Calls, Active(e)'
                 PROVE  LET v == call'[e].workspace IN
                        /\ openedBy'[v] # Nothing /\ v \notin answered
                        /\ call'[e].owner = openedBy'[v].owner /\ call'[e].session = openedBy'[v].session
                        /\ openedBy'[v].mode = "worktree" /\ call'[e].pc # "draw" => path[v] \in disk
      BY DEF CallsAreOpenings, AskOpen
    <3>1. CASE e = c
      BY <1>1, <1>3, <1>5, <1>6, <3>1
    <3>2. CASE e # c
      BY <1>5, <2>1, <3>2 DEF SessionsInv, CallsAreOpenings
    <3> QED
      BY <3>1, <3>2
  <2>3. OneCallEach'
    BY <1>1, <1>5, <2>1 DEF SessionsInv, OneCallEach
  <2> QED
    BY <2>2, <2>3
<1>9. AnswersAreRemembered'
  BY <1>5, <1>6 DEF SessionsInv, AnswersAreRemembered, AskOpen, SessionsTypeOK
<1>10. MemoryIsOfTheSession'
  BY <1>5, <1>6 DEF SessionsInv, MemoryIsOfTheSession, AskOpen, SessionsTypeOK
<1>11. RowsAreOfTheOpeners'
  BY <1>5, <1>6 DEF SessionsInv, RowsAreOfTheOpeners, AskOpen
<1> QED
  BY <1>7, <1>8, <1>9, <1>10, <1>11 DEF Holds

\* A call that goes on as another step of itself, or is over.
LEMMA CallGoesOn ==
    ASSUME SessionsInv, NEW c \in Calls, Active(c), NEW pc \in {"draw", "create", "save"},
           call' = [call EXCEPT ![c].pc = pc] \/ call' = [call EXCEPT ![c] = NotCalled]
    PROVE  /\ \A e \in Calls : Active(e)' =>
                /\ Active(e) /\ call[e] \in Call
                /\ call'[e].workspace = call[e].workspace
                /\ call'[e].owner = call[e].owner /\ call'[e].session = call[e].session
                /\ (IF e = c THEN call'[e].pc = pc /\ call' = [call EXCEPT ![c].pc = pc] ELSE call'[e] = call[e])
           /\ OneCallEach'
<1>1. ASSUME NEW e \in Calls, Active(e)'
      PROVE  /\ Active(e) /\ call[e] \in Call
             /\ call'[e].workspace = call[e].workspace
             /\ call'[e].owner = call[e].owner /\ call'[e].session = call[e].session
             /\ (IF e = c THEN call'[e].pc = pc /\ call' = [call EXCEPT ![c].pc = pc] ELSE call'[e] = call[e])
  <2>1. call \in [Calls -> Call \union {NotCalled}] /\ NotCalled.pc = "idle"
    BY NotCalledIsIdle DEF SessionsInv, SessionsTypeOK
  <2>2. CASE e = c
    <3>1. call[c] \in Call
      BY ActiveCall DEF SessionsInv, Active
    <3>2. call' # [call EXCEPT ![c] = NotCalled]
      BY <1>1, <2>1, <2>2 DEF Active
    <3>3. call' = [call EXCEPT ![c].pc = pc]
      BY <3>2
    <3> QED
      BY <2>1, <2>2, <3>1, <3>3 DEF Call
  <2>3. CASE e # c
    <3>1. call'[e] = call[e]
      BY <2>1, <2>3
    <3>2. call[e] \in Call
      BY <1>1, <3>1, ActiveCall DEF SessionsInv, Active
    <3> QED
      BY <1>1, <2>3, <3>1, <3>2 DEF Active
  <2> QED
    BY <2>2, <2>3
<1>2. OneCallEach'
  BY <1>1 DEF SessionsInv, OneCallEach
<1> QED
  BY <1>1, <1>2

LEMMA AddWorktreeHolds ==
    ASSUME SessionsInv, NEW c \in Calls, NEW p \in Paths, AddWorktree(c, p)
    PROVE  Holds'
<1> DEFINE w == call[c].workspace
<1>1. Active(c) /\ call[c] \in Call /\ w \in Workspaces
  <2>1. call[c] \in Call
    BY ActiveCall DEF SessionsInv, AddWorktree
  <2> QED
    BY <2>1 DEF Call, Active, AddWorktree
<1>2. /\ \A e \in Calls : Active(e)' =>
                /\ Active(e) /\ call[e] \in Call
                /\ call'[e].workspace = call[e].workspace
                /\ call'[e].owner = call[e].owner /\ call'[e].session = call[e].session
                /\ (IF e = c THEN call'[e].pc = "create" /\ call' = [call EXCEPT ![c].pc = "create"] ELSE call'[e] = call[e])
      /\ OneCallEach'
  BY <1>1, CallGoesOn DEF AddWorktree
<1>3. /\ path[w] = Nothing /\ path' = [path EXCEPT ![w] = p] /\ \A v \in Workspaces \ {w} : path[v] # p
      /\ disk \ {p} \subseteq disk'
      /\ call' = [call EXCEPT ![c].pc = "create"] => p \in disk'
  <2>1. call' = [call EXCEPT ![c] = NotCalled] => call' # [call EXCEPT ![c].pc = "create"]
    <3>1. [call EXCEPT ![c] = NotCalled][c].pc = "idle"
      BY NotCalledIsIdle DEF SessionsInv, SessionsTypeOK
    <3>2. [call EXCEPT ![c].pc = "create"][c].pc = "create"
      BY <1>1 DEF SessionsInv, SessionsTypeOK, Call
    <3> QED
      BY <3>1, <3>2
  <2> QED
    BY <2>1 DEF AddWorktree, Drawn
<1>4. w \notin answered /\ \A s \in Sessions : w \notin memory[s]
  BY <1>1 DEF SessionsInv, CallsAreOpenings, MemoryIsOfTheSession
<1>5. \A v \in Workspaces : v # w => path'[v] = path[v] /\ (path[v] \in disk => path'[v] \in disk')
  BY <1>1, <1>3 DEF SessionsInv, SessionsTypeOK
<1> HIDE DEF w
<1>6. CallsAreOpenings'
  <2> SUFFICES ASSUME NEW e \in Calls, Active(e)'
               PROVE  LET v == call'[e].workspace IN
                      /\ openedBy[v] # Nothing /\ v \notin answered
                      /\ call'[e].owner = openedBy[v].owner /\ call'[e].session = openedBy[v].session
                      /\ openedBy[v].mode = "worktree" /\ call'[e].pc # "draw" => path'[v] \in disk'
    BY DEF CallsAreOpenings, AddWorktree
  <2>1. CASE e = c
    <3>1. p \in disk' /\ path'[w] = p /\ call'[e].workspace = w
      BY <1>1, <1>2, <1>3, <2>1 DEF SessionsInv, SessionsTypeOK, w
    <3> QED
      BY <1>2, <2>1, <3>1 DEF SessionsInv, CallsAreOpenings
  <2>2. CASE e # c
    <3>1. call'[e] = call[e] /\ Active(e) /\ call[e].workspace \in Workspaces /\ call[e].workspace # w
      BY <1>1, <1>2, <2>2 DEF SessionsInv, OneCallEach, Call, w
    <3> QED
      BY <1>5, <3>1 DEF SessionsInv, CallsAreOpenings
  <2> QED
    BY <2>1, <2>2
<1>7. MemoryIsOfTheSession'
  <2> SUFFICES ASSUME NEW s \in Sessions, NEW v \in memory[s]
               PROVE  v \in answered /\ openedBy[v].session = s /\ (openedBy[v].mode = "worktree" => path'[v] \in disk')
    BY DEF AddWorktree, MemoryIsOfTheSession
  <2>1. v \in Workspaces /\ v # w
    BY <1>4 DEF SessionsInv, SessionsTypeOK
  <2> QED
    BY <1>5, <2>1 DEF SessionsInv, MemoryIsOfTheSession
<1>8. OwnersKeepSessions' /\ AnswersAreRemembered' /\ RowsAreOfTheOpeners'
  BY DEF SessionsInv, AddWorktree, OwnersKeepSessions, AnswersAreRemembered, RowsAreOfTheOpeners
<1> QED
  BY <1>2, <1>6, <1>7, <1>8 DEF Holds

\* The end of an open_workspace, in whichever action it is.
LEMMA RememberHolds ==
    ASSUME SessionsInv, NEW c \in Calls, Active(c), call[c].pc \in {"create", "save"}, Remember(c),
           UNCHANGED <<transport, openedBy, path, disk>>
    PROVE  OwnersKeepSessions' /\ CallsAreOpenings' /\ OneCallEach' /\ AnswersAreRemembered' /\ MemoryIsOfTheSession'
<1> DEFINE w == call[c].workspace
           s == call[c].session
<1>1. call[c] \in Call /\ w \in Workspaces /\ s \in Sessions
  <2>1. call[c] \in Call
    BY ActiveCall DEF SessionsInv, Active
  <2> QED
    BY <2>1 DEF Call
<1>2. /\ openedBy[w] # Nothing /\ openedBy[w].session = s /\ w \notin answered
      /\ openedBy[w].mode = "worktree" => path[w] \in disk
  BY DEF SessionsInv, CallsAreOpenings
<1>3. /\ memory' = [memory EXCEPT ![s] = @ \union {w}] /\ answered' = answered \union {w}
      /\ call' = [call EXCEPT ![c] = NotCalled]
  BY DEF Remember
<1>4. \A e \in Calls : Active(e)' => e # c /\ Active(e) /\ call'[e] = call[e] /\ call[e].workspace # w
  <2> SUFFICES ASSUME NEW e \in Calls, Active(e)' PROVE e # c /\ Active(e) /\ call'[e] = call[e] /\ call[e].workspace # w
    OBVIOUS
  <2>1. e # c
    BY <1>3, NotCalledIsIdle DEF SessionsInv, SessionsTypeOK, Active
  <2>2. call'[e] = call[e] /\ Active(e)
    BY <1>3, <2>1 DEF SessionsInv, SessionsTypeOK, Active
  <2> QED
    BY <2>1, <2>2 DEF SessionsInv, OneCallEach
<1>5. \A r \in Sessions : memory[r] \subseteq memory'[r] /\ \A v \in memory'[r] : v \in memory[r] \/ (v = w /\ r = s)
  BY <1>1, <1>3 DEF SessionsInv, SessionsTypeOK
<1>6. w \in memory'[s]
  BY <1>1, <1>3 DEF SessionsInv, SessionsTypeOK
<1> HIDE DEF w, s
<1>7. OwnersKeepSessions'
  BY DEF SessionsInv, OwnersKeepSessions
<1>8. CallsAreOpenings' /\ OneCallEach'
  <2>1. CallsAreOpenings'
    BY <1>3, <1>4 DEF SessionsInv, CallsAreOpenings
  <2>2. OneCallEach'
    BY <1>4 DEF SessionsInv, OneCallEach
  <2> QED
    BY <2>1, <2>2
<1>9. AnswersAreRemembered'
  <2> SUFFICES ASSUME NEW v \in answered'
               PROVE  /\ openedBy[v] # Nothing
                      /\ transport[openedBy[v].session] \in Identities => v \in memory'[openedBy[v].session]
    BY DEF AnswersAreRemembered
  <2>1. CASE v = w
    BY <1>2, <1>6, <2>1
  <2>2. CASE v \in answered
    <3>1. openedBy[v] # Nothing /\ openedBy[v].session \in Sessions
      BY <2>2 DEF SessionsInv, SessionsTypeOK, AnswersAreRemembered, Opening
    <3> QED
      BY <1>5, <2>2, <3>1 DEF SessionsInv, AnswersAreRemembered
  <2> QED
    BY <1>3, <2>1, <2>2
<1>10. MemoryIsOfTheSession'
  <2> SUFFICES ASSUME NEW r \in Sessions, NEW v \in memory'[r]
               PROVE  v \in answered' /\ openedBy[v].session = r /\ (openedBy[v].mode = "worktree" => path[v] \in disk)
    BY DEF MemoryIsOfTheSession
  <2>1. CASE v \in memory[r]
    BY <1>3, <2>1 DEF SessionsInv, MemoryIsOfTheSession
  <2>2. CASE v = w /\ r = s
    BY <1>2, <1>3, <2>2
  <2> QED
    BY <1>5, <2>1, <2>2
<1> QED
  BY <1>7, <1>8, <1>9, <1>10

LEMMA CreateRowHolds ==
    ASSUME SessionsInv, NEW c \in Calls, CreateRow(c)
    PROVE  Holds'
<1> DEFINE w == call[c].workspace
           new == [owner |-> call[c].owner, session |-> call[c].session, usedAt |-> time]
<1>1. Active(c) /\ call[c] \in Call /\ w \in Workspaces
  <2>1. call[c] \in Call
    BY ActiveCall DEF SessionsInv, CreateRow
  <2> QED
    BY <2>1 DEF Call, Active, CreateRow
<1>2. openedBy[w] # Nothing /\ openedBy[w].owner = call[c].owner /\ openedBy[w].session = call[c].session
  BY <1>1 DEF SessionsInv, CallsAreOpenings
<1>3. sessionRow' = [sessionRow EXCEPT ![w] = new] /\ new.owner = call[c].owner /\ new.session = call[c].session
  BY DEF CreateRow
<1> HIDE DEF w, new
<1>4. RowsAreOfTheOpeners'
  <2> SUFFICES ASSUME NEW v \in Workspaces, sessionRow'[v] # Nothing
               PROVE  /\ openedBy[v] # Nothing
                      /\ sessionRow'[v].owner = openedBy[v].owner /\ sessionRow'[v].session = openedBy[v].session
    BY DEF RowsAreOfTheOpeners, CreateRow
  <2>1. CASE v = w
    <3>1. sessionRow'[v] = new
      BY <1>3, <2>1 DEF SessionsInv, SessionsTypeOK
    <3> QED
      BY <1>2, <1>3, <2>1, <3>1
  <2>2. CASE v # w
    <3>1. sessionRow'[v] = sessionRow[v]
      BY <1>3, <2>2 DEF SessionsInv, SessionsTypeOK
    <3> QED
      BY <3>1 DEF SessionsInv, RowsAreOfTheOpeners
  <2> QED
    BY <2>1, <2>2
<1>5. CASE rowStore = "sqlite"
  <2>1. OwnersKeepSessions' /\ CallsAreOpenings' /\ OneCallEach' /\ AnswersAreRemembered' /\ MemoryIsOfTheSession'
    BY <1>1, <1>5, RememberHolds DEF CreateRow
  <2> QED
    BY <1>4, <2>1 DEF Holds
<1>6. CASE rowStore # "sqlite"
  <2>1. call' = [call EXCEPT ![c].pc = "save"] /\ UNCHANGED <<memory, answered, transport, openedBy, path, disk>> /\ call[c].pc = "create"
    BY <1>6 DEF CreateRow
  <2>2. /\ \A e \in Calls : Active(e)' =>
                /\ Active(e) /\ call[e] \in Call
                /\ call'[e].workspace = call[e].workspace
                /\ call'[e].owner = call[e].owner /\ call'[e].session = call[e].session
                /\ (IF e = c THEN call'[e].pc = "save" /\ call' = [call EXCEPT ![c].pc = "save"] ELSE call'[e] = call[e])
        /\ OneCallEach'
    BY <1>1, <2>1, CallGoesOn
  <2>3. CallsAreOpenings'
    BY <2>1, <2>2 DEF SessionsInv, CallsAreOpenings
  <2>4. OwnersKeepSessions' /\ AnswersAreRemembered' /\ MemoryIsOfTheSession'
    BY <2>1 DEF SessionsInv, OwnersKeepSessions, AnswersAreRemembered, MemoryIsOfTheSession
  <2> QED
    BY <1>4, <2>2, <2>3, <2>4 DEF Holds
<1> QED
  BY <1>5, <1>6

LEMMA SaveFilesHolds ==
    ASSUME SessionsInv, NEW c \in Calls, SaveFiles(c)
    PROVE  Holds'
<1>1. OwnersKeepSessions' /\ CallsAreOpenings' /\ OneCallEach' /\ AnswersAreRemembered' /\ MemoryIsOfTheSession'
  BY RememberHolds DEF SaveFiles, Active
<1>2. RowsAreOfTheOpeners'
  BY DEF SessionsInv, RowsAreOfTheOpeners, SaveFiles
<1> QED
  BY <1>1, <1>2 DEF Holds

LEMMA StatementFailsHolds ==
    ASSUME SessionsInv, NEW c \in Calls, StatementFails(c)
    PROVE  Holds'
<1>1. \A e \in Calls : Active(e)' => Active(e) /\ call'[e] = call[e]
  BY NotCalledIsIdle DEF SessionsInv, SessionsTypeOK, StatementFails, Active
<1>2. CallsAreOpenings' /\ OneCallEach'
  BY <1>1 DEF SessionsInv, StatementFails, CallsAreOpenings, OneCallEach
<1>3. OwnersKeepSessions' /\ AnswersAreRemembered' /\ MemoryIsOfTheSession' /\ RowsAreOfTheOpeners'
  BY DEF SessionsInv, StatementFails, OwnersKeepSessions, AnswersAreRemembered, MemoryIsOfTheSession, RowsAreOfTheOpeners
<1> QED
  BY <1>2, <1>3 DEF Holds

\* A row that is touched stays its opener's.
LEMMA TouchedRows ==
    ASSUME SessionsInv, NEW w \in Workspaces, NEW at \in Times, UNCHANGED openedBy,
           \/ sessionRow' = sessionRow
           \/ sessionRow[w] # Nothing /\ sessionRow' = [sessionRow EXCEPT ![w].usedAt = at]
    PROVE  RowsAreOfTheOpeners'
<1>1. CASE sessionRow' = sessionRow
  BY <1>1 DEF SessionsInv, RowsAreOfTheOpeners
<1>2. CASE sessionRow[w] # Nothing /\ sessionRow' = [sessionRow EXCEPT ![w].usedAt = at]
  <2>1. sessionRow[w] \in Row
    BY <1>2 DEF SessionsInv, SessionsTypeOK
  <2>2. sessionRow'[w].owner = sessionRow[w].owner /\ sessionRow'[w].session = sessionRow[w].session
    BY <1>2, <2>1 DEF SessionsInv, SessionsTypeOK, Row
  <2>3. \A v \in Workspaces : v # w => sessionRow'[v] = sessionRow[v]
    BY <1>2 DEF SessionsInv, SessionsTypeOK
  <2> QED
    BY <1>2, <2>2, <2>3 DEF SessionsInv, RowsAreOfTheOpeners
<1> QED
  BY <1>1, <1>2

LEMMA UseHolds ==
    ASSUME SessionsInv, NEW o \in Identities, NEW s \in Sessions, NEW w \in Workspaces, Use(o, s, w)
    PROVE  Holds' /\ UsedWhereOpened'
<1>1. transport[s] = o /\ w \in answered /\ openedBy[w] # Nothing /\ openedBy[w] \in Opening
  BY DEF Use, MayEnter, SessionsInv, AnswersAreRemembered, SessionsTypeOK
<1>2. openedBy[w].session = s => w \in memory[s]
  BY <1>1 DEF SessionsInv, AnswersAreRemembered
<1>3. Known(w, o, s) => openedBy[w].session = s /\ w \in memory[s]
  BY <1>2 DEF Known, Matches, SessionsInv, MemoryIsOfTheSession, RowsAreOfTheOpeners
<1>4. openedBy[w].session = s => openedBy[w].owner = o
  BY <1>1, SessionsAssumption DEF SessionsInv, OwnersKeepSessions
<1>5. memory' = memory
  <2>1. CASE Known(w, o, s)
    <3>1. memory[s] \union {w} = memory[s]
      BY <1>3, <2>1
    <3>2. memory' = [memory EXCEPT ![s] = memory[s] \union {w}]
      BY <2>1 DEF Use
    <3> QED
      BY <3>1, <3>2 DEF SessionsInv, SessionsTypeOK
  <2>2. CASE ~Known(w, o, s)
    BY <2>2 DEF Use
  <2> QED
    BY <2>1, <2>2
<1>6. UNCHANGED <<transport, openedBy, path, disk, call, answered>>
  BY DEF Use
<1>7. RowsAreOfTheOpeners'
  <2>1. \/ sessionRow' = sessionRow
        \/ sessionRow[w] # Nothing /\ sessionRow' = [sessionRow EXCEPT ![w].usedAt = time]
    BY DEF Use, Touch
  <2>2. time \in Times
    BY DEF SessionsInv, SessionsTypeOK
  <2> QED
    BY <1>6, <2>1, <2>2, TouchedRows
<1>8. OwnersKeepSessions' /\ CallsAreOpenings' /\ OneCallEach' /\ AnswersAreRemembered' /\ MemoryIsOfTheSession'
  BY <1>5, <1>6 DEF SessionsInv, OwnersKeepSessions, CallsAreOpenings, OneCallEach, AnswersAreRemembered, MemoryIsOfTheSession, Active
<1>9. UsedWhereOpened'
  <2>1. /\ used'.owner = o /\ used'.session = s /\ used'.workspace = w
        /\ used'.answer = IF Known(w, o, s) THEN "ok" ELSE "unknown"
    BY DEF Use
  <2>2. openedBy[w].session = s => Known(w, o, s)
    BY <1>2 DEF Known
  <2>3. (used' # Nothing /\ used'.answer = "ok") =>
            (used'.owner = openedBy'[used'.workspace].owner /\ used'.session = openedBy'[used'.workspace].session)
    BY <1>3, <1>4, <1>6, <2>1
  <2>4. (used' # Nothing /\ used'.answer = "unknown") => used'.session # openedBy'[used'.workspace].session
    BY <1>6, <2>1, <2>2
  <2>5. \A r \in Sessions : \A v \in memory'[r] : openedBy'[v].mode = "worktree" => path'[v] \in disk'
    BY <1>8 DEF MemoryIsOfTheSession
  <2> QED
    BY <2>3, <2>4, <2>5 DEF UsedWhereOpened
<1> QED
  BY <1>7, <1>8, <1>9 DEF Holds

LEMMA RestartHolds ==
    ASSUME SessionsInv, ServerRestart
    PROVE  Holds'
<1>1. \A s \in Sessions : transport'[s] \in {"unused", "closed"} /\ (transport[s] # "unused" => transport'[s] = "closed")
  BY DEF SessionsInv, SessionsTypeOK, ServerRestart
<1>2. \A w \in Workspaces : openedBy[w] # Nothing => /\ openedBy[w].session \in Sessions
                                                     /\ openedBy[w].owner # "unused"
  BY SessionsAssumption DEF SessionsInv, SessionsTypeOK, Opening
<1>3. OwnersKeepSessions'
  <2> SUFFICES ASSUME NEW w \in Workspaces, openedBy[w] # Nothing PROVE transport'[openedBy[w].session] = "closed"
    BY DEF OwnersKeepSessions, ServerRestart
  <2>1. transport[openedBy[w].session] # "unused"
    BY <1>2 DEF SessionsInv, OwnersKeepSessions
  <2> QED
    BY <1>1, <1>2, <2>1
<1>4. AnswersAreRemembered'
  <2> SUFFICES ASSUME NEW w \in answered PROVE openedBy[w] # Nothing /\ transport'[openedBy[w].session] \notin Identities
    BY DEF AnswersAreRemembered, ServerRestart
  <2>1. w \in Workspaces /\ openedBy[w] # Nothing
    BY DEF SessionsInv, SessionsTypeOK, AnswersAreRemembered
  <2> QED
    BY <1>1, <1>2, <2>1, SessionsAssumption
<1>5. CallsAreOpenings' /\ OneCallEach' /\ MemoryIsOfTheSession'
  BY NotCalledIsIdle DEF ServerRestart, CallsAreOpenings, OneCallEach, MemoryIsOfTheSession, Active
<1>6. RowsAreOfTheOpeners'
  BY DEF SessionsInv, ServerRestart, RowsAreOfTheOpeners
<1> QED
  BY <1>3, <1>4, <1>5, <1>6 DEF Holds

LEMMA DeleteExpiredHolds ==
    ASSUME SessionsInv, DeleteExpired
    PROVE  Holds'
<1>1. \A w \in Workspaces : sessionRow'[w] \in {sessionRow[w], Nothing}
  BY DEF DeleteExpired
<1>2. RowsAreOfTheOpeners'
  BY <1>1 DEF DeleteExpired, SessionsInv, RowsAreOfTheOpeners
<1>3. OwnersKeepSessions' /\ CallsAreOpenings' /\ OneCallEach' /\ AnswersAreRemembered' /\ MemoryIsOfTheSession'
  BY DEF DeleteExpired, SessionsInv, OwnersKeepSessions, CallsAreOpenings, OneCallEach, AnswersAreRemembered, MemoryIsOfTheSession, Active
<1> QED
  BY <1>2, <1>3 DEF Holds

LEMMA NothingMoves ==
    ASSUME SessionsInv, UNCHANGED <<transport, memory, openedBy, sessionRow, path, disk, call, answered>>
    PROVE  Holds'
BY DEF Holds, SessionsInv, OwnersKeepSessions, CallsAreOpenings, OneCallEach, AnswersAreRemembered, MemoryIsOfTheSession,
       RowsAreOfTheOpeners, Active

LEMMA SessionsStep == ASSUME SessionsInv, [SessionsNext]_sessionsVars PROVE SessionsInv'
<1>1. SessionsTypeOK'
  BY SessionsTypeStep DEF SessionsInv
<1>2. (Holds /\ used = Nothing => UsedWhereOpened)'
  BY NothingUsed
<1>3. Holds' /\ UsedWhereOpened'
  <2>1. ASSUME NEW o \in Identities, NEW s \in Sessions, Initialize(o, s) PROVE Holds' /\ used' = Nothing
    BY <2>1, InitializeHolds DEF Initialize
  <2>2. ASSUME NEW s \in Sessions, Close(s) PROVE Holds' /\ used' = Nothing
    BY <2>2, CloseHolds DEF Close
  <2>3. ASSUME NEW c \in Calls, NEW o \in Identities, NEW s \in Sessions, NEW w \in Workspaces,
               NEW m \in {"checkout", "worktree"}, AskOpen(c, o, s, w, m)
        PROVE Holds' /\ used' = Nothing
    BY <2>3, AskOpenHolds DEF AskOpen
  <2>4. ASSUME NEW c \in Calls, NEW p \in Paths, AddWorktree(c, p) PROVE Holds' /\ used' = Nothing
    BY <2>4, AddWorktreeHolds DEF AddWorktree
  <2>5. ASSUME NEW c \in Calls, CreateRow(c) PROVE Holds' /\ used' = Nothing
    BY <2>5, CreateRowHolds DEF CreateRow
  <2>6. ASSUME NEW c \in Calls, SaveFiles(c) PROVE Holds' /\ used' = Nothing
    BY <2>6, SaveFilesHolds DEF SaveFiles
  <2>7. ASSUME NEW c \in Calls, StatementFails(c) PROVE Holds' /\ used' = Nothing
    BY <2>7, StatementFailsHolds DEF StatementFails
  <2>8. ASSUME NEW o \in Identities, NEW s \in Sessions, NEW w \in Workspaces, Use(o, s, w) PROVE Holds' /\ UsedWhereOpened'
    BY <2>8, UseHolds
  <2>9. ASSUME NEW t \in touches, TouchArrives(t) PROVE Holds' /\ used' = Nothing
    <3>1. t[1] \in Workspaces /\ t[2] \in Times
      BY DEF SessionsInv, SessionsTypeOK
    <3>2. RowsAreOfTheOpeners'
      BY <2>9, <3>1, TouchedRows DEF TouchArrives
    <3>3. OwnersKeepSessions' /\ CallsAreOpenings' /\ OneCallEach' /\ AnswersAreRemembered' /\ MemoryIsOfTheSession'
      BY <2>9 DEF TouchArrives, SessionsInv, OwnersKeepSessions, CallsAreOpenings, OneCallEach, AnswersAreRemembered, MemoryIsOfTheSession, Active
    <3> QED
      BY <2>9, <3>2, <3>3 DEF Holds, TouchArrives
  <2>10. CASE DeleteExpired
    BY <1>2, <2>10, DeleteExpiredHolds DEF DeleteExpired
  <2>11. CASE BeginCleanup \/ SessionsTick
    BY <1>2, <2>11, NothingMoves DEF BeginCleanup, SessionsTick
  <2>12. CASE ServerRestart
    BY <1>2, <2>12, RestartHolds DEF ServerRestart
  <2>13. CASE UNCHANGED sessionsVars
    <3>1. Holds'
      BY <2>13, NothingMoves DEF sessionsVars
    <3>2. UsedWhereOpened'
      BY <2>13 DEF sessionsVars, SessionsInv, UsedWhereOpened
    <3> QED
      BY <3>1, <3>2
  <2> QED
    BY <1>2, <2>1, <2>2, <2>3, <2>4, <2>5, <2>6, <2>7, <2>8, <2>9, <2>10, <2>11, <2>12, <2>13 DEF SessionsNext
<1> QED
  BY <1>1, <1>3 DEF SessionsInv, Holds

LEMMA SessionsInvAlways == SessionsSpec => []SessionsInv
<1>1. SessionsInit => SessionsInv
  BY SessionsBegin
<1>2. SessionsInv /\ [SessionsNext]_sessionsVars => SessionsInv'
  BY SessionsStep
<1> QED
  BY <1>1, <1>2, PTL DEF SessionsSpec

(***************************************************************************)
(* For any number of identities, sessions, workspaces and calls, and       *)
(* however often the server restarts, rows expire and worktrees fail:      *)
(* every variable is of its type (server.ts, workspaces.ts).               *)
(***************************************************************************)
THEOREM SessionsTypeCorrect == SessionsSpec => []SessionsTypeOK
<1>1. SessionsInv => SessionsTypeOK
  BY DEF SessionsInv
<1> QED
  BY <1>1, SessionsInvAlways, PTL

(***************************************************************************)
(* A tool runs only for the identity and in the session that opened its    *)
(* workspace, there it is never unknown, and the worktree of every         *)
(* workspace that a registry holds is on disk (getWorkspace,               *)
(* createManagedWorktree).                                                 *)
(***************************************************************************)
THEOREM WorkspacesAreUsedWhereOpened == SessionsSpec => []UsedWhereOpened
<1>1. SessionsInv => UsedWhereOpened
  BY DEF SessionsInv
<1> QED
  BY <1>1, SessionsInvAlways, PTL

-----------------------------------------------------------------------------
(***************************************************************************)
(* The device code login, for any codes, users, devices and requests: a    *)
(* token is issued for a code that somebody approved, and in memory, where *)
(* handlers do not overlap, every decision stands.                         *)
(***************************************************************************)

\* A request that asked to approve code c for this owner and device, and has
\* read the record of c.
Approver(q, c, owner, device) ==
    /\ request[q].step \in {"writing", "answered"}
    /\ request[q].code = c
    /\ request[q].ask.kind = "approve"
    /\ request[q].ask.owner = owner
    /\ device = TargetDevice(request[q].ask, request[q].seen)

\* A record of c, stored or held by a handler, is approved by somebody.
Approved(c, rec) ==
    rec.status = "approved" => rec.owner \in Owners /\ \E q \in Requests : Approver(q, c, rec.owner, rec.device)

AsksAreFresh ==
    \A q \in Requests : request[q].ask.kind = "create" =>
        /\ request[q].ask.code \in DeviceCodes /\ request[q].ask.userCode \in UserCodes
        /\ request[q].step # "answered" => row[request[q].ask.code] = Unset
        /\ \A p \in Requests : request[p].ask.kind = "create" /\ request[p].ask.code = request[q].ask.code => p = q

\* A record that a handler holds is of the code and the user code stored under it.
SeenIsStored(q) ==
    IF request[q].ask.kind = "create"
    THEN request[q].code = request[q].ask.code /\ request[q].seen.status = "pending"
    ELSE /\ row[request[q].code] # Unset
         /\ row[request[q].code].userCode = request[q].seen.userCode
         /\ row[request[q].code].expiresAt = request[q].seen.expiresAt

\* What a handler is about to answer fits what it read.
AnswerFits(q) ==
    /\ request[q].ask.kind = "create" => request[q].answer = "created"
    /\ request[q].ask.kind = "approve" =>
         request[q].answer = "approved" /\ request[q].seen.status = "pending" /\ request[q].ask.owner \in Owners
    /\ request[q].ask.kind = "deny" => request[q].answer = "denied"
    /\ request[q].ask.kind = "poll" =>
         request[q].answer \in {"token", "pending", "slow_down"} /\ request[q].code = request[q].ask.code
    /\ request[q].answer = "token" => request[q].seen.status = "approved" /\ request[q].at < request[q].seen.expiresAt

HandlerHolds(q) ==
    /\ request[q].at <= now
    /\ request[q].step = "begun" => ~NotSignedIn(request[q].ask)
    /\ request[q].step = "writing" =>
         /\ request[q].code \in DeviceCodes /\ request[q].seen \in Authorization
         /\ Approved(request[q].code, request[q].seen)
         /\ SeenIsStored(q) /\ AnswerFits(q)

HandlersHold == \A q \in Requests : HandlerHolds(q)

RowsHold == \A c \in Created : Approved(c, row[c])

UserCodesDiffer == \A c, e \in Created : row[c].userCode = row[e].userCode => c = e

TokensHold ==
    \A t \in tokens :
        /\ row[t.code] # Unset /\ t.expiresAt < row[t.code].expiresAt + TokenTtl
        /\ \E q \in Requests : Approver(q, t.code, t.owner, t.device)

SocketsHold ==
    \A c \in DeviceCodes : opened[c] # Unset => row[c] # Unset /\ opened[c] < row[c].expiresAt + TokenTtl

\* In memory one request at a time is between its read and its write.
Busy(q) == request[q].step \in {"begun", "writing"}

MemoryIsSerial ==
    store = "memory" =>
        /\ \A q, p \in Requests : Busy(q) /\ Busy(p) => q = p
        /\ \A q \in Requests :
             /\ Busy(q) => request[q].at = now
             /\ request[q].step = "writing" =>
                  IF request[q].ask.kind = "create" THEN ~Taken(request[q].seen.userCode)
                  ELSE row[request[q].code] = request[q].seen

LoginInv ==
    /\ LoginTypeOK /\ AsksAreFresh /\ HandlersHold /\ RowsHold /\ UserCodesDiffer
    /\ TokensHold /\ SocketsHold /\ MemoryIsSerial

-----------------------------------------------------------------------------
LEMMA LoginBegins == ASSUME LoginInit PROVE LoginInv
<1>1. PICK play \in Plays :
         /\ store = play.store
         /\ row = play.row
         /\ request = [q \in Requests |-> [step |-> "idle", ask |-> play.asks[q], at |-> 0,
                                           code |-> Unset, seen |-> Unset, answer |-> "none"]]
  BY DEF LoginInit
<1>2. play \in Play
  BY <1>1, LoginAssumption
<1>3. 0 \in LoginTime /\ now = 0 /\ tokens = {} /\ opened = [c \in DeviceCodes |-> Unset]
  BY LoginAssumption DEF LoginTime, LoginInit
<1>4. LoginTypeOK
  <2>1. \A q \in Requests : [step |-> "idle", ask |-> play.asks[q], at |-> 0,
                             code |-> Unset, seen |-> Unset, answer |-> "none"] \in Request
    BY <1>2, <1>3 DEF Play, Request
  <2>2. request \in [Requests -> Request]
    BY <1>1, <2>1
  <2>3. store \in {"memory", "postgres"} /\ row \in [DeviceCodes -> Authorization \union {Unset}]
    BY <1>1, <1>2 DEF Play
  <2> QED
    BY <1>3, <2>2, <2>3 DEF LoginTypeOK
<1>5. \A q \in Requests : request[q].step = "idle" /\ request[q].ask = play.asks[q] /\ request[q].at = 0
  BY <1>1
<1>6. AsksAreFresh
  BY <1>1, <1>5, LoginAssumption DEF AsksAreFresh
<1>7. HandlersHold
  BY <1>3, <1>5 DEF HandlersHold, HandlerHolds
<1>8. RowsHold /\ UserCodesDiffer
  BY <1>1, LoginAssumption DEF RowsHold, UserCodesDiffer, Approved, Created
<1>9. TokensHold /\ SocketsHold
  BY <1>3 DEF TokensHold, SocketsHold
<1>10. MemoryIsSerial
  BY <1>5 DEF MemoryIsSerial, Busy
<1> QED
  BY <1>4, <1>6, <1>7, <1>8, <1>9, <1>10 DEF LoginInv

-----------------------------------------------------------------------------
(* What the actions do to the request they are about.                      *)

Others(q) == \A p \in Requests : p # q => request'[p] = request[p]

LEMMA BeginDoes ==
    ASSUME LoginTypeOK, NEW q \in Requests, Begin(q)
    PROVE  /\ request' \in [Requests -> Request] /\ Others(q)
           /\ request[q].step = "idle" /\ request'[q].ask = request[q].ask /\ request'[q].at = now
           /\ request'[q].step \in {"begun", "answered"}
           /\ request'[q].step = "begun" => ~NotSignedIn(request[q].ask)
           /\ request'[q].answer \in {"none", "access_denied"}
<1> DEFINE step == IF NotSignedIn(request[q].ask) THEN "answered" ELSE "begun"
           answer == IF NotSignedIn(request[q].ask) THEN "access_denied" ELSE "none"
           new == [request[q] EXCEPT !.at = now, !.step = step, !.answer = answer]
<1>1. /\ step \in {"begun", "answered"} /\ (step = "begun" => ~NotSignedIn(request[q].ask))
      /\ answer \in {"none", "access_denied"}
  OBVIOUS
<1>2. request' = [request EXCEPT ![q] = new] /\ request[q].step = "idle"
  BY DEF Begin
<1>3. request[q] \in Request /\ now \in LoginTime
  BY DEF LoginTypeOK
<1> HIDE DEF step, answer
<1>4. /\ new \in Request /\ new.ask = request[q].ask /\ new.at = now /\ new.step = step /\ new.answer = answer
  BY <1>1, <1>3 DEF Request
<1> HIDE DEF new
<1>5. request' \in [Requests -> Request] /\ Others(q) /\ request'[q] = new
  BY <1>2, <1>4 DEF LoginTypeOK, Others
<1> QED
  BY <1>1, <1>2, <1>4, <1>5

LEMMA ReadForCreateDoes ==
    ASSUME LoginTypeOK, AsksAreFresh, NEW q \in Requests, ReadForCreate(q)
    PROVE  /\ request' \in [Requests -> Request] /\ Others(q)
           /\ request[q].step = "begun" /\ request[q].ask.kind = "create"
           /\ request'[q].ask = request[q].ask /\ request'[q].at = request[q].at
           /\ \/ request'[q].step = "answered" /\ request'[q].answer = "error"
              \/ /\ request'[q].step = "writing" /\ request'[q].answer = "created"
                 /\ request'[q].code = request[q].ask.code
                 /\ request'[q].seen \in Authorization /\ request'[q].seen.status = "pending"
                 /\ ~Taken(request'[q].seen.userCode)
<1>1. request[q] \in Request /\ request[q].step = "begun" /\ request[q].ask.kind = "create"
  BY DEF LoginTypeOK, ReadForCreate
<1>2. request[q].ask \in Ask /\ request[q].at \in LoginTime
  BY <1>1 DEF Request
<1>3. CASE DrawnUserCode(request[q].ask.userCode) = {}
             /\ request' = [request EXCEPT ![q].step = "answered", ![q].answer = "error"]
  <2> DEFINE new == [request[q] EXCEPT !.step = "answered", !.answer = "error"]
  <2>1. new \in Request /\ new.ask = request[q].ask /\ new.at = request[q].at /\ new.step = "answered" /\ new.answer = "error"
    BY <1>1 DEF Request
  <2>2. request' = [request EXCEPT ![q] = new]
    BY <1>3
  <2> HIDE DEF new
  <2>3. request' \in [Requests -> Request] /\ Others(q) /\ request'[q] = new
    BY <2>1, <2>2 DEF LoginTypeOK, Others
  <2> QED
    BY <1>1, <2>1, <2>3
<1>4. ASSUME NEW u \in DrawnUserCode(request[q].ask.userCode),
             request' = [request EXCEPT ![q].step = "writing", ![q].code = request[q].ask.code, ![q].answer = "created",
                  ![q].seen = [userCode |-> u, status |-> "pending", device |-> request[q].ask.device, owner |-> Unset,
                               expiresAt |-> request[q].at + AuthTtl, lastPolledAt |-> Unset]]
      PROVE  /\ request' \in [Requests -> Request] /\ Others(q)
             /\ request'[q].ask = request[q].ask /\ request'[q].at = request[q].at
             /\ request'[q].step = "writing" /\ request'[q].answer = "created"
             /\ request'[q].code = request[q].ask.code
             /\ request'[q].seen \in Authorization /\ request'[q].seen.status = "pending"
             /\ ~Taken(request'[q].seen.userCode)
  <2>1. u \in UserCodes /\ ~Taken(u)
    BY <1>1 DEF DrawnUserCode, AsksAreFresh
  <2> DEFINE made == [userCode |-> u, status |-> "pending", device |-> request[q].ask.device, owner |-> Unset,
                      expiresAt |-> request[q].at + AuthTtl, lastPolledAt |-> Unset]
  <2>2. request[q].at + AuthTtl \in 0 .. MaxLoginTime + AuthTtl
    BY <1>2, LoginAssumption DEF LoginTime
  <2>3. request[q].ask.device \in Devices \union {Unset} /\ request[q].ask.code \in DeviceCodes
    BY <1>1, <1>2 DEF Ask, AsksAreFresh
  <2>4. made \in Authorization /\ made.status = "pending" /\ made.userCode = u
    BY <2>1, <2>2, <2>3 DEF Authorization
  <2> DEFINE new == [request[q] EXCEPT !.step = "writing", !.code = request[q].ask.code, !.answer = "created", !.seen = made]
  <2>5. request' = [request EXCEPT ![q] = new]
    BY <1>4
  <2> HIDE DEF made
  <2>6. /\ new \in Request /\ new.ask = request[q].ask /\ new.at = request[q].at /\ new.step = "writing"
        /\ new.answer = "created" /\ new.code = request[q].ask.code /\ new.seen = made
    BY <1>1, <2>3, <2>4 DEF Request
  <2> HIDE DEF new
  <2>7. request' \in [Requests -> Request] /\ Others(q) /\ request'[q] = new
    BY <2>5, <2>6 DEF LoginTypeOK, Others
  <2> QED
    BY <2>1, <2>4, <2>6, <2>7
<1> QED
  BY <1>1, <1>3, <1>4 DEF ReadForCreate

\* What a verdict says of the record it is given on.
LEMMA VerdictIsSound ==
    ASSUME NEW ask \in Ask, ask.kind # "create", NEW seen \in Authorization, NEW at \in LoginTime
    PROVE  LET verdict == Verdict(ask, seen, at) IN
           /\ verdict \in {"expired", "access_denied", "approved", "denied", "token", "pending", "slow_down"}
           /\ ask.kind = "approve" => verdict \in {"expired", "access_denied", "approved"}
           /\ ask.kind = "deny" => verdict = "denied"
           /\ ask.kind = "poll" => verdict \in {"expired", "access_denied", "token", "pending", "slow_down"}
           /\ verdict = "approved" =>
                seen.status = "pending" \/ (seen.status = "approved" /\ SameApprovedTarget(ask, seen))
           /\ verdict = "token" => seen.status = "approved" /\ at < seen.expiresAt
           /\ verdict \in {"token", "pending"} => ~PolledTooSoon(seen, at)
<1>1. ask.kind \in {"approve", "deny", "poll"} /\ seen.status \in {"pending", "approved", "denied"}
  BY DEF Ask, Authorization
<1>2. at \in Int /\ seen.expiresAt \in Int
  BY LoginAssumption DEF Authorization, LoginTime
<1>3. ~CodeExpired(seen.expiresAt, at) <=> at < seen.expiresAt
  BY <1>2 DEF CodeExpired
<1>4. CASE ask.kind = "approve"
  <2>1. Verdict(ask, seen, at) = ApproveVerdict(ask, seen, at)
    BY <1>4 DEF Verdict
  <2>2. ApproveVerdict(ask, seen, at) =
            IF CodeExpired(seen.expiresAt, at) THEN "expired"
            ELSE IF seen.status = "denied" THEN "access_denied"
            ELSE IF seen.status = "approved" THEN (IF SameApprovedTarget(ask, seen) THEN "approved" ELSE "access_denied")
            ELSE "approved"
    BY DEF ApproveVerdict
  <2> QED
    BY <1>1, <1>4, <2>1, <2>2
<1>5. CASE ask.kind = "deny"
  BY <1>5 DEF Verdict
<1>6. CASE ask.kind = "poll"
  <2>1. Verdict(ask, seen, at) = PollVerdict(seen, at)
    BY <1>6 DEF Verdict
  <2>2. PollVerdict(seen, at) =
            IF CodeExpired(seen.expiresAt, at) THEN "expired"
            ELSE IF seen.status = "denied" THEN "access_denied"
            ELSE IF PolledTooSoon(seen, at) THEN "slow_down"
            ELSE IF seen.status = "approved" THEN "token" ELSE "pending"
    BY DEF PollVerdict
  <2> QED
    BY <1>3, <1>6, <2>1, <2>2
<1> QED
  BY <1>1, <1>4, <1>5, <1>6

LEMMA ReadDoes ==
    ASSUME LoginTypeOK, NEW q \in Requests, Read(q)
    PROVE  /\ request' \in [Requests -> Request] /\ Others(q)
           /\ request[q].step = "begun" /\ request[q].ask.kind # "create"
           /\ request'[q].ask = request[q].ask /\ request'[q].at = request[q].at
           /\ \/ request'[q].step = "answered" /\ request'[q].answer = "not_found"
              \/ /\ request'[q].code \in Created
                 /\ request'[q].seen = row[request'[q].code] /\ request'[q].seen \in Authorization
                 /\ request'[q].answer = Verdict(request[q].ask, request'[q].seen, request[q].at)
                 /\ request[q].ask.kind = "poll" => request'[q].code = request[q].ask.code
                 /\ request'[q].step =
                      IF \/ request'[q].answer \in {"expired", "access_denied"}
                         \/ request'[q].answer = "approved" /\ request'[q].seen.status = "approved"
                      THEN "answered" ELSE "writing"
<1>1. request[q] \in Request /\ request[q].step = "begun" /\ request[q].ask.kind # "create"
  BY DEF LoginTypeOK, Read
<1>2. request[q].ask \in Ask /\ request[q].at \in LoginTime
  BY <1>1 DEF Request
<1>3. CASE request' = [request EXCEPT ![q].step = "answered", ![q].answer = "not_found"]
  <2> DEFINE new == [request[q] EXCEPT !.step = "answered", !.answer = "not_found"]
  <2>1. new \in Request /\ new.ask = request[q].ask /\ new.at = request[q].at /\ new.step = "answered" /\ new.answer = "not_found"
    BY <1>1 DEF Request
  <2>2. request' = [request EXCEPT ![q] = new]
    BY <1>3
  <2> HIDE DEF new
  <2>3. request' \in [Requests -> Request] /\ Others(q) /\ request'[q] = new
    BY <2>1, <2>2 DEF LoginTypeOK, Others
  <2> QED
    BY <1>1, <2>1, <2>3
<1>4. ASSUME NEW c \in Created, request[q].ask.kind = "poll" => c = request[q].ask.code,
             LET verdict == Verdict(request[q].ask, row[c], request[q].at)
                 final == \/ verdict \in {"expired", "access_denied"}
                          \/ verdict = "approved" /\ row[c].status = "approved"
             IN request' = [request EXCEPT ![q].code = c, ![q].seen = row[c], ![q].answer = verdict,
                                           ![q].step = IF final THEN "answered" ELSE "writing"]
      PROVE  /\ request' \in [Requests -> Request] /\ Others(q)
             /\ request'[q].ask = request[q].ask /\ request'[q].at = request[q].at
             /\ request'[q].code \in Created
             /\ request'[q].seen = row[request'[q].code] /\ request'[q].seen \in Authorization
             /\ request'[q].answer = Verdict(request[q].ask, request'[q].seen, request[q].at)
             /\ request[q].ask.kind = "poll" => request'[q].code = request[q].ask.code
             /\ request'[q].step =
                  IF \/ request'[q].answer \in {"expired", "access_denied"}
                     \/ request'[q].answer = "approved" /\ request'[q].seen.status = "approved"
                  THEN "answered" ELSE "writing"
  <2> DEFINE verdict == Verdict(request[q].ask, row[c], request[q].at)
             step == IF \/ verdict \in {"expired", "access_denied"}
                        \/ verdict = "approved" /\ row[c].status = "approved" THEN "answered" ELSE "writing"
             new == [request[q] EXCEPT !.code = c, !.seen = row[c], !.answer = verdict, !.step = step]
  <2>1. c \in DeviceCodes /\ row[c] \in Authorization
    BY DEF Created, LoginTypeOK
  <2>2. verdict \in {"expired", "access_denied", "approved", "denied", "token", "pending", "slow_down"}
    BY <1>1, <1>2, <2>1, VerdictIsSound
  <2>3. step \in {"answered", "writing"}
    OBVIOUS
  <2>4. request' = [request EXCEPT ![q] = new]
    BY <1>4
  <2> HIDE DEF verdict
  <2>5. step = IF verdict \in {"expired", "access_denied"} \/ (verdict = "approved" /\ row[c].status = "approved")
               THEN "answered" ELSE "writing"
    OBVIOUS
  <2> HIDE DEF step
  <2>6. /\ new \in Request /\ new.ask = request[q].ask /\ new.at = request[q].at /\ new.step = step
        /\ new.answer = verdict /\ new.code = c /\ new.seen = row[c]
    BY <1>1, <2>1, <2>2, <2>3 DEF Request
  <2> HIDE DEF new
  <2>7. request' \in [Requests -> Request] /\ Others(q) /\ request'[q] = new
    BY <2>4, <2>6 DEF LoginTypeOK, Others
  <2> QED
    BY <1>4, <2>1, <2>5, <2>6, <2>7 DEF verdict
<1> QED
  BY <1>1, <1>3, <1>4 DEF Read

\* The record that is written is the one that was read, but for its status,
\* its owner and device, and the time of the last poll.
LEMMA WrittenIs ==
    ASSUME LoginTypeOK, NEW q \in Requests, request[q].seen \in Authorization,
           request[q].ask.kind = "approve" => request[q].ask.owner \in Owners
    PROVE  LET w == Written(q) IN
           /\ w \in Authorization
           /\ w.userCode = request[q].seen.userCode /\ w.expiresAt = request[q].seen.expiresAt
           /\ request[q].ask.kind = "create" => w = request[q].seen
           /\ request[q].ask.kind = "approve" =>
                w.status = "approved" /\ w.owner = request[q].ask.owner
                /\ w.device = TargetDevice(request[q].ask, request[q].seen)
           /\ request[q].ask.kind # "approve" => w.owner = request[q].seen.owner /\ w.device = request[q].seen.device
           /\ request[q].ask.kind = "deny" => w.status = "denied"
           /\ request[q].ask.kind \in {"create", "poll"} => w.status = request[q].seen.status
           /\ request[q].ask.kind = "poll" => w.lastPolledAt = request[q].at
           /\ request[q].ask.kind # "poll" => w.lastPolledAt = request[q].seen.lastPolledAt
<1>1. request[q] \in Request /\ request[q].ask \in Ask /\ request[q].at \in LoginTime
  BY DEF LoginTypeOK, Request
<1>2. request[q].ask.kind \in {"create", "approve", "deny", "poll"} /\ request[q].ask.device \in Devices \union {Unset}
  BY <1>1 DEF Ask
<1> DEFINE seen == request[q].seen
           device == TargetDevice(request[q].ask, seen)
<1>3. device \in Devices \union {Unset}
  BY <1>2 DEF TargetDevice, Authorization
<1> HIDE DEF device
<1>4. CASE request[q].ask.kind = "create"
  BY <1>4 DEF Written
<1>5. CASE request[q].ask.kind = "approve"
  <2>1. Written(q) = [seen EXCEPT !.status = "approved", !.owner = request[q].ask.owner, !.device = device]
    BY <1>5 DEF Written, device
  <2> QED
    BY <1>3, <1>5, <2>1 DEF Authorization, device
<1>6. CASE request[q].ask.kind = "deny"
  <2>1. Written(q) = [seen EXCEPT !.status = "denied"]
    BY <1>6 DEF Written
  <2> QED
    BY <1>6, <2>1 DEF Authorization
<1>7. CASE request[q].ask.kind = "poll"
  <2>1. Written(q) = [seen EXCEPT !.lastPolledAt = request[q].at]
    BY <1>7 DEF Written
  <2> QED
    BY <1>1, <1>7, <2>1 DEF Authorization
<1> QED
  BY <1>2, <1>4, <1>5, <1>6, <1>7

\* A write, whether or not its handler then fails: the record is stored or the
\* rows are as they were, and only a handler that does not fail gives a token.
LEMMA WriteDoes ==
    ASSUME LoginTypeOK, NEW q \in Requests, Write(q) \/ WriteFails(q)
    PROVE  /\ request' \in [Requests -> Request] /\ Others(q)
           /\ request[q].step = "writing" /\ request'[q].step = "answered"
           /\ request'[q].ask = request[q].ask /\ request'[q].at = request[q].at
           /\ request'[q].code = request[q].code /\ request'[q].seen = request[q].seen
           /\ request'[q].answer \in {request[q].answer, "error"}
           /\ store = "memory" => Write(q)
           /\ \/ row' = row /\ request'[q].answer = "error"
              \/ ~InsertConflicts(q) /\ row' = [row EXCEPT ![request[q].code] = Written(q)]
           /\ \/ tokens' = tokens
              \/ tokens' = tokens \union {IssuedToken(q)} /\ request[q].answer = "token"
           /\ UNCHANGED <<store, now, opened>>
<1>1. request[q] \in Request /\ request[q].step = "writing"
  BY DEF LoginTypeOK, Write, WriteFails
<1>2. CASE Write(q)
  <2> DEFINE new == [request[q] EXCEPT !.step = "answered"]
  <2>1. /\ new \in Request /\ new.step = "answered" /\ new.ask = request[q].ask /\ new.at = request[q].at
        /\ new.code = request[q].code /\ new.seen = request[q].seen /\ new.answer = request[q].answer
    BY <1>1 DEF Request
  <2>2. request' = [request EXCEPT ![q] = new]
    BY <1>2 DEF Write
  <2> HIDE DEF new
  <2>3. request' \in [Requests -> Request] /\ Others(q) /\ request'[q] = new
    BY <2>1, <2>2 DEF LoginTypeOK, Others
  <2>4. /\ ~InsertConflicts(q) /\ row' = [row EXCEPT ![request[q].code] = Written(q)]
        /\ tokens' = IF request[q].answer = "token" THEN tokens \union {IssuedToken(q)} ELSE tokens
        /\ UNCHANGED <<store, now, opened>>
    BY <1>2 DEF Write
  <2> QED
    BY <1>1, <1>2, <2>1, <2>3, <2>4
<1>3. CASE WriteFails(q)
  <2> DEFINE new == [request[q] EXCEPT !.step = "answered", !.answer = "error"]
  <2>1. /\ new \in Request /\ new.step = "answered" /\ new.ask = request[q].ask /\ new.at = request[q].at
        /\ new.code = request[q].code /\ new.seen = request[q].seen /\ new.answer = "error"
    BY <1>1 DEF Request
  <2>2. request' = [request EXCEPT ![q] = new]
    BY <1>3 DEF WriteFails
  <2> HIDE DEF new
  <2>3. request' \in [Requests -> Request] /\ Others(q) /\ request'[q] = new
    BY <2>1, <2>2 DEF LoginTypeOK, Others
  <2>4. /\ row' = row \/ (~InsertConflicts(q) /\ row' = [row EXCEPT ![request[q].code] = Written(q)])
        /\ store = "postgres" /\ UNCHANGED <<store, now, tokens, opened>>
    BY <1>3 DEF WriteFails
  <2> QED
    BY <1>1, <2>1, <2>3, <2>4
<1> QED
  BY <1>2, <1>3

-----------------------------------------------------------------------------
(* What no action takes back.                                              *)

\* A request asks what it asked, and once it has read it holds what it read.
Kept(p) ==
    /\ request'[p].ask = request[p].ask
    /\ request[p].step = "answered" => request'[p].step = "answered"
    /\ request[p].step \in {"writing", "answered"} =>
         /\ request'[p].step \in {"writing", "answered"}
         /\ request'[p].code = request[p].code /\ request'[p].seen = request[p].seen

RowsStay ==
    \A c \in DeviceCodes : row[c] # Unset =>
        row'[c] # Unset /\ row'[c].userCode = row[c].userCode /\ row'[c].expiresAt = row[c].expiresAt

\* Approver and Approved in the next state, of a record of this one.
ApproverNext(q, c, owner, device) ==
    /\ request'[q].step \in {"writing", "answered"}
    /\ request'[q].code = c
    /\ request'[q].ask.kind = "approve"
    /\ request'[q].ask.owner = owner
    /\ device = TargetDevice(request'[q].ask, request'[q].seen)

ApprovedNext(c, rec) ==
    rec.status = "approved" =>
        rec.owner \in Owners /\ \E q \in Requests : ApproverNext(q, c, rec.owner, rec.device)

LEMMA AllAreKept ==
    ASSUME NEW q \in Requests, Others(q), Kept(q)
    PROVE  \A p \in Requests : Kept(p)
BY DEF Others, Kept

LEMMA ApproverStays ==
    ASSUME NEW p \in Requests, Kept(p), NEW c, NEW owner, NEW device, Approver(p, c, owner, device)
    PROVE  ApproverNext(p, c, owner, device)
BY DEF Approver, ApproverNext, Kept, TargetDevice

LEMMA ApprovedStays ==
    ASSUME \A p \in Requests : Kept(p), NEW c, NEW rec, Approved(c, rec)
    PROVE  ApprovedNext(c, rec)
<1>1. SUFFICES ASSUME rec.status = "approved"
               PROVE  rec.owner \in Owners /\ \E q \in Requests : ApproverNext(q, c, rec.owner, rec.device)
  BY DEF ApprovedNext
<1>2. PICK q \in Requests : Approver(q, c, rec.owner, rec.device)
  BY <1>1 DEF Approved
<1>3. ApproverNext(q, c, rec.owner, rec.device)
  BY <1>2, ApproverStays
<1> QED
  BY <1>1, <1>3 DEF Approved

\* What holds of a handler holds until its own next step.
LEMMA OthersHold ==
    ASSUME LoginTypeOK, HandlersHold, \A p \in Requests : Kept(p), RowsStay, now' \in Int, now <= now',
           NEW p \in Requests, request'[p] = request[p]
    PROVE  HandlerHolds(p)'
<1>1. HandlerHolds(p) /\ request[p] \in Request /\ request[p].at \in Int /\ now \in Int
  BY LoginAssumption DEF HandlersHold, LoginTypeOK, Request, LoginTime
<1>2. request'[p].at <= now'
  BY <1>1 DEF HandlerHolds
<1>3. request'[p].step = "begun" => ~NotSignedIn(request'[p].ask)
  BY <1>1 DEF HandlerHolds
<1>4. ASSUME request'[p].step = "writing"
      PROVE  /\ request'[p].code \in DeviceCodes /\ request'[p].seen \in Authorization
             /\ ApprovedNext(request'[p].code, request'[p].seen)
             /\ SeenIsStored(p)' /\ AnswerFits(p)'
  <2>1. /\ request[p].code \in DeviceCodes /\ request[p].seen \in Authorization
        /\ Approved(request[p].code, request[p].seen) /\ SeenIsStored(p) /\ AnswerFits(p)
    BY <1>1, <1>4 DEF HandlerHolds
  <2>2. ApprovedNext(request[p].code, request[p].seen)
    BY <2>1, ApprovedStays
  <2>3. SeenIsStored(p)'
    BY <2>1 DEF SeenIsStored, RowsStay
  <2>4. AnswerFits(p)'
    BY <2>1 DEF AnswerFits
  <2> QED
    BY <2>1, <2>2, <2>3, <2>4
<1>5. ASSUME request'[p].step = "writing" PROVE Approved(request[p].code, request[p].seen)'
  BY <1>4, <1>5 DEF Approved, Approver, ApprovedNext, ApproverNext, TargetDevice
<1> QED
  BY <1>2, <1>3, <1>4, <1>5 DEF HandlerHolds

\* A record that no write touches is approved as before.
LEMMA UntouchedRowsHold ==
    ASSUME \A p \in Requests : Kept(p), UNCHANGED row, RowsHold
    PROVE  RowsHold'
<1>1. SUFFICES ASSUME NEW c \in Created PROVE Approved(c, row[c])'
  BY DEF RowsHold, Created
<1>2. ApprovedNext(c, row[c])
  BY ApprovedStays DEF RowsHold
<1> QED
  BY <1>2 DEF Approved, Approver, ApprovedNext, ApproverNext, TargetDevice

LEMMA TokensStay ==
    ASSUME LoginTypeOK, TokensHold, \A p \in Requests : Kept(p), RowsStay, NEW t \in tokens
    PROVE  /\ row'[t.code] # Unset /\ t.expiresAt < row'[t.code].expiresAt + TokenTtl
           /\ \E q \in Requests : ApproverNext(q, t.code, t.owner, t.device)
<1>1. t.code \in DeviceCodes
  BY DEF LoginTypeOK, Token
<1>2. PICK q \in Requests : Approver(q, t.code, t.owner, t.device)
  BY DEF TokensHold
<1>3. ApproverNext(q, t.code, t.owner, t.device)
  BY <1>2, ApproverStays
<1>4. row[t.code] # Unset /\ t.expiresAt < row[t.code].expiresAt + TokenTtl
  BY DEF TokensHold
<1> QED
  BY <1>1, <1>3, <1>4 DEF RowsStay

LEMMA SocketsStay ==
    ASSUME SocketsHold, RowsStay, UNCHANGED opened
    PROVE  SocketsHold'
BY DEF SocketsHold, RowsStay

-----------------------------------------------------------------------------
(* A step of a handler before its write.                                   *)

LEMMA HandlerStep ==
    ASSUME LoginInv, NEW q \in Requests, request' \in [Requests -> Request], Others(q), Kept(q),
           HandlerHolds(q)', UNCHANGED <<store, now, row, tokens, opened>>, MemoryIsSerial'
    PROVE  LoginInv'
<1>1. \A p \in Requests : Kept(p)
  BY AllAreKept
<1>2. RowsStay /\ UNCHANGED <<store, now, row, tokens, opened>>
  BY DEF RowsStay
<1>3. LoginTypeOK /\ AsksAreFresh /\ HandlersHold /\ RowsHold /\ UserCodesDiffer /\ TokensHold /\ SocketsHold
  BY DEF LoginInv
<1>4. LoginTypeOK'
  BY <1>3 DEF LoginTypeOK
<1>5. AsksAreFresh'
  <2>1. \A p \in Requests : request'[p].ask = request[p].ask /\ (request[p].step = "answered" => request'[p].step = "answered")
    BY <1>1 DEF Kept
  <2> QED
    BY <1>2, <1>3, <2>1 DEF AsksAreFresh
<1>6. HandlersHold'
  <2>1. now' \in Int /\ now <= now'
    BY <1>2, <1>3, LoginAssumption DEF LoginTypeOK, LoginTime
  <2>2. \A p \in Requests : p # q => HandlerHolds(p)'
    BY <1>1, <1>2, <1>3, <2>1, OthersHold DEF Others
  <2> QED
    BY <2>2 DEF HandlersHold
<1>7. RowsHold'
  BY <1>1, <1>2, <1>3, UntouchedRowsHold
<1>8. UserCodesDiffer'
  BY <1>2, <1>3 DEF UserCodesDiffer, Created
<1>9. TokensHold'
  BY <1>1, <1>2, <1>3, TokensStay DEF TokensHold, Approver, ApproverNext, TargetDevice
<1>10. SocketsHold'
  BY <1>2, <1>3, SocketsStay
<1> QED
  BY <1>4, <1>5, <1>6, <1>7, <1>8, <1>9, <1>10 DEF LoginInv

LEMMA BeginKeeps == ASSUME LoginInv, NEW q \in Requests, Begin(q) PROVE LoginInv'
<1>1. LoginTypeOK /\ MemoryIsSerial /\ now \in Int
  BY LoginAssumption DEF LoginInv, LoginTypeOK, LoginTime
<1>2. /\ request' \in [Requests -> Request] /\ Others(q)
      /\ request[q].step = "idle" /\ request'[q].ask = request[q].ask /\ request'[q].at = now
      /\ request'[q].step \in {"begun", "answered"}
      /\ request'[q].step = "begun" => ~NotSignedIn(request[q].ask)
  BY <1>1, BeginDoes
<1>3. Undisturbed /\ UNCHANGED <<store, now, row, tokens, opened>>
  BY DEF Begin
<1>4. Kept(q)
  BY <1>2 DEF Kept
<1>5. HandlerHolds(q)'
  BY <1>1, <1>2, <1>3 DEF HandlerHolds
<1>6. MemoryIsSerial'
  <2>1. SUFFICES ASSUME store = "memory" PROVE MemoryIsSerial'
    BY <1>3 DEF MemoryIsSerial
  <2>2. \A p \in Requests : p # q => ~Busy(p)' /\ request'[p].step # "writing"
    BY <1>2, <1>3, <2>1 DEF Undisturbed, Busy, Others
  <2> QED
    BY <1>2, <1>3, <2>2 DEF MemoryIsSerial, Busy
<1> QED
  BY <1>2, <1>3, <1>4, <1>5, <1>6, HandlerStep

LEMMA ReadForCreateKeeps == ASSUME LoginInv, NEW q \in Requests, ReadForCreate(q) PROVE LoginInv'
<1>1. LoginTypeOK /\ AsksAreFresh /\ HandlersHold /\ MemoryIsSerial
  BY DEF LoginInv
<1>2. /\ request' \in [Requests -> Request] /\ Others(q)
      /\ request[q].step = "begun" /\ request[q].ask.kind = "create"
      /\ request'[q].ask = request[q].ask /\ request'[q].at = request[q].at
      /\ \/ request'[q].step = "answered" /\ request'[q].answer = "error"
         \/ /\ request'[q].step = "writing" /\ request'[q].answer = "created"
            /\ request'[q].code = request[q].ask.code
            /\ request'[q].seen \in Authorization /\ request'[q].seen.status = "pending"
            /\ ~Taken(request'[q].seen.userCode)
  BY <1>1, ReadForCreateDoes
<1>3. UNCHANGED <<store, now, row, tokens, opened>>
  BY DEF ReadForCreate
<1>4. Kept(q)
  BY <1>2 DEF Kept
<1>5. request[q].at <= now /\ request[q].ask.code \in DeviceCodes
  BY <1>1, <1>2 DEF HandlersHold, HandlerHolds, AsksAreFresh
<1>6. ASSUME request'[q].step = "writing"
      PROVE  Approved(request[q].code, request[q].seen)' /\ SeenIsStored(q)' /\ AnswerFits(q)'
  BY <1>2, <1>6 DEF Approved, SeenIsStored, AnswerFits
<1>7. HandlerHolds(q)'
  BY <1>2, <1>3, <1>5, <1>6 DEF HandlerHolds
<1>8. MemoryIsSerial'
  <2>1. SUFFICES ASSUME store = "memory" PROVE MemoryIsSerial'
    BY <1>3 DEF MemoryIsSerial
  <2>2. Busy(q) /\ request[q].at = now /\ \A p \in Requests : Busy(p) => p = q
    BY <1>1, <1>2, <2>1 DEF MemoryIsSerial, Busy
  <2>3. \A p \in Requests : Busy(p)' => p = q
    BY <2>2, <1>2 DEF Busy, Others
  <2>4. request'[q].step = "writing" => request'[q].ask.kind = "create" /\ ~Taken(request'[q].seen.userCode)
    BY <1>2
  <2>5. request'[q].step = "writing" => request'[q].ask.kind = "create" /\ ~(Taken(request[q].seen.userCode)')
    BY <1>3, <2>4 DEF Taken, Created
  <2>6. \A p \in Requests : request'[p].step = "writing" => p = q
    BY <2>3 DEF Busy
  <2> QED
    BY <1>2, <1>3, <2>2, <2>3, <2>5, <2>6 DEF MemoryIsSerial
<1> QED
  BY <1>2, <1>3, <1>4, <1>7, <1>8, HandlerStep

LEMMA ReadKeeps == ASSUME LoginInv, NEW q \in Requests, Read(q) PROVE LoginInv'
<1>1. LoginTypeOK /\ AsksAreFresh /\ HandlersHold /\ MemoryIsSerial /\ RowsHold
  BY DEF LoginInv
<1>2. /\ request' \in [Requests -> Request] /\ Others(q)
      /\ request[q].step = "begun" /\ request[q].ask.kind # "create"
      /\ request'[q].ask = request[q].ask /\ request'[q].at = request[q].at
      /\ \/ request'[q].step = "answered" /\ request'[q].answer = "not_found"
         \/ /\ request'[q].code \in Created
            /\ request'[q].seen = row[request'[q].code] /\ request'[q].seen \in Authorization
            /\ request'[q].answer = Verdict(request[q].ask, request'[q].seen, request[q].at)
            /\ request[q].ask.kind = "poll" => request'[q].code = request[q].ask.code
            /\ request'[q].step =
                 IF \/ request'[q].answer \in {"expired", "access_denied"}
                    \/ request'[q].answer = "approved" /\ request'[q].seen.status = "approved"
                 THEN "answered" ELSE "writing"
  BY <1>1, ReadDoes
<1>3. UNCHANGED <<store, now, row, tokens, opened>>
  BY DEF Read
<1>4. request'[q].step \in {"answered", "writing"}
  BY <1>2
<1>5. Kept(q)
  BY <1>2, <1>4 DEF Kept
<1>6. /\ request[q].at <= now /\ ~NotSignedIn(request[q].ask)
      /\ request[q].ask \in Ask /\ request[q].at \in LoginTime
  BY <1>1, <1>2 DEF HandlersHold, HandlerHolds, LoginTypeOK, Request
<1>7. ASSUME request'[q].step = "writing"
      PROVE  /\ request'[q].code \in DeviceCodes /\ request'[q].seen \in Authorization
             /\ ApprovedNext(request'[q].code, request'[q].seen)
             /\ SeenIsStored(q)' /\ AnswerFits(q)' /\ request'[q].seen = row[request'[q].code]
  <2>1. /\ request'[q].code \in Created /\ request'[q].code \in DeviceCodes
        /\ request'[q].seen = row[request'[q].code] /\ request'[q].seen \in Authorization
        /\ request'[q].answer = Verdict(request[q].ask, request'[q].seen, request[q].at)
        /\ request[q].ask.kind = "poll" => request'[q].code = request[q].ask.code
        /\ request'[q].answer \notin {"expired", "access_denied"}
        /\ ~(request'[q].answer = "approved" /\ request'[q].seen.status = "approved")
    BY <1>2, <1>7 DEF Created
  <2>2. PICK c \in Created : c = request'[q].code
    BY <2>1
  <2>3. PICK rec \in Authorization : rec = request'[q].seen /\ rec = row[c]
    BY <2>1, <2>2
  <2>4. \A p \in Requests : Kept(p)
    BY <1>2, <1>5, AllAreKept
  <2>5. Approved(c, rec)
    BY <1>1, <2>3 DEF RowsHold
  <2>6. ApprovedNext(c, rec)
    BY <2>4, <2>5, ApprovedStays
  <2>7. SeenIsStored(q)'
    BY <1>2, <1>3, <2>1 DEF SeenIsStored, Created
  <2> DEFINE answer == Verdict(request[q].ask, rec, request[q].at)
  <2>8. request'[q].answer = answer
    BY <2>1, <2>3
  <2>9. /\ answer \in {"expired", "access_denied", "approved", "denied", "token", "pending", "slow_down"}
        /\ request[q].ask.kind = "approve" => answer \in {"expired", "access_denied", "approved"}
        /\ request[q].ask.kind = "deny" => answer = "denied"
        /\ request[q].ask.kind = "poll" => answer \in {"expired", "access_denied", "token", "pending", "slow_down"}
        /\ answer = "approved" =>
             rec.status = "pending" \/ (rec.status = "approved" /\ SameApprovedTarget(request[q].ask, rec))
        /\ answer = "token" => rec.status = "approved" /\ request[q].at < rec.expiresAt
    BY <1>2, <1>6, VerdictIsSound
  <2> HIDE DEF answer
  <2>10. request[q].ask.kind = "approve" => request[q].ask.owner \in Owners
    BY <1>6 DEF NotSignedIn, Ask
  <2>11. AnswerFits(q)'
    BY <1>2, <2>1, <2>3, <2>8, <2>9, <2>10 DEF AnswerFits
  <2> QED
    BY <2>1, <2>2, <2>3, <2>6, <2>7, <2>11
<1>8. ASSUME request'[q].step = "writing" PROVE Approved(request[q].code, request[q].seen)'
  BY <1>7, <1>8 DEF Approved, Approver, ApprovedNext, ApproverNext, TargetDevice
<1>9. request'[q].at <= now'
  BY <1>2, <1>3, <1>6
<1>10. HandlerHolds(q)'
  BY <1>4, <1>7, <1>8, <1>9 DEF HandlerHolds
<1>11. MemoryIsSerial'
  <2>1. SUFFICES ASSUME store = "memory" PROVE MemoryIsSerial'
    BY <1>3 DEF MemoryIsSerial
  <2>2. Busy(q) /\ request[q].at = now /\ \A p \in Requests : Busy(p) => p = q
    BY <1>1, <1>2, <2>1 DEF MemoryIsSerial, Busy
  <2>3. \A p \in Requests : Busy(p)' => p = q
    BY <2>2, <1>2 DEF Busy, Others
  <2>4. \A p \in Requests : request'[p].step = "writing" => p = q
    BY <2>3 DEF Busy
  <2> QED
    BY <1>2, <1>3, <1>7, <2>2, <2>3, <2>4 DEF MemoryIsSerial
<1> QED
  BY <1>2, <1>3, <1>5, <1>10, <1>11, HandlerStep

-----------------------------------------------------------------------------
(* The clock and the sockets.                                              *)

LEMMA LoginTickKeeps == ASSUME LoginInv, LoginTick PROVE LoginInv'
<1>1. /\ LoginTypeOK /\ AsksAreFresh /\ HandlersHold /\ RowsHold /\ UserCodesDiffer
      /\ TokensHold /\ SocketsHold /\ MemoryIsSerial
  BY DEF LoginInv
<1>2. /\ UNCHANGED <<store, row, request, tokens, opened>> /\ now' = now + 1 /\ now < MaxLoginTime
      /\ now \in LoginTime /\ Undisturbed
  BY <1>1 DEF LoginTick, LoginTypeOK
<1>3. now' \in LoginTime /\ now' \in Int /\ now <= now'
  BY <1>2, LoginAssumption DEF LoginTime
<1>4. (\A p \in Requests : Kept(p)) /\ RowsStay
  BY <1>2 DEF Kept, RowsStay
<1>5. LoginTypeOK'
  BY <1>1, <1>2, <1>3 DEF LoginTypeOK
<1>6. AsksAreFresh' /\ UserCodesDiffer'
  BY <1>1, <1>2 DEF AsksAreFresh, UserCodesDiffer, Created
<1>7. HandlersHold'
  BY <1>1, <1>2, <1>3, <1>4, OthersHold DEF HandlersHold
<1>8. RowsHold' /\ SocketsHold'
  BY <1>1, <1>2, <1>4, UntouchedRowsHold, SocketsStay
<1>9. TokensHold'
  BY <1>1, <1>2, <1>4, TokensStay DEF TokensHold, Approver, ApproverNext, TargetDevice
<1>10. MemoryIsSerial'
  BY <1>1, <1>2 DEF MemoryIsSerial, Undisturbed, Busy
<1> QED
  BY <1>5, <1>6, <1>7, <1>8, <1>9, <1>10 DEF LoginInv

LEMMA OpenSocketKeeps ==
    ASSUME LoginInv, NEW t \in tokens, NEW device \in Devices, OpenSocket(t, device)
    PROVE  LoginInv'
<1>1. /\ LoginTypeOK /\ AsksAreFresh /\ HandlersHold /\ RowsHold /\ UserCodesDiffer
      /\ TokensHold /\ SocketsHold /\ MemoryIsSerial
  BY DEF LoginInv
<1>2. /\ UNCHANGED <<store, now, row, request, tokens>> /\ opened' = [opened EXCEPT ![t.code] = now]
      /\ ~CodeExpired(t.expiresAt, now)
  BY DEF OpenSocket
<1>3. now \in LoginTime /\ now \in Int /\ t.code \in DeviceCodes /\ t.expiresAt \in Int
  BY <1>1, LoginAssumption DEF LoginTypeOK, Token, LoginTime
<1>4. (\A p \in Requests : Kept(p)) /\ RowsStay
  BY <1>2 DEF Kept, RowsStay
<1>5. opened' \in [DeviceCodes -> LoginTime \union {Unset}]
  BY <1>1, <1>2, <1>3 DEF LoginTypeOK
<1>6. LoginTypeOK'
  BY <1>1, <1>2, <1>5 DEF LoginTypeOK
<1>7. AsksAreFresh' /\ UserCodesDiffer'
  BY <1>1, <1>2 DEF AsksAreFresh, UserCodesDiffer, Created
<1>8. HandlersHold'
  <2>1. now' \in Int /\ now <= now' /\ \A p \in Requests : request'[p] = request[p]
    BY <1>2, <1>3
  <2> QED
    BY <1>1, <1>4, <2>1, OthersHold DEF HandlersHold
<1>9. RowsHold'
  BY <1>1, <1>2, <1>4, UntouchedRowsHold
<1>10. TokensHold'
  BY <1>1, <1>2, <1>4, TokensStay DEF TokensHold, Approver, ApproverNext, TargetDevice
<1>11. SocketsHold'
  <2>1. row[t.code] # Unset /\ t.expiresAt < row[t.code].expiresAt + TokenTtl /\ row[t.code] \in Authorization
    BY <1>1, <1>3 DEF TokensHold, LoginTypeOK
  <2>2. row[t.code].expiresAt + TokenTtl \in Int
    BY <2>1, LoginAssumption DEF Authorization
  <2>3. now < t.expiresAt
    BY <1>2, <1>3 DEF CodeExpired
  <2>4. now < row[t.code].expiresAt + TokenTtl
    BY <1>3, <2>1, <2>2, <2>3
  <2>5. \A c \in DeviceCodes : opened'[c] = IF c = t.code THEN now ELSE opened[c]
    BY <1>1, <1>2 DEF LoginTypeOK
  <2> QED
    BY <1>1, <1>2, <2>1, <2>4, <2>5 DEF SocketsHold
<1>12. MemoryIsSerial'
  BY <1>1, <1>2 DEF MemoryIsSerial, Busy, Taken, Created
<1> QED
  BY <1>6, <1>7, <1>8, <1>9, <1>10, <1>11, <1>12 DEF LoginInv

-----------------------------------------------------------------------------
(* The write, whether or not its handler then fails.                       *)

\* What is stored at the code of a handler that writes, before and after.
LEMMA WriteStores ==
    ASSUME LoginInv, NEW q \in Requests, Write(q) \/ WriteFails(q)
    PROVE  /\ request[q].code \in DeviceCodes /\ request[q].seen \in Authorization /\ Written(q) \in Authorization
           /\ Written(q).userCode = request[q].seen.userCode /\ Written(q).expiresAt = request[q].seen.expiresAt
           /\ IF request[q].ask.kind = "create"
              THEN /\ request[q].code = request[q].ask.code /\ row[request[q].code] = Unset
              ELSE /\ row[request[q].code] # Unset
                   /\ row[request[q].code].userCode = request[q].seen.userCode
                   /\ row[request[q].code].expiresAt = request[q].seen.expiresAt
           /\ \/ row' = row
              \/ /\ \A c \in DeviceCodes : row'[c] = IF c = request[q].code THEN Written(q) ELSE row[c]
                 /\ row' \in [DeviceCodes -> Authorization \union {Unset}]
                 /\ request[q].ask.kind = "create" => ~Taken(request[q].seen.userCode)
           /\ RowsStay
<1>1. LoginTypeOK /\ AsksAreFresh /\ HandlersHold /\ MemoryIsSerial
  BY DEF LoginInv
<1>2. /\ request[q].step = "writing" /\ (store = "memory" => Write(q))
      /\ \/ row' = row /\ request'[q].answer = "error"
         \/ ~InsertConflicts(q) /\ row' = [row EXCEPT ![request[q].code] = Written(q)]
  BY <1>1, WriteDoes
<1>3. /\ request[q].code \in DeviceCodes /\ request[q].seen \in Authorization
      /\ SeenIsStored(q) /\ AnswerFits(q)
  BY <1>1, <1>2 DEF HandlersHold, HandlerHolds
<1>4. request[q].ask.kind = "approve" => request[q].ask.owner \in Owners
  BY <1>3 DEF AnswerFits
<1>5. /\ Written(q) \in Authorization
      /\ Written(q).userCode = request[q].seen.userCode /\ Written(q).expiresAt = request[q].seen.expiresAt
  BY <1>1, <1>3, <1>4, WrittenIs
<1>6. IF request[q].ask.kind = "create"
      THEN /\ request[q].code = request[q].ask.code /\ row[request[q].code] = Unset
      ELSE /\ row[request[q].code] # Unset
           /\ row[request[q].code].userCode = request[q].seen.userCode
           /\ row[request[q].code].expiresAt = request[q].seen.expiresAt
  BY <1>1, <1>2, <1>3 DEF SeenIsStored, AsksAreFresh
<1>7. request[q].ask.kind = "create" /\ ~InsertConflicts(q) => ~Taken(request[q].seen.userCode)
  BY <1>1, <1>2 DEF InsertConflicts, MemoryIsSerial, LoginTypeOK
<1> DEFINE w == Written(q)
<1> HIDE DEF w
<1>8. \/ row' = row
      \/ /\ \A c \in DeviceCodes : row'[c] = IF c = request[q].code THEN w ELSE row[c]
         /\ row' \in [DeviceCodes -> Authorization \union {Unset}]
         /\ request[q].ask.kind = "create" => ~Taken(request[q].seen.userCode)
  <2>1. w \in Authorization
    BY <1>5 DEF w
  <2>2. row' = row \/ (~InsertConflicts(q) /\ row' = [row EXCEPT ![request[q].code] = w])
    BY <1>2 DEF w
  <2> QED
    BY <1>1, <1>3, <1>7, <2>1, <2>2 DEF LoginTypeOK
<1>9. RowsStay
  <2>1. /\ w.userCode = request[q].seen.userCode /\ w.expiresAt = request[q].seen.expiresAt
        /\ w \in Authorization
    BY <1>5 DEF w
  <2>2. w # Unset
    BY <2>1, LoginAssumption
  <2>3. row[request[q].code] # Unset =>
          row[request[q].code].userCode = w.userCode /\ row[request[q].code].expiresAt = w.expiresAt
    BY <1>6, <2>1
  <2> QED
    BY <1>8, <2>2, <2>3 DEF RowsStay
<1> QED
  BY <1>3, <1>5, <1>6, <1>8, <1>9 DEF w

LEMMA WriteKeepsRows ==
    ASSUME LoginInv, NEW q \in Requests, Write(q) \/ WriteFails(q)
    PROVE  (\A p \in Requests : Kept(p)) /\ AsksAreFresh' /\ RowsHold' /\ UserCodesDiffer'
<1>1. /\ LoginTypeOK /\ AsksAreFresh /\ HandlersHold /\ RowsHold /\ UserCodesDiffer
  BY DEF LoginInv
<1>2. /\ Others(q) /\ request[q].step = "writing" /\ request'[q].step = "answered"
      /\ request'[q].ask = request[q].ask
      /\ request'[q].code = request[q].code /\ request'[q].seen = request[q].seen
  BY <1>1, WriteDoes
<1>3. /\ request[q].code \in DeviceCodes /\ request[q].seen \in Authorization /\ Written(q) \in Authorization
      /\ Written(q).userCode = request[q].seen.userCode
      /\ IF request[q].ask.kind = "create"
         THEN /\ request[q].code = request[q].ask.code /\ row[request[q].code] = Unset
         ELSE /\ row[request[q].code] # Unset
              /\ row[request[q].code].userCode = request[q].seen.userCode
      /\ \/ row' = row
         \/ /\ \A c \in DeviceCodes : row'[c] = IF c = request[q].code THEN Written(q) ELSE row[c]
            /\ request[q].ask.kind = "create" => ~Taken(request[q].seen.userCode)
  BY WriteStores
<1>4. Kept(q)
  BY <1>2 DEF Kept
<1>5. \A p \in Requests : Kept(p)
  BY <1>2, <1>4, AllAreKept
<1>6. AsksAreFresh'
  <2>1. SUFFICES ASSUME NEW p \in Requests, request[p].ask.kind = "create"
                 PROVE  /\ request[p].ask.code \in DeviceCodes /\ request[p].ask.userCode \in UserCodes
                        /\ request'[p].step # "answered" => row'[request[p].ask.code] = Unset
                        /\ \A r \in Requests : request[r].ask.kind = "create" /\ request[r].ask.code = request[p].ask.code => r = p
    BY <1>5 DEF AsksAreFresh, Kept
  <2>2. /\ request[p].ask.code \in DeviceCodes /\ request[p].ask.userCode \in UserCodes
        /\ request[p].step # "answered" => row[request[p].ask.code] = Unset
        /\ \A r \in Requests : request[r].ask.kind = "create" /\ request[r].ask.code = request[p].ask.code => r = p
    BY <1>1, <2>1 DEF AsksAreFresh
  <2>3. ASSUME request'[p].step # "answered" PROVE row'[request[p].ask.code] = Unset
    <3>1. p # q /\ request[p].step # "answered" /\ row[request[p].ask.code] = Unset
      BY <1>2, <2>2, <2>3 DEF Others
    <3>2. request[p].ask.code # request[q].code
      BY <1>3, <2>2, <3>1
    <3> QED
      BY <1>3, <2>2, <3>1, <3>2
  <2> QED
    BY <2>2, <2>3
<1>7. ApprovedNext(request[q].code, Written(q))
  <2>1. /\ Approved(request[q].code, request[q].seen) /\ AnswerFits(q)
    BY <1>1, <1>2 DEF HandlersHold, HandlerHolds
  <2>2. request[q].ask.kind = "approve" => request[q].ask.owner \in Owners
    BY <2>1 DEF AnswerFits
  <2> DEFINE w == Written(q)
  <2>3. /\ request[q].ask.kind = "approve" =>
             w.owner = request[q].ask.owner /\ w.device = TargetDevice(request[q].ask, request[q].seen)
        /\ request[q].ask.kind # "approve" => w.owner = request[q].seen.owner /\ w.device = request[q].seen.device
        /\ request[q].ask.kind = "deny" => w.status = "denied"
        /\ request[q].ask.kind \in {"create", "poll"} => w.status = request[q].seen.status
    BY <1>1, <1>3, <2>2, WrittenIs
  <2> HIDE DEF w
  <2>4. request[q].ask.kind \in {"create", "approve", "deny", "poll"}
    BY <1>1 DEF LoginTypeOK, Request, Ask
  <2>5. ASSUME request[q].ask.kind = "approve" PROVE ApprovedNext(request[q].code, w)
    <3>1. ApproverNext(q, request[q].code, w.owner, w.device)
      BY <1>2, <2>3, <2>5 DEF ApproverNext, TargetDevice
    <3>2. w.owner \in Owners
      BY <2>2, <2>3, <2>5
    <3> QED
      BY <3>1, <3>2 DEF ApprovedNext
  <2>6. ASSUME request[q].ask.kind \in {"create", "poll"} PROVE ApprovedNext(request[q].code, w)
    <3>1. ApprovedNext(request[q].code, request[q].seen)
      BY <1>5, <2>1, ApprovedStays
    <3> QED
      BY <2>3, <2>6, <3>1 DEF ApprovedNext
  <2>7. ASSUME request[q].ask.kind = "deny" PROVE ApprovedNext(request[q].code, w)
    BY <2>3, <2>7 DEF ApprovedNext
  <2>8. ApprovedNext(request[q].code, w)
    BY <2>4, <2>5, <2>6, <2>7
  <2> QED
    BY <2>8 DEF w
<1>8. ASSUME NEW c \in Created' PROVE ApprovedNext(c, row'[c])
  <2>1. c \in DeviceCodes /\ row'[c] # Unset
    BY <1>8 DEF Created
  <2>2. CASE row'[c] = row[c]
    <3>1. Approved(c, row[c])
      BY <1>1, <2>1, <2>2 DEF RowsHold, Created
    <3>2. ApprovedNext(c, row[c])
      BY <1>5, <3>1, ApprovedStays
    <3> QED
      BY <2>2, <3>2
  <2>3. CASE c = request[q].code /\ row'[c] = Written(q)
    BY <1>7, <2>3
  <2> QED
    BY <1>3, <2>1, <2>2, <2>3
<1>9. RowsHold'
  BY <1>8 DEF RowsHold, Approved, Approver, ApprovedNext, ApproverNext, TargetDevice
<1>10. UserCodesDiffer'
  <2> DEFINE w == Written(q)
  <2>1. /\ w.userCode = request[q].seen.userCode
        /\ row' = row \/ (/\ \A c \in DeviceCodes : row'[c] = IF c = request[q].code THEN w ELSE row[c]
                          /\ request[q].ask.kind = "create" => ~Taken(request[q].seen.userCode))
    BY <1>3
  <2> HIDE DEF w
  <2>2. SUFFICES ASSUME NEW c \in DeviceCodes, NEW e \in DeviceCodes, row'[c] # Unset, row'[e] # Unset,
                        row'[c].userCode = row'[e].userCode
                 PROVE  c = e
    BY DEF UserCodesDiffer, Created
  <2>3. CASE row' = row
    BY <1>1, <2>2, <2>3 DEF UserCodesDiffer, Created
  <2>4. CASE /\ \A d \in DeviceCodes : row'[d] = IF d = request[q].code THEN w ELSE row[d]
             /\ request[q].ask.kind = "create" => ~Taken(request[q].seen.userCode)
    <3>1. CASE request[q].ask.kind = "create"
      BY <1>1, <2>1, <2>2, <2>4, <3>1 DEF UserCodesDiffer, Created, Taken
    <3>2. CASE request[q].ask.kind # "create"
      BY <1>1, <1>3, <2>1, <2>2, <2>4, <3>2 DEF UserCodesDiffer, Created
    <3> QED
      BY <3>1, <3>2
  <2> QED
    BY <2>1, <2>3, <2>4
<1> QED
  BY <1>5, <1>6, <1>9, <1>10

LEMMA WriteKeeps == ASSUME LoginInv, NEW q \in Requests, Write(q) \/ WriteFails(q) PROVE LoginInv'
<1>1. /\ LoginTypeOK /\ AsksAreFresh /\ HandlersHold /\ RowsHold /\ UserCodesDiffer
      /\ TokensHold /\ SocketsHold /\ MemoryIsSerial
  BY DEF LoginInv
<1>2. /\ request' \in [Requests -> Request] /\ Others(q)
      /\ request[q].step = "writing" /\ request'[q].step = "answered" /\ request'[q].at = request[q].at
      /\ \/ tokens' = tokens
         \/ tokens' = tokens \union {IssuedToken(q)} /\ request[q].answer = "token"
      /\ UNCHANGED <<store, now, opened>>
  BY <1>1, WriteDoes
<1>3. (\A p \in Requests : Kept(p)) /\ AsksAreFresh' /\ RowsHold' /\ UserCodesDiffer'
  BY WriteKeepsRows
<1>4. /\ request[q].code \in DeviceCodes /\ request[q].seen \in Authorization
      /\ request[q].ask.kind # "create" =>
           row[request[q].code] # Unset /\ row[request[q].code].expiresAt = request[q].seen.expiresAt
      /\ row' = row \/ row' \in [DeviceCodes -> Authorization \union {Unset}]
      /\ RowsStay
  BY WriteStores
<1>5. now \in LoginTime /\ now' \in Int /\ now <= now' /\ request[q].at \in LoginTime
  BY <1>1, <1>2, LoginAssumption DEF LoginTypeOK, LoginTime, Request
<1>6. HandlersHold'
  <2>1. \A p \in Requests : p # q => HandlerHolds(p)'
    BY <1>1, <1>2, <1>3, <1>4, <1>5, OthersHold DEF Others
  <2>2. request[q].at <= now
    BY <1>1 DEF HandlersHold, HandlerHolds
  <2>3. HandlerHolds(q)'
    BY <1>2, <2>2 DEF HandlerHolds
  <2> QED
    BY <2>1, <2>3 DEF HandlersHold
<1>7. ASSUME request[q].answer = "token"
      PROVE  /\ IssuedToken(q) \in Token
             /\ row'[IssuedToken(q).code] # Unset
             /\ IssuedToken(q).expiresAt < row'[IssuedToken(q).code].expiresAt + TokenTtl
             /\ \E p \in Requests : ApproverNext(p, IssuedToken(q).code, IssuedToken(q).owner, IssuedToken(q).device)
  <2>1. /\ Approved(request[q].code, request[q].seen) /\ AnswerFits(q)
    BY <1>1, <1>2 DEF HandlersHold, HandlerHolds
  <2>2. request[q].seen.status = "approved" /\ request[q].at < request[q].seen.expiresAt
    BY <1>7, <2>1 DEF AnswerFits
  <2>3. request[q].ask.kind # "create"
    BY <1>7, <2>1 DEF AnswerFits
  <2>4. ApprovedNext(request[q].code, request[q].seen)
    BY <1>3, <2>1, ApprovedStays
  <2>5. /\ request[q].seen.owner \in Owners
        /\ \E p \in Requests : ApproverNext(p, request[q].code, request[q].seen.owner, request[q].seen.device)
    BY <2>2, <2>4 DEF ApprovedNext
  <2>6. request[q].seen.device \in Devices \union {Unset} /\ request[q].seen.expiresAt \in Int
    BY <1>4 DEF Authorization
  <2>7. request[q].at + TokenTtl \in 0 .. MaxLoginTime + TokenTtl /\ request[q].at \in Int /\ TokenTtl \in Int
    BY <1>5, LoginAssumption DEF LoginTime
  <2>8. IssuedToken(q) \in Token
    BY <1>4, <2>5, <2>6, <2>7 DEF IssuedToken, Token
  <2>9. /\ IssuedToken(q).code = request[q].code /\ IssuedToken(q).owner = request[q].seen.owner
        /\ IssuedToken(q).device = request[q].seen.device /\ IssuedToken(q).expiresAt = request[q].at + TokenTtl
    BY DEF IssuedToken
  <2>10. row'[request[q].code] # Unset /\ row'[request[q].code].expiresAt = request[q].seen.expiresAt
    BY <1>4, <2>3 DEF RowsStay
  <2>11. request[q].at + TokenTtl < row'[request[q].code].expiresAt + TokenTtl
    BY <2>2, <2>6, <2>7, <2>10
  <2> QED
    BY <2>5, <2>8, <2>9, <2>10, <2>11
<1>8. LoginTypeOK'
  <2>1. tokens' \subseteq Token
    BY <1>1, <1>2, <1>7 DEF LoginTypeOK
  <2>2. row' \in [DeviceCodes -> Authorization \union {Unset}]
    BY <1>1, <1>4 DEF LoginTypeOK
  <2> QED
    BY <1>1, <1>2, <2>1, <2>2 DEF LoginTypeOK
<1>9. TokensHold'
  <2>1. SUFFICES ASSUME NEW t \in tokens'
                 PROVE  /\ row'[t.code] # Unset /\ t.expiresAt < row'[t.code].expiresAt + TokenTtl
                        /\ \E p \in Requests : ApproverNext(p, t.code, t.owner, t.device)
    BY DEF TokensHold, Approver, ApproverNext, TargetDevice
  <2>2. CASE t \in tokens
    BY <1>1, <1>3, <1>4, <2>2, TokensStay
  <2>3. CASE t = IssuedToken(q) /\ request[q].answer = "token"
    BY <1>7, <2>3
  <2> QED
    BY <1>2, <2>2, <2>3
<1>10. SocketsHold'
  BY <1>1, <1>2, <1>4, SocketsStay
<1>11. MemoryIsSerial'
  <2>1. SUFFICES ASSUME store = "memory" PROVE MemoryIsSerial'
    BY <1>2 DEF MemoryIsSerial
  <2>2. \A p \in Requests : Busy(p) => p = q
    BY <1>1, <1>2, <2>1 DEF MemoryIsSerial, Busy
  <2>3. \A p \in Requests : ~Busy(p)'
    BY <2>2, <1>2 DEF Busy, Others
  <2>4. \A p \in Requests : request'[p].step # "writing"
    BY <2>3 DEF Busy
  <2> QED
    BY <2>3, <2>4 DEF MemoryIsSerial
<1> QED
  BY <1>3, <1>6, <1>8, <1>9, <1>10, <1>11 DEF LoginInv

-----------------------------------------------------------------------------
LEMMA LoginStutters == ASSUME LoginInv, UNCHANGED loginVars PROVE LoginInv'
<1>1. UNCHANGED <<store, now, row, request, tokens, opened>>
  BY DEF loginVars
<1>2. LoginTypeOK' /\ AsksAreFresh' /\ UserCodesDiffer' /\ SocketsHold'
  BY <1>1 DEF LoginInv, LoginTypeOK, AsksAreFresh, UserCodesDiffer, Created, SocketsHold
<1>3. HandlersHold'
  BY <1>1 DEF LoginInv, HandlersHold, HandlerHolds, Approved, Approver, SeenIsStored, AnswerFits
<1>4. RowsHold' /\ TokensHold'
  BY <1>1 DEF LoginInv, RowsHold, TokensHold, Approved, Approver, Created
<1>5. MemoryIsSerial'
  BY <1>1 DEF LoginInv, MemoryIsSerial, Busy, Taken, Created
<1> QED
  BY <1>2, <1>3, <1>4, <1>5 DEF LoginInv

LEMMA LoginStep == ASSUME LoginInv, [LoginNext]_loginVars PROVE LoginInv'
BY LoginTickKeeps, BeginKeeps, ReadForCreateKeeps, ReadKeeps, WriteKeeps, OpenSocketKeeps, LoginStutters DEF LoginNext

LEMMA LoginInvAlways == LoginSpec => []LoginInv
<1>1. LoginInit => LoginInv
  BY LoginBegins
<1>2. LoginInv /\ [LoginNext]_loginVars => LoginInv'
  BY LoginStep
<1> QED
  BY <1>1, <1>2, PTL DEF LoginSpec

(* Every record of the login keeps its type.                               *)
THEOREM LoginTypeCorrect == LoginSpec => []LoginTypeOK
<1>1. LoginInv => LoginTypeOK
  BY DEF LoginInv
<1> QED
  BY <1>1, LoginInvAlways, PTL

(* Whatever the handlers overwrite, a desktop's token names an owner and a *)
(* device that somebody approved together for its code, it opens a socket  *)
(* for a bounded time only, and a user code names one authorization: for   *)
(* any number of codes, users, requests and gateways' clock steps.         *)
THEOREM TokensAreApproved == LoginSpec => []TokenWasApproved
<1>1. ASSUME LoginInv PROVE TokenWasApproved
  <2>1. TokensHold /\ SocketsHold /\ UserCodesDiffer
    BY <1>1 DEF LoginInv
  <2>2. ASSUME NEW t \in tokens
        PROVE  \E q \in Requests :
                 /\ request[q].code = t.code
                 /\ request[q].ask.kind = "approve"
                 /\ request[q].ask.owner = t.owner
                 /\ t.device = TargetDevice(request[q].ask, request[q].seen)
    BY <2>1 DEF TokensHold, Approver
  <2>3. \A c \in DeviceCodes : opened[c] # Unset => opened[c] < row[c].expiresAt + TokenTtl
    BY <2>1 DEF SocketsHold
  <2> QED
    BY <2>1, <2>2, <2>3 DEF TokenWasApproved, UserCodesDiffer
<1> QED
  BY <1>1, LoginInvAlways, PTL

-----------------------------------------------------------------------------
(* What holds besides with the store in memory.                            *)

\* Somebody asked to deny code c and has read its record.
Denier(p, c) ==
    request[p].step \in {"writing", "answered"} /\ request[p].code = c /\ request[p].ask.kind = "deny"

ApprovalStands(q) ==
    Answered(q, "approved") =>
        /\ request[q].ask.kind = "approve" /\ request[q].code \in DeviceCodes
        /\ row[request[q].code] # Unset /\ row[request[q].code].status # "pending"
        /\ row[request[q].code].owner = request[q].ask.owner
        /\ row[request[q].code].device = TargetDevice(request[q].ask, request[q].seen)

DenialStands(q) ==
    Answered(q, "denied") =>
        /\ request[q].ask.kind = "deny" /\ request[q].code \in DeviceCodes
        /\ row[request[q].code] # Unset /\ row[request[q].code].status = "denied"

DenialsAreAsked ==
    \A c \in Created : row[c].status = "denied" => \E p \in Requests : Denier(p, c)

Polled(p) == Answered(p, "token") \/ Answered(p, "pending") \/ Answered(p, "slow_down")

\* The record of a code remembers every poll that was answered.
PollIsRemembered(p) ==
    Polled(p) =>
        /\ request[p].ask.code \in DeviceCodes /\ row[request[p].ask.code] # Unset
        /\ row[request[p].ask.code].lastPolledAt \in LoginTime
        /\ request[p].at <= row[request[p].ask.code].lastPolledAt

\* A poll about to be answered with more than a request to slow down keeps its distance.
PollsKeepDistance ==
    \A q, p \in Requests :
        /\ request[q].step \in {"writing", "answered"} /\ request[q].answer \in {"token", "pending"}
        /\ Polled(p) /\ request[p].ask.code = request[q].ask.code /\ request[p].at < request[q].at
        => request[q].at - request[p].at >= Interval

MemoryHolds ==
    /\ \A q \in Requests : ApprovalStands(q) /\ DenialStands(q) /\ PollIsRemembered(q)
    /\ DenialsAreAsked /\ PollsKeepDistance

MemoryInv == store = "memory" => MemoryHolds

LEMMA DeniersStay ==
    ASSUME \A p \in Requests : Kept(p), UNCHANGED row, DenialsAreAsked
    PROVE  DenialsAreAsked'
BY DEF DenialsAreAsked, Denier, Kept, Created

\* A step of a handler before its write, when it is answered already or is to write.
LEMMA MemoryHandlerStep ==
    ASSUME MemoryHolds, NEW q \in Requests, Others(q), Kept(q), UNCHANGED row,
           ~Polled(q)', ApprovalStands(q)', DenialStands(q)',
           \A p \in Requests :
              /\ request'[q].step \in {"writing", "answered"} /\ request'[q].answer \in {"token", "pending"}
              /\ p # q /\ Polled(p) /\ request[p].ask.code = request'[q].ask.code /\ request[p].at < request'[q].at
              => request'[q].at - request[p].at >= Interval
    PROVE  MemoryHolds'
<1>1. \A p \in Requests : Kept(p)
  BY AllAreKept
<1>2. DenialsAreAsked'
  BY <1>1, DeniersStay DEF MemoryHolds
<1>3. ASSUME NEW p \in Requests PROVE ApprovalStands(p)' /\ DenialStands(p)' /\ PollIsRemembered(p)'
  <2>1. CASE p = q
    BY <2>1 DEF PollIsRemembered
  <2>2. CASE p # q
    <3>1. request'[p] = request[p] /\ ApprovalStands(p) /\ DenialStands(p) /\ PollIsRemembered(p)
      BY <2>2 DEF Others, MemoryHolds
    <3> QED
      BY <3>1 DEF ApprovalStands, DenialStands, PollIsRemembered, Polled, Answered, TargetDevice
  <2> QED
    BY <2>1, <2>2
<1>4. PollsKeepDistance'
  <2>1. SUFFICES ASSUME NEW r \in Requests, NEW p \in Requests,
                        request'[r].step \in {"writing", "answered"}, request'[r].answer \in {"token", "pending"},
                        Polled(p)', request'[p].ask.code = request'[r].ask.code, request'[p].at < request'[r].at
                 PROVE  request'[r].at - request'[p].at >= Interval
    BY DEF PollsKeepDistance
  <2>2. p # q /\ request'[p] = request[p] /\ Polled(p)
    BY <2>1 DEF Others, Polled, Answered
  <2>3. CASE r = q
    BY <2>1, <2>2, <2>3
  <2>4. CASE r # q
    <3>1. request'[r] = request[r]
      BY <2>4 DEF Others
    <3> QED
      BY <2>1, <2>2, <3>1 DEF MemoryHolds, PollsKeepDistance
  <2> QED
    BY <2>3, <2>4
<1> QED
  BY <1>2, <1>3, <1>4 DEF MemoryHolds

LEMMA MemoryBegin == ASSUME LoginInv, MemoryHolds, NEW q \in Requests, Begin(q) PROVE MemoryHolds'
<1>1. /\ Others(q) /\ request[q].step = "idle" /\ request'[q].ask = request[q].ask
      /\ request'[q].step \in {"begun", "answered"} /\ request'[q].answer \in {"none", "access_denied"}
  BY BeginDoes DEF LoginInv
<1>2. UNCHANGED row /\ Kept(q)
  BY <1>1 DEF Begin, Kept
<1>3. ~Polled(q)' /\ ApprovalStands(q)' /\ DenialStands(q)'
  BY <1>1 DEF Polled, ApprovalStands, DenialStands, Answered
<1> QED
  BY <1>1, <1>2, <1>3, MemoryHandlerStep

LEMMA MemoryReadForCreate ==
    ASSUME LoginInv, MemoryHolds, NEW q \in Requests, ReadForCreate(q) PROVE MemoryHolds'
<1>1. /\ Others(q) /\ request[q].step = "begun" /\ request'[q].ask = request[q].ask
      /\ request'[q].answer \in {"error", "created"}
  BY ReadForCreateDoes DEF LoginInv
<1>2. UNCHANGED row /\ Kept(q)
  BY <1>1 DEF ReadForCreate, Kept
<1>3. ~Polled(q)' /\ ApprovalStands(q)' /\ DenialStands(q)'
  BY <1>1 DEF Polled, ApprovalStands, DenialStands, Answered
<1> QED
  BY <1>1, <1>2, <1>3, MemoryHandlerStep

LEMMA MemoryRead == ASSUME LoginInv, MemoryHolds, NEW q \in Requests, Read(q) PROVE MemoryHolds'
<1>1. /\ Others(q) /\ request[q].step = "begun" /\ request[q].ask.kind # "create"
      /\ request'[q].ask = request[q].ask /\ request'[q].at = request[q].at
      /\ \/ request'[q].step = "answered" /\ request'[q].answer = "not_found"
         \/ /\ request'[q].code \in Created
            /\ request'[q].seen = row[request'[q].code] /\ request'[q].seen \in Authorization
            /\ request'[q].answer = Verdict(request[q].ask, request'[q].seen, request[q].at)
            /\ request[q].ask.kind = "poll" => request'[q].code = request[q].ask.code
            /\ request'[q].step =
                 IF \/ request'[q].answer \in {"expired", "access_denied"}
                    \/ request'[q].answer = "approved" /\ request'[q].seen.status = "approved"
                 THEN "answered" ELSE "writing"
  BY ReadDoes DEF LoginInv
<1>2. UNCHANGED row /\ Kept(q)
  BY <1>1 DEF Read, Kept
<1>3. request[q].ask \in Ask /\ request[q].at \in LoginTime
  BY DEF LoginInv, LoginTypeOK, Request
<1>4. CASE request'[q].step = "answered" /\ request'[q].answer = "not_found"
  <2>1. ~Polled(q)' /\ ApprovalStands(q)' /\ DenialStands(q)'
    BY <1>4 DEF Polled, ApprovalStands, DenialStands, Answered
  <2> QED
    BY <1>1, <1>2, <1>4, <2>1, MemoryHandlerStep
<1>5. CASE /\ request'[q].code \in Created
           /\ request'[q].seen = row[request'[q].code] /\ request'[q].seen \in Authorization
           /\ request'[q].answer = Verdict(request[q].ask, request'[q].seen, request[q].at)
           /\ request[q].ask.kind = "poll" => request'[q].code = request[q].ask.code
           /\ request'[q].step =
                IF \/ request'[q].answer \in {"expired", "access_denied"}
                   \/ request'[q].answer = "approved" /\ request'[q].seen.status = "approved"
                THEN "answered" ELSE "writing"
  <2>1. PICK rec \in Authorization : rec = request'[q].seen
    BY <1>5
  <2> DEFINE answer == Verdict(request[q].ask, rec, request[q].at)
  <2>2. /\ request[q].ask.kind = "approve" => answer \in {"expired", "access_denied", "approved"}
        /\ request[q].ask.kind = "deny" => answer = "denied"
        /\ request[q].ask.kind = "poll" => answer \in {"expired", "access_denied", "token", "pending", "slow_down"}
        /\ answer = "approved" =>
             rec.status = "pending" \/ (rec.status = "approved" /\ SameApprovedTarget(request[q].ask, rec))
        /\ answer \in {"token", "pending"} => ~PolledTooSoon(rec, request[q].at)
    BY <1>1, <1>3, VerdictIsSound
  <2>3. request'[q].answer = answer
    BY <1>5, <2>1
  <2> HIDE DEF answer
  <2>4. request[q].ask.kind \in {"approve", "deny", "poll"}
    BY <1>1, <1>3 DEF Ask
  <2>5. ~Polled(q)' /\ DenialStands(q)'
    BY <1>5, <2>2, <2>3, <2>4 DEF Polled, DenialStands, Answered
  <2>6. ApprovalStands(q)'
    BY <1>1, <1>2, <1>5, <2>1, <2>2, <2>3, <2>4 DEF ApprovalStands, Answered, SameApprovedTarget, TargetDevice, Created
  <2>7. ASSUME NEW p \in Requests, request'[q].answer \in {"token", "pending"},
               Polled(p), request[p].ask.code = request'[q].ask.code, request[p].at < request'[q].at
        PROVE  request'[q].at - request[p].at >= Interval
    <3>1. request[q].ask.kind = "poll" /\ ~PolledTooSoon(rec, request[q].at)
      BY <2>2, <2>3, <2>4, <2>7
    <3>2. /\ row[request[p].ask.code].lastPolledAt \in LoginTime
          /\ request[p].at <= row[request[p].ask.code].lastPolledAt
      BY <2>7 DEF MemoryHolds, PollIsRemembered
    <3>3. rec.lastPolledAt \in LoginTime /\ request[p].at <= rec.lastPolledAt /\ rec.lastPolledAt # Unset
      BY <1>1, <1>5, <2>1, <2>7, <3>1, <3>2, LoginAssumption
    <3>4. request[p].at \in Int /\ request[q].at \in Int /\ rec.lastPolledAt \in Int /\ Interval \in Int
      BY <1>3, <3>3, LoginAssumption DEF LoginTime, LoginInv, LoginTypeOK, Request
    <3> QED
      BY <1>1, <3>1, <3>3, <3>4 DEF PolledTooSoon
  <2> QED
    BY <1>1, <1>2, <2>5, <2>6, <2>7, MemoryHandlerStep
<1> QED
  BY <1>1, <1>4, <1>5

\* In memory a handler writes over the very record that it read.
LEMMA MemoryWriteIs ==
    ASSUME LoginInv, store = "memory", NEW q \in Requests, Write(q) \/ WriteFails(q)
    PROVE  /\ Write(q) /\ request[q].step = "writing" /\ request[q].at = now /\ request[q].code \in DeviceCodes
           /\ \A c \in DeviceCodes : row'[c] = IF c = request[q].code THEN Written(q) ELSE row[c]
           /\ request[q].ask.kind = "create" =>
                row[request[q].code] = Unset /\ Written(q).status = "pending" /\ request[q].answer = "created"
           /\ request[q].ask.kind # "create" => row[request[q].code] = request[q].seen /\ request[q].seen # Unset
           /\ request[q].ask.kind \in {"create", "approve", "deny", "poll"} /\ Written(q) # Unset
           /\ AnswerFits(q)
<1>1. LoginTypeOK /\ HandlersHold /\ MemoryIsSerial
  BY DEF LoginInv
<1>2. Write(q) /\ request[q].step = "writing" /\ row' = [row EXCEPT ![request[q].code] = Written(q)]
  BY <1>1, WriteDoes DEF Write
<1>3. /\ request[q].code \in DeviceCodes /\ request[q].seen \in Authorization /\ Written(q) \in Authorization
      /\ request[q].ask.kind = "create" => row[request[q].code] = Unset
  BY WriteStores
<1>4. SeenIsStored(q) /\ AnswerFits(q)
  BY <1>1, <1>2 DEF HandlersHold, HandlerHolds
<1>5. /\ request[q].at = now /\ (request[q].ask.kind # "create" => row[request[q].code] = request[q].seen)
  BY <1>1, <1>2 DEF MemoryIsSerial, Busy
<1>6. request[q].ask.kind = "create" => Written(q).status = "pending"
  BY <1>4 DEF SeenIsStored, Written
<1>7. request[q].ask.kind \in {"create", "approve", "deny", "poll"}
  BY <1>1 DEF LoginTypeOK, Request, Ask
<1>8. request[q].seen # Unset /\ Written(q) # Unset
  BY <1>3, LoginAssumption
<1>9. \A c \in DeviceCodes : row'[c] = IF c = request[q].code THEN Written(q) ELSE row[c]
  <2> DEFINE w == Written(q)
  <2>1. row' = [row EXCEPT ![request[q].code] = w]
    BY <1>2
  <2> HIDE DEF w
  <2>2. \A c \in DeviceCodes : row'[c] = IF c = request[q].code THEN w ELSE row[c]
    BY <1>1, <2>1 DEF LoginTypeOK
  <2> QED
    BY <2>2 DEF w
<1>10. request[q].ask.kind = "create" => request[q].answer = "created"
  BY <1>4 DEF AnswerFits
<1> QED
  BY <1>2, <1>3, <1>4, <1>5, <1>6, <1>7, <1>8, <1>9, <1>10

LEMMA MemoryWrite ==
    ASSUME LoginInv, MemoryHolds, store = "memory", NEW q \in Requests, Write(q) \/ WriteFails(q)
    PROVE  MemoryHolds'
<1> DEFINE w == Written(q)
           seen == request[q].seen
           kind == request[q].ask.kind
           code == request[q].code
<1>1. /\ Write(q) /\ request[q].step = "writing" /\ request[q].at = now /\ code \in DeviceCodes
      /\ \A c \in DeviceCodes : row'[c] = IF c = code THEN w ELSE row[c]
      /\ kind = "create" => row[code] = Unset /\ w.status = "pending" /\ request[q].answer = "created"
      /\ kind # "create" => row[code] = seen /\ seen # Unset
      /\ kind \in {"create", "approve", "deny", "poll"} /\ w # Unset
      /\ AnswerFits(q)
  BY MemoryWriteIs
<1>2. /\ Others(q) /\ request'[q].step = "answered"
      /\ request'[q].ask = request[q].ask /\ request'[q].at = request[q].at
      /\ request'[q].code = request[q].code /\ request'[q].seen = request[q].seen
  BY WriteDoes DEF LoginInv
<1>3. request'[q].answer = request[q].answer
  BY <1>1 DEF Write, LoginInv, LoginTypeOK, Request
<1>4. /\ kind = "approve" => request[q].answer = "approved" /\ seen.status = "pending"
      /\ kind = "deny" => request[q].answer = "denied"
      /\ kind = "poll" => request[q].answer \in {"token", "pending", "slow_down"} /\ code = request[q].ask.code
  BY <1>1 DEF AnswerFits
<1>5. /\ kind = "approve" =>
           w.status = "approved" /\ w.owner = request[q].ask.owner /\ w.device = TargetDevice(request[q].ask, seen)
      /\ kind # "approve" => w.owner = seen.owner /\ w.device = seen.device
      /\ kind = "deny" => w.status = "denied"
      /\ kind \in {"create", "poll"} => w.status = seen.status
      /\ kind = "poll" => w.lastPolledAt = request[q].at
      /\ kind # "poll" => w.lastPolledAt = seen.lastPolledAt
  <2>1. request[q].ask.kind = "approve" => request[q].ask.owner \in Owners
    BY <1>1 DEF AnswerFits
  <2>2. LoginTypeOK /\ request[q].seen \in Authorization
    BY WriteStores DEF LoginInv
  <2> QED
    BY <2>1, <2>2, WrittenIs
<1>6. \A p \in Requests : Kept(p)
  BY WriteKeepsRows
<1>7. \A p \in Requests : request[p].at <= now /\ request[p].at \in LoginTime /\ request[p].at \in Int /\ now \in Int
  BY LoginAssumption DEF LoginInv, HandlersHold, HandlerHolds, LoginTypeOK, Request, LoginTime
<1> HIDE DEF w
<1>8. ASSUME NEW p \in Requests PROVE ApprovalStands(p)'
  <2>1. CASE p = q
    BY <1>1, <1>2, <1>3, <1>4, <1>5, <2>1 DEF ApprovalStands, Answered, TargetDevice
  <2>2. CASE p # q
    <3>1. request'[p] = request[p] /\ ApprovalStands(p)
      BY <1>2, <2>2 DEF Others, MemoryHolds
    <3>2. SUFFICES ASSUME Answered(p, "approved") PROVE ApprovalStands(p)'
      BY <3>1 DEF ApprovalStands, Answered
    <3>3. /\ request[p].ask.kind = "approve" /\ request[p].code \in DeviceCodes
          /\ row[request[p].code] # Unset /\ row[request[p].code].status # "pending"
          /\ row[request[p].code].owner = request[p].ask.owner
          /\ row[request[p].code].device = TargetDevice(request[p].ask, request[p].seen)
      BY <3>1, <3>2 DEF ApprovalStands
    <3>4. CASE request[p].code # code
      BY <1>1, <3>1, <3>3, <3>4 DEF ApprovalStands, TargetDevice
    <3>5. CASE request[p].code = code
      <4>1. kind \in {"deny", "poll"} /\ row[code] = seen
        BY <1>1, <1>4, <3>3, <3>5
      <4>2. w.owner = seen.owner /\ w.device = seen.device /\ w.status # "pending" /\ row'[code] = w
        BY <1>1, <1>5, <3>3, <3>5, <4>1
      <4> QED
        BY <1>1, <3>1, <3>3, <3>5, <4>1, <4>2 DEF ApprovalStands, TargetDevice
    <3> QED
      BY <3>4, <3>5
  <2> QED
    BY <2>1, <2>2
<1>9. ASSUME NEW p \in Requests PROVE DenialStands(p)'
  <2>1. CASE p = q
    BY <1>1, <1>2, <1>3, <1>4, <1>5, <2>1 DEF DenialStands, Answered
  <2>2. CASE p # q
    <3>1. request'[p] = request[p] /\ DenialStands(p)
      BY <1>2, <2>2 DEF Others, MemoryHolds
    <3>2. SUFFICES ASSUME Answered(p, "denied") PROVE DenialStands(p)'
      BY <3>1 DEF DenialStands, Answered
    <3>3. /\ request[p].ask.kind = "deny" /\ request[p].code \in DeviceCodes
          /\ row[request[p].code] # Unset /\ row[request[p].code].status = "denied"
      BY <3>1, <3>2 DEF DenialStands
    <3>4. row'[request[p].code] # Unset /\ row'[request[p].code].status = "denied"
      BY <1>1, <1>4, <1>5, <3>3
    <3> QED
      BY <3>1, <3>3, <3>4 DEF DenialStands
  <2> QED
    BY <2>1, <2>2
<1>10. DenialsAreAsked'
  <2>1. SUFFICES ASSUME NEW c \in DeviceCodes, row'[c] # Unset, row'[c].status = "denied"
                 PROVE  (\E p \in Requests : Denier(p, c))'
    BY DEF DenialsAreAsked, Created
  <2>2. CASE row[c] # Unset /\ row[c].status = "denied"
    <3>1. PICK p \in Requests : Denier(p, c)
      BY <2>2 DEF MemoryHolds, DenialsAreAsked, Created
    <3>2. Denier(p, c)'
      BY <1>6, <3>1 DEF Denier, Kept
    <3> QED
      BY <3>2
  <2>3. CASE c = code /\ kind = "deny"
    BY <1>2, <2>3 DEF Denier
  <2> QED
    BY <1>1, <1>5, <2>1, <2>2, <2>3
<1>11. ASSUME NEW p \in Requests PROVE PollIsRemembered(p)'
  <2>1. CASE p = q
    BY <1>1, <1>2, <1>3, <1>4, <1>5, <1>7, <2>1 DEF PollIsRemembered, Polled, Answered
  <2>2. CASE p # q
    <3>1. request'[p] = request[p] /\ PollIsRemembered(p)
      BY <1>2, <2>2 DEF Others, MemoryHolds
    <3>2. SUFFICES ASSUME Polled(p) PROVE PollIsRemembered(p)'
      BY <3>1 DEF PollIsRemembered, Polled, Answered
    <3>3. /\ request[p].ask.code \in DeviceCodes /\ row[request[p].ask.code] # Unset
          /\ row[request[p].ask.code].lastPolledAt \in LoginTime
          /\ request[p].at <= row[request[p].ask.code].lastPolledAt
      BY <3>1, <3>2 DEF PollIsRemembered
    <3>4. row'[request[p].ask.code] # Unset
      BY <1>1, <3>3
    <3>5. /\ row'[request[p].ask.code].lastPolledAt \in LoginTime
          /\ request[p].at <= row'[request[p].ask.code].lastPolledAt
      <4>1. CASE request[p].ask.code # code
        BY <1>1, <3>3, <4>1
      <4>2. CASE request[p].ask.code = code
        BY <1>1, <1>5, <1>7, <3>3, <4>2
      <4> QED
        BY <4>1, <4>2
    <3> QED
      BY <3>1, <3>3, <3>4, <3>5 DEF PollIsRemembered
  <2> QED
    BY <2>1, <2>2
<1>12. PollsKeepDistance'
  <2>1. SUFFICES ASSUME NEW r \in Requests, NEW p \in Requests,
                        request'[r].step \in {"writing", "answered"}, request'[r].answer \in {"token", "pending"},
                        Polled(p)', request'[p].ask.code = request'[r].ask.code, request'[p].at < request'[r].at
                 PROVE  request'[r].at - request'[p].at >= Interval
    BY DEF PollsKeepDistance
  <2>2. /\ request[r].step \in {"writing", "answered"} /\ request[r].answer = request'[r].answer
        /\ request'[r].ask = request[r].ask /\ request'[r].at = request[r].at
        /\ request'[p].ask = request[p].ask /\ request'[p].at = request[p].at
    BY <1>1, <1>2, <1>3, <2>1 DEF Others
  <2>3. p # q
    BY <1>1, <1>7, <2>1, <2>2
  <2>4. Polled(p)
    BY <1>2, <2>1, <2>3 DEF Others, Polled, Answered
  <2> QED
    BY <2>1, <2>2, <2>4 DEF MemoryHolds, PollsKeepDistance
<1> QED
  BY <1>8, <1>9, <1>10, <1>11, <1>12 DEF MemoryHolds

LEMMA MemoryUntouched ==
    ASSUME MemoryHolds, UNCHANGED <<row, request>>
    PROVE  MemoryHolds'
BY DEF MemoryHolds, ApprovalStands, DenialStands, PollIsRemembered, DenialsAreAsked, PollsKeepDistance,
       Denier, Polled, Answered, Created, TargetDevice

LEMMA MemoryStep == ASSUME LoginInv, MemoryInv, [LoginNext]_loginVars PROVE MemoryInv'
<1>1. UNCHANGED store
  BY DEF LoginNext, loginVars, LoginTick, Begin, ReadForCreate, Read, Write, WriteFails, OpenSocket
<1>2. SUFFICES ASSUME store = "memory", MemoryHolds PROVE MemoryHolds'
  BY <1>1 DEF MemoryInv
<1>3. CASE LoginTick
  BY <1>2, <1>3, MemoryUntouched DEF LoginTick
<1>4. ASSUME NEW q \in Requests, Begin(q) \/ ReadForCreate(q) \/ Read(q) PROVE MemoryHolds'
  BY <1>2, <1>4, MemoryBegin, MemoryReadForCreate, MemoryRead
<1>5. ASSUME NEW q \in Requests, Write(q) \/ WriteFails(q) PROVE MemoryHolds'
  BY <1>2, <1>5, MemoryWrite
<1>6. ASSUME NEW t \in tokens, NEW device \in Devices, OpenSocket(t, device) PROVE MemoryHolds'
  BY <1>2, <1>6, MemoryUntouched DEF OpenSocket
<1>7. CASE UNCHANGED loginVars
  BY <1>2, <1>7, MemoryUntouched DEF loginVars
<1> QED
  BY <1>3, <1>4, <1>5, <1>6, <1>7 DEF LoginNext

LEMMA MemoryBegins == ASSUME LoginInit PROVE MemoryInv
<1>1. PICK play \in Plays :
         /\ row = play.row
         /\ request = [q \in Requests |-> [step |-> "idle", ask |-> play.asks[q], at |-> 0,
                                           code |-> Unset, seen |-> Unset, answer |-> "none"]]
  BY DEF LoginInit
<1>2. \A q \in Requests : request[q].step = "idle"
  BY <1>1
<1>3. \A c \in DeviceCodes : row[c] # Unset => row[c].status = "pending"
  BY <1>1, LoginAssumption
<1> QED
  BY <1>2, <1>3 DEF MemoryInv, MemoryHolds, ApprovalStands, DenialStands, PollIsRemembered, DenialsAreAsked,
                    PollsKeepDistance, Polled, Answered, Created

(* With the store in memory the handlers act one after the other: what the *)
(* user was told of a code stands, a code is approved for one owner and    *)
(* device, and polls that are let through keep the interval from every     *)
(* poll before them.                                                       *)
THEOREM DecisionsStandInMemory == LoginSpec => []MemoryActsInOrder
<1>1. LoginInit => MemoryInv
  BY MemoryBegins
<1>2. LoginInv /\ MemoryInv /\ [LoginNext]_loginVars => MemoryInv'
  BY MemoryStep
<1>3. ASSUME LoginInv, MemoryInv PROVE MemoryActsInOrder
  <2>1. SUFFICES ASSUME store = "memory", MemoryHolds
                 PROVE  /\ DecisionsStand
                        /\ \A q, p \in Requests :
                              /\ Answered(q, "approved") /\ Answered(p, "approved")
                              /\ request[q].code = request[p].code
                              => /\ request[q].ask.owner = request[p].ask.owner
                                 /\ TargetDevice(request[q].ask, request[q].seen) = TargetDevice(request[p].ask, request[p].seen)
                        /\ \A q, p \in Requests :
                              /\ Answered(q, "token") \/ Answered(q, "pending")
                              /\ Answered(p, "token") \/ Answered(p, "pending") \/ Answered(p, "slow_down")
                              /\ request[p].ask.code = request[q].ask.code
                              /\ request[p].at < request[q].at
                              => request[q].at - request[p].at >= Interval
    BY <1>3 DEF MemoryActsInOrder, MemoryInv
  <2>2. DecisionsStand
    <3>1. SUFFICES ASSUME NEW q \in Requests
                   PROVE  /\ Answered(q, "approved") =>
                               \/ row[request[q].code].status = "approved"
                               \/ \E p \in Requests :
                                    request[p].code = request[q].code /\ request[p].ask.kind = "deny"
                          /\ Answered(q, "denied") => row[request[q].code].status = "denied"
      BY DEF DecisionsStand
    <3>2. Answered(q, "denied") => row[request[q].code].status = "denied"
      BY <2>1 DEF MemoryHolds, DenialStands
    <3>3. ASSUME Answered(q, "approved"), row[request[q].code].status # "approved"
          PROVE  \E p \in Requests : request[p].code = request[q].code /\ request[p].ask.kind = "deny"
      <4>1. /\ request[q].code \in DeviceCodes /\ row[request[q].code] # Unset
            /\ row[request[q].code].status # "pending"
        BY <2>1, <3>3 DEF MemoryHolds, ApprovalStands
      <4>2. row[request[q].code] \in Authorization
        BY <1>3, <4>1 DEF LoginInv, LoginTypeOK
      <4>3. row[request[q].code].status = "denied"
        BY <3>3, <4>1, <4>2 DEF Authorization
      <4> QED
        BY <2>1, <4>1, <4>3 DEF MemoryHolds, DenialsAreAsked, Denier, Created
    <3> QED
      BY <3>2, <3>3
  <2>3. ASSUME NEW q \in Requests, NEW p \in Requests, Answered(q, "approved"), Answered(p, "approved"),
               request[q].code = request[p].code
        PROVE  /\ request[q].ask.owner = request[p].ask.owner
               /\ TargetDevice(request[q].ask, request[q].seen) = TargetDevice(request[p].ask, request[p].seen)
    BY <2>1, <2>3 DEF MemoryHolds, ApprovalStands
  <2>4. ASSUME NEW q \in Requests, NEW p \in Requests, Answered(q, "token") \/ Answered(q, "pending"),
               Answered(p, "token") \/ Answered(p, "pending") \/ Answered(p, "slow_down"),
               request[p].ask.code = request[q].ask.code, request[p].at < request[q].at
        PROVE  request[q].at - request[p].at >= Interval
    BY <2>1, <2>4 DEF MemoryHolds, PollsKeepDistance, Polled, Answered
  <2> QED
    BY <2>2, <2>3, <2>4
<1> QED
  BY <1>1, <1>2, <1>3, LoginInvAlways, PTL DEF LoginSpec
=============================================================================
