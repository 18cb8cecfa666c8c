------------------------------ MODULE MCAccess ------------------------------
(***************************************************************************)
(* What the servers let a client into, in one run: a behavior is one of    *)
(* the device code login, of the OAuth provider or of the MCP server's     *)
(* workspace sessions.  They share nothing, so the parts a behavior is not *)
(* about stay in one initial state.                                        *)
(***************************************************************************)
EXTENDS OAuthTokens, DeviceAuthorization, WorkspaceSessions, TLC

CONSTANTS
    Parts,      \* which of "login", "oauth" and "workspaces" to check
    c1, c2, u1, u2, o1, o2, d1, d2, k1, k2, k3, s1, s2, h1, h2, x, y, n1, n2

VARIABLE part

Asked(kind, code, userCode, owner, device) ==
    [kind |-> kind, code |-> code, userCode |-> userCode, owner |-> owner, device |-> device]
Create(c, d) == Asked("create", c, u1, Unset, d)
Approve(o, d) == Asked("approve", Unset, u1, o, d)
Deny(o) == Asked("deny", Unset, u1, o, Unset)
Poll == Asked("poll", c1, Unset, Unset, Unset)

\* The first code was made at time 0, for a device or for any.
Made(d) == (c1 :> [userCode |-> u1, status |-> "pending", device |-> d, owner |-> Unset,
                   expiresAt |-> 3, lastPolledAt |-> Unset]) @@ (c2 :> Unset)
NoneMade == [c \in {c1, c2} |-> Unset]

From(made, asks) == {[store |-> st, row |-> made, asks |-> asks] : st \in {"memory", "postgres"}}

\* Two users approve; two codes are made at once; a user that is not signed
\* in, and one that is; polls follow each other; a denial meets an approval
\* that names a device, or a poll; an approval meets polls.
AllPlays == UNION
    {From(Made(d1), <<Approve(o1, Unset), Approve(o2, d1), Poll>>),
     From(NoneMade, <<Create(c1, Unset), Create(c2, d1), Approve(o1, d1)>>),
     From(NoneMade, <<Create(c1, Unset), Approve(Unset, d1), Approve(o1, d2)>>),
     From(Made(Unset), <<Poll, Poll, Poll>>),
     From(Made(d2), <<Approve(o1, d1), Deny(o1), Approve(o1, d1)>>),
     From(Made(Unset), <<Approve(o1, Unset), Deny(o1), Poll>>),
     From(Made(d1), <<Approve(o1, Unset), Poll, Poll>>)}

ApprovedPlay == {[store |-> "postgres", row |-> Made(d1), asks |-> <<Approve(o1, Unset), Poll, Poll>>]}

OnePlay == [store |-> "memory", row |-> Made(Unset), asks |-> <<Poll, Poll, Poll>>]

\* Values are shared by parts that do not meet.
Symmetry == Permutations({h1, h2}) \union Permutations({x, y}) \union Permutations({n1, n2})

\* The part a behavior is not about.
LoginRests == store = OnePlay.store /\ \A q \in 1 .. 3 : request[q].ask = OnePlay.asks[q]
OAuthRests == mode = "memory"
WorkspacesRest == rowStore = "sqlite"

AccessInit ==
    /\ LoginInit /\ Init /\ SessionsInit
    /\ part \in Parts
    /\ part # "login" => LoginRests
    /\ part # "oauth" => OAuthRests
    /\ part # "workspaces" => WorkspacesRest

AccessNext ==
    /\ part' = part
    /\ \/ part = "login" /\ LoginNext /\ UNCHANGED <<vars, sessionsVars>>
       \/ part = "oauth" /\ Next /\ UNCHANGED <<loginVars, sessionsVars>>
       \/ part = "workspaces" /\ SessionsNext /\ UNCHANGED <<loginVars, vars>>

AccessSpec == AccessInit /\ [][AccessNext]_<<part, loginVars, vars, sessionsVars>>

(* Every variable of the part a behavior is about is of its type. *)
AccessTypeOK ==
    CASE part = "login" -> LoginTypeOK
      [] part = "oauth" -> TypeOK
      [] part = "workspaces" -> SessionsTypeOK
============================================================================
