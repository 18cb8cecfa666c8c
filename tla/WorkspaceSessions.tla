------------------------- MODULE WorkspaceSessions -------------------------
(***************************************************************************)
(* The MCP server's sessions and the workspaces opened in them (server.ts, *)
(* workspaces.ts, the two workspace stores, git-worktrees.ts): the map of  *)
(* transports, a registry of workspaces in each session's memory, the rows *)
(* of workspace_sessions, their cleanup by age, and managed worktrees.     *)
(***************************************************************************)
EXTENDS Integers, FiniteSets

CONSTANTS
    Identities,      \* the identities requests come with
    Sessions,    \* MCP session ids, each drawn once (randomUUID)
    Workspaces,  \* workspace ids, each drawn once (randomUUID)
    Paths,       \* paths under the worktree root
    Calls,       \* calls of open_workspace that may be in progress at once
    Stores,      \* which of "sqlite" and "postgres" to check
    Ttl,         \* workspaceSessionTtlSeconds
    MaxSessionTime,     \* bound on the clock
    MaxTouches,  \* bound: touches under way
    Nothing

VARIABLES
    rowStore,   \* which of Stores keeps the rows
    time,
    transport,  \* the owner of each session in the server's map, "unused", or "closed"
    memory,     \* the workspaces each session's registry holds
    openedBy,   \* history: who opened each workspace, where and in which mode
    sessionRow, \* workspace_sessions
    path,       \* the worktree path drawn for each workspace
    disk,       \* the worktrees that exist
    touches,    \* updates of last_used_at under way, <<workspace, time>>
    cleanup,    \* the cutoff of the cleanup under way
    call,       \* calls of open_workspace
    used,       \* history: the step was a call of another tool, and its answer
    answered    \* history: the workspaces whose open_workspace has answered

sessionsVars == <<rowStore, time, transport, memory, openedBy, sessionRow, path, disk, touches, cleanup, call,
                  used, answered>>

Times == 0 .. MaxSessionTime
NotCalled == [pc |-> "idle"]
Opening == [owner : Identities, session : Sessions, mode : {"checkout", "worktree"}]
Row == [owner : Identities, session : Sessions, usedAt : Times]
Call == [pc : {"draw", "create", "save"}, owner : Identities, session : Sessions, workspace : Workspaces]
Answer == [owner : Identities, session : Sessions, workspace : Workspaces, answer : {"ok", "unknown"}]

\* "unused" and "closed" stand for sessions that are not in the map: they are
\* no identities.
ASSUME SessionsAssumption ==
    /\ {Ttl, MaxSessionTime} \subseteq Nat
    /\ Identities \intersect {"unused", "closed"} = {}
    /\ Stores \subseteq {"sqlite", "postgres"}
    /\ Nothing \notin Opening

SessionsTypeOK ==
    /\ rowStore \in {"sqlite", "postgres"} /\ time \in Times
    /\ transport \in [Sessions -> Identities \union {"unused", "closed"}]
    /\ memory \in [Sessions -> SUBSET Workspaces]
    /\ openedBy \in [Workspaces -> Opening \union {Nothing}]
    /\ sessionRow \in [Workspaces -> Row \union {Nothing}]
    /\ path \in [Workspaces -> Paths \union {Nothing}]
    /\ disk \subseteq Paths /\ answered \subseteq Workspaces
    /\ touches \subseteq Workspaces \X Times
    /\ cleanup \in -Ttl .. MaxSessionTime \union {Nothing}
    /\ call \in [Calls -> Call \union {NotCalled}]
    /\ used \in Answer \union {Nothing}

SessionsInit ==
    /\ rowStore \in Stores /\ time = 0
    /\ transport = [s \in Sessions |-> "unused"]
    /\ memory = [s \in Sessions |-> {}]
    /\ openedBy = [w \in Workspaces |-> Nothing] /\ sessionRow = [w \in Workspaces |-> Nothing]
    /\ path = [w \in Workspaces |-> Nothing] /\ disk = {}
    /\ touches = {} /\ cleanup = Nothing
    /\ call = [c \in Calls |-> NotCalled] /\ used = Nothing
    /\ answered = {}

-----------------------------------------------------------------------------
\* MCP sessions.

\* initialize: a transport with a registry of its own, for the request's owner.
Initialize(o, s) ==
    /\ transport[s] = "unused"
    /\ transport' = [transport EXCEPT ![s] = o]
    /\ used' = Nothing
    /\ UNCHANGED <<rowStore, time, memory, openedBy, sessionRow, path, disk, touches, cleanup, call, answered>>

\* transport.onclose.  What the session's calls have begun goes on.
Close(s) ==
    /\ transport[s] \in Identities
    /\ transport' = [transport EXCEPT ![s] = "closed"]
    /\ used' = Nothing
    /\ UNCHANGED <<rowStore, time, memory, openedBy, sessionRow, path, disk, touches, cleanup, call, answered>>

\* The session must be in the map (404) and the request's identity its own (401).
MayEnter(o, s) == transport[s] \in Identities /\ transport[s] = o

\* The server stops and starts: what was in memory is gone, rows and worktrees stay.
ServerRestart ==
    /\ transport' = [s \in Sessions |-> IF transport[s] \in Identities THEN "closed" ELSE transport[s]]
    /\ memory' = [s \in Sessions |-> {}]
    /\ touches' = {} /\ cleanup' = Nothing
    /\ call' = [c \in Calls |-> NotCalled]
    /\ used' = Nothing
    /\ UNCHANGED <<rowStore, time, openedBy, sessionRow, path, disk, answered>>

-----------------------------------------------------------------------------
\* open_workspace.

\* The workspace's id is drawn when the record is made; it is chosen here.
AskOpen(c, o, s, w, m) ==
    /\ call[c] = NotCalled /\ MayEnter(o, s)
    /\ openedBy[w] = Nothing
    /\ openedBy' = [openedBy EXCEPT ![w] = [owner |-> o, session |-> s, mode |-> m]]
    /\ call' = [call EXCEPT ![c] = [pc |-> IF m = "worktree" THEN "draw" ELSE "create",
                                    owner |-> o, session |-> s, workspace |-> w]]
    /\ used' = Nothing
    /\ UNCHANGED <<rowStore, time, transport, memory, sessionRow, path, disk, touches, cleanup, answered>>

\* managedWorktreePath draws four random bytes, and nothing looks whether the
\* path is taken: two equal draws are left out.
Drawn(w, p) == \A v \in Workspaces \ {w} : path[v] # p

\* createManagedWorktree: git worktree add, which refuses a path that exists;
\* when it fails the path is removed.
AddWorktree(c, p) ==
    LET w == call[c].workspace IN
    /\ call[c].pc = "draw" /\ path[w] = Nothing /\ Drawn(w, p)
    /\ path' = [path EXCEPT ![w] = p]
    /\ \/ p \notin disk /\ disk' = disk \union {p} /\ call' = [call EXCEPT ![c].pc = "create"]
       \/ disk' = disk \ {p} /\ call' = [call EXCEPT ![c] = NotCalled]
    /\ used' = Nothing
    /\ UNCHANGED <<rowStore, time, transport, memory, openedBy, sessionRow, touches, cleanup, answered>>

\* The registry's map, after the loaded files are saved; the answer has the id.
Remember(c) ==
    LET w == call[c].workspace IN
    /\ memory' = [memory EXCEPT ![call[c].session] = @ \union {w}]
    /\ answered' = answered \union {w}
    /\ call' = [call EXCEPT ![c] = NotCalled]

\* store.createSession.  SQLite's statements are synchronous, and the rest of
\* createWorkspaceContext follows at once.
CreateRow(c) ==
    /\ call[c].pc = "create"
    /\ sessionRow' = [sessionRow EXCEPT ![call[c].workspace] =
        [owner |-> call[c].owner, session |-> call[c].session, usedAt |-> time]]
    /\ IF rowStore = "sqlite" THEN Remember(c)
       ELSE call' = [call EXCEPT ![c].pc = "save"] /\ UNCHANGED <<memory, answered>>
    /\ used' = Nothing
    /\ UNCHANGED <<rowStore, time, transport, openedBy, path, disk, touches, cleanup>>

\* saveLoadedAgentFiles, whose statements affect nothing when the row is gone.
SaveFiles(c) ==
    /\ call[c].pc = "save"
    /\ Remember(c)
    /\ used' = Nothing
    /\ UNCHANGED <<rowStore, time, transport, openedBy, sessionRow, path, disk, touches, cleanup>>

\* A statement of Postgres fails: what was made so far stays, no id is answered.
StatementFails(c) ==
    /\ call[c].pc \in {"create", "save"} /\ rowStore = "postgres"
    /\ call' = [call EXCEPT ![c] = NotCalled]
    /\ used' = Nothing
    /\ UNCHANGED <<rowStore, time, transport, memory, openedBy, sessionRow, path, disk, touches, cleanup, answered>>

-----------------------------------------------------------------------------
\* Every other tool begins with getWorkspace.

\* ownerSessionFilter.
Matches(w, o, s) == sessionRow[w] # Nothing /\ sessionRow[w].owner = o /\ sessionRow[w].session = s

\* Mutant: the store is asked before the memory.
Known_Stored(w, o, s) == Matches(w, o, s)

\* In the registry's map, or restored from its row.
Known(w, o, s) == w \in memory[s] \/ Matches(w, o, s)

\* touchSession of a row that is there, which in SQLite is done before
\* getWorkspace returns and in Postgres is under way.
Touch(w) ==
    IF rowStore = "sqlite"
    THEN /\ sessionRow' = IF sessionRow[w] = Nothing THEN sessionRow ELSE [sessionRow EXCEPT ![w].usedAt = time]
         /\ touches' = touches
    ELSE sessionRow' = sessionRow /\ touches' = touches \union {<<w, time>>}

\* One step: the checks, the lookup and the tool.  Restored files, skills and
\* paths are read again and change no state here.  The id is one that an
\* open_workspace has answered with, to whomever.
Use(o, s, w) ==
    /\ MayEnter(o, s)
    /\ w \in answered /\ Cardinality(touches) < MaxTouches
    /\ IF Known(w, o, s)
       THEN /\ memory' = [memory EXCEPT ![s] = @ \union {w}]
            /\ Touch(w)
       ELSE UNCHANGED <<memory, sessionRow, touches>>
    /\ used' = [owner |-> o, session |-> s, workspace |-> w, answer |-> IF Known(w, o, s) THEN "ok" ELSE "unknown"]
    /\ UNCHANGED <<rowStore, time, transport, openedBy, path, disk, cleanup, call, answered>>

\* A touch of Postgres arrives, in any order, or is lost (its error is caught).
TouchArrives(t) ==
    /\ t \in touches
    /\ touches' = touches \ {t}
    /\ \/ sessionRow' = sessionRow
       \/ sessionRow[t[1]] # Nothing /\ sessionRow' = [sessionRow EXCEPT ![t[1]].usedAt = t[2]]
    /\ used' = Nothing
    /\ UNCHANGED <<rowStore, time, transport, memory, openedBy, path, disk, cleanup, call, answered>>

-----------------------------------------------------------------------------
\* startWorkspaceSessionCleanup: at the start and at intervals, never twice at once.

BeginCleanup ==
    /\ cleanup = Nothing
    /\ cleanup' = time - Ttl
    /\ used' = Nothing
    /\ UNCHANGED <<rowStore, time, transport, memory, openedBy, sessionRow, path, disk, touches, call, answered>>

Expired(w) == sessionRow[w] # Nothing /\ sessionRow[w].usedAt < cleanup

\* deleteExpiredSessions, in SQLite in the step that took the cutoff; or it fails.
\* The registries and the worktrees are left alone.
DeleteExpired ==
    /\ cleanup # Nothing
    /\ \/ sessionRow' = [w \in Workspaces |-> IF Expired(w) THEN Nothing ELSE sessionRow[w]]
       \/ rowStore = "postgres" /\ sessionRow' = sessionRow
    /\ cleanup' = Nothing
    /\ used' = Nothing
    /\ UNCHANGED <<rowStore, time, transport, memory, openedBy, path, disk, touches, call, answered>>

SessionsTick ==
    /\ time < MaxSessionTime /\ (rowStore = "sqlite" => cleanup = Nothing)
    /\ time' = time + 1
    /\ used' = Nothing
    /\ UNCHANGED <<rowStore, transport, memory, openedBy, sessionRow, path, disk, touches, cleanup, call, answered>>

SessionsNext ==
    \/ \E o \in Identities, s \in Sessions : Initialize(o, s)
    \/ \E s \in Sessions : Close(s)
    \/ \E c \in Calls :
        \/ \E o \in Identities, s \in Sessions, w \in Workspaces, m \in {"checkout", "worktree"} : AskOpen(c, o, s, w, m)
        \/ \E p \in Paths : AddWorktree(c, p)
        \/ CreateRow(c) \/ SaveFiles(c) \/ StatementFails(c)
    \/ \E o \in Identities, s \in Sessions, w \in Workspaces : Use(o, s, w)
    \/ \E t \in touches : TouchArrives(t)
    \/ BeginCleanup \/ DeleteExpired \/ SessionsTick \/ ServerRestart

SessionsSpec == SessionsInit /\ [][SessionsNext]_sessionsVars

-----------------------------------------------------------------------------
(***************************************************************************)
(* A tool runs in a workspace only for the identity and in the MCP session *)
(* that opened it, whatever was restored from the store and whoever sends  *)
(* the session's id; and so in the life of the server that opened it       *)
(* ("A workspaceId created in one MCP session is rejected as unknown in    *)
(* another MCP session", docs/xautojs-cloud-mcp-gateway.md).  There it     *)
(* does run: while its session lives, a workspace that open_workspace      *)
(* answered with is never unknown to it, although the cleanup may have     *)
(* deleted the row, and one in worktree mode has its directory on disk,    *)
(* however the creation of other worktrees fails and removes its path      *)
(* (workspaces.ts, getWorkspace; git-worktrees.ts, createManagedWorktree). *)
(***************************************************************************)
UsedWhereOpened ==
    /\ used # Nothing /\ used.answer = "ok" =>
          LET by == openedBy[used.workspace] IN used.owner = by.owner /\ used.session = by.session
    /\ used # Nothing /\ used.answer = "unknown" => used.session # openedBy[used.workspace].session
    /\ \A s \in Sessions : \A w \in memory[s] : openedBy[w].mode = "worktree" => path[w] \in disk
=============================================================================
