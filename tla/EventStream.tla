---------------------------- MODULE EventStream ----------------------------
(***************************************************************************)
(* The log of one native agent run and its live replay: appendRunEvent and *)
(* readRunEvents (native-agent-store.ts), replayNativeAgentRun             *)
(* (native-agent-operator.ts), the stream route (native-agent-api.ts) and  *)
(* the desktop client that merges its messages (operator-client.ts).       *)
(* Heartbeats change nothing in the client and are left out.               *)
(***************************************************************************)
EXTENDS Integers, Sequences, FiniteSets

CONSTANTS
    Writers,      \* who appends: the dispatcher, the operator's requests
    Polls,        \* polls of one stream under way at once: two when a poll outlasts the interval
    PageSize,     \* maxEvents
    Cursors,      \* where clients connect: "start" (afterSeq=0), "next" (afterSeq=nextSeq - 1)
    MaxEvents,    \* bound on the log
    MaxLoads,     \* bound: replays the client loads
    MaxLost       \* bound: statements that fail and connections that are lost

VARIABLES
    log,       \* agent_run_events in the order of their commits: the seq of each
    writer,    \* the writers, and the seq each is about to insert
    finished,  \* the run's status is terminal
    atFinish,  \* history: events committed when it became so
    conn,      \* the client's request and the server's handler of it
    poll,      \* the polls of the connection's timer
    wire,      \* messages written and not yet read
    view,      \* the replay the client shows
    loads, lost

streamVars == <<log, writer, finished, atFinish, conn, poll, wire, view, loads, lost>>

Seqs == {log[i] : i \in DOMAIN log}
LastSeq == CHOOSE n \in Seqs \union {0} : \A s \in Seqs : s <= n
SeqType == 0 .. MaxEvents
EventSets == SUBSET (1 .. MaxEvents)
NoPoll == [pc |-> "idle", events |-> {}, terminal |-> FALSE]
NoConnection == [pc |-> "none", after |-> 0, cursor |-> 0, terminal |-> FALSE]

Messages == [kind : {"snapshot", "event", "end", "error"}, events : EventSets,
             nextSeq : 1 .. MaxEvents + 1, terminal : BOOLEAN]

StreamTypeOK ==
    /\ log \in Seq(1 .. MaxEvents)
    /\ writer \in [Writers -> [pc : {"idle", "insert", "finish", "done"}, seq : 1 .. MaxEvents, last : BOOLEAN]]
    /\ finished \in BOOLEAN /\ atFinish \in SeqType
    /\ conn \in [pc : {"none", "load", "loadEvents", "loaded", "open", "openEvents", "live", "ended"},
                 after : SeqType, cursor : SeqType, terminal : BOOLEAN]
    /\ poll \in [Polls -> [pc : {"idle", "page", "status", "send"}, events : EventSets, terminal : BOOLEAN,
                           from : SeqType] \union {NoPoll}]
    /\ wire \in Seq(Messages)
    /\ view \in [events : EventSets, base : SeqType, nextSeq : 1 .. MaxEvents + 1, terminal : BOOLEAN, over : BOOLEAN]
    /\ loads \in 0 .. MaxLoads /\ lost \in 0 .. MaxLost

\* A log has room for an event; the other bounds are counts.
ASSUME StreamAssumption == MaxEvents \in Nat \ {0} /\ {PageSize, MaxLoads, MaxLost} \subseteq Nat

StreamInit ==
    /\ log = <<>> /\ finished = FALSE /\ atFinish = 0
    /\ writer = [w \in Writers |-> [pc |-> "idle", seq |-> 1, last |-> FALSE]]
    /\ conn = NoConnection /\ poll = [p \in Polls |-> NoPoll] /\ wire = <<>>
    /\ view = [events |-> {}, base |-> 0, nextSeq |-> 1, terminal |-> FALSE, over |-> FALSE]
    /\ loads = 0 /\ lost = 0

-----------------------------------------------------------------------------
\* The log.

\* coalesce(max(seq) + 1, 1), in the snapshot of the statement.
NextSeq == LastSeq + 1

BeginAppend(w, last) ==
    /\ writer[w].pc = "idle" /\ Len(log) < MaxEvents /\ LastSeq < MaxEvents
    /\ writer' = [writer EXCEPT ![w] = [pc |-> "insert", seq |-> NextSeq, last |-> last]]
    /\ UNCHANGED <<log, finished, atFinish, conn, poll, wire, view, loads, lost>>

\* unique(agent_run_id, seq).
Taken(n) == n \in Seqs

\* The insert, which fails when another writer has committed the number.  The
\* last event of a writer is followed by finishAgentRun.
InsertEvent(w) ==
    /\ writer[w].pc = "insert"
    /\ IF Taken(writer[w].seq)
       THEN log' = log /\ writer' = [writer EXCEPT ![w].pc = "idle"]
       ELSE /\ log' = Append(log, writer[w].seq)
            /\ writer' = [writer EXCEPT ![w].pc = IF writer[w].last THEN "finish" ELSE "idle"]
    /\ UNCHANGED <<finished, atFinish, conn, poll, wire, view, loads, lost>>

\* finishAgentRun: the status is terminal, and stays so.
FinishRun(w) ==
    /\ writer[w].pc = "finish"
    /\ writer' = [writer EXCEPT ![w].pc = "done"]
    /\ finished' = TRUE
    /\ atFinish' = IF finished THEN atFinish ELSE Len(log)
    /\ UNCHANGED <<log, conn, poll, wire, view, loads, lost>>

-----------------------------------------------------------------------------
\* The client loads a replay: refresh of the App, or the fallback's poll of
\* /replay.  The stream it was reading is aborted first.
Load ==
    /\ loads < MaxLoads
    /\ conn.pc \in {"none", "loaded", "live", "ended"}
    /\ loads' = loads + 1
    /\ conn' = [NoConnection EXCEPT !.pc = "load"]
    /\ poll' = [p \in Polls |-> NoPoll] /\ wire' = <<>>
    /\ UNCHANGED <<log, writer, finished, atFinish, view, lost>>

\* Connects the stream: at the start, or where the replay it shows ends.
Connect(cursor) ==
    /\ conn.pc = IF cursor = "next" THEN "loaded" ELSE "none"
    /\ conn' = [NoConnection EXCEPT !.pc = "open", !.after = IF cursor = "next" THEN view.nextSeq - 1 ELSE 0]
    /\ UNCHANGED <<log, writer, finished, atFinish, poll, wire, view, loads, lost>>

\* replayNativeAgentRun reads the run, then its events.
ReadRun ==
    /\ conn.pc \in {"load", "open"}
    /\ conn' = [conn EXCEPT !.pc = IF conn.pc = "load" THEN "loadEvents" ELSE "openEvents", !.terminal = finished]
    /\ UNCHANGED <<log, writer, finished, atFinish, poll, wire, view, loads, lost>>

\* The replay is shown.
Loaded ==
    /\ conn.pc = "loadEvents"
    /\ view' = [events |-> Seqs, base |-> 0, nextSeq |-> LastSeq + 1, terminal |-> conn.terminal, over |-> FALSE]
    /\ conn' = [NoConnection EXCEPT !.pc = "loaded"]
    /\ UNCHANGED <<log, writer, finished, atFinish, poll, wire, loads, lost>>

Message(kind, events, nextSeq, terminal) ==
    [kind |-> kind, events |-> events, nextSeq |-> nextSeq, terminal |-> terminal]

\* Mutant: the first poll asks after nextSeq, not after nextSeq - 1.
FirstCursor_Skips(after) == IF LastSeq > after THEN LastSeq ELSE after + 1

FirstCursor(after) == IF LastSeq > after THEN LastSeq ELSE after

\* replay.snapshot; a stream of a finished run ends at once.
SendSnapshot ==
    LET snapshot == Message("snapshot", {s \in Seqs : s > conn.after}, LastSeq + 1, conn.terminal)
        end == Message("end", {}, LastSeq + 1, TRUE)
    IN /\ conn.pc = "openEvents"
       /\ wire' = IF conn.terminal THEN <<snapshot, end>> ELSE <<snapshot>>
       /\ conn' = [conn EXCEPT !.pc = IF conn.terminal THEN "ended" ELSE "live", !.cursor = FirstCursor(conn.after)]
    /\ UNCHANGED <<log, writer, finished, atFinish, poll, view, loads, lost>>

-----------------------------------------------------------------------------
\* The interval's polls.

\* Mutant: the cursor is taken for the next number.
Page_Skips(from) == {s \in Seqs : s > from + 1}

\* readRunEvents after the cursor.
Page(from) == {s \in Seqs : s > from /\ Cardinality({t \in Seqs : from < t /\ t <= s}) <= PageSize}

StartPoll(p) ==
    /\ conn.pc = "live" /\ poll[p] = NoPoll
    /\ poll' = [poll EXCEPT ![p] = [pc |-> "page", events |-> {}, terminal |-> FALSE, from |-> conn.cursor]]
    /\ UNCHANGED <<log, writer, finished, atFinish, conn, wire, view, loads, lost>>

\* Without a new event the poll is over: the status is not read.
ReadPage(p) ==
    LET page == Page(poll[p].from) IN
    /\ poll[p].pc = "page"
    /\ IF page = {}
       THEN poll' = [poll EXCEPT ![p] = NoPoll] /\ conn' = conn
       ELSE /\ poll' = [poll EXCEPT ![p].pc = "status", ![p].events = page]
            /\ conn' = [conn EXCEPT !.cursor = CHOOSE s \in page : \A t \in page : t <= s]
    /\ UNCHANGED <<log, writer, finished, atFinish, wire, view, loads, lost>>

ReadStatus(p) ==
    /\ poll[p].pc = "status"
    /\ poll' = [poll EXCEPT ![p].pc = "send", ![p].terminal = finished]
    /\ UNCHANGED <<log, writer, finished, atFinish, conn, wire, view, loads, lost>>

\* Mutant: a finished run ends the stream whatever is left to read.
Complete_Always(terminal) == terminal

Complete(terminal) == terminal /\ conn.cursor >= LastSeq

\* One message for each event, all with the cursor of the stream; then the end.
\* What is written after the end is lost.
SendPage(p) ==
    LET events == poll[p].events
        nth(i) == CHOOSE s \in events : Cardinality({t \in events : t <= s}) = i
        page == [i \in 1 .. Cardinality(events) |->
                    Message("event", {nth(i)}, conn.cursor + 1, poll[p].terminal)]
        end == Message("end", {}, LastSeq + 1, TRUE)
    IN /\ poll[p].pc = "send"
       /\ poll' = [poll EXCEPT ![p] = NoPoll]
       /\ IF conn.pc # "live" THEN UNCHANGED <<wire, conn>>
          ELSE IF Complete(poll[p].terminal)
          THEN wire' = wire \o page \o <<end>> /\ conn' = [conn EXCEPT !.pc = "ended"]
          ELSE wire' = wire \o page /\ conn' = conn
    /\ UNCHANGED <<log, writer, finished, atFinish, view, loads, lost>>

\* A statement of a poll fails: an error message, and the end.
PollFails(p) ==
    /\ poll[p].pc \in {"page", "status", "send"} /\ conn.pc = "live" /\ lost < MaxLost
    /\ wire' = Append(wire, Message("error", {}, 1, FALSE))
    /\ conn' = [conn EXCEPT !.pc = "ended"]
    /\ poll' = [poll EXCEPT ![p] = NoPoll]
    /\ lost' = lost + 1
    /\ UNCHANGED <<log, writer, finished, atFinish, view, loads>>

\* The connection is lost with what is on it, and the server's close handler
\* stops the timer.
Drop ==
    /\ conn.pc \in {"open", "openEvents", "live", "ended"} /\ lost < MaxLost
    /\ conn' = [NoConnection EXCEPT !.pc = "none"]
    /\ poll' = [p \in Polls |-> NoPoll] /\ wire' = <<>>
    /\ lost' = lost + 1
    /\ UNCHANGED <<log, writer, finished, atFinish, view, loads>>

-----------------------------------------------------------------------------
\* mergeReplayStreamMessage.
Merged(message) ==
    CASE message.kind = "snapshot" ->
            [events |-> message.events, base |-> conn.after, nextSeq |-> message.nextSeq,
             terminal |-> message.terminal, over |-> FALSE]
      [] message.kind = "event" ->
            [view EXCEPT !.events = @ \union message.events, !.nextSeq = message.nextSeq, !.terminal = message.terminal]
      [] message.kind = "end" ->
            [view EXCEPT !.nextSeq = message.nextSeq, !.terminal = TRUE, !.over = TRUE]
      [] OTHER -> view

Receive ==
    /\ wire # <<>>
    /\ view' = Merged(Head(wire)) /\ wire' = Tail(wire)
    /\ UNCHANGED <<log, writer, finished, atFinish, conn, poll, loads, lost>>

PollStep(p) == StartPoll(p) \/ ReadPage(p) \/ ReadStatus(p) \/ SendPage(p)

StreamNext ==
    \/ \E w \in Writers : (\E last \in BOOLEAN : BeginAppend(w, last)) \/ InsertEvent(w) \/ FinishRun(w)
    \/ Load \/ ReadRun \/ Loaded \/ SendSnapshot \/ Drop \/ Receive
    \/ \E cursor \in Cursors : Connect(cursor)
    \/ \E p \in Polls : PollStep(p) \/ PollFails(p)

StreamSpec == StreamInit /\ [][StreamNext]_streamVars

\* The interval fires, statements answer, the client reads.
FairStreamSpec ==
    /\ StreamSpec
    /\ WF_streamVars(\E p \in Polls : PollStep(p))
    /\ WF_streamVars(Receive)

-----------------------------------------------------------------------------
(***************************************************************************)
(* While polls do not overlap, a client sees the log of its run whole.     *)
(*  - The numbers of the log are the order of its commits, without a gap   *)
(*    and without a duplicate, however writers overlap: a reader that has  *)
(*    seen n never misses an event by asking for those after n             *)
(*    (native-agent-store, appendRunEvent and readRunEvents).              *)
(*  - The events a client shows are those after the cursor its stream      *)
(*    began at, in one piece: none is skipped between the snapshot and the *)
(*    polls, or between two polls.                                         *)
(*  - A stream that ended with run.terminal has delivered every event up   *)
(*    to the nextSeq it ends with, and every event that was committed when *)
(*    the run became terminal.                                             *)
(***************************************************************************)
ViewIsGapless ==
    /\ \A i \in DOMAIN log : log[i] = i
    /\ \E top \in view.base .. Len(log) : view.events = view.base + 1 .. top
    /\ view.over =>
          /\ view.terminal
          /\ view.events = view.base + 1 .. view.nextSeq - 1
          /\ atFinish < view.nextSeq

(***************************************************************************)
(* A client that stays connected comes to show every event of the log.     *)
(***************************************************************************)
EventsArrive == <>[](conn.pc = "live" => view.base + 1 .. Len(log) \subseteq view.events)

(***************************************************************************)
(* "Reconnect with afterSeq set to the last observed nextSeq - 1"          *)
(* (docs/local-operator-daemon.md) loses nothing: the client goes on       *)
(* showing every event before its nextSeq.                                 *)
(***************************************************************************)
ResumeLosesNothing == conn.pc = "live" /\ wire = <<>> => view.base = 0 /\ view.events = 1 .. view.nextSeq - 1
=============================================================================
