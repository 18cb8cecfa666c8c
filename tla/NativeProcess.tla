---------------------------- MODULE NativeProcess ----------------------------
(***************************************************************************)
(* One child of NativeProcessManager (src/src/native-agent-process.ts) and *)
(* the loop of executeNativeRun that copies its output into run events     *)
(* and reads its end (src/src/native-agent-runtime.ts).                    *)
(*                                                                         *)
(* The manager's handlers and timers each run to completion; the reader    *)
(* awaits in read, for at most 100 ms, and in every appendRunEvent, and    *)
(* anything may happen meanwhile.  A read that waits may return at any     *)
(* time, so who wakes it does not matter: `waiters` is left out.  So are   *)
(* stdin writes, which the dispatcher's children are not given.            *)
(*                                                                         *)
(* The child writes pieces, numbered as it writes them.  A chunk is a      *)
(* piece, or the truncation notice (piece 0); its seq is its position.     *)
(***************************************************************************)
EXTENDS Integers, Sequences, FiniteSetsExt

CONSTANTS
    Sizes,            \* sizes of the pieces, in bytes
    NoticeSize,       \* size of the truncation notice
    MaxOutputBytes,   \* maxOutputBytes of start
    MaxBytes,         \* maxBytes of read
    TimeoutMs,        \* timeoutMs of start: 0 arms no timer
    MaxPieces         \* bound on what the child writes

ASSUME ProcessAssumption ==
    /\ Sizes \subseteq Nat \ {0}
    /\ NoticeSize \in Nat \ {0}
    /\ MaxOutputBytes \in Nat
    /\ MaxBytes \in Nat \ {0}
    /\ TimeoutMs \in Nat
    /\ MaxPieces \in Nat

VARIABLES
    child,         \* the child as the operating system has it
    status,        \* the manager's NativeProcessState
    exitCode,      \* "none" before the end, and after a death by signal
    failure,       \* is a failure message set?
    timer,         \* is the timeout armed?
    produced,      \* pieces the child has written
    chunks,
    outputBytes,
    truncated,
    pc,            \* the reader: where it is,
    afterSeq,      \*   its cursor,
    batch,         \*   the chunks of its last read it has not appended,
    seen,          \*   what else that read returned,
    runLog,        \* the seqs of the run.output_delta events
    outcome        \* the status the reader finishes the run with

processVars == <<child, status, exitCode, failure, timer>>
outputVars == <<produced, chunks, outputBytes, truncated>>
readerVars == <<pc, afterSeq, batch, seen, runLog, outcome>>
vars == <<processVars, outputVars, readerVars>>

Statuses == {"running", "exited", "failed", "timed_out", "cancelled"}
ExitCodes == {"none", "zero", "nonzero"}
Chunk == [piece : Nat, size : Nat \ {0}]
\* status, failure and exitCode of a read, and the cursor it was given.
ReadResult == [status : Statuses, failure : BOOLEAN, exitCode : ExitCodes, from : Nat]

TypeOK ==
    /\ child \in {"starting", "alive", "unspawned", "closed"}
    /\ status \in Statuses
    /\ exitCode \in ExitCodes
    /\ failure \in BOOLEAN
    /\ timer \in BOOLEAN
    /\ produced \in Nat
    /\ chunks \in Seq(Chunk)
    /\ outputBytes \in Nat
    /\ truncated \in BOOLEAN
    /\ pc \in {"read", "append", "end"}
    /\ afterSeq \in Nat
    /\ batch \in Seq(Nat)
    /\ seen \in ReadResult
    /\ runLog \in Seq(Nat)
    /\ outcome \in {"none", "succeeded", "failed", "timed_out", "cancelled", "threw"}

Init ==
    /\ child = "starting"
    /\ status = "running"
    /\ exitCode = "none"
    /\ failure = FALSE
    /\ timer = (TimeoutMs > 0)
    /\ produced = 0
    /\ chunks = <<>>
    /\ outputBytes = 0
    /\ truncated = FALSE
    /\ pc = "read"
    /\ afterSeq = 0
    /\ batch = <<>>
    /\ seen = [status |-> "running", failure |-> FALSE, exitCode |-> "none", from |-> 0]
    /\ runLog = <<>>
    /\ outcome = "none"

-----------------------------------------------------------------------------
(* The child and the manager.                                               *)

\* spawn succeeds, or the child's "error" event comes instead.
Spawn ==
    /\ child = "starting"
    /\ \/ /\ child' = "alive"
          /\ UNCHANGED <<status, failure>>
       \/ /\ child' = "unspawned"
          /\ status' = "failed"
          /\ failure' = TRUE
    /\ UNCHANGED <<exitCode, timer, outputVars, readerVars>>

\* pushOutput.  What does not fit is dropped, with one notice, if that fits.
PushOutput(piece, size) ==
    IF outputBytes + size <= MaxOutputBytes
    THEN /\ chunks' = Append(chunks, [piece |-> piece, size |-> size])
         /\ outputBytes' = outputBytes + size
         /\ truncated' = truncated
    ELSE /\ truncated' = TRUE
         /\ IF ~truncated /\ outputBytes + NoticeSize <= MaxOutputBytes
            THEN /\ chunks' = Append(chunks, [piece |-> 0, size |-> NoticeSize])
                 /\ outputBytes' = outputBytes + NoticeSize
            ELSE UNCHANGED <<chunks, outputBytes>>

\* The child writes a piece: it may until it is gone, whatever the status is.
Output(size) ==
    /\ child = "alive"
    /\ produced < MaxPieces
    /\ produced' = produced + 1
    /\ PushOutput(produced + 1, size)
    /\ UNCHANGED <<processVars, readerVars>>

\* The "close" event, after the last of the output.
Close(code) ==
    /\ child \in {"alive", "unspawned"}
    /\ child = "unspawned" => code = "nonzero"
    /\ child' = "closed"
    /\ status' = IF status = "running" THEN "exited" ELSE status
    /\ exitCode' = code
    /\ timer' = FALSE
    /\ UNCHANGED <<failure, outputVars, readerVars>>

\* The status of a process that is told to stop.  A child that cannot be sent
\* the signal emits "error", and that handler writes over the status.
StopAs(s) == status' \in IF child = "alive" THEN {s, "failed"} ELSE {s}

\* Mutant: the timeout signals the child and leaves the status to its end.
TimeoutFires_SignalOnly ==
    /\ timer
    /\ child # "starting"
    /\ timer' = FALSE
    /\ UNCHANGED <<child, status, failure, exitCode, outputVars, readerVars>>

TimeoutFires ==
    /\ timer
    /\ child # "starting"
    /\ timer' = FALSE
    /\ IF status = "running"
       THEN StopAs("timed_out") /\ failure' = TRUE
       ELSE UNCHANGED <<status, failure>>
    /\ UNCHANGED <<child, exitCode, outputVars, readerVars>>

Cancel ==
    /\ status = "running"
    /\ StopAs("cancelled")
    /\ failure' = TRUE
    /\ UNCHANGED <<child, exitCode, timer, outputVars, readerVars>>

\* close, which the dispatch calls when it ends, however it ends.
CloseManager ==
    /\ pc = "end"
    /\ timer' = FALSE
    /\ IF status = "running"
       THEN StopAs("cancelled") /\ failure' = (status' = "failed")
       ELSE UNCHANGED <<status, failure>>
    /\ UNCHANGED <<child, exitCode, outputVars, readerVars>>

-----------------------------------------------------------------------------
(* The reader.                                                              *)

Bytes(first, last) ==
    LET total[n \in Nat] == IF n < first THEN 0 ELSE total[n - 1] + chunks[n].size
    IN  total[last]

\* chunksAfter
ChunksAfter(seq) == {i \in DOMAIN chunks : i > seq}

\* applyByteLimit of those: as many as fit, but one at least.
FitsLimit(first, last) ==
    \A i \in first + 1 .. last :
        /\ Bytes(first, i) <= MaxBytes
        /\ Bytes(first, i - 1) < MaxBytes

ApplyByteLimit(available) ==
    IF available = {} THEN <<>>
    ELSE LET first == Min(available)
             last == Max({i \in available : FitsLimit(first, i)})
         IN  [k \in 1 .. last - first + 1 |-> first + k - 1]

\* Mutant: the exit code alone decides.
Outcome_ExitCodeOnly(read) ==
    IF read.status \in {"timed_out", "cancelled"} THEN read.status
    ELSE IF read.exitCode = "nonzero" THEN "failed"
    ELSE "succeeded"

\* How the end of the process ends the run; no exit code counts as 0.
Outcome(read) ==
    IF read.status \in {"timed_out", "cancelled"} THEN read.status
    ELSE IF read.failure \/ read.exitCode = "nonzero" THEN "failed"
    ELSE "succeeded"

\* Mutant: the end is looked at before the chunks that came with it.
Continue_EndFirst(rest, read) ==
    /\ batch' = rest
    /\ seen' = read
    /\ pc' = IF read.status # "running" THEN "end"
             ELSE IF rest # <<>> THEN "append" ELSE "read"
    /\ outcome' = IF pc' = "end" THEN Outcome(read) ELSE outcome

\* The loop goes on to append, to read again, or out.
Continue(rest, read) ==
    /\ batch' = rest
    /\ seen' = read
    /\ pc' = IF rest # <<>> THEN "append"
             ELSE IF read.status = "running" THEN "read" ELSE "end"
    /\ outcome' = IF pc' = "end" THEN Outcome(read) ELSE outcome

Read ==
    /\ pc = "read"
    /\ Continue(ApplyByteLimit(ChunksAfter(afterSeq)),
                [status |-> status, failure |-> failure, exitCode |-> exitCode,
                 from |-> afterSeq])
    /\ UNCHANGED <<processVars, outputVars, afterSeq, runLog>>

AppendEvent ==
    /\ pc = "append"
    /\ afterSeq' = IF Head(batch) > afterSeq THEN Head(batch) ELSE afterSeq
    /\ runLog' = Append(runLog, Head(batch))
    /\ Continue(Tail(batch), seen)
    /\ UNCHANGED <<processVars, outputVars>>

\* appendRunEvent throws, and with it the dispatch.
AppendThrows ==
    /\ pc = "append"
    /\ pc' = "end"
    /\ outcome' = "threw"
    /\ UNCHANGED <<processVars, outputVars, afterSeq, batch, seen, runLog>>

Next ==
    \/ Spawn
    \/ \E size \in Sizes : Output(size)
    \/ \E code \in ExitCodes : Close(code)
    \/ TimeoutFires
    \/ Cancel
    \/ CloseManager
    \/ Read
    \/ AppendEvent
    \/ AppendThrows

Spec == Init /\ [][Next]_vars

\* The event loop spawns, runs due timers and goes on with what has been
\* awaited; nothing is assumed of the child.
FairSpec ==
    /\ Spec
    /\ WF_vars(Spawn)
    /\ WF_vars(TimeoutFires)
    /\ WF_vars(Read)
    /\ WF_vars(AppendEvent)

-----------------------------------------------------------------------------
(* Properties.                                                              *)

\* The run's output events are the chunks from the first one on, in order,
\* none missing and none repeated, however reads, writes and limits
\* interleave (the cursor of the loop in executeNativeRun).
LogFollowsOutput ==
    /\ runLog = [i \in 1 .. Len(runLog) |-> i]
    /\ Len(runLog) <= Len(chunks)
    /\ afterSeq = Len(runLog)

\* The buffer stays within its limit, notice included, and the count that
\* enforces it is what the buffer holds (pushOutput).
BufferIsBounded ==
    /\ outputBytes = Bytes(1, Len(chunks))
    /\ outputBytes <= MaxOutputBytes

\* Chunks keep the order of the output; before the notice nothing is missing;
\* and nothing is missing at all until `truncated` is set (pushOutput).  After
\* that smaller pieces may still fit, with or without a notice before them.
WholeUntilNotice ==
    /\ \A i, j \in DOMAIN chunks :
          i < j /\ chunks[i].piece # 0 /\ chunks[j].piece # 0
             => chunks[i].piece < chunks[j].piece
    /\ \A i \in DOMAIN chunks :
          chunks[i].piece = 0 => \A j \in 1 .. i - 1 : chunks[j].piece = j
    /\ ~truncated => Len(chunks) = produced

\* The loop leaves at the first read that sees the end.  What it leaves unread
\* then did not fit into that read; all else of a child that ended by itself
\* reaches the run's events.
ReadToTheEnd ==
    (pc = "end" /\ outcome # "threw" /\ seen.status = "exited" /\ afterSeq < Len(chunks))
        => Bytes(seen.from + 1, afterSeq + 1) > MaxBytes

\* Between a child and the log of its run only the two limits lose output: the
\* buffer's, which it never exceeds and which leaves a mark, and that of the
\* last read (pushOutput, readNativeProcess and the loop of executeNativeRun).
OnlyTheLimitLosesOutput == BufferIsBounded /\ WholeUntilNotice /\ ReadToTheEnd

\* A run succeeds only after its child is gone, by itself, and without a code
\* that says otherwise: no timeout, cancellation or failed spawn that came
\* first is forgotten.
SuccessIsEarned ==
    outcome = "succeeded" =>
        /\ child = "closed"
        /\ status = "exited"
        /\ exitCode # "nonzero"
        /\ ~failure

\* Why a process ended does not change afterwards, except that a signal that
\* cannot be sent makes it a failure at once; the "close" that follows a
\* timeout or a cancellation does not make it an exit.
EndStands == [][status # "running" => status' \in {status, "failed"}]_vars

\* With a timeout, and no exception, the reader comes to an end, whatever the
\* child does: even one that ignores the signal and keeps writing.
ReaderEnds == TimeoutMs > 0 => <>(pc = "end")
=============================================================================
