------------------------ MODULE NativeProcess_proofs ------------------------
(***************************************************************************)
(* Proofs about NativeProcess, for every choice of sizes, limits and       *)
(* timeout, and any number of pieces.  Coherent is inductive: what the     *)
(* reader holds continues its log, and what it has seen of an end is still *)
(* true.  Accountable, over the total of the sizes, says what the two      *)
(* limits may have lost.                                                   *)
(***************************************************************************)
EXTENDS NativeProcess, SequenceTheorems, WellFoundedInduction, TLAPS

\* The log, and the batch after it, are the first chunks.
ReaderIsInStep ==
    /\ LogFollowsOutput
    /\ batch = [k \in 1 .. Len(batch) |-> afterSeq + k]
    /\ afterSeq + Len(batch) <= Len(chunks)
    /\ pc = "append" => batch # <<>>

\* How the process can have come to its status.
EndIsSettled ==
    /\ status = "running" => ~failure
    /\ status = "exited" => child = "closed" /\ ~failure
    /\ status = "failed" => failure
    /\ child \in {"starting", "unspawned"} => status # "exited"

\* An exit that was seen has not changed since.
SeenIsStillTrue ==
    /\ seen.status = "exited" => status = "exited" /\ exitCode = seen.exitCode
    /\ seen.status = "failed" => seen.failure
    /\ outcome = "succeeded" => seen.status = "exited" /\ seen.exitCode # "nonzero"
    /\ pc # "end" => outcome = "none"

Coherent == TypeOK /\ ReaderIsInStep /\ EndIsSettled /\ SeenIsStillTrue

-----------------------------------------------------------------------------
(* What a read returns.                                                     *)

LEMMA LeastNatural ==
    ASSUME NEW S \in SUBSET Nat, S # {}
    PROVE  \E x \in S : \A y \in S : x <= y
<1>1. PICK x \in S : \A y \in S : ~(<<y, x>> \in OpToRel(<, Nat))
  BY NatLessThanWellFounded, WFMin
<1>2. \A y \in S : ~(y < x)
  BY <1>1 DEF OpToRel
<1> QED
  BY <1>2

LEMMA MinIsLeast ==
    ASSUME NEW S \in SUBSET Nat, S # {}
    PROVE  Min(S) \in S /\ \A y \in S : Min(S) <= y
BY LeastNatural DEF Min

LEMMA MaxIsGreatest ==
    ASSUME NEW S \in SUBSET Nat, S # {}, NEW bound \in Nat, \A y \in S : y <= bound
    PROVE  Max(S) \in S /\ \A y \in S : y <= Max(S)
<1> DEFINE Distances == {bound - y : y \in S}
<1>1. Distances \in SUBSET Nat /\ Distances # {}
  <2>1. \A y \in S : bound - y \in Nat
    OBVIOUS
  <2>2. Distances \in SUBSET Nat
    BY <2>1
  <2>3. PICK y \in S : TRUE
    OBVIOUS
  <2>4. bound - y \in Distances
    BY <2>3
  <2> QED
    BY <2>2, <2>4
<1>2. PICK d \in Distances : \A e \in Distances : d <= e
  BY <1>1, LeastNatural
<1>3. PICK x \in S : d = bound - x
  BY <1>2
<1>4. \A y \in S : y <= x
  BY <1>2, <1>3
<1> QED
  BY <1>3, <1>4 DEF Max

\* A read returns the chunks that follow the cursor, without a gap, and at
\* least one if there is one.
LEMMA ReadContinues ==
    ASSUME NEW cursor \in Nat, chunks \in Seq(Chunk), cursor <= Len(chunks)
    PROVE  LET b == ApplyByteLimit(ChunksAfter(cursor))
           IN  /\ b \in Seq(Nat)
               /\ b = [k \in 1 .. Len(b) |-> cursor + k]
               /\ cursor + Len(b) <= Len(chunks)
<1> DEFINE available == ChunksAfter(cursor)
           first == Min(available)
           fitting == {i \in available : FitsLimit(first, i)}
           last == Max(fitting)
<1>0. Len(chunks) \in Nat /\ DOMAIN chunks = 1 .. Len(chunks)
  OBVIOUS
<1>1. CASE available = {}
  <2>1. ApplyByteLimit(available) = <<>>
    BY <1>1 DEF ApplyByteLimit
  <2> QED
    BY <2>1, <1>0
<1>2. CASE available # {}
  <2>1. available = cursor + 1 .. Len(chunks)
    BY <1>0 DEF ChunksAfter
  <2>2. available \in SUBSET Nat /\ cursor + 1 \in available
    BY <1>2, <2>1, <1>0
  <2>3. first \in available /\ first <= cursor + 1
    BY <2>2, MinIsLeast
  <2>4. first = cursor + 1
    BY <2>1, <2>3
  <2>5. first \in fitting
    BY <2>3, <2>2 DEF FitsLimit
  <2>6. fitting \in SUBSET Nat /\ \A y \in fitting : y <= Len(chunks)
    BY <2>1, <2>2
  <2>7. last \in fitting
    BY <2>5, <2>6, <1>0, MaxIsGreatest
  <2>8. last \in cursor + 1 .. Len(chunks)
    BY <2>7, <2>1
  <2> HIDE DEF last, first, fitting
  <2>9. ApplyByteLimit(available) = [k \in 1 .. last - first + 1 |-> first + k - 1]
    BY <1>2 DEF ApplyByteLimit, last, fitting, first
  <2>10. ApplyByteLimit(available) = [k \in 1 .. last - cursor |-> cursor + k]
    BY <2>4, <2>8, <2>9, <1>0
  <2>11. last - cursor \in Nat
    BY <2>8, <1>0
  <2>12. /\ ApplyByteLimit(available) \in Seq(Nat)
         /\ Len(ApplyByteLimit(available)) = last - cursor
    BY <2>10, <2>11
  <2> QED
    BY <2>8, <2>10, <2>12, <1>0
<1> QED
  BY <1>1, <1>2

-----------------------------------------------------------------------------
(* Coherent is inductive.                                                   *)

LEMMA CoherentInitially == Init => Coherent
<1> SUFFICES ASSUME Init PROVE Coherent
  OBVIOUS
<1>1. TypeOK
  <2>1. (TimeoutMs > 0) \in BOOLEAN
    OBVIOUS
  <2>2. timer \in BOOLEAN
    BY <2>1 DEF Init
  <2>3. seen \in ReadResult
    BY DEF Init, ReadResult, Statuses, ExitCodes
  <2>4. /\ child = "starting" /\ status = "running" /\ exitCode = "none" /\ failure = FALSE
        /\ produced = 0 /\ chunks = <<>> /\ outputBytes = 0 /\ truncated = FALSE
        /\ pc = "read" /\ afterSeq = 0 /\ batch = <<>> /\ runLog = <<>> /\ outcome = "none"
    BY DEF Init
  <2>5. chunks \in Seq(Chunk) /\ batch \in Seq(Nat) /\ runLog \in Seq(Nat)
    BY <2>4
  <2> QED
    BY <2>2, <2>3, <2>4, <2>5 DEF TypeOK, Statuses, ExitCodes
<1>2. ReaderIsInStep
  BY DEF Init, ReaderIsInStep, LogFollowsOutput
<1>3. EndIsSettled /\ SeenIsStillTrue
  BY DEF Init, EndIsSettled, SeenIsStillTrue
<1> QED
  BY <1>1, <1>2, <1>3 DEF Coherent

\* What the child and the manager do leaves the reader in step, as long as
\* chunks are only added.
LEMMA ReaderKeepsStep ==
    ASSUME ReaderIsInStep, UNCHANGED readerVars,
           chunks \in Seq(Chunk), chunks' \in Seq(Chunk), Len(chunks) <= Len(chunks'),
           TypeOK
    PROVE  ReaderIsInStep'
<1>1. /\ pc' = pc /\ afterSeq' = afterSeq /\ batch' = batch /\ runLog' = runLog
      /\ Len(chunks) \in Nat /\ Len(chunks') \in Nat
  BY DEF readerVars
<1>2. Len(runLog) \in Nat /\ Len(batch) \in Nat /\ afterSeq \in Nat
  BY DEF TypeOK
<1> QED
  BY <1>1, <1>2 DEF ReaderIsInStep, LogFollowsOutput

LEMMA SpawnCoherent == ASSUME Coherent, Spawn PROVE Coherent'
<1> USE DEF Coherent
<1>1. TypeOK'
  BY DEF Spawn, TypeOK, readerVars, outputVars, Statuses
<1>2. ReaderIsInStep'
  BY <1>1, ReaderKeepsStep DEF Spawn, TypeOK, outputVars
<1>3. EndIsSettled' /\ SeenIsStillTrue'
  BY DEF Spawn, EndIsSettled, SeenIsStillTrue, readerVars
<1> QED
  BY <1>1, <1>2, <1>3

LEMMA OutputCoherent ==
    ASSUME Coherent, NEW size \in Sizes, Output(size)
    PROVE  Coherent'
<1> USE DEF Coherent
<1>1. /\ chunks' \in Seq(Chunk)
      /\ Len(chunks) <= Len(chunks')
      /\ outputBytes' \in Nat
      /\ truncated' \in BOOLEAN
  <2>0. /\ chunks \in Seq(Chunk) /\ outputBytes \in Nat /\ produced \in Nat /\ truncated \in BOOLEAN
        /\ size \in Nat \ {0} /\ NoticeSize \in Nat \ {0} /\ MaxOutputBytes \in Nat
    BY ProcessAssumption DEF TypeOK
  <2>1. /\ [piece |-> produced + 1, size |-> size] \in Chunk
        /\ [piece |-> 0, size |-> NoticeSize] \in Chunk
    BY <2>0 DEF Chunk
  <2>2. \A c \in Chunk : /\ Append(chunks, c) \in Seq(Chunk)
                         /\ Len(chunks) <= Len(Append(chunks, c))
    BY <2>0
  <2>3. PushOutput(produced + 1, size)
    BY DEF Output
  <2>4. CASE outputBytes + size <= MaxOutputBytes
    BY <2>0, <2>1, <2>2, <2>3, <2>4 DEF PushOutput
  <2>5. CASE ~(outputBytes + size <= MaxOutputBytes)
    <3>1. CASE ~truncated /\ outputBytes + NoticeSize <= MaxOutputBytes
      BY <2>0, <2>1, <2>2, <2>3, <2>5, <3>1 DEF PushOutput
    <3>2. CASE ~(~truncated /\ outputBytes + NoticeSize <= MaxOutputBytes)
      BY <2>0, <2>3, <2>5, <3>2 DEF PushOutput
    <3> QED
      BY <3>1, <3>2
  <2> QED
    BY <2>4, <2>5
<1>2. TypeOK'
  BY <1>1 DEF Output, TypeOK, processVars, readerVars
<1>3. ReaderIsInStep'
  BY <1>1, ReaderKeepsStep DEF Output, TypeOK
<1>4. EndIsSettled' /\ SeenIsStillTrue'
  BY DEF Output, EndIsSettled, SeenIsStillTrue, readerVars, processVars
<1> QED
  BY <1>2, <1>3, <1>4

LEMMA CloseCoherent ==
    ASSUME Coherent, NEW code \in ExitCodes, Close(code)
    PROVE  Coherent'
<1> USE DEF Coherent
<1>1. TypeOK'
  BY DEF Close, TypeOK, readerVars, outputVars, Statuses
<1>2. ReaderIsInStep'
  BY <1>1, ReaderKeepsStep DEF Close, TypeOK, outputVars
<1>3. child # "closed" /\ status # "exited"
  BY DEF Close, EndIsSettled
<1>4. EndIsSettled' /\ SeenIsStillTrue'
  BY <1>3 DEF Close, EndIsSettled, SeenIsStillTrue, readerVars
<1> QED
  BY <1>1, <1>2, <1>4

\* The three ways to be told to stop.
LEMMA StopCoherent ==
    ASSUME Coherent, TimeoutFires \/ Cancel \/ CloseManager
    PROVE  Coherent'
<1> USE DEF Coherent
<1>1. /\ child' = child /\ exitCode' = exitCode
      /\ UNCHANGED outputVars /\ UNCHANGED readerVars
      /\ timer' \in BOOLEAN
  BY DEF TimeoutFires, Cancel, CloseManager, TypeOK
<1>2. \/ status' = status /\ failure' = failure
      \/ /\ status = "running"
         /\ status' \in {"timed_out", "cancelled", "failed"}
         /\ failure' \in BOOLEAN
         /\ status' = "failed" => failure'
  <2>1. CASE TimeoutFires
    BY <2>1 DEF TimeoutFires, StopAs
  <2>2. CASE Cancel
    BY <2>2 DEF Cancel, StopAs
  <2>3. CASE CloseManager
    BY <2>3 DEF CloseManager, StopAs
  <2> QED
    BY <2>1, <2>2, <2>3
<1>3. TypeOK'
  BY <1>1, <1>2 DEF TypeOK, readerVars, outputVars, Statuses
<1>4. ReaderIsInStep'
  BY <1>1, <1>3, ReaderKeepsStep DEF TypeOK, outputVars
<1>5. EndIsSettled' /\ SeenIsStillTrue'
  BY <1>1, <1>2 DEF EndIsSettled, SeenIsStillTrue, readerVars
<1> QED
  BY <1>3, <1>4, <1>5

\* Going on with the loop, given what it goes on with.
LEMMA ContinueCoherent ==
    ASSUME Coherent, NEW rest \in Seq(Nat), NEW read \in ReadResult,
           Continue(rest, read), outcome = "none", UNCHANGED <<processVars, outputVars>>,
           afterSeq' \in Nat, runLog' \in Seq(Nat),
           LogFollowsOutput',
           rest = [k \in 1 .. Len(rest) |-> afterSeq' + k],
           afterSeq' + Len(rest) <= Len(chunks),
           read.status = "exited" => status = "exited" /\ exitCode = read.exitCode,
           read.status = "failed" => read.failure
    PROVE  Coherent'
<1> USE DEF Coherent
<1>1. /\ batch' = rest /\ seen' = read
      /\ pc' \in {"read", "append", "end"}
      /\ pc' = "append" => rest # <<>>
      /\ pc' = "end" => read.status # "running" /\ outcome' = Outcome(read)
      /\ pc' # "end" => outcome' = "none"
  BY DEF Continue
<1>2. /\ Outcome(read) \in {"succeeded", "failed", "timed_out", "cancelled"}
      /\ Outcome(read) = "succeeded" =>
            /\ read.status \notin {"timed_out", "cancelled"}
            /\ ~read.failure
            /\ read.exitCode # "nonzero"
  BY DEF Outcome
<1>3. TypeOK'
  BY <1>1, <1>2 DEF TypeOK, processVars, outputVars
<1>4. ReaderIsInStep'
  BY <1>1 DEF ReaderIsInStep, outputVars
<1>5. EndIsSettled'
  BY DEF EndIsSettled, processVars
<1>6. read.status \in {"running", "exited", "failed", "timed_out", "cancelled"}
  BY DEF ReadResult, Statuses
<1>7. SeenIsStillTrue'
  BY <1>1, <1>2, <1>6 DEF SeenIsStillTrue, processVars
<1> QED
  BY <1>3, <1>4, <1>5, <1>7

LEMMA ReadCoherent == ASSUME Coherent, Read PROVE Coherent'
<1> USE DEF Coherent
<1> DEFINE rest == ApplyByteLimit(ChunksAfter(afterSeq))
           read == [status |-> status, failure |-> failure, exitCode |-> exitCode,
                    from |-> afterSeq]
<1>1. afterSeq \in Nat /\ chunks \in Seq(Chunk) /\ afterSeq <= Len(chunks)
  BY DEF ReaderIsInStep, LogFollowsOutput, TypeOK
<1>2. /\ rest \in Seq(Nat)
      /\ rest = [k \in 1 .. Len(rest) |-> afterSeq + k]
      /\ afterSeq + Len(rest) <= Len(chunks)
  BY <1>1, ReadContinues
<1>3. read \in ReadResult
  BY DEF TypeOK, ReadResult
<1>4. /\ read.status = "exited" => status = "exited" /\ exitCode = read.exitCode
      /\ read.status = "failed" => read.failure
  BY DEF EndIsSettled
<1>5. /\ Continue(rest, read)
      /\ UNCHANGED <<processVars, outputVars>>
      /\ afterSeq' = afterSeq /\ runLog' = runLog /\ chunks' = chunks
      /\ outcome = "none"
  BY DEF Read, outputVars, SeenIsStillTrue
<1>6. LogFollowsOutput' /\ afterSeq' \in Nat /\ runLog' \in Seq(Nat)
  BY <1>5 DEF ReaderIsInStep, LogFollowsOutput, TypeOK
<1> HIDE DEF rest, read
<1> QED
  BY <1>2, <1>3, <1>4, <1>5, <1>6, ContinueCoherent

\* A sequence is known by its elements.
LEMMA CountsFrom ==
    ASSUME NEW s \in Seq(Nat), NEW c \in Nat, \A k \in 1 .. Len(s) : s[k] = c + k
    PROVE  s = [k \in 1 .. Len(s) |-> c + k]
OBVIOUS

LEMMA AppendEventCoherent == ASSUME Coherent, AppendEvent PROVE Coherent'
<1> USE DEF Coherent
<1>1. /\ batch \in Seq(Nat) /\ batch # <<>> /\ afterSeq \in Nat /\ runLog \in Seq(Nat)
      /\ afterSeq = Len(runLog)
      /\ runLog = [i \in 1 .. Len(runLog) |-> i]
      /\ Len(batch) \in Nat \ {0} /\ Len(runLog) \in Nat
      /\ Len(chunks) \in Nat
      /\ afterSeq + Len(batch) <= Len(chunks)
  <2>1. Len(batch) # 0
    BY DEF AppendEvent, ReaderIsInStep, TypeOK
  <2> QED
    BY <2>1 DEF AppendEvent, ReaderIsInStep, LogFollowsOutput, TypeOK
<1>2. \A k \in 1 .. Len(batch) : batch[k] = afterSeq + k
  BY <1>1 DEF ReaderIsInStep
<1>3. Head(batch) = afterSeq + 1
  BY <1>1, <1>2
<1>4. /\ Tail(batch) \in Seq(Nat)
      /\ Len(Tail(batch)) = Len(batch) - 1
      /\ \A k \in 1 .. Len(Tail(batch)) : Tail(batch)[k] = afterSeq + 1 + k
  BY <1>1, <1>2
<1>5. afterSeq' = afterSeq + 1 /\ runLog' = Append(runLog, afterSeq + 1)
  BY <1>1, <1>3 DEF AppendEvent
<1>6. /\ runLog' \in Seq(Nat) /\ Len(runLog') = afterSeq'
      /\ \A i \in 1 .. Len(runLog') : runLog'[i] = i
  BY <1>1, <1>5
<1>7. runLog' = [i \in 1 .. Len(runLog') |-> i]
  BY <1>6
<1>8. LogFollowsOutput'
  BY <1>1, <1>5, <1>6, <1>7 DEF LogFollowsOutput, AppendEvent, outputVars
<1>9. Tail(batch) = [k \in 1 .. Len(Tail(batch)) |-> afterSeq' + k]
  <2>1. \A k \in 1 .. Len(Tail(batch)) : Tail(batch)[k] = afterSeq' + k
    BY <1>1, <1>4, <1>5
  <2>2. afterSeq' \in Nat
    BY <1>1, <1>5
  <2> QED
    BY <1>4, <2>1, <2>2, CountsFrom
<1>10. afterSeq' \in Nat /\ afterSeq' + Len(Tail(batch)) <= Len(chunks)
  BY <1>1, <1>4, <1>5
<1>11. /\ Continue(Tail(batch), seen)
       /\ UNCHANGED <<processVars, outputVars>>
       /\ outcome = "none" /\ seen \in ReadResult
       /\ seen.status = "exited" => status = "exited" /\ exitCode = seen.exitCode
       /\ seen.status = "failed" => seen.failure
  BY DEF AppendEvent, SeenIsStillTrue, TypeOK
<1> QED
  BY <1>4, <1>6, <1>8, <1>9, <1>10, <1>11, ContinueCoherent

LEMMA AppendThrowsCoherent == ASSUME Coherent, AppendThrows PROVE Coherent'
<1> USE DEF Coherent
<1>1. TypeOK'
  BY DEF AppendThrows, TypeOK, processVars, outputVars
<1>2. ReaderIsInStep'
  BY DEF AppendThrows, ReaderIsInStep, LogFollowsOutput, outputVars
<1>3. EndIsSettled' /\ SeenIsStillTrue'
  BY DEF AppendThrows, EndIsSettled, SeenIsStillTrue, processVars
<1> QED
  BY <1>1, <1>2, <1>3

LEMMA NextCoherent == Coherent /\ [Next]_vars => Coherent'
<1> SUFFICES ASSUME Coherent, [Next]_vars PROVE Coherent'
  OBVIOUS
<1>1. CASE Spawn
  BY <1>1, SpawnCoherent
<1>2. CASE \E size \in Sizes : Output(size)
  BY <1>2, OutputCoherent
<1>3. CASE \E code \in ExitCodes : Close(code)
  BY <1>3, CloseCoherent
<1>4. CASE TimeoutFires \/ Cancel \/ CloseManager
  BY <1>4, StopCoherent
<1>5. CASE Read
  BY <1>5, ReadCoherent
<1>6. CASE AppendEvent
  BY <1>6, AppendEventCoherent
<1>7. CASE AppendThrows
  BY <1>7, AppendThrowsCoherent
<1>8. CASE UNCHANGED vars
  BY <1>8 DEF vars, processVars, outputVars, readerVars, Coherent, TypeOK,
     ReaderIsInStep, LogFollowsOutput, EndIsSettled, SeenIsStillTrue
<1> QED
  BY <1>1, <1>2, <1>3, <1>4, <1>5, <1>6, <1>7, <1>8 DEF Next

-----------------------------------------------------------------------------
(* Theorems.                                                                *)

\* Coherent holds in every reachable state.
THEOREM CoherentAlways == Spec => []Coherent
BY CoherentInitially, NextCoherent, PTL DEF Spec

\* Every variable keeps its type.
THEOREM ProcessTypes == Spec => []TypeOK
<1>1. Coherent => TypeOK
  BY DEF Coherent
<1> QED
  BY <1>1, CoherentAlways, PTL

\* The output events of a run are the first chunks of its process, in order,
\* none missing and none repeated.
THEOREM LogIsInOrder == Spec => []LogFollowsOutput
<1>1. Coherent => LogFollowsOutput
  BY DEF Coherent, ReaderIsInStep
<1> QED
  BY <1>1, CoherentAlways, PTL

\* A run succeeds only with a child that ended by itself and reported nothing
\* else.
THEOREM SuccessesAreEarned == Spec => []SuccessIsEarned
<1>1. Coherent => SuccessIsEarned
  BY DEF Coherent, EndIsSettled, SeenIsStillTrue, SuccessIsEarned
<1> QED
  BY <1>1, CoherentAlways, PTL

\* Why a process ended does not change, but for a failure that is found out.
THEOREM EndsStand == Spec => EndStands
<1>1. ASSUME [Next]_vars, status # "running"
      PROVE  status' \in {status, "failed"}
  <2>1. CASE Spawn
    BY <2>1 DEF Spawn
  <2>2. CASE \E size \in Sizes : Output(size)
    BY <2>2 DEF Output, processVars
  <2>3. CASE \E code \in ExitCodes : Close(code)
    BY <1>1, <2>3 DEF Close
  <2>4. CASE TimeoutFires \/ Cancel \/ CloseManager
    BY <1>1, <2>4 DEF TimeoutFires, Cancel, CloseManager
  <2>5. CASE Read \/ AppendEvent \/ AppendThrows
    BY <2>5 DEF Read, AppendEvent, AppendThrows, processVars
  <2>6. CASE UNCHANGED vars
    BY <2>6 DEF vars, processVars
  <2> QED
    BY <1>1, <2>1, <2>2, <2>3, <2>4, <2>5, <2>6 DEF Next
<1>2. [Next]_vars => [status # "running" => status' \in {status, "failed"}]_vars
  BY <1>1
<1> QED
  BY <1>2, PTL DEF Spec, EndStands

-----------------------------------------------------------------------------
(* Bytes: the recursive function it is made of exists.                      *)

\* The totals from `first` on, up to n.
TotalsTo(first, n, g) ==
    g = [k \in 0 .. n |-> IF k < first THEN 0 ELSE g[k - 1] + chunks[k].size]

LEMMA TotalsExist ==
    ASSUME NEW first \in Nat \ {0}, NEW n \in Nat
    PROVE  \E g : TotalsTo(first, n, g)
<1> DEFINE Without == {k \in Nat : ~ \E g : TotalsTo(first, k, g)}
<1>1. SUFFICES ASSUME Without # {} PROVE FALSE
  OBVIOUS
<1>2. PICK m \in Without : \A k \in Without : m <= k
  BY <1>1, LeastNatural
<1>3. CASE m = 0
  <2> DEFINE g == [k \in 0 .. 0 |-> 0]
  <2>1. TotalsTo(first, 0, g)
    BY DEF TotalsTo
  <2> QED BY <1>3, <2>1
<1>4. CASE m # 0
  <2>1. m \in Nat /\ m - 1 \in Nat /\ m - 1 \notin Without
    BY <1>2, <1>4
  <2>2. PICK g : TotalsTo(first, m - 1, g)
    BY <2>1
  <2> DEFINE h == [k \in 0 .. m |-> IF k < m THEN g[k]
                                    ELSE IF m < first THEN 0 ELSE g[m - 1] + chunks[m].size]
  <2>3. \A k \in 0 .. m - 1 : g[k] = IF k < first THEN 0 ELSE g[k - 1] + chunks[k].size
    BY <2>1, <2>2 DEF TotalsTo
  <2>4. ASSUME NEW k \in 0 .. m
        PROVE  h[k] = IF k < first THEN 0 ELSE h[k - 1] + chunks[k].size
    <3>1. k \in Nat /\ k <= m /\ (k >= first => k - 1 \in 0 .. m)
      BY <2>1
    <3>2. CASE k < m
      <4>1. /\ k \in 0 .. m - 1 /\ h[k] = g[k]
            /\ k >= first => h[k - 1] = g[k - 1]
        BY <2>1, <3>1, <3>2
      <4> QED BY <2>3, <3>1, <4>1
    <3>3. CASE k = m
      <4>1. h[k - 1] = g[k - 1]
        BY <1>4, <2>1, <3>3
      <4> QED BY <2>1, <3>3, <4>1
    <3> QED BY <2>1, <3>1, <3>2, <3>3
  <2>5. TotalsTo(first, m, h)
    BY <2>1, <2>4 DEF TotalsTo
  <2> QED BY <1>2, <2>5
<1> QED BY <1>3, <1>4

LEMMA TotalsAgree ==
    ASSUME NEW first \in Nat \ {0}, NEW m \in Nat, NEW n \in Nat, m <= n,
           NEW g, TotalsTo(first, m, g), NEW h, TotalsTo(first, n, h)
    PROVE  g[m] = h[m]
<1> DEFINE Differing == {k \in 0 .. m : g[k] # h[k]}
<1>1. SUFFICES ASSUME Differing # {} PROVE FALSE
  OBVIOUS
<1>2. PICK k \in Differing : \A j \in Differing : k <= j
  <2>1. Differing \in SUBSET Nat
    OBVIOUS
  <2> HIDE DEF Differing
  <2> QED BY <1>1, <2>1, LeastNatural
<1>3. k \in 0 .. m /\ k \in 0 .. n
  BY <1>2
<1>4. /\ g[k] = IF k < first THEN 0 ELSE g[k - 1] + chunks[k].size
      /\ h[k] = IF k < first THEN 0 ELSE h[k - 1] + chunks[k].size
  BY <1>3 DEF TotalsTo
<1>5. k >= first => g[k - 1] = h[k - 1]
  BY <1>2, <1>3
<1> QED BY <1>2, <1>4, <1>5

\* What Bytes computes.
LEMMA BytesAre ==
    ASSUME NEW first \in Nat \ {0}, NEW last \in Nat
    PROVE  Bytes(first, last) =
               IF last < first THEN 0 ELSE Bytes(first, last - 1) + chunks[last].size
<1> DEFINE Total(n) == (CHOOSE g : TotalsTo(first, n, g))[n]
           f == [n \in Nat |-> Total(n)]
<1>1. ASSUME NEW n \in Nat
      PROVE  Total(n) = IF n < first THEN 0 ELSE Total(n - 1) + chunks[n].size
  <2>1. PICK g : g = CHOOSE h : TotalsTo(first, n, h)
    OBVIOUS
  <2>2. TotalsTo(first, n, g)
    BY <2>1, TotalsExist
  <2>3. g[n] = IF n < first THEN 0 ELSE g[n - 1] + chunks[n].size
    BY <2>2 DEF TotalsTo
  <2>4. ASSUME n >= first
        PROVE  Total(n - 1) = g[n - 1]
    <3>1. n - 1 \in Nat /\ n - 1 <= n
      BY <2>4
    <3>2. TotalsTo(first, n - 1, CHOOSE h : TotalsTo(first, n - 1, h))
      BY <3>1, TotalsExist
    <3> QED BY <2>2, <3>1, <3>2, TotalsAgree
  <2> QED BY <2>1, <2>3, <2>4
<1> HIDE DEF Total
<1>2. \A n \in Nat : f[n] = IF n < first THEN 0 ELSE f[n - 1] + chunks[n].size
  <2> TAKE n \in Nat
  <2>1. n >= first => n - 1 \in Nat
    OBVIOUS
  <2> QED BY <1>1, <2>1
<1>3. f = [n \in Nat |-> IF n < first THEN 0 ELSE f[n - 1] + chunks[n].size]
  BY <1>2
<1> HIDE DEF f
<1> DEFINE total == CHOOSE t : t = [n \in Nat |-> IF n < first THEN 0 ELSE t[n - 1] + chunks[n].size]
<1>4. total = [n \in Nat |-> IF n < first THEN 0 ELSE total[n - 1] + chunks[n].size]
  BY <1>3
<1>5. \A n \in Nat : total[n] = IF n < first THEN 0 ELSE total[n - 1] + chunks[n].size
  BY <1>4
<1>6. \A n \in Nat : Bytes(first, n) = total[n]
  BY DEF Bytes
<1> HIDE DEF total
<1>7. last >= first => last - 1 \in Nat
  OBVIOUS
<1> QED BY <1>5, <1>6, <1>7

LEMMA BytesEverywhere ==
    \A first \in Nat \ {0}, last \in Nat :
        Bytes(first, last) =
            IF last < first THEN 0 ELSE Bytes(first, last - 1) + chunks[last].size
BY BytesAre

LEMMA BytesNext ==
    (\A first \in Nat \ {0}, last \in Nat :
        Bytes(first, last) =
            IF last < first THEN 0 ELSE Bytes(first, last - 1) + chunks[last].size)'
BY BytesEverywhere, PTL

\* Chunks that are only added to keep their totals.
LEMMA BytesKept ==
    ASSUME NEW n \in Nat, \A k \in 1 .. n : chunks'[k] = chunks[k], NEW first \in Nat \ {0}
    PROVE  \A k \in 0 .. n : Bytes(first, k)' = Bytes(first, k)
<1> DEFINE Changed == {k \in 0 .. n : Bytes(first, k)' # Bytes(first, k)}
<1>1. SUFFICES ASSUME Changed # {} PROVE FALSE
  OBVIOUS
<1>2. PICK k \in Changed : \A j \in Changed : k <= j
  <2>1. Changed \in SUBSET Nat
    OBVIOUS
  <2> HIDE DEF Changed
  <2> QED BY <1>1, <2>1, LeastNatural
<1>3. k \in Nat /\ (k < first \/ (k \in 1 .. n /\ k - 1 \in 0 .. n))
  OBVIOUS
<1>4. Bytes(first, k) = IF k < first THEN 0 ELSE Bytes(first, k - 1) + chunks[k].size
  BY <1>3, BytesEverywhere
<1>5. Bytes(first, k)' = IF k < first THEN 0 ELSE Bytes(first, k - 1)' + chunks'[k].size
  BY <1>3, BytesNext
<1>6. k >= first => Bytes(first, k - 1)' = Bytes(first, k - 1) /\ chunks'[k] = chunks[k]
  BY <1>2, <1>3
<1> QED BY <1>2, <1>3, <1>4, <1>5, <1>6

LEMMA ChunkAt ==
    ASSUME chunks \in Seq(Chunk), NEW k \in 1 .. Len(chunks)
    PROVE  /\ chunks[k] \in Chunk
           /\ chunks[k].size \in Nat \ {0} /\ chunks[k].piece \in Nat
<1>1. chunks[k] \in Chunk
  OBVIOUS
<1> QED BY <1>1 DEF Chunk

LEMMA BytesAreNatural ==
    ASSUME chunks \in Seq(Chunk), NEW first \in Nat \ {0}
    PROVE  \A k \in 0 .. Len(chunks) : Bytes(first, k) \in Nat
<1> DEFINE Wrong == {k \in 0 .. Len(chunks) : Bytes(first, k) \notin Nat}
<1>1. SUFFICES ASSUME Wrong # {} PROVE FALSE
  OBVIOUS
<1>2. PICK k \in Wrong : \A j \in Wrong : k <= j
  <2>1. Wrong \in SUBSET Nat
    OBVIOUS
  <2> HIDE DEF Wrong
  <2> QED BY <1>1, <2>1, LeastNatural
<1>3. k \in Nat /\ (k < first \/ (k \in 1 .. Len(chunks) /\ k - 1 \in 0 .. Len(chunks)))
  OBVIOUS
<1>4. Bytes(first, k) = IF k < first THEN 0 ELSE Bytes(first, k - 1) + chunks[k].size
  BY <1>3, BytesEverywhere
<1>5. k >= first => Bytes(first, k - 1) \in Nat
  BY <1>2, <1>3
<1>6. k >= first => chunks[k].size \in Nat
  BY <1>3, ChunkAt
<1> QED BY <1>2, <1>3, <1>4, <1>5, <1>6

\* A read that leaves a chunk behind could not have taken it.
LEMMA ReadIsFull ==
    ASSUME NEW cursor \in Nat, chunks \in Seq(Chunk), cursor <= Len(chunks)
    PROVE  LET b == ApplyByteLimit(ChunksAfter(cursor))
           IN  cursor + Len(b) < Len(chunks)
                   => Bytes(cursor + 1, cursor + Len(b) + 1) > MaxBytes
<1> DEFINE available == ChunksAfter(cursor)
           first == Min(available)
           fitting == {i \in available : FitsLimit(first, i)}
           last == Max(fitting)
           b == ApplyByteLimit(available)
<1>0. Len(chunks) \in Nat /\ DOMAIN chunks = 1 .. Len(chunks) /\ MaxBytes \in Nat
  BY ProcessAssumption
<1>1. available = cursor + 1 .. Len(chunks)
  BY <1>0 DEF ChunksAfter
<1>2. CASE available = {}
  <2>1. cursor >= Len(chunks)
    <3>1. cursor + 1 .. Len(chunks) = {}
      BY <1>1, <1>2
    <3> QED BY <1>0, <3>1
  <2>2. b = <<>> /\ Len(<<>>) = 0
    BY <1>2 DEF ApplyByteLimit
  <2> HIDE DEF b
  <2>3. ~(cursor + Len(b) < Len(chunks))
    BY <1>0, <2>1, <2>2
  <2> QED BY <2>3 DEF b
<1>3. CASE available # {}
  <2>1. available \in SUBSET Nat /\ cursor + 1 \in available
    BY <1>0, <1>1, <1>3
  <2>2. first = cursor + 1
    BY <1>1, <2>1, MinIsLeast
  <2>3. fitting \in SUBSET Nat /\ first \in fitting /\ \A y \in fitting : y <= Len(chunks)
    BY <1>0, <1>1, <2>1, <2>2 DEF FitsLimit
  <2>4. last \in fitting /\ \A y \in fitting : y <= last
    BY <1>0, <2>3, MaxIsGreatest
  <2>5. b = [k \in 1 .. last - first + 1 |-> first + k - 1]
    BY <1>3 DEF ApplyByteLimit
  <2>6. last \in cursor + 1 .. Len(chunks) /\ FitsLimit(first, last)
    BY <1>1, <2>4
  <2>7. last + 1 \notin fitting
    BY <2>4, <2>6
  <2> HIDE DEF available, first, fitting, last, b
  <2>8. Len(b) = last - cursor /\ cursor + Len(b) = last
    BY <1>0, <2>2, <2>5, <2>6
  <2> SUFFICES ASSUME last < Len(chunks)
               PROVE  Bytes(cursor + 1, last + 1) > MaxBytes
    BY <2>8 DEF b, available
  <2>9. ~FitsLimit(cursor + 1, last + 1)
    <3>1. last + 1 \in available
      BY <1>0, <1>1, <2>6
    <3> QED BY <2>2, <2>7, <3>1 DEF fitting
  <2>10. PICK i \in cursor + 2 .. last + 1 :
            ~(Bytes(cursor + 1, i) <= MaxBytes /\ Bytes(cursor + 1, i - 1) < MaxBytes)
    BY <2>9 DEF FitsLimit
  <2>11. i = last + 1
    BY <2>2, <2>6, <2>10 DEF FitsLimit
  <2>12. Bytes(cursor + 1, last + 1) = Bytes(cursor + 1, last) + chunks[last + 1].size
    BY <1>0, <2>6, BytesEverywhere
  <2>13. /\ chunks[last + 1].size \in Nat \ {0}
         /\ Bytes(cursor + 1, last) \in Nat /\ Bytes(cursor + 1, last + 1) \in Nat
    <3>1. last \in 0 .. Len(chunks) /\ last + 1 \in 1 .. Len(chunks) /\ cursor + 1 \in Nat \ {0}
      BY <1>0, <2>6
    <3>2. last + 1 \in 0 .. Len(chunks)
      BY <3>1
    <3> QED BY <3>1, <3>2, BytesAreNatural, ChunkAt
  <2> QED BY <1>0, <2>6, <2>10, <2>11, <2>12, <2>13
<1> QED BY <1>2, <1>3

-----------------------------------------------------------------------------
(* What the output loses.                                                   *)

\* Nothing but the buffer's limit keeps a piece out of the chunks.
ChunksAreOutput ==
    /\ \A i \in DOMAIN chunks : chunks[i].piece <= produced
    /\ ~truncated => \A i \in DOMAIN chunks : chunks[i].piece = i

\* What is left after the last read, and what that read still has to append,
\* did not fit into it.
LastReadIsFull ==
    /\ pc = "read" => seen.status = "running"
    /\ pc = "end" /\ outcome # "threw" => batch = <<>>
    /\ seen.status = "exited" /\ outcome # "threw" /\ afterSeq + Len(batch) < Len(chunks)
           => Bytes(seen.from + 1, afterSeq + Len(batch) + 1) > MaxBytes

Accountable ==
    /\ BufferIsBounded
    /\ WholeUntilNotice
    /\ ChunksAreOutput
    /\ LastReadIsFull

\* A chunk more, within the limit.
LEMMA BufferGrows ==
    ASSUME TypeOK, BufferIsBounded, NEW c \in Chunk, outputBytes + c.size <= MaxOutputBytes,
           chunks' = Append(chunks, c), outputBytes' = outputBytes + c.size
    PROVE  BufferIsBounded'
<1>1. /\ chunks \in Seq(Chunk) /\ Len(chunks) \in Nat /\ outputBytes \in Nat
      /\ Len(chunks') = Len(chunks) + 1
      /\ \A k \in 1 .. Len(chunks) : chunks'[k] = chunks[k]
      /\ chunks'[Len(chunks) + 1] = c
  BY DEF TypeOK
<1>2. PICK n \in Nat : n = Len(chunks)
  BY <1>1
<1>3. Bytes(1, n)' = Bytes(1, n)
  BY <1>1, <1>2, BytesKept
<1>4. Bytes(1, n + 1)' = Bytes(1, n)' + chunks'[n + 1].size
  <2>1. PICK m \in Nat : m = n + 1
    OBVIOUS
  <2>2. ~(m < 1) /\ m - 1 = n
    BY <2>1
  <2>3. PICK first \in Nat \ {0} : first = 1
    OBVIOUS
  <2>4. Bytes(first, m)' = IF m < first THEN 0 ELSE Bytes(first, m - 1)' + chunks'[m].size
    BY BytesNext
  <2> QED BY <2>1, <2>2, <2>3, <2>4
<1>5. c.size \in Nat
  BY DEF Chunk
<1>6. outputBytes' = Bytes(1, n + 1)' /\ outputBytes' <= MaxOutputBytes
  BY <1>1, <1>2, <1>3, <1>4, <1>5 DEF BufferIsBounded
<1>7. Len(chunks') = n + 1
  BY <1>1, <1>2
<1> QED BY <1>6, <1>7 DEF BufferIsBounded

\* A chunk more: what its piece has to be.
LEMMA ChunksGrow ==
    ASSUME TypeOK, WholeUntilNotice, ChunksAreOutput, NEW c \in Chunk,
           chunks' = Append(chunks, c), produced' = produced + 1,
           \/ /\ c.piece = produced + 1
              /\ truncated' = truncated
           \/ /\ c.piece = 0
              /\ ~truncated /\ truncated'
    PROVE  WholeUntilNotice' /\ ChunksAreOutput'
<1>1. /\ chunks \in Seq(Chunk) /\ Len(chunks) \in Nat /\ produced \in Nat
      /\ DOMAIN chunks = 1 .. Len(chunks) /\ DOMAIN chunks' = 1 .. Len(chunks) + 1
      /\ Len(chunks') = Len(chunks) + 1
      /\ \A k \in 1 .. Len(chunks) : chunks'[k] = chunks[k]
      /\ chunks'[Len(chunks) + 1] = c
  BY DEF TypeOK
<1> DEFINE n == Len(chunks) + 1
<1>2. \A k \in DOMAIN chunks' : k # n => k \in DOMAIN chunks /\ chunks'[k] = chunks[k]
  BY <1>1
<1>3. \A k \in DOMAIN chunks : chunks[k].piece \in Nat
  BY <1>1, ChunkAt
<1>4. c.piece \in Nat
  BY DEF Chunk
<1>5. ~truncated => Len(chunks) = produced /\ \A i \in DOMAIN chunks : chunks[i].piece = i
  BY DEF WholeUntilNotice, ChunksAreOutput
<1>6. \A i \in DOMAIN chunks' : chunks'[i].piece <= produced'
  <2> TAKE i \in DOMAIN chunks'
  <2>1. CASE i = n
    BY <1>1, <2>1
  <2>2. CASE i # n
    <3>1. chunks[i].piece <= produced /\ chunks[i].piece \in Nat
      BY <1>2, <1>3, <2>2 DEF ChunksAreOutput
    <3> QED BY <1>1, <1>2, <2>2, <3>1
  <2> QED BY <2>1, <2>2
<1>7. ~truncated' => \A i \in DOMAIN chunks' : chunks'[i].piece = i
  <2> SUFFICES ASSUME ~truncated', NEW i \in DOMAIN chunks'
               PROVE  chunks'[i].piece = i
    OBVIOUS
  <2>1. ~truncated /\ c.piece = produced + 1
    OBVIOUS
  <2> QED BY <1>1, <1>2, <1>5, <2>1
<1>8. \A i, j \in DOMAIN chunks' :
         i < j /\ chunks'[i].piece # 0 /\ chunks'[j].piece # 0 => chunks'[i].piece < chunks'[j].piece
  <2> SUFFICES ASSUME NEW i \in DOMAIN chunks', NEW j \in DOMAIN chunks', i < j,
                      chunks'[i].piece # 0, chunks'[j].piece # 0
               PROVE  chunks'[i].piece < chunks'[j].piece
    OBVIOUS
  <2>1. i # n /\ i \in DOMAIN chunks /\ chunks'[i] = chunks[i]
    BY <1>1, <1>2
  <2>2. CASE j = n
    <3>1. chunks[i].piece <= produced /\ chunks[i].piece \in Nat
      BY <1>3, <2>1 DEF ChunksAreOutput
    <3> QED BY <1>1, <2>1, <2>2, <3>1
  <2>3. CASE j # n
    BY <1>2, <2>1, <2>3 DEF WholeUntilNotice
  <2> QED BY <2>2, <2>3
<1>9. \A i \in DOMAIN chunks' : chunks'[i].piece = 0 => \A j \in 1 .. i - 1 : chunks'[j].piece = j
  <2> SUFFICES ASSUME NEW i \in DOMAIN chunks', chunks'[i].piece = 0, NEW j \in 1 .. i - 1
               PROVE  chunks'[j].piece = j
    OBVIOUS
  <2>1. j \in DOMAIN chunks /\ chunks'[j] = chunks[j]
    BY <1>1
  <2>2. CASE i = n
    <3>1. ~truncated
      BY <1>1, <2>2
    <3> QED BY <1>5, <2>1, <3>1
  <2>3. CASE i # n
    BY <1>2, <2>1, <2>3 DEF WholeUntilNotice
  <2> QED BY <2>2, <2>3
<1>10. ~truncated' => Len(chunks') = produced'
  <2> SUFFICES ASSUME ~truncated' PROVE Len(chunks') = produced'
    OBVIOUS
  <2>1. ~truncated
    OBVIOUS
  <2> QED BY <1>1, <1>5, <2>1
<1> QED BY <1>6, <1>7, <1>8, <1>9, <1>10 DEF WholeUntilNotice, ChunksAreOutput

LEMMA OutputAccountable ==
    ASSUME Coherent, Accountable, NEW size \in Sizes, Output(size)
    PROVE  Accountable'
<1>1. /\ TypeOK /\ produced \in Nat /\ outputBytes \in Nat /\ MaxOutputBytes \in Nat
      /\ size \in Nat \ {0} /\ NoticeSize \in Nat \ {0} /\ truncated \in BOOLEAN
      /\ BufferIsBounded /\ WholeUntilNotice /\ ChunksAreOutput
      /\ produced' = produced + 1 /\ PushOutput(produced + 1, size)
  BY ProcessAssumption DEF Coherent, TypeOK, Accountable, Output
<1>2. LastReadIsFull'
  <2>1. seen.status # "exited"
    BY DEF Coherent, SeenIsStillTrue, EndIsSettled, Output
  <2> QED BY <2>1 DEF Accountable, LastReadIsFull, Output, readerVars
<1>3. CASE outputBytes + size <= MaxOutputBytes
  <2> DEFINE c == [piece |-> produced + 1, size |-> size]
  <2>1. /\ c \in Chunk /\ c.size = size /\ c.piece = produced + 1
        /\ chunks' = Append(chunks, c) /\ outputBytes' = outputBytes + size /\ truncated' = truncated
    BY <1>1, <1>3 DEF PushOutput, Chunk
  <2> HIDE DEF c
  <2> QED BY <1>1, <1>2, <1>3, <2>1, BufferGrows, ChunksGrow DEF Accountable
<1>4. CASE ~(outputBytes + size <= MaxOutputBytes) /\ ~truncated /\ outputBytes + NoticeSize <= MaxOutputBytes
  <2> DEFINE c == [piece |-> 0, size |-> NoticeSize]
  <2>1. /\ c \in Chunk /\ c.size = NoticeSize /\ c.piece = 0
        /\ chunks' = Append(chunks, c) /\ outputBytes' = outputBytes + NoticeSize /\ truncated'
    BY <1>1, <1>4 DEF PushOutput, Chunk
  <2> HIDE DEF c
  <2> QED BY <1>1, <1>2, <1>4, <2>1, BufferGrows, ChunksGrow DEF Accountable
<1>5. CASE /\ ~(outputBytes + size <= MaxOutputBytes)
           /\ ~(~truncated /\ outputBytes + NoticeSize <= MaxOutputBytes)
  <2>1. chunks' = chunks /\ outputBytes' = outputBytes /\ truncated'
    BY <1>1, <1>5 DEF PushOutput
  <2>2. BufferIsBounded'
    <3>1. /\ Len(chunks) \in Nat
          /\ \A k \in 1 .. Len(chunks) : chunks'[k] = chunks[k]
      BY <1>1, <2>1 DEF TypeOK
    <3>2. PICK n \in Nat : n = Len(chunks) /\ \A k \in 1 .. n : chunks'[k] = chunks[k]
      BY <3>1
    <3>3. Bytes(1, n)' = Bytes(1, n)
      BY <3>2, BytesKept
    <3> QED BY <1>1, <2>1, <3>2, <3>3 DEF BufferIsBounded
  <2>3. WholeUntilNotice' /\ ChunksAreOutput'
    <3>1. \A i \in DOMAIN chunks : chunks[i].piece \in Nat /\ chunks[i].piece <= produced
      <4>1. chunks \in Seq(Chunk) /\ DOMAIN chunks = 1 .. Len(chunks)
        BY <1>1 DEF TypeOK
      <4> QED BY <1>1, <4>1, ChunkAt DEF ChunksAreOutput
    <3>2. \A i \in DOMAIN chunks : chunks[i].piece <= produced + 1
      BY <1>1, <3>1
    <3> QED BY <1>1, <2>1, <3>2 DEF WholeUntilNotice, ChunksAreOutput
  <2> QED BY <1>2, <2>2, <2>3 DEF Accountable
<1> QED BY <1>3, <1>4, <1>5

\* Steps that leave the output alone.
LEMMA OutputKept ==
    ASSUME Coherent, Accountable, UNCHANGED outputVars
    PROVE  BufferIsBounded' /\ WholeUntilNotice' /\ ChunksAreOutput'
<1>1. chunks' = chunks /\ UNCHANGED outputVars
  BY DEF outputVars
<1>2. PICK n \in Nat : n = Len(chunks) /\ \A k \in 1 .. n : chunks'[k] = chunks[k]
  BY <1>1 DEF Coherent, TypeOK
<1>3. Bytes(1, n)' = Bytes(1, n)
  BY <1>2, BytesKept
<1> QED BY <1>1, <1>2, <1>3
        DEF Accountable, BufferIsBounded, WholeUntilNotice, ChunksAreOutput, outputVars

\* The loop goes on with `rest` of a read that was as full as it could be.
LEMMA ContinueAccountable ==
    ASSUME Coherent, Accountable, UNCHANGED outputVars, outcome # "threw",
           NEW rest \in Seq(Nat), NEW read \in ReadResult, Continue(rest, read),
           NEW cursor \in Nat, afterSeq' = cursor,
           read.status = "exited" /\ cursor + Len(rest) < Len(chunks)
               => Bytes(read.from + 1, cursor + Len(rest) + 1) > MaxBytes
    PROVE  Accountable'
<1>1. /\ batch' = rest /\ seen' = read
      /\ pc' \in {"append", "read", "end"}
      /\ pc' = "read" => read.status = "running"
      /\ pc' = "end" => rest = <<>>
      /\ chunks' = chunks
  BY DEF Continue, outputVars
<1>2. LastReadIsFull'
  <2>1. SUFFICES ASSUME read.status = "exited", cursor + Len(rest) < Len(chunks)
                 PROVE  Bytes(read.from + 1, cursor + Len(rest) + 1)' > MaxBytes
    BY <1>1 DEF LastReadIsFull
  <2>2. PICK n \in Nat : n = cursor + Len(rest) + 1 /\ n <= Len(chunks)
    BY <2>1 DEF Coherent, TypeOK
  <2>3. PICK from \in Nat \ {0} : from = read.from + 1
    BY DEF ReadResult
  <2>4. Bytes(from, n)' = Bytes(from, n)
    BY <1>1, BytesKept
  <2> QED BY <2>1, <2>2, <2>3, <2>4
<1> QED BY <1>2, OutputKept DEF Accountable

LEMMA ReadAccountable ==
    ASSUME Coherent, Accountable, Read
    PROVE  Accountable'
<1> DEFINE rest == ApplyByteLimit(ChunksAfter(afterSeq))
           read == [status |-> status, failure |-> failure, exitCode |-> exitCode,
                    from |-> afterSeq]
<1>1. /\ afterSeq \in Nat /\ chunks \in Seq(Chunk) /\ afterSeq <= Len(chunks)
      /\ outcome # "threw" /\ UNCHANGED outputVars /\ afterSeq' = afterSeq
      /\ Continue(rest, read) /\ read \in ReadResult
  BY DEF Coherent, ReaderIsInStep, LogFollowsOutput, SeenIsStillTrue, TypeOK, Read, outputVars, ReadResult
<1>2. /\ rest \in Seq(Nat)
      /\ afterSeq + Len(rest) < Len(chunks) => Bytes(afterSeq + 1, afterSeq + Len(rest) + 1) > MaxBytes
  BY <1>1, ReadContinues, ReadIsFull
<1>3. read.from = afterSeq
  OBVIOUS
<1> HIDE DEF rest, read
<1>4. PICK cursor \in Nat : cursor = afterSeq
  BY <1>1
<1> QED BY <1>1, <1>2, <1>3, <1>4, ContinueAccountable

LEMMA AppendEventAccountable ==
    ASSUME Coherent, Accountable, AppendEvent
    PROVE  Accountable'
<1>1. /\ batch \in Seq(Nat) /\ Len(batch) \in Nat \ {0} /\ afterSeq \in Nat
      /\ outcome # "threw" /\ UNCHANGED outputVars /\ seen \in ReadResult
      /\ Continue(Tail(batch), seen)
  <2>1. batch # <<>> /\ batch \in Seq(Nat)
    BY DEF Coherent, ReaderIsInStep, AppendEvent, TypeOK
  <2>2. Len(batch) \in Nat \ {0}
    BY <2>1
  <2> QED BY <2>1, <2>2 DEF Coherent, SeenIsStillTrue, AppendEvent, TypeOK, outputVars
<1>2. Head(batch) = afterSeq + 1
  <2>1. batch[1] = afterSeq + 1
    BY <1>1 DEF Coherent, ReaderIsInStep
  <2> QED BY <1>1, <2>1
<1>3. PICK cursor \in Nat : cursor = afterSeq + 1 /\ afterSeq' = cursor
  BY <1>1, <1>2 DEF AppendEvent
<1>4. /\ Tail(batch) \in Seq(Nat) /\ Len(Tail(batch)) = Len(batch) - 1
      /\ cursor + Len(Tail(batch)) = afterSeq + Len(batch)
  BY <1>1, <1>3
<1>5. PICK rest \in Seq(Nat) : rest = Tail(batch)
  BY <1>4
<1>6. seen.status = "exited" /\ cursor + Len(rest) < Len(chunks)
         => Bytes(seen.from + 1, cursor + Len(rest) + 1) > MaxBytes
  BY <1>1, <1>4, <1>5 DEF Accountable, LastReadIsFull
<1>7. PICK read \in ReadResult : read = seen
  BY <1>1
<1> QED BY <1>1, <1>3, <1>5, <1>6, <1>7, ContinueAccountable

LEMMA OthersAccountable ==
    ASSUME Coherent, Accountable, UNCHANGED outputVars,
           \/ UNCHANGED readerVars
           \/ outcome' = "threw" /\ pc' = "end"
    PROVE  Accountable'
<1>1. LastReadIsFull'
  <2>1. CASE outcome' = "threw" /\ pc' = "end"
    BY <2>1 DEF LastReadIsFull
  <2>2. CASE UNCHANGED readerVars
    <3>1. SUFFICES ASSUME seen.status = "exited", outcome # "threw", afterSeq + Len(batch) < Len(chunks)
                   PROVE  Bytes(seen.from + 1, afterSeq + Len(batch) + 1)' > MaxBytes
      BY <2>2 DEF LastReadIsFull, Accountable, readerVars, outputVars
    <3>2. PICK n \in Nat : n = afterSeq + Len(batch) + 1 /\ n <= Len(chunks)
      BY <3>1 DEF Coherent, TypeOK
    <3>3. PICK from \in Nat \ {0} : from = seen.from + 1
      BY DEF Coherent, TypeOK, ReadResult
    <3>4. Bytes(from, n)' = Bytes(from, n)
      BY BytesKept DEF outputVars
    <3> QED BY <2>2, <3>1, <3>2, <3>3, <3>4 DEF Accountable, LastReadIsFull, readerVars
  <2> QED BY <2>1, <2>2
<1> QED BY <1>1, OutputKept DEF Accountable

\* Between a child and the log of its run only the buffer's limit and that of
\* the last read lose output, and the first leaves a mark.
THEOREM OutputIsAccountedFor == Spec => []OnlyTheLimitLosesOutput
<1>1. Init => Accountable
  <2> SUFFICES ASSUME Init PROVE Accountable
    OBVIOUS
  <2>1. Bytes(1, 0) = 0
    BY BytesEverywhere
  <2>2. chunks = <<>> /\ Len(chunks) = 0 /\ DOMAIN chunks = {}
    BY DEF Init
  <2> QED BY <2>1, <2>2, ProcessAssumption
          DEF Init, Accountable, BufferIsBounded, WholeUntilNotice, ChunksAreOutput, LastReadIsFull
<1>2. ASSUME Coherent, Accountable, [Next]_vars
      PROVE  Accountable'
  <2>1. CASE Spawn \/ (\E code \in ExitCodes : Close(code)) \/ TimeoutFires \/ Cancel \/ CloseManager
    BY <1>2, <2>1, OthersAccountable DEF Spawn, Close, TimeoutFires, Cancel, CloseManager
  <2>2. CASE AppendThrows
    BY <1>2, <2>2, OthersAccountable DEF AppendThrows
  <2>3. CASE UNCHANGED vars
    BY <1>2, <2>3, OthersAccountable DEF vars
  <2> QED BY <1>2, <2>1, <2>2, <2>3, OutputAccountable, ReadAccountable, AppendEventAccountable DEF Next
<1>3. Coherent /\ Accountable => OnlyTheLimitLosesOutput
  <2> SUFFICES ASSUME Coherent, Accountable
               PROVE  ReadToTheEnd
    BY DEF Accountable, OnlyTheLimitLosesOutput
  <2>1. SUFFICES ASSUME pc = "end", outcome # "threw", seen.status = "exited", afterSeq < Len(chunks)
                 PROVE  Bytes(seen.from + 1, afterSeq + 1) > MaxBytes
    BY DEF ReadToTheEnd
  <2>2. Len(batch) = 0 /\ afterSeq \in Nat
    BY <2>1 DEF Accountable, LastReadIsFull, Coherent, TypeOK
  <2>3. afterSeq + Len(batch) = afterSeq
    BY <2>2
  <2> QED BY <2>1, <2>3 DEF Accountable, LastReadIsFull
<1> QED BY <1>1, <1>2, <1>3, CoherentAlways, PTL DEF Spec
=============================================================================
