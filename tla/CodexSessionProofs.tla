------------------------- MODULE CodexSessionProofs -------------------------
(***************************************************************************)
(* Proofs about CodexSession, for any frames, chunk size and output cap.   *)
(*                                                                         *)
(* First, the composition implements PipeReader: the exchange and its      *)
(* child use the reader thread in no way that module does not describe, so *)
(* what PipeReaderProofs shows of the thread holds inside every exchange.  *)
(* Then, from an invariant that types the bytes on their way, that partial *)
(* reads are put together again without a byte lost or moved; from one of  *)
(* the cleanup's order, that what it leaves is reported; and from one of   *)
(* the handshake's progress, that a payload means the whole of it.  Last,  *)
(* which cleanup failures go unreported, and that every exchange runs out  *)
(* of work.                                                                *)
(***************************************************************************)
EXTENDS CodexSession, PipeReaderProofs

(* No step of an exchange is foreign to PipeReader. *)
LEMMA SessionStepsReader ==
  SessionNext => [ReaderNext]_readerVars
<1> SUFFICES ASSUME SessionNext
             PROVE  ReaderNext \/ UNCHANGED readerVars
  BY Zenon
<1>1. CASE Environment
  <2>1. CASE ChildSends
    BY <2>1 DEF ChildSends, ReaderNext
  <2>2. CASE ChildClosesStdout
    BY <2>2 DEF ChildClosesStdout, ReaderNext
  <2>3. CASE ChildExits \/ DeadlinePasses
    BY <2>3 DEF ChildExits, DeadlinePasses
  <2> QED
    BY <1>1, <2>1, <2>2, <2>3 DEF Environment
<1>2. CASE SessionStep
  <2>1. CASE StartProcess
    BY <2>1 DEF StartProcess, ReaderNext
  <2>2. CASE StartFails \/ StartProcessWithoutReader
    BY <2>2 DEF StartFails, StartProcessWithoutReader
  <2>3. CASE SendInitialize \/ SendInitialized \/ SendRequest
    BY <2>3 DEF SendInitialize, SendInitialized, SendRequest, CheckAndWrite
  <2>4. CASE TakeLine \/ NeedMore \/ ReadRemainder \/ ReadTimesOut \/ ProbePending \/ Poll
    BY <2>4 DEF TakeLine, NeedMore, ReadRemainder, ReadTimesOut, ProbePending, Poll
  <2>5. CASE ReadSignal
    BY <2>5 DEF ReadSignal, ReaderNext, OwnerStep
  <2>6. CASE CloseStdin \/ Terminate \/ Wait \/ Kill \/ WaitKilled
    BY <2>6 DEF CloseStdin, Terminate, Wait, Kill, WaitKilled
  <2>7. CASE Close
    BY <2>7 DEF Close, ReaderNext, OwnerStep
  <2>8. CASE StopReader
    BY <2>8 DEF StopReader, ReaderNext, OwnerStep
  <2>9. CASE JoinReader
    BY <2>9 DEF JoinReader, ReaderNext, OwnerStep
  <2> QED
    BY <1>2, <2>1, <2>2, <2>3, <2>4, <2>5, <2>6, <2>7, <2>8, <2>9 DEF SessionStep
<1>3. CASE ThreadStep
  BY <1>3 DEF ThreadStep, ReaderNext
<1>4. CASE CleanupRaises
  <2>1. CASE CloseRaises
    BY <2>1 DEF CloseRaises, ReaderNext, OwnerStep
  <2>2. CASE ~CloseRaises
    BY <1>4, <2>2
    DEF CleanupRaises, CloseStdinRaises, TerminateRaises, WaitRaises, KillRaises,
        WaitKilledRaises
  <2> QED
    BY <2>1, <2>2
<1>5. CASE UNCHANGED allVars
  BY <1>5 DEF allVars
<1> QED
  BY <1>1, <1>2, <1>3, <1>4, <1>5 DEF SessionNext

(* Every exchange uses the reader thread, its queue and its descriptor as  *)
(* PipeReader says: the composition implements it.                         *)
THEOREM SessionUsesReader == SessionSpec => ReadsThroughPipeReader
<1>1. SessionInit => ReaderInit
  BY DEF SessionInit
<1>2. [SessionNext]_allVars => [ReaderNext]_readerVars
  <2>1. UNCHANGED allVars => UNCHANGED readerVars
    BY DEF allVars
  <2> QED
    BY <2>1, SessionStepsReader
<1> QED
  BY <1>1, <1>2, PTL DEF SessionSpec, ReaderSpec, ReadsThroughPipeReader

(* Until stdout is closed no byte is lost between the child and the queue. *)
THEOREM SessionLosesNoByte == SessionSpec => []BytesConserved
  BY SessionUsesReader, NoByteLost DEF ReadsThroughPipeReader

(***************************************************************************)
(* The invariant.  Outside the cleanup the cap has not been passed, and    *)
(* when a chunk is asked for there is some of it left, so that Maximum is  *)
(* a positive number of bytes.                                             *)
(***************************************************************************)
Reading == {"start", "initialize", "line", "read", "initialized", "request",
            "probe", "poll"}

BytesTyped ==
  /\ remainder \in Seq(AllBytes) /\ Len(remainder) < ReadChunk
  /\ buffer \in Seq(AllBytes)
  /\ taken \in Seq(AllBytes)
  /\ output \in 0 .. MaxOutput + 1

CapKept ==
  /\ phase \in Reading => output <= MaxOutput
  /\ phase = "read" => output < MaxOutput

SessionInv == BytesTyped /\ CapKept /\ LinesAreFaithful

LEMMA Reassociate ==
  ASSUME NEW x \in Seq(AllBytes), NEW y \in Seq(AllBytes), NEW z \in Seq(AllBytes)
  PROVE  (x \o y) \o z = x \o (y \o z)
BY ConcatAssociative

(* What is read is put behind what is there, in one piece or in two. *)
LEMMA InTwoPieces ==
  ASSUME BytesTyped, NEW front \in Seq(AllBytes), NEW back \in Seq(AllBytes)
  PROVE  taken \o (buffer \o front) \o back = taken \o buffer \o (front \o back)
<1> DEFINE start == taken \o buffer
<1>1. taken \in Seq(AllBytes) /\ buffer \in Seq(AllBytes)
  BY DEF BytesTyped
<1>2. start \in Seq(AllBytes)
  BY <1>1, ConcatProperties
<1>3. start \o front = taken \o (buffer \o front)
  BY <1>1, Reassociate
<1> HIDE DEF start
<1>4. (start \o front) \o back = start \o (front \o back)
  BY <1>2, Reassociate
<1> QED
  BY <1>3, <1>4 DEF start

(* A sequence cut after its first n elements. *)
LEMMA Cutting ==
  ASSUME NEW s \in Seq(AllBytes), NEW n \in Nat \ {0}
  PROVE  /\ UpTo(n, s) \in Seq(AllBytes) /\ Beyond(n, s) \in Seq(AllBytes)
         /\ UpTo(n, s) \o Beyond(n, s) = s
         /\ Len(UpTo(n, s)) \in 0 .. n
         /\ s # <<>> => Len(Beyond(n, s)) < Len(s)
<1>1. Len(s) \in Nat
  BY LenProperties
<1>2. CASE n < Len(s)
  <2>1. UpTo(n, s) = SubSeq(s, 1, n) /\ Beyond(n, s) = SubSeq(s, n + 1, Len(s))
    BY <1>2 DEF UpTo, Beyond
  <2>2. SubSeq(s, 1, n) \o SubSeq(s, n + 1, Len(s)) = s
    <3>1. n \in 0 .. Len(s)
      BY <1>1, <1>2
    <3> QED
      BY <3>1, SplitAtChunk, SubSeqFull
  <2>3. /\ SubSeq(s, 1, n) \in Seq(AllBytes) /\ SubSeq(s, n + 1, Len(s)) \in Seq(AllBytes)
        /\ Len(SubSeq(s, 1, n)) = n /\ Len(SubSeq(s, n + 1, Len(s))) = Len(s) - n
    BY <1>1, <1>2
  <2>4. Len(s) - n < Len(s) /\ n \in 0 .. n
    BY <1>1
  <2>5. /\ UpTo(n, s) \in Seq(AllBytes) /\ Beyond(n, s) \in Seq(AllBytes)
        /\ UpTo(n, s) \o Beyond(n, s) = s
    BY <2>1, <2>2, <2>3, Zenon
  <2>6. Len(UpTo(n, s)) \in 0 .. n /\ Len(Beyond(n, s)) < Len(s)
    <3>1. Len(UpTo(n, s)) = n /\ Len(Beyond(n, s)) = Len(s) - n
      BY <2>1, <2>3, Zenon
    <3> QED
      BY <2>4, <3>1
  <2> QED
    BY <2>5, <2>6, Zenon
<1>3. CASE ~(n < Len(s))
  <2>1. UpTo(n, s) = s
    BY <1>3, SubSeqFull DEF UpTo
  <2>2. Beyond(n, s) = <<>>
    BY <1>1, <1>3, SubSeqEmpty DEF Beyond
  <2>3. <<>> \in Seq(AllBytes) /\ Len(<<>>) = 0 /\ s \o <<>> = s
    BY EmptySeq, ConcatEmptySeq
  <2> QED
    BY <1>1, <1>3, <2>1, <2>2, <2>3, EmptySeq
<1> QED
  BY <1>2, <1>3

(* _PopenProcess.read with what is on the way: bytes that come after those *)
(* of taken and buffer are still after them, in the buffer or remainder.   *)
LEMMA SplitKeeps ==
  ASSUME BytesTyped, CapKept, MayRead,
         NEW bytes \in Seq(AllBytes), Len(bytes) \in 1 .. ReadChunk,
         Split(bytes)
  PROVE  /\ BytesTyped' /\ CapKept'
         /\ output' <= MaxOutput =>
              taken' \o buffer' \o remainder' = taken \o buffer \o bytes
<1> DEFINE front == UpTo(Maximum, bytes)
           back == Beyond(Maximum, bytes)
<1>1. /\ Maximum \in 1 .. ReadChunk
      /\ phase = "read" => Maximum <= MaxOutput - output
      /\ phase # "read" => Maximum = 1
      /\ output <= MaxOutput
  BY ReadChunkAssumption, MaxOutputAssumption
  DEF BytesTyped, CapKept, MayRead, Maximum, Budget, Reading
<1>2. /\ front \in Seq(AllBytes) /\ back \in Seq(AllBytes)
      /\ front \o back = bytes
      /\ Len(front) \in 0 .. Maximum
      /\ Len(back) < ReadChunk
  <2>1. Maximum \in Nat \ {0}
    BY <1>1
  <2>2. bytes # <<>>
    BY EmptySeq
  <2>3. /\ front \in Seq(AllBytes) /\ back \in Seq(AllBytes)
        /\ front \o back = bytes
        /\ Len(front) \in 0 .. Maximum
        /\ Len(back) < Len(bytes)
    BY <2>1, <2>2, Cutting
  <2>4. Len(back) \in Nat /\ Len(bytes) \in Nat
    BY <2>3, LenProperties
  <2> QED
    BY <2>3, <2>4, ReadChunkAssumption
<1> HIDE DEF front, back
<1>3. /\ Accept(front) /\ remainder' = back /\ taken' = taken
  BY DEF Split, front, back
<1>4. output' = output + Len(front) /\ output' \in 0 .. MaxOutput + 1
  BY <1>1, <1>2, <1>3, MaxOutputAssumption DEF Accept, BytesTyped
<1>5. CASE output' > MaxOutput
  <2>1. phase' = "closeStdin" /\ buffer' = buffer
    BY <1>3, <1>4, <1>5, MaxOutputAssumption DEF Accept, Raise, CleanUp
  <2> QED
    BY <1>2, <1>3, <1>4, <1>5, <2>1, MaxOutputAssumption
    DEF BytesTyped, CapKept, Reading
<1>6. CASE output' <= MaxOutput
  <2>1. phase' \in {"closeStdin", "line"} /\ buffer' = buffer \o front
    BY <1>3, <1>4, <1>6, MaxOutputAssumption DEF Accept, Raise, CleanUp, Goto
  <2>2. buffer' \in Seq(AllBytes)
    BY <1>2, <2>1, ConcatProperties DEF BytesTyped
  <2>3. taken \o (buffer \o front) \o back = taken \o buffer \o bytes
    <3>1. front \in Seq(AllBytes) /\ back \in Seq(AllBytes)
      BY <1>2
    <3>2. taken \o (buffer \o front) \o back = taken \o buffer \o (front \o back)
      BY <3>1, InTwoPieces
    <3> QED
      BY <1>2, <3>2
  <2> QED
    BY <1>2, <1>3, <1>4, <1>6, <2>1, <2>2, <2>3, MaxOutputAssumption
    DEF BytesTyped, CapKept, Reading
<1>7. output' > MaxOutput \/ output' <= MaxOutput
  BY <1>4, MaxOutputAssumption
<1> QED
  BY <1>5, <1>6, <1>7, Zenon

(* A line taken out of the buffer only moves to taken. *)
LEMMA TakeLineKeeps ==
  ASSUME ReaderTypeOK, SessionInv, TakeLine
  PROVE  BytesTyped' /\ LinesAreFaithful'
<1>1. PICK n \in 1 .. Len(buffer) :
        /\ buffer' = SubSeq(buffer, n + 1, Len(buffer))
        /\ taken' = taken \o SubSeq(buffer, 1, n)
  BY DEF TakeLine
<1> DEFINE line == SubSeq(buffer, 1, n)
           rest == SubSeq(buffer, n + 1, Len(buffer))
<1>2. /\ buffer \in Seq(AllBytes) /\ taken \in Seq(AllBytes)
      /\ remainder \in Seq(AllBytes) /\ Len(buffer) \in Nat
  BY LenProperties DEF SessionInv, BytesTyped
<1>3. line \in Seq(AllBytes) /\ rest \in Seq(AllBytes) /\ line \o rest = buffer
  <2>1. n \in 0 .. Len(buffer)
    BY <1>2
  <2>2. line \o rest = buffer
    BY <1>2, <2>1, SplitAtChunk, SubSeqFull
  <2> QED
    BY <1>2, <2>1, <2>2
<1> HIDE DEF line, rest
<1>4. taken' = taken \o line /\ buffer' = rest /\ UNCHANGED <<remainder, output, delivered>>
  BY <1>1 DEF line, rest, TakeLine, readerVars
<1>5. taken' \in Seq(AllBytes)
  BY <1>2, <1>3, <1>4, ConcatProperties
<1>6. taken' \o buffer' = taken \o buffer
  <2>1. (taken \o line) \o rest = taken \o (line \o rest)
    <3>1. taken \in Seq(AllBytes) /\ line \in Seq(AllBytes) /\ rest \in Seq(AllBytes)
      BY <1>2, <1>3
    <3> QED
      BY <3>1, ConcatAssociative
  <2> QED
    BY <1>3, <1>4, <2>1
<1>7. BytesTyped'
  BY <1>3, <1>4, <1>5 DEF SessionInv, BytesTyped
<1> QED
  BY <1>4, <1>6, <1>7 DEF SessionInv, LinesAreFaithful

(* What comes out of the queue goes to the buffer and the remainder. *)
LEMMA ReadSignalKeeps ==
  ASSUME ReaderTypeOK, SessionInv, ReadSignal
  PROVE  BytesTyped' /\ CapKept' /\ LinesAreFaithful'
<1> DEFINE signal == Head(signals)
<1>1. /\ MayRead /\ remainder = <<>> /\ signals # <<>>
      /\ delivered' = delivered \o signal.data
  BY DEF ReadSignal, Get
<1>2. signal \in Signals
  BY <1>1, HeadTailProperties DEF ReaderTypeOK
<1>3. /\ BytesTyped /\ CapKept /\ output <= MaxOutput
      /\ taken \in Seq(AllBytes) /\ buffer \in Seq(AllBytes)
      /\ delivered \in Seq(AllBytes)
  BY <1>1, MaxOutputAssumption
  DEF SessionInv, BytesTyped, CapKept, Reading, MayRead, ReaderTypeOK
<1>4. taken \o buffer = delivered
  <2>1. taken \o buffer \in Seq(AllBytes)
    BY <1>3, ConcatProperties
  <2>2. (taken \o buffer) \o <<>> = taken \o buffer
    BY <2>1, ConcatEmptySeq
  <2>3. taken \o buffer \o remainder = delivered
    BY <1>3 DEF SessionInv, LinesAreFaithful
  <2> QED
    BY <1>1, <2>2, <2>3
<1>5. CASE signal.kind = "DATA"
  <2>1. signal.data \in Seq(AllBytes) /\ Len(signal.data) \in 1 .. ReadChunk
    BY <1>2, <1>5 DEF Signals, Chunks, Eof, Error
  <2>2. Split(signal.data)
    BY <1>5 DEF ReadSignal
  <2> HIDE DEF signal
  <2>3. /\ BytesTyped' /\ CapKept'
        /\ output' <= MaxOutput =>
             taken' \o buffer' \o remainder' = taken \o buffer \o signal.data
    BY <1>1, <1>3, <2>1, <2>2, SplitKeeps
  <2> QED
    BY <1>1, <1>4, <2>3 DEF LinesAreFaithful
<1>6. CASE signal.kind # "DATA"
  <2>1. signal.data = <<>>
    BY <1>2, <1>6 DEF Signals, Eof, Error
  <2>2. UNCHANGED lineVars
    BY <1>6 DEF ReadSignal
  <2>3. phase' \in {"poll", "closeStdin"}
    BY <1>6 DEF ReadSignal, Goto, Raise, CleanUp
  <2>4. delivered' = delivered
    BY <1>1, <1>3, <2>1, ConcatEmptySeq
  <2>5. BytesTyped' /\ LinesAreFaithful'
    BY <1>3, <2>2, <2>4 DEF SessionInv, BytesTyped, LinesAreFaithful, lineVars
  <2>6. CapKept'
    BY <1>3, <2>2, <2>3 DEF CapKept, lineVars, Reading
  <2> QED
    BY <2>5, <2>6
<1> QED
  BY <1>5, <1>6

(* What waits in the remainder goes first. *)
LEMMA ReadRemainderKeeps ==
  ASSUME ReaderTypeOK, SessionInv, ReadRemainder
  PROVE  BytesTyped' /\ CapKept' /\ LinesAreFaithful'
<1>1. /\ MayRead /\ remainder # <<>> /\ Split(remainder) /\ UNCHANGED delivered
  BY DEF ReadRemainder, readerVars
<1>2. /\ BytesTyped /\ CapKept /\ output <= MaxOutput
      /\ remainder \in Seq(AllBytes)
  BY <1>1, MaxOutputAssumption
  DEF SessionInv, BytesTyped, CapKept, Reading, MayRead
<1>3. Len(remainder) \in 1 .. ReadChunk
  <2>1. Len(remainder) \in Nat /\ Len(remainder) # 0
    BY <1>1, <1>2, LenProperties, EmptySeq
  <2> QED
    BY <1>2, <2>1, ReadChunkAssumption DEF BytesTyped
<1>4. /\ BytesTyped' /\ CapKept'
      /\ output' <= MaxOutput =>
           taken' \o buffer' \o remainder' = taken \o buffer \o remainder
  BY <1>1, <1>2, <1>3, SplitKeeps
<1> QED
  BY <1>1, <1>2, <1>4 DEF SessionInv, LinesAreFaithful

LEMMA InitSessionInv == SessionInit => SessionInv
<1> SUFFICES ASSUME SessionInit PROVE SessionInv
  OBVIOUS
<1>1. <<>> \in Seq(AllBytes) /\ Len(<<>>) = 0 /\ <<>> \in Seq(Messages)
  BY EmptySeq
<1>3. BytesTyped /\ CapKept
  BY <1>1, ReadChunkAssumption, MaxOutputAssumption
  DEF SessionInit, BytesTyped, CapKept
<1>4. LinesAreFaithful
  BY <1>1, ConcatEmptySeq DEF SessionInit, ReaderInit, LinesAreFaithful
<1> QED
  BY <1>3, <1>4 DEF SessionInv

(* A step that touches neither the bytes nor the phases that read them.    *)
LEMMA BytesUntouched ==
  ASSUME BytesTyped, CapKept, LinesAreFaithful,
         UNCHANGED <<lineVars, delivered>>,
         phase' = phase \/ phase' \in CleanupPhases \union {"ended"}
           \/ (phase \in Reading /\ phase' \in Reading \ {"read"})
  PROVE  BytesTyped' /\ CapKept' /\ LinesAreFaithful'
BY DEF BytesTyped, CapKept, LinesAreFaithful, lineVars, Reading, CleanupPhases

(* Every step keeps the invariant. *)
LEMMA SessionInvStep ==
  ASSUME ReaderTypeOK, SessionInv, [SessionNext]_allVars
  PROVE  SessionInv'
<1> USE DEF lineVars
<1>0. BytesTyped /\ CapKept /\ LinesAreFaithful
  BY DEF SessionInv
<1> DEFINE Kept == BytesTyped' /\ CapKept' /\ LinesAreFaithful'
<1>1. ASSUME Environment PROVE Kept
  <2>1. UNCHANGED <<lineVars, delivered, phase>>
    BY <1>1
    DEF Environment, ChildSends, ChildWrites, ChildClosesStdout, WriteEndCloses,
        ChildExits, DeadlinePasses, sessionVars,
        readerVars
  <2> QED
    BY <1>0, <2>1, BytesUntouched
<1>2. ASSUME StartFails \/ StartProcess \/ StartProcessWithoutReader PROVE Kept
  <2>1. /\ UNCHANGED <<lineVars, delivered>>
        /\ phase \in Reading
        /\ phase' \in {"ended", "closeStdin", "initialize"}
    BY <1>2
    DEF StartFails, StartProcess, StartProcessWithoutReader, Start, Goto, readerVars,
        Reading
  <2> QED
    BY <1>0, <2>1, BytesUntouched DEF CleanupPhases, Reading
<1>3. ASSUME SendInitialize \/ SendInitialized \/ SendRequest PROVE Kept
  <2>1. /\ UNCHANGED <<lineVars, delivered>>
        /\ phase \in Reading
        /\ phase' \in {"closeStdin", "line", "request"}
    BY <1>3
    DEF SendInitialize, SendInitialized, SendRequest, CheckAndWrite, Goto, Raise, CleanUp,
        readerVars, Reading
  <2> QED
    BY <1>0, <2>1, BytesUntouched DEF CleanupPhases, Reading
<1>4. ASSUME TakeLine PROVE Kept
  <2>1. BytesTyped' /\ LinesAreFaithful'
    BY <1>4, TakeLineKeeps
  <2>2. /\ output' = output /\ phase \in Reading
        /\ phase' \in {"line", "initialized", "probe", "closeStdin"}
    BY <1>4 DEF TakeLine, Frame, Goto, Raise, CleanUp, Reading
  <2> QED
    BY <1>0, <2>1, <2>2 DEF CapKept, Reading
<1>5. ASSUME NeedMore PROVE Kept
  <2>1. /\ UNCHANGED <<lineVars, delivered>>
        /\ phase \in Reading
        /\ phase' = "closeStdin" \/ (phase' = "read" /\ Budget > 0)
    BY <1>5 DEF NeedMore, Goto, Raise, CleanUp, readerVars, Reading
  <2>2. CapKept'
    BY <1>0, <2>1, MaxOutputAssumption DEF CapKept, Budget, Reading, BytesTyped
  <2> QED
    BY <1>0, <2>1, <2>2 DEF BytesTyped, LinesAreFaithful
<1>6. ASSUME ReadRemainder \/ ReadSignal PROVE Kept
  BY <1>6, ReadRemainderKeeps, ReadSignalKeeps
<1>7. ASSUME ReadTimesOut \/ ProbePending \/ Poll PROVE Kept
  <2>1. /\ UNCHANGED <<lineVars, delivered>>
        /\ phase \in Reading
        /\ phase' \in {"closeStdin", "poll"}
    BY <1>7 DEF ReadTimesOut, ProbePending, Poll, MayRead, Goto, Raise, CleanUp, readerVars, Reading
  <2> QED
    BY <1>0, <2>1, BytesUntouched DEF CleanupPhases, Reading
<1>8. ASSUME CloseStdin \/ Terminate \/ Wait \/ Kill \/ WaitKilled \/ Close \/ CleanupRaises
      PROVE  Kept
  <2>1. UNCHANGED <<lineVars, delivered>> /\ phase' \in CleanupPhases
    BY <1>8
    DEF CloseStdin, Terminate, Wait, Kill, WaitKilled, Close, CloseDescriptor,
        CleanupRaises, CloseStdinRaises, TerminateRaises, WaitRaises, KillRaises,
        WaitKilledRaises, CloseRaises, Attempted, readerVars, CleanupPhases
  <2> QED
    BY <1>0, <2>1, BytesUntouched
<1>9. ASSUME StopReader PROVE Kept
  <2>1. UNCHANGED <<lineVars, delivered, phase>>
    BY <1>9 DEF StopReader, SetStop, Drain, sessionVars
  <2> QED
    BY <1>0, <2>1, BytesUntouched
<1>10. ASSUME JoinReader PROVE Kept
  <2>1. UNCHANGED <<lineVars, delivered>> /\ phase' = "ended"
    BY <1>10 DEF JoinReader, Joined, JoinTimesOut
  <2> QED
    BY <1>0, <2>1, BytesUntouched
<1>11. ASSUME ThreadStep PROVE Kept
  <2>1. UNCHANGED <<lineVars, delivered, phase>>
    BY <1>11
    DEF ThreadStep, WorkerStep, CallRead, ReadData, ReadEof, ReadError, ReadClosed,
        ForeignRead, Hold, Put, Check, sessionVars
  <2> QED
    BY <1>0, <2>1, BytesUntouched
<1>12. ASSUME UNCHANGED allVars PROVE Kept
  <2>1. UNCHANGED <<lineVars, delivered, phase>>
    BY <1>12 DEF allVars, readerVars, sessionVars
  <2> QED
    BY <1>0, <2>1, BytesUntouched
<1> HIDE DEF Kept
<1>13. Kept
  BY <1>1, <1>2, <1>3, <1>4, <1>5, <1>6, <1>7, <1>8, <1>9, <1>10, <1>11, <1>12
  DEF SessionNext, SessionStep
<1> QED
  BY <1>13 DEF Kept, SessionInv

(* However the chunks are cut, the lines parsed, the buffer and the        *)
(* remainder are the bytes that came out of the queue, in order.           *)
THEOREM LinesFaithful == SessionSpec => []LinesAreFaithful
<1>1. SessionSpec => []ReaderTypeOK
  BY SessionUsesReader, ReaderTypeCorrect, PTL DEF ReadsThroughPipeReader
<1>2. SessionInit => SessionInv
  BY InitSessionInv
<1>3. ReaderTypeOK /\ SessionInv /\ [SessionNext]_allVars => SessionInv'
  BY SessionInvStep
<1>4. SessionInv => LinesAreFaithful
  BY DEF SessionInv
<1> QED
  BY <1>1, <1>2, <1>3, <1>4, PTL DEF SessionSpec

-----------------------------------------------------------------------------
(***************************************************************************)
(* What is left behind.  The cleanup's steps come in one order; each phase *)
(* knows what the steps before it did, and that a step which did not do    *)
(* its part was noted.                                                     *)
(***************************************************************************)
ControlTyped ==
  /\ phase \in SessionPhases
  /\ ident \in {1, 2}
  /\ sent \in Seq(Messages)
  /\ failure \in FailureKinds \union {"none"}
  /\ cleanupFailed \in BOOLEAN
  /\ discarded \in BOOLEAN
  /\ outcome \in FailureKinds \union {"none", "payload"}
  /\ child \in {"none", "running", "zombie", "reaped"}
  /\ stdinOpen \in BOOLEAN
  /\ unflushed \in BOOLEAN
  /\ late \in BOOLEAN

Kept(p) ==
  /\ p \in Reading \union (CleanupPhases \ {"join"}) => readOpen /\ owner = "reading"
  /\ p \in CleanupPhases \ {"closeStdin"} => ~stdinOpen /\ (unflushed => cleanupFailed)
  /\ p \in {"close", "join"} => child = "reaped" \/ cleanupFailed
  /\ p = "join" => ~readOpen

CleanupOrder ==
  /\ Kept(phase)
  /\ phase = "start" => child = "none"
  /\ phase = "ended" /\ child # "none" =>
       /\ ~stdinOpen /\ ~readOpen
       /\ cleanupFailed \/ ~unflushed
       /\ cleanupFailed \/ (child = "reaped" /\ owner = "joined")
       /\ cleanupFailed /\ ~discarded => outcome = "PROCESS"

(* Who ends a sequence does not change what is before it. *)
LEMMA Prefix ==
  ASSUME NEW a \in Seq(AllBytes), NEW b \in Seq(AllBytes), NEW i \in 1 .. Len(a)
  PROVE  a \o b \in Seq(AllBytes) /\ i \in 1 .. Len(a \o b) /\ (a \o b)[i] = a[i]
<1>1. Len(a) \in Nat /\ Len(b) \in Nat
  BY LenProperties
<1>2. a \o b \in Seq(AllBytes) /\ Len(a \o b) = Len(a) + Len(b)
  BY ConcatProperties
<1>3. i \in 1 .. Len(a \o b)
  BY <1>1, <1>2
<1> QED
  BY <1>1, <1>2, <1>3, ConcatProperties

(* While lines are read, the buffer holds bytes of the child alone. *)
LEMMA BufferIsFromChild ==
  ASSUME ReaderTypeOK, BytesConserved, SessionInv, CleanupOrder, phase = "line",
         NEW n \in 1 .. Len(buffer)
  PROVE  buffer[n] \in Bytes
<1>1. readOpen /\ owner = "reading"
  BY DEF CleanupOrder, Kept, Reading
<1>2. delivered \o QueueData \o HeldData \o pipe = wrote
  BY <1>1 DEF BytesConserved
<1>3. /\ taken \in Seq(AllBytes) /\ buffer \in Seq(AllBytes) /\ remainder \in Seq(AllBytes)
      /\ taken \o buffer \o remainder = delivered
  BY DEF SessionInv, BytesTyped, CapKept, LinesAreFaithful, Reading
<1>4. /\ delivered \in Seq(AllBytes) /\ QueueData \in Seq(AllBytes)
      /\ HeldData \in Seq(AllBytes) /\ pipe \in Seq(AllBytes)
  BY StreamTyping
<1> DEFINE k == Len(taken) + n
<1>5. Len(taken) \in Nat /\ Len(buffer) \in Nat
  BY <1>3, LenProperties
<1>6. /\ taken \o buffer \in Seq(AllBytes) /\ k \in 1 .. Len(taken \o buffer)
      /\ (taken \o buffer)[k] = buffer[n]
  <2>1. taken \o buffer \in Seq(AllBytes) /\ Len(taken \o buffer) = Len(taken) + Len(buffer)
    BY <1>3, ConcatProperties
  <2>2. k \in 1 .. Len(taken \o buffer) /\ k > Len(taken) /\ k - Len(taken) = n
    BY <1>5, <2>1
  <2> QED
    BY <1>3, <1>5, <2>1, <2>2, ConcatProperties
<1> HIDE DEF k
<1>7. k \in 1 .. Len(delivered) /\ delivered[k] = buffer[n]
  BY <1>3, <1>6, Prefix
<1>8. /\ delivered \o QueueData \in Seq(AllBytes) /\ k \in 1 .. Len(delivered \o QueueData)
      /\ (delivered \o QueueData)[k] = buffer[n]
  BY <1>4, <1>7, Prefix
<1>9. /\ delivered \o QueueData \o HeldData \in Seq(AllBytes)
      /\ k \in 1 .. Len(delivered \o QueueData \o HeldData)
      /\ (delivered \o QueueData \o HeldData)[k] = buffer[n]
  BY <1>4, <1>8, Prefix
<1>10. k \in 1 .. Len(wrote) /\ wrote[k] = buffer[n]
  BY <1>2, <1>4, <1>9, Prefix
<1> QED
  BY <1>10, ElementOfSeq DEF ReaderTypeOK

(* What a line of the child may be. *)
LEMMA FrameCases ==
  ASSUME NEW b \in Bytes
  PROVE  /\ b.frame.form \in {"response", "error", "notification", "malformed"}
         /\ b.frame.form = "notification" <=> b.frame = Notification
         /\ b.frame.form = "response" => b.frame = Response(b.frame.ident)
         /\ b.frame.form \in {"error", "malformed"} => b.frame.failure \in FailureKinds
<1>1. b.frame \in Frames
  BY WireAssumption
<1>2. PICK f \in Frames : f = b.frame
  BY <1>1
<1>3. \/ f.form = "response" /\ f = Response(f.ident)
      \/ f.form = "error" /\ f.failure \in ErrorCodeKinds
      \/ f = Notification
      \/ f.form = "malformed" /\ f.failure \in ParseFailures
  BY FramesAssumption
<1>4. Notification.form = "notification"
  BY DEF Notification
<1> QED
  BY <1>2, <1>3, <1>4 DEF ErrorCodeKinds, ParseFailures, FailureKinds

(* A line taken out of the buffer is a frame, whose failure has a kind. *)
LEMMA LineTaken ==
  ASSUME ReaderTypeOK, BytesConserved, SessionInv, CleanupOrder, TakeLine
  PROVE  \E n \in 1 .. Len(buffer) :
           /\ buffer[n].last
           /\ \A i \in 1 .. n - 1 : ~buffer[i].last
           /\ buffer' = SubSeq(buffer, n + 1, Len(buffer))
           /\ taken' = taken \o SubSeq(buffer, 1, n)
           /\ Frame(buffer[n].frame)
           /\ buffer[n] \in Bytes
<1>1. phase = "line"
  BY DEF TakeLine
<1>2. \A n \in 1 .. Len(buffer) : buffer[n] \in Bytes
  BY <1>1, BufferIsFromChild
<1> QED
  BY <1>2 DEF TakeLine

(* Sending appends a message. *)
LEMMA MessageSent ==
  ASSUME ControlTyped, NEW m \in Messages
  PROVE  Append(sent, m) \in Seq(Messages)
BY AppendProperties DEF ControlTyped

(* Every step keeps the types of what is not bytes. *)
LEMMA ControlTypedStep ==
  ASSUME ReaderTypeOK, BytesConserved, SessionInv, CleanupOrder, ControlTyped,
         [SessionNext]_allVars
  PROVE  ControlTyped'
<1> USE DEF ControlTyped, childVars, resultVars
<1>1. ASSUME Environment PROVE ControlTyped'
  <2>1. CASE ChildSends \/ ChildClosesStdout
    BY <2>1 DEF ChildSends, ChildClosesStdout, sessionVars
  <2>2. CASE ChildExits
    BY <2>2 DEF ChildExits
  <2>3. CASE DeadlinePasses
    BY <2>3 DEF DeadlinePasses
  <2> QED
    BY <1>1, <2>1, <2>2, <2>3 DEF Environment
<1>2. ASSUME StartFails \/ StartProcess \/ StartProcessWithoutReader PROVE ControlTyped'
  <2>1. CASE StartFails
    BY <2>1 DEF StartFails, SessionPhases, FailureKinds
  <2>2. CASE StartProcess
    BY <2>2 DEF StartProcess, Goto, SessionPhases
  <2>3. CASE StartProcessWithoutReader
    BY <2>3 DEF StartProcessWithoutReader, SessionPhases, CleanupPhases, FailureKinds
  <2> QED
    BY <1>2, <2>1, <2>2, <2>3
<1>3. ASSUME SendInitialize \/ SendInitialized \/ SendRequest PROVE ControlTyped'
  <2>1. \A m \in Messages : Append(sent, m) \in Seq(Messages)
    BY MessageSent
  <2>2. sent' \in Seq(Messages)
    BY <1>3, <2>1 DEF SendInitialize, SendInitialized, SendRequest, CheckAndWrite, Messages
  <2>3. /\ phase' \in {"line", "request", "closeStdin"} /\ ident' \in {1, 2}
        /\ failure' \in {failure, "TIMEOUT", "UNAVAILABLE"} /\ unflushed' \in {unflushed, TRUE}
        /\ UNCHANGED <<cleanupFailed, discarded, outcome>> /\ late' \in {late, FALSE}
        /\ UNCHANGED <<child, stdinOpen>>
    BY <1>3 DEF SendInitialize, SendInitialized, SendRequest, CheckAndWrite, Goto, Raise, CleanUp
  <2>4. phase' \in SessionPhases /\ failure' \in FailureKinds \union {"none"}
    BY <2>3 DEF SessionPhases, CleanupPhases, FailureKinds
  <2>5. ident' \in {1, 2} /\ unflushed' \in BOOLEAN
    BY <2>3
  <2>6. /\ UNCHANGED <<cleanupFailed, discarded, outcome, child, stdinOpen>>
        /\ late' \in BOOLEAN
    BY <2>3
  <2> QED
    BY <2>2, <2>4, <2>5, <2>6
<1>4. ASSUME TakeLine PROVE ControlTyped'
  <2>1. PICK n \in 1 .. Len(buffer) : Frame(buffer[n].frame) /\ buffer[n] \in Bytes
    BY <1>4, LineTaken
  <2>2. buffer[n].frame.form \in {"error", "malformed"} =>
          buffer[n].frame.failure \in FailureKinds
    BY <2>1, FrameCases
  <2>3. /\ phase' \in {"line", "initialized", "probe", "closeStdin"}
        /\ failure' \in FailureKinds \union {"none"}
        /\ UNCHANGED <<cleanupFailed, discarded, outcome>> /\ late' \in {late, FALSE}
    BY <2>1, <2>2 DEF Frame, Goto, Raise, CleanUp, FailureKinds
  <2>4. UNCHANGED <<ident, sent, child, stdinOpen, unflushed>>
    BY <1>4 DEF TakeLine
  <2>5. phase' \in SessionPhases
    BY <2>3 DEF SessionPhases, CleanupPhases
  <2>6. UNCHANGED <<cleanupFailed, discarded, outcome>> /\ late' \in BOOLEAN
    BY <2>3
  <2> QED
    BY <2>3, <2>4, <2>5, <2>6
<1>5. ASSUME NeedMore \/ ReadTimesOut \/ ProbePending PROVE ControlTyped'
  <2>1. /\ phase' \in {"read", "probe", "poll", "closeStdin"}
        /\ failure' \in {failure, "TIMEOUT", "OUTPUT_LIMIT", "PROTOCOL"}
        /\ UNCHANGED <<cleanupFailed, discarded, outcome>> /\ late' \in {late, FALSE}
    BY <1>5 DEF NeedMore, ReadTimesOut, ProbePending, Goto, Raise, CleanUp
  <2>2. UNCHANGED <<ident, sent, child, stdinOpen, unflushed>>
    BY <1>5 DEF NeedMore, ReadTimesOut, ProbePending
  <2>3. phase' \in SessionPhases /\ failure' \in FailureKinds \union {"none"}
    BY <2>1 DEF SessionPhases, CleanupPhases, FailureKinds
  <2>4. UNCHANGED <<cleanupFailed, discarded, outcome>> /\ late' \in BOOLEAN
    BY <2>1
  <2> QED
    BY <2>2, <2>3, <2>4
<1>6. ASSUME ReadRemainder \/ ReadSignal PROVE ControlTyped'
  <2>1. /\ phase' \in {"line", "poll", "closeStdin"}
        /\ failure' \in FailureKinds \union {"none"}
        /\ UNCHANGED <<cleanupFailed, discarded, outcome>> /\ late' \in {late, FALSE}
    BY <1>6 DEF ReadRemainder, ReadSignal, Split, Accept, Goto, Raise, CleanUp, FailureKinds
  <2>2. UNCHANGED <<ident, sent, child, stdinOpen, unflushed>>
    BY <1>6 DEF ReadRemainder, ReadSignal
  <2>3. phase' \in SessionPhases
    BY <2>1 DEF SessionPhases, CleanupPhases
  <2>4. UNCHANGED <<cleanupFailed, discarded, outcome>> /\ late' \in BOOLEAN
    BY <2>1
  <2> QED
    BY <2>1, <2>2, <2>3, <2>4
<1>7. ASSUME Poll PROVE ControlTyped'
  BY <1>7 DEF Poll, Reaped, Goto, Raise, CleanUp, SessionPhases, CleanupPhases, FailureKinds
<1>8. ASSUME CloseStdin \/ Terminate \/ Wait \/ Kill \/ WaitKilled \/ Close \/ CleanupRaises
      PROVE  ControlTyped'
  <2> USE DEF CleanupRaises, CloseStdinRaises, TerminateRaises, WaitRaises, KillRaises,
              WaitKilledRaises, CloseRaises
  <2>1. /\ phase' \in CleanupPhases /\ cleanupFailed' \in BOOLEAN
        /\ UNCHANGED <<ident, sent, failure, discarded, outcome, late>>
    BY <1>8 DEF CloseStdin, Terminate, Wait, Kill, WaitKilled, Close, Attempted, CleanupPhases
  <2>2. child' \in {"none", "running", "zombie", "reaped"}
    BY <1>8 DEF CloseStdin, Terminate, Wait, Kill, WaitKilled, Close, Reaped
  <2>3. stdinOpen' \in BOOLEAN /\ UNCHANGED unflushed
    BY <1>8 DEF CloseStdin, Terminate, Wait, Kill, WaitKilled, Close
  <2> QED
    BY <2>1, <2>2, <2>3 DEF SessionPhases
<1>9. ASSUME StopReader PROVE ControlTyped'
  BY <1>9 DEF StopReader, sessionVars
<1>10. ASSUME JoinReader PROVE ControlTyped'
  <2>1. outcome' \in FailureKinds \union {"payload"} /\ cleanupFailed' \in BOOLEAN
    BY <1>10 DEF JoinReader, Result, FailureKinds
  <2>2. phase' = "ended" /\ UNCHANGED <<ident, sent, failure, discarded, childVars, late>>
    BY <1>10 DEF JoinReader
  <2> QED
    BY <2>1, <2>2 DEF SessionPhases
<1>11. ASSUME ThreadStep \/ UNCHANGED allVars PROVE ControlTyped'
  BY <1>11 DEF ThreadStep, allVars, sessionVars
<1> QED
  BY <1>1, <1>2, <1>3, <1>4, <1>5, <1>6, <1>7, <1>8, <1>9, <1>10, <1>11
  DEF SessionNext, SessionStep

(* The reader thread leaves descriptor and owner alone. *)
LEMMA ThreadKeepsOwner == WorkerStep => UNCHANGED <<readOpen, owner>>
BY DEF WorkerStep, CallRead, ReadData, ReadEof, ReadError, ReadClosed, ForeignRead, Hold, Put,
       Check, pipeVars

(* A step that neither closes nor collects anything leaves the order as it *)
(* is.                                                                     *)
LEMMA OrderUntouched ==
  ASSUME CleanupOrder, UNCHANGED <<child, stdinOpen, cleanupFailed, readOpen, owner>>,
         \/ phase' = phase /\ UNCHANGED <<outcome, discarded, unflushed>>
         \/ phase \in Reading \ {"start"} /\ phase' \in Reading \union {"closeStdin"}
            /\ phase' # "start"
  PROVE  CleanupOrder'
BY DEF CleanupOrder, Kept, Reading, CleanupPhases

(* Every step keeps the cleanup's order. *)
LEMMA CleanupOrderStep ==
  ASSUME ControlTyped, CleanupOrder, [SessionNext]_allVars
  PROVE  CleanupOrder'
<1> USE DEF childVars, resultVars, readerVars
<1> DEFINE Untouched == UNCHANGED <<child, stdinOpen, cleanupFailed, readOpen, owner>>
<1>1. ASSUME Environment PROVE CleanupOrder'
  <2>1. CASE ChildExits
    BY <1>1, <2>1 DEF ChildExits, CleanupOrder, Kept
  <2>2. CASE ~ChildExits
    <3>1. Untouched /\ UNCHANGED <<phase, outcome, discarded, unflushed>>
      BY <1>1, <2>2 DEF Environment, ChildSends, ChildWrites, ChildClosesStdout, WriteEndCloses,
           DeadlinePasses, sessionVars
    <3> QED
      BY <3>1, OrderUntouched
  <2> QED
    BY <2>1, <2>2
<1>2. ASSUME StartFails \/ StartProcess \/ StartProcessWithoutReader PROVE CleanupOrder'
  BY <1>2 DEF StartFails, StartProcess, StartProcessWithoutReader, Start, Goto, CleanupOrder,
              Kept, Reading, CleanupPhases
<1>3. ASSUME SendInitialize \/ SendInitialized \/ SendRequest \/ TakeLine \/ NeedMore
             \/ ReadTimesOut \/ ProbePending
      PROVE  CleanupOrder'
  <2>1. Untouched
    BY <1>3 DEF SendInitialize, SendInitialized, SendRequest, CheckAndWrite, TakeLine, Frame,
                NeedMore, ReadTimesOut, ProbePending, Goto, Raise, CleanUp
  <2>2. /\ phase \in Reading \ {"start"} /\ phase' \in Reading \union {"closeStdin"}
        /\ phase' # "start"
    BY <1>3 DEF SendInitialize, SendInitialized, SendRequest, CheckAndWrite, TakeLine, Frame,
                NeedMore, ReadTimesOut, ProbePending, MayRead, Goto, Raise, CleanUp, Reading
  <2> QED
    BY <2>1, <2>2, OrderUntouched
<1>4. ASSUME ReadRemainder \/ ReadSignal PROVE CleanupOrder'
  <2>1. Untouched
    BY <1>4 DEF ReadRemainder, ReadSignal, Get, Split, Accept, Goto, Raise, CleanUp
  <2>2. /\ phase \in Reading \ {"start"} /\ phase' \in Reading \union {"closeStdin"}
        /\ phase' # "start"
    BY <1>4 DEF ReadRemainder, ReadSignal, Split, Accept, MayRead, Goto, Raise, CleanUp, Reading
  <2> QED
    BY <2>1, <2>2, OrderUntouched
<1>5. ASSUME Poll PROVE CleanupOrder'
  BY <1>5 DEF Poll, Goto, Raise, CleanUp, CleanupOrder, Kept, Reading, CleanupPhases
<1>6. ASSUME CloseStdin \/ Terminate \/ Kill \/ CloseStdinRaises \/ TerminateRaises \/ KillRaises
      PROVE  CleanupOrder'
  <2>1. /\ <<phase, phase'>> \in {<<"closeStdin", "terminate">>, <<"terminate", "wait">>,
                                  <<"kill", "waitKilled">>}
        /\ IF phase = "closeStdin" THEN ~stdinOpen' ELSE UNCHANGED stdinOpen
        /\ phase = "closeStdin" /\ unflushed => cleanupFailed'
        /\ UNCHANGED <<unflushed, readOpen, owner>>
        /\ cleanupFailed => cleanupFailed'
    BY <1>6 DEF CloseStdin, Terminate, Kill, CloseStdinRaises, TerminateRaises, KillRaises, Attempted
  <2> QED
    BY <2>1 DEF CleanupOrder, Kept, Reading, CleanupPhases
<1>7. ASSUME Wait \/ WaitKilled \/ WaitRaises \/ WaitKilledRaises PROVE CleanupOrder'
  <2>1. /\ phase \in {"wait", "waitKilled"} /\ phase' \in {"close", "kill"}
        /\ phase' = "close" => child' = "reaped" \/ cleanupFailed'
        /\ UNCHANGED <<stdinOpen, unflushed, readOpen, owner>>
        /\ cleanupFailed => cleanupFailed'
    BY <1>7 DEF Wait, WaitKilled, WaitRaises, WaitKilledRaises, Attempted
  <2> QED
    BY <2>1 DEF CleanupOrder, Kept, Reading, CleanupPhases
<1>8. ASSUME Close \/ CloseRaises PROVE CleanupOrder'
  <2>1. /\ phase = "close" /\ phase' = "join" /\ ~readOpen'
        /\ UNCHANGED <<child, stdinOpen, unflushed>>
        /\ cleanupFailed => cleanupFailed'
    BY <1>8 DEF Close, CloseRaises, CloseDescriptor, Attempted
  <2> QED
    BY <2>1 DEF CleanupOrder, Kept, Reading, CleanupPhases
<1>9. ASSUME StopReader PROVE CleanupOrder'
  <2>1. /\ phase = "join" /\ phase' = phase
        /\ UNCHANGED <<child, stdinOpen, unflushed, cleanupFailed, readOpen>>
    BY <1>9 DEF StopReader, SetStop, Drain, sessionVars
  <2> QED
    BY <2>1 DEF CleanupOrder, Kept, Reading, CleanupPhases
<1>10. ASSUME JoinReader PROVE CleanupOrder'
  <2>1. /\ phase = "join" /\ phase' = "ended"
        /\ UNCHANGED <<child, stdinOpen, unflushed, readOpen, discarded>>
    BY <1>10 DEF JoinReader, Joined, JoinTimesOut
  <2>2. /\ ~stdinOpen /\ ~readOpen /\ (child = "reaped" \/ cleanupFailed)
        /\ unflushed => cleanupFailed
    BY <2>1 DEF CleanupOrder, Kept, CleanupPhases
  <2>3. CASE Joined /\ outcome' = Result(TRUE) /\ UNCHANGED cleanupFailed
    BY <2>1, <2>2, <2>3 DEF Joined, Result, CleanupOrder, Kept, Reading, CleanupPhases
  <2>4. CASE JoinTimesOut /\ outcome' = Result(FALSE) /\ cleanupFailed' = TRUE
    BY <2>1, <2>2, <2>4 DEF Result, CleanupOrder, Kept, Reading, CleanupPhases
  <2> QED
    BY <1>10, <2>3, <2>4 DEF JoinReader
<1>11. ASSUME ThreadStep \/ UNCHANGED allVars PROVE CleanupOrder'
  <2>1. Untouched /\ UNCHANGED <<phase, outcome, discarded, unflushed>>
    BY <1>11, ThreadKeepsOwner DEF ThreadStep, allVars, sessionVars
  <2> QED
    BY <2>1, OrderUntouched
<1> QED
  BY <1>1, <1>2, <1>3, <1>4, <1>5, <1>6, <1>7, <1>8, <1>9, <1>10, <1>11
  DEF SessionNext, SessionStep, CleanupRaises

(* The initial state satisfies both. *)
LEMMA InitControl == SessionInit => ControlTyped /\ CleanupOrder
<1> SUFFICES ASSUME SessionInit PROVE ControlTyped /\ CleanupOrder
  OBVIOUS
<1>1. <<>> \in Seq(Messages)
  BY EmptySeq
<1>2. ControlTyped
  BY <1>1 DEF SessionInit, ControlTyped, SessionPhases
<1>3. CleanupOrder
  BY DEF SessionInit, ReaderInit, CleanupOrder, Kept, CleanupPhases
<1> QED
  BY <1>2, <1>3

(* What an exchange keeps from its first step to its last. *)
THEOREM SessionInvariant == SessionSpec => [](SessionInv /\ ControlTyped /\ CleanupOrder)
<1> DEFINE Inv == SessionInv /\ ControlTyped /\ CleanupOrder
<1>1. SessionSpec => []ReaderTypeOK /\ []BytesConserved
  BY SessionUsesReader, ReaderTypeCorrect, NoByteLost, PTL DEF ReadsThroughPipeReader
<1>2. SessionInit => Inv
  BY InitSessionInv, InitControl
<1>3. ReaderTypeOK /\ BytesConserved /\ Inv /\ [SessionNext]_allVars => Inv'
  BY SessionInvStep, ControlTypedStep, CleanupOrderStep
<1> HIDE DEF Inv
<1>4. SessionSpec => []Inv
  BY <1>1, <1>2, <1>3, PTL DEF SessionSpec
<1> QED
  BY <1>4 DEF Inv

(* Every variable of an exchange keeps its type, whatever the child sends. *)
THEOREM SessionTypeCorrect == SessionSpec => []SessionTypeOK
<1>1. SessionInv /\ ControlTyped => SessionTypeOK
  BY DEF SessionInv, BytesTyped, ControlTyped, SessionTypeOK
<1> QED
  BY <1>1, SessionInvariant, PTL

(* What an exchange leaves behind it reports as PROCESS. *)
THEOREM NothingLeftBehind == SessionSpec => []NoLeakUnlessReported
<1>1. CleanupOrder => NoLeakUnlessReported
  BY DEF CleanupOrder, NoLeakUnlessReported
<1> QED
  BY <1>1, SessionInvariant, PTL

-----------------------------------------------------------------------------
(***************************************************************************)
(* The handshake.  Each phase knows which messages were sent and which     *)
(* frames but notifications were taken; with no failure the cleanup still  *)
(* knows what the poll did.                                                *)
(***************************************************************************)
Answered ==
  \E i \in Ends(taken) : taken[i].frame = Response(1) /\ Relevant(taken) = {i}

AnsweredTwice ==
  \E i, j \in Ends(taken) :
    /\ i < j /\ j = Len(taken)
    /\ taken[i].frame = Response(1)
    /\ taken[j].frame = Response(2)
    /\ Relevant(taken) = {i, j}

Handshake == <<"initialize", "initialized", "account/rateLimits/read">>
Complete ==
  /\ sent = Handshake /\ AnsweredTwice
  /\ buffer = <<>> /\ remainder = <<>> /\ taken = delivered

Progress ==
  /\ phase \in {"start", "initialize"} => sent = <<>> /\ ident = 1 /\ taken = <<>>
  /\ phase \in {"line", "read"} /\ ident = 1 => sent = <<"initialize">> /\ Relevant(taken) = {}
  /\ phase = "initialized" => ident = 1 /\ sent = <<"initialize">> /\ Answered
  /\ phase = "request" => ident = 1 /\ sent = <<"initialize", "initialized">> /\ Answered
  /\ phase \in {"line", "read"} /\ ident = 2 => sent = Handshake /\ Answered
  /\ phase = "probe" => sent = Handshake /\ AnsweredTwice
  /\ phase = "poll" => Complete
  /\ phase \in CleanupPhases /\ failure = "none" => Complete
  /\ phase \in Reading => failure = "none"
  /\ phase # "ended" => outcome = "none"
  /\ outcome = "payload" => Complete

(* A line adds the place of its last byte, and that only if it is no       *)
(* notification.                                                           *)
LEMMA LineEnds ==
  ASSUME NEW t \in Seq(AllBytes), NEW line \in Seq(AllBytes), line # <<>>,
         line[Len(line)].last, \A i \in 1 .. Len(line) - 1 : ~line[i].last
  PROVE  /\ Len(t \o line) = Len(t) + Len(line)
         /\ Ends(t \o line) = Ends(t) \union {Len(t \o line)}
         /\ (t \o line)[Len(t \o line)] = line[Len(line)]
         /\ \A i \in Ends(t) : (t \o line)[i] = t[i] /\ i < Len(t \o line)
         /\ Relevant(t \o line) =
              Relevant(t) \union (IF line[Len(line)].frame = Notification THEN {}
                                  ELSE {Len(t \o line)})
<1> DEFINE m == Len(t)  n == Len(line)  u == t \o line
<1>1. m \in Nat /\ n \in Nat /\ n # 0
  BY LenProperties, EmptySeq
<1>2. /\ Len(u) = m + n
      /\ \A i \in 1 .. m + n : u[i] = IF i <= m THEN t[i] ELSE line[i - m]
  BY ConcatProperties
<1> HIDE DEF u, m, n
<1>3. u[m + n] = line[n] /\ m + n \in 1 .. m + n
  <2>1. m + n \in 1 .. m + n /\ ~(m + n <= m) /\ (m + n) - m = n
    BY <1>1
  <2> QED
    BY <1>2, <2>1
<1>4. \A i \in 1 .. m : i \in 1 .. m + n /\ u[i] = t[i] /\ i < m + n
  <2>1. \A i \in 1 .. m : i \in 1 .. m + n /\ i <= m /\ i < m + n
    BY <1>1
  <2> QED
    BY <1>2, <2>1
<1>5. \A i \in 1 .. m + n : i \in 1 .. m \/ i = m + n \/ ~u[i].last
  <2> SUFFICES ASSUME NEW i \in 1 .. m + n, i > m, i # m + n PROVE ~u[i].last
    BY <1>1
  <2>1. i - m \in 1 .. n - 1 /\ ~(i <= m)
    BY <1>1
  <2> QED
    BY <1>2, <2>1 DEF n
<1>6. line[n].last
  BY DEF n
<1>7. Ends(u) = Ends(t) \union {m + n}
  <2>1. \A i \in Ends(u) : i \in 1 .. m + n /\ u[i].last
    BY <1>2 DEF Ends
  <2>2. \A i \in Ends(u) : i \in Ends(t) \union {m + n}
    BY <2>1, <1>4, <1>5 DEF Ends, m
  <2>3. \A i \in Ends(t) : i \in 1 .. m /\ t[i].last
    BY DEF Ends, m
  <2>4. \A i \in Ends(t) : i \in Ends(u)
    BY <2>3, <1>2, <1>4 DEF Ends
  <2>5. m + n \in Ends(u)
    BY <1>2, <1>3, <1>6 DEF Ends
  <2> QED
    BY <2>2, <2>4, <2>5
<1>8. \A i \in Ends(t) : i \in 1 .. m
  BY DEF Ends, m
<1>9. Relevant(u) = Relevant(t) \union (IF line[n].frame = Notification THEN {} ELSE {m + n})
  BY <1>3, <1>4, <1>7, <1>8 DEF Relevant
<1> QED
  BY <1>2, <1>3, <1>4, <1>7, <1>8, <1>9 DEF u, m, n

lettersVars == <<ident, sent, taken, buffer, remainder, delivered, failure>>

(* Answers stay answers when nothing is taken out of the buffer. *)
LEMMA AnswersKept ==
  ASSUME UNCHANGED <<sent, taken, buffer, remainder, delivered>>
  PROVE  /\ Answered' <=> Answered
         /\ AnsweredTwice' <=> AnsweredTwice
         /\ Complete' <=> Complete
         /\ Relevant(taken)' = Relevant(taken)
BY DEF Answered, AnsweredTwice, Complete

(* Steps that only move on in the cleanup, or do not concern the exchange. *)
LEMMA ProgressUntouched ==
  ASSUME Progress, UNCHANGED <<lettersVars, outcome>>,
         phase' = phase \/ (phase \in CleanupPhases /\ phase' \in CleanupPhases)
  PROVE  Progress'
<1>1. UNCHANGED <<sent, taken, buffer, remainder, delivered, ident, failure>>
  BY DEF lettersVars
<1>2. CASE phase' = phase
  BY <1>1, <1>2, AnswersKept DEF Progress
<1>3. CASE phase \in CleanupPhases /\ phase' \in CleanupPhases
  <2>1. phase' \notin Reading /\ phase' # "ended" /\ phase # "ended"
    BY <1>3 DEF Reading, CleanupPhases
  <2> QED
    BY <1>1, <1>3, <2>1, AnswersKept DEF Progress, Reading
<1> QED
  BY <1>2, <1>3

(* An exception ends the exchange with a failure and without a payload. *)
LEMMA RaiseProgress ==
  ASSUME Progress, phase # "ended", phase' = "closeStdin", failure' \in FailureKinds,
         outcome' = outcome
  PROVE  Progress'
BY DEF Progress, FailureKinds, Reading

(* What a line of the child does to the handshake. *)
LEMMA TakeLineProgress ==
  ASSUME ReaderTypeOK, BytesConserved, SessionInv, CleanupOrder, ControlTyped, Progress, TakeLine
  PROVE  Progress'
<1>1. PICK n \in 1 .. Len(buffer) :
        /\ buffer[n].last
        /\ \A i \in 1 .. n - 1 : ~buffer[i].last
        /\ taken' = taken \o SubSeq(buffer, 1, n)
        /\ Frame(buffer[n].frame)
        /\ buffer[n] \in Bytes
  BY LineTaken
<1> DEFINE line == SubSeq(buffer, 1, n)  f == buffer[n].frame
<1>2. /\ phase = "line" /\ failure = "none" /\ outcome = "none"
      /\ UNCHANGED <<ident, sent>>
  BY DEF TakeLine, Progress, Reading
<1>3. /\ f.form = "notification" <=> f = Notification
      /\ f.form = "response" => f = Response(f.ident)
      /\ f.form \in {"error", "malformed"} => f.failure \in FailureKinds
  BY <1>1, FrameCases
<1>4. /\ line \in Seq(AllBytes) /\ Len(line) = n /\ line[n] = buffer[n] /\ n \in Nat \ {0}
      /\ \A i \in 1 .. n - 1 : line[i] = buffer[i]
  <2>1. buffer \in Seq(AllBytes) /\ Len(buffer) \in Nat
    BY LenProperties DEF SessionInv, BytesTyped
  <2>2. \A i \in 1 .. n : buffer[i] \in AllBytes
    BY <2>1, ElementOfSeq
  <2>3. /\ line \in Seq(AllBytes) /\ Len(line) = (IF 1 <= n THEN n - 1 + 1 ELSE 0)
        /\ \A i \in 1 .. n - 1 + 1 : line[i] = buffer[1 + i - 1]
    BY <2>1, <2>2, SubSeqProperties
  <2>4. n \in 1 .. n - 1 + 1 /\ \A i \in 1 .. n - 1 : i \in 1 .. n - 1 + 1 /\ 1 + i - 1 = i
    BY <2>1
  <2> QED
    BY <2>1, <2>3, <2>4
<1>5. taken \in Seq(AllBytes) /\ line # <<>> /\ taken' = taken \o line
  BY <1>1, <1>4, EmptySeq DEF SessionInv, BytesTyped
<1> DEFINE k == Len(taken \o line)
<1>6. /\ Ends(taken') = Ends(taken) \union {k} /\ taken'[k] = line[n] /\ Len(taken') = k
      /\ \A i \in Ends(taken) : taken'[i] = taken[i] /\ i < k
      /\ Relevant(taken') = Relevant(taken)
            \union (IF line[n].frame = Notification THEN {} ELSE {k})
  <2>1. line[Len(line)].last /\ \A i \in 1 .. Len(line) - 1 : ~line[i].last
    BY <1>1, <1>4
  <2> HIDE DEF line
  <2>2. /\ Ends(taken \o line) = Ends(taken) \union {k} /\ (taken \o line)[k] = line[Len(line)]
        /\ \A i \in Ends(taken) : (taken \o line)[i] = taken[i] /\ i < k
        /\ Relevant(taken \o line) =
             Relevant(taken) \union (IF line[Len(line)].frame = Notification THEN {} ELSE {k})
    BY <1>4, <1>5, <2>1, LineEnds
  <2> QED
    BY <1>4, <1>5, <2>2
<1>7. taken'[k].frame = f /\ line[n].frame = f
  BY <1>4, <1>6
<1> HIDE DEF line, f, k
<1>8. Frame(f)
  BY <1>1 DEF f
<1>9. CASE f.form = "notification" /\ Goto("line")
  <2>1. Relevant(taken') = Relevant(taken)
    BY <1>3, <1>6, <1>7, <1>9
  <2>2. Answered => Answered'
    BY <1>6, <2>1 DEF Answered
  <2>3. phase' = "line" /\ UNCHANGED <<failure, outcome>>
    BY <1>9 DEF Goto, resultVars
  <2> QED
    BY <1>2, <2>1, <2>2, <2>3 DEF Progress, Reading, CleanupPhases
<1>10. CASE \/ f.form = "malformed" /\ Raise(f.failure)
            \/ f.form \in {"response", "error"} /\ f.ident # ident /\ Raise("PROTOCOL")
            \/ f.form = "error" /\ f.ident = ident /\ Raise(f.failure)
  <2>1. phase' = "closeStdin" /\ failure' \in FailureKinds /\ outcome' = outcome
    BY <1>3, <1>10 DEF Raise, CleanUp, FailureKinds
  <2> QED
    BY <1>2, <2>1, RaiseProgress
<1>11. CASE /\ f.form = "response" /\ f.ident = ident
            /\ Goto(IF ident = 1 THEN "initialized" ELSE "probe")
  <2>1. f = Response(ident) /\ f # Notification
    BY <1>3, <1>11 DEF Notification
  <2>2. Relevant(taken') = Relevant(taken) \union {k}
    BY <1>6, <1>7, <2>1
  <2>3. UNCHANGED <<failure, outcome>>
    BY <1>11 DEF Goto, resultVars
  <2>4. CASE ident = 1
    <3>1. phase' = "initialized"
      BY <1>11, <2>4 DEF Goto
    <3>2. Answered'
      BY <1>2, <1>6, <1>7, <2>1, <2>2, <2>4 DEF Progress, Answered
    <3> QED
      BY <1>2, <2>3, <2>4, <3>1, <3>2 DEF Progress, Reading, CleanupPhases
  <2>5. CASE ident = 2
    <3>1. phase' = "probe"
      BY <1>11, <2>5 DEF Goto
    <3>2. PICK i \in Ends(taken) : taken[i].frame = Response(1) /\ Relevant(taken) = {i}
      BY <1>2, <2>5 DEF Progress, Answered
    <3>3. i \in Ends(taken') /\ k \in Ends(taken') /\ i < k
      BY <1>6, <3>2
    <3>4. taken'[i].frame = Response(1) /\ taken'[k].frame = Response(2)
      BY <1>6, <1>7, <2>1, <2>5, <3>2
    <3>5. Relevant(taken') = {i, k}
      BY <2>2, <3>2
    <3>6. AnsweredTwice'
      BY <1>6, <3>3, <3>4, <3>5 DEF AnsweredTwice
    <3> QED
      BY <1>2, <2>3, <2>5, <3>1, <3>6 DEF Progress, Reading, CleanupPhases
  <2> QED
    BY <2>4, <2>5 DEF ControlTyped
<1> QED
  BY <1>8, <1>9, <1>10, <1>11 DEF Frame

(* The second and the third message, appended to those before. *)
LEMMA AppendTwo ==
  ASSUME NEW a, NEW b
  PROVE  Append(<<a>>, b) = <<a, b>>
<1> DEFINE S == {a, b}
<1>1. <<a>> \in Seq(S) /\ Len(<<a>>) = 1 /\ <<a>>[1] = a
  OBVIOUS
<1>2. <<a, b>> \in Seq(S) /\ Len(<<a, b>>) = 2 /\ <<a, b>>[1] = a /\ <<a, b>>[2] = b
  OBVIOUS
<1>3. a \in S /\ b \in S
  OBVIOUS
<1> HIDE DEF S
<1>4. /\ Append(<<a>>, b) \in Seq(S) /\ Len(Append(<<a>>, b)) = 2
      /\ Append(<<a>>, b)[1] = a /\ Append(<<a>>, b)[2] = b
  BY <1>1, <1>3, AppendProperties
<1>5. \A i \in 1 .. 2 : Append(<<a>>, b)[i] = <<a, b>>[i]
  BY <1>2, <1>4
<1> QED
  BY <1>2, <1>4, <1>5, SeqEqual

LEMMA AppendThree ==
  ASSUME NEW a, NEW b, NEW c
  PROVE  Append(<<a, b>>, c) = <<a, b, c>>
<1> DEFINE S == {a, b, c}
<1>1. <<a, b>> \in Seq(S) /\ Len(<<a, b>>) = 2 /\ <<a, b>>[1] = a /\ <<a, b>>[2] = b
  OBVIOUS
<1>2. /\ <<a, b, c>> \in Seq(S) /\ Len(<<a, b, c>>) = 3
      /\ <<a, b, c>>[1] = a /\ <<a, b, c>>[2] = b /\ <<a, b, c>>[3] = c
  OBVIOUS
<1>3. c \in S
  OBVIOUS
<1> HIDE DEF S
<1>4. /\ Append(<<a, b>>, c) \in Seq(S) /\ Len(Append(<<a, b>>, c)) = 3
      /\ Append(<<a, b>>, c)[1] = a /\ Append(<<a, b>>, c)[2] = b
      /\ Append(<<a, b>>, c)[3] = c
  BY <1>1, <1>3, AppendProperties
<1>5. \A i \in 1 .. 3 : Append(<<a, b>>, c)[i] = <<a, b, c>>[i]
  BY <1>2, <1>4
<1> QED
  BY <1>2, <1>4, <1>5, SeqEqual

(* A message goes out after the answer it needs, or not at all. *)
LEMMA SendProgress ==
  ASSUME ControlTyped, Progress, SendInitialize \/ SendInitialized \/ SendRequest
  PROVE  Progress'
<1>1. UNCHANGED <<taken, buffer, remainder, delivered, outcome>>
  BY DEF SendInitialize, SendInitialized, SendRequest, CheckAndWrite, lineVars, readerVars, Goto,
         Raise, CleanUp, resultVars
<1>2. CASE phase' = "closeStdin" /\ failure' \in {"TIMEOUT", "UNAVAILABLE"}
  <2>1. phase # "ended" /\ failure' \in FailureKinds
    BY <1>2 DEF SendInitialize, SendInitialized, SendRequest, CheckAndWrite, FailureKinds
  <2> QED
    BY <1>1, <1>2, <2>1, RaiseProgress
<1>3. CASE SendInitialize /\ phase' = "line" /\ sent' = Append(sent, "initialize")
  <2>1. /\ phase = "initialize" /\ ident' = ident /\ failure' = failure
        /\ ident = 1 /\ taken = <<>> /\ sent = <<>> /\ failure = "none" /\ outcome = "none"
    BY <1>3 DEF SendInitialize, CheckAndWrite, Goto, Raise, CleanUp, Progress, resultVars, Reading
  <2>2. sent' = <<"initialize">>
    BY <1>3, <2>1
  <2>3. Relevant(taken') = {}
    <3>1. Len(taken') = 0
      BY <1>1, <2>1
    <3> QED
      BY <3>1 DEF Relevant, Ends
  <2> QED
    BY <1>1, <1>3, <2>1, <2>2, <2>3 DEF Progress, Reading, CleanupPhases
<1>4. CASE SendInitialized /\ phase' = "request" /\ sent' = Append(sent, "initialized")
  <2>1. /\ phase = "initialized" /\ ident' = ident /\ failure' = failure
        /\ ident = 1 /\ sent = <<"initialize">> /\ failure = "none" /\ outcome = "none" /\ Answered
    BY <1>4 DEF SendInitialized, CheckAndWrite, Goto, Raise, CleanUp, Progress, resultVars, Reading
  <2>2. sent' = <<"initialize", "initialized">>
    BY <1>4, <2>1, AppendTwo
  <2>3. Answered'
    BY <1>1, <2>1 DEF Answered
  <2> QED
    BY <1>1, <1>4, <2>1, <2>2, <2>3 DEF Progress, Reading, CleanupPhases
<1>5. CASE SendRequest /\ phase' = "line" /\ sent' = Append(sent, "account/rateLimits/read")
  <2>1. /\ phase = "request" /\ ident' = 2 /\ failure' = failure
        /\ sent = <<"initialize", "initialized">> /\ failure = "none" /\ outcome = "none" /\ Answered
    BY <1>5 DEF SendRequest, CheckAndWrite, Goto, Raise, CleanUp, Progress, resultVars, Reading
  <2>2. sent' = Handshake
    BY <1>5, <2>1, AppendThree DEF Handshake
  <2>3. Answered'
    BY <1>1, <2>1 DEF Answered
  <2> QED
    BY <1>1, <1>5, <2>1, <2>2, <2>3 DEF Progress, Reading, CleanupPhases
<1> QED
  BY <1>2, <1>3, <1>4, <1>5
  DEF SendInitialize, SendInitialized, SendRequest, CheckAndWrite, Goto, Raise, CleanUp

(* Reading more neither sends nor takes anything; a read of nothing after  *)
(* the second answer completes the exchange.                               *)
LEMMA ReadProgress ==
  ASSUME ReaderTypeOK, SessionInv, ControlTyped, Progress,
         NeedMore \/ ReadRemainder \/ ReadSignal \/ ReadTimesOut \/ ProbePending
  PROVE  Progress'
<1>1. UNCHANGED <<sent, taken, ident, outcome>> /\ phase \in {"line", "read", "probe"}
  BY DEF NeedMore, ReadRemainder, ReadSignal, ReadTimesOut, ProbePending, Split, Accept, MayRead,
         lineVars, Goto, Raise, CleanUp, resultVars
<1>2. failure = "none" /\ outcome = "none"
  BY <1>1 DEF Progress, Reading
<1>3. CASE phase' = "closeStdin" /\ failure' \in FailureKinds
  BY <1>1, <1>3, RaiseProgress
<1>4. CASE phase \in {"line", "read"} /\ phase' \in {"line", "read"} /\ failure' = failure
  <2>1. Answered => Answered'
    BY <1>1 DEF Answered
  <2> QED
    BY <1>1, <1>2, <1>4, <2>1 DEF Progress, Reading, CleanupPhases
<1>5. CASE /\ phase = "probe" /\ phase' = "poll" /\ failure' = failure
           /\ buffer = <<>> /\ remainder = <<>>
           /\ UNCHANGED <<buffer, remainder, delivered>>
  <2>1. taken \in Seq(AllBytes) /\ taken \o buffer \o remainder = delivered
    BY <1>5 DEF SessionInv, BytesTyped, CapKept, LinesAreFaithful, Reading
  <2>2. taken = delivered
    BY <1>5, <2>1, ConcatEmptySeq
  <2>3. Complete
    BY <1>5, <2>2 DEF Progress, Complete
  <2>4. Complete'
    BY <1>1, <1>5, <2>3, AnswersKept
  <2> QED
    BY <1>1, <1>2, <1>5, <2>4 DEF Progress, Reading, CleanupPhases
<1>6. CASE NeedMore
  <2>1. \/ phase' = "closeStdin" /\ failure' \in FailureKinds
        \/ phase = "line" /\ phase' = "read" /\ failure' = failure
    BY <1>6 DEF NeedMore, Goto, Raise, CleanUp, FailureKinds, resultVars
  <2> QED
    BY <1>3, <1>4, <2>1
<1>7. CASE (ReadRemainder \/ ReadSignal) /\ \E bytes : Accept(bytes)
  <2>1. \/ phase' = "closeStdin" /\ failure' \in FailureKinds
        \/ phase = "read" /\ phase' = "line" /\ failure' = failure
    BY <1>7 DEF ReadRemainder, ReadSignal, Accept, MayRead, Goto, Raise, CleanUp, FailureKinds, resultVars
  <2> QED
    BY <1>3, <1>4, <2>1
<1>8. CASE ReadSignal /\ ~(\E bytes : Accept(bytes))
  <2> DEFINE signal == Head(signals)
  <2>1. /\ MayRead /\ remainder = <<>> /\ signals # <<>> /\ signal.kind # "DATA"
        /\ delivered' = delivered \o signal.data /\ UNCHANGED <<buffer, remainder>>
    BY <1>8 DEF ReadSignal, Get, Split, lineVars
  <2>2. signal \in Signals
    BY <2>1, HeadTailProperties DEF ReaderTypeOK
  <2>3. signal.data = <<>>
    BY <2>1, <2>2 DEF Signals, Eof, Error
  <2>4. delivered' = delivered
    BY <2>1, <2>3, ConcatEmptySeq DEF ReaderTypeOK
  <2>5. \/ phase' = "closeStdin" /\ failure' \in FailureKinds
        \/ phase = "probe" /\ phase' = "poll" /\ failure' = failure
    BY <1>8, <2>1 DEF ReadSignal, Goto, Raise, CleanUp, FailureKinds, resultVars
  <2>6. phase = "probe" => buffer = <<>>
    BY <2>1 DEF MayRead
  <2> QED
    BY <1>3, <1>5, <2>1, <2>4, <2>5, <2>6
<1>9. CASE ReadTimesOut \/ ProbePending
  <2>1. \/ phase' = "closeStdin" /\ failure' \in FailureKinds
        \/ /\ phase = "probe" /\ phase' = "poll" /\ failure' = failure
           /\ buffer = <<>> /\ remainder = <<>>
           /\ UNCHANGED <<buffer, remainder, delivered>>
    BY <1>9 DEF ReadTimesOut, ProbePending, MayRead, Goto, Raise, CleanUp, FailureKinds, resultVars,
                lineVars, readerVars
  <2> QED
    BY <1>3, <1>5, <2>1
<1> QED
  <2>1. ReadRemainder => \E bytes : Accept(bytes)
    BY DEF ReadRemainder, Split
  <2> QED
    BY <1>6, <1>7, <1>8, <1>9, <2>1

(* Every step keeps what its phase knows of the handshake. *)
LEMMA ProgressStep ==
  ASSUME ReaderTypeOK, BytesConserved, SessionInv, ControlTyped, CleanupOrder, Progress,
         [SessionNext]_allVars
  PROVE  Progress'
<1> USE DEF lettersVars, lineVars, childVars, resultVars
<1>1. ASSUME Environment PROVE Progress'
  <2>1. UNCHANGED <<lettersVars, outcome, phase>>
    BY <1>1
    DEF Environment, ChildSends, ChildWrites, ChildClosesStdout, WriteEndCloses,
        ChildExits, DeadlinePasses, sessionVars,
        readerVars
  <2> QED
    BY <2>1, ProgressUntouched
<1>2. ASSUME StartProcess PROVE Progress'
  <2>1. /\ phase = "start" /\ phase' = "initialize"
        /\ UNCHANGED <<ident, sent, taken, failure, outcome>>
    BY <1>2 DEF StartProcess, Goto
  <2> QED
    BY <2>1 DEF Progress, Reading, CleanupPhases
<1>3. ASSUME StartFails \/ StartProcessWithoutReader PROVE Progress'
  <2>1. CASE StartFails
    <3>1. phase' = "ended" /\ outcome' # "payload"
      BY <2>1 DEF StartFails
    <3> QED
      BY <3>1 DEF Progress, Reading, CleanupPhases
  <2>2. CASE StartProcessWithoutReader
    <3>1. /\ phase # "ended" /\ phase' = "closeStdin" /\ failure' \in FailureKinds
          /\ outcome' = outcome
      BY <2>2 DEF StartProcessWithoutReader, FailureKinds
    <3> QED
      BY <3>1, RaiseProgress
  <2> QED
    BY <1>3, <2>1, <2>2
<1>4. ASSUME SendInitialize \/ SendInitialized \/ SendRequest PROVE Progress'
  BY <1>4, SendProgress
<1>5. ASSUME TakeLine PROVE Progress'
  BY <1>5, TakeLineProgress
<1>6. ASSUME NeedMore \/ ReadRemainder \/ ReadSignal \/ ReadTimesOut \/ ProbePending
      PROVE  Progress'
  BY <1>6, ReadProgress
<1>7. ASSUME Poll PROVE Progress'
  <2>1. /\ phase = "poll" /\ phase' = "closeStdin" /\ outcome' = outcome
        /\ UNCHANGED <<ident, sent, taken, buffer, remainder, delivered>>
    BY <1>7 DEF Poll, Goto, Raise, CleanUp, readerVars
  <2>2. Complete'
    BY <2>1, AnswersKept DEF Progress
  <2> QED
    BY <2>1, <2>2 DEF Progress, Reading, CleanupPhases
<1>8. ASSUME CloseStdin \/ Terminate \/ Wait \/ Kill \/ WaitKilled \/ Close \/ CleanupRaises
      PROVE  Progress'
  <2> USE DEF CleanupRaises, CloseStdinRaises, TerminateRaises, WaitRaises, KillRaises,
              WaitKilledRaises, CloseRaises
  <2>1. UNCHANGED <<lettersVars, outcome>> /\ phase \in CleanupPhases /\ phase' \in CleanupPhases
    BY <1>8
    DEF CloseStdin, Terminate, Wait, Kill, WaitKilled, Close, CloseDescriptor,
        Attempted, readerVars, CleanupPhases
  <2> QED
    BY <2>1, ProgressUntouched
<1>9. ASSUME StopReader PROVE Progress'
  <2>1. UNCHANGED <<lettersVars, outcome, phase>>
    BY <1>9 DEF StopReader, SetStop, Drain, sessionVars
  <2> QED
    BY <2>1, ProgressUntouched
<1>10. ASSUME JoinReader PROVE Progress'
  <2>1. /\ phase = "join" /\ phase' = "ended" /\ UNCHANGED lettersVars
        /\ outcome' = "payload" => failure = "none" \/ failure = "payload"
    BY <1>10 DEF JoinReader, Joined, JoinTimesOut, Result
  <2>2. failure # "payload"
    BY DEF ControlTyped, FailureKinds
  <2>3. failure = "none" => Complete'
    BY <2>1, AnswersKept DEF Progress, CleanupPhases
  <2> QED
    BY <2>1, <2>2, <2>3 DEF Progress, Reading, CleanupPhases
<1>11. ASSUME ThreadStep PROVE Progress'
  <2>1. UNCHANGED <<lettersVars, outcome, phase>>
    BY <1>11
    DEF ThreadStep, WorkerStep, CallRead, ReadData, ReadEof, ReadError, ReadClosed,
        ForeignRead, Hold, Put, Check, sessionVars
  <2> QED
    BY <2>1, ProgressUntouched
<1>12. ASSUME UNCHANGED allVars PROVE Progress'
  <2>1. UNCHANGED <<lettersVars, outcome, phase>>
    BY <1>12 DEF allVars, readerVars, sessionVars
  <2> QED
    BY <2>1, ProgressUntouched
<1> QED
  BY <1>1, <1>2, <1>3, <1>4, <1>5, <1>6, <1>7, <1>8, <1>9, <1>10, <1>11, <1>12
  DEF SessionNext, SessionStep

(* Nothing was sent or read before the child was started. *)
LEMMA InitProgress == SessionInit => Progress
BY DEF SessionInit, Progress, Reading, CleanupPhases

(* A payload means the whole handshake and nothing after it, for any       *)
(* frames in any order, cut anywhere, and any cap.                         *)
THEOREM PayloadMeansHandshake == SessionSpec => []SuccessMeansHandshake
<1>1. SessionSpec => []ReaderTypeOK /\ []BytesConserved
  BY SessionUsesReader, ReaderTypeCorrect, NoByteLost, PTL DEF ReadsThroughPipeReader
<1>2. SessionInit => Progress
  BY InitProgress
<1>3. /\ ReaderTypeOK /\ BytesConserved /\ SessionInv /\ ControlTyped /\ CleanupOrder
      /\ Progress /\ [SessionNext]_allVars
      => Progress'
  BY ProgressStep
<1>4. Progress => SuccessMeansHandshake
  BY DEF Progress, Complete, AnsweredTwice, Handshake, SuccessMeansHandshake
<1> QED
  BY <1>1, <1>2, <1>3, <1>4, SessionInvariant, PTL DEF SessionSpec
-----------------------------------------------------------------------------
(***************************************************************************)
(* The failed cleanup that is not reported.  TLC's counterexample to       *)
(* CleanupFailureIsProcess is an exchange whose reader thread cannot be    *)
(* started; that is the only way to one.                                   *)
(***************************************************************************)
NoReader ==
  /\ phase = "start" => sent = <<>>
  /\ phase \in Reading => ~discarded
  /\ phase \in Reading \/ child = "none" => ~cleanupFailed
  /\ phase \in (Reading \ {"start"}) \union CleanupPhases => child # "none"
  /\ discarded => sent = <<>> /\ failure = "UNAVAILABLE"
  /\ discarded /\ phase = "ended" => outcome \in {"UNAVAILABLE", "PROCESS"}

(* A cleanup that failed is reported as PROCESS, or it is __init__'s own   *)
(* after the reader thread could not be started: then nothing was sent to  *)
(* the child, and the exchange ends as UNAVAILABLE.                        *)
ReportedOrNoReader ==
  phase = "ended" /\ cleanupFailed /\ outcome # "PROCESS" =>
    discarded /\ sent = <<>> /\ outcome = "UNAVAILABLE"

(* A step before the cleanup, or one that changes none of this. *)
LEMMA NoReaderUntouched ==
  ASSUME NoReader, child' = "none" <=> child = "none",
         UNCHANGED <<cleanupFailed, discarded>>,
         \/ UNCHANGED <<phase, sent, failure, outcome>>
         \/ /\ phase \in Reading \ {"start"} /\ phase' \in Reading \union {"closeStdin"}
            /\ phase' # "start"
  PROVE  NoReader'
BY DEF NoReader, Reading, CleanupPhases

(* Every step keeps what is known of an exchange without a reader. *)
LEMMA NoReaderStep ==
  ASSUME ControlTyped, CleanupOrder, NoReader, [SessionNext]_allVars
  PROVE  NoReader'
<1> USE DEF resultVars, childVars
<1>1. ASSUME Environment \/ StopReader \/ ThreadStep \/ UNCHANGED allVars
      PROVE  NoReader'
  <2>1. /\ UNCHANGED <<phase, sent, failure, outcome, cleanupFailed, discarded>>
        /\ child' \in {child, "zombie"} /\ (child' # child => child = "running")
    <3>1. CASE ChildSends \/ ChildClosesStdout \/ StopReader \/ ThreadStep \/ UNCHANGED allVars
      BY <3>1 DEF ChildSends, ChildClosesStdout, StopReader, ThreadStep, sessionVars, allVars
    <3>2. CASE ChildExits
      BY <3>2 DEF ChildExits
    <3>3. CASE DeadlinePasses
      BY <3>3 DEF DeadlinePasses
    <3> QED
      BY <1>1, <3>1, <3>2, <3>3 DEF Environment
  <2> QED
    BY <2>1, NoReaderUntouched
<1>2. ASSUME StartFails \/ StartProcess \/ StartProcessWithoutReader PROVE NoReader'
  BY <1>2 DEF StartFails, StartProcess, StartProcessWithoutReader, Goto, NoReader, Reading,
              CleanupPhases
<1>3. ASSUME SendInitialize \/ SendInitialized \/ SendRequest \/ TakeLine \/ NeedMore
             \/ ReadTimesOut \/ ProbePending \/ ReadRemainder \/ ReadSignal \/ Poll
      PROVE  NoReader'
  <2>1. UNCHANGED <<cleanupFailed, discarded>>
    BY <1>3 DEF SendInitialize, SendInitialized, SendRequest, CheckAndWrite, TakeLine, Frame,
                NeedMore, ReadTimesOut, ProbePending, ReadRemainder, ReadSignal, Split, Accept,
                Poll, Goto, Raise, CleanUp
  <2>2. /\ phase \in Reading \ {"start"} /\ phase' \in Reading \union {"closeStdin"}
        /\ phase' # "start"
    BY <1>3 DEF SendInitialize, SendInitialized, SendRequest, CheckAndWrite, TakeLine, Frame,
                NeedMore, ReadTimesOut, ProbePending, ReadRemainder, ReadSignal, Split, Accept,
                Poll, MayRead, Goto, Raise, CleanUp, Reading
  <2>3. child' = "none" <=> child = "none"
    BY <1>3 DEF SendInitialize, SendInitialized, SendRequest, CheckAndWrite, TakeLine,
                NeedMore, ReadTimesOut, ProbePending, ReadRemainder, ReadSignal, Poll, Reaped
  <2> QED
    BY <2>1, <2>2, <2>3, NoReaderUntouched
<1>4. ASSUME CloseStdin \/ Terminate \/ Wait \/ Kill \/ WaitKilled \/ Close \/ CleanupRaises
      PROVE  NoReader'
  <2> USE DEF CleanupRaises, CloseStdinRaises, TerminateRaises, WaitRaises, KillRaises,
              WaitKilledRaises, CloseRaises
  <2>1. /\ phase \in CleanupPhases /\ phase' \in CleanupPhases
        /\ UNCHANGED <<sent, failure, discarded, outcome>>
    BY <1>4 DEF CloseStdin, Terminate, Wait, Kill, WaitKilled, Close, Attempted, CleanupPhases
  <2>2. child' \in {child, Reaped}
    <3>1. CASE CloseStdin \/ Close
      BY <3>1 DEF CloseStdin, Close
    <3>2. CASE Terminate \/ Wait \/ Kill \/ WaitKilled
      BY <3>2 DEF Terminate, Wait, Kill, WaitKilled
    <3>3. CASE CleanupRaises
      BY <3>3
    <3> QED
      BY <1>4, <3>1, <3>2, <3>3
  <2> QED
    BY <2>1, <2>2 DEF NoReader, Reaped, Reading, CleanupPhases
<1>5. ASSUME JoinReader PROVE NoReader'
  <2>1. /\ phase = "join" /\ phase' = "ended"
        /\ UNCHANGED <<sent, failure, discarded, child>>
        /\ outcome' \in {"PROCESS", failure, "payload"}
        /\ outcome' = "payload" => failure = "none"
    BY <1>5 DEF JoinReader, Result, ControlTyped, FailureKinds
  <2> QED
    BY <2>1 DEF NoReader, Reading, CleanupPhases
<1> QED
  BY <1>1, <1>2, <1>3, <1>4, <1>5 DEF SessionNext, SessionStep

LEMMA NoReaderInvariant == SessionSpec => [](ControlTyped /\ CleanupOrder /\ NoReader)
<1>1. SessionInit => NoReader
  BY DEF SessionInit, NoReader, CleanupPhases
<1>2. ControlTyped /\ CleanupOrder /\ NoReader /\ [SessionNext]_allVars => NoReader'
  BY NoReaderStep
<1> QED
  BY <1>1, <1>2, SessionInvariant, PTL DEF SessionSpec

(* A failed cleanup goes unreported only when the reader thread could not  *)
(* be started, for any frames and any cap.                                 *)
THEOREM UnreportedMeansNoReader == SessionSpec => []ReportedOrNoReader
<1>1. CleanupOrder /\ NoReader => ReportedOrNoReader
  BY DEF CleanupOrder, NoReader, ReportedOrNoReader
<1> QED
  BY <1>1, NoReaderInvariant, PTL

(* Once a step of the cleanup has failed, the exchange ends in PROCESS or  *)
(* it is the cleanup of __init__: whichever of the later steps succeed.    *)
THEOREM FailuresAreTold == SessionSpec => FailedStepIsTold
<1> DEFINE Told == cleanupFailed /\ phase # "ended" =>
                     /\ cleanupFailed'
                     /\ phase' = "ended" /\ ~discarded => outcome' = "PROCESS"
<1>1. ASSUME ControlTyped, NoReader, [SessionNext]_allVars PROVE Told
  <2> SUFFICES ASSUME cleanupFailed, phase # "ended"
               PROVE  /\ cleanupFailed'
                      /\ phase' = "ended" /\ ~discarded => outcome' = "PROCESS"
    OBVIOUS
  <2>1. phase \in CleanupPhases
    BY <1>1 DEF ControlTyped, NoReader, SessionPhases, Reading
  <2>2. CASE JoinReader
    BY <2>2 DEF JoinReader, Result
  <2>3. CASE CloseStdin \/ Terminate \/ Wait \/ Kill \/ WaitKilled \/ Close \/ CleanupRaises
    <3>1. cleanupFailed' /\ phase' \in CleanupPhases
      BY <2>3 DEF CloseStdin, Terminate, Wait, Kill, WaitKilled, Close, CleanupRaises,
                  CloseStdinRaises, TerminateRaises, WaitRaises, KillRaises, WaitKilledRaises,
                  CloseRaises, Attempted, CleanupPhases
    <3> QED
      BY <3>1 DEF CleanupPhases
  <2>4. CASE Environment \/ StopReader \/ ThreadStep \/ UNCHANGED allVars
    <3>1. UNCHANGED <<phase, cleanupFailed>>
      BY <2>4 DEF Environment, ChildSends, ChildClosesStdout, ChildExits,
                  DeadlinePasses, StopReader, ThreadStep, sessionVars,
                  resultVars, allVars
    <3> QED
      BY <3>1
  <2>5. CASE StartFails \/ StartProcess \/ StartProcessWithoutReader \/ SendInitialize
             \/ SendInitialized \/ SendRequest \/ TakeLine \/ NeedMore \/ ReadRemainder
             \/ ReadSignal \/ ReadTimesOut \/ ProbePending \/ Poll
    BY <2>1, <2>5
    DEF StartFails, StartProcess, StartProcessWithoutReader, SendInitialize, SendInitialized,
        SendRequest, CheckAndWrite, TakeLine, NeedMore, ReadRemainder, ReadSignal, ReadTimesOut,
        MayRead, ProbePending, Poll, CleanupPhases
  <2> QED
    BY <1>1, <2>2, <2>3, <2>4, <2>5 DEF SessionNext, SessionStep
<1>2. ControlTyped /\ CleanupOrder /\ NoReader /\ [SessionNext]_allVars => [Told]_allVars
  BY <1>1
<1> HIDE DEF Told
<1>3. SessionSpec => [][Told]_allVars
  BY <1>2, NoReaderInvariant, PTL DEF SessionSpec
<1> QED
  BY <1>3 DEF Told, FailedStepIsTold
-----------------------------------------------------------------------------
(***************************************************************************)
(* How much an exchange may still do.  Every phase has a place in the      *)
(* order in which exchange and _cleanup come to them; a read goes one back *)
(* but takes a byte from what the cap leaves, and a line takes one from    *)
(* the buffer.                                                             *)
(***************************************************************************)
Stage ==
  CASE phase = "start"       -> 19
    [] phase = "initialize"  -> 18
    [] phase = "line"        -> IF ident = 1 THEN 17 ELSE 13
    [] phase = "read"        -> IF ident = 1 THEN 16 ELSE 12
    [] phase = "initialized" -> 15
    [] phase = "request"     -> 14
    [] phase = "probe"       -> 11
    [] phase = "poll"        -> 10
    [] phase = "closeStdin"  -> 9
    [] phase = "terminate"   -> 8
    [] phase = "wait"        -> 7
    [] phase = "kill"        -> 6
    [] phase = "waitKilled"  -> 5
    [] phase = "close"       -> 4
    [] phase = "join"        -> CASE owner = "reading" -> 3
                                  [] owner = "stopped" -> 2
                                  [] OTHER             -> 1
    [] OTHER                 -> 0

(* What exchange does, steps of its cleanup that raise included. *)
ExchangeStep == SessionStep \/ CleanupRaises

Work == 3 * (MaxOutput + 1 - output) + Len(buffer) + Stage

(* Each step of exchange leaves less for it to do, and nothing that the    *)
(* child, the thread or the clock does leaves more: only waiting can keep  *)
(* an exchange from its end, and every wait is bounded by the clock.       *)
WorkShrinks == [][Work' <= Work /\ (ExchangeStep => Work' < Work)]_allVars

(* An exchange takes at most 3 * MaxOutput + 22 steps of its own. *)
WorkBounded == Work \in 0 .. 3 * MaxOutput + 22

LEMMA WorkTyped ==
  ASSUME SessionInv
  PROVE  /\ Stage \in 0 .. 19 /\ Stage' \in 0 .. 19
         /\ Len(buffer) \in Nat
         /\ output \in 0 .. MaxOutput + 1
         /\ Work \in Nat
<1>1. Stage \in 0 .. 19 /\ Stage' \in 0 .. 19
  BY DEF Stage
<1>2. Len(buffer) \in Nat
  BY LenProperties DEF SessionInv, BytesTyped
<1>3. output \in 0 .. MaxOutput + 1
  BY DEF SessionInv, BytesTyped
<1> HIDE DEF Stage
<1> QED
  BY <1>1, <1>2, <1>3, MaxOutputAssumption DEF Work

LEMMA NextWorkTyped ==
  ASSUME SessionInv'
  PROVE  Work' \in Nat
<1>1. Stage' \in 0 .. 19
  BY DEF Stage
<1>2. Len(buffer') \in Nat /\ output' \in 0 .. MaxOutput + 1
  BY LenProperties DEF SessionInv, BytesTyped
<1> HIDE DEF Stage
<1> QED
  BY <1>1, <1>2, MaxOutputAssumption DEF Work

(* A step that reads nothing and comes to a later phase. *)
LEMMA StageFalls ==
  ASSUME SessionInv, UNCHANGED <<output, buffer>>, Stage' < Stage
  PROVE  Work' < Work
<1>1. /\ Stage \in 0 .. 19 /\ Stage' \in 0 .. 19 /\ Len(buffer) \in Nat
      /\ output \in 0 .. MaxOutput + 1
  BY WorkTyped
<1> QED
  BY <1>1, MaxOutputAssumption DEF Work

(* An exception raised before the cleanup. *)
LEMMA RaiseFalls ==
  ASSUME phase \in Reading, phase' = "closeStdin"
  PROVE  Stage' < Stage
BY DEF Reading, Stage

(* A read takes a byte or more. *)
LEMMA FrontIsNotEmpty ==
  ASSUME NEW s \in Seq(AllBytes), s # <<>>, NEW n \in Nat \ {0}
  PROVE  Len(UpTo(n, s)) \in 1 .. n
<1>1. Len(s) \in Nat /\ Len(s) # 0
  BY LenProperties, EmptySeq
<1>2. UpTo(n, s) = SubSeq(s, 1, IF n < Len(s) THEN n ELSE Len(s))
  BY DEF UpTo
<1> QED
  BY <1>1, <1>2

LEMMA SplitFalls ==
  ASSUME SessionInv, ControlTyped, MayRead, UNCHANGED ident,
         NEW bytes \in Seq(AllBytes), Len(bytes) \in 1 .. ReadChunk,
         Split(bytes)
  PROVE  Work' < Work
<1> DEFINE front == UpTo(Maximum, bytes)
           size == Len(front)
<1>1. Maximum \in Nat \ {0}
  BY ReadChunkAssumption, MaxOutputAssumption
  DEF SessionInv, BytesTyped, CapKept, MayRead, Maximum, Budget, Reading
<1>2. front \in Seq(AllBytes) /\ size \in Nat /\ size >= 1
  <2>1. bytes # <<>>
    BY EmptySeq
  <2>2. front \in Seq(AllBytes)
    BY <1>1, Cutting
  <2>3. size \in 1 .. Maximum
    BY <1>1, <2>1, FrontIsNotEmpty
  <2> QED
    BY <1>1, <2>2, <2>3
<1>3. Accept(front)
  BY DEF Split
<1> HIDE DEF front
<1>4. output' = output + size /\ phase \in {"read", "probe"}
  BY <1>3 DEF Accept, MayRead
<1>5. \/ phase' = "closeStdin" /\ buffer' = buffer
      \/ phase' = "closeStdin" /\ buffer' = buffer \o front
      \/ phase = "read" /\ phase' = "line" /\ buffer' = buffer \o front
  BY <1>3, <1>4 DEF Accept, Raise, CleanUp, Goto
<1>6. Len(buffer') \in {Len(buffer), Len(buffer) + size}
  BY <1>2, <1>5, ConcatProperties DEF SessionInv, BytesTyped
<1>7. Stage' <= Stage + 1
  BY <1>4, <1>5 DEF Stage, ControlTyped
<1> HIDE DEF size
<1>8. /\ Stage \in 0 .. 19 /\ Stage' \in 0 .. 19 /\ Len(buffer) \in Nat
      /\ output \in 0 .. MaxOutput + 1
  BY WorkTyped
<1> QED
  BY <1>2, <1>4, <1>6, <1>7, <1>8, MaxOutputAssumption DEF Work
(* A line taken out of the buffer is one byte or more; what it says leads  *)
(* to the next message, to the probe or to an exception, and a             *)
(* notification to the next line.                                          *)
LEMMA TakeLineFalls ==
  ASSUME SessionInv, ControlTyped, TakeLine
  PROVE  Work' < Work
<1>1. PICK n \in 1 .. Len(buffer) :
        buffer' = SubSeq(buffer, n + 1, Len(buffer)) /\ Frame(buffer[n].frame)
  BY DEF TakeLine
<1>2. Len(buffer') < Len(buffer) /\ Len(buffer') \in Nat
  BY <1>1, LenProperties DEF SessionInv, BytesTyped
<1>3. phase = "line" /\ UNCHANGED <<ident, output>>
  BY DEF TakeLine
<1>4. phase' \in {"line", "closeStdin", IF ident = 1 THEN "initialized" ELSE "probe"}
  BY <1>1 DEF Frame, Goto, Raise, CleanUp
<1>5. Stage' <= Stage
  BY <1>3, <1>4 DEF Stage, ControlTyped
<1>6. /\ Stage \in 0 .. 19 /\ Stage' \in 0 .. 19 /\ Len(buffer) \in Nat
      /\ output \in 0 .. MaxOutput + 1
  BY WorkTyped
<1> QED
  BY <1>2, <1>3, <1>5, <1>6, MaxOutputAssumption DEF Work

(* What the others do leaves phase, bytes and owner as they are. *)
LEMMA WorkUntouched ==
  ASSUME Environment \/ ThreadStep \/ UNCHANGED allVars
  PROVE  Work' = Work
<1>1. UNCHANGED <<phase, ident, owner, output, buffer>>
  <2>1. CASE ChildSends
    BY <2>1 DEF ChildSends, ChildWrites, sessionVars, lineVars
  <2>2. CASE ChildClosesStdout
    BY <2>2 DEF ChildClosesStdout, WriteEndCloses, sessionVars, lineVars
  <2>3. CASE ChildExits \/ DeadlinePasses
    BY <2>3 DEF ChildExits, DeadlinePasses, lineVars,
                readerVars
  <2>4. CASE ThreadStep
    BY <2>4, ThreadKeepsOwner DEF ThreadStep, sessionVars, lineVars
  <2>5. CASE UNCHANGED allVars
    BY <2>5 DEF allVars, readerVars, sessionVars, lineVars
  <2> QED
    BY <2>1, <2>2, <2>3, <2>4, <2>5 DEF Environment
<1> QED
  BY <1>1 DEF Work, Stage

(* A step of exchange reads, takes a line, or comes to a later phase.      *)
LEMMA ExchangeStepFalls ==
  ASSUME ReaderTypeOK, SessionInv, ControlTyped, CleanupOrder, ExchangeStep
  PROVE  Work' < Work
<1> USE DEF resultVars, childVars
<1>1. CASE StartFails \/ StartProcess \/ StartProcessWithoutReader
  <2>1. UNCHANGED <<output, buffer>> /\ phase = "start"
        /\ phase' \in {"initialize", "closeStdin", "ended"}
    BY <1>1 DEF StartFails, StartProcess, StartProcessWithoutReader, Goto, lineVars
  <2>2. Stage' < Stage
    BY <2>1 DEF Stage
  <2> QED
    BY <2>1, <2>2, StageFalls
<1>2. CASE SendInitialize \/ SendInitialized \/ SendRequest
  <2>1. UNCHANGED <<output, buffer>>
    BY <1>2 DEF SendInitialize, SendInitialized, SendRequest, CheckAndWrite, lineVars
  <2>2. \/ phase \in Reading /\ phase' = "closeStdin"
        \/ phase = "initialize" /\ phase' = "line"
        \/ phase = "initialized" /\ phase' = "request"
        \/ phase = "request" /\ phase' = "line" /\ ident' = 2
    BY <1>2 DEF SendInitialize, SendInitialized, SendRequest, CheckAndWrite, Goto, Raise, CleanUp, Reading
  <2>3. Stage' < Stage
    BY <2>2, RaiseFalls DEF Stage
  <2> QED
    BY <2>1, <2>3, StageFalls
<1>3. CASE TakeLine
  BY <1>3, TakeLineFalls
<1>4. CASE NeedMore \/ ReadTimesOut \/ ProbePending \/ Poll
  <2>1. UNCHANGED <<ident, output, buffer>>
    BY <1>4 DEF NeedMore, ReadTimesOut, ProbePending, Poll, lineVars
  <2>2. \/ phase \in Reading /\ phase' = "closeStdin"
        \/ phase = "line" /\ phase' = "read"
        \/ phase = "probe" /\ phase' = "poll"
    BY <1>4 DEF NeedMore, ReadTimesOut, ProbePending, Poll, Goto, Raise, CleanUp, Reading, MayRead
  <2>3. Stage' < Stage
    BY <2>1, <2>2, RaiseFalls DEF Stage
  <2> QED
    BY <2>1, <2>3, StageFalls
<1>5. CASE ReadRemainder
  <2>1. MayRead /\ Split(remainder) /\ UNCHANGED ident /\ remainder # <<>>
    BY <1>5 DEF ReadRemainder
  <2>2. remainder \in Seq(AllBytes) /\ Len(remainder) \in 1 .. ReadChunk
    BY <2>1, LenProperties, EmptySeq, ReadChunkAssumption DEF SessionInv, BytesTyped
  <2> QED
    BY <2>1, <2>2, SplitFalls
<1>6. CASE ReadSignal
  <2> DEFINE signal == Head(signals)
  <2>1. /\ MayRead /\ UNCHANGED ident /\ signals # <<>>
        /\ \/ signal.kind = "DATA" /\ Split(signal.data)
           \/ /\ UNCHANGED lineVars
              /\ IF phase = "probe" THEN phase' \in {"poll", "closeStdin"}
                                    ELSE phase' = "closeStdin"
    BY <1>6 DEF ReadSignal, Goto, Raise, CleanUp
  <2>2. signal \in Signals
    BY <2>1, HeadTailProperties DEF ReaderTypeOK
  <2>3. CASE signal.kind = "DATA" /\ Split(signal.data)
    <3>1. signal.data \in Seq(AllBytes) /\ Len(signal.data) \in 1 .. ReadChunk
      BY <2>2, <2>3 DEF Signals, Chunks, Eof, Error
    <3> QED
      BY <2>1, <2>3, <3>1, SplitFalls
  <2>4. CASE /\ UNCHANGED lineVars
             /\ IF phase = "probe" THEN phase' \in {"poll", "closeStdin"}
                                   ELSE phase' = "closeStdin"
    <3>1. Stage' < Stage
      BY <2>1, <2>4 DEF MayRead, Stage
    <3> QED
      BY <2>4, <3>1, StageFalls DEF lineVars
  <2> QED
    BY <2>1, <2>3, <2>4
<1>7. CASE CloseStdin \/ Terminate \/ Wait \/ Kill \/ WaitKilled \/ Close \/ CleanupRaises
  <2> USE DEF CleanupRaises, CloseStdinRaises, TerminateRaises, WaitRaises, KillRaises,
              WaitKilledRaises, CloseRaises
  <2>1. UNCHANGED <<output, buffer>>
    BY <1>7 DEF CloseStdin, Terminate, Wait, Kill, WaitKilled, Close, Attempted, lineVars
  <2>2. <<phase, phase'>> \in
          {<<"closeStdin", "terminate">>, <<"terminate", "wait">>, <<"wait", "close">>,
           <<"wait", "kill">>, <<"kill", "waitKilled">>, <<"waitKilled", "close">>,
           <<"close", "join">>}
    BY <1>7 DEF CloseStdin, Terminate, Wait, Kill, WaitKilled, Close, Attempted
  <2>3. Stage' < Stage
    BY <2>2 DEF Stage
  <2> QED
    BY <2>1, <2>3, StageFalls
<1>8. CASE StopReader
  <2>1. /\ UNCHANGED <<output, buffer, phase>> /\ phase = "join"
        /\ \/ owner = "reading" /\ owner' = "stopped"
           \/ owner = "stopped" /\ owner' = "drained"
    BY <1>8 DEF StopReader, SetStop, Drain, sessionVars, lineVars
  <2>2. Stage' < Stage
    BY <2>1 DEF Stage
  <2> QED
    BY <2>1, <2>2, StageFalls
<1>9. CASE JoinReader
  <2>1. UNCHANGED <<output, buffer>> /\ phase = "join" /\ phase' = "ended"
    BY <1>9 DEF JoinReader, lineVars
  <2>2. Stage' < Stage
    BY <2>1 DEF Stage
  <2> QED
    BY <2>1, <2>2, StageFalls
<1> QED
  BY <1>1, <1>2, <1>3, <1>4, <1>5, <1>6, <1>7, <1>8, <1>9 DEF SessionStep, ExchangeStep

(* Whatever the child sends or does not send, and whenever: an exchange    *)
(* comes closer to its end with every step it takes.                       *)
THEOREM ExchangeComesToEnd == SessionSpec => WorkShrinks /\ []WorkBounded
<1> DEFINE Inv == SessionInv /\ ControlTyped /\ CleanupOrder
<1>1. SessionSpec => []ReaderTypeOK /\ []BytesConserved
  BY SessionUsesReader, ReaderTypeCorrect, NoByteLost, PTL DEF ReadsThroughPipeReader
<1>2. SessionSpec => []Inv
  BY SessionInvariant
<1>3. ASSUME ReaderTypeOK, Inv, SessionInv', [SessionNext]_allVars
      PROVE  Work' <= Work /\ (ExchangeStep => Work' < Work)
  <2>1. Work \in Nat /\ Work' \in Nat
    BY <1>3, WorkTyped, NextWorkTyped
  <2>2. CASE ExchangeStep
    BY <1>3, <2>1, <2>2, ExchangeStepFalls
  <2>3. CASE ~ExchangeStep
    BY <1>3, <2>1, <2>3, WorkUntouched DEF SessionNext, ExchangeStep
  <2> QED
    BY <2>2, <2>3
<1>4. ASSUME SessionInit PROVE WorkBounded
  BY <1>4, MaxOutputAssumption DEF SessionInit, Work, Stage, WorkBounded
<1>5. ASSUME ReaderTypeOK, Inv, SessionInv', WorkBounded, [SessionNext]_allVars
      PROVE  WorkBounded'
  <2>1. Work \in Nat /\ Work' \in Nat /\ Work' <= Work
    BY <1>3, <1>5, WorkTyped, NextWorkTyped
  <2> QED
    BY <1>5, <2>1, MaxOutputAssumption DEF WorkBounded
<1>6. Inv => SessionInv
  OBVIOUS
<1> HIDE DEF Inv
<1>7. SessionSpec => []SessionInv
  BY <1>2, <1>6, PTL
<1>8. SessionSpec => []WorkBounded
  BY <1>1, <1>2, <1>4, <1>5, <1>7, PTL DEF SessionSpec
<1>9. SessionSpec => WorkShrinks
  BY <1>1, <1>2, <1>3, <1>7, PTL DEF SessionSpec, WorkShrinks
<1> QED
  BY <1>8, <1>9, PTL
=============================================================================
