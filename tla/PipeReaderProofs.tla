-------------------------- MODULE PipeReaderProofs --------------------------
(***************************************************************************)
(* Proofs about PipeReader for any bytes, chunk size and child: the types, *)
(* the bound of the queue, that one drain is enough for shutdown, and that *)
(* a thread told to stop is a few steps from its end.                      *)
(***************************************************************************)
EXTENDS PipeReader, SequenceTheorems, TLAPS

(* What shutdown leaves for the thread to put: before the drain at most    *)
(* one signal waits in the slot; after it the slot and the put the thread  *)
(* is in, or on its way to, are together at most one.                      *)
OnItsWay == {"unstarted", "call", "reading", "foreign", "put"}

Shutdown ==
  /\ owner # "reading" => stop
  /\ owner \in {"drained", "joined", "abandoned"} /\ worker \in OnItsWay => signals = <<>>

ReaderInv == ReaderTypeOK /\ Shutdown

(* Cutting a chunk off the pipe leaves two sequences of bytes. *)
LEMMA ChunkTyping ==
  ASSUME ReaderTypeOK, pipe # <<>>
  PROVE  /\ SubSeq(pipe, 1, ChunkSize) \in Seq(Bytes)
         /\ Len(SubSeq(pipe, 1, ChunkSize)) \in 1 .. ReadChunk
         /\ SubSeq(pipe, ChunkSize + 1, Len(pipe)) \in Seq(Bytes)
<1>1. ChunkSize \in 1 .. Len(pipe) /\ ChunkSize \in 1 .. ReadChunk
  BY ReadChunkAssumption DEF ReaderTypeOK, ChunkSize
<1> QED
  BY <1>1 DEF ReaderTypeOK

LEMMA SignalTyping ==
  /\ \A bytes \in Chunks : Data(bytes) \in Signals
  /\ Eof \in Signals
  /\ Error \in Signals
  /\ \A signal \in Signals : signal.data \in Seq(AllBytes) /\ SignalData(signal) = signal.data
<1>1. \A bytes \in Chunks : Data(bytes) \in Signals
  BY DEF Signals, Data
<1>2. Eof \in Signals /\ Error \in Signals
  BY DEF Signals
<1>3. ASSUME NEW signal \in [kind : {"DATA"}, data : Chunks]
      PROVE  signal.data \in Seq(AllBytes) /\ SignalData(signal) = signal.data
  BY DEF SignalData, Chunks
<1>4. ASSUME NEW signal \in {Eof, Error}
      PROVE  signal.data \in Seq(AllBytes) /\ SignalData(signal) = signal.data
  <2>1. signal.data = <<>> /\ signal.kind # "DATA"
    BY DEF Eof, Error
  <2> QED
    BY <2>1, EmptySeq DEF SignalData
<1> QED
  BY <1>1, <1>2, <1>3, <1>4 DEF Signals

LEMMA BytesInAll == Seq(Bytes) \subseteq Seq(AllBytes)
BY SeqMonotonic DEF AllBytes

(* The initial state satisfies the invariant. *)
LEMMA InitReaderInv == ReaderInit => ReaderInv
<1> SUFFICES ASSUME ReaderInit PROVE ReaderInv
  OBVIOUS
<1>1. <<>> \in Seq(Bytes) /\ <<>> \in Seq(AllBytes) /\ <<>> \in Seq(Signals)
  BY EmptySeq
<1>2. Len(<<>>) = 0
  BY EmptySeq
<1>3. Eof \in Signals
  BY SignalTyping
<1>4. pipe \in Seq(Bytes) /\ wrote \in Seq(Bytes) /\ delivered \in Seq(AllBytes)
  BY <1>1 DEF ReaderInit
<1>5. signals \in Seq(Signals) /\ Len(signals) <= 1
  BY <1>1, <1>2 DEF ReaderInit
<1>6. /\ writeOpen \in BOOLEAN /\ readOpen \in BOOLEAN /\ stop \in BOOLEAN
      /\ worker \in WorkerStates /\ held \in Signals /\ owner \in Owners
  BY <1>3 DEF ReaderInit, WorkerStates, Owners
<1>7. Shutdown
  BY DEF ReaderInit, Shutdown
<1> QED
  BY <1>4, <1>5, <1>6, <1>7 DEF ReaderInv, ReaderTypeOK

(* Every step of child, thread and owner keeps it. *)
LEMMA ReaderInvStep ==
  ASSUME ReaderInv, [ReaderNext]_readerVars
  PROVE  ReaderInv'
<1> USE DEF pipeVars, threadVars
<1>0. ReaderTypeOK /\ Shutdown
  BY DEF ReaderInv
<1> DEFINE Kept == ReaderTypeOK /\ Shutdown
<1>1. ASSUME NEW b \in Bytes, ChildWrites(b)
      PROVE  Kept'
  BY <1>0, <1>1 DEF ChildWrites, ReaderTypeOK, Shutdown
<1>2. ASSUME WriteEndCloses \/ Start \/ CallRead
      PROVE  Kept'
  BY <1>0, <1>2
  DEF WriteEndCloses, Start, CallRead, ReaderTypeOK, Shutdown, WorkerStates, OnItsWay
<1>3. ASSUME ReadData
      PROVE  Kept'
  <2>1. /\ SubSeq(pipe, 1, ChunkSize) \in Chunks
        /\ SubSeq(pipe, ChunkSize + 1, Len(pipe)) \in Seq(Bytes)
    BY <1>0, <1>3, ChunkTyping, BytesInAll DEF ReadData, Chunks
  <2>2. Data(SubSeq(pipe, 1, ChunkSize)) \in Signals
    BY <2>1, SignalTyping
  <2> QED
    BY <1>0, <1>3, <2>1, <2>2
    DEF ReadData, Hold, ReaderTypeOK, Shutdown, WorkerStates, OnItsWay
<1>4. ASSUME NEW signal \in Signals, Hold(signal), worker \in OnItsWay, UNCHANGED pipe
      PROVE  Kept'
  BY <1>0, <1>4 DEF Hold, ReaderTypeOK, Shutdown, WorkerStates, OnItsWay
<1>5. ASSUME ReadEof \/ ReadError
      PROVE  Kept'
  BY <1>4, <1>5, SignalTyping DEF ReadEof, ReadError, OnItsWay
<1>6. ASSUME ReadClosed
      PROVE  Kept'
  <2>1. CASE Hold(Error)
    BY <1>4, <1>6, <2>1, SignalTyping DEF ReadClosed, OnItsWay
  <2>2. CASE ~Hold(Error)
    BY <1>0, <1>6, <2>2 DEF ReadClosed, ReaderTypeOK, Shutdown, WorkerStates, OnItsWay
  <2> QED
    BY <2>1, <2>2
<1>7. ASSUME ForeignRead
      PROVE  Kept'
  <2>1. <<Foreign>> \in Chunks
    BY ReadChunkAssumption DEF AllBytes, Chunks
  <2>2. {Data(<<Foreign>>), Eof, Error} \subseteq Signals
    BY <2>1, SignalTyping
  <2> QED
    BY <1>4, <1>7, <2>2 DEF ForeignRead, OnItsWay
<1>8. ASSUME Put
      PROVE  Kept'
  <2>1. signals' \in Seq(Signals) /\ Len(signals') <= 1
    BY <1>0, <1>8 DEF Put, ReaderTypeOK
  <2> QED
    BY <1>0, <1>8, <2>1 DEF Put, ReaderTypeOK, Shutdown, WorkerStates, OnItsWay
<1>9. ASSUME Check
      PROVE  Kept'
  BY <1>0, <1>9 DEF Check, ReaderTypeOK, Shutdown, WorkerStates, OnItsWay, Owners
<1>10. ASSUME signals # <<>>, Get(Head(signals).data)
       PROVE  Kept'
  <2>1. /\ Head(signals) \in Signals
        /\ Tail(signals) \in Seq(Signals)
        /\ Len(Tail(signals)) <= 1
    BY <1>0, <1>10, HeadTailProperties DEF ReaderTypeOK
  <2>2. delivered \o Head(signals).data \in Seq(AllBytes)
    BY <1>0, <2>1, SignalTyping, ConcatProperties DEF ReaderTypeOK
  <2> QED
    BY <1>0, <1>10, <2>1, <2>2 DEF Get, ReaderTypeOK, Shutdown
<1>11. ASSUME CloseDescriptor \/ SetStop
       PROVE  Kept'
  BY <1>0, <1>11 DEF CloseDescriptor, SetStop, ReaderTypeOK, Shutdown, Owners
<1>12. ASSUME Drain
       PROVE  Kept'
  <2>1. signals' = <<>>
    BY <1>0, <1>12 DEF Drain, ReaderTypeOK
  <2>2. <<>> \in Seq(Signals) /\ Len(<<>>) = 0
    BY EmptySeq
  <2> QED
    BY <1>0, <1>12, <2>1, <2>2 DEF Drain, ReaderTypeOK, Shutdown, Owners
<1>13. ASSUME Joined \/ JoinTimesOut
       PROVE  Kept'
  BY <1>0, <1>13 DEF Joined, JoinTimesOut, ReaderTypeOK, Shutdown, Owners
<1>14. ASSUME UNCHANGED readerVars
       PROVE  Kept'
  BY <1>0, <1>14 DEF readerVars, ReaderTypeOK, Shutdown
<1> HIDE DEF Kept
<1>15. Kept'
  BY <1>1, <1>2, <1>3, <1>5, <1>6, <1>7, <1>8, <1>9, <1>10, <1>11, <1>12, <1>13,
     <1>14
  DEF ReaderNext, WorkerStep, OwnerStep
<1> QED
  BY <1>15 DEF Kept, ReaderInv

THEOREM ReaderInvariant == ReaderSpec => []ReaderInv
<1>1. ReaderInit => ReaderInv
  BY InitReaderInv
<1>2. ReaderInv /\ [ReaderNext]_readerVars => ReaderInv'
  BY ReaderInvStep
<1> QED
  BY <1>1, <1>2, PTL DEF ReaderSpec

(* The variables keep their types, and the queue never holds two signals.  *)
THEOREM ReaderTypeCorrect == ReaderSpec => []ReaderTypeOK
<1>1. ReaderInv => ReaderTypeOK
  BY DEF ReaderInv
<1> QED
  BY <1>1, ReaderInvariant, PTL

(* One get_nowait in stop_and_join is enough: from then on the thread is   *)
(* never blocked in put, whatever it was doing when the event was set.     *)
THEOREM OneDrainSuffices == ReaderSpec => []DrainSuffices
<1>1. ReaderInv => DrainSuffices
  BY DEF ReaderInv, Shutdown, OnItsWay, DrainSuffices
<1> QED
  BY <1>1, ReaderInvariant, PTL

-----------------------------------------------------------------------------

(* The four places a byte can be in are sequences of bytes. *)
LEMMA StreamTyping ==
  ASSUME ReaderTypeOK
  PROVE  /\ delivered \in Seq(AllBytes) /\ QueueData \in Seq(AllBytes)
         /\ HeldData \in Seq(AllBytes) /\ pipe \in Seq(AllBytes)
<1>1. <<>> \in Seq(AllBytes)
  BY EmptySeq
<1>2. QueueData \in Seq(AllBytes)
  <2>1. CASE signals = <<>>
    BY <1>1, <2>1 DEF QueueData
  <2>2. CASE signals # <<>>
    BY <2>2, HeadTailProperties, SignalTyping DEF ReaderTypeOK, QueueData
  <2> QED
    BY <2>1, <2>2
<1>3. HeldData \in Seq(AllBytes)
  BY <1>1, SignalTyping DEF ReaderTypeOK, HeldData
<1> QED
  BY <1>2, <1>3, BytesInAll DEF ReaderTypeOK

(* The thread is in a foreign file only after close, and nothing that has  *)
(* to do with the pipe is lost before.                                     *)
Conserved ==
  /\ worker = "foreign" => ~readOpen
  /\ BytesConserved

LEMMA InitConserved == ReaderInit => Conserved
<1>1. <<>> \o <<>> = <<>>
  BY EmptySeq, ConcatEmptySeq
<1>2. ReaderInit => delivered = <<>> /\ QueueData = <<>> /\ HeldData = <<>> /\ pipe = <<>>
  BY DEF ReaderInit, QueueData, HeldData
<1> QED
  BY <1>1, <1>2 DEF ReaderInit, Conserved, BytesConserved

(* What os.read takes and what it leaves are together the pipe. *)
LEMMA SplitAtChunk ==
  ASSUME NEW s \in Seq(AllBytes), NEW k \in 0 .. Len(s)
  PROVE  SubSeq(s, 1, k) \o SubSeq(s, k + 1, Len(s)) = SubSeq(s, 1, Len(s))
<1>1. Len(s) \in Nat
  BY LenProperties
<1>2. 1 \in 1 .. Len(s) + 1 /\ k \in 1 - 1 .. Len(s) /\ Len(s) \in k .. Len(s)
  BY <1>1
<1> QED
  BY <1>2, ConcatAdjacentSubSeq

(* A byte moves from one place to the next, in order. *)
LEMMA ConservedStep ==
  ASSUME ReaderInv, Conserved, [ReaderNext]_readerVars
  PROVE  Conserved'
<1> USE DEF pipeVars, threadVars
<1>0. /\ ReaderTypeOK /\ ReaderTypeOK'
      /\ worker = "foreign" => ~readOpen
  BY ReaderInvStep DEF ReaderInv, Conserved
<1>f. (worker = "foreign" => ~readOpen)'
  BY <1>0
  DEF ReaderNext, readerVars, ChildWrites, WriteEndCloses, Start, WorkerStep, CallRead,
      ReadData, ReadEof, ReadError, ReadClosed, ForeignRead, Hold, Put, Check,
      OwnerStep, Get, CloseDescriptor, SetStop, Drain, Joined, JoinTimesOut
<1>s. /\ delivered \in Seq(AllBytes) /\ QueueData \in Seq(AllBytes)
      /\ HeldData \in Seq(AllBytes) /\ pipe \in Seq(AllBytes)
      /\ \A x, y \in Seq(AllBytes) : x \o y \in Seq(AllBytes)
      /\ \A x \in Seq(AllBytes) : x \o <<>> = x /\ <<>> \o x = x
      /\ \A x, y, z \in Seq(AllBytes) : (x \o y) \o z = x \o (y \o z)
  <2>1. \A x, y \in Seq(AllBytes) : x \o y \in Seq(AllBytes)
    BY ConcatProperties
  <2>2. \A x \in Seq(AllBytes) : x \o <<>> = x /\ <<>> \o x = x
    BY ConcatEmptySeq
  <2>3. \A x, y, z \in Seq(AllBytes) : (x \o y) \o z = x \o (y \o z)
    BY ConcatAssociative
  <2> QED
    BY <1>0, <2>1, <2>2, <2>3, StreamTyping
<1> SUFFICES ASSUME (owner = "reading" /\ readOpen)'
             PROVE  (delivered \o QueueData \o HeldData \o pipe = wrote)'
  BY <1>f DEF Conserved, BytesConserved
<1>r. owner = "reading" /\ readOpen
  BY DEF ReaderNext, readerVars, ChildWrites, WriteEndCloses, Start, WorkerStep,
      CallRead, ReadData, ReadEof, ReadError, ReadClosed, ForeignRead, Hold, Put, Check,
      OwnerStep, Get, CloseDescriptor, SetStop, Drain, Joined, JoinTimesOut
<1>w. delivered \o QueueData \o HeldData \o pipe = wrote
  BY <1>r DEF Conserved, BytesConserved
<1> DEFINE Same == (delivered \o QueueData \o HeldData \o pipe = wrote)'
<1>1. ASSUME NEW b \in Bytes, ChildWrites(b)
      PROVE  Same
  <2>1. /\ pipe' = pipe \o <<b>> /\ wrote' = wrote \o <<b>>
        /\ <<b>> \in Seq(AllBytes)
    BY <1>0, <1>1, AppendIsConcat DEF ChildWrites, ReaderTypeOK, AllBytes
  <2>2. UNCHANGED <<delivered, QueueData, HeldData>>
    BY <1>1 DEF ChildWrites, QueueData, HeldData
  <2> DEFINE front == delivered \o QueueData \o HeldData
  <2>3. front \in Seq(AllBytes)
    BY <1>s
  <2>4. front \o (pipe \o <<b>>) = (front \o pipe) \o <<b>>
    <3>1. pipe \in Seq(AllBytes) /\ <<b>> \in Seq(AllBytes)
      BY <1>s, <2>1
    <3> HIDE DEF front
    <3> QED
      BY <2>3, <3>1, ConcatAssociative
  <2> QED
    BY <1>w, <2>1, <2>2, <2>4
<1>2. ASSUME UNCHANGED <<delivered, QueueData, HeldData, pipe, wrote>>
      PROVE  Same
  BY <1>w, <1>2
<1>3. ASSUME ReadData
      PROVE  Same
  <2> DEFINE chunk == SubSeq(pipe, 1, ChunkSize)
             rest == SubSeq(pipe, ChunkSize + 1, Len(pipe))
  <2>1. chunk \in Seq(AllBytes) /\ rest \in Seq(AllBytes)
    BY <1>0, <1>3, ChunkTyping, BytesInAll DEF ReadData
  <2>2. ChunkSize \in 0 .. Len(pipe) /\ Len(pipe) \in Nat
    BY <1>0, ReadChunkAssumption DEF ReaderTypeOK, ChunkSize
  <2>3. chunk \o rest = pipe
    <3>1. chunk \o rest = SubSeq(pipe, 1, Len(pipe))
      <4>1. pipe \in Seq(AllBytes)
        BY <1>s
      <4> QED
        BY <2>2, <4>1, SplitAtChunk
    <3> QED
      BY <1>s, <3>1, SubSeqFull
  <2>4. /\ HeldData = <<>> /\ HeldData' = chunk /\ pipe' = rest
        /\ UNCHANGED <<delivered, QueueData, wrote>>
    BY <1>3 DEF ReadData, Hold, HeldData, QueueData, Data, SignalData
  <2> HIDE DEF chunk, rest
  <2>5. delivered \o QueueData \o chunk \o rest = delivered \o QueueData \o pipe
    <3> DEFINE front == delivered \o QueueData
    <3>1. front \in Seq(AllBytes)
      BY <1>s
    <3> HIDE DEF front
    <3>2. (front \o chunk) \o rest = front \o (chunk \o rest)
      BY <2>1, <3>1, ConcatAssociative
    <3> QED
      BY <2>3, <3>2 DEF front
  <2> QED
    BY <1>s, <1>w, <2>4, <2>5
<1>4. ASSUME NEW signal \in {Eof, Error}, Hold(signal), worker # "put", UNCHANGED pipe
      PROVE  Same
  <2>1. HeldData = <<>> /\ HeldData' = <<>>
    BY <1>4 DEF Hold, HeldData, SignalData, Eof, Error
  <2>2. UNCHANGED <<delivered, QueueData, wrote>>
    BY <1>4 DEF Hold, QueueData
  <2> QED
    BY <1>2, <1>4, <2>1, <2>2
<1>5. ASSUME ReadEof \/ ReadError
      PROVE  Same
  BY <1>4, <1>5 DEF ReadEof, ReadError
<1>6. ~ReadClosed /\ ~ForeignRead
  BY <1>0, <1>r DEF ReadClosed, ForeignRead
<1>7. ASSUME Put
      PROVE  Same
  <2>1. signals = <<>> /\ signals' = <<held>>
    <3>1. signals \in Seq(Signals) /\ Len(signals) < 1 /\ held \in Signals
      BY <1>0, <1>7 DEF Put, ReaderTypeOK
    <3>2. signals = <<>>
      BY <3>1, EmptySeq
    <3> QED
      BY <1>7, <3>2 DEF Put
  <2>2. /\ QueueData = <<>> /\ QueueData' = SignalData(held)
        /\ HeldData = SignalData(held) /\ HeldData' = <<>>
        /\ UNCHANGED <<delivered, pipe, wrote>>
    BY <1>7, <2>1 DEF Put, QueueData, HeldData
  <2> QED
    BY <1>s, <1>w, <2>2
<1>8. ASSUME signals # <<>>, Get(Head(signals).data)
      PROVE  Same
  <2>1. Tail(signals) = <<>> /\ Head(signals) \in Signals
    BY <1>0, <1>8 DEF ReaderTypeOK
  <2>2. QueueData = Head(signals).data
    BY <1>8, <2>1, SignalTyping DEF QueueData
  <2>3. /\ QueueData' = <<>> /\ delivered' = delivered \o QueueData
        /\ UNCHANGED <<HeldData, pipe, wrote>>
    BY <1>8, <2>1, <2>2 DEF Get, QueueData, HeldData
  <2> QED
    BY <1>s, <1>w, <2>3
<1>9. ASSUME \/ WriteEndCloses \/ Start \/ CallRead \/ Check \/ CloseDescriptor
             \/ SetStop \/ Drain \/ Joined \/ JoinTimesOut \/ UNCHANGED readerVars
      PROVE  Same
  <2>1. UNCHANGED <<delivered, pipe, wrote>>
    BY <1>9
    DEF WriteEndCloses, Start, CallRead, Check, CloseDescriptor, SetStop, Drain, Joined,
        JoinTimesOut, readerVars
  <2>2. UNCHANGED <<QueueData, HeldData>>
    BY <1>9, <1>r
    DEF WriteEndCloses, Start, CallRead, Check, CloseDescriptor, SetStop, Drain, Joined,
        JoinTimesOut, readerVars, QueueData, HeldData
  <2> QED
    BY <1>2, <2>1, <2>2
<1> QED
  BY <1>1, <1>3, <1>5, <1>6, <1>7, <1>8, <1>9 DEF ReaderNext, WorkerStep, OwnerStep

(* No byte of the child is lost, duplicated or reordered between the pipe  *)
(* and the owner for any chunk size and any timing of thread and owner.    *)
THEOREM NoByteLost == ReaderSpec => []BytesConserved
<1>1. ReaderInit => Conserved
  BY InitConserved
<1>2. ReaderInv /\ Conserved /\ [ReaderNext]_readerVars => Conserved'
  BY ConservedStep
<1>3. Conserved => BytesConserved
  BY DEF Conserved
<1> QED
  BY <1>1, <1>2, <1>3, ReaderInvariant, PTL DEF ReaderSpec
-----------------------------------------------------------------------------
(***************************************************************************)
(* How much the thread may still do once the stop event is set: the loop   *)
(* condition is the last it looks at.                                      *)
(***************************************************************************)
ThreadSteps ==
  CASE worker = "call"                   -> 4
    [] worker \in {"reading", "foreign"} -> 3
    [] worker = "put"                    -> 2
    [] worker = "check"                  -> 1
    [] OTHER                             -> 0

(* After stop_and_join has set the event the thread takes at most four     *)
(* more steps, whichever file it reads and whatever it gets.               *)
ThreadFinishes ==
  [][stop => ThreadSteps' <= ThreadSteps /\ (WorkerStep => ThreadSteps' < ThreadSteps)]_readerVars

(* Whatever the thread reads, and from whichever file, once its owner has  *)
(* told it to stop it is a few steps from its end; DrainSuffices says that *)
(* the queue keeps it from none of them.                                   *)
THEOREM ToldThreadFinishes == ReaderSpec => ThreadFinishes
<1> DEFINE StopTold == stop => owner # "reading"
<1>1. ReaderInit => StopTold
  BY DEF ReaderInit
<1>2. ASSUME [ReaderNext]_readerVars, StopTold PROVE StopTold'
  <2>1. owner # "reading" => owner' # "reading"
    BY <1>2 DEF ReaderNext, ChildWrites, WriteEndCloses, Start, WorkerStep, CallRead, ReadData,
         ReadEof, ReadError, ReadClosed, ForeignRead, Hold, Put, Check, OwnerStep, Get,
         CloseDescriptor, SetStop, Drain, Joined, JoinTimesOut, Over, readerVars
  <2>2. stop' = stop \/ owner' # "reading"
    BY <1>2 DEF ReaderNext, ChildWrites, WriteEndCloses, Start, WorkerStep, CallRead, ReadData,
         ReadEof, ReadError, ReadClosed, ForeignRead, Hold, Put, Check, OwnerStep, Get,
         CloseDescriptor, SetStop, Drain, Joined, JoinTimesOut, Over, readerVars
  <2> QED
    BY <1>2, <2>1, <2>2
<1>3. ASSUME WorkerStep, stop PROVE ThreadSteps' < ThreadSteps
  <2>1. \/ worker = "call" /\ worker' \in {"reading", "foreign", "put"}
        \/ worker \in {"reading", "foreign"} /\ worker' = "put"
        \/ worker = "put" /\ worker' = "check"
        \/ worker = "check" /\ worker' = "exited"
    <3>1. CASE CallRead \/ ReadClosed
      BY <3>1 DEF CallRead, ReadClosed, Hold
    <3>2. CASE ReadData \/ ReadEof \/ ReadError
      BY <3>2 DEF ReadData, ReadEof, ReadError, Hold
    <3>3. CASE ForeignRead
      BY <3>3 DEF ForeignRead, Hold
    <3>4. CASE Put \/ Check
      BY <1>3, <3>4 DEF Put, Check
    <3> QED
      BY <1>3, <3>1, <3>2, <3>3, <3>4 DEF WorkerStep
  <2> QED
    BY <2>1 DEF ThreadSteps
<1>4. ASSUME [ReaderNext]_readerVars, ~WorkerStep, stop, StopTold
      PROVE  ThreadSteps' = ThreadSteps
  <2>1. worker' = worker
    BY <1>4 DEF ReaderNext, ChildWrites, WriteEndCloses, Start, OwnerStep, Get, CloseDescriptor,
                SetStop, Drain, Joined, JoinTimesOut, threadVars, readerVars
  <2> QED
    BY <2>1 DEF ThreadSteps
<1>5. ThreadSteps \in 0 .. 4 /\ ThreadSteps' \in 0 .. 4
  BY DEF ThreadSteps
<1>6. ASSUME [ReaderNext]_readerVars, StopTold
      PROVE  stop => ThreadSteps' <= ThreadSteps /\ (WorkerStep => ThreadSteps' < ThreadSteps)
  <2> HIDE DEF StopTold
  <2>1. CASE WorkerStep
    BY <1>3, <1>5, <2>1
  <2>2. CASE ~WorkerStep
    BY <1>4, <1>5, <1>6, <2>2
  <2> QED
    BY <2>1, <2>2
<1> HIDE DEF StopTold
<1> QED
  BY <1>1, <1>2, <1>6, PTL DEF ReaderSpec, ThreadFinishes
=============================================================================
