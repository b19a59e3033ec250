----------------------------- MODULE PipeReader -----------------------------
(***************************************************************************)
(* _PipeReader (providers/_codex_jsonl_transport.py): one daemon thread    *)
(* that reads a child's stdout and hands each chunk to its owner through a *)
(* queue of one slot, and its shutdown: set the stop event, take at most   *)
(* one signal out of the queue, join with a timeout.                       *)
(*                                                                         *)
(* A byte is a member of Bytes.  The other end of the pipe (the child, and *)
(* whatever inherited its stdout) is the environment.  The owner may close *)
(* the descriptor while the thread is running; a read that starts after    *)
(* that fails, or reads from whatever file got the same number meanwhile:  *)
(* the outcomes of ForeignRead.                                            *)
(***************************************************************************)
EXTENDS Integers, Sequences

CONSTANTS
  Bytes,      \* what the child writes
  Foreign,    \* a byte of a file that is not this pipe
  ReadChunk,  \* _PipeReader._read_chunk
  MaxBytes    \* bound: bytes the child writes

ASSUME ReadChunkAssumption == ReadChunk \in Nat \ {0}
ASSUME MaxBytesAssumption == MaxBytes \in Nat
ASSUME ForeignAssumption == Foreign \notin Bytes

VARIABLES
  pipe,       \* bytes written and not yet read by the thread
  writeOpen,  \* some process still holds the write end
  readOpen,   \* self._descriptor is still open
  worker,     \* where the thread is in _run
  held,       \* its local signal
  signals,    \* self._signals
  stop,       \* self._stop
  owner,      \* how far the owner is: reading, or in stop_and_join
  wrote,      \* history: every byte the child wrote
  delivered   \* history: every byte read() handed to the owner

threadVars == <<worker, held>>
pipeVars == <<pipe, writeOpen, wrote>>
readerVars == <<pipe, writeOpen, readOpen, worker, held, signals, stop, owner,
                wrote, delivered>>

(* _ReadKind and _ReadSignal *)
Data(bytes) == [kind |-> "DATA", data |-> bytes]
Eof == [kind |-> "EOF", data |-> <<>>]
Error == [kind |-> "ERROR", data |-> <<>>]

AllBytes == Bytes \union {Foreign}
Chunks == {bytes \in Seq(AllBytes) : Len(bytes) \in 1 .. ReadChunk}
Signals == [kind : {"DATA"}, data : Chunks] \union {Eof, Error}

WorkerStates ==
  {"unstarted",  \* start() not called, or it raised
   "call",       \* about to call os.read
   "reading",    \* blocked in os.read on the pipe
   "foreign",    \* blocked in os.read on another file
   "put",        \* in Queue.put
   "check",      \* at the loop condition
   "exited"}

Owners == {"reading", "stopped", "drained", "joined", "abandoned"}

ReaderTypeOK ==
  /\ pipe \in Seq(Bytes)
  /\ writeOpen \in BOOLEAN
  /\ readOpen \in BOOLEAN
  /\ worker \in WorkerStates
  /\ held \in Signals
  /\ signals \in Seq(Signals)
  /\ Len(signals) <= 1
  /\ stop \in BOOLEAN
  /\ owner \in Owners
  /\ wrote \in Seq(Bytes)
  /\ delivered \in Seq(AllBytes)

ReaderInit ==
  /\ pipe = <<>>
  /\ writeOpen = TRUE
  /\ readOpen = TRUE
  /\ worker = "unstarted"
  /\ held = Eof
  /\ signals = <<>>
  /\ stop = FALSE
  /\ owner = "reading"
  /\ wrote = <<>>
  /\ delivered = <<>>

-----------------------------------------------------------------------------
(* The environment.                                                        *)

ChildWrites(b) ==
  /\ writeOpen
  /\ Len(wrote) < MaxBytes
  /\ pipe' = Append(pipe, b)
  /\ wrote' = Append(wrote, b)
  /\ UNCHANGED <<writeOpen, readOpen, threadVars, signals, stop, owner, delivered>>

(* The last process that holds the write end closes it or ends. *)
WriteEndCloses ==
  /\ writeOpen
  /\ writeOpen' = FALSE
  /\ UNCHANGED <<pipe, readOpen, threadVars, signals, stop, owner, wrote, delivered>>

-----------------------------------------------------------------------------
(* The thread.                                                             *)

Start ==
  /\ worker = "unstarted"
  /\ owner = "reading"
  /\ readOpen
  /\ worker' = "call"
  /\ UNCHANGED <<pipeVars, readOpen, held, signals, stop, owner, delivered>>

(* os.read is entered while the descriptor is open: it is this pipe's.     *)
CallRead ==
  /\ worker = "call"
  /\ readOpen
  /\ worker' = "reading"
  /\ UNCHANGED <<pipeVars, readOpen, held, signals, stop, owner, delivered>>

Hold(signal) ==
  /\ held' = signal
  /\ worker' = "put"
  /\ UNCHANGED <<writeOpen, readOpen, signals, stop, owner, wrote, delivered>>

ChunkSize == IF Len(pipe) < ReadChunk THEN Len(pipe) ELSE ReadChunk

(* os.read returns what is there, up to the chunk; nothing only at the end. *)
ReadData ==
  /\ worker = "reading"
  /\ pipe # <<>>
  /\ pipe' = SubSeq(pipe, ChunkSize + 1, Len(pipe))
  /\ Hold(Data(SubSeq(pipe, 1, ChunkSize)))

ReadEof ==
  /\ worker = "reading"
  /\ pipe = <<>>
  /\ ~writeOpen
  /\ UNCHANGED pipe
  /\ Hold(Eof)

(* The read itself fails while the descriptor is open. *)
ReadError ==
  /\ worker = "reading"
  /\ UNCHANGED pipe
  /\ Hold(Error)

(* os.read is entered after close(): EBADF, or another file's descriptor.  *)
ReadClosed ==
  /\ worker = "call"
  /\ ~readOpen
  /\ UNCHANGED pipe
  /\ \/ Hold(Error)
     \/ /\ worker' = "foreign"
        /\ UNCHANGED <<writeOpen, readOpen, held, signals, stop, owner, wrote,
                       delivered>>

ForeignRead ==
  /\ worker = "foreign"
  /\ UNCHANGED pipe
  /\ \E signal \in {Data(<<Foreign>>), Eof, Error} : Hold(signal)

(* Mutant of Put: a queue without maxsize. *)
PutUnbounded ==
  /\ worker = "put"
  /\ signals' = Append(signals, held)
  /\ worker' = "check"
  /\ UNCHANGED <<pipeVars, readOpen, held, stop, owner, delivered>>

(* Mutant of Put: a put that does not block drops what does not fit. *)
PutOrDrop ==
  /\ worker = "put"
  /\ signals' = IF Len(signals) < 1 THEN Append(signals, held) ELSE signals
  /\ worker' = "check"
  /\ UNCHANGED <<pipeVars, readOpen, held, stop, owner, delivered>>

(* Queue.put blocks while the one slot is taken. *)
Put ==
  /\ worker = "put"
  /\ Len(signals) < 1
  /\ signals' = Append(signals, held)
  /\ worker' = "check"
  /\ UNCHANGED <<pipeVars, readOpen, held, stop, owner, delivered>>

(* Mutant of Check: the loop condition leaves out the stop event. *)
CheckKindOnly ==
  /\ worker = "check"
  /\ worker' = IF held.kind = "DATA" THEN "call" ELSE "exited"
  /\ UNCHANGED <<pipeVars, readOpen, held, signals, stop, owner, delivered>>

(* The loop goes on after data, unless the stop event is set. *)
Check ==
  /\ worker = "check"
  /\ worker' = IF held.kind = "DATA" /\ ~stop THEN "call" ELSE "exited"
  /\ UNCHANGED <<pipeVars, readOpen, held, signals, stop, owner, delivered>>

WorkerStep ==
  \/ CallRead \/ ReadData \/ ReadEof \/ ReadError
  \/ ReadClosed \/ ForeignRead \/ Put \/ Check

-----------------------------------------------------------------------------
(* The owner.                                                              *)

(* read() takes the signal that is there; bytes of data come with it.  The *)
(* owner never reads again once it has closed the descriptor.              *)
Get(bytes) ==
  /\ owner = "reading"
  /\ readOpen
  /\ signals # <<>>
  /\ signals' = Tail(signals)
  /\ delivered' = delivered \o bytes
  /\ UNCHANGED <<pipeVars, readOpen, threadVars, stop, owner>>

(* _PopenProcess.close: the stdout object closes the thread's descriptor.  *)
CloseDescriptor ==
  /\ owner = "reading"
  /\ readOpen
  /\ readOpen' = FALSE
  /\ UNCHANGED <<pipeVars, threadVars, signals, stop, owner, delivered>>

SetStop ==
  /\ owner = "reading"
  /\ stop' = TRUE
  /\ owner' = "stopped"
  /\ UNCHANGED <<pipeVars, readOpen, threadVars, signals, delivered>>

(* Mutant of Drain: the signal left in the queue stays there. *)
DrainNothing ==
  /\ owner = "stopped"
  /\ owner' = "drained"
  /\ UNCHANGED <<pipeVars, readOpen, threadVars, signals, stop, delivered>>

(* get_nowait, once: whatever the slot holds is thrown away. *)
Drain ==
  /\ owner = "stopped"
  /\ signals' = IF signals = <<>> THEN signals ELSE Tail(signals)
  /\ owner' = "drained"
  /\ UNCHANGED <<pipeVars, readOpen, threadVars, stop, delivered>>

(* join: the thread has ended, or the timeout expires first.  A thread     *)
(* whose start() raised cannot be joined: join raises at once.             *)
Joined ==
  /\ owner = "drained"
  /\ worker = "exited"
  /\ owner' = "joined"
  /\ UNCHANGED <<pipeVars, readOpen, threadVars, signals, stop, delivered>>

JoinTimesOut ==
  /\ owner = "drained"
  /\ worker # "exited"
  /\ owner' = "abandoned"
  /\ UNCHANGED <<pipeVars, readOpen, threadVars, signals, stop, delivered>>

OwnerStep ==
  \/ signals # <<>> /\ Get(Head(signals).data)
  \/ CloseDescriptor \/ SetStop \/ Drain \/ Joined \/ JoinTimesOut

Over ==
  owner \in {"joined", "abandoned"} /\ worker \in {"unstarted", "exited"}

ReaderNext ==
  \/ \E b \in Bytes : ChildWrites(b)
  \/ WriteEndCloses
  \/ Start
  \/ WorkerStep
  \/ OwnerStep
  \/ Over /\ UNCHANGED readerVars

ReaderSpec == ReaderInit /\ [][ReaderNext]_readerVars

(* The thread runs whenever the kernel or the queue lets it; the owner     *)
(* and the child promise nothing.  A read of a foreign file may block.     *)
ReaderFairness ==
  /\ WF_readerVars(CallRead \/ ReadData \/ ReadEof \/ ReadClosed)
  /\ WF_readerVars(Put)
  /\ WF_readerVars(Check)

ReaderFairSpec == ReaderSpec /\ ReaderFairness

-----------------------------------------------------------------------------

SignalData(signal) == IF signal.kind = "DATA" THEN signal.data ELSE <<>>
QueueData == IF signals = <<>> THEN <<>> ELSE SignalData(Head(signals))
HeldData == IF worker = "put" THEN SignalData(held) ELSE <<>>

(* Until the owner closes the descriptor no byte is lost, duplicated or    *)
(* reordered on its way through the thread and the queue: what the owner   *)
(* got, what waits in the slot, what the thread holds and what is still in *)
(* the pipe are together exactly what the child wrote.                     *)
BytesConserved ==
  owner = "reading" /\ readOpen =>
    delivered \o QueueData \o HeldData \o pipe = wrote

(* stop_and_join empties one slot once; that is enough.  Afterwards the    *)
(* thread can always finish the put it is in, or the one it is heading to. *)
DrainSuffices ==
  owner \in {"drained", "joined", "abandoned"} /\ worker = "put" => signals = <<>>

(* After the drain the thread ends by itself as soon as the pipe's write   *)
(* end closes, even when the join gave up on it: unless it went into a     *)
(* foreign file, the daemon thread does not outlive the child's output.    *)
AbandonedThreadEnds ==
  (owner \in {"drained", "abandoned"} /\ ~writeOpen /\ worker # "unstarted")
    ~> worker \in {"exited", "foreign"}
=============================================================================
