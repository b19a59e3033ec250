-------------------------- MODULE LiveDriverProofs --------------------------
(***************************************************************************)
(* Proofs about LiveDriver, for any limit, chunk and amount of output.     *)
(* What was written is in the pipe or was read; the thread stops reading   *)
(* at the limit or when nobody can write any more, and after that nobody   *)
(* can begin to.  Last, that a call cannot go on without end.              *)
(***************************************************************************)
EXTENDS LiveDriver, TLAPS

(* Nothing is lost between the group and the thread. *)
NothingLost == pipe + output = written

(* The event is set exactly when the limit is exceeded. *)
OverflowTold == overflow <=> output > MaxStdout

(* All that will ever come has come. *)
AllRead == pipe = 0 /\ ~WriteEndOpen

(* The thread stops at the limit, at the end of the output, or because a   *)
(* read raised, and puts what it has into box once.                        *)
ReaderStops ==
  /\ reader \in {"unstarted", "reading"} => ~overflow
  /\ reader = "appending" => overflow \/ AllRead
  /\ reader = "done" /\ ~readFailed => box = output /\ (overflow \/ AllRead)
  /\ reader = "done" /\ readFailed => box = 0
  /\ reader # "done" => box = Empty /\ ~readFailed

(* The owner gets past its wait with a leader that was collected. *)
Collecting ==
  /\ phase \in {"join", "check"} => leader = "reaped"
  /\ phase = "start" => reader = "unstarted"
  /\ result.kind = "answer" => phase = "ended"

(* After the kill phase SIGKILL was sent or could not be; a call without   *)
(* a result goes on, and only one without a thread ends in an exception.   *)
KillTold ==
  /\ phase \in {"waitKill", "joinKilled"} \/ result.kind = "refused" => groupKilled \/ failed
  /\ result.kind = "raised" => reader = "unstarted"
  /\ (phase = "ended") <=> (result.kind # "none")

(* Only a process that runs holds the pipe. *)
HoldersLive ==
  /\ "leader" \in holders => leader = "running"
  /\ "helper" \in holders => helper \in {"grouped", "detached"}

DriverInv ==
  /\ DriverTypeOK /\ HoldersLive /\ NothingLost /\ OverflowTold /\ ReaderStops /\ Collecting
  /\ AnswerIsComplete /\ KillTold

-----------------------------------------------------------------------------

LEMMA LeastOfTwo ==
  ASSUME NEW a \in Int, NEW b \in Int
  PROVE  Min({a, b}) = IF a <= b THEN a ELSE b
<1> DEFINE m == IF a <= b THEN a ELSE b
<1>1. m \in {a, b} /\ \A y \in {a, b} : m <= y
  OBVIOUS
<1>2. \A x \in {a, b} : (\A y \in {a, b} : x <= y) => x = m
  OBVIOUS
<1> HIDE DEF m
<1>3. Min({a, b}) = m
  BY <1>1, <1>2 DEF Min
<1> QED
  BY <1>3 DEF m

LEMMA DriverInitInv == ASSUME DriverInit PROVE DriverInv
<1> USE DEF DriverInit
<1>1. DriverTypeOK
  <2>1. result \in Results
    BY DEF Results
  <2>2. 0 \in 0 .. MaxStdout + 1 /\ 0 \in 0 .. MaxWritten
    BY LimitAssumption
  <2>3. box \in 0 .. MaxStdout + 1 \union {Empty}
    OBVIOUS
  <2>4. phase \in Phases
    BY DEF Phases
  <2> QED
    BY <2>1, <2>2, <2>3, <2>4 DEF DriverTypeOK
<1>2. NothingLost
  BY DEF NothingLost
<1>3. OverflowTold
  BY LimitAssumption DEF OverflowTold
<1>4. ReaderStops
  BY DEF ReaderStops
<1>5. result.kind = "none"
  OBVIOUS
<1>6. Collecting /\ AnswerIsComplete /\ KillTold /\ HoldersLive
  BY <1>5 DEF Collecting, AnswerIsComplete, KillTold, HoldersLive
<1> QED
  BY <1>1, <1>2, <1>3, <1>4, <1>6 DEF DriverInv

(* The group's own steps: who could write no more cannot begin again. *)
LEMMA GroupInv ==
  ASSUME DriverInv, Write \/ LeaveHelper \/ LeaderExits \/ HelperExits
                    \/ (\E process \in {"leader", "helper"} : LetGo(process))
                    \/ DeadlinePasses \/ AllowanceRunsOut
  PROVE  DriverInv'
<1> USE DEF ownerVars, readerVars, groupVars, pipeVars, clockVars
<1>1. CASE Write
  <2> USE <1>1 DEF Write
  <2>1. WriteEndOpen /\ WriteEndOpen' = WriteEndOpen
    BY DEF WriteEndOpen
  <2>2. DriverTypeOK'
    <3>1. written + 1 \in 0 .. MaxWritten /\ pipe + 1 \in 0 .. MaxWritten
      BY LimitAssumption DEF DriverInv, DriverTypeOK, NothingLost
    <3> QED
      BY <3>1 DEF DriverInv, DriverTypeOK
  <2>3. NothingLost'
    BY DEF DriverInv, DriverTypeOK, NothingLost
  <2>4. OverflowTold' /\ ReaderStops' /\ Collecting' /\ AnswerIsComplete' /\ KillTold' /\ HoldersLive'
    BY <2>1 DEF HoldersLive, DriverInv, OverflowTold, ReaderStops, Collecting, AnswerIsComplete, AllRead,
                KillTold
  <2> QED
    BY <2>2, <2>3, <2>4 DEF DriverInv
<1>2. CASE LeaveHelper
  <2> USE <1>2 DEF LeaveHelper
  <2>1. (WriteEndOpen' <=> WriteEndOpen) /\ leader # "reaped"
    BY DEF WriteEndOpen
  <2>2. DriverTypeOK' /\ HoldersLive'
    BY DEF DriverInv, DriverTypeOK, HoldersLive
  <2> QED
    BY <2>1, <2>2 DEF DriverInv, NothingLost, OverflowTold, ReaderStops, Collecting,
                AnswerIsComplete, AllRead, KillTold
<1>3. CASE LeaderExits \/ HelperExits \/ \E process \in {"leader", "helper"} : LetGo(process)
  <2> USE <1>3 DEF LeaderExits, HelperExits, LetGo
  <2>1. holders' \subseteq holders /\ (WriteEndOpen' => WriteEndOpen)
    BY DEF WriteEndOpen
  <2>2. leader = "reaped" => leader' = "reaped"
    OBVIOUS
  <2>3. DriverTypeOK' /\ HoldersLive'
    BY <2>1 DEF DriverInv, DriverTypeOK, HoldersLive
  <2>4. /\ NothingLost' /\ OverflowTold' /\ ReaderStops' /\ Collecting' /\ AnswerIsComplete'
        /\ KillTold'
    BY <2>1, <2>2 DEF DriverInv, NothingLost, OverflowTold, ReaderStops, Collecting,
                      AnswerIsComplete, AllRead, KillTold
  <2> QED
    BY <2>3, <2>4 DEF DriverInv
<1>4. CASE DeadlinePasses \/ AllowanceRunsOut
  <2> USE DEF DeadlinePasses, AllowanceRunsOut
  <2>1. WriteEndOpen' = WriteEndOpen
    BY <1>4 DEF WriteEndOpen
  <2>2. DriverTypeOK'
    <3>1. CASE DeadlinePasses
      BY <3>1 DEF DriverInv, DriverTypeOK
    <3>2. CASE AllowanceRunsOut
      BY <3>2 DEF DriverInv, DriverTypeOK
    <3> QED
      BY <1>4, <3>1, <3>2
  <2>3. /\ NothingLost' /\ OverflowTold' /\ ReaderStops'
        /\ Collecting' /\ KillTold' /\ HoldersLive'
    BY <1>4, <2>1 DEF DriverInv, NothingLost, OverflowTold, ReaderStops, Collecting,
                AllRead, KillTold, HoldersLive
  <2>4. AnswerIsComplete'
    BY <1>4, <2>1 DEF DriverInv, AnswerIsComplete
  <2> QED
    BY <2>2, <2>3, <2>4 DEF DriverInv
<1> QED
  BY <1>1, <1>2, <1>3, <1>4

(* The thread's steps. *)
LEMMA ReaderInv == ASSUME DriverInv, ReaderStep PROVE DriverInv'
<1> USE DEF ownerVars, groupVars, clockVars
<1>1. CASE Read
  <2> DEFINE n == Min({pipe, Asked})
  <2>1. /\ pipe \in Nat /\ pipe <= MaxWritten /\ output \in Nat /\ output <= MaxStdout
        /\ pipe + output = written /\ reader = "reading" /\ ~overflow
        /\ MaxStdout \in Nat /\ Chunk \in Nat \ {0}
    <3>1. reader = "reading" /\ ~overflow
      BY <1>1 DEF Read, DriverInv, ReaderStops
    <3>2. ~(output > MaxStdout)
      BY <3>1 DEF DriverInv, OverflowTold
    <3> QED
      BY <3>1, <3>2, LimitAssumption DEF DriverInv, DriverTypeOK, NothingLost
  <2>2. Asked \in Nat \ {0} /\ Asked <= MaxStdout + 1 - output
    BY <2>1, LeastOfTwo DEF Asked
  <2>3. n \in Nat /\ n <= pipe /\ n <= Asked /\ (n = 0 => pipe = 0)
    BY <2>1, <2>2, LeastOfTwo
  <2>4. /\ pipe' = pipe - n /\ output' = output + n /\ overflow' = (output + n > MaxStdout)
        /\ reader' = IF n = 0 \/ overflow' THEN "appending" ELSE "reading"
        /\ UNCHANGED <<phase, failed, result, box, readFailed, leader, helper, holders,
                       groupKilled, written, late, spent>>
        /\ pipe >= Asked \/ ~WriteEndOpen
    BY <1>1 DEF Read
  <2> HIDE DEF n
  <2>5. n = 0 => pipe' = 0 /\ ~WriteEndOpen
    BY <2>1, <2>2, <2>3, <2>4
  <2>6. DriverTypeOK'
    <3>1. pipe' \in 0 .. MaxWritten /\ output' \in 0 .. MaxStdout + 1
      BY <2>1, <2>2, <2>3, <2>4, LimitAssumption
    <3>2. overflow' \in BOOLEAN
      BY <2>4
    <3>3. reader' \in {"unstarted", "reading", "appending", "done"}
      BY <2>4
    <3> QED
      BY <2>4, <3>1, <3>2, <3>3 DEF DriverInv, DriverTypeOK
  <2>7. NothingLost' /\ OverflowTold'
    <3>1. pipe' + output' = written'
      BY <2>1, <2>3, <2>4
    <3>2. overflow' = (output' > MaxStdout)
      BY <2>4
    <3> QED
      BY <3>1, <3>2 DEF NothingLost, OverflowTold
  <2>8. WriteEndOpen' = WriteEndOpen
    BY <2>4 DEF WriteEndOpen
  <2>9. ReaderStops'
    BY <2>1, <2>4, <2>5, <2>8 DEF DriverInv, ReaderStops, AllRead
  <2>10. Collecting' /\ KillTold' /\ HoldersLive'
    BY <2>1, <2>4 DEF DriverInv, Collecting, KillTold, HoldersLive
  <2>11. AnswerIsComplete'
    BY <2>1, <2>3, <2>4, <2>8 DEF DriverInv, AnswerIsComplete
  <2> QED
    BY <2>6, <2>7, <2>9, <2>10, <2>11 DEF DriverInv
<1>2. CASE ReadRaises \/ AppendOutput
  <2> USE <1>2 DEF ReadRaises, AppendOutput, pipeVars
  <2>1. WriteEndOpen' = WriteEndOpen
    BY DEF WriteEndOpen
  <2>2. DriverTypeOK'
    <3>1. 0 \in 0 .. MaxStdout + 1
      BY LimitAssumption
    <3>2. /\ box' \in 0 .. MaxStdout + 1 \union {Empty} /\ readFailed' \in BOOLEAN
          /\ reader' = "done"
      BY <3>1 DEF DriverInv, DriverTypeOK
    <3> QED
      BY <3>2 DEF DriverInv, DriverTypeOK
  <2>3. ReaderStops'
    BY <2>1 DEF DriverInv, ReaderStops, AllRead
  <2>4. /\ NothingLost' /\ OverflowTold' /\ Collecting' /\ AnswerIsComplete' /\ KillTold'
        /\ HoldersLive'
    BY <2>1 DEF DriverInv, NothingLost, OverflowTold, Collecting, AnswerIsComplete, ReaderStops,
                KillTold, HoldersLive
  <2> QED
    BY <2>2, <2>3, <2>4 DEF DriverInv
<1> QED
  BY <1>1, <1>2 DEF ReaderStep

(* The owner's steps. *)
OwnerMoves == OwnerStep \/ WaitRaises

LEMMA OwnerInv == ASSUME DriverInv, OwnerMoves PROVE DriverInv'
<1> USE DEF readerVars, groupVars, pipeVars, clockVars
<1>1. ASSUME OwnerMoves
      PROVE  /\ UNCHANGED <<output, overflow, box, readFailed, helper, holders, pipe, written, late, spent>>
             /\ leader = "reaped" => leader' = "reaped"
             /\ leader # "running" => leader' # "running"
             /\ leader' \in {"running", "exited", "reaped"}
             /\ reader' = reader \/ (reader = "unstarted" /\ phase = "start" /\ reader' = "reading")
             /\ groupKilled' \in BOOLEAN
  BY <1>1 DEF OwnerMoves, WaitRaises, OwnerStep, StartReader, ReaderNotStarted, CheckOverflow, CheckBudget, Wait, Join, Check,
         Terminate, WaitTerm, Kill, WaitKill, JoinKilled, OwnerGoes, End, OwnerTries, Collected,
         DriverInv, DriverTypeOK, Collecting
<1>2. WriteEndOpen' => WriteEndOpen
  BY <1>1 DEF WriteEndOpen
<1>3. NothingLost' /\ OverflowTold' /\ HoldersLive'
  <2>1. HoldersLive'
    <3>1. "leader" \in holders => leader' = leader
      BY DEF DriverInv, HoldersLive, OwnerMoves, OwnerStep, WaitRaises, StartReader,
             ReaderNotStarted, CheckOverflow, CheckBudget, Wait, Join, Check, Terminate, WaitTerm,
             Kill, WaitKill, JoinKilled, OwnerGoes, End, OwnerTries, Collected
    <3> QED
      BY <1>1, <3>1 DEF DriverInv, HoldersLive
  <2> QED
    BY <1>1, <2>1 DEF DriverInv, NothingLost, OverflowTold
<1>4. ReaderStops'
  BY <1>1, <1>2 DEF DriverInv, ReaderStops, AllRead
<1>5. CASE Check /\ ~Refusable /\ End([kind |-> "answer", bytes |-> box]) /\ UNCHANGED failed
  <2>1. /\ phase = "check" /\ phase' = "ended" /\ leader' = leader /\ leader = "reaped"
        /\ result'.kind = "answer" /\ result'.bytes = box
        /\ UNCHANGED <<reader, failed, groupKilled>>
    BY <1>5 DEF Check, End, DriverInv, Collecting
  <2>2. reader = "done" /\ ~overflow /\ box # Empty /\ ~(box > MaxStdout)
    BY <1>5 DEF Refusable
  <2>3. box \in 0 .. MaxStdout
    BY <2>2, LimitAssumption DEF DriverInv, DriverTypeOK
  <2>4. result' \in Results
    BY <1>5, <2>3 DEF End, Results
  <2>5. DriverTypeOK'
    BY <1>1, <2>1, <2>4 DEF DriverInv, DriverTypeOK, Phases
  <2>6. AnswerIsComplete'
    <3>1. readFailed => box = 0
      BY <2>2 DEF DriverInv, ReaderStops
    <3>2. ~readFailed => box = written /\ AllRead
      BY <2>2, <2>3 DEF DriverInv, ReaderStops, NothingLost, AllRead, DriverTypeOK
    <3> QED
      BY <1>1, <1>2, <2>1, <3>1, <3>2 DEF AnswerIsComplete, AllRead
  <2>7. Collecting' /\ KillTold'
    BY <2>1 DEF Collecting, KillTold
  <2> QED
    BY <1>3, <1>4, <2>5, <2>6, <2>7 DEF DriverInv
<1>6. CASE ~(Check /\ ~Refusable /\ End([kind |-> "answer", bytes |-> box]) /\ UNCHANGED failed)
  <2>1. /\ result' \in {result, [kind |-> "refused"], [kind |-> "raised"]}
        /\ phase' \in Phases /\ failed' \in BOOLEAN
        /\ phase # "ended" /\ phase' # "start"
        /\ phase' = "check" => phase = "join"
        /\ phase' = "join" => leader' = "reaped"
        /\ phase' # "ended" => result' = result
    BY <1>6 DEF OwnerMoves, WaitRaises, OwnerStep, StartReader, ReaderNotStarted, CheckOverflow, CheckBudget, Wait, Join,
         Check, Terminate, WaitTerm, Kill, WaitKill, JoinKilled, OwnerGoes, End, OwnerTries,
         Phases, CleanupPhases, DriverInv, DriverTypeOK
  <2>2. result.kind # "answer"
    BY <2>1 DEF DriverInv, Collecting
  <2>3. result'.kind # "answer"
    BY <2>1, <2>2
  <2>4. DriverTypeOK'
    <3>1. result' \in Results
      BY <2>1 DEF DriverInv, DriverTypeOK, Results
    <3> QED
      BY <1>1, <2>1, <3>1 DEF DriverInv, DriverTypeOK
  <2>5. Collecting' /\ AnswerIsComplete'
    BY <1>1, <2>1, <2>3 DEF DriverInv, Collecting, AnswerIsComplete
  <2>6. KillTold'
    <3>1. result = [kind |-> "none"]
      BY <2>1 DEF DriverInv, DriverTypeOK, KillTold, Results
    <3> USE DEF DriverInv, KillTold, OwnerGoes, OwnerTries, End
    <3>2. CASE Kill
      BY <3>1, <3>2 DEF Kill
    <3>3. CASE WaitKill
      BY <3>1, <3>3 DEF WaitKill
    <3>4. CASE JoinKilled
      BY <3>1, <3>4 DEF JoinKilled
    <3>5. CASE ReaderNotStarted
      BY <3>1, <3>5 DEF ReaderNotStarted, Collecting
    <3>6. CASE StartReader \/ CheckOverflow \/ CheckBudget \/ Wait \/ Join \/ Terminate \/ WaitTerm
      BY <3>1, <3>6 DEF StartReader, CheckOverflow, CheckBudget, Wait, Join, Terminate, WaitTerm
    <3>7. CASE Check
      BY <1>6, <3>1, <3>7 DEF Check
    <3>8. CASE WaitRaises
      BY <3>1, <3>8 DEF WaitRaises
    <3> QED
      BY <3>2, <3>3, <3>4, <3>5, <3>6, <3>7, <3>8 DEF OwnerStep, OwnerMoves
  <2> QED
    BY <1>3, <1>4, <2>4, <2>5, <2>6 DEF DriverInv
<1> QED
  BY <1>5, <1>6

LEMMA DriverStepInv == DriverInv /\ [DriverNext]_driverVars => DriverInv'
<1> SUFFICES ASSUME DriverInv, UNCHANGED driverVars PROVE DriverInv'
  BY GroupInv, ReaderInv, OwnerInv DEF DriverNext, OwnerMoves
<1> QED
  BY DEF driverVars, ownerVars, readerVars, groupVars, pipeVars, clockVars, DriverInv,
         DriverTypeOK, NothingLost, OverflowTold, ReaderStops, Collecting, AnswerIsComplete,
         AllRead, WriteEndOpen, KillTold, HoldersLive

(* The invariant, and the three properties it holds.                       *)
THEOREM DriverInvariant == DriverSpec => []DriverInv
BY DriverInitInv, DriverStepInv, PTL DEF DriverSpec

(* Every variable of a call of _child keeps its type; what is kept of the  *)
(* output never exceeds the limit by more than the one byte that tells.    *)
THEOREM DriverTypeCorrect == DriverSpec => []DriverTypeOK
BY DriverInvariant, PTL DEF DriverInv

(* An answer is the whole output. *)
THEOREM AnswerComplete == DriverSpec => []AnswerIsComplete
BY DriverInvariant, PTL DEF DriverInv

(* What is left running in the group was sent SIGKILL, unless that was not *)
(* possible or it had let go of the pipe before an answer.                 *)
THEOREM LeftIsKilledOrMute == DriverSpec => []NothingLeftUnkilled
<1>1. DriverInv => NothingLeftUnkilled
  <2> SUFFICES ASSUME DriverInv, phase = "ended", leader = "running" \/ helper = "grouped"
               PROVE  \/ groupKilled \/ failed \/ reader = "unstarted"
                      \/ /\ result.kind = "answer" /\ leader = "reaped"
                         /\ readFailed \/ "helper" \notin holders
    BY DEF NothingLeftUnkilled
  <2>1. result.kind \in {"answer", "refused", "raised"}
    BY DEF DriverInv, DriverTypeOK, KillTold, Results
  <2>2. CASE result.kind = "answer"
    BY <2>2 DEF DriverInv, AnswerIsComplete, WriteEndOpen
  <2>3. CASE result.kind # "answer"
    BY <2>1, <2>3 DEF DriverInv, KillTold
  <2> QED
    BY <2>2, <2>3
<1> QED
  BY <1>1, DriverInvariant, PTL
-----------------------------------------------------------------------------
(***************************************************************************)
(* How much a call may still do: the owner, whose wait goes round until    *)
(* the deadline, by the phases it has before it, and the thread by what    *)
(* the limit leaves it to read.                                            *)
(***************************************************************************)
OwnerSteps ==
  CASE phase = "start"      -> 11
    [] phase = "wait"       -> 10
    [] phase = "loop"       -> 9
    [] phase = "budget"     -> 8
    [] phase = "join"       -> 7
    [] phase = "check"      -> 6
    [] phase = "terminate"  -> 5
    [] phase = "waitTerm"   -> 4
    [] phase = "kill"       -> 3
    [] phase = "waitKill"   -> 2
    [] phase = "joinKilled" -> 1
    [] OTHER                -> 0

ReaderSteps ==
  MaxStdout + 1 - output + CASE reader \in {"unstarted", "reading"} -> 2
                             [] reader = "appending"                -> 1
                             [] OTHER                               -> 0

(* Past the deadline every step of the owner comes closer to the end of    *)
(* the call, and every step of the thread to its own, whatever the command *)
(* and its helpers write and whichever of them live.                       *)
StepsShrink ==
  [][/\ late => OwnerSteps' <= OwnerSteps /\ (OwnerMoves => OwnerSteps' < OwnerSteps)
     /\ ReaderSteps' <= ReaderSteps /\ (ReaderStep => ReaderSteps' < ReaderSteps)]_driverVars

(* Eleven steps past the deadline, and as many reads as the limit has      *)
(* bytes, with three more.                                                 *)
StepsBounded == OwnerSteps \in 0 .. 11 /\ ReaderSteps \in 0 .. MaxStdout + 3

(* The owner goes round only while there is time. *)
LEMMA OwnerStepShrinks ==
  ASSUME DriverInv, OwnerMoves
  PROVE  (late => OwnerSteps' < OwnerSteps) /\ ReaderSteps' = ReaderSteps
<1>1. \/ phase = "start" /\ phase' \in {"loop", "ended"}
      \/ phase = "loop" /\ phase' \in {"terminate", "budget"}
      \/ phase = "budget" /\ phase' = (IF late THEN "terminate" ELSE "wait")
      \/ phase = "wait" /\ phase' \in {"join", "loop", "terminate"}
      \/ phase = "join" /\ phase' = "check"
      \/ phase = "check" /\ phase' \in {"terminate", "ended"}
      \/ phase = "terminate" /\ phase' = "waitTerm"
      \/ phase = "waitTerm" /\ phase' = "kill"
      \/ phase = "kill" /\ phase' = "waitKill"
      \/ phase = "waitKill" /\ phase' = "joinKilled"
      \/ phase = "joinKilled" /\ phase' = "ended"
  BY DEF OwnerMoves, WaitRaises, OwnerStep, StartReader, ReaderNotStarted, CheckOverflow, CheckBudget, Wait, Join, Check,
         Terminate, WaitTerm, Kill, WaitKill, JoinKilled, OwnerGoes, End, OwnerTries
<1>2. late => OwnerSteps' < OwnerSteps
  BY <1>1 DEF OwnerSteps
<1>3. output' = output
  BY DEF OwnerMoves, WaitRaises, OwnerStep, StartReader, ReaderNotStarted, CheckOverflow, CheckBudget, Wait, Join, Check,
         Terminate, WaitTerm, Kill, WaitKill, JoinKilled, OwnerGoes, End, OwnerTries, readerVars
<1>4. reader' = reader \/ (reader = "unstarted" /\ reader' = "reading")
  <2>1. CASE StartReader
    BY <2>1 DEF StartReader, DriverInv, Collecting
  <2>2. CASE ~StartReader
    BY <2>2 DEF OwnerMoves, WaitRaises, OwnerStep, ReaderNotStarted, CheckOverflow, CheckBudget, Wait, Join, Check,
           Terminate, WaitTerm, Kill, WaitKill, JoinKilled, OwnerGoes, End, OwnerTries, readerVars
  <2> QED
    BY <2>1, <2>2
<1> QED
  BY <1>2, <1>3, <1>4 DEF ReaderSteps

(* A read takes a byte or more, or is the last. *)
LEMMA ReaderStepShrinks ==
  ASSUME DriverInv, ReaderStep
  PROVE  ReaderSteps' < ReaderSteps /\ OwnerSteps' = OwnerSteps
<1>1. OwnerSteps' = OwnerSteps
  BY DEF ReaderStep, Read, ReadRaises, AppendOutput, ownerVars, OwnerSteps
<1>2. output \in Int /\ MaxStdout \in Int
  BY LimitAssumption DEF DriverInv, DriverTypeOK
<1>3. CASE Read
  <2> DEFINE n == Min({pipe, Asked})
  <2>1. /\ output' = output + n /\ reader = "reading" /\ reader' \in {"reading", "appending"}
        /\ reader' = "reading" => n # 0
    BY <1>3 DEF Read
  <2>2. n \in Nat
    <3>1. ~(output > MaxStdout)
      BY <1>3 DEF Read, DriverInv, ReaderStops, OverflowTold
    <3>2. MaxStdout + 1 - output \in Nat /\ Chunk \in Nat /\ pipe \in Nat
      BY <3>1, LimitAssumption DEF DriverInv, DriverTypeOK
    <3>3. Asked \in Nat
      BY <3>2, LeastOfTwo DEF Asked
    <3> QED
      BY <3>2, <3>3, LeastOfTwo
  <2> HIDE DEF n
  <2> QED
    BY <1>1, <1>2, <2>1, <2>2 DEF ReaderSteps
<1>4. CASE ReadRaises
  BY <1>1, <1>2, <1>4 DEF ReadRaises, ReaderSteps
<1>5. CASE AppendOutput
  BY <1>1, <1>2, <1>5 DEF AppendOutput, ReaderSteps
<1> QED
  BY <1>3, <1>4, <1>5 DEF ReaderStep

(* What the group does, and time, leave both as they are. *)
LEMMA OthersLeaveSteps ==
  ASSUME \/ Write \/ LeaveHelper \/ LeaderExits \/ HelperExits
         \/ \E process \in {"leader", "helper"} : LetGo(process)
         \/ DeadlinePasses \/ AllowanceRunsOut \/ UNCHANGED driverVars
  PROVE  OwnerSteps' = OwnerSteps /\ ReaderSteps' = ReaderSteps
<1>1. UNCHANGED <<phase, reader, output>>
  BY DEF Write, LeaveHelper, LetGo, LeaderExits, HelperExits, DeadlinePasses, AllowanceRunsOut,
         ownerVars, readerVars, driverVars
<1> QED
  BY <1>1 DEF OwnerSteps, ReaderSteps

LEMMA StepsTyped ==
  ASSUME DriverInv
  PROVE  StepsBounded
<1>1. OwnerSteps \in 0 .. 11
  BY DEF OwnerSteps
<1>2. output \in 0 .. MaxStdout + 1 /\ MaxStdout \in Nat
  BY LimitAssumption DEF DriverInv, DriverTypeOK
<1>3. ReaderSteps \in 0 .. MaxStdout + 3
  BY <1>2 DEF ReaderSteps
<1> QED
  BY <1>1, <1>3 DEF StepsBounded

(* A call of _child cannot go on without end once its deadline has passed, *)
(* nor its thread ever, for any limit, chunk and amount of output: only    *)
(* waiting is left, and every wait is bounded.                             *)
THEOREM CallComesToEnd == DriverSpec => StepsShrink /\ []StepsBounded
<1>1. ASSUME DriverInv, DriverInv', [DriverNext]_driverVars
      PROVE  /\ late => OwnerSteps' <= OwnerSteps /\ (OwnerMoves => OwnerSteps' < OwnerSteps)
             /\ ReaderSteps' <= ReaderSteps /\ (ReaderStep => ReaderSteps' < ReaderSteps)
  <2>1. OwnerSteps \in Int /\ ReaderSteps \in Int
    BY <1>1, StepsTyped DEF StepsBounded
  <2>2. OwnerSteps' \in Int
    BY DEF OwnerSteps
  <2>3. CASE OwnerMoves
    <3>1. (late => OwnerSteps' < OwnerSteps) /\ ReaderSteps' = ReaderSteps
      BY <1>1, <2>3, OwnerStepShrinks
    <3>2. ~ReaderStep
      BY <1>1, <2>1, <3>1, ReaderStepShrinks
    <3> QED
      BY <2>1, <2>2, <3>1, <3>2
  <2>4. CASE ~OwnerMoves /\ ReaderStep
    <3>1. ReaderSteps' < ReaderSteps /\ OwnerSteps' = OwnerSteps
      BY <1>1, <2>4, ReaderStepShrinks
    <3>2. ReaderSteps' \in Int
      BY <1>1, LimitAssumption DEF DriverInv, DriverTypeOK, ReaderSteps
    <3> QED
      BY <2>1, <2>2, <2>4, <3>1, <3>2
  <2>5. CASE ~OwnerMoves /\ ~ReaderStep
    <3>1. OwnerSteps' = OwnerSteps /\ ReaderSteps' = ReaderSteps
      BY <1>1, <2>5, OthersLeaveSteps DEF DriverNext, OwnerMoves
    <3> QED
      BY <2>1, <2>5, <3>1
  <2> QED
    BY <2>3, <2>4, <2>5
<1>2. DriverInv => StepsBounded
  BY StepsTyped
<1>3. DriverSpec => StepsShrink
  BY <1>1, DriverInvariant, PTL DEF DriverSpec, StepsShrink
<1> QED
  BY <1>2, <1>3, DriverInvariant, PTL
=============================================================================
