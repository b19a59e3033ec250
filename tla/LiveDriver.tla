----------------------------- MODULE LiveDriver -----------------------------
(***************************************************************************)
(* One _child call of the live operator driver                             *)
(* (scripts/opencode_live_driver.py): run the command line tool in a       *)
(* session of its own, let a daemon thread read its output up to a limit,  *)
(* and either answer with exit status and output or refuse after tearing   *)
(* the process group down.                                                 *)
(*                                                                         *)
(* Output is its size.  The pipe and the file object's buffer are one:     *)
(* read(n) returns n bytes, or fewer at the end of the output.  The leader *)
(* of the group may leave a helper behind, inside the group or outside it; *)
(* either of them may have closed or redirected its standard output.       *)
(***************************************************************************)
EXTENDS Integers, FiniteSetsExt

CONSTANTS
  MaxStdout,   \* MAX_STDOUT
  Chunk,       \* 64 * 1024
  MaxWritten   \* bound: bytes the command writes

ASSUME LimitAssumption == MaxStdout \in Nat /\ Chunk \in Nat \ {0} /\ MaxWritten \in Nat

VARIABLES
  phase,       \* where _child and _cleanup_group are
  failed,      \* _cleanup_group's local failed
  result,      \* how _child ended
  reader,      \* where the thread is in _read_stdout
  output,      \* its local output
  overflow,    \* the event
  box,         \* what it put into box, or Empty
  leader,      \* the process as its parent sees it
  helper,      \* another process, a child of the leader
  holders,     \* those of the two that hold the pipe's write end
  groupKilled, \* SIGKILL was sent to the group
  pipe,        \* bytes written and not yet read
  written,     \* history: bytes written
  readFailed,  \* history: a read raised
  late, spent  \* the clock: past the deadline, past the cleanup's deadline

ownerVars == <<phase, failed, result>>
readerVars == <<reader, output, overflow, box, readFailed>>
groupVars == <<leader, helper, holders, groupKilled>>
pipeVars == <<pipe, written>>
clockVars == <<late, spent>>
driverVars == <<ownerVars, readerVars, groupVars, pipeVars, clockVars>>

Empty == -1
CleanupPhases == {"terminate", "waitTerm", "kill", "waitKill", "joinKilled"}
Phases == {"start", "loop", "budget", "wait", "join", "check", "ended"} \union CleanupPhases

(* With a refusal or an exception there is no output to tell. *)
Results == [kind : {"answer"}, bytes : 0 .. MaxStdout]
             \union {[kind |-> "none"], [kind |-> "refused"], [kind |-> "raised"]}

DriverTypeOK ==
  /\ phase \in Phases
  /\ failed \in BOOLEAN
  /\ result \in Results
  /\ reader \in {"unstarted", "reading", "appending", "done"}
  /\ output \in 0 .. MaxStdout + 1
  /\ overflow \in BOOLEAN
  /\ box \in 0 .. MaxStdout + 1 \union {Empty}
  /\ leader \in {"running", "exited", "reaped"}
  /\ helper \in {"none", "grouped", "detached", "gone"}
  /\ holders \subseteq {"leader", "helper"}
  /\ groupKilled \in BOOLEAN
  /\ pipe \in 0 .. MaxWritten
  /\ written \in 0 .. MaxWritten
  /\ readFailed \in BOOLEAN
  /\ late \in BOOLEAN
  /\ spent \in BOOLEAN

(* Popen has returned. *)
DriverInit ==
  /\ phase = "start"
  /\ failed = FALSE
  /\ result = [kind |-> "none"]
  /\ reader = "unstarted"
  /\ output = 0
  /\ overflow = FALSE
  /\ box = Empty
  /\ leader = "running"
  /\ helper = "none"
  /\ holders = {"leader"}
  /\ groupKilled = FALSE
  /\ pipe = 0
  /\ written = 0
  /\ readFailed = FALSE
  /\ late = FALSE
  /\ spent = FALSE

-----------------------------------------------------------------------------
(* The group and the clock.                                                *)

WriteEndOpen == holders # {}

(* A process runs on, unless SIGKILL has been sent to its group. *)
Live(process) ==
  ~groupKilled \/ (process = "helper" /\ helper = "detached")

Write ==
  /\ \E process \in holders : Live(process)
  /\ written < MaxWritten
  /\ pipe' = pipe + 1
  /\ written' = written + 1
  /\ UNCHANGED <<ownerVars, readerVars, groupVars, clockVars>>

(* The helper inherits the pipe, or does not. *)
LeaveHelper ==
  /\ leader = "running"
  /\ helper = "none"
  /\ ~groupKilled
  /\ helper' \in {"grouped", "detached"}
  /\ \/ UNCHANGED holders
     \/ "leader" \in holders /\ holders' = {"leader", "helper"}
  /\ UNCHANGED <<ownerVars, readerVars, leader, groupKilled, pipeVars, clockVars>>

(* It closes its standard output, or points it elsewhere, and runs on. *)
LetGo(process) ==
  /\ process \in holders
  /\ Live(process)
  /\ holders' = holders \ {process}
  /\ UNCHANGED <<ownerVars, readerVars, leader, helper, groupKilled, pipeVars, clockVars>>

LeaderExits ==
  /\ leader = "running"
  /\ leader' = "exited"
  /\ holders' = holders \ {"leader"}
  /\ UNCHANGED <<ownerVars, readerVars, helper, groupKilled, pipeVars, clockVars>>

HelperExits ==
  /\ helper \in {"grouped", "detached"}
  /\ helper' = "gone"
  /\ holders' = holders \ {"helper"}
  /\ UNCHANGED <<ownerVars, readerVars, leader, groupKilled, pipeVars, clockVars>>

DeadlinePasses ==
  /\ phase \in {"loop", "budget", "wait"}
  /\ ~late
  /\ late' = TRUE
  /\ UNCHANGED <<ownerVars, readerVars, groupVars, pipeVars, spent>>

AllowanceRunsOut ==
  /\ phase \in CleanupPhases
  /\ ~spent
  /\ spent' = TRUE
  /\ UNCHANGED <<ownerVars, readerVars, groupVars, pipeVars, late>>

-----------------------------------------------------------------------------
(* _read_stdout                                                            *)

(* Mutant of Asked: a full chunk, however much is there already. *)
AskedChunk == Chunk

(* One byte more than the limit is asked for, to notice that it is there.  *)
Asked == Min({Chunk, MaxStdout + 1 - output})

(* read(n), and what follows it in the loop. *)
Read ==
  /\ reader = "reading"
  /\ pipe >= Asked \/ ~WriteEndOpen
  /\ LET n == Min({pipe, Asked}) IN
     /\ pipe' = pipe - n
     /\ output' = output + n
     /\ overflow' = (output + n > MaxStdout)
     /\ reader' = IF n = 0 \/ overflow' THEN "appending" ELSE "reading"
  /\ UNCHANGED <<ownerVars, box, readFailed, groupVars, written, clockVars>>

(* A read raises: what was read is dropped, and box gets an empty output. *)
ReadRaises ==
  /\ reader = "reading"
  /\ reader' = "done"
  /\ box' = 0
  /\ readFailed' = TRUE
  /\ UNCHANGED <<ownerVars, output, overflow, groupVars, pipeVars, clockVars>>

AppendOutput ==
  /\ reader = "appending"
  /\ box' = output
  /\ reader' = "done"
  /\ UNCHANGED <<ownerVars, output, overflow, readFailed, groupVars, pipeVars, clockVars>>

-----------------------------------------------------------------------------
(* _child                                                                  *)

OwnerGoes(p) ==
  /\ phase' = p
  /\ UNCHANGED <<failed, result, readerVars, groupVars, pipeVars, clockVars>>

End(r) ==
  /\ phase' = "ended"
  /\ result' = r
  /\ UNCHANGED <<readerVars, groupVars, pipeVars, clockVars>>

StartReader ==
  /\ phase = "start"
  /\ reader' = "reading"
  /\ phase' = "loop"
  /\ UNCHANGED <<failed, result, output, overflow, box, readFailed, groupVars, pipeVars,
                 clockVars>>

(* No thread can be started: nothing guards start(), the child is left.    *)
ReaderNotStarted ==
  /\ phase = "start"
  /\ End([kind |-> "raised"])
  /\ UNCHANGED failed

(* The top of the loop: a reader that gave up ends the wait at once. *)
CheckOverflow ==
  /\ phase = "loop"
  /\ OwnerGoes(IF overflow THEN "terminate" ELSE "budget")

CheckBudget ==
  /\ phase = "budget"
  /\ OwnerGoes(IF late THEN "terminate" ELSE "wait")

(* wait(min(remaining, 0.1)); TimeoutExpired goes round the loop. *)
Wait ==
  /\ phase = "wait"
  /\ \/ /\ leader = "exited"
        /\ leader' = "reaped"
        /\ phase' = "join"
        /\ UNCHANGED <<failed, result, readerVars, helper, holders, groupKilled, pipeVars,
                       clockVars>>
     \/ leader = "running" /\ OwnerGoes("loop")

(* join(1): the thread has ended, or the second is over. *)
Join ==
  /\ phase = "join"
  /\ OwnerGoes("check")

(* Mutant of Check: no output within the second counts as empty output. *)
CheckEmpty ==
  /\ phase = "check"
  /\ \/ overflow /\ OwnerGoes("terminate")
     \/ /\ ~overflow
        /\ End([kind |-> "answer", bytes |-> IF box = Empty THEN 0 ELSE box])
        /\ UNCHANGED failed

Refusable == reader # "done" \/ overflow \/ box = Empty \/ box > MaxStdout

Check ==
  /\ phase = "check"
  /\ \/ Refusable /\ OwnerGoes("terminate")
     \/ ~Refusable /\ End([kind |-> "answer", bytes |-> box]) /\ UNCHANGED failed

-----------------------------------------------------------------------------
(* _cleanup_group, whose verdict _child drops.                             *)

OwnerTries(p, ok) ==
  /\ phase' = p
  /\ failed' = (failed \/ ~ok)
  /\ UNCHANGED <<result, readerVars, pipeVars, clockVars>>

(* killpg of a group that is gone counts as done. *)
Terminate ==
  /\ phase = "terminate"
  /\ \E ok \in BOOLEAN : OwnerTries("waitTerm", ok)
  /\ UNCHANGED groupVars

(* Mutant of WaitTerm: without a timeout. *)
WaitTermForever ==
  /\ phase = "waitTerm"
  /\ leader \in {"exited", "reaped"}
  /\ leader' = "reaped"
  /\ OwnerTries("kill", TRUE)
  /\ UNCHANGED <<helper, holders, groupKilled>>

Collected == IF leader = "exited" THEN "reaped" ELSE leader

(* A timeout of this wait is no failure yet. *)
WaitTerm ==
  /\ phase = "waitTerm"
  /\ leader # "running" \/ spent
  /\ leader' = Collected
  /\ OwnerTries("kill", TRUE)
  /\ UNCHANGED <<helper, holders, groupKilled>>

(* Mutant of Kill: a leader that has ended makes the signal needless. *)
KillLeaderOnly ==
  /\ phase = "kill"
  /\ \/ leader = "reaped" /\ OwnerTries("waitKill", TRUE) /\ UNCHANGED groupKilled
     \/ leader # "reaped" /\ OwnerTries("waitKill", TRUE) /\ groupKilled' = TRUE
     \/ OwnerTries("waitKill", FALSE) /\ UNCHANGED groupKilled
  /\ UNCHANGED <<leader, helper, holders>>

Kill ==
  /\ phase = "kill"
  /\ \/ OwnerTries("waitKill", TRUE) /\ groupKilled' = TRUE
     \/ OwnerTries("waitKill", FALSE) /\ UNCHANGED groupKilled
  /\ UNCHANGED <<leader, helper, holders>>

WaitKill ==
  /\ phase = "waitKill"
  /\ leader # "running" \/ spent
  /\ leader' = Collected
  /\ OwnerTries("joinKilled", leader # "running")
  /\ UNCHANGED <<helper, holders, groupKilled>>

JoinKilled ==
  /\ phase = "joinKilled"
  /\ reader = "done" \/ spent
  /\ failed' = (failed \/ reader # "done")
  /\ End([kind |-> "refused"])

(* A wait raises something other than TimeoutExpired: in _child that ends  *)
(* the wait, in _cleanup_group it is a failure and the next step follows.  *)
WaitRaises ==
  \/ phase = "wait" /\ OwnerGoes("terminate")
  \/ /\ phase \in {"waitTerm", "waitKill"}
     /\ OwnerTries(IF phase = "waitTerm" THEN "kill" ELSE "joinKilled", FALSE)
     /\ UNCHANGED groupVars

OwnerStep ==
  \/ StartReader \/ ReaderNotStarted
  \/ CheckOverflow \/ CheckBudget \/ Wait \/ Join \/ Check
  \/ Terminate \/ WaitTerm \/ Kill \/ WaitKill \/ JoinKilled

ReaderStep == Read \/ ReadRaises \/ AppendOutput

DriverNext ==
  \/ Write \/ LeaveHelper \/ LeaderExits \/ HelperExits
  \/ \E process \in {"leader", "helper"} : LetGo(process)
  \/ DeadlinePasses \/ AllowanceRunsOut
  \/ ReaderStep
  \/ OwnerStep \/ WaitRaises
  \/ phase = "ended" /\ UNCHANGED driverVars

DriverSpec == DriverInit /\ [][DriverNext]_driverVars

(* The driver's two threads run, time passes, and a killed process ends.   *)
(* No wait has to raise.                                                   *)
DriverFairSpec ==
  /\ DriverSpec
  /\ WF_driverVars(OwnerStep)
  /\ WF_driverVars(Read \/ AppendOutput)
  /\ WF_driverVars(DeadlinePasses)
  /\ WF_driverVars(AllowanceRunsOut)
  /\ WF_driverVars(groupKilled /\ LeaderExits)
  /\ WF_driverVars(groupKilled /\ helper = "grouped" /\ HelperExits)

-----------------------------------------------------------------------------

(* An answer is everything the command and its helpers wrote, with no one  *)
(* left who could add to it; only a read that raised gives an empty one.   *)
AnswerIsComplete ==
  result.kind = "answer" =>
    /\ leader = "reaped"
    /\ \/ result.bytes = written /\ pipe = 0 /\ ~WriteEndOpen
       \/ readFailed /\ result.bytes = 0

(* What the call leaves running in its group it has sent SIGKILL to,       *)
(* whatever had become of the leader by then, unless the signal could not  *)
(* be sent or no thread could be started.  After an answer only a helper   *)
(* that let go of the pipe can be left, which nothing in _child looks for, *)
(* or, where a read raised, one that still writes.                         *)
NothingLeftUnkilled ==
  phase = "ended" /\ (leader = "running" \/ helper = "grouped") =>
    \/ groupKilled \/ failed \/ reader = "unstarted"
    \/ /\ result.kind = "answer" /\ leader = "reaped"
       /\ readFailed \/ "helper" \notin holders

(* A refusal takes the whole group down, whatever had become of its leader *)
(* and whichever check refused, unless a signal could not be sent.         *)
RefusalEndsGroup ==
  result.kind = "refused" /\ (groupKilled \/ ~failed) ~>
    leader # "running" /\ helper # "grouped"

(* _child ends, though command and helper may ignore SIGTERM, write for    *)
(* ever or hold the pipe.                                                  *)
ChildCallEnds == <>(phase = "ended")
=============================================================================
