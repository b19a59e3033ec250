# limitora in TLA+

limitora is a Python library and command line tool that reports how much of a
quota an AI coding provider has left. It asks one provider (Codex, through its
`app-server` child process, or OpenCode Go, over HTTPS), may reuse earlier
answers from memory, and judges how fresh an answer is. The program is small,
but most of it is the kind of code that unit tests reach badly: a cache shared
by threads whose clock may step back, a daemon thread that reads a child's
pipe, a child process that may do anything, budgets that cannot interrupt what
they limit, and cleanups in which every step may fail.

This directory holds TLA+ modules of those parts, TLC configurations that
check them on small instances, and TLAPS proofs for all values of the
constants. Paths below are relative to `src/limitora/` unless they begin with
`scripts/`, `docs/` or `tests/`.

## 1. Inventory

| Component | State it keeps | Operations | What is hard about it |
|---|---|---|---|
| Snapshot cache, `providers/cache.py` | entries, a generation per key, one for all keys | `fetch`, `invalidate` | three locked sections around an unlocked upstream call; an invalidation between any two; a wall clock that steps back |
| Client and service, `api.py`, `core/status_service.py` | none of its own | `read_status`: detect, fetch, judge | the source comes and goes between the calls; the age is judged after the fetch |
| Pipe reader, `_PipeReader` in `providers/_codex_jsonl_transport.py` | thread, one-slot queue, stop event | `start`, `read`, `stop_and_join` | a thread blocked in `os.read` or `Queue.put` when its owner stops; a descriptor closed under it |
| Codex session, `providers/_codex_jsonl.py`, `_codex_jsonl_transport.py` | child, pipes, line buffer, remainder, deadline, byte count | `exchange`, `_cleanup` | a child that answers early, twice, late, in pieces, or not at all, that closes its pipes or ignores SIGTERM; seven cleanup steps on one allowance |
| Frame codec, `providers/_codex_jsonl_protocol.py` | none | `build_*`, `parse_frame` | which of several failures a bad frame is |
| Codex mapping, `providers/codex.py` | none | `detect`, `fetch`, bucket, window and credit mapping | partial results; one bad window among good ones; a field of a type nobody expected |
| OpenCode Go, `providers/_opencode_go.py`, `_opencode_go_httpx.py` | deadline, chunks, size | `fetch` twice: provider and transport | a budget that cannot interrupt HTTPX; a streamed body at its limit; partial windows; what may be retried |
| Domain models, `models/domain.py` | frozen values | constructors, `is_stale`, `aggregate_remaining_percentages` | a chain of checks in which an earlier reason hides a later one; a limit of zero |
| Contract and ports, `providers/contract.py`, `ports.py`, `fake.py` | none | `map_port_failure`, value types | what is retryable |
| Composition, `composition.py`; command line, `cli/__init__.py` | none | `build_status_client`, `activate_provider`, `parse`, `main` | flags in any order and number, keys from two places, four judges of one runner path; which failure gives which exit code on which stream |
| Output, `output.py`; runner path, `_runner_path.py` | none | rendering; a predicate on a path | wording and layout only |
| Live driver, `scripts/opencode_live_driver.py` | reader thread, overflow event, process group | `_child`, `_cleanup_group`, `_classify` | an output limit noticed by one thread and acted on by another; helpers with the pipe in hand or without, inside or outside the group |
| Release tooling, `scripts/verify_distributions.py` | none | archive checks | sequential file inspection outside the program |

How they interact. `read_status` calls `detect` and then `fetch` on one reader,
which is a provider or the cache around it. Several application threads may
share a client and so a cache; the upstream `fetch` runs outside the cache's
lock. A Codex fetch runs one `exchange`, which starts a child and a reader
thread and shares a queue, a descriptor and a stop event with it. An OpenCode
Go fetch runs one HTTP request. Nothing is persisted, so there is no crash
recovery to model; the live driver runs the command line tool as a child
process and judges its exit status and output.

What makes each of them correct:

- cache: nothing outlives an invalidation, nobody gets another request's
  answer, what the cache answers by itself is current and inside the age
  window of the policy;
- client: no snapshot without a detection in the same read, an explicit
  fallback, every read ends;
- pipe reader: no byte lost, doubled or reordered; shutdown never leaves the
  thread stuck in the queue;
- Codex session: a payload only after the whole handshake and with nothing
  trailing; lines exactly as sent; nothing left behind unless PROCESS says so;
  every exchange ends;
- OpenCode Go: a snapshot only from a complete, timely, allowed answer; at most
  one operation late; retry advice only where a retry can help;
- Codex mapping: every usable window survives whatever stands beside it, and
  the domain accepts what was mapped;
- aggregate: the least share of the comparable windows, whatever order checks
  and snapshots come in, and a true reason for every snapshot left out;
- command line and composition: a source is asked only with its own consent
  and one key; what was composed is detected; exit status and stream tell
  which outcome it was;
- live driver: an answer is the whole output; a refusal takes the process
  group down; the call ends; its verdict says what became of the provider.

`PROJECT.json` lists the hazards at their lines with the properties that watch
each of them.

## 2. Modules

| Module | Models | Relation to others |
|---|---|---|
| `SnapshotReuse` | what a snapshot cache promises: at most one snapshot per key, of the key's current epoch | abstract |
| `ProviderCache` | `CachedProviderReader` | implements `SnapshotReuse` (`held <- entries`, `epoch <- invalidations`) |
| `StatusClient` | `StatusClient.read_status` over `StatusService` | extends `ProviderCache`, whose actions run unchanged as the fetch of a read |
| `PipeReader` | `_PipeReader` and its owner's shutdown | |
| `CodexSession` | `exchange`, `_BoundedLineReader`, `_PopenProcess`, `_cleanup`, the child | extends `PipeReader`: its actions are the thread's and the owner's moves; each exchange is a behaviour of `PipeReader` (`ReadsThroughPipeReader`) |
| `OpenCodeGo` | `OpenCodeGoProvider.fetch` and `_HttpxOpenCodeGoTransport.fetch` | |
| `QuotaDomain` | the value types of `models/domain.py`: what each constructor accepts, shares, staleness | operators only |
| `CodexMapping` | `CodexProvider._snapshot`, `_window`, `_reset_credits`, `_transport_failure` | extends `QuotaDomain`; operators only |
| `StatusAggregate` | an application that reads providers and calls `aggregate_remaining_percentages` | extends `CodexMapping` |
| `StatusCommand` | `parse`, `main`, composition, the providers' `detect` and `fetch`, `read_status`, rendering | extends `CodexMapping`; the transports below it are represented by their results |
| `LiveDriver` | `_child`, `_read_stdout`, `_cleanup_group` | |
| `LiveOperator` | the rest of the driver: preflight and `_classify` | extends `StatusCommand`, which is the driver's child |
| `MC*` | values of the constants for TLC | each extends the module it instantiates |
| `*Proofs` | theorems and proofs | each extends its module and TLAPS |

How state and actions correspond to the code (the `map` of `PROJECT.json` has
the lines of every definition):

**ProviderCache.** `entries`, `keyGenerations` and `generation` are the three
attributes of the reader. Per calling thread, `pc` is its place in `fetch`,
`now`, `prior`, `seen` and `result` its locals. The lock makes the lookup
(`Hit`/`Miss`), the fallback decision (`Fallback`/`Reraise`) and the store
(`Store`) one action each; the two clock readings (`Begin`, `ReadClockAgain`)
and the upstream call (`Observe`, `ProviderFails`, `OtherException`) are steps
of their own, because they happen outside it. Three history variables record what the
promises are about and the code cannot know: how often each key was
invalidated (`invalidations`), that number at a snapshot's observation (its
field `since`) and at the beginning of a call (`floor`).

**StatusClient.** `stage` is a caller's place in `read_status`. `FetchStep` is
the cache at work; `DetectAbsent`, `DetectPresent`, `Fetch`, `Propagate` and
`Judge` are the lines around it. The source's presence is a variable that
changes at any time, and a provider observes only a source that is there. An
exception of `detect` (`DetectRaises`) leaves the read as one of `fetch` does.

**PipeReader.** `worker` is the thread's place in `_run`, `held` the signal it
is about to put, `signals` the queue of one slot, `owner` how far the owner is
in `stop_and_join`. A read entered after the owner closed the descriptor either
fails or goes to whatever file got the same number since: that is `ReadClosed`
and `ForeignRead`, both outcomes the build can produce.

**CodexSession.** `phase` is the place in `exchange` and then in `_cleanup`,
one phase per step of it; `buffer`, `output`, `remainder` are the fields of the
line reader and the process; `failure` and `cleanupFailed` the locals that
decide the outcome; `discarded` marks the cleanup the constructor runs itself.
Every step of `_cleanup` has an action for the case in which it raises
(`CleanupRaises`): closing stdin, the signal, either wait for a reason other than
its timeout, the kill, closing stdout. A failed wait goes on to the kill, every
other failure to the step after it.
Bytes carry the frame they belong to; a frame has two, so a read can cut one.
The child writes frames, closes its stdout and exits as it likes; that nobody
reads its stdin any more shows in a write that fails. `late` is the deadline in
force: the session's, and from `CleanUp` on the cleanup's.

To keep the state space small, the environment moves only where its move
can be noticed: bytes arrive while the thread is in `os.read`, the child's
exit counts where the parent looks (poll and the cleanup's waits), the deadline
passes where it is compared or waited for. A move that comes earlier has the
same effect when it is noticed, so no outcome is lost.

**OpenCodeGo.** `phase` is the place in the transport's `fetch`, then in the
provider's; `late` is the budget. HTTPX blocks in two operations, sending and
getting the next chunk. Its timeouts limit how long a socket may be idle
(`docs/providers/opencode-go-protocol.md:63-68`), so an operation times out only
when its socket is `idle` past the deadline, and `Trickle` ends that idleness
without ending the operation. `lateEnds` counts operations that ended after the
deadline. A body is its size and, once it is looked at, what it says: which of
the provider's cases it falls in, and for each of the three windows whether it
is valid, rate limited, invalid, or the one that makes `math.isfinite` raise.

**LiveDriver.** `phase` is the place in `_child` and `_cleanup_group`,
`reader`, `output`, `overflow` and `box` belong to the reader thread; `leader`
is the command as its parent sees it, `helper` a process the command left
behind, in its group or detached from it. `holders` are those of the two that
have the pipe's write end: a helper need not inherit it, and either may close or
redirect its stdout at any time (`LetGo`). `WaitRaises` is a wait that raises
something other than `TimeoutExpired`.

**QuotaDomain and CodexMapping.** A dataclass is a record set, its
`__post_init__` the predicate `...Accepted`. An absent field is `None`; one of
another JSON type is `NotObject`, `NotInteger` or `Unhashable`, which are what
the code can tell apart. `MapPayload` is `_snapshot` from the bucket to the
constructor: a snapshot, an error, or `Raised` where an exception that is no
`ProviderError` gets out. Amounts are integers and shares exact ratios, which
compare as the code's 28-digit decimals do, since rounding is monotone.

**StatusAggregate.** `taken` are the snapshots looked at so far, `included` and
`exclusions` the locals of the function, `outcome` its result. One step of the
loop is one action, so the snapshots may come in any order and number. `Sorted`
is the stable sort at the end of the function: the place of an entry is one more
than the number of entries that come before it.
`ReadCodex` puts `MapPayload` in front of it; `TakeSupplied` a snapshot of any
other origin that its constructor accepts.

**StatusCommand.** `args` are the locals of `parse`, filled by one action per
argument, any number of them in any order; `RefuseArguments` and `ParseEnds`
are its end. `config` is what `main` hands to `activate_provider`, with the
policy; `result` is what `read_status` returned or raised, and `printed` and
`exit` what `main` wrote and returned. `invoker` tells apart a shell, an
embedding program (which may pass a `client_factory`, whose reader may return
nothing, any snapshot or error, or raise) and the live driver;
`consulted` is history.

**LiveOperator.** The driver's preflight comes before the command and fixes its
arguments; `Judge` classifies the status and what came to stdout, or nothing of
it. `ForeignProgram` is a program at `--cli` that is not limitora and prints
what it likes.

## 3. Runs

| Run | Question | Properties |
|---|---|---|
| `provider_cache` | safety of the shared cache, and that it refines `SnapshotReuse` | `TypeOK`, `NoResurrection`, `AnswersOwnRequest`, `NothingFromBeforeInvalidation`, `CacheAnswersAreCurrent`, `ServedAgeInWindow`, `ImplementsReuse` |
| `status_client` | a read over the cache with an unsteady source | `ClientTypeOK`, `SnapshotNeedsDetection`, `EveryReadEnds` |
| `status_client_fallback` | a documented promise that fails | `FallbackIsExplicit` (violated) |
| `pipe_reader` | the reader thread against its owner's shutdown | `ReaderTypeOK`, `BytesConserved`, `DrainSuffices`, `AbandonedThreadEnds` |
| `codex_session` | safety of a whole exchange and of a cleanup whose steps may raise | `LinesAreFaithful`, `SuccessMeansHandshake`, `NoLeakUnlessReported`, `FailedStepIsTold` |
| `codex_session_ends` | the exchange under errors and a small cap | `SessionTypeOK`, `ExchangeEnds`, `ReadsThroughPipeReader` |
| `codex_session_cleanup` | a documented promise that fails | `CleanupFailureIsProcess` (violated) |
| `opencode_go` | one fetch against any server, network and clock | `GoTypeOK`, `AtMostOneLateOperation`, `SnapshotHasEvidence`, `RetryableMeansTransient`, `FetchEnds` |
| `opencode_go_typed` | a documented promise that fails | `FailuresAreTyped` (violated) |
| `live_driver` | one command under the driver | `DriverTypeOK`, `AnswerIsComplete`, `NothingLeftUnkilled`, `RefusalEndsGroup`, `ChildCallEnds` |
| `status_aggregate` | damaged Codex payloads and snapshots of other sources, aggregated in any order | `LowestIsComparable`, `EverySnapshotExplained`, `UsableWindowsSurvive` |
| `live_operator` | a command from its arguments to its exit, run by a shell, a program or the driver | `ConsultedAsAsked`, `ComposedIsDetected`, `StreamTellsOutcome`, `VerdictTellsOutcome` |

Every property has a mutant: a plausible bug in a definition, with which TLC
finds the property violated. The mutants stand beside the definitions they
replace.

### Bounds, and why they are enough

- *Cache.* Two threads and two keys: every race here is between one fetch and
  one other fetch or invalidation, and keys interact through the common
  generation alone. Two snapshots and one invalidation per counter let an old
  result meet an invalidation or a newer entry. Three instants with gaps of 1, 2 and 3,
  visited in any order, make an entry reusable, tolerable, too old, and newer
  than the reading, for `reuse_ttl` 1 and `maximum_stale_age` 2. `NoResurrection`
  and its companions are also proved without bounds.
- *Symmetry* of callers and policies is used for the cache alone, whose run
  checks only safety and the refinement of `SnapshotReuse`, a safety property
  too (it asks no fairness) and as symmetric as the cache; runs with
  liveness use none.
- *Client.* One key, two callers and one upstream snapshot: a second caller is
  needed to warm the cache and to invalidate between the steps of the first.
  An age of 0 sees stale and fresh snapshots; the finding uses an age of 2.
- *Pipe reader.* Four bytes of two values read two at a time: a full chunk, a
  short one, one in the queue while another is held.
- *Session.* A handshake is four bytes; six leave room for a notification
  before, between or after, and the seventh for one byte beyond the cap of
  six. A chunk of three always straddles frames of two. The run for errors and
  termination has five bytes against a cap of four, so the cap ends inside a
  chunk and leaves bytes for the trailing probe.
- *OpenCode Go.* A limit of three with chunks of one and two is reached
  exactly, missed and stepped over; the body may run to five. Status codes are
  one per class the code distinguishes; declared lengths lie below and at the
  limit, absent, and one that `isdigit` accepts and `int` refuses.
- *Live driver.* A limit of four read two at a time ends with a read of one
  byte; six bytes end below, at and beyond it.
- *Aggregate.* Two snapshots, of any two origins: every pair of reasons meets,
  and a comparable window meets a lesser one, an equal one and none. Fifteen
  windows differ from a comparable one in a single respect each, the zero limit
  included; ages lie below, at and beyond the one asked for. Raw windows have
  every kind of wrong field, alone and beside each other.
- *Command.* A string per class the code tells apart: paths absolute on one
  platform, on both, on neither, padded, or like a flag; keys usable, padded,
  blank, with a line break. Two runner arguments separate the shorthand from a
  spelled-out command. Snapshots are judged before their instant (a clock set
  back), at and beyond the five minutes. Foreign outputs fail one check of
  `_classify` each.

### Fairness

| Specification | Assumed | Why the code has it |
|---|---|---|
| `ClientFairSpec` | a thread inside a call keeps running, and its upstream call ends | each transport runs under a deadline, as `ExchangeEnds` and `FetchEnds` show; a server that trickles for ever is left out here |
| `ReaderFairSpec` | the thread's `os.read` returns when data or end of file is there; `put` proceeds when the slot is free | the kernel and `queue.Queue`; nothing is assumed of a foreign file, of the owner, or of the child |
| `SessionFairSpec` | the calling thread runs; the deadline in force passes | `time.monotonic`; nothing is assumed of the child or of the reader thread, and no step of the cleanup has to raise |
| `GoFairSpec` | the code runs, the deadline passes, and once it has a socket without traffic has been idle for the timeout; HTTPX ends an operation whose socket stays idle | the timeouts of HTTPX, which are about inactivity. Nothing is assumed of the server: it may trickle bytes into one operation for ever, which nothing interrupts, and `FetchEnds` names that exception |
| `DriverFairSpec` | both threads run, time passes, a process that was sent SIGKILL ends | the kernel; nothing is assumed of a process before SIGKILL or outside the group |

No fairness is asked of `Begin`, `ReadStatus`, `InvalidateAll` or any other
action of the environment that nobody has to take.

### What the violated runs show

1. `status_client_fallback`: an entry past `reuse_ttl` that the cache falls
   back to after a `ProviderError` is judged only by the caller's
   `maximum_age`, so it can be reported fresh with no trace of the fallback.
   `docs/architecture/implementation-plan.md:75` says the fallback is explicit
   in the typed freshness state.
2. `codex_session_cleanup`: when the reader thread cannot be started, the
   constructor runs the cleanup and drops its verdict; the exchange ends
   UNAVAILABLE where `docs/providers/codex-protocol.md:198-200` says a failed
   cleanup becomes PROCESS.
3. `opencode_go_typed`: an integer `percent` too large for a float makes
   `math.isfinite` raise `OverflowError` through `fetch`;
   `docs/providers/opencode-go-protocol.md:54` says an invalid field is a typed
   parse failure, or left out beside a valid sibling.

### Where code and documents part inside a property that holds

These were met while modelling. The model does what the code does, and the
properties that pass claim nothing for these cases: each says in its comment, or
in its condition, which case it is not about.

- A window with a known limit of nought is comparable but has no percentage:
  the whole aggregate raises `ValueError` (`models/domain.py:184`, reached from
  `:431`), where `docs/architecture/domain-model.md:48` asks for a positive
  denominator and rule 5 of lines 50-58 for that snapshot's exclusion. The step is
  `RaiseShare`; the run reaches it, and a promise that no aggregate ends so would
  fail. `LowestIsComparable` and `EverySnapshotExplained` are about the
  aggregates that are returned.
- A `windowDurationMins` that cannot be hashed raises `TypeError` from
  `set(durations)` (`providers/codex.py:83`), where
  `docs/providers/codex-protocol.md:230-232` promises a typed failure for
  malformed input. `HashRaises` says when, `MapPayload` is then `Raised`, and a
  promise that every payload ends in a snapshot or a typed failure would fail.
  `UsableWindowsSurvive` is about all other payloads.
- `--timeout ²` passes `isdigit` and fails in `int` (`cli/__init__.py:236-238`):
  `ValueError` leaves `parse`, whose docstring promises `CliUsageError`, and the
  process ends with 1 where `docs/architecture/cli-activation.md:120` lists 2.
  `StreamTellsOutcome` names it as one of the causes of status 1.
- A `CompositionError` of a `client_factory` is not caught by `main` and ends
  the process with 1; `docs/architecture/cli-activation.md:122` lists 2. With an
  exception of an embedding program's own reader this is the other cause of a
  status 1 in `StreamTellsOutcome`.
- The flags of one provider are refused beside the other, as the comment at
  `cli/__init__.py:254` says, but not when no provider is named: then the
  command ends with 4. `ConsultedAsAsked` holds because nothing is read.
- The driver's preflight accepts a key with outer blanks, composition refuses
  it: the command ends with 2, and the driver reports drift (21), not the
  preflight result that `docs/testing/opencode-live.md:16-17` gives malformed
  input (10).
- A stale snapshot ends the command with 3, which the driver reports as 25,
  an unexpected regression.
- A 5xx answer is reported retryable, as
  `docs/providers/opencode-go-protocol.md:51` says and
  `docs/architecture/provider-contract.md:48` denies; `RetryableMeansTransient`
  follows the code.

## 4. Proofs

`tlapm` checks every theorem from nothing, with Z3, Zenon and LS4.

**ProviderCacheProofs.** The promises of the cache are not inductive: a stored
result is good because of what a call remembered when it began. `CacheInv`
adds two parts. `GenerationsCountInvalidations`: for every key the common and
the own generation add up to the number of invalidations that covered it, so
comparing both generations compares epochs. `CallsRemember`: a call in flight
remembers a sum that can only have grown since, its result was observed no
earlier than that, and it began no later. Hence a matching pair of generations
at `Store` means that nothing was invalidated since before the observation, and
the entry is current (`EntriesAreCurrent`). The other safety properties,
the two action properties and the refinement of `SnapshotReuse`
(`CacheImplementsReuse`) follow from it, for any number of callers, keys and
invalidations, and any clock. Assumed: the ordering of the policy's durations
(`PolicyAssumption`, which `ProviderCachePolicy` enforces), integer instants,
natural bounds, and that `None` is none of the values it stands beside.

**PipeReaderProofs.** `ReaderInv` adds `Shutdown` to the types: once the owner
has left "reading" the stop event is set, and after the drain, while the thread
is still on its way to a put, the slot is empty. The second half is inductive
only because of the first: the thread puts at most once more after the stop
event. It gives `OneDrainSuffices`; with the byte order of every step it gives
`NoByteLost`, for any chunk size and any bytes.

**CodexSessionProofs.** `SessionUsesReader` shows that each step of a session
is a step of `PipeReader` or leaves it alone, so the reader's theorems hold
inside every exchange (`SessionLosesNoByte`). `LinesFaithful` then shows that
lines taken, buffer and remainder are together what was delivered, for any cap
and chunk size, from the invariant `SessionInv`: the byte sequences are typed,
and reads are asked for within what the cap leaves. Two more invariants carry
the rest. `CleanupOrder` says at each cleanup phase what the steps before it
achieved, or that their failure was noted, each of them free to raise;
`NoLeakUnlessReported` is its last phase. `FailuresAreTold` is the matching
action property: a noted failure survives every later step and ends in PROCESS.
`Progress` says at each phase which messages were sent and which frames other
than notifications were taken; it needs that a line is a whole frame, which
holds because the buffer is made of the child's own bytes until the descriptor
is closed (`BufferIsFromChild`, from the reader's `BytesConserved`).
`SuccessMeansHandshake` follows. `UnreportedMeansNoReader` is what the violated
`CleanupFailureIsProcess` leaves true: a cleanup failure that is not reported
as PROCESS belongs to a constructor whose reader thread never started.

**OpenCodeGoProofs.** `GoInv` says at each phase what the transport knows:
operations begin in time, so only the latest can have ended late (`Timing`);
sizes kept and in hand add up to what arrived (`Body`); what the transport
returns is what it found (`PortSound`); what the provider tells is what the
transport returned (`OutcomeSound`). The three safety properties and the types
follow, for any limit, chunks, contents and status codes. So do the two halves
of what the violated `FailuresAreTyped` leaves true: an exception gets out of
`fetch` only for a body `json.loads` fails on unguarded or one with a `percent`
that no float can hold (`RaisesForBodiesOnly`), and where no body is of that
kind every failure is typed (`OtherFailuresAreTyped`).

**StatusClientProofs.** `ClientUsesCache`: every behaviour of the client is one
of the cache, so all of `ProviderCacheProofs` holds inside reads. `ClientInv`
adds `ReadsRemember`, that a reader past `detect` had seen the source and that
the cache works on the request this read was for. `SnapshotNeedsDetection`
follows.

**LiveDriverProofs.** `DriverInv` has one part per thing the threads share:
`NothingLost` (what was written is in the pipe or in the output),
`OverflowTold` and `ReaderStops` (what the event and the end of the reader
say about the output and the pipe), `Collecting` (the owner gets to the join
with a leader that was waited for). Only together do they give
`AnswerIsComplete`, since the owner looks at them one by one. `KillTold` says at
the end of `_cleanup_group` whether the group was sent SIGKILL.
`NothingLeftUnkilled` follows: what outlives the call in its group was sent
SIGKILL, unless the signal failed or the thread could not be started. After an
answer only a helper can be left, one that has let go of the pipe or, where a
read raised, one that still has it: `_child` does not look for either.

**StatusAggregateProofs.** First that the mapping keeps usable windows and that
the domain accepts what it gives (`WindowsSurvive`), by the cases of one
window, two, and none, for payloads whose durations can be hashed; a sibling
with an unknown or an equal duration takes the usable window along, as the code
has it. Then the loop: the included shares are those of the comparable windows
among the snapshots taken so far (`IncludedComparable`, `ComparableIncluded`)
and one of them is least (`LeastIncluded`). The steps of the model are the
iterations of the loop, so this induction is the ordinary invariance proof, for
any number of snapshots (`LowestIsLeast`). For the lists the loop keeps two
more parts: every snapshot taken is in one of them (`EverySnapshotListed`), and
what is excluded is excluded for a reason that holds of it
(`ExclusionsJustified`). The lists given out are sorted, so
`EverySnapshotExplained` also needs that the sort loses and doubles nothing:
`SortedPermutes` shows that the places are a bijection, because each entry that
precedes another has fewer before it, and `SortedKeeps` that a bijection keeps
the number of entries of each provider.

**LiveOperatorProofs.** `OperatorInv` follows a command: nothing is consulted
while arguments are read (`NothingYet`), a read starts from a configuration
the arguments account for (`Configured`), what is rendered is an answer or an
error (`Rendering`), documents are JSON's alone (`Documents`), and the driver's
command is for OpenCode Go with consent (`DriversCommand`). The four safety
properties are parts of it.

**How long things take.** Liveness itself needs fairness and ENABLED, which the
prover has not. What it can show is the other half of each argument: a natural
number, bounded by the constants, that every step of the code makes smaller and
that no step of anybody else makes larger. So the code never goes round, and what
TLC still has to find, on the small instances, is that nobody waits without end.

| Theorem | The number counts | Bound |
|---|---|---|
| `ReadComesToEnd` | steps left in `read_status`, whatever other threads, the clock and the source do | 8 |
| `ToldThreadFinishes` | steps left to the pipe reader once it was told to stop, also in a foreign file | 4 |
| `ExchangeComesToEnd` | bytes the exchange may still read, bytes in the buffer, and the phases left | 3 * `MaxOutput` + 22 |
| `FetchComesToEnd` | bytes of body to come and phases left; of its steps at most `BodyLimit` + 1 are HTTPX operations; trickled bytes change nothing | 2 * `BodyLimit` + 12 |
| `CallComesToEnd` | phases left to `_child` once its deadline has passed, and reads left to its thread at any time | 11, and `MaxStdout` + 3 |

What the proofs assume of the constants is what the provers cannot see of
unspecified values: `None` and the other marks are none of the values they
stand beside (`NoneAssumption`, `ProvidersAssumption`, `PointsAssumption`,
`NotObjectAssumption`), the program's own identifiers are trimmed
(`OwnIdentifiersAssumption`), and identifiers are ordered (`RankAssumption`:
each has a number, its place in Python's order of strings). TLC evaluates every
assumption in the runs.

Every safety property of every run, and the refinements, are stated by a theorem.
Only model-checked is every liveness property (`EveryReadEnds`,
`AbandonedThreadEnds`, `ExchangeEnds`, `FetchEnds`, `RefusalEndsGroup`,
`ChildCallEnds`), beyond the halves in the table above.

## 5. Not modelled, and why

- *Frame and JSON text.* `parse_frame` and `json.loads` are represented by
  their outcomes; which text has which outcome is string work.
- *Release tooling* (`scripts/verify_distributions.py`) inspects the archives of
  a build once, in sequence, outside the program.
- *Rendering*: of the JSON envelopes `StatusCommand` has the fields the driver
  reads; the human form, field order and wording are layout.
- *Paths*: `_runner_path.py` is a verdict per platform and kind of path
  (`NativeAbsolute`), not its parsing of drives and separators.
- *Domain values nobody reads here*: used percentages and token amounts have a
  validation and no user among the modelled operations. Decimals are
  integers; an infinite one is left out. So is the version text of the Codex
  handshake, which no answer depends on.
- *Test doubles and protocols*: `fake.py`, and the file and command ports, which
  have no adapter.
- *Validation of arguments* raises before any state exists.
- *Windows*: the live driver refuses to run there; the session's process calls
  are modelled as on POSIX.
- *KeyboardInterrupt and other BaseExceptions* may end any Python statement;
  the code handles none of them and they are left out throughout.

## 6. Plan

Built in this order, because most depends on the first: cache, pipe reader,
session; then client, OpenCode Go and the live driver; then mapping,
aggregate, command line and the driver's verdict. What is left:

1. One abstract specification of a bounded call (it begins, it may be late, it
   ends once), which the session, the OpenCode Go fetch and `_child` each
   implement, so that their three measures become one argument.
2. `StatusCommand` takes the results of its transports from a set; matched with
   the outcomes that `CodexSession` and `OpenCodeGo` can reach, it would be shown
   that the set leaves none out.
3. The text of frames: which lines `parse_frame` refuses as too long, as no
   UTF-8, as no JSON and as no envelope, and in which order.
4. `StatusCommand` over `ProviderCache`: an embedding program that shares one
   client among commands.
5. Larger instances of the session for its liveness alone, where time allows:
   its safety is proved for every size.
