# Formal models of SASSGuard

SASSGuard watches the GPU code a process runs. A library preloaded into the
process (the *hook*) copies every code object and every kernel launch into a
ring, a Go client inside the process ships them to a *collector*, the collector
stores them and forwards them to an *online processor*, which analyses kernels,
forms windows of launches (*L0*), classifies each window (*L1*), applies a
verdict policy per session, and sends verdicts back along the same path until a
terminating one stops the process.

    application threads            hook library                collector            online processor
    cuLaunchKernel, ... --> TelemetryRing --> Go client --TCP--> handleConn --unix--> reader threads
                                                 ^              batcher, queue         event worker
                                                 |                    |                L0Windows
                                              control <--TCP-- handleVerdicts <--unix-- inference workers,
                                                                                       RollingPolicy, outbox

Offline, `analysis/` builds the classifier's dataset from stored captures with
the same analysis code, and `train/`, `baselines/` and `experiments/` train,
compare and measure.

The TLA+ modules here model that path and the offline programs, TLC checks them
on small instances, and TLAPS proves theorems about the components of that path,
and about most of the offline programs, for instances of any size.
Every definition is a translation of the source; `PROJECT.json` maps each one to
its lines, lists the runs with their properties, a plausible bug of the code
that violates each property (`mutants`), the hazards, and the theorems.

## Checking

    tlc -workers 2 -config ProcessorSafety.cfg MCOnlineProcessor
    tlc -workers 2 -config Parts.cfg MCParts
    tlapm OnlineProcessorProofs.tla
    tlapm OfflineProofs.tla
    tlapm FunctionProofs.tla

Definitions marked *faulty* in a comment are the mutants' replacements; no
specification uses them.

## Inventory

For each part of the system: the state it keeps, its operations, with whom it
interacts, and what is hard about it. The status of each part is in
`PROJECT.json`.

| part | state | operations | interacts with | hard behaviour | what makes it correct |
|---|---|---|---|---|---|
| telemetry ring (`collector/src/telemetry.cc`) | ring, head, tail, count, mutex, sequence counter, two atomic drop counters | init, shutdown, enqueue code / launch, pop batch, release batch, stats | application threads, Go client, destructor | trylock that gives up, wrap-around, ownership of copies, shutdown while hooks run | hooks never wait; each event is pushed or counted; each copy has one owner; FIFO |
| telemetry bridge (`telemetry_bridge.cc`) | three flags, the configuration | constructor, destructor | ring, Go client | stop before the detached thread has started the client | the client never runs on a closed ring |
| Go client (`collector/go/client/main.go`) | started, stop and done channels, processInfoWasSent | start, stop, connect, handshake, drain, stats, control | ring, collector | reconnects, partial batches, writes that block at exit | an event is sent at most once; a session introduces itself before its events; exit completes |
| code registry, hooks (`code_registry.cc`, `hook.cc`) | maps module / library / kernel / function to code id | load, register, map, launch | driver, ring | handles reused after an unload | a launch names the code it runs |
| collector connections (`sassguard-collector/main.go`) | session table, one mutex for storing | register, store, unregister, send control | Go client, batcher, online client | old and new connection of one session at once | a live session is not ended; a command reaches the current connection |
| online client, batcher (`online.go`) | bounded channels, batches per session | send, end session, purge, connect, read, flush | collector, processor | full queues, purge against concurrent sends, reconnect | order per session; nothing after the end; bounded memory |
| processor (`online/sassguard_online/processor.py`) | sessions, futures, rolling scores, waiting verdicts, outbox, one lock | read frames, handle launches, submit / run / finish windows, release in order, drain, end session | collector, L0 scheduler, classifier | out-of-order completion, session end at any moment, several connections | verdicts in window order, by the policy, once terminated never again, delivered |
| kernel analysis (same file) | artifacts, code queue, kernel directories | submit, analyse, finish, look up | analysis pipeline, launches | directory collisions, queue limit, launches before readiness | a launch is rendered from its own kernel |
| framing (`framing.py`, `online.go`) | bytes read so far | read, write a frame | sockets | timeout inside a frame | the reader never starts in mid-frame |
| L0 scheduler (`analysis/sassguard_analysis/l0_windows.py`) | per stream: launches, cost, counts, ratios, seen compositions; window counter | add launch, flush | processor, dataset build | several evictions per launch, compositions that return | longest suffix in budget; each composition once; numbers consecutive |
| rendering, tokens (`workload_sass.py`, `sass_tokens.py`) | none | cost, render, clip | L0, L1 | boundaries of the budget | rendered text fits the budget |
| CFG, loops (`cfg.py`, `loop_extract.py`) | none | blocks, edges, loops, choice | kernel analysis | labels without an instruction, branches out of the kernel, calls inside a loop | the selected part is a loop of the graph, or a region without a label left dangling |
| capture ingest, disassembly, split, normalise (`ingest.py`, `disassemble.py`, `split_kernels.py`, `normalize.py`) | kernel directories | copy code objects, run tools, split text, look up | kernel analysis, dataset build | names that collide once made file names, code objects that are equal, functions no tool lists | a launch is shown a kernel of its own code object |
| dataset build (`build_dataset.py`) | the directories of workloads, their manifest | build, overwrite, skip, move into place | all of the analysis | several worker processes, kills and restarts, captures that share a name | a directory that is read is whole; what a build reports is so |
| splits (`splits.py`) | records | load, group, deal, validate | dataset, training | groups across splits, empty classes | every workload in one split, no group divided |
| evaluation, training (`train/modernbert`) | model | chunk, train, pool, evaluate | dataset | online and offline code written twice | both judge a capture alike |
| baselines (`baselines/gpu_metrics_collector`) | samples | record, windowise, classify | nvidia-smi | gaps, samples without a time or a process, several devices | windows show a run's samples, complete and in order |
| throttling experiment (`experiments/throttle_mining.py`) | manifest, copies of captures | run a stopped-and-continued miner, find its captures, copy, resume | collector, files | captures of other processes, commands that die | the manifest holds a run's own captures, once |
| loader, trampolines, generated protocol code, synthetic CUDA workloads, paper | - | - | - | - | not modelled |

## Plan

The modules, the most important behaviour first.

1. *Done.* `OnlineProcessor` with `RollingPolicy`, its abstract specification
   `VerdictStream`, and their theorems (`OnlineProcessorProofs`).
2. *Done.* `TelemetryRing` with its abstract specification `EventQueue`, and
   `HookClient`, which composes `EventQueue` with the bridge and the Go client;
   theorems in `TelemetryRingProofs` and `HookClientProofs`.
3. *Done.* `L0Windows`; theorems in `OfflineProofs`.
4. *Done.* `Collector`: hook connections, batcher, online client, control path,
   and `CollectorProofs`.
5. *Done.* `KernelAnalysis` over `KernelFiles`, and `KernelAnalysisProofs`.
6. *Done.* The offline programs: `MainLoop`, `SassText`, `Classifier`,
   `SampleWindows`, `Splits`, `DatasetBuild`, `ThrottleRuns`, side by side in
   `SeparateParts`; theorems about those that keep state in `OfflineProofs`, about
   the functions, and about `KernelFiles`, in `FunctionProofs`. Left:
   `SampleWindows`, which sorts and selects (see below).
7. *Done.* `CodeRegistry` and `FrameReader`, in `SeparateParts` too, with
   `RegistryFrameProofs`. Left: the sampling loop of the
   baseline recorder.
8. An end-to-end composition of `EventQueue`, the collector and `VerdictStream`:
   what reaches the classifier is a subsequence of what the process did, and a
   terminating verdict stops the process if no connection is lost.

No module that is or will be proved about declares a RECURSIVE operator.

## The models

### OnlineProcessor, RollingPolicy, VerdictStream

`processor.py` runs one *reader thread* per collector connection
(`_handle_conn`), one *event worker* that handles frames in arrival order
(`handle_message`), and a pool of *inference workers*. They share the sessions
and the outbox under `self.lock`.

* **State.** Session fields keep the names they have in the source, shortened:
  `active`, `terminal` (`emitted_terminal_verdict`), `nextIndex`
  (`next_policy_window_index`), `pending` (`pending_policy_verdicts`), `skipped`
  (`skipped_policy_window_indices`), `rolling` (`rolling_mining_probabilities`).
  `fut` is the concurrent.futures state of a window's inference, `jobs` the
  executor's queue, `inbox` the event executor's. `pc`/`job`/`resp` are the
  control point, the window and the local `ready_responses` of a thread,
  `connPc`/`held`/`frame` those of a reader.
* **Actions.** Each region that holds the lock is one action, so any other
  thread may come between two of them; the iterations of the release loop are
  separate actions during which the lock is held (`LockFree`). `FinishL1` is the
  done-callback: it runs in the worker that finishes the future, or in the event
  worker when the future is already over when the callback is attached
  (`AttachCallback`). `MarkEnded` happens twice for a `session_end`, in the
  reader and again in the event worker. A reader's `send` may fail
  (`Disconnect`), its `recv` may time out (`ReceiveTimeout`).
* **Abstractions.** A launch batch is the number of windows it completes
  (`L0Windows` has the scheduler); the classifier's result is any of `Scores`,
  in percent, or a failure; the single outbox list is one queue per session,
  since no code looks at the order between sessions. `RollingPolicy` compares
  sums with products instead of dividing. The `per_window` policy, which no
  shipped configuration selects, and `processor_error` frames are left out.
* **`VerdictStream`** is the promise per session: windows settle in any order,
  verdicts are emitted in window order with the policy's decision, none after a
  termination or after the end. `ImplementsVerdictStream` is the refinement.

| run | instance | shows |
|---|---|---|
| `processor_safety` | 1 session, 1 connection, 2 workers, 3 windows in one batch, 3 scores, rolling count 2, 2 frames | release order, policy decisions, single termination, frozen ended sessions, refinement |
| `processor_liveness` | `FairSpec`, 1 session, 2 connections, 2 workers, 2 windows | two drains of one outbox lose nothing; no window blocks the release; verdicts get written |
| `processor_late_verdict` | 1 session, 2 windows | violation: a verdict is queued after its session ended |

One session is enough for these properties, each of which is about one session:
sessions share the lock and the threads, and a worker busy for another session
is one that does not move. Two workers and three windows are the least with which windows finish out of
order around a failed one, and with a rolling count of 2 three windows make the
oldest score fall out. Scores 0, 40 and 50 fall on both sides of the mean
threshold 30 and on the maximum threshold 50 (the shipped values). Two frames
are a batch and a `session_end`, or two batches. Deadlock checking is off in
these runs because the system may really stop: all connections may close and
the frames are bounded.

*Fairness.* Weak fairness of each thread (`Fairness`): the code has no thread
that waits for another one except for the lock, which is held for finitely many
steps, and a reader's socket has a timeout. Nothing is assumed of the collector:
frames and disconnections are not fair.

*Finding.* `analysis/README.md:110` says the processor drops unsent verdicts
when a client is gone. `_finish_l1` leaves the lock between releasing verdicts
(line 692) and queueing them (line 694); `processor_late_verdict` shows a
`session_end` handled in that gap, after which the ended session's verdict is
queued and sent.

### TelemetryRing, EventQueue

`telemetry.cc`: application threads call `sg_enqueue_code` and
`sg_enqueue_kernel_launch`, the Go client's drain loop pops, releases and reads
statistics, the constructor and the destructor open and close the ring.

* **State.** `ring`, `head`, `tail`, `count`, `ringOn` and the counters are the
  file's statics; `lock` is `ring_mutex` with its holder, so that a trylock can
  fail; `live` is the set of code copies between `malloc` and `free`, named by
  the sequence number of their event.
* **Actions.** `Enqueue` copies and takes a number, `TryLock` and `Push` are
  `push_event`, `CountEvent` and `CountBytes` the two atomic additions of
  `count_drop`, the second together with the caller's `free` and return. A
  `malloc` may fail (`EnqueueNoMemory`). `PopLock`/`Pop` and
  `ShutdownLock`/`Shutdown` wait for the mutex; `StatsEvents`, `StatsBytes` and
  `StatsQueued` read the three statistics one at a time.
* **Abstractions.** An event is its number, thread and size; sizes only matter
  as zero or not. Calls are bounded by `MaxCalls`.

| run | instance | shows |
|---|---|---|
| `ring_checks` | `FairSpec`, 2 threads, capacity 2, batches of 2, 3 calls | counting, ownership, order per thread, bounded FIFO; hooks return although the drainer stops holding the mutex |

Capacity 2 with batches of 2 and 3 calls makes the ring wrap and a batch span
the wrap (one event is popped before the other two are pushed), and lets it be
full. Only application threads are fair: the drainer and the destructor may stop for ever at any point, which
is what "dropped rather than blocking the application thread"
(`paper/body.tex:178`) has to survive. Deadlock is checked.

### L0Windows

`l0_windows.py`: `AddLaunch` and `AddUnready` are the two outcomes of
`add_launch`, `Flush` is `flush`. A stream's `queue`, `cost`, `counts`,
`ratios`, `seen`, `evicted`, `unready` are the fields of `StreamState`; `created`
keeps the order in which the streams entered the dict, which `flush` follows.
A launch is the triple that `ready_launch_attributes` reads; costs may change
from launch to launch for one kernel id, as its directory is rewritten when its
code is loaded again. A cost never exceeds the budget because
`render_launch_fragment` truncates a kernel to the budget of one window
(`LaunchesAssumption`). The histories `arrivals` and `windows` serve the
properties.

The run `parts` takes two streams, a kernel below the gate's threshold, one
exactly at it, the same kernel with another cost and below it, a budget of 3 and
6 launches. One launch can then overflow the budget and evict two, a composition
can leave and come back, and two windows can have the same kernels in another
order of frequency. Flushes may fall anywhere although the offline build flushes
once at the end and the processor never does: the properties hold regardless.

### HookClient

`telemetry_bridge.cc` and `collector/go/client/main.go`, over `EventQueue`,
which `TelemetryRing` implements: here the ring's calls are single steps.

* **State.** `mainPc` is the thread that runs the library's constructor and
  destructor, `threadPc` the detached thread that calls `sg_go_start`;
  `started` and `stopClosed` are `runtimeState`; `clientPc` walks through
  `runClient`, `sendHandshake` and `drainLoop`; `infoSent` is
  `processInfoWasSent`; `batch` is what `drainLoop` has popped and not yet
  written. `sent` is a history of the envelopes written, `late` says that the
  detached thread ran only after the destructor had begun.
* **Actions.** Each look at the stop channel, each write of an envelope, each
  pop is an action; a connection may break between any two of them, which makes
  the next write fail and loses the rest of the batch. A terminate command ends
  the process at once, in the middle of anything.
* **Abstractions.** A write succeeds when the local stack takes it; what arrives
  is the collector's concern. An event is its number in ring order.

| run | instance | shows |
|---|---|---|
| `hook_client` | `FairSpec`, ring of 3, batches of 2, 4 events, 3 connections, 2 statistics | introduction first, events once and in order, client at rest before the ring closes, `sg_go_stop` returns from every state |

Three connections are an introduction that fails, one that succeeds and a
`client_hello`; four events in batches of two give a batch that is lost in the
middle and another after it. Deadlock checking is off: the process ends.

*Fairness.* The client's goroutine and the destructor run on. `WF(ClientStep)`
includes that a write ends: the code sets no deadline, so with a collector that
keeps the connection open and reads nothing a write, and with it the exit of the
process, can hang; the model says nothing about that case.

### Collector

`sassguard-collector/main.go` and `online.go`. One *handler* per hook connection
(`handleConn`), the batcher's *ticker*, the goroutine that *writes* to the
processor (`run`, `runConn`) with its reader, and `handleVerdicts`.

* **State.** `sessions` is `c.sessions`, `batches` is `b.batches`, `sendCh` and
  `verdictCh` are the channels, `kept` the slice of messages a purge puts back.
  A handler at "store" holds `c.mu`; while `flushing` is not empty the ticker
  holds `b.mu`. Events and session ends have numbers (`nextId`) in the order in
  which they are stored.
* **Actions.** Each critical section is one action, each operation on a channel
  another, so sends of other goroutines fall between the steps of a purge
  (`PurgeStart`, `PurgeTake`, `PurgeRestore`). `StoreEvent` is the whole of
  `store`, with the file that records an event failing or not; `EndBatch` to
  `Unregister` are the deferred clean-up. A write to the processor may fail and
  loses its message.
* **Abstractions.** Frames are kinds; files are left out except that the disk
  may refuse. A verdict is a session to terminate. A client dials when it has no
  connection; the collector may still be handling frames of its previous one.

| run | instance | shows |
|---|---|---|
| `collector_safety` | 2 processes, queue of 2, batches of 2, 3 frames | every event in one place, order per session, nothing after the end |
| `collector_verdicts` | 1 process that connects twice, 3 frames, 2 verdicts | a verdict reaches a connected client unless a stale frame registered late |
| `collector_liveness` | `FairSpec`, 2 processes, queue of 1, 2 frames | frames are stored and clean-ups end (`ProcessorNeverBlocks`) although the processor hangs |
| `collector_launch_order` | 2 processes, batches of 1 | violation: a purge reorders launches of another session |

A queue of 2 is full after two messages, so drops, purges that find the channel
drained by the writer, and purges that put back more than fits all happen. The
two processes of `collector_safety` are interchangeable, which `SwapClients`
uses as symmetry. In `collector_liveness` `MaxUnsent` is below `MaxBatch`, the
setting in which launches are refused. Deadlock is checked in all collector runs.

*Fairness.* Handlers and ticker run on; the mutexes are held for finitely many
steps. Nothing is assumed of the processor, the clients or the disk.

*Finding.* The processor's scheduler depends on the order of launches.
`paper/body.tex:225` says it is kept; when a session ends, `online.go:167` takes
the batches of all other sessions out of the channel and appends them again
behind later ones (`collector_launch_order`). `main.go:107` registers a
connection for every frame, so a frame that a dead connection's handler reads
late replaces the live connection, and the control command that
`analysis/README.md:114` promises goes nowhere. `VerdictFindsClientUnlessStale`
says that this is the only way: it singles these frames out by the history
`stale`, and fails without that exception.

### KernelFiles, KernelAnalysis

`KernelFiles` is the way from code objects to kernel directories and back:
`copy_code_objects`, the choice of a disassembler, the parsers' dictionary of
functions, the fallback for a name no function has, the directory a kernel goes
to, and `resolve_kernel_dir`. It has no variables: `KernelAnalysis` runs it
inside the processor and `SeparateParts` on whole captures.

`KernelAnalysis` is what `_submit_code_analysis`, `_analyze_code_object`,
`_finish_code_analysis`, `_artifact_for_launch`, `_handle_launches` and
`_render_window_text` make of it for one session.

* **State.** `queue`, `pc`, `code` are the analysis executor's; `dirs` and
  `built` are the locals of an analysis, `used_kernel_dirs` and its artifacts;
  `files` is the session's kernel directories, in which a kernel's text is known
  by the `<<name, code>>` it was disassembled from; `artifacts` is
  `artifacts_by_code`. `refused`, `handled` and the fields `by` are histories.
* **Actions.** Regions under `self.lock` are single actions. An analysis writes
  one file per step without the lock, and `metadata.json` in two, since
  `write_json` truncates the file first and every reader parses the metadata of
  the whole session. A window's text is read when its inference runs
  (`StartWindow`, `RenderWindow`), any number of analyses later.
* **Abstractions.** A window is one launch; costs of fragments are equal.

| run | instance | shows |
|---|---|---|
| `kernel_analysis` | 3 code objects, two with the same kernels in another order, 2 workers, a queue limit of 1, 2 launches | a launch is shown its own kernel unless another code object overwrote the directory; a ready kernel stays ready; what the limit refused stays dark; an ended session learns nothing |

The two code objects with the same kernels write the same directories at the same
time; two of the names differ only in characters that a directory name cannot
hold. With a limit of 1 the limit is passed once two artifacts are there, so a
code object can be refused while another is still in the queue. Two launches are
what `NoGapsOnceReady` compares. Deadlock checking is off: everything may have
arrived and be done.

### CodeRegistry

`hook.cc` and `code_registry.cc`: a hooked call lets the driver work and enters
what it returned into the registry; a launch is looked up and queued.

* **State.** `codeIds`, `moduleLibrary` and `kernelMap` are the registry's vector
  and maps; `hook` is where a thread stands in a hooked call. `live` and
  `resolved` are the driver's own truth: which handle holds which code, known by
  the number of its load. `queued` is the history of events.
* **Actions.** The driver's work, the part of a hook under the mutex and the part
  after it (`SendCode`, `QueueLaunch`) are separate, so other threads come between.
  `Unload` is not hooked, and the driver may give the handle out again; other
  unhooked calls return kernels (`UnhookedGetsKernel`). An application does not
  unload what a call of its own is using.
* **Abstractions.** Names and dimensions are left out; an image is readable or not.

`LaunchNamesItsCode` says that a launch carries the id its code was queued under,
unless a handle on the way was given out before. Without that exception it fails: a
reused handle keeps its first id, under which the new image is sent as well.
Instance, in the run `parts`: 2 threads, 2 handles of modules and libraries, one
kernel handle, 2 loads, 2 queued events: a library and its module, two modules
that are loaded at once, and a handle that comes back as either.

### FrameReader

`framing.py` with the loop of `_handle_conn`, and `readJSONFrame` of the
collector: the two readers of one kind of stream. Units are a frame and a
position; the network delivers any piece of what is written, a write may break,
a timeout may come at any point. A length that is read in the wrong place is too
large if its first byte is text (text bytes come to 500 MB and more, the limit is
10 MB), and anything otherwise. `FramesIntact`: frames are handed on in order and
without a gap unless a timeout fell inside one; then frames may be missing, but
the collector, which tells a timeout in the payload from silence, closes.
Instance, in `parts`: 3 frames of 1 or 3 units behind a length of 2 units, so that
a length can be cut and a cut length can swallow the next frame.

### The offline programs

Each offline module is a program of its own; `SeparateParts` puts them,
`CodeRegistry`, `FrameReader` and `L0Windows` side by side and `part` picks the one
that a behaviour runs. Those that keep state take the steps of their modules; the
pure functions are given any input of a set, a parameter of the module, and their
answer is kept, for the property to compare with a definition of its own. `MCParts`
gives the sets of bounded inputs. Deadlock checking is off, because programs
end, and no fairness is assumed.

* **`MainLoop`** (`cfg.py`, `loop_extract.py`): labels, basic blocks, edges,
  loops by backward branches, nesting and scores, and the fallback regions of a
  kernel without a loop. Opcodes are classes. `MainLoopIsLoop`: the chosen loop
  enters at a block and ends in a block with an edge back to it, and a region
  starts at a block, keeps to the bound and ends in neither a jump nor padding;
  and there is a loop exactly when the graph has a jump back.
  Inputs: all listings of up to 5 lines of 8 kinds (two labels, a guarded and an
  unguarded branch, a call, an exit, heavy and light code): enough for nested
  loops, branches to a label that comes twice or names nothing, and code behind
  an exit. The sizes of regions are scaled to 2 and 3 instructions.
* **`SassText`** (`sass_tokens.py`, `workload_sass.py`, parts of `normalize.py`
  and `static_features.py`): token counts, both truncations, the choice of lines
  that are rendered, the text of a window, the gate. `WindowTextFits`: whatever
  is launched, text and cost fit the budget, the text is clipped no further than
  it must be, and the last launch is shown in full.
  Inputs: two kernels with short, long and over-long lines, with and without a
  main loop, up to 3 launches of them and of an unknown kernel, budget 6, loop
  budget 5.
* **`Classifier`** (`online/sassguard_online/classifier.py`, and the chunking and
  evaluation of `train/modernbert`): chunks of a long text, pooling, the
  suspicious predicate, the prediction of a capture. `OnlineJudgesLikeOffline`:
  the two programs, written separately, cut and judge alike. Inputs: texts of up
  to 12 tokens with every window of 2 to 5 and every stride; captures of up to 2
  texts of up to 3 chunks, with four answers on the different sides of the three
  thresholds.
* **`SampleWindows`** (`windowize.py`): points
  from the samples of processes and devices, and windows of them.
  `SampleWindowsComplete`: windows are runs of a group's samples, a group without
  a gap loses less than a step at its end, and the hybrid rows are the rows of
  the process baseline. Inputs: all sets of the seconds 0 to 7, out of order, with
  and without a process, one without a time, two devices.
* **`Splits`** (`splits.py`): loading, grouping, dealing and validation.
  `GroupsStayWhole`: every workload is in one split, no group is divided, and
  a label's groups are shared out within one of their ratio, or to fill a split.
  Inputs: 2, 4 or 6 captures, every outcome of the shuffles of their labels'
  groups, three ratios, with and without windows.
* **`DatasetBuild`** (`build_dataset.py`): worker processes build each capture in
  a temporary directory and move it into place. `step` is a worker's control
  point in `process_capture`; every directory operation is an action, the removal
  of a directory two; `StartBuild` may come at any time, which is a kill, and
  process ids may come again. `NothingHalfBuilt` has four named parts. Instance:
  6 captures of one workload name, of which two have names of their own and four
  a common one, with all outcomes but `unmapped`, which differs from `empty` only
  in the dry run; 2 workers and 2 builds with different options: enough for two
  workers that overwrite one directory, in which a killed build left its own.
* **`ThrottleRuns`** (`experiments/throttle_mining.py`): the command starts a
  miner, stops and continues it, waits for captures, copies them and appends a
  row; it may die between any two steps and be resumed; miners that outlive it
  and other processes make captures as well. `ManifestHoldsOwnRuns`: a row's
  captures are its own miner's and nobody else's, resuming enters no run twice.
  Instance: 2 runs, 2 commands, 2 captures: one for each run, two of one run, or
  one of a foreign process beside a run's own. That process ids differ within one boot is
  assumed: a miner is known by the number of its start.

| run | instance | shows |
|---|---|---|
| `parts` | all of the above | the registry, the readers, the scheduler, the build and the capture runs on every interleaving, and the functions against their definitions |
| `split_pairs` | the splits only | violation: two optimization variants of one program in different splits |

`KernelFiles` takes part with `ResolvedKernelIsOwn`: five code objects, two of
them equal, and one that the capture does not have, four formats and readers, up to
3 launches of any name. Its statement
leaves out one case: of two equal code objects only the first names the kernel
directory, so a launch from the second is looked up by name alone and finds
the first directory of that name, possibly from a third code object.

*Finding.* `analysis/README.md:75` says that variants `_o2` and `_o3` of a program
stay in the same split. `splits.py:115` groups records by the stem only when the
manifest names neither a parent workload nor a capture, and the build always names
one: `split_pairs` shows a pair divided.

## Proofs

A component's theorems hold for every value of its constants that satisfies the
named assumptions (`ASSUME`) of its module: any number of threads, connections,
sessions, code objects, any capacity and any bound. Each proof module states the
inductive invariant from which its theorems follow, in named parts, and has one
lemma per action or group of actions that says what the step keeps. The
invariants were checked by TLC on the instances of the runs before they were
proved. `PROJECT.json` lists the theorems.

### OnlineProcessorProofs

* `TypeCorrect`: `Spec => []TypeOK`. `TypeOK` is not inductive: a thread at
  control point "finish" reads `fut[s][i]` of its `job`, which must be a window;
  a reader at "pop" or "mark" must hold a verdict or a frame; the event worker's
  `todo` more windows must exist. `Typed` adds these (`ReaderControl`,
  `ThreadControl`).
* `EndedFrozen`: `Spec => EndedSessionFrozen`. Needs, besides `Typed`,
  `LockedActive`: a thread inside the release loop works for an active session,
  as it checked under the lock and nobody else gets the lock meanwhile.
* `PolicyFollowed`: `Spec => []DecisionsFollowPolicy`, by `RollingMatches`: the
  session's rolling list is `LastScores` of all scores released so far. The step
  is the lemma `LastScoresAppend`, that trimming before appending changes
  nothing.
* `TerminatesOnce`: `Spec => []TerminateOnce`: `terminal` never falls while
  verdicts are released, and while it is set nothing is released.
* `NoneLost`: `Spec => []NoVerdictLost`: two readers that drain one outbox lose
  nothing. `OnTheWay`: a thread has verdicts in hand only between their release
  and the outbox, all of the session it works for, and a reader takes out of the
  outbox only what it has sent; so a released verdict is in a thread's hands, in
  the outbox or sent.
* `WindowsInOrder`: `Spec => []ReleasedInWindowOrder`. `Lives` is the life of a
  window's future: fresh until the event worker submits it, once in the queue,
  with one worker, over for good. `Ordered` says that what waits for its turn is
  the outcome of a window that is over (`Waiting`).
* `ProcessorIsStream`: `Spec => ImplementsVerdictStream`, the refinement: each
  step of a thread is a step of `VerdictStream` or leaves its variables alone. A
  step of the release loop is the stream's release of the next window, so it
  needs the window order; the completion of a future is its settling.

### TelemetryRingProofs

`RingTyped` is `TypeOK` with what the lock's holder is doing (`Locked`), what each
thread has in its hands (`InHand`), how many calls are under way (`CallsCounted`)
and the slots between `head` and `tail` (`Window`), which needs the arithmetic of
indices modulo the capacity.

* `TypeCorrect`; `DropsAreCounted`: `[]EveryDropCounted`, by counting the calls
  under way.
* `RingIsQueue`: `Spec => ImplementsEventQueue`, the refinement: the slots from
  `head` on, in order, are the abstract queue.
* `ThreadsKeepOrder`: `[]ThreadOrderKept`. `Fifo` relates the histories of pushes
  and pops to the slots; `NumberedOnce` says that a number is given once and that
  what a thread has pushed has smaller numbers than what it holds.
* `CopiesHaveOneOwner`: `[]CopiesOwnedOnce`. `CopiesHeld`: the allocated copies
  are exactly those of calls under way, of the queue and of the drained batch.

### HookClientProofs

* `TypeCorrect` and `RestsAtShutdown` (`[]StoppedBeforeShutdown`) from
  `Lifecycle`, which relates the control points of the constructor's thread, the
  detached thread and the client.
* `Introduced`: `[]IntroducedFirst`, with `Connection`: what was written on the
  connection that is up.
* `OnceInOrder`: `[]WrittenOnceInOrder`. `Numbered`: ring, batch and what was
  popped are consecutive numbers; `Shipped`: on a connection that is up nothing
  was given up after the first event written on it.

### CollectorProofs

* `TypeCorrect`, from `Typed`: what a handler has in its hands at each control
  point.
* `VerdictsFindClients`: `[]VerdictFindsClientUnlessStale`. `Connected`: a client
  has one open connection, and its handler the session, unless the session is one
  that a late frame took.
* `NothingTwice`: `[]EventsAccounted`. `OncePlaced`: a number below `nextId` is in
  a batch, a queued message, a message that a purge holds, the one being written,
  a written one or among the lost; in one of these only (`Apart`), and there in
  one message only (`Single`).
* `OrderHolds` (`[]OrderUnlessRestored`) and `EndComesLast` (`[]EndIsLast`), from
  one invariant, `Line`: messages ahead of each other on the way to the processor
  (`Pipeline`) are in the order of storing, with the two exceptions that the
  property names; a message carries events that are older than what waits in the
  batch (`Messages`); a handler that has dropped its batch leaves none behind
  (`NoMore`).

### RegistryFrameProofs

*Code registry.* `LaunchesNameTheirCode`: `RegistrySpec => []LaunchNamesItsCode`. The invariant
ties the registry's tables to the driver's truth for handles that were not given
out twice: a live owner's id is its own and its code was sent under it, or is
about to be by the one thread that is loading it (`Registered`, `AtSend`,
`OneLoader`); a kernel's owners are live and of its code (`KernelOwners`), a
module's library is (`Families`), and the kernel map leads to one of them
(`KernelsMapped`); a launch under way looked up such an id (`AtLaunch`).

*Frame readers.* `Intact`: `FrameSpec => []FramesIntact`. What the reader has and what is still in
the stream is one line of units without a gap (`Whole`, said of any two units, so
that no induction over a frame is needed), everything handed on lies behind it
(`Behind`), and without a timeout inside a frame the reader stands where the line
begins (`InStep`).

### KernelAnalysisProofs

`Analysis` is inductive:

* `OncePerCode`: a code object is queued once, or at work in one worker, or over;
  nothing is written for it before it is taken from the queue, and nothing ever
  for one that was refused;
* `MetadataNames`: metadata was written by its code object, under the base of its
  kernel, and no two directories have the same;
* `Work`: a worker's directories are different, hold everything that is written
  for its code object, and those that it alone wrote to hold its kernel's files
  as far as it has come;
* `Artifacts`, `Windows`: what analyses left behind stays whole until another
  code object writes over it (`Kept`);
* `Ready`: a launch that was taken is of a code object with artifacts.

The helpers need lemmas: `FreshDir`, that `UniqueDir` finds a directory that is
not in use (by the pigeonhole principle); `FirstIsOne`, that among the
directories of one base there is a first; `FoundOwn`, that a lookup whose own
metadata is there finds it and nothing else; `ArtifactIsOwn`, that a launch gets
an artifact exactly if its code object has one, and one of that code object.
From these:

* `TypeCorrect`, `OwnKernels` (`[]OwnKernelUnlessOverwritten`), `RefusedDark`
  (`[]RefusedStaysDark`), `EndedLearnsNothing` (`EndedSessionLearnsNothing`);
* `NoGaps` (`[]NoGapsOnceReady`): artifacts are never taken away, so what `Ready`
  says of an earlier launch decides the later one.

### OfflineProofs

*Window scheduler.* `Scheduled` is inductive: the types (`SchedulerTyped`), streams
enter the dict once (`StreamsOnce`), a stream's `queue`, `cost`, `counts` and
`ratios` are those of the longest end of its arrivals that fits the budget
(`StreamHeld`), `seen` is exactly the compositions of the windows emitted for the
stream (`SeenShown`), windows are different and numbered without a gap
(`EachCompositionOnce`), each window is a run of arrivals, and no composition that
overflowed and passed the gate is missing. `StreamHeld` needs what the counters
that the code keeps add up to: lemmas about totals, about what remains when a
beginning is dropped, and about `EvictCount`, that eviction stops at the longest
end that fits.

* `SchedulerTypeOK`, `LongestSuffixKept` (`[]KeepsLongestSuffix`),
  `CompositionsOnce` (`[]EachCompositionOnce`), `OverflowsAreShown`
  (`[]OverflowsShown`). Flushes may come anywhere in all of them.

*Dataset build.* `Dataset`: each capture of a build waits, is with one worker, or is
answered (`JobsOnce`); a worker past the checks has its temporary directory, in the
state that its control point says, and there are no others but those known to be
left (`TempsHeld`); a final directory is whole, unless it is being removed or a kill
interrupted that (`FinalsWhole`). The other parts are what the reported results need:
nobody else touches the directory of a capture that shares its name with no other
(`OwnTrue`); a build that skips what exists removes nothing (`SkippedThere`); one
that overwrites puts a workload back after each that it removes (`Refilled`).

* `DatasetWhole`: `BuildSpec => []NothingHalfBuilt`.

*Throttle experiment.* `Experiment`: a command that copies has seen its miner exit, and
what it found is that miner's (`FoundOwn`); rows are of different miners in the order
in which these were started, each with captures of its own miner that were copied
(`RowsOfMiners`); while every command after the first resumes, the command knows the
rows of the earlier ones and enters its own in the order of the plan (`RowsKnown`).

* `ManifestRight`: `ThrottleSpec => []ManifestHoldsOwnRuns`.

### FunctionProofs

What has no state of its own, for any input. `TokenCount`, `Total` and `Sum` are
recursive functions, `FlattenSeq` is defined through one, and `Disassemble` and
`SplitLaunched` are the last value of one. `Recursion` (and `SplitSteps` for the
last) shows that such a function exists, and induction up to a bound (`Induction`,
in `OfflineProofs`), stated with a set and proved from the least element of its
complement, gives what it computes.

* `ChunksAlwaysAgree`: division with remainder on one side, the loop of the training
  code on the other, meet in `LastChunk`: the first chunk that reaches the end of
  the text is the one the processor counted.
* `VerdictsAlwaysAgree`: both sides name the same label, since the sums are natural
  numbers and the label ids finitely many (`LikeliestExists`), and compare the same
  means with the thresholds; the row that stands for no window is never suspicious
  because the thresholds are positive.
* `TextsAlwaysFit`: `FirstLinesFit` and `LastLinesFit` say what the truncations
  leave; every fragment fits the budget with its boundary (`FragmentIs`), so the
  clipping, which keeps the longest end that fits, cannot reach the last one
  (`ClippedText`).
* `SplitsAlwaysKeepGroups`: rounding down leaves at most two groups over
  (`WholeAre`) and the order of the fractions gives each to another split
  (`SharesAre`); giving a split its first group takes none from a split that has
  only one (`GiveOneIs`), so the counts add up and are within one of the ratio or
  somebody's first (`CountsAre`). A shuffle is a bijection (`ShuffledIs`), so a
  group is dealt once and each split gets as many groups of a label as was counted
  (`RunsCounted`, `SplitIs`); records of one group have one label, hence one split.
* `MainLoopsFollowGraph`: a block begins at every leader and ends before every other
  (`BlockFrom`, `BlockTo`), so an instruction that closes a loop gives the graph an
  edge back, and an edge back is such an instruction (`EdgeBack`, `BackEdge`). The
  orders by which a loop and a region are chosen are strict, so that among finitely
  many one is beaten by none (`Unbeaten`), and what is chosen is one of the
  candidates (`LoopChosen`, `RegionChosen`), all of which have the shape that is
  claimed (`PieceIs`, `CandidateIs`).
* `LaunchesShownOwn`: what the report says of a code object depends on its dump
  only, although a row may take its tool from an earlier one, and the path of a
  dump tells the dump (`ReportIs`, `PathsAre`, together `RowsAgree`). `KernelsOwn`
  holds after every launch: kernels are written once, each from a code object that
  could be read, with its dump and, if the dump has it, the function of its name
  (`KernelOwn`); a launch that reuses a directory does so from the same dump; and
  exactly the unreadable are missing. A directory is never given twice (`FreshDir`,
  by the pigeonhole principle), and among those of one name there is a first
  (`FirstIsOne`), so that a lookup finds a kernel.
* `JudgesAlike` (`PartsSpec => []OnlineJudgesLikeOffline`), `TextsFit`
  (`PartsSpec => []WindowTextFits`), `GroupsWhole`
  (`PartsSpec => []GroupsStayWhole`), `LoopsFollowGraph`
  (`PartsSpec => []MainLoopIsLoop`) and `KernelsShownOwn`
  (`PartsSpec => []ResolvedKernelIsOwn`) carry them over to the behaviours that the run
  `parts` explores, for any inputs that satisfy `InputsAssumption`.

### Assumptions

That actors, values and the markers `None`, `Unknown`, `Torn` are distinct, that
bounds are natural numbers, and:

* `FrameReader`: payloads are not empty, being JSON objects, and have lengths that
  the reader accepts (`FrameAssumption`). The writers do not check the limit of
  10 MB; a frame above it, which makes the reader close, is left out of the model;
* `Collector`: each connection has an owner (`OwnerAssumption`);
* `KernelAnalysis`: the functions of a code object have different names, since
  disassembly yields a dict (`FunctionsAssumption`);
* `L0Windows`: a launch costs at least one token and at most the budget, because
  `render_launch_fragment` cuts a kernel to it (`LaunchesAssumption`); that it does
  is `TextsAlwaysFit`;
* `DatasetBuild`: worker ids are positive numbers, finitely many, and options are
  switches (`CapturesAssumption`);
* `SassText`: the budget is at least one token, and that of a main loop one less, for
  the boundary (`TextAssumption`); a line has at least one token (`Line`), since
  normalisation and the truncations leave out lines that are empty when stripped;
* `Classifier`: label ids are finitely many natural numbers, and the thresholds are
  positive, as they are shipped (`LabelsAssumption`);
* `SeparateParts`: in a listing only branches and calls name an earlier label
  (`OnlyJumpsGoBack`), whereas `extract_main_loop` takes any instruction that names
  one for the end of a loop; tables hold listings of lines, texts and windows have at least one
  token, the stride of two chunks is below the window, a capture has at least one
  row, the model's answers are percentages, captures have labels and a number of
  windows, the ratios of a split are whole percents, and the code objects of a
  capture have different numbers, which the registry counts (`InputsAssumption`,
  `CutText`);
* `Splits`: the error is none of the results (`SplitAssumption`).

## What is only model-checked

* `SampleWindowsComplete`. Its functions select and sort with an operator as
  argument (`SelectSeq`, `SortSeq`), which the prover's backends do not see
  through. It is checked for all runs of samples of bounded length.
* The liveness properties, which rest on fairness and ENABLED.
* The refinements are proved for the steps and for safety; the abstract
  specifications state no fairness.

## What is not modelled

See the components with status `partly` and `not_modelled` in `PROJECT.json`.

* Planned: the composition end to end.
* Numbers: the training and tokenization of the classifier, the statistics of the
  baselines' classifiers (`pott_ml.py`, `tanana.py`), metrics tables, the mean and
  the deviation of features. Their results are arbitrary values here.
* Text: the rewriting of operands by regular expressions, reports, command lines,
  the parsing of `nvidia-smi`.
* Drivers of other programs: the profiling script
  (`collect_top_kernel_metrics.py`), the evaluation commands of the experiments,
  the overhead measurements, the sampling loop around `nvidia-smi`.
* Without state or out of reach: symbol resolution, register-level trampolines,
  generated protocol code, file output, the synthetic workloads.
