# Verification of the SWE-bench verification harness

The harness takes a patch over HTTP, runs a test command in a fresh Docker
container before and after applying it, compares the two reports and answers
whether the patch resolves the task. It is one asyncio event loop: nothing runs
in parallel but threads that talk to Docker, and everything that can go wrong
between two coroutines goes wrong at a suspension point. A step of the models is
therefore what one coroutine does between two suspension points.

## 1. Inventory

| part | source | state | operations | who calls it |
| --- | --- | --- | --- | --- |
| warm pool | `app/sandbox/pool.py` | idle queue per environment, active set, running flag, mock mode, lock, worker tasks, Docker client | initialize, replenish (seed and workers), create, acquire, release, cleanup, shutdown, get_stats | lifespan, runner, health route |
| lifespan | `app/main.py` | none of its own | initialize before the first request, shutdown at the end | the server |
| runner | `app/core/runner.py` | registry task id -> context; a context has status, response, event queue, log | run_evaluation, emit_event, stream_task_events | evaluation routes |
| evaluation routes | `app/routers/eval.py` | none | run (sync or background), status, stream | clients |
| scorer | `app/core/scorer.py` | none | parse_test_output, compute_metrics | runner |
| patch applier | `app/core/patcher.py` | none | validate, write, dry run, apply; rollback (unused) | runner |
| Docker sandbox | `app/sandbox/container.py` | cached container object | write_file, exec_command, exec_command_stream, terminate | runner, patcher, pool |
| mock sandbox | `app/sandbox/container.py` | files in memory | the same, canned | pool without a daemon |
| telemetry | `app/utils/opik_tracker.py`, `app/routers/telemetry.py` | Prometheus gauges and counters | set, count, export | pool, runner, clients |
| configuration | `app/config.py`, `app/schemas.py`, `app/sandbox/security.py` | constants | - | all |

The parts meet in four places: the runner acquires from and releases to the
pool; run and streams share a context and its one event queue; the scorer reads
what the runner collected; every sandbox needs threads of one executor and
turns of one event loop. What is hard in each:

* **pool**: two replenishers of one environment that do not know of each other;
  a start-up that outlives its timeout in a thread; a failed start or removal;
  workers cancelled in the middle of a batch; acquire and release racing with a
  shutdown that awaits while it holds the lock. It is correct if a container is
  used by one evaluation only and once, if none is lost but for a named cause,
  if acquire always returns, the queues refill and shutdown ends.
* **runner**: many ways out of one function, each of which must answer, count,
  announce and give the container back; two requests with one task id; several
  streams of one queue; clients that leave. It is correct if the verdict says
  no more than was found, if it is announced once and last, and if a started run
  finishes whoever listens.
* **scorer**: overlapping patterns, empty reports, tests that appear, disappear
  or are skipped. It is correct if a resolved patch left nothing broken and a
  test gets the status its own line shows.
* **sandbox**: a streaming loop that blocks the event loop, a watchdog that is
  read only when a chunk arrives, threads that outlive their timeout. It is
  correct if limits are kept, if a command given up never starts, and if
  removals get their thread in the end.
* **the service**: a stop at any time. It is correct if each part meets what the
  others assume of it, and if shutdown comes after the last release.

`PROJECT.json` lists every such hazard with its line and its properties.

## 2. Modules

| module | models |
| --- | --- |
| `WarmPool` | the pool and the lifespan, with the daemon's faults |
| `SandboxLease` | what the pool promises: a container is leased at most once, to one client, and is then spent |
| `EvalRunner` | run_evaluation with the steps of the patch, the task registry, the event queue, the streams, the status answer, `EVAL_TOTAL` |
| `SandboxExec` | the commands of the Docker sandbox over the executor and the event loop |
| `Harness` | the composition of `EvalRunner` and `WarmPool` with the stop of the server |
| `Scorer` | parse_test_output and compute_metrics over abstract reports |
| `WarmPoolProofs`, `PoolPlacesProofs`, `PoolLeaseProofs` | the theorems about `WarmPool`: types, sizes and gauges; where containers are; the refinement of `SandboxLease` |
| `EvalRunnerProofs`, `SandboxExecProofs`, `ScorerProofs`, `HarnessProofs` | the theorems about the module of that name |
| `QueueTheorems` | lemmas about queues without repetition |
| `MCWarmPool`, `MCEvalRunner`, `MCSandboxExec`, `MCHarness`, `MCScorer` | instances for TLC |

### WarmPool

`idle`, `active`, `stage` are the pool's own variables (`stage` stands for the
running flag, for the lock shutdown holds and for where the lifespan is).
`fleet` lists every instance ever built with what the daemon has for it: a mock,
a running container, or a removed one. A *replenisher* is the seeding pass of
`initialize` or the worker of an environment; `phase`, `pending` and `made` say
where in `_replenish_pool` it is, since `gather` both suspends it and collects
its containers. A client's `pc` and `hand` are the suspension point and the local
variable of its acquire and release. `cleaning` are the tasks of release,
`doomed` what shutdown has taken and not yet terminated, `strays` the threads
nobody waits for. `lost` is a history variable: containers dropped for a cause
the model names.

`Acquire` is acquire up to its first suspension, so with a full queue and a free
lock it is all of it. `TakeQueued` against `GiveUp` is the race of the queue
against the one-second limit, `Activate` the critical section at the end.
`CreateContainer` has one disjunct for each way out of `_create_container`.
Every action also does what the code does to the two gauges.

`BeginShutdown` contains the cancellation of the workers. `DrainFirst` says
whether the server finishes its requests before it runs shutdown, as uvicorn
does by default; with FALSE shutdown runs in the middle of requests, as it does
under uvicorn's `timeout_graceful_shutdown`, another server, or a test that
drives the lifespan. (A second signal makes uvicorn leave out shutdown
altogether; the process ends with whatever runs.) `CleanupCancelled` is the end
of the process, which cancels the cleanup tasks that have no thread yet.

A queue may hold twice the minimum, because the seeding pass and the worker of an
environment both read it empty: `OvershootBounded` says that this is the worst.
`POOL_MAX_IDLE` has no part in it, since the pool never reads it. The active gauge
of an environment is set to the number of containers in use of all of them, and
only when one of that environment comes or goes: `ActiveGaugeReported` says exactly
this of every step, and the run `pool_gauge_labels` that it is not the number of
containers of the environment, which the label promises.

The order in which shutdown empties the queues, and the order of the seeding
passes, are left open: the code takes the dictionary's order, the model any.

### SandboxLease

Every container is `ready`, `leased` or `spent`. `WarmPool` is mapped to it by
`leaseView`: ready in a queue or a batch, leased while a client's coroutine
refers to it, spent otherwise.

### EvalRunner

Each evaluation has a `pc` that names the await it is suspended at. `events` is
every event put on its queue, `taken` how many have left: the queue is the part
between. The status an event carries is the context's at that moment, as in
`emit_event`. Since a put on an unbounded queue does not suspend, several events,
the response and the count of `track_evaluation` are one step where the code has
no other await between them. The sandbox is seen by its outcomes: a checkout
whose exit code is ignored, a stream of up to `MaxChunks` chunks, an exit code of
0, 1 or 124: a time-out is an exit code of `exec_command`, which catches it, so
the clause `except asyncio.TimeoutError` is dead and the run ends COMPLETED. The patch is refused as no diff without a suspension,
or it is written, tried and applied, and may be refused at each (`writing`,
`checking`, `applying`). `evalTotal` is the counter `EVAL_TOTAL` under its labels
status and resolved. `Stop` is the moment the server takes no more requests;
those it has, the background runs that are still queued and the open streams go
on, and `Drained` is what a graceful stop waits for. The baseline's exit code only enters `compute_metrics`,
which is `Resolved` here and `Scorer` in detail. `AcquireFailed` is the clause
`except Exception` of run_evaluation. With a container held the clause cannot be
reached, since `write_file`, `exec_command`, `exec_command_stream` and the patcher
catch their own exceptions, so no action stands for it.

Streams of one task share its queue, so an event reaches one of them, or leaves
with a client that goes away: a second connected client never gets an error that
the first one took. What holds is `ErrorDelivered`: while an
error waits and somebody listens, a stream is told of it and ended, unless one
more client leaves first; if that one leaves the error behind, the same holds for
those that stay.

A request that carries no task id gets a fresh one. Evaluations with different
ids do not touch each other's variables, so the instances let all share one id,
where the later context replaces the earlier one in the registry.

### SandboxExec

A *run* is one evaluation's use of one container: build it, execute commands,
remove it. Every call to the daemon is a *job* of `asyncio.to_thread`, which
waits in `queue` for one of `Threads` threads, is then `working`, and then `over`
until the event loop hands its result to the run. `cached` is the container
object: the first command of a run asks for it in a job of its own (`Use`), which
lies outside the limit of `exec_command`. `TimeOut` is `wait_for`: it stops
awaiting a creation or an `exec_command`. A job that has no thread yet is
cancelled with it; a thread cannot be stopped, so its job goes on until the
command ends or the container is removed (`MayEnd`). `reader` is the run whose
loop over a stream occupies the event loop: that loop waits for the next chunk
without an await, so no other coroutine moves, time-outs included, until the chunk
comes (`Chunk`), when the watchdog is looked at too (`StopReading`). A command
ends, prints for ever, or hangs, and one that is being streamed may fall silent
after it has printed (`FallSilent`); a removal may fail and is not tried again.

`EvalRunner` and `WarmPool` see the same calls by their outcomes, so a silent
stream cannot stop them: `SandboxExec` says when that abstraction holds
(`~Silent`, `~Starved`).

### Harness

The variables are those of `EvalRunner` and of `WarmPool`; an evaluation is the
pool's client of the same name. `Begin` is a step of both (the run suspends
inside acquire), so are `Acquired`, which needs the pool's client to hold a
container, and the two ways a run releases. `Others` are further clients of the
pool, with nothing but acquire and release. `AcquireFailed` of `EvalRunner` is no
step of the composition: acquire does not raise, because a creation that fails
yields a mock. In the code a run goes on in the step in which acquire gets the
lock; here that is `AcquireStep` and then `RunStep`, so that the composition has
every interleaving of the code and some more. The server's stop lets requests and background runs finish
(`Drained`) before `BeginShutdown`.

That a mock may stand in for a container although the daemon runs, and that an
evaluation then answers from canned output, is what the code does
(`app/sandbox/pool.py:126`); nothing in a verdict tells.

### Scorer

A report is a sequence of lines. A result line has a test, a result word and a
*tail*: whether anything follows the word, as pytest's progress mark does. A
summary line is a word followed by a test. Other lines matter only for the
phrases of the fallback. `Named` says which tests the summary patterns find:
those of summary lines and those that begin the line after a result word
without a tail. The runs print their reports line by line; their exit codes are
free, because each comes from a second execution of the command. The rounding of
the pass rate is left out.

## 3. Runs

| run | instance | shows |
| --- | --- | --- |
| `pool_one_env` | 2 clients, 1 environment, minimum 1, late starts and failing removals, shutdown at any time, `FairSpec` | `Isolation`, `ActiveIsHeld`, `NoSilentLeak`, `HeldIsAlive`, `QuietAfterShutdown`, `TypeOK`; `LeasedOnce`: the pool implements `SandboxLease`; `AcquireReturns`, `OnlyWarmRemain`, `StaysWarm`, `ShutdownCompletes` |
| `pool_two_envs` | 2 clients, 2 environments and an unknown name, failing starts, symmetry | `RightRuntime`, `OvershootBounded`, `IdleGaugeExact`, `ActiveGaugeReported` |
| `eval_shared_id` | 2 evaluations with one task id, 1 stream, `FairSpec` | `VerdictSound`, `CountersMatch`, `SandboxGivenBack`, `StatusForward`, `EvalFinishes` |
| `eval_streams` | 1 evaluation, 2 streams, commands of up to 2 chunks, `FairSpec` | `TypeOK`, `DoneOnce`, `ClosedMeansOver`, `ErrorDelivered`, `GracefulStop` |
| `exec` | 2 runs of up to 2 commands, 2 threads, `FairSpec` | `TypeOK`, `ThreadsAccounted`, `ExecAnswered`, `StreamEnds`, `CallReturns` |
| `harness` | 1 evaluation and 1 other client, 1 environment, failing creations and removals, `Spec` with its fairness | `RunHasContainer`; `RunnerSpec` and `PoolSpec`: the composition implements `FairSpec` of both parts; `StopCompletes` |
| `scorer` | 2 tests, reports of up to 2 lines, all exit codes, symmetry | `ParseFaithful`, `ResolvedIsClean`, `MorePassesNeverHurt`, `OneListEach` |

Five runs show where the code does something else than the repository says:

| run | what happens |
| --- | --- |
| `pool_shutdown_leak` | after shutdown containers run that nobody refers to: those of a cancelled worker |
| `pool_gauge_labels` | with a python and a node container in use, the active gauge of one of the environments says 2 |
| `eval_done_status` | the done event of a completed evaluation says RUNNING_PATCHED_TESTS; the stream's condition to end is then never met |
| `scorer_rule` | a test is fixed, none breaks, the exit code is 0, and the patch is not resolved because another test still fails, or a new one is skipped: `BENCHMARKS.md:54-55` and the comment at `scorer.py:166-169` know no such condition, line 171 does |
| `scorer_lines` | "x PASSED" at the end of a line makes the test on the next line pass, whatever that line says |

`ResolvedIsClean` is about the rule the code has, not the documented one: it says
what a resolved patch means for the reports, a test that still fails included.

What the properties of `exec` and `eval_streams` except is what the code does
wrong under load: a streamed command that falls silent stops the whole service
until it prints again; as many timed-out commands as there are threads stop every
removal, and with it the threads' release, and a removal that fails keeps its
threads for good; an idle stream of a completed run
keeps a graceful stop from ending.

### Bounds

Two clients are what the races of the pool need: one that takes what the other
waits for, one that releases while the other acquires. A client acquires once, as
a run does; a second acquire of the same coroutine would be a third client. The
minimum is 1, so that each replenisher has a batch of one: the theorem
`NeverMoreThanTwice` covers every other minimum. Containers are bounded by what
clients and replenishers create before the queue is full. Every fault is in one
run: a late start and a failing removal in `pool_one_env`, a failed start in
`pool_two_envs`, a refused creation in `harness`, where `PoolSpec` makes each step
one of the pool; the theorems about the pool hold for all of them together. Two evaluations show
what sharing a task id does; in the streams' run one evaluation is enough, since
streams of different evaluations share nothing. Chunks are 0 where two
evaluations interleave and up to 2 where streams take them: a chunk changes
nothing but the queue. Two report lines are what the patterns can relate; two
tests are one neighbour for each, and the lists compare one test at a time.

In `exec` two threads and two runs are the least that lets one run starve the
other with commands it gave up, and lets one run's removal free the other; with
two commands a run has one before and one after a time-out, and finds the
container object cached or not. The executor of the code has `min(32, cpus + 4)`
threads; nothing but the comparison with `Threads` depends on their number.

In `harness` the contention for containers and the order of two releases come
from the other client, whose inner steps do not matter to the evaluation;
several evaluations at once are `eval_shared_id`, and two clients that race with
shutdown are `pool_one_env`. The refinements of `FairSpec`, fairness included, are what
makes the larger instance expensive. Chunks are 0 and streams are left out,
because neither touches the pool.

Deadlock is checked in the pool's runs (`Quiesced` is the process that may end)
and not in the others, where everything may be over.

### Fairness

`FairSpec` of the pool: a ready coroutine runs (replenishers, clients inside
acquire or holding a container, cleanup tasks, shutdown), and each call to the
daemon returns or fails, which the startup timeout enforces for creation and the
Docker client's own timeout for removal. That a client releases in the end is
what `PoolSpec` shows of the service. No fairness is
assumed of requests, of the shutdown signal or of stray threads.

`FairSpec` of the runner: a run in progress goes on. For `acquire` this is what
`RunnerSpec` shows of the service, for `exec_command` its timeout
(`ExecAnswered`), and for the streamed execution it is an assumption about the
command: that it prints or ends, because the code's watchdog is read only when a
chunk arrives (`app/sandbox/container.py:172`, `StreamEnds`).
A queued background run begins, and a connected stream takes events. Clients need
not connect, stay or ask for anything. `RunStep` leaves open how a patch ends.

`Spec` of `Harness` is fair to each coroutine and assumes nothing of one part
towards the other: `RunnerSpec` and `PoolSpec` derive the fairness of `FairSpec`
of both parts from it, so that what the other runs show of them holds together.

`FairSpec` of `SandboxExec`: threads take and finish jobs. The steps of the event
loop are strongly fair: they are enabled only while no stream occupies it, and
asyncio runs everything that is ready in turn each time it is free. `StopReading`
is strongly fair because time passes: a stream that prints without end reaches
its limit. Nothing is assumed of a command that hangs.

## 4. Proofs

Every invariant and every action property of the runs that pass is a theorem, for
all values of the constants, and so is the refinement of `SandboxLease`. Eight
modules hold the proofs; `QueueTheorems` has the lemmas about queues without
repetition that the pool and the sandbox share. The assumptions are those the
modules name:

| assumption | says |
| --- | --- |
| `PoolAssumption` | a default environment among the environments, `POOL_MIN_IDLE` at least 1, faults among the known ones |
| `EvalAssumption` | a bound on chunks, and that `None` is neither an evaluation nor a verdict |
| `ExecAssumption` | at least one thread, a bound on commands, and that `None` is no run |
| `ScorerAssumption` | words the scorer knows, and that no test has the name of one of its fallback entries |
| `HarnessAssumption` | those of both parts, and that the other clients are no evaluations |

None bounds the number of clients, evaluations, task ids, environments, runs,
tests or lines, nor asks for them to be finitely many.

### The pool

`WarmPoolProofs`:

* `TypeCorrect`: `Spec => [](TypeOK /\ HandMatchesPc)`. `TypeOK` alone is not
  inductive: Release drops `hand[a]` into `cleaning`, a set of containers,
  which is right only because a client that holds has a container.
  `HandMatchesPc` says so. The lemmas take the actions in groups; those that build
  a container need that references stay valid when the fleet grows (`Widen`).
* `NeverMoreThanTwice`: `OvershootBounded`. The inductive invariant
  `SizeInv` adds `BatchMatchesPhase`: a replenisher that is not inside gather has
  nothing on its way. The arithmetic, one lemma (`BoundKept`), is that a
  replenisher starts a batch only to fill the queue to the minimum, while its
  partner has at most one batch of that size on its way.
* `IdleGaugeRight`: `IdleGaugeExact`. `IdleGaugeInv` states it before initialize as
  well, so that it holds when the pool is up.

`PoolPlacesProofs` proves everything about where containers are from one inductive
invariant, `PlacesInv`: `Apart` (a container is in one hand, one slot, one batch or
one cleanup task, batches of different replenishers included), `RightPlace` (what
a queue or a batch has is of its environment), `Quiet` (what shutdown has ended or
emptied stays so), `DoomedApart` (what shutdown took from a queue is nobody
else's), `Alive` (what may still be handed out has not been removed),
`ActiveIsHeld` and `NoSilentLeak`. They have to be proved together: no container
is removed under a client because nobody else refers to it, and that holds because
a queue gives an instance away once. Most steps only carry containers from place
to place, so `StepMoves` first sorts the actions by what they carry (`Moves`: a
batch into a queue, the head of a queue into a hand, a hand into `cleaning`,
...), and each conjunct is then proved of these few moves. Its consequences:

* `Isolated`, `ActiveSetExact`, `LeaksAreNamed`, `NeverRemovedInUse`,
  `ShutdownIsQuiet`, `RuntimeIsRight`: the invariants `Isolation`, `ActiveIsHeld`,
  `NoSilentLeak`, `HeldIsAlive`, `QuietAfterShutdown` and `RightRuntime`.
* `ActiveGaugeRight`: the action property `ActiveGaugeReported`. A step enters
  containers, takes some out, clears the set at the end of shutdown, or does
  nothing to set and gauge; acquire labels with the environment it looked up, and
  `RightPlace` says that this is the container's own.
* `ShutdownAfterClients`: under a server that finishes its requests first, no client
  is inside acquire or holds a container once shutdown has begun (`ServedFirst`).
  No run states it; the composition rests on it.

`PoolLeaseProofs` proves `LeaseImplemented`, `Spec => LeasedOnce`: under the
refinement mapping `leaseView`, every step of the pool is one of `SandboxLease` or
changes no lease. A step that builds a container adds one lease or, when a
late start leaves a stray, two; one that hands a container over leases it; one
that drops some spends them. That a container is spent for good follows from
`Apart`: nobody else refers to what a client or shutdown lets go.

### The runner

`EvalRunnerProofs` proves, for any evaluations, task ids, streams and `MaxChunks`:

* `VerdictsAreSound` and `SandboxesComeBack`: `VerdictSound` and `SandboxGivenBack`.
  Neither is inductive: the verdict is written several steps after the facts it
  rests on. `RunInv` says for each suspension point what the evaluation holds, what
  its outcome is and whether it has answered (`Progress`), and that a finished
  verdict repeats the outcome. Its lemmas take the actions in the order of a run;
  `RejectKeeps` serves both ways a patch is refused. Streams leave all of it alone.
* `DoneIsSaidOnce`: `DoneOnce`. `NextMoves` shows that a step of a run is silent,
  speaks (it emits events that are no done event) or decides: verdict, count and
  done event together (`Silent`, `Speaks`, `Decides`). `TalkInv` then says what has
  been put on the queue and that the status of a run is that of its phase.
* `CountersAreRight`: `CountersMatch`, from the same three kinds of step.
  `CountInv` adds that finitely many runs have answered, so that the theorem
  holds for infinitely many evaluations, too.
* `ClosedWhenOver` and `TypesRight`: `StreamInv` ties a stream to the run it reads.
* `StatusNeverGoesBack`: the action property `StatusForward`. What the status
  route answers is the verdict or the status of the phase, and no step of a run
  leads to an earlier phase.

### The sandbox

`SandboxExecProofs` proves, for any number of runs and commands:
`ExecTypeCorrect` (`TypeOK`, with the bound on busy threads) and
`ExecThreadsAccounted` (`ThreadsAccounted`). `ExecInv` adds what makes this
inductive: a job is in one place (the queue never
holds it twice, so that cancelling it leaves nothing behind), a run awaits a job
of its own and still knows it afterwards (`FallSilent` changes it), the event loop is occupied only by a run that reads, and a job
that was given up (`Abandoned`) can never be mistaken for a later one of the same
run, because the run has issued another command or is removing the container
(`SubmitKeeps`). The steps of a run are covered by `StepOfRun`, which leaves the
other runs alone.

### The scorer

`ScorerProofs` proves, for any tests and reports of any length:
`ParsesFaithfully`, `ResolvedMeansClean`, `PassesNeverHurt` and `EveryTestListed`.
`ScoreInv` only says that the metrics are those of the two reports; the proofs are
about the operators. `ParseReads` is what parse_test_output returns: a reading of
finitely many tests (`FewTests`: a report of n lines names at most n), each
with one of three results. `LastLine` gives the line that wins for a test, as the
greatest index of a set of lines. `ListsApart` is the partition of the tests by
the branches of compute_metrics, from which the sizes follow (`SizeOfParts`).

### The service

`HarnessProofs` proves

* `ComponentsImplemented`: `Spec => Runner!Spec /\ Pool!Spec`. Every step of the
  service is a step of each part or leaves it alone, so the theorems about the
  runner (its instance here has no streams) and the pool hold in the service; this
  is the safety half of `RunnerSpec` and `PoolSpec`.
* `NoRunLosesItsContainer`: `Spec => []RunHasContainer`. `LinkInv` says how a run's
  suspension point, its container and the pool's client of the same name go
  together: a run that uses a container is a client that holds one. The rest is
  what the pool guarantees such a client (`PoolInService`): `PlacesInv` and
  `ServedFirst`. `SamePool` is the fact that the pool of `Harness` and the one the
  theorems are about are one and the same.

### Only model-checked

TLC alone checks liveness: `AcquireReturns`, `OnlyWarmRemain`, `StaysWarm` and
`ShutdownCompletes` of the pool, `EvalFinishes`, `ErrorDelivered` and
`GracefulStop` of the runner, `ExecAnswered`, `StreamEnds` and `CallReturns` of the
sandbox, `StopCompletes` of the service, and the fairness half of `RunnerSpec` and
`PoolSpec`. Such a proof has to show when the actions under WF and SF are enabled,
and the provers do not reason about ENABLED. The five disagreements with the
documents are counterexamples, so they are TLC's as well.

## 5. Not modelled

The security profile (options the daemon enforces), the logger, durations and
the Opik export, the load test and the demo client, images and deployment, the
validation of requests, and the canned answers of the mock sandbox. `rollback` of
the patcher has no caller. A process that is killed, or told to stop twice, runs
no shutdown and leaves its containers: nothing is persisted that a restart could
read, so there is nothing to check. That a command which timed out goes on in the
container while the patch is applied follows from `MayEnd`; what it does to the
workspace is not modelled. `POOL_MAX_IDLE` is in no model: the code
reports it and does nothing with it. The task registry only grows:
that is what the code does and no property is about it.

## 6. Plan

1. Mock sandbox: its files and its canned reports, scored by `Scorer`.
2. Proofs: the theorems about the runner restated for the service, as
   `NoRunLosesItsContainer` does with those about the pool; the mock sandbox, once
   it is modelled.
