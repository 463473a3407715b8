----------------------------- MODULE EvalRunner -----------------------------
(***************************************************************************)
(* Evaluations: app/core/runner.py with the routes of app/routers/eval.py   *)
(* that start one, ask for its status and stream its events.                *)
(*                                                                          *)
(* A step is what run_evaluation, or a stream, does between two suspension  *)
(* points of the event loop.  The pool is seen through what it promises     *)
(* (WarmPool, SandboxLease): acquire returns a container nobody else holds, *)
(* release ends the lease.                                                  *)
(***************************************************************************)
EXTENDS Naturals, Sequences, FiniteSets

CONSTANTS
  Evals,      \* calls of run_evaluation, one per POST
  TaskIds,    \* the task ids the requests carry; two requests may share one
  Streams,    \* connections to the stream route
  MaxChunks,  \* bound: output chunks of one streamed test command
  None        \* Python's None

Terminal == {"COMPLETED", "FAILED", "TIMEOUT", "REJECTED_PATCH"}

\* EvalStatus, in the order a run goes through it.
StatusOrder == <<"QUEUED", "PROVISIONING", "RUNNING_BASE_TESTS",
                 "APPLYING_PATCH", "RUNNING_PATCHED_TESTS">>

EvalStatus == {StatusOrder[i] : i \in DOMAIN StatusOrder} \cup Terminal

Verdict == [status : Terminal, resolved : BOOLEAN, metrics : BOOLEAN]

ASSUME EvalAssumption ==
  /\ MaxChunks \in Nat
  /\ None \notin Evals \cup Verdict

VARIABLES
  registry,  \* _tasks: the evaluation whose context a task id leads to
  pc,        \* where each run_evaluation is suspended
  taskOf,    \* the task id of its request
  status,    \* ctx.status
  response,  \* ctx.response
  events,    \* every event emitted on ctx.event_queue, in order
  taken,     \* how many of them have left the queue
  chunks,    \* output chunks the streamed command still has to deliver
  sandbox,   \* the container: none, held or released
  outcome,   \* what the run has found: patch applied, exit code, resolved
  evalTotal, \* EVAL_TOTAL, by its labels status and resolved
  conn,      \* of each stream: off, open, closed by the server, or gone
  reader,    \* the evaluation whose context a stream reads
  stopping   \* the server was told to stop

\* What most steps of a run leave alone.
answerVars == <<response, evalTotal>>
workVars   == <<sandbox, outcome>>
streamVars == <<taken, conn, reader, stopping>>
restVars   == <<registry, taskOf, streamVars>>
runVars    == <<registry, taskOf, pc, status, events, chunks, answerVars,
                workVars>>
vars == <<runVars, streamVars>>

Event == [type : {"status", "log", "error", "done"}, status : EvalStatus]

\* What a test command can end with: exec_command turns a time-out into the
\* exit code 124.
ExitCodes == {"0", "1", "124"}

Outcome == [applied : BOOLEAN, exit : ExitCodes \cup {None}, resolved : BOOLEAN]

Queued(v) == SubSeq(events[v], taken[v] + 1, Len(events[v]))

Ev(t, s) == [type |-> t, status |-> s]
-----------------------------------------------------------------------------
Init ==
  /\ registry = [t \in TaskIds |-> None]
  /\ pc = [v \in Evals |-> "new"]
  /\ taskOf \in [Evals -> TaskIds]
  /\ status = [v \in Evals |-> "QUEUED"]
  /\ response = [v \in Evals |-> None]
  /\ events = [v \in Evals |-> <<>>]
  /\ taken = [v \in Evals |-> 0]
  /\ chunks = [v \in Evals |-> 0]
  /\ sandbox = [v \in Evals |-> "none"]
  /\ outcome = [v \in Evals |-> [applied |-> FALSE, exit |-> None,
                                 resolved |-> FALSE]]
  /\ evalTotal = [l \in Terminal \X BOOLEAN |-> 0]
  /\ conn = [s \in Streams |-> "off"]
  /\ reader = [s \in Streams |-> None]
  /\ stopping = FALSE
-----------------------------------------------------------------------------
(***************************************************************************)
(* Steps of run_evaluation.                                                 *)
(***************************************************************************)
Goto(v, from, to) == pc[v] = from /\ pc' = [pc EXCEPT ![v] = to]

\* emit_event, several times in a row: an event carries the status the
\* context has after it.
Emit(v, evs) ==
  /\ events' = [events EXCEPT ![v] = @ \o evs]
  /\ status' = [status EXCEPT ![v] = evs[Len(evs)].status]

LabelUnresolved(verdict) == <<verdict.status, FALSE>>

\* The labels track_evaluation counts a verdict under; the environment's is
\* left out.
Label(verdict) == <<verdict.status, verdict.resolved>>

ConcludeUnkept(v, verdict) ==
  evalTotal' = [evalTotal EXCEPT ![Label(verdict)] = @ + 1] /\ UNCHANGED response

\* The answer of an evaluation is kept and counted.
Conclude(v, verdict) ==
  /\ response' = [response EXCEPT ![v] = verdict]
  /\ evalTotal' = [evalTotal EXCEPT ![Label(verdict)] = @ + 1]

KeepSandbox(v) == UNCHANGED sandbox

\* pool.release
ReleaseSandbox(v) == sandbox' = [sandbox EXCEPT ![v] = "released"]

\* sync=false: the client is told QUEUED, the run starts in the background.
PostAsync(v) ==
  /\ ~stopping
  /\ Goto(v, "new", "queued")
  /\ UNCHANGED <<restVars, status, events, chunks, answerVars, workVars>>

\* The context replaces whatever the task id led to; the run asks the pool
\* for a container.
Begin(v) ==
  /\ pc[v] = "queued" \/ (pc[v] = "new" /\ ~stopping)
  /\ pc' = [pc EXCEPT ![v] = "acquiring"]
  /\ registry' = [registry EXCEPT ![taskOf[v]] = v]
  /\ Emit(v, <<Ev("status", "PROVISIONING")>>)
  /\ UNCHANGED <<taskOf, streamVars, chunks, answerVars, workVars>>

\* A test command starts; how much it prints is up to it.
StartStream(v, to, before, st) ==
  /\ pc' = [pc EXCEPT ![v] = to]
  /\ \E n \in 0 .. MaxChunks : chunks' = [chunks EXCEPT ![v] = n]
  /\ Emit(v, before \o <<Ev("status", st)>>)

StartBase(v, before) ==
  StartStream(v, "base_stream", before, "RUNNING_BASE_TESTS")

StartPatchedAsBase(v, before) ==
  StartStream(v, "patched_stream", before, "RUNNING_BASE_TESTS")

StartPatched(v, before) ==
  StartStream(v, "patched_stream", before, "RUNNING_PATCHED_TESTS")

\* The pool gave a container: check out the base commit, if there is one.
Acquired(v) ==
  /\ pc[v] = "acquiring"
  /\ sandbox' = [sandbox EXCEPT ![v] = "held"]
  /\ \/ /\ pc' = [pc EXCEPT ![v] = "checkout"]
        /\ Emit(v, <<Ev("log", status[v]), Ev("log", status[v])>>)
        /\ UNCHANGED chunks
     \/ StartBase(v, <<Ev("log", status[v])>>)
  /\ UNCHANGED <<restVars, answerVars, outcome>>

\* acquire raised.  Nothing is held, so the run ends at once.
AcquireFailed(v) ==
  /\ Goto(v, "acquiring", "finished")
  /\ Emit(v, <<Ev("error", "FAILED"), Ev("done", "FAILED")>>)
  /\ Conclude(v, [status |-> "FAILED", resolved |-> FALSE, metrics |-> FALSE])
  /\ UNCHANGED <<restVars, chunks, workVars>>

\* git checkout came back; whatever its exit code, the baseline runs.
CheckedOut(v) ==
  /\ pc[v] = "checkout"
  /\ StartBase(v, <<>>)
  /\ UNCHANGED <<restVars, answerVars, workVars>>

AnyOutput(v) == TRUE

MoreOutput(v) == chunks[v] > 0

\* The next chunk of a streamed command is put on the queue.
Chunk(v) ==
  /\ pc[v] \in {"base_stream", "patched_stream"}
  /\ MoreOutput(v)
  /\ chunks' = [chunks EXCEPT ![v] = @ - 1]
  /\ Emit(v, <<Ev("log", status[v])>>)
  /\ UNCHANGED <<restVars, pc, answerVars, workVars>>

EndedAndRead(v) == chunks[v] = 0 /\ Queued(v) = <<>>

\* The streamed command is over, or its watchdog stopped listening.
Ended(v) == chunks[v] = 0

\* The same command is executed again for its exit code.
StreamOver(v) ==
  /\ Ended(v)
  /\ \/ Goto(v, "base_stream", "base_exec")
     \/ Goto(v, "patched_stream", "patched_exec")
  /\ UNCHANGED <<restVars, status, events, chunks, answerVars, workVars>>

\* The patch is refused: the verdict is out before the container goes back.
Reject(v, before) ==
  /\ pc' = [pc EXCEPT ![v] = "rejected"]
  /\ Emit(v, before \o <<Ev("error", "REJECTED_PATCH"),
                         Ev("done", "REJECTED_PATCH")>>)
  /\ Conclude(v, [status |-> "REJECTED_PATCH", resolved |-> FALSE,
                  metrics |-> FALSE])

\* The baseline's exit code is in, for compute_metrics alone; a patch that is no
\* diff is refused on the spot, any other one is written.
BaseExecuted(v) ==
  LET before == <<Ev("log", status[v]), Ev("status", "APPLYING_PATCH")>> IN
  /\ pc[v] = "base_exec"
  /\ \/ /\ pc' = [pc EXCEPT ![v] = "writing"]
        /\ Emit(v, before)
        /\ UNCHANGED answerVars
     \/ Reject(v, before)
  /\ UNCHANGED <<restVars, chunks, workVars>>

\* apply_patch_to_container: the patch is written, then tried, then applied.
PatchGoesOn(v) ==
  /\ Goto(v, "writing", "checking") \/ Goto(v, "checking", "applying")
  /\ UNCHANGED <<restVars, status, events, chunks, answerVars, workVars>>

\* Each of the three may fail, or run out of time.
PatchRefused(v) ==
  /\ pc[v] \in {"writing", "checking", "applying"}
  /\ Reject(v, <<>>)
  /\ UNCHANGED <<restVars, chunks, workVars>>

\* The patch is in and the patched command starts.
PatchApplied(v) ==
  /\ pc[v] = "applying"
  /\ outcome' = [outcome EXCEPT ![v].applied = TRUE]
  /\ StartPatched(v, <<Ev("log", status[v])>>)
  /\ UNCHANGED <<restVars, answerVars, sandbox>>

ResolvedAnyExit(exit) == BOOLEAN

\* compute_metrics: what the streamed output says decides, but a patched
\* command that failed is never resolved.
Resolved(exit) == IF exit = "0" THEN BOOLEAN ELSE {FALSE}

\* The patched exit code is in and the metrics are computed; the status event
\* that says so names no status.
PatchedExecuted(v) ==
  /\ Goto(v, "patched_exec", "releasing")
  /\ \E code \in ExitCodes : \E r \in Resolved(code) :
       outcome' = [outcome EXCEPT ![v].exit = code, ![v].resolved = r]
  /\ Emit(v, <<Ev("log", status[v]), Ev("status", status[v])>>)
  /\ UNCHANGED <<restVars, chunks, answerVars, sandbox>>

\* release returned: COMPLETED goes into the response, not into ctx.status.
Complete(v) ==
  /\ Goto(v, "releasing", "finished")
  /\ ReleaseSandbox(v)
  /\ Conclude(v, [status |-> "COMPLETED", resolved |-> outcome[v].resolved,
                  metrics |-> TRUE])
  /\ Emit(v, <<Ev("done", status[v])>>)
  /\ UNCHANGED <<restVars, chunks, outcome>>

\* The finally clause of a refused patch.
RejectedReleased(v) ==
  /\ Goto(v, "rejected", "finished")
  /\ ReleaseSandbox(v)
  /\ UNCHANGED <<restVars, status, events, chunks, answerVars, outcome>>
-----------------------------------------------------------------------------
(***************************************************************************)
(* Streams.  The keep-alive every 30 seconds changes nothing and is left    *)
(* out.                                                                     *)
(***************************************************************************)
Open(s) ==
  /\ conn[s] = "off" /\ ~stopping
  /\ \E t \in TaskIds :
       /\ registry[t] # None
       /\ reader' = [reader EXCEPT ![s] = registry[t]]
  /\ conn' = [conn EXCEPT ![s] = "open"]
  /\ UNCHANGED <<runVars, taken, stopping>>

LastIfCompleted(e, s) == e.type \in {"done", "error"} /\ s = "COMPLETED"

\* The condition under which the server ends a stream after an event.
Last(e, s) == e.type \in {"done", "error"} /\ s \in Terminal

MayTake(s) == conn[s] = "open" /\ Queued(reader[s]) # <<>>

\* A stream takes the next event; streams of one task share one queue.
Receive(s) ==
  LET v == reader[s] IN
  /\ MayTake(s)
  /\ taken' = [taken EXCEPT ![v] = @ + 1]
  /\ conn' = [conn EXCEPT ![s] =
                IF Last(Head(Queued(v)), status[v]) THEN "closed" ELSE @]
  /\ UNCHANGED <<runVars, reader, stopping>>

\* The client goes away, perhaps with an event that was on its way to it.
Disconnect(s) ==
  LET v == reader[s] IN
  /\ conn[s] = "open"
  /\ conn' = [conn EXCEPT ![s] = "gone"]
  /\ \/ UNCHANGED taken
     \/ /\ Queued(v) # <<>>
        /\ taken' = [taken EXCEPT ![v] = @ + 1]
  /\ UNCHANGED <<runVars, reader, stopping>>

\* The server takes no more requests; those it has go on.
Stop ==
  /\ ~stopping
  /\ stopping' = TRUE
  /\ UNCHANGED <<runVars, taken, conn, reader>>
-----------------------------------------------------------------------------
RunStep(v) ==
  \/ Acquired(v) \/ CheckedOut(v) \/ Chunk(v) \/ StreamOver(v)
  \/ BaseExecuted(v) \/ PatchGoesOn(v) \/ PatchRefused(v) \/ PatchApplied(v)
  \/ PatchedExecuted(v) \/ Complete(v) \/ RejectedReleased(v)

Next ==
  \/ \E v \in Evals :
       PostAsync(v) \/ Begin(v) \/ AcquireFailed(v) \/ RunStep(v)
  \/ \E s \in Streams : Open(s) \/ Receive(s) \/ Disconnect(s)
  \/ Stop

Spec == Init /\ [][Next]_vars

\* The event loop runs what is ready, a background run starts, the pool
\* answers an acquire (AcquireReturns of WarmPool) and a command of the
\* sandbox ends or is given up.  Clients need not do anything.
Fairness ==
  /\ \A v \in Evals :
       /\ WF_vars(RunStep(v) \/ AcquireFailed(v))
       /\ WF_vars(pc[v] = "queued" /\ Begin(v))
  /\ \A s \in Streams : WF_vars(Receive(s))

FairSpec == Spec /\ Fairness
-----------------------------------------------------------------------------
(***************************************************************************)
(* Properties.                                                              *)
(***************************************************************************)
TypeOK ==
  /\ registry \in [TaskIds -> Evals \cup {None}]
  /\ pc \in [Evals -> {"new", "queued", "acquiring", "checkout",
                       "base_stream", "base_exec", "writing", "checking",
                       "applying", "patched_stream", "patched_exec",
                       "releasing", "rejected", "finished"}]
  /\ taskOf \in [Evals -> TaskIds]
  /\ status \in [Evals -> EvalStatus]
  /\ response \in [Evals -> Verdict \cup {None}]
  /\ events \in [Evals -> Seq(Event)]
  /\ taken \in [Evals -> Nat]
  /\ chunks \in [Evals -> 0 .. MaxChunks]
  /\ sandbox \in [Evals -> {"none", "held", "released"}]
  /\ outcome \in [Evals -> Outcome]
  /\ evalTotal \in [Terminal \X BOOLEAN -> Nat]
  /\ conn \in [Streams -> {"off", "open", "closed", "gone"}]
  /\ reader \in [Streams -> Evals \cup {None}]
  /\ stopping \in BOOLEAN

\* What a verdict may say: a patch is resolved only if it was applied and its
\* tests passed, and only a run that got to the tests has metrics.
VerdictSound ==
  \A v \in Evals : response[v] # None =>
    /\ response[v].resolved => /\ response[v].status = "COMPLETED"
                               /\ outcome[v].applied
                               /\ outcome[v].exit = "0"
    /\ response[v].metrics <=> response[v].status = "COMPLETED"
    /\ response[v].status = "COMPLETED" => outcome[v].applied
    /\ response[v].status = "REJECTED_PATCH" => ~outcome[v].applied

\* Every run gives its container back, whichever way it ends, and never uses
\* one it gave back.
SandboxGivenBack ==
  \A v \in Evals :
    /\ pc[v] = "finished" => sandbox[v] # "held"
    /\ pc[v] \in {"checkout", "base_stream", "base_exec", "writing",
                  "checking", "applying", "patched_stream", "patched_exec"}
         => sandbox[v] = "held"

\* The queue announces the verdict exactly once, as its last event, and at any
\* suspension point a response exists exactly if it has been announced.
DoneOnce ==
  \A v \in Evals :
    LET dones == {i \in DOMAIN events[v] : events[v][i].type = "done"} IN
    dones = IF response[v] = None THEN {} ELSE {Len(events[v])}

\* EVAL_TOTAL counts every verdict given so far, once, under the labels of the
\* verdict, also when one evaluation takes over the task id of another.
CountersMatch ==
  \A l \in Terminal \X BOOLEAN :
    evalTotal[l] =
      Cardinality({v \in Evals : /\ response[v] # None
                                 /\ l = <<response[v].status,
                                          response[v].resolved>>})

\* What the status route answers for a task.
StatusOf(v) == IF response[v] # None THEN response[v].status ELSE status[v]

Rank(st) ==
  IF st \in Terminal THEN Len(StatusOrder) + 1
  ELSE CHOOSE i \in DOMAIN StatusOrder : StatusOrder[i] = st

\* A client that polls a task never sees it go back, nor a verdict change,
\* unless another request with the same id has taken the task over.
StatusForward ==
  [][\A t \in TaskIds :
       registry[t] # None /\ registry'[t] = registry[t] =>
         LET now  == StatusOf(registry[t])
             next == StatusOf(registry[t])' IN
         /\ Rank(now) <= Rank(next)
         /\ now \in Terminal => next = now]_vars

\* The server ends a stream only when the answer of the evaluation it reads is
\* there to be asked for: it never cuts off one that is still running.
ClosedMeansOver ==
  \A s \in Streams :
    conn[s] = "closed" => response[reader[s]] # None

\* A run that was started finishes, whoever listens or leaves.
EvalFinishes ==
  \A v \in Evals : pc[v] \notin {"new", "finished"} ~> pc[v] = "finished"

\* The clients that read an evaluation and whose stream is as the server sees it.
Readers(v, state) == {s \in Streams : reader[s] = v /\ conn[s] = state}

\* While an error waits and somebody listens, a stream is told of it and ended,
\* unless one more client leaves: a client that leaves may take the error along,
\* and one that leaves without it changes nothing for those that stay.
ErrorDelivered ==
  \A v \in Evals : \A left \in SUBSET Streams :
    LET Waiting == \E i \in DOMAIN Queued(v) : Queued(v)[i].type = "error" IN
    Waiting /\ Readers(v, "open") # {} /\ Readers(v, "gone") = left
      ~> Readers(v, "closed") # {} \/ Readers(v, "gone") # left

\* What a graceful stop waits for: the connections and the background runs.
Drained ==
  /\ \A v \in Evals : pc[v] \in {"new", "finished"}
  /\ \A s \in Streams : conn[s] # "open"

\* A stop gets to the end of the lifespan unless a stream is left open: its run
\* has answered, its queue is empty, and only its client can end it.
GracefulStop ==
  stopping ~> \/ Drained
              \/ \E s \in Streams : /\ conn[s] = "open"
                                   /\ response[reader[s]] # None
                                   /\ Queued(reader[s]) = <<>>
-----------------------------------------------------------------------------
\* README.md:138 shows the done event with the status of the verdict.
DoneCarriesVerdict ==
  \A v \in Evals : response[v] # None =>
    events[v][Len(events[v])].status = response[v].status
=============================================================================
