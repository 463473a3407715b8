---------------------------- MODULE SandboxExec ----------------------------
(***************************************************************************)
(* Commands in Docker sandboxes: app/sandbox/container.py, and the start-up *)
(* of a container in app/sandbox/pool.py, over what they run on: one event  *)
(* loop, and the default executor of asyncio.to_thread with a fixed number  *)
(* of threads.                                                              *)
(*                                                                          *)
(* A run is one evaluation's use of one container: create it, execute       *)
(* commands, remove it.  Each of these awaits a job that needs a thread.    *)
(* wait_for may stop awaiting a job, but it cannot stop a thread.  The loop *)
(* over the chunks of a streamed command runs on the event loop itself.     *)
(***************************************************************************)
EXTENDS Naturals, FiniteSets, SequencesExt

CONSTANTS
  Runs,      \* uses of a container
  Threads,   \* threads of the default executor
  Commands,  \* bound: commands of one run
  None       \* no run

ASSUME ExecAssumption ==
  /\ Threads \in Nat \ {0}
  /\ Commands \in Nat
  /\ None \notin Runs

VARIABLES
  pc,      \* out; awaiting; reading a chunk; pausing after one; ready for the
           \* next command; gone (removed, or given up); mocked
  job,     \* the job a run submitted last
  want,    \* what the caller of get_raw_container does next
  left,    \* commands a run may still issue
  cached,  \* _container_obj is set
  box,     \* the container: none, running, removed
  queue,   \* jobs without a thread
  working, \* jobs with a thread
  over,    \* jobs whose result is on its way to the event loop
  reader   \* the run whose loop over a stream occupies the event loop

loopVars == <<pc, job, want, left, cached, reader>>
vars == <<loopVars, box, queue, working, over>>

Kinds == {"create", "get", "put", "exec", "start", "remove"}

\* A command ends by itself, prints for ever unless it falls silent, or hangs
\* without printing.  Any other call to the daemon ends.
Behaviours == {"ends", "prints", "hangs"}

Call == [kind : Kinds, does : Behaviours]

Job == [run : Runs, call : Call, n : 0 .. Commands]

Brief(kind) == [kind |-> kind, does |-> "ends"]

Init ==
  /\ pc = [r \in Runs |-> "out"]
  /\ job = [r \in Runs |-> None]
  /\ want = [r \in Runs |-> Brief("create")]
  /\ left = [r \in Runs |-> Commands]
  /\ cached = [r \in Runs |-> FALSE]
  /\ box = [r \in Runs |-> "none"]
  /\ queue = <<>> /\ working = {} /\ over = {}
  /\ reader = None
-----------------------------------------------------------------------------
(***************************************************************************)
(* The executor.                                                            *)
(***************************************************************************)
QueuedJobs == ToSet(queue)

\* asyncio.to_thread: the run awaits the job, which waits for a thread.
Submit(r, call) ==
  LET j == [run |-> r, call |-> call, n |-> left'[r]] IN
  /\ pc' = [pc EXCEPT ![r] = "awaiting"]
  /\ job' = [job EXCEPT ![r] = j]
  /\ queue' = Append(queue, j)

HasThreadOrOneMore == Cardinality(working) <= Threads

HasThread == Cardinality(working) < Threads

\* The oldest job gets a thread.
TakeJob ==
  /\ queue # <<>> /\ HasThread
  /\ working' = working \cup {Head(queue)}
  /\ queue' = Tail(queue)
  /\ UNCHANGED <<loopVars, box, over>>

EndsAlone(j) == j.call.does = "ends" \/ j.call.kind = "start"

\* A call returns when its command ends or its container is removed; starting
\* a stream does not wait for the command.
MayEnd(j) ==
  \/ j.call.does = "ends" \/ j.call.kind = "start"
  \/ box[j.run] = "removed"

\* A call that was not given up.
Awaited(j) == pc[j.run] = "awaiting" /\ job[j.run] = j

\* A thread has done its job; nobody gets the result of a job given up.  The
\* daemon may fail to remove a container.
EndJob(j) ==
  /\ j \in working /\ MayEnd(j)
  /\ working' = working \ {j}
  /\ over' = IF Awaited(j) THEN over \cup {j} ELSE over
  /\ \/ j.call.kind = "create" /\ box' = [box EXCEPT ![j.run] = "running"]
     \/ j.call.kind = "remove" /\ box' = [box EXCEPT ![j.run] = "removed"]
     \/ j.call.kind # "create" /\ UNCHANGED box
  /\ UNCHANGED <<loopVars, queue>>
-----------------------------------------------------------------------------
(***************************************************************************)
(* The event loop.  Between two steps of it nothing else runs, and while a  *)
(* run waits for the next chunk of a stream it runs nothing at all.         *)
(***************************************************************************)
LoopFree == reader = None

\* _create_container of the pool.
Create(r) ==
  /\ LoopFree /\ pc[r] = "out"
  /\ UNCHANGED <<want, left, cached, reader, box, working, over>>
  /\ Submit(r, Brief("create"))

\* The container object is looked up once and then cached.
Use(r, call) ==
  /\ want' = [want EXCEPT ![r] = call]
  /\ Submit(r, IF cached[r] THEN call ELSE Brief("get"))

\* write_file, exec_command or exec_command_stream.
Issue(r) ==
  /\ LoopFree /\ pc[r] = "ready" /\ left[r] > 0
  /\ left' = [left EXCEPT ![r] = @ - 1]
  /\ \E kind \in {"put", "exec", "start"}, does \in Behaviours :
       Use(r, IF kind = "put" THEN Brief(kind)
              ELSE [kind |-> kind, does |-> does])
  /\ UNCHANGED <<cached, reader, box, working, over>>

\* terminate.
Terminate(r) ==
  /\ LoopFree /\ pc[r] = "ready"
  /\ UNCHANGED <<left, cached, reader, box, working, over>>
  /\ Use(r, Brief("remove"))

\* Where a failed or abandoned call leaves its caller: a mock stands in for a
\* container that was not created, a failed removal is not repeated, and a
\* command that failed has an answer, too.
After(r) ==
  CASE job[r].call.kind = "create" -> "mocked"
    [] want[r].kind = "remove" -> "gone"
    [] OTHER -> "ready"

\* The result of a job reaches its run.
Deliver(r) ==
  LET kind == job[r].call.kind IN
  /\ LoopFree /\ pc[r] = "awaiting" /\ job[r] \in over
  /\ over' = over \ {job[r]}
  /\ UNCHANGED <<left, box, working>>
  /\ \/ /\ kind = "get"
        /\ cached' = [cached EXCEPT ![r] = TRUE]
        /\ Submit(r, want[r])
        /\ UNCHANGED <<want, reader>>
     \/ /\ kind = "start"
        /\ pc' = [pc EXCEPT ![r] = "reading"]
        /\ reader' = r
        /\ UNCHANGED <<job, want, cached, queue>>
     \/ /\ kind \notin {"get", "start"}
        /\ pc' = [pc EXCEPT ![r] = IF kind = "remove" THEN "gone" ELSE "ready"]
        /\ cached' = [cached EXCEPT ![r] = @ /\ kind # "remove"]
        /\ UNCHANGED <<job, want, reader, queue>>
     \/ /\ pc' = [pc EXCEPT ![r] = After(r)]
        /\ cached' = [cached EXCEPT ![r] = @ /\ want[r].kind # "remove"]
        /\ UNCHANGED <<job, want, reader, queue>>

TimedOnceTaken(r) ==
  job[r].call.kind \in {"create", "exec"} /\ job[r] \notin QueuedJobs

\* Only the start-up of a container and exec_command have a limit.
Timed(r) == job[r].call.kind \in {"create", "exec"}

LeaveQueued(j) == UNCHANGED queue

\* A job given up before it has a thread is never run.
Cancel(j) ==
  IF j \in QueuedJobs
  THEN \E i \in DOMAIN queue : queue[i] = j /\ queue' = RemoveAt(queue, i)
  ELSE UNCHANGED queue

\* wait_for gives up, perhaps on a result that is on its way: exit code 124,
\* or a mock container.
TimeOut(r) ==
  /\ LoopFree /\ pc[r] = "awaiting" /\ Timed(r)
  /\ pc' = [pc EXCEPT ![r] = After(r)]
  /\ Cancel(job[r])
  /\ over' = over \ {job[r]}
  /\ UNCHANGED <<job, want, left, cached, reader, box, working>>

\* The next chunk has come; the sleep after it lets others run.
Chunk(r) ==
  /\ reader = r /\ job[r].call.does # "hangs"
  /\ pc' = [pc EXCEPT ![r] = "pausing"]
  /\ reader' = None
  /\ UNCHANGED <<job, want, left, cached, box, queue, working, over>>

\* A command that has printed prints no more: the loop waits for a chunk that
\* never comes.
FallSilent(r) ==
  /\ reader = r /\ job[r].call.does = "prints"
  /\ job' = [job EXCEPT ![r].call.does = "hangs"]
  /\ UNCHANGED <<pc, want, left, cached, reader, box, queue, working, over>>

ReadOn(r) ==
  /\ LoopFree /\ pc[r] = "pausing"
  /\ pc' = [pc EXCEPT ![r] = "reading"]
  /\ reader' = r
  /\ UNCHANGED <<job, want, left, cached, box, queue, working, over>>

NoWatchdog(r) == job[r].call.does = "ends"

\* The watchdog is read when a chunk comes.
Watchdog(r) == job[r].call.does # "hangs"

\* The stream is at its end, or over its limit.
StopReading(r) ==
  /\ reader = r /\ Watchdog(r)
  /\ pc' = [pc EXCEPT ![r] = "ready"]
  /\ reader' = None
  /\ UNCHANGED <<job, want, left, cached, box, queue, working, over>>
-----------------------------------------------------------------------------
LoopStep(r) ==
  Create(r) \/ Issue(r) \/ Terminate(r) \/ Deliver(r) \/ TimeOut(r) \/ ReadOn(r)

Next ==
  \/ TakeJob
  \/ \E j \in working : EndJob(j)
  \/ \E r \in Runs : LoopStep(r) \/ Chunk(r) \/ StopReading(r) \/ FallSilent(r)

Spec == Init /\ [][Next]_vars

\* Threads take and do their jobs, the event loop runs what is ready whenever
\* it is free, and a stream that prints ends or reaches its limit.
FairSpec ==
  /\ Spec
  /\ WF_vars(TakeJob)
  /\ WF_vars(\E j \in working : EndJob(j))
  /\ \A r \in Runs :
       SF_vars(LoopStep(r)) /\ WF_vars(Chunk(r)) /\ SF_vars(StopReading(r))
-----------------------------------------------------------------------------
(***************************************************************************)
(* Properties.                                                              *)
(***************************************************************************)
TypeOK ==
  /\ pc \in [Runs -> {"out", "awaiting", "reading", "pausing", "ready", "gone",
                      "mocked"}]
  /\ job \in [Runs -> Job \cup {None}]
  /\ want \in [Runs -> Call]
  /\ left \in [Runs -> 0 .. Commands]
  /\ cached \in [Runs -> BOOLEAN]
  /\ box \in [Runs -> {"none", "running", "removed"}]
  /\ queue \in Seq(Job) /\ over \subseteq Job
  /\ working \subseteq Job /\ Cardinality(working) <= Threads
  /\ reader \in Runs \cup {None}

\* The executor works for someone: what waits for a thread or has a result is
\* awaited, and a thread nobody awaits works for a call with a limit that was
\* given up.  A time-out that left its job in the queue would run a command
\* behind the back of its caller, perhaps after the patch was applied.
ThreadsAccounted ==
  /\ \A j \in QueuedJobs \cup over : Awaited(j)
  /\ \A j \in working : Awaited(j) \/ j.call.kind \in {"create", "exec"}

\* A silent command that is being streamed occupies the event loop.
Silent == reader # None /\ job[reader].call.does = "hangs"

\* Every thread works for a command that only the removal of its container
\* could end.
Starved ==
  Cardinality({j \in working : /\ j.call.kind = "exec" /\ j.call.does # "ends"
                               /\ box[j.run] # "removed"}) = Threads

\* exec_command answers within its limit, even when it gets no thread, once it
\* has the container object, unless the event loop is occupied.
ExecAnswered ==
  \A r \in Runs :
    LET Executing == pc[r] = "awaiting" /\ job[r].call.kind = "exec" IN
    Executing ~> (~Executing \/ Silent)

\* A streamed command that prints is given up by the watchdog at the latest.
StreamEnds ==
  \A r \in Runs :
    pc[r] \in {"reading", "pausing"} ~> (pc[r] = "ready" \/ Silent)

\* Every call returns, with or without a limit of its own, as long as one
\* thread is left that does not work for a command without end: the removal of
\* a container gives back the threads of the commands that were given up.
CallReturns ==
  \A r \in Runs :
    pc[r] = "awaiting" ~> (pc[r] # "awaiting" \/ Silent \/ Starved)
=============================================================================
