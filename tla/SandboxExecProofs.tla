--------------------------- MODULE SandboxExecProofs ---------------------------
(***************************************************************************)
(* Proofs about SandboxExec, for any number of runs, threads and commands.  *)
(***************************************************************************)
EXTENDS SandboxExec, QueueTheorems, FiniteSetTheorems, SequenceTheorems, TLAPS

(***************************************************************************)
(* The inductive invariant.                                                 *)
(***************************************************************************)
\* A job of a call with a limit that was given up: its run goes on with a mock,
\* or with other commands, or has removed the container.
Abandoned(j) ==
  \/ j.call.kind = "create" /\ pc[j.run] = "mocked"
  \/ /\ j.call.kind = "exec" /\ j.n >= left[j.run]
     /\ j.n > left[j.run] \/ pc[j.run] = "ready" \/ want[j.run].kind = "remove"

\* A job is in one place.
Placed ==
  /\ IsInjective(queue)
  /\ QueuedJobs \cap working = {}
  /\ over \cap (QueuedJobs \cup working) = {}

\* The job a run awaits is its own, and the one it wants.
Expected(r) ==
  /\ job[r] \in Job /\ job[r].run = r /\ job[r].n = left[r]
  /\ job[r].call.kind = "get" \/ job[r].call = want[r]

ExecInv ==
  /\ TypeOK
  /\ IsFiniteSet(working)
  /\ Placed
  /\ \A j \in QueuedJobs \cup over : Awaited(j)
  /\ \A j \in working : Awaited(j) \/ Abandoned(j)
  /\ \A r \in Runs : pc[r] = "out" => want[r] = Brief("create")
  /\ \A r \in Runs : pc[r] = "awaiting" => Expected(r)
  /\ \A r \in Runs : pc[r] \notin {"out", "awaiting"} => job[r] \in Job
  /\ \A r \in Runs : reader = r => pc[r] = "reading"

\* The queued jobs, before and after a step, in terms of the lemmas on queues.
LEMMA QueuedIsRange == QueuedJobs = Range(queue) /\ QueuedJobs' = Range(queue')
BY DEF QueuedJobs, ToSet, Range

(***************************************************************************)
(* The steps preserve types, and the number of busy threads is bounded.     *)
(***************************************************************************)
\* A submitted job is typed, and its run awaits it.
LEMMA SubmitType ==
  ASSUME TypeOK, NEW r \in Runs, NEW call \in Call, left'[r] \in 0 .. Commands,
         Submit(r, call)
  PROVE  /\ pc' \in [Runs -> {"out", "awaiting", "reading", "pausing", "ready",
                              "gone", "mocked"}]
         /\ job' \in [Runs -> Job \cup {None}]
         /\ queue' \in Seq(Job)
<1> DEFINE j == [run |-> r, call |-> call, n |-> left'[r]]
<1>1. j \in Job
  BY DEF Job
<1>2. Append(queue, j) \in Seq(Job)
  BY <1>1, AppendProperties DEF TypeOK
<1>3. QED  BY <1>1, <1>2 DEF Submit, TypeOK

\* Every call the code makes is one.
LEMMA CallTypes ==
  /\ \A kind \in Kinds : Brief(kind) \in Call
  /\ \A kind \in Kinds, does \in Behaviours :
       [kind |-> kind, does |-> does] \in Call
BY DEF Brief, Call, Behaviours

\* So is a job submitted on behalf of a caller that needs the container object.
LEMMA UseType ==
  ASSUME TypeOK, NEW r \in Runs, NEW call \in Call, left'[r] \in 0 .. Commands,
         Use(r, call)
  PROVE  /\ pc' \in [Runs -> {"out", "awaiting", "reading", "pausing", "ready",
                              "gone", "mocked"}]
         /\ job' \in [Runs -> Job \cup {None}]
         /\ queue' \in Seq(Job)
         /\ want' \in [Runs -> Call]
<1>1. "get" \in Kinds
  BY DEF Kinds
<1>2. (IF cached[r] THEN call ELSE Brief("get")) \in Call
  BY <1>1, CallTypes
<1>3. Submit(r, IF cached[r] THEN call ELSE Brief("get"))
  BY DEF Use
<1>4. want' \in [Runs -> Call]
  BY DEF Use, TypeOK
<1>5. QED  BY <1>2, <1>3, <1>4, SubmitType

\* A step gives at most one job a thread, and only when one is idle.
LEMMA ThreadsType ==
  ASSUME ExecInv, [Next]_vars
  PROVE  /\ IsFiniteSet(working') /\ working' \subseteq Job
         /\ Cardinality(working') <= Threads
<1>1. /\ IsFiniteSet(working) /\ working \subseteq Job
      /\ Cardinality(working) <= Threads /\ Cardinality(working) \in Nat
      /\ Threads \in Nat
  BY FS_CardinalityType, ExecAssumption DEF ExecInv, TypeOK
<1>2. CASE TakeJob
  <2>1. Head(queue) \in Job /\ working' = working \cup {Head(queue)}
    BY <1>2, HeadTailProperties, EmptySeq DEF TakeJob, ExecInv, TypeOK
  <2>2. Cardinality(working) < Threads
    BY <1>2 DEF TakeJob, HasThread
  <2>3. /\ IsFiniteSet(working')
        /\ \/ Cardinality(working') = Cardinality(working)
           \/ Cardinality(working') = Cardinality(working) + 1
    BY <1>1, <2>1, FS_AddElement
  <2>4. QED  BY <1>1, <2>1, <2>2, <2>3
<1>3. ASSUME NEW j \in working, EndJob(j)
      PROVE /\ IsFiniteSet(working') /\ working' \subseteq Job
            /\ Cardinality(working') <= Threads
  <2>1. working' = working \ {j}
    BY <1>3 DEF EndJob
  <2>2. /\ IsFiniteSet(working')
        /\ Cardinality(working') = Cardinality(working) - 1
    BY <1>1, <1>3, <2>1, FS_RemoveElement
  <2>3. QED  BY <1>1, <2>1, <2>2
<1>4. CASE working' = working
  BY <1>1, <1>4
<1>5. [Next]_vars => \/ TakeJob \/ (\E j \in working : EndJob(j))
                     \/ working' = working
  BY DEF Next, vars, LoopStep, Create, Issue, Terminate, Deliver, TimeOut,
         ReadOn, Chunk, StopReading, FallSilent
<1>6. QED  BY <1>2, <1>3, <1>4, <1>5

\* A time-out leaves a queue of jobs without the job given up.
LEMMA CancelListed ==
  ASSUME NEW j, queue \in Seq(Job), IsInjective(queue), Cancel(j)
  PROVE  /\ queue' \in Seq(Job) /\ IsInjective(queue')
         /\ QueuedJobs' = QueuedJobs \ {j}
<1>1. CASE j \in QueuedJobs
  <2>1. PICK i \in DOMAIN queue : queue[i] = j /\ queue' = RemoveAt(queue, i)
    BY <1>1 DEF Cancel
  <2>2. QED  BY <2>1, RemoveListed, QueuedIsRange
<1>2. CASE j \notin QueuedJobs
  BY <1>2 DEF Cancel, QueuedJobs
<1>3. QED  BY <1>1, <1>2

\* A command that falls silent is still the command of its job.
LEMMA SilentType ==
  ASSUME ExecInv, NEW r \in Runs, FallSilent(r)
  PROVE  job' \in [Runs -> Job \cup {None}] /\ job'[r] \in Job
<1>1. TypeOK /\ job[r] \in Job
  BY DEF FallSilent, ExecInv
<1>2. [job[r] EXCEPT !.call.does = "hangs"] \in Job
  BY <1>1 DEF Job, Call, Behaviours
<1>3. QED  BY <1>1, <1>2 DEF FallSilent, TypeOK

\* Every step preserves the type invariant.
LEMMA TypeStep ==
  ASSUME ExecInv, [Next]_vars
  PROVE  TypeOK'
<1> USE DEF loopVars
<1>0. /\ TypeOK /\ Placed
      /\ working' \subseteq Job /\ Cardinality(working') <= Threads
  BY ThreadsType DEF ExecInv
<1>1. CASE TakeJob
  <2>1. Tail(queue) \in Seq(Job)
    BY <1>0, <1>1, HeadTailProperties, EmptySeq DEF TakeJob, TypeOK
  <2>2. QED  BY <1>0, <1>1, <2>1 DEF TakeJob, TypeOK
<1>2. ASSUME NEW j \in working, EndJob(j) PROVE TypeOK'
  <2>1. j \in Job
    BY <1>0 DEF TypeOK
  <2>2. over' \subseteq Job
    BY <1>0, <1>2, <2>1 DEF EndJob, TypeOK
  <2>3. box' \in [Runs -> {"none", "running", "removed"}]
    BY <1>0, <1>2 DEF EndJob, TypeOK
  <2>4. QED  BY <1>0, <1>2, <2>2, <2>3 DEF EndJob, TypeOK
<1>3. ASSUME NEW r \in Runs, Create(r) PROVE TypeOK'
  <2>1. Brief("create") \in Call
    BY CallTypes DEF Kinds
  <2>2. left'[r] \in 0 .. Commands
    BY <1>0, <1>3 DEF Create, TypeOK
  <2>3. QED  BY <1>0, <1>3, <2>1, <2>2, SubmitType DEF Create, TypeOK
<1>4. ASSUME NEW r \in Runs, Issue(r) PROVE TypeOK'
  <2>1. left[r] \in 0 .. Commands /\ left[r] - 1 \in 0 .. Commands
    BY <1>0, <1>4, ExecAssumption DEF Issue, TypeOK
  <2>2. left' \in [Runs -> 0 .. Commands] /\ left'[r] \in 0 .. Commands
    BY <1>0, <1>4, <2>1 DEF Issue, TypeOK
  <2>3. PICK kind \in {"put", "exec", "start"}, does \in Behaviours :
          Use(r, IF kind = "put" THEN Brief(kind)
                 ELSE [kind |-> kind, does |-> does])
    BY <1>4 DEF Issue
  <2>4. (IF kind = "put" THEN Brief(kind) ELSE [kind |-> kind, does |-> does])
          \in Call
    BY <2>3, CallTypes DEF Kinds
  <2>5. QED  BY <1>0, <1>4, <2>2, <2>3, <2>4, UseType DEF Issue, TypeOK
<1>5. ASSUME NEW r \in Runs, Terminate(r) PROVE TypeOK'
  <2>1. Brief("remove") \in Call
    BY CallTypes DEF Kinds
  <2>2. left'[r] \in 0 .. Commands
    BY <1>0, <1>5 DEF Terminate, TypeOK
  <2>3. QED  BY <1>0, <1>5, <2>1, <2>2, UseType DEF Terminate, TypeOK
<1>6. ASSUME NEW r \in Runs, Deliver(r) PROVE TypeOK'
  <2>1. /\ over' \subseteq Job /\ UNCHANGED <<left, box, working, want>>
        /\ reader' \in Runs \cup {None}
        /\ cached' \in [Runs -> BOOLEAN]
    BY <1>0, <1>6 DEF Deliver, TypeOK
  <2>2. CASE Submit(r, want[r])
    <3>1. want[r] \in Call /\ left'[r] \in 0 .. Commands
      BY <1>0, <2>1 DEF TypeOK
    <3>2. QED  BY <1>0, <2>1, <2>2, <3>1, SubmitType DEF TypeOK
  <2>3. CASE /\ UNCHANGED <<job, queue>>
             /\ \E p \in {"reading", "ready", "gone", "mocked"} :
                  pc' = [pc EXCEPT ![r] = p]
    BY <1>0, <2>1, <2>3 DEF TypeOK
  <2>4. After(r) \in {"ready", "gone", "mocked"}
    BY DEF After
  <2>5. QED  BY <1>6, <2>2, <2>3, <2>4 DEF Deliver
<1>7. ASSUME NEW r \in Runs, TimeOut(r) PROVE TypeOK'
  <2>1. queue' \in Seq(Job)
    BY <1>0, <1>7, CancelListed DEF TimeOut, Placed, TypeOK
  <2>2. After(r) \in {"ready", "gone", "mocked"}
    BY DEF After
  <2>3. QED  BY <1>0, <1>7, <2>1, <2>2 DEF TimeOut, TypeOK
<1>8. ASSUME NEW r \in Runs, ReadOn(r) \/ Chunk(r) \/ StopReading(r)
      PROVE  TypeOK'
  BY <1>0, <1>8 DEF ReadOn, Chunk, StopReading, TypeOK
<1>9. ASSUME NEW r \in Runs, FallSilent(r) PROVE TypeOK'
  BY <1>0, <1>9, SilentType DEF FallSilent, TypeOK
<1>10. CASE UNCHANGED vars
  BY <1>0, <1>10 DEF vars, TypeOK
<1>11. QED
  BY <1>1, <1>2, <1>3, <1>4, <1>5, <1>6, <1>7, <1>8, <1>9, <1>10
  DEF Next, LoopStep

(***************************************************************************)
(* A step of one run.                                                       *)
(***************************************************************************)
\* The other runs keep their part of the state.
Alone(r) ==
  \A q \in Runs \ {r} :
    /\ pc'[q] = pc[q] /\ job'[q] = job[q]
    /\ want'[q] = want[q] /\ left'[q] = left[q]

\* No job of a run that awaits nothing is queued or over, and its jobs with a
\* thread were given up.
LEMMA IdleRun ==
  ASSUME ExecInv, NEW r \in Runs, pc[r] # "awaiting"
  PROVE  /\ \A j \in QueuedJobs \cup over : j.run # r
         /\ \A j \in working : j.run = r => Abandoned(j)
BY DEF ExecInv, Awaited

\* The same holds of the other jobs of a run whose result is on its way.
LEMMA AnsweredRun ==
  ASSUME ExecInv, NEW r \in Runs, pc[r] = "awaiting", job[r] \in over
  PROVE  /\ \A j \in QueuedJobs \cup (over \ {job[r]}) : j.run # r
         /\ \A j \in working : j.run = r => Abandoned(j)
BY DEF ExecInv, Awaited, Placed

\* A step of one run keeps the invariant when its own jobs keep it.
LEMMA StepOfRun ==
  ASSUME ExecInv, TypeOK', NEW r \in Runs, Alone(r), UNCHANGED working, Placed',
         \A j \in QueuedJobs' \cup over' :
           IF j.run = r THEN Awaited(j)' ELSE j \in QueuedJobs \cup over,
         \A j \in working : j.run = r => Awaited(j)' \/ Abandoned(j)',
         pc'[r] # "out",
         pc'[r] = "awaiting" => Expected(r)',
         pc'[r] # "awaiting" => job'[r] \in Job,
         reader' = r => pc'[r] = "reading",
         reader' \in {reader, r, None}
  PROVE  ExecInv'
<1>1. /\ None \notin Runs
      /\ \A j \in QueuedJobs \cup over \cup working : j \in Job /\ j.run \in Runs
  <2>1. QueuedJobs \subseteq Job
    BY ElementOfSeq, LenProperties DEF QueuedJobs, ToSet, ExecInv, TypeOK
  <2>2. QED  BY <2>1, ExecAssumption DEF ExecInv, TypeOK, Job
<1>2. ASSUME NEW j \in Job, j.run \in Runs, j.run # r
      PROVE  (Awaited(j)' <=> Awaited(j)) /\ (Abandoned(j)' <=> Abandoned(j))
  BY <1>2 DEF Alone, Awaited, Abandoned
<1>3. ASSUME NEW j \in QueuedJobs' \cup over' PROVE Awaited(j)'
  BY <1>1, <1>2, <1>3 DEF ExecInv
<1>4. ASSUME NEW j \in working' PROVE Awaited(j)' \/ Abandoned(j)'
  BY <1>1, <1>2, <1>4 DEF ExecInv
<1>5. ASSUME NEW q \in Runs, pc'[q] = "awaiting" PROVE Expected(q)'
  BY <1>5 DEF ExecInv, Alone, Expected
<1>6. ASSUME NEW q \in Runs, reader' = q PROVE pc'[q] = "reading"
  BY <1>1, <1>6 DEF ExecInv, Alone
<1>7. ASSUME NEW q \in Runs, pc'[q] = "out" PROVE want'[q] = Brief("create")
  BY <1>7 DEF ExecInv, Alone
<1>8. Brief("create")' = Brief("create") /\ Job' = Job
  BY DEF Brief, Job
<1>9. ASSUME NEW q \in Runs, pc'[q] \notin {"out", "awaiting"} PROVE job'[q] \in Job
  BY <1>9 DEF ExecInv, Alone
<1>10. QED  BY <1>3, <1>4, <1>5, <1>6, <1>7, <1>8, <1>9 DEF ExecInv

\* A run may submit a job when none of its jobs is queued or over, and none of
\* those with a thread can be mistaken for the new one.
LEMMA SubmitKeeps ==
  ASSUME ExecInv, TypeOK', NEW r \in Runs, NEW call, Submit(r, call), LoopFree,
         UNCHANGED <<working, reader>>, over' \subseteq over,
         \A q \in Runs \ {r} : want'[q] = want[q] /\ left'[q] = left[q],
         \A j \in QueuedJobs \cup over' : j.run # r,
         \A j \in working : j.run = r =>
           /\ j.call.kind = "exec" /\ j.n >= left'[r]
           /\ j.n > left'[r] \/ want'[r].kind = "remove",
         call.kind = "exec" => want'[r].kind # "remove",
         call.kind = "get" \/ call = want'[r]
  PROVE  ExecInv'
<1> DEFINE new == [run |-> r, call |-> call, n |-> left'[r]]
<1>1. /\ pc' = [pc EXCEPT ![r] = "awaiting"]
      /\ job' = [job EXCEPT ![r] = new]
      /\ queue' = Append(queue, new)
      /\ pc'[r] = "awaiting" /\ job'[r] = new
  BY DEF Submit, ExecInv, TypeOK
<1>2. PICK j0 \in Job : j0 = new
  <2>1. queue \in Seq(Job) /\ queue' \in Seq(Job)
    BY DEF ExecInv, TypeOK
  <2>2. /\ Len(queue') = Len(queue) + 1 /\ queue'[Len(queue) + 1] = new
        /\ Len(queue) \in Nat
    BY <1>1, <2>1, AppendProperties, LenProperties
  <2>3. Len(queue) + 1 \in 1 .. Len(queue')
    BY <2>2
  <2>4. new \in Job
    BY <2>1, <2>2, <2>3, ElementOfSeq
  <2>5. QED  BY <2>4
<1>3. j0.run = r /\ j0.call = call /\ j0.n = left'[r] /\ j0.n \in Nat
  <2>1. left'[r] \in Nat
    BY ExecAssumption DEF TypeOK
  <2>2. QED  BY <1>2, <2>1
<1>4. /\ queue' = Append(queue, j0)
      /\ pc'[r] = "awaiting" /\ job'[r] = j0
  BY <1>1, <1>2
<1> HIDE DEF new
<1>5. j0 \notin QueuedJobs \cup over' \cup working
  <2>1. j0 \notin QueuedJobs \cup over'
    BY <1>3
  <2>2. ASSUME j0 \in working PROVE FALSE
    BY <1>3, <2>2
  <2>3. QED  BY <2>1, <2>2
<1>6. IsInjective(queue') /\ QueuedJobs' = QueuedJobs \cup {j0}
  BY <1>2, <1>4, <1>5, AppendListed, QueuedIsRange DEF ExecInv, Placed, TypeOK
<1>7. Placed'
  BY <1>5, <1>6 DEF ExecInv, Placed
<1>8. Alone(r)
  BY <1>1 DEF Alone, ExecInv, TypeOK
<1>9. Awaited(j0)' /\ Expected(r)'
  BY <1>2, <1>3, <1>4 DEF Awaited, Expected
<1>10. ASSUME NEW j \in QueuedJobs' \cup over'
      PROVE  IF j.run = r THEN Awaited(j)' ELSE j \in QueuedJobs \cup over
  <2>1. CASE j = j0
    BY <1>3, <1>9, <2>1
  <2>2. CASE j # j0
    BY <1>6, <1>10, <2>2
  <2>3. QED  BY <2>1, <2>2
<1>11. \A j \in working : j.run = r => Awaited(j)' \/ Abandoned(j)'
  BY DEF Abandoned
<1>12. reader' = None /\ reader' # r
  BY ExecAssumption DEF LoopFree
<1>13. QED  BY <1>4, <1>7, <1>8, <1>9, <1>10, <1>11, <1>12, StepOfRun

\* So does a run that needs the container object.
LEMMA UseKeeps ==
  ASSUME ExecInv, TypeOK', NEW r \in Runs, NEW call, Use(r, call), LoopFree,
         UNCHANGED <<working, reader, over>>, pc[r] = "ready",
         \A q \in Runs \ {r} : left'[q] = left[q],
         left'[r] <= left[r],
         left'[r] < left[r] \/ call.kind = "remove",
         call.kind \in Kinds
  PROVE  ExecInv'
<1> DEFINE c0 == IF cached[r] THEN call ELSE Brief("get")
<1>1. Submit(r, c0) /\ want'[r] = call
      /\ \A q \in Runs \ {r} : want'[q] = want[q]
  BY DEF Use, ExecInv, TypeOK
<1>2. \A j \in working : j \in Job /\ j.n \in Nat
  BY ExecAssumption DEF ExecInv, TypeOK, Job
<1>3. left[r] \in Nat /\ left'[r] \in Nat
  BY ExecAssumption DEF ExecInv, TypeOK
<1>4. ASSUME NEW j \in working, j.run = r
      PROVE  /\ j.call.kind = "exec" /\ j.n >= left'[r]
             /\ j.n > left'[r] \/ want'[r].kind = "remove"
  <2>1. j.call.kind = "exec" /\ j.n >= left[r]
    BY <1>4, IdleRun DEF Abandoned
  <2>2. QED  BY <1>1, <1>2, <1>3, <1>4, <2>1
<1>5. /\ c0.kind = "exec" => want'[r].kind # "remove"
      /\ c0.kind = "get" \/ c0 = want'[r]
  BY <1>1 DEF Brief
<1>6. \A j \in QueuedJobs \cup over' : j.run # r
  BY IdleRun
<1> HIDE DEF c0
<1>7. QED  BY <1>1, <1>4, <1>5, <1>6, SubmitKeeps

(***************************************************************************)
(* The actions preserve the invariant.                                      *)
(***************************************************************************)
\* The executor's part: a job is taken, or done.
LEMMA ExecutorStep ==
  ASSUME ExecInv, TypeOK', IsFiniteSet(working'),
         TakeJob \/ \E j \in working : EndJob(j)
  PROVE  ExecInv'
<1> USE DEF loopVars
<1>1. CASE TakeJob
  <2>1. /\ Head(queue) \in QueuedJobs
        /\ IsInjective(Tail(queue)) /\ QueuedJobs' = QueuedJobs \ {Head(queue)}
    BY <1>1, TailListed, QueuedIsRange DEF TakeJob, ExecInv, TypeOK, Placed
  <2>2. Placed'
    BY <1>1, <2>1 DEF TakeJob, ExecInv, Placed
  <2>3. \A j : (Awaited(j)' <=> Awaited(j)) /\ (Abandoned(j)' <=> Abandoned(j))
    BY <1>1 DEF TakeJob, Awaited, Abandoned
  <2>4. \A r \in Runs : /\ pc'[r] = "out" => want'[r] = Brief("create")'
                        /\ pc'[r] = "awaiting" => Expected(r)'
                        /\ pc'[r] \notin {"out", "awaiting"} => job'[r] \in Job
                        /\ reader' = r => pc'[r] = "reading"
    BY <1>1 DEF TakeJob, ExecInv, Expected, Brief
  <2>5. QED  BY <1>1, <2>1, <2>2, <2>3, <2>4 DEF TakeJob, ExecInv
<1>2. ASSUME NEW j \in working, EndJob(j) PROVE ExecInv'
  <2>1. /\ QueuedJobs' = QueuedJobs /\ working' = working \ {j}
        /\ over' \subseteq over \cup {j} /\ (Awaited(j) \/ over' = over)
        /\ UNCHANGED <<loopVars, queue>>
    BY <1>2 DEF EndJob, QueuedJobs
  <2>2. Placed'
    BY <2>1 DEF ExecInv, Placed
  <2>3. \A i : (Awaited(i)' <=> Awaited(i)) /\ (Abandoned(i)' <=> Abandoned(i))
    BY <2>1 DEF Awaited, Abandoned
  <2>4. \A r \in Runs : /\ pc'[r] = "out" => want'[r] = Brief("create")'
                        /\ pc'[r] = "awaiting" => Expected(r)'
                        /\ pc'[r] \notin {"out", "awaiting"} => job'[r] \in Job
                        /\ reader' = r => pc'[r] = "reading"
    BY <2>1 DEF ExecInv, Expected, Brief
  <2>5. QED  BY <2>1, <2>2, <2>3, <2>4 DEF ExecInv
<1>3. QED  BY <1>1, <1>2

\* A run asks for a container, for a command, or for the end of its container.
LEMMA AskStep ==
  ASSUME ExecInv, TypeOK', NEW r \in Runs, Create(r) \/ Issue(r) \/ Terminate(r)
  PROVE  ExecInv'
<1>1. CASE Create(r)
  <2>1. /\ \A j \in QueuedJobs \cup over : j.run # r
        /\ \A j \in working : j.run = r =>
             /\ j.call.kind = "exec" /\ j.n >= left[r]
             /\ j.n > left[r] \/ want[r].kind = "remove"
    BY <1>1, IdleRun DEF Create, Abandoned
  <2>2. Brief("create").kind = "create"
    BY DEF Brief
  <2>3. Submit(r, Brief("create")) /\ LoopFree
        /\ UNCHANGED <<want, left, reader, working, over>>
    BY <1>1 DEF Create
  <2> DEFINE call == Brief("create")
  <2> HIDE DEF call
  <2>4. call.kind = "create" /\ Submit(r, call) /\ call = want'[r]
    BY <1>1, <2>2, <2>3 DEF call, Create, ExecInv
  <2>5. QED  BY <2>1, <2>3, <2>4, SubmitKeeps
<1>2. CASE Issue(r)
  <2>1. /\ left[r] \in Nat /\ left' = [left EXCEPT ![r] = @ - 1]
        /\ LoopFree /\ pc[r] = "ready"
        /\ UNCHANGED <<working, reader, over>>
    BY <1>2, ExecAssumption DEF Issue, ExecInv, TypeOK
  <2>2. /\ \A q \in Runs \ {r} : left'[q] = left[q]
        /\ left'[r] <= left[r] /\ left'[r] < left[r]
    BY <2>1 DEF ExecInv, TypeOK
  <2>3. PICK kind \in {"put", "exec", "start"}, does \in Behaviours :
          Use(r, IF kind = "put" THEN Brief(kind)
                 ELSE [kind |-> kind, does |-> does])
    BY <1>2 DEF Issue
  <2>4. PICK call : /\ call = IF kind = "put" THEN Brief(kind)
                              ELSE [kind |-> kind, does |-> does]
                    /\ Use(r, call)
    BY <2>3
  <2>5. call.kind \in Kinds
    BY <2>3, <2>4 DEF Kinds, Brief
  <2>6. QED  BY <2>1, <2>2, <2>4, <2>5, UseKeeps
<1>3. CASE Terminate(r)
  <2>1. left[r] \in Nat /\ UNCHANGED <<left, reader, working, over>>
        /\ LoopFree /\ pc[r] = "ready" /\ Use(r, Brief("remove"))
    BY <1>3, ExecAssumption DEF Terminate, ExecInv, TypeOK
  <2>2. PICK call : call.kind = "remove" /\ call.kind \in Kinds /\ Use(r, call)
    BY <2>1 DEF Brief, Kinds
  <2>3. QED  BY <2>1, <2>2, UseKeeps
<1>4. QED  BY <1>1, <1>2, <1>3

\* A run resumes without a new job, and none of its old ones is awaited.
LEMMA ResumeKeeps ==
  ASSUME ExecInv, TypeOK', NEW r \in Runs, NEW p,
         pc' = [pc EXCEPT ![r] = p], p \notin {"awaiting", "out"}, job[r] \in Job,
         UNCHANGED <<job, want, left, working>>, Placed',
         QueuedJobs' \subseteq QueuedJobs, over' \subseteq over,
         \A j \in QueuedJobs' \cup over' : j.run # r,
         \A j \in working : j.run = r => Abandoned(j)',
         reader' = r => p = "reading",
         reader' \in {reader, r, None}
  PROVE  ExecInv'
<1>1. Alone(r) /\ pc'[r] = p
  BY DEF Alone, ExecInv, TypeOK
<1>2. \A j \in QueuedJobs' \cup over' :
        IF j.run = r THEN Awaited(j)' ELSE j \in QueuedJobs \cup over
  OBVIOUS
<1>3. QED  BY <1>1, <1>2, StepOfRun

\* A result reaches its run.
LEMMA DeliverStep ==
  ASSUME ExecInv, TypeOK', NEW r \in Runs, Deliver(r)
  PROVE  ExecInv'
<1>1. /\ LoopFree /\ pc[r] = "awaiting" /\ job[r] \in over
      /\ over' = over \ {job[r]}
      /\ UNCHANGED <<left, box, working>>
  BY DEF Deliver
<1>2. /\ \A j \in QueuedJobs \cup over' : j.run # r
      /\ \A j \in working : j.run = r =>
           /\ j.call.kind = "exec" /\ j.n >= left[r]
           /\ j.n > left[r] \/ want[r].kind = "remove"
  BY <1>1, AnsweredRun DEF Abandoned
<1>3. CASE Submit(r, want[r]) /\ UNCHANGED <<want, reader>>
  <2>1. PICK call : call = want[r]
    OBVIOUS
  <2>2. call = want'[r] /\ Submit(r, call)
    BY <1>3, <2>1
  <2>3. call.kind = "exec" => want'[r].kind # "remove"
    BY <2>2
  <2>4. QED  BY <1>1, <1>2, <1>3, <2>2, <2>3, SubmitKeeps
<1>4. ASSUME NEW p \in {"reading", "ready", "gone", "mocked"},
             pc' = [pc EXCEPT ![r] = p], UNCHANGED <<job, want, queue>>,
             IF p = "reading" THEN reader' = r ELSE reader' = reader
      PROVE  ExecInv'
  <2>1. QueuedJobs' = QueuedJobs
    BY <1>4 DEF QueuedJobs
  <2>2. Placed'
    BY <1>1, <1>4, <2>1 DEF ExecInv, Placed
  <2>3. \A j \in working : j.run = r => Abandoned(j)'
    BY <1>1, <1>2, <1>4 DEF Abandoned
  <2>4. reader # r /\ job[r] \in Job
    BY <1>1, ExecAssumption DEF LoopFree, ExecInv, Expected
  <2>5. QED  BY <1>1, <1>2, <1>4, <2>1, <2>2, <2>3, <2>4, ResumeKeeps
<1>5. After(r) \in {"ready", "gone", "mocked"}
  BY DEF After
<1>6. QED  BY <1>3, <1>4, <1>5 DEF Deliver

\* A time-out leaves nothing of its job but a thread that may work on.
LEMMA TimeOutStep ==
  ASSUME ExecInv, TypeOK', NEW r \in Runs, TimeOut(r)
  PROVE  ExecInv'
<1>1. /\ LoopFree /\ pc[r] = "awaiting" /\ Timed(r)
      /\ pc' = [pc EXCEPT ![r] = After(r)] /\ Cancel(job[r])
      /\ over' = over \ {job[r]}
      /\ UNCHANGED <<job, want, left, reader, working>>
  BY DEF TimeOut
<1>2. IsInjective(queue') /\ QueuedJobs' = QueuedJobs \ {job[r]}
  BY <1>1, CancelListed DEF ExecInv, Placed, TypeOK
<1>3. Placed'
  BY <1>1, <1>2 DEF ExecInv, Placed
<1>4. \A j \in QueuedJobs' \cup over' : j.run # r
  BY <1>1, <1>2 DEF ExecInv, Awaited
<1>5. /\ After(r) \in {"ready", "gone", "mocked"} /\ pc'[r] = After(r)
      /\ reader' # r /\ job[r] \in Job
  <2>1. After(r) \in {"ready", "gone", "mocked"}
    BY DEF After
  <2>2. QED
    BY <1>1, <2>1, ExecAssumption DEF LoopFree, ExecInv, TypeOK, Expected
<1>6. ASSUME NEW j \in working, j.run = r PROVE Abandoned(j)'
  <2>1. CASE j = job[r]
    <3>1. /\ j.n = left[r] /\ left[r] \in Nat
          /\ j.call.kind \in {"create", "exec"}
          /\ j.call = want[r]
      BY <1>1, <2>1, ExecAssumption DEF ExecInv, TypeOK, Expected, Timed
    <3>2. CASE j.call.kind = "create"
      <4>1. After(r) = "mocked"
        BY <2>1, <3>1, <3>2 DEF After
      <4>2. QED  BY <1>5, <1>6, <3>2, <4>1 DEF Abandoned
    <3>3. CASE j.call.kind = "exec"
      <4>1. After(r) = "ready"
        BY <2>1, <3>1, <3>3 DEF After
      <4>2. j.n >= left'[r]
        BY <1>1, <3>1
      <4>3. QED  BY <1>5, <1>6, <3>3, <4>1, <4>2 DEF Abandoned
    <3>4. QED  BY <3>1, <3>2, <3>3
  <2>2. CASE j # job[r]
    <3>1. Abandoned(j)
      BY <1>6, <2>2 DEF ExecInv, Awaited
    <3>2. QED  BY <1>1, <1>6, <3>1 DEF Abandoned
  <2>3. QED  BY <2>1, <2>2
<1>7. QED
  BY <1>1, <1>2, <1>3, <1>4, <1>5, <1>6, ResumeKeeps

\* The loop over a stream.
LEMMA StreamStep ==
  ASSUME ExecInv, TypeOK', NEW r \in Runs, ReadOn(r) \/ Chunk(r) \/ StopReading(r)
  PROVE  ExecInv'
<1>1. /\ pc[r] \in {"pausing", "reading"} /\ job[r] \in Job
      /\ UNCHANGED <<job, want, left, queue, working, over>>
      /\ \E p \in {"reading", "pausing", "ready"} :
           /\ pc' = [pc EXCEPT ![r] = p]
           /\ reader' = IF p = "reading" THEN r ELSE None
  BY DEF ReadOn, Chunk, StopReading, ExecInv
<1>2. PICK p \in {"reading", "pausing", "ready"} :
        /\ pc' = [pc EXCEPT ![r] = p]
        /\ reader' = IF p = "reading" THEN r ELSE None
  BY <1>1
<1>3. QueuedJobs' = QueuedJobs
  BY <1>1 DEF QueuedJobs
<1>4. Placed'
  BY <1>1, <1>3 DEF ExecInv, Placed
<1>5. /\ \A j \in QueuedJobs' \cup over' : j.run # r
      /\ \A j \in working : j.run = r => Abandoned(j)
  BY <1>1, <1>3, IdleRun
<1>6. \A j \in working : j.run = r => Abandoned(j)'
  BY <1>1, <1>5 DEF Abandoned
<1>7. p \notin {"awaiting", "out"} /\ reader' \in {r, None}
      /\ reader' = r => p = "reading"
  BY <1>2, ExecAssumption
<1>8. QED  BY <1>1, <1>2, <1>3, <1>4, <1>5, <1>6, <1>7, ResumeKeeps

\* A streamed command falls silent: its job is awaited no more, so only the run
\* that reads it sees the difference.
LEMMA FallSilentStep ==
  ASSUME ExecInv, TypeOK', NEW r \in Runs, FallSilent(r)
  PROVE  ExecInv'
<1>1. /\ reader = r /\ pc[r] = "reading"
      /\ UNCHANGED <<pc, want, left, reader, queue, working, over>>
      /\ \A q \in Runs \ {r} : job'[q] = job[q]
  BY DEF FallSilent, ExecInv, TypeOK
<1>2. QueuedJobs' = QueuedJobs
  BY <1>1 DEF QueuedJobs
<1>3. Placed'
  BY <1>1, <1>2 DEF ExecInv, Placed
<1>4. /\ \A j \in QueuedJobs' \cup over' : j.run # r
      /\ \A j \in working : j.run = r => Abandoned(j)
  BY <1>1, <1>2, IdleRun
<1>5. \A j \in working : j.run = r => Abandoned(j)'
  BY <1>1, <1>4 DEF Abandoned
<1>6. Alone(r) /\ pc'[r] = "reading" /\ reader' = r /\ job'[r] \in Job
  BY <1>1, SilentType DEF Alone
<1>7. QED  BY <1>1, <1>2, <1>3, <1>4, <1>5, <1>6, StepOfRun

(***************************************************************************)
(* The theorems.                                                            *)
(***************************************************************************)
\* At the start no run has a job.
LEMMA ExecInvInit == Init => ExecInv
<1> SUFFICES ASSUME Init PROVE ExecInv
  OBVIOUS
<1>1. /\ queue = <<>> /\ working = {} /\ over = {} /\ reader = None
      /\ IsFiniteSet({}) /\ Cardinality({}) = 0
  BY FS_EmptySet DEF Init
<1>2. QueuedJobs = {} /\ IsInjective(queue) /\ queue \in Seq(Job)
  BY <1>1 DEF QueuedJobs, ToSet, IsInjective
<1>3. Brief("create") \in Call /\ Commands \in 0 .. Commands /\ Threads >= 0
  BY CallTypes, ExecAssumption DEF Kinds
<1>4. TypeOK
  BY <1>1, <1>2, <1>3 DEF Init, TypeOK
<1>5. QED  BY <1>1, <1>2, <1>4, ExecAssumption DEF Init, ExecInv, Placed

\* ExecInv is an invariant.
LEMMA ExecInvInvariant == Spec => []ExecInv
<1>1. ExecInv /\ [Next]_vars => ExecInv'
  <2> SUFFICES ASSUME ExecInv, [Next]_vars PROVE ExecInv'
    OBVIOUS
  <2>1. TypeOK' /\ IsFiniteSet(working')
    BY TypeStep, ThreadsType
  <2>2. CASE TakeJob \/ \E j \in working : EndJob(j)
    BY <2>1, <2>2, ExecutorStep
  <2>3. ASSUME NEW r \in Runs, LoopStep(r) \/ Chunk(r) \/ StopReading(r)
        PROVE  ExecInv'
    <3>1. CASE Create(r) \/ Issue(r) \/ Terminate(r)
      BY <2>1, <3>1, AskStep
    <3>2. CASE Deliver(r)
      BY <2>1, <3>2, DeliverStep
    <3>3. CASE TimeOut(r)
      BY <2>1, <3>3, TimeOutStep
    <3>4. CASE ReadOn(r) \/ Chunk(r) \/ StopReading(r)
      BY <2>1, <3>4, StreamStep
    <3>5. QED  BY <2>3, <3>1, <3>2, <3>3, <3>4 DEF LoopStep
  <2>4. ASSUME NEW r \in Runs, FallSilent(r) PROVE ExecInv'
    BY <2>1, <2>4, FallSilentStep
  <2>5. CASE UNCHANGED vars
    BY <2>5 DEF vars, loopVars, ExecInv, TypeOK, Placed, QueuedJobs, Awaited,
                Abandoned, Expected, Brief, Job
  <2>6. QED  BY <2>2, <2>3, <2>4, <2>5 DEF Next
<1>2. QED  BY ExecInvInit, <1>1, PTL DEF Spec

\* Type correctness: in particular, no more threads are busy than there are.
THEOREM ExecTypeCorrect == Spec => []TypeOK
BY ExecInvInvariant, PTL DEF ExecInv

\* The executor works for someone, whatever the numbers of runs, threads and
\* commands: a time-out leaves nothing in the queue, and the only thread without
\* an awaiting run is the one of the call with a limit that was given up.
THEOREM ExecThreadsAccounted == Spec => []ThreadsAccounted
<1>1. ExecInv => ThreadsAccounted
  BY DEF ExecInv, ThreadsAccounted, Abandoned
<1>2. QED  BY ExecInvInvariant, <1>1, PTL
=============================================================================
