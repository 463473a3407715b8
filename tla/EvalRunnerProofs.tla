-------------------------- MODULE EvalRunnerProofs --------------------------
(***************************************************************************)
(* Theorems about EvalRunner, for any evaluations, task ids and streams.    *)
(***************************************************************************)
EXTENDS EvalRunner, SequenceTheorems, FiniteSetTheorems, TLAPS

\* The steps between the answer of acquire and the end of the patched tests.
Before == {"checkout", "base_stream", "base_exec", "writing", "checking",
           "applying"}
After  == {"patched_stream", "patched_exec"}

RunType ==
  /\ pc \in [Evals -> {"new", "queued", "acquiring"} \cup Before \cup After
                      \cup {"releasing", "rejected", "finished"}]
  /\ response \in [Evals -> Verdict \cup {None}]
  /\ sandbox \in [Evals -> {"none", "held", "released"}]
  /\ outcome \in [Evals -> Outcome]

\* What an evaluation has, has found and has answered, by where it is.  At
\* release the outcome is final; the verdict repeats it.
Progress(v) ==
  /\ pc[v] \in {"new", "queued", "acquiring"} => sandbox[v] = "none"
  /\ pc[v] \in Before \cup After \cup {"releasing", "rejected"} =>
       sandbox[v] = "held"
  /\ pc[v] = "finished" => sandbox[v] # "held"
  /\ pc[v] \notin {"rejected", "finished"} => response[v] = None
  /\ pc[v] \in {"new", "queued", "acquiring", "rejected"} \cup Before =>
       ~outcome[v].applied
  /\ pc[v] \in After \cup {"releasing"} => outcome[v].applied
  /\ outcome[v].resolved => outcome[v].exit = "0"
  /\ pc[v] = "rejected" =>
       response[v] = [status |-> "REJECTED_PATCH", resolved |-> FALSE,
                      metrics |-> FALSE]
  /\ pc[v] = "finished" =>
       \/ /\ outcome[v].applied
          /\ response[v] = [status |-> "COMPLETED",
                            resolved |-> outcome[v].resolved,
                            metrics |-> TRUE]
       \/ /\ ~outcome[v].applied
          /\ \E st \in {"FAILED", "REJECTED_PATCH"} :
               response[v] = [status |-> st, resolved |-> FALSE,
                              metrics |-> FALSE]

RunInv == RunType /\ \A v \in Evals : Progress(v)
-----------------------------------------------------------------------------
\* Nothing has begun, nothing is held and nothing is answered.
LEMMA RunInit == Init => RunInv
<1>1. [applied |-> FALSE, exit |-> None, resolved |-> FALSE] \in Outcome
  BY DEF Outcome
<1>2. QED  BY <1>1 DEF Init, RunInv, RunType, Progress, Before, After

\* The steps from the request to the end of the baseline tests.
LEMMA BaselineKeeps ==
  ASSUME RunInv, NEW v \in Evals,
         \/ PostAsync(v) \/ Begin(v) \/ Acquired(v) \/ CheckedOut(v)
         \/ Chunk(v) \/ StreamOver(v)
  PROVE  RunInv'
<1>1. CASE PostAsync(v)
  BY <1>1 DEF PostAsync, Goto, answerVars, workVars, RunInv, RunType, Progress, Before, After
<1>2. CASE Begin(v)
  BY <1>2 DEF Begin, answerVars, workVars, RunInv, RunType, Progress, Before,
              After
<1>3. CASE Acquired(v)
  <2>1. /\ pc[v] = "acquiring"
        /\ \/ pc' = [pc EXCEPT ![v] = "checkout"]
           \/ pc' = [pc EXCEPT ![v] = "base_stream"]
        /\ sandbox' = [sandbox EXCEPT ![v] = "held"]
        /\ UNCHANGED <<response, outcome>>
    BY <1>3 DEF Acquired, StartBase, StartStream, answerVars
  <2>2. QED  BY <2>1 DEF RunInv, RunType, Progress, Before, After
<1>4. CASE CheckedOut(v)
  <2>1. /\ pc[v] = "checkout" /\ pc' = [pc EXCEPT ![v] = "base_stream"]
        /\ UNCHANGED <<response, sandbox, outcome>>
    BY <1>4 DEF CheckedOut, StartBase, StartStream, answerVars, workVars
  <2>2. QED  BY <2>1 DEF RunInv, RunType, Progress, Before, After
<1>5. CASE Chunk(v)
  BY <1>5 DEF Chunk, answerVars, workVars, RunInv, RunType, Progress
<1>6. CASE StreamOver(v)
  BY <1>6 DEF StreamOver, Goto, answerVars, workVars, RunInv, RunType, Progress,
              Before, After
<1>7. QED  BY <1>1, <1>2, <1>3, <1>4, <1>5, <1>6

\* What a refused patch does to the variables the invariant speaks of.
LEMMA RejectKeeps ==
  ASSUME RunInv, NEW v \in Evals, pc[v] \in Before,
         pc' = [pc EXCEPT ![v] = "rejected"],
         response' = [response EXCEPT ![v] =
                        [status |-> "REJECTED_PATCH", resolved |-> FALSE,
                         metrics |-> FALSE]],
         UNCHANGED <<sandbox, outcome>>
  PROVE  RunInv'
<1>1. [status |-> "REJECTED_PATCH", resolved |-> FALSE, metrics |-> FALSE]
        \in Verdict
  BY DEF Verdict, Terminal
<1>2. RunType'
  BY <1>1 DEF RunInv, RunType
<1>3. \A w \in Evals : Progress(w)'
  BY DEF RunInv, RunType, Progress, Before, After
<1>4. QED  BY <1>2, <1>3 DEF RunInv

\* The steps that try the patch.
LEMMA PatchKeeps ==
  ASSUME RunInv, NEW v \in Evals,
         \/ BaseExecuted(v) \/ PatchGoesOn(v)
         \/ PatchRefused(v) \/ PatchApplied(v)
  PROVE  RunInv'
<1>1. CASE BaseExecuted(v)
  <2>1. CASE pc' = [pc EXCEPT ![v] = "writing"] /\ UNCHANGED response
    BY <1>1, <2>1 DEF BaseExecuted, workVars, RunInv, RunType, Progress, Before,
                      After
  <2>2. CASE /\ pc' = [pc EXCEPT ![v] = "rejected"]
             /\ response' = [response EXCEPT ![v] =
                               [status |-> "REJECTED_PATCH",
                                resolved |-> FALSE, metrics |-> FALSE]]
    BY <1>1, <2>2, RejectKeeps DEF BaseExecuted, workVars, Before
  <2>3. QED  BY <1>1, <2>1, <2>2 DEF BaseExecuted, Reject, Conclude, answerVars
<1>2. CASE PatchRefused(v)
  BY <1>2, RejectKeeps DEF PatchRefused, Reject, Conclude, workVars, Before
<1>3. CASE PatchApplied(v)
  <2>1. /\ pc[v] = "applying"
        /\ pc' = [pc EXCEPT ![v] = "patched_stream"]
        /\ outcome' = [outcome EXCEPT ![v].applied = TRUE]
        /\ UNCHANGED <<response, sandbox>>
    BY <1>3 DEF PatchApplied, StartPatched, StartStream, answerVars
  <2>2. RunType'
    BY <2>1 DEF RunInv, RunType, Outcome, After
  <2>3. \A w \in Evals : Progress(w)'
    BY <2>1 DEF RunInv, RunType, Progress, Outcome, Before, After
  <2>4. QED  BY <2>2, <2>3 DEF RunInv
<1>4. CASE PatchGoesOn(v)
  BY <1>4 DEF PatchGoesOn, Goto, answerVars, workVars, RunInv, RunType, Progress,
              Before, After
<1>5. QED  BY <1>1, <1>2, <1>3, <1>4

\* The patched exit code decides the outcome.
LEMMA PatchedKeeps ==
  ASSUME RunInv, NEW v \in Evals, PatchedExecuted(v)
  PROVE  RunInv'
<1>1. PICK code \in ExitCodes, r \in BOOLEAN :
        /\ r => code = "0"
        /\ outcome' = [outcome EXCEPT ![v].exit = code, ![v].resolved = r]
  BY DEF PatchedExecuted, Resolved
<1>2. /\ pc[v] = "patched_exec" /\ pc' = [pc EXCEPT ![v] = "releasing"]
      /\ UNCHANGED <<response, sandbox>>
  BY DEF PatchedExecuted, Goto, answerVars
<1>3. /\ outcome'[v].exit = code /\ outcome'[v].resolved = r
      /\ outcome'[v].applied = outcome[v].applied
      /\ outcome' \in [Evals -> Outcome]
      /\ \A w \in Evals \ {v} : outcome'[w] = outcome[w]
  BY <1>1 DEF RunInv, RunType, Outcome
<1>4. RunType'
  BY <1>2, <1>3 DEF RunInv, RunType
<1>5. \A w \in Evals : Progress(w)'
  BY <1>1, <1>2, <1>3 DEF RunInv, RunType, Progress, Before, After
<1>6. QED  BY <1>4, <1>5 DEF RunInv

\* The three ways a run ends.
LEMMA EndKeeps ==
  ASSUME RunInv, NEW v \in Evals,
         AcquireFailed(v) \/ Complete(v) \/ RejectedReleased(v)
  PROVE  RunInv'
<1>1. CASE AcquireFailed(v)
  <2>1. [status |-> "FAILED", resolved |-> FALSE, metrics |-> FALSE] \in Verdict
    BY DEF Verdict, Terminal
  <2>2. RunType'
    BY <1>1, <2>1 DEF AcquireFailed, workVars, Goto, Conclude, RunInv, RunType
  <2>3. \A w \in Evals : Progress(w)'
    BY <1>1 DEF AcquireFailed, workVars, Goto, Conclude, RunInv, RunType, Progress,
                Before, After
  <2>4. QED  BY <2>2, <2>3 DEF RunInv
<1>2. CASE Complete(v)
  <2>1. [status |-> "COMPLETED", resolved |-> outcome[v].resolved,
         metrics |-> TRUE] \in Verdict
    BY DEF Verdict, Terminal, RunInv, RunType, Outcome
  <2>2. RunType'
    BY <1>2, <2>1 DEF Complete, Goto, Conclude, ReleaseSandbox, RunInv,
                     RunType
  <2>3. /\ pc[v] = "releasing" /\ pc'[v] = "finished" /\ sandbox'[v] = "released"
        /\ response'[v] = [status |-> "COMPLETED",
                           resolved |-> outcome[v].resolved, metrics |-> TRUE]
        /\ \A w \in Evals \ {v} : /\ pc'[w] = pc[w] /\ sandbox'[w] = sandbox[w]
                                  /\ response'[w] = response[w]
        /\ outcome' = outcome
    BY <1>2 DEF Complete, Goto, Conclude, ReleaseSandbox, RunInv, RunType
  <2>4. Progress(v)'
    BY <2>3 DEF RunInv, Progress, Before, After
  <2>5. ASSUME NEW w \in Evals \ {v} PROVE Progress(w)'
    BY <2>3 DEF RunInv, Progress
  <2>6. QED  BY <2>2, <2>4, <2>5 DEF RunInv
<1>3. CASE RejectedReleased(v)
  <2>1. RunType'
    BY <1>3 DEF RejectedReleased, Goto, ReleaseSandbox, answerVars, RunInv,
                RunType
  <2>2. \A w \in Evals : Progress(w)'
    BY <1>3 DEF RejectedReleased, Goto, ReleaseSandbox, answerVars, RunInv,
                RunType, Progress, Before, After
  <2>3. QED  BY <2>1, <2>2 DEF RunInv
<1>4. QED  BY <1>1, <1>2, <1>3

\* Streams read and the stop only refuses; only evaluations move.
LEMMA RunStepKeeps == RunInv /\ [Next]_vars => RunInv'
<1> SUFFICES ASSUME RunInv, [Next]_vars PROVE RunInv'
  OBVIOUS
<1>1. CASE \E v \in Evals :
             PostAsync(v) \/ Begin(v) \/ AcquireFailed(v) \/ RunStep(v)
  BY <1>1, BaselineKeeps, PatchKeeps, PatchedKeeps, EndKeeps DEF RunStep
<1>2. CASE \/ \E s \in Streams : Open(s) \/ Receive(s) \/ Disconnect(s)
           \/ Stop
  <2>1. UNCHANGED <<pc, response, sandbox, outcome>>
    BY <1>2 DEF Open, Receive, Disconnect, Stop, runVars, answerVars, workVars
  <2>2. QED  BY <2>1 DEF RunInv, RunType, Progress
<1>3. CASE UNCHANGED vars
  BY <1>3 DEF vars, runVars, answerVars, workVars, RunInv, RunType, Progress
<1>4. QED  BY <1>1, <1>2, <1>3 DEF Next

\* The inductive invariant of a run holds in every behaviour.
LEMMA RunInvariant == Spec => []RunInv
  BY RunInit, RunStepKeeps, PTL DEF Spec
-----------------------------------------------------------------------------
\* Every verdict is backed by what the run found: a resolved one by an applied
\* patch and a successful patched command.
THEOREM VerdictsAreSound == Spec => []VerdictSound
<1>1. RunInv => VerdictSound
  BY DEF RunInv, RunType, Progress, VerdictSound, Verdict, Outcome, Before,
         After
<1>2. QED  BY <1>1, RunInvariant, PTL

\* Whichever way a run ends, it holds no container afterwards, and it holds one
\* as long as it uses it.
THEOREM SandboxesComeBack == Spec => []SandboxGivenBack
<1>1. RunInv => SandboxGivenBack
  BY DEF RunInv, Progress, SandboxGivenBack, Before, After
<1>2. QED  BY <1>1, RunInvariant, PTL
-----------------------------------------------------------------------------
(***************************************************************************)
(* What a run tells: the status it shows, the events it emits and the       *)
(* verdict it gives.  Every step of a run is silent, speaks without a       *)
(* verdict, or gives the verdict and the done event together.               *)
(***************************************************************************)
\* How far a run is, as an index of StatusOrder.
Phase(p) ==
  CASE p \in {"new", "queued"} -> 1
    [] p \in {"acquiring", "checkout"} -> 2
    [] p \in {"base_stream", "base_exec"} -> 3
    [] p \in {"writing", "checking", "applying"} -> 4
    [] OTHER -> 5

Over(p) == p \in {"rejected", "finished"}

Quiet(evs) == \A i \in 1 .. Len(evs) : evs[i].type # "done"

Announces(evs) ==
  /\ evs # <<>>
  /\ \A i \in 1 .. Len(evs) : evs[i].type = "done" <=> i = Len(evs)

\* A step that emits events, no done among them, and leaves the status st;
\* and one that emits a done as the last of its events.
Tells(v, st) ==
  \E evs \in Seq(Event) :
    evs # <<>> /\ Quiet(evs) /\ evs[Len(evs)].status = st /\ Emit(v, evs)

TellsEnd(v) == \E evs \in Seq(Event) : Announces(evs) /\ Emit(v, evs)

Silent(v) ==
  /\ \/ ~Over(pc[v]) /\ ~Over(pc'[v]) /\ Phase(pc'[v]) = Phase(pc[v])
     \/ Over(pc[v]) /\ Over(pc'[v])
  /\ UNCHANGED <<status, events, response, evalTotal>>

Speaks(v) ==
  /\ ~Over(pc[v]) /\ ~Over(pc'[v]) /\ Phase(pc[v]) <= Phase(pc'[v])
  /\ Tells(v, StatusOrder[Phase(pc'[v])])
  /\ UNCHANGED <<response, evalTotal>>

Decides(v) ==
  /\ ~Over(pc[v]) /\ Over(pc'[v])
  /\ TellsEnd(v)
  /\ \E verdict \in Verdict : Conclude(v, verdict)

Moves(v) ==
  /\ pc' = [pc EXCEPT ![v] = pc'[v]]
  /\ Silent(v) \/ Speaks(v) \/ Decides(v)

\* Until the verdict a run shows the status of its phase and its queue has no
\* done event; afterwards the last event is the only one.
Told(v) ==
  /\ ~Over(pc[v]) => status[v] = StatusOrder[Phase(pc[v])] /\ Quiet(events[v])
  /\ Over(pc[v]) => Announces(events[v])

TalkType ==
  /\ status \in [Evals -> EvalStatus]
  /\ events \in [Evals -> Seq(Event)]
  /\ evalTotal \in [Terminal \X BOOLEAN -> Nat]

TalkInv == TalkType /\ \A v \in Evals : Told(v)

\* A phase is one of the five statuses that are not terminal.
LEMMA PhaseStatus ==
  ASSUME NEW p
  PROVE  /\ Phase(p) \in 1 .. 5
         /\ StatusOrder[Phase(p)] \in EvalStatus \ Terminal
<1>1. Phase(p) \in 1 .. 5
  BY DEF Phase
<1>2. DOMAIN StatusOrder = 1 .. 5
  BY DEF StatusOrder
<1>3. \A k \in 1 .. 5 : StatusOrder[k] \notin Terminal
  BY DEF StatusOrder, Terminal
<1>4. QED  BY <1>1, <1>2, <1>3 DEF EvalStatus

\* The rank of a status is its place in the order.
LEMMA RankOfPhase ==
  ASSUME NEW k \in 1 .. 5
  PROVE  Rank(StatusOrder[k]) = k
<1>1. StatusOrder[k] \notin Terminal
  BY DEF StatusOrder, Terminal
<1>2. DOMAIN StatusOrder = 1 .. 5
  BY DEF StatusOrder
<1>3. \A i \in 1 .. 5 : StatusOrder[i] = StatusOrder[k] => i = k
  BY DEF StatusOrder
<1>4. QED  BY <1>1, <1>2, <1>3 DEF Rank

\* An answer is there exactly when the run is over.
LEMMA OverMeansAnswer ==
  ASSUME RunInv, NEW v \in Evals
  PROVE  response[v] # None <=> Over(pc[v])
<1>1. Over(pc[v]) => response[v] \in Verdict
  <2>1. \A st \in Terminal, r \in BOOLEAN, m \in BOOLEAN :
          [status |-> st, resolved |-> r, metrics |-> m] \in Verdict
    BY DEF Verdict
  <2>2. outcome[v].resolved \in BOOLEAN
    BY DEF RunInv, RunType, Outcome
  <2>3. {"COMPLETED", "FAILED", "REJECTED_PATCH"} \subseteq Terminal
    BY DEF Terminal
  <2>4. \/ ~Over(pc[v])
        \/ \E st \in {"FAILED", "REJECTED_PATCH"} :
             response[v] = [status |-> st, resolved |-> FALSE, metrics |-> FALSE]
        \/ response[v] = [status |-> "COMPLETED",
                          resolved |-> outcome[v].resolved, metrics |-> TRUE]
    BY DEF RunInv, Progress, Over
  <2>5. QED  BY <2>1, <2>2, <2>3, <2>4
<1>2. Over(pc[v]) => response[v] # None
  BY <1>1, EvalAssumption
<1>3. ~Over(pc[v]) => response[v] = None
  BY DEF RunInv, Progress, Over
<1>4. QED  BY <1>2, <1>3

\* One event, and an event after some others.
LEMMA OneEvent ==
  ASSUME NEW t \in {"status", "log", "error", "done"}, NEW st \in EvalStatus
  PROVE  /\ <<Ev(t, st)>> \in Seq(Event)
         /\ Len(<<Ev(t, st)>>) = 1
         /\ <<Ev(t, st)>>[1].type = t
         /\ <<Ev(t, st)>>[1].status = st
  BY DEF Ev, Event

\* Events without a done, followed by others.
LEMMA SaysMore ==
  ASSUME NEW evs \in Seq(Event), Quiet(evs),
         NEW t \in {"status", "log", "error", "done"}, NEW st \in EvalStatus
  PROVE  LET all == evs \o <<Ev(t, st)>> IN
         /\ all \in Seq(Event) /\ all # <<>> /\ all[Len(all)].status = st
         /\ t # "done" => Quiet(all)
         /\ t = "done" => Announces(all)
<1> DEFINE all == evs \o <<Ev(t, st)>>
<1>1. /\ all \in Seq(Event) /\ Len(all) = Len(evs) + 1
      /\ \A i \in 1 .. Len(evs) : all[i] = evs[i]
      /\ all[Len(evs) + 1] = Ev(t, st)
  BY OneEvent, ConcatProperties DEF Ev, Event
<1>2. Ev(t, st).type = t /\ Ev(t, st).status = st
  BY DEF Ev
<1>3. QED  BY <1>1, <1>2 DEF Quiet, Announces

\* No event says nothing.
LEMMA SaysNothing == <<>> \in Seq(Event) /\ Quiet(<<>>)
<1>1. <<>> \in Seq(Event) /\ Len(<<>>) = 0
  OBVIOUS
<1>2. QED  BY <1>1 DEF Quiet

\* One event by itself.
LEMMA SaysOne ==
  ASSUME NEW t \in {"status", "log", "error"}, NEW st \in EvalStatus
  PROVE  /\ <<Ev(t, st)>> \in Seq(Event) /\ <<Ev(t, st)>> # <<>>
         /\ Quiet(<<Ev(t, st)>>)
         /\ <<Ev(t, st)>>[Len(<<Ev(t, st)>>)].status = st
BY OneEvent DEF Quiet

\* Two events after some others, or by themselves.
LEMMA SaysTwo ==
  ASSUME NEW evs \in Seq(Event), Quiet(evs),
         NEW x \in {"status", "log", "error"}, NEW b \in EvalStatus,
         NEW t \in {"status", "log", "error", "done"}, NEW st \in EvalStatus
  PROVE  LET two == <<Ev(x, b), Ev(t, st)>>
             all == evs \o two IN
         /\ two \in Seq(Event) /\ two # <<>> /\ two[Len(two)].status = st
         /\ t # "done" => Quiet(two)
         /\ t = "done" => Announces(two)
         /\ all \in Seq(Event) /\ all # <<>> /\ all[Len(all)].status = st
         /\ t # "done" => Quiet(all)
         /\ t = "done" => Announces(all)
<1> DEFINE two == <<Ev(x, b), Ev(t, st)>>
           all == evs \o two
<1>1. /\ Ev(x, b) \in Event /\ Ev(x, b).type = x
      /\ Ev(t, st) \in Event /\ Ev(t, st).type = t /\ Ev(t, st).status = st
  BY DEF Ev, Event
<1>2. /\ two \in Seq(Event) /\ Len(two) = 2
      /\ two[1] = Ev(x, b) /\ two[2] = Ev(t, st)
  BY <1>1
<1> HIDE DEF two
<1>3. /\ all \in Seq(Event) /\ Len(all) = Len(evs) + 2
      /\ \A i \in 1 .. Len(evs) : all[i] = evs[i]
      /\ all[Len(evs) + 1] = Ev(x, b) /\ all[Len(evs) + 2] = Ev(t, st)
  <2>1. /\ all \in Seq(Event) /\ Len(all) = Len(evs) + 2
        /\ \A i \in 1 .. Len(evs) + 2 :
             all[i] = IF i <= Len(evs) THEN evs[i] ELSE two[i - Len(evs)]
    <3>1. two \in Seq(Event) /\ Len(two) = 2
      BY <1>2
    <3>2. /\ all \in Seq(Event) /\ Len(all) = Len(evs) + Len(two)
          /\ \A i \in 1 .. Len(evs) + Len(two) :
               all[i] = IF i <= Len(evs) THEN evs[i] ELSE two[i - Len(evs)]
      BY <3>1, ConcatProperties
    <3>3. QED  BY <3>1, <3>2
  <2>2. Len(evs) \in Nat
    OBVIOUS
  <2>3. all[Len(evs) + 1] = two[1] /\ all[Len(evs) + 2] = two[2]
    BY <2>1, <2>2
  <2>4. QED  BY <1>2, <2>1, <2>2, <2>3
<1> HIDE DEF all
<1>4. /\ two # <<>> /\ two[Len(two)].status = st
      /\ t # "done" => Quiet(two)
      /\ t = "done" => Announces(two)
  <2>1. two # <<>> /\ 1 .. Len(two) = {1, 2}
    BY <1>2
  <2>2. QED  BY <1>1, <1>2, <2>1 DEF Quiet, Announces
<1>5. /\ all # <<>> /\ all[Len(all)].status = st
      /\ t # "done" => Quiet(all)
      /\ t = "done" => Announces(all)
  <2>1. all # <<>> /\ all[Len(all)].type = t /\ all[Len(all)].status = st
    BY <1>1, <1>3
  <2>2. ASSUME NEW i \in 1 .. Len(all), i # Len(all)
        PROVE  all[i].type # "done"
    <3>1. CASE i <= Len(evs)
      BY <1>3, <3>1 DEF Quiet
    <3>2. CASE i = Len(evs) + 1
      BY <1>1, <1>3, <3>2
    <3>3. QED  BY <1>3, <2>2, <3>1, <3>2
  <2>3. QED  BY <2>1, <2>2 DEF Quiet, Announces
<1>6. QED  BY <1>2, <1>3, <1>4, <1>5 DEF two, all

\* Emitting one event tells what the event says.
LEMMA TellOne ==
  ASSUME NEW v, NEW t \in {"status", "log", "error"}, NEW st \in EvalStatus,
         Emit(v, <<Ev(t, st)>>)
  PROVE  Tells(v, st)
BY SaysOne DEF Tells

\* Of two events the last one counts.
LEMMA TellTwo ==
  ASSUME NEW v, NEW t \in {"status", "log", "error"}, NEW st \in EvalStatus,
         NEW x \in {"status", "log", "error"}, NEW b \in EvalStatus,
         Emit(v, <<Ev(x, b), Ev(t, st)>>)
  PROVE  Tells(v, st)
<1> DEFINE evs == <<Ev(x, b), Ev(t, st)>>
<1>1. /\ evs \in Seq(Event) /\ evs # <<>> /\ Quiet(evs)
      /\ evs[Len(evs)].status = st
  <2>1. PICK none \in Seq(Event) : Quiet(none)
    BY SaysNothing
  <2>2. QED  BY <2>1, SaysTwo
<1>2. Emit(v, evs)
  OBVIOUS
<1> HIDE DEF evs
<1>3. QED  BY <1>1, <1>2 DEF Tells

\* So it is after any others.
LEMMA TellMore ==
  ASSUME NEW v, NEW t \in {"status", "log", "error"}, NEW st \in EvalStatus,
         NEW first \in Seq(Event), Quiet(first),
         Emit(v, first \o <<Ev(t, st)>>)
  PROVE  Tells(v, st)
<1> DEFINE evs == first \o <<Ev(t, st)>>
<1>1. /\ evs \in Seq(Event) /\ evs # <<>> /\ Quiet(evs)
      /\ evs[Len(evs)].status = st
  BY SaysMore
<1>2. Emit(v, evs)
  OBVIOUS
<1> HIDE DEF evs
<1>3. QED  BY <1>1, <1>2 DEF Tells

\* A step whose events are known to be quiet and to end in the status of the
\* phase it leads to speaks.
LEMMA SpeaksWith ==
  ASSUME NEW v \in Evals, RunType, NEW p,
         ~Over(pc[v]), ~Over(p), Phase(pc[v]) <= Phase(p),
         pc' = [pc EXCEPT ![v] = p],
         NEW st, st = StatusOrder[Phase(p)], Tells(v, st),
         UNCHANGED <<response, evalTotal>>
  PROVE  Moves(v)
<1>1. pc'[v] = p
  BY DEF RunType
<1>2. Speaks(v)
  BY <1>1 DEF Speaks, Tells
<1>3. QED  BY <1>1, <1>2 DEF Moves

\* A step that only goes on within its phase is silent.
LEMMA SilentWith ==
  ASSUME NEW v \in Evals, RunType, NEW p, pc' = [pc EXCEPT ![v] = p],
         \/ ~Over(pc[v]) /\ ~Over(p) /\ Phase(p) = Phase(pc[v])
         \/ Over(pc[v]) /\ Over(p),
         UNCHANGED <<status, events, response, evalTotal>>
  PROVE  Moves(v)
<1>1. pc'[v] = p
  BY DEF RunType
<1>2. QED  BY <1>1 DEF Silent, Moves

\* A step that emits a done event last and answers decides.
LEMMA DecidesWith ==
  ASSUME NEW v \in Evals, RunType, NEW p, pc' = [pc EXCEPT ![v] = p],
         ~Over(pc[v]), Over(p),
         TellsEnd(v), NEW verdict \in Verdict, Conclude(v, verdict)
  PROVE  Moves(v)
<1>1. pc'[v] = p
  BY DEF RunType
<1>2. Decides(v)
  BY <1>1 DEF Decides
<1>3. QED  BY <1>1, <1>2 DEF Moves

\* The steps up to the patch, one by one.
LEMMA BaselineMoves ==
  ASSUME RunInv, TalkInv, NEW v \in Evals,
         \/ PostAsync(v) \/ Begin(v) \/ Acquired(v) \/ CheckedOut(v)
         \/ Chunk(v) \/ StreamOver(v)
  PROVE  Moves(v)
<1> USE DEF answerVars
<1> RunType
  BY DEF RunInv
<1>1. ~Over(pc[v]) => /\ status[v] = StatusOrder[Phase(pc[v])]
                      /\ status[v] \in EvalStatus
  BY DEF TalkInv, TalkType, Told
<1>2. {"PROVISIONING", "RUNNING_BASE_TESTS"} \subseteq EvalStatus
  BY DEF EvalStatus, StatusOrder
<1>3. /\ StatusOrder[2] = "PROVISIONING"
      /\ StatusOrder[3] = "RUNNING_BASE_TESTS"
  BY DEF StatusOrder
<1>4. CASE PostAsync(v)
  BY <1>4, SilentWith DEF PostAsync, Goto, Over, Phase
<1>5. CASE Begin(v)
  <2>1. /\ pc[v] \in {"new", "queued"} /\ pc' = [pc EXCEPT ![v] = "acquiring"]
        /\ Emit(v, <<Ev("status", "PROVISIONING")>>)
        /\ UNCHANGED <<response, evalTotal>>
    BY <1>5 DEF Begin
  <2>2. Phase(pc[v]) = 1 /\ Phase("acquiring") = 2
    BY <2>1 DEF Phase
  <2>3. ~Over(pc[v]) /\ ~Over("acquiring")
    BY <2>1 DEF Over
  <2>4. Tells(v, "PROVISIONING")
    BY <1>2, <2>1, TellOne
  <2>5. /\ Phase(pc[v]) <= Phase("acquiring")
        /\ StatusOrder[Phase("acquiring")] = "PROVISIONING"
    BY <1>3, <2>2
  <2>6. QED  BY <2>1, <2>3, <2>4, <2>5, SpeaksWith
<1>6. CASE Acquired(v)
  <2>1. /\ pc[v] = "acquiring" /\ UNCHANGED <<response, evalTotal>>
        /\ \/ /\ pc' = [pc EXCEPT ![v] = "checkout"]
              /\ Emit(v, <<Ev("log", status[v]), Ev("log", status[v])>>)
           \/ /\ pc' = [pc EXCEPT ![v] = "base_stream"]
              /\ Emit(v, <<Ev("log", status[v])>>
                           \o <<Ev("status", "RUNNING_BASE_TESTS")>>)
    BY <1>6 DEF Acquired, StartBase, StartStream
  <2>2. /\ Phase(pc[v]) = 2 /\ Phase("checkout") = 2 /\ Phase("base_stream") = 3
        /\ ~Over(pc[v]) /\ ~Over("checkout") /\ ~Over("base_stream")
    BY <2>1 DEF Phase, Over
  <2>3. CASE pc' = [pc EXCEPT ![v] = "checkout"]
    <3>1. Emit(v, <<Ev("log", status[v]), Ev("log", status[v])>>)
      BY <2>1, <2>3 DEF RunType
    <3>2. Tells(v, status[v])
      BY <1>1, <2>2, <3>1, TellTwo
    <3>3. /\ Phase(pc[v]) <= Phase("checkout")
          /\ StatusOrder[Phase("checkout")] = status[v]
      BY <1>1, <2>2
    <3>4. QED  BY <2>1, <2>2, <2>3, <3>2, <3>3, SpeaksWith
  <2>4. CASE pc' = [pc EXCEPT ![v] = "base_stream"]
    <3>1. Emit(v, <<Ev("log", status[v])>>
                    \o <<Ev("status", "RUNNING_BASE_TESTS")>>)
      BY <2>1, <2>4 DEF RunType
    <3>2. /\ <<Ev("log", status[v])>> \in Seq(Event)
          /\ Quiet(<<Ev("log", status[v])>>)
      BY <1>1, <2>2, SaysOne
    <3>3. Tells(v, "RUNNING_BASE_TESTS")
      BY <1>2, <3>1, <3>2, TellMore
    <3>4. /\ Phase(pc[v]) <= Phase("base_stream")
          /\ StatusOrder[Phase("base_stream")] = "RUNNING_BASE_TESTS"
      BY <1>3, <2>2
    <3>5. QED  BY <2>1, <2>2, <2>4, <3>3, <3>4, SpeaksWith
  <2>5. QED  BY <2>1, <2>3, <2>4
<1>7. CASE CheckedOut(v)
  <2>1. /\ pc[v] = "checkout" /\ UNCHANGED <<response, evalTotal>>
        /\ pc' = [pc EXCEPT ![v] = "base_stream"]
        /\ Emit(v, <<>> \o <<Ev("status", "RUNNING_BASE_TESTS")>>)
    BY <1>7 DEF CheckedOut, StartBase, StartStream
  <2>2. /\ Phase(pc[v]) = 2 /\ Phase("base_stream") = 3
        /\ ~Over(pc[v]) /\ ~Over("base_stream")
    BY <2>1 DEF Phase, Over
  <2>3. Tells(v, "RUNNING_BASE_TESTS")
    BY <1>2, <2>1, TellMore, SaysNothing
  <2>4. /\ Phase(pc[v]) <= Phase("base_stream")
        /\ StatusOrder[Phase("base_stream")] = "RUNNING_BASE_TESTS"
    BY <1>3, <2>2
  <2>5. QED  BY <2>1, <2>2, <2>3, <2>4, SpeaksWith
<1>8. CASE Chunk(v)
  <2>1. /\ pc[v] \in {"base_stream", "patched_stream"}
        /\ UNCHANGED <<pc, response, evalTotal>>
        /\ Emit(v, <<Ev("log", status[v])>>)
    BY <1>8 DEF Chunk
  <2>2. ~Over(pc[v]) /\ pc' = [pc EXCEPT ![v] = pc[v]]
    BY <2>1 DEF Over, RunType
  <2>3. Phase(pc[v]) <= Phase(pc[v])
    BY PhaseStatus
  <2>4. Tells(v, status[v])
    BY <1>1, <2>1, <2>2, TellOne
  <2>5. QED  BY <1>1, <2>1, <2>2, <2>3, <2>4, SpeaksWith
<1>9. CASE StreamOver(v)
  BY <1>9, SilentWith DEF StreamOver, Goto, Over, Phase
<1>10. QED  BY <1>4, <1>5, <1>6, <1>7, <1>8, <1>9

\* The events of a refusal, after any others: an error and the done.
LEMMA RejectMoves ==
  ASSUME RunInv, NEW v \in Evals, ~Over(pc[v]),
         NEW before \in Seq(Event), Quiet(before), Reject(v, before)
  PROVE  Moves(v)
<1> DEFINE verdict == [status |-> "REJECTED_PATCH", resolved |-> FALSE,
                       metrics |-> FALSE]
           evs == before \o <<Ev("error", "REJECTED_PATCH"),
                              Ev("done", "REJECTED_PATCH")>>
<1>1. "REJECTED_PATCH" \in EvalStatus /\ verdict \in Verdict
  BY DEF EvalStatus, Terminal, Verdict
<1>2. evs \in Seq(Event) /\ Announces(evs)
  BY <1>1, SaysTwo
<1>3. /\ pc' = [pc EXCEPT ![v] = "rejected"] /\ Emit(v, evs)
      /\ Conclude(v, verdict)
  BY DEF Reject
<1> HIDE DEF verdict, evs
<1>4. TellsEnd(v) /\ Over("rejected")
  BY <1>2, <1>3 DEF TellsEnd, Over
<1>5. QED  BY <1>1, <1>3, <1>4, DecidesWith DEF RunInv

\* The steps that try the patch and test it.
LEMMA PatchMoves ==
  ASSUME RunInv, TalkInv, NEW v \in Evals,
         \/ BaseExecuted(v) \/ PatchGoesOn(v) \/ PatchRefused(v)
         \/ PatchApplied(v) \/ PatchedExecuted(v)
  PROVE  Moves(v)
<1> USE DEF answerVars
<1> RunType
  BY DEF RunInv
<1>1. ~Over(pc[v]) => /\ status[v] = StatusOrder[Phase(pc[v])]
                      /\ status[v] \in EvalStatus
  BY DEF TalkInv, TalkType, Told
<1>2. {"APPLYING_PATCH", "RUNNING_PATCHED_TESTS"} \subseteq EvalStatus
  BY DEF EvalStatus, StatusOrder
<1>3. /\ StatusOrder[4] = "APPLYING_PATCH"
      /\ StatusOrder[5] = "RUNNING_PATCHED_TESTS"
  BY DEF StatusOrder
<1>4. CASE BaseExecuted(v)
  <2> DEFINE before == <<Ev("log", status[v]), Ev("status", "APPLYING_PATCH")>>
  <2>1. /\ pc[v] = "base_exec"
        /\ \/ /\ pc' = [pc EXCEPT ![v] = "writing"]
              /\ Emit(v, before) /\ UNCHANGED <<response, evalTotal>>
           \/ Reject(v, before)
    BY <1>4 DEF BaseExecuted
  <2>2. /\ Phase(pc[v]) <= Phase("writing")
        /\ StatusOrder[Phase("writing")] = "APPLYING_PATCH"
        /\ ~Over(pc[v]) /\ ~Over("writing")
    BY <1>3, <2>1 DEF Phase, Over
  <2>3. CASE Reject(v, before)
    <3>1. before \in Seq(Event) /\ Quiet(before)
      BY <1>1, <1>2, <2>2, SaysNothing, SaysTwo
    <3>2. QED  BY <2>2, <2>3, <3>1, RejectMoves
  <2>4. CASE /\ pc' = [pc EXCEPT ![v] = "writing"]
             /\ Emit(v, before) /\ UNCHANGED <<response, evalTotal>>
    <3>1. Tells(v, "APPLYING_PATCH")
      BY <1>1, <1>2, <2>2, <2>4, TellTwo
    <3>2. QED  BY <2>2, <2>4, <3>1, SpeaksWith
  <2>5. QED  BY <2>1, <2>3, <2>4
<1>5. CASE PatchGoesOn(v)
  BY <1>5, SilentWith DEF PatchGoesOn, Goto, Over, Phase
<1>6. CASE PatchRefused(v)
  <2>1. ~Over(pc[v]) /\ Reject(v, <<>>)
    BY <1>6 DEF PatchRefused, Over
  <2>2. QED  BY <2>1, RejectMoves, SaysNothing
<1>7. CASE PatchApplied(v)
  <2>1. /\ pc[v] = "applying" /\ UNCHANGED <<response, evalTotal>>
        /\ pc' = [pc EXCEPT ![v] = "patched_stream"]
        /\ Emit(v, <<Ev("log", status[v])>>
                     \o <<Ev("status", "RUNNING_PATCHED_TESTS")>>)
    BY <1>7 DEF PatchApplied, StartPatched, StartStream
  <2>2. /\ Phase(pc[v]) <= Phase("patched_stream")
        /\ StatusOrder[Phase("patched_stream")] = "RUNNING_PATCHED_TESTS"
        /\ ~Over(pc[v]) /\ ~Over("patched_stream")
    BY <1>3, <2>1 DEF Phase, Over
  <2>3. /\ <<Ev("log", status[v])>> \in Seq(Event)
        /\ Quiet(<<Ev("log", status[v])>>)
    BY <1>1, <2>2, SaysOne
  <2>4. Tells(v, "RUNNING_PATCHED_TESTS")
    BY <1>2, <2>1, <2>3, TellMore
  <2>5. QED  BY <2>1, <2>2, <2>4, SpeaksWith
<1>8. CASE PatchedExecuted(v)
  <2>1. /\ pc[v] = "patched_exec" /\ UNCHANGED <<response, evalTotal>>
        /\ pc' = [pc EXCEPT ![v] = "releasing"]
        /\ Emit(v, <<Ev("log", status[v]), Ev("status", status[v])>>)
    BY <1>8 DEF PatchedExecuted, Goto
  <2>2. /\ Phase(pc[v]) <= Phase("releasing")
        /\ StatusOrder[Phase("releasing")] = StatusOrder[Phase(pc[v])]
        /\ ~Over(pc[v]) /\ ~Over("releasing")
    BY <2>1 DEF Phase, Over
  <2>3. Tells(v, status[v])
    BY <1>1, <2>1, <2>2, TellTwo
  <2>4. QED  BY <1>1, <2>1, <2>2, <2>3, SpeaksWith
<1>9. QED  BY <1>4, <1>5, <1>6, <1>7, <1>8

\* The three ways a run ends.
LEMMA EndMoves ==
  ASSUME RunInv, TalkInv, NEW v \in Evals,
         AcquireFailed(v) \/ Complete(v) \/ RejectedReleased(v)
  PROVE  Moves(v)
<1> RunType
  BY DEF RunInv
<1>1. CASE AcquireFailed(v)
  <2> DEFINE verdict == [status |-> "FAILED", resolved |-> FALSE,
                         metrics |-> FALSE]
             evs == <<Ev("error", "FAILED"), Ev("done", "FAILED")>>
  <2>1. "FAILED" \in EvalStatus /\ verdict \in Verdict
    BY DEF EvalStatus, Terminal, Verdict
  <2>2. evs \in Seq(Event) /\ Announces(evs)
    BY <2>1, SaysNothing, SaysTwo
  <2>3. /\ pc[v] = "acquiring" /\ pc' = [pc EXCEPT ![v] = "finished"]
        /\ Emit(v, evs) /\ Conclude(v, verdict)
    BY <1>1 DEF AcquireFailed, Goto
  <2> HIDE DEF verdict, evs
  <2>4. TellsEnd(v) /\ ~Over(pc[v]) /\ Over("finished")
    BY <2>2, <2>3 DEF TellsEnd, Over
  <2>5. QED  BY <2>1, <2>3, <2>4, DecidesWith
<1>2. CASE Complete(v)
  <2> DEFINE verdict == [status |-> "COMPLETED",
                         resolved |-> outcome[v].resolved, metrics |-> TRUE]
             evs == <<Ev("done", status[v])>>
  <2>1. /\ pc[v] = "releasing" /\ pc' = [pc EXCEPT ![v] = "finished"]
        /\ Emit(v, evs) /\ Conclude(v, verdict)
    BY <1>2 DEF Complete, Goto
  <2>2. ~Over(pc[v]) /\ Over("finished")
    BY <2>1 DEF Over
  <2>3. status[v] \in EvalStatus /\ verdict \in Verdict
    BY DEF TalkInv, TalkType, RunType, Outcome, Terminal, Verdict
  <2>4. evs \in Seq(Event) /\ Announces(evs)
    BY <2>3, OneEvent DEF Announces
  <2> HIDE DEF verdict, evs
  <2>5. TellsEnd(v)
    BY <2>1, <2>4 DEF TellsEnd
  <2>6. QED  BY <2>1, <2>2, <2>3, <2>5, DecidesWith
<1>3. CASE RejectedReleased(v)
  BY <1>3, SilentWith DEF RejectedReleased, Goto, answerVars, Over
<1>4. QED  BY <1>1, <1>2, <1>3

\* A step moves one evaluation and leaves the others alone, or none.
LEMMA NextMoves ==
  ASSUME RunInv, TalkInv, [Next]_vars
  PROVE  \/ \E v \in Evals : Moves(v) /\ taken' = taken /\ conn' = conn
                             /\ reader' = reader
         \/ UNCHANGED <<pc, status, events, response, evalTotal>>
<1>1. CASE \E v \in Evals :
             PostAsync(v) \/ Begin(v) \/ AcquireFailed(v) \/ RunStep(v)
  <2>1. PICK v \in Evals :
          PostAsync(v) \/ Begin(v) \/ AcquireFailed(v) \/ RunStep(v)
    BY <1>1
  <2>2. Moves(v)
    BY <2>1, BaselineMoves, PatchMoves, EndMoves DEF RunStep
  <2>3. UNCHANGED streamVars
    BY <2>1 DEF restVars, RunStep, PostAsync, Begin, Acquired, AcquireFailed,
       CheckedOut, Chunk, StreamOver, BaseExecuted, PatchGoesOn, PatchRefused,
       PatchApplied, PatchedExecuted, Complete, RejectedReleased
  <2>4. QED  BY <2>2, <2>3 DEF streamVars
<1>2. CASE \/ \E s \in Streams : Open(s) \/ Receive(s) \/ Disconnect(s)
           \/ Stop \/ UNCHANGED vars
  BY <1>2 DEF Open, Receive, Disconnect, Stop, vars, runVars, answerVars
<1>3. QED  BY <1>1, <1>2 DEF Next

\* Quiet events followed by others.
LEMMA QuietAnd ==
  ASSUME NEW old \in Seq(Event), Quiet(old), NEW evs \in Seq(Event)
  PROVE  /\ old \o evs \in Seq(Event)
         /\ Quiet(evs) => Quiet(old \o evs)
         /\ Announces(evs) => Announces(old \o evs)
<1> DEFINE all == old \o evs
<1>1. /\ all \in Seq(Event) /\ Len(all) = Len(old) + Len(evs)
      /\ \A i \in 1 .. Len(old) + Len(evs) :
           all[i] = IF i <= Len(old) THEN old[i] ELSE evs[i - Len(old)]
  BY ConcatProperties
<1>2. Len(old) \in Nat /\ Len(evs) \in Nat
  OBVIOUS
<1> HIDE DEF all
<1>3. \A i \in 1 .. Len(all) :
        \/ i \in 1 .. Len(old) /\ all[i] = old[i]
        \/ i - Len(old) \in 1 .. Len(evs) /\ all[i] = evs[i - Len(old)]
  BY <1>1, <1>2
<1>4. Quiet(evs) => Quiet(all)
  BY <1>3 DEF Quiet
<1>5. ASSUME Announces(evs) PROVE Announces(all)
  <2>1. Len(evs) > 0
    BY <1>2, <1>5 DEF Announces
  <2>2. all # <<>>
    BY <1>1, <1>2, <2>1
  <2>3. ASSUME NEW i \in 1 .. Len(all)
        PROVE  all[i].type = "done" <=> i = Len(all)
    <3>1. CASE i \in 1 .. Len(old) /\ all[i] = old[i]
      BY <1>1, <1>2, <2>1, <3>1 DEF Quiet
    <3>2. CASE i - Len(old) \in 1 .. Len(evs) /\ all[i] = evs[i - Len(old)]
      <4>1. evs[i - Len(old)].type = "done" <=> i - Len(old) = Len(evs)
        BY <1>5, <3>2 DEF Announces
      <4>2. QED  BY <1>1, <1>2, <3>2, <4>1
    <3>3. QED  BY <1>3, <3>1, <3>2
  <2>4. QED  BY <2>2, <2>3 DEF Announces
<1>6. QED  BY <1>1, <1>4, <1>5 DEF all

\* Nothing has been said at the start.
LEMMA TalkInit == Init => TalkInv
<1> SUFFICES ASSUME Init PROVE TalkInv
  OBVIOUS
<1>1. "QUEUED" \in EvalStatus /\ StatusOrder[1] = "QUEUED"
  BY DEF EvalStatus, StatusOrder
<1>2. TalkType
  BY <1>1, SaysNothing DEF Init, TalkType
<1>3. ASSUME NEW v \in Evals PROVE Told(v)
  <2>1. pc[v] = "new" /\ status[v] = "QUEUED" /\ events[v] = <<>>
    BY DEF Init
  <2>2. ~Over(pc[v]) /\ Phase(pc[v]) = 1
    BY <2>1 DEF Over, Phase
  <2>3. QED  BY <1>1, <2>1, <2>2, SaysNothing DEF Told
<1>4. QED  BY <1>2, <1>3 DEF TalkInv

\* What emitting does to the status and the events of a run that is not over.
LEMMA Emitted ==
  ASSUME TalkInv, NEW v \in Evals, ~Over(pc[v]),
         NEW evs \in Seq(Event), evs # <<>>, Emit(v, evs)
  PROVE  /\ status' \in [Evals -> EvalStatus]
         /\ events' \in [Evals -> Seq(Event)]
         /\ status'[v] = evs[Len(evs)].status
         /\ Quiet(evs) => Quiet(events'[v])
         /\ Announces(evs) => Announces(events'[v])
         /\ \A w \in Evals \ {v} : /\ status'[w] = status[w]
                                   /\ events'[w] = events[w]
<1> DEFINE last == evs[Len(evs)].status
           old == events[v]
           new == old \o evs
<1>1. last \in EvalStatus
  <2>1. Len(evs) \in 1 .. Len(evs)
    BY EmptySeq, LenProperties
  <2>2. evs[Len(evs)] \in Event
    BY <2>1, ElementOfSeq
  <2>3. QED  BY <2>2 DEF Event
<1>2. old \in Seq(Event) /\ Quiet(old)
  BY DEF TalkInv, TalkType, Told
<1> HIDE DEF old
<1>3. /\ new \in Seq(Event)
      /\ Quiet(evs) => Quiet(new)
      /\ Announces(evs) => Announces(new)
  BY <1>2, QuietAnd
<1>4. /\ events' = [events EXCEPT ![v] = new]
      /\ status' = [status EXCEPT ![v] = last]
  BY DEF Emit, old
<1> HIDE DEF new, last
<1>5. /\ events'[v] = new /\ status'[v] = last
      /\ events' \in [Evals -> Seq(Event)] /\ status' \in [Evals -> EvalStatus]
      /\ \A w \in Evals \ {v} : /\ status'[w] = status[w]
                                /\ events'[w] = events[w]
  BY <1>1, <1>3, <1>4 DEF TalkInv, TalkType
<1>6. QED  BY <1>3, <1>5 DEF last

\* What answering does to the responses and the counters.
LEMMA Concluded ==
  ASSUME RunInv, TalkInv, NEW v \in Evals, NEW verdict \in Verdict,
         Conclude(v, verdict)
  PROVE  /\ response' = [response EXCEPT ![v] = verdict]
         /\ evalTotal' \in [Terminal \X BOOLEAN -> Nat]
         /\ \A l \in Terminal \X BOOLEAN :
              evalTotal'[l] = IF l = <<verdict.status, verdict.resolved>>
                                THEN evalTotal[l] + 1 ELSE evalTotal[l]
<1> DEFINE lab == Label(verdict)
<1>1. lab \in Terminal \X BOOLEAN
  BY DEF Label, Verdict
<1>2. evalTotal' = [evalTotal EXCEPT ![lab] = @ + 1]
  BY DEF Conclude
<1> HIDE DEF lab
<1>3. /\ evalTotal' \in [Terminal \X BOOLEAN -> Nat]
      /\ \A l \in Terminal \X BOOLEAN :
           evalTotal'[l] = IF l = lab THEN evalTotal[l] + 1 ELSE evalTotal[l]
  BY <1>1, <1>2 DEF TalkInv, TalkType
<1>4. QED  BY <1>3 DEF Conclude, lab, Label

\* Whatever a step does, every run goes on telling the truth about itself.
LEMMA TalkKeeps == RunInv /\ RunInv' /\ TalkInv /\ [Next]_vars => TalkInv'
<1> SUFFICES ASSUME RunInv, RunInv', TalkInv, [Next]_vars PROVE TalkInv'
  OBVIOUS
<1>1. CASE UNCHANGED <<pc, status, events, response, evalTotal>>
  BY <1>1 DEF TalkInv, TalkType, Told
<1>2. ASSUME NEW v \in Evals, Moves(v) PROVE TalkInv'
  <2>1. \A w \in Evals \ {v} : pc'[w] = pc[w]
    BY <1>2 DEF Moves, RunInv, RunType
  <2>2. CASE Silent(v)
    <3>1. \A w \in Evals : /\ Over(pc'[w]) <=> Over(pc[w])
                           /\ ~Over(pc[w]) => Phase(pc'[w]) = Phase(pc[w])
      BY <2>1, <2>2 DEF Silent
    <3>2. UNCHANGED <<status, events, evalTotal>>
      BY <2>2 DEF Silent
    <3>3. TalkType'
      BY <3>2 DEF TalkInv, TalkType
    <3>4. \A w \in Evals : Told(w)'
      BY <3>1, <3>2 DEF TalkInv, Told
    <3>5. QED  BY <3>3, <3>4 DEF TalkInv
  <2>3. CASE Speaks(v)
    <3>1. PICK evs \in Seq(Event) :
            /\ evs # <<>> /\ Quiet(evs) /\ Emit(v, evs)
            /\ evs[Len(evs)].status = StatusOrder[Phase(pc'[v])]
      BY <2>3 DEF Speaks, Tells
    <3>2. ~Over(pc[v]) /\ ~Over(pc'[v]) /\ evalTotal' = evalTotal
      BY <2>3 DEF Speaks
    <3>3. /\ status' \in [Evals -> EvalStatus]
          /\ events' \in [Evals -> Seq(Event)]
          /\ status'[v] = StatusOrder[Phase(pc'[v])] /\ Quiet(events'[v])
          /\ \A w \in Evals \ {v} : /\ status'[w] = status[w]
                                    /\ events'[w] = events[w]
      BY <3>1, <3>2, Emitted
    <3>4. TalkType'
      BY <3>2, <3>3 DEF TalkInv, TalkType
    <3>5. \A w \in Evals : Told(w)'
      BY <2>1, <3>2, <3>3 DEF TalkInv, Told
    <3>6. QED  BY <3>4, <3>5 DEF TalkInv
  <2>4. CASE Decides(v)
    <3>1. PICK evs \in Seq(Event) : Announces(evs) /\ Emit(v, evs)
      BY <2>4 DEF Decides, TellsEnd
    <3>2. PICK verdict \in Verdict : Conclude(v, verdict)
      BY <2>4 DEF Decides
    <3>3. ~Over(pc[v]) /\ Over(pc'[v]) /\ evs # <<>>
      BY <2>4, <3>1 DEF Decides, Announces
    <3>4. /\ status' \in [Evals -> EvalStatus]
          /\ events' \in [Evals -> Seq(Event)] /\ Announces(events'[v])
          /\ \A w \in Evals \ {v} : /\ status'[w] = status[w]
                                    /\ events'[w] = events[w]
      BY <3>1, <3>3, Emitted
    <3>5. TalkType'
      BY <3>2, <3>4, Concluded DEF TalkType
    <3>6. \A w \in Evals : Told(w)'
      BY <2>1, <3>3, <3>4 DEF TalkInv, Told
    <3>7. QED  BY <3>5, <3>6 DEF TalkInv
  <2>5. QED  BY <1>2, <2>2, <2>3, <2>4 DEF Moves
<1>3. QED  BY <1>1, <1>2, NextMoves

\* What a run tells is right in every behaviour.
LEMMA TalkInvariant == Spec => []TalkInv
<1>1. RunInv /\ TalkInv /\ [Next]_vars => TalkInv'
  BY TalkKeeps, RunStepKeeps
<1>2. QED  BY <1>1, TalkInit, RunInvariant, PTL DEF Spec

\* What a run tells includes where its done event is.
LEMMA DoneLast == RunInv /\ TalkInv => DoneOnce
<1> SUFFICES ASSUME RunInv, TalkInv, NEW v \in Evals
             PROVE  {i \in DOMAIN events[v] : events[v][i].type = "done"}
                      = IF response[v] = None THEN {} ELSE {Len(events[v])}
  BY DEF DoneOnce
<1> DEFINE evs == events[v]
<1>1. evs \in Seq(Event)
  BY DEF TalkInv, TalkType
<1>2. Over(pc[v]) => Announces(evs)
  BY DEF TalkInv, Told
<1>3. ~Over(pc[v]) => Quiet(evs)
  BY DEF TalkInv, Told
<1> HIDE DEF evs
<1>4. DOMAIN evs = 1 .. Len(evs) /\ Len(evs) \in Nat
  BY <1>1
<1>5. CASE response[v] = None
  BY <1>3, <1>4, <1>5, OverMeansAnswer DEF Quiet, evs
<1>6. CASE response[v] # None
  <2>1. Announces(evs) /\ Len(evs) \in 1 .. Len(evs)
    <3>1. Announces(evs)
      BY <1>2, <1>6, OverMeansAnswer
    <3>2. Len(evs) # 0
      BY <1>1, <3>1 DEF Announces
    <3>3. QED  BY <1>4, <3>1, <3>2
  <2>2. {i \in DOMAIN evs : evs[i].type = "done"} = {Len(evs)}
    BY <1>4, <2>1 DEF Announces
  <2>3. QED  BY <1>6, <2>2 DEF evs
<1>7. QED  BY <1>5, <1>6

\* The queue of a run has exactly one done event once there is an answer, as
\* its last event, and none before.
THEOREM DoneIsSaidOnce == Spec => []DoneOnce
BY DoneLast, RunInvariant, TalkInvariant, PTL
-----------------------------------------------------------------------------
(***************************************************************************)
(* The streams.                                                             *)
(***************************************************************************)
RestType ==
  /\ registry \in [TaskIds -> Evals \cup {None}]
  /\ taskOf \in [Evals -> TaskIds]
  /\ taken \in [Evals -> Nat]
  /\ chunks \in [Evals -> 0 .. MaxChunks]
  /\ conn \in [Streams -> {"off", "open", "closed", "gone"}]
  /\ reader \in [Streams -> Evals \cup {None}]
  /\ stopping \in BOOLEAN

\* A stream reads a run, and the server closes it only after the answer.
StreamInv ==
  /\ RestType
  /\ \A s \in Streams :
       /\ conn[s] # "off" => reader[s] \in Evals
       /\ conn[s] = "closed" => Over(pc[reader[s]])

\* No stream is open at the start.
LEMMA StreamInit == Init => StreamInv
<1> SUFFICES ASSUME Init PROVE StreamInv
  OBVIOUS
<1>1. RestType
  <2>1. 0 \in 0 .. MaxChunks
    BY EvalAssumption
  <2>2. chunks \in [Evals -> 0 .. MaxChunks]
    BY <2>1 DEF Init
  <2>3. QED  BY <2>2 DEF Init, RestType
<1>2. QED  BY <1>1 DEF Init, StreamInv

\* A step of a run leaves the streams and what was registered well-typed.
LEMMA RunKeepsRest ==
  ASSUME StreamInv, NEW v \in Evals,
         PostAsync(v) \/ Begin(v) \/ AcquireFailed(v) \/ RunStep(v)
  PROVE  RestType' /\ UNCHANGED <<conn, reader>>
<1> USE DEF restVars, streamVars
<1>1. UNCHANGED <<taskOf, taken, conn, reader, stopping>>
  BY DEF RunStep, PostAsync, Begin, Acquired, AcquireFailed, CheckedOut, Chunk,
         StreamOver, BaseExecuted, PatchGoesOn, PatchRefused, PatchApplied,
         PatchedExecuted, Complete, RejectedReleased
<1>2. \/ registry' = registry
      \/ registry' = [registry EXCEPT ![taskOf[v]] = v]
  BY DEF RunStep, PostAsync, Begin, Acquired, AcquireFailed, CheckedOut, Chunk,
         StreamOver, BaseExecuted, PatchGoesOn, PatchRefused, PatchApplied,
         PatchedExecuted, Complete, RejectedReleased
<1>3. registry' \in [TaskIds -> Evals \cup {None}]
  BY <1>2 DEF StreamInv, RestType
<1>4. \/ chunks' = chunks
      \/ \E n \in 0 .. MaxChunks : chunks' = [chunks EXCEPT ![v] = n]
      \/ chunks[v] > 0 /\ chunks' = [chunks EXCEPT ![v] = @ - 1]
  BY DEF RunStep, PostAsync, Begin, Acquired, AcquireFailed, CheckedOut, Chunk,
         StreamOver, BaseExecuted, PatchGoesOn, PatchRefused, PatchApplied,
         PatchedExecuted, Complete, RejectedReleased, StartBase, StartPatched,
         StartStream, MoreOutput
<1>5. chunks' \in [Evals -> 0 .. MaxChunks]
  BY <1>4, EvalAssumption DEF StreamInv, RestType
<1>6. QED  BY <1>1, <1>3, <1>5 DEF StreamInv, RestType

\* The server closes a stream only when the status it sees is terminal; no run
\* shows a terminal status before its answer is there.
LEMMA StreamKeeps ==
  RunInv /\ TalkInv /\ StreamInv /\ [Next]_vars => StreamInv'
<1> SUFFICES ASSUME RunInv, TalkInv, StreamInv, [Next]_vars PROVE StreamInv'
  OBVIOUS
<1>1. CASE \E v \in Evals :
             PostAsync(v) \/ Begin(v) \/ AcquireFailed(v) \/ RunStep(v)
  <2>1. PICK v \in Evals :
          PostAsync(v) \/ Begin(v) \/ AcquireFailed(v) \/ RunStep(v)
    BY <1>1
  <2>2. RestType' /\ UNCHANGED <<conn, reader>>
    BY <2>1, RunKeepsRest
  <2>3. Moves(v)
    BY <2>1, BaselineMoves, PatchMoves, EndMoves DEF RunStep
  <2>4. \A w \in Evals : Over(pc[w]) => Over(pc'[w])
    BY <2>3 DEF Moves, Silent, Speaks, Decides, RunInv, RunType
  <2>5. QED  BY <2>2, <2>4 DEF StreamInv, RestType
<1>2. ASSUME NEW s \in Streams, Open(s) PROVE StreamInv'
  <2>1. /\ conn' = [conn EXCEPT ![s] = "open"]
        /\ UNCHANGED <<registry, taskOf, taken, chunks, stopping, pc>>
    BY <1>2 DEF Open, runVars
  <2>2. PICK w \in Evals : reader' = [reader EXCEPT ![s] = w]
    BY <1>2 DEF Open, StreamInv, RestType
  <2>3. RestType'
    BY <2>1, <2>2 DEF StreamInv, RestType
  <2>4. QED  BY <2>1, <2>2, <2>3 DEF StreamInv, RestType
<1>3. ASSUME NEW s \in Streams, Receive(s) PROVE StreamInv'
  <2> DEFINE v == reader[s]
  <2>1. /\ conn[s] = "open" /\ v \in Evals
        /\ taken' = [taken EXCEPT ![v] = @ + 1]
        /\ UNCHANGED <<registry, taskOf, chunks, stopping, reader, pc>>
    BY <1>3 DEF Receive, MayTake, runVars, StreamInv
  <2>2. \/ conn' = conn
        \/ conn' = [conn EXCEPT ![s] = "closed"] /\ status[v] \in Terminal
    BY <1>3 DEF Receive, Last, StreamInv, RestType
  <2>3. status[v] \in Terminal => Over(pc[v])
    BY <2>1, PhaseStatus DEF TalkInv, Told
  <2>4. taken' \in [Evals -> Nat]
    BY <2>1 DEF StreamInv, RestType
  <2>5. RestType'
    BY <2>1, <2>2, <2>4 DEF StreamInv, RestType
  <2>6. QED  BY <2>1, <2>2, <2>3, <2>5 DEF StreamInv, RestType
<1>4. ASSUME NEW s \in Streams, Disconnect(s) PROVE StreamInv'
  <2> DEFINE v == reader[s]
  <2>1. /\ conn[s] = "open" /\ v \in Evals
        /\ conn' = [conn EXCEPT ![s] = "gone"]
        /\ taken' = taken \/ taken' = [taken EXCEPT ![v] = @ + 1]
        /\ UNCHANGED <<registry, taskOf, chunks, stopping, reader, pc>>
    BY <1>4 DEF Disconnect, runVars, StreamInv
  <2>2. taken' \in [Evals -> Nat]
    BY <2>1 DEF StreamInv, RestType
  <2>3. RestType'
    BY <2>1, <2>2 DEF StreamInv, RestType
  <2>4. QED  BY <2>1, <2>3 DEF StreamInv, RestType
<1>5. CASE Stop \/ UNCHANGED vars
  BY <1>5 DEF Stop, vars, runVars, streamVars, StreamInv, RestType
<1>6. QED  BY <1>1, <1>2, <1>3, <1>4, <1>5 DEF Next

\* The streams are right in every behaviour.
LEMMA StreamInvariant == Spec => []StreamInv
BY StreamInit, StreamKeeps, RunInvariant, TalkInvariant, PTL DEF Spec

\* Every variable has its type.
THEOREM TypesRight == Spec => []TypeOK
<1>1. RunInv /\ TalkInv /\ StreamInv => TypeOK
  BY DEF RunInv, RunType, TalkInv, TalkType, StreamInv, RestType, TypeOK,
         Before, After
<1>2. QED  BY <1>1, RunInvariant, TalkInvariant, StreamInvariant, PTL

\* The server never cuts a stream off before the answer of the evaluation it
\* reads is there.
THEOREM ClosedWhenOver == Spec => []ClosedMeansOver
<1>1. RunInv /\ StreamInv => ClosedMeansOver
  BY OverMeansAnswer DEF StreamInv, RestType, ClosedMeansOver
<1>2. QED  BY <1>1, RunInvariant, StreamInvariant, PTL
-----------------------------------------------------------------------------
(***************************************************************************)
(* The counter of verdicts.                                                 *)
(***************************************************************************)
Answered == {v \in Evals : response[v] # None}

CountedAs(l) ==
  {v \in Evals : /\ response[v] # None
                 /\ l = <<response[v].status, response[v].resolved>>}

\* Only finitely many runs can have answered, however many requests may come.
CountInv == IsFiniteSet(Answered) /\ CountersMatch

\* No verdict has been counted at the start.
LEMMA CountInit == Init => CountInv
<1> SUFFICES ASSUME Init PROVE CountInv
  OBVIOUS
<1>1. Answered = {} /\ \A l : CountedAs(l) = {}
  BY DEF Init, Answered, CountedAs
<1>2. QED  BY <1>1, FS_EmptySet DEF Init, CountInv, CountersMatch, CountedAs

\* A verdict is counted once, under its labels: the run that gives it had none.
LEMMA CountKeeps ==
  RunInv /\ RunInv' /\ TalkInv /\ CountInv /\ [Next]_vars => CountInv'
<1> SUFFICES ASSUME RunInv, RunInv', TalkInv, CountInv, [Next]_vars
             PROVE  CountInv'
  OBVIOUS
<1>1. CASE UNCHANGED <<response, evalTotal>>
  BY <1>1 DEF CountInv, Answered, CountersMatch
<1>2. ASSUME NEW v \in Evals, Decides(v) PROVE CountInv'
  <2>1. PICK verdict \in Verdict : Conclude(v, verdict)
    BY <1>2 DEF Decides
  <2>2. /\ response' = [response EXCEPT ![v] = verdict]
        /\ \A l \in Terminal \X BOOLEAN :
             evalTotal'[l] = IF l = <<verdict.status, verdict.resolved>>
                               THEN evalTotal[l] + 1 ELSE evalTotal[l]
    BY <2>1, Concluded
  <2>3. response[v] = None /\ verdict # None
    BY <1>2, OverMeansAnswer, EvalAssumption DEF Decides
  <2>4. response'[v] = verdict /\ \A w \in Evals \ {v} : response'[w] = response[w]
    BY <2>2 DEF RunInv, RunType
  <2>5. Answered' = Answered \cup {v}
    BY <2>3, <2>4 DEF Answered
  <2>6. IsFiniteSet(Answered')
    BY <2>5, FS_AddElement DEF CountInv
  <2>7. ASSUME NEW l \in Terminal \X BOOLEAN
        PROVE  evalTotal'[l] = Cardinality(CountedAs(l)')
    <3>1. /\ IsFiniteSet(CountedAs(l)) /\ v \notin CountedAs(l)
          /\ evalTotal[l] = Cardinality(CountedAs(l))
      <4>1. CountedAs(l) \subseteq Answered
        BY DEF CountedAs, Answered
      <4>2. QED
        BY <2>3, <4>1, FS_Subset DEF CountInv, CountersMatch, CountedAs
    <3>2. CASE l = <<verdict.status, verdict.resolved>>
      <4>1. CountedAs(l)' = CountedAs(l) \cup {v}
        BY <2>3, <2>4, <3>2 DEF CountedAs
      <4>2. Cardinality(CountedAs(l) \cup {v}) = Cardinality(CountedAs(l)) + 1
        BY <3>1, FS_AddElement
      <4>3. QED  BY <2>2, <3>1, <3>2, <4>1, <4>2
    <3>3. CASE l # <<verdict.status, verdict.resolved>>
      <4>1. CountedAs(l)' = CountedAs(l)
        BY <2>3, <2>4, <3>3 DEF CountedAs
      <4>2. QED  BY <2>2, <3>1, <3>3, <4>1
    <3>4. QED  BY <3>2, <3>3
  <2>8. QED  BY <2>6, <2>7 DEF CountInv, CountersMatch, CountedAs
<1>3. ASSUME NEW v \in Evals, Silent(v) \/ Speaks(v) PROVE CountInv'
  BY <1>1, <1>3 DEF Silent, Speaks
<1>4. QED  BY <1>1, <1>2, <1>3, NextMoves DEF Moves

\* The counter shows exactly the verdicts given so far, by their labels, for any
\* number of requests and also when two of them share a task id.
THEOREM CountersAreRight == Spec => []CountersMatch
<1>1. RunInv /\ TalkInv /\ CountInv /\ [Next]_vars => CountInv'
  BY CountKeeps, RunStepKeeps
<1>2. Spec => []CountInv
  BY <1>1, CountInit, RunInvariant, TalkInvariant, PTL DEF Spec
<1>3. CountInv => CountersMatch
  BY DEF CountInv
<1>4. QED  BY <1>2, <1>3, PTL
-----------------------------------------------------------------------------
(***************************************************************************)
(* The status a client sees.                                                *)
(***************************************************************************)
\* A run without an answer shows its phase, one with an answer the verdict.
ShownRight ==
  \A v \in Evals :
    /\ Over(pc[v]) => /\ StatusOf(v) = response[v].status
                      /\ Rank(StatusOf(v)) = 6
    /\ ~Over(pc[v]) => /\ StatusOf(v) \notin Terminal
                       /\ Rank(StatusOf(v)) = Phase(pc[v])

\* So it follows from what a run tells.
LEMMA StatusShown == RunInv /\ TalkInv => ShownRight
<1> SUFFICES ASSUME RunInv, TalkInv, NEW v \in Evals
             PROVE  /\ Over(pc[v]) => /\ StatusOf(v) = response[v].status
                                      /\ Rank(StatusOf(v)) = 6
                    /\ ~Over(pc[v]) => /\ StatusOf(v) \notin Terminal
                                       /\ Rank(StatusOf(v)) = Phase(pc[v])
  BY DEF ShownRight
<1>1. CASE Over(pc[v])
  <2>1. response[v] \in Verdict /\ response[v] # None
    BY <1>1, OverMeansAnswer DEF RunInv, RunType
  <2>2. StatusOf(v) = response[v].status /\ response[v].status \in Terminal
    BY <2>1 DEF StatusOf, Verdict
  <2>3. Len(StatusOrder) = 5
    BY DEF StatusOrder
  <2>4. QED  BY <1>1, <2>1, <2>2, <2>3 DEF Rank
<1>2. CASE ~Over(pc[v])
  <2>1. StatusOf(v) = StatusOrder[Phase(pc[v])]
    BY <1>2, OverMeansAnswer DEF StatusOf, TalkInv, Told
  <2>2. QED  BY <1>2, <2>1, PhaseStatus, RankOfPhase
<1>3. QED  BY <1>1, <1>2

\* No step takes back what a client was told of an evaluation: its status moves
\* forward and its verdict stays.
LEMMA StatusKept ==
  ASSUME RunInv, RunInv', TalkInv, TalkInv', [Next]_vars, NEW v \in Evals
  PROVE  /\ Rank(StatusOf(v)) <= Rank(StatusOf(v)')
         /\ StatusOf(v) \in Terminal => StatusOf(v)' = StatusOf(v)
<1>1. \/ pc'[v] = pc[v] /\ response'[v] = response[v]
      \/ Silent(v) \/ Speaks(v) \/ Decides(v)
  <2>1. CASE UNCHANGED <<pc, response>>
    BY <2>1
  <2>2. ASSUME NEW w \in Evals, Moves(w), w # v
        PROVE  pc'[v] = pc[v] /\ response'[v] = response[v]
    BY <2>2 DEF Moves, Silent, Speaks, Decides, Conclude, RunInv, RunType
  <2>3. QED  BY <2>1, <2>2, NextMoves DEF Moves
<1>2. \/ Over(pc[v]) /\ Over(pc'[v]) /\ response'[v] = response[v]
      \/ ~Over(pc[v]) /\ ~Over(pc'[v]) /\ Phase(pc[v]) <= Phase(pc'[v])
      \/ ~Over(pc[v]) /\ Over(pc'[v])
  BY <1>1, PhaseStatus DEF Silent, Speaks, Decides
<1>3. ShownRight
  BY StatusShown
<1>4. ShownRight'
  BY StatusShown, PTL
<1>5. Phase(pc[v]) \in 1 .. 5 /\ Phase(pc'[v]) \in 1 .. 5
  BY PhaseStatus
<1>6. QED  BY <1>2, <1>3, <1>4, <1>5 DEF ShownRight

\* A client that polls a task never sees it go back, nor a verdict change, as
\* long as no other request takes the task over.
THEOREM StatusNeverGoesBack == Spec => StatusForward
<1> DEFINE Forward(t) ==
      registry[t] # None /\ registry'[t] = registry[t] =>
        /\ Rank(StatusOf(registry[t])) <= Rank(StatusOf(registry[t])')
        /\ StatusOf(registry[t]) \in Terminal =>
             StatusOf(registry[t])' = StatusOf(registry[t])
<1>1. ASSUME RunInv, RunInv', TalkInv, TalkInv', StreamInv, [Next]_vars,
             NEW t \in TaskIds
      PROVE  Forward(t)
  <2> SUFFICES ASSUME registry[t] # None, registry'[t] = registry[t]
               PROVE  /\ Rank(StatusOf(registry[t]))
                           <= Rank(StatusOf(registry[t])')
                      /\ StatusOf(registry[t]) \in Terminal =>
                           StatusOf(registry[t])' = StatusOf(registry[t])
    OBVIOUS
  <2>1. PICK v \in Evals : registry[t] = v
    BY <1>1 DEF StreamInv, RestType
  <2>2. /\ Rank(StatusOf(v)) <= Rank(StatusOf(v)')
        /\ StatusOf(v) \in Terminal => StatusOf(v)' = StatusOf(v)
    BY <1>1, StatusKept
  <2>3. StatusOf(registry[t]) = StatusOf(v)
    BY <2>1
  <2>4. StatusOf(registry[t])' = StatusOf(v)'
    BY <2>1 DEF StatusOf
  <2>5. QED  BY <2>2, <2>3, <2>4
<1>2. RunInv /\ RunInv' /\ TalkInv /\ TalkInv' /\ StreamInv /\ [Next]_vars
        => [\A t \in TaskIds : Forward(t)]_vars
  BY <1>1
<1>3. QED
  BY <1>2, RunInvariant, TalkInvariant, StreamInvariant, PTL
     DEF Spec, StatusForward
=============================================================================
