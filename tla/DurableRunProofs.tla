-------------------------- MODULE DurableRunProofs --------------------------
(* Theorems about a durable run, for every game, every budget and every    *)
(* number of operations: it is an execution of the store, and no action    *)
(* leaves the process before the store says that it may have.              *)
EXTENDS DurableRun, ExecutionStoreProofs, WellFoundedInduction

\* The phases in which the process works on an operation, and those in which it
\* acts on an observation.
OperationPhases ==
  {"dispatch", "send", "sent", "record", "settle", "witness", "recover", "resolve",
   "await", "awaited"}
ObservedPhases ==
  {"decide", "reserve", "invoke", "answer", "act", "witness", "awaited", "complete"}

\* What the memory of the process holds in each phase.
ProcessOK(p) ==
  /\ p \in Processes
  /\ p.phase \in OperationPhases => p.op \in Operations
  /\ p.phase \in ObservedPhases => p.obs \in Generations
  /\ p.phase = "resolve" /\ Final(p.status) => p.obs \in Generations

\* The same, for a process that is not about to send.
SafeNext(p) == ProcessOK(p) /\ p.phase # "send"

\* The wire, the host and the provider.
WorldOK ==
  /\ inputs \in [Decisions -> Generations \union {None}]
  /\ host \in [generation: Generations,
               ops: [Operations -> {"absent", "admitted", "settled", "rejected"}]]
  /\ wire \subseteq Operations
  /\ calls \in [Decisions -> Nat]

\* The store holds the operation for possibly sent.
Dispatched(o) == operations[o].state \notin {"absent", "intent_recorded"}

\* The inductive invariant of the run: that of the store, the shape of memory and
\* world, and, for DispatchRecorded, that the row is written before the request.
RunInv ==
  /\ IInv
  /\ ProcessOK(proc)
  /\ WorldOK
  /\ proc.phase = "send" => Dispatched(proc.op)
  /\ DispatchRecorded

-----------------------------------------------------------------------------
(* Sequence numbers.                                                       *)

\* A nonempty set of bounded natural numbers has a greatest element.
LEMMA GreatestExists ==
  ASSUME NEW n \in Nat, NEW S \in SUBSET (0..n), S # {}
  PROVE  \E s \in S : \A x \in S : x <= s
<1> DEFINE T == {t \in Nat : n - t \in S}
           R == OpToRel(<, Nat)
<1>1. T \subseteq Nat /\ T # {}
  <2>1. PICK s \in S : s \in 0..n
    OBVIOUS
  <2>2. n - s \in T
    BY <2>1
  <2>3. QED BY <2>2
<1>2. IsWellFoundedOn(R, Nat)
  BY NatLessThanWellFounded
<1>3. PICK t \in T : \A y \in T : ~(<<y, t>> \in R)
  <2> HIDE DEF T, R
  <2>1. QED BY <1>1, <1>2, WFMin, Zenon
<1>4. \A y \in T : ~(y < t)
  BY <1>1, <1>3 DEF OpToRel
<1>5. PICK s \in S : s = n - t
  BY <1>3
<1>6. ASSUME NEW x \in S PROVE x <= s
  <2>1. n - x \in T
    BY x \in 0..n, n - (n - x) = x
  <2>2. ~(n - x < t)
    BY <1>4, <2>1
  <2>3. x \in 0..n /\ t \in Nat
    BY <1>3
  <2>4. QED BY <1>5, <2>2, <2>3
<1>7. QED BY <1>6

-----------------------------------------------------------------------------
(* Continuations.                                                          *)

\* A continuation only names the next phase.
LEMMA GotoKeeps ==
  ASSUME NEW p \in Processes, NEW phase \in Phases
  PROVE  /\ Goto(p, phase) \in Processes
         /\ Goto(p, phase).phase = phase
         /\ Goto(p, phase).op = p.op
         /\ Goto(p, phase).obs = p.obs
         /\ Goto(p, phase).step = p.step
         /\ Goto(p, phase).status = p.status
<1>1. 0 \in 0..MaxAttempts + MaxPolls
  BY RunAssumption
<1>2. QED
  BY <1>1 DEF Goto, Processes

\* An error leaves nothing to be held.
LEMMA FailOK ==
  ASSUME NEW p \in Processes
  PROVE  SafeNext(Fail(p))
<1>1. "failing" \in Phases
  BY DEF Phases
<1>2. QED
  BY <1>1, GotoKeeps DEF Fail, SafeNext, ProcessOK, OperationPhases, ObservedPhases

\* The next step starts with an observation and without an operation, within the
\* limit of steps.
LEMMA NextStepOK ==
  ASSUME NEW p \in Processes
  PROVE  SafeNext(NextStep(p))
<1>1. CASE p.step + 1 < MaxSteps
  <2>1. p.step + 1 \in 0..MaxSteps - 1
    BY <1>1, RunAssumption DEF Processes
  <2>2. Goto(p, "observe") \in Processes /\ Goto(p, "observe").step = p.step
    BY GotoKeeps DEF Phases
  <2> DEFINE q == [Goto(p, "observe") EXCEPT !.step = @ + 1, !.op = None, !.status = "none"]
  <2>3. q \in Processes
    BY <2>1, <2>2 DEF Processes
  <2>4. q.phase = "observe"
    BY DEF Goto, Processes
  <2>5. NextStep(p) = q
    BY <1>1 DEF NextStep
  <2> HIDE DEF q
  <2>6. QED
    BY <2>3, <2>4, <2>5 DEF SafeNext, ProcessOK, OperationPhases, ObservedPhases
<1>2. CASE ~(p.step + 1 < MaxSteps)
  BY <1>2, FailOK DEF NextStep
<1>3. QED
  BY <1>1, <1>2

\* Routing an observation.
LEMMA RouteOK ==
  ASSUME NEW p \in Processes, p.obs \in Generations
  PROVE  SafeNext(Route(p))
<1>1. Stage[p.obs] \in {"ready", "blocked", "unknown", "terminal"}
  BY RunAssumption
<1>2. CASE Stage[p.obs] = "terminal"
  BY <1>2, GotoKeeps DEF Route, SafeNext, ProcessOK, OperationPhases, ObservedPhases, Phases
<1>3. CASE Stage[p.obs] = "blocked"
  <2>1. Goto(p, "idle") \in Processes /\ Goto(p, "idle").phase = "idle"
    BY GotoKeeps DEF Phases
  <2>2. QED
    BY <1>3, <2>1 DEF Route, Processes, SafeNext, ProcessOK, OperationPhases, ObservedPhases
<1>4. CASE Stage[p.obs] = "ready"
  BY <1>4, GotoKeeps DEF Route, SafeNext, ProcessOK, OperationPhases, ObservedPhases, Phases
<1>5. CASE Stage[p.obs] = "unknown"
  BY <1>5, FailOK DEF Route
<1>6. QED
  BY <1>1, <1>2, <1>3, <1>4, <1>5

\* Going on after a settled transition.
LEMMA SettledOK ==
  ASSUME NEW p \in Processes, p.obs \in Generations
  PROVE  SafeNext(Settled(p))
<1>1. CASE Stage[p.obs] = "terminal"
  BY <1>1, GotoKeeps DEF Settled, SafeNext, ProcessOK, OperationPhases, ObservedPhases, Phases
<1>2. CASE Stage[p.obs] = "unknown"
  BY <1>2, FailOK DEF Settled
<1>3. CASE Stage[p.obs] \notin {"terminal", "unknown"}
  BY <1>3, NextStepOK DEF Settled
<1>4. QED
  BY <1>1, <1>2, <1>3

\* A failed call is retried in the phase it is in, or ends the run.
LEMMA PortFailureOK ==
  ASSUME NEW p, SafeNext(p)
  PROVE  SafeNext(PortFailure(p))
<1>0. p \in Processes
  BY DEF SafeNext, ProcessOK
<1>1. CASE ~p.resuming /\ p.tries + 1 < MaxAttempts
  <2>1. p.tries + 1 \in 0..MaxAttempts + MaxPolls
    BY <1>0, <1>1, RunAssumption DEF Processes
  <2>2. QED
    BY <1>0, <1>1, <2>1 DEF PortFailure, SafeNext, ProcessOK, Processes
<1>2. CASE ~(~p.resuming /\ p.tries + 1 < MaxAttempts)
  BY <1>0, <1>2, FailOK DEF PortFailure
<1>3. QED
  BY <1>1, <1>2

\* An installed observation is the current one.
LEMMA InstalledKeeps ==
  ASSUME NEW p \in Processes, NEW g \in Generations, p.next <= MaxSequence
  PROVE  /\ Installed(p, g) \in Processes
         /\ Installed(p, g).obs = g
         /\ Installed(p, g).op = p.op
         /\ Installed(p, g).phase = p.phase
         /\ Installed(p, g).status = p.status
<1>1. p.next + 1 \in 0..MaxSequence + 1
  BY ConstantsAssumption DEF Processes
<1>2. QED
  BY <1>1 DEF Installed, Processes

\* Going on after a reconciliation.
LEMMA AfterReconcileOK ==
  ASSUME NEW p \in Processes, p.op \in Operations,
         p.status = "settled" => p.obs \in Generations
  PROVE  SafeNext(AfterReconcile(p))
<1>1. CASE p.resuming /\ Final(p.status)
  <2>0. Goto(p, "reconcile") \in Processes
    BY GotoKeeps DEF Phases
  <2>1. [Goto(p, "reconcile") EXCEPT !.op = None, !.status = "none"] \in Processes
    BY <2>0 DEF Processes
  <2>2. [Goto(p, "reconcile") EXCEPT !.op = None, !.status = "none"].phase = "reconcile"
    BY DEF Goto, Processes
  <2>3. QED
    BY <1>1, <2>1, <2>2
    DEF AfterReconcile, SafeNext, ProcessOK, OperationPhases, ObservedPhases
<1>2. CASE p.resuming /\ ~Final(p.status)
  BY <1>2, FailOK DEF AfterReconcile
<1>3. CASE ~p.resuming /\ p.status = "settled"
  BY <1>3, SettledOK DEF AfterReconcile
<1>4. CASE ~p.resuming /\ p.status = "rejected"
  BY <1>4, GotoKeeps
  DEF AfterReconcile, SafeNext, ProcessOK, OperationPhases, ObservedPhases, Phases
<1>5. CASE ~p.resuming /\ p.status \notin {"settled", "rejected"}
  BY <1>5, GotoKeeps
  DEF AfterReconcile, SafeNext, ProcessOK, OperationPhases, ObservedPhases, Phases
<1>6. QED
  BY <1>1, <1>2, <1>3, <1>4, <1>5

-----------------------------------------------------------------------------
(* Steps.                                                                  *)

\* The sequence counter that a process reads when it opens the store.
LEMMA SequenceOK ==
  ASSUME TypeOK
  PROVE  /\ NextSequence \in 0..MaxSequence + 1
         /\ NextSequence # 0 => NextSequence - 1 \in SequenceNumbers
         /\ LastCheckpoint \in Generations \union {None}
<1>1. RunAttempt \in Attempts
  BY RunAssumption DEF RunAttempt, Lineages
<1> DEFINE W == Written(RunAttempt)
<1>2. W \in SUBSET (0..MaxSequence)
  BY DEF Written, SequenceNumbers
<1>3. /\ NextSequence \in 0..MaxSequence + 1
      /\ NextSequence # 0 => NextSequence - 1 \in SequenceNumbers
  <2>1. CASE W = {}
    BY <2>1, ConstantsAssumption DEF NextSequence
  <2>2. CASE W # {}
    <3> DEFINE top == CHOOSE s \in W : \A x \in W : x <= s
    <3>0. MaxSequence \in Nat
      BY ConstantsAssumption
    <3> HIDE DEF W
    <3>1. \E s \in W : \A x \in W : x <= s
      BY <1>2, <2>2, <3>0, GreatestExists, Zenon
    <3>2. top \in W
      BY <3>1
    <3>3. top \in 0..MaxSequence
      BY <1>2, <3>2
    <3>4. NextSequence = 1 + top
      BY <2>2 DEF NextSequence, W
    <3> HIDE DEF top
    <3>5. QED
      BY <3>0, <3>3, <3>4 DEF SequenceNumbers
  <2>3. QED
    BY <2>1, <2>2
<1>4. LastCheckpoint \in Generations \union {None}
  <2>1. CASE NextSequence = 0
    BY <2>1 DEF LastCheckpoint
  <2>2. CASE NextSequence # 0
    <3>1. <<RunAttempt, NextSequence - 1>> \in Attempts \X SequenceNumbers
      BY <1>1, <1>3, <2>2
    <3>2. checkpoints[<<RunAttempt, NextSequence - 1>>] \in Boundaries \union {None}
      BY <3>1 DEF TypeOK
    <3>3. QED
      BY <2>2, <3>2, RunAssumption DEF LastCheckpoint
  <2>3. QED
    BY <2>1, <2>2
<1>5. QED
  BY <1>3, <1>4

\* An installed observation is a checkpoint of the store.
LEMMA InstallOK ==
  ASSUME RunInv, NEW p \in Processes, NEW g \in Generations, NEW q, Install(p, g, q)
  PROVE  Next /\ p.next <= MaxSequence /\ proc' = q
<1>1. p.next \in SequenceNumbers /\ p.next <= MaxSequence
  BY ConstantsAssumption DEF Install, Installable, Processes, SequenceNumbers
<1>2. RunLineage \in Lineages /\ g \in Boundaries
  BY RunAssumption
<1>3. SaveCheckpoint(RunLineage, p.next, g, attempts[RunAttempt].fingerprint)
  BY DEF Install
<1>4. attempts[RunAttempt].fingerprint \in Fingerprints
  <2>1. /\ episodes[RunLineage.episode].current = RunAttempt
        /\ episodes[RunLineage.episode].state = "active"
    BY <1>3 DEF SaveCheckpoint, CurrentLineage, RunAttempt
  <2>2. attempts[RunAttempt] \in AttemptRows
    BY <1>2, <2>1, ActiveEpisode DEF RunInv, Lineages
  <2>3. QED
    BY <2>2 DEF AttemptRows
<1>5. CheckpointStep
  BY <1>1, <1>2, <1>3, <1>4 DEF CheckpointStep
<1>6. QED
  BY <1>1, <1>5 DEF Next, Install

\* The store is not touched, or by one of its own operations.
StoreStep == [Next]_vars

\* The world outside of the process is left alone.
Aside == UNCHANGED <<inputs, host, wire, calls>>

\* A process that is down, and one that has just opened the store.
LEMMA DownOK == SafeNext(Down)
<1>1. /\ 0 \in 0..MaxSteps - 1 /\ 0 \in Generations /\ 0 \in 0..MaxSequence + 1
      /\ 0 \in 0..MaxAttempts + MaxPolls
  BY RunAssumption, ConstantsAssumption DEF Generations
<1>2. Down \in Processes
  BY <1>1 DEF Down, Processes, Phases
<1>3. QED
  BY <1>2 DEF Down, SafeNext, ProcessOK, OperationPhases, ObservedPhases

\* A process that has opened the store, new or resumed, begins by reconciling.
LEMMA OpenedOK ==
  ASSUME RunInv, NEW h \in BOOLEAN
  PROVE  SafeNext([Opened EXCEPT !.historical = h])
<1>1. Down \in Processes
  BY DownOK DEF SafeNext, ProcessOK
<1>2. NextSequence \in 0..MaxSequence + 1 /\ LastCheckpoint \in Generations \union {None}
  BY SequenceOK DEF RunInv, IInv
<1>3. Opened \in Processes
  BY <1>1, <1>2 DEF Opened, Processes, Phases
<1>4. Opened.phase = "reconcile"
  BY DEF Opened, Down
<1>5. [Opened EXCEPT !.historical = h] \in Processes
  BY <1>3 DEF Processes
<1>6. [Opened EXCEPT !.historical = h].phase = "reconcile"
  BY <1>3, <1>4 DEF Processes
<1>7. QED
  BY <1>5, <1>6 DEF SafeNext, ProcessOK, OperationPhases, ObservedPhases

\* Opening, launching and dying.
LEMMA LaunchSafe ==
  ASSUME RunInv, WorkerAdmits \/ OpenNew \/ OpenResume \/ LaunchStep \/ Crash
  PROVE  StoreStep /\ SafeNext(proc') /\ Aside
<1>0. ProcessOK(proc) /\ proc \in Processes /\ RunLineage \in Lineages
  BY RunAssumption DEF RunInv, ProcessOK
<1>1. CASE WorkerAdmits
  <2>1. EpisodeStep
    BY <1>0, <1>1 DEF WorkerAdmits, EpisodeStep
  <2>2. QED
    BY <1>0, <1>1, <2>1 DEF WorkerAdmits, runVars, StoreStep, Aside, Next, SafeNext
<1>2. CASE OpenNew
  <2>1. EpisodeStep
    BY <1>0, <1>2 DEF OpenNew, EpisodeStep
  <2>2. SafeNext(proc')
    BY <1>2, OpenedOK DEF OpenNew
  <2>3. QED
    BY <1>2, <2>1, <2>2 DEF OpenNew, StoreStep, Aside, Next
<1>3. CASE OpenResume
  <2>1. SafeNext(proc')
    BY <1>3, OpenedOK DEF OpenResume
  <2>2. QED
    BY <1>3, <2>1 DEF OpenResume, StoreStep, Aside
<1>4. CASE LaunchFails
  BY <1>0, <1>4, FailOK DEF LaunchFails, StoreStep, Aside
<1>5. CASE Launched
  <2>1. LastCheckpoint \in Generations \union {None}
    BY SequenceOK DEF RunInv, IInv
  <2>2. Goto(proc, "observe") \in Processes /\ Goto(proc, "observe").phase = "observe"
    BY <1>0, GotoKeeps DEF Phases
  <2> DEFINE q == [Goto(proc, "observe") EXCEPT
                     !.boundary = LastCheckpoint, !.resuming = FALSE, !.op = None]
  <2>3. q \in Processes /\ q.phase = "observe"
    BY <2>1, <2>2 DEF Processes
  <2>4. proc' = q
    BY <1>5 DEF Launched
  <2> HIDE DEF q
  <2>5. SafeNext(proc')
    BY <2>3, <2>4 DEF SafeNext, ProcessOK, OperationPhases, ObservedPhases
  <2>6. QED
    BY <1>5, <2>5 DEF Launched, StoreStep, Aside
<1>6. ASSUME NEW o \in Operations, ReconcileRetained(o)
      PROVE  StoreStep /\ SafeNext(proc') /\ Aside
  <2>1. Goto(proc, "recover") \in Processes /\ Goto(proc, "recover").phase = "recover"
    BY <1>0, GotoKeeps DEF Phases
  <2> DEFINE q == [Goto(proc, "recover") EXCEPT !.op = o, !.resuming = TRUE]
  <2>2. q \in Processes /\ q.phase = "recover" /\ q.op = o
    BY <2>1 DEF Processes
  <2>3. proc' = q
    BY <1>6 DEF ReconcileRetained
  <2> HIDE DEF q
  <2>4. SafeNext(proc')
    BY <2>2, <2>3 DEF SafeNext, ProcessOK, OperationPhases, ObservedPhases
  <2>5. QED
    BY <1>6, <2>4 DEF ReconcileRetained, StoreStep, Aside
<1>7. CASE Crash
  BY <1>7, DownOK DEF Crash, StoreStep, Aside
<1>8. QED
  BY <1>1, <1>2, <1>3, <1>4, <1>5, <1>6, <1>7 DEF LaunchStep

\* Observing: every observation is a checkpoint, every failure an end or a retry.
LEMMA ObserveSafe ==
  ASSUME RunInv, ObserveStep
  PROVE  StoreStep /\ SafeNext(proc') /\ Aside
<1>0. /\ ProcessOK(proc) /\ proc \in Processes /\ host.generation \in Generations
      /\ MaxSequence \in Nat
  BY ConstantsAssumption DEF RunInv, ProcessOK, WorldOK
<1> DEFINE g == host.generation
           p == Installed(proc, g)
<1>1. ASSUME NEW q, Install(proc, g, q)
      PROVE  /\ StoreStep /\ proc' = q
             /\ p \in Processes /\ p.obs \in Generations /\ p.phase = proc.phase
  <2>1. Next /\ proc.next <= MaxSequence /\ proc' = q
    BY <1>0, <1>1, InstallOK
  <2>2. QED
    BY <1>0, <2>1, InstalledKeeps DEF StoreStep
<1> HIDE DEF p, g
<1>2. CASE Observe
  <2> DEFINE q == IF Stage[g] = "unknown" THEN Goto(p, "refresh") ELSE Route(p)
  <2>1. Install(proc, g, q) /\ Aside
    BY <1>2 DEF Observe, Aside, p, g
  <2>2. SafeNext(Route(p))
    BY <1>1, <2>1, RouteOK
  <2>3. SafeNext(Goto(p, "refresh"))
    BY <1>1, <2>1, GotoKeeps DEF SafeNext, ProcessOK, OperationPhases, ObservedPhases, Phases
  <2>4. QED
    BY <1>1, <2>1, <2>2, <2>3
<1>3. CASE ObserveFails
  BY <1>0, <1>3, FailOK DEF ObserveFails, StoreStep, Aside
<1>4. CASE Reobserve
  <2> DEFINE q == CASE Stage[g] = "unknown" -> Fail(p)
                    [] Stage[g] # "unknown" /\ proc.phase = "refresh" -> Route(p)
                    [] OTHER -> NextStep(p)
  <2>1. Install(proc, g, q) /\ Aside
    BY <1>4 DEF Reobserve, Aside, p, g
  <2>2. SafeNext(Route(p)) /\ SafeNext(Fail(p)) /\ SafeNext(NextStep(p))
    BY <1>1, <2>1, RouteOK, FailOK, NextStepOK
  <2>3. SafeNext(q)
    BY <2>2
  <2>4. QED
    BY <1>1, <2>1, <2>3
<1>5. CASE ReobserveFails
  <2>1. SafeNext(proc)
    BY <1>0, <1>5 DEF ReobserveFails, SafeNext
  <2>2. SafeNext(PortFailure(proc)) /\ SafeNext(Fail(proc))
    BY <1>0, <2>1, FailOK, PortFailureOK
  <2>3. QED
    BY <1>5, <2>2 DEF ReobserveFails, StoreStep, Aside
<1>6. CASE IdlePoll
  <2> DEFINE q == CASE g > proc.before /\ proc.phase = "idle" ->
                         IF Stage[g] = "blocked" THEN NextStep(p) ELSE Route(p)
                    [] g > proc.before /\ proc.phase = "pause" ->
                         IF Stage[g] = "unknown" THEN Fail(p) ELSE NextStep(p)
                    [] g <= proc.before /\ proc.tries + 1 < MaxPolls -> [p EXCEPT !.tries = @ + 1]
                    [] OTHER -> IF proc.phase = "idle" THEN Fail(p) ELSE Goto(p, "reobserve")
  <2>1. Install(proc, g, q) /\ Aside
    BY <1>6 DEF IdlePoll, Aside, p, g
  <2>2. SafeNext(Route(p)) /\ SafeNext(Fail(p)) /\ SafeNext(NextStep(p))
    BY <1>1, <2>1, RouteOK, FailOK, NextStepOK
  <2>3. SafeNext(Goto(p, "reobserve"))
    BY <1>1, <2>1, GotoKeeps DEF SafeNext, ProcessOK, OperationPhases, ObservedPhases, Phases
  <2>4. ASSUME proc.tries + 1 < MaxPolls PROVE SafeNext([p EXCEPT !.tries = @ + 1])
    <3>1. p \in Processes /\ p.tries = proc.tries /\ p.phase \in {"idle", "pause"}
      BY <1>0, <1>1, <1>6, <2>1 DEF IdlePoll, p, Installed, Processes
    <3>2. p.tries + 1 \in 0..MaxAttempts + MaxPolls
      BY <2>4, <3>1, RunAssumption DEF Processes
    <3>3. [p EXCEPT !.tries = @ + 1] \in Processes
      BY <3>1, <3>2 DEF Processes
    <3>4. [p EXCEPT !.tries = @ + 1].phase \in {"idle", "pause"}
      BY <3>1 DEF Processes
    <3>5. QED
      BY <3>3, <3>4 DEF SafeNext, ProcessOK, OperationPhases, ObservedPhases
  <2>5. SafeNext(q)
    BY <2>2, <2>3, <2>4
  <2>6. QED
    BY <1>1, <2>1, <2>5
<1>7. CASE PauseFails
  BY <1>0, <1>7, GotoKeeps
  DEF PauseFails, StoreStep, Aside, SafeNext, ProcessOK, OperationPhases, ObservedPhases, Phases
<1>8. QED
  BY <1>2, <1>3, <1>4, <1>5, <1>6, <1>7 DEF ObserveStep

\* Deciding: the execution id of a step names a decision and its reservation.
LEMMA DecideSafe ==
  ASSUME RunInv, DecideStep
  PROVE  StoreStep /\ SafeNext(proc') /\ WorldOK' /\ UNCHANGED <<host, wire>>
<1>0. /\ ProcessOK(proc) /\ proc \in Processes /\ WorldOK
      /\ RunLineage \in Lineages
  BY RunAssumption DEF RunInv, ProcessOK
<1>1. Execution \in Decisions /\ Execution \in Reservations /\ Execution \in ProviderExecutions
  BY <1>0, RunAssumption DEF Execution, Processes
<1>2. MaxUnits \in Units /\ 0 \in Units \union {0} /\ MaxUnits \in Units \union {0}
  BY ConstantsAssumption DEF Units
<1>3. ASSUME Aside PROVE WorldOK' /\ UNCHANGED <<host, wire>>
  BY <1>0, <1>3 DEF Aside, WorldOK
<1>4. SafeNext(Fail(proc))
  BY <1>0, FailOK
<1>5. ASSUME NEW phase \in {"reserve", "invoke", "answer", "act"},
             proc.phase \in {"decide", "reserve", "invoke", "answer"}
      PROVE  SafeNext(Goto(proc, phase))
  BY <1>0, <1>5, GotoKeeps DEF SafeNext, ProcessOK, OperationPhases, ObservedPhases, Phases
<1>6. CASE DecideFails
  BY <1>3, <1>4, <1>6 DEF DecideFails, StoreStep, Aside
<1>7. CASE ReuseDecision
  BY <1>3, <1>5, <1>7 DEF ReuseDecision, StoreStep, Aside
<1>8. CASE DecideFresh
  <2>1. ProviderStep
    BY <1>0, <1>1, <1>8 DEF DecideFresh, ProviderStep
  <2>2. proc.obs \in Generations
    BY <1>0, <1>8 DEF DecideFresh, ProcessOK, ObservedPhases
  <2>3. inputs' \in [Decisions -> Generations \union {None}]
    BY <1>0, <1>8, <2>2 DEF DecideFresh, WorldOK
  <2>4. WorldOK'
    BY <1>0, <1>8, <2>3 DEF DecideFresh, WorldOK
  <2>5. QED
    BY <1>5, <1>8, <2>1, <2>4 DEF DecideFresh, StoreStep, Next
<1>9. CASE Reserve
  <2>1. StoreStep
    BY <1>1, <1>2, <1>9 DEF Reserve, StoreStep, ProviderStep, Next
  <2>2. QED
    BY <1>3, <1>5, <1>9, <2>1 DEF Reserve, Aside
<1>10. CASE Invoke
  <2>1. calls' \in [Decisions -> Nat]
    BY <1>0, <1>1, <1>10 DEF Invoke, WorldOK
  <2>2. WorldOK'
    BY <1>0, <1>10, <2>1 DEF Invoke, WorldOK
  <2>3. QED
    BY <1>5, <1>10, <2>2 DEF Invoke, StoreStep
<1>11. CASE InvokeNotStarted
  <2>1. StoreStep
    BY <1>1, <1>2, <1>11 DEF InvokeNotStarted, StoreStep, ProviderStep, Next
  <2>2. QED
    BY <1>3, <1>4, <1>11, <2>1 DEF InvokeNotStarted, Aside
<1>12. CASE AnswerDecision
  <2>1. StoreStep
    BY <1>1, <1>2, <1>12 DEF AnswerDecision, StoreStep, ProviderStep, Next
  <2>2. QED
    BY <1>3, <1>5, <1>12, <2>1 DEF AnswerDecision, Aside
<1>13. CASE AnswerFails
  <2>1. StoreStep
    BY <1>1, <1>2, <1>13 DEF AnswerFails, StoreStep, ProviderStep, Next
  <2>2. QED
    BY <1>3, <1>4, <1>13, <2>1 DEF AnswerFails, Aside
<1>14. QED
  BY <1>6, <1>7, <1>8, <1>9, <1>10, <1>11, <1>12, <1>13 DEF DecideStep

\* A result or a reconciliation of a stored operation is a step of the store.
LEMMA ResultStep ==
  ASSUME RunInv, NEW o \in Operations, NEW state, NEW result \in Results \union {None},
         RecordOperationResult(o, operations[o].payload, state, result)
  PROVE  Next
<1>1. operations[o] \in OperationRows
  BY DEF RecordOperationResult, TransitionOperation, Exists, RunInv, IInv, TypeOK, NoOperation
<1>2. operations[o].payload \in Payloads
  BY <1>1 DEF OperationRows
<1>3. state \in OperationStates
  BY DEF RecordOperationResult, OperationStates, UnresolvedOperationStates, ResolvedOperationStates
<1>4. QED
  BY <1>2, <1>3 DEF Next, OperationStep

\* Reconciling an operation with its own payload is a step of the store.
LEMMA ReconcileStep ==
  ASSUME RunInv, NEW o \in Operations, NEW result \in Results,
         ReconcileOperation(o, operations[o].payload, result)
  PROVE  Next
<1>1. operations[o] \in OperationRows
  BY DEF ReconcileOperation, TransitionOperation, Exists, RunInv, IInv, TypeOK, NoOperation
<1>2. operations[o].payload \in Payloads
  BY <1>1 DEF OperationRows
<1>3. QED
  BY <1>2 DEF Next, OperationStep

\* So is resolving it as settled, as the recovery does.
LEMMA ReconcileSettledStep ==
  ASSUME RunInv, NEW o \in Operations, ReconcileSettled(o)
  PROVE  StoreStep
<1>1. "settled" \in Results
  BY RunAssumption DEF Statuses
<1>2. QED
  BY <1>1, ReconcileStep DEF ReconcileSettled, StoreStep

\* Acting, but for the two steps that put a request on the wire.
LEMMA ActSafe ==
  ASSUME RunInv, ActStep, ~MarkDispatched, ~Send
  PROVE  StoreStep /\ SafeNext(proc') /\ Aside
<1>0. /\ ProcessOK(proc) /\ proc \in Processes /\ host.generation \in Generations
      /\ RunLineage \in Lineages
  BY RunAssumption DEF RunInv, ProcessOK, WorldOK
<1>1. Results = Statuses \union {"terminal"} /\ Payloads = Generations
  BY RunAssumption
<1>2. ASSUME NEW phase \in {"reobserve", "recover", "settle"},
             phase = "reobserve" \/ proc.op \in Operations
      PROVE  SafeNext(Goto(proc, phase))
  BY <1>0, <1>2, GotoKeeps DEF SafeNext, ProcessOK, OperationPhases, ObservedPhases, Phases
<1>3. ASSUME NEW phase \in {"dispatch", "pause"}, proc.phase = "act",
             NEW o \in Operations \union {None}, phase = "dispatch" => o \in Operations
      PROVE  SafeNext([Goto(proc, phase) EXCEPT !.op = o, !.before = proc.obs])
  <2>1. Goto(proc, phase) \in Processes /\ Goto(proc, phase).phase = phase
    BY <1>0, GotoKeeps DEF Phases
  <2>2. proc.obs \in Generations
    BY <1>0, <1>3 DEF ProcessOK, ObservedPhases
  <2> DEFINE q == [Goto(proc, phase) EXCEPT !.op = o, !.before = proc.obs]
  <2>3. q \in Processes /\ q.phase = phase /\ q.op = o
    BY <2>1, <2>2 DEF Processes
  <2> HIDE DEF q
  <2>4. SafeNext(q)
    BY <1>3, <2>3 DEF SafeNext, ProcessOK, OperationPhases, ObservedPhases
  <2>5. QED
    BY <2>4 DEF q
<1>4. ASSUME NEW o \in Operations, RecordIntent(o)
      PROVE  StoreStep /\ SafeNext(proc') /\ Aside
  <2>1. proc.obs \in Payloads
    BY <1>0, <1>1, <1>4 DEF RecordIntent, ProcessOK, ObservedPhases
  <2>2. OperationStep
    BY <1>0, <1>4, <2>1 DEF RecordIntent, OperationStep
  <2>3. SafeNext(proc')
    BY <1>3, <1>4 DEF RecordIntent
  <2>4. QED
    BY <1>4, <2>2, <2>3 DEF RecordIntent, StoreStep, Next, Aside
<1>5. CASE ChooseWait
  <2>1. Goto(proc, "pause") \in Processes /\ Goto(proc, "pause").phase = "pause"
    BY <1>0, GotoKeeps DEF Phases
  <2>2. proc.obs \in Generations
    BY <1>0, <1>5 DEF ChooseWait, ProcessOK, ObservedPhases
  <2> DEFINE q == [Goto(proc, "pause") EXCEPT !.before = proc.obs]
  <2>3. q \in Processes /\ q.phase = "pause"
    BY <2>1, <2>2 DEF Processes
  <2>4. proc' = q
    BY <1>5 DEF ChooseWait
  <2> HIDE DEF q
  <2>5. SafeNext(proc')
    BY <2>3, <2>4 DEF SafeNext, ProcessOK, OperationPhases, ObservedPhases
  <2>6. QED
    BY <1>5, <2>5 DEF ChooseWait, StoreStep, Aside
<1>6. CASE ChooseReobserve
  BY <1>2, <1>6 DEF ChooseReobserve, StoreStep, Aside
<1>7. CASE ActFails
  BY <1>0, <1>7, FailOK DEF ActFails, StoreStep, Aside
<1>8. CASE DispatchLost
  <2>1. proc.op \in Operations
    BY <1>0, <1>8 DEF DispatchLost, ProcessOK, OperationPhases
  <2>2. QED
    BY <1>2, <1>8, <2>1 DEF DispatchLost, StoreStep, Aside
<1>9. CASE RecordReceipt
  <2>1. proc.op \in Operations
    BY <1>0, <1>9 DEF RecordReceipt, ProcessOK, OperationPhases
  <2>2. proc.status \in Statuses
    BY <1>9 DEF RecordReceipt, RecordOperationResult, Statuses
  <2>3. Next
    BY <1>1, <1>9, <2>1, <2>2, ResultStep DEF RecordReceipt
  <2>4. SafeNext(AfterDispatch(proc))
    BY <1>2, <2>1, <2>2 DEF AfterDispatch, Statuses
  <2>5. QED
    BY <1>9, <2>3, <2>4 DEF RecordReceipt, StoreStep, Aside
<1>10. ASSUME NEW status \in Statuses, DispatchAnswered(status)
       PROVE  StoreStep /\ SafeNext(proc') /\ Aside
  <2>0. proc.op \in Operations
    BY <1>0, <1>10 DEF DispatchAnswered, ProcessOK, OperationPhases
  <2>1. ASSUME NEW p \in Processes, p.op \in Operations
        PROVE  SafeNext([Goto(p, "record") EXCEPT !.status = status])
    <3>1. Goto(p, "record") \in Processes /\ Goto(p, "record").phase = "record"
          /\ Goto(p, "record").op \in Operations
      BY <2>1, GotoKeeps DEF Phases
    <3> DEFINE q == [Goto(p, "record") EXCEPT !.status = status]
    <3>2. q \in Processes /\ q.phase = "record" /\ q.op \in Operations
      BY <3>1 DEF Processes
    <3> HIDE DEF q
    <3>3. SafeNext(q)
      BY <3>2 DEF SafeNext, ProcessOK, OperationPhases, ObservedPhases
    <3>4. QED
      BY <3>3 DEF q
  <2>2. CASE status = "unknown"
    BY <1>0, <1>10, <2>0, <2>1, <2>2 DEF DispatchAnswered, StoreStep, Aside
  <2>3. CASE status # "unknown"
    <3> DEFINE p == Installed(proc, host.generation)
               q == [Goto(p, "record") EXCEPT !.status = status]
    <3>1. Install(proc, host.generation, q)
      BY <1>10, <2>3 DEF DispatchAnswered
    <3> HIDE DEF q
    <3>2. Next /\ proc.next <= MaxSequence /\ proc' = q
      BY <1>0, <3>1, InstallOK
    <3>3. p \in Processes /\ p.op = proc.op
      BY <1>0, <3>2, InstalledKeeps
    <3> HIDE DEF p
    <3>4. SafeNext(q)
      BY <2>0, <2>1, <3>3 DEF q
    <3>5. QED
      BY <1>10, <3>2, <3>4 DEF DispatchAnswered, StoreStep, Aside
  <2>4. QED
    BY <2>2, <2>3
<1>11. CASE WaitWitnessed
  <2>0. proc.op \in Operations
    BY <1>0, <1>11 DEF WaitWitnessed, ProcessOK, OperationPhases
  <2> DEFINE p == Installed(proc, host.generation)
             q == Goto(p, IF proc.phase = "settle" THEN "witness" ELSE "awaited")
  <2>1. Install(proc, host.generation, q)
    BY <1>11 DEF WaitWitnessed
  <2> HIDE DEF q
  <2>2. Next /\ proc.next <= MaxSequence /\ proc' = q
    BY <1>0, <2>1, InstallOK
  <2>3. p \in Processes /\ p.op = proc.op /\ p.obs \in Generations
    BY <1>0, <2>2, InstalledKeeps
  <2> HIDE DEF p
  <2>4. SafeNext(q)
    BY <2>0, <2>3, GotoKeeps DEF q, SafeNext, ProcessOK, OperationPhases, ObservedPhases, Phases
  <2>5. QED
    BY <1>11, <2>2, <2>4 DEF WaitWitnessed, StoreStep, Aside
<1>12. CASE WaitFails
  <2>0. proc.op \in Operations
    BY <1>0, <1>12 DEF WaitFails, ProcessOK, OperationPhases
  <2>1. SafeNext(Goto(proc, "recover")) /\ SafeNext(Fail(proc))
    BY <1>0, <1>2, <2>0, FailOK
  <2>2. QED
    BY <1>12, <2>1 DEF WaitFails, StoreStep, Aside
<1>13. CASE RecordWait
  <2>0. proc.op \in Operations /\ proc.obs \in Generations
    BY <1>0, <1>13 DEF RecordWait, ProcessOK, OperationPhases, ObservedPhases
  <2>1. StoreStep
    BY <1>13, <2>0, ReconcileSettledStep DEF RecordWait
  <2>2. SafeNext(Goto(proc, "recover")) /\ SafeNext(Settled(proc))
    BY <1>0, <1>2, <2>0, SettledOK
  <2>3. QED
    BY <1>13, <2>1, <2>2 DEF RecordWait, Aside
<1>14. QED
  BY <1>4, <1>5, <1>6, <1>7, <1>8, <1>9, <1>10, <1>11, <1>12, <1>13 DEF ActStep

\* What a reconciliation writes is a step of the store.
LEMMA RecordReconciledStep ==
  ASSUME RunInv, NEW o \in Operations, NEW status, RecordReconciled(o, status)
  PROVE  StoreStep
<1>1. {"settled", "rejected", "accepted", "unknown"} \subseteq Results
  BY RunAssumption DEF Statuses
<1>2. CASE status = "settled"
  BY <1>1, <1>2, ReconcileSettledStep, ReconcileStep DEF RecordReconciled, StoreStep
<1>3. CASE status = "rejected"
  BY <1>1, <1>3, ReconcileStep DEF RecordReconciled, StoreStep
<1>4. CASE status = "accepted"
  BY <1>1, <1>4, ResultStep DEF RecordReconciled, StoreStep
<1>5. CASE status = "unknown"
  BY <1>1, <1>5, ResultStep DEF RecordReconciled, StoreStep
<1>6. QED
  BY <1>2, <1>3, <1>4, <1>5 DEF RecordReconciled

\* Reconciling: nothing is begun, and a final answer comes with an observation.
LEMMA RecoverSafe ==
  ASSUME RunInv, RecoverStep
  PROVE  StoreStep /\ SafeNext(proc') /\ Aside
<1>0. ProcessOK(proc) /\ proc \in Processes /\ host.generation \in Generations
  BY DEF RunInv, ProcessOK, WorldOK
<1>1. proc.op \in Operations /\ proc.phase # "send" /\ SafeNext(proc)
  BY <1>0
  DEF RecoverStep, ReconcileAnswered, ReconcileLost, Resolve, ResolveFails,
      ProcessOK, OperationPhases, SafeNext
<1>2. ASSUME NEW status \in Statuses, ReconcileAnswered(status)
      PROVE  StoreStep /\ SafeNext(proc') /\ Aside
  <2>1. CASE Final(status)
    <3> DEFINE b == [proc EXCEPT !.boundary = None, !.status = status]
               p == Installed(b, host.generation)
               q == [p EXCEPT !.phase = "resolve"]
    <3>1. b \in Processes /\ b.op = proc.op
      BY <1>0, <1>2 DEF Processes
    <3>2. Install(b, host.generation, q)
      BY <1>2, <2>1 DEF ReconcileAnswered
    <3> HIDE DEF b, q
    <3>3. Next /\ b.next <= MaxSequence /\ proc' = q
      BY <1>0, <3>1, <3>2, InstallOK
    <3>4. p \in Processes /\ p.op = proc.op /\ p.obs \in Generations
      BY <1>0, <3>1, <3>3, InstalledKeeps
    <3> HIDE DEF p
    <3>5. q \in Processes /\ q.phase = "resolve" /\ q.op = proc.op /\ q.obs \in Generations
      BY <3>4 DEF q, Processes, Phases
    <3>6. SafeNext(q)
      BY <1>1, <3>5 DEF SafeNext, ProcessOK, OperationPhases, ObservedPhases
    <3>7. QED
      BY <1>2, <3>3, <3>6 DEF ReconcileAnswered, StoreStep, Aside
  <2>2. CASE ~Final(status) /\ proc.historical
    <3> DEFINE b == [proc EXCEPT !.status = "unknown"]
    <3>1. b \in Processes /\ b.op = proc.op /\ b.status = "unknown"
      BY <1>0 DEF Processes, Statuses
    <3>2. proc' = AfterReconcile(b)
      BY <1>2, <2>2 DEF ReconcileAnswered
    <3> HIDE DEF b
    <3>3. SafeNext(proc')
      BY <1>1, <3>1, <3>2, AfterReconcileOK
    <3>4. QED
      BY <1>2, <2>2, <3>3 DEF ReconcileAnswered, StoreStep, Aside
  <2>3. CASE ~Final(status) /\ ~proc.historical
    <3> DEFINE q == [proc EXCEPT !.status = status, !.phase = "resolve"]
    <3>1. q \in Processes /\ q.op = proc.op /\ q.status = status /\ q.phase = "resolve"
      BY <1>0, <1>2 DEF Processes, Phases
    <3>2. proc' = q
      BY <1>2, <2>3 DEF ReconcileAnswered
    <3> HIDE DEF q
    <3>3. SafeNext(proc')
      BY <1>1, <2>3, <3>1, <3>2 DEF SafeNext, ProcessOK, OperationPhases, ObservedPhases
    <3>4. QED
      BY <1>2, <2>3, <3>3 DEF ReconcileAnswered, StoreStep, Aside
  <2>4. QED
    BY <2>1, <2>2, <2>3
<1>3. CASE ReconcileLost
  <2>1. SafeNext(PortFailure(proc)) /\ SafeNext(Fail(proc))
    BY <1>0, <1>1, FailOK, PortFailureOK
  <2>2. QED
    BY <1>3, <2>1 DEF ReconcileLost, StoreStep, Aside
<1>4. CASE Resolve
  <2>1. StoreStep
    BY <1>1, <1>4, RecordReconciledStep DEF Resolve
  <2>2. proc.status = "settled" => proc.obs \in Generations
    BY <1>0, <1>4 DEF Resolve, ProcessOK, Final
  <2>3. SafeNext(AfterReconcile(proc))
    BY <1>0, <1>1, <2>2, AfterReconcileOK
  <2>4. QED
    BY <1>4, <2>1, <2>3 DEF Resolve, Aside
<1>5. CASE ResolveFails
  <2> DEFINE q == [proc EXCEPT !.phase = "recover"]
  <2>1. q \in Processes /\ q.phase = "recover" /\ q.op = proc.op
    BY <1>0 DEF Processes, Phases
  <2>2. proc' = PortFailure(q)
    BY <1>5 DEF ResolveFails
  <2> HIDE DEF q
  <2>3. SafeNext(q)
    BY <1>1, <2>1 DEF SafeNext, ProcessOK, OperationPhases, ObservedPhases
  <2>4. SafeNext(proc')
    BY <2>2, <2>3, PortFailureOK
  <2>5. QED
    BY <1>5, <2>4 DEF ResolveFails, StoreStep, Aside
<1>6. QED
  BY <1>2, <1>3, <1>4, <1>5 DEF RecoverStep

\* Ending: a completion names the last checkpoint of the attempt.
LEMMA EndSafe ==
  ASSUME RunInv, EndStep
  PROVE  StoreStep /\ SafeNext(proc') /\ Aside
<1>0. ProcessOK(proc) /\ proc \in Processes /\ RunLineage \in Lineages
  BY RunAssumption DEF RunInv, ProcessOK
<1>1. CASE Complete
  <2>1. proc.obs \in Generations
    BY <1>0, <1>1 DEF Complete, ProcessOK, ObservedPhases
  <2>2. proc.obs # None
    BY <2>1, RunAssumption, ConstantsAssumption
  <2>3. NextSequence # 0
    BY <1>1, <2>2 DEF Complete, LastCheckpoint
  <2>4. proc.next - 1 \in SequenceNumbers
    BY <1>1, <2>3, SequenceOK DEF Complete, RunInv, IInv
  <2>5. "completed" \in CompletionStatus /\ "terminal" \in Results
    BY RunAssumption DEF CompletionStatus
  <2>6. CheckpointStep
    BY <1>0, <1>1, <2>4, <2>5 DEF Complete, CheckpointStep
  <2>7. QED
    BY <1>1, <2>6, DownOK DEF Complete, StoreStep, Next, Aside
<1>2. CASE CompleteFails
  BY <1>0, <1>2, FailOK DEF CompleteFails, StoreStep, Aside
<1>3. CASE MarkInterrupted
  <2>1. RunEpisode \in Episodes
    BY <1>0 DEF RunEpisode, Lineages
  <2>2. EpisodeStep
    BY <1>3, <2>1 DEF MarkInterrupted, EpisodeStep
  <2>3. QED
    BY <1>3, <2>2, DownOK DEF MarkInterrupted, StoreStep, Next, Aside
<1>4. QED
  BY <1>1, <1>2, <1>3 DEF EndStep

-----------------------------------------------------------------------------
(* Requests.                                                               *)

\* No operation of the store takes back that an operation may have been sent.
LEMMA DispatchedForever ==
  ASSUME TypeOK, StoreStep, NEW o \in Operations, Dispatched(o)
  PROVE  Dispatched(o)'
<1>1. CASE operations' = operations
  BY <1>1 DEF Dispatched
<1>2. ASSUME NEW l \in Lineages, NEW x \in Operations, NEW p \in Payloads,
             RecordOperationIntent(l, x, p)
      PROVE  Dispatched(o)'
  <2>1. x # o
    BY <1>2 DEF RecordOperationIntent, Exists, Dispatched
  <2>2. QED
    BY <1>2, <2>1 DEF RecordOperationIntent, Dispatched, TypeOK
<1>3. ASSUME NEW x \in Operations, NEW p, NEW state, NEW result,
             TransitionOperation(x, p, state, result)
      PROVE  Dispatched(o)'
  <2>1. state \notin {"absent", "intent_recorded"}
    BY <1>3 DEF TransitionOperation, ValidTransition
  <2>2. CASE x = o
    BY <1>3, <2>1, <2>2 DEF TransitionOperation, Dispatched, TypeOK, OperationRows, NoOperation
  <2>3. CASE x # o
    BY <1>3, <2>3 DEF TransitionOperation, Dispatched, TypeOK
  <2>4. QED
    BY <2>2, <2>3
<1>4. CASE OperationStep
  BY <1>2, <1>3, <1>4
  DEF OperationStep, MarkOperationDispatched, RecordOperationResult, ReconcileOperation
<1>5. CASE EpisodeStep
  BY <1>1, <1>5
  DEF EpisodeStep, StartNewEpisode, StartKnownEpisode, MarkInterruptedUnknown,
      RecordRecoveryDisposition, ReconstructAttempt, SupersedeAttempt
<1>6. CASE ProviderStep
  BY <1>1, <1>6
  DEF ProviderStep, RecordDecision, ReserveProvider, CompleteProvider, FailProvider,
      MarkProviderUnknown, FinishProvider
<1>7. CASE CheckpointStep
  BY <1>1, <1>7 DEF CheckpointStep, SaveCheckpoint, RecordCompletion
<1>8. QED
  BY <1>1, <1>4, <1>5, <1>6, <1>7 DEF StoreStep, Next, vars

\* The row says that the operation may have been dispatched ...
LEMMA MarkDispatchedSafe ==
  ASSUME RunInv, MarkDispatched
  PROVE  /\ StoreStep /\ Aside /\ ProcessOK(proc')
         /\ Dispatched(proc.op)'
<1>0. ProcessOK(proc) /\ proc \in Processes /\ TypeOK
  BY DEF RunInv, ProcessOK, IInv
<1>1. proc.op \in Operations
  BY <1>0 DEF MarkDispatched, ProcessOK, OperationPhases
<1>2. operations[proc.op] \in OperationRows
  BY <1>0, <1>1
  DEF MarkDispatched, MarkOperationDispatched, TransitionOperation, Exists, TypeOK, NoOperation
<1>3. operations[proc.op].payload \in Payloads
  BY <1>2 DEF OperationRows
<1>4. StoreStep
  BY <1>1, <1>3 DEF MarkDispatched, OperationStep, Next, StoreStep
<1>5. proc' = Goto(proc, "send") /\ proc' \in Processes /\ proc'.phase = "send"
      /\ proc'.op = proc.op
  BY <1>0, GotoKeeps DEF MarkDispatched, Phases
<1>6. operations'[proc.op].state = "may_have_been_dispatched"
  BY <1>0, <1>1, <1>2
  DEF MarkDispatched, MarkOperationDispatched, TransitionOperation, TypeOK, OperationRows
<1>7. Dispatched(proc.op)'
  BY <1>5, <1>6 DEF Dispatched
<1>8. QED
  BY <1>1, <1>4, <1>5, <1>7
  DEF MarkDispatched, Aside, ProcessOK, OperationPhases, ObservedPhases

\* ... before the request is sent.
LEMMA SendSafe ==
  ASSUME RunInv, Send
  PROVE  /\ UNCHANGED <<vars, inputs, host, calls>> /\ SafeNext(proc')
         /\ proc.op \in Operations /\ Dispatched(proc.op)
         /\ wire' = wire \union {proc.op}
<1>0. ProcessOK(proc) /\ proc \in Processes
  BY DEF RunInv, ProcessOK
<1>1. proc.op \in Operations /\ Dispatched(proc.op)
  BY <1>0 DEF Send, ProcessOK, OperationPhases, RunInv
<1>2. SafeNext(proc')
  BY <1>0, <1>1, GotoKeeps
  DEF Send, SafeNext, ProcessOK, OperationPhases, ObservedPhases, Phases
<1>3. QED
  BY <1>1, <1>2 DEF Send

\* The host and the wire only deal with requests that were sent.
LEMMA HostSafe ==
  ASSUME RunInv, HostStep
  PROVE  UNCHANGED <<vars, proc>> /\ WorldOK' /\ DispatchRecorded'
<1>0. WorldOK /\ DispatchRecorded
  BY DEF RunInv
<1>1. ASSUME NEW o \in Operations, HostReceives(o)
      PROVE  UNCHANGED <<vars, proc>> /\ WorldOK' /\ DispatchRecorded'
  <2>1. WorldOK'
    BY <1>0, <1>1 DEF HostReceives, WorldOK
  <2>2. ASSUME NEW x \in Operations, x \in wire' \/ host'.ops[x] # "absent"
        PROVE  x \in wire \/ host.ops[x] # "absent"
    BY <1>0, <1>1, <2>2 DEF HostReceives, WorldOK
  <2>3. QED
    BY <1>0, <1>1, <2>1, <2>2 DEF HostReceives, DispatchRecorded, vars
<1>2. ASSUME NEW o \in Operations, HostSettles(o)
      PROVE  UNCHANGED <<vars, proc>> /\ WorldOK' /\ DispatchRecorded'
  <2>1. host.generation + 1 \in Generations
    BY <1>0, <1>2, RunAssumption DEF HostSettles, WorldOK, Generations
  <2>2. WorldOK'
    BY <1>0, <1>2, <2>1 DEF HostSettles, WorldOK
  <2>3. ASSUME NEW x \in Operations, x \in wire' \/ host'.ops[x] # "absent"
        PROVE  x \in wire \/ host.ops[x] # "absent"
    BY <1>0, <1>2, <2>3 DEF HostSettles, WorldOK
  <2>4. QED
    BY <1>0, <1>2, <2>2, <2>3 DEF HostSettles, DispatchRecorded, vars
<1>3. ASSUME NEW o \in Operations, HostRefuses(o)
      PROVE  UNCHANGED <<vars, proc>> /\ WorldOK' /\ DispatchRecorded'
  <2>1. WorldOK'
    BY <1>0, <1>3 DEF HostRefuses, WorldOK
  <2>2. ASSUME NEW x \in Operations, x \in wire' \/ host'.ops[x] # "absent"
        PROVE  x \in wire \/ host.ops[x] # "absent"
    BY <1>0, <1>3, <2>2 DEF HostRefuses, WorldOK
  <2>3. QED
    BY <1>0, <1>3, <2>1, <2>2 DEF HostRefuses, DispatchRecorded, vars
<1>4. ASSUME NEW o \in Operations, WireLoses(o)
      PROVE  UNCHANGED <<vars, proc>> /\ WorldOK' /\ DispatchRecorded'
  BY <1>0, <1>4 DEF WireLoses, WorldOK, DispatchRecorded, vars
<1>5. CASE HostAdvances
  <2>1. host.generation + 1 \in Generations
    BY <1>0, <1>5, RunAssumption DEF HostAdvances, WorldOK, Generations
  <2>2. WorldOK' /\ host'.ops = host.ops
    BY <1>0, <1>5, <2>1 DEF HostAdvances, WorldOK
  <2>3. QED
    BY <1>0, <1>5, <2>2 DEF HostAdvances, DispatchRecorded, vars
<1>6. QED
  BY <1>1, <1>2, <1>3, <1>4, <1>5 DEF HostStep

\* Requests that the store knows of stay known.
LEMMA RecordedStays ==
  ASSUME RunInv, StoreStep, UNCHANGED <<host, wire>>
  PROVE  DispatchRecorded'
<1>1. ASSUME NEW o \in Operations, o \in wire' \/ host'.ops[o] # "absent"
      PROVE  Dispatched(o)'
  <2>1. Dispatched(o)
    BY <1>1 DEF RunInv, DispatchRecorded, Dispatched
  <2>2. QED
    BY <2>1, DispatchedForever DEF RunInv, IInv
<1>2. QED
  BY <1>1 DEF DispatchRecorded, Dispatched

-----------------------------------------------------------------------------
(* Theorems.                                                               *)

\* Every step of the run preserves the invariant and is a step of the store, or
\* leaves the store alone: one case per group of actions.
LEMMA RunStepPreserves ==
  ASSUME RunInv, [RunNext]_<<vars, runVars>>
  PROVE  RunInv' /\ StoreStep
<1>0. ASSUME StoreStep PROVE IInv'
  BY <1>0, StepPreserves DEF RunInv, StoreStep
<1>1. ASSUME StoreStep, SafeNext(proc'), WorldOK', UNCHANGED <<host, wire>>
      PROVE  RunInv'
  BY <1>0, <1>1, RecordedStays DEF RunInv, SafeNext, ProcessOK
<1>2. ASSUME Aside PROVE WorldOK' /\ UNCHANGED <<host, wire>>
  BY <1>2 DEF Aside, RunInv, WorldOK
<1>3. CASE WorkerAdmits \/ OpenNew \/ OpenResume \/ LaunchStep \/ Crash
  BY <1>1, <1>2, <1>3, LaunchSafe
<1>4. CASE ObserveStep
  BY <1>1, <1>2, <1>4, ObserveSafe
<1>5. CASE DecideStep
  BY <1>1, <1>5, DecideSafe
<1>6. CASE ActStep /\ ~MarkDispatched /\ ~Send
  BY <1>1, <1>2, <1>6, ActSafe
<1>7. CASE MarkDispatched
  <2>1. StoreStep /\ Aside /\ ProcessOK(proc') /\ Dispatched(proc.op)'
    BY <1>7, MarkDispatchedSafe
  <2>2. QED
    BY <1>0, <1>2, <2>1, RecordedStays DEF RunInv, ProcessOK
<1>8. CASE Send
  <2>1. /\ UNCHANGED <<vars, inputs, host, calls>> /\ SafeNext(proc')
        /\ proc.op \in Operations /\ Dispatched(proc.op)
        /\ wire' = wire \union {proc.op}
    BY <1>8, SendSafe
  <2>2. StoreStep /\ operations' = operations
    BY <2>1 DEF StoreStep, vars
  <2>3. WorldOK'
    BY <2>1 DEF RunInv, WorldOK
  <2>4. DispatchRecorded'
    BY <2>1, <2>2 DEF RunInv, DispatchRecorded, Dispatched
  <2>5. QED
    BY <1>0, <2>1, <2>2, <2>3, <2>4 DEF RunInv, SafeNext, ProcessOK
<1>9. CASE RecoverStep
  BY <1>1, <1>2, <1>9, RecoverSafe
<1>10. CASE EndStep
  BY <1>1, <1>2, <1>10, EndSafe
<1>11. CASE HostStep
  <2>1. UNCHANGED <<vars, proc>> /\ WorldOK' /\ DispatchRecorded'
    BY <1>11, HostSafe
  <2>2. StoreStep /\ operations' = operations /\ proc' = proc
    BY <2>1 DEF StoreStep, vars
  <2>3. QED
    BY <1>0, <2>1, <2>2 DEF RunInv, ProcessOK, Dispatched
<1>12. CASE UNCHANGED <<vars, runVars>>
  <2>1. StoreStep /\ Aside /\ operations' = operations /\ proc' = proc
    BY <1>12 DEF StoreStep, Aside, runVars, vars
  <2>2. QED
    BY <1>0, <1>2, <2>1, RecordedStays DEF RunInv, ProcessOK, Dispatched
<1>13. QED
  BY <1>3, <1>4, <1>5, <1>6, <1>7, <1>8, <1>9, <1>10, <1>11, <1>12 DEF RunNext, RunStep

\* The invariant holds when the run begins.
LEMMA RunStarts == RunInit => RunInv
<1> SUFFICES ASSUME RunInit PROVE RunInv
  OBVIOUS
<1>1. IInv
  BY ConstantsAssumption
  DEF RunInit, Init, IInv, TypeOK, CurrentAttemptAgrees, ProviderLockstep, PendingIsCurrent,
      TerminalEpisodeQuiescent, CompletionAnchored, UnresolvedOperation, UnresolvedDecision,
      UnresolvedReservation, NoEpisode, NoAttempt, NoOperation, NoDecision, NoReservation,
      NoCompletion, NoLineage, Exists, UnresolvedOperationStates, UnresolvedDecisionStates,
      UnresolvedReservationStates
<1>2. ProcessOK(proc) /\ proc.phase = "down"
  BY DownOK DEF RunInit, SafeNext, Down
<1>3. WorldOK
  BY RunAssumption DEF RunInit, WorldOK, Generations
<1>4. DispatchRecorded
  BY DEF RunInit, DispatchRecorded
<1>5. QED
  BY <1>1, <1>2, <1>3, <1>4 DEF RunInv

\* The invariant of the run: the store's own, the shape of the process in every
\* phase, and that the row of an operation is written before its request.
THEOREM RunInvariant == RunSpec => []RunInv
<1>1. RunInv /\ [RunNext]_<<vars, runVars>> => RunInv'
  BY RunStepPreserves
<1>2. QED
  BY <1>1, RunStarts, PTL DEF RunSpec

\* The runtime process keeps its types: the step never passes the limit of
\* max_steps, the counters never pass their budgets.
THEOREM RunTypeCorrect == RunSpec => []RunTypeOK
<1>1. RunInv => RunTypeOK
  BY DEF RunInv, IInv, ProcessOK, WorldOK, RunTypeOK
<1>2. QED
  BY <1>1, RunInvariant, PTL

\* A crash never leaves an action at the host, or on its way there, that the store
\* does not know of or holds for not sent: dispatch_action writes the row first.
THEOREM NeverSentUnrecorded == RunSpec => []DispatchRecorded
<1>1. RunInv => DispatchRecorded
  BY DEF RunInv
<1>2. QED
  BY <1>1, RunInvariant, PTL

\* The process always has in memory what its next call needs, and no action is out that
\* the store does not hold for possibly sent.
THEOREM RunStaysSound == RunSpec => []RunSound
BY RunTypeCorrect, NeverSentUnrecorded, PTL DEF RunSound

\* With crashes, resumes and lost messages the run only ever does to the store what
\* the store's own operations do, so all that is proved of the store holds of it.
THEOREM RunImplementsStore == RunSpec => Spec
<1>1. RunInit => Init
  BY DEF RunInit
<1>2. RunInv /\ [RunNext]_<<vars, runVars>> => [Next]_vars
  BY RunStepPreserves DEF StoreStep
<1>3. QED
  BY <1>1, <1>2, RunInvariant, PTL DEF RunSpec, Spec

-----------------------------------------------------------------------------
(* The settled world: what the process may rely on when it decides.  The   *)
(* second inductive invariant relates the memory of the process, the rows  *)
(* of the store, the host, the wire and the provider.                      *)

\* No operation of the store awaits an outcome; only `o` does.
NoneOpen == \A o \in Operations : ~UnresolvedOperation(o)
OnlyOpen(o) == \A x \in Operations : UnresolvedOperation(x) => x = o

\* No provider call awaits an outcome; only the one numbered `d` does.
NoCallOpen ==
  /\ \A d \in Decisions : ~UnresolvedDecision(d)
  /\ \A r \in Reservations : ~UnresolvedReservation(r)
OnlyCallOpen(d) ==
  /\ \A x \in Decisions : UnresolvedDecision(x) => x = d
  /\ \A r \in Reservations : UnresolvedReservation(r) => r = d

DecidingPhases == {"decide", "reserve", "invoke", "answer", "act"}
QuietPhases ==
  DecidingPhases \union {"observe", "refresh", "reobserve", "idle", "pause", "complete"}

\* The process holds the report that the host has settled its operation.
HoldsSettled(p) ==
  p.phase \in {"witness", "awaited"} \/ (p.phase \in {"record", "resolve"} /\ p.status = "settled")

\* What the rows and the host are like when the memory of the process is `p`.
Fits(p) ==
  /\ p.phase \in QuietPhases => NoneOpen
  /\ p.phase \in OperationPhases => OnlyOpen(p.op)
  /\ p.phase \in DecidingPhases => Stage[p.obs] = "ready" /\ p.obs = host.generation
  /\ p.phase = "complete" => Stage[p.obs] = "terminal" /\ p.obs = host.generation
  /\ HoldsSettled(p) => host.ops[p.op] = "settled"
  /\ HoldsSettled(p) /\ p.phase # "record" /\ Stage[p.obs] = "terminal" =>
       p.obs = host.generation
  /\ p.phase \in {"record", "resolve"} /\ p.status = "rejected" => host.ops[p.op] = "rejected"
  /\ p.phase = "send" => p.op \notin wire /\ host.ops[p.op] = "absent"
  /\ p.phase \in {"reserve", "invoke", "answer"} => OnlyCallOpen(p.step + 1)
  /\ p.phase = "act" => NoCallOpen
  /\ p.phase = "reserve" => reservations[p.step + 1].state \in {"absent", "failed"}
  /\ p.phase = "invoke" =>
       /\ Exists(reservations[p.step + 1])
       /\ calls[p.step + 1] = 0 \/ reservations[p.step + 1].state = "failed"

\* The store holds this run only.
OwnRows ==
  /\ \A o \in Operations : Exists(operations[o]) => operations[o].lineage = RunLineage
  /\ \A d \in Decisions : Exists(decisions[d]) => decisions[d].lineage = RunLineage
  /\ \A r \in Reservations : Exists(reservations[r]) =>
       reservations[r].decision = r /\ reservations[r].lineage = RunLineage
  /\ \A d \in Decisions : calls[d] > 0 => Exists(reservations[d])

\* The row says that the operation was applied.
Applied(row) == row.state = "settled" \/ (row.state = "reconciled" /\ row.result = "settled")

\* One operation at a time awaits its outcome, and a recorded outcome is the one
\* at the host, where an operation comes from the wire once.
OutcomesTrue ==
  /\ \A x, y \in Operations : UnresolvedOperation(x) /\ UnresolvedOperation(y) => x = y
  /\ \A o \in Operations : operations[o].state \in ResolvedOperationStates =>
       host.ops[o] = IF Applied(operations[o]) THEN "settled" ELSE "rejected"
  /\ \A o \in wire : host.ops[o] = "absent"

\* While a provider call awaits its outcome the game stands still: it is ready for
\* an action, and none is under way.
StandsStill == ~NoCallOpen => NoneOpen /\ Stage[host.generation] = "ready"

\* The process continues the durable trajectory: it numbers the next checkpoint, its
\* observation is the last one, and at launch the boundary to be verified is.
Trajectory ==
  /\ proc.phase # "down" =>
       /\ CurrentLineage(RunLineage)
       /\ proc.next = NextSequence
       /\ proc.obs \in {None, LastCheckpoint}
  /\ proc.phase = "observe" /\ proc.step = 0 => proc.boundary = LastCheckpoint

\* A completed episode ended where the game did.
Ended == completions[RunEpisode] # NoCompletion => NoneOpen /\ CompletedAtTheEnd

SettledInv ==
  RunInv /\ Fits(proc) /\ OwnRows /\ OutcomesTrue /\ StandsStill /\ Trajectory /\ Ended

\* The phases that need nothing of the world, those that need no open operation
\* and those that need only their own to be open.
FreePhases == {"down", "reconcile", "failing"}
PlainQuietPhases == {"observe", "refresh", "reobserve", "idle", "pause"}
PlainOperationPhases == {"dispatch", "sent", "settle", "recover", "await"}

\* `q` goes on from `p` on the same trajectory.
Follows(p, q) ==
  q.obs = p.obs /\ q.next = p.next /\ (q.phase = "observe" => q.step # 0)

-----------------------------------------------------------------------------
(* The shape of a continuation.                                            *)

\* A continuation keeps everything but phase and tries.
LEMMA GotoShape ==
  ASSUME NEW p \in Processes, NEW phase \in Phases
  PROVE  /\ Goto(p, phase).phase = phase
         /\ Goto(p, phase).op = p.op
         /\ Goto(p, phase).step = p.step
         /\ Goto(p, phase).status = p.status
         /\ phase # "observe" => Follows(p, Goto(p, phase))
BY DEF Goto, Processes, Follows

\* An error ends the run where it is.
LEMMA FailShape ==
  ASSUME NEW p \in Processes
  PROVE  Fail(p).phase = "failing" /\ Follows(p, Fail(p))
<1>1. "failing" \in Phases
  BY DEF Phases
<1>2. QED
  BY <1>1, GotoShape DEF Fail

\* The next step observes, and is not the first one.
LEMMA NextStepShape ==
  ASSUME NEW p \in Processes
  PROVE  NextStep(p).phase \in {"observe", "failing"} /\ Follows(p, NextStep(p))
<1>1. CASE p.step + 1 < MaxSteps
  <2> DEFINE q == [Goto(p, "observe") EXCEPT !.step = @ + 1, !.op = None, !.status = "none"]
  <2>1. q.phase = "observe" /\ q.obs = p.obs /\ q.next = p.next /\ q.step = p.step + 1
    BY DEF Goto, Processes
  <2>2. NextStep(p) = q /\ p.step \in Nat
    BY <1>1, RunAssumption DEF NextStep, Processes
  <2> HIDE DEF q
  <2>3. QED
    BY <2>1, <2>2 DEF Follows
<1>2. CASE ~(p.step + 1 < MaxSteps)
  BY <1>2, FailShape DEF NextStep
<1>3. QED
  BY <1>1, <1>2

\* An observation is decided on when it is ready and completed when it is terminal.
LEMMA RouteShape ==
  ASSUME NEW p \in Processes, p.obs \in Generations
  PROVE  /\ Follows(p, Route(p))
         /\ \/ Route(p).phase \in {"idle", "failing"}
            \/ Route(p).phase = "complete" /\ Stage[p.obs] = "terminal"
            \/ Route(p).phase = "decide" /\ Stage[p.obs] = "ready"
<1>1. Stage[p.obs] \in {"ready", "blocked", "unknown", "terminal"}
  BY RunAssumption
<1>2. {"complete", "idle", "decide"} \subseteq Phases
  BY DEF Phases
<1>3. CASE Stage[p.obs] = "terminal"
  BY <1>2, <1>3, GotoShape DEF Route
<1>4. CASE Stage[p.obs] = "blocked"
  <2> DEFINE q == [Goto(p, "idle") EXCEPT !.before = p.obs]
  <2>1. q.phase = "idle" /\ q.obs = p.obs /\ q.next = p.next
    BY DEF Goto, Processes
  <2>2. Route(p) = q
    BY <1>4 DEF Route
  <2> HIDE DEF q
  <2>3. QED
    BY <2>1, <2>2 DEF Follows
<1>5. CASE Stage[p.obs] = "ready"
  BY <1>2, <1>5, GotoShape DEF Route
<1>6. CASE Stage[p.obs] = "unknown"
  BY <1>6, FailShape DEF Route
<1>7. QED
  BY <1>1, <1>3, <1>4, <1>5, <1>6

\* After a settled transition the episode is completed or observed again.
LEMMA SettledShape ==
  ASSUME NEW p \in Processes
  PROVE  /\ Follows(p, Settled(p))
         /\ \/ Settled(p).phase \in {"observe", "failing"}
            \/ Settled(p).phase = "complete" /\ Stage[p.obs] = "terminal"
<1>1. CASE Stage[p.obs] = "terminal"
  BY <1>1, GotoShape DEF Settled, Phases
<1>2. CASE Stage[p.obs] = "unknown"
  BY <1>2, FailShape DEF Settled
<1>3. CASE Stage[p.obs] \notin {"terminal", "unknown"}
  BY <1>3, NextStepShape DEF Settled
<1>4. QED
  BY <1>1, <1>2, <1>3

\* A failed call is repeated or ends the run.
LEMMA PortFailureShape ==
  ASSUME NEW p \in Processes, p.phase # "observe"
  PROVE  /\ Follows(p, PortFailure(p))
         /\ \/ PortFailure(p).phase = "failing"
            \/ PortFailure(p).phase = p.phase /\ PortFailure(p).op = p.op
<1>1. CASE ~p.resuming /\ p.tries + 1 < MaxAttempts
  BY <1>1 DEF PortFailure, Follows, Processes
<1>2. CASE ~(~p.resuming /\ p.tries + 1 < MaxAttempts)
  BY <1>2, FailShape DEF PortFailure
<1>3. QED
  BY <1>1, <1>2

\* After a reconciliation the run goes on only with a final outcome; without one it
\* waits for the same operation.
LEMMA AfterReconcileShape ==
  ASSUME NEW p \in Processes
  PROVE  /\ Follows(p, AfterReconcile(p))
         /\ \/ AfterReconcile(p).phase \in {"reconcile", "failing"}
            \/ p.status = "settled" /\ AfterReconcile(p).phase = "observe"
            \/ /\ p.status = "settled" /\ AfterReconcile(p).phase = "complete"
               /\ Stage[p.obs] = "terminal"
            \/ p.status = "rejected" /\ AfterReconcile(p).phase = "reobserve"
            \/ AfterReconcile(p).phase = "await" /\ AfterReconcile(p).op = p.op
<1>0. {"reconcile", "reobserve", "await"} \subseteq Phases
  BY DEF Phases
<1>1. CASE p.resuming /\ Final(p.status)
  <2> DEFINE q == [Goto(p, "reconcile") EXCEPT !.op = None, !.status = "none"]
  <2>1. q.phase = "reconcile" /\ q.obs = p.obs /\ q.next = p.next
    BY DEF Goto, Processes
  <2>2. AfterReconcile(p) = q
    BY <1>1 DEF AfterReconcile
  <2> HIDE DEF q
  <2>3. QED
    BY <2>1, <2>2 DEF Follows
<1>2. CASE p.resuming /\ ~Final(p.status)
  BY <1>2, FailShape DEF AfterReconcile
<1>3. CASE ~p.resuming /\ p.status = "settled"
  <2>1. AfterReconcile(p) = Settled(p)
    BY <1>3 DEF AfterReconcile
  <2>2. QED
    BY <1>3, <2>1, SettledShape
<1>4. CASE ~p.resuming /\ p.status = "rejected"
  BY <1>0, <1>4, GotoShape DEF AfterReconcile
<1>5. CASE ~p.resuming /\ p.status \notin {"settled", "rejected"}
  BY <1>0, <1>5, GotoShape DEF AfterReconcile
<1>6. QED
  BY <1>1, <1>2, <1>3, <1>4, <1>5

\* Which world a process fits into, but for the phases of a call, of a witness and
\* of a request.
LEMMA FitsNext ==
  ASSUME \/ proc'.phase \in FreePhases
         \/ proc'.phase \in PlainQuietPhases /\ NoneOpen'
         \/ proc'.phase \in PlainOperationPhases /\ OnlyOpen(proc.op)'
         \/ /\ proc'.phase = "decide" /\ Stage[proc'.obs] = "ready"
            /\ NoneOpen' /\ proc'.obs = host'.generation
         \/ /\ proc'.phase = "complete" /\ Stage[proc'.obs] = "terminal"
            /\ NoneOpen' /\ proc'.obs = host'.generation
  PROVE  Fits(proc)'
BY DEF Fits, HoldsSettled, FreePhases, PlainQuietPhases, PlainOperationPhases, QuietPhases,
       DecidingPhases, OperationPhases

-----------------------------------------------------------------------------
(* Facts about the world.                                                  *)

\* What is on the wire or admitted by the host awaits its outcome in the store.
LEMMA UnderWayIsOpen ==
  ASSUME RunInv, OutcomesTrue, NEW o \in Operations, o \in wire \/ host.ops[o] = "admitted"
  PROVE  UnresolvedOperation(o)
<1>1. operations[o].state \notin {"absent", "intent_recorded"}
  BY DEF RunInv, DispatchRecorded
<1>2. operations[o].state \notin ResolvedOperationStates
  BY DEF OutcomesTrue
<1>3. operations[o].state \in OperationStates \union {"absent"}
  BY DEF RunInv, IInv, TypeOK, OperationRows, NoOperation
<1>4. QED
  BY <1>1, <1>2, <1>3 DEF UnresolvedOperation, OperationStates

\* The gates of the store ask for the episode, which is the only one.
LEMMA PendingMeansOpen ==
  ASSUME OwnRows
  PROVE  /\ PendingOperations(RunEpisode) = {} <=> NoneOpen
         /\ NothingPending(RunEpisode) <=> NoneOpen /\ NoCallOpen
<1>1. PendingOperations(RunEpisode) = {} <=> NoneOpen
  BY DEF PendingOperations, NoneOpen, OwnRows, UnresolvedOperation, UnresolvedOperationStates,
         Exists, RunEpisode
<1>2. PendingDecisions(RunEpisode) = {} <=> \A d \in Decisions : ~UnresolvedDecision(d)
  BY DEF PendingDecisions, OwnRows, UnresolvedDecision, UnresolvedDecisionStates, Exists, RunEpisode
<1>3. PendingReservations(RunEpisode) = {} <=> \A r \in Reservations : ~UnresolvedReservation(r)
  BY DEF PendingReservations, OwnRows, UnresolvedReservation, UnresolvedReservationStates, Exists,
         RunEpisode
<1>4. QED
  BY <1>1, <1>2, <1>3 DEF NothingPending, NoCallOpen

\* An installed observation is the next checkpoint and the last one.
LEMMA CheckpointAppends ==
  ASSUME TypeOK, NEW f, NEW g \in Generations, NextSequence <= MaxSequence,
         SaveCheckpoint(RunLineage, NextSequence, g, f)
  PROVE  NextSequence' = NextSequence + 1 /\ LastCheckpoint' = g
<1> DEFINE n == NextSequence
           W == Written(RunAttempt)
           V == Written(RunAttempt)'
<1>0. /\ RunAttempt \in Attempts /\ RunLineage.attempt = RunAttempt
      /\ MaxSequence \in Nat /\ g # None
  BY RunAssumption, ConstantsAssumption DEF RunAttempt, Lineages
<1>1. n \in Nat /\ n \in SequenceNumbers
  BY <1>0, SequenceOK DEF SequenceNumbers
<1>2. checkpoints' = [checkpoints EXCEPT ![<<RunAttempt, n>>] = g]
  BY <1>0 DEF SaveCheckpoint
<1>3. checkpoints'[<<RunAttempt, n>>] = g
  BY <1>0, <1>1, <1>2 DEF TypeOK
<1>4. ASSUME NEW s \in SequenceNumbers, s # n
      PROVE  checkpoints'[<<RunAttempt, s>>] = checkpoints[<<RunAttempt, s>>]
  BY <1>0, <1>1, <1>2, <1>4 DEF TypeOK
<1>5. V = W \union {n}
  <2>1. n \in V
    BY <1>0, <1>1, <1>3 DEF Written
  <2>2. ASSUME NEW s \in SequenceNumbers, s # n PROVE s \in V <=> s \in W
    BY <1>4, <2>2 DEF Written
  <2>3. V \subseteq SequenceNumbers /\ W \subseteq SequenceNumbers
    BY DEF Written
  <2>4. QED
    BY <2>1, <2>2, <2>3
<1>6. \A x \in W : x < n
  <2>1. CASE W = {}
    BY <2>1
  <2>2. CASE W # {}
    <3> DEFINE top == CHOOSE s \in W : \A x \in W : x <= s
    <3>1. W \in SUBSET (0..MaxSequence)
      BY DEF Written, SequenceNumbers
    <3>2. \E s \in W : \A x \in W : x <= s
      <4> HIDE DEF W
      <4>1. QED BY <1>0, <2>2, <3>1, GreatestExists, Zenon
    <3>3. top \in W /\ \A x \in W : x <= top
      <4> HIDE DEF W
      <4>1. QED BY <3>2
    <3>4. n = 1 + top
      BY <2>2 DEF NextSequence
    <3> HIDE DEF top, W, n
    <3>5. QED
      BY <3>1, <3>3, <3>4
  <2>3. QED
    BY <2>1, <2>2
<1>7. NextSequence' = 1 + n
  <2> DEFINE top == CHOOSE s \in V : \A x \in V : x <= s
  <2>1. W \subseteq SequenceNumbers
    BY DEF Written
  <2>2. NextSequence' = IF V = {} THEN 0 ELSE 1 + top
    BY DEF NextSequence
  <2> HIDE DEF V, W, n
  <2>3. n \in V /\ \A x \in V : x <= n
    BY <1>1, <1>5, <1>6, <2>1 DEF SequenceNumbers
  <2>4. top \in V /\ \A x \in V : x <= top
    BY <2>3
  <2>5. top = n
    <3> HIDE DEF top
    <3>1. V \subseteq Int
      BY <1>1, <1>5, <2>1 DEF SequenceNumbers
    <3>2. QED
      BY <1>1, <2>3, <2>4, <3>1
  <2>6. QED
    BY <2>2, <2>3, <2>5
<1>8. LastCheckpoint' = g
  <2>1. NextSequence' # 0 /\ NextSequence' - 1 = n
    BY <1>1, <1>7
  <2>2. LastCheckpoint' = checkpoints'[<<RunAttempt, NextSequence' - 1>>]
    BY <2>1 DEF LastCheckpoint
  <2>3. QED
    BY <1>3, <2>1, <2>2
<1>9. QED
  BY <1>1, <1>7, <1>8

-----------------------------------------------------------------------------
(* The trajectory.                                                         *)

\* How the process and the checkpoints move together: the process ends, goes on,
\* appends a checkpoint, or opens the store; or neither moves.
Tracks ==
  \/ proc'.phase = "down"
  \/ /\ UNCHANGED <<checkpoints, episodes>> /\ proc.phase # "down"
     /\ proc'.obs = proc.obs /\ proc'.next = proc.next
     /\ proc'.phase = "observe" /\ proc'.step = 0 => proc'.boundary = LastCheckpoint
  \/ /\ proc.phase # "down" /\ proc.next <= MaxSequence /\ proc'.obs \in Generations
     /\ \E f : SaveCheckpoint(RunLineage, proc.next, proc'.obs, f)
     /\ proc'.next = proc.next + 1
     /\ proc'.phase = "observe" => proc'.step # 0
  \/ /\ proc'.phase = "reconcile" /\ proc'.obs = None /\ proc'.next = NextSequence
     /\ checkpoints' = checkpoints /\ CurrentLineage(RunLineage)'
  \/ UNCHANGED <<proc, checkpoints, episodes>>

\* Whatever does so stays on the trajectory.
LEMMA TrajectoryKept ==
  ASSUME SettledInv, Tracks
  PROVE  Trajectory'
<1>0. Trajectory /\ TypeOK
  BY DEF SettledInv, RunInv, IInv
<1>1. ASSUME checkpoints' = checkpoints
      PROVE  NextSequence' = NextSequence /\ LastCheckpoint' = LastCheckpoint
  <2>1. Written(RunAttempt)' = Written(RunAttempt)
    BY <1>1 DEF Written
  <2>2. NextSequence' = NextSequence
    BY <2>1 DEF NextSequence
  <2>3. QED
    BY <1>1, <2>2 DEF LastCheckpoint
<1>2. ASSUME episodes' = episodes
      PROVE  CurrentLineage(RunLineage)' <=> CurrentLineage(RunLineage)
  BY <1>2 DEF CurrentLineage
<1>3. CASE proc'.phase = "down"
  BY <1>3 DEF Trajectory
<1>4. CASE /\ UNCHANGED <<checkpoints, episodes>> /\ proc.phase # "down"
           /\ proc'.obs = proc.obs /\ proc'.next = proc.next
           /\ proc'.phase = "observe" /\ proc'.step = 0 => proc'.boundary = LastCheckpoint
  BY <1>0, <1>1, <1>2, <1>4 DEF Trajectory
<1>5. CASE /\ proc.phase # "down" /\ proc.next <= MaxSequence /\ proc'.obs \in Generations
           /\ \E f : SaveCheckpoint(RunLineage, proc.next, proc'.obs, f)
           /\ proc'.next = proc.next + 1
           /\ proc'.phase = "observe" => proc'.step # 0
  <2>1. PICK f : SaveCheckpoint(RunLineage, proc.next, proc'.obs, f)
    BY <1>5
  <2>2. proc.next = NextSequence
    BY <1>0, <1>5 DEF Trajectory
  <2>3. NextSequence' = NextSequence + 1 /\ LastCheckpoint' = proc'.obs
    BY <1>0, <1>5, <2>1, <2>2, CheckpointAppends
  <2>4. episodes' = episodes
    BY <2>1 DEF SaveCheckpoint
  <2>5. QED
    BY <1>0, <1>2, <1>5, <2>2, <2>3, <2>4 DEF Trajectory
<1>6. CASE /\ proc'.phase = "reconcile" /\ proc'.obs = None /\ proc'.next = NextSequence
           /\ checkpoints' = checkpoints /\ CurrentLineage(RunLineage)'
  BY <1>1, <1>6 DEF Trajectory
<1>7. CASE UNCHANGED <<proc, checkpoints, episodes>>
  BY <1>0, <1>1, <1>2, <1>7 DEF Trajectory
<1>8. QED
  BY <1>3, <1>4, <1>5, <1>6, <1>7 DEF Tracks

\* An episode with a process at work is not completed.
LEMMA NotCompleted ==
  ASSUME SettledInv, proc.phase # "down"
  PROVE  completions[RunEpisode] = NoCompletion /\ CurrentLineage(RunLineage)
<1>1. CurrentLineage(RunLineage) /\ IInv /\ RunEpisode \in Episodes
  BY RunAssumption DEF SettledInv, Trajectory, RunInv, RunEpisode, Lineages
<1>2. episodes[RunEpisode].state = "active"
  BY <1>1 DEF CurrentLineage, RunEpisode
<1>3. QED
  BY <1>1, <1>2, ActiveEpisode

\* Installing an observation adds a checkpoint and nothing else.
LEMMA InstallTracks ==
  ASSUME SettledInv, NEW p \in Processes, p.next = proc.next, proc.phase # "down",
         NEW q, Install(p, host.generation, q), Follows(Installed(p, host.generation), q)
  PROVE  /\ UNCHANGED <<operations, decisions, reservations, completions>>
         /\ Tracks /\ proc' = q /\ q.obs = host.generation
<1>1. host.generation \in Generations /\ proc.next \in Int
  BY DEF SettledInv, RunInv, WorldOK, ProcessOK, Processes
<1>2. /\ p.next <= MaxSequence /\ proc' = q
      /\ SaveCheckpoint(RunLineage, p.next, host.generation, attempts[RunAttempt].fingerprint)
  BY DEF Install, Installable
<1>3. /\ q.obs = host.generation /\ q.next = p.next + 1
      /\ q.phase = "observe" => q.step # 0
  BY DEF Follows, Installed, Processes
<1>4. UNCHANGED <<operations, decisions, reservations, completions>>
  BY <1>2 DEF SaveCheckpoint
<1>5. QED
  BY <1>1, <1>2, <1>3, <1>4 DEF Tracks

-----------------------------------------------------------------------------
(* Calm steps: neither the rows nor the world move, but for checkpoints.   *)

Calm == UNCHANGED <<operations, decisions, reservations, completions, host, wire, calls>>

\* An outcome is the one at the host.
Truthful(o, next, result) ==
  \/ next \in {"may_have_been_dispatched", "accepted", "unknown"}
  \/ next = "settled" /\ host.ops[o] = "settled"
  \/ next = "rejected" /\ host.ops[o] = "rejected"
  \/ next = "reconciled" /\ result \in {"settled", "rejected"} /\ host.ops[o] = result

\* The row of the operation is left alone or truthfully moved on.
RowStep(o) ==
  \/ UNCHANGED vars
  \/ \E next, result :
       TransitionOperation(o, operations[o].payload, next, result) /\ Truthful(o, next, result)

\* The step preserves the invariant, and of all operations moves at most the one that
\* the process works on.
SettledStep ==
  /\ SettledInv'
  /\ UNCHANGED host
  /\ operations' = operations \/ (proc.phase \in OperationPhases /\ RowStep(proc.op))

\* In a calm step it only matters what the process does.
LEMMA CalmStep ==
  ASSUME SettledInv, RunInv', Calm, Fits(proc)', Tracks,
         proc.phase # "down" \/ checkpoints' = checkpoints
  PROVE  SettledStep
<1>1. Trajectory'
  BY TrajectoryKept
<1>2. OwnRows' /\ OutcomesTrue' /\ StandsStill'
  BY DEF SettledInv, Calm, OwnRows, OutcomesTrue, StandsStill, NoneOpen, NoCallOpen,
         UnresolvedOperation, UnresolvedDecision, UnresolvedReservation
<1>3. Ended'
  <2>1. CASE proc.phase # "down"
    BY <2>1, NotCompleted DEF Calm, Ended
  <2>2. CASE checkpoints' = checkpoints
    BY <2>2 DEF SettledInv, Calm, Ended, CompletedAtTheEnd, NoneOpen, UnresolvedOperation
  <2>3. QED
    BY <2>1, <2>2
<1>4. QED
  BY <1>1, <1>2, <1>3 DEF SettledInv, SettledStep, Calm

\* The open operations are the same after a calm step.
LEMMA CalmWorld ==
  ASSUME Calm
  PROVE  /\ NoneOpen => NoneOpen'
         /\ proc'.op = proc.op /\ OnlyOpen(proc.op) => OnlyOpen(proc.op)'
         /\ host' = host
BY DEF Calm, NoneOpen, OnlyOpen, UnresolvedOperation

\* Opening, launching and dying.
LEMMA LaunchCalm ==
  ASSUME SettledInv, WorkerAdmits \/ OpenNew \/ OpenResume \/ LaunchStep \/ Crash \/ MarkInterrupted
  PROVE  Calm /\ Fits(proc)' /\ Tracks
<1>0. proc \in Processes /\ OwnRows /\ OutcomesTrue
  BY DEF SettledInv, RunInv, ProcessOK
<1>1. ASSUME NEW f, StartNewEpisode(RunLineage, f)
      PROVE  /\ UNCHANGED <<operations, decisions, reservations, completions, checkpoints>>
             /\ CurrentLineage(RunLineage)'
  <2>1. RunLineage.episode \in Episodes /\ TypeOK
    BY RunAssumption DEF Lineages, SettledInv, RunInv, IInv
  <2>2. QED
    BY <1>1, <2>1 DEF StartNewEpisode, CurrentLineage, TypeOK
<1>2. ASSUME NEW h \in BOOLEAN, proc' = [Opened EXCEPT !.historical = h]
      PROVE  proc'.phase = "reconcile" /\ proc'.obs = None /\ proc'.next = NextSequence
  BY <1>2 DEF Opened, Down
<1>3. CASE WorkerAdmits
  <2>1. Calm /\ proc'.phase = "down"
    BY <1>1, <1>3 DEF WorkerAdmits, Calm, runVars
  <2>2. QED
    BY <2>1, FitsNext DEF Tracks, FreePhases
<1>4. CASE OpenNew
  <2>1. Calm /\ checkpoints' = checkpoints /\ CurrentLineage(RunLineage)'
    BY <1>1, <1>4 DEF OpenNew, Calm
  <2>2. proc'.phase = "reconcile" /\ proc'.obs = None /\ proc'.next = NextSequence
    BY <1>2, <1>4 DEF OpenNew
  <2>3. QED
    BY <2>1, <2>2, FitsNext DEF Tracks, FreePhases
<1>5. CASE OpenResume
  <2>1. Calm /\ checkpoints' = checkpoints /\ CurrentLineage(RunLineage)'
    BY <1>5 DEF OpenResume, Calm, vars, CurrentLineage
  <2>2. proc'.phase = "reconcile" /\ proc'.obs = None /\ proc'.next = NextSequence
    BY <1>2, <1>5 DEF OpenResume
  <2>3. QED
    BY <2>1, <2>2, FitsNext DEF Tracks, FreePhases
<1>6. CASE LaunchFails
  <2>1. Calm /\ UNCHANGED <<checkpoints, episodes>> /\ proc' = Fail(proc)
        /\ proc.phase # "down"
    BY <1>6 DEF LaunchFails, Calm, vars
  <2>2. proc'.phase = "failing" /\ Follows(proc, proc')
    BY <1>0, <2>1, FailShape
  <2>3. QED
    BY <2>1, <2>2, FitsNext DEF Tracks, FreePhases, Follows
<1>7. CASE Launched
  <2>1. Calm /\ UNCHANGED <<checkpoints, episodes>> /\ proc.phase # "down"
    BY <1>7 DEF Launched, Calm, vars
  <2>2. /\ proc'.phase = "observe" /\ proc'.obs = proc.obs /\ proc'.next = proc.next
        /\ proc'.boundary = LastCheckpoint
    BY <1>0, <1>7 DEF Launched, Goto, Processes
  <2>3. NoneOpen
    BY <1>0, <1>7, PendingMeansOpen DEF Launched
  <2>4. QED
    BY <2>1, <2>2, <2>3, CalmWorld, FitsNext DEF Tracks, PlainQuietPhases
<1>8. ASSUME NEW o \in Operations, ReconcileRetained(o)
      PROVE  Calm /\ Fits(proc)' /\ Tracks
  <2>1. Calm /\ UNCHANGED <<checkpoints, episodes>> /\ proc.phase # "down"
    BY <1>8 DEF ReconcileRetained, Calm, vars
  <2>2. /\ proc'.phase = "recover" /\ proc'.obs = proc.obs /\ proc'.next = proc.next
        /\ proc'.op = o
    BY <1>0, <1>8 DEF ReconcileRetained, Goto, Processes
  <2>3. UnresolvedOperation(o)
    BY <1>8 DEF ReconcileRetained, PendingOperations
  <2>4. OnlyOpen(proc.op)'
    BY <1>0, <2>1, <2>2, <2>3 DEF OutcomesTrue, OnlyOpen, UnresolvedOperation, Calm
  <2>5. QED
    BY <2>1, <2>2, <2>4, FitsNext DEF Tracks, PlainOperationPhases
<1>9. CASE Crash \/ MarkInterrupted
  <2>1. Calm /\ proc' = Down
    BY <1>9 DEF Crash, MarkInterrupted, MarkInterruptedUnknown, Calm, vars
  <2>2. QED
    BY <2>1, FitsNext DEF Down, Tracks, FreePhases
<1>10. QED
  BY <1>3, <1>4, <1>5, <1>6, <1>7, <1>8, <1>9 DEF LaunchStep

\* The continuations of a process with no operation open.
QuietNext(q) ==
  \/ q.phase \in FreePhases \union PlainQuietPhases
  \/ q.phase = "complete" /\ Stage[q.obs] = "terminal"
  \/ q.phase = "decide" /\ Stage[q.obs] = "ready"

\* A quiet process that installs an observation.
LEMMA QuietInstall ==
  ASSUME SettledInv, proc.phase \in QuietPhases, Aside,
         NEW q, Install(proc, host.generation, q),
         Follows(Installed(proc, host.generation), q), QuietNext(q)
  PROVE  Calm /\ Fits(proc)' /\ Tracks
<1>1. proc \in Processes /\ NoneOpen /\ proc.phase # "down"
  BY DEF SettledInv, RunInv, ProcessOK, Fits, QuietPhases, DecidingPhases
<1>2. /\ UNCHANGED <<operations, decisions, reservations, completions>>
      /\ Tracks /\ proc' = q /\ q.obs = host.generation
  BY <1>1, InstallTracks
<1>3. Calm
  BY <1>2 DEF Calm, Aside
<1>4. NoneOpen' /\ host' = host
  BY <1>1, <1>3, CalmWorld
<1>5. Fits(proc)'
  BY <1>2, <1>4, FitsNext DEF QuietNext
<1>6. QED
  BY <1>2, <1>3, <1>5

\* A step of a quiet process that touches nothing else.
LEMMA QuietGoto ==
  ASSUME SettledInv, proc.phase \in QuietPhases, UNCHANGED <<vars, inputs, host, wire, calls>>,
         Follows(proc, proc'), proc'.phase \in FreePhases \union PlainQuietPhases
  PROVE  Calm /\ Fits(proc)' /\ Tracks
<1>1. NoneOpen /\ proc.phase # "down"
  BY DEF SettledInv, Fits, QuietPhases, DecidingPhases
<1>2. Calm /\ UNCHANGED <<checkpoints, episodes>>
  BY DEF Calm, vars
<1>3. Fits(proc)'
  BY <1>1, <1>2, CalmWorld, FitsNext
<1>4. QED
  BY <1>1, <1>2, <1>3 DEF Tracks, Follows

\* Observing keeps the world as it is, and what it decides on is its latest state.
LEMMA ObserveCalm ==
  ASSUME SettledInv, ObserveStep
  PROVE  Calm /\ Fits(proc)' /\ Tracks /\ proc.phase # "down"
<1>0. /\ proc \in Processes /\ proc.phase \in QuietPhases /\ proc.phase # "down"
      /\ host.generation \in Generations
  BY DEF SettledInv, RunInv, ProcessOK, WorldOK, ObserveStep, Observe, ObserveFails, Reobserve,
         ReobserveFails, IdlePoll, PauseFails, QuietPhases
<1> DEFINE g == host.generation
           p == Installed(proc, g)
<1>1. ASSUME NEW q, Install(proc, g, q)
      PROVE  p \in Processes /\ p.obs = g /\ p.obs \in Generations /\ p.phase = proc.phase
  <2>1. proc.next <= MaxSequence
    BY <1>1 DEF Install, Installable
  <2>2. QED
    BY <1>0, <2>1, InstalledKeeps
<1> HIDE DEF p, g
<1>2. CASE Observe
  <2> DEFINE q == IF Stage[g] = "unknown" THEN Goto(p, "refresh") ELSE Route(p)
  <2>1. Install(proc, g, q) /\ Aside
    BY <1>2 DEF Observe, Aside, p, g
  <2>2. p \in Processes /\ p.obs \in Generations /\ p.obs = g
    BY <1>1, <2>1
  <2>3. Follows(p, Goto(p, "refresh")) /\ QuietNext(Goto(p, "refresh"))
    BY <2>2, GotoShape DEF Phases, QuietNext, PlainQuietPhases
  <2>4. Follows(p, Route(p)) /\ QuietNext(Route(p))
    BY <2>2, RouteShape DEF QuietNext, PlainQuietPhases, FreePhases, Follows
  <2>5. Follows(p, q) /\ QuietNext(q)
    BY <2>3, <2>4
  <2> HIDE DEF q
  <2>6. QED
    BY <1>0, <2>1, <2>5, QuietInstall DEF p, g
<1>3. CASE ObserveFails
  <2>1. Follows(proc, proc') /\ proc'.phase = "failing"
    BY <1>0, <1>3, FailShape DEF ObserveFails
  <2>2. QED
    BY <1>0, <1>3, <2>1, QuietGoto DEF ObserveFails, FreePhases
<1>4. CASE Reobserve
  <2> DEFINE q == CASE Stage[g] = "unknown" -> Fail(p)
                    [] Stage[g] # "unknown" /\ proc.phase = "refresh" -> Route(p)
                    [] OTHER -> NextStep(p)
  <2>1. Install(proc, g, q) /\ Aside
    BY <1>4 DEF Reobserve, Aside, p, g
  <2>2. p \in Processes /\ p.obs \in Generations /\ p.obs = g
    BY <1>1, <2>1
  <2>3. Follows(p, Fail(p)) /\ QuietNext(Fail(p))
    BY <2>2, FailShape DEF QuietNext, FreePhases
  <2>4. Follows(p, Route(p)) /\ QuietNext(Route(p))
    BY <2>2, RouteShape DEF QuietNext, PlainQuietPhases, FreePhases, Follows
  <2>5. Follows(p, NextStep(p)) /\ QuietNext(NextStep(p))
    BY <2>2, NextStepShape DEF QuietNext, PlainQuietPhases, FreePhases
  <2>6. Follows(p, q) /\ QuietNext(q)
    BY <2>3, <2>4, <2>5
  <2> HIDE DEF q
  <2>7. QED
    BY <1>0, <2>1, <2>6, QuietInstall DEF p, g
<1>5. CASE ReobserveFails
  <2>1. proc.phase \in {"refresh", "reobserve"}
    BY <1>5 DEF ReobserveFails
  <2>2. Follows(proc, Fail(proc)) /\ Fail(proc).phase = "failing"
    BY <1>0, FailShape
  <2>3. Follows(proc, PortFailure(proc)) /\ PortFailure(proc).phase \in {"failing", proc.phase}
    BY <1>0, <2>1, PortFailureShape
  <2>4. Follows(proc, proc') /\ proc'.phase \in {"failing", "refresh", "reobserve"}
    BY <1>5, <2>1, <2>2, <2>3 DEF ReobserveFails
  <2>5. QED
    BY <1>0, <1>5, <2>4, QuietGoto DEF ReobserveFails, FreePhases, PlainQuietPhases
<1>6. CASE IdlePoll
  <2> DEFINE q == CASE g > proc.before /\ proc.phase = "idle" ->
                         IF Stage[g] = "blocked" THEN NextStep(p) ELSE Route(p)
                    [] g > proc.before /\ proc.phase = "pause" ->
                         IF Stage[g] = "unknown" THEN Fail(p) ELSE NextStep(p)
                    [] g <= proc.before /\ proc.tries + 1 < MaxPolls -> [p EXCEPT !.tries = @ + 1]
                    [] OTHER -> IF proc.phase = "idle" THEN Fail(p) ELSE Goto(p, "reobserve")
  <2>1. Install(proc, g, q) /\ Aside
    BY <1>6 DEF IdlePoll, Aside, p, g
  <2>2. p \in Processes /\ p.obs \in Generations /\ p.obs = g /\ p.phase \in {"idle", "pause"}
    BY <1>1, <1>6, <2>1 DEF IdlePoll
  <2>3. Follows(p, Fail(p)) /\ QuietNext(Fail(p))
    BY <2>2, FailShape DEF QuietNext, FreePhases
  <2>4. Follows(p, Route(p)) /\ QuietNext(Route(p))
    BY <2>2, RouteShape DEF QuietNext, PlainQuietPhases, FreePhases, Follows
  <2>5. Follows(p, NextStep(p)) /\ QuietNext(NextStep(p))
    BY <2>2, NextStepShape DEF QuietNext, PlainQuietPhases, FreePhases
  <2>6. Follows(p, Goto(p, "reobserve")) /\ QuietNext(Goto(p, "reobserve"))
    BY <2>2, GotoShape DEF Phases, QuietNext, PlainQuietPhases
  <2>7. Follows(p, [p EXCEPT !.tries = @ + 1]) /\ QuietNext([p EXCEPT !.tries = @ + 1])
    BY <2>2 DEF Follows, QuietNext, Processes, PlainQuietPhases
  <2>8. Follows(p, q) /\ QuietNext(q)
    BY <2>3, <2>4, <2>5, <2>6, <2>7
  <2> HIDE DEF q
  <2>9. QED
    BY <1>0, <2>1, <2>8, QuietInstall DEF p, g
<1>7. CASE PauseFails
  <2>1. Follows(proc, proc') /\ proc'.phase = "reobserve"
    BY <1>0, <1>7, GotoShape DEF PauseFails, Phases
  <2>2. QED
    BY <1>0, <1>7, <2>1, QuietGoto DEF PauseFails, PlainQuietPhases
<1>8. QED
  BY <1>0, <1>2, <1>3, <1>4, <1>5, <1>6, <1>7 DEF ObserveStep

-----------------------------------------------------------------------------
(* Provider calls.                                                         *)

\* While the policy is asked only the rows of the call move.
LEMMA CallStep ==
  ASSUME SettledInv, RunInv', proc.phase \in DecidingPhases, Follows(proc, proc'),
         UNCHANGED <<operations, completions, checkpoints, episodes, host, wire>>,
         OwnRows', Fits(proc)'
  PROVE  SettledStep
<1>1. NoneOpen /\ proc.phase # "down" /\ Stage[host.generation] = "ready"
  BY DEF SettledInv, Fits, QuietPhases, DecidingPhases
<1>2. Tracks
  BY <1>1 DEF Tracks, Follows
<1>3. Trajectory'
  BY <1>2, TrajectoryKept
<1>4. OutcomesTrue' /\ StandsStill'
  BY <1>1 DEF SettledInv, OutcomesTrue, StandsStill, NoneOpen, UnresolvedOperation
<1>5. Ended'
  BY <1>1, NotCompleted DEF Ended
<1>6. QED
  BY <1>3, <1>4, <1>5 DEF SettledInv, SettledStep

\* What a process needs while it asks.
LEMMA CallFits ==
  ASSUME SettledInv, proc.phase \in DecidingPhases, Follows(proc, proc'),
         UNCHANGED <<operations, host>>,
         \/ /\ proc'.phase = "reserve" /\ OnlyCallOpen(proc.step + 1)'
            /\ reservations'[proc'.step + 1].state \in {"absent", "failed"}
         \/ /\ proc'.phase = "invoke" /\ OnlyCallOpen(proc.step + 1)'
            /\ Exists(reservations[proc.step + 1])'
            /\ calls'[proc'.step + 1] = 0 \/ reservations'[proc'.step + 1].state = "failed"
         \/ proc'.phase = "answer" /\ OnlyCallOpen(proc.step + 1)'
         \/ proc'.phase = "act" /\ NoCallOpen'
  PROVE  Fits(proc)'
<1>1. NoneOpen /\ Stage[proc.obs] = "ready" /\ proc.obs = host.generation
  BY DEF SettledInv, Fits, QuietPhases, DecidingPhases
<1>2. NoneOpen' /\ Stage[proc'.obs] = "ready" /\ proc'.obs = host'.generation
  BY <1>1 DEF NoneOpen, UnresolvedOperation, Follows
<1>3. proc'.phase \in {"reserve", "invoke", "answer", "act"}
  OBVIOUS
<1>4. QED
  BY <1>2, <1>3 DEF Fits, HoldsSettled, OperationPhases

\* Asking the policy: one call at a time, and none that was cut off is repeated.
LEMMA DecideSettled ==
  ASSUME SettledInv, RunInv', DecideStep
  PROVE  SettledStep
<1> DEFINE d == proc.step + 1
<1>0. /\ proc \in Processes /\ proc.phase \in DecidingPhases /\ OwnRows /\ Fits(proc)
      /\ TypeOK /\ ProviderLockstep /\ WorldOK
  BY DEF SettledInv, RunInv, IInv, ProcessOK, DecideStep, DecideFails, ReuseDecision, DecideFresh,
         Reserve, Invoke, InvokeNotStarted, AnswerDecision, AnswerFails, DecidingPhases
<1>1. /\ d \in Decisions /\ d \in Reservations /\ Execution = d
      /\ Reservations = Decisions
  BY <1>0, RunAssumption DEF Execution, Processes
<1> HIDE DEF d
<1>2. {"reserve", "invoke", "answer", "act"} \subseteq Phases
  BY DEF Phases
<1>3. ASSUME NEW phase \in {"reserve", "invoke", "answer", "act"}, proc' = Goto(proc, phase)
      PROVE  /\ proc'.phase = phase /\ Follows(proc, proc') /\ proc'.step = proc.step
  BY <1>0, <1>2, <1>3, GotoShape
<1>4. ASSUME UNCHANGED <<operations, completions, checkpoints, episodes, host, wire>>,
             proc' = Fail(proc), OwnRows'
      PROVE  SettledStep
  <2>1. proc'.phase = "failing" /\ Follows(proc, proc')
    BY <1>0, <1>4, FailShape
  <2>2. Fits(proc)'
    BY <2>1, FitsNext DEF FreePhases
  <2>3. QED
    BY <1>0, <1>4, <2>1, <2>2, CallStep
<1>5. ASSUME UNCHANGED <<operations, completions, checkpoints, episodes, host, wire>>,
             decisions' = decisions, reservations' = reservations, calls' = calls
      PROVE  OwnRows'
  BY <1>0, <1>5 DEF OwnRows
<1>6. ASSUME NEW state \in {"completed", "failed", "unknown"}, NEW actual, FinishProvider(d, state, actual), calls' = calls
      PROVE  /\ UNCHANGED <<operations, completions, checkpoints, episodes>> /\ OwnRows'
             /\ \A x \in Decisions : x # d =>
                  decisions'[x] = decisions[x] /\ reservations'[x] = reservations[x]
             /\ decisions'[d].state = state /\ reservations'[d].state = state
  <2>1. reservations[d].state = "reserved" /\ reservations[d].decision = d
    BY <1>0, <1>1, <1>6 DEF FinishProvider, OwnRows, Exists
  <2>2. /\ reservations' = [reservations EXCEPT ![d].state = state, ![d].actual = actual]
        /\ decisions' = [decisions EXCEPT ![d].state = state]
        /\ UNCHANGED <<operations, completions, checkpoints, episodes>>
    BY <1>6, <2>1 DEF FinishProvider
  <2>3. reservations[d] \in ReservationRows
    BY <1>0, <1>1, <2>1 DEF TypeOK, NoReservation
  <2>4. decisions[d] \in DecisionRows /\ Exists(decisions[d])
    <3>1. decisions[d].state = "pending"
      BY <1>0, <1>1, <2>1 DEF ProviderLockstep, Exists
    <3>2. QED
      BY <1>0, <1>1, <3>1 DEF TypeOK, NoDecision, Exists
  <2>5. /\ reservations'[d].state = state /\ reservations'[d].decision = reservations[d].decision
        /\ reservations'[d].lineage = reservations[d].lineage
    BY <1>0, <1>1, <2>2, <2>3 DEF TypeOK, ReservationRows
  <2>6. decisions'[d].state = state /\ decisions'[d].lineage = decisions[d].lineage
    BY <1>0, <1>1, <2>2, <2>4 DEF TypeOK, DecisionRows
  <2>7. \A x \in Decisions : x # d =>
          decisions'[x] = decisions[x] /\ reservations'[x] = reservations[x]
    BY <1>0, <1>1, <2>2 DEF TypeOK
  <2>8. Exists(reservations[d])
    BY <2>1 DEF Exists
  <2>9. state # "absent"
    OBVIOUS
  <2>10. OwnRows'
    BY <1>0, <1>1, <1>6, <2>2, <2>4, <2>5, <2>6, <2>7, <2>8, <2>9 DEF OwnRows, Exists
  <2>11. QED
    BY <2>2, <2>5, <2>6, <2>7, <2>10
<1>7. CASE DecideFails
  BY <1>4, <1>5, <1>7 DEF DecideFails, vars
<1>8. CASE ReuseDecision
  <2>1. /\ UNCHANGED <<operations, completions, checkpoints, episodes, host, wire>>
        /\ decisions' = decisions /\ reservations' = reservations /\ calls' = calls
    BY <1>8 DEF ReuseDecision, vars
  <2>2. NoCallOpen
    BY <1>0, <1>8, PendingMeansOpen DEF ReuseDecision
  <2>3. NoCallOpen' /\ OnlyCallOpen(proc.step + 1)'
    BY <2>1, <2>2 DEF NoCallOpen, OnlyCallOpen, UnresolvedDecision, UnresolvedReservation
  <2>4. CASE decisions[d].state = "completed"
    <3>1. proc' = Goto(proc, "act")
      BY <1>1, <1>8, <2>4 DEF ReuseDecision
    <3>2. proc'.phase = "act" /\ Follows(proc, proc')
      BY <1>3, <3>1
    <3>3. Fits(proc)'
      BY <1>0, <2>1, <2>3, <3>2, CallFits
    <3>4. QED
      BY <1>0, <1>5, <2>1, <3>2, <3>3, CallStep
  <2>5. CASE decisions[d].state # "completed"
    <3>1. proc' = Goto(proc, "reserve")
      BY <1>1, <1>8, <2>5 DEF ReuseDecision
    <3>2. proc'.phase = "reserve" /\ Follows(proc, proc') /\ proc'.step = proc.step
      BY <1>3, <3>1
    <3>3. decisions[d].state = "failed"
      <4>1. Exists(decisions[d]) /\ ~UnresolvedDecision(d)
        BY <1>1, <1>8, <2>2 DEF ReuseDecision, NoCallOpen
      <4>2. decisions[d].state \in DecisionStates
        BY <1>0, <1>1, <4>1 DEF TypeOK, DecisionRows, NoDecision, Exists
      <4>3. QED
        BY <2>5, <4>1, <4>2 DEF UnresolvedDecision, UnresolvedDecisionStates, DecisionStates
    <3>4. reservations[d].state = "failed"
      <4>1. Exists(decisions[d])
        BY <3>3 DEF Exists
      <4>2. /\ decisions[d].reservation # None
            /\ reservations[decisions[d].reservation].decision = d
            /\ Exists(reservations[decisions[d].reservation])
        BY <1>0, <1>1, <3>3, <4>1 DEF ProviderLockstep
      <4>3. decisions[d].reservation \in Reservations
        BY <1>0, <1>1, <4>1, <4>2 DEF TypeOK, DecisionRows, NoDecision
      <4>4. decisions[d].reservation = d
        BY <1>0, <4>2, <4>3 DEF OwnRows
      <4>5. Exists(reservations[d]) /\ reservations[d].decision = d
        BY <4>2, <4>4
      <4>6. decisions[d].state =
              IF reservations[d].state = "reserved" THEN "pending" ELSE reservations[d].state
        BY <1>0, <1>1, <4>5 DEF ProviderLockstep
      <4>7. QED
        BY <3>3, <4>6
    <3>5. reservations'[proc'.step + 1].state = "failed"
      BY <2>1, <3>2, <3>4 DEF d
    <3>6. Fits(proc)'
      BY <1>0, <2>1, <2>3, <3>2, <3>5, CallFits
    <3>7. QED
      BY <1>0, <1>5, <2>1, <3>2, <3>6, CallStep
  <2>6. QED
    BY <2>4, <2>5
<1>9. CASE DecideFresh
  <2>1. /\ UNCHANGED <<operations, completions, checkpoints, episodes, host, wire>>
        /\ reservations' = reservations /\ calls' = calls /\ ~Exists(decisions[d])
        /\ decisions' = [decisions EXCEPT ![d] =
             [lineage |-> RunLineage, state |-> "pending", reservation |-> None]]
    BY <1>1, <1>9 DEF DecideFresh, RecordDecision
  <2>2. NoCallOpen
    BY <1>0, <1>9, PendingMeansOpen DEF DecideFresh
  <2>3. /\ decisions'[d] = [lineage |-> RunLineage, state |-> "pending", reservation |-> None]
        /\ \A x \in Decisions : x # d => decisions'[x] = decisions[x]
    BY <1>0, <1>1, <2>1 DEF TypeOK
  <2>4. OwnRows'
    BY <1>0, <2>1, <2>3 DEF OwnRows
  <2>5. proc'.phase = "reserve" /\ Follows(proc, proc') /\ proc'.step = proc.step
    BY <1>3, <1>9 DEF DecideFresh
  <2>6. OnlyCallOpen(proc.step + 1)'
    BY <2>1, <2>2, <2>3, <2>5 DEF d, NoCallOpen, OnlyCallOpen, UnresolvedDecision, UnresolvedReservation
  <2>7. ~Exists(reservations[d])
    <3>1. ASSUME Exists(reservations[d]) PROVE FALSE
      <4>1. reservations[d].decision = d
        BY <1>0, <1>1, <3>1 DEF OwnRows
      <4>2. /\ decisions[d].state = IF reservations[d].state = "reserved" THEN "pending"
                                    ELSE reservations[d].state
        BY <1>0, <1>1, <3>1, <4>1 DEF ProviderLockstep
      <4>3. QED
        BY <2>1, <3>1, <4>2 DEF Exists
    <3>2. QED
      BY <3>1
  <2>8. reservations'[proc'.step + 1].state = "absent"
    BY <2>1, <2>5, <2>7 DEF d, Exists
  <2>9. Fits(proc)'
    BY <1>0, <2>1, <2>5, <2>6, <2>8, CallFits
  <2>10. QED
    BY <1>0, <2>1, <2>4, <2>5, <2>9, CallStep
<1>10. CASE Reserve
  <2>1. proc'.phase = "invoke" /\ Follows(proc, proc') /\ proc'.step = proc.step /\ calls' = calls
        /\ UNCHANGED <<host, wire>>
    BY <1>3, <1>10 DEF Reserve
  <2>2. OnlyCallOpen(d) /\ reservations[d].state \in {"absent", "failed"}
    BY <1>0, <1>10 DEF Reserve, Fits, d
  <2>3. CASE Exists(reservations[d]) /\ UNCHANGED vars
    <3>1. /\ UNCHANGED <<operations, completions, checkpoints, episodes>>
          /\ decisions' = decisions /\ reservations' = reservations
      BY <2>3 DEF vars
    <3>2. OnlyCallOpen(proc.step + 1)'
      BY <2>1, <2>2, <3>1 DEF OnlyCallOpen, UnresolvedDecision, UnresolvedReservation, d
    <3>3. reservations'[proc'.step + 1].state = "failed" /\ Exists(reservations[proc.step + 1])'
      BY <2>1, <2>2, <2>3, <3>1 DEF d, Exists
    <3>4. Fits(proc)'
      BY <1>0, <2>1, <3>1, <3>2, <3>3, CallFits
    <3>5. QED
      BY <1>0, <1>5, <2>1, <3>1, <3>4, CallStep
  <2>4. CASE ReserveProvider(d, d, d, MaxUnits)
    <3> DEFINE row == [decision |-> d, lineage |-> decisions[d].lineage, provider |-> d,
                       reserved |-> MaxUnits, actual |-> 0, state |-> "reserved"]
    <3>1. /\ UNCHANGED <<operations, completions, checkpoints, episodes>>
          /\ Exists(decisions[d]) /\ ~Exists(reservations[d])
          /\ reservations' = [reservations EXCEPT ![d] = row]
          /\ decisions' = [decisions EXCEPT ![d].reservation = d]
      BY <2>4 DEF ReserveProvider
    <3>2. /\ reservations'[d] = row
          /\ \A x \in Decisions : x # d =>
               decisions'[x] = decisions[x] /\ reservations'[x] = reservations[x]
      BY <1>0, <1>1, <3>1 DEF TypeOK
    <3>3. decisions[d] \in DecisionRows
      BY <1>0, <1>1, <3>1 DEF TypeOK, NoDecision, Exists
    <3>4. decisions'[d].lineage = decisions[d].lineage /\ decisions'[d].state = decisions[d].state
      BY <1>0, <1>1, <3>1, <3>3 DEF TypeOK, DecisionRows
    <3>5. decisions[d].lineage = RunLineage /\ calls[d] = 0
      BY <1>0, <1>1, <3>1 DEF OwnRows, WorldOK
    <3>6. OwnRows'
      <4>1. reservations'[d].decision = d /\ reservations'[d].lineage = RunLineage
            /\ reservations'[d].state = "reserved"
        BY <3>2, <3>5
      <4> HIDE DEF row
      <4>2. QED
        BY <1>0, <1>1, <2>1, <3>1, <3>2, <3>4, <3>5, <4>1 DEF OwnRows, Exists
    <3>7. OnlyCallOpen(proc.step + 1)'
      BY <1>1, <2>1, <2>2, <3>2 DEF OnlyCallOpen, UnresolvedDecision, UnresolvedReservation, d
    <3>8. calls'[proc'.step + 1] = 0 /\ Exists(reservations[proc.step + 1])'
      BY <2>1, <3>2, <3>5 DEF d, Exists
    <3>9. Fits(proc)'
      BY <1>0, <2>1, <3>1, <3>7, <3>8, CallFits
    <3>10. QED
      BY <1>0, <2>1, <3>1, <3>6, <3>9, CallStep
  <2>5. QED
    BY <1>1, <1>10, <2>3, <2>4 DEF Reserve
<1>11. CASE Invoke
  <2>1. /\ UNCHANGED <<operations, completions, checkpoints, episodes, host, wire>>
        /\ decisions' = decisions /\ reservations' = reservations
        /\ calls' = [calls EXCEPT ![d] = @ + 1]
    BY <1>1, <1>11 DEF Invoke, vars
  <2>2. proc'.phase = "answer" /\ Follows(proc, proc') /\ proc'.step = proc.step
    BY <1>3, <1>11 DEF Invoke
  <2>3. OnlyCallOpen(d) /\ Exists(reservations[d])
    BY <1>0, <1>11 DEF Invoke, Fits, d
  <2>4. \A x \in Decisions : x # d => calls'[x] = calls[x]
    BY <1>0, <2>1 DEF WorldOK
  <2>5. OwnRows'
    BY <1>0, <2>1, <2>3, <2>4 DEF OwnRows
  <2>6. OnlyCallOpen(proc.step + 1)'
    BY <2>1, <2>2, <2>3 DEF OnlyCallOpen, UnresolvedDecision, UnresolvedReservation, d
  <2>7. Fits(proc)'
    BY <1>0, <2>1, <2>2, <2>6, CallFits
  <2>8. QED
    BY <1>0, <2>1, <2>2, <2>5, <2>7, CallStep
<1>12. CASE InvokeNotStarted \/ AnswerFails
  <2>1. proc' = Fail(proc) /\ UNCHANGED <<host, wire>> /\ calls' = calls
    BY <1>12 DEF InvokeNotStarted, AnswerFails
  <2>2. CASE UNCHANGED vars
    BY <1>4, <1>5, <2>1, <2>2 DEF vars
  <2>3. CASE FailProvider(d, 0) \/ MarkProviderUnknown(d, 0)
    BY <1>4, <1>6, <2>1, <2>3 DEF FailProvider, MarkProviderUnknown
  <2>4. QED
    BY <1>1, <1>12, <2>2, <2>3 DEF InvokeNotStarted, AnswerFails
<1>13. CASE AnswerDecision
  <2>1. proc'.phase = "act" /\ Follows(proc, proc') /\ UNCHANGED <<host, wire>> /\ calls' = calls
    BY <1>3, <1>13 DEF AnswerDecision
  <2>2. OnlyCallOpen(d)
    BY <1>0, <1>13 DEF AnswerDecision, Fits, d
  <2>3. FinishProvider(d, "completed", MaxUnits)
    BY <1>1, <1>13 DEF AnswerDecision, CompleteProvider
  <2>4. /\ UNCHANGED <<operations, completions, checkpoints, episodes>> /\ OwnRows'
        /\ \A x \in Decisions : x # d =>
             decisions'[x] = decisions[x] /\ reservations'[x] = reservations[x]
        /\ decisions'[d].state = "completed" /\ reservations'[d].state = "completed"
    BY <1>6, <2>1, <2>3
  <2>5. NoCallOpen'
    BY <1>1, <2>2, <2>4 DEF NoCallOpen, OnlyCallOpen, UnresolvedDecision, UnresolvedReservation,
         UnresolvedDecisionStates, UnresolvedReservationStates
  <2>6. Fits(proc)'
    BY <1>0, <2>1, <2>4, <2>5, CallFits
  <2>7. QED
    BY <1>0, <2>1, <2>4, <2>6, CallStep
<1>14. QED
  BY <1>7, <1>8, <1>9, <1>10, <1>11, <1>12, <1>13 DEF DecideStep

-----------------------------------------------------------------------------
(* Operations.                                                             *)

\* The tables that an operation does not touch.
OtherTables == UNCHANGED <<decisions, reservations, completions, checkpoints, episodes>>

\* A moved row keeps the outcomes true, and no other operation is open.
LEMMA RowStepKeeps ==
  ASSUME SettledInv, proc.phase \in OperationPhases, RowStep(proc.op),
         UNCHANGED <<host, wire, calls>>
  PROVE  /\ OtherTables /\ OwnRows' /\ OutcomesTrue' /\ StandsStill'
         /\ \A x \in Operations : UnresolvedOperation(x)' => x = proc.op
<1> DEFINE o == proc.op
<1>0. /\ o \in Operations /\ OnlyOpen(o) /\ OwnRows /\ OutcomesTrue /\ StandsStill /\ TypeOK
      /\ wire \subseteq Operations
  BY DEF SettledInv, RunInv, IInv, ProcessOK, Fits, WorldOK
<1> HIDE DEF o
<1>1. CASE UNCHANGED vars
  <2>1. OtherTables /\ operations' = operations
    BY <1>1 DEF OtherTables, vars
  <2>2. QED
    BY <1>0, <2>1
    DEF OtherTables, OwnRows, OutcomesTrue, StandsStill, OnlyOpen, NoneOpen, NoCallOpen, o,
        UnresolvedOperation, UnresolvedDecision, UnresolvedReservation
<1>2. ASSUME NEW next, NEW result,
             TransitionOperation(o, operations[o].payload, next, result), Truthful(o, next, result)
      PROVE  /\ OtherTables /\ OwnRows' /\ OutcomesTrue' /\ StandsStill'
             /\ \A x \in Operations : UnresolvedOperation(x)' => x = o
  <2>1. /\ OtherTables
        /\ operations' = [operations EXCEPT ![o].state = next,
                                            ![o].result = IF result = None THEN @ ELSE result]
        /\ Exists(operations[o]) /\ operations[o].state \in UnresolvedOperationStates
    BY <1>2 DEF TransitionOperation, ValidTransition, OtherTables, UnresolvedOperationStates
  <2>2. operations[o] \in OperationRows
    BY <1>0, <2>1 DEF TypeOK, NoOperation, Exists
  <2>3. /\ operations'[o].state = next /\ operations'[o].lineage = operations[o].lineage
        /\ result # None => operations'[o].result = result
    BY <1>0, <2>1, <2>2 DEF TypeOK, OperationRows
  <2>4. \A x \in Operations : x # o => operations'[x] = operations[x]
    BY <1>0, <2>1 DEF TypeOK
  <2>5. UnresolvedOperation(o) /\ ~NoneOpen
    BY <1>0, <2>1 DEF UnresolvedOperation, NoneOpen
  <2>6. \A x \in Operations : UnresolvedOperation(x)' => x = o
    BY <1>0, <2>4 DEF OnlyOpen, UnresolvedOperation
  <2>7. OwnRows'
    <3>1. operations'[o].lineage = RunLineage
      BY <1>0, <2>1, <2>3 DEF OwnRows
    <3>2. QED
      BY <1>0, <2>1, <2>4, <3>1 DEF OwnRows, OtherTables
  <2>8. StandsStill'
    BY <1>0, <2>1, <2>5
    DEF StandsStill, NoCallOpen, UnresolvedDecision, UnresolvedReservation, OtherTables
  <2>9. OutcomesTrue'
    <3>1. operations'[o].state \in ResolvedOperationStates =>
            host.ops[o] = IF Applied(operations'[o]) THEN "settled" ELSE "rejected"
      <4>1. "settled" # None /\ "rejected" # None
        BY ConstantsAssumption, RunAssumption DEF Statuses
      <4>2. QED
        BY <1>2, <2>3, <4>1 DEF Truthful, ResolvedOperationStates, Applied
    <3>2. \A x \in Operations : operations'[x].state \in ResolvedOperationStates =>
            host'.ops[x] = IF Applied(operations'[x]) THEN "settled" ELSE "rejected"
      BY <1>0, <2>4, <3>1 DEF OutcomesTrue
    <3>3. QED
      BY <1>0, <2>6, <3>2 DEF OutcomesTrue
  <2>10. QED
    BY <2>1, <2>6, <2>7, <2>8, <2>9
<1>3. QED
  BY <1>1, <1>2 DEF RowStep, o

\* What is left to show of a step on a row: where the process goes.
LEMMA RowStepSettles ==
  ASSUME SettledInv, RunInv', proc.phase # "down", UNCHANGED <<host, wire, calls>>,
         OtherTables, OwnRows', OutcomesTrue', StandsStill', Fits(proc)', Follows(proc, proc')
  PROVE  SettledInv'
<1>1. Tracks
  BY DEF Tracks, Follows, OtherTables
<1>2. Trajectory'
  BY <1>1, TrajectoryKept
<1>3. Ended'
  BY NotCompleted DEF Ended, OtherTables
<1>4. QED
  BY <1>2, <1>3 DEF SettledInv

\* A process that works on an operation and goes on with it, or with none open.
LEMMA RowGoto ==
  ASSUME SettledInv, RunInv', proc.phase \in OperationPhases, RowStep(proc.op),
         UNCHANGED <<host, wire, calls>>, Follows(proc, proc'),
         \/ proc'.phase \in FreePhases
         \/ proc'.phase \in PlainOperationPhases /\ proc'.op = proc.op
         \/ /\ proc'.phase \in PlainQuietPhases
            /\ operations'[proc.op].state \in ResolvedOperationStates
         \/ /\ proc'.phase = "complete" /\ Stage[proc.obs] = "terminal"
            /\ proc.obs = host.generation
            /\ operations'[proc.op].state \in ResolvedOperationStates
  PROVE  SettledStep
<1>1. /\ OtherTables /\ OwnRows' /\ OutcomesTrue' /\ StandsStill'
      /\ \A x \in Operations : UnresolvedOperation(x)' => x = proc.op
  BY RowStepKeeps
<1>2. operations'[proc.op].state \in ResolvedOperationStates => NoneOpen'
  BY <1>1 DEF NoneOpen, UnresolvedOperation, ResolvedOperationStates, UnresolvedOperationStates
<1>3. proc'.op = proc.op => OnlyOpen(proc.op)'
  BY <1>1 DEF OnlyOpen
<1>4. Fits(proc)'
  BY <1>2, <1>3, FitsNext DEF Follows
<1>5. QED
  BY <1>1, <1>4, RowStepSettles DEF OperationPhases, SettledStep

\* A report of the host fits when it is about the only open operation.
LEMMA ReportFits ==
  ASSUME OnlyOpen(proc.op)', proc'.phase \in {"record", "resolve", "witness", "awaited"},
         HoldsSettled(proc)' => host'.ops[proc'.op] = "settled",
         proc'.phase # "record" /\ HoldsSettled(proc)' => proc'.obs = host'.generation,
         proc'.phase \in {"record", "resolve"} /\ proc'.status = "rejected" =>
           host'.ops[proc'.op] = "rejected"
  PROVE  Fits(proc)'
BY DEF Fits, OperationPhases, QuietPhases, DecidingPhases

\* Beginning an operation: it is the only one open.
LEMMA IntentSettled ==
  ASSUME SettledInv, RunInv', NEW o \in Operations, RecordIntent(o)
  PROVE  SettledInv'
<1>0. /\ proc \in Processes /\ OwnRows /\ OutcomesTrue /\ StandsStill /\ TypeOK /\ WorldOK
      /\ NoneOpen /\ NoCallOpen /\ DispatchRecorded
  BY DEF SettledInv, RunInv, IInv, ProcessOK, Fits, RecordIntent, QuietPhases, DecidingPhases
<1> DEFINE row == [lineage |-> RunLineage, payload |-> proc.obs, state |-> "intent_recorded",
                   result |-> None]
<1>1. /\ OtherTables /\ ~Exists(operations[o])
      /\ operations' = [operations EXCEPT ![o] = row]
      /\ UNCHANGED <<host, wire, calls>> /\ proc.phase = "act"
  BY DEF RecordIntent, RecordOperationIntent, OtherTables
<1>2. operations'[o] = row /\ \A x \in Operations : x # o => operations'[x] = operations[x]
  BY <1>0, <1>1 DEF TypeOK
<1>3. operations'[o].lineage = RunLineage /\ operations'[o].state = "intent_recorded"
  BY <1>2
<1> HIDE DEF row
<1>4. OwnRows'
  BY <1>0, <1>1, <1>2, <1>3 DEF OwnRows, OtherTables
<1>5. \A x \in Operations : UnresolvedOperation(x)' => x = o
  BY <1>0, <1>2 DEF NoneOpen, UnresolvedOperation
<1>6. OutcomesTrue'
  <2>1. \A x \in Operations : operations'[x].state \in ResolvedOperationStates => x # o
    BY <1>3 DEF ResolvedOperationStates
  <2>2. QED
    BY <1>0, <1>1, <1>2, <1>5, <2>1 DEF OutcomesTrue, WorldOK
<1>7. StandsStill'
  BY <1>0, <1>1
  DEF StandsStill, NoCallOpen, UnresolvedDecision, UnresolvedReservation, OtherTables
<1>8. proc'.phase = "dispatch" /\ proc'.op = o /\ Follows(proc, proc')
  BY <1>0 DEF RecordIntent, Goto, Processes, Follows
<1>9. Fits(proc)'
  <2>1. OnlyOpen(proc.op)'
    BY <1>5, <1>8 DEF OnlyOpen
  <2>2. QED
    BY <1>8, <2>1, FitsNext DEF PlainOperationPhases
<1>10. QED
  BY <1>1, <1>4, <1>6, <1>7, <1>8, <1>9, RowStepSettles

\* The row says so before the request leaves, and the request leaves once.
LEMMA DispatchSettled ==
  ASSUME SettledInv, RunInv', MarkDispatched \/ Send
  PROVE  SettledStep
<1>0. /\ proc \in Processes /\ OwnRows /\ OutcomesTrue /\ StandsStill /\ Fits(proc)
      /\ DispatchRecorded /\ proc.op \in Operations /\ OnlyOpen(proc.op)
      /\ proc.phase \in OperationPhases /\ proc.phase # "down" /\ wire \subseteq Operations
  BY DEF SettledInv, RunInv, IInv, ProcessOK, Fits, MarkDispatched, Send, OperationPhases, WorldOK
<1>1. CASE MarkDispatched
  <2>1. /\ TransitionOperation(proc.op, operations[proc.op].payload,
                               "may_have_been_dispatched", None)
        /\ proc' = Goto(proc, "send") /\ UNCHANGED <<host, wire, calls>>
    BY <1>1 DEF MarkDispatched, MarkOperationDispatched
  <2>2. RowStep(proc.op)
    BY <2>1 DEF RowStep, Truthful
  <2>3. proc'.phase = "send" /\ proc'.op = proc.op /\ Follows(proc, proc')
    BY <1>0, <2>1, GotoShape DEF Phases
  <2>4. /\ OtherTables /\ OwnRows' /\ OutcomesTrue' /\ StandsStill'
        /\ \A x \in Operations : UnresolvedOperation(x)' => x = proc.op
    BY <1>0, <2>1, <2>2, RowStepKeeps
  <2>5. operations[proc.op].state = "intent_recorded"
    BY <2>1 DEF TransitionOperation, ValidTransition
  <2>6. proc.op \notin wire /\ host.ops[proc.op] = "absent"
    BY <1>0, <2>5 DEF DispatchRecorded
  <2>7. Fits(proc)'
    <3>1. OnlyOpen(proc.op)' /\ proc'.op \notin wire' /\ host'.ops[proc'.op] = "absent"
      BY <2>1, <2>3, <2>4, <2>6 DEF OnlyOpen
    <3>2. QED
      BY <2>3, <3>1 DEF Fits, HoldsSettled, QuietPhases, DecidingPhases
  <2>8. QED
    BY <1>0, <2>1, <2>2, <2>3, <2>4, <2>7, RowStepSettles DEF SettledStep
<1>2. CASE Send
  <2>1. /\ wire' = wire \union {proc.op} /\ UNCHANGED <<host, calls>> /\ OtherTables
        /\ operations' = operations /\ proc' = Goto(proc, "sent")
        /\ host.ops[proc.op] = "absent"
    BY <1>0, <1>2 DEF Send, vars, OtherTables, Fits
  <2>2. proc'.phase = "sent" /\ proc'.op = proc.op /\ Follows(proc, proc')
    BY <1>0, <2>1, GotoShape DEF Phases
  <2>3. OwnRows' /\ StandsStill'
    BY <1>0, <2>1
    DEF OwnRows, StandsStill, NoneOpen, NoCallOpen, UnresolvedOperation, UnresolvedDecision,
        UnresolvedReservation, OtherTables
  <2>4. OutcomesTrue'
    BY <1>0, <2>1 DEF OutcomesTrue, UnresolvedOperation
  <2>5. OnlyOpen(proc.op)'
    BY <1>0, <2>1, <2>2 DEF OnlyOpen, UnresolvedOperation
  <2>6. Fits(proc)'
    BY <2>2, <2>5, FitsNext DEF PlainOperationPhases
  <2>7. Trajectory' /\ Ended'
    <3>1. Tracks
      BY <1>0, <2>1, <2>2 DEF Tracks, Follows, OtherTables
    <3>2. QED
      BY <1>0, <2>1, <3>1, TrajectoryKept, NotCompleted DEF Ended, OtherTables
  <2>8. QED
    BY <2>1, <2>3, <2>4, <2>6, <2>7 DEF SettledInv, SettledStep
<1>3. QED
  BY <1>1, <1>2

\* A transition writes the state of the row.
LEMMA TransitionSets ==
  ASSUME TypeOK, NEW o \in Operations, NEW next, NEW result,
         TransitionOperation(o, operations[o].payload, next, result)
  PROVE  operations'[o].state = next
<1>1. operations[o] \in OperationRows
  BY DEF TransitionOperation, TypeOK, NoOperation, Exists
<1>2. QED
  BY <1>1 DEF TransitionOperation, TypeOK, OperationRows

\* Recording an outcome that the host has reported resolves the row truthfully.
LEMMA ReconciledRow ==
  ASSUME SettledInv, NEW o \in Operations, NEW result \in {"settled", "rejected"},
         host.ops[o] = result, ReconcileOperation(o, operations[o].payload, result)
  PROVE  RowStep(o) /\ operations'[o].state \in ResolvedOperationStates
<1>1. TransitionOperation(o, operations[o].payload, "reconciled", result)
  BY DEF ReconcileOperation
<1>2. Truthful(o, "reconciled", result)
  BY DEF Truthful
<1>3. operations'[o].state = "reconciled"
  BY <1>1, TransitionSets DEF SettledInv, RunInv, IInv
<1>4. QED
  BY <1>1, <1>2, <1>3 DEF RowStep, ResolvedOperationStates

\* A row that is settled already stays as it is.
LEMMA SettledRow ==
  ASSUME SettledInv, NEW o \in Operations, host.ops[o] = "settled", ReconcileSettled(o)
  PROVE  RowStep(o) /\ operations'[o].state \in ResolvedOperationStates
<1>1. CASE operations[o].state \in {"settled", "reconciled"} /\ UNCHANGED vars
  BY <1>1 DEF RowStep, vars, ResolvedOperationStates
<1>2. CASE ReconcileOperation(o, operations[o].payload, "settled")
  BY <1>2, ReconciledRow
<1>3. QED
  BY <1>1, <1>2 DEF ReconcileSettled

\* A calm step of a process that works on an operation.
LEMMA OperationGoto ==
  ASSUME SettledInv, RunInv', proc.phase \in OperationPhases,
         UNCHANGED <<vars, inputs, host, wire, calls>>, Follows(proc, proc'),
         \/ proc'.phase \in FreePhases
         \/ proc'.phase \in PlainOperationPhases /\ proc'.op = proc.op
  PROVE  SettledStep
<1>1. RowStep(proc.op)
  BY DEF RowStep
<1>2. QED
  BY <1>1, RowGoto

\* A report of the host about the operation, with or without an observation.
LEMMA ReportSettled ==
  ASSUME SettledInv, RunInv', proc.phase \in OperationPhases, Calm, Tracks,
         proc'.op = proc.op, proc'.phase \in {"record", "resolve", "witness", "awaited"},
         HoldsSettled(proc)' => host.ops[proc.op] = "settled",
         proc'.phase # "record" /\ HoldsSettled(proc)' => proc'.obs = host.generation,
         proc'.phase \in {"record", "resolve"} /\ proc'.status = "rejected" =>
           host.ops[proc.op] = "rejected"
  PROVE  SettledStep
<1>1. OnlyOpen(proc.op) /\ proc.phase # "down"
  BY DEF SettledInv, Fits, OperationPhases
<1>2. OnlyOpen(proc.op)' /\ host' = host
  BY <1>1, CalmWorld
<1>3. Fits(proc)'
  BY <1>2, ReportFits
<1>4. QED
  BY <1>1, <1>3, CalmStep

\* What the host answers is true.
LEMMA AnswersTrue ==
  ASSUME NEW o \in Operations, WorldOK, NEW status \in Answers(o)
  PROVE  /\ status = "settled" => host.ops[o] = "settled"
         /\ status = "rejected" => host.ops[o] = "rejected"
<1>1. host.ops[o] \in {"absent", "admitted", "settled", "rejected"}
  BY DEF WorldOK
<1>2. QED
  BY <1>1 DEF Answers

\* Acting, but for the intent and the request.
LEMMA ActSettled ==
  ASSUME SettledInv, RunInv', ActStep,
         ~MarkDispatched, ~Send, ~\E o \in Operations : RecordIntent(o)
  PROVE  SettledStep
<1>0. /\ proc \in Processes /\ ProcessOK(proc) /\ Fits(proc) /\ WorldOK
      /\ host.generation \in Generations
  BY DEF SettledInv, RunInv, ProcessOK, WorldOK
<1>1. {"pause", "reobserve", "recover", "settle", "record", "witness", "awaited"} \subseteq Phases
  BY DEF Phases
<1>2. CASE ChooseWait \/ ChooseReobserve \/ ActFails
  <2>1. proc.phase = "act" /\ UNCHANGED <<vars, inputs, host, wire, calls>>
    BY <1>2 DEF ChooseWait, ChooseReobserve, ActFails
  <2>2. Follows(proc, proc') /\ proc'.phase \in {"pause", "reobserve", "failing"}
    <3>1. CASE ChooseWait
      BY <1>0, <3>1 DEF ChooseWait, Goto, Processes, Follows
    <3>2. CASE ChooseReobserve
      BY <1>0, <1>1, <3>2, GotoShape DEF ChooseReobserve
    <3>3. CASE ActFails
      BY <1>0, <3>3, FailShape DEF ActFails
    <3>4. QED
      BY <1>2, <3>1, <3>2, <3>3
  <2>3. Calm /\ Fits(proc)' /\ Tracks
    BY <2>1, <2>2, QuietGoto DEF QuietPhases, DecidingPhases, FreePhases, PlainQuietPhases
  <2>4. QED
    BY <2>1, <2>3, CalmStep
<1>3. CASE DispatchLost
  <2>1. Follows(proc, proc') /\ proc'.phase = "recover" /\ proc'.op = proc.op
    BY <1>0, <1>1, <1>3, GotoShape DEF DispatchLost
  <2>2. QED
    BY <1>3, <2>1, OperationGoto DEF DispatchLost, OperationPhases, PlainOperationPhases
<1>4. CASE RecordReceipt
  <2>1. /\ proc.phase = "record" /\ UNCHANGED <<host, wire, calls>> /\ proc' = AfterDispatch(proc)
        /\ proc.status \in {"accepted", "settled", "rejected", "unknown"}
        /\ TransitionOperation(proc.op, operations[proc.op].payload, proc.status, proc.status)
    BY <1>4 DEF RecordReceipt, RecordOperationResult
  <2>2. Truthful(proc.op, proc.status, proc.status)
    BY <1>0, <2>1 DEF Fits, HoldsSettled, Truthful
  <2>3. RowStep(proc.op)
    BY <2>1, <2>2 DEF RowStep
  <2>4. CASE proc.status \in {"accepted", "settled"}
    <3>1. proc' = Goto(proc, "settle")
      BY <2>1, <2>4 DEF AfterDispatch
    <3>2. Follows(proc, proc') /\ proc'.phase = "settle" /\ proc'.op = proc.op
      BY <1>0, <1>1, <3>1, GotoShape
    <3>3. QED
      BY <2>1, <2>3, <3>2, RowGoto DEF OperationPhases, PlainOperationPhases
  <2>5. CASE proc.status = "unknown"
    <3>1. proc' = Goto(proc, "recover")
      BY <2>1, <2>5 DEF AfterDispatch
    <3>2. Follows(proc, proc') /\ proc'.phase = "recover" /\ proc'.op = proc.op
      BY <1>0, <1>1, <3>1, GotoShape
    <3>3. QED
      BY <2>1, <2>3, <3>2, RowGoto DEF OperationPhases, PlainOperationPhases
  <2>6. CASE proc.status = "rejected"
    <3>1. proc' = Goto(proc, "reobserve")
      BY <2>1, <2>6 DEF AfterDispatch
    <3>2. Follows(proc, proc') /\ proc'.phase = "reobserve"
      BY <1>0, <1>1, <3>1, GotoShape
    <3>3. operations'[proc.op].state = "rejected"
      BY <1>0, <2>1, <2>6, TransitionSets DEF ProcessOK, OperationPhases, SettledInv, RunInv, IInv
    <3>4. QED
      BY <2>1, <2>3, <3>2, <3>3, RowGoto
      DEF OperationPhases, PlainQuietPhases, ResolvedOperationStates
  <2>7. QED
    BY <2>1, <2>4, <2>5, <2>6
<1>5. ASSUME NEW status \in Statuses, DispatchAnswered(status)
      PROVE  SettledStep
  <2>1. /\ proc.phase = "sent" /\ proc.op \in Operations /\ status \in Answers(proc.op)
        /\ Aside
    BY <1>0, <1>5 DEF DispatchAnswered, ProcessOK, OperationPhases, Aside
  <2>2. /\ status = "settled" => host.ops[proc.op] = "settled"
        /\ status = "rejected" => host.ops[proc.op] = "rejected"
    BY <1>0, <2>1, AnswersTrue
  <2>3. ASSUME NEW p \in Processes, p.op = proc.op
        PROVE  LET q == [Goto(p, "record") EXCEPT !.status = status] IN
               q.phase = "record" /\ q.op = proc.op /\ q.status = status /\ Follows(p, q)
    BY <2>3 DEF Goto, Processes, Follows
  <2>4. Calm /\ Tracks /\ proc'.phase = "record" /\ proc'.op = proc.op /\ proc'.status = status
    <3>1. CASE status = "unknown"
      <4>1. proc' = [Goto(proc, "record") EXCEPT !.status = status] /\ UNCHANGED vars
        BY <1>5, <3>1 DEF DispatchAnswered
      <4>2. QED
        BY <1>0, <2>1, <2>3, <4>1 DEF Calm, vars, Aside, Tracks, Follows
    <3>2. CASE status # "unknown"
      <4> DEFINE p == Installed(proc, host.generation)
                 q == [Goto(p, "record") EXCEPT !.status = status]
      <4>1. Install(proc, host.generation, q)
        BY <1>5, <3>2 DEF DispatchAnswered
      <4>2. p \in Processes /\ p.op = proc.op
        BY <1>0, <4>1, InstalledKeeps DEF Install, Installable
      <4>3. q.phase = "record" /\ q.op = proc.op /\ q.status = status /\ Follows(p, q)
        BY <2>3, <4>2
      <4> HIDE DEF q
      <4>4. /\ UNCHANGED <<operations, decisions, reservations, completions>>
            /\ Tracks /\ proc' = q
        BY <1>0, <2>1, <4>1, <4>3, InstallTracks
      <4>5. QED
        BY <2>1, <4>3, <4>4 DEF Calm, Aside
    <3>3. QED
      BY <3>1, <3>2
  <2>5. QED
    BY <2>1, <2>2, <2>4, ReportSettled DEF HoldsSettled, OperationPhases
<1>6. CASE WaitWitnessed
  <2> DEFINE p == Installed(proc, host.generation)
             q == Goto(p, IF proc.phase = "settle" THEN "witness" ELSE "awaited")
  <2>1. /\ proc.phase \in {"settle", "await"} /\ host.ops[proc.op] = "settled" /\ Aside
        /\ Install(proc, host.generation, q)
    BY <1>6 DEF WaitWitnessed, Aside
  <2>2. p \in Processes /\ p.op = proc.op
    BY <1>0, <2>1, InstalledKeeps DEF Install, Installable
  <2>3. q.phase \in {"witness", "awaited"} /\ q.op = proc.op /\ Follows(p, q)
    BY <1>1, <2>2, GotoShape
  <2> HIDE DEF q
  <2>4. /\ UNCHANGED <<operations, decisions, reservations, completions>>
        /\ Tracks /\ proc' = q /\ q.obs = host.generation
    BY <1>0, <2>1, <2>3, InstallTracks
  <2>5. Calm
    BY <2>1, <2>4 DEF Calm, Aside
  <2>6. QED
    BY <2>1, <2>3, <2>4, <2>5, ReportSettled DEF OperationPhases
<1>7. CASE WaitFails
  <2>1. /\ proc.phase \in {"settle", "await"} /\ UNCHANGED <<vars, inputs, host, wire, calls>>
        /\ proc' \in {Goto(proc, "recover"), Fail(proc)}
    BY <1>7 DEF WaitFails
  <2>2. /\ Follows(proc, proc')
        /\ proc'.phase = "failing" \/ (proc'.phase = "recover" /\ proc'.op = proc.op)
    BY <1>0, <1>1, <2>1, GotoShape, FailShape
  <2>3. QED
    BY <2>1, <2>2, OperationGoto DEF OperationPhases, PlainOperationPhases, FreePhases
<1>8. CASE RecordWait
  <2>1. /\ proc.phase \in {"witness", "awaited"} /\ UNCHANGED <<host, wire, calls>>
        /\ ReconcileSettled(proc.op) /\ proc' \in {Goto(proc, "recover"), Settled(proc)}
    BY <1>8 DEF RecordWait
  <2>2. /\ host.ops[proc.op] = "settled" /\ proc.op \in Operations
        /\ Stage[proc.obs] = "terminal" => proc.obs = host.generation
    BY <1>0, <2>1 DEF Fits, HoldsSettled, ProcessOK, OperationPhases
  <2>3. RowStep(proc.op) /\ operations'[proc.op].state \in ResolvedOperationStates
    BY <2>1, <2>2, SettledRow
  <2>4. CASE proc' = Goto(proc, "recover")
    <3>1. Follows(proc, proc') /\ proc'.phase = "recover" /\ proc'.op = proc.op
      BY <1>0, <1>1, <2>4, GotoShape
    <3>2. QED
      BY <2>1, <2>3, <3>1, RowGoto DEF OperationPhases, PlainOperationPhases
  <2>5. CASE proc' = Settled(proc)
    <3>1. /\ Follows(proc, proc')
          /\ \/ proc'.phase \in {"observe", "failing"}
             \/ proc'.phase = "complete" /\ Stage[proc.obs] = "terminal"
      BY <1>0, <2>5, SettledShape
    <3>2. QED
      BY <2>1, <2>2, <2>3, <3>1, RowGoto DEF OperationPhases, PlainQuietPhases, FreePhases
  <2>6. QED
    BY <2>1, <2>4, <2>5
<1>9. QED
  BY <1>2, <1>3, <1>4, <1>5, <1>6, <1>7, <1>8 DEF ActStep

\* Recovering: a final answer resolves the row, any other leaves the operation open.
LEMMA RecoverSettled ==
  ASSUME SettledInv, RunInv', RecoverStep
  PROVE  SettledStep
<1>0. /\ proc \in Processes /\ ProcessOK(proc) /\ Fits(proc) /\ WorldOK
      /\ host.generation \in Generations
      /\ proc.phase \in {"recover", "resolve"} /\ proc.op \in Operations
  BY DEF SettledInv, RunInv, ProcessOK, WorldOK, RecoverStep, ReconcileAnswered, ReconcileLost,
         Resolve, ResolveFails, OperationPhases
<1>1. proc.phase \in OperationPhases
  BY <1>0 DEF OperationPhases
<1>2. ASSUME NEW status \in Statuses, ReconcileAnswered(status)
      PROVE  SettledStep
  <2>0. proc.phase = "recover" /\ status \in Answers(proc.op) /\ Aside
    BY <1>2 DEF ReconcileAnswered, Aside
  <2>1. /\ status = "settled" => host.ops[proc.op] = "settled"
        /\ status = "rejected" => host.ops[proc.op] = "rejected"
    BY <1>0, <2>0, AnswersTrue
  <2>2. CASE Final(status)
    <3> DEFINE b == [proc EXCEPT !.boundary = None, !.status = status]
               p == Installed(b, host.generation)
               q == [p EXCEPT !.phase = "resolve"]
    <3>1. b \in Processes /\ b.op = proc.op /\ b.status = status /\ b.next = proc.next
      BY <1>0, <1>2 DEF Processes
    <3>2. Install(b, host.generation, q)
      BY <1>2, <2>2 DEF ReconcileAnswered
    <3> HIDE DEF b
    <3>3. p \in Processes /\ p.op = proc.op /\ p.status = status
      BY <1>0, <3>1, <3>2, InstalledKeeps DEF Install, Installable
    <3> HIDE DEF p
    <3>4. q.phase = "resolve" /\ q.op = proc.op /\ q.status = status /\ Follows(p, q)
      BY <3>3 DEF Processes, Follows
    <3> HIDE DEF q
    <3>5. /\ UNCHANGED <<operations, decisions, reservations, completions>>
          /\ Tracks /\ proc' = q /\ q.obs = host.generation
      BY <2>0, <3>1, <3>2, <3>4, InstallTracks DEF p
    <3>6. Calm
      BY <2>0, <3>5 DEF Calm, Aside
    <3>7. QED
      BY <1>1, <2>1, <3>4, <3>5, <3>6, ReportSettled DEF HoldsSettled
  <2>3. CASE ~Final(status) /\ proc.historical
    <3> DEFINE b == [proc EXCEPT !.status = "unknown"]
    <3>1. /\ b \in Processes /\ b.op = proc.op /\ b.status = "unknown"
          /\ b.obs = proc.obs /\ b.next = proc.next
      BY <1>0 DEF Processes, Statuses
    <3>2. proc' = AfterReconcile(b) /\ UNCHANGED <<vars, inputs, host, wire, calls>>
      BY <1>2, <2>3 DEF ReconcileAnswered
    <3> HIDE DEF b
    <3>3. /\ Follows(proc, proc')
          /\ \/ proc'.phase \in {"reconcile", "failing"}
             \/ proc'.phase = "await" /\ proc'.op = proc.op
      BY <3>1, <3>2, AfterReconcileShape DEF Follows
    <3>4. QED
      BY <1>1, <3>2, <3>3, OperationGoto DEF FreePhases, PlainOperationPhases
  <2>4. CASE ~Final(status) /\ ~proc.historical
    <3>1. /\ proc' = [proc EXCEPT !.status = status, !.phase = "resolve"]
          /\ UNCHANGED <<vars, inputs, host, wire, calls>>
      BY <1>2, <2>4 DEF ReconcileAnswered
    <3>2. /\ proc'.phase = "resolve" /\ proc'.op = proc.op /\ proc'.status = status
          /\ proc'.obs = proc.obs /\ proc'.next = proc.next
      BY <1>0, <3>1 DEF Processes
    <3>3. Calm /\ Tracks
      BY <1>0, <3>1, <3>2 DEF Calm, Tracks, vars
    <3>4. QED
      BY <1>1, <2>4, <3>2, <3>3, ReportSettled DEF HoldsSettled, Final
  <2>5. QED
    BY <2>2, <2>3, <2>4
<1>3. CASE ReconcileLost
  <2>1. /\ proc.phase = "recover" /\ proc' \in {PortFailure(proc), Fail(proc)}
        /\ UNCHANGED <<vars, inputs, host, wire, calls>>
    BY <1>3 DEF ReconcileLost
  <2>2. /\ Follows(proc, proc')
        /\ proc'.phase = "failing" \/ (proc'.phase = "recover" /\ proc'.op = proc.op)
    BY <1>0, <2>1, PortFailureShape, FailShape
  <2>3. QED
    BY <1>1, <2>1, <2>2, OperationGoto DEF FreePhases, PlainOperationPhases
<1>4. CASE Resolve
  <2>1. /\ proc.phase = "resolve" /\ RecordReconciled(proc.op, proc.status)
        /\ proc' = AfterReconcile(proc) /\ UNCHANGED <<host, wire, calls>>
    BY <1>4 DEF Resolve
  <2>2. /\ proc.status = "settled" => host.ops[proc.op] = "settled"
        /\ proc.status = "rejected" => host.ops[proc.op] = "rejected"
        /\ proc.status = "settled" /\ Stage[proc.obs] = "terminal" => proc.obs = host.generation
    BY <1>0, <2>1 DEF Fits, HoldsSettled
  <2>3. /\ RowStep(proc.op)
        /\ proc.status \in {"settled", "rejected"} =>
             operations'[proc.op].state \in ResolvedOperationStates
    <3>1. CASE proc.status = "settled"
      BY <1>0, <2>1, <2>2, <3>1, SettledRow, ReconciledRow DEF RecordReconciled
    <3>2. CASE proc.status = "rejected"
      BY <1>0, <2>1, <2>2, <3>2, ReconciledRow DEF RecordReconciled
    <3>3. CASE proc.status \notin {"settled", "rejected"}
      <4>1. \/ UNCHANGED vars
            \/ \E next \in {"accepted", "unknown"} : \E result :
                 TransitionOperation(proc.op, operations[proc.op].payload, next, result)
        BY <2>1, <3>3 DEF RecordReconciled, RecordOperationResult
      <4>2. \A next \in {"accepted", "unknown"} : \A result : Truthful(proc.op, next, result)
        BY DEF Truthful
      <4>3. QED
        BY <3>3, <4>1, <4>2 DEF RowStep
    <3>4. QED
      BY <3>1, <3>2, <3>3
  <2>4. /\ Follows(proc, proc')
        /\ \/ proc'.phase \in {"reconcile", "failing"}
           \/ proc.status = "settled" /\ proc'.phase = "observe"
           \/ proc.status = "settled" /\ proc'.phase = "complete" /\ Stage[proc.obs] = "terminal"
           \/ proc.status = "rejected" /\ proc'.phase = "reobserve"
           \/ proc'.phase = "await" /\ proc'.op = proc.op
    BY <1>0, <2>1, AfterReconcileShape
  <2>5. QED
    BY <1>1, <2>1, <2>2, <2>3, <2>4, RowGoto
    DEF FreePhases, PlainQuietPhases, PlainOperationPhases
<1>5. CASE ResolveFails
  <2> DEFINE q == [proc EXCEPT !.phase = "recover"]
  <2>1. /\ q \in Processes /\ q.phase = "recover" /\ q.op = proc.op
        /\ q.obs = proc.obs /\ q.next = proc.next
    BY <1>0 DEF Processes, Phases
  <2>2. proc' = PortFailure(q) /\ UNCHANGED <<vars, inputs, host, wire, calls>>
    BY <1>5 DEF ResolveFails
  <2> HIDE DEF q
  <2>3. /\ Follows(proc, proc')
        /\ proc'.phase = "failing" \/ (proc'.phase = "recover" /\ proc'.op = proc.op)
    BY <2>1, <2>2, PortFailureShape DEF Follows
  <2>4. QED
    BY <1>1, <2>2, <2>3, OperationGoto DEF FreePhases, PlainOperationPhases
<1>6. QED
  BY <1>2, <1>3, <1>4, <1>5 DEF RecoverStep

\* Ending: the completion is recorded where the game ended.
LEMMA CompleteSettled ==
  ASSUME SettledInv, RunInv', Complete \/ CompleteFails
  PROVE  SettledStep
<1>0. /\ proc \in Processes /\ ProcessOK(proc) /\ Fits(proc) /\ TypeOK /\ proc.phase = "complete"
      /\ OwnRows /\ OutcomesTrue /\ StandsStill /\ Trajectory
  BY DEF SettledInv, RunInv, IInv, ProcessOK, Complete, CompleteFails
<1>1. CASE CompleteFails
  <2>1. UNCHANGED <<vars, inputs, host, wire, calls>> /\ proc' = Fail(proc)
    BY <1>1 DEF CompleteFails
  <2>2. Follows(proc, proc') /\ proc'.phase = "failing"
    BY <1>0, <2>1, FailShape
  <2>3. Calm /\ Fits(proc)' /\ Tracks
    BY <1>0, <2>1, <2>2, QuietGoto DEF QuietPhases, FreePhases
  <2>4. QED
    BY <1>0, <2>3, CalmStep
<1>2. CASE Complete
  <2>1. /\ NoneOpen /\ Stage[proc.obs] = "terminal" /\ proc.obs = host.generation
        /\ proc.obs \in Generations
    BY <1>0 DEF Fits, QuietPhases, ProcessOK, ObservedPhases
  <2>2. /\ RecordCompletion(RunLineage, "completed", proc.next - 1, "terminal") /\ proc' = Down
        /\ UNCHANGED <<host, wire, calls>> /\ proc.next = NextSequence /\ LastCheckpoint = proc.obs
    BY <1>2 DEF Complete
  <2>3. UNCHANGED <<operations, decisions, reservations, checkpoints>>
    BY <2>2 DEF RecordCompletion
  <2>4. OwnRows' /\ OutcomesTrue' /\ StandsStill' /\ NoneOpen'
    BY <1>0, <2>1, <2>2, <2>3
    DEF OwnRows, OutcomesTrue, StandsStill, NoneOpen, NoCallOpen, UnresolvedOperation,
        UnresolvedDecision, UnresolvedReservation
  <2>5. Fits(proc)' /\ Tracks
    BY <2>2, FitsNext DEF Down, FreePhases, Tracks
  <2>6. checkpoints[<<RunAttempt, proc.next - 1>>] = host.generation
    <3>1. proc.obs # None
      BY <2>1, RunAssumption, ConstantsAssumption
    <3>2. QED
      BY <2>1, <2>2, <3>1 DEF LastCheckpoint
  <2>7. completions'[RunEpisode].sequence = proc.next - 1
    <3>1. RunEpisode \in Episodes /\ RunLineage.episode = RunEpisode
      BY RunAssumption DEF RunEpisode, Lineages
    <3>2. QED
      BY <1>0, <2>2, <3>1 DEF RecordCompletion, TypeOK
  <2>8. Ended'
    BY <2>1, <2>2, <2>3, <2>4, <2>6, <2>7 DEF Ended, CompletedAtTheEnd
  <2>9. QED
    BY <2>2, <2>3, <2>4, <2>5, <2>8, TrajectoryKept DEF SettledInv, SettledStep
<1>3. QED
  BY <1>1, <1>2

-----------------------------------------------------------------------------
(* The host.                                                               *)

\* What the host does: it moves only when an operation is open or the stage is not one
\* to decide on, it takes a request from the wire once, and an outcome is final.
HostMove ==
  /\ \/ host'.generation = host.generation
     \/ Stage[host.generation] \in {"blocked", "unknown"}
     \/ \E o \in Operations : UnresolvedOperation(o) /\ host.ops[o] = "admitted"
  /\ \A o \in Operations : host.ops[o] \in {"settled", "rejected"} => host'.ops[o] = host.ops[o]
  /\ \A o \in Operations : host.ops[o] = "absent" /\ o \notin wire => host'.ops[o] = "absent"
  /\ \A o \in Operations : o \in wire' => o \in wire /\ host'.ops[o] = host.ops[o]
  /\ wire' \subseteq wire

\* Whatever the host or the wire does is such a move.
LEMMA HostMoves ==
  ASSUME SettledInv, HostStep
  PROVE  HostMove /\ UNCHANGED <<vars, proc, inputs, calls>>
<1>0. WorldOK /\ OutcomesTrue /\ RunInv
  BY DEF SettledInv, RunInv
<1>1. ASSUME NEW o \in Operations, HostReceives(o)
      PROVE  HostMove /\ UNCHANGED <<vars, proc, inputs, calls>>
  <2>1. /\ host'.generation = host.generation /\ wire' = wire \ {o} /\ o \in wire
        /\ \A x \in Operations : x # o => host'.ops[x] = host.ops[x]
        /\ host.ops[o] # "absent" => host'.ops[o] = host.ops[o]
        /\ UNCHANGED <<vars, proc, inputs, calls>>
    BY <1>0, <1>1 DEF HostReceives, WorldOK
  <2>2. QED
    BY <2>1 DEF HostMove
<1>2. ASSUME NEW o \in Operations, HostSettles(o) \/ HostRefuses(o)
      PROVE  HostMove /\ UNCHANGED <<vars, proc, inputs, calls>>
  <2>1. /\ host.ops[o] = "admitted" /\ wire' = wire
        /\ \A x \in Operations : x # o => host'.ops[x] = host.ops[x]
        /\ UNCHANGED <<vars, proc, inputs, calls>>
    BY <1>0, <1>2 DEF HostSettles, HostRefuses, WorldOK
  <2>2. UnresolvedOperation(o)
    BY <1>0, <2>1, UnderWayIsOpen
  <2>3. o \notin wire
    BY <1>0, <2>1 DEF OutcomesTrue
  <2>4. QED
    BY <2>1, <2>2, <2>3 DEF HostMove
<1>3. ASSUME NEW o \in Operations, WireLoses(o)
      PROVE  HostMove /\ UNCHANGED <<vars, proc, inputs, calls>>
  BY <1>3 DEF WireLoses, HostMove
<1>4. CASE HostAdvances
  <2>1. /\ host'.ops = host.ops /\ Stage[host.generation] \in {"blocked", "unknown"}
        /\ UNCHANGED <<vars, proc, inputs, wire, calls>>
    BY <1>0, <1>4 DEF HostAdvances, WorldOK
  <2>2. QED
    BY <2>1 DEF HostMove
<1>5. QED
  BY <1>1, <1>2, <1>3, <1>4 DEF HostStep

\* So a process that decides, completes or holds a report is not overtaken by it.
LEMMA HostSettled ==
  ASSUME SettledInv, RunInv', HostStep
  PROVE  SettledInv'
<1>1. HostMove /\ UNCHANGED <<vars, proc, inputs, calls>>
  BY HostMoves
<1>2. /\ UNCHANGED <<operations, decisions, reservations, completions, checkpoints, episodes>>
      /\ proc' = proc /\ calls' = calls
  BY <1>1 DEF vars
<1>3. /\ Fits(proc) /\ OwnRows /\ OutcomesTrue /\ StandsStill /\ Ended /\ ProcessOK(proc)
      /\ wire \subseteq Operations
  BY DEF SettledInv, RunInv, WorldOK
<1>4. ASSUME NoneOpen, Stage[host.generation] \in {"ready", "terminal"}
      PROVE  host'.generation = host.generation
  BY <1>1, <1>4 DEF HostMove, NoneOpen
<1>5. Fits(proc)'
  <2>1. proc.phase \in QuietPhases => NoneOpen'
    BY <1>2, <1>3 DEF Fits, NoneOpen, UnresolvedOperation
  <2>2. proc.phase \in OperationPhases => OnlyOpen(proc.op)'
    BY <1>2, <1>3 DEF Fits, OnlyOpen, UnresolvedOperation
  <2>3. proc.phase \in DecidingPhases => Stage[proc.obs] = "ready" /\ proc.obs = host'.generation
    BY <1>3, <1>4 DEF Fits, QuietPhases
  <2>4. proc.phase = "complete" => Stage[proc.obs] = "terminal" /\ proc.obs = host'.generation
    BY <1>3, <1>4 DEF Fits, QuietPhases
  <2>5. HoldsSettled(proc) => host'.ops[proc.op] = "settled"
    <3>1. HoldsSettled(proc) => host.ops[proc.op] = "settled" /\ proc.op \in Operations
      BY <1>3 DEF Fits, HoldsSettled, ProcessOK, OperationPhases
    <3>2. QED
      BY <1>1, <3>1 DEF HostMove
  <2>6. HoldsSettled(proc) /\ proc.phase # "record" /\ Stage[proc.obs] = "terminal" =>
          proc.obs = host'.generation
    <3>1. SUFFICES ASSUME HoldsSettled(proc), proc.phase # "record", Stage[proc.obs] = "terminal"
                   PROVE  proc.obs = host'.generation
      OBVIOUS
    <3>2. /\ proc.obs = host.generation /\ host.ops[proc.op] = "settled" /\ OnlyOpen(proc.op)
      BY <1>3, <3>1 DEF Fits, HoldsSettled, OperationPhases
    <3>3. ~\E o \in Operations : UnresolvedOperation(o) /\ host.ops[o] = "admitted"
      BY <3>2 DEF OnlyOpen
    <3>4. QED
      BY <1>1, <3>1, <3>2, <3>3 DEF HostMove
  <2>7. proc.phase \in {"record", "resolve"} /\ proc.status = "rejected" =>
          host'.ops[proc.op] = "rejected"
    <3>1. proc.phase \in {"record", "resolve"} => proc.op \in Operations
      BY <1>3 DEF ProcessOK, OperationPhases
    <3>2. QED
      BY <1>1, <1>3, <3>1 DEF Fits, HostMove
  <2>8. proc.phase = "send" => proc.op \notin wire' /\ host'.ops[proc.op] = "absent"
    <3>1. proc.phase = "send" => proc.op \in Operations
      BY <1>3 DEF ProcessOK, OperationPhases
    <3>2. QED
      BY <1>1, <1>3, <3>1 DEF Fits, HostMove
  <2>9. /\ proc.phase \in {"reserve", "invoke", "answer"} => OnlyCallOpen(proc.step + 1)'
        /\ proc.phase = "act" => NoCallOpen'
    BY <1>2, <1>3 DEF Fits, OnlyCallOpen, NoCallOpen, UnresolvedDecision, UnresolvedReservation
  <2>10. QED
    BY <1>2, <1>3, <2>1, <2>2, <2>3, <2>4, <2>5, <2>6, <2>7, <2>8, <2>9 DEF Fits, HoldsSettled, Exists
<1>6. OwnRows'
  BY <1>2, <1>3 DEF OwnRows
<1>7. OutcomesTrue'
  <2>1. \A o \in Operations : operations[o].state \in ResolvedOperationStates =>
          host.ops[o] \in {"settled", "rejected"}
    BY <1>3 DEF OutcomesTrue
  <2>2. QED
    BY <1>1, <1>2, <1>3, <2>1 DEF OutcomesTrue, HostMove, UnresolvedOperation
<1>8. StandsStill'
  BY <1>2, <1>3, <1>4
  DEF StandsStill, NoneOpen, NoCallOpen, UnresolvedOperation, UnresolvedDecision,
      UnresolvedReservation
<1>9. Ended'
  BY <1>2, <1>3, <1>4 DEF Ended, CompletedAtTheEnd, NoneOpen, UnresolvedOperation
<1>10. Trajectory'
  <2>1. Tracks
    BY <1>2 DEF Tracks
  <2>2. QED
    BY <2>1, TrajectoryKept
<1>11. QED
  BY <1>5, <1>6, <1>7, <1>8, <1>9, <1>10 DEF SettledInv

\* A resolved row has the outcome at the host, an open one has none.
LEMMA OutcomeRecorded ==
  OutcomesTrue => \A o \in Operations : operations[o].state \in ResolvedOperationStates =>
                    Recorded(o) = Effect(o) /\ Effect(o) \in {"applied", "refused"}
<1> SUFFICES ASSUME OutcomesTrue, NEW o \in Operations,
                    operations[o].state \in ResolvedOperationStates
             PROVE  Recorded(o) = Effect(o) /\ Effect(o) \in {"applied", "refused"}
  OBVIOUS
<1>1. operations[o].state \in {"settled", "rejected", "reconciled"}
  BY DEF ResolvedOperationStates
<1>2. ~UnresolvedOperation(o)
  BY <1>1 DEF UnresolvedOperation, UnresolvedOperationStates
<1>3. host.ops[o] = IF Applied(operations[o]) THEN "settled" ELSE "rejected"
  BY DEF OutcomesTrue
<1>4. CASE operations[o].state = "settled"
  BY <1>2, <1>3, <1>4 DEF Recorded, Effect, Applied
<1>5. CASE operations[o].state = "rejected"
  BY <1>2, <1>3, <1>5 DEF Recorded, Effect, Applied
<1>6. CASE operations[o].state = "reconciled"
  BY <1>2, <1>3, <1>6 DEF Recorded, Effect, Applied
<1>7. QED
  BY <1>1, <1>4, <1>5, <1>6

-----------------------------------------------------------------------------
(* Theorems about the settled world.                                       *)

\* Every step of the process preserves the invariant and moves at most the row of the
\* operation it works on; beginning an operation and the host's steps are apart.
LEMMA ProcessStep ==
  ASSUME SettledInv, RunNext, ~HostStep, ~\E o \in Operations : RecordIntent(o)
  PROVE  SettledStep
<1>0. RunInv'
  BY RunStepPreserves DEF SettledInv
<1>1. CASE WorkerAdmits \/ OpenNew \/ OpenResume
  <2>1. checkpoints' = checkpoints
    BY <1>1 DEF WorkerAdmits, OpenNew, OpenResume, StartNewEpisode, vars
  <2>2. QED
    BY <1>0, <1>1, <2>1, LaunchCalm, CalmStep
<1>2. CASE LaunchStep \/ Crash \/ MarkInterrupted
  <2>1. proc.phase # "down"
    BY <1>2 DEF LaunchStep, LaunchFails, Launched, ReconcileRetained, Crash, MarkInterrupted
  <2>2. QED
    BY <1>0, <1>2, <2>1, LaunchCalm, CalmStep
<1>3. CASE ObserveStep
  BY <1>0, <1>3, ObserveCalm, CalmStep
<1>4. CASE DecideStep
  BY <1>0, <1>4, DecideSettled
<1>5. CASE ActStep
  BY <1>0, <1>5, DispatchSettled, ActSettled
<1>6. CASE RecoverStep
  BY <1>0, <1>6, RecoverSettled
<1>7. CASE EndStep
  BY <1>0, <1>2, <1>7, CompleteSettled DEF EndStep
<1>8. QED
  BY <1>1, <1>2, <1>3, <1>4, <1>5, <1>6, <1>7 DEF RunNext, RunStep

\* The invariant holds when the run begins, ...
LEMMA SettledStarts == RunInit => SettledInv
<1> SUFFICES ASSUME RunInit PROVE SettledInv
  OBVIOUS
<1>1. RunInv
  BY RunStarts
<1>2. /\ proc = Down /\ host.ops = [o \in Operations |-> "absent"] /\ wire = {}
      /\ calls = [d \in Decisions |-> 0] /\ completions = [e \in Episodes |-> NoCompletion]
      /\ operations = [o \in Operations |-> NoOperation]
      /\ decisions = [d \in Decisions |-> NoDecision]
      /\ reservations = [r \in Reservations |-> NoReservation]
  BY DEF RunInit, Init
<1>3. Fits(proc) /\ Trajectory
  BY <1>2 DEF Down, Fits, HoldsSettled, Trajectory, QuietPhases, DecidingPhases, OperationPhases
<1>4. OwnRows /\ OutcomesTrue
  BY <1>2
  DEF OwnRows, OutcomesTrue, Exists, NoOperation, NoDecision, NoReservation, UnresolvedOperation,
      UnresolvedOperationStates, ResolvedOperationStates
<1>5. StandsStill
  BY <1>2
  DEF StandsStill, NoCallOpen, UnresolvedDecision, UnresolvedReservation, NoDecision, NoReservation,
      UnresolvedDecisionStates, UnresolvedReservationStates
<1>6. Ended
  <2>1. RunEpisode \in Episodes
    BY RunAssumption DEF RunEpisode, Lineages
  <2>2. QED
    BY <1>2, <2>1 DEF Ended
<1>7. QED
  BY <1>1, <1>3, <1>4, <1>5, <1>6 DEF SettledInv

\* ... and every step preserves it.
LEMMA SettledPreserved == SettledInv /\ [RunNext]_<<vars, runVars>> => SettledInv'
<1> SUFFICES ASSUME SettledInv, [RunNext]_<<vars, runVars>> PROVE SettledInv'
  OBVIOUS
<1>0. RunInv'
  BY RunStepPreserves DEF SettledInv
<1>1. CASE HostStep
  BY <1>0, <1>1, HostSettled
<1>2. CASE \E o \in Operations : RecordIntent(o)
  BY <1>0, <1>2, IntentSettled
<1>3. CASE RunNext /\ ~HostStep /\ ~\E o \in Operations : RecordIntent(o)
  BY <1>3, ProcessStep DEF SettledStep
<1>4. CASE UNCHANGED <<vars, runVars>>
  <2>1. Calm /\ UNCHANGED <<checkpoints, episodes>> /\ proc' = proc
    BY <1>4 DEF vars, runVars, Calm
  <2>2. Fits(proc)' /\ Tracks
    BY <2>1
    DEF SettledInv, Tracks, Calm, Fits, HoldsSettled, NoneOpen, OnlyOpen, NoCallOpen, OnlyCallOpen,
        UnresolvedOperation, UnresolvedDecision, UnresolvedReservation, Exists
  <2>3. QED
    BY <1>0, <2>1, <2>2, CalmStep DEF SettledStep
<1>5. QED
  BY <1>1, <1>2, <1>3, <1>4

\* The second invariant of a durable run: what the memory of the process, the rows of the
\* store, the host, the wire and the provider have to do with one another.
THEOREM SettledInvariant == RunSpec => []SettledInv
BY SettledStarts, SettledPreserved, PTL DEF RunSpec

\* Whenever the policy is asked, in a fresh or a resumed process, no earlier action is on
\* its way or being executed, the store has the true outcome of every one of them, and
\* what the policy sees is the state the host is in.
THEOREM AlwaysDecidesOnSettledWorld == RunSpec => []DecidesOnSettledWorld
<1>1. SettledInv => DecidesOnSettledWorld
  <2> SUFFICES ASSUME SettledInv, Deciding PROVE DecidesOnSettledWorld
    BY DEF DecidesOnSettledWorld
  <2>1. /\ NoneOpen /\ proc.obs = host.generation /\ proc.phase # "down"
        /\ OutcomesTrue /\ RunInv /\ Trajectory
    BY DEF SettledInv, Fits, Deciding, QuietPhases, DecidingPhases
  <2>2. \A o \in Operations : o \notin wire /\ host.ops[o] # "admitted"
    BY <2>1, UnderWayIsOpen DEF NoneOpen
  <2>3. wire = {}
    BY <2>1, <2>2 DEF RunInv, WorldOK
  <2>4. ASSUME NEW o \in Operations, Effect(o) # "none" PROVE Recorded(o) = Effect(o)
    <3>1. host.ops[o] \in {"settled", "rejected"}
      BY <2>4 DEF Effect
    <3>2. operations[o].state \in ResolvedOperationStates
      <4>1. operations[o].state \in OperationStates \union {"absent"}
        BY <2>1 DEF RunInv, IInv, TypeOK, OperationRows, NoOperation
      <4>2. operations[o].state # "absent"
        BY <2>1, <3>1 DEF RunInv, DispatchRecorded
      <4>3. QED
        BY <2>1, <4>1, <4>2 DEF NoneOpen, UnresolvedOperation, OperationStates
    <3>3. QED
      BY <2>1, <3>2, OutcomeRecorded
  <2>5. proc.next = NextSequence /\ proc.obs = LastCheckpoint
    <3>1. host.generation \in Generations /\ None \notin Generations
      BY <2>1, RunAssumption, ConstantsAssumption DEF RunInv, WorldOK
    <3>2. QED
      BY <2>1, <3>1 DEF Trajectory
  <2>6. QED
    BY <2>1, <2>2, <2>3, <2>4, <2>5 DEF DecidesOnSettledWorld
<1>2. QED
  BY <1>1, SettledInvariant, PTL

\* A terminal observation can be completed when it is reached, whatever calls and
\* operations came before, and a recorded completion is about the state the game ended in.
THEOREM CompletionsSound == RunSpec => []CompletionSound
<1>1. SettledInv => CompletionAdmissible
  <2> SUFFICES ASSUME SettledInv, proc.phase = "complete" PROVE CompletionAdmissible
    BY DEF CompletionAdmissible
  <2>1. /\ NoneOpen /\ Stage[proc.obs] = "terminal" /\ proc.obs = host.generation
        /\ StandsStill /\ OwnRows /\ Trajectory /\ RunInv
    BY DEF SettledInv, Fits, QuietPhases
  <2>2. NoCallOpen
    BY <2>1 DEF StandsStill
  <2>3. NothingPending(RunEpisode)
    BY <2>1, <2>2, PendingMeansOpen
  <2>4. proc.next = NextSequence /\ LastCheckpoint = proc.obs /\ CurrentLineage(RunLineage)
    <3>1. host.generation \in Generations /\ None \notin Generations
      BY <2>1, RunAssumption, ConstantsAssumption DEF RunInv, WorldOK
    <3>2. QED
      BY <2>1, <3>1 DEF Trajectory
  <2>5. QED
    BY <2>1, <2>3, <2>4 DEF CompletionAdmissible
<1>2. SettledInv => CompletedAtTheEnd
  BY DEF SettledInv, Ended, CompletedAtTheEnd
<1>3. QED
  BY <1>1, <1>2, SettledInvariant, PTL DEF CompletionSound

\* A process that launches goes on only from an observation that is the last checkpoint of
\* the durable trajectory, and a provider call that was cut off or whose outcome is unknown
\* is not made again.
THEOREM ResumesAreSafe == RunSpec => ResumesSafely
<1>1. ASSUME SettledInv, [RunNext]_<<vars, runVars>>, proc.phase = "observe", proc.step = 0,
             proc'.phase \notin {"observe", "failing", "down"}
      PROVE  LastCheckpoint \in {None, proc'.obs}
  <2>0. proc \in Processes /\ host.generation \in Generations /\ proc.boundary = LastCheckpoint
    BY <1>1 DEF SettledInv, RunInv, ProcessOK, WorldOK, Trajectory
  <2>1. ~(WorkerAdmits \/ OpenNew \/ OpenResume \/ LaunchStep)
    BY <1>1 DEF WorkerAdmits, OpenNew, OpenResume, LaunchStep, LaunchFails, Launched,
                ReconcileRetained
  <2>2. ~DecideStep
    BY <1>1 DEF DecideStep, DecideFails, ReuseDecision, DecideFresh, Reserve, Invoke,
                InvokeNotStarted, AnswerDecision, AnswerFails
  <2>3. ~ActStep
    BY <1>1 DEF ActStep, RecordIntent, ChooseWait, ChooseReobserve, ActFails, MarkDispatched, Send,
                DispatchLost, RecordReceipt, DispatchAnswered, WaitWitnessed, WaitFails, RecordWait
  <2>4. ~RecoverStep /\ ~EndStep
    BY <1>1 DEF RecoverStep, ReconcileAnswered, ReconcileLost, Resolve, ResolveFails, EndStep,
                Complete, CompleteFails, MarkInterrupted
  <2>5. ~Crash
    BY <1>1 DEF Crash, Down
  <2>6. ~HostStep /\ ~UNCHANGED <<vars, runVars>>
    <3>1. proc' # proc
      BY <1>1
    <3>2. QED
      BY <1>1, <3>1, HostMoves DEF runVars
  <2>7. ObserveStep
    BY <1>1, <2>1, <2>2, <2>3, <2>4, <2>5, <2>6 DEF RunNext, RunStep
  <2>8. ~ObserveFails
    BY <1>1, <2>0, FailShape DEF ObserveFails
  <2>9. Observe
    BY <1>1, <2>7, <2>8 DEF ObserveStep, Reobserve, ReobserveFails, IdlePoll, PauseFails
  <2> DEFINE p == Installed(proc, host.generation)
  <2>10. /\ proc.boundary \in {None, host.generation} /\ proc.next <= MaxSequence
         /\ proc' \in {Goto(p, "refresh"), Route(p)}
    BY <2>9 DEF Observe, Install, Installable
  <2>11. p \in Processes /\ p.obs = host.generation
    BY <2>0, <2>10, InstalledKeeps
  <2> HIDE DEF p
  <2>12. proc'.obs = p.obs
    BY <2>0, <2>10, <2>11, RouteShape, GotoShape DEF Follows, Phases
  <2>13. QED
    BY <2>0, <2>10, <2>11, <2>12
<1>2. ASSUME SettledInv, [RunNext]_<<vars, runVars>>, NEW d \in Decisions,
             calls'[d] > calls[d], calls[d] > 0
      PROVE  reservations[d].state = "failed"
  <2>0. RunInv /\ Fits(proc) /\ calls \in [Decisions -> Nat]
    BY <1>2 DEF SettledInv, RunInv, WorldOK
  <2>1. calls' # calls
    BY <1>2, <2>0
  <2>2. ~(WorkerAdmits \/ OpenNew \/ OpenResume \/ LaunchStep \/ Crash \/ ObserveStep
            \/ RecoverStep \/ EndStep)
    BY <2>0, <2>1, LaunchSafe, ObserveSafe, RecoverSafe, EndSafe DEF Aside
  <2>3. ~ActStep
    BY <2>0, <2>1, ActSafe, MarkDispatchedSafe, SendSafe DEF Aside
  <2>4. ~HostStep /\ ~UNCHANGED <<vars, runVars>>
    BY <1>2, <2>1, HostMoves DEF runVars
  <2>5. DecideStep
    BY <1>2, <2>2, <2>3, <2>4 DEF RunNext, RunStep
  <2>6. Invoke
    BY <2>1, <2>5 DEF DecideStep, DecideFails, ReuseDecision, DecideFresh, Reserve,
                      InvokeNotStarted, AnswerDecision, AnswerFails
  <2>7. d = proc.step + 1
    BY <1>2, <2>0, <2>6 DEF Invoke, Execution
  <2>8. QED
    BY <1>2, <2>0, <2>6, <2>7 DEF Invoke, Fits
<1>3. RunSpec => ResumeContinues
  BY <1>1, SettledInvariant, PTL DEF RunSpec, ResumeContinues
<1>4. RunSpec => UncertainCallNotRepeated
  <2>1. SettledInv /\ [RunNext]_<<vars, runVars>> =>
          [\A d \in Decisions : calls'[d] > calls[d] /\ calls[d] > 0 =>
             reservations[d].state = "failed"]_<<vars, runVars>>
    BY <1>2
  <2>2. QED
    BY <2>1, SettledInvariant, PTL DEF RunSpec, UncertainCallNotRepeated
<1>5. QED
  BY <1>3, <1>4 DEF ResumesSafely

-----------------------------------------------------------------------------
(* The refinement of SerialActions.                                        *)

\* An open operation has no recorded outcome; one that is not stored has none at all.
LEMMA OpenRecorded ==
  ASSUME NEW o \in Operations
  PROVE  /\ UnresolvedOperation(o) => Recorded(o) = "open"
         /\ operations[o].state = "absent" => Recorded(o) = "none"
BY DEF Recorded, UnresolvedOperation, UnresolvedOperationStates

\* Of a step on the row of one operation the others see nothing.
LEMMA RowStepAlone ==
  ASSUME SettledInv, NEW o \in Operations, RowStep(o)
  PROVE  /\ \A x \in Operations : x # o => operations'[x] = operations[x]
         /\ operations' = operations \/ (UnresolvedOperation(o) /\ operations'[o].state # "absent")
<1>1. TypeOK
  BY DEF SettledInv, RunInv, IInv
<1>2. CASE UNCHANGED vars
  BY <1>2 DEF vars
<1>3. ASSUME NEW next, NEW result,
             TransitionOperation(o, operations[o].payload, next, result)
      PROVE  /\ \A x \in Operations : x # o => operations'[x] = operations[x]
             /\ UnresolvedOperation(o) /\ operations'[o].state # "absent"
  <2>1. operations'[o].state = next /\ next # "absent" /\ UnresolvedOperation(o)
    BY <1>1, <1>3, TransitionSets
    DEF TransitionOperation, ValidTransition, UnresolvedOperation, UnresolvedOperationStates
  <2>2. \A x \in Operations : x # o => operations'[x] = operations[x]
    BY <1>1, <1>3 DEF TransitionOperation, TypeOK
  <2>3. QED
    BY <2>1, <2>2
<1>4. QED
  BY <1>2, <1>3 DEF RowStep

\* A step on the row of the open operation leaves the actions alone or learns the outcome.
LEMMA LearnRow ==
  ASSUME SettledInv, RunInv', OutcomesTrue', UNCHANGED host,
         NEW o \in Operations, RowStep(o), operations' # operations
  PROVE  [Actions!Next]_Actions!serialVars
<1> DEFINE effect == [x \in Operations |-> Effect(x)]
           recorded == [x \in Operations |-> Recorded(x)]
<1>1. \A x \in Operations : Effect(x)' = Effect(x)
  BY DEF Effect
<1>2. /\ \A x \in Operations : x # o => operations'[x] = operations[x]
      /\ UnresolvedOperation(o) /\ operations'[o].state # "absent"
  BY RowStepAlone
<1>3. \A x \in Operations : x # o => Recorded(x)' = Recorded(x)
  BY <1>2 DEF Recorded, UnresolvedOperation
<1>4. Recorded(o) = "open"
  BY <1>2, OpenRecorded
<1>5. CASE operations'[o].state \in UnresolvedOperationStates
  <2>1. Recorded(o)' = "open"
    BY <1>5 DEF Recorded, UnresolvedOperation, UnresolvedOperationStates
  <2>2. \A x \in Operations : Recorded(x)' = Recorded(x)
    BY <1>3, <1>4, <2>1
  <2>3. QED
    BY <1>1, <2>2 DEF Actions!serialVars
<1>6. CASE operations'[o].state \in ResolvedOperationStates
  <2>1. host'.ops[o] = IF Applied(operations'[o]) THEN "settled" ELSE "rejected"
    BY <1>6 DEF OutcomesTrue
  <2>2. operations'[o].state \in {"settled", "rejected", "reconciled"}
    BY <1>6 DEF ResolvedOperationStates
  <2>3. Recorded(o)' = Effect(o)' /\ Effect(o)' \in {"applied", "refused"}
    <3>1. CASE operations'[o].state = "settled"
      BY <2>1, <3>1 DEF Recorded, Effect, Applied, UnresolvedOperation, UnresolvedOperationStates
    <3>2. CASE operations'[o].state = "rejected"
      BY <2>1, <3>2 DEF Recorded, Effect, Applied, UnresolvedOperation, UnresolvedOperationStates
    <3>3. CASE operations'[o].state = "reconciled"
      BY <2>1, <3>3 DEF Recorded, Effect, Applied, UnresolvedOperation, UnresolvedOperationStates
    <3>4. QED
      BY <2>2, <3>1, <3>2, <3>3
  <2>4. recorded' = [recorded EXCEPT ![o] = effect[o]] /\ effect' = effect
    BY <1>1, <1>3, <2>3
  <2>5. recorded[o] = "open" /\ effect[o] \in {"applied", "refused"}
    BY <1>1, <1>4, <2>3
  <2>6. Actions!Learn(o)
    BY <2>4, <2>5 DEF Actions!Learn, Actions!Outcomes
  <2>7. QED
    BY <2>6 DEF Actions!Next
<1>7. operations'[o].state \in OperationStates \union {"absent"}
  BY DEF RunInv, IInv, TypeOK, OperationRows, NoOperation
<1>8. QED
  BY <1>2, <1>5, <1>6, <1>7 DEF OperationStates

\* A step of the process leaves the actions alone or learns an outcome.
LEMMA LearnStep ==
  ASSUME SettledInv, SettledStep
  PROVE  [Actions!Next]_Actions!serialVars
<1>1. ASSUME operations' = operations
      PROVE  UNCHANGED Actions!serialVars
  <2>1. \A x \in Operations : Effect(x)' = Effect(x)
    BY DEF SettledStep, Effect
  <2>2. \A x \in Operations : Recorded(x)' = Recorded(x)
    BY <1>1 DEF Recorded, UnresolvedOperation
  <2>3. QED
    BY <2>1, <2>2 DEF Actions!serialVars
<1>2. ASSUME proc.phase \in OperationPhases, RowStep(proc.op), operations' # operations
      PROVE  [Actions!Next]_Actions!serialVars
  <2>1. proc.op \in Operations
    BY <1>2 DEF SettledInv, RunInv, ProcessOK
  <2>2. OutcomesTrue' /\ RunInv' /\ UNCHANGED host
    BY DEF SettledStep, SettledInv
  <2>3. QED
    BY <1>2, <2>1, <2>2, LearnRow
<1>3. QED
  BY <1>1, <1>2 DEF SettledStep

\* Beginning an action: nothing is open.
LEMMA BeginStep ==
  ASSUME SettledInv, NEW o \in Operations, RecordIntent(o)
  PROVE  Actions!Begin(o)
<1> DEFINE effect == [x \in Operations |-> Effect(x)]
           recorded == [x \in Operations |-> Recorded(x)]
<1>0. TypeOK /\ NoneOpen
  BY DEF SettledInv, RunInv, IInv, Fits, RecordIntent, QuietPhases, DecidingPhases
<1>1. /\ operations[o].state = "absent" /\ host' = host
      /\ operations'[o].state = "intent_recorded"
      /\ \A x \in Operations : x # o => operations'[x] = operations[x]
  BY <1>0 DEF RecordIntent, RecordOperationIntent, Exists, TypeOK
<1>2. Recorded(o) = "none" /\ Recorded(o)' = "open"
  BY <1>1 DEF Recorded, UnresolvedOperation, UnresolvedOperationStates
<1>3. \A x \in Operations : x # o => Recorded(x)' = Recorded(x)
  BY <1>1 DEF Recorded, UnresolvedOperation
<1>4. \A x \in Operations : Effect(x)' = Effect(x) /\ Recorded(x) # "open"
  BY <1>0, <1>1 DEF Effect, Recorded, NoneOpen
<1>5. recorded' = [recorded EXCEPT ![o] = "open"] /\ effect' = effect /\ recorded[o] = "none"
  BY <1>2, <1>3, <1>4
<1>6. QED
  BY <1>4, <1>5 DEF Actions!Begin

\* What the host does to an operation is its effect, and it is open.
LEMMA EffectStep ==
  ASSUME SettledInv, HostStep
  PROVE  [Actions!Next]_Actions!serialVars
<1> DEFINE effect == [x \in Operations |-> Effect(x)]
           recorded == [x \in Operations |-> Recorded(x)]
<1>0. WorldOK /\ OutcomesTrue /\ RunInv
  BY DEF SettledInv, RunInv
<1>1. operations' = operations
  BY HostMoves DEF vars
<1>2. \A x \in Operations : Recorded(x)' = Recorded(x)
  BY <1>1 DEF Recorded, UnresolvedOperation
<1>3. ASSUME host'.ops = host.ops PROVE UNCHANGED Actions!serialVars
  <2>1. \A x \in Operations : Effect(x)' = Effect(x)
    BY <1>3 DEF Effect
  <2>2. QED
    BY <1>2, <2>1 DEF Actions!serialVars
<1>4. ASSUME NEW o \in Operations, NEW state \in {"absent", "admitted", "settled", "rejected"},
             o \in wire \/ host.ops[o] = "admitted",
             host'.ops = [host.ops EXCEPT ![o] = state],
             host.ops[o] = "absent" \/ host.ops[o] = "admitted"
      PROVE  [Actions!Next]_Actions!serialVars
  <2>1. UnresolvedOperation(o)
    BY <1>0, <1>4, UnderWayIsOpen
  <2>2. recorded[o] = "open" /\ recorded' = recorded
    BY <1>2, <2>1, OpenRecorded
  <2>3. /\ host'.ops[o] = state
        /\ \A x \in Operations : x # o => host'.ops[x] = host.ops[x]
    BY <1>0, <1>4 DEF WorldOK
  <2>4. Effect(o) = "none" /\ \A x \in Operations : x # o => Effect(x)' = Effect(x)
    BY <1>4, <2>3 DEF Effect
  <2>5. CASE state \in {"absent", "admitted"}
    <3>1. Effect(o)' = "none"
      BY <2>3, <2>5 DEF Effect
    <3>2. \A x \in Operations : Effect(x)' = Effect(x)
      BY <2>4, <3>1
    <3>3. QED
      BY <1>2, <3>2 DEF Actions!serialVars
  <2>6. CASE state \in {"settled", "rejected"}
    <3> DEFINE outcome == Effect(o)'
    <3>1. outcome \in {"applied", "refused"}
      BY <2>3, <2>6 DEF Effect
    <3>2. effect' = [effect EXCEPT ![o] = outcome] /\ effect[o] = "none"
      BY <2>4
    <3> HIDE DEF outcome
    <3>3. Actions!TakeEffect(o, outcome)
      BY <2>2, <3>2 DEF Actions!TakeEffect
    <3>4. QED
      BY <3>1, <3>3 DEF Actions!Next, Actions!Outcomes
  <2>7. QED
    BY <2>5, <2>6
<1>5. ASSUME NEW o \in Operations, HostReceives(o) PROVE [Actions!Next]_Actions!serialVars
  <2>1. o \in wire /\ host.ops[o] = "absent"
    BY <1>0, <1>5 DEF HostReceives, OutcomesTrue
  <2>2. \E state \in {"admitted", "rejected"} : host'.ops = [host.ops EXCEPT ![o] = state]
    BY <1>0, <1>5, <2>1 DEF HostReceives, WorldOK
  <2>3. QED
    BY <1>4, <2>1, <2>2
<1>6. ASSUME NEW o \in Operations, HostSettles(o) \/ HostRefuses(o)
      PROVE  [Actions!Next]_Actions!serialVars
  <2>1. host.ops[o] = "admitted"
    BY <1>6 DEF HostSettles, HostRefuses
  <2>2. \E state \in {"settled", "rejected"} : host'.ops = [host.ops EXCEPT ![o] = state]
    BY <1>0, <1>6 DEF HostSettles, HostRefuses, WorldOK
  <2>3. QED
    BY <1>4, <2>1, <2>2
<1>7. ASSUME NEW o \in Operations, WireLoses(o) PROVE host'.ops = host.ops
  BY <1>7 DEF WireLoses
<1>8. CASE HostAdvances
  BY <1>0, <1>3, <1>8 DEF HostAdvances, WorldOK
<1>9. QED
  BY <1>3, <1>5, <1>6, <1>7, <1>8 DEF HostStep

\* A durable run is a serial, at-most-once, truthfully recorded sequence of actions: across
\* crashes, resumes, lost requests and late arrivals an action is begun when none is open,
\* takes effect once, and only its true outcome is recorded.
THEOREM RunImplementsSerialActions == RunSpec => ImplementsSerialActions
<1>1. RunInit => Actions!Init
  <2> SUFFICES ASSUME RunInit PROVE Actions!Init
    OBVIOUS
  <2>1. /\ host.ops = [o \in Operations |-> "absent"]
        /\ operations = [o \in Operations |-> NoOperation]
    BY DEF RunInit, Init
  <2>2. ASSUME NEW o \in Operations PROVE Effect(o) = "none" /\ Recorded(o) = "none"
    <3>1. host.ops[o] = "absent" /\ operations[o].state = "absent"
      BY <2>1 DEF NoOperation
    <3>2. Effect(o) = "none"
      BY <3>1 DEF Effect
    <3>3. QED
      BY <3>1, <3>2, OpenRecorded
  <2>3. QED
    BY <2>2 DEF Actions!Init
<1>2. SettledInv /\ [RunNext]_<<vars, runVars>> => [Actions!Next]_Actions!serialVars
  <2> SUFFICES ASSUME SettledInv, [RunNext]_<<vars, runVars>>
               PROVE  [Actions!Next]_Actions!serialVars
    OBVIOUS
  <2>1. CASE HostStep
    BY <2>1, EffectStep
  <2>2. ASSUME NEW o \in Operations, RecordIntent(o)
        PROVE  [Actions!Next]_Actions!serialVars
    BY <2>2, BeginStep DEF Actions!Next
  <2>3. CASE RunNext /\ ~HostStep /\ ~\E o \in Operations : RecordIntent(o)
    BY <2>3, ProcessStep, LearnStep
  <2>4. CASE UNCHANGED <<vars, runVars>>
    <3>1. operations' = operations /\ host' = host
      BY <2>4 DEF vars, runVars
    <3>2. \A o \in Operations : Effect(o)' = Effect(o) /\ Recorded(o)' = Recorded(o)
      BY <3>1 DEF Effect, Recorded, UnresolvedOperation
    <3>3. QED
      BY <3>2 DEF Actions!serialVars
  <2>5. QED
    BY <2>1, <2>2, <2>3, <2>4
<1>3. QED
  BY <1>1, <1>2, SettledInvariant, PTL DEF RunSpec, ImplementsSerialActions, Actions!Spec

=============================================================================
