------------------------ MODULE WorkerHandoffProofs ------------------------
(***************************************************************************)
(* Theorems about the worker handoff, for every value of its constants:    *)
(* the worker implements the execution store, a handoff is executed at     *)
(* most once, it keeps its job and the lane until a receipt is durable,    *)
(* and an execution nobody cancelled runs under the authority that         *)
(* admitted it.                                                            *)
(***************************************************************************)
EXTENDS WorkerHandoff, ExecutionStoreProofs, FiniteSetTheorems

USE DEF Lineages, NoLineage, CompletionStatus, Exists, CompletionRows, NoCompletion,
        Tuples, NoTuple, NoAuthority, NoJob, NoHandoff, NoRequest, JobRows, Authorities,
        HandoffRows

-----------------------------------------------------------------------------
(* The inductive invariant.                                                *)

UnresolvedHandoffs == {"admitted", "running", "unknown"}

ControlRows == [worker: Boots \union {None}, watchdog: Boots \union {None}, mode: Modes,
                sequence: 0..MaxModeSequence, generation: Nat,
                authenticated: BOOLEAN, admitting: BOOLEAN]
RuntimeRecords ==
  [phase: {"down", "serving", "job", "admit", "started"},
   boot: Boots \union {None}, watchdog: Boots \union {None},
   request: [handoff: Handoffs, tuple: Tuples] \union {NoRequest},
   permit: Handoffs \union {None}, lane: Handoffs \union {None},
   taken: BOOLEAN, cancelled: BOOLEAN,
   task: {"none", "running", "succeeded", "failing", "failed", "ended"},
   gate: {"open", "pending", "quarantined"}]

\* The worker's own part of WorkerTypeOK.
WorkerTypes ==
  /\ jobs \in [Jobs -> JobRows \union {NoJob}]
  /\ handoffs \in [Handoffs -> HandoffRows \union {NoHandoff}]
  /\ control \in ControlRows
  /\ boots \subseteq Boots
  /\ runtime \in RuntimeRecords
  /\ children \in [Handoffs -> {"none", "alive", "succeeded", "failed"}]
  /\ spawned \in [Handoffs -> Nat]

\* The control row, and that it only names boots that were recorded.
ControlSound ==
  /\ control.admitting <=> control.authenticated /\ control.mode = "running"
  /\ control.authenticated => control.sequence # 0 /\ control.watchdog # None
  /\ control.watchdog \in boots \union {None}
  /\ IsFiniteSet(boots)
  /\ control.generation = Cardinality(boots)

\* Where the endpoint's memory points while it is in a phase.
EndpointSound ==
  /\ runtime.phase # "down" => runtime.boot \in boots /\ runtime.watchdog \in Boots
  /\ runtime.phase \in {"down", "job", "admit"} => runtime.lane = None
  /\ runtime.phase \in {"job", "admit"} => runtime.request # NoRequest
  /\ runtime.phase = "started" => runtime.lane # None
  /\ runtime.task # "none" => runtime.lane # None
  /\ runtime.lane # None => Exists(handoffs[runtime.lane])
  /\ runtime.permit # None =>
       /\ Exists(handoffs[runtime.permit])
       /\ handoffs[runtime.permit].state = "admitted" => runtime.lane = runtime.permit
  /\ \A h \in Handoffs : children[h] # "none" => Exists(handoffs[h])

\* read_handoff accepts the row.
HandoffsReadable ==
  \A h \in Handoffs :
    /\ handoffs[h].state = "unknown" <=> handoffs[h].reservation = "unknown"
    /\ handoffs[h].state \in {"terminal", "acknowledged"} <=> handoffs[h].receipt # NoCompletion

\* The authority of a handoff is one the control row has been at.
AuthoritiesPast ==
  \A h \in Handoffs : Exists(handoffs[h]) =>
    /\ handoffs[h].authority.worker \in boots
    /\ handoffs[h].authority.watchdog \in boots
    /\ handoffs[h].authority.watchdog = control.watchdog =>
         handoffs[h].authority.sequence <= control.sequence

\* Two handoffs never share a job, an episode or an attempt.
TuplesDistinct ==
  \A g, h \in Handoffs : (g # h /\ Exists(handoffs[g]) /\ Exists(handoffs[h])) =>
    /\ handoffs[g].tuple.job # handoffs[h].tuple.job
    /\ handoffs[g].tuple.lineage.episode # handoffs[h].tuple.lineage.episode
    /\ handoffs[g].tuple.lineage.attempt # handoffs[h].tuple.lineage.attempt

\* A handoff has no child before it runs, and at most one ever.
SpawnedOnce ==
  /\ \A h \in Handoffs : /\ spawned[h] <= 1
                         /\ handoffs[h].state \in {"absent", "admitted"} => spawned[h] = 0
  /\ runtime.phase = "started" => spawned[runtime.lane] = 0

\* From the start of a reservation on, its authority is the current one.
StartedFence ==
  runtime.phase = "started" => Authorises(control, handoffs[runtime.lane].authority)

WorkerInv ==
  /\ IInv
  /\ WorkerTypes
  /\ ControlSound
  /\ EndpointSound
  /\ HandoffsReadable
  /\ AuthoritiesPast
  /\ TuplesDistinct
  /\ SpawnedOnce
  /\ ClaimRetained
  /\ ReceiptAnchored
  /\ StartedFence
  /\ AuthorityFence
  /\ LaneHeld

-----------------------------------------------------------------------------
(* What a step does to the tables.                                         *)

\* The facts about one unresolved handoff that most steps need.
LEMMA UnresolvedRow ==
  ASSUME WorkerInv, NEW h \in Handoffs, handoffs[h].state # "absent"
  PROVE  /\ handoffs[h] \in HandoffRows
         /\ handoffs[h].tuple \in Tuples
         /\ handoffs[h].tuple.lineage \in Lineages
         /\ handoffs[h].tuple.job \in Jobs
BY DEF WorkerInv, WorkerTypes

\* The worker's steps change the episode tables only as the store's own mutators do.
LEMMA StoreStep == WorkerInv /\ [WorkerNext]_allVars => [Next]_vars
<1> USE WorkerAssumption
<1> SUFFICES ASSUME WorkerInv, [WorkerNext]_allVars PROVE [Next]_vars
  OBVIOUS
<1>1. ASSUME NEW h \in Handoffs, NEW t \in Tuples, DispatchEpisode(h, t)
      PROVE  Next
  <2>1. t.lineage \in Lineages
    OBVIOUS
  <2>2. QED
    BY <1>1, <2>1 DEF DispatchEpisode, Next, EpisodeStep
<1>2. ASSUME NEW h \in Handoffs, NEW status \in {"completed", "failed"},
             NEW s \in SequenceNumbers, NEW result \in Results,
             CommitNewCompletion(h, status, s, result)
      PROVE  Next
  <2> DEFINE l == handoffs[h].tuple.lineage
  <2>1. l \in Lineages
    BY <1>2, UnresolvedRow DEF CommitNewCompletion
  <2>2. episodes[l.episode].current = l.attempt
    BY <1>2 DEF CommitNewCompletion, CurrentLineage
  <2>3. RecordCompletion(l, status, s, result)
    BY <1>2, <2>2 DEF CommitNewCompletion, RecordCompletion, SetCurrentState
  <2>4. QED
    BY <2>1, <2>3 DEF Next, CheckpointStep
<1>3. ASSUME NEW h \in Handoffs, ChildStep(h)
      PROVE  Next
  <2> DEFINE l == handoffs[h].tuple.lineage
  <2>1. handoffs[h].state # "absent"
    BY <1>3 DEF ChildStep, WorkerInv, EndpointSound
  <2>2. l \in Lineages /\ l.episode \in Episodes
    BY <2>1, UnresolvedRow
  <2>3. ASSUME NEW s \in SequenceNumbers, NEW b \in Boundaries,
               SaveCheckpoint(l, s, b, ApprovedFingerprint)
        PROVE  Next
    BY <2>2, <2>3 DEF Next, CheckpointStep
  <2>4. ASSUME NEW s \in SequenceNumbers, NEW result \in Results,
               RecordCompletion(l, "completed", s, result)
        PROVE  Next
    BY <2>2, <2>4 DEF Next, CheckpointStep
  <2>5. MarkInterruptedUnknown(l.episode) => Next
    BY <2>2 DEF Next, EpisodeStep
  <2> HIDE DEF l
  <2>6. QED
    BY <1>3, <2>3, <2>4, <2>5 DEF ChildStep, l
<1>4. ASSUME NEW l \in Lineages, NEW new \in Attempts, NEW s \in SequenceNumbers,
             NEW b \in Boundaries, Reconstruct(l, new, s, b)
      PROVE  Next
  BY <1>4 DEF Reconstruct, Next, EpisodeStep
<1>5. JobStep => UNCHANGED vars
  BY DEF JobStep, ClaimJob, CompleteJob, FailJob, SettleJob
<1>6. ControlStep => UNCHANGED vars
  BY DEF ControlStep, StartWorkerBoot, SetControlMode
<1>7. DispatchJob \/ AdmitWorkerHandoff \/ ResponseFailed \/ StartReservation
        \/ StartRefused \/ TakeExecution => UNCHANGED vars
  BY DEF DispatchJob, AdmitWorkerHandoff, ResponseFailed, StartReservation, StartRefused,
     TakeExecution
<1>8. TaskStep => UNCHANGED vars
  BY DEF TaskStep, TaskSucceeds, TaskFails, TaskCancelled, TaskRetainsUnknown,
     TaskFindsStoreBusy
<1>9. ASSUME NEW h \in Handoffs, Lookup(h) \/ Acknowledge(h)
      PROVE  UNCHANGED vars
  BY <1>9 DEF Lookup, Acknowledge
<1>10. LoopStep => UNCHANGED vars
  BY DEF LoopStep, CompleteExecution, RetainExecution, ReleaseCompleted
<1>11. ASSUME NEW h \in Handoffs, NEW status, ChildExits(h, status)
       PROVE  UNCHANGED vars
  BY <1>11 DEF ChildExits
<1>12. Crash => UNCHANGED vars
  BY DEF Crash
<1>13. CASE UNCHANGED allVars
  BY <1>13 DEF allVars
<1>14. QED
  BY <1>1, <1>2, <1>3, <1>4, <1>5, <1>6, <1>7, <1>8, <1>9, <1>10, <1>11, <1>12, <1>13
  DEF WorkerNext, DispatchStep, ReceiptStep, ChildrenStep

\* The ways a step may move the row of one handoff.
AdmitsRow(h) ==
  /\ AdmitWorkerHandoff
  /\ h = runtime.request.handoff
  /\ handoffs[h] = NoHandoff
  /\ handoffs'[h] = [NoHandoff EXCEPT !.tuple = runtime.request.tuple,
                       !.authority = PresentedAuthority, !.state = "admitted"]
QuarantinesRow(h) ==
  /\ handoffs[h].state \in {"admitted", "running"}
  /\ handoffs'[h] = [handoffs[h] EXCEPT !.state = "unknown", !.reservation = "unknown"]
StartsRow(h) ==
  /\ StartReservation
  /\ h = runtime.permit
  /\ handoffs[h].state = "admitted"
  /\ handoffs'[h] = [handoffs[h] EXCEPT !.state = "running"]
ProjectsRow(h) ==
  LET c == completions'[handoffs[h].tuple.lineage.episode] IN
  /\ handoffs[h].state \in UnresolvedHandoffs
  /\ c \in CompletionRows
  /\ HasReceipt(handoffs[h].tuple, c)
  /\ handoffs'[h] = [handoffs[h] EXCEPT !.state = "terminal", !.reservation = "reserved",
                       !.receipt = c]
  /\ jobs[handoffs[h].tuple.job].state = "claimed"
  /\ jobs[handoffs[h].tuple.job].token = h
  /\ jobs' = [jobs EXCEPT ![handoffs[h].tuple.job].state = c.status]
AcknowledgesRow(h) ==
  /\ handoffs[h].state = "terminal"
  /\ handoffs'[h] = [handoffs[h] EXCEPT !.state = "acknowledged"]

RowMove(h) ==
  \/ handoffs'[h] = handoffs[h]
  \/ AdmitsRow(h)
  \/ QuarantinesRow(h)
  \/ StartsRow(h)
  \/ ProjectsRow(h)
  \/ AcknowledgesRow(h)

\* mark_worker_handoff_unknown moves at most the row it names.
LEMMA MarkMove ==
  ASSUME WorkerInv, NEW g \in Handoffs, NEW h \in Handoffs,
         handoffs' = MarkUnknown(handoffs, g)
  PROVE  handoffs'[h] = handoffs[h] \/ QuarantinesRow(h)
<1>1. handoffs \in [Handoffs -> HandoffRows \union {NoHandoff}]
  BY DEF WorkerInv, WorkerTypes
<1>2. QED
  BY <1>1 DEF MarkUnknown, QuarantinesRow

\* project_completion of a completion the store held before the step.
LEMMA ProjectMove ==
  ASSUME WorkerInv, NEW g \in Handoffs, NEW h \in Handoffs, CanProject(g), Project(g),
         UNCHANGED vars
  PROVE  handoffs'[h] = handoffs[h] \/ ProjectsRow(h)
<1>1. /\ handoffs \in [Handoffs -> HandoffRows \union {NoHandoff}]
      /\ handoffs[g] \in HandoffRows
  BY DEF WorkerInv, WorkerTypes, CanProject
<1>2. CASE h # g
  BY <1>1, <1>2 DEF Project, ProjectReceipt
<1>3. CASE h = g
  <2> DEFINE c == completions[handoffs[g].tuple.lineage.episode]
  <2>1. c \in CompletionRows /\ completions' = completions
    <3>1. handoffs[g].tuple.lineage.episode \in Episodes
      BY <1>1
    <3>2. QED
      BY <3>1 DEF WorkerInv, IInv, TypeOK, CanProject, vars
  <2>2. /\ jobs[handoffs[g].tuple.job].state = "claimed"
        /\ jobs[handoffs[g].tuple.job].token = g
    BY DEF CanProject, ClaimedBy
  <2>3. handoffs'[g] = [handoffs[g] EXCEPT !.state = "terminal", !.reservation = "reserved",
                          !.receipt = c]
    BY <1>1 DEF Project, ProjectReceipt
  <2>4. jobs' = [jobs EXCEPT ![handoffs[g].tuple.job].state = c.status]
    BY DEF Project, ProjectReceipt
  <2>5. HasReceipt(handoffs[g].tuple, c) /\ handoffs[g].state \in UnresolvedHandoffs
    BY DEF CanProject, UnresolvedHandoffs
  <2>6. QED
    BY <1>3, <2>1, <2>2, <2>3, <2>4, <2>5 DEF ProjectsRow
<1>4. QED
  BY <1>2, <1>3

\* Every step moves every row in one of these ways.
LEMMA RowMoves ==
  ASSUME WorkerInv, [WorkerNext]_allVars, NEW h \in Handoffs
  PROVE  RowMove(h)
<1> USE WorkerAssumption
<1>0. /\ handoffs \in [Handoffs -> HandoffRows \union {NoHandoff}]
      /\ runtime \in RuntimeRecords
  BY DEF WorkerInv, WorkerTypes
<1>1. JobStep => UNCHANGED handoffs
  BY DEF JobStep, ClaimJob, CompleteJob, FailJob, SettleJob
<1>2. ControlStep => UNCHANGED handoffs
  BY DEF ControlStep, StartWorkerBoot, SetControlMode
<1>3. ASSUME NEW g \in Handoffs, NEW t \in Tuples, DispatchEpisode(g, t)
      PROVE  UNCHANGED handoffs
  BY <1>3 DEF DispatchEpisode
<1>4. DispatchJob \/ TakeExecution \/ Crash => UNCHANGED handoffs
  BY DEF DispatchJob, TakeExecution, Crash
<1>5. AdmitWorkerHandoff => RowMove(h)
  <2> SUFFICES ASSUME AdmitWorkerHandoff PROVE RowMove(h)
    OBVIOUS
  <2>1. /\ runtime.phase = "admit"
        /\ handoffs[runtime.request.handoff].state = "absent"
        /\ handoffs' = [handoffs EXCEPT ![runtime.request.handoff] =
             [NoHandoff EXCEPT !.tuple = runtime.request.tuple,
                !.authority = PresentedAuthority, !.state = "admitted"]]
    BY DEF AdmitWorkerHandoff
  <2>2. runtime.request # NoRequest
    BY <2>1 DEF WorkerInv, EndpointSound
  <2>3. runtime.request \in [handoff: Handoffs, tuple: Tuples]
    BY <1>0, <2>2 DEF RuntimeRecords
  <2>4. handoffs[runtime.request.handoff] = NoHandoff
    BY <1>0, <2>1, <2>3
  <2>5. CASE h = runtime.request.handoff
    BY <1>0, <2>1, <2>3, <2>4, <2>5 DEF RowMove, AdmitsRow
  <2>6. CASE h # runtime.request.handoff
    BY <1>0, <2>1, <2>3, <2>6 DEF RowMove
  <2>7. QED
    BY <2>5, <2>6
<1>6. ResponseFailed \/ StartRefused => RowMove(h)
  <2> SUFFICES ASSUME ResponseFailed \/ StartRefused PROVE RowMove(h)
    OBVIOUS
  <2>1. runtime.permit \in Handoffs /\ handoffs' = MarkUnknown(handoffs, runtime.permit)
    BY <1>0 DEF ResponseFailed, StartRefused, RuntimeRecords
  <2>2. QED
    BY <2>1, MarkMove DEF RowMove
<1>7. StartReservation => RowMove(h)
  <2> SUFFICES ASSUME StartReservation PROVE RowMove(h)
    OBVIOUS
  <2>1. /\ runtime.permit \in Handoffs
        /\ handoffs[runtime.permit].state = "admitted"
        /\ handoffs' = [handoffs EXCEPT ![runtime.permit].state = "running"]
    BY <1>0 DEF StartReservation, CanStart, RuntimeRecords
  <2>2. QED
    BY <1>0, <2>1 DEF RowMove, StartsRow
<1>8. TaskSucceeds \/ TaskFails \/ TaskCancelled \/ TaskFindsStoreBusy => UNCHANGED handoffs
  BY DEF TaskSucceeds, TaskFails, TaskCancelled, TaskFindsStoreBusy
<1>9. TaskRetainsUnknown => RowMove(h)
  <2> SUFFICES ASSUME TaskRetainsUnknown PROVE RowMove(h)
    OBVIOUS
  <2>1. runtime.task # "none" /\ handoffs' = MarkUnknown(handoffs, runtime.lane)
    BY DEF TaskRetainsUnknown
  <2>2. runtime.lane \in Handoffs
    BY <1>0, <2>1 DEF WorkerInv, EndpointSound, RuntimeRecords
  <2>3. QED
    BY <2>1, <2>2, MarkMove DEF RowMove
<1>10. ASSUME NEW g \in Handoffs, Lookup(g)
       PROVE  RowMove(h)
  BY <1>10, ProjectMove DEF Lookup, RowMove
<1>11. ASSUME NEW g \in Handoffs, Acknowledge(g)
       PROVE  RowMove(h)
  BY <1>0, <1>11 DEF Acknowledge, RowMove, AcknowledgesRow
<1>12. ASSUME NEW g \in Handoffs, NEW status \in {"completed", "failed"},
              NEW s \in SequenceNumbers, NEW result \in Results,
              CommitNewCompletion(g, status, s, result)
       PROVE  RowMove(h)
  <2> DEFINE l == handoffs[g].tuple.lineage
             c == [lineage |-> l, status |-> status, sequence |-> s, result |-> result]
  <2>1. /\ handoffs[g] \in HandoffRows
        /\ l \in Lineages
        /\ c \in CompletionRows
    BY <1>0, <1>12, UnresolvedRow DEF CommitNewCompletion
  <2>2. CASE h # g
    BY <1>0, <1>12, <2>2 DEF CommitNewCompletion, ProjectReceipt, RowMove
  <2>3. CASE h = g
    <3>1. completions'[l.episode] = c
      <4>1. completions' = [completions EXCEPT ![l.episode] = c]
        BY <1>12 DEF CommitNewCompletion
      <4>2. completions \in [Episodes -> CompletionRows \union {NoCompletion}]
        BY DEF WorkerInv, IInv, TypeOK
      <4>3. l.episode \in Episodes
        BY <2>1
      <4>4. QED
        BY <4>1, <4>2, <4>3
    <3>2. /\ jobs[handoffs[g].tuple.job].state = "claimed"
          /\ jobs[handoffs[g].tuple.job].token = g
      BY <1>12 DEF CommitNewCompletion, ClaimedBy
    <3>3. handoffs'[g] = [handoffs[g] EXCEPT !.state = "terminal", !.reservation = "reserved",
                            !.receipt = c]
      BY <1>0, <1>12 DEF CommitNewCompletion, ProjectReceipt
    <3>4. jobs' = [jobs EXCEPT ![handoffs[g].tuple.job].state = c.status]
      BY <1>12 DEF CommitNewCompletion, ProjectReceipt
    <3>5. HasReceipt(handoffs[g].tuple, c) /\ handoffs[g].state \in UnresolvedHandoffs
      BY <1>12 DEF CommitNewCompletion, UnresolvedHandoffs, HasReceipt
    <3> HIDE DEF c
    <3>6. ProjectsRow(g)
      BY <2>1, <3>1, <3>2, <3>3, <3>4, <3>5 DEF ProjectsRow
    <3>7. QED
      BY <2>3, <3>6 DEF RowMove
  <2>4. QED
    BY <2>2, <2>3
<1>13. ReleaseDurableCompletion /\ UNCHANGED vars /\ runtime.lane # None => RowMove(h)
  BY <1>0, ProjectMove DEF ReleaseDurableCompletion, RowMove, RuntimeRecords
<1>14. CompleteExecution \/ ReleaseCompleted => RowMove(h)
  BY <1>13 DEF CompleteExecution, ReleaseCompleted, WorkerInv, EndpointSound
<1>15. RetainExecution => RowMove(h)
  <2> SUFFICES ASSUME RetainExecution PROVE RowMove(h)
    OBVIOUS
  <2>1. runtime.task # "none" /\ handoffs' = MarkUnknown(handoffs, runtime.lane)
    BY DEF RetainExecution
  <2>2. runtime.lane \in Handoffs
    BY <1>0, <2>1 DEF WorkerInv, EndpointSound, RuntimeRecords
  <2>3. QED
    BY <2>1, <2>2, MarkMove DEF RowMove
<1>16. ChildrenStep => UNCHANGED handoffs
  BY DEF ChildrenStep, ChildStep, ChildExits, Reconstruct, workerVars
<1>17. UNCHANGED handoffs => RowMove(h)
  BY DEF RowMove
<1>18. CASE UNCHANGED allVars
  BY <1>17, <1>18 DEF allVars, workerVars
<1>19. QED
  BY <1>1, <1>2, <1>3, <1>4, <1>5, <1>6, <1>7, <1>8, <1>9, <1>10, <1>11, <1>12, <1>14, <1>15,
     <1>16, <1>17, <1>18
  DEF WorkerNext, DispatchStep, TaskStep, ReceiptStep, LoopStep

\* The ways a step may move the row of one job.
JobMove(j) ==
  \/ jobs'[j] = jobs[j]
  \/ \E token \in Tokens \union Handoffs :
       /\ jobs[j].state = "admitted"
       /\ jobs'[j] = [jobs[j] EXCEPT !.state = "claimed", !.token = token]
  \/ \E state \in {"completed", "failed"} :
       /\ jobs[j].state = "claimed"
       /\ jobs'[j] = [jobs[j] EXCEPT !.state = state]
  \/ /\ jobs[j].token = None
     /\ jobs[j].state \in {"absent", "admitted"}
     /\ runtime.request \in [handoff: Handoffs, tuple: Tuples]
     /\ jobs'[j] = AdmittedJob(runtime.request.tuple)
  \/ \E h \in Handoffs : ProjectsRow(h) /\ j = handoffs[h].tuple.job

\* project_completion settles the job of its handoff and no other.
LEMMA ProjectJob ==
  ASSUME WorkerInv, NEW h \in Handoffs, NEW j \in Jobs, ProjectsRow(h)
  PROVE  /\ jobs' = [k \in Jobs |-> jobs'[k]]
         /\ JobMove(j)
<1>1. jobs \in [Jobs -> JobRows \union {NoJob}]
  BY DEF WorkerInv, WorkerTypes
<1>2. jobs' = [jobs EXCEPT ![handoffs[h].tuple.job].state =
                 completions'[handoffs[h].tuple.lineage.episode].status]
  BY DEF ProjectsRow
<1>3. j # handoffs[h].tuple.job => jobs'[j] = jobs[j]
  BY <1>1, <1>2
<1>4. QED
  BY <1>1, <1>2, <1>3 DEF JobMove

\* A projection of a lookup or of a release moves the row of its handoff.
LEMMA ProjectIsMove ==
  ASSUME WorkerInv, NEW g \in Handoffs, CanProject(g), Project(g), UNCHANGED vars
  PROVE  ProjectsRow(g)
<1>1. /\ handoffs \in [Handoffs -> HandoffRows \union {NoHandoff}]
      /\ handoffs[g] \in HandoffRows
      /\ handoffs[g].state # "terminal"
  BY DEF WorkerInv, WorkerTypes, CanProject
<1>2. handoffs'[g].state = "terminal"
  BY <1>1 DEF Project, ProjectReceipt
<1>3. handoffs'[g] # handoffs[g]
  BY <1>1, <1>2
<1>4. QED
  BY <1>3, ProjectMove

\* Every step moves every job in one of these ways.
LEMMA JobMoves ==
  ASSUME WorkerInv, [WorkerNext]_allVars, NEW j \in Jobs
  PROVE  /\ jobs' = [k \in Jobs |-> jobs'[k]]
         /\ JobMove(j)
<1> USE WorkerAssumption
<1> DEFINE Goal == jobs' = [k \in Jobs |-> jobs'[k]] /\ JobMove(j)
<1>0. /\ jobs \in [Jobs -> JobRows \union {NoJob}]
      /\ handoffs \in [Handoffs -> HandoffRows \union {NoHandoff}]
      /\ runtime \in RuntimeRecords
  BY DEF WorkerInv, WorkerTypes
<1>1. UNCHANGED jobs => Goal
  BY <1>0 DEF JobMove
<1>2. ASSUME NEW k \in Jobs, NEW token \in Tokens \union Handoffs, ClaimJob(k, token)
      PROVE  Goal
  BY <1>0, <1>2 DEF ClaimJob, JobMove
<1>3. ASSUME NEW k \in Jobs, NEW token, NEW state \in {"completed", "failed"},
             SettleJob(k, token, state)
      PROVE  Goal
  BY <1>0, <1>3 DEF SettleJob, JobMove
<1>4. DispatchJob => Goal
  <2> SUFFICES ASSUME DispatchJob PROVE Goal
    OBVIOUS
  <2>1. runtime.request # NoRequest
    BY DEF DispatchJob, WorkerInv, EndpointSound
  <2>2. runtime.request \in [handoff: Handoffs, tuple: Tuples]
    BY <1>0, <2>1 DEF RuntimeRecords
  <2> DEFINE t == runtime.request.tuple
  <2>3. /\ jobs' = [jobs EXCEPT ![t.job] = AdmittedJob(t)]
        /\ jobs[t.job].token = None
        /\ jobs[t.job].state \in {"absent", "admitted"}
    BY DEF DispatchJob, AdmittedJob
  <2>4. jobs' = [k \in Jobs |-> jobs'[k]]
    BY <1>0, <2>3
  <2>5. CASE j = t.job
    BY <1>0, <2>2, <2>3, <2>4, <2>5 DEF JobMove
  <2>6. CASE j # t.job
    BY <1>0, <2>3, <2>4, <2>6 DEF JobMove
  <2>7. QED
    BY <2>5, <2>6
<1>5. AdmitWorkerHandoff => Goal
  <2> SUFFICES ASSUME AdmitWorkerHandoff PROVE Goal
    OBVIOUS
  <2>1. runtime.request # NoRequest
    BY DEF AdmitWorkerHandoff, WorkerInv, EndpointSound
  <2>2. runtime.request \in [handoff: Handoffs, tuple: Tuples]
    BY <1>0, <2>1 DEF RuntimeRecords
  <2> DEFINE t == runtime.request.tuple
             g == runtime.request.handoff
  <2>3. /\ jobs' = [jobs EXCEPT ![t.job].state = "claimed", ![t.job].token = g]
        /\ jobs[t.job].state = "admitted"
    BY DEF AdmitWorkerHandoff, AdmittedJob
  <2>4. jobs' = [k \in Jobs |-> jobs'[k]]
    BY <1>0, <2>3
  <2>5. g \in Tokens \union Handoffs
    BY <2>2
  <2>6. CASE j = t.job
    BY <1>0, <2>3, <2>4, <2>5, <2>6 DEF JobMove
  <2>7. CASE j # t.job
    BY <1>0, <2>3, <2>4, <2>7 DEF JobMove
  <2>8. QED
    BY <2>6, <2>7
<1>6. ASSUME NEW g \in Handoffs, Lookup(g)
      PROVE  Goal
  BY <1>6, ProjectIsMove, ProjectJob DEF Lookup
<1>7. ASSUME NEW g \in Handoffs, NEW status \in {"completed", "failed"},
             NEW s \in SequenceNumbers, NEW result \in Results,
             CommitNewCompletion(g, status, s, result)
      PROVE  Goal
  <2>1. /\ handoffs[g] \in HandoffRows
        /\ handoffs[g].state \in UnresolvedHandoffs
    BY <1>0, <1>7, UnresolvedRow DEF CommitNewCompletion, UnresolvedHandoffs
  <2>2. handoffs'[g].state = "terminal"
    BY <1>0, <1>7 DEF CommitNewCompletion, ProjectReceipt
  <2>3. RowMove(g)
    BY <1>7, RowMoves DEF WorkerNext, ReceiptStep
  <2>4. ProjectsRow(g)
    BY <2>1, <2>2, <2>3 DEF RowMove, AdmitsRow, QuarantinesRow, StartsRow, AcknowledgesRow,
       UnresolvedHandoffs
  <2>5. QED
    BY <2>4, ProjectJob
<1>8. ReleaseDurableCompletion /\ UNCHANGED vars /\ runtime.lane # None => Goal
  BY <1>0, <1>1, ProjectIsMove, ProjectJob DEF ReleaseDurableCompletion, RuntimeRecords
<1>9. CompleteExecution \/ ReleaseCompleted => Goal
  BY <1>8 DEF CompleteExecution, ReleaseCompleted, WorkerInv, EndpointSound
<1> HIDE DEF Goal
<1>10. JobStep => Goal
  BY <1>2, <1>3 DEF JobStep, CompleteJob, FailJob
<1>11. ControlStep \/ TaskStep \/ ChildrenStep \/ Crash => UNCHANGED jobs
  BY DEF ControlStep, StartWorkerBoot, SetControlMode, TaskStep, TaskSucceeds, TaskFails,
     TaskCancelled, TaskRetainsUnknown, TaskFindsStoreBusy, ChildrenStep, ChildStep,
     ChildExits, Reconstruct, workerVars, Crash
<1>12. ASSUME NEW g \in Handoffs, NEW t \in Tuples, DispatchEpisode(g, t)
       PROVE  UNCHANGED jobs
  BY <1>12 DEF DispatchEpisode
<1>13. ResponseFailed \/ StartReservation \/ StartRefused \/ TakeExecution \/ RetainExecution
         => UNCHANGED jobs
  BY DEF ResponseFailed, StartReservation, StartRefused, TakeExecution, RetainExecution
<1>14. ASSUME NEW g \in Handoffs, Acknowledge(g)
       PROVE  UNCHANGED jobs
  BY <1>14 DEF Acknowledge
<1>15. UNCHANGED allVars => Goal
  BY <1>1 DEF allVars, workerVars
<1>16. Goal
  BY <1>1, <1>4, <1>5, <1>6, <1>7, <1>9, <1>10, <1>11, <1>12, <1>13, <1>14, <1>15
  DEF WorkerNext, DispatchStep, ReceiptStep, LoopStep
<1>17. QED
  BY <1>16 DEF Goal

-----------------------------------------------------------------------------
(* Types and readable rows.                                                *)

\* What admit_worker_handoff knows: the authority it stores is the control row's.
LEMMA AdmitFacts ==
  ASSUME WorkerInv, AdmitWorkerHandoff
  PROVE  /\ runtime.request \in [handoff: Handoffs, tuple: Tuples]
         /\ PresentedAuthority \in Authorities
         /\ PresentedAuthority.worker = runtime.boot
         /\ runtime.boot \in boots
         /\ PresentedAuthority.watchdog = control.watchdog
         /\ PresentedAuthority.watchdog \in boots
         /\ PresentedAuthority.sequence = control.sequence
<1> USE WorkerAssumption
<1>0. runtime \in RuntimeRecords /\ control \in ControlRows /\ boots \subseteq Boots
  BY DEF WorkerInv, WorkerTypes
<1>1. runtime.phase = "admit" /\ Authorises(control, PresentedAuthority)
  BY DEF AdmitWorkerHandoff
<1>2. /\ runtime.request # NoRequest
      /\ runtime.boot \in boots
      /\ runtime.watchdog \in Boots
  BY <1>1 DEF WorkerInv, EndpointSound
<1>3. /\ PresentedAuthority.worker = runtime.boot
      /\ PresentedAuthority.watchdog = runtime.watchdog
      /\ PresentedAuthority.sequence = control.sequence
  BY DEF PresentedAuthority
<1>4. control.sequence # 0 /\ control.watchdog # None /\ control.watchdog = runtime.watchdog
  BY <1>1, <1>3 DEF Authorises, WorkerInv, ControlSound
<1>5. control.sequence \in 1..MaxModeSequence
  BY <1>0, <1>4 DEF ControlRows
<1>6. PresentedAuthority \in Authorities
  BY <1>0, <1>2, <1>5 DEF PresentedAuthority
<1>7. control.watchdog \in boots
  BY <1>4 DEF WorkerInv, ControlSound
<1>8. runtime.request \in [handoff: Handoffs, tuple: Tuples]
  BY <1>0, <1>2 DEF RuntimeRecords
<1>9. QED
  BY <1>2, <1>3, <1>4, <1>6, <1>7, <1>8

\* The handoff table stays a function on the handoffs.
LEMMA HandoffTable ==
  ASSUME WorkerInv, [WorkerNext]_allVars
  PROVE  handoffs' = [h \in Handoffs |-> handoffs'[h]]
<1> DEFINE Goal == handoffs' = [h \in Handoffs |-> handoffs'[h]]
<1>0. handoffs \in [Handoffs -> HandoffRows \union {NoHandoff}]
  BY DEF WorkerInv, WorkerTypes
<1>1. UNCHANGED handoffs => Goal
  BY <1>0
<1>2. ASSUME NEW g, handoffs' = MarkUnknown(handoffs, g)
      PROVE  Goal
  BY <1>0, <1>2 DEF MarkUnknown
<1>3. ASSUME NEW g, NEW c, ProjectReceipt(g, c)
      PROVE  Goal
  BY <1>0, <1>3 DEF ProjectReceipt
<1>4. AdmitWorkerHandoff \/ StartReservation => Goal
  BY <1>0 DEF AdmitWorkerHandoff, StartReservation
<1>5. ASSUME NEW g, Acknowledge(g)
      PROVE  Goal
  BY <1>0, <1>5 DEF Acknowledge
<1> HIDE DEF Goal
<1>6. JobStep \/ ControlStep \/ ChildrenStep \/ Crash => Goal
  BY <1>1 DEF JobStep, ClaimJob, CompleteJob, FailJob, SettleJob, ControlStep, StartWorkerBoot,
     SetControlMode, ChildrenStep, ChildStep, ChildExits, Reconstruct, workerVars, Crash
<1>7. ResponseFailed \/ StartRefused \/ TaskRetainsUnknown \/ RetainExecution => Goal
  BY <1>2 DEF ResponseFailed, StartRefused, TaskRetainsUnknown, RetainExecution
<1>8. TaskSucceeds \/ TaskFails \/ TaskCancelled \/ TaskFindsStoreBusy => Goal
  BY <1>1 DEF TaskSucceeds, TaskFails, TaskCancelled, TaskFindsStoreBusy
<1>9. ReceiptStep => Goal
  BY <1>3, <1>5 DEF ReceiptStep, Lookup, Project, CommitNewCompletion
<1>10. CompleteExecution \/ ReleaseCompleted => Goal
  BY <1>1, <1>3 DEF CompleteExecution, ReleaseCompleted, ReleaseDurableCompletion, Project
<1>11. DispatchStep => Goal
  BY <1>1, <1>4, <1>7 DEF DispatchStep, DispatchEpisode, DispatchJob, TakeExecution
<1>12. UNCHANGED allVars => Goal
  BY <1>1 DEF allVars, workerVars
<1>13. Goal
  BY <1>6, <1>7, <1>8, <1>9, <1>10, <1>11, <1>12 DEF WorkerNext, TaskStep, LoopStep
<1>14. QED
  BY <1>13 DEF Goal

\* Whatever happens to a row, it is well typed and readable, and a stored handoff
\* keeps its tuple and its authority.
LEMMA RowKept ==
  ASSUME WorkerInv, [WorkerNext]_allVars, NEW h \in Handoffs
  PROVE  /\ handoffs'[h] \in HandoffRows \union {NoHandoff}
         /\ handoffs'[h].state = "unknown" <=> handoffs'[h].reservation = "unknown"
         /\ handoffs'[h].state \in {"terminal", "acknowledged"} <=>
              handoffs'[h].receipt # NoCompletion
         /\ handoffs[h].state # "absent" =>
              /\ handoffs'[h].state # "absent"
              /\ handoffs'[h].tuple = handoffs[h].tuple
              /\ handoffs'[h].authority = handoffs[h].authority
<1> USE ConstantsAssumption, WorkerAssumption
<1>0. /\ handoffs[h] \in HandoffRows \union {NoHandoff}
      /\ handoffs[h].state = "unknown" <=> handoffs[h].reservation = "unknown"
      /\ handoffs[h].state \in {"terminal", "acknowledged"} <=> handoffs[h].receipt # NoCompletion
  BY DEF WorkerInv, WorkerTypes, HandoffsReadable
<1>1. CASE handoffs'[h] = handoffs[h]
  BY <1>0, <1>1
<1>2. CASE AdmitsRow(h)
  <2> HIDE DEF NoTuple, NoAuthority, NoCompletion, Tuples, Authorities, HandoffRows
  <2>0. /\ handoffs[h].state = "absent"
        /\ handoffs'[h] = [NoHandoff EXCEPT !.tuple = runtime.request.tuple,
                             !.authority = PresentedAuthority, !.state = "admitted"]
    BY <1>2 DEF AdmitsRow
  <2>1. handoffs'[h] = [tuple |-> runtime.request.tuple, authority |-> PresentedAuthority,
          state |-> "admitted", reservation |-> "reserved", receipt |-> NoCompletion]
    BY <2>0
  <2>2. runtime.request.tuple \in Tuples /\ PresentedAuthority \in Authorities
    BY <1>2, AdmitFacts DEF AdmitsRow
  <2>3. QED
    BY <2>0, <2>1, <2>2 DEF HandoffRows
<1>3. CASE QuarantinesRow(h)
  <2>1. handoffs[h] \in HandoffRows /\ handoffs[h].receipt = NoCompletion
    BY <1>0, <1>3 DEF QuarantinesRow
  <2> HIDE DEF Tuples, Authorities, NoCompletion
  <2>2. QED
    BY <2>1, <1>3 DEF QuarantinesRow
<1>4. CASE StartsRow(h)
  BY <1>0, <1>4 DEF StartsRow
<1>5. CASE ProjectsRow(h)
  <2>1. completions'[handoffs[h].tuple.lineage.episode] # NoCompletion
    BY <1>5 DEF ProjectsRow
  <2>2. handoffs[h] \in HandoffRows
    BY <1>0, <1>5 DEF ProjectsRow, UnresolvedHandoffs
  <2> HIDE DEF Tuples, Authorities, NoCompletion, CompletionRows
  <2>3. QED
    BY <1>5, <2>1, <2>2 DEF ProjectsRow
<1>6. CASE AcknowledgesRow(h)
  BY <1>0, <1>6 DEF AcknowledgesRow
<1>7. QED
  BY <1>1, <1>2, <1>3, <1>4, <1>5, <1>6, RowMoves DEF RowMove

\* The job table stays a function on the jobs.
LEMMA JobTable ==
  ASSUME WorkerInv, [WorkerNext]_allVars
  PROVE  jobs' = [j \in Jobs |-> jobs'[j]]
<1> DEFINE Goal == jobs' = [j \in Jobs |-> jobs'[j]]
<1>0. jobs \in [Jobs -> JobRows \union {NoJob}]
  BY DEF WorkerInv, WorkerTypes
<1>1. UNCHANGED jobs => Goal
  BY <1>0
<1>2. ASSUME NEW g, NEW c, ProjectReceipt(g, c)
      PROVE  Goal
  BY <1>0, <1>2 DEF ProjectReceipt
<1>3. DispatchJob \/ AdmitWorkerHandoff => Goal
  BY <1>0 DEF DispatchJob, AdmitWorkerHandoff
<1>4. JobStep => Goal
  BY <1>0 DEF JobStep, ClaimJob, CompleteJob, FailJob, SettleJob
<1> HIDE DEF Goal
<1>5. ControlStep \/ TaskStep \/ ChildrenStep \/ Crash => Goal
  BY <1>1 DEF ControlStep, StartWorkerBoot, SetControlMode, TaskStep, TaskSucceeds, TaskFails,
     TaskCancelled, TaskRetainsUnknown, TaskFindsStoreBusy, ChildrenStep, ChildStep,
     ChildExits, Reconstruct, workerVars, Crash
<1>6. ReceiptStep => Goal
  BY <1>1, <1>2 DEF ReceiptStep, Lookup, Project, Acknowledge, CommitNewCompletion
<1>7. LoopStep => Goal
  BY <1>1, <1>2 DEF LoopStep, CompleteExecution, RetainExecution, ReleaseCompleted,
     ReleaseDurableCompletion, Project
<1>8. DispatchStep => Goal
  BY <1>1, <1>3 DEF DispatchStep, DispatchEpisode, ResponseFailed, StartReservation,
     StartRefused, TakeExecution
<1>9. UNCHANGED allVars => Goal
  BY <1>1 DEF allVars, workerVars
<1>10. Goal
  BY <1>4, <1>5, <1>6, <1>7, <1>8, <1>9 DEF WorkerNext
<1>11. QED
  BY <1>10 DEF Goal

\* The control row and the recorded boots move only when a worker boots or the
\* control mode is set.
LEMMA ControlMoves ==
  ASSUME WorkerInv, [WorkerNext]_allVars
  PROVE  \/ UNCHANGED <<control, boots>>
         \/ \E worker, watchdog \in Boots : StartWorkerBoot(worker, watchdog)
         \/ \E mode \in Modes, sequence \in 1..MaxModeSequence : SetControlMode(mode, sequence)
<1>1. JobStep \/ ChildrenStep \/ Crash => UNCHANGED <<control, boots>>
  BY DEF JobStep, ClaimJob, CompleteJob, FailJob, SettleJob, ChildrenStep, ChildStep,
     ChildExits, Reconstruct, workerVars, Crash
<1>2. DispatchStep => UNCHANGED <<control, boots>>
  BY DEF DispatchStep, DispatchEpisode, DispatchJob, AdmitWorkerHandoff, ResponseFailed,
     StartReservation, StartRefused, TakeExecution
<1>3. TaskStep => UNCHANGED <<control, boots>>
  BY DEF TaskStep, TaskSucceeds, TaskFails, TaskCancelled, TaskRetainsUnknown,
     TaskFindsStoreBusy
<1>4. ReceiptStep \/ LoopStep => UNCHANGED <<control, boots>>
  BY DEF ReceiptStep, Lookup, Acknowledge, CommitNewCompletion, LoopStep, CompleteExecution,
     RetainExecution, ReleaseCompleted
<1>5. QED
  BY <1>1, <1>2, <1>3, <1>4 DEF WorkerNext, ControlStep, allVars, workerVars

\* The control row keeps its type and stays readable, and the generation counts the
\* recorded boots.
LEMMA ControlKept ==
  ASSUME WorkerInv, [WorkerNext]_allVars
  PROVE  /\ control' \in ControlRows
         /\ boots' \subseteq Boots
         /\ boots \subseteq boots'
         /\ ControlSound'
<1> USE WorkerAssumption
<1>0. /\ runtime \in RuntimeRecords
      /\ control \in ControlRows
      /\ boots \subseteq Boots
      /\ ControlSound
      /\ IsFiniteSet(boots)
      /\ Cardinality(boots) \in Nat
      /\ runtime.phase # "down" => runtime.watchdog \in Boots
  BY FS_CardinalityType DEF WorkerInv, WorkerTypes, ControlSound, EndpointSound
<1>1. CASE UNCHANGED <<control, boots>>
  BY <1>0, <1>1 DEF ControlSound
<1>2. ASSUME NEW worker \in Boots, NEW watchdog \in Boots, StartWorkerBoot(worker, watchdog)
      PROVE  /\ control' \in ControlRows
             /\ boots' \subseteq Boots
             /\ boots \subseteq boots'
             /\ ControlSound'
  <2>1. /\ worker \notin boots
        /\ boots' = boots \union {worker}
        /\ control' = [control EXCEPT !.worker = worker, !.mode = "stopped",
                         !.generation = control.generation + 1, !.authenticated = FALSE,
                         !.admitting = FALSE]
    BY <1>2 DEF StartWorkerBoot
  <2>2. /\ IsFiniteSet(boots')
        /\ Cardinality(boots') = Cardinality(boots) + 1
    BY <1>0, <2>1, FS_AddElement
  <2>3. control' \in ControlRows
    <3>1. /\ control.watchdog \in Boots \union {None}
          /\ control.sequence \in 0..MaxModeSequence
          /\ control.generation + 1 \in Nat
      BY <1>0 DEF ControlRows
    <3>2. control' = [worker |-> worker, watchdog |-> control.watchdog, mode |-> "stopped",
                      sequence |-> control.sequence, generation |-> control.generation + 1,
                      authenticated |-> FALSE, admitting |-> FALSE]
      BY <1>0, <2>1 DEF ControlRows
    <3>3. QED
      BY <3>1, <3>2 DEF ControlRows
  <2>4. control'.generation = Cardinality(boots')
    BY <1>0, <2>1, <2>2 DEF ControlRows, ControlSound
  <2>5. QED
    BY <1>0, <2>1, <2>2, <2>3, <2>4 DEF ControlRows, ControlSound
<1>3. ASSUME NEW mode \in Modes, NEW sequence \in 1..MaxModeSequence,
             SetControlMode(mode, sequence)
      PROVE  /\ control' \in ControlRows
             /\ boots' \subseteq Boots
             /\ boots \subseteq boots'
             /\ ControlSound'
  <2> DEFINE w == runtime.watchdog
  <2>0. w \in Boots
    BY <1>0, <1>3 DEF SetControlMode
  <2>1. /\ IF control.watchdog = w THEN sequence > control.sequence ELSE w \notin boots
        /\ boots' = boots \union {w}
        /\ control' = [control EXCEPT !.watchdog = w, !.mode = mode, !.sequence = sequence,
                         !.generation = IF control.watchdog = w THEN control.generation
                                        ELSE control.generation + 1,
                         !.authenticated = TRUE, !.admitting = mode = "running"]
    BY <1>3 DEF SetControlMode, NextControl
  <2>2. /\ IsFiniteSet(boots')
        /\ Cardinality(boots') = IF w \in boots THEN Cardinality(boots)
                                 ELSE Cardinality(boots) + 1
    BY <1>0, <2>1, FS_AddElement
  <2>3. control.watchdog = w <=> w \in boots
    BY <1>0, <2>0, <2>1 DEF ControlSound
  <2> HIDE DEF w
  <2>4. control' \in ControlRows
    <3> DEFINE gen == IF control.watchdog = w THEN control.generation ELSE control.generation + 1
               adm == mode = "running"
    <3>1. /\ control.worker \in Boots \union {None}
          /\ sequence \in 0..MaxModeSequence
          /\ gen \in Nat
          /\ adm \in BOOLEAN
      BY <1>0 DEF ControlRows
    <3> HIDE DEF gen, adm
    <3>2. control' = [worker |-> control.worker, watchdog |-> w, mode |-> mode,
                      sequence |-> sequence, generation |-> gen,
                      authenticated |-> TRUE, admitting |-> adm]
      BY <1>0, <2>1 DEF ControlRows, gen, adm
    <3>3. QED
      BY <2>0, <3>1, <3>2 DEF ControlRows
  <2>5. control'.generation = Cardinality(boots')
    BY <1>0, <2>1, <2>2, <2>3 DEF ControlRows, ControlSound
  <2>6. /\ control'.watchdog = w
        /\ control'.sequence = sequence
        /\ control'.mode = mode
        /\ control'.authenticated = TRUE
        /\ control'.admitting = (mode = "running")
    BY <1>0, <2>1 DEF ControlRows
  <2>7. control'.admitting <=> control'.authenticated /\ control'.mode = "running"
    BY <2>6
  <2>8. sequence # 0
    OBVIOUS
  <2>9. QED
    BY <1>0, <2>0, <2>1, <2>2, <2>4, <2>5, <2>6, <2>7, <2>8 DEF ControlSound
<1>4. QED
  BY <1>1, <1>2, <1>3, ControlMoves

\* The endpoint's memory, the children and their count keep their types.
LEMMA MemoryKept ==
  ASSUME WorkerInv, [WorkerNext]_allVars
  PROVE  /\ runtime' \in RuntimeRecords
         /\ children' \in [Handoffs -> {"none", "alive", "succeeded", "failed"}]
         /\ spawned' \in [Handoffs -> Nat]
<1> USE WorkerAssumption
<1>0. /\ runtime \in RuntimeRecords
      /\ children \in [Handoffs -> {"none", "alive", "succeeded", "failed"}]
      /\ spawned \in [Handoffs -> Nat]
  BY DEF WorkerInv, WorkerTypes
<1>1. Down \in RuntimeRecords
  BY DEF Down, RuntimeRecords
<1>2. children' \in [Handoffs -> {"none", "alive", "succeeded", "failed"}]
  <2>1. Crash => children' \in [Handoffs -> {"none", "alive", "succeeded", "failed"}]
    BY <1>0 DEF Crash
  <2>2. TakeExecution \/ TaskFails \/ TaskCancelled
          => children' \in [Handoffs -> {"none", "alive", "succeeded", "failed"}]
    BY <1>0 DEF TakeExecution, TaskFails, TaskCancelled
  <2>3. ChildrenStep => children' \in [Handoffs -> {"none", "alive", "succeeded", "failed"}]
    BY <1>0 DEF ChildrenStep, ChildStep, ChildExits, Reconstruct, workerVars
  <2>4. JobStep \/ ControlStep \/ LoopStep \/ ReceiptStep => UNCHANGED children
    BY DEF JobStep, ClaimJob, CompleteJob, FailJob, SettleJob, ControlStep, StartWorkerBoot,
       SetControlMode, LoopStep, CompleteExecution, RetainExecution, ReleaseCompleted,
       ReceiptStep, Lookup, Acknowledge, CommitNewCompletion
  <2>5. QED
    BY <1>0, <2>1, <2>2, <2>3, <2>4 DEF WorkerNext, DispatchStep, DispatchEpisode, DispatchJob,
       AdmitWorkerHandoff, ResponseFailed, StartReservation, StartRefused, TaskStep,
       TaskSucceeds, TaskRetainsUnknown, TaskFindsStoreBusy, allVars, workerVars
<1>3. spawned' \in [Handoffs -> Nat]
  <2>1. ASSUME TakeExecution PROVE spawned' \in [Handoffs -> Nat]
    <3>1. /\ runtime.lane \in Handoffs
          /\ spawned' = [spawned EXCEPT ![runtime.lane] = spawned[runtime.lane] + 1]
      BY <1>0, <2>1 DEF TakeExecution, WorkerInv, EndpointSound, RuntimeRecords
    <3>2. QED
      BY <1>0, <3>1
  <2>2. JobStep \/ ControlStep \/ LoopStep \/ ReceiptStep \/ ChildrenStep \/ Crash
          => UNCHANGED spawned
    BY DEF JobStep, ClaimJob, CompleteJob, FailJob, SettleJob, ControlStep, StartWorkerBoot,
       SetControlMode, LoopStep, CompleteExecution, RetainExecution, ReleaseCompleted,
       ReceiptStep, Lookup, Acknowledge, CommitNewCompletion, ChildrenStep, ChildStep,
       ChildExits, Reconstruct, workerVars, Crash
  <2>3. QED
    BY <1>0, <2>1, <2>2 DEF WorkerNext, DispatchStep, DispatchEpisode, DispatchJob,
       AdmitWorkerHandoff, ResponseFailed, StartReservation, StartRefused, TaskStep,
       TaskSucceeds, TaskFails, TaskCancelled, TaskRetainsUnknown, TaskFindsStoreBusy,
       allVars, workerVars
<1>4. runtime' \in RuntimeRecords
  <2> HIDE DEF Tuples, NoTuple, NoRequest, Lineages, NoLineage
  <2>1. ASSUME NEW worker \in Boots, NEW watchdog \in Boots, StartWorkerBoot(worker, watchdog)
        PROVE  runtime' \in RuntimeRecords
    BY <1>1, <2>1 DEF StartWorkerBoot, RuntimeRecords
  <2>2. ASSUME NEW mode, NEW sequence, SetControlMode(mode, sequence)
        PROVE  runtime' \in RuntimeRecords
    <3> DEFINE b == \/ runtime.cancelled
                    \/ /\ runtime.task # "none"
                       /\ ~Authorises(control', handoffs[runtime.lane].authority)
    <3>1. runtime' = [runtime EXCEPT !.cancelled = b]
      BY <2>2 DEF SetControlMode, CancelChangedExecution
    <3>2. b \in BOOLEAN
      OBVIOUS
    <3> HIDE DEF b
    <3>3. QED
      BY <1>0, <3>1, <3>2 DEF RuntimeRecords
  <2>3. ASSUME NEW h \in Handoffs, NEW t \in Tuples, DispatchEpisode(h, t)
        PROVE  runtime' \in RuntimeRecords
    <3>1. runtime' = [runtime EXCEPT !.phase = "job", !.request = [handoff |-> h, tuple |-> t]]
      BY <2>3 DEF DispatchEpisode
    <3>2. [handoff |-> h, tuple |-> t] \in [handoff: Handoffs, tuple: Tuples]
      OBVIOUS
    <3>3. QED
      BY <1>0, <3>1, <3>2 DEF RuntimeRecords
  <2>4. DispatchJob => runtime' \in RuntimeRecords
    BY <1>0 DEF DispatchJob, RuntimeRecords
  <2>5. AdmitWorkerHandoff => runtime' \in RuntimeRecords
    <3> SUFFICES ASSUME AdmitWorkerHandoff PROVE runtime' \in RuntimeRecords
      OBVIOUS
    <3>1. runtime.request.handoff \in Handoffs
      BY AdmitFacts
    <3>2. QED
      BY <1>0, <3>1 DEF AdmitWorkerHandoff, RuntimeRecords
  <2>6. ResponseFailed \/ StartRefused => runtime' \in RuntimeRecords
    <3>1. ResponseFailed \/ StartRefused =>
            runtime' = [runtime EXCEPT !.permit = None, !.gate = "quarantined"]
      BY DEF ResponseFailed, StartRefused
    <3>2. QED
      BY <1>0, <3>1 DEF RuntimeRecords
  <2>7. StartReservation \/ TakeExecution => runtime' \in RuntimeRecords
    <3>1. StartReservation => runtime' = [runtime EXCEPT !.phase = "started", !.permit = None]
      BY DEF StartReservation
    <3>2. TakeExecution =>
            runtime' = [runtime EXCEPT !.phase = "serving", !.taken = TRUE,
                          !.cancelled = FALSE, !.task = "running"]
      BY DEF TakeExecution
    <3>3. [runtime EXCEPT !.phase = "started", !.permit = None] \in RuntimeRecords
      BY <1>0 DEF RuntimeRecords
    <3>4. [runtime EXCEPT !.phase = "serving", !.taken = TRUE,
             !.cancelled = FALSE, !.task = "running"] \in RuntimeRecords
      BY <1>0 DEF RuntimeRecords
    <3>5. QED
      BY <3>1, <3>2, <3>3, <3>4
  <2>8. TaskStep => runtime' \in RuntimeRecords
    <3>1. Latched(runtime.gate) \in {"open", "pending", "quarantined"}
      BY <1>0 DEF Latched, RuntimeRecords
    <3>2. TaskStep => \/ runtime' = [runtime EXCEPT !.task = "succeeded"]
                      \/ runtime' = [runtime EXCEPT !.task = "failing",
                                        !.gate = Latched(runtime.gate)]
                      \/ runtime' = [runtime EXCEPT !.task = "failed", !.gate = "quarantined"]
                      \/ runtime' = [runtime EXCEPT !.task = "failed"]
      BY DEF TaskStep, TaskSucceeds, TaskFails, TaskCancelled, TaskRetainsUnknown,
         TaskFindsStoreBusy
    <3>3. /\ [runtime EXCEPT !.task = "succeeded"] \in RuntimeRecords
          /\ [runtime EXCEPT !.task = "failed"] \in RuntimeRecords
      BY <1>0 DEF RuntimeRecords
    <3>4. [runtime EXCEPT !.task = "failing", !.gate = Latched(runtime.gate)] \in RuntimeRecords
      BY <1>0, <3>1 DEF RuntimeRecords
    <3>5. [runtime EXCEPT !.task = "failed", !.gate = "quarantined"] \in RuntimeRecords
      BY <1>0 DEF RuntimeRecords
    <3>6. QED
      BY <3>2, <3>3, <3>4, <3>5
  <2>9. LoopStep => runtime' \in RuntimeRecords
    <3>1. LoopStep => \/ runtime' = [runtime EXCEPT !.lane = None, !.taken = FALSE,
                                        !.cancelled = FALSE, !.task = "none"]
                      \/ runtime' = [runtime EXCEPT !.taken = FALSE, !.task = "ended",
                                        !.gate = "quarantined"]
      BY DEF LoopStep, CompleteExecution, RetainExecution, ReleaseCompleted,
         ReleaseDurableCompletion, Released
    <3>2. [runtime EXCEPT !.lane = None, !.taken = FALSE, !.cancelled = FALSE, !.task = "none"]
            \in RuntimeRecords
      BY <1>0 DEF RuntimeRecords
    <3>3. [runtime EXCEPT !.taken = FALSE, !.task = "ended", !.gate = "quarantined"]
            \in RuntimeRecords
      BY <1>0 DEF RuntimeRecords
    <3>4. QED
      BY <3>1, <3>2, <3>3
  <2>10. JobStep \/ ReceiptStep \/ ChildrenStep => UNCHANGED runtime
    BY DEF JobStep, ClaimJob, CompleteJob, FailJob, SettleJob, ReceiptStep, Lookup,
       Acknowledge, CommitNewCompletion, ChildrenStep, ChildStep, ChildExits, Reconstruct,
       workerVars
  <2>11. Crash => runtime' \in RuntimeRecords
    BY <1>1 DEF Crash
  <2>12. QED
    BY <1>0, <2>1, <2>2, <2>3, <2>4, <2>5, <2>6, <2>7, <2>8, <2>9, <2>10, <2>11
    DEF WorkerNext, DispatchStep, ControlStep, allVars, workerVars
<1>5. QED
  BY <1>2, <1>3, <1>4

\* All the worker's tables keep their types.
LEMMA TypesStep == WorkerInv /\ [WorkerNext]_allVars => WorkerTypes'
<1> USE WorkerAssumption
<1> SUFFICES ASSUME WorkerInv, [WorkerNext]_allVars PROVE WorkerTypes'
  OBVIOUS
<1>1. handoffs' \in [Handoffs -> HandoffRows \union {NoHandoff}]
  <2>1. \A h \in Handoffs : handoffs'[h] \in HandoffRows \union {NoHandoff}
    BY RowKept
  <2>2. handoffs' = [h \in Handoffs |-> handoffs'[h]]
    BY HandoffTable
  <2>3. QED
    BY <2>1, <2>2
<1>2. jobs' \in [Jobs -> JobRows \union {NoJob}]
  <2>1. ASSUME NEW j \in Jobs
        PROVE  jobs'[j] \in JobRows \union {NoJob}
    <3>0. jobs \in [Jobs -> JobRows \union {NoJob}] /\ jobs[j] \in JobRows \union {NoJob}
      BY DEF WorkerInv, WorkerTypes
    <3>1. JobMove(j)
      BY JobMoves
    <3>2. CASE \E h \in Handoffs : ProjectsRow(h) /\ j = handoffs[h].tuple.job
      <4> PICK h \in Handoffs : ProjectsRow(h) /\ j = handoffs[h].tuple.job
        BY <3>2
      <4> DEFINE st == completions'[handoffs[h].tuple.lineage.episode].status
      <4>1. /\ jobs[j].state = "claimed"
            /\ jobs' = [jobs EXCEPT ![j].state = st]
            /\ st \in {"completed", "failed"}
        BY DEF ProjectsRow, HasReceipt
      <4> HIDE DEF st
      <4>2. jobs'[j] = [jobs[j] EXCEPT !.state = st]
        BY <3>0, <4>1
      <4>3. QED
        BY <3>0, <4>1, <4>2
    <3>3. CASE \E token \in Tokens \union Handoffs :
                 /\ jobs[j].state = "admitted"
                 /\ jobs'[j] = [jobs[j] EXCEPT !.state = "claimed", !.token = token]
      <4> PICK token \in Tokens \union Handoffs :
                 /\ jobs[j].state = "admitted"
                 /\ jobs'[j] = [jobs[j] EXCEPT !.state = "claimed", !.token = token]
        BY <3>3
      <4>1. jobs[j] \in JobRows
        BY <3>0
      <4>2. QED
        BY <4>1
    <3>4. CASE \E state \in {"completed", "failed"} :
                 /\ jobs[j].state = "claimed"
                 /\ jobs'[j] = [jobs[j] EXCEPT !.state = state]
      BY <3>0, <3>4
    <3>5. CASE /\ runtime.request \in [handoff: Handoffs, tuple: Tuples]
               /\ jobs'[j] = AdmittedJob(runtime.request.tuple)
      BY <3>5 DEF AdmittedJob
    <3>6. QED
      BY <3>0, <3>1, <3>2, <3>3, <3>4, <3>5 DEF JobMove
  <2>2. jobs' = [j \in Jobs |-> jobs'[j]]
    BY JobTable
  <2>3. QED
    BY <2>1, <2>2
<1>3. QED
  BY <1>1, <1>2, MemoryKept, ControlKept DEF WorkerTypes

-----------------------------------------------------------------------------
(* The endpoint's memory.                                                  *)

\* A row is admitted only by admit_worker_handoff.
LEMMA AdmittedBefore ==
  ASSUME WorkerInv, [WorkerNext]_allVars, NEW h \in Handoffs, ~AdmitWorkerHandoff,
         handoffs'[h].state \in {"absent", "admitted"}
  PROVE  handoffs'[h].state = handoffs[h].state
<1>1. handoffs[h] \in HandoffRows \union {NoHandoff}
  BY DEF WorkerInv, WorkerTypes
<1>2. RowMove(h)
  BY RowMoves
<1>3. QED
  BY <1>1, <1>2 DEF RowMove, AdmitsRow, QuarantinesRow, StartsRow, ProjectsRow, AcknowledgesRow

\* A child is only ever started for the handoff in the lane.
LEMMA ChildrenStored ==
  ASSUME WorkerInv, [WorkerNext]_allVars, NEW h \in Handoffs, children'[h] # "none"
  PROVE  handoffs'[h].state # "absent"
<1>0. children \in [Handoffs -> {"none", "alive", "succeeded", "failed"}]
  BY DEF WorkerInv, WorkerTypes
<1> DEFINE Old == children[h] # "none" \/ h = runtime.lane
<1>1. Crash => Old
  BY <1>0 DEF Crash
<1>2. TakeExecution \/ TaskFails \/ TaskCancelled => Old
  BY <1>0 DEF TakeExecution, TaskFails, TaskCancelled
<1>3. ChildrenStep => Old
  BY <1>0 DEF ChildrenStep, ChildStep, ChildExits, Reconstruct, workerVars
<1>4. JobStep \/ ControlStep \/ LoopStep \/ ReceiptStep => Old
  BY DEF JobStep, ClaimJob, CompleteJob, FailJob, SettleJob, ControlStep, StartWorkerBoot,
     SetControlMode, LoopStep, CompleteExecution, RetainExecution, ReleaseCompleted,
     ReceiptStep, Lookup, Acknowledge, CommitNewCompletion
<1>5. Old
  BY <1>1, <1>2, <1>3, <1>4 DEF WorkerNext, DispatchStep, DispatchEpisode, DispatchJob,
     AdmitWorkerHandoff, ResponseFailed, StartReservation, StartRefused, TaskStep,
     TaskSucceeds, TaskRetainsUnknown, TaskFindsStoreBusy, allVars, workerVars
<1>6. handoffs[h].state # "absent"
  BY <1>5, WorkerAssumption DEF WorkerInv, EndpointSound
<1>7. QED
  BY <1>6, RowKept

\* The memory of the endpoint points to stored handoffs, and to the right one, in
\* every phase.
LEMMA EndpointStep == WorkerInv /\ [WorkerNext]_allVars => EndpointSound'
<1> USE WorkerAssumption
<1> SUFFICES ASSUME WorkerInv, [WorkerNext]_allVars PROVE EndpointSound'
  OBVIOUS
<1>0. /\ runtime \in RuntimeRecords
      /\ EndpointSound
      /\ boots \subseteq boots'
      /\ \A h \in Handoffs : Exists(handoffs[h]) => Exists(handoffs'[h])
      /\ \A h \in Handoffs : children'[h] # "none" => Exists(handoffs'[h])
  BY ControlKept, RowKept, ChildrenStored DEF WorkerInv, WorkerTypes
<1>1. ~AdmitWorkerHandoff => \A h \in Handoffs :
        handoffs'[h].state = "admitted" => handoffs[h].state = "admitted"
  BY AdmittedBefore
<1>2. ASSUME ~AdmitWorkerHandoff,
             runtime'.phase = runtime.phase, runtime'.boot = runtime.boot,
             runtime'.watchdog = runtime.watchdog, runtime'.request = runtime.request,
             runtime'.permit = runtime.permit, runtime'.lane = runtime.lane,
             runtime.task = "none" => runtime'.task = "none"
      PROVE  EndpointSound'
  BY <1>0, <1>1, <1>2 DEF EndpointSound, RuntimeRecords
<1>3. JobStep \/ ReceiptStep \/ ChildrenStep => EndpointSound'
  <2>1. JobStep \/ ReceiptStep \/ ChildrenStep => UNCHANGED runtime
    BY DEF JobStep, ClaimJob, CompleteJob, FailJob, SettleJob, ReceiptStep, Lookup,
       Acknowledge, CommitNewCompletion, ChildrenStep, ChildStep, ChildExits, Reconstruct,
       workerVars
  <2>2. UNCHANGED runtime => ~AdmitWorkerHandoff
    BY <1>0 DEF AdmitWorkerHandoff, RuntimeRecords
  <2>3. QED
    BY <1>2, <2>1, <2>2
<1>4. UNCHANGED allVars => EndpointSound'
  BY <1>0 DEF allVars, workerVars, EndpointSound
<1>5. ASSUME NEW worker \in Boots, NEW watchdog \in Boots, StartWorkerBoot(worker, watchdog)
      PROVE  EndpointSound'
  <2>1. runtime'.phase = "serving" /\ runtime'.boot = worker /\ runtime'.watchdog = watchdog
        /\ runtime'.lane = None /\ runtime'.permit = None /\ runtime'.task = "none"
        /\ worker \in boots'
    BY <1>5 DEF StartWorkerBoot, Down
  <2>2. QED
    BY <1>0, <2>1 DEF EndpointSound
<1>6. ASSUME NEW mode, NEW sequence, SetControlMode(mode, sequence)
      PROVE  EndpointSound'
  <2>1. ~AdmitWorkerHandoff /\ runtime.phase = "serving"
    BY <1>6 DEF SetControlMode, AdmitWorkerHandoff
  <2>2. \E b : runtime' = [runtime EXCEPT !.cancelled = b]
    BY <1>6 DEF SetControlMode, CancelChangedExecution
  <2>3. QED
    BY <1>0, <1>2, <2>1, <2>2 DEF RuntimeRecords
<1>7. ASSUME NEW h \in Handoffs, NEW t \in Tuples, DispatchEpisode(h, t)
      PROVE  EndpointSound'
  <2>1. /\ ~AdmitWorkerHandoff
        /\ runtime.phase = "serving"
        /\ runtime.lane = None
        /\ runtime' = [runtime EXCEPT !.phase = "job",
                         !.request = [handoff |-> h, tuple |-> t]]
    BY <1>7 DEF DispatchEpisode, AdmitWorkerHandoff
  <2>2. [handoff |-> h, tuple |-> t] # NoRequest
    BY DEF NoRequest
  <2> HIDE DEF NoRequest
  <2>3. /\ runtime'.phase = "job" /\ runtime'.request # NoRequest
        /\ runtime'.boot = runtime.boot /\ runtime'.watchdog = runtime.watchdog
        /\ runtime'.permit = runtime.permit /\ runtime'.lane = None
        /\ runtime'.task = runtime.task
    BY <1>0, <2>1, <2>2 DEF RuntimeRecords
  <2>4. QED
    BY <1>0, <1>1, <2>1, <2>3 DEF EndpointSound, RuntimeRecords
<1>8. DispatchJob => EndpointSound'
  <2> SUFFICES ASSUME DispatchJob PROVE EndpointSound'
    OBVIOUS
  <2>1. /\ ~AdmitWorkerHandoff
        /\ runtime.phase = "job"
        /\ runtime' = [runtime EXCEPT !.phase = "admit"]
    BY DEF DispatchJob, AdmitWorkerHandoff
  <2>2. QED
    BY <1>0, <1>1, <2>1 DEF EndpointSound, RuntimeRecords
<1>9. AdmitWorkerHandoff => EndpointSound'
  <2> SUFFICES ASSUME AdmitWorkerHandoff PROVE EndpointSound'
    OBVIOUS
  <2> DEFINE g == runtime.request.handoff
  <2>1. /\ runtime.phase = "admit"
        /\ g \in Handoffs
        /\ runtime' = [runtime EXCEPT !.phase = "serving", !.request = NoRequest,
                         !.permit = g, !.lane = g]
    BY AdmitFacts DEF AdmitWorkerHandoff
  <2>2. Exists(handoffs'[g])
    BY <2>1 DEF AdmitWorkerHandoff, WorkerInv, WorkerTypes
  <2> HIDE DEF NoRequest, g
  <2>3. /\ runtime'.phase = "serving"
        /\ runtime'.boot = runtime.boot /\ runtime'.watchdog = runtime.watchdog
        /\ runtime'.permit = g /\ runtime'.lane = g
    BY <1>0, <2>1 DEF RuntimeRecords
  <2>4. QED
    BY <1>0, <2>1, <2>2, <2>3 DEF EndpointSound
<1>10. ResponseFailed \/ StartRefused => EndpointSound'
  <2> SUFFICES ASSUME ResponseFailed \/ StartRefused PROVE EndpointSound'
    OBVIOUS
  <2>1. /\ runtime.phase = "serving"
        /\ runtime' = [runtime EXCEPT !.permit = None, !.gate = "quarantined"]
    BY DEF ResponseFailed, StartRefused
  <2>2. QED
    BY <1>0, <2>1 DEF EndpointSound, RuntimeRecords
<1>11. StartReservation => EndpointSound'
  <2> SUFFICES ASSUME StartReservation PROVE EndpointSound'
    OBVIOUS
  <2>1. /\ runtime.phase = "serving"
        /\ runtime.permit \in Handoffs
        /\ handoffs[runtime.permit].state = "admitted"
        /\ runtime' = [runtime EXCEPT !.phase = "started", !.permit = None]
    BY <1>0 DEF StartReservation, CanStart, RuntimeRecords
  <2>2. runtime.lane = runtime.permit
    BY <1>0, <2>1 DEF EndpointSound
  <2>3. QED
    BY <1>0, <2>1, <2>2 DEF EndpointSound, RuntimeRecords
<1>12. TakeExecution => EndpointSound'
  <2> SUFFICES ASSUME TakeExecution PROVE EndpointSound'
    OBVIOUS
  <2>1. /\ ~AdmitWorkerHandoff
        /\ runtime.phase = "started"
        /\ runtime' = [runtime EXCEPT !.phase = "serving", !.taken = TRUE,
                         !.cancelled = FALSE, !.task = "running"]
    BY DEF TakeExecution, AdmitWorkerHandoff
  <2>2. /\ runtime'.phase = "serving"
        /\ runtime'.boot = runtime.boot /\ runtime'.watchdog = runtime.watchdog
        /\ runtime'.permit = runtime.permit /\ runtime'.lane = runtime.lane
    BY <1>0, <2>1 DEF RuntimeRecords
  <2>3. QED
    BY <1>0, <1>1, <2>1, <2>2 DEF EndpointSound, RuntimeRecords
<1>13. TaskStep => EndpointSound'
  <2> SUFFICES ASSUME TaskStep PROVE EndpointSound'
    OBVIOUS
  <2>1. /\ runtime.task # "none"
        /\ \E task, gate : runtime' = [runtime EXCEPT !.task = task, !.gate = gate]
    <3>1. TaskSucceeds => runtime' = [runtime EXCEPT !.task = "succeeded", !.gate = runtime.gate]
      BY <1>0 DEF TaskSucceeds, RuntimeRecords
    <3>2. TaskFindsStoreBusy =>
            runtime' = [runtime EXCEPT !.task = "failed", !.gate = runtime.gate]
      BY <1>0 DEF TaskFindsStoreBusy, RuntimeRecords
    <3>3. QED
      BY <3>1, <3>2 DEF TaskStep, TaskSucceeds, TaskFails, TaskCancelled,
         TaskRetainsUnknown, TaskFindsStoreBusy
  <2>2. runtime'.phase = runtime.phase /\ runtime'.permit = runtime.permit
    BY <1>0, <2>1 DEF RuntimeRecords
  <2>3. ~AdmitWorkerHandoff
    BY <1>0, <2>2, AdmitFacts DEF AdmitWorkerHandoff, RuntimeRecords
  <2>4. QED
    BY <1>0, <1>2, <2>1, <2>2, <2>3 DEF RuntimeRecords
<1>14. LoopStep => EndpointSound'
  <2> SUFFICES ASSUME LoopStep PROVE EndpointSound'
    OBVIOUS
  <2>1. /\ runtime.phase = "serving"
        /\ \/ runtime' = [runtime EXCEPT !.lane = None, !.taken = FALSE,
                            !.cancelled = FALSE, !.task = "none"]
           \/ runtime' = [runtime EXCEPT !.taken = FALSE, !.task = "ended",
                            !.gate = "quarantined"] /\ runtime.task # "none"
    BY DEF LoopStep, CompleteExecution, RetainExecution, ReleaseCompleted,
       ReleaseDurableCompletion, Released
  <2>2. ~AdmitWorkerHandoff
    BY <2>1 DEF AdmitWorkerHandoff
  <2>3. ASSUME NEW h \in Handoffs, h = runtime.permit, runtime'.lane = None
        PROVE  handoffs'[h].state # "admitted"
    <3>1. handoffs[h].state = "admitted" => runtime.lane = h
      BY <1>0, <2>3 DEF EndpointSound
    <3>2. /\ LoopStep
          /\ runtime.lane = h => ReleaseDurableCompletion
      BY <1>0, <2>3 DEF LoopStep, CompleteExecution, RetainExecution, ReleaseCompleted,
         RuntimeRecords
    <3>3. handoffs \in [Handoffs -> HandoffRows \union {NoHandoff}]
      BY DEF WorkerInv, WorkerTypes
    <3>4. ReleaseDurableCompletion /\ runtime.lane = h => handoffs'[h].state # "admitted"
      BY <3>3 DEF ReleaseDurableCompletion, Project, ProjectReceipt
    <3>5. QED
      BY <1>1, <2>2, <3>1, <3>2, <3>4
  <2>4. /\ runtime'.phase = "serving"
        /\ runtime'.boot = runtime.boot /\ runtime'.watchdog = runtime.watchdog
        /\ runtime'.permit = runtime.permit
        /\ \/ runtime'.lane = None /\ runtime'.task = "none"
           \/ runtime'.lane = runtime.lane /\ runtime.task # "none"
    <3>1. CASE runtime' = [runtime EXCEPT !.lane = None, !.taken = FALSE,
                             !.cancelled = FALSE, !.task = "none"]
      BY <1>0, <2>1, <3>1 DEF RuntimeRecords
    <3>2. CASE runtime' = [runtime EXCEPT !.taken = FALSE, !.task = "ended",
                             !.gate = "quarantined"] /\ runtime.task # "none"
      BY <1>0, <2>1, <3>2 DEF RuntimeRecords
    <3>3. QED
      BY <2>1, <3>1, <3>2
  <2>5. CASE runtime'.lane = None /\ runtime'.task = "none"
    <3>1. runtime'.permit # None => runtime'.permit \in Handoffs
      BY <1>0, <2>4 DEF RuntimeRecords
    <3>2. runtime'.permit # None => /\ Exists(handoffs'[runtime'.permit])
                                    /\ handoffs'[runtime'.permit].state # "admitted"
      BY <1>0, <2>3, <2>4, <2>5, <3>1 DEF EndpointSound
    <3>3. QED
      BY <1>0, <2>1, <2>4, <2>5, <3>2 DEF EndpointSound
  <2>6. CASE runtime'.lane = runtime.lane /\ runtime.task # "none"
    <3>1. /\ runtime.lane \in Handoffs
          /\ runtime.permit \in Handoffs \union {None}
      BY <1>0, <2>6 DEF EndpointSound, RuntimeRecords
    <3>2. QED
      BY <1>0, <1>1, <2>1, <2>2, <2>4, <2>6, <3>1 DEF EndpointSound
  <2>7. QED
    BY <2>4, <2>5, <2>6
<1>15. Crash => EndpointSound'
  BY <1>0 DEF Crash, Down, EndpointSound
<1>16. QED
  BY <1>3, <1>4, <1>5, <1>6, <1>7, <1>8, <1>9, <1>10, <1>11, <1>12, <1>13, <1>14, <1>15
  DEF WorkerNext, ControlStep, DispatchStep

\* What a step of a process that neither boots nor ends does to its memory: it keeps
\* its boot; the lane moves only from empty to the admitted handoff and, once that
\* handoff has its receipt, back; an execution starts only with TakeExecution.
KeepsMemory ==
  /\ runtime'.boot = runtime.boot
  /\ runtime'.phase # "down" => runtime.phase # "down"
  /\ \/ runtime'.lane = runtime.lane
     \/ AdmitWorkerHandoff
     \/ /\ runtime.lane # None
        /\ handoffs'[runtime.lane].state \in {"terminal", "acknowledged"}
  /\ runtime'.phase = "started" =>
       /\ runtime'.lane = runtime.lane
       /\ runtime.phase = "started" \/ StartReservation
  /\ runtime'.task = "running" =>
       \/ TakeExecution
       \/ /\ runtime.task = "running"
          /\ runtime.cancelled => runtime'.cancelled
          /\ runtime'.lane = runtime.lane

\* Every step boots the process, ends it, or keeps its memory so.
LEMMA MemoryMoves ==
  ASSUME WorkerInv, [WorkerNext]_allVars
  PROVE  \/ \E worker, watchdog \in Boots : StartWorkerBoot(worker, watchdog)
         \/ Crash
         \/ KeepsMemory
<1> USE WorkerAssumption
<1>0. /\ runtime \in RuntimeRecords
      /\ handoffs \in [Handoffs -> HandoffRows \union {NoHandoff}]
      /\ EndpointSound
  BY DEF WorkerInv, WorkerTypes
<1>1. JobStep \/ ReceiptStep \/ ChildrenStep \/ UNCHANGED allVars => KeepsMemory
  <2>1. JobStep \/ ReceiptStep \/ ChildrenStep \/ UNCHANGED allVars => UNCHANGED runtime
    BY DEF JobStep, ClaimJob, CompleteJob, FailJob, SettleJob, ReceiptStep, Lookup,
       Acknowledge, CommitNewCompletion, ChildrenStep, ChildStep, ChildExits, Reconstruct,
       allVars, workerVars
  <2>2. UNCHANGED runtime => KeepsMemory
    BY DEF KeepsMemory
  <2>3. QED
    BY <2>1, <2>2
<1>2. ASSUME NEW mode, NEW sequence, SetControlMode(mode, sequence)
      PROVE  KeepsMemory
  <2>1. runtime' = [runtime EXCEPT !.cancelled =
          runtime.cancelled \/ /\ runtime.task # "none"
                               /\ ~Authorises(control', handoffs[runtime.lane].authority)]
    BY <1>2 DEF SetControlMode, CancelChangedExecution
  <2>2. /\ runtime'.boot = runtime.boot /\ runtime'.phase = runtime.phase
        /\ runtime'.lane = runtime.lane /\ runtime'.task = runtime.task
        /\ runtime.cancelled => runtime'.cancelled
    BY <1>0, <2>1 DEF RuntimeRecords
  <2>3. runtime.phase = "serving"
    BY <1>2 DEF SetControlMode
  <2>4. QED
    BY <2>2, <2>3 DEF KeepsMemory
<1>3. ASSUME NEW h \in Handoffs, NEW t \in Tuples, DispatchEpisode(h, t)
      PROVE  KeepsMemory
  <2>1. /\ runtime.phase = "serving" /\ runtime.lane = None
        /\ runtime' = [runtime EXCEPT !.phase = "job",
                         !.request = [handoff |-> h, tuple |-> t]]
    BY <1>3 DEF DispatchEpisode
  <2>2. /\ runtime'.boot = runtime.boot /\ runtime'.phase = "job"
        /\ runtime'.lane = runtime.lane /\ runtime'.task = runtime.task
        /\ runtime'.cancelled = runtime.cancelled
    BY <1>0, <2>1 DEF RuntimeRecords
  <2>3. QED
    BY <2>1, <2>2 DEF KeepsMemory
<1>4. DispatchJob => KeepsMemory
  <2>1. DispatchJob => /\ runtime.phase = "job"
                       /\ runtime' = [runtime EXCEPT !.phase = "admit"]
    BY DEF DispatchJob
  <2>2. QED
    BY <1>0, <2>1 DEF KeepsMemory, RuntimeRecords
<1>5. AdmitWorkerHandoff => KeepsMemory
  <2> SUFFICES ASSUME AdmitWorkerHandoff PROVE KeepsMemory
    OBVIOUS
  <2>1. /\ runtime.phase = "admit"
        /\ runtime' = [runtime EXCEPT !.phase = "serving", !.request = NoRequest,
                         !.permit = runtime.request.handoff, !.lane = runtime.request.handoff]
    BY DEF AdmitWorkerHandoff
  <2> HIDE DEF NoRequest
  <2>2. /\ runtime'.boot = runtime.boot /\ runtime'.phase = "serving"
        /\ runtime'.task = runtime.task
    BY <1>0, <2>1 DEF RuntimeRecords
  <2>3. runtime.task = "none"
    BY <1>0, <2>1 DEF EndpointSound
  <2>4. QED
    BY <2>1, <2>2, <2>3 DEF KeepsMemory
<1>6. ResponseFailed \/ StartRefused => KeepsMemory
  <2> SUFFICES ASSUME ResponseFailed \/ StartRefused PROVE KeepsMemory
    OBVIOUS
  <2>1. /\ runtime.phase = "serving"
        /\ runtime' = [runtime EXCEPT !.permit = None, !.gate = "quarantined"]
    BY DEF ResponseFailed, StartRefused
  <2>2. /\ runtime'.boot = runtime.boot /\ runtime'.lane = runtime.lane
        /\ runtime'.phase = "serving" /\ runtime'.task = runtime.task
        /\ runtime'.cancelled = runtime.cancelled
    BY <1>0, <2>1 DEF RuntimeRecords
  <2>3. QED
    BY <2>1, <2>2 DEF KeepsMemory
<1>7. StartReservation => KeepsMemory
  <2> SUFFICES ASSUME StartReservation PROVE KeepsMemory
    OBVIOUS
  <2>1. /\ runtime.phase = "serving"
        /\ runtime' = [runtime EXCEPT !.phase = "started", !.permit = None]
    BY DEF StartReservation
  <2>2. /\ runtime'.boot = runtime.boot /\ runtime'.lane = runtime.lane
        /\ runtime'.phase = "started" /\ runtime'.task = runtime.task
        /\ runtime'.cancelled = runtime.cancelled
    BY <1>0, <2>1 DEF RuntimeRecords
  <2>3. QED
    BY <2>1, <2>2 DEF KeepsMemory
<1>8. TakeExecution => KeepsMemory
  <2> SUFFICES ASSUME TakeExecution PROVE KeepsMemory
    OBVIOUS
  <2>1. /\ runtime.phase = "started"
        /\ runtime' = [runtime EXCEPT !.phase = "serving", !.taken = TRUE,
                         !.cancelled = FALSE, !.task = "running"]
    BY DEF TakeExecution
  <2>2. /\ runtime'.boot = runtime.boot /\ runtime'.lane = runtime.lane
        /\ runtime'.phase = "serving"
    BY <1>0, <2>1 DEF RuntimeRecords
  <2>3. QED
    BY <2>1, <2>2 DEF KeepsMemory
<1>9. TaskStep => KeepsMemory
  <2> SUFFICES ASSUME TaskStep PROVE KeepsMemory
    OBVIOUS
  <2>1. \E task \in {"succeeded", "failing", "failed"} : \E gate :
          runtime' = [runtime EXCEPT !.task = task, !.gate = gate]
    <3>1. TaskSucceeds => runtime' = [runtime EXCEPT !.task = "succeeded", !.gate = runtime.gate]
      BY <1>0 DEF TaskSucceeds, RuntimeRecords
    <3>2. TaskFindsStoreBusy =>
            runtime' = [runtime EXCEPT !.task = "failed", !.gate = runtime.gate]
      BY <1>0 DEF TaskFindsStoreBusy, RuntimeRecords
    <3>3. QED
      BY <3>1, <3>2 DEF TaskStep, TaskFails, TaskCancelled, TaskRetainsUnknown
  <2>2. /\ runtime'.boot = runtime.boot /\ runtime'.lane = runtime.lane
        /\ runtime'.phase = runtime.phase /\ runtime'.task # "running"
    BY <1>0, <2>1 DEF RuntimeRecords
  <2>3. QED
    BY <2>2 DEF KeepsMemory
<1>10. RetainExecution => KeepsMemory
  <2> SUFFICES ASSUME RetainExecution PROVE KeepsMemory
    OBVIOUS
  <2>1. /\ runtime.phase = "serving"
        /\ runtime' = [runtime EXCEPT !.taken = FALSE, !.task = "ended",
                         !.gate = "quarantined"]
    BY DEF RetainExecution
  <2>2. /\ runtime'.boot = runtime.boot /\ runtime'.lane = runtime.lane
        /\ runtime'.phase = "serving" /\ runtime'.task = "ended"
    BY <1>0, <2>1 DEF RuntimeRecords
  <2>3. QED
    BY <2>1, <2>2 DEF KeepsMemory
<1>11. CompleteExecution \/ ReleaseCompleted => KeepsMemory
  <2> SUFFICES ASSUME CompleteExecution \/ ReleaseCompleted PROVE KeepsMemory
    OBVIOUS
  <2>1. /\ runtime.phase = "serving"
        /\ ReleaseDurableCompletion
        /\ runtime.lane \in Handoffs
        /\ runtime' = [runtime EXCEPT !.lane = None, !.taken = FALSE,
                         !.cancelled = FALSE, !.task = "none"]
    BY <1>0 DEF CompleteExecution, ReleaseCompleted, ReleaseDurableCompletion, Released,
       EndpointSound, RuntimeRecords
  <2>2. handoffs'[runtime.lane].state \in {"terminal", "acknowledged"}
    BY <1>0, <2>1 DEF ReleaseDurableCompletion, Project, ProjectReceipt
  <2>3. /\ runtime'.boot = runtime.boot /\ runtime'.phase = "serving"
        /\ runtime'.task = "none"
    BY <1>0, <2>1 DEF RuntimeRecords
  <2>4. QED
    BY <2>1, <2>2, <2>3 DEF KeepsMemory
<1>12. QED
  BY <1>1, <1>2, <1>3, <1>4, <1>5, <1>6, <1>7, <1>8, <1>9, <1>10, <1>11
  DEF WorkerNext, ControlStep, DispatchStep, LoopStep

-----------------------------------------------------------------------------
(* Authorities, tuples and executions.                                     *)

\* The states a row may go through, and which move takes it there.
LEMMA RowStates ==
  ASSUME WorkerInv, [WorkerNext]_allVars, NEW h \in Handoffs
  PROVE  \/ handoffs'[h] = handoffs[h] /\ ~AdmitsRow(h) /\ ~ProjectsRow(h)
         \/ AdmitsRow(h) /\ handoffs[h].state = "absent" /\ handoffs'[h].state = "admitted"
         \/ /\ ~AdmitsRow(h) /\ ~ProjectsRow(h)
            /\ handoffs[h].state \in {"admitted", "running"}
            /\ handoffs'[h].state = "unknown"
         \/ /\ ~AdmitsRow(h) /\ ~ProjectsRow(h)
            /\ StartReservation
            /\ h = runtime.permit
            /\ handoffs[h].state = "admitted"
            /\ handoffs'[h].state = "running"
         \/ /\ ProjectsRow(h) /\ ~AdmitsRow(h)
            /\ handoffs[h].state \in UnresolvedHandoffs
            /\ handoffs'[h].state = "terminal"
         \/ /\ ~AdmitsRow(h) /\ ~ProjectsRow(h)
            /\ handoffs[h].state = "terminal"
            /\ handoffs'[h].state = "acknowledged"
<1>0. handoffs[h] \in HandoffRows \union {NoHandoff}
  BY DEF WorkerInv, WorkerTypes
<1>1. AdmitsRow(h) => handoffs[h].state = "absent" /\ handoffs'[h].state = "admitted"
  BY DEF AdmitsRow
<1>2. QuarantinesRow(h) => /\ handoffs[h].state \in {"admitted", "running"}
                           /\ handoffs'[h].state = "unknown"
  BY <1>0 DEF QuarantinesRow
<1>3. StartsRow(h) => /\ StartReservation /\ h = runtime.permit
                      /\ handoffs[h].state = "admitted" /\ handoffs'[h].state = "running"
  BY <1>0 DEF StartsRow
<1>4. ProjectsRow(h) => /\ handoffs[h].state \in UnresolvedHandoffs
                        /\ handoffs'[h].state = "terminal"
  <2>1. ProjectsRow(h) =>
          /\ handoffs[h].state \in UnresolvedHandoffs
          /\ handoffs'[h] = [handoffs[h] EXCEPT !.state = "terminal", !.reservation = "reserved",
                !.receipt = completions'[handoffs[h].tuple.lineage.episode]]
    BY DEF ProjectsRow
  <2>2. handoffs[h].state \in UnresolvedHandoffs => handoffs[h] \in HandoffRows
    BY <1>0 DEF UnresolvedHandoffs
  <2>3. QED
    BY <2>1, <2>2
<1>5. AcknowledgesRow(h) => /\ handoffs[h].state = "terminal"
                            /\ handoffs'[h].state = "acknowledged"
  BY <1>0 DEF AcknowledgesRow
<1>6. RowMove(h)
  BY RowMoves
<1>7. QED
  BY <1>1, <1>2, <1>3, <1>4, <1>5, <1>6 DEF RowMove, UnresolvedHandoffs

\* A handoff's authority is never ahead of the control row.
LEMMA AuthoritiesStep == WorkerInv /\ [WorkerNext]_allVars => AuthoritiesPast'
<1> USE WorkerAssumption
<1> SUFFICES ASSUME WorkerInv, [WorkerNext]_allVars, NEW h \in Handoffs, Exists(handoffs'[h])
             PROVE  /\ handoffs'[h].authority.worker \in boots'
                    /\ handoffs'[h].authority.watchdog \in boots'
                    /\ handoffs'[h].authority.watchdog = control'.watchdog =>
                         handoffs'[h].authority.sequence <= control'.sequence
  BY DEF AuthoritiesPast
<1>0. boots \subseteq boots' /\ control \in ControlRows /\ RowMove(h)
  BY ControlKept, RowMoves DEF WorkerInv, WorkerTypes
<1>1. CASE AdmitsRow(h)
  <2>1. AdmitWorkerHandoff /\ handoffs'[h].authority = PresentedAuthority
    BY <1>1 DEF AdmitsRow
  <2>2. UNCHANGED <<control, boots>>
    BY <2>1 DEF AdmitWorkerHandoff
  <2>3. QED
    BY <1>0, <2>1, <2>2, AdmitFacts DEF ControlRows
<1>2. CASE ~AdmitsRow(h)
  <2>1. handoffs[h].state # "absent"
    BY <1>2, RowStates DEF UnresolvedHandoffs
  <2>2. handoffs'[h].authority = handoffs[h].authority /\ handoffs[h] \in HandoffRows
    BY <2>1, RowKept, UnresolvedRow
  <2>3. /\ handoffs[h].authority.worker \in boots
        /\ handoffs[h].authority.watchdog \in boots
        /\ handoffs[h].authority.watchdog = control.watchdog =>
             handoffs[h].authority.sequence <= control.sequence
    BY <2>1 DEF WorkerInv, AuthoritiesPast
  <2>4. CASE UNCHANGED <<control, boots>>
    BY <2>2, <2>3, <2>4
  <2>5. ASSUME NEW worker \in Boots, NEW watchdog \in Boots, StartWorkerBoot(worker, watchdog)
        PROVE  control'.watchdog = control.watchdog /\ control'.sequence = control.sequence
    BY <1>0, <2>5 DEF StartWorkerBoot, ControlRows
  <2>6. ASSUME NEW mode \in Modes, NEW sequence \in 1..MaxModeSequence,
               SetControlMode(mode, sequence),
               handoffs[h].authority.watchdog = control'.watchdog
        PROVE  handoffs[h].authority.sequence <= control'.sequence
    <3>1. /\ IF control.watchdog = runtime.watchdog THEN sequence > control.sequence
                                                    ELSE runtime.watchdog \notin boots
          /\ control'.watchdog = runtime.watchdog
          /\ control'.sequence = sequence
      BY <1>0, <2>6 DEF SetControlMode, NextControl, ControlRows
    <3>2. control.watchdog = runtime.watchdog /\ sequence > control.sequence
      BY <2>3, <2>6, <3>1
    <3>3. handoffs[h].authority.sequence <= control.sequence
      BY <2>3, <2>6, <3>1, <3>2
    <3>4. handoffs[h].authority.sequence \in Nat /\ control.sequence \in Nat
      BY <1>0, <2>2 DEF ControlRows
    <3>5. QED
      BY <3>1, <3>2, <3>3, <3>4
  <2>7. QED
    BY <1>0, <2>2, <2>3, <2>4, <2>5, <2>6, ControlMoves
<1>3. QED
  BY <1>1, <1>2

\* No two handoffs share a job, an episode or an attempt.
LEMMA TuplesStep == WorkerInv /\ [WorkerNext]_allVars => TuplesDistinct'
<1> DEFINE Apart(t, u) == /\ t.job # u.job
                          /\ t.lineage.episode # u.lineage.episode
                          /\ t.lineage.attempt # u.lineage.attempt
<1> SUFFICES ASSUME WorkerInv, [WorkerNext]_allVars,
                    NEW g \in Handoffs, NEW h \in Handoffs, g # h,
                    Exists(handoffs'[g]), Exists(handoffs'[h])
             PROVE  Apart(handoffs'[g].tuple, handoffs'[h].tuple)
  BY DEF TuplesDistinct
<1>1. ASSUME NEW x \in Handoffs, Exists(handoffs'[x])
      PROVE  \/ AdmitsRow(x)
             \/ Exists(handoffs[x]) /\ handoffs'[x].tuple = handoffs[x].tuple
  BY <1>1, RowKept, RowStates DEF UnresolvedHandoffs
<1>2. ASSUME NEW x \in Handoffs, NEW y \in Handoffs, AdmitsRow(x), Exists(handoffs[y])
      PROVE  Apart(handoffs'[x].tuple, handoffs[y].tuple)
  <2>1. Unclaimed(runtime.request.tuple) /\ handoffs'[x].tuple = runtime.request.tuple
    <3>1. AdmitWorkerHandoff => Unclaimed(runtime.request.tuple)
      BY DEF AdmitWorkerHandoff
    <3>2. AdmitsRow(x) => AdmitWorkerHandoff /\ handoffs'[x].tuple = runtime.request.tuple
      BY DEF AdmitsRow
    <3>3. QED
      BY <1>2, <3>1, <3>2
  <2>2. QED
    BY <1>2, <2>1 DEF Unclaimed
<1>3. ~(AdmitsRow(g) /\ AdmitsRow(h))
  BY DEF AdmitsRow
<1>4. Exists(handoffs[g]) /\ Exists(handoffs[h]) => Apart(handoffs[g].tuple, handoffs[h].tuple)
  BY DEF WorkerInv, TuplesDistinct
<1>5. QED
  BY <1>1, <1>2, <1>3, <1>4

\* A child is started once, for a handoff that left the admitted state.
LEMMA SpawnedStep == WorkerInv /\ [WorkerNext]_allVars => SpawnedOnce'
<1> USE WorkerAssumption
<1> SUFFICES ASSUME WorkerInv, [WorkerNext]_allVars PROVE SpawnedOnce'
  OBVIOUS
<1>0. /\ spawned \in [Handoffs -> Nat]
      /\ runtime \in RuntimeRecords
      /\ SpawnedOnce
      /\ handoffs \in [Handoffs -> HandoffRows \union {NoHandoff}]
  BY DEF WorkerInv, WorkerTypes
<1>1. TakeExecution \/ UNCHANGED spawned
  BY DEF WorkerNext, JobStep, ClaimJob, CompleteJob, FailJob, SettleJob, ControlStep,
     StartWorkerBoot, SetControlMode, LoopStep, CompleteExecution, RetainExecution,
     ReleaseCompleted, ReceiptStep, Lookup, Acknowledge, CommitNewCompletion, ChildrenStep,
     ChildStep, ChildExits, Reconstruct, workerVars, Crash, DispatchStep, DispatchEpisode,
     DispatchJob, AdmitWorkerHandoff, ResponseFailed, StartReservation, StartRefused, TaskStep,
     TaskSucceeds, TaskFails, TaskCancelled, TaskRetainsUnknown, TaskFindsStoreBusy, allVars
<1>2. CASE TakeExecution
  <2>1. /\ runtime.phase = "started"
        /\ handoffs[runtime.lane].state = "running"
        /\ handoffs' = handoffs
        /\ runtime' = [runtime EXCEPT !.phase = "serving", !.taken = TRUE,
                         !.cancelled = FALSE, !.task = "running"]
        /\ spawned' = [spawned EXCEPT ![runtime.lane] = spawned[runtime.lane] + 1]
    BY <1>2 DEF TakeExecution
  <2>2. runtime.lane \in Handoffs /\ spawned[runtime.lane] = 0 /\ runtime'.phase = "serving"
    BY <1>0, <2>1 DEF SpawnedOnce, WorkerInv, EndpointSound, RuntimeRecords
  <2>3. QED
    BY <1>0, <2>1, <2>2 DEF SpawnedOnce
<1>3. CASE UNCHANGED spawned
  <2>1. ASSUME NEW h \in Handoffs, handoffs'[h].state \in {"absent", "admitted"}
        PROVE  handoffs[h].state \in {"absent", "admitted"}
    BY <2>1, RowStates DEF UnresolvedHandoffs
  <2>2. ASSUME runtime'.phase = "started"
        PROVE  spawned[runtime'.lane] = 0
    <3>1. /\ ~Crash
          /\ ~\E worker, watchdog \in Boots : StartWorkerBoot(worker, watchdog)
      <4>1. Crash => runtime'.phase = "down"
        BY DEF Crash, Down
      <4>2. ASSUME NEW worker, NEW watchdog, StartWorkerBoot(worker, watchdog)
            PROVE  runtime'.phase = "serving"
        BY <4>2 DEF StartWorkerBoot, Down
      <4>3. QED
        BY <2>2, <4>1, <4>2
    <3>2. KeepsMemory
      BY <3>1, MemoryMoves
    <3>3. CASE runtime.phase = "started" /\ runtime'.lane = runtime.lane
      BY <1>0, <3>3 DEF SpawnedOnce
    <3>4. CASE StartReservation /\ runtime'.lane = runtime.lane
      <4>1. runtime.permit \in Handoffs /\ handoffs[runtime.permit].state = "admitted"
        BY <1>0, <3>4 DEF StartReservation, CanStart, RuntimeRecords
      <4>2. runtime.lane = runtime.permit
        BY <4>1 DEF WorkerInv, EndpointSound
      <4>3. QED
        BY <1>0, <3>4, <4>1, <4>2 DEF SpawnedOnce
    <3>5. QED
      BY <2>2, <3>2, <3>3, <3>4 DEF KeepsMemory
  <2>3. QED
    BY <1>0, <1>3, <2>1, <2>2 DEF SpawnedOnce
<1>4. QED
  BY <1>1, <1>2, <1>3

\* Until it has a receipt, a handoff keeps its job.
LEMMA ClaimStep == WorkerInv /\ [WorkerNext]_allVars => ClaimRetained'
<1> USE WorkerAssumption
<1> SUFFICES ASSUME WorkerInv, [WorkerNext]_allVars, NEW h \in Handoffs,
                    handoffs'[h].state \in {"admitted", "running", "unknown"}
             PROVE  /\ jobs'[handoffs'[h].tuple.job].token = h
                    /\ jobs'[handoffs'[h].tuple.job].state # "admitted"
  BY DEF ClaimRetained
<1>0. jobs \in [Jobs -> JobRows \union {NoJob}]
  BY DEF WorkerInv, WorkerTypes
<1>1. CASE AdmitsRow(h)
  <2>1. /\ handoffs'[h].tuple = runtime.request.tuple
        /\ h = runtime.request.handoff
        /\ runtime.request.tuple.job \in Jobs
        /\ jobs' = [jobs EXCEPT ![runtime.request.tuple.job].state = "claimed",
                                ![runtime.request.tuple.job].token = h]
        /\ jobs[runtime.request.tuple.job].state = "admitted"
    BY <1>1, AdmitFacts DEF AdmitsRow, AdmitWorkerHandoff, AdmittedJob
  <2>2. jobs[runtime.request.tuple.job] \in JobRows
    BY <1>0, <2>1
  <2>3. QED
    BY <1>0, <2>1, <2>2
<1>2. CASE ~AdmitsRow(h)
  <2>1. handoffs[h].state \in UnresolvedHandoffs /\ ~ProjectsRow(h)
    BY <1>2, RowStates DEF UnresolvedHandoffs
  <2> DEFINE j == handoffs[h].tuple.job
  <2>2. j \in Jobs /\ handoffs'[h].tuple = handoffs[h].tuple
    BY <2>1, UnresolvedRow, RowKept DEF UnresolvedHandoffs
  <2>3. jobs[j].token = h /\ jobs[j].state # "admitted"
    BY <2>1 DEF WorkerInv, ClaimRetained, UnresolvedHandoffs
  <2>4. jobs[j] \in JobRows
    BY <1>0, <2>2, <2>3
  <2>5. ASSUME NEW g \in Handoffs, ProjectsRow(g), j = handoffs[g].tuple.job
        PROVE  FALSE
    BY <2>1, <2>3, <2>5 DEF ProjectsRow
  <2> HIDE DEF j
  <2>6. JobMove(j)
    BY <2>2, JobMoves
  <2>7. jobs'[j].token = h /\ jobs'[j].state # "admitted"
    BY <2>3, <2>4, <2>5, <2>6 DEF JobMove, j
  <2>8. QED
    BY <2>2, <2>7 DEF j
<1>3. QED
  BY <1>1, <1>2

\* A receipt stays the completion of its episode, and the job stays settled its way.
LEMMA ReceiptStepSound == WorkerInv /\ [WorkerNext]_allVars => ReceiptAnchored'
<1> USE WorkerAssumption
<1> SUFFICES ASSUME WorkerInv, [WorkerNext]_allVars, NEW h \in Handoffs,
                    handoffs'[h].receipt # NoCompletion
             PROVE  /\ completions'[handoffs'[h].tuple.lineage.episode] = handoffs'[h].receipt
                    /\ HasReceipt(handoffs'[h].tuple, handoffs'[h].receipt)
                    /\ jobs'[handoffs'[h].tuple.job].state = handoffs'[h].receipt.status
                    /\ jobs'[handoffs'[h].tuple.job].token = h
  BY DEF ReceiptAnchored
<1>0. /\ jobs \in [Jobs -> JobRows \union {NoJob}]
      /\ handoffs[h] \in HandoffRows \union {NoHandoff}
      /\ handoffs'[h].state \in {"terminal", "acknowledged"}
  BY RowKept DEF WorkerInv, WorkerTypes
<1>1. CASE ProjectsRow(h)
  <2> DEFINE c == completions'[handoffs[h].tuple.lineage.episode]
             j == handoffs[h].tuple.job
  <2>1. /\ HasReceipt(handoffs[h].tuple, c)
        /\ handoffs'[h] = [handoffs[h] EXCEPT !.state = "terminal", !.reservation = "reserved",
                             !.receipt = c]
        /\ jobs[j].state = "claimed"
        /\ jobs[j].token = h
        /\ jobs' = [jobs EXCEPT ![j].state = c.status]
        /\ handoffs[h].state # "absent"
    BY <1>1 DEF ProjectsRow, UnresolvedHandoffs
  <2>2. handoffs[h] \in HandoffRows /\ j \in Jobs
    BY <2>1, UnresolvedRow
  <2> HIDE DEF c
  <2>3. handoffs'[h].tuple = handoffs[h].tuple /\ handoffs'[h].receipt = c
    BY <2>1, <2>2
  <2> HIDE DEF j
  <2>4. jobs[j] \in JobRows
    BY <1>0, <2>1, <2>2
  <2>5. jobs'[j].state = c.status /\ jobs'[j].token = h
    BY <1>0, <2>1, <2>2, <2>4
  <2>6. QED
    BY <2>1, <2>3, <2>5 DEF c, j
<1>2. CASE ~ProjectsRow(h)
  <2>1. \/ handoffs'[h] = handoffs[h]
        \/ AcknowledgesRow(h)
    <3>1. \/ handoffs'[h] = handoffs[h]
          \/ handoffs[h].state = "terminal" /\ handoffs'[h].state = "acknowledged"
      BY <1>0, <1>2, RowStates
    <3>2. RowMove(h) /\ ~AdmitsRow(h)
      BY <1>0, <1>2, RowMoves, RowStates
    <3>3. QED
      BY <1>2, <3>1, <3>2 DEF RowMove, QuarantinesRow, StartsRow
  <2>2. handoffs'[h].tuple = handoffs[h].tuple /\ handoffs'[h].receipt = handoffs[h].receipt
    BY <1>0, <2>1 DEF AcknowledgesRow
  <2> DEFINE c == handoffs[h].receipt
             j == handoffs[h].tuple.job
             e == handoffs[h].tuple.lineage.episode
  <2>3. /\ completions[e] = c
        /\ HasReceipt(handoffs[h].tuple, c)
        /\ jobs[j].state = c.status
        /\ jobs[j].token = h
        /\ c # NoCompletion
    BY <2>2 DEF WorkerInv, ReceiptAnchored
  <2>4. handoffs[h].state # "absent"
    BY <1>0, <2>1 DEF AcknowledgesRow
  <2>5. j \in Jobs /\ e \in Episodes
    BY <2>4, UnresolvedRow
  <2>6. completions'[e] = completions[e]
    <3>1. IInv /\ [Next]_vars
      BY StoreStep DEF WorkerInv
    <3>2. completions[e] # NoCompletion
      BY <2>3
    <3> HIDE DEF e
    <3>3. QED
      BY <2>5, <3>1, <3>2, CompletionKept
  <2>7. c.status \in {"completed", "failed"}
    BY <2>3 DEF HasReceipt
  <2> HIDE DEF c, j
  <2>8. jobs'[j] = jobs[j]
    <3>1. JobMove(j)
      BY <2>5, JobMoves
    <3>2. jobs[j].state \notin {"admitted", "claimed"} /\ jobs[j].token # None
      BY <2>3, <2>7
    <3>3. ASSUME NEW g \in Handoffs, ProjectsRow(g), j = handoffs[g].tuple.job
          PROVE  FALSE
      BY <3>2, <3>3 DEF ProjectsRow
    <3>4. QED
      BY <3>1, <3>2, <3>3 DEF JobMove
  <2>9. QED
    BY <2>2, <2>3, <2>6, <2>8 DEF c, j
<1>3. QED
  BY <1>1, <1>2

\* The authority is current from the start of a reservation to its end, unless the
\* execution is cancelled.
LEMMA FenceStep == WorkerInv /\ [WorkerNext]_allVars => StartedFence' /\ AuthorityFence'
<1> USE WorkerAssumption
<1> SUFFICES ASSUME WorkerInv, [WorkerNext]_allVars PROVE StartedFence' /\ AuthorityFence'
  OBVIOUS
<1>0. runtime \in RuntimeRecords /\ StartedFence /\ AuthorityFence
  BY DEF WorkerInv, WorkerTypes
<1>1. CASE Crash
  <2>1. runtime'.phase = "down" /\ runtime'.task = "none"
    BY <1>1 DEF Crash, Down
  <2>2. QED
    BY <2>1 DEF StartedFence, AuthorityFence
<1>2. ASSUME NEW worker, NEW watchdog, StartWorkerBoot(worker, watchdog)
      PROVE  StartedFence' /\ AuthorityFence'
  <2>1. runtime'.phase = "serving" /\ runtime'.task = "none"
    BY <1>2 DEF StartWorkerBoot, Down
  <2>2. QED
    BY <2>1 DEF StartedFence, AuthorityFence
<1>3. ASSUME NEW mode, NEW sequence, SetControlMode(mode, sequence)
      PROVE  StartedFence' /\ AuthorityFence'
  <2>1. /\ runtime.phase = "serving"
        /\ handoffs' = handoffs
        /\ runtime' = [runtime EXCEPT !.cancelled =
             runtime.cancelled \/ /\ runtime.task # "none"
                                  /\ ~Authorises(control', handoffs[runtime.lane].authority)]
    BY <1>3 DEF SetControlMode, CancelChangedExecution
  <2> DEFINE a == Authorises(control', handoffs[runtime.lane].authority)
  <2>2. /\ runtime'.phase = "serving"
        /\ runtime'.task = runtime.task
        /\ runtime'.lane = runtime.lane
        /\ runtime'.cancelled = (runtime.cancelled \/ (runtime.task # "none" /\ ~a))
    BY <1>0, <2>1 DEF RuntimeRecords
  <2>3. ASSUME runtime'.task = "running", ~runtime'.cancelled
        PROVE  Authorises(control', handoffs'[runtime'.lane].authority)
    BY <2>1, <2>2, <2>3
  <2>4. QED
    BY <2>2, <2>3 DEF StartedFence, AuthorityFence
<1>4. ASSUME KeepsMemory, UNCHANGED control
      PROVE  StartedFence' /\ AuthorityFence'
  <2>1. ASSUME runtime'.lane = runtime.lane, runtime.lane # None,
               Authorises(control, handoffs[runtime.lane].authority)
        PROVE  Authorises(control', handoffs'[runtime'.lane].authority)
    <3>1. runtime.lane \in Handoffs /\ handoffs[runtime.lane].state # "absent"
      BY <1>0, <2>1 DEF WorkerInv, EndpointSound, RuntimeRecords
    <3>2. handoffs'[runtime.lane].authority = handoffs[runtime.lane].authority
      BY <3>1, RowKept
    <3>3. QED
      BY <1>4, <2>1, <3>2
  <2>2. ASSUME runtime'.phase = "started"
        PROVE  Authorises(control', handoffs'[runtime'.lane].authority)
    <3>1. CASE runtime.phase = "started" /\ runtime'.lane = runtime.lane
      BY <1>0, <2>1, <3>1 DEF StartedFence, WorkerInv, EndpointSound
    <3>2. CASE StartReservation /\ runtime'.lane = runtime.lane
      <4>1. /\ runtime.permit # None
            /\ handoffs[runtime.permit].state = "admitted"
            /\ Authorises(control, handoffs[runtime.permit].authority)
        BY <3>2 DEF StartReservation, CanStart
      <4>2. runtime.lane = runtime.permit
        BY <4>1 DEF WorkerInv, EndpointSound
      <4>3. QED
        BY <2>1, <3>2, <4>1, <4>2
    <3>3. QED
      BY <1>4, <2>2, <3>1, <3>2 DEF KeepsMemory
  <2>3. ASSUME runtime'.task = "running", ~runtime'.cancelled
        PROVE  Authorises(control', handoffs'[runtime'.lane].authority)
    <3>1. CASE TakeExecution
      <4>1. /\ runtime.phase = "started"
            /\ handoffs' = handoffs
            /\ runtime' = [runtime EXCEPT !.phase = "serving", !.taken = TRUE,
                             !.cancelled = FALSE, !.task = "running"]
        BY <3>1 DEF TakeExecution
      <4>2. runtime'.lane = runtime.lane
        BY <1>0, <4>1 DEF RuntimeRecords
      <4>3. QED
        BY <1>0, <1>4, <4>1, <4>2 DEF StartedFence
    <3>2. CASE /\ runtime.task = "running"
               /\ runtime.cancelled => runtime'.cancelled
               /\ runtime'.lane = runtime.lane
      BY <1>0, <2>1, <2>3, <3>2 DEF AuthorityFence, WorkerInv, EndpointSound
    <3>3. QED
      BY <1>4, <2>3, <3>1, <3>2 DEF KeepsMemory
  <2>4. QED
    BY <2>2, <2>3 DEF StartedFence, AuthorityFence
<1>5. QED
  BY <1>1, <1>2, <1>3, <1>4, MemoryMoves, ControlMoves

\* Every unresolved handoff this process admitted stays in its lane.
LEMMA LaneStep == WorkerInv /\ [WorkerNext]_allVars => LaneHeld'
<1> USE WorkerAssumption
<1> SUFFICES ASSUME WorkerInv, [WorkerNext]_allVars, runtime'.phase # "down",
                    NEW h \in Handoffs,
                    handoffs'[h].state \in {"admitted", "running", "unknown"},
                    handoffs'[h].authority.worker = runtime'.boot
             PROVE  runtime'.lane = h
  BY DEF LaneHeld
<1>0. runtime \in RuntimeRecords /\ EndpointSound
  BY DEF WorkerInv, WorkerTypes
<1>1. CASE AdmitsRow(h)
  <2>1. h = runtime.request.handoff /\ AdmitWorkerHandoff
    BY <1>1 DEF AdmitsRow
  <2>2. runtime' = [runtime EXCEPT !.phase = "serving", !.request = NoRequest,
                      !.permit = h, !.lane = h]
    BY <2>1 DEF AdmitWorkerHandoff
  <2> HIDE DEF NoRequest
  <2>3. QED
    BY <1>0, <2>2 DEF RuntimeRecords
<1>2. CASE ~AdmitsRow(h)
  <2>1. handoffs[h].state \in UnresolvedHandoffs
    BY <1>2, RowStates DEF UnresolvedHandoffs
  <2>2. handoffs[h].authority.worker = runtime'.boot
    BY <2>1, RowKept DEF UnresolvedHandoffs
  <2>3. handoffs[h].authority.worker \in boots
    BY <2>1 DEF WorkerInv, AuthoritiesPast, UnresolvedHandoffs
  <2>4. KeepsMemory
    <3>1. Crash => runtime'.phase = "down"
      BY DEF Crash, Down
    <3>2. ASSUME NEW worker, NEW watchdog, StartWorkerBoot(worker, watchdog)
          PROVE  runtime'.boot = worker /\ worker \notin boots
      BY <3>2 DEF StartWorkerBoot, Down
    <3>3. QED
      BY <2>2, <2>3, <3>1, <3>2, MemoryMoves
  <2>5. runtime.lane = h
    BY <2>1, <2>2, <2>4 DEF KeepsMemory, WorkerInv, LaneHeld, UnresolvedHandoffs
  <2>6. ~AdmitWorkerHandoff
    <3>1. AdmitWorkerHandoff => runtime.phase = "admit"
      BY DEF AdmitWorkerHandoff
    <3>2. QED
      BY <1>0, <2>5, <3>1 DEF EndpointSound
  <2>7. QED
    BY <2>4, <2>5, <2>6 DEF KeepsMemory
<1>3. QED
  BY <1>1, <1>2

-----------------------------------------------------------------------------
(* The theorems.                                                           *)

\* Every step of the worker, of its child or of a crash preserves the invariant.
LEMMA WorkerStep == WorkerInv /\ [WorkerNext]_allVars => WorkerInv'
<1> SUFFICES ASSUME WorkerInv, [WorkerNext]_allVars PROVE WorkerInv'
  OBVIOUS
<1>1. IInv'
  BY StoreStep, StepPreserves DEF WorkerInv
<1>2. HandoffsReadable'
  BY RowKept DEF HandoffsReadable
<1>3. ControlSound'
  BY ControlKept
<1>4. QED
  BY <1>1, <1>2, <1>3, TypesStep, EndpointStep, AuthoritiesStep, TuplesStep, SpawnedStep,
     ClaimStep, ReceiptStepSound, FenceStep, LaneStep DEF WorkerInv

\* A worker that has never booted satisfies the invariant.
LEMMA WorkerStart == WorkerInit => WorkerInv
<1> USE ConstantsAssumption, WorkerAssumption
<1> SUFFICES ASSUME WorkerInit PROVE WorkerInv
  OBVIOUS
<1>1. IInv
  BY DEF WorkerInit, Init, IInv, TypeOK, CurrentAttemptAgrees, ProviderLockstep,
     PendingIsCurrent, TerminalEpisodeQuiescent, CompletionAnchored, UnresolvedOperation,
     UnresolvedDecision, UnresolvedReservation, NoEpisode, NoAttempt, NoOperation, NoDecision,
     NoReservation, UnresolvedOperationStates, UnresolvedDecisionStates,
     UnresolvedReservationStates
<1>2. WorkerTypes
  <2>1. control \in ControlRows
    BY DEF WorkerInit, NoControl, ControlRows
  <2>2. runtime \in RuntimeRecords
    BY DEF WorkerInit, Down, RuntimeRecords
  <2>3. QED
    BY <2>1, <2>2 DEF WorkerInit, WorkerTypes
<1>3. ControlSound
  <2>1. control.admitting = FALSE /\ control.authenticated = FALSE /\ control.watchdog = None
        /\ control.generation = 0 /\ boots = {}
    BY DEF WorkerInit, NoControl
  <2>2. QED
    BY <2>1, FS_EmptySet DEF ControlSound
<1>4. \A h \in Handoffs : /\ handoffs[h] = NoHandoff
                          /\ handoffs[h].state = "absent"
                          /\ handoffs[h].reservation = "reserved"
                          /\ handoffs[h].receipt = NoCompletion
                          /\ children[h] = "none"
                          /\ spawned[h] = 0
  BY DEF WorkerInit
<1>5. /\ runtime.phase = "down" /\ runtime.lane = None /\ runtime.permit = None
      /\ runtime.task = "none"
  BY DEF WorkerInit, Down
<1>6. EndpointSound /\ HandoffsReadable /\ AuthoritiesPast /\ TuplesDistinct /\ SpawnedOnce
  BY <1>4, <1>5 DEF EndpointSound, HandoffsReadable, AuthoritiesPast, TuplesDistinct,
     SpawnedOnce
<1>7. ClaimRetained /\ ReceiptAnchored /\ StartedFence /\ AuthorityFence /\ LaneHeld
  BY <1>4, <1>5 DEF ClaimRetained, ReceiptAnchored, StartedFence, AuthorityFence, LaneHeld
<1>8. QED
  BY <1>1, <1>2, <1>3, <1>6, <1>7 DEF WorkerInv

\* The inductive invariant holds in every state of the worker, its child and the store.
THEOREM WorkerInvariant == WorkerSpec => []WorkerInv
BY WorkerStart, WorkerStep, PTL DEF WorkerSpec

\* The worker implements the execution store: every command, every step of the
\* execution thread and of the child, and every crash is a step of the store's own
\* mutators or leaves the episode tables alone, so what is proved of the store holds
\* of the worker's copy of record_completion too.
THEOREM WorkerImplementsStore == WorkerSpec => ImplementsStore
<1>1. WorkerInit => Init
  BY DEF WorkerInit
<1>2. QED
  BY <1>1, StoreStep, WorkerInvariant, PTL DEF WorkerSpec, Spec, ImplementsStore

\* "It never makes a later lookup eligible to start a replacement execution": at most
\* one child is ever started per handoff, per job, per episode and per attempt.
THEOREM ExecutedOnce == WorkerSpec => []OneExecution
<1>1. WorkerInv => OneExecution
  <2> SUFFICES ASSUME WorkerInv PROVE OneExecution
    OBVIOUS
  <2>1. \A h \in Handoffs : spawned[h] = 1 => Exists(handoffs[h])
    BY DEF WorkerInv, SpawnedOnce
  <2>2. QED
    BY <2>1 DEF WorkerInv, SpawnedOnce, TuplesDistinct, OneExecution
<1>2. QED
  BY <1>1, WorkerInvariant, PTL

\* Until a terminal receipt is durable, a handoff keeps the claim on its job and the
\* capacity-one lane of the process that admitted it.
THEOREM HeldUntilReceiptAlways == WorkerSpec => []HeldUntilReceipt
<1>1. WorkerInv => HeldUntilReceipt
  BY DEF WorkerInv, HeldUntilReceipt
<1>2. QED
  BY <1>1, WorkerInvariant, PTL

\* An execution nobody cancelled runs under the authority its handoff was admitted with.
THEOREM AuthorityFenced == WorkerSpec => []AuthorityFence
<1>1. WorkerInv => AuthorityFence
  BY DEF WorkerInv
<1>2. QED
  BY <1>1, WorkerInvariant, PTL

\* read_control, read_handoff and acknowledge_worker_handoff never meet a row they
\* would report as corrupt, and a receipt is the completion of its episode.
THEOREM HandoffRowsStaySound == WorkerSpec => []HandoffRowsSound
<1>1. WorkerInv => HandoffRowsSound
  <2> SUFFICES ASSUME WorkerInv PROVE HandoffRowsSound
    OBVIOUS
  <2>1. WorkerTypeOK
    BY DEF WorkerInv, IInv, WorkerTypes, WorkerTypeOK, ControlRows, RuntimeRecords
  <2>2. RowsReadable
    BY DEF WorkerInv, ControlSound, HandoffsReadable, RowsReadable
  <2>3. QED
    BY <2>1, <2>2 DEF WorkerInv, HandoffRowsSound
<1>2. QED
  BY <1>1, WorkerInvariant, PTL

\* Nothing comes back: a handoff only moves forward and keeps its tuple, its authority
\* and its receipt, a settled job stays settled, and an authority that lapsed never
\* becomes current again, whatever boots, sequences and watchdogs follow.
THEOREM NothingComesBack == WorkerSpec => NeverBack
<1> DEFINE Forward ==
      /\ \A h \in Handoffs : Exists(handoffs[h]) =>
           /\ HandoffRank(handoffs[h].state) <= HandoffRank(handoffs'[h].state)
           /\ handoffs'[h].tuple = handoffs[h].tuple
           /\ handoffs'[h].authority = handoffs[h].authority
           /\ handoffs[h].receipt # NoCompletion => handoffs'[h].receipt = handoffs[h].receipt
      /\ \A j \in Jobs : jobs[j].state \in {"completed", "failed"} => jobs'[j] = jobs[j]
    Lapsed ==
      \A h \in Handoffs :
        Exists(handoffs[h]) /\ ~Authorises(control, handoffs[h].authority) =>
          ~Authorises(control', handoffs'[h].authority)
<1>1. WorkerInv /\ [WorkerNext]_allVars => Forward
  <2> SUFFICES ASSUME WorkerInv, [WorkerNext]_allVars PROVE Forward
    OBVIOUS
  <2>1. ASSUME NEW h \in Handoffs, Exists(handoffs[h])
        PROVE  /\ HandoffRank(handoffs[h].state) <= HandoffRank(handoffs'[h].state)
               /\ handoffs'[h].tuple = handoffs[h].tuple
               /\ handoffs'[h].authority = handoffs[h].authority
               /\ handoffs[h].receipt # NoCompletion =>
                    handoffs'[h].receipt = handoffs[h].receipt
    <3>1. handoffs[h] \in HandoffRows
      BY <2>1, UnresolvedRow
    <3>2. HandoffRank(handoffs[h].state) <= HandoffRank(handoffs'[h].state)
      BY <2>1, <3>1, RowStates DEF HandoffRank, UnresolvedHandoffs
    <3>3. handoffs[h].receipt # NoCompletion => handoffs[h].state \in {"terminal", "acknowledged"}
      BY DEF WorkerInv, HandoffsReadable
    <3>4. handoffs[h].receipt # NoCompletion =>
            handoffs'[h] = handoffs[h] \/ AcknowledgesRow(h)
      <4>1. RowMove(h)
        BY RowMoves
      <4>2. QED
        BY <2>1, <3>3, <4>1 DEF RowMove, AdmitsRow, QuarantinesRow, StartsRow, ProjectsRow,
           UnresolvedHandoffs
    <3>5. AcknowledgesRow(h) => handoffs'[h].receipt = handoffs[h].receipt
      BY <3>1 DEF AcknowledgesRow
    <3>6. QED
      BY <2>1, <3>2, <3>4, <3>5, RowKept
  <2>2. ASSUME NEW j \in Jobs, jobs[j].state \in {"completed", "failed"}
        PROVE  jobs'[j] = jobs[j]
    <3>1. JobMove(j)
      BY JobMoves
    <3>2. ASSUME NEW g \in Handoffs, ProjectsRow(g), j = handoffs[g].tuple.job
          PROVE  FALSE
      BY <2>2, <3>2 DEF ProjectsRow
    <3>3. QED
      BY <2>2, <3>1, <3>2 DEF JobMove
  <2>3. QED
    BY <2>1, <2>2
<1>2. WorkerInv /\ [WorkerNext]_allVars => Lapsed
  <2> SUFFICES ASSUME WorkerInv, [WorkerNext]_allVars, NEW h \in Handoffs, Exists(handoffs[h]),
                      Authorises(control', handoffs'[h].authority)
               PROVE  Authorises(control, handoffs[h].authority)
    OBVIOUS
  <2> DEFINE a == handoffs[h].authority
  <2>0. /\ handoffs'[h].authority = a
        /\ a.watchdog \in boots
        /\ a.watchdog = control.watchdog => a.sequence <= control.sequence
        /\ control \in ControlRows
        /\ a \in Authorities
    BY RowKept, UnresolvedRow DEF WorkerInv, AuthoritiesPast, WorkerTypes
  <2> HIDE DEF a
  <2>1. CASE UNCHANGED control
    BY <2>0, <2>1 DEF a
  <2>2. ASSUME NEW worker, NEW watchdog, StartWorkerBoot(worker, watchdog)
        PROVE  FALSE
    <3>1. control' = [control EXCEPT !.worker = worker, !.mode = "stopped",
                        !.generation = control.generation + 1, !.authenticated = FALSE,
                        !.admitting = FALSE]
      BY <2>2 DEF StartWorkerBoot
    <3>2. control'.mode = "stopped"
      BY <2>0, <3>1 DEF ControlRows
    <3>3. QED
      BY <3>2 DEF Authorises
  <2>3. ASSUME NEW mode \in Modes, NEW sequence \in 1..MaxModeSequence,
               SetControlMode(mode, sequence)
        PROVE  FALSE
    <3>1. /\ IF control.watchdog = runtime.watchdog THEN sequence > control.sequence
                                                    ELSE runtime.watchdog \notin boots
          /\ control'.watchdog = runtime.watchdog
          /\ control'.sequence = sequence
      BY <2>0, <2>3 DEF SetControlMode, NextControl, ControlRows
    <3>2. a.watchdog = runtime.watchdog /\ a.sequence = sequence
      BY <2>0, <3>1 DEF Authorises
    <3>3. control.watchdog = runtime.watchdog /\ sequence > control.sequence
      BY <2>0, <3>1, <3>2
    <3>4. control.sequence \in Nat /\ sequence \in Nat
      BY <2>0, WorkerAssumption DEF ControlRows
    <3>5. QED
      BY <2>0, <3>2, <3>3, <3>4
  <2>4. QED
    BY <2>1, <2>2, <2>3, ControlMoves
<1> HIDE DEF Forward, Lapsed
<1>3. WorkerSpec => [][Forward]_allVars /\ [][Lapsed]_allVars
  <2>1. WorkerInv /\ [WorkerNext]_allVars => [Forward]_allVars
    BY <1>1
  <2>2. WorkerInv /\ [WorkerNext]_allVars => [Lapsed]_allVars
    BY <1>2
  <2>3. QED
    BY <2>1, <2>2, WorkerInvariant, PTL DEF WorkerSpec
<1>4. QED
  BY <1>3 DEF Forward, Lapsed, NeverBack, HandoffForward, LapsedForever

\* All that is proved of the store holds of the tables a worker and its child write: the rows
\* agree, what awaits an outcome is anchored, and a reconstruction is faithful.
THEOREM WorkerKeepsStore ==
    WorkerSpec => [](RowsAgree /\ PendingAnchored /\ ReconstructionFaithful)
BY WorkerImplementsStore, TablesAgree, PendingStaysAnchored, ReconstructionsFaithful, PTL
   DEF ImplementsStore

=============================================================================
