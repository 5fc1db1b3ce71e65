---------------------------- MODULE WorkerHandoff ----------------------------
(***************************************************************************)
(* The worker endpoint on top of the execution store: a watchdog hands a   *)
(* job to a worker process, the worker admits it durably, answers, starts  *)
(* one runtime child for it and reports its terminal receipt.              *)
(*                                                                         *)
(* Three actors share the store: the endpoint's command loop, the thread   *)
(* that owns the execution of the admitted handoff, and the runtime child, *)
(* a process of its own.  The endpoint may crash or exit between any two   *)
(* transactions; its memory (runtime) is lost, the tables and, possibly,   *)
(* the child survive.  Every error of a command handler ends the loop of   *)
(* the endpoint, so a handler that meets one is followed by Crash.         *)
(*                                                                         *)
(* Commands are those of an authenticated peer of the one deployment,      *)
(* owner and profile the endpoint is configured for; attempt numbers,      *)
(* which only ever travel with the attempt id, are left out.               *)
(***************************************************************************)
EXTENDS ExecutionStore

CONSTANTS Jobs, Handoffs,
          Tokens,              \* claim tokens that are not handoff ids
          Boots,               \* boot ids of workers and of watchdogs
          Modes,               \* control modes, "running" among them
          MaxModeSequence,     \* mode sequences are 1..MaxModeSequence
          MaxJobs,             \* MAX_JOBS (4096 in the code)
          ApprovedFingerprint  \* the fingerprint the endpoint is pinned to

ASSUME WorkerAssumption ==
  /\ "running" \in Modes /\ "stopped" \in Modes
  /\ MaxModeSequence \in Nat \ {0}
  /\ MaxJobs \in Nat
  /\ ApprovedFingerprint \in Fingerprints
  /\ None \notin Jobs \union Handoffs \union Tokens \union Boots
  /\ Handoffs \intersect Tokens = {}

VARIABLES jobs,      \* job -> row
          handoffs,  \* handoff -> row
          control,   \* the single row of worker_control
          boots,     \* worker_control_boots: every boot id ever recorded
          runtime,   \* memory of the endpoint process
          children,  \* handoff -> its runtime child process
          spawned    \* history: handoff -> children started for it

workerVars == <<jobs, handoffs, control, boots, runtime, children, spawned>>
allVars == <<vars, workerVars>>

-----------------------------------------------------------------------------
Tuples == [job: Jobs, lineage: Lineages, payload: Payloads]
NoTuple == [job |-> None, lineage |-> NoLineage, payload |-> None]
NoAuthority == [worker |-> None, watchdog |-> None, sequence |-> 0]
NoJob == [episode |-> None, payload |-> None, state |-> "absent", token |-> None]
NoHandoff == [tuple |-> NoTuple, authority |-> NoAuthority, state |-> "absent",
              reservation |-> "reserved", receipt |-> NoCompletion]
NoControl == [worker |-> None, watchdog |-> None, mode |-> "stopped", sequence |-> 0,
              generation |-> 0, authenticated |-> FALSE, admitting |-> FALSE]
NoRequest == [handoff |-> None, tuple |-> NoTuple]

\* The endpoint process: where its command loop is, the watchdog it was booted
\* by, the capacity-one lane with its task, and the admission gate.
Down == [phase |-> "down", boot |-> None, watchdog |-> None, request |-> NoRequest,
         permit |-> None, lane |-> None, taken |-> FALSE, cancelled |-> FALSE,
         task |-> "none", gate |-> "open"]

WorkerInit ==
  /\ Init
  /\ jobs = [j \in Jobs |-> NoJob]
  /\ handoffs = [h \in Handoffs |-> NoHandoff]
  /\ control = NoControl
  /\ boots = {}
  /\ runtime = Down
  /\ children = [h \in Handoffs |-> "none"]
  /\ spawned = [h \in Handoffs |-> 0]

-----------------------------------------------------------------------------
(* Jobs.                                                                   *)

\* claim_job_with_token: an admitted job is claimed for a token.
ClaimJob(j, token) ==
  /\ jobs[j].state = "admitted"
  /\ jobs' = [jobs EXCEPT ![j].state = "claimed", ![j].token = token]
  /\ UNCHANGED <<vars, handoffs, control, boots, runtime, children, spawned>>

\* complete_job and fail_job: the claim token fences a late worker.
SettleJob(j, token, state) ==
  /\ jobs[j].state = "claimed"
  /\ jobs[j].token = token
  /\ jobs' = [jobs EXCEPT ![j].state = state]
  /\ UNCHANGED <<vars, handoffs, control, boots, runtime, children, spawned>>

CompleteJob(j, token) == SettleJob(j, token, "completed")
FailJob(j, token)     == SettleJob(j, token, "failed")

-----------------------------------------------------------------------------
(* Boots and control.                                                      *)

\* A process boots: start_worker_boot with a fresh boot id, everything stopped.
StartWorkerBoot(worker, watchdog) ==
  /\ runtime.phase = "down"
  /\ worker # watchdog
  /\ worker \notin boots
  /\ control' = [control EXCEPT !.worker = worker, !.mode = "stopped",
                   !.generation = @ + 1, !.authenticated = FALSE, !.admitting = FALSE]
  /\ boots' = boots \union {worker}
  /\ runtime' = [Down EXCEPT !.phase = "serving", !.boot = worker, !.watchdog = watchdog]
  /\ UNCHANGED <<vars, jobs, handoffs, children, spawned>>

\* ensure_dispatch_authority: the control row is exactly this authority and admits.
Authorises(row, authority) ==
  /\ row.worker = authority.worker
  /\ row.watchdog = authority.watchdog
  /\ row.sequence = authority.sequence
  /\ row.mode = "running"
  /\ row.authenticated
  /\ row.admitting

\* The authority a command of the current watchdog claims.
PresentedAuthority ==
  [worker |-> runtime.boot, watchdog |-> runtime.watchdog, sequence |-> control.sequence]

\* Fault: a stale sequence is accepted from the same watchdog.
NextControlStale(watchdog, mode, sequence) ==
  /\ control.watchdog # watchdog => watchdog \notin boots
  /\ boots' = boots \union {watchdog}
  /\ control' = [control EXCEPT !.watchdog = watchdog, !.mode = mode, !.sequence = sequence,
                   !.generation = IF control.watchdog = watchdog THEN @ ELSE @ + 1,
                   !.authenticated = TRUE, !.admitting = mode = "running"]

\* set_worker_control_mode: a known watchdog needs a higher sequence, a new
\* one a boot id nobody has used.
NextControl(watchdog, mode, sequence) ==
  /\ IF control.watchdog = watchdog THEN sequence > control.sequence
                                    ELSE watchdog \notin boots
  /\ boots' = boots \union {watchdog}
  /\ control' = [control EXCEPT !.watchdog = watchdog, !.mode = mode, !.sequence = sequence,
                   !.generation = IF control.watchdog = watchdog THEN @ ELSE @ + 1,
                   !.authenticated = TRUE, !.admitting = mode = "running"]

\* cancel_changed_execution, under the lease that changed the control.
CancelChangedExecution ==
  runtime' = [runtime EXCEPT !.cancelled =
                @ \/ /\ runtime.task # "none"
                     /\ ~Authorises(control', handoffs[runtime.lane].authority)]

SetControlMode(mode, sequence) ==
  /\ runtime.phase = "serving"
  /\ mode = "running" => runtime.gate = "open"
  /\ control.worker = runtime.boot
  /\ NextControl(runtime.watchdog, mode, sequence)
  /\ CancelChangedExecution
  /\ UNCHANGED <<vars, jobs, handoffs, children, spawned>>

-----------------------------------------------------------------------------
(* Dispatch: three transactions, then the answer, then the start.          *)

\* start_episode of prepare_dispatch, for the approved fingerprint.
DispatchEpisode(h, t) ==
  /\ runtime.phase = "serving"
  /\ runtime.lane = None
  /\ runtime.gate = "open"
  /\ Authorises(control, PresentedAuthority)
  /\ handoffs[h].state = "absent"
  /\ \/ StartNewEpisode(t.lineage, ApprovedFingerprint)
     \/ StartKnownEpisode(t.lineage, ApprovedFingerprint)
  /\ runtime' = [runtime EXCEPT !.phase = "job",
                   !.request = [handoff |-> h, tuple |-> t]]
  /\ UNCHANGED <<jobs, handoffs, control, boots, children, spawned>>

ApprovedEpisode(l) ==
  /\ CurrentLineage(l)
  /\ attempts[l.attempt].fingerprint = ApprovedFingerprint

AdmittedJob(t) == [episode |-> t.lineage.episode, payload |-> t.payload,
                   state |-> "admitted", token |-> None]

\* admit_job of prepare_dispatch, then validate_existing_records.
DispatchJob ==
  LET t == runtime.request.tuple IN
  /\ runtime.phase = "job"
  /\ \/ jobs[t.job] = AdmittedJob(t)
     \/ /\ jobs[t.job] = NoJob
        /\ Cardinality({j \in Jobs : Exists(jobs[j])}) < MaxJobs
  /\ ApprovedEpisode(t.lineage)
  /\ jobs' = [jobs EXCEPT ![t.job] = AdmittedJob(t)]
  /\ runtime' = [runtime EXCEPT !.phase = "admit"]
  /\ UNCHANGED <<vars, handoffs, control, boots, children, spawned>>

\* No handoff names the job, the attempt or the episode of the tuple.
Unclaimed(t) ==
  \A h \in Handoffs : Exists(handoffs[h]) =>
    /\ handoffs[h].tuple.job # t.job
    /\ handoffs[h].tuple.lineage.attempt # t.lineage.attempt
    /\ handoffs[h].tuple.lineage.episode # t.lineage.episode

\* Fault: only the handoff id is looked up.
AdmitOverOther ==
  LET h == runtime.request.handoff
      t == runtime.request.tuple IN
  /\ runtime.phase = "admit"
  /\ Authorises(control, PresentedAuthority)
  /\ jobs[t.job] = AdmittedJob(t)
  /\ CurrentLineage(t.lineage)
  /\ jobs' = [jobs EXCEPT ![t.job].state = "claimed", ![t.job].token = h]
  /\ handoffs' = [handoffs EXCEPT ![h] =
       [NoHandoff EXCEPT !.tuple = t, !.authority = PresentedAuthority, !.state = "admitted"]]
  /\ runtime' = [runtime EXCEPT !.phase = "serving", !.request = NoRequest,
                   !.permit = h, !.lane = h]
  /\ UNCHANGED <<vars, control, boots, children, spawned>>

\* admit_worker_handoff: the row, the claim and the permit; the lane is occupied.
AdmitWorkerHandoff ==
  LET h == runtime.request.handoff
      t == runtime.request.tuple IN
  /\ runtime.phase = "admit"
  /\ handoffs[h].state = "absent"
  /\ Unclaimed(t)
  /\ Authorises(control, PresentedAuthority)
  /\ jobs[t.job] = AdmittedJob(t)
  /\ CurrentLineage(t.lineage)
  /\ jobs' = [jobs EXCEPT ![t.job].state = "claimed", ![t.job].token = h]
  /\ handoffs' = [handoffs EXCEPT ![h] =
       [NoHandoff EXCEPT !.tuple = t, !.authority = PresentedAuthority, !.state = "admitted"]]
  /\ runtime' = [runtime EXCEPT !.phase = "serving", !.request = NoRequest,
                   !.permit = h, !.lane = h]
  /\ UNCHANGED <<vars, control, boots, children, spawned>>

\* mark_worker_handoff_unknown: a row without a terminal receipt becomes unknown.
MarkUnknown(rows, h) ==
  IF rows[h].state \in {"admitted", "running"}
  THEN [rows EXCEPT ![h].state = "unknown", ![h].reservation = "unknown"]
  ELSE rows

\* finish_reservation when the answer could not be written: the permit is
\* dropped, the gate latches and the handoff is retained as unknown.
ResponseFailed ==
  /\ runtime.phase = "serving"
  /\ runtime.permit # None
  /\ handoffs' = MarkUnknown(handoffs, runtime.permit)
  /\ runtime' = [runtime EXCEPT !.permit = None, !.gate = "quarantined"]
  /\ UNCHANGED <<vars, jobs, control, boots, children, spawned>>

\* Fault: the control is not read again before the start.
StartAnyway ==
  /\ runtime.phase = "serving"
  /\ runtime.permit # None
  /\ runtime.gate = "open"
  /\ handoffs[runtime.permit].state = "admitted"
  /\ handoffs' = [handoffs EXCEPT ![runtime.permit].state = "running"]
  /\ runtime' = [runtime EXCEPT !.phase = "started", !.permit = None]
  /\ UNCHANGED <<vars, jobs, control, boots, children, spawned>>

CanStart(h) ==
  /\ runtime.gate = "open"
  /\ Authorises(control, handoffs[h].authority)
  /\ handoffs[h].state = "admitted"

\* finish_reservation after a written answer: mark_worker_handoff_running.
StartReservation ==
  /\ runtime.phase = "serving"
  /\ runtime.permit # None
  /\ CanStart(runtime.permit)
  /\ handoffs' = [handoffs EXCEPT ![runtime.permit].state = "running"]
  /\ runtime' = [runtime EXCEPT !.phase = "started", !.permit = None]
  /\ UNCHANGED <<vars, jobs, control, boots, children, spawned>>

\* The start is refused: the permit is spent all the same.
StartRefused ==
  /\ runtime.phase = "serving"
  /\ runtime.permit # None
  /\ ~CanStart(runtime.permit)
  /\ handoffs' = MarkUnknown(handoffs, runtime.permit)
  /\ runtime' = [runtime EXCEPT !.permit = None, !.gate = "quarantined"]
  /\ UNCHANGED <<vars, jobs, control, boots, children, spawned>>

\* take_execution and start_execution, in the handler that started the row: a
\* thread takes the claim, with a fresh signal, and spawns the child.
TakeExecution ==
  LET h == runtime.lane IN
  /\ runtime.phase = "started"
  /\ ~runtime.taken
  /\ runtime.gate = "open"
  /\ handoffs[h].state = "running"
  /\ runtime' = [runtime EXCEPT !.phase = "serving", !.taken = TRUE,
                   !.cancelled = FALSE, !.task = "running"]
  /\ children' = [children EXCEPT ![h] = "alive"]
  /\ spawned' = [spawned EXCEPT ![h] = @ + 1]
  /\ UNCHANGED <<vars, jobs, handoffs, control, boots>>

-----------------------------------------------------------------------------
(* The execution thread: it polls its child and ends with a result.  An    *)
(* error is retained in two steps: the gate latches, then the row is       *)
(* written if the store's mutex is free.                                   *)

\* begin_quarantine
Latched(gate) == IF gate = "open" THEN "pending" ELSE gate

\* The child has exited with success.
TaskSucceeds ==
  /\ runtime.task = "running"
  /\ children[runtime.lane] = "succeeded"
  /\ runtime' = [runtime EXCEPT !.task = "succeeded"]
  /\ UNCHANGED <<vars, jobs, handoffs, control, boots, children, spawned>>

\* The child has exited with an error, or could not be spawned or observed.
TaskFails ==
  /\ runtime.task = "running"
  /\ children[runtime.lane] \in {"failed", "alive"}
  /\ runtime' = [runtime EXCEPT !.task = "failing", !.gate = Latched(@)]
  /\ children' = [children EXCEPT ![runtime.lane] = "failed"]
  /\ UNCHANGED <<vars, jobs, handoffs, control, boots, spawned>>

\* The control cancelled the execution: terminate_child kills the child and
\* waits for it, but not longer than its reap interval.
TaskCancelled ==
  /\ runtime.task = "running"
  /\ runtime.cancelled
  /\ runtime' = [runtime EXCEPT !.task = "failing", !.gate = Latched(@)]
  /\ \/ UNCHANGED children
     \/ /\ children[runtime.lane] = "alive"
        /\ children' = [children EXCEPT ![runtime.lane] = "failed"]
  /\ UNCHANGED <<vars, jobs, handoffs, control, boots, spawned>>

\* retain_unknown of the thread.
TaskRetainsUnknown ==
  /\ runtime.task = "failing"
  /\ handoffs' = MarkUnknown(handoffs, runtime.lane)
  /\ runtime' = [runtime EXCEPT !.task = "failed", !.gate = "quarantined"]
  /\ UNCHANGED <<vars, jobs, control, boots, children, spawned>>

\* The command loop holds the mutex: try_lock gives up, the gate stays latched.
TaskFindsStoreBusy ==
  /\ runtime.task = "failing"
  /\ runtime' = [runtime EXCEPT !.task = "failed"]
  /\ UNCHANGED <<vars, jobs, handoffs, control, boots, children, spawned>>

-----------------------------------------------------------------------------
(* Receipts.                                                               *)

\* worker_terminal_from_completion: only a completion of the tuple's own
\* lineage has a receipt, and a quarantined one has none.
HasReceipt(t, completion) ==
  /\ completion.lineage = t.lineage
  /\ completion.status \in {"completed", "failed"}

\* Fault: the job is left claimed.
ProjectReceiptOnly(h, completion) ==
  /\ handoffs' = [handoffs EXCEPT ![h].state = "terminal", ![h].reservation = "reserved",
                    ![h].receipt = completion]
  /\ UNCHANGED jobs

\* The writes of project_completion.
ProjectReceipt(h, completion) ==
  /\ handoffs' = [handoffs EXCEPT ![h].state = "terminal", ![h].reservation = "reserved",
                    ![h].receipt = completion]
  /\ jobs' = [jobs EXCEPT ![handoffs[h].tuple.job].state = completion.status]

ClaimedBy(h) ==
  jobs[handoffs[h].tuple.job] =
    [episode |-> handoffs[h].tuple.lineage.episode, payload |-> handoffs[h].tuple.payload,
     state |-> "claimed", token |-> h]

\* project_completion of the completion the store holds for the episode.
CanProject(h) ==
  LET t == handoffs[h].tuple  c == completions[t.lineage.episode] IN
  /\ handoffs[h].state \in {"admitted", "running", "unknown"}
  /\ c # NoCompletion
  /\ HasReceipt(t, c)
  /\ episodes[t.lineage.episode] =
       [run |-> t.lineage.run, current |-> t.lineage.attempt, state |-> c.status]
  /\ ClaimedBy(h)

Project(h) == ProjectReceipt(h, completions[handoffs[h].tuple.lineage.episode])

\* lookup_worker_handoff, which projects a completion it finds.
Lookup(h) ==
  /\ runtime.phase = "serving"
  /\ CanProject(h)
  /\ Project(h)
  /\ UNCHANGED <<vars, control, boots, runtime, children, spawned>>

\* Fault: the named checkpoint is not looked up.
CommitWithoutCheckpoint(h, status, sequence, result) ==
  LET l == handoffs[h].tuple.lineage
      c == [lineage |-> l, status |-> status, sequence |-> sequence, result |-> result] IN
  /\ handoffs[h].state \in {"admitted", "running", "unknown"}
  /\ completions[l.episode] = NoCompletion
  /\ CurrentLineage(l)
  /\ ClaimedBy(h)
  /\ NothingPending(l.episode)
  /\ completions' = [completions EXCEPT ![l.episode] = c]
  /\ attempts' = [attempts EXCEPT ![l.attempt].state = status]
  /\ episodes' = [episodes EXCEPT ![l.episode].state = status]
  /\ ProjectReceipt(h, c)
  /\ UNCHANGED <<runs, operations, decisions, reservations, checkpoints,
                 control, boots, runtime, children, spawned>>

\* record_worker_completion without a completion: commit_new_completion, the
\* store's second copy of record_completion, then the projection.
CommitNewCompletion(h, status, sequence, result) ==
  LET l == handoffs[h].tuple.lineage
      c == [lineage |-> l, status |-> status, sequence |-> sequence, result |-> result] IN
  /\ handoffs[h].state \in {"admitted", "running", "unknown"}
  /\ completions[l.episode] = NoCompletion
  /\ CurrentLineage(l)
  /\ ClaimedBy(h)
  /\ checkpoints[<<l.attempt, sequence>>] # None
  /\ NothingPending(l.episode)
  /\ completions' = [completions EXCEPT ![l.episode] = c]
  /\ attempts' = [attempts EXCEPT ![l.attempt].state = status]
  /\ episodes' = [episodes EXCEPT ![l.episode].state = status]
  /\ ProjectReceipt(h, c)
  /\ UNCHANGED <<runs, operations, decisions, reservations, checkpoints,
                 control, boots, runtime, children, spawned>>

\* acknowledge_worker_handoff: the digest in the command is that of the receipt.
Acknowledge(h) ==
  /\ runtime.phase = "serving"
  /\ handoffs[h].state = "terminal"
  /\ completions[handoffs[h].tuple.lineage.episode] = handoffs[h].receipt
  /\ handoffs' = [handoffs EXCEPT ![h].state = "acknowledged"]
  /\ UNCHANGED <<vars, jobs, control, boots, runtime, children, spawned>>

-----------------------------------------------------------------------------
(* Releasing the lane.                                                     *)

Released == [runtime EXCEPT !.lane = None, !.taken = FALSE, !.cancelled = FALSE,
                            !.task = "none"]

\* Fault: the success of the task is taken for a durable completion.
ReleaseOnSuccess ==
  /\ runtime' = Released
  /\ UNCHANGED <<jobs, handoffs>>

\* release_durable_completion: only a terminal receipt frees the lane.
ReleaseDurableCompletion ==
  /\ \/ CanProject(runtime.lane) /\ Project(runtime.lane)
     \/ /\ handoffs[runtime.lane].state \in {"terminal", "acknowledged"}
        /\ UNCHANGED <<jobs, handoffs>>
  /\ runtime' = Released

\* complete_execution of a task that succeeded and whose receipt is durable.
CompleteExecution ==
  /\ runtime.phase = "serving"
  /\ runtime.taken
  /\ runtime.task = "succeeded"
  /\ ReleaseDurableCompletion
  /\ UNCHANGED <<vars, control, boots, children, spawned>>

\* Fault: the thread is trusted to have retained the handoff.
RetainNothing ==
  /\ runtime.phase = "serving"
  /\ runtime.taken
  /\ runtime.task = "failed"
  /\ runtime' = [runtime EXCEPT !.taken = FALSE, !.task = "ended", !.gate = "quarantined"]
  /\ UNCHANGED <<vars, jobs, handoffs, control, boots, children, spawned>>

\* complete_execution otherwise: retain_unknown once more, the lane stays.
RetainExecution ==
  /\ runtime.phase = "serving"
  /\ runtime.taken
  /\ \/ runtime.task = "failed"
     \/ /\ runtime.task = "succeeded"
        /\ ~CanProject(runtime.lane)
        /\ handoffs[runtime.lane].state \notin {"terminal", "acknowledged"}
  /\ handoffs' = MarkUnknown(handoffs, runtime.lane)
  /\ runtime' = [runtime EXCEPT !.taken = FALSE, !.task = "ended", !.gate = "quarantined"]
  /\ UNCHANGED <<vars, jobs, control, boots, children, spawned>>

\* release_completed, once no task owns the lane.
ReleaseCompleted ==
  /\ runtime.phase = "serving"
  /\ runtime.lane # None
  /\ ~runtime.taken
  /\ ReleaseDurableCompletion
  /\ UNCHANGED <<vars, control, boots, children, spawned>>

\* The endpoint crashes or its loop ends; its children may outlive it.
Crash ==
  /\ runtime.phase # "down"
  /\ runtime' = Down
  /\ \/ UNCHANGED children
     \/ children' = [h \in Handoffs |-> IF children[h] = "alive" THEN "failed" ELSE children[h]]
  /\ UNCHANGED <<vars, jobs, handoffs, control, boots, spawned>>

-----------------------------------------------------------------------------
(* The runtime child and the store's own operations.                       *)

\* A checkpoint, the completion or the interruption of the child's episode.
ChildStep(h) ==
  LET l == handoffs[h].tuple.lineage IN
  /\ children[h] = "alive"
  /\ \/ \E s \in SequenceNumbers, b \in Boundaries : SaveCheckpoint(l, s, b, ApprovedFingerprint)
     \/ \E s \in SequenceNumbers, result \in Results : RecordCompletion(l, "completed", s, result)
     \/ MarkInterruptedUnknown(l.episode)
  /\ UNCHANGED workerVars

ChildExits(h, status) ==
  /\ children[h] = "alive"
  /\ children' = [children EXCEPT ![h] = status]
  /\ UNCHANGED <<vars, jobs, handoffs, control, boots, runtime, spawned>>

\* reconstruct_attempt may replace the attempt under a handoff's feet.
Reconstruct(l, new, s, b) ==
  /\ ReconstructAttempt(l, new, s, b, ApprovedFingerprint)
  /\ UNCHANGED workerVars

-----------------------------------------------------------------------------
JobStep ==
  \E j \in Jobs, token \in Tokens \union Handoffs :
    ClaimJob(j, token) \/ CompleteJob(j, token) \/ FailJob(j, token)

DispatchStep ==
  \/ \E h \in Handoffs, t \in Tuples : DispatchEpisode(h, t)
  \/ DispatchJob
  \/ AdmitWorkerHandoff
  \/ ResponseFailed
  \/ StartReservation
  \/ StartRefused
  \/ TakeExecution

TaskStep ==
  \/ TaskSucceeds
  \/ TaskFails
  \/ TaskCancelled
  \/ TaskRetainsUnknown
  \/ TaskFindsStoreBusy

ReceiptStep ==
  \/ \E h \in Handoffs : Lookup(h)
  \/ \E h \in Handoffs : Acknowledge(h)
  \/ \E h \in Handoffs, status \in {"completed", "failed"}, s \in SequenceNumbers,
        result \in Results : CommitNewCompletion(h, status, s, result)

LoopStep ==
  \/ CompleteExecution
  \/ RetainExecution
  \/ ReleaseCompleted

ControlStep ==
  \/ \E worker, watchdog \in Boots : StartWorkerBoot(worker, watchdog)
  \/ \E mode \in Modes, sequence \in 1..MaxModeSequence : SetControlMode(mode, sequence)

ChildrenStep ==
  \/ \E h \in Handoffs : ChildStep(h)
  \/ \E h \in Handoffs, status \in {"succeeded", "failed"} : ChildExits(h, status)
  \/ \E l \in Lineages, new \in Attempts, s \in SequenceNumbers, b \in Boundaries :
        Reconstruct(l, new, s, b)

WorkerNext ==
  \/ JobStep
  \/ ControlStep
  \/ DispatchStep
  \/ TaskStep
  \/ ReceiptStep
  \/ LoopStep
  \/ ChildrenStep
  \/ Crash

WorkerSpec == WorkerInit /\ [][WorkerNext]_allVars

\* What the code schedules without waiting for anybody: the execution thread
\* polls its child, and the command loop reaps the thread.
WorkerFairness ==
  /\ WF_allVars(TaskCancelled)
  /\ WF_allVars(TaskRetainsUnknown \/ TaskFindsStoreBusy)
  /\ WF_allVars(LoopStep)

FairWorkerSpec == WorkerSpec /\ WorkerFairness

-----------------------------------------------------------------------------
(* Properties.                                                             *)

JobRows == [episode: Episodes, payload: Payloads,
            state: {"admitted", "claimed", "completed", "failed"},
            token: Tokens \union Handoffs \union {None}]
Authorities == [worker: Boots, watchdog: Boots, sequence: 1..MaxModeSequence]
HandoffRows == [tuple: Tuples, authority: Authorities,
                state: {"admitted", "running", "unknown", "terminal", "acknowledged"},
                reservation: {"reserved", "unknown"},
                receipt: CompletionRows \union {NoCompletion}]

\* Type invariant of the worker tables and of the endpoint's memory.
WorkerTypeOK ==
  /\ TypeOK
  /\ jobs \in [Jobs -> JobRows \union {NoJob}]
  /\ handoffs \in [Handoffs -> HandoffRows \union {NoHandoff}]
  /\ control \in [worker: Boots \union {None}, watchdog: Boots \union {None}, mode: Modes,
                  sequence: 0..MaxModeSequence, generation: Nat,
                  authenticated: BOOLEAN, admitting: BOOLEAN]
  /\ boots \subseteq Boots
  /\ runtime \in [phase: {"down", "serving", "job", "admit", "started"},
                  boot: Boots \union {None}, watchdog: Boots \union {None},
                  request: [handoff: Handoffs, tuple: Tuples] \union {NoRequest},
                  permit: Handoffs \union {None}, lane: Handoffs \union {None},
                  taken: BOOLEAN, cancelled: BOOLEAN,
                  task: {"none", "running", "succeeded", "failing", "failed", "ended"},
                  gate: {"open", "pending", "quarantined"}]
  /\ children \in [Handoffs -> {"none", "alive", "succeeded", "failed"}]
  /\ spawned \in [Handoffs -> Nat]

\* read_control and read_handoff refuse an inconsistent row as corrupt: no order
\* of admission, quarantine, projection and reboot writes one, and the
\* generation counts the boots that were recorded.
RowsReadable ==
  /\ control.admitting <=> control.authenticated /\ control.mode = "running"
  /\ control.authenticated => control.sequence # 0 /\ control.watchdog # None
  /\ control.generation = Cardinality(boots)
  /\ \A h \in Handoffs :
       /\ handoffs[h].state = "unknown" <=> handoffs[h].reservation = "unknown"
       /\ handoffs[h].state \in {"terminal", "acknowledged"} <=>
            handoffs[h].receipt # NoCompletion

\* "It never makes a later lookup eligible to start a replacement execution"
\* (mark_worker_handoff_unknown): whatever crashes, replays and reconstructions
\* happen, a runtime child is started at most once per handoff, per job, per
\* episode and per attempt.
OneExecution ==
  /\ \A h \in Handoffs : spawned[h] <= 1
  /\ \A g, h \in Handoffs : (g # h /\ spawned[g] = 1 /\ spawned[h] = 1) =>
       /\ handoffs[g].tuple.job # handoffs[h].tuple.job
       /\ handoffs[g].tuple.lineage.episode # handoffs[h].tuple.lineage.episode
       /\ handoffs[g].tuple.lineage.attempt # handoffs[h].tuple.lineage.attempt

\* "It never frees the job": while a handoff has no receipt its job stays
\* claimed with the handoff's own token, whatever became of the process, unless
\* the holder of that token settled the job itself.
ClaimRetained ==
  \A h \in Handoffs : handoffs[h].state \in {"admitted", "running", "unknown"} =>
    /\ jobs[handoffs[h].tuple.job].token = h
    /\ jobs[handoffs[h].tuple.job].state # "admitted"

\* acknowledge_worker_handoff reports Corrupt when the receipt is not the
\* projection of the episode's completion: a receipt always is, and the job
\* ended the way the receipt says.
ReceiptAnchored ==
  \A h \in Handoffs : handoffs[h].receipt # NoCompletion =>
    /\ completions[handoffs[h].tuple.lineage.episode] = handoffs[h].receipt
    /\ HasReceipt(handoffs[h].tuple, handoffs[h].receipt)
    /\ jobs[handoffs[h].tuple.job].state = handoffs[h].receipt.status
    /\ jobs[handoffs[h].tuple.job].token = h

\* An execution that nobody cancelled runs under the very authority its handoff
\* was admitted with: the control may change between the admission, the answer,
\* the start and the end of the child, and each change reaches the execution.
AuthorityFence ==
  runtime.task = "running" /\ ~runtime.cancelled =>
    Authorises(control, handoffs[runtime.lane].authority)

\* "Releases the capacity-one lane only after the same durable handoff has a
\* projected terminal receipt": every unresolved handoff this process admitted
\* occupies its lane, so there is never a second one beside it.
LaneHeld ==
  runtime.phase # "down" =>
    \A h \in Handoffs :
      /\ handoffs[h].state \in {"admitted", "running", "unknown"}
      /\ handoffs[h].authority.worker = runtime.boot
      => runtime.lane = h

\* A lapsed authority never comes back: once the control no longer admits the
\* boots and the sequence a handoff was admitted under, it never does again, so
\* a delayed permit or command cannot become valid later.
LapsedForever ==
  [][\A h \in Handoffs :
       Exists(handoffs[h]) /\ ~Authorises(control, handoffs[h].authority) =>
         ~Authorises(control', handoffs'[h].authority)]_allVars

HandoffRank(state) ==
  CASE state = "absent" -> 0 [] state = "admitted" -> 1 [] state = "running" -> 2
    [] state = "unknown" -> 3 [] state = "terminal" -> 4 [] state = "acknowledged" -> 5

\* A handoff only moves forward; its tuple, its authority and, once there, its
\* receipt are never rewritten, and a settled job is never settled again.
HandoffForward ==
  [][/\ \A h \in Handoffs : Exists(handoffs[h]) =>
          /\ HandoffRank(handoffs[h].state) <= HandoffRank(handoffs'[h].state)
          /\ handoffs'[h].tuple = handoffs[h].tuple
          /\ handoffs'[h].authority = handoffs[h].authority
          /\ handoffs[h].receipt # NoCompletion => handoffs'[h].receipt = handoffs[h].receipt
     /\ \A j \in Jobs : jobs[j].state \in {"completed", "failed"} => jobs'[j] = jobs[j]]_allVars

\* The worker's tables only ever reach the episode tables the way the store's
\* own operations do: the worker implements the execution store, although
\* commit_new_completion is a second copy of record_completion.
ImplementsStore == Spec

\* "A cancellation or restrictive control mode terminates the child ... retained
\* through the existing unknown/quarantine path": a cancelled execution ends
\* with its handoff unknown or terminal, unless the endpoint dies first.
CancelledIsRetained ==
  \A h \in Handoffs :
    (runtime.lane = h /\ runtime.task = "running" /\ runtime.cancelled)
      ~> (runtime.phase = "down" \/
          handoffs[h].state \in {"unknown", "terminal", "acknowledged"})

\* Until a terminal receipt is durable a handoff keeps what it took: its job stays claimed
\* by its token, and the endpoint's lane stays occupied while its execution may be alive.
HeldUntilReceipt == ClaimRetained /\ LaneHeld

\* The worker tables hold only rows their readers accept, and a receipt is the completion
\* the store recorded for the episode of its handoff.
HandoffRowsSound == WorkerTypeOK /\ RowsReadable /\ ReceiptAnchored

\* Nothing comes back: a handoff and its reservation only move forward, and an authority
\* that lapsed is never current again, whatever is replayed or arrives late.
NeverBack == HandoffForward /\ LapsedForever
=============================================================================
