--------------------------- MODULE RunSubmission ---------------------------
(***************************************************************************)
(* Submission of live runs: management/service_submission_claim.rs and     *)
(* store_sqlite_claim.rs (the claim of a request id), service_ops.rs and   *)
(* service_submission.rs (admission, reserved failure), execution.rs       *)
(* (reserve, open, launch, register), store_sqlite_create.rs and           *)
(* store_sqlite_submission.rs.                                             *)
(*                                                                         *)
(* Threads serve calls; a call carries a request id, its actor and its     *)
(* payload.  Store transactions are atomic and may fail; opening, launch   *)
(* and cleanup of a session may fail; the process may crash and restart,   *)
(* which loses the threads and the registry but not the store.             *)
(***************************************************************************)
EXTENDS Naturals, FiniteSets

CONSTANTS
    Threads,
    Calls,       \* records [id, actor, payload]
    MaxClaims,   \* MAX_SUBMISSION_CLAIMS
    MaxCrashes,  \* bound
    None

RequestIds == {c.id : c \in Calls}

\* A stored claim and a stored run.
ClaimRows ==
    [actor: {c.actor : c \in Calls}, payload: {c.payload : c \in Calls},
     outcome: {None, "submitted", "failed", "failed_reserved"}]
RunRows == [status: {"Created", "Running", "NeedsOperator"}, cleanup: {"NotStarted", "NeedsOperator"}]

ASSUME SubmissionAssumption ==
    /\ MaxClaims \in Nat /\ MaxCrashes \in Nat
    /\ None \notin ClaimRows \cup RunRows \cup {"submitted", "failed", "failed_reserved"}

VARIABLES
    claims,    \* durable: id -> claim or None
    runs,      \* durable: id -> [status, cleanup] or None
    registry,  \* ids with a live run in memory
    thread,    \* per thread: where it is, its call, its error
    launches,  \* outside: id -> sessions launched
    leases,    \* outside: id -> sessions that hold their lease
    crashes

submissionVars == <<claims, runs, registry, thread, launches, leases, crashes>>

NoCall == [at |-> "idle"]

SubmissionInit ==
    /\ claims = [i \in RequestIds |-> None]
    /\ runs = [i \in RequestIds |-> None]
    /\ registry = {}
    /\ thread = [t \in Threads |-> NoCall]
    /\ launches = [i \in RequestIds |-> 0]
    /\ leases = [i \in RequestIds |-> 0]
    /\ crashes = 0

Id(t) == thread[t].call.id
Goes(t, at) == thread' = [thread EXCEPT ![t].at = at]

\* The call returned: what the client was told stays visible until the next call.
Returns(t, answer) == thread' = [thread EXCEPT ![t] = [at |-> "idle", call |-> @.call, answer |-> answer]]

----------------------------------------------------------------------------
(* The claim.                                                              *)

\* accepts: the same actor and the same request.
Accepts(claim, call) == claim.actor = call.actor /\ claim.payload = call.payload

ClaimCount == Cardinality({i \in RequestIds : claims[i] # None})

Free(i) == claims[i] = None

\* acquire: the first call of an id gets the claim, as long as there is room.
Acquire(t, call) ==
    /\ thread[t].at = "idle"
    /\ Free(call.id)
    /\ ClaimCount < MaxClaims
    /\ claims' = [claims EXCEPT ![call.id] =
                    [actor |-> call.actor, payload |-> call.payload, outcome |-> None]]
    /\ thread' = [thread EXCEPT ![t] = [at |-> "admit", call |-> call]]
    /\ UNCHANGED <<runs, registry, launches, leases, crashes>>

\* recovery_admission of a durable live run, as in RunCommands for the statuses
\* a submission writes.
Recovery(i) ==
    IF runs[i].status = "Running" /\ i \in registry THEN "SafelyResumable" ELSE "NeedsOperator"

\* replay_claim and recover_existing_run: what a repeated call is told.
Answer(call) ==
    LET claim == claims[call.id] IN
    IF ~Accepts(claim, call) THEN "conflict"
    ELSE CASE claim.outcome = None -> "pending"
           [] claim.outcome = "failed" -> "failed"
           [] claim.outcome = "failed_reserved" -> "recovery_required"
           [] OTHER -> IF Recovery(call.id) = "NeedsOperator" THEN "recovery_required" ELSE "submitted"

Replay(t, call) ==
    /\ thread[t].at = "idle"
    /\ claims[call.id] # None
    /\ thread' = [thread EXCEPT ![t] = [at |-> "idle", call |-> call, answer |-> Answer(call)]]
    /\ UNCHANGED <<claims, runs, registry, launches, leases, crashes>>

\* finish: the outcome, by way of lookup_submission when it is a failure.
Outcome(t) ==
    IF thread[t].at = "succeeded" THEN "submitted"
    ELSE IF runs[Id(t)] # None THEN "failed_reserved" ELSE "failed"

FinishClaim(t, stored) ==
    /\ thread[t].at \in {"succeeded", "failed"}
    /\ claims' = IF stored THEN [claims EXCEPT ![Id(t)].outcome = Outcome(t)] ELSE claims
    /\ Returns(t, IF ~stored THEN "persistence_unknown"
                  ELSE IF thread[t].at = "succeeded" THEN "submitted" ELSE "failed")
    /\ UNCHANGED <<runs, registry, launches, leases, crashes>>

----------------------------------------------------------------------------
(* Admission, reservation and launch.                                      *)

\* Validation, context owner, target and profiles, and the early look into the
\* registry: any of them refuses before anything is reserved.
Admit(t, admitted) ==
    /\ thread[t].at = "admit"
    /\ Goes(t, IF admitted /\ Id(t) \notin registry THEN "reserve" ELSE "failed")
    /\ UNCHANGED <<claims, runs, registry, launches, leases, crashes>>

\* reserve: create_run.
Reserve(t, stored) ==
    /\ thread[t].at = "reserve"
    /\ IF stored /\ runs[Id(t)] = None
       THEN /\ runs' = [runs EXCEPT ![Id(t)] = [status |-> "Created", cleanup |-> "NotStarted"]]
            /\ Goes(t, "open")
       ELSE UNCHANGED runs /\ Goes(t, "failed")
    /\ UNCHANGED <<claims, registry, launches, leases, crashes>>

\* The second look at the catalog, and open_admitted.
Open(t, opened) ==
    /\ thread[t].at = "open"
    /\ Goes(t, IF opened THEN "launch" ELSE "reserved_failure")
    /\ UNCHANGED <<claims, runs, registry, launches, leases, crashes>>

AfterLaunchRetry(launched) == IF launched THEN "register" ELSE "open"
AfterLaunch(launched) == IF launched THEN "register" ELSE "reserved_failure"

\* launch: a failed launch may have left a session, which is stopped and released.
Launch(t, launched, cleaned) ==
    /\ thread[t].at = "launch"
    /\ launches' = [launches EXCEPT ![Id(t)] = @ + 1]
    /\ leases' = IF ~launched /\ cleaned THEN leases ELSE [leases EXCEPT ![Id(t)] = @ + 1]
    /\ Goes(t, AfterLaunch(launched))
    /\ UNCHANGED <<claims, runs, registry, crashes>>

\* The authoritative check under the registry's lock; a duplicate is torn down.
Register(t, cleaned) ==
    /\ thread[t].at = "register"
    /\ IF Id(t) \in registry
       THEN /\ leases' = IF cleaned THEN [leases EXCEPT ![Id(t)] = @ - 1] ELSE leases
            /\ Goes(t, "reserved_failure")
            /\ UNCHANGED registry
       ELSE /\ registry' = registry \cup {Id(t)}
            /\ Goes(t, "publish")
            /\ UNCHANGED leases
    /\ UNCHANGED <<claims, runs, launches, crashes>>

\* update_run_snapshot to Running.
Publish(t, stored) ==
    /\ thread[t].at = "publish"
    /\ runs' = IF stored THEN [runs EXCEPT ![Id(t)].status = "Running"] ELSE runs
    /\ Goes(t, IF stored THEN "succeeded" ELSE "reserved_failure")
    /\ UNCHANGED <<claims, registry, launches, leases, crashes>>

\* abort: a run that is not registered has no session to stop.
Aborted(i, cleaned) == IF i \in registry /\ cleaned THEN [leases EXCEPT ![i] = @ - 1] ELSE leases

\* persist_reserved_failure: abort_submission, then the run needs an operator.
ReservedFailure(t, cleaned, stored) ==
    /\ thread[t].at = "reserved_failure"
    /\ registry' = registry \ {Id(t)}
    /\ leases' = Aborted(Id(t), cleaned)
    /\ runs' = IF stored THEN [runs EXCEPT ![Id(t)] = [status |-> "NeedsOperator", cleanup |-> "NeedsOperator"]]
               ELSE runs
    /\ Goes(t, "failed")
    /\ UNCHANGED <<claims, launches, crashes>>

ServiceCrash ==
    /\ crashes < MaxCrashes
    /\ crashes' = crashes + 1
    /\ thread' = [t \in Threads |-> NoCall]
    /\ registry' = {}
    /\ UNCHANGED <<claims, runs, launches, leases>>

ThreadStep(t) ==
    \E ok \in BOOLEAN :
        \/ Admit(t, ok) \/ Reserve(t, ok) \/ Open(t, ok) \/ Register(t, ok)
        \/ Publish(t, ok) \/ FinishClaim(t, ok)
        \/ \E cleaned \in BOOLEAN : Launch(t, ok, cleaned) \/ ReservedFailure(t, cleaned, ok)

SubmissionNext ==
    \/ \E t \in Threads : ThreadStep(t) \/ \E c \in Calls : Acquire(t, c) \/ Replay(t, c)
    \/ ServiceCrash

SubmissionSpec == SubmissionInit /\ [][SubmissionNext]_submissionVars

----------------------------------------------------------------------------
(* Properties.                                                             *)

\* A call is served in phases and answered; the answer of the last one is remembered.
ServicePhases ==
    {"admit", "reserve", "open", "launch", "register", "publish", "reserved_failure",
     "succeeded", "failed"}
Answers ==
    {"submitted", "failed", "conflict", "pending", "recovery_required", "persistence_unknown"}

\* Claims, runs, threads and sessions have their shapes.
SubmissionTypeOK ==
    /\ claims \in [RequestIds -> {None} \cup ClaimRows]
    /\ runs \in [RequestIds -> {None} \cup RunRows]
    /\ registry \subseteq RequestIds
    /\ thread \in [Threads -> {NoCall} \cup [at: ServicePhases, call: Calls]
                                   \cup [at: {"idle"}, call: Calls, answer: Answers]]
    /\ launches \in [RequestIds -> Nat] /\ leases \in [RequestIds -> Nat]
    /\ crashes \in 0..MaxCrashes

\* A request id launches at most one session, whatever is repeated, refused,
\* failed or lost, and across restarts (submit_with_claim).
LaunchedOnce == \A i \in RequestIds : launches[i] <= 1

\* A client that is told "submitted" has a run that is live, as long as the
\* service has not crashed since, and it is the client's own request.
Told(t, answer) == thread[t].at = "idle" /\ thread[t] # NoCall /\ thread[t].answer = answer

SubmittedIsLive ==
    \A t \in Threads : Told(t, "submitted") =>
        /\ Id(t) \in registry /\ leases[Id(t)] = 1
        /\ Accepts(claims[Id(t)], thread[t].call)

\* A session that is left behind is in sight: whoever holds a lease without a
\* live run and without a thread at work has a durable run, which status shows as one
\* that needs an operator, and the claim does not say that nothing was reserved.
Working(i) == \E t \in Threads : thread[t].at # "idle" /\ Id(t) = i

NoHiddenSession ==
    \A i \in RequestIds : leases[i] > 0 /\ i \notin registry /\ ~Working(i) =>
        runs[i] # None /\ claims[i].outcome # "failed"

\* A claim that has its outcome keeps it, and is never given away again.
ClaimsFinal ==
    [][\A i \in RequestIds : claims[i] # None =>
          /\ claims'[i] # None /\ claims'[i].actor = claims[i].actor
          /\ claims[i].outcome # None => claims'[i] = claims[i]]_submissionVars

\* A request id launches at most one session, a client is told "submitted" only of a live
\* run of its own, and a session that is left behind is in sight.
SubmissionSound == SubmissionTypeOK /\ LaunchedOnce /\ SubmittedIsLive /\ NoHiddenSession
=============================================================================
