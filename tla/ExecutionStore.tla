--------------------------- MODULE ExecutionStore ---------------------------
(***************************************************************************)
(* The durable execution store: runs, episodes, attempts, operations,      *)
(* decisions, provider reservations, checkpoints and completions.          *)
(*                                                                         *)
(* Every mutator is one IMMEDIATE SQLite transaction (journal_mode WAL,    *)
(* synchronous FULL), so it is one atomic step, whichever of the processes *)
(* that open the file (a worker endpoint and its runtime child) runs it,   *)
(* and a crash loses nothing that this module describes.  A mutator that   *)
(* returns an error rolls its transaction back; one that finds its own     *)
(* earlier effect returns it unchanged.  Both are stuttering steps here:   *)
(* an action's guard is the conjunction of the conditions under which the  *)
(* code commits a change.  One mutator, reconstruct_attempt, reads the     *)
(* pending rows before its transaction; it is one step here because only   *)
(* tests call it, with a single connection.                                *)
(*                                                                         *)
(* An element of Attempts stands for the pair (attempt id, trajectory id): *)
(* callers mint the two together and every check compares both.            *)
(***************************************************************************)
EXTENDS Integers, FiniteSets

CONSTANTS Runs, Episodes, Attempts, Fingerprints,
          Operations, Payloads, Results,
          Decisions, Reservations, ProviderExecutions,
          Boundaries,        \* contents of a checkpoint
          MaxSequence,       \* checkpoint sequences are 0..MaxSequence
          MaxUnits,          \* provider units are 1..MaxUnits
          MaxOperations,     \* MAX_OPERATIONS (4096 in the code)
          MaxDecisions,      \* MAX_DECISIONS (4096 in the code)
          None

ASSUME ConstantsAssumption ==
  /\ MaxSequence \in Nat
  /\ MaxUnits \in Nat \ {0}
  /\ MaxOperations \in Nat
  /\ MaxDecisions \in Nat
  /\ None \notin Runs \union Episodes \union Attempts \union Fingerprints
  /\ None \notin Payloads /\ None \notin Results /\ None \notin Boundaries
  /\ None \notin Decisions /\ None \notin Reservations /\ None \notin ProviderExecutions

VARIABLES runs,          \* run -> the fingerprint it was started with
          episodes,      \* episode -> row
          attempts,      \* attempt -> row
          operations,    \* operation -> row
          decisions,     \* decision -> row
          reservations,  \* provider reservation -> row
          checkpoints,   \* <<attempt, sequence>> -> boundary
          completions    \* episode -> row

vars == <<runs, episodes, attempts, operations, decisions, reservations,
          checkpoints, completions>>

-----------------------------------------------------------------------------
Lineages  == [run: Runs, episode: Episodes, attempt: Attempts]
NoLineage == [run |-> None, episode |-> None, attempt |-> None]
AnyLineage == Lineages \union {NoLineage}

SequenceNumbers == 0..MaxSequence
Units     == 1..MaxUnits

CompletionStatus == {"completed", "failed", "quarantined"}
AttemptStates    == CompletionStatus \union {"active", "interrupted_unknown"}
RecoveryDispositions ==
  {"in_place_continuation", "reconstruction", "interrupted_unknown"}

UnresolvedOperationStates ==
  {"intent_recorded", "may_have_been_dispatched", "accepted", "unknown"}
ResolvedOperationStates == {"settled", "rejected", "reconciled"}
OperationStates == UnresolvedOperationStates \union ResolvedOperationStates

UnresolvedDecisionStates == {"pending", "unknown"}
DecisionStates == UnresolvedDecisionStates \union {"completed", "failed"}

UnresolvedReservationStates == {"reserved", "unknown"}
ReservationStates == UnresolvedReservationStates \union {"completed", "failed"}

NoEpisode == [run |-> None, current |-> None, state |-> "absent"]
NoAttempt == [lineage |-> NoLineage, parent |-> None, fingerprint |-> None,
              state |-> "absent"]
NoOperation == [lineage |-> NoLineage, payload |-> None, state |-> "absent",
                result |-> None]
NoDecision == [lineage |-> NoLineage, state |-> "absent", reservation |-> None]
NoReservation == [decision |-> None, lineage |-> NoLineage, provider |-> None,
                  reserved |-> 0, actual |-> 0, state |-> "absent"]
NoCompletion == [lineage |-> NoLineage, status |-> "absent", sequence |-> 0,
                 result |-> None]

-----------------------------------------------------------------------------
Exists(row) == row.state # "absent"

\* ensure_current_lineage: the lineage is the episode's current attempt, active.
CurrentLineage(l) ==
  episodes[l.episode] = [run |-> l.run, current |-> l.attempt, state |-> "active"]

UnresolvedOperation(o) == operations[o].state \in UnresolvedOperationStates
UnresolvedDecision(d) == decisions[d].state \in UnresolvedDecisionStates
UnresolvedReservation(r) == reservations[r].state \in UnresolvedReservationStates

PendingOperations(e) ==
  {o \in Operations : operations[o].lineage.episode = e /\ UnresolvedOperation(o)}
PendingDecisions(e) ==
  {d \in Decisions : decisions[d].lineage.episode = e /\ UnresolvedDecision(d)}
PendingReservations(e) ==
  {r \in Reservations : reservations[r].lineage.episode = e /\ UnresolvedReservation(r)}

\* Fault: only operations are asked for, provider calls are forgotten.
NothingPendingButCalls(e) == PendingOperations(e) = {}

\* Nothing of the episode, in any of its attempts, awaits an outcome.
NothingPending(e) ==
  /\ PendingOperations(e) = {}
  /\ PendingDecisions(e) = {}
  /\ PendingReservations(e) = {}

Init ==
  /\ runs = [r \in Runs |-> None]
  /\ episodes = [e \in Episodes |-> NoEpisode]
  /\ attempts = [a \in Attempts |-> NoAttempt]
  /\ operations = [o \in Operations |-> NoOperation]
  /\ decisions = [d \in Decisions |-> NoDecision]
  /\ reservations = [r \in Reservations |-> NoReservation]
  /\ checkpoints = [k \in Attempts \X SequenceNumbers |-> None]
  /\ completions = [e \in Episodes |-> NoCompletion]

-----------------------------------------------------------------------------
(* Episodes and attempts.                                                  *)

InsertAttempt(l, fingerprint, parent) ==
  [lineage |-> l, parent |-> parent, fingerprint |-> fingerprint, state |-> "active"]

\* start_episode for an episode the store does not hold yet.
StartNewEpisode(l, f) ==
  /\ runs[l.run] \in {None, f}
  /\ ~Exists(episodes[l.episode])
  /\ ~Exists(attempts[l.attempt])
  /\ runs' = [runs EXCEPT ![l.run] = f]
  /\ episodes' = [episodes EXCEPT ![l.episode] =
                    [run |-> l.run, current |-> l.attempt, state |-> "active"]]
  /\ attempts' = [attempts EXCEPT ![l.attempt] = InsertAttempt(l, f, None)]
  /\ UNCHANGED <<operations, decisions, reservations, checkpoints, completions>>

\* start_episode replayed for a stored episode: the run is inserted when it is
\* missing, and the episode's own run is not compared with the lineage's.
StartKnownEpisode(l, f) ==
  /\ runs[l.run] \in {None, f}
  /\ Exists(episodes[l.episode])
  /\ episodes[l.episode].current = l.attempt
  /\ attempts[l.attempt].fingerprint = f
  /\ runs' = [runs EXCEPT ![l.run] = f]
  /\ UNCHANGED <<episodes, attempts, operations, decisions, reservations,
                 checkpoints, completions>>

\* Fault: the UPDATE of the attempt row is missing.
SetEpisodeStateOnly(e, state) ==
  /\ episodes' = [episodes EXCEPT ![e].state = state]
  /\ UNCHANGED attempts

\* The current attempt and its episode take the same state in one transaction.
SetCurrentState(e, state) ==
  /\ episodes' = [episodes EXCEPT ![e].state = state]
  /\ attempts' = [attempts EXCEPT ![episodes[e].current].state = state]

MarkInterruptedUnknown(e) ==
  /\ episodes[e].state = "active"
  /\ SetCurrentState(e, "interrupted_unknown")
  /\ UNCHANGED <<runs, operations, decisions, reservations, checkpoints, completions>>

\* Only the interrupted_unknown disposition changes rows; the others append an
\* event to the log, which this module leaves out.
RecordRecoveryDisposition(e, disposition) ==
  /\ Exists(episodes[e])
  /\ disposition = "interrupted_unknown"
  /\ episodes[e].state = "active"
  /\ SetCurrentState(e, "interrupted_unknown")
  /\ UNCHANGED <<runs, operations, decisions, reservations, checkpoints, completions>>

\* Fault: the pending operations and provider calls are not looked at.
ReconstructOverPending(l, new, sequence, boundary, approved) ==
  /\ CurrentLineage(l)
  /\ checkpoints[<<l.attempt, sequence>>] = boundary
  /\ ~Exists(attempts[new])
  /\ attempts' = [attempts EXCEPT
                    ![l.attempt].state = "failed",
                    ![new] = InsertAttempt([l EXCEPT !.attempt = new], approved, l.attempt)]
  /\ checkpoints' = [checkpoints EXCEPT ![<<new, sequence>>] = boundary]
  /\ episodes' = [episodes EXCEPT ![l.episode].current = new]
  /\ UNCHANGED <<runs, operations, decisions, reservations, completions>>

\* Fault: the approved checkpoint is not copied to the new attempt.
ReconstructWithoutCopy(l, new, sequence, boundary, approved) ==
  /\ NothingPending(l.episode)
  /\ CurrentLineage(l)
  /\ checkpoints[<<l.attempt, sequence>>] = boundary
  /\ ~Exists(attempts[new])
  /\ attempts' = [attempts EXCEPT
                    ![l.attempt].state = "failed",
                    ![new] = InsertAttempt([l EXCEPT !.attempt = new], approved, l.attempt)]
  /\ episodes' = [episodes EXCEPT ![l.episode].current = new]
  /\ UNCHANGED <<runs, operations, decisions, reservations, checkpoints, completions>>

\* The transaction of reconstruct_attempt: a new attempt from the checkpoint
\* `sequence` of the current one, whose boundary the caller presents.
SupersedeAttempt(l, new, sequence, boundary, approved) ==
  /\ CurrentLineage(l)
  /\ attempts[l.attempt].fingerprint = approved
  /\ checkpoints[<<l.attempt, sequence>>] = boundary
  /\ ~Exists(attempts[new])
  /\ attempts' = [attempts EXCEPT
                    ![l.attempt].state = "failed",
                    ![new] = InsertAttempt([l EXCEPT !.attempt = new], approved, l.attempt)]
  /\ checkpoints' = [checkpoints EXCEPT ![<<new, sequence>>] = boundary]
  /\ episodes' = [episodes EXCEPT ![l.episode] =
                    [run |-> l.run, current |-> new, state |-> "active"]]
  /\ UNCHANGED <<runs, operations, decisions, reservations, completions>>

\* reconstruct_attempt of a caller with the only connection to the store.
ReconstructAttempt(l, new, sequence, boundary, approved) ==
  /\ NothingPending(l.episode)
  /\ SupersedeAttempt(l, new, sequence, boundary, approved)

-----------------------------------------------------------------------------
(* Operations.                                                             *)

RecordOperationIntent(l, o, payload) ==
  /\ ~Exists(operations[o])
  /\ CurrentLineage(l)
  /\ Cardinality({x \in Operations : Exists(operations[x])}) < MaxOperations
  /\ operations' = [operations EXCEPT ![o] =
       [lineage |-> l, payload |-> payload, state |-> "intent_recorded", result |-> None]]
  /\ UNCHANGED <<runs, episodes, attempts, decisions, reservations, checkpoints, completions>>

\* Fault: a settled outcome may be reconciled like an unknown one.
ReopensSettled(current, next) ==
  \/ current = "intent_recorded" /\ next = "may_have_been_dispatched"
  \/ current # "absent" /\ current # "reconciled" /\ next = "reconciled"
  \/ /\ current = "may_have_been_dispatched"
     /\ next \in {"accepted", "settled", "rejected", "unknown"}

ValidTransition(current, next) ==
  \/ current = "intent_recorded" /\ next \in {"may_have_been_dispatched", "reconciled"}
  \/ /\ current = "may_have_been_dispatched"
     /\ next \in {"accepted", "settled", "rejected", "unknown", "reconciled"}
  \/ current = "accepted" /\ next \in {"settled", "rejected", "unknown", "reconciled"}
  \/ current = "unknown" /\ next = "reconciled"

\* Evidence once recorded may be replaced only by the reconciliation of a
\* provisional (accepted or unknown) outcome.
EvidenceAdmissible(row, next, result) ==
  \/ result = None
  \/ row.result \in {None, result}
  \/ row.state \in {"accepted", "unknown"} /\ next = "reconciled"

TransitionOperation(o, payload, next, result) ==
  /\ Exists(operations[o])
  /\ EvidenceAdmissible(operations[o], next, result)
  /\ operations[o].payload = payload
  /\ ValidTransition(operations[o].state, next)
  /\ operations' = [operations EXCEPT
                      ![o].state = next,
                      ![o].result = IF result = None THEN @ ELSE result]
  /\ UNCHANGED <<runs, episodes, attempts, decisions, reservations, checkpoints, completions>>

MarkOperationDispatched(o, payload) ==
  TransitionOperation(o, payload, "may_have_been_dispatched", None)

RecordOperationResult(o, payload, state, result) ==
  /\ state \in {"accepted", "settled", "rejected", "unknown"}
  /\ TransitionOperation(o, payload, state, result)

ReconcileOperation(o, payload, result) ==
  /\ result # None
  /\ TransitionOperation(o, payload, "reconciled", result)

-----------------------------------------------------------------------------
(* Decisions and provider reservations.                                    *)

RecordDecision(l, d) ==
  /\ ~Exists(decisions[d])
  /\ CurrentLineage(l)
  /\ Cardinality({x \in Decisions : Exists(decisions[x])}) < MaxDecisions
  /\ decisions' = [decisions EXCEPT ![d] =
       [lineage |-> l, state |-> "pending", reservation |-> None]]
  /\ UNCHANGED <<runs, episodes, attempts, operations, reservations, checkpoints, completions>>

\* reserve_provider compares the lineage with the decision's only: neither the
\* decision's state nor the episode's current attempt is looked at.
ReserveProvider(r, d, provider, units) ==
  /\ Exists(decisions[d])
  /\ decisions[d].reservation \in {None, r}
  /\ ~Exists(reservations[r])
  /\ \A x \in Reservations : Exists(reservations[x]) =>
        reservations[x].provider # provider /\ reservations[x].decision # d
  /\ reservations' = [reservations EXCEPT ![r] =
       [decision |-> d, lineage |-> decisions[d].lineage, provider |-> provider,
        reserved |-> units, actual |-> 0, state |-> "reserved"]]
  /\ decisions' = [decisions EXCEPT ![d].reservation = r]
  /\ UNCHANGED <<runs, episodes, attempts, operations, checkpoints, completions>>

\* finish_provider: actual = 0 is the absent actual_units.
FinishProvider(r, state, actual) ==
  /\ reservations[r].state = "reserved"
  /\ actual <= reservations[r].reserved
  /\ state = "completed" => actual # 0
  /\ reservations' = [reservations EXCEPT ![r].state = state, ![r].actual = actual]
  /\ decisions' = [decisions EXCEPT ![reservations[r].decision].state = state]
  /\ UNCHANGED <<runs, episodes, attempts, operations, checkpoints, completions>>

CompleteProvider(r, actual)    == FinishProvider(r, "completed", actual)
FailProvider(r, actual)        == FinishProvider(r, "failed", actual)
MarkProviderUnknown(r, actual) == FinishProvider(r, "unknown", actual)

-----------------------------------------------------------------------------
(* Checkpoints and completion.                                             *)

SaveCheckpoint(l, sequence, boundary, f) ==
  /\ CurrentLineage(l)
  /\ attempts[l.attempt].fingerprint = f
  /\ checkpoints[<<l.attempt, sequence>>] = None
  /\ checkpoints' = [checkpoints EXCEPT ![<<l.attempt, sequence>>] = boundary]
  /\ UNCHANGED <<runs, episodes, attempts, operations, decisions, reservations, completions>>

RecordCompletion(l, status, sequence, result) ==
  /\ CurrentLineage(l)
  /\ NothingPending(l.episode)
  /\ completions[l.episode] = NoCompletion
  /\ checkpoints[<<l.attempt, sequence>>] # None
  /\ completions' = [completions EXCEPT ![l.episode] =
       [lineage |-> l, status |-> status, sequence |-> sequence, result |-> result]]
  /\ SetCurrentState(l.episode, status)
  /\ UNCHANGED <<runs, operations, decisions, reservations, checkpoints>>

-----------------------------------------------------------------------------
EpisodeStep ==
  \/ \E l \in Lineages, f \in Fingerprints : StartNewEpisode(l, f)
  \/ \E l \in Lineages, f \in Fingerprints : StartKnownEpisode(l, f)
  \/ \E e \in Episodes : MarkInterruptedUnknown(e)
  \/ \E e \in Episodes, disposition \in RecoveryDispositions :
        RecordRecoveryDisposition(e, disposition)
  \/ \E l \in Lineages, new \in Attempts, s \in SequenceNumbers,
        b \in Boundaries, f \in Fingerprints : ReconstructAttempt(l, new, s, b, f)

OperationStep ==
  \/ \E l \in Lineages, o \in Operations, p \in Payloads : RecordOperationIntent(l, o, p)
  \/ \E o \in Operations, p \in Payloads : MarkOperationDispatched(o, p)
  \/ \E o \in Operations, p \in Payloads, state \in OperationStates,
        result \in Results \union {None} : RecordOperationResult(o, p, state, result)
  \/ \E o \in Operations, p \in Payloads, result \in Results : ReconcileOperation(o, p, result)

ProviderStep ==
  \/ \E l \in Lineages, d \in Decisions : RecordDecision(l, d)
  \/ \E r \in Reservations, d \in Decisions, x \in ProviderExecutions, u \in Units :
        ReserveProvider(r, d, x, u)
  \/ \E r \in Reservations, u \in Units \union {0} : CompleteProvider(r, u)
  \/ \E r \in Reservations, u \in Units \union {0} : FailProvider(r, u)
  \/ \E r \in Reservations, u \in Units \union {0} : MarkProviderUnknown(r, u)

CheckpointStep ==
  \/ \E l \in Lineages, s \in SequenceNumbers, b \in Boundaries, f \in Fingerprints :
        SaveCheckpoint(l, s, b, f)
  \/ \E l \in Lineages, status \in CompletionStatus, s \in SequenceNumbers, result \in Results :
        RecordCompletion(l, status, s, result)

Next == EpisodeStep \/ OperationStep \/ ProviderStep \/ CheckpointStep

Spec == Init /\ [][Next]_vars

-----------------------------------------------------------------------------
(* Properties.                                                             *)

EpisodeRows == [run: Runs, current: Attempts, state: AttemptStates]
AttemptRows == [lineage: Lineages, parent: Attempts \union {None},
                fingerprint: Fingerprints, state: AttemptStates]
OperationRows == [lineage: Lineages, payload: Payloads, state: OperationStates,
                  result: Results \union {None}]
DecisionRows == [lineage: Lineages, state: DecisionStates,
                 reservation: Reservations \union {None}]
ReservationRows == [decision: Decisions, lineage: Lineages, provider: ProviderExecutions,
                    reserved: Units, actual: Units \union {0}, state: ReservationStates]
CompletionRows == [lineage: Lineages, status: CompletionStatus,
                   sequence: SequenceNumbers, result: Results]

\* Type invariant: every table holds rows of its schema.
TypeOK ==
  /\ runs \in [Runs -> Fingerprints \union {None}]
  /\ episodes \in [Episodes -> EpisodeRows \union {NoEpisode}]
  /\ attempts \in [Attempts -> AttemptRows \union {NoAttempt}]
  /\ operations \in [Operations -> OperationRows \union {NoOperation}]
  /\ decisions \in [Decisions -> DecisionRows \union {NoDecision}]
  /\ reservations \in [Reservations -> ReservationRows \union {NoReservation}]
  /\ checkpoints \in [Attempts \X SequenceNumbers -> Boundaries \union {None}]
  /\ completions \in [Episodes -> CompletionRows \union {NoCompletion}]

\* load_episode (store_recovery.rs) reports Corrupt when the current attempt's
\* lineage or state disagrees with its episode: no sequence of mutators reaches
\* such a state, and a superseded attempt is never active again.
CurrentAttemptAgrees ==
  /\ \A e \in Episodes : Exists(episodes[e]) =>
        LET a == attempts[episodes[e].current] IN
        /\ a.state = episodes[e].state
        /\ a.lineage = [run |-> episodes[e].run, episode |-> e,
                        attempt |-> episodes[e].current]
  /\ \A a \in Attempts : Exists(attempts[a]) =>
        episodes[attempts[a].lineage.episode].current = a \/ attempts[a].state = "failed"

\* finish_provider updates a reservation and its decision in one transaction and
\* reserve_provider links them both ways: the two tables never tell different
\* stories about the same provider call, and a call is never charged above what
\* was reserved for it.
ProviderLockstep ==
  /\ \A r \in Reservations : Exists(reservations[r]) =>
        LET row == reservations[r]  d == decisions[row.decision] IN
        /\ d.reservation = r
        /\ d.lineage = row.lineage
        /\ d.state = IF row.state = "reserved" THEN "pending" ELSE row.state
        /\ row.actual <= row.reserved
  /\ \A d \in Decisions : Exists(decisions[d]) =>
        \/ decisions[d].reservation = None /\ decisions[d].state = "pending"
        \/ /\ decisions[d].reservation # None
           /\ reservations[decisions[d].reservation].decision = d
           /\ Exists(reservations[decisions[d].reservation])

\* reconstruct_attempt "cannot be used to evade an unknown mutation": whatever
\* awaits an outcome belongs to the current attempt of its episode, although
\* neither reserve_provider nor transition_operation checks the lineage.
PendingIsCurrent ==
  /\ \A o \in Operations : UnresolvedOperation(o) =>
        operations[o].lineage.attempt = episodes[operations[o].lineage.episode].current
  /\ \A d \in Decisions : UnresolvedDecision(d) =>
        decisions[d].lineage.attempt = episodes[decisions[d].lineage.episode].current
  /\ \A r \in Reservations : UnresolvedReservation(r) =>
        reservations[r].lineage.attempt = episodes[reservations[r].lineage.episode].current

\* A completed, failed or quarantined episode has nothing in flight, and never
\* gets anything in flight later: reserve_provider and transition_operation do
\* not look at the episode, so only the gates on completion keep it so.
TerminalEpisodeQuiescent ==
  \A e \in Episodes : completions[e] # NoCompletion => NothingPending(e)

\* The completion of an episode names its last attempt, carries the state of the
\* episode and rests on a checkpoint of that very attempt; an episode whose
\* state is terminal has one, so resume_episode never meets a failed episode
\* without a completion.
CompletionAnchored ==
  \A e \in Episodes :
    IF completions[e] = NoCompletion
    THEN episodes[e].state \in {"absent", "active", "interrupted_unknown"}
    ELSE /\ episodes[e] = [run |-> completions[e].lineage.run,
                           current |-> completions[e].lineage.attempt,
                           state |-> completions[e].status]
         /\ completions[e].lineage.episode = e
         /\ checkpoints[<<completions[e].lineage.attempt, completions[e].sequence>>] # None

\* A reconstructed attempt belongs to the run, the episode and the fingerprint of
\* the attempt it replaces, starts from one of its checkpoints, and no attempt
\* is reconstructed twice.
ReconstructionFaithful ==
  \A a \in Attempts : attempts[a].parent # None =>
    LET p == attempts[a].parent IN
    /\ attempts[p].lineage.run = attempts[a].lineage.run
    /\ attempts[p].lineage.episode = attempts[a].lineage.episode
    /\ attempts[p].fingerprint = attempts[a].fingerprint
    /\ attempts[p].state = "failed"
    /\ \E s \in SequenceNumbers :
          checkpoints[<<p, s>>] # None /\ checkpoints[<<p, s>>] = checkpoints[<<a, s>>]
    /\ \A x \in Attempts : attempts[x].parent = p => x = a

\* What is settled stays settled: a resolved operation, a resolved provider call,
\* a checkpoint and a completion are never rewritten, and what replay reads from
\* a superseded attempt is never added to.
OutcomesFinal ==
  [][/\ \A o \in Operations : operations[o].state \in ResolvedOperationStates =>
          operations'[o] = operations[o]
     /\ \A r \in Reservations : reservations[r].state \in {"completed", "failed", "unknown"} =>
          reservations'[r] = reservations[r]
     /\ \A e \in Episodes : completions[e] # NoCompletion => completions'[e] = completions[e]
     /\ \A a \in Attempts, s \in SequenceNumbers :
          \/ checkpoints'[<<a, s>>] = checkpoints[<<a, s>>]
          \/ checkpoints[<<a, s>>] = None
             /\ attempts'[a].state = "active"
             /\ episodes'[attempts'[a].lineage.episode].current = a]_vars

\* A provider call whose outcome is unknown is never resolved, so it blocks its
\* episode for good: the episode is neither completed nor reconstructed.
UnknownProviderBlocks ==
  [][\A r \in Reservations : reservations[r].state = "unknown" =>
       LET e == reservations[r].lineage.episode IN
       /\ reservations'[r].state = "unknown"
       /\ episodes'[e].current = episodes[e].current
       /\ completions'[e] = completions[e]]_vars

\* The tables agree with one another: every row is well typed, an episode has the state of
\* its current attempt, a decision that of its reservation, and a completion the state and
\* a checkpoint of the attempt it completed (load_episode never finds a corrupt row).
RowsAgree == TypeOK /\ CurrentAttemptAgrees /\ ProviderLockstep /\ CompletionAnchored

\* Whatever still awaits an outcome belongs to the current attempt of an episode without a
\* completion: no reconstruction, completion or late mutator leaves it behind.
PendingAnchored == PendingIsCurrent /\ TerminalEpisodeQuiescent

\* No mutator takes back what another recorded: outcomes are final, and a provider call of
\* unknown outcome holds its episode.
StoreStepsSound == OutcomesFinal /\ UnknownProviderBlocks
=============================================================================
