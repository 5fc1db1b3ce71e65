------------------------ MODULE ExecutionStoreProofs ------------------------
(* Theorems about the execution store, for every value of its constants.   *)
EXTENDS ExecutionStore, TLAPS

USE DEF Lineages, NoLineage, AttemptStates, CompletionStatus, Exists,
        OperationStates, UnresolvedOperationStates, ResolvedOperationStates,
        DecisionStates, UnresolvedDecisionStates,
        ReservationStates, UnresolvedReservationStates,
        EpisodeRows, AttemptRows, OperationRows, DecisionRows, ReservationRows,
        CompletionRows, NoEpisode, NoAttempt, NoOperation, NoDecision, NoReservation, NoCompletion

IInv == /\ TypeOK
        /\ CurrentAttemptAgrees
        /\ ProviderLockstep
        /\ PendingIsCurrent
        /\ TerminalEpisodeQuiescent
        /\ CompletionAnchored

\* What the invariant says of an active episode.
LEMMA ActiveEpisode ==
  ASSUME IInv, NEW e \in Episodes, episodes[e].state = "active"
  PROVE  /\ episodes[e] \in EpisodeRows
         /\ attempts[episodes[e].current] \in AttemptRows
         /\ attempts[episodes[e].current].lineage =
              [run |-> episodes[e].run, episode |-> e, attempt |-> episodes[e].current]
         /\ completions[e] = NoCompletion
<1>1. episodes[e] \in EpisodeRows
  BY DEF IInv, TypeOK
<1>2. /\ attempts[episodes[e].current].state = "active"
      /\ attempts[episodes[e].current].lineage =
           [run |-> episodes[e].run, episode |-> e, attempt |-> episodes[e].current]
  BY <1>1 DEF IInv, CurrentAttemptAgrees
<1>3. attempts[episodes[e].current] \in AttemptRows
  BY <1>1, <1>2 DEF IInv, TypeOK
<1>4. completions[e] = NoCompletion
  <2>1. SUFFICES ASSUME completions[e] # NoCompletion PROVE FALSE
    OBVIOUS
  <2>2. completions[e] \in CompletionRows
    BY <2>1 DEF IInv, TypeOK
  <2>3. episodes[e] = [run |-> completions[e].lineage.run,
                       current |-> completions[e].lineage.attempt,
                       state |-> completions[e].status]
    BY <2>1 DEF IInv, CompletionAnchored
  <2>4. episodes[e].state = completions[e].status
    BY <2>3
  <2>5. QED
    BY <2>2, <2>4
<1>5. QED
  BY <1>1, <1>2, <1>3, <1>4

\* Every mutator of the store preserves the inductive invariant: one step per
\* mutator, and under it one step per conjunct.
LEMMA StepPreserves == IInv /\ [Next]_vars => IInv'
<1> USE ConstantsAssumption
<1> SUFFICES ASSUME IInv, [Next]_vars PROVE IInv'
  OBVIOUS
<1>1. ASSUME NEW l \in Lineages, NEW f \in Fingerprints, StartNewEpisode(l, f)
      PROVE  IInv'
  <2>1. TypeOK'
    BY <1>1 DEF IInv, CurrentAttemptAgrees, ProviderLockstep, StartNewEpisode, InsertAttempt, TypeOK
  <2>2. CurrentAttemptAgrees'
    BY <1>1 DEF IInv, CurrentAttemptAgrees, ProviderLockstep, StartNewEpisode, InsertAttempt, TypeOK
  <2>3. ProviderLockstep'
    BY <1>1 DEF IInv, CurrentAttemptAgrees, ProviderLockstep, StartNewEpisode, InsertAttempt, TypeOK
  <2>4. PendingIsCurrent'
    BY <1>1 DEF
        IInv, CurrentAttemptAgrees, ProviderLockstep, StartNewEpisode, InsertAttempt,
        UnresolvedOperation, UnresolvedDecision, UnresolvedReservation, PendingIsCurrent,
        TypeOK
  <2>5. TerminalEpisodeQuiescent'
    BY <1>1 DEF
        IInv, CurrentAttemptAgrees, ProviderLockstep, StartNewEpisode, InsertAttempt,
        NothingPending, PendingOperations, PendingDecisions, PendingReservations,
        UnresolvedOperation, UnresolvedDecision, UnresolvedReservation,
        TerminalEpisodeQuiescent, TypeOK
  <2>6. CompletionAnchored'
    BY <1>1 DEF
        IInv, CurrentAttemptAgrees, ProviderLockstep, StartNewEpisode, InsertAttempt,
        CompletionAnchored, TypeOK
  <2>7. QED
    BY <2>1, <2>2, <2>3, <2>4, <2>5, <2>6 DEF IInv
<1>2. ASSUME NEW l \in Lineages, NEW f \in Fingerprints, StartKnownEpisode(l, f)
      PROVE  IInv'
  <2>1. TypeOK'
    BY <1>2 DEF IInv, CurrentAttemptAgrees, ProviderLockstep, StartKnownEpisode, TypeOK
  <2>2. CurrentAttemptAgrees'
    BY <1>2 DEF IInv, CurrentAttemptAgrees, ProviderLockstep, StartKnownEpisode, TypeOK
  <2>3. ProviderLockstep'
    BY <1>2 DEF IInv, CurrentAttemptAgrees, ProviderLockstep, StartKnownEpisode, TypeOK
  <2>4. PendingIsCurrent'
    BY <1>2 DEF
        IInv, CurrentAttemptAgrees, ProviderLockstep, StartKnownEpisode,
        UnresolvedOperation, UnresolvedDecision, UnresolvedReservation, PendingIsCurrent,
        TypeOK
  <2>5. TerminalEpisodeQuiescent'
    BY <1>2 DEF
        IInv, CurrentAttemptAgrees, ProviderLockstep, StartKnownEpisode, NothingPending,
        PendingOperations, PendingDecisions, PendingReservations, UnresolvedOperation,
        UnresolvedDecision, UnresolvedReservation, TerminalEpisodeQuiescent, TypeOK
  <2>6. CompletionAnchored'
    BY <1>2 DEF
        IInv, CurrentAttemptAgrees, ProviderLockstep, StartKnownEpisode, CompletionAnchored,
        TypeOK
  <2>7. QED
    BY <2>1, <2>2, <2>3, <2>4, <2>5, <2>6 DEF IInv
<1>3. ASSUME NEW e \in Episodes, MarkInterruptedUnknown(e)
      PROVE  IInv'
  <2>0. /\ episodes[e] \in EpisodeRows
        /\ attempts[episodes[e].current] \in AttemptRows
        /\ attempts[episodes[e].current].lineage.episode = e
    <3>1. episodes[e].state = "active"
      BY <1>3 DEF MarkInterruptedUnknown
    <3>2. attempts[episodes[e].current].lineage =
            [run |-> episodes[e].run, episode |-> e, attempt |-> episodes[e].current]
      BY <3>1, ActiveEpisode
    <3>3. attempts[episodes[e].current].lineage.episode = e
      BY <3>2
    <3>4. QED
      BY <3>1, <3>3, ActiveEpisode
  <2>1. TypeOK'
    BY <1>3, <2>0 DEF IInv, TypeOK, MarkInterruptedUnknown, SetCurrentState
  <2>2. CurrentAttemptAgrees'
    BY <1>3, <2>0 DEF IInv, TypeOK, CurrentAttemptAgrees, MarkInterruptedUnknown, SetCurrentState
  <2>3. ProviderLockstep'
    BY <1>3 DEF
        IInv, CurrentAttemptAgrees, ProviderLockstep, MarkInterruptedUnknown,
        SetCurrentState, TypeOK
  <2>4. PendingIsCurrent'
    BY <1>3 DEF
        IInv, CurrentAttemptAgrees, ProviderLockstep, MarkInterruptedUnknown,
        SetCurrentState, UnresolvedOperation, UnresolvedDecision, UnresolvedReservation,
        PendingIsCurrent, TypeOK
  <2>5. TerminalEpisodeQuiescent'
    BY <1>3 DEF
        IInv, CurrentAttemptAgrees, ProviderLockstep, MarkInterruptedUnknown,
        SetCurrentState, NothingPending, PendingOperations, PendingDecisions,
        PendingReservations, UnresolvedOperation, UnresolvedDecision, UnresolvedReservation,
        TerminalEpisodeQuiescent, TypeOK
  <2>6. CompletionAnchored'
    BY <1>3 DEF
        IInv, CurrentAttemptAgrees, ProviderLockstep, MarkInterruptedUnknown,
        SetCurrentState, CompletionAnchored, TypeOK
  <2>7. QED
    BY <2>1, <2>2, <2>3, <2>4, <2>5, <2>6 DEF IInv
<1>4. ASSUME NEW l \in Lineages, NEW new \in Attempts, NEW s \in SequenceNumbers,
               NEW b \in Boundaries, NEW f \in Fingerprints, ReconstructAttempt(l, new, s, b, f)
      PROVE  IInv'
  <2>0. /\ episodes[l.episode] \in EpisodeRows
        /\ l.attempt # new
        /\ attempts[l.attempt] \in AttemptRows
        /\ attempts[l.attempt].lineage = l
        /\ completions[l.episode] = NoCompletion
    <3>1. /\ episodes[l.episode].state = "active"
          /\ episodes[l.episode].current = l.attempt
          /\ episodes[l.episode].run = l.run
      BY <1>4 DEF ReconstructAttempt, SupersedeAttempt, CurrentLineage
    <3>2. attempts[new] = NoAttempt
      BY <1>4 DEF IInv, TypeOK, ReconstructAttempt, SupersedeAttempt
    <3>3. QED
      BY <3>1, <3>2, ActiveEpisode
  <2>1. TypeOK'
    <3>1. attempts' \in [Attempts -> AttemptRows \union {NoAttempt}]
      BY <1>4, <2>0 DEF IInv, TypeOK, ReconstructAttempt, SupersedeAttempt, InsertAttempt
    <3>2. QED
      BY <1>4, <2>0, <3>1 DEF IInv, TypeOK, ReconstructAttempt, SupersedeAttempt
  <2>2. CurrentAttemptAgrees'
    <3>1. ASSUME NEW e \in Episodes, Exists(episodes'[e])
          PROVE  LET a == attempts'[episodes'[e].current] IN
                 /\ a.state = episodes'[e].state
                 /\ a.lineage = [run |-> episodes'[e].run, episode |-> e,
                                 attempt |-> episodes'[e].current]
      <4>1. CASE e = l.episode
        BY <1>4, <2>0, <4>1 DEF IInv, TypeOK, ReconstructAttempt, SupersedeAttempt, InsertAttempt
      <4>2. CASE e # l.episode
        <5>1. episodes'[e] = episodes[e]
          BY <1>4, <4>2 DEF IInv, TypeOK, ReconstructAttempt, SupersedeAttempt
        <5>2. episodes[e].current \notin {l.attempt, new}
          <6>1. /\ Exists(attempts[episodes[e].current])
                /\ attempts[episodes[e].current].lineage.episode = e
            <7>1. /\ attempts[episodes[e].current].state = episodes[e].state
                  /\ attempts[episodes[e].current].lineage =
                       [run |-> episodes[e].run, episode |-> e, attempt |-> episodes[e].current]
              BY <3>1, <5>1 DEF IInv, CurrentAttemptAgrees
            <7>2. QED
              BY <3>1, <5>1, <7>1
          <6>2. QED
            BY <1>4, <2>0, <4>2, <6>1 DEF ReconstructAttempt, SupersedeAttempt
        <5>3. QED
          BY <1>4, <3>1, <5>1, <5>2 DEF
              IInv, TypeOK, CurrentAttemptAgrees, ReconstructAttempt, SupersedeAttempt
      <4>3. QED
        BY <4>1, <4>2
    <3>2. ASSUME NEW a \in Attempts, Exists(attempts'[a])
          PROVE  \/ episodes'[attempts'[a].lineage.episode].current = a
                 \/ attempts'[a].state = "failed"
      BY <1>4, <2>0, <3>2 DEF
          IInv, TypeOK, CurrentAttemptAgrees, ReconstructAttempt, SupersedeAttempt,
          InsertAttempt,
                              CurrentLineage
    <3>3. QED
      BY <3>1, <3>2 DEF CurrentAttemptAgrees
  <2>3. ProviderLockstep'
    BY <1>4 DEF
        IInv, CurrentAttemptAgrees, ProviderLockstep, ReconstructAttempt, SupersedeAttempt,
        InsertAttempt, CurrentLineage, NothingPending, PendingOperations, PendingDecisions,
        PendingReservations, TypeOK
  <2>4. PendingIsCurrent'
    BY <1>4 DEF
        IInv, CurrentAttemptAgrees, ProviderLockstep, ReconstructAttempt, SupersedeAttempt,
        InsertAttempt, CurrentLineage, NothingPending, PendingOperations, PendingDecisions,
        PendingReservations, UnresolvedOperation, UnresolvedDecision, UnresolvedReservation,
        PendingIsCurrent, TypeOK
  <2>5. TerminalEpisodeQuiescent'
    BY <1>4 DEF
        IInv, CurrentAttemptAgrees, ProviderLockstep, ReconstructAttempt, SupersedeAttempt,
        InsertAttempt, CurrentLineage, NothingPending, PendingOperations, PendingDecisions,
        PendingReservations, UnresolvedOperation, UnresolvedDecision, UnresolvedReservation,
        TerminalEpisodeQuiescent, TypeOK
  <2>6. CompletionAnchored'
    BY <1>4, <2>0 DEF IInv, TypeOK, CompletionAnchored, ReconstructAttempt, SupersedeAttempt
  <2>7. QED
    BY <2>1, <2>2, <2>3, <2>4, <2>5, <2>6 DEF IInv
<1>5. ASSUME NEW l \in Lineages, NEW o \in Operations, NEW p \in Payloads,
               RecordOperationIntent(l, o, p)
      PROVE  IInv'
  <2>1. TypeOK'
    BY <1>5 DEF
        IInv, CurrentAttemptAgrees, ProviderLockstep, RecordOperationIntent, CurrentLineage,
        TypeOK
  <2>2. CurrentAttemptAgrees'
    BY <1>5 DEF
        IInv, CurrentAttemptAgrees, ProviderLockstep, RecordOperationIntent, CurrentLineage,
        TypeOK
  <2>3. ProviderLockstep'
    BY <1>5 DEF
        IInv, CurrentAttemptAgrees, ProviderLockstep, RecordOperationIntent, CurrentLineage,
        TypeOK
  <2>4. PendingIsCurrent'
    BY <1>5 DEF
        IInv, CurrentAttemptAgrees, ProviderLockstep, RecordOperationIntent, CurrentLineage,
        UnresolvedOperation, UnresolvedDecision, UnresolvedReservation, PendingIsCurrent,
        TypeOK
  <2>5. TerminalEpisodeQuiescent'
    <3>1. completions[l.episode] = NoCompletion
      BY <1>5, ActiveEpisode DEF RecordOperationIntent, CurrentLineage
    <3>2. QED
      BY <1>5, <3>1 DEF IInv, TypeOK, TerminalEpisodeQuiescent, RecordOperationIntent,
         NothingPending, PendingOperations, PendingDecisions, PendingReservations,
         UnresolvedOperation, UnresolvedDecision, UnresolvedReservation
  <2>6. CompletionAnchored'
    BY <1>5 DEF
        IInv, CurrentAttemptAgrees, ProviderLockstep, RecordOperationIntent, CurrentLineage,
        CompletionAnchored, TypeOK
  <2>7. QED
    BY <2>1, <2>2, <2>3, <2>4, <2>5, <2>6 DEF IInv
<1>6. ASSUME NEW o \in Operations, NEW p \in Payloads, NEW state \in OperationStates,
               NEW result \in Results \union {None}, TransitionOperation(o, p, state, result)
      PROVE  IInv'
  <2>1. TypeOK'
    <3>1. operations[o] \in OperationRows
      BY <1>6 DEF IInv, TypeOK, TransitionOperation
    <3>2. QED
      BY <1>6, <3>1 DEF IInv, TypeOK, TransitionOperation
  <2>2. CurrentAttemptAgrees'
    BY <1>6 DEF
        IInv, CurrentAttemptAgrees, ProviderLockstep, TransitionOperation, ValidTransition,
        TypeOK
  <2>3. ProviderLockstep'
    BY <1>6 DEF
        IInv, CurrentAttemptAgrees, ProviderLockstep, TransitionOperation, ValidTransition,
        TypeOK
  <2>4. PendingIsCurrent'
    BY <1>6 DEF
        IInv, CurrentAttemptAgrees, ProviderLockstep, TransitionOperation, ValidTransition,
        UnresolvedOperation, UnresolvedDecision, UnresolvedReservation, PendingIsCurrent,
        TypeOK
  <2>5. TerminalEpisodeQuiescent'
    BY <1>6 DEF
        IInv, CurrentAttemptAgrees, ProviderLockstep, TransitionOperation, ValidTransition,
        NothingPending, PendingOperations, PendingDecisions, PendingReservations,
        UnresolvedOperation, UnresolvedDecision, UnresolvedReservation,
        TerminalEpisodeQuiescent, TypeOK
  <2>6. CompletionAnchored'
    BY <1>6 DEF
        IInv, CurrentAttemptAgrees, ProviderLockstep, TransitionOperation, ValidTransition,
        CompletionAnchored, TypeOK
  <2>7. QED
    BY <2>1, <2>2, <2>3, <2>4, <2>5, <2>6 DEF IInv
<1>7. ASSUME NEW l \in Lineages, NEW d \in Decisions, RecordDecision(l, d)
      PROVE  IInv'
  <2>1. TypeOK'
    BY <1>7 DEF IInv, CurrentAttemptAgrees, ProviderLockstep, RecordDecision, CurrentLineage, TypeOK
  <2>2. CurrentAttemptAgrees'
    BY <1>7 DEF IInv, CurrentAttemptAgrees, ProviderLockstep, RecordDecision, CurrentLineage, TypeOK
  <2>3. ProviderLockstep'
    BY <1>7 DEF IInv, CurrentAttemptAgrees, ProviderLockstep, RecordDecision, CurrentLineage, TypeOK
  <2>4. PendingIsCurrent'
    BY <1>7 DEF
        IInv, CurrentAttemptAgrees, ProviderLockstep, RecordDecision, CurrentLineage,
        UnresolvedOperation, UnresolvedDecision, UnresolvedReservation, PendingIsCurrent,
        TypeOK
  <2>5. TerminalEpisodeQuiescent'
    <3>1. completions[l.episode] = NoCompletion
      BY <1>7, ActiveEpisode DEF RecordDecision, CurrentLineage
    <3>2. QED
      BY <1>7, <3>1 DEF IInv, TypeOK, TerminalEpisodeQuiescent, RecordDecision,
         NothingPending, PendingOperations, PendingDecisions, PendingReservations,
         UnresolvedOperation, UnresolvedDecision, UnresolvedReservation
  <2>6. CompletionAnchored'
    BY <1>7 DEF
        IInv, CurrentAttemptAgrees, ProviderLockstep, RecordDecision, CurrentLineage,
        CompletionAnchored, TypeOK
  <2>7. QED
    BY <2>1, <2>2, <2>3, <2>4, <2>5, <2>6 DEF IInv
<1>8. ASSUME NEW r \in Reservations, NEW d \in Decisions, NEW x \in ProviderExecutions,
               NEW u \in Units, ReserveProvider(r, d, x, u)
      PROVE  IInv'
  <2>1. TypeOK'
    BY <1>8 DEF IInv, CurrentAttemptAgrees, ProviderLockstep, ReserveProvider, TypeOK
  <2>2. CurrentAttemptAgrees'
    BY <1>8 DEF IInv, CurrentAttemptAgrees, ProviderLockstep, ReserveProvider, TypeOK
  <2>0. decisions[d].reservation = None /\ decisions[d] \in DecisionRows
    BY <1>8 DEF IInv, TypeOK, ProviderLockstep, ReserveProvider
  <2>3. ProviderLockstep'
    <3>1. \A v \in Reservations : Exists(reservations[v]) => reservations[v].decision # d
      BY <1>8 DEF ReserveProvider
    <3>2. \A v \in Reservations \ {r} : reservations'[v] = reservations[v]
      BY <1>8 DEF ReserveProvider, IInv, TypeOK
    <3>3. \A c \in Decisions \ {d} : decisions'[c] = decisions[c]
      BY <1>8 DEF ReserveProvider, IInv, TypeOK
    <3>4. /\ decisions'[d] = [decisions[d] EXCEPT !.reservation = r]
          /\ reservations'[r] = [decision |-> d, lineage |-> decisions[d].lineage, provider |-> x,
                                 reserved |-> u, actual |-> 0, state |-> "reserved"]
      BY <1>8 DEF ReserveProvider, IInv, TypeOK
    <3>5. decisions[d].state = "pending"
      BY <1>8, <2>0 DEF IInv, ProviderLockstep, ReserveProvider
    <3>6. 0 <= u
      BY DEF Units
    <3>7. QED
      BY <1>8, <2>0, <3>1, <3>2, <3>3, <3>4, <3>5, <3>6 DEF
          IInv, TypeOK, ProviderLockstep, ReserveProvider
  <2>4. PendingIsCurrent'
    BY <1>8 DEF
        IInv, CurrentAttemptAgrees, ProviderLockstep, ReserveProvider, UnresolvedOperation,
        UnresolvedDecision, UnresolvedReservation, PendingIsCurrent, TypeOK
  <2>5. TerminalEpisodeQuiescent'
    BY <1>8 DEF
        IInv, CurrentAttemptAgrees, ProviderLockstep, ReserveProvider, NothingPending,
        PendingOperations, PendingDecisions, PendingReservations, UnresolvedOperation,
        UnresolvedDecision, UnresolvedReservation, TerminalEpisodeQuiescent, TypeOK
  <2>6. CompletionAnchored'
    BY <1>8 DEF
        IInv, CurrentAttemptAgrees, ProviderLockstep, ReserveProvider, CompletionAnchored,
        TypeOK
  <2>7. QED
    BY <2>1, <2>2, <2>3, <2>4, <2>5, <2>6 DEF IInv
<1>9. ASSUME NEW r \in Reservations, NEW u \in Units \union {0},
               NEW state \in {"completed", "failed", "unknown"}, FinishProvider(r, state, u)
      PROVE  IInv'
  <2>0. /\ reservations[r] \in ReservationRows
        /\ decisions[reservations[r].decision] \in DecisionRows
    BY <1>9 DEF IInv, TypeOK, ProviderLockstep, FinishProvider
  <2>1. TypeOK'
    BY <1>9, <2>0 DEF IInv, TypeOK, FinishProvider
  <2>2. CurrentAttemptAgrees'
    BY <1>9 DEF IInv, CurrentAttemptAgrees, ProviderLockstep, FinishProvider, TypeOK
  <2>3. ProviderLockstep'
    BY <1>9 DEF IInv, CurrentAttemptAgrees, ProviderLockstep, FinishProvider, TypeOK
  <2>4. PendingIsCurrent'
    BY <1>9 DEF
        IInv, CurrentAttemptAgrees, ProviderLockstep, FinishProvider, UnresolvedOperation,
        UnresolvedDecision, UnresolvedReservation, PendingIsCurrent, TypeOK
  <2>5. TerminalEpisodeQuiescent'
    BY <1>9 DEF
        IInv, CurrentAttemptAgrees, ProviderLockstep, FinishProvider, NothingPending,
        PendingOperations, PendingDecisions, PendingReservations, UnresolvedOperation,
        UnresolvedDecision, UnresolvedReservation, TerminalEpisodeQuiescent, TypeOK
  <2>6. CompletionAnchored'
    BY <1>9 DEF
        IInv, CurrentAttemptAgrees, ProviderLockstep, FinishProvider, CompletionAnchored,
        TypeOK
  <2>7. QED
    BY <2>1, <2>2, <2>3, <2>4, <2>5, <2>6 DEF IInv
<1>10. ASSUME NEW l \in Lineages, NEW s \in SequenceNumbers, NEW b \in Boundaries,
               NEW f \in Fingerprints, SaveCheckpoint(l, s, b, f)
      PROVE  IInv'
  <2>1. TypeOK'
    BY <1>10 DEF
        IInv, CurrentAttemptAgrees, ProviderLockstep, SaveCheckpoint, CurrentLineage, TypeOK
  <2>2. CurrentAttemptAgrees'
    BY <1>10 DEF
        IInv, CurrentAttemptAgrees, ProviderLockstep, SaveCheckpoint, CurrentLineage, TypeOK
  <2>3. ProviderLockstep'
    BY <1>10 DEF
        IInv, CurrentAttemptAgrees, ProviderLockstep, SaveCheckpoint, CurrentLineage, TypeOK
  <2>4. PendingIsCurrent'
    BY <1>10 DEF
        IInv, CurrentAttemptAgrees, ProviderLockstep, SaveCheckpoint, CurrentLineage,
        UnresolvedOperation, UnresolvedDecision, UnresolvedReservation, PendingIsCurrent,
        TypeOK
  <2>5. TerminalEpisodeQuiescent'
    BY <1>10 DEF
        IInv, CurrentAttemptAgrees, ProviderLockstep, SaveCheckpoint, CurrentLineage,
        NothingPending, PendingOperations, PendingDecisions, PendingReservations,
        UnresolvedOperation, UnresolvedDecision, UnresolvedReservation,
        TerminalEpisodeQuiescent, TypeOK
  <2>6. CompletionAnchored'
    BY <1>10 DEF
        IInv, CurrentAttemptAgrees, ProviderLockstep, SaveCheckpoint, CurrentLineage,
        CompletionAnchored, TypeOK
  <2>7. QED
    BY <2>1, <2>2, <2>3, <2>4, <2>5, <2>6 DEF IInv
<1>11. ASSUME NEW l \in Lineages, NEW status \in CompletionStatus,
               NEW s \in SequenceNumbers, NEW result \in Results,
               RecordCompletion(l, status, s, result)
      PROVE  IInv'
  <2>0. /\ episodes[l.episode] \in EpisodeRows
        /\ episodes[l.episode].current = l.attempt
        /\ attempts[l.attempt] \in AttemptRows
        /\ attempts[l.attempt].lineage = l
    BY <1>11 DEF IInv, TypeOK, CurrentAttemptAgrees, RecordCompletion, CurrentLineage
  <2>1. TypeOK'
    BY <1>11, <2>0 DEF IInv, TypeOK, RecordCompletion, SetCurrentState
  <2>2. CurrentAttemptAgrees'
    BY <1>11 DEF
        IInv, CurrentAttemptAgrees, ProviderLockstep, RecordCompletion, SetCurrentState,
        CurrentLineage, NothingPending, TypeOK
  <2>3. ProviderLockstep'
    BY <1>11 DEF
        IInv, CurrentAttemptAgrees, ProviderLockstep, RecordCompletion, SetCurrentState,
        CurrentLineage, NothingPending, TypeOK
  <2>4. PendingIsCurrent'
    BY <1>11 DEF
        IInv, CurrentAttemptAgrees, ProviderLockstep, RecordCompletion, SetCurrentState,
        CurrentLineage, NothingPending, UnresolvedOperation, UnresolvedDecision,
        UnresolvedReservation, PendingIsCurrent, TypeOK
  <2>5. TerminalEpisodeQuiescent'
    BY <1>11 DEF
        IInv, CurrentAttemptAgrees, ProviderLockstep, RecordCompletion, SetCurrentState,
        CurrentLineage, NothingPending, PendingOperations, PendingDecisions,
        PendingReservations, UnresolvedOperation, UnresolvedDecision, UnresolvedReservation,
        TerminalEpisodeQuiescent, TypeOK
  <2>6. CompletionAnchored'
    <3>1. episodes'[l.episode] = [run |-> l.run, current |-> l.attempt, state |-> status]
      BY <1>11, <2>0 DEF RecordCompletion, SetCurrentState, CurrentLineage, IInv, TypeOK
    <3>2. \A e \in Episodes \ {l.episode} :
            episodes'[e] = episodes[e] /\ completions'[e] = completions[e]
      BY <1>11 DEF RecordCompletion, SetCurrentState, IInv, TypeOK
    <3>3. /\ completions'[l.episode] =
               [lineage |-> l, status |-> status, sequence |-> s, result |-> result]
          /\ checkpoints'[<<l.attempt, s>>] # None
          /\ checkpoints' = checkpoints
      BY <1>11 DEF RecordCompletion, IInv, TypeOK
    <3>4. ASSUME NEW e \in Episodes
          PROVE  IF completions'[e] = NoCompletion
                 THEN episodes'[e].state \in {"absent", "active", "interrupted_unknown"}
                 ELSE /\ episodes'[e] = [run |-> completions'[e].lineage.run,
                                         current |-> completions'[e].lineage.attempt,
                                         state |-> completions'[e].status]
                      /\ completions'[e].lineage.episode = e
                      /\ checkpoints'[<<completions'[e].lineage.attempt,
                                        completions'[e].sequence>>] # None
      <4>1. CASE e = l.episode
        BY <3>1, <3>3, <4>1
      <4>2. CASE e # l.episode
        BY <3>2, <3>3, <4>2 DEF IInv, CompletionAnchored
      <4>3. QED
        BY <4>1, <4>2
    <3>5. QED
      BY <3>4 DEF CompletionAnchored
  <2>7. QED
    BY <2>1, <2>2, <2>3, <2>4, <2>5, <2>6 DEF IInv
<1>12. CASE UNCHANGED vars
  BY <1>12 DEF IInv, vars, TypeOK, CurrentAttemptAgrees, ProviderLockstep, PendingIsCurrent,
     TerminalEpisodeQuiescent, CompletionAnchored, NothingPending, PendingOperations,
     PendingDecisions, PendingReservations, UnresolvedOperation, UnresolvedDecision,
     UnresolvedReservation
<1>13. QED
    BY <1>1, <1>2, <1>3, <1>4, <1>5, <1>6, <1>7, <1>8, <1>9, <1>10, <1>11, <1>12
    DEF Next, EpisodeStep, OperationStep, ProviderStep, CheckpointStep,
        RecordRecoveryDisposition, MarkInterruptedUnknown, MarkOperationDispatched,
        RecordOperationResult, ReconcileOperation, CompleteProvider, FailProvider,
        MarkProviderUnknown

(***************************************************************************)
(* The tables keep their schema, the current attempt agrees with its       *)
(* episode, decisions and reservations stay in step, whatever is pending   *)
(* belongs to the current attempt, and a terminal episode has a completion *)
(* anchored in its last attempt and nothing pending.                       *)
(***************************************************************************)
THEOREM StoreInvariant == Spec => []IInv
<1>1. Init => IInv
  BY ConstantsAssumption DEF Init, IInv, TypeOK, CurrentAttemptAgrees, ProviderLockstep,
     PendingIsCurrent, TerminalEpisodeQuiescent, CompletionAnchored, UnresolvedOperation,
     UnresolvedDecision, UnresolvedReservation
<1>2. QED
  BY <1>1, StepPreserves, PTL DEF Spec

\* Every mutator keeps every table within its schema.
THEOREM TypeCorrect == Spec => []TypeOK
BY StoreInvariant, PTL DEF IInv

\* load_episode never reports Corrupt for what the store itself wrote.
THEOREM AttemptsAgree == Spec => []CurrentAttemptAgrees
BY StoreInvariant, PTL DEF IInv

\* Nothing that awaits an outcome is left behind in a superseded attempt.
THEOREM NothingEvaded == Spec => []PendingIsCurrent
BY StoreInvariant, PTL DEF IInv

\* An episode that has completed has nothing in flight, then or ever after.
THEOREM TerminalQuiescence == Spec => []TerminalEpisodeQuiescent
BY StoreInvariant, PTL DEF IInv

\* A reservation and its decision always tell the same story, and no call is
\* charged above its reservation.
THEOREM ProviderAgreement == Spec => []ProviderLockstep
BY StoreInvariant, PTL DEF IInv

\* A completion always names the last attempt of its episode and a checkpoint of
\* that attempt, and a terminal episode always has one.
THEOREM CompletionsAnchored == Spec => []CompletionAnchored
BY StoreInvariant, PTL DEF IInv

\* The tables agree with one another, whatever the order of the mutators.
THEOREM TablesAgree == Spec => []RowsAgree
BY TypeCorrect, AttemptsAgree, ProviderAgreement, CompletionsAnchored, PTL DEF RowsAgree

\* What still awaits an outcome belongs to the current attempt of an episode that is
\* not completed: neither a completion nor a reconstruction leaves it behind.
THEOREM PendingStaysAnchored == Spec => []PendingAnchored
BY NothingEvaded, TerminalQuiescence, PTL DEF PendingAnchored

\* A provider call whose outcome is unknown stays unknown and pins its episode:
\* no mutator completes the episode or replaces its current attempt.
THEOREM UnknownIsAbsorbing == Spec => UnknownProviderBlocks
<1> DEFINE Blocks == \A r \in Reservations : reservations[r].state = "unknown" =>
                       LET e == reservations[r].lineage.episode IN
                       /\ reservations'[r].state = "unknown"
                       /\ episodes'[e].current = episodes[e].current
                       /\ completions'[e] = completions[e]
<1>1. IInv /\ Next => Blocks
  <2> SUFFICES ASSUME IInv, Next, NEW r \in Reservations, reservations[r].state = "unknown"
               PROVE  LET e == reservations[r].lineage.episode IN
                      /\ reservations'[r].state = "unknown"
                      /\ episodes'[e].current = episodes[e].current
                      /\ completions'[e] = completions[e]
    OBVIOUS
  <2> DEFINE ep == reservations[r].lineage.episode
  <2>1. /\ reservations[r] \in ReservationRows
        /\ ep \in Episodes
        /\ ~NothingPending(ep)
    BY DEF IInv, TypeOK, NothingPending, PendingReservations, UnresolvedReservation
  <2>2. Exists(episodes[ep])
    <3>1. UnresolvedReservation(r)
      BY DEF UnresolvedReservation
    <3>2. reservations[r].lineage.attempt = episodes[ep].current
      BY <3>1 DEF IInv, PendingIsCurrent
    <3>3. episodes[ep].current \in Attempts
      BY <2>1, <3>2
    <3>4. episodes[ep] # NoEpisode
      BY <3>3, ConstantsAssumption
    <3>5. episodes[ep] \in EpisodeRows
      BY <2>1, <3>4 DEF IInv, TypeOK
    <3>6. QED
      BY <3>5
  <2> HIDE DEF ep
  <2>3. reservations'[r].state = "unknown"
    BY <2>1 DEF IInv, TypeOK, Next, EpisodeStep, OperationStep, ProviderStep, CheckpointStep,
       StartNewEpisode, StartKnownEpisode, MarkInterruptedUnknown, RecordRecoveryDisposition,
       ReconstructAttempt, SupersedeAttempt, RecordOperationIntent, TransitionOperation,
       MarkOperationDispatched,
       RecordOperationResult, ReconcileOperation, RecordDecision, ReserveProvider,
       FinishProvider, CompleteProvider, FailProvider, MarkProviderUnknown, SaveCheckpoint,
       RecordCompletion
  <2>4. completions'[ep] = completions[ep]
    BY <2>1 DEF IInv, TypeOK, Next, EpisodeStep, OperationStep, ProviderStep, CheckpointStep,
       StartNewEpisode, StartKnownEpisode, MarkInterruptedUnknown, RecordRecoveryDisposition,
       ReconstructAttempt, SupersedeAttempt, RecordOperationIntent, TransitionOperation,
       MarkOperationDispatched,
       RecordOperationResult, ReconcileOperation, RecordDecision, ReserveProvider,
       FinishProvider, CompleteProvider, FailProvider, MarkProviderUnknown, SaveCheckpoint,
       RecordCompletion
  <2>5. episodes'[ep].current = episodes[ep].current
    <3>0. episodes \in [Episodes -> EpisodeRows \union {NoEpisode}]
      BY DEF IInv, TypeOK
    <3>1. ASSUME NEW l \in Lineages, NEW f \in Fingerprints, StartNewEpisode(l, f)
          PROVE  episodes'[ep] = episodes[ep]
      BY <2>1, <2>2, <3>0, <3>1 DEF StartNewEpisode
    <3>2. ASSUME NEW e \in Episodes, NEW state, SetCurrentState(e, state)
          PROVE  episodes'[ep].current = episodes[ep].current
      <4>1. CASE e = ep
        <5>1. episodes[ep] \in EpisodeRows
          BY <2>1, <2>2, <3>0
        <5>2. episodes'[ep] = [episodes[ep] EXCEPT !.state = state]
          BY <2>1, <3>0, <3>2, <4>1 DEF SetCurrentState
        <5>3. QED
          BY <5>1, <5>2
      <4>2. CASE e # ep
        BY <2>1, <3>0, <3>2, <4>2 DEF SetCurrentState
      <4>3. QED
        BY <4>1, <4>2
    <3>3. ASSUME NEW l \in Lineages, NEW new \in Attempts, NEW s \in SequenceNumbers,
                 NEW b \in Boundaries, NEW f \in Fingerprints,
                 ReconstructAttempt(l, new, s, b, f)
          PROVE  episodes'[ep] = episodes[ep]
      BY <2>1, <3>0, <3>3 DEF ReconstructAttempt, SupersedeAttempt
    <3>4. QED
      BY <3>1, <3>2, <3>3 DEF Next, EpisodeStep, OperationStep, ProviderStep,
         CheckpointStep, StartKnownEpisode, MarkInterruptedUnknown,
         RecordRecoveryDisposition, RecordOperationIntent, TransitionOperation,
         MarkOperationDispatched, RecordOperationResult, ReconcileOperation, RecordDecision,
         ReserveProvider, FinishProvider, CompleteProvider, FailProvider,
         MarkProviderUnknown, SaveCheckpoint, RecordCompletion
  <2>6. QED
    BY <2>3, <2>4, <2>5 DEF ep
<1>2. IInv /\ [Next]_vars => [Blocks]_vars
  BY <1>1
<1> HIDE DEF Blocks
<1>3. Spec => [][Blocks]_vars
  BY <1>2, StoreInvariant, PTL DEF Spec
<1>4. QED
  BY <1>3 DEF Blocks, UnknownProviderBlocks

\* A checkpoint belongs to an attempt the store holds, so an attempt that
\* reconstruct_attempt is about to insert has none yet.
CheckpointsOwned ==
  \A a \in Attempts, s \in SequenceNumbers : checkpoints[<<a, s>>] # None => Exists(attempts[a])

\* No mutator leaves a checkpoint of an attempt that is not stored.
LEMMA OwnedCheckpoints == Spec => []CheckpointsOwned
<1>1. Init => CheckpointsOwned
  BY DEF Init, CheckpointsOwned
<1>2. IInv /\ CheckpointsOwned /\ [Next]_vars => CheckpointsOwned'
  <2> SUFFICES ASSUME IInv, CheckpointsOwned, [Next]_vars,
                      NEW a \in Attempts, NEW s \in SequenceNumbers,
                      checkpoints'[<<a, s>>] # None
               PROVE  Exists(attempts'[a])
    BY DEF CheckpointsOwned
  <2>1. \A x \in Attempts : Exists(attempts[x]) => Exists(attempts'[x])
    <3>0. attempts \in [Attempts -> AttemptRows \union {NoAttempt}]
      BY DEF IInv, TypeOK
    <3>1. ASSUME NEW l \in Lineages, NEW f \in Fingerprints, StartNewEpisode(l, f)
          PROVE  \A x \in Attempts : Exists(attempts[x]) => Exists(attempts'[x])
      BY <3>0, <3>1 DEF StartNewEpisode
    <3>2. ASSUME NEW e \in Episodes, NEW state, state # "absent", SetCurrentState(e, state)
          PROVE  \A x \in Attempts : Exists(attempts[x]) => Exists(attempts'[x])
      BY <3>0, <3>2 DEF SetCurrentState
    <3>3. ASSUME NEW l \in Lineages, NEW new \in Attempts, NEW k \in SequenceNumbers,
                 NEW b \in Boundaries, NEW f \in Fingerprints,
                 ReconstructAttempt(l, new, k, b, f)
          PROVE  \A x \in Attempts : Exists(attempts[x]) => Exists(attempts'[x])
      BY <3>0, <3>3 DEF ReconstructAttempt, SupersedeAttempt, InsertAttempt
    <3>4. QED
      BY <3>1, <3>2, <3>3 DEF vars, Next, EpisodeStep, OperationStep, ProviderStep,
         CheckpointStep, StartKnownEpisode, MarkInterruptedUnknown,
         RecordRecoveryDisposition, RecordOperationIntent, TransitionOperation,
         MarkOperationDispatched, RecordOperationResult, ReconcileOperation, RecordDecision,
         ReserveProvider, FinishProvider, CompleteProvider, FailProvider,
         MarkProviderUnknown, SaveCheckpoint, RecordCompletion
  <2>2. checkpoints[<<a, s>>] # None \/ Exists(attempts'[a])
    <3>0. checkpoints \in [Attempts \X SequenceNumbers -> Boundaries \union {None}]
      BY DEF IInv, TypeOK
    <3>1. ASSUME NEW l \in Lineages, NEW k \in SequenceNumbers, NEW b \in Boundaries,
                 NEW f \in Fingerprints, SaveCheckpoint(l, k, b, f)
          PROVE  checkpoints[<<a, s>>] # None \/ Exists(attempts'[a])
      <4>1. CurrentLineage(l)
        BY <3>1 DEF SaveCheckpoint
      <4>2. episodes[l.episode].current = l.attempt /\ episodes[l.episode].state = "active"
        BY <4>1 DEF CurrentLineage
      <4>3. attempts[l.attempt].state = "active"
        BY <4>2 DEF IInv, CurrentAttemptAgrees
      <4>4. Exists(attempts'[l.attempt])
        BY <2>1, <4>3
      <4>5. CASE a = l.attempt
        BY <4>4, <4>5
      <4>6. CASE a # l.attempt
        <5>1. checkpoints'[<<a, s>>] = checkpoints[<<a, s>>]
          BY <3>0, <3>1, <4>6 DEF SaveCheckpoint
        <5>2. QED
          BY <5>1
      <4>7. QED
        BY <4>5, <4>6
    <3>2. ASSUME NEW l \in Lineages, NEW new \in Attempts, NEW k \in SequenceNumbers,
                 NEW b \in Boundaries, NEW f \in Fingerprints,
                 ReconstructAttempt(l, new, k, b, f)
          PROVE  checkpoints[<<a, s>>] # None \/ Exists(attempts'[a])
      <4>1. CASE a = new
        BY <3>2, <4>1 DEF ReconstructAttempt, SupersedeAttempt, InsertAttempt, IInv, TypeOK
      <4>2. CASE a # new
        <5>1. checkpoints'[<<a, s>>] = checkpoints[<<a, s>>]
          BY <3>0, <3>2, <4>2 DEF ReconstructAttempt, SupersedeAttempt
        <5>2. QED
          BY <5>1
      <4>3. QED
        BY <4>1, <4>2
    <3>3. QED
      BY <3>1, <3>2 DEF vars, Next, EpisodeStep, OperationStep, ProviderStep, CheckpointStep,
         StartNewEpisode, StartKnownEpisode, MarkInterruptedUnknown,
         RecordRecoveryDisposition, RecordOperationIntent, TransitionOperation,
         MarkOperationDispatched, RecordOperationResult, ReconcileOperation, RecordDecision,
         ReserveProvider, FinishProvider, CompleteProvider, FailProvider,
         MarkProviderUnknown, RecordCompletion
  <2>3. QED
    BY <2>1, <2>2 DEF CheckpointsOwned
<1>3. QED
  BY <1>1, <1>2, StoreInvariant, PTL DEF Spec

\* What is resolved stays resolved: no mutator rewrites a resolved operation, a
\* finished provider call, a completion or a checkpoint, and a checkpoint is only
\* ever added to the active current attempt of an episode.
THEOREM ResolvedIsFinal == Spec => OutcomesFinal
<1> DEFINE OperationsFinal ==
      \A o \in Operations : operations[o].state \in ResolvedOperationStates =>
        operations'[o] = operations[o]
<1> DEFINE ProvidersFinal ==
      \A r \in Reservations : reservations[r].state \in {"completed", "failed", "unknown"} =>
        reservations'[r] = reservations[r]
<1> DEFINE CompletionsFinal ==
      \A e \in Episodes : completions[e] # NoCompletion => completions'[e] = completions[e]
<1> DEFINE CheckpointsFinal ==
      \A a \in Attempts, s \in SequenceNumbers :
        \/ checkpoints'[<<a, s>>] = checkpoints[<<a, s>>]
        \/ checkpoints[<<a, s>>] = None
           /\ attempts'[a].state = "active"
           /\ episodes'[attempts'[a].lineage.episode].current = a
<1> DEFINE Final == /\ OperationsFinal
                    /\ ProvidersFinal
                    /\ CompletionsFinal
                    /\ CheckpointsFinal
<1>1. IInv /\ CheckpointsOwned /\ Next => Final
  <2> SUFFICES ASSUME IInv, CheckpointsOwned, Next PROVE Final
    OBVIOUS
  <2>1. OperationsFinal
    <3>1. ASSUME NEW o \in Operations, NEW p \in Payloads, NEW next, NEW result,
                 TransitionOperation(o, p, next, result)
          PROVE  OperationsFinal
      BY <3>1 DEF IInv, TypeOK, TransitionOperation, ValidTransition
    <3>2. QED
      BY <3>1 DEF IInv, TypeOK, Next, EpisodeStep, OperationStep, ProviderStep, CheckpointStep,
         StartNewEpisode, StartKnownEpisode, MarkInterruptedUnknown, RecordRecoveryDisposition,
         ReconstructAttempt, SupersedeAttempt, RecordOperationIntent, MarkOperationDispatched,
         RecordOperationResult, ReconcileOperation, RecordDecision, ReserveProvider,
         FinishProvider, CompleteProvider, FailProvider, MarkProviderUnknown, SaveCheckpoint,
         RecordCompletion
  <2>2. ProvidersFinal
    BY DEF IInv, TypeOK, Next, EpisodeStep, OperationStep, ProviderStep, CheckpointStep,
       StartNewEpisode, StartKnownEpisode, MarkInterruptedUnknown, RecordRecoveryDisposition,
       ReconstructAttempt, SupersedeAttempt, RecordOperationIntent, TransitionOperation,
       MarkOperationDispatched,
       RecordOperationResult, ReconcileOperation, RecordDecision, ReserveProvider,
       FinishProvider, CompleteProvider, FailProvider, MarkProviderUnknown, SaveCheckpoint,
       RecordCompletion
  <2>3. CompletionsFinal
    BY DEF IInv, TypeOK, Next, EpisodeStep, OperationStep, ProviderStep, CheckpointStep,
       StartNewEpisode, StartKnownEpisode, MarkInterruptedUnknown, RecordRecoveryDisposition,
       ReconstructAttempt, SupersedeAttempt, RecordOperationIntent, TransitionOperation,
       MarkOperationDispatched,
       RecordOperationResult, ReconcileOperation, RecordDecision, ReserveProvider,
       FinishProvider, CompleteProvider, FailProvider, MarkProviderUnknown, SaveCheckpoint,
       RecordCompletion
  <2>4. CheckpointsFinal
    <3>1. ASSUME NEW l \in Lineages, NEW s \in SequenceNumbers, NEW b \in Boundaries,
                 NEW f \in Fingerprints, SaveCheckpoint(l, s, b, f)
          PROVE  CheckpointsFinal
      <4>1. /\ episodes[l.episode].current = l.attempt
            /\ episodes[l.episode].state = "active"
            /\ episodes[l.episode].run = l.run
        BY <3>1 DEF SaveCheckpoint, CurrentLineage
      <4>2. /\ attempts[l.attempt].lineage =
                 [run |-> episodes[l.episode].run, episode |-> l.episode, attempt |-> l.attempt]
            /\ attempts[l.attempt].state = "active"
        BY <4>1 DEF IInv, CurrentAttemptAgrees
      <4>3. attempts'[l.attempt].lineage.episode = l.episode
        BY <3>1, <4>2 DEF SaveCheckpoint
      <4>4. \A k \in Attempts \X SequenceNumbers : k # <<l.attempt, s>> =>
              checkpoints'[k] = checkpoints[k]
        BY <3>1 DEF SaveCheckpoint, IInv, TypeOK
      <4>5. QED
        BY <3>1, <4>1, <4>2, <4>3, <4>4 DEF SaveCheckpoint
    <3>2. ASSUME NEW l \in Lineages, NEW new \in Attempts, NEW s \in SequenceNumbers,
                 NEW b \in Boundaries, NEW f \in Fingerprints,
                 ReconstructAttempt(l, new, s, b, f)
          PROVE  CheckpointsFinal
      <4>0. checkpoints[<<new, s>>] = None
        BY <3>2 DEF ReconstructAttempt, SupersedeAttempt, CheckpointsOwned
      <4>1. /\ attempts'[new].state = "active"
            /\ attempts'[new].lineage.episode = l.episode
            /\ episodes'[l.episode].current = new
        BY <3>2 DEF ReconstructAttempt, SupersedeAttempt, InsertAttempt, IInv, TypeOK
      <4>2. \A k \in Attempts \X SequenceNumbers : k # <<new, s>> =>
              checkpoints'[k] = checkpoints[k]
        BY <3>2 DEF ReconstructAttempt, SupersedeAttempt, IInv, TypeOK
      <4>3. QED
        BY <4>0, <4>1, <4>2
    <3>3. QED
      BY <3>1, <3>2 DEF Next, EpisodeStep, OperationStep, ProviderStep, CheckpointStep,
         StartNewEpisode, StartKnownEpisode, MarkInterruptedUnknown, RecordRecoveryDisposition,
         RecordOperationIntent, TransitionOperation, MarkOperationDispatched,
         RecordOperationResult, ReconcileOperation, RecordDecision, ReserveProvider,
         FinishProvider, CompleteProvider, FailProvider, MarkProviderUnknown, RecordCompletion
  <2>5. QED
    BY <2>1, <2>2, <2>3, <2>4
<1>2. IInv /\ CheckpointsOwned /\ [Next]_vars => [Final]_vars
  BY <1>1
<1> HIDE DEF Final
<1>3. Spec => [][Final]_vars
  BY <1>2, StoreInvariant, OwnedCheckpoints, PTL DEF Spec
<1>4. QED
  BY <1>3 DEF Final, OutcomesFinal

\* No mutator takes back what another recorded: outcomes are final, and a provider call of
\* unknown outcome holds its episode.
THEOREM StoreStepsStaySound == Spec => StoreStepsSound
BY ResolvedIsFinal, UnknownIsAbsorbing DEF StoreStepsSound

\* A completion is never rewritten: only an active episode gets one, and has none.
LEMMA CompletionKept ==
  ASSUME IInv, [Next]_vars, NEW e \in Episodes, completions[e] # NoCompletion
  PROVE  completions'[e] = completions[e]
BY DEF IInv, TypeOK, Next, EpisodeStep, OperationStep, ProviderStep, CheckpointStep,
   StartNewEpisode, StartKnownEpisode, MarkInterruptedUnknown, RecordRecoveryDisposition,
   ReconstructAttempt, SupersedeAttempt, RecordOperationIntent, TransitionOperation,
   MarkOperationDispatched,
   RecordOperationResult, ReconcileOperation, RecordDecision, ReserveProvider,
   FinishProvider, CompleteProvider, FailProvider, MarkProviderUnknown, SaveCheckpoint,
   RecordCompletion, vars

\* What one mutator does to the attempts: it leaves a failed attempt, and the
\* attempts reconstructed from it, alone, and keeps every checkpoint.
LEMMA FailedAttemptsKept ==
  ASSUME IInv, CheckpointsOwned, Next
  PROVE  /\ \A p \in Attempts : attempts[p].state = "failed" => attempts'[p] = attempts[p]
         /\ \A k \in Attempts \X SequenceNumbers :
              checkpoints[k] # None => checkpoints'[k] = checkpoints[k]
<1>0. /\ attempts \in [Attempts -> AttemptRows \union {NoAttempt}]
      /\ checkpoints \in [Attempts \X SequenceNumbers -> Boundaries \union {None}]
  BY DEF IInv, TypeOK
<1>1. \A p \in Attempts : attempts[p].state = "failed" => attempts'[p] = attempts[p]
  <2> SUFFICES ASSUME NEW p \in Attempts, attempts[p].state = "failed"
               PROVE  attempts'[p] = attempts[p]
    OBVIOUS
  <2>1. ASSUME NEW l \in Lineages, NEW f \in Fingerprints, StartNewEpisode(l, f)
        PROVE  attempts'[p] = attempts[p]
    BY <1>0, <2>1 DEF StartNewEpisode
  <2>2. ASSUME NEW e \in Episodes, NEW state, episodes[e].state = "active",
               SetCurrentState(e, state)
        PROVE  attempts'[p] = attempts[p]
    <3>1. attempts[episodes[e].current].state = "active"
      BY <2>2 DEF IInv, CurrentAttemptAgrees
    <3>2. QED
      BY <1>0, <2>2, <3>1 DEF SetCurrentState
  <2>3. ASSUME NEW l \in Lineages, NEW new \in Attempts, NEW k \in SequenceNumbers,
               NEW b \in Boundaries, NEW f \in Fingerprints,
               ReconstructAttempt(l, new, k, b, f)
        PROVE  attempts'[p] = attempts[p]
    <3>1. episodes[l.episode].current = l.attempt /\ episodes[l.episode].state = "active"
      BY <2>3 DEF ReconstructAttempt, SupersedeAttempt, CurrentLineage
    <3>2. attempts[l.attempt].state = "active"
      BY <3>1 DEF IInv, CurrentAttemptAgrees
    <3>3. p # l.attempt /\ p # new
      BY <2>3, <3>2 DEF ReconstructAttempt, SupersedeAttempt
    <3>4. QED
      BY <1>0, <2>3, <3>3 DEF ReconstructAttempt, SupersedeAttempt
  <2>4. ASSUME NEW l \in Lineages, NEW status, NEW s \in SequenceNumbers, NEW result,
               RecordCompletion(l, status, s, result)
        PROVE  attempts'[p] = attempts[p]
    <3>1. episodes[l.episode].state = "active" /\ l.episode \in Episodes
      BY <2>4 DEF RecordCompletion, CurrentLineage
    <3>2. QED
      BY <2>2, <2>4, <3>1 DEF RecordCompletion
  <2>5. QED
    BY <2>1, <2>2, <2>3, <2>4 DEF vars, Next, EpisodeStep, OperationStep, ProviderStep,
       CheckpointStep, StartKnownEpisode, MarkInterruptedUnknown,
       RecordRecoveryDisposition, RecordOperationIntent, TransitionOperation,
       MarkOperationDispatched, RecordOperationResult, ReconcileOperation, RecordDecision,
       ReserveProvider, FinishProvider, CompleteProvider, FailProvider,
       MarkProviderUnknown, SaveCheckpoint
<1>2. \A k \in Attempts \X SequenceNumbers :
        checkpoints[k] # None => checkpoints'[k] = checkpoints[k]
  <2>1. ASSUME NEW l \in Lineages, NEW new \in Attempts, NEW s \in SequenceNumbers,
               NEW b \in Boundaries, NEW f \in Fingerprints,
               ReconstructAttempt(l, new, s, b, f)
        PROVE  \A k \in Attempts \X SequenceNumbers :
                 checkpoints[k] # None => checkpoints'[k] = checkpoints[k]
    <3>1. checkpoints[<<new, s>>] = None
      BY <2>1 DEF ReconstructAttempt, SupersedeAttempt, CheckpointsOwned
    <3>2. QED
      BY <1>0, <2>1, <3>1 DEF ReconstructAttempt, SupersedeAttempt
  <2>2. QED
    BY <1>0, <2>1 DEF Next, EpisodeStep, OperationStep, ProviderStep, CheckpointStep,
       StartNewEpisode, StartKnownEpisode, MarkInterruptedUnknown, RecordRecoveryDisposition,
       RecordOperationIntent, TransitionOperation, MarkOperationDispatched,
       RecordOperationResult, ReconcileOperation, RecordDecision, ReserveProvider,
       FinishProvider, CompleteProvider, FailProvider, MarkProviderUnknown, SaveCheckpoint,
       RecordCompletion
<1>3. QED
  BY <1>1, <1>2

\* Only the reconstruction of an attempt gives an attempt a parent: every other
\* mutator leaves lineage, parent and fingerprint of every stored attempt alone and
\* inserts attempts without a parent.
LEMMA ParentsKept ==
  ASSUME IInv, Next, NEW a \in Attempts, attempts'[a].parent # None
  PROVE  \/ /\ attempts[a].parent = attempts'[a].parent
            /\ attempts[a].lineage = attempts'[a].lineage
            /\ attempts[a].fingerprint = attempts'[a].fingerprint
         \/ \E l \in Lineages, s \in SequenceNumbers, b \in Boundaries, f \in Fingerprints :
              ReconstructAttempt(l, a, s, b, f)
<1>0. attempts \in [Attempts -> AttemptRows \union {NoAttempt}]
  BY DEF IInv, TypeOK
<1> DEFINE Same == /\ attempts[a].parent = attempts'[a].parent
                   /\ attempts[a].lineage = attempts'[a].lineage
                   /\ attempts[a].fingerprint = attempts'[a].fingerprint
<1>1. ASSUME NEW l \in Lineages, NEW f \in Fingerprints, StartNewEpisode(l, f)
      PROVE  Same
  BY <1>0, <1>1 DEF StartNewEpisode, InsertAttempt
<1>2. ASSUME NEW e \in Episodes, NEW state, SetCurrentState(e, state)
      PROVE  Same
  BY <1>0, <1>2 DEF SetCurrentState
<1>3. ASSUME NEW l \in Lineages, NEW new \in Attempts, NEW s \in SequenceNumbers,
             NEW b \in Boundaries, NEW f \in Fingerprints,
             ReconstructAttempt(l, new, s, b, f), a # new
      PROVE  Same
  BY <1>0, <1>3 DEF ReconstructAttempt, SupersedeAttempt, InsertAttempt
<1>4. CASE UNCHANGED attempts
  BY <1>4
<1> HIDE DEF Same
<1>5. Same \/ \E l \in Lineages, s \in SequenceNumbers, b \in Boundaries, f \in Fingerprints :
                ReconstructAttempt(l, a, s, b, f)
  BY <1>1, <1>2, <1>3, <1>4 DEF Same, Next, EpisodeStep, OperationStep, ProviderStep,
     CheckpointStep, StartKnownEpisode, MarkInterruptedUnknown,
     RecordRecoveryDisposition, RecordOperationIntent, TransitionOperation,
     MarkOperationDispatched, RecordOperationResult, ReconcileOperation, RecordDecision,
     ReserveProvider, FinishProvider, CompleteProvider, FailProvider,
     MarkProviderUnknown, SaveCheckpoint, RecordCompletion
<1>6. QED
  BY <1>5 DEF Same

\* A reconstructed attempt belongs to the run, the episode and the fingerprint of the
\* attempt it replaces and shares a checkpoint with it, the replaced attempt has failed,
\* and no attempt is reconstructed twice, whatever the mutators do afterwards.
THEOREM ReconstructionsFaithful == Spec => []ReconstructionFaithful
<1>1. Init => ReconstructionFaithful
  BY DEF Init, ReconstructionFaithful
<1>2. ASSUME IInv, IInv', CheckpointsOwned, ReconstructionFaithful, Next
      PROVE  ReconstructionFaithful'
  <2> SUFFICES ASSUME NEW a \in Attempts, attempts'[a].parent # None
               PROVE  /\ attempts'[attempts'[a].parent].lineage.run = attempts'[a].lineage.run
                      /\ attempts'[attempts'[a].parent].lineage.episode
                           = attempts'[a].lineage.episode
                      /\ attempts'[attempts'[a].parent].fingerprint = attempts'[a].fingerprint
                      /\ attempts'[attempts'[a].parent].state = "failed"
                      /\ \E s \in SequenceNumbers :
                           /\ checkpoints'[<<attempts'[a].parent, s>>] # None
                           /\ checkpoints'[<<attempts'[a].parent, s>>] = checkpoints'[<<a, s>>]
                      /\ \A x \in Attempts : attempts'[x].parent = attempts'[a].parent => x = a
    BY DEF ReconstructionFaithful
  <2> DEFINE p == attempts'[a].parent
  <2>0. /\ p \in Attempts
        /\ attempts \in [Attempts -> AttemptRows \union {NoAttempt}]
        /\ attempts' \in [Attempts -> AttemptRows \union {NoAttempt}]
        /\ checkpoints \in [Attempts \X SequenceNumbers -> Boundaries \union {None}]
    BY <1>2 DEF IInv, TypeOK
  <2>1. CASE \E l \in Lineages, s \in SequenceNumbers, b \in Boundaries, f \in Fingerprints :
               ReconstructAttempt(l, a, s, b, f)
    <3> PICK l \in Lineages, s \in SequenceNumbers, b \in Boundaries, f \in Fingerprints :
               ReconstructAttempt(l, a, s, b, f)
      BY <2>1
    <3>1. /\ episodes[l.episode].state = "active"
          /\ episodes[l.episode].current = l.attempt
          /\ episodes[l.episode].run = l.run
          /\ ~Exists(attempts[a])
          /\ attempts[l.attempt].fingerprint = f
          /\ checkpoints[<<l.attempt, s>>] = b
      BY DEF ReconstructAttempt, SupersedeAttempt, CurrentLineage
    <3>2. /\ attempts[l.attempt] \in AttemptRows
          /\ attempts[l.attempt].lineage = l
          /\ attempts[l.attempt].state = "active"
      <4>1. attempts[l.attempt].lineage =
              [run |-> episodes[l.episode].run, episode |-> l.episode, attempt |-> l.attempt]
        BY <1>2, <3>1, ActiveEpisode
      <4>2. attempts[l.attempt].state = "active"
        BY <1>2, <3>1 DEF IInv, CurrentAttemptAgrees
      <4>3. QED
        BY <1>2, <3>1, <4>1, <4>2, ActiveEpisode
    <3>3. l.attempt # a
      BY <3>1, <3>2
    <3>4. /\ attempts'[a] = InsertAttempt([l EXCEPT !.attempt = a], f, l.attempt)
          /\ attempts'[l.attempt] = [attempts[l.attempt] EXCEPT !.state = "failed"]
          /\ \A x \in Attempts \ {a} : attempts'[x].parent = attempts[x].parent
          /\ checkpoints'[<<a, s>>] = b
          /\ checkpoints'[<<l.attempt, s>>] = b
      BY <2>0, <3>1, <3>3 DEF ReconstructAttempt, SupersedeAttempt
    <3>5. p = l.attempt
      BY <3>4 DEF InsertAttempt
    <3>6. /\ attempts'[p].lineage.run = attempts'[a].lineage.run
          /\ attempts'[p].lineage.episode = attempts'[a].lineage.episode
          /\ attempts'[p].fingerprint = attempts'[a].fingerprint
          /\ attempts'[p].state = "failed"
      BY <3>1, <3>2, <3>4, <3>5 DEF InsertAttempt
    <3>7. checkpoints'[<<p, s>>] # None /\ checkpoints'[<<p, s>>] = checkpoints'[<<a, s>>]
      BY <3>4, <3>5, ConstantsAssumption
    <3>8. ASSUME NEW x \in Attempts, attempts'[x].parent = p, x # a
          PROVE  FALSE
      <4>1. attempts[x].parent = l.attempt /\ l.attempt # None
        BY <3>4, <3>5, <3>8, ConstantsAssumption
      <4>2. attempts[l.attempt].state = "failed"
        BY <1>2, <4>1 DEF ReconstructionFaithful
      <4>3. QED
        BY <3>2, <4>2
    <3>9. QED
      BY <3>6, <3>7, <3>8
  <2>2. CASE /\ attempts[a].parent = attempts'[a].parent
             /\ attempts[a].lineage = attempts'[a].lineage
             /\ attempts[a].fingerprint = attempts'[a].fingerprint
    <3>1. /\ attempts[p].lineage.run = attempts[a].lineage.run
          /\ attempts[p].lineage.episode = attempts[a].lineage.episode
          /\ attempts[p].fingerprint = attempts[a].fingerprint
          /\ attempts[p].state = "failed"
          /\ \E s \in SequenceNumbers :
               checkpoints[<<p, s>>] # None /\ checkpoints[<<p, s>>] = checkpoints[<<a, s>>]
          /\ \A x \in Attempts : attempts[x].parent = p => x = a
      BY <1>2, <2>2 DEF ReconstructionFaithful
    <3>2. attempts'[p] = attempts[p]
      BY <1>2, <2>0, <3>1, FailedAttemptsKept
    <3>3. \E s \in SequenceNumbers :
            checkpoints'[<<p, s>>] # None /\ checkpoints'[<<p, s>>] = checkpoints'[<<a, s>>]
      <4> PICK s \in SequenceNumbers :
            checkpoints[<<p, s>>] # None /\ checkpoints[<<p, s>>] = checkpoints[<<a, s>>]
        BY <3>1
      <4>1. /\ <<p, s>> \in Attempts \X SequenceNumbers
            /\ <<a, s>> \in Attempts \X SequenceNumbers
        BY <2>0
      <4> HIDE DEF p
      <4>2. /\ checkpoints'[<<p, s>>] = checkpoints[<<p, s>>]
            /\ checkpoints'[<<a, s>>] = checkpoints[<<a, s>>]
        BY <1>2, <4>1, FailedAttemptsKept
      <4>3. QED
        BY <4>2
    <3>4. ASSUME NEW x \in Attempts, attempts'[x].parent = p, x # a
          PROVE  FALSE
      <4>1. attempts[x].parent # attempts'[x].parent
        BY <3>1, <3>4
      <4>2. attempts'[x].parent # None
        BY <3>4
      <4>3. \E l \in Lineages, s \in SequenceNumbers, b \in Boundaries, f \in Fingerprints :
              ReconstructAttempt(l, x, s, b, f)
        BY <1>2, <4>1, <4>2, ParentsKept
      <4>4. PICK l \in Lineages, s \in SequenceNumbers, b \in Boundaries, f \in Fingerprints :
              ReconstructAttempt(l, x, s, b, f)
        BY <4>3
      <4>5. attempts'[x].parent = l.attempt
        BY <2>0, <4>4 DEF ReconstructAttempt, SupersedeAttempt, InsertAttempt
      <4>6. episodes[l.episode].current = l.attempt /\ episodes[l.episode].state = "active"
        BY <4>4 DEF ReconstructAttempt, SupersedeAttempt, CurrentLineage
      <4>7. attempts[l.attempt].state = "active"
        BY <1>2, <4>6 DEF IInv, CurrentAttemptAgrees
      <4>8. QED
        BY <3>1, <3>4, <4>5, <4>7
    <3>5. QED
      BY <2>2, <3>1, <3>2, <3>3, <3>4
  <2>3. QED
    BY <1>2, <2>1, <2>2, ParentsKept
<1>3. ReconstructionFaithful /\ UNCHANGED vars => ReconstructionFaithful'
  BY DEF vars, ReconstructionFaithful
<1>4. IInv /\ IInv' /\ CheckpointsOwned /\ ReconstructionFaithful /\ [Next]_vars
        => ReconstructionFaithful'
  BY <1>2, <1>3
<1>5. QED
  BY <1>1, <1>4, StoreInvariant, OwnedCheckpoints, PTL DEF Spec

=============================================================================
