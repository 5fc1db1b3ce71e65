---------------------------- MODULE ControlProofs ---------------------------
(***************************************************************************)
(* The control gate, for any keys, operations, observations and            *)
(* recoveries: GateSound is inductive.  A sound authority is taken to a    *)
(* sound authority by each transition, and no transition takes a stop      *)
(* back; the journal holds an earlier authority.                           *)
(*                                                                         *)
(* The context owner, for any processes over one store: the one that holds *)
(* the token decides on the journal, whatever a replaced process still     *)
(* does.  OwnerSound says nothing of a process that lost the token or has  *)
(* not claimed it yet; OwnerInv adds that whatever any of them has in      *)
(* memory is a sound authority whose commands have their receipts (Held),  *)
(* since it may become the journal when its process takes over, and that a *)
(* render under way has the active source of an open gate (Serving).       *)
(*                                                                         *)
(* The process-lifecycle commands, for any handlers, commands and failed   *)
(* writes.  LifecycleSound speaks of a journal that accepts writes;        *)
(* LifecycleInv adds how far the memory may be behind a journal that does  *)
(* not (Backed), that a handler past the intent has it in memory (CallOK), *)
(* and what the two files are while no write has failed (Clean).           *)
(***************************************************************************)
EXTENDS ControlGate, ContextOwner, ProcessLifecycle, FiniteSetTheorems, WellFoundedInduction, TLAPS

\* What a transition from a to b keeps.
KeepsSound(a, b) == AuthoritySound(b) /\ (a.stopped => b.stopped)

\* A new authority (state.rs, new) is sound.
LEMMA NewIsSound ==
  ASSUME NEW o \in Observations PROVE AuthoritySound(NewAuthority(o))
<1>1. NewAuthority(o) \in Authorities
  BY AuthorityAssumption DEF NewAuthority, Authorities, GateStatus
<1>2. QED
  BY <1>1, AuthorityAssumption
  DEF AuthoritySound, NewAuthority, PlanHeldByWork, StatusTruthful, VersionsSpentOnce,
      Recoverable, Unused

\* A command that takes effect raises the version it was issued at: its receipt is
\* the only one of the new version (ledger.rs, receipt and persist_command).
LEMMA IssueKeeps ==
  ASSUME NEW a, AuthoritySound(a), NEW k \in Keys, NEW effect \in Effects, NEW n \in Nat,
         NEW b \in Authorities, b.commands = a.commands, b.events = a.events,
         b.version = a.version + 1, b.plan \in {a.plan, a.plan + 1},
         PlanHeldByWork(b), StatusTruthful(b), a.stopped => b.stopped, Reserves(a, n)
  PROVE  KeepsSound(a, Issue(b, k, effect, n))
<1> DEFINE c == Issue(b, k, effect, n)
           receipt == [effect |-> effect, version |-> b.version, plan |-> b.plan]
<1>1. /\ a \in Authorities /\ VersionsSpentOnce(a)
      /\ b.version \in Nat /\ b.plan \in Nat /\ b.events \in Nat /\ MaxEvents \in Nat
  BY AuthorityAssumption DEF AuthoritySound, Authorities
<1>2. receipt \in ControlReceipts
  BY <1>1 DEF ControlReceipts
<1>3. c = [b EXCEPT !.commands = [b.commands EXCEPT ![k] = receipt], !.events = @ + n]
  BY DEF Issue
<1>4. c.commands = [b.commands EXCEPT ![k] = receipt] /\ c.events = b.events + n
  BY <1>3 DEF Authorities
<1>5. /\ c.version = b.version /\ c.plan = b.plan /\ c.unresolved = b.unresolved
      /\ c.status = b.status /\ c.paused = b.paused /\ c.stopped = b.stopped
  BY <1>3 DEF Authorities
<1>6. c \in Authorities
  <2>1. [b.commands EXCEPT ![k] = receipt] \in [Keys -> ControlReceipts \union {NoReceipt}]
    BY <1>2 DEF Authorities
  <2>2. b.events + n \in Nat
    BY <1>1
  <2>3. QED
    BY <1>3, <2>1, <2>2 DEF Authorities
<1>7. PlanHeldByWork(c) /\ StatusTruthful(c)
  BY <1>5 DEF PlanHeldByWork, StatusTruthful
<1>8. Recoverable(c)
  BY <1>4 DEF Recoverable, Reserves
<1>9. VersionsSpentOnce(c)
  <2>1. c.commands[k] = receipt /\ receipt.version = a.version + 1 /\ receipt.plan = b.plan
    BY <1>4 DEF Authorities
  <2>2. \A j \in Keys : j # k => c.commands[j] = a.commands[j]
    BY <1>4 DEF Authorities
  <2>3. /\ a.version \in Nat /\ a.plan \in Nat
        /\ \A j \in Keys : a.commands[j] # NoReceipt => a.commands[j] \in ControlReceipts
    BY <1>1 DEF Authorities
  <2>4. \A j \in Keys : a.commands[j] # NoReceipt =>
          /\ a.commands[j].version \in Nat /\ a.commands[j].plan \in Nat
          /\ a.commands[j].version <= a.version /\ a.commands[j].plan <= a.plan
    BY <1>1, <2>3 DEF VersionsSpentOnce, Unused, ControlReceipts
  <2>5. \A i, j \in Keys :
          a.commands[i] # NoReceipt /\ a.commands[j] # NoReceipt
            /\ a.commands[i].version = a.commands[j].version => i = j
    BY <1>1 DEF VersionsSpentOnce, Unused
  <2>6. QED
    BY <1>1, <1>5, <2>1, <2>2, <2>3, <2>4, <2>5 DEF VersionsSpentOnce, Unused
<1>10. QED
  BY <1>5, <1>6, <1>7, <1>8, <1>9 DEF KeepsSound, AuthoritySound

-----------------------------------------------------------------------------

\* Pause, commit, adoption and resume (gate.rs) keep the authority sound: the two that
\* leave the plan find no work in flight, one because a ready pause has none.
LEMMA CommandKeeps ==
  ASSUME NEW a, AuthoritySound(a), NEW k \in Keys
  PROVE  /\ MayPause(a, k) => KeepsSound(a, Pause(a, k))
         /\ MayCommit(a, k) => KeepsSound(a, Commit(a, k))
         /\ MayAdopt(a, k) => KeepsSound(a, Adopt(a, k))
         /\ MayResume(a, k) => KeepsSound(a, Resume(a, k))
<1>1. /\ a \in Authorities /\ PlanHeldByWork(a) /\ StatusTruthful(a)
      /\ a.version \in Nat /\ a.plan \in Nat /\ {1, 2} \subseteq Nat
      /\ a.version + 1 \in Nat /\ a.plan + 1 \in Nat
  BY DEF AuthoritySound, Authorities
<1>2. {"pause_requested", "revision_committed", "resume_accepted"} = Effects
  BY DEF Effects
<1>3. ASSUME MayPause(a, k) PROVE KeepsSound(a, Pause(a, k))
  <2> DEFINE b == [a EXCEPT !.paused = TRUE, !.version = @ + 1,
                    !.status = IF a.unresolved = {} THEN "PausedReady" ELSE "PauseRequested"]
  <2>0. b \in Authorities
    BY <1>1 DEF Authorities, GateStatus
  <2>1. /\ b \in Authorities /\ b.commands = a.commands /\ b.events = a.events
        /\ b.version = a.version + 1 /\ b.plan = a.plan /\ b.stopped = a.stopped
        /\ b.unresolved = a.unresolved /\ b.paused = TRUE
        /\ b.status = IF a.unresolved = {} THEN "PausedReady" ELSE "PauseRequested"
    BY <1>1, <2>0 DEF Authorities, GateStatus
  <2>2. PlanHeldByWork(b) /\ StatusTruthful(b)
    BY <1>1, <2>1 DEF PlanHeldByWork, StatusTruthful
  <2>3. KeepsSound(a, Issue(b, k, "pause_requested", 1))
    <3> HIDE DEF b
    <3> QED BY <1>1, <1>2, <1>3, <2>1, <2>2, IssueKeeps DEF MayPause
  <2>4. QED
    BY <2>3 DEF Pause
<1>4. ASSUME MayCommit(a, k) PROVE KeepsSound(a, Commit(a, k))
  <2> DEFINE b == [a EXCEPT !.plan = @ + 1, !.version = @ + 1, !.status = "PausedCommitted"]
  <2>0. b \in Authorities
    BY <1>1 DEF Authorities, GateStatus
  <2>1. /\ b \in Authorities /\ b.commands = a.commands /\ b.events = a.events
        /\ b.version = a.version + 1 /\ b.plan = a.plan + 1 /\ b.stopped = a.stopped
        /\ b.unresolved = a.unresolved /\ b.paused = a.paused /\ b.status = "PausedCommitted"
    BY <1>1, <2>0 DEF Authorities, GateStatus
  <2>2. PlanHeldByWork(b) /\ StatusTruthful(b)
    BY <1>1, <1>4, <2>1 DEF PlanHeldByWork, StatusTruthful, MayCommit
  <2>3. KeepsSound(a, Issue(b, k, "revision_committed", 2))
    <3> HIDE DEF b
    <3> QED BY <1>1, <1>2, <1>4, <2>1, <2>2, IssueKeeps DEF MayCommit
  <2>4. QED
    BY <2>3 DEF Commit
<1>5. ASSUME MayAdopt(a, k) PROVE KeepsSound(a, Adopt(a, k))
  <2> DEFINE b == [a EXCEPT !.plan = @ + 1, !.version = @ + 1]
  <2>0. b \in Authorities
    BY <1>1 DEF Authorities
  <2>1. /\ b \in Authorities /\ b.commands = a.commands /\ b.events = a.events
        /\ b.version = a.version + 1 /\ b.plan = a.plan + 1 /\ b.stopped = a.stopped
        /\ b.unresolved = a.unresolved /\ b.paused = a.paused /\ b.status = a.status
    BY <1>1, <2>0 DEF Authorities
  <2>2. PlanHeldByWork(b) /\ StatusTruthful(b)
    BY <1>1, <1>5, <2>1 DEF PlanHeldByWork, StatusTruthful, MayAdopt
  <2>3. KeepsSound(a, Issue(b, k, "revision_committed", 1))
    <3> HIDE DEF b
    <3> QED BY <1>1, <1>2, <1>5, <2>1, <2>2, IssueKeeps DEF MayAdopt
  <2>4. QED
    BY <2>3 DEF Adopt
<1>6. ASSUME MayResume(a, k) PROVE KeepsSound(a, Resume(a, k))
  <2> DEFINE b == [a EXCEPT !.paused = FALSE, !.version = @ + 1, !.status = "Running"]
  <2>0. b \in Authorities
    BY <1>1 DEF Authorities, GateStatus
  <2>1. /\ b \in Authorities /\ b.commands = a.commands /\ b.events = a.events
        /\ b.version = a.version + 1 /\ b.plan = a.plan /\ b.stopped = a.stopped
        /\ b.unresolved = a.unresolved /\ b.paused = FALSE /\ b.status = "Running"
    BY <1>1, <2>0 DEF Authorities, GateStatus
  <2>2. PlanHeldByWork(b) /\ StatusTruthful(b)
    BY <1>1, <1>6, <2>1 DEF PlanHeldByWork, StatusTruthful, MayResume
  <2>3. KeepsSound(a, Issue(b, k, "resume_accepted", 1))
    <3> HIDE DEF b
    <3> QED BY <1>1, <1>2, <1>6, <2>1, <2>2, IssueKeeps DEF MayResume
  <2>4. QED
    BY <2>3 DEF Resume
<1>7. QED
  BY <1>3, <1>4, <1>5, <1>6

-----------------------------------------------------------------------------

\* A transition that issues no receipt and takes no version back leaves each version
\* spent once.
LEMMA VersionsKept ==
  ASSUME NEW a \in Authorities, VersionsSpentOnce(a), NEW b,
         b.commands = a.commands, b.plan = a.plan,
         b.version \in {a.version, a.version + 1}
  PROVE  VersionsSpentOnce(b)
<1>1. /\ a.version \in Nat /\ a.plan \in Nat
      /\ \A j \in Keys : a.commands[j] # NoReceipt =>
           a.commands[j].version \in Nat /\ a.commands[j].version <= a.version
  BY DEF Authorities, ControlReceipts, VersionsSpentOnce, Unused
<1>2. QED
  BY <1>1 DEF VersionsSpentOnce, Unused

\* Stop and the change of a boundary (state.rs) keep the authority sound.
LEMMA BoundaryKeeps ==
  ASSUME NEW a, AuthoritySound(a)
  PROVE  /\ Reserves(a, 1) => KeepsSound(a, Stop(a)) /\ KeepsSound(a, AdvanceBoundary(a))
         /\ \A o \in Observations, c \in Observations \union {NoCatalog} :
              KeepsSound(a, RecordObservation(a, o, c))
<1>1. /\ a \in Authorities /\ PlanHeldByWork(a) /\ StatusTruthful(a) /\ VersionsSpentOnce(a)
      /\ Recoverable(a) /\ a.version \in Nat /\ a.events \in Nat
      /\ a.version + 1 \in Nat /\ a.events + 1 \in Nat
  BY DEF AuthoritySound, Authorities
<1>2. [gen |-> a.seen.gen + 1, id |-> NoCatalog] \in [gen: Nat, id: {NoCatalog}]
  <2>1. a.seen.gen \in Nat
    BY <1>1, AuthorityAssumption DEF Authorities
  <2>2. QED
    BY <2>1
<1>3. ASSUME Reserves(a, 1) PROVE KeepsSound(a, Stop(a))
  <2> DEFINE b == Stop(a)
  <2>0. b \in Authorities
    BY <1>1 DEF Stop, Authorities, GateStatus
  <2>1. /\ b \in Authorities /\ b.commands = a.commands /\ b.events = a.events + 1
        /\ b.version = a.version + 1 /\ b.plan = a.plan /\ b.stopped = TRUE
        /\ b.unresolved = a.unresolved /\ b.paused = TRUE /\ b.status = "Stopped"
    BY <1>1, <2>0 DEF Stop, Authorities, GateStatus
  <2>2. PlanHeldByWork(b) /\ StatusTruthful(b) /\ Recoverable(b)
    BY <1>1, <1>3, <2>1 DEF PlanHeldByWork, StatusTruthful, Recoverable, Reserves
  <2>3. VersionsSpentOnce(b)
    <3> HIDE DEF b
    <3> QED BY <1>1, <2>1, VersionsKept
  <2>4. QED
    BY <2>1, <2>2, <2>3 DEF KeepsSound, AuthoritySound
<1>4. ASSUME Reserves(a, 1) PROVE KeepsSound(a, AdvanceBoundary(a))
  <2> DEFINE b == AdvanceBoundary(a)
  <2>0. b \in Authorities
    BY <1>1, <1>2 DEF AdvanceBoundary, Authorities, GateStatus
  <2>1. /\ b \in Authorities /\ b.commands = a.commands /\ b.events = a.events + 1
        /\ b.version = a.version /\ b.plan = a.plan /\ b.stopped = a.stopped
        /\ b.unresolved = a.unresolved /\ b.paused = a.paused
        /\ b.status = IF a.paused THEN "PausedStale" ELSE a.status
    BY <1>1, <2>0, <1>2 DEF AdvanceBoundary, Authorities, GateStatus
  <2>2. PlanHeldByWork(b) /\ StatusTruthful(b) /\ Recoverable(b)
    BY <1>1, <1>4, <2>1 DEF PlanHeldByWork, StatusTruthful, Recoverable, Reserves
  <2>3. VersionsSpentOnce(b)
    <3> HIDE DEF b
    <3> QED BY <1>1, <2>1, VersionsKept
  <2>4. QED
    BY <2>1, <2>2, <2>3 DEF KeepsSound, AuthoritySound
<1>5. ASSUME NEW o \in Observations, NEW c \in Observations \union {NoCatalog}
      PROVE  KeepsSound(a, RecordObservation(a, o, c))
  <2> DEFINE b == RecordObservation(a, o, c)
  <2>0. b \in Authorities
    BY <1>1 DEF RecordObservation, Authorities
  <2>1. /\ b \in Authorities /\ b.commands = a.commands /\ b.events = a.events
        /\ b.version = a.version /\ b.plan = a.plan /\ b.stopped = a.stopped
        /\ b.unresolved = a.unresolved /\ b.paused = a.paused /\ b.status = a.status
    BY <1>1, <2>0 DEF RecordObservation, Authorities
  <2>2. PlanHeldByWork(b) /\ StatusTruthful(b) /\ Recoverable(b)
    BY <1>1, <2>1 DEF PlanHeldByWork, StatusTruthful, Recoverable
  <2>3. VersionsSpentOnce(b)
    <3> HIDE DEF b
    <3> QED BY <1>1, <2>1, VersionsKept
  <2>4. QED
    BY <2>1, <2>2, <2>3 DEF KeepsSound, AuthoritySound
<1>6. QED
  BY <1>3, <1>4, <1>5

\* Admission and settlement of operations (operations.rs) keep the authority sound: work
\* is admitted under the plan of the authority, and a pause becomes ready only when the
\* last operation is settled.
LEMMA OperationKeeps ==
  ASSUME NEW a, AuthoritySound(a), NEW x \in OperationIds
  PROVE  /\ \A plan : MayAdmit(a, x, plan) => KeepsSound(a, AdmitOperation(a, x))
         /\ MaySettle(a, x) => KeepsSound(a, SettleOperation(a, x))
         /\ MayRetain(a, x) => KeepsSound(a, RetainUnknown(a))
<1>1. /\ a \in Authorities /\ PlanHeldByWork(a) /\ StatusTruthful(a) /\ VersionsSpentOnce(a)
      /\ a.events \in Nat /\ a.events + 1 \in Nat /\ a.events + 2 \in Nat /\ a.plan \in Nat
  BY DEF AuthoritySound, Authorities
<1>2. ASSUME NEW plan, MayAdmit(a, x, plan) PROVE KeepsSound(a, AdmitOperation(a, x))
  <2> DEFINE b == AdmitOperation(a, x)
             w == a.unresolved \union {[id |-> x, plan |-> a.plan]}
  <2>0. w \in SUBSET [id: OperationIds, plan: Nat]
    BY <1>1 DEF Authorities
  <2>1. b \in Authorities
    BY <1>1, <2>0 DEF AdmitOperation, Authorities
  <2>2. /\ b.commands = a.commands /\ b.events = a.events + 1
        /\ b.version = a.version /\ b.plan = a.plan /\ b.stopped = a.stopped
        /\ b.unresolved = w /\ b.paused = a.paused /\ b.status = a.status
    BY <1>1 DEF AdmitOperation, Authorities
  <2>3. Recoverable(b)
    BY <1>2, <2>2 DEF Recoverable, MayAdmit, Reserves
  <2>4. PlanHeldByWork(b)
    BY <1>1, <2>2 DEF PlanHeldByWork
  <2>5. StatusTruthful(b)
    BY <1>1, <1>2, <2>2 DEF StatusTruthful, MayAdmit, AdmitsPlan
  <2>6. VersionsSpentOnce(b)
    <3> HIDE DEF b
    <3> QED BY <1>1, <2>2, VersionsKept
  <2>7. QED
    BY <2>1, <2>2, <2>3, <2>4, <2>5, <2>6 DEF KeepsSound, AuthoritySound
<1>3. ASSUME MaySettle(a, x) PROVE KeepsSound(a, SettleOperation(a, x))
  <2> DEFINE b == SettleOperation(a, x)
             status == IF MakesReady(a, x) THEN "PausedReady" ELSE a.status
             events == a.events + (IF MakesReady(a, x) THEN 2 ELSE 1)
  <2>0. /\ Others(a, x) \subseteq a.unresolved
        /\ Others(a, x) \in SUBSET [id: OperationIds, plan: Nat]
        /\ status \in GateStatus /\ events \in Nat
    BY <1>1 DEF Authorities, Others, GateStatus
  <2>1. b = [a EXCEPT !.unresolved = Others(a, x), !.status = status, !.events = events]
    BY DEF SettleOperation
  <2>2. /\ b \in Authorities /\ b.commands = a.commands /\ b.events = events
        /\ b.version = a.version /\ b.plan = a.plan /\ b.stopped = a.stopped
        /\ b.unresolved = Others(a, x) /\ b.paused = a.paused /\ b.status = status
    <3> HIDE DEF b, status, events
    <3> QED BY <1>1, <2>0, <2>1 DEF Authorities
  <2>3. Recoverable(b)
    BY <1>3, <2>2 DEF Recoverable, MaySettle, Reserves
  <2>4. PlanHeldByWork(b)
    BY <1>1, <2>0, <2>2 DEF PlanHeldByWork
  <2>5. StatusTruthful(b)
    <3>1. CASE MakesReady(a, x)
      BY <1>1, <2>2, <3>1 DEF StatusTruthful, MakesReady
    <3>2. CASE ~MakesReady(a, x)
      BY <1>1, <2>0, <2>2, <3>2 DEF StatusTruthful
    <3>3. QED
      BY <3>1, <3>2
  <2>6. VersionsSpentOnce(b)
    <3> HIDE DEF b
    <3> QED BY <1>1, <2>2, VersionsKept
  <2>7. QED
    BY <2>2, <2>3, <2>4, <2>5, <2>6 DEF KeepsSound, AuthoritySound
<1>4. ASSUME MayRetain(a, x) PROVE KeepsSound(a, RetainUnknown(a))
  <2> DEFINE b == RetainUnknown(a)
  <2>1. /\ b \in Authorities /\ b.commands = a.commands /\ b.events = a.events + 1
        /\ b.version = a.version /\ b.plan = a.plan /\ b.stopped = a.stopped
        /\ b.unresolved = a.unresolved /\ b.paused = a.paused /\ b.status = a.status
    BY <1>1 DEF RetainUnknown, Authorities
  <2>2. PlanHeldByWork(b) /\ StatusTruthful(b) /\ Recoverable(b)
    BY <1>1, <1>4, <2>1 DEF PlanHeldByWork, StatusTruthful, Recoverable, MayRetain, Reserves
  <2>3. VersionsSpentOnce(b)
    <3> HIDE DEF b
    <3> QED BY <1>1, <2>1, VersionsKept
  <2>4. QED
    BY <2>1, <2>2, <2>3 DEF KeepsSound, AuthoritySound
<1>5. QED
  BY <1>2, <1>3, <1>4

\* A recovery (journal.rs, recover) changes the controller epoch alone.
LEMMA RecoverKeeps ==
  ASSUME NEW a, AuthoritySound(a) PROVE KeepsSound(a, Recover(a))
<1> DEFINE b == Recover(a)
<1>1. a \in Authorities /\ VersionsSpentOnce(a) /\ a.epoch + 1 \in Nat
  BY DEF AuthoritySound, Authorities
<1>2. /\ b \in Authorities /\ b.commands = a.commands /\ b.events = a.events
      /\ b.version = a.version /\ b.plan = a.plan /\ b.stopped = a.stopped
      /\ b.unresolved = a.unresolved /\ b.paused = a.paused /\ b.status = a.status
  BY <1>1 DEF Recover, Authorities
<1>3. PlanHeldByWork(b) /\ StatusTruthful(b) /\ Recoverable(b)
  BY <1>2 DEF AuthoritySound, PlanHeldByWork, StatusTruthful, Recoverable
<1>4. VersionsSpentOnce(b)
  <2> HIDE DEF b
  <2> QED BY <1>1, <1>2, VersionsKept
<1>5. QED
  BY <1>2, <1>3, <1>4 DEF KeepsSound, AuthoritySound

-----------------------------------------------------------------------------

\* For any keys, operations, observations and bound on the control events, the authority
\* and every journal it exported stay sound, through restarts from an old export
\* (context_control/state.rs and state/*.rs).
THEOREM GateStaysSound == GateSpec => []GateSound
<1>1. GateInit => GateSound
  BY NewIsSound DEF GateInit, GateSound, NewAuthority
<1>2. GateSound /\ [GateNext]_gateVars => GateSound'
  <2> SUFFICES ASSUME GateSound, [GateNext]_gateVars PROVE GateSound'
    OBVIOUS
  <2>1. AuthoritySound(authority) /\ AuthoritySound(exported)
    BY DEF GateSound
  <2>2. ASSUME KeepsSound(authority, authority'), UNCHANGED exported PROVE GateSound'
    BY <2>2 DEF GateSound, KeepsSound
  <2>3. ASSUME NEW k \in Keys, GateCommand(k) PROVE KeepsSound(authority, authority')
    BY <2>1, <2>3, CommandKeeps DEF GateCommand
  <2>4. CASE StopGate /\ UNCHANGED exported
    BY <2>1, <2>2, <2>4, BoundaryKeeps DEF StopGate
  <2>5. CASE Advance /\ UNCHANGED exported
    BY <2>1, <2>2, <2>5, BoundaryKeeps DEF Advance
  <2>6. ASSUME NEW o \in Observations, NEW c \in Observations \union {NoCatalog},
               ObserveBoundary(o, c)
        PROVE  KeepsSound(authority, authority')
    BY <2>1, <2>6, BoundaryKeeps DEF ObserveBoundary
  <2>7. ASSUME NEW x \in OperationIds, NEW plan,
               GateAdmits(x, plan) \/ CompleteAttempt(x, plan) \/ GateSettles(x) \/ Retains(x)
        PROVE  KeepsSound(authority, authority')
    BY <2>1, <2>7, OperationKeeps DEF GateAdmits, CompleteAttempt, GateSettles, Retains
  <2>8. CASE GateStep /\ UNCHANGED exported
    BY <2>2, <2>3, <2>4, <2>5, <2>6, <2>7, <2>8 DEF GateStep
  <2>9. CASE Export
    BY <2>1, <2>9 DEF Export, GateSound
  <2>10. CASE Restart
    <3>1. KeepsSound(exported, authority')
      BY <2>1, <2>10, RecoverKeeps DEF Restart
    <3>2. QED
      BY <2>1, <2>10, <3>1 DEF Restart, GateSound, KeepsSound
  <2>11. CASE UNCHANGED gateVars
    BY <2>1, <2>11 DEF gateVars, GateSound
  <2>12. QED
    BY <2>8, <2>9, <2>10, <2>11 DEF GateNext
<1>3. QED
  BY <1>1, <1>2, PTL DEF GateSpec

-----------------------------------------------------------------------------
(* The context owner.  Its processes hold authorities of the gate, so the  *)
(* lemmas above say that each stays sound; what is left is how memory,     *)
(* journal, receipts and active source agree while a replaced process and  *)
(* the one that took over both run.                                        *)

\* What a process keeps in memory.
OwnerRecords ==
  [at: {"idle", "leasing", "admitted", "loaded", "claimed", "live"}, lease: Leases \union {0},
   mem: Authorities \union {NoJournal}, gen: Nat \union {NoGeneration},
   node: Invocations \union {NoInvocation}, captured: BOOLEAN,
   reading: ActiveSources \union {NoSource}]

\* Every variable the properties speak of has its type.
OwnerTypes ==
  /\ owner \in [Services -> OwnerRecords]
  /\ rows \in [Keys -> ControlReceipts \union {NoReceipt}]
  /\ pointer \in ActiveSources \union {NoSource} /\ link \in ActiveSources \union {NoSource}
  /\ published = [r \in Requests |-> published[r]]

\* The authority a is sound, is of an observation, and its commands have their receipts.
Held(a) ==
  /\ AuthoritySound(a) /\ a.seen \in Observations
  /\ \A k \in Keys : a.commands[k] # NoReceipt => rows[k] = a.commands[k]

JournalHeld == journal # NoJournal => Held(journal)

\* The memory is the journal up to an observation that was not written.
Mirrors(a, b) == a = RecordObservation(b, a.seen, a.catalog)

\* What the process p has when its memory is r.  One that holds the token and has not
\* finished a render still has the active source of an open gate.
Serving(p, r) ==
  /\ r.mem # NoJournal => Held(r.mem)
  /\ r.at = "live" =>
       /\ r.mem # NoJournal /\ r.gen <= r.mem.seen.gen
       /\ r.gen = r.mem.seen.gen => r.mem.catalog = r.mem.seen
  /\ r.at # "live" => r.gen = NoGeneration /\ r.reading = NoSource
  /\ token = p /\ r.at = "live" => journal # NoJournal /\ Mirrors(r.mem, journal)
  /\ token = p /\ r.reading # NoSource =>
       pointer = r.reading /\ journal # NoJournal /\ AdmitsPlan(journal, pointer.plan)

\* The active source is of the journal's revision, and its link is of a publication.
SourcesOK ==
  /\ ActiveOfRevision
  /\ link # NoSource => link.source \in Requests /\ published[link.source] # NoPublication

\* The inductive invariant of the context owner.
OwnerInv ==
  OwnerTypes /\ JournalHeld /\ SourcesOK /\ \A p \in Services : Serving(p, owner[p])

\* The invariant is strong enough.
LEMMA OwnerInvSound == OwnerInv => OwnerSound
<1> SUFFICES ASSUME OwnerInv PROVE OwnerSound
  OBVIOUS
<1>1. HolderMirrorsJournal
  BY DEF OwnerInv, Serving, HolderMirrorsJournal, Mirrors
<1>2. CommandsReceipted /\ (journal # NoJournal => Recoverable(journal))
  BY DEF OwnerInv, JournalHeld, Held, AuthoritySound, CommandsReceipted
<1>3. CatalogOfObservation
  BY DEF OwnerInv, Serving, CatalogOfObservation
<1>4. QED
  BY <1>1, <1>2, <1>3 DEF OwnerInv, SourcesOK, OwnerSound

\* It holds when nothing was written yet.
LEMMA OwnerStarts == OwnerInit => OwnerInv
<1> SUFFICES ASSUME OwnerInit PROVE OwnerInv
  OBVIOUS
<1>1. Gone \in OwnerRecords /\ Gone.mem = NoJournal /\ Gone.at = "idle"
      /\ Gone.gen = NoGeneration /\ Gone.reading = NoSource
  BY DEF Gone, OwnerRecords
<1>2. OwnerTypes
  BY <1>1 DEF OwnerInit, OwnerTypes
<1>3. QED
  BY <1>1, <1>2 DEF OwnerInit, OwnerInv, JournalHeld, SourcesOK, ActiveOfRevision, Serving

-----------------------------------------------------------------------------
(* The class of all steps: one process moves, and only the one that holds  *)
(* the token writes what the others read.                                  *)

\* Receipts stay.
ReceiptsStay == \A k \in Keys : rows[k] # NoReceipt => rows'[k] = rows[k]

\* What was held stays held while receipts stay.
LEMMA HeldStays ==
  ASSUME NEW a, Held(a), ReceiptsStay PROVE Held(a)'
BY DEF Held, ReceiptsStay

\* The store as it is.
StoreStays == UNCHANGED <<journal, pointer, link, rows>>

\* A step of p that leaves it with r keeps the invariant if it keeps what is p's and the store's.
LEMMA OwnerStepKeeps ==
  ASSUME OwnerInv, NEW p \in Services, NEW r \in OwnerRecords,
         owner' = [owner EXCEPT ![p] = r], token' \in {token, p},
         StoreStays \/ token = p, ReceiptsStay,
         rows' \in [Keys -> ControlReceipts \union {NoReceipt}],
         pointer' \in ActiveSources \union {NoSource}, link' \in ActiveSources \union {NoSource},
         published' = [x \in Requests |-> published'[x]],
         JournalHeld', SourcesOK', Serving(p, r)'
  PROVE  OwnerInv'
<1>1. OwnerTypes'
  BY DEF OwnerInv, OwnerTypes
<1>2. owner'[p] = r /\ \A q \in Services : q # p => owner'[q] = owner[q]
  BY DEF OwnerInv, OwnerTypes
<1>3. ASSUME NEW q \in Services, q # p, NEW o, o = owner[q] PROVE Serving(q, o)'
  <2>1. Serving(q, o)
    BY <1>3 DEF OwnerInv
  <2>2. token' = q => token = q /\ StoreStays
    BY <1>3
  <2>3. o.mem # NoJournal => Held(o.mem)'
    BY <2>1, HeldStays DEF Serving
  <2>4. token' = q /\ o.at = "live" => journal' # NoJournal /\ Mirrors(o.mem, journal')
    BY <2>1, <2>2 DEF Serving, StoreStays
  <2>5. token' = q /\ o.reading # NoSource =>
          pointer' = o.reading /\ journal' # NoJournal /\ AdmitsPlan(journal', pointer'.plan)
    BY <2>1, <2>2 DEF Serving, StoreStays
  <2>6. QED
    BY <2>1, <2>3, <2>4, <2>5 DEF Serving
<1>4. ASSUME NEW q \in Services PROVE Serving(q, owner[q])'
  <2>1. CASE q = p
    BY <1>2, <2>1
  <2>2. CASE q # p
    <3>1. PICK o : o = owner[q]
      OBVIOUS
    <3>2. Serving(q, o)'
      BY <1>3, <2>2, <3>1
    <3>3. owner'[q] = o
      BY <1>2, <2>2, <3>1
    <3>4. QED
      BY <3>2, <3>3
  <2>3. QED
    BY <2>1, <2>2
<1>5. QED
  BY <1>1, <1>4 DEF OwnerInv

-----------------------------------------------------------------------------
(* What the transitions of the authority do to the fields the owner uses.  *)

\* An authority mirrors itself.
LEMMA SelfMirrors == ASSUME NEW a \in Authorities PROVE Mirrors(a, a)
BY DEF Mirrors, RecordObservation, Authorities

\* An observation changes what was seen and the catalog, and nothing else.
LEMMA ObservationFields ==
  ASSUME NEW a \in Authorities, NEW o \in Observations, NEW c \in Observations \union {NoCatalog},
         NEW b, b = RecordObservation(a, o, c)
  PROVE  /\ b \in Authorities /\ b.seen = o /\ b.catalog = c /\ b.commands = a.commands
         /\ b.plan = a.plan /\ b.paused = a.paused /\ b.stopped = a.stopped
BY DEF RecordObservation, Authorities

\* The one observed last is what counts: a mirror stays one.
LEMMA MirrorsStill ==
  ASSUME NEW a \in Authorities, NEW x \in Authorities, Mirrors(a, x),
         NEW o \in Observations, NEW c \in Observations \union {NoCatalog},
         NEW b, b = RecordObservation(a, o, c)
  PROVE  Mirrors(b, x)
<1>1. b.seen = o /\ b.catalog = c
  BY ObservationFields
<1>2. RecordObservation(RecordObservation(x, a.seen, a.catalog), o, c) = RecordObservation(x, o, c)
  BY DEF RecordObservation, Authorities
<1>3. QED
  BY <1>1, <1>2 DEF Mirrors

\* A mirror has the revision, the gate and the commands of what it mirrors.
LEMMA MirrorFields ==
  ASSUME NEW a, NEW x \in Authorities, Mirrors(a, x)
  PROVE  /\ a.commands = x.commands /\ a.plan = x.plan
         /\ a.paused = x.paused /\ a.stopped = x.stopped
BY DEF Mirrors, RecordObservation, Authorities

\* An observation of a held authority is held.
LEMMA ObservedHeld ==
  ASSUME NEW a, Held(a), NEW o \in Observations, NEW c \in Observations \union {NoCatalog},
         NEW b, b = RecordObservation(a, o, c)
  PROVE  Held(b)
<1>1. a \in Authorities /\ AuthoritySound(a)
  BY DEF Held, AuthoritySound
<1>2. b.seen = o /\ b.commands = a.commands
  BY <1>1, ObservationFields
<1>3. AuthoritySound(b)
  BY <1>1, BoundaryKeeps DEF KeepsSound
<1>4. QED
  BY <1>2, <1>3 DEF Held

\* A command of key k takes a to b: it adds its receipt and observes nothing.
Commanded(a, k, b) ==
  /\ AuthoritySound(b) /\ b.seen = a.seen /\ b.catalog = a.catalog
  /\ a.commands[k] = NoReceipt /\ b.commands[k] \in ControlReceipts
  /\ \A j \in Keys : j # k => b.commands[j] = a.commands[j]

\* Issue adds the receipt.
LEMMA IssueFields ==
  ASSUME NEW a \in Authorities, NEW k \in Keys, NEW effect \in Effects, NEW n \in Nat,
         NEW b, b = Issue(a, k, effect, n)
  PROVE  /\ b.seen = a.seen /\ b.catalog = a.catalog /\ b.plan = a.plan
         /\ b.commands[k] \in ControlReceipts
         /\ \A j \in Keys : j # k => b.commands[j] = a.commands[j]
<1> DEFINE receipt == [effect |-> effect, version |-> a.version, plan |-> a.plan]
<1>1. receipt \in ControlReceipts
  BY DEF ControlReceipts, Authorities
<1>2. b = [a EXCEPT !.commands = [a.commands EXCEPT ![k] = receipt], !.events = @ + n]
  BY DEF Issue
<1>3. b.seen = a.seen /\ b.catalog = a.catalog /\ b.plan = a.plan
      /\ b.commands = [a.commands EXCEPT ![k] = receipt]
  BY <1>2 DEF Authorities
<1>4. QED
  BY <1>1, <1>3 DEF Authorities

\* So does a command that changes neither the receipts nor what was seen before it issues.
LEMMA IssuesCommand ==
  ASSUME NEW a, NEW b \in Authorities, b.commands = a.commands, b.seen = a.seen,
         b.catalog = a.catalog, NEW k \in Keys, Unused(a, k), NEW effect \in Effects, NEW n \in Nat,
         KeepsSound(a, Issue(b, k, effect, n))
  PROVE  Commanded(a, k, Issue(b, k, effect, n)) /\ Issue(b, k, effect, n).plan = b.plan
<1>1. PICK x : x = Issue(b, k, effect, n)
  OBVIOUS
<1>2. /\ x.seen = b.seen /\ x.catalog = b.catalog /\ x.plan = b.plan
      /\ x.commands[k] \in ControlReceipts
      /\ \A j \in Keys : j # k => x.commands[j] = b.commands[j]
  BY <1>1, IssueFields
<1>3. Commanded(a, k, x) /\ x.plan = b.plan
  BY <1>1, <1>2 DEF Commanded, KeepsSound, Unused
<1>4. QED
  BY <1>1, <1>3

\* So do the commands of the gate; an adoption moves to the next revision.
LEMMA CommandFields ==
  ASSUME NEW a, AuthoritySound(a), NEW k \in Keys
  PROVE  /\ MayPause(a, k) => Commanded(a, k, Pause(a, k))
         /\ MayCommit(a, k) => Commanded(a, k, Commit(a, k))
         /\ MayResume(a, k) => Commanded(a, k, Resume(a, k))
         /\ MayAdopt(a, k) => Commanded(a, k, Adopt(a, k)) /\ Adopt(a, k).plan = a.plan + 1
<1>1. /\ a \in Authorities /\ a.version + 1 \in Nat /\ a.plan + 1 \in Nat /\ {1, 2} \subseteq Nat
  BY DEF AuthoritySound, Authorities
<1>2. {"pause_requested", "revision_committed", "resume_accepted"} = Effects
  BY DEF Effects
<1>3. ASSUME MayPause(a, k) PROVE Commanded(a, k, Pause(a, k))
  <2>1. PICK b \in Authorities :
          /\ b.commands = a.commands /\ b.seen = a.seen /\ b.catalog = a.catalog
          /\ Pause(a, k) = Issue(b, k, "pause_requested", 1)
    <3> DEFINE m == [a EXCEPT !.paused = TRUE, !.version = @ + 1,
                    !.status = IF a.unresolved = {} THEN "PausedReady" ELSE "PauseRequested"]
    <3>1. m \in Authorities
      BY <1>1 DEF Authorities, GateStatus
    <3>2. m.commands = a.commands /\ m.seen = a.seen /\ m.catalog = a.catalog
      BY <1>1 DEF Authorities
    <3>3. QED
      BY <3>1, <3>2 DEF Pause
  <2>2. QED
    BY <1>1, <1>2, <1>3, <2>1, IssuesCommand, CommandKeeps DEF MayPause
<1>4. ASSUME MayCommit(a, k) PROVE Commanded(a, k, Commit(a, k))
  <2>1. PICK b \in Authorities :
          /\ b.commands = a.commands /\ b.seen = a.seen /\ b.catalog = a.catalog
          /\ Commit(a, k) = Issue(b, k, "revision_committed", 2)
    <3> DEFINE m == [a EXCEPT !.plan = @ + 1, !.version = @ + 1, !.status = "PausedCommitted"]
    <3>1. m \in Authorities
      BY <1>1 DEF Authorities, GateStatus
    <3>2. m.commands = a.commands /\ m.seen = a.seen /\ m.catalog = a.catalog
      BY <1>1 DEF Authorities
    <3>3. QED
      BY <3>1, <3>2 DEF Commit
  <2>2. QED
    BY <1>1, <1>2, <1>4, <2>1, IssuesCommand, CommandKeeps DEF MayCommit
<1>5. ASSUME MayResume(a, k) PROVE Commanded(a, k, Resume(a, k))
  <2>1. PICK b \in Authorities :
          /\ b.commands = a.commands /\ b.seen = a.seen /\ b.catalog = a.catalog
          /\ Resume(a, k) = Issue(b, k, "resume_accepted", 1)
    <3> DEFINE m == [a EXCEPT !.paused = FALSE, !.version = @ + 1, !.status = "Running"]
    <3>1. m \in Authorities
      BY <1>1 DEF Authorities, GateStatus
    <3>2. m.commands = a.commands /\ m.seen = a.seen /\ m.catalog = a.catalog
      BY <1>1 DEF Authorities
    <3>3. QED
      BY <3>1, <3>2 DEF Resume
  <2>2. QED
    BY <1>1, <1>2, <1>5, <2>1, IssuesCommand, CommandKeeps DEF MayResume
<1>6. ASSUME MayAdopt(a, k)
      PROVE  Commanded(a, k, Adopt(a, k)) /\ Adopt(a, k).plan = a.plan + 1
  <2>1. PICK b \in Authorities :
          /\ b.commands = a.commands /\ b.seen = a.seen /\ b.catalog = a.catalog
          /\ b.plan = a.plan + 1 /\ Adopt(a, k) = Issue(b, k, "revision_committed", 1)
    <3> DEFINE m == [a EXCEPT !.plan = @ + 1, !.version = @ + 1]
    <3>1. m \in Authorities
      BY <1>1 DEF Authorities
    <3>2. /\ m.commands = a.commands /\ m.seen = a.seen /\ m.catalog = a.catalog
          /\ m.plan = a.plan + 1
      BY <1>1 DEF Authorities
    <3>3. QED
      BY <3>1, <3>2 DEF Adopt
  <2>2. QED
    BY <1>1, <1>2, <1>6, <2>1, IssuesCommand, CommandKeeps DEF MayAdopt
<1>7. QED
  BY <1>3, <1>4, <1>5, <1>6

-----------------------------------------------------------------------------
(* Steps that leave journal, receipts and active source alone.             *)

\* Publications stay.
PublicationsStay ==
  /\ published' = [x \in Requests |-> published'[x]]
  /\ \A x \in Requests : published[x] # NoPublication => published'[x] = published[x]

\* Then the store has what it had.
LEMMA StoreKeeps ==
  ASSUME OwnerInv, StoreStays, PublicationsStay
  PROVE  /\ ReceiptsStay /\ rows' \in [Keys -> ControlReceipts \union {NoReceipt}]
         /\ pointer' \in ActiveSources \union {NoSource}
         /\ link' \in ActiveSources \union {NoSource}
         /\ published' = [x \in Requests |-> published'[x]]
         /\ JournalHeld' /\ SourcesOK'
<1>1. ReceiptsStay
  BY DEF StoreStays, ReceiptsStay
<1>2. JournalHeld'
  BY <1>1 DEF OwnerInv, JournalHeld, StoreStays, Held
<1>3. SourcesOK'
  BY DEF OwnerInv, SourcesOK, ActiveOfRevision, StoreStays, PublicationsStay
<1>4. QED
  BY <1>1, <1>2, <1>3 DEF OwnerInv, OwnerTypes, StoreStays, PublicationsStay

\* A process that only moves in its own memory.
LEMMA QuietKeeps ==
  ASSUME OwnerInv, StoreStays, UNCHANGED published, NEW p \in Services, NEW r \in OwnerRecords,
         owner' = [owner EXCEPT ![p] = r], token' \in {token, p}, Serving(p, r)'
  PROVE  OwnerInv'
<1>1. PublicationsStay
  BY DEF OwnerInv, OwnerTypes, PublicationsStay
<1>2. QED
  BY <1>1, StoreKeeps, OwnerStepKeeps

\* A step that moves no process.
LEMMA UnmovedKeeps ==
  ASSUME OwnerInv, StoreStays, PublicationsStay, UNCHANGED <<owner, token>>
  PROVE  OwnerInv'
<1>1. OwnerTypes'
  BY StoreKeeps DEF OwnerInv, OwnerTypes
<1>2. ASSUME NEW q \in Services, NEW o, o = owner[q] PROVE Serving(q, o)'
  <2>1. Serving(q, o)
    BY <1>2 DEF OwnerInv
  <2>2. o.mem # NoJournal => Held(o.mem)'
    BY <2>1, StoreKeeps, HeldStays DEF Serving
  <2>3. QED
    BY <2>1, <2>2 DEF Serving, StoreStays
<1>3. \A q \in Services : Serving(q, owner[q])'
  <2> SUFFICES ASSUME NEW q \in Services PROVE Serving(q, owner[q])'
    OBVIOUS
  <2>1. PICK o : o = owner[q]
    OBVIOUS
  <2>2. Serving(q, o)' /\ owner'[q] = o
    BY <1>2, <2>1
  <2>3. QED
    BY <2>2
<1>4. QED
  BY <1>1, <1>3, StoreKeeps DEF OwnerInv

\* What a process has, while the store stays: another step, memory or catalog of its own.
LEMMA ServingStays ==
  ASSUME OwnerInv, StoreStays, NEW p \in Services, NEW r, r = owner[p], UNCHANGED token
  PROVE  Serving(p, r)'
<1>1. Serving(p, r)
  BY DEF OwnerInv
<1>2. r.mem # NoJournal => Held(r.mem)'
  BY <1>1, HeldStays DEF Serving, StoreStays, ReceiptsStay
<1>3. QED
  BY <1>1, <1>2 DEF Serving, StoreStays

\* The fields of a process.
LEMMA OwnRecord ==
  ASSUME OwnerInv, NEW p \in Services
  PROVE  owner[p] \in OwnerRecords /\ Serving(p, owner[p])
BY DEF OwnerInv, OwnerTypes

\* A process that is not serving needs nothing but a sound authority.
LEMMA NotServing ==
  ASSUME OwnerInv, StoreStays, NEW p \in Services, NEW r \in OwnerRecords, r.at # "live",
         r.gen = NoGeneration, r.reading = NoSource, r.mem # NoJournal => Held(r.mem)
  PROVE  Serving(p, r)'
BY HeldStays DEF Serving, StoreStays, ReceiptsStay

\* First contact up to the claim, and the end of a process.
LEMMA ContactKeeps ==
  ASSUME OwnerInv, NEW p \in Services,
         \/ \E l \in Leases : ReadLease(p, l)
         \/ WriteLease(p) \/ Load(p) \/ ClaimToken(p) \/ Drop(p)
  PROVE  OwnerInv'
<1>0. PICK o \in OwnerRecords : o = owner[p] /\ Serving(p, o)
  BY OwnRecord
<1>1. owner \in [Services -> OwnerRecords]
  BY DEF OwnerInv, OwnerTypes
<1>2. Gone \in OwnerRecords /\ Gone.at # "live" /\ Gone.gen = NoGeneration
      /\ Gone.reading = NoSource /\ Gone.mem = NoJournal
  BY DEF Gone, OwnerRecords
<1>3. ASSUME NEW r \in OwnerRecords, r.at # "live", r.gen = NoGeneration, r.reading = NoSource,
             r.mem # NoJournal => Held(r.mem), owner' = [owner EXCEPT ![p] = r],
             StoreStays, token' \in {token, p}, UNCHANGED published
      PROVE  OwnerInv'
  BY <1>3, NotServing, QuietKeeps
<1>4. ASSUME NEW l \in Leases, ReadLease(p, l) PROVE OwnerInv'
  <2> DEFINE r == [Gone EXCEPT !.lease = l, !.at = IF l = sidecar THEN "admitted" ELSE "leasing"]
  <2>1. /\ r \in OwnerRecords /\ r.at # "live" /\ r.gen = NoGeneration /\ r.reading = NoSource
        /\ r.mem = NoJournal
    BY <1>2 DEF OwnerRecords
  <2>2. owner' = [owner EXCEPT ![p] = r] /\ StoreStays /\ UNCHANGED <<token, published>>
    BY <1>4 DEF ReadLease, StoreStays
  <2> HIDE DEF r
  <2>3. QED
    BY <1>3, <2>1, <2>2
<1>5. ASSUME WriteLease(p) PROVE OwnerInv'
  <2> DEFINE r == [o EXCEPT !.at = "admitted"]
  <2>1. /\ r \in OwnerRecords /\ r.at # "live" /\ r.gen = o.gen /\ r.reading = o.reading
        /\ r.mem = o.mem
    BY DEF OwnerRecords
  <2>2. owner' = [owner EXCEPT ![p] = r] /\ StoreStays /\ UNCHANGED <<token, published>>
        /\ o.at = "leasing"
    BY <1>0, <1>1, <1>5 DEF WriteLease, StoreStays
  <2> HIDE DEF r
  <2>3. r.gen = NoGeneration /\ r.reading = NoSource /\ (r.mem # NoJournal => Held(r.mem))
    BY <1>0, <2>1, <2>2 DEF Serving
  <2>4. QED
    BY <1>3, <2>1, <2>2, <2>3
<1>6. ASSUME Load(p) PROVE OwnerInv'
  <2> DEFINE m == IF journal = NoJournal THEN NoJournal ELSE Recover(journal)
             r == [o EXCEPT !.at = "loaded", !.mem = m]
  <2>1. m \in Authorities \union {NoJournal} /\ (m # NoJournal => Held(m))
    <3>1. CASE journal # NoJournal
      <4>1. PICK j : j = journal /\ Held(j)
        BY <3>1 DEF OwnerInv, JournalHeld
      <4>2. AuthoritySound(j) /\ j \in Authorities /\ j.epoch + 1 \in Nat
        BY <4>1 DEF Held, AuthoritySound, Authorities
      <4>3. Recover(j).seen = j.seen /\ Recover(j).commands = j.commands
        BY <4>2 DEF Recover, Authorities
      <4>4. AuthoritySound(Recover(j))
        BY <4>2, RecoverKeeps DEF KeepsSound
      <4>5. Held(Recover(j)) /\ Recover(j) \in Authorities
        BY <4>1, <4>3, <4>4 DEF Held, AuthoritySound
      <4>6. QED
        BY <3>1, <4>1, <4>5
    <3>2. QED
      BY <3>1
  <2> HIDE DEF m
  <2>2. /\ r \in OwnerRecords /\ r.at # "live" /\ r.gen = o.gen /\ r.reading = o.reading
        /\ r.mem = m
    BY <2>1 DEF OwnerRecords
  <2>3. owner' = [owner EXCEPT ![p] = r] /\ StoreStays /\ UNCHANGED <<token, published>>
        /\ o.at = "admitted"
    BY <1>0, <1>1, <1>6 DEF Load, StoreStays, Unpersisted, Kept, m
  <2> HIDE DEF r
  <2>4. r.gen = NoGeneration /\ r.reading = NoSource
    BY <1>0, <2>2, <2>3 DEF Serving
  <2>5. QED
    BY <1>3, <2>1, <2>2, <2>3, <2>4
<1>7. ASSUME ClaimToken(p) PROVE OwnerInv'
  <2> DEFINE r == [o EXCEPT !.at = "claimed"]
  <2>1. /\ r \in OwnerRecords /\ r.at # "live" /\ r.gen = o.gen /\ r.reading = o.reading
        /\ r.mem = o.mem
    BY DEF OwnerRecords
  <2>2. owner' = [owner EXCEPT ![p] = r] /\ StoreStays /\ UNCHANGED published
        /\ token' = p /\ o.at = "loaded"
    BY <1>0, <1>1, <1>7 DEF ClaimToken, StoreStays, Unpersisted, Kept
  <2> HIDE DEF r
  <2>3. r.gen = NoGeneration /\ r.reading = NoSource /\ (r.mem # NoJournal => Held(r.mem))
    BY <1>0, <2>1, <2>2 DEF Serving
  <2>4. QED
    BY <1>3, <2>1, <2>2, <2>3
<1>8. ASSUME Drop(p) PROVE OwnerInv'
  <2>1. owner' = [owner EXCEPT ![p] = Gone] /\ StoreStays /\ UNCHANGED <<token, published>>
    BY <1>8 DEF Drop, StoreStays, Unpersisted, Kept
  <2>2. QED
    BY <1>2, <1>3, <2>1
<1>9. QED
  BY <1>4, <1>5, <1>6, <1>7, <1>8

-----------------------------------------------------------------------------
(* Steps that write the journal.                                           *)

\* A write of the journal retires the source of another revision, and its link with it.
LEMMA PersistSources ==
  ASSUME OwnerInv, NEW a \in Authorities, journal' = a, UNCHANGED published,
         pointer' = Of(pointer, a), link' = Of(link, a)
  PROVE  /\ SourcesOK' /\ pointer' \in ActiveSources \union {NoSource}
         /\ link' \in ActiveSources \union {NoSource}
<1>1. a # NoJournal
  BY OwnerAssumption
<1>2. pointer \in ActiveSources \union {NoSource} /\ link \in ActiveSources \union {NoSource}
      /\ SourcesOK
  BY DEF OwnerInv, OwnerTypes
<1>3. pointer' \in {pointer, NoSource} /\ link' \in {link, NoSource}
  BY DEF Of
<1>4. SourcesOK'
  BY <1>1, <1>2 DEF SourcesOK, ActiveOfRevision, Of
<1>5. QED
  BY <1>2, <1>3, <1>4

\* The holder of the token writes the memory it then has.
LEMMA WriteKeeps ==
  ASSUME OwnerInv, NEW p \in Services, token = p, UNCHANGED <<token, published>>,
         NEW r \in OwnerRecords, owner' = [owner EXCEPT ![p] = r], r.at = "live",
         r.mem \in Authorities, Held(r.mem)', journal' = r.mem, r.reading = NoSource,
         r.gen <= r.mem.seen.gen, r.gen = r.mem.seen.gen => r.mem.catalog = r.mem.seen,
         ReceiptsStay, rows' \in [Keys -> ControlReceipts \union {NoReceipt}],
         SourcesOK', pointer' \in ActiveSources \union {NoSource},
         link' \in ActiveSources \union {NoSource}
  PROVE  OwnerInv'
<1>1. r.mem # NoJournal /\ Mirrors(r.mem, r.mem)
  BY SelfMirrors, OwnerAssumption
<1>2. JournalHeld' /\ Serving(p, r)'
  BY <1>1 DEF JournalHeld, Serving
<1>3. published' = [x \in Requests |-> published'[x]]
  BY DEF OwnerInv, OwnerTypes
<1>4. QED
  BY <1>2, <1>3, OwnerStepKeeps

\* Receipts that are not written stay.
LEMMA RowsStay ==
  ASSUME OwnerInv, UNCHANGED rows
  PROVE  ReceiptsStay /\ rows' \in [Keys -> ControlReceipts \union {NoReceipt}]
BY DEF OwnerInv, OwnerTypes, ReceiptsStay

\* A process that serves.
LEMMA LiveFacts ==
  ASSUME OwnerInv, NEW p \in Services, NEW r, r = owner[p], r.at = "live"
  PROVE  /\ r \in OwnerRecords /\ r.mem \in Authorities /\ r.mem # NoJournal /\ Held(r.mem)
         /\ r.mem.seen \in Observations /\ r.mem.seen.gen \in Nat
         /\ r.mem.catalog \in Observations \union {NoCatalog}
         /\ r.gen \in Nat \union {NoGeneration} /\ r.gen <= r.mem.seen.gen
         /\ r.gen = r.mem.seen.gen => r.mem.catalog = r.mem.seen
<1>1. r \in OwnerRecords /\ Serving(p, r)
  BY OwnRecord
<1>2. r.mem # NoJournal /\ Held(r.mem) /\ r.mem \in Authorities
  BY <1>1 DEF Serving, OwnerRecords
<1>3. r.mem.seen \in Observations /\ r.mem.catalog \in Observations \union {NoCatalog}
  BY <1>2 DEF Held, Authorities
<1>4. r.mem.seen.gen \in Nat
  BY <1>3, AuthorityAssumption
<1>5. QED
  BY <1>1, <1>2, <1>3, <1>4 DEF Serving, OwnerRecords

\* The first write of a process that took over.
LEMMA FirstPersistKeeps ==
  ASSUME OwnerInv, NEW p \in Services, NEW o \in Observations, FirstPersist(p, o)
  PROVE  OwnerInv'
<1>0. PICK w \in OwnerRecords : w = owner[p] /\ Serving(p, w)
  BY OwnRecord
<1> DEFINE a == IF w.mem = NoJournal THEN NewAuthority(o) ELSE w.mem
           b == RecordObservation(a, o, NoCatalog)
           r == [w EXCEPT !.at = "live", !.mem = b]
<1>1. /\ w.at = "claimed" /\ token = p /\ journal' = b
      /\ pointer' = Of(pointer, b) /\ link' = Of(link, b) /\ UNCHANGED <<token, rows, published>>
      /\ owner' = [owner EXCEPT ![p] = r]
  BY <1>0 DEF FirstPersist, Persist, Kept, OwnerInv, OwnerTypes
<1>2. Held(a)
  <2>1. CASE w.mem = NoJournal
    <3>1. NewAuthority(o).seen = o /\ NewAuthority(o).commands = [k \in Keys |-> NoReceipt]
      BY DEF NewAuthority
    <3>2. QED
      BY <2>1, <3>1, NewIsSound DEF Held
  <2>2. CASE w.mem # NoJournal
    BY <1>0, <2>2 DEF Serving
  <2>3. QED
    BY <2>1, <2>2
<1> HIDE DEF a
<1>3. Held(b) /\ a \in Authorities
  BY <1>2, ObservedHeld DEF Held, AuthoritySound
<1>4. b \in Authorities /\ b.seen = o /\ b.catalog = NoCatalog
  BY <1>3, ObservationFields
<1> HIDE DEF b
<1>5. /\ r \in OwnerRecords /\ r.at = "live" /\ r.mem = b /\ r.gen = w.gen /\ r.reading = w.reading
  BY <1>4 DEF OwnerRecords
<1> HIDE DEF r
<1>6. r.gen = NoGeneration /\ r.reading = NoSource /\ b.seen.gen \in Nat
  BY <1>0, <1>1, <1>4, <1>5, AuthorityAssumption DEF Serving
<1>7. r.gen <= r.mem.seen.gen /\ r.gen # r.mem.seen.gen
  BY <1>5, <1>6 DEF NoGeneration
<1>8. ReceiptsStay /\ rows' \in [Keys -> ControlReceipts \union {NoReceipt}] /\ Held(r.mem)'
  BY <1>1, <1>3, <1>5, RowsStay, HeldStays
<1>9. SourcesOK' /\ pointer' \in ActiveSources \union {NoSource}
      /\ link' \in ActiveSources \union {NoSource}
  BY <1>1, <1>4, PersistSources
<1>10. QED
  BY <1>1, <1>4, <1>5, <1>6, <1>7, <1>8, <1>9, WriteKeeps

\* A process that observes: its memory has the observation, written or not.
LEMMA ObservingKeeps ==
  ASSUME OwnerInv, NEW p \in Services, Live(p), UNCHANGED <<token, rows, published>>,
         NEW o \in Observations, NEW c \in Observations \union {NoCatalog}, NEW b,
         b = RecordObservation(owner[p].mem, o, c),
         NEW captured \in BOOLEAN, NEW gen \in Nat \union {NoGeneration},
         owner' = [owner EXCEPT ![p] =
                    [owner[p] EXCEPT !.mem = b, !.captured = captured, !.gen = gen]],
         gen <= o.gen, gen = o.gen => c = o,
         NEW ok \in BOOLEAN, IF ok THEN token = p /\ Persist(b) ELSE Unpersisted
  PROVE  OwnerInv'
<1>0. PICK w : w = owner[p]
  OBVIOUS
<1>1. w \in OwnerRecords /\ w.mem \in Authorities /\ Held(w.mem) /\ w.at = "live"
      /\ w.reading = NoSource
  BY <1>0, LiveFacts DEF Live
<1>2. b \in Authorities /\ b.seen = o /\ b.catalog = c /\ Held(b)
  BY <1>0, <1>1, ObservationFields, ObservedHeld
<1> DEFINE r == [w EXCEPT !.mem = b, !.captured = captured, !.gen = gen]
<1>3. /\ r \in OwnerRecords /\ r.at = w.at /\ r.reading = w.reading /\ r.mem = b /\ r.gen = gen
  BY <1>1, <1>2 DEF OwnerRecords
<1>4. owner' = [owner EXCEPT ![p] = r]
  BY <1>0
<1> HIDE DEF r
<1>5. ReceiptsStay /\ rows' \in [Keys -> ControlReceipts \union {NoReceipt}] /\ Held(b)'
  BY <1>2, RowsStay, HeldStays
<1>6. CASE ok
  <2>1. journal' = b /\ pointer' = Of(pointer, b) /\ link' = Of(link, b) /\ token = p
    BY <1>6 DEF Persist
  <2>2. SourcesOK' /\ pointer' \in ActiveSources \union {NoSource}
        /\ link' \in ActiveSources \union {NoSource}
    BY <1>2, <2>1, PersistSources
  <2>3. /\ r.mem \in Authorities /\ Held(r.mem)' /\ journal' = r.mem
        /\ r.gen <= r.mem.seen.gen /\ (r.gen = r.mem.seen.gen => r.mem.catalog = r.mem.seen)
        /\ r.at = "live" /\ r.reading = NoSource
    BY <1>1, <1>2, <1>3, <1>5, <2>1
  <2>4. QED
    BY <1>3, <1>4, <1>5, <2>1, <2>2, <2>3, WriteKeeps
<1>7. CASE ~ok
  <2>1. StoreStays
    BY <1>7 DEF Unpersisted, StoreStays
  <2>2. token = p => journal # NoJournal /\ Mirrors(w.mem, journal)
    BY <1>0, <1>1, OwnRecord DEF Serving
  <2>3. journal # NoJournal => journal \in Authorities
    BY DEF OwnerInv, JournalHeld, Held, AuthoritySound
  <2>4. token = p => journal # NoJournal /\ Mirrors(b, journal)
    BY <1>0, <1>1, <2>2, <2>3, MirrorsStill
  <2>5. b # NoJournal
    BY <1>2, OwnerAssumption
  <2>6. token' = p => journal' # NoJournal /\ Mirrors(b, journal')
    BY <2>1, <2>4 DEF StoreStays
  <2>7. Serving(p, r)'
    BY <1>1, <1>2, <1>3, <1>5, <2>5, <2>6 DEF Serving
  <2>8. QED
    BY <1>3, <1>4, <2>1, <2>7, QuietKeeps
<1>8. QED
  BY <1>6, <1>7

\* Observations and legal actions.
LEMMA ObserveKeeps ==
  ASSUME OwnerInv, NEW p \in Services, NEW o \in Observations, NEW ok \in BOOLEAN,
         Observe(p, o, ok) \/ RecordLegalActions(p, ok)
  PROVE  OwnerInv'
<1>0. PICK w : w = owner[p]
  OBVIOUS
<1>1. /\ Live(p) /\ w.at = "live" /\ UNCHANGED <<token, rows, published>>
      /\ owner \in [Services -> OwnerRecords]
  BY <1>0 DEF Observe, RecordLegalActions, Live, Kept, OwnerInv, OwnerTypes
<1>2. /\ w \in OwnerRecords /\ w.mem \in Authorities /\ w.mem.seen \in Observations
      /\ w.mem.catalog \in Observations \union {NoCatalog} /\ w.mem.seen.gen \in Nat
      /\ w.gen \in Nat \union {NoGeneration} /\ w.gen <= w.mem.seen.gen
      /\ w.gen = w.mem.seen.gen => w.mem.catalog = w.mem.seen
  BY <1>0, <1>1, LiveFacts
<1>3. CASE Observe(p, o, ok)
  <2> DEFINE c == IF RetainsCatalog(p, o) THEN w.mem.catalog ELSE NoCatalog
             b == RecordObservation(w.mem, o, c)
             captured == w.captured /\ b = w.mem
             gen == IF ~ok THEN w.gen ELSE IF RetainsCatalog(p, o) THEN o.gen ELSE NoGeneration
  <2>1. o.gen \in Nat /\ NoCatalog \notin Observations
    BY AuthorityAssumption
  <2>2. c \in Observations \union {NoCatalog} /\ captured \in BOOLEAN
        /\ gen \in Nat \union {NoGeneration}
    BY <1>2, <2>1 DEF OwnerRecords
  <2>3. (o.gen > w.mem.seen.gen \/ o = w.mem.seen)
        /\ (RetainsCatalog(p, o) <=> w.gen = o.gen /\ w.mem.seen.id = o.id)
    BY <1>0, <1>3 DEF Observe, MayObserve, RetainsCatalog
  <2>4. RetainsCatalog(p, o) => o = w.mem.seen /\ w.gen = w.mem.seen.gen /\ c = o
    BY <1>2, <2>1, <2>3 DEF NoGeneration
  <2>5. gen <= o.gen /\ (gen = o.gen => c = o)
    BY <1>2, <2>1, <2>3, <2>4 DEF NoGeneration
  <2>6. owner' = [owner EXCEPT ![p] = [w EXCEPT !.mem = b, !.captured = captured, !.gen = gen]]
    BY <1>0, <1>1, <1>3 DEF Observe
  <2>7. owner'[p].mem = b
    BY <1>1, <1>2, <2>6 DEF OwnerRecords
  <2>8. IF ok THEN token = p /\ Persist(b) ELSE Unpersisted
    BY <1>3, <2>7 DEF Observe, Attempt
  <2> HIDE DEF c, captured, gen
  <2>9. QED
    BY <1>0, <1>1, <2>2, <2>5, <2>6, <2>8, ObservingKeeps
<1>4. CASE RecordLegalActions(p, ok)
  <2> DEFINE s == w.mem.seen
             b == RecordObservation(w.mem, s, s)
             captured == w.captured /\ b = w.mem
             gen == IF ok THEN s.gen ELSE w.gen
  <2>0. captured \in BOOLEAN /\ gen \in Nat \union {NoGeneration}
    BY <1>2 DEF OwnerRecords
  <2>1. captured \in BOOLEAN /\ gen \in Nat \union {NoGeneration} /\ b.seen = s
    BY <1>2, <2>0 DEF RecordObservation, Authorities
  <2>2. gen <= s.gen
    BY <1>2
  <2>3. owner' = [owner EXCEPT ![p] = [w EXCEPT !.mem = b, !.captured = captured, !.gen = gen]]
    BY <1>0, <1>1, <1>4, <2>1 DEF RecordLegalActions
  <2>4. owner'[p].mem = b
    BY <1>1, <1>2, <2>3 DEF OwnerRecords
  <2>5. IF ok THEN token = p /\ Persist(b) ELSE Unpersisted
    BY <1>4, <2>4 DEF RecordLegalActions, Attempt
  <2> HIDE DEF captured, gen
  <2>6. QED
    BY <1>0, <1>1, <1>2, <2>1, <2>2, <2>3, <2>5, ObservingKeeps
<1>5. QED
  BY <1>3, <1>4

\* A binding writes the memory as it is.
LEMMA BindKeeps ==
  ASSUME OwnerInv, NEW p \in Services, NEW n \in Invocations, Bind(p, n)
  PROVE  OwnerInv'
<1>0. PICK w : w = owner[p]
  OBVIOUS
<1> DEFINE captured == w.captured /\ n = w.node
           r == [w EXCEPT !.node = n, !.captured = captured]
<1>1. /\ w.at = "live" /\ w.reading = NoSource /\ token = p /\ journal' = w.mem
      /\ pointer' = Of(pointer, w.mem) /\ link' = Of(link, w.mem)
      /\ UNCHANGED <<token, rows, published>> /\ owner' = [owner EXCEPT ![p] = r]
  BY <1>0 DEF Bind, Live, Persist, Kept, OwnerInv, OwnerTypes
<1>2. /\ w \in OwnerRecords /\ w.mem \in Authorities /\ Held(w.mem)
      /\ w.gen <= w.mem.seen.gen /\ (w.gen = w.mem.seen.gen => w.mem.catalog = w.mem.seen)
  BY <1>0, <1>1, LiveFacts
<1>3. captured \in BOOLEAN
  BY <1>2 DEF OwnerRecords
<1> HIDE DEF captured
<1>4. /\ r \in OwnerRecords /\ r.at = w.at /\ r.mem = w.mem /\ r.gen = w.gen
      /\ r.reading = w.reading
  BY <1>2, <1>3 DEF OwnerRecords
<1> HIDE DEF r
<1>5. ReceiptsStay /\ rows' \in [Keys -> ControlReceipts \union {NoReceipt}] /\ Held(w.mem)'
  BY <1>1, <1>2, RowsStay, HeldStays
<1>6. SourcesOK' /\ pointer' \in ActiveSources \union {NoSource}
      /\ link' \in ActiveSources \union {NoSource}
  BY <1>1, <1>2, PersistSources
<1>7. Held(r.mem)' /\ journal' = r.mem
  BY <1>1, <1>4, <1>5
<1>8. QED
  BY <1>1, <1>2, <1>4, <1>5, <1>6, <1>7, WriteKeeps

\* A command writes its authority and its receipt together.
LEMMA AcceptKeeps ==
  ASSUME OwnerInv, NEW p \in Services, Live(p), NEW k \in Keys, NEW a,
         Commanded(owner[p].mem, k, a), Accept(p, k, a), SourcesOK',
         pointer' \in ActiveSources \union {NoSource}, link' \in ActiveSources \union {NoSource}
  PROVE  OwnerInv'
<1>0. PICK w : w = owner[p]
  OBVIOUS
<1>1. /\ w.at = "live" /\ w.reading = NoSource /\ token = p /\ rows[k] = NoReceipt
      /\ rows' = [rows EXCEPT ![k] = a.commands[k]] /\ journal' = a
      /\ owner' = [owner EXCEPT ![p] = [w EXCEPT !.mem = a, !.captured = FALSE]]
      /\ UNCHANGED <<token, published>>
  BY <1>0 DEF Live, Accept, Kept, OwnerInv, OwnerTypes
<1>2. /\ w \in OwnerRecords /\ Held(w.mem)
      /\ w.gen <= w.mem.seen.gen /\ (w.gen = w.mem.seen.gen => w.mem.catalog = w.mem.seen)
  BY <1>0, <1>1, LiveFacts
<1>3. /\ a \in Authorities /\ AuthoritySound(a) /\ a.seen = w.mem.seen
      /\ a.catalog = w.mem.catalog /\ a.commands[k] \in ControlReceipts
      /\ \A j \in Keys : j # k => a.commands[j] = w.mem.commands[j]
  BY <1>0 DEF Commanded, AuthoritySound
<1>4. rows \in [Keys -> ControlReceipts \union {NoReceipt}]
  BY DEF OwnerInv, OwnerTypes
<1>5. ReceiptsStay /\ rows' \in [Keys -> ControlReceipts \union {NoReceipt}]
  BY <1>1, <1>3, <1>4 DEF ReceiptsStay
<1>6. Held(a)'
  BY <1>1, <1>2, <1>3, <1>4 DEF Held
<1> DEFINE r == [w EXCEPT !.mem = a, !.captured = FALSE]
<1>7. /\ r \in OwnerRecords /\ r.at = w.at /\ r.mem = a /\ r.gen = w.gen
      /\ r.reading = w.reading
  BY <1>2, <1>3 DEF OwnerRecords
<1>8. owner' = [owner EXCEPT ![p] = r]
  BY <1>1
<1> HIDE DEF r
<1>9. /\ r.mem \in Authorities /\ Held(r.mem)' /\ journal' = r.mem
      /\ r.gen <= r.mem.seen.gen /\ (r.gen = r.mem.seen.gen => r.mem.catalog = r.mem.seen)
      /\ r.at = "live" /\ r.reading = NoSource
  BY <1>1, <1>2, <1>3, <1>6, <1>7
<1>10. QED
  BY <1>1, <1>5, <1>7, <1>8, <1>9, WriteKeeps

\* Pause, commit and resume.
LEMMA ControlKeeps ==
  ASSUME OwnerInv, NEW p \in Services, NEW k \in Keys, Control(p, k)
  PROVE  OwnerInv'
<1>0. PICK w : w = owner[p]
  OBVIOUS
<1>1. w.at = "live" /\ Live(p)
  BY <1>0 DEF Control, Bound, Live
<1>2. AuthoritySound(w.mem)
  BY <1>0, <1>1, LiveFacts DEF Held
<1>3. PICK b : /\ Commanded(w.mem, k, b) /\ Accept(p, k, b)
               /\ pointer' = Of(pointer, b) /\ link' = Of(link, b)
  BY <1>0, <1>2, CommandFields DEF Control
<1>4. b \in Authorities /\ journal' = b /\ UNCHANGED published
  BY <1>3 DEF Commanded, AuthoritySound, Accept, Kept
<1>5. QED
  BY <1>0, <1>1, <1>3, <1>4, PersistSources, AcceptKeeps

\* An adopted configured source is of the revision it made, and has no link.
LEMMA AdoptConfiguredKeeps ==
  ASSUME OwnerInv, NEW p \in Services, NEW k \in Keys, NEW s \in Configured,
         AdoptConfigured(p, k, s)
  PROVE  OwnerInv'
<1>0. PICK w : w = owner[p]
  OBVIOUS
<1> DEFINE a == Adopt(w.mem, k)
           active == [source |-> s, plan |-> w.mem.plan + 1]
<1>1. /\ w.at = "live" /\ Live(p) /\ MayAdopt(w.mem, k) /\ Accept(p, k, a)
      /\ pointer' = active /\ link' = NoSource
  BY <1>0 DEF AdoptConfigured, Bound, Live
<1>2. AuthoritySound(w.mem) /\ w.mem.plan + 1 \in Nat
  BY <1>0, <1>1, LiveFacts DEF Held, Authorities
<1>3. Commanded(w.mem, k, a) /\ a.plan = w.mem.plan + 1
  BY <1>1, <1>2, CommandFields
<1>4. a \in Authorities /\ a # NoJournal /\ journal' = a
  BY <1>1, <1>3, OwnerAssumption DEF Commanded, AuthoritySound, Accept
<1>5. active \in ActiveSources /\ active # NoSource /\ active.plan = a.plan
      /\ active.source \notin Requests
  BY <1>2, <1>3, OwnerAssumption DEF ActiveSources
<1> HIDE DEF a, active
<1>6. SourcesOK'
  BY <1>1, <1>4, <1>5 DEF SourcesOK, ActiveOfRevision
<1>7. QED
  BY <1>0, <1>1, <1>3, <1>5, <1>6, AcceptKeeps

\* An adopted publication is linked, and was prepared from the revision it replaces.
LEMMA AdoptPublicationKeeps ==
  ASSUME OwnerInv, NEW p \in Services, NEW k \in Keys, NEW u \in Requests,
         AdoptPublication(p, k, u)
  PROVE  OwnerInv'
<1>0. PICK w : w = owner[p]
  OBVIOUS
<1> DEFINE a == Adopt(w.mem, k)
           active == [source |-> u, plan |-> w.mem.plan + 1]
<1>1. /\ w.at = "live" /\ Live(p) /\ MayAdopt(w.mem, k) /\ Accept(p, k, a)
      /\ pointer' = active /\ link' = active /\ published[u] # NoPublication
      /\ published[u].base = w.mem.plan
  BY <1>0 DEF AdoptPublication, Bound, Live
<1>2. AuthoritySound(w.mem) /\ w.mem.plan \in Nat /\ w.mem.plan + 1 \in Nat
  BY <1>0, <1>1, LiveFacts DEF Held, Authorities
<1>3. Commanded(w.mem, k, a) /\ a.plan = w.mem.plan + 1
  BY <1>1, <1>2, CommandFields
<1>4. a \in Authorities /\ a # NoJournal /\ journal' = a /\ UNCHANGED published
  BY <1>1, <1>3, OwnerAssumption DEF Commanded, AuthoritySound, Accept, Kept
<1>5. active \in ActiveSources /\ active # NoSource /\ active.plan = a.plan
      /\ active.source = u /\ published[u].base = active.plan - 1
  BY <1>1, <1>2, <1>3, OwnerAssumption DEF ActiveSources
<1> HIDE DEF a, active
<1>6. SourcesOK'
  BY <1>1, <1>4, <1>5 DEF SourcesOK, ActiveOfRevision
<1>7. QED
  BY <1>0, <1>1, <1>3, <1>5, <1>6, AcceptKeeps

\* Sources, drafts, previews and publications move no process and not the active source.
LEMMA DraftingKeeps ==
  ASSUME OwnerInv, NEW p \in Services,
         \/ \E s \in Configured : PublishSource(p, s)
         \/ \E d \in Drafts, m \in Mutations :
              CreateDraft(p, d, m) \/ PatchDraft(p, d, m) \/ PreviewDraft(p, d, m)
         \/ \E d \in Drafts, u \in Requests : PublishDraft(p, d, u)
  PROVE  OwnerInv'
<1>1. StoreStays /\ UNCHANGED <<owner, token>>
  BY DEF PublishSource, CreateDraft, PatchDraft, PreviewDraft, PublishDraft, Unpersisted, StoreStays
<1>2. \/ UNCHANGED published
      \/ \E u \in Requests : \E x :
           published[u] = NoPublication /\ published' = [published EXCEPT ![u] = x]
  BY DEF PublishSource, CreateDraft, PatchDraft, PreviewDraft, PublishDraft
<1>3. PublicationsStay
  BY <1>2 DEF OwnerInv, OwnerTypes, PublicationsStay
<1>4. QED
  BY <1>1, <1>3, UnmovedKeeps

\* A capture and a render change only what the process remembers of them.
LEMMA RenderKeeps ==
  ASSUME OwnerInv, NEW p \in Services, Capture(p) \/ Render(p)
  PROVE  OwnerInv'
<1>0. PICK w : w = owner[p]
  OBVIOUS
<1>1. w \in OwnerRecords /\ Serving(p, w) /\ owner \in [Services -> OwnerRecords]
  BY <1>0, OwnRecord DEF OwnerInv, OwnerTypes
<1>2. StoreStays /\ UNCHANGED <<token, published>>
  BY DEF Capture, Render, RenderRead, RenderReturns, RenderRefused, Unpersisted, Kept, StoreStays
<1>3. Serving(p, w)'
  BY <1>0, <1>2, ServingStays
<1>4. ASSUME NEW r \in OwnerRecords, r.at = w.at, r.mem = w.mem, r.gen = w.gen,
             r.reading \in {w.reading, NoSource}, owner' = [owner EXCEPT ![p] = r]
      PROVE  OwnerInv'
  <2>1. Serving(p, r)'
    BY <1>3, <1>4 DEF Serving
  <2>2. QED
    BY <1>2, <1>4, <2>1, QuietKeeps
<1>5. CASE Capture(p)
  <2> DEFINE r == [w EXCEPT !.captured = TRUE]
  <2>1. /\ r \in OwnerRecords /\ r.at = w.at /\ r.mem = w.mem /\ r.gen = w.gen
        /\ r.reading = w.reading
    BY <1>1 DEF OwnerRecords
  <2>2. owner' = [owner EXCEPT ![p] = r]
    BY <1>0, <1>1, <1>5 DEF Capture
  <2> HIDE DEF r
  <2>3. QED
    BY <1>4, <2>1, <2>2
<1>6. CASE RenderReturns(p) \/ RenderRefused(p)
  <2> DEFINE r == [w EXCEPT !.reading = NoSource]
  <2>1. /\ r \in OwnerRecords /\ r.at = w.at /\ r.mem = w.mem /\ r.gen = w.gen
        /\ r.reading = NoSource
    BY <1>1 DEF OwnerRecords
  <2>2. owner' = [owner EXCEPT ![p] = r]
    BY <1>0, <1>1, <1>6 DEF RenderReturns, RenderRefused
  <2> HIDE DEF r
  <2>3. QED
    BY <1>4, <2>1, <2>2
<1>7. CASE RenderRead(p)
  <2>1. PICK s : s = pointer
    OBVIOUS
  <2>2. /\ w.at = "live" /\ AdmitsPlan(w.mem, w.mem.plan) /\ s # NoSource
        /\ s.plan = w.mem.plan /\ owner' = [owner EXCEPT ![p] = [w EXCEPT !.reading = s]]
    BY <1>0, <1>1, <1>7, <2>1 DEF RenderRead, Bound, Live
  <2>3. s \in ActiveSources
    BY <2>1, <2>2 DEF OwnerInv, OwnerTypes
  <2> DEFINE r == [w EXCEPT !.reading = s]
  <2>4. /\ r \in OwnerRecords /\ r.at = w.at /\ r.mem = w.mem /\ r.gen = w.gen
        /\ r.reading = s
    BY <1>1, <2>3 DEF OwnerRecords
  <2>5. owner' = [owner EXCEPT ![p] = r]
    BY <2>2
  <2> HIDE DEF r
  <2>6. token = p => journal # NoJournal /\ AdmitsPlan(journal, s.plan)
    <3> SUFFICES ASSUME token = p PROVE journal # NoJournal /\ AdmitsPlan(journal, s.plan)
      OBVIOUS
    <3>1. journal # NoJournal /\ Mirrors(w.mem, journal)
      BY <1>1, <2>2 DEF Serving
    <3>2. journal \in Authorities
      BY <3>1 DEF OwnerInv, JournalHeld, Held, AuthoritySound
    <3>3. QED
      BY <2>2, <3>1, <3>2, MirrorFields DEF AdmitsPlan
  <2>7. token' = p => /\ pointer' = s /\ journal' # NoJournal
                      /\ AdmitsPlan(journal', pointer'.plan)
    BY <1>2, <2>1, <2>6 DEF StoreStays
  <2>8. Serving(p, r)'
    BY <1>3, <2>2, <2>4, <2>7 DEF Serving
  <2>9. QED
    BY <1>2, <2>4, <2>5, <2>8, QuietKeeps
<1>8. QED
  BY <1>5, <1>6, <1>7 DEF Render

\* Every step keeps the invariant.
LEMMA OwnerInvKept == OwnerInv /\ [OwnerNext]_ownerVars => OwnerInv'
<1> SUFFICES ASSUME OwnerInv, [OwnerNext]_ownerVars PROVE OwnerInv'
  OBVIOUS
<1>1. CASE UNCHANGED ownerVars
  <2>1. StoreStays /\ PublicationsStay /\ UNCHANGED <<owner, token>>
    BY <1>1 DEF ownerVars, StoreStays, PublicationsStay, OwnerInv, OwnerTypes
  <2>2. QED
    BY <2>1, UnmovedKeeps
<1>2. ASSUME NEW p \in Services, Contact(p) PROVE OwnerInv'
  BY <1>2, ContactKeeps, FirstPersistKeeps DEF Contact
<1>3. ASSUME NEW p \in Services, Serve(p) PROVE OwnerInv'
  <2>1. ASSUME NEW ok \in BOOLEAN, RecordLegalActions(p, ok) PROVE OwnerInv'
    <3>1. PICK o \in Observations : TRUE
      BY <2>1, LiveFacts DEF RecordLegalActions, Live
    <3>2. QED
      BY <2>1, ObserveKeeps
  <2>2. QED
    BY <1>3, <2>1, ObserveKeeps, BindKeeps, RenderKeeps, ControlKeeps, AdoptConfiguredKeeps,
       AdoptPublicationKeeps, DraftingKeeps
    DEF Serve
<1>4. ASSUME NEW p \in Services, Render(p) PROVE OwnerInv'
  BY <1>4, RenderKeeps
<1>5. QED
  BY <1>1, <1>2, <1>3, <1>4 DEF OwnerNext

-----------------------------------------------------------------------------
(* What no step does.                                                      *)

\* The commands of the journal stay in it.
CommandsStay ==
  journal # NoJournal =>
    \A k \in Keys : journal.commands[k] # NoReceipt => journal'.commands[k] = journal.commands[k]

\* The memory of a process that may write has the journal's commands.
LEMMA HolderCommands ==
  ASSUME OwnerInv, NEW p \in Services, Live(p), token = p, journal # NoJournal
  PROVE  owner[p].mem.commands = journal.commands /\ owner[p].mem \in Authorities
<1>1. PICK w : w = owner[p]
  OBVIOUS
<1>2. w.at = "live" /\ w.mem \in Authorities
  BY <1>1, LiveFacts DEF Live
<1>3. Mirrors(w.mem, journal)
  BY <1>1, <1>2, OwnRecord DEF Serving
<1>4. journal \in Authorities
  BY DEF OwnerInv, JournalHeld, Held, AuthoritySound
<1>5. QED
  BY <1>1, <1>2, <1>3, <1>4, MirrorFields

\* A command that is accepted takes no other back.
LEMMA AcceptStays ==
  ASSUME OwnerInv, NEW p \in Services, Live(p), NEW k \in Keys, NEW a,
         Commanded(owner[p].mem, k, a), Accept(p, k, a)
  PROVE  ReceiptsStay /\ CommandsStay
<1>1. /\ token = p /\ rows[k] = NoReceipt /\ journal' = a
      /\ rows' = [rows EXCEPT ![k] = a.commands[k]]
  BY DEF Accept
<1>2. ReceiptsStay
  BY <1>1 DEF ReceiptsStay, OwnerInv, OwnerTypes
<1>3. journal # NoJournal => owner[p].mem.commands = journal.commands
  BY <1>1, HolderCommands
<1>4. CommandsStay
  BY <1>1, <1>3 DEF CommandsStay, Commanded
<1>5. QED
  BY <1>2, <1>4

\* No process takes an accepted command back, except one that takes over.
LEMMA CommandsKept ==
  OwnerInv /\ [OwnerNext]_ownerVars =>
    /\ ReceiptsStay
    /\ CommandsStay \/ \E p \in Services, o \in Observations : FirstPersist(p, o)
<1> SUFFICES ASSUME OwnerInv, [OwnerNext]_ownerVars,
                    ~ \E p \in Services, o \in Observations : FirstPersist(p, o)
             PROVE  ReceiptsStay /\ CommandsStay
  BY DEF FirstPersist, ReceiptsStay
<1>0. ASSUME UNCHANGED <<journal, rows>> PROVE ReceiptsStay /\ CommandsStay
  BY <1>0 DEF ReceiptsStay, CommandsStay
<1>1. ASSUME NEW p \in Services, Contact(p) PROVE UNCHANGED <<journal, rows>>
  BY <1>1 DEF Contact, ReadLease, WriteLease, Load, ClaimToken, Drop, Unpersisted
<1>2. ASSUME NEW p \in Services, Render(p) PROVE UNCHANGED <<journal, rows>>
  BY <1>2 DEF Render, RenderRead, RenderReturns, RenderRefused, Unpersisted
<1>3. ASSUME NEW p \in Services, NEW ok \in BOOLEAN, NEW o \in Observations, Observe(p, o, ok)
      PROVE  ReceiptsStay /\ CommandsStay
  <2> DEFINE c == IF RetainsCatalog(p, o) THEN owner[p].mem.catalog ELSE NoCatalog
             b == RecordObservation(owner[p].mem, o, c)
  <2>1. Live(p) /\ UNCHANGED rows
    BY <1>3 DEF Observe
  <2>2. CASE ~ok
    BY <1>0, <1>3, <2>1, <2>2 DEF Observe, Attempt, Unpersisted
  <2>3. CASE ok /\ journal # NoJournal
    <3>1. token = p /\ journal' = owner'[p].mem
      BY <1>3, <2>3 DEF Observe, Attempt, Persist
    <3>2. owner'[p].mem = b
      BY <1>3 DEF Observe, OwnerInv, OwnerTypes, OwnerRecords
    <3>3. owner[p].mem.commands = journal.commands /\ owner[p].mem \in Authorities
      BY <2>1, <2>3, <3>1, HolderCommands
    <3>4. b.commands = owner[p].mem.commands
      BY <3>3 DEF RecordObservation, Authorities
    <3>5. QED
      BY <2>1, <3>1, <3>2, <3>3, <3>4 DEF ReceiptsStay, CommandsStay
  <2>4. QED
    BY <2>1, <2>2, <2>3 DEF ReceiptsStay, CommandsStay
<1>4. ASSUME NEW p \in Services, NEW ok \in BOOLEAN, RecordLegalActions(p, ok)
      PROVE  ReceiptsStay /\ CommandsStay
  <2> DEFINE b == RecordObservation(owner[p].mem, owner[p].mem.seen, owner[p].mem.seen)
  <2>1. Live(p) /\ UNCHANGED rows
    BY <1>4 DEF RecordLegalActions
  <2>2. CASE ~ok
    BY <1>0, <1>4, <2>1, <2>2 DEF RecordLegalActions, Attempt, Unpersisted
  <2>3. CASE ok /\ journal # NoJournal
    <3>1. token = p /\ journal' = owner'[p].mem
      BY <1>4, <2>3 DEF RecordLegalActions, Attempt, Persist
    <3>2. owner'[p].mem = b
      BY <1>4 DEF RecordLegalActions, OwnerInv, OwnerTypes, OwnerRecords
    <3>3. owner[p].mem.commands = journal.commands /\ owner[p].mem \in Authorities
      BY <2>1, <2>3, <3>1, HolderCommands
    <3>4. b.commands = owner[p].mem.commands
      BY <3>3 DEF RecordObservation, Authorities
    <3>5. QED
      BY <2>1, <3>1, <3>2, <3>3, <3>4 DEF ReceiptsStay, CommandsStay
  <2>4. QED
    BY <2>1, <2>2, <2>3 DEF ReceiptsStay, CommandsStay
<1>5. ASSUME NEW p \in Services, NEW n \in Invocations, Bind(p, n)
      PROVE  ReceiptsStay /\ CommandsStay
  <2>1. Live(p) /\ token = p /\ journal' = owner[p].mem /\ UNCHANGED rows
    BY <1>5 DEF Bind, Persist
  <2>2. QED
    BY <2>1, HolderCommands DEF ReceiptsStay, CommandsStay
<1>6. ASSUME NEW p \in Services, NEW k \in Keys,
             \/ Control(p, k) \/ \E s \in Configured : AdoptConfigured(p, k, s)
             \/ \E u \in Requests : AdoptPublication(p, k, u)
      PROVE  ReceiptsStay /\ CommandsStay
  <2>1. Live(p) /\ AuthoritySound(owner[p].mem)
    <3>1. Live(p)
      BY <1>6 DEF Control, AdoptConfigured, AdoptPublication, Bound
    <3>2. PICK w : w = owner[p]
      OBVIOUS
    <3>3. AuthoritySound(w.mem)
      BY <3>1, <3>2, LiveFacts DEF Live, Held
    <3>4. QED
      BY <3>1, <3>2, <3>3
  <2>2. PICK a : Commanded(owner[p].mem, k, a) /\ Accept(p, k, a)
    BY <1>6, <2>1, CommandFields DEF Control, AdoptConfigured, AdoptPublication
  <2>3. QED
    BY <2>1, <2>2, AcceptStays
<1>7. ASSUME NEW p \in Services,
             \/ Capture(p) \/ \E s \in Configured : PublishSource(p, s)
             \/ \E d \in Drafts, m \in Mutations :
                  CreateDraft(p, d, m) \/ PatchDraft(p, d, m) \/ PreviewDraft(p, d, m)
             \/ \E d \in Drafts, u \in Requests : PublishDraft(p, d, u)
      PROVE  UNCHANGED <<journal, rows>>
  BY <1>7
  DEF Capture, PublishSource, CreateDraft, PatchDraft, PreviewDraft, PublishDraft, Unpersisted
<1>8. ASSUME NEW p \in Services, Serve(p) PROVE ReceiptsStay /\ CommandsStay
  BY <1>0, <1>3, <1>4, <1>5, <1>6, <1>7, <1>8 DEF Serve
<1>9. CASE UNCHANGED ownerVars
  BY <1>0, <1>9 DEF ownerVars
<1>10. QED
  BY <1>0, <1>1, <1>2, <1>8, <1>9 DEF OwnerNext

-----------------------------------------------------------------------------

\* The inductive invariant of the context owner: what the journal holds, what each process
\* has in memory and what is active agree as the token and the receipts say.
THEOREM OwnerInvariant == OwnerSpec => []OwnerInv
BY OwnerStarts, OwnerInvKept, PTL DEF OwnerSpec

\* For any processes, leases, sources, requests and failed writes, the holder of the token
\* decides on the journal, the active source is of its revision, commands have receipts,
\* and a current catalog is of the observation acted on (store_persist.rs, observation.rs).
THEOREM OwnerStaysSound == OwnerSpec => []OwnerSound
BY OwnerInvariant, OwnerInvSound, PTL

\* A source is served only while it is active and the gate is open, receipts are never
\* replaced, and an accepted command leaves the journal only when a process takes over
\* (source_render_resolution.rs, store_receipts.rs).
THEOREM OwnerStepsStaySound == OwnerSpec => OwnerSteps
<1>1. ASSUME OwnerInv, NEW p \in Services, RenderReturns(p)
      PROVE  pointer = owner[p].reading /\ AdmitsPlan(journal, pointer.plan)
  BY <1>1, OwnRecord DEF RenderReturns, Serving
<1>2. OwnerInv /\ [OwnerNext]_ownerVars =>
        [(\A p \in Services : ServedIsActive(p)) /\ (\A k \in Keys : CommandKept(k))]_ownerVars
  BY <1>1, CommandsKept DEF ServedIsActive, CommandKept, ReceiptsStay, CommandsStay
<1>3. QED
  BY <1>2, OwnerInvariant, PTL DEF OwnerSpec, OwnerSteps

\* Every journal a process of the owner writes, and every authority it holds in memory, is
\* sound in the sense of the gate (ControlGate): no revision is retired under its work and
\* every control version is spent once.
THEOREM OwnedAuthoritiesSound ==
  OwnerSpec => [](/\ journal # NoJournal => AuthoritySound(journal)
                  /\ \A p \in Services : owner[p].mem # NoJournal => AuthoritySound(owner[p].mem))
<1>1. OwnerInv => /\ journal # NoJournal => AuthoritySound(journal)
                  /\ \A p \in Services : owner[p].mem # NoJournal => AuthoritySound(owner[p].mem)
  BY DEF OwnerInv, JournalHeld, Serving, Held
<1>2. QED
  BY <1>1, OwnerInvariant, PTL

-----------------------------------------------------------------------------
(* The process-lifecycle commands.                                         *)

Lines == Intents \union {Unreadable}

CallRecords ==
  {Idle} \union [at: {"admitted", "recorded", "cleared"}, cmd: Commands]
         \union [at: {"waiting"}, op: OpIds, kind: Kinds]
         \union [at: {"answered"}, op: OpIds, class: Settled \union {"unknown"}]

\* The intent of o is in the file, unless a record of the file cannot be read.
Filed(o) == LinesOf(o) # {} \/ \E n \in DOMAIN lines : lines[n] = Unreadable

FileTypes ==
  /\ entries \in [OpIds -> JournalEntries \union {NoJournalEntry}] /\ IsFiniteSet(Begun)
  /\ lines \in Seq(Lines) /\ tail \in {"end", "torn", "past"}
  /\ poisoned \in BOOLEAN /\ up \in BOOLEAN
  /\ intents \in [OpIds -> Intents \union {NoIntent}]
  /\ faults \in Nat

\* The intent i of o in memory has its journal entry and its record.  Behind a failed write
\* of the journal it may be older than the entry, but then it has no settled outcome.
Backed(o, i) ==
  /\ up /\ i.op = o /\ Filed(o)
  /\ entries[o] # NoJournalEntry
  /\ entries[o].sequence = i.sequence /\ entries[o].kind = i.kind
  /\ \/ entries[o].outcome = JournalOutcome(i.class)
     \/ poisoned /\ i.class \in {"none", "unknown"}

\* Each record follows from the one before it.
Chained ==
  \A o \in OpIds, n, k \in DOMAIN lines :
    (/\ n \in LinesOf(o) /\ k \in LinesOf(o) /\ n < k
     /\ \A j \in LinesOf(o) : j <= n \/ j >= k) => Consistent(lines[n], lines[k])

\* What the files are while no write has failed.
Clean ==
  /\ ~poisoned /\ tail = "end"
  /\ \A n \in DOMAIN lines : lines[n] # Unreadable
  /\ Chained /\ Begun = Recorded
  /\ \A o \in Recorded : AgreesWithJournal(o)
  /\ up => \A o \in OpIds : intents[o] = Latest(o)

FileInv ==
  /\ FileTypes
  /\ \A o \in OpIds : intents[o] # NoIntent => Backed(o, intents[o])
  /\ faults = 0 => Clean

\* A handler past the intent has it in memory, and a refusal is the gateway's.
CallOK(x) ==
  /\ x # Idle => up
  /\ x.at \in {"recorded", "cleared"} => intents[x.cmd.op] # NoIntent
  /\ x.at \in {"waiting", "answered"} => intents[x.op] # NoIntent
  /\ x.at = "answered" /\ x.class = "rejected" => gateway[x.op] = "refused"

CallInv == call \in [Callers -> CallRecords] /\ \A c \in Callers : CallOK(call[c])

OutsideInv ==
  /\ wire \subseteq OpIds
  /\ gateway \in [OpIds -> {"none", "refused", "working", "blocked", "stopped"}]
  /\ told \in [OpIds -> SUBSET Settled]
  /\ IntentPrecedesEffect /\ ToldIsKept /\ RefusedWithoutEffect

LifecycleInv == FileInv /\ CallInv /\ OutsideInv

\* The fields a handler has at each of its steps.
LEMMA CallFields ==
  ASSUME CallInv, NEW c \in Callers
  PROVE  /\ call[c] \in CallRecords
         /\ call[c].at \in {"idle", "admitted", "recorded", "cleared", "waiting", "answered"}
         /\ call[c].at \in {"admitted", "recorded", "cleared"} =>
              /\ call[c].cmd \in Commands /\ call[c].cmd.op \in OpIds /\ call[c].cmd.kind \in Kinds
              /\ call[c] # Idle
              /\ call[c] \in [at: {"admitted", "recorded", "cleared"}, cmd: Commands]
         /\ call[c].at = "waiting" => call[c].op \in OpIds /\ call[c].kind \in Kinds /\ call[c] # Idle
         /\ call[c].at = "answered" =>
              call[c].op \in OpIds /\ call[c].class \in Settled \union {"unknown"} /\ call[c] # Idle
<1>1. call[c] \in CallRecords
  BY DEF CallInv
<1>2. QED
  BY <1>1, LifecycleAssumption DEF CallRecords, Idle

\* Every record of the file can be read or is torn.
LEMMA LineFacts ==
  ASSUME FileTypes
  PROVE  /\ lines \in Seq(Lines) /\ Len(lines) \in Nat /\ DOMAIN lines = 1..Len(lines)
         /\ \A n \in DOMAIN lines : lines[n] \in Lines /\ (lines[n] # Unreadable => lines[n] \in Intents)
         /\ \A o \in OpIds : LinesOf(o) \subseteq DOMAIN lines
         /\ \A o \in OpIds : \A n \in LinesOf(o) : lines[n] \in Intents /\ lines[n].op = o
  BY DEF FileTypes, LinesOf, Lines

\* A bounded set of numbers has a greatest member.
LEMMA Greatest ==
  ASSUME NEW N \in Nat, NEW S \in SUBSET (1..N), S # {}
  PROVE  \E m \in S : \A k \in S : k <= m
<1> DEFINE T == {j \in Nat : N - j \in S /\ j <= N}
<1>1. T # {} /\ T \subseteq Nat
  <2>1. PICK k \in S : TRUE
    OBVIOUS
  <2>2. N - k \in Nat /\ N - (N - k) = k /\ N - k <= N
    BY <2>1
  <2>3. N - k \in T
    BY <2>1, <2>2
  <2>4. QED
    BY <2>3
<1>2. PICK j \in T : \A i \in T : <<i, j>> \notin OpToRel(<, Nat)
  BY <1>1, NatLessThanWellFounded, WFMin
<1>3. \A i \in T : ~(i < j)
  BY <1>2, <1>1 DEF OpToRel
<1>4. N - j \in S /\ j \in Nat /\ j <= N
  BY <1>1, <1>2
<1>5. ASSUME NEW k \in S PROVE k <= N - j
  <2>1. N - k \in Nat /\ N - (N - k) = k /\ N - k <= N
    OBVIOUS
  <2>2. N - k \in T
    BY <2>1
  <2>3. ~(N - k < j)
    BY <1>3, <2>2
  <2>4. QED
    BY <1>4, <2>1, <2>3
<1>6. QED
  BY <1>4, <1>5

\* The greatest member is the one CHOOSE takes.
LEMMA GreatestIs ==
  ASSUME NEW S \in SUBSET Nat, NEW m \in S, \A k \in S : k <= m
  PROVE  (CHOOSE n \in S : \A k \in S : k <= n) = m
<1>1. \A n \in S : (\A k \in S : k <= n) => n = m
  OBVIOUS
<1>2. QED
  BY <1>1

\* The latest record of o is the one no other record of o is behind.
LEMMA LatestExists ==
  ASSUME FileTypes, NEW o \in OpIds, LinesOf(o) # {}
  PROVE  \E m \in LinesOf(o) : (\A k \in LinesOf(o) : k <= m) /\ Latest(o) = lines[m]
<1>1. PICK m \in LinesOf(o) : \A k \in LinesOf(o) : k <= m
  BY LineFacts, Greatest
<1>2. LinesOf(o) \in SUBSET Nat
  BY LineFacts
<1>3. (CHOOSE n \in LinesOf(o) : \A k \in LinesOf(o) : k <= n) = m
  BY <1>1, <1>2, GreatestIs
<1>4. QED
  BY <1>1, <1>3 DEF Latest

\* The invariant is as strong as what the run checks.
LEMMA LifecycleInvSound == LifecycleInv => LifecycleSound
<1> SUFFICES ASSUME LifecycleInv PROVE LifecycleSound
  OBVIOUS
<1>1. LifecycleTypeOK
  <2>1. ASSUME NEW o \in OpIds
        PROVE  /\ entries[o] = NoJournalEntry \/ entries[o] \in JournalEntries
               /\ intents[o] # NoIntent => intents[o] \in Intents /\ intents[o].op = o
               /\ told[o] \subseteq Settled
               /\ gateway[o] \in {"none", "refused", "working", "blocked", "stopped"}
    BY DEF LifecycleInv, FileInv, FileTypes, OutsideInv, Backed
  <2>2. \A n \in DOMAIN lines : lines[n] = Unreadable \/ lines[n] \in Intents
    BY LineFacts DEF LifecycleInv, FileInv
  <2>3. \A c \in Callers :
          call[c].at \in {"idle", "admitted", "recorded", "cleared", "waiting", "answered"}
    BY CallFields DEF LifecycleInv
  <2>4. QED
    BY <2>1, <2>2, <2>3 DEF LifecycleTypeOK, LifecycleInv, FileInv, FileTypes
<1>2. MemoryAgrees
  BY DEF MemoryAgrees, LifecycleInv, FileInv, Backed
<1>3. WrittenOpens
  BY DEF WrittenOpens, Opens, Chained, Clean, LifecycleInv, FileInv
<1>4. QED
  BY <1>1, <1>2, <1>3 DEF LifecycleInv, OutsideInv, LifecycleSound

\* A new service, with empty files.
LEMMA LifecycleStarts == LifecycleInit => LifecycleInv
<1> SUFFICES ASSUME LifecycleInit PROVE LifecycleInv
  OBVIOUS
<1> USE DEF LifecycleInit
<1>1. Begun = {} /\ (\A o \in OpIds : LinesOf(o) = {}) /\ Recorded = {}
  BY DEF Begun, LinesOf, Recorded
<1>2. FileTypes
  <2>1. IsFiniteSet(Begun)
    BY <1>1, FS_EmptySet
  <2>2. lines \in Seq(Lines)
    OBVIOUS
  <2>3. QED
    BY <2>1, <2>2 DEF FileTypes
<1>3. Clean
  BY <1>1 DEF Clean, Chained, Latest
<1>4. FileInv
  BY <1>2, <1>3 DEF FileInv
<1>5. CallInv
  BY DEF CallInv, CallOK, CallRecords, Idle
<1>6. OutsideInv
  BY DEF OutsideInv, IntentPrecedesEffect, ToldIsKept, RefusedWithoutEffect
<1>7. QED
  BY <1>4, <1>5, <1>6 DEF LifecycleInv

\* A step that leaves files and memory alone.
LEMMA StillFiles ==
  ASSUME FileInv, UNCHANGED <<disk, up, intents, faults>>
  PROVE  FileInv' /\ \A o \in OpIds : Filed(o) => Filed(o)'
<1>1. FileTypes'
  BY DEF FileInv, FileTypes, disk, Begun
<1>2. \A o \in OpIds : LinesOf(o)' = LinesOf(o) /\ Latest(o)' = Latest(o) /\ Filed(o)' = Filed(o)
  BY DEF disk, LinesOf, Latest, Filed
<1>3. \A o \in OpIds : intents[o] # NoIntent => Backed(o, intents[o])'
  BY <1>2 DEF FileInv, Backed, disk
<1>4. Begun' = Begun /\ Recorded' = Recorded
  BY <1>2 DEF Begun, Recorded, disk
<1>5. \A o \in OpIds : AgreesWithJournal(o)' = AgreesWithJournal(o)
  BY <1>2 DEF AgreesWithJournal, disk
<1>6. Chained => Chained'
  BY <1>2 DEF Chained, disk
<1>7. Clean => Clean'
  BY <1>2, <1>4, <1>5, <1>6 DEF Clean, disk, Recorded
<1>8. QED
  BY <1>1, <1>2, <1>3, <1>7 DEF FileInv

\* A handler takes its next record while memory and gateway keep what they have.
LEMMA KeepsCall ==
  ASSUME CallInv, NEW c \in Callers, NEW x \in CallRecords, Keeps(c, x), CallOK(x)',
         up' = up, \A o \in OpIds : intents[o] # NoIntent => intents'[o] # NoIntent,
         \A o \in OpIds : gateway[o] = "refused" => gateway'[o] = "refused"
  PROVE  CallInv'
<1>1. call' \in [Callers -> CallRecords]
  BY DEF CallInv, Keeps
<1>2. ASSUME NEW d \in Callers PROVE CallOK(call[d])'
  <2>1. CASE d = c
    BY <2>1 DEF CallInv, Keeps
  <2>2. CASE d # c
    <3>1. call'[d] = call[d] /\ CallOK(call[d])
      BY <2>2 DEF CallInv, Keeps
    <3>2. PICK y : y = call[d]
      OBVIOUS
    <3>3. /\ y.at \in {"recorded", "cleared"} => y.cmd.op \in OpIds
          /\ y.at \in {"waiting", "answered"} => y.op \in OpIds
      BY <3>2, CallFields
    <3>4. CallOK(y)'
      BY <3>1, <3>2, <3>3 DEF CallOK
    <3>5. QED
      BY <3>1, <3>2, <3>4
  <2>3. QED
    BY <2>1, <2>2
<1>3. QED
  BY <1>1, <1>2 DEF CallInv

\* A step of the gateway, which only adds refusals.
LEMMA SameCalls ==
  ASSUME CallInv, call' = call, up' = up, intents' = intents,
         \A o \in OpIds : gateway[o] = "refused" => gateway'[o] = "refused"
  PROVE  CallInv'
<1>1. ASSUME NEW d \in Callers PROVE CallOK(call[d])'
  <2>1. /\ call[d].at \in {"waiting", "answered"} => call[d].op \in OpIds
    BY CallFields
  <2>2. QED
    BY <2>1 DEF CallInv, CallOK
<1>2. QED
  BY <1>1 DEF CallInv

\* What a client is told is what the journal has.
LEMMA AnswersKept ==
  ASSUME told \in [OpIds -> SUBSET Settled], ToldIsKept, NEW i \in Intents, Answers(i),
         \A o \in OpIds : entries[o] # NoJournalEntry /\ entries[o].outcome \in {"accepted", "rejected"}
           => entries'[o] # NoJournalEntry /\ entries'[o].outcome = entries[o].outcome,
         i.class \in Settled =>
           entries'[i.op] # NoJournalEntry /\ entries'[i.op].outcome = JournalOutcome(i.class)
  PROVE  told' \in [OpIds -> SUBSET Settled] /\ ToldIsKept'
<1>1. i.op \in OpIds
  BY DEF Intents
<1>2. told' \in [OpIds -> SUBSET Settled]
  BY <1>1 DEF Answers
<1>3. ASSUME NEW o \in OpIds, NEW class \in told'[o]
      PROVE  entries'[o] # NoJournalEntry /\ entries'[o].outcome = JournalOutcome(class)
  <2>1. class \in told[o] \/ (o = i.op /\ class = i.class /\ class \in Settled)
    BY <1>1 DEF Answers
  <2>2. CASE class \in told[o]
    <3>1. class \in Settled /\ entries[o] # NoJournalEntry /\ entries[o].outcome = JournalOutcome(class)
      BY <2>2 DEF ToldIsKept
    <3>2. JournalOutcome(class) \in {"accepted", "rejected"}
      BY <3>1 DEF JournalOutcome, Settled
    <3>3. QED
      BY <3>1, <3>2
  <2>3. QED
    BY <2>1, <2>2
<1>4. QED
  BY <1>2, <1>3 DEF ToldIsKept

\* The world outside: the journal and the intent file only grow, and what they say of it holds.
LEMMA OutsideKept ==
  ASSUME OutsideInv, wire' \subseteq OpIds,
         gateway' \in [OpIds -> {"none", "refused", "working", "blocked", "stopped"}],
         told' \in [OpIds -> SUBSET Settled], ToldIsKept',
         \A o \in OpIds : o \in wire' \/ gateway'[o] # "none" =>
           \/ entries'[o] # NoJournalEntry /\ Filed(o)'
           \/ o \in wire \/ gateway[o] # "none",
         \A o \in OpIds : entries[o] # NoJournalEntry => entries'[o] # NoJournalEntry,
         \A o \in OpIds : Filed(o) => Filed(o)',
         \A o \in OpIds : entries'[o] # NoJournalEntry /\ entries'[o].outcome = "rejected" =>
           gateway'[o] = "refused"
  PROVE  OutsideInv'
<1>1. \A o \in OpIds : o \in wire \/ gateway[o] # "none" => entries[o] # NoJournalEntry /\ Filed(o)
  BY DEF OutsideInv, IntentPrecedesEffect, Filed
<1>2. \A o \in OpIds : o \in wire' \/ gateway'[o] # "none" => entries'[o] # NoJournalEntry /\ Filed(o)'
  BY <1>1
<1>3. IntentPrecedesEffect'
  BY <1>2 DEF IntentPrecedesEffect, Filed
<1>4. QED
  BY <1>3 DEF OutsideInv, RefusedWithoutEffect

\* Steps that leave the files and the memory alone.
LEMMA QuietStep ==
  ASSUME LifecycleInv, NEW c \in Callers,
         \/ \E cmd \in Commands : AdmitCommand(c, cmd)
         \/ FindIntent(c) \/ RefuseIntent(c) \/ Fence(c) \/ Submit(c)
         \/ \E o \in OpIds : Lookup(c, o)
         \/ Answered(c) \/ RefuseOutcome(c)
  PROVE  LifecycleInv'
<1>1. UNCHANGED <<disk, up, intents, faults>> /\ gateway' = gateway
  BY DEF AdmitCommand, FindIntent, RefuseIntent, Fence, Submit, Lookup, Answered, RefuseOutcome, counts
<1>2. FileInv' /\ \A o \in OpIds : Filed(o) => Filed(o)'
  BY <1>1, StillFiles DEF LifecycleInv
<1>3. entries' = entries /\ poisoned' = poisoned
  BY <1>1 DEF disk
<1>4. PICK x : x = call[c]
  OBVIOUS
<1>5. /\ x \in CallRecords /\ CallOK(x)
      /\ x.at \in {"admitted", "recorded", "cleared"} =>
           /\ x.cmd \in Commands /\ x.cmd.op \in OpIds /\ x.cmd.kind \in Kinds /\ x # Idle
           /\ x \in [at: {"admitted", "recorded", "cleared"}, cmd: Commands]
      /\ x.at = "waiting" => x.op \in OpIds /\ x.kind \in Kinds /\ x # Idle
      /\ x.at = "answered" => x.op \in OpIds /\ x.class \in Settled \union {"unknown"} /\ x # Idle
  BY <1>4, CallFields DEF LifecycleInv, CallInv
<1>6. ASSUME NEW y \in CallRecords, Keeps(c, y), CallOK(y)' PROVE CallInv'
  BY <1>1, <1>6, KeepsCall DEF LifecycleInv
<1>7. Idle \in CallRecords /\ CallOK(Idle)'
  BY DEF CallRecords, CallOK, Idle
<1>8. ASSUME Keeps(c, Idle) PROVE CallInv'
  BY <1>6, <1>7, <1>8
<1>9. ASSUME NEW o \in OpIds, intents[o] # NoIntent
      PROVE  /\ intents[o] \in Intents /\ intents[o].op = o /\ up /\ Filed(o)
             /\ entries[o] # NoJournalEntry
             /\ intents[o].class \in Settled => entries[o].outcome = JournalOutcome(intents[o].class)
  BY <1>9 DEF LifecycleInv, FileInv, FileTypes, Backed, Settled
<1>10. ASSUME wire' \subseteq OpIds,
              \A o \in OpIds : o \in wire' => o \in wire \/ (entries'[o] # NoJournalEntry /\ Filed(o)'),
              told' \in [OpIds -> SUBSET Settled], ToldIsKept'
       PROVE  OutsideInv'
  <2>1. \A o \in OpIds : entries'[o] # NoJournalEntry /\ entries'[o].outcome = "rejected" =>
           gateway'[o] = "refused"
    BY <1>1, <1>3 DEF LifecycleInv, OutsideInv, RefusedWithoutEffect
  <2>2. gateway' \in [OpIds -> {"none", "refused", "working", "blocked", "stopped"}]
    BY <1>1 DEF LifecycleInv, OutsideInv
  <2>3. QED
    BY <1>1, <1>2, <1>3, <1>10, <2>1, <2>2, OutsideKept DEF LifecycleInv
<1>11. ASSUME wire' \subseteq OpIds,
              \A o \in OpIds : o \in wire' => o \in wire \/ (entries'[o] # NoJournalEntry /\ Filed(o)'),
              told' = told
       PROVE  OutsideInv'
  <2>1. told' \in [OpIds -> SUBSET Settled] /\ ToldIsKept'
    BY <1>3, <1>11 DEF LifecycleInv, OutsideInv, ToldIsKept
  <2>2. QED
    BY <1>10, <1>11, <2>1
<1>12. ASSUME wire' = wire, NEW o \in OpIds, intents[o] # NoIntent, Answers(intents[o])
       PROVE  OutsideInv'
  <2>1. PICK i : i = intents[o]
    OBVIOUS
  <2>2. told' \in [OpIds -> SUBSET Settled] /\ ToldIsKept'
    BY <1>3, <1>9, <1>12, <2>1, AnswersKept DEF LifecycleInv, OutsideInv
  <2>3. wire \subseteq OpIds
    BY DEF LifecycleInv, OutsideInv
  <2>4. QED
    BY <1>10, <1>12, <2>2, <2>3
<1>13. ASSUME wire' = wire, told' = told PROVE OutsideInv'
  <2>1. wire \subseteq OpIds
    BY DEF LifecycleInv, OutsideInv
  <2>2. QED
    BY <1>11, <1>13, <2>1
<1>14. ASSUME NEW cmd \in Commands, AdmitCommand(c, cmd) PROVE CallInv' /\ OutsideInv'
  <2> DEFINE same == {o \in OpIds : intents[o] # NoIntent /\ intents[o].id = cmd.id}
             found == {o \in same : intents[o].class # "none" /\ \A k \in same : o <= k}
  <2>1. CASE found = {}
    <3>1. Keeps(c, [at |-> "admitted", cmd |-> cmd]) /\ told' = told /\ wire' = wire /\ up
      BY <1>14, <2>1 DEF AdmitCommand
    <3>2. PICK y : y = [at |-> "admitted", cmd |-> cmd]
      OBVIOUS
    <3>3. y \in CallRecords /\ CallOK(y)'
      BY <1>1, <3>1, <3>2 DEF CallRecords, CallOK
    <3>4. QED
      BY <1>6, <1>13, <3>1, <3>2, <3>3
  <2>2. CASE found # {}
    <3>1. call' = call /\ wire' = wire /\ \E o \in found : Answers(intents[o])
      BY <1>14, <2>2 DEF AdmitCommand
    <3>2. CallInv'
      BY <1>1, <3>1, SameCalls DEF LifecycleInv
    <3>3. QED
      BY <1>12, <3>1, <3>2
  <2>3. QED
    BY <2>1, <2>2
<1>15. ASSUME FindIntent(c) PROVE CallInv' /\ OutsideInv'
  <2> DEFINE i == intents[x.cmd.op]
             same == ~poisoned /\ i # NoIntent /\ entries[x.cmd.op].kind = x.cmd.kind
  <2>1. x.at = "admitted" /\ wire' = wire
    BY <1>4, <1>15 DEF FindIntent
  <2>2. OutsideInv'
    <3>1. (same /\ Answers(i)) \/ told' = told
      BY <1>4, <1>15 DEF FindIntent
    <3>2. QED
      BY <1>5, <1>12, <1>13, <2>1, <3>1
  <2>3. CallInv'
    <3>1. (same /\ Keeps(c, [x EXCEPT !.at = "recorded"])) \/ Keeps(c, Idle)
      BY <1>4, <1>15 DEF FindIntent
    <3>2. PICK y : y = [x EXCEPT !.at = "recorded"]
      OBVIOUS
    <3>3. y \in CallRecords /\ y.at = "recorded" /\ y.cmd = x.cmd
      BY <1>5, <2>1, <3>2 DEF CallRecords
    <3>4. same => CallOK(y)'
      BY <1>1, <1>5, <1>9, <2>1, <3>3 DEF CallOK
    <3>5. QED
      BY <1>6, <1>8, <3>1, <3>2, <3>3, <3>4
  <2>4. QED
    BY <2>2, <2>3
<1>16. ASSUME RefuseIntent(c) \/ RefuseOutcome(c) PROVE CallInv' /\ OutsideInv'
  BY <1>8, <1>13, <1>16 DEF RefuseIntent, RefuseOutcome
<1>17. ASSUME Fence(c) PROVE CallInv' /\ OutsideInv'
  <2>1. x.at = "recorded" /\ (Keeps(c, Idle) \/ Keeps(c, [x EXCEPT !.at = "cleared"]))
    BY <1>4, <1>17 DEF Fence
  <2>2. PICK y : y = [x EXCEPT !.at = "cleared"]
    OBVIOUS
  <2>3. y \in CallRecords /\ y.at = "cleared" /\ y.cmd = x.cmd
    BY <1>5, <2>1, <2>2 DEF CallRecords
  <2>4. CallOK(y)'
    BY <1>1, <1>5, <2>1, <2>3 DEF CallOK
  <2>5. CallInv'
    BY <1>6, <1>8, <2>1, <2>2, <2>3, <2>4
  <2>6. QED
    BY <1>13, <1>17, <2>5 DEF Fence
<1>18. ASSUME Submit(c) PROVE CallInv' /\ OutsideInv'
  <2>1. /\ x.at = "cleared" /\ wire' = wire \union {x.cmd.op} /\ told' = told
        /\ Keeps(c, [at |-> "waiting", op |-> x.cmd.op, kind |-> x.cmd.kind])
    BY <1>4, <1>18 DEF Submit
  <2>2. PICK y : y = [at |-> "waiting", op |-> x.cmd.op, kind |-> x.cmd.kind]
    OBVIOUS
  <2>3. y \in CallRecords
    BY <1>5, <2>1, <2>2 DEF CallRecords
  <2>4. intents[x.cmd.op] # NoIntent /\ up
    BY <1>5, <2>1 DEF CallOK
  <2>5. CallOK(y)'
    BY <1>1, <2>2, <2>4 DEF CallOK
  <2>6. entries'[x.cmd.op] # NoJournalEntry /\ Filed(x.cmd.op)'
    BY <1>2, <1>3, <1>5, <1>9, <2>1, <2>4
  <2>7. wire' \subseteq OpIds
    BY <1>5, <2>1 DEF LifecycleInv, OutsideInv
  <2>8. OutsideInv'
    BY <1>11, <2>1, <2>6, <2>7
  <2>9. QED
    BY <1>6, <2>1, <2>2, <2>3, <2>5, <2>8
<1>19. ASSUME NEW o \in OpIds, Lookup(c, o) PROVE CallInv' /\ OutsideInv'
  <2>1. /\ intents[o] # NoIntent /\ wire' = wire /\ told' = told /\ up
        /\ Keeps(c, [at |-> "waiting", op |-> o, kind |-> intents[o].kind])
    BY <1>19 DEF Lookup
  <2>2. PICK y : y = [at |-> "waiting", op |-> o, kind |-> intents[o].kind]
    OBVIOUS
  <2>3. intents[o].kind \in Kinds
    BY <1>9, <2>1 DEF Intents
  <2>4. y \in CallRecords
    BY <2>2, <2>3 DEF CallRecords
  <2>5. CallOK(y)'
    BY <1>1, <2>1, <2>2 DEF CallOK
  <2>6. QED
    BY <1>6, <1>13, <2>1, <2>2, <2>4, <2>5
<1>20. ASSUME Answered(c) PROVE CallInv' /\ OutsideInv'
  <2>1. PICK class \in {LostAnswer, Classify(gateway[x.op], x.kind)} :
          Keeps(c, [at |-> "answered", op |-> x.op, class |-> class])
    BY <1>4, <1>20 DEF Answered
  <2>2. x.at = "waiting" /\ wire' = wire /\ told' = told
    BY <1>4, <1>20 DEF Answered
  <2>3. class \in Settled \union {"unknown"} /\ (class = "rejected" => gateway[x.op] = "refused")
    BY <2>1 DEF LostAnswer, Classify, Settled
  <2>4. PICK y : y = [at |-> "answered", op |-> x.op, class |-> class]
    OBVIOUS
  <2>5. y \in CallRecords
    BY <1>5, <2>2, <2>3, <2>4 DEF CallRecords
  <2>6. CallOK(y)'
    BY <1>1, <1>5, <2>2, <2>3, <2>4 DEF CallOK
  <2>7. QED
    BY <1>6, <1>13, <2>1, <2>2, <2>4, <2>5, <2>6
<1>21. CallInv' /\ OutsideInv'
  BY <1>14, <1>15, <1>16, <1>17, <1>18, <1>19, <1>20
<1>22. QED
  BY <1>2, <1>21 DEF LifecycleInv

\* The gateway works on what the journal has.
LEMMA GatewayStep ==
  ASSUME LifecycleInv, NEW o \in OpIds, Arrive(o) \/ Proceed(o)
  PROVE  LifecycleInv'
<1>1. UNCHANGED <<disk, up, intents, faults>> /\ call' = call /\ told' = told
  BY DEF Arrive, Proceed, counts
<1>2. FileInv' /\ \A p \in OpIds : Filed(p) => Filed(p)'
  BY <1>1, StillFiles DEF LifecycleInv
<1>3. entries' = entries
  BY <1>1 DEF disk
<1>4. gateway \in [OpIds -> {"none", "refused", "working", "blocked", "stopped"}]
  BY DEF LifecycleInv, OutsideInv
<1>5. PICK s \in {"refused", "working", "blocked", "stopped"} :
        /\ gateway' = [gateway EXCEPT ![o] = s] \/ gateway' = gateway
        /\ gateway' # gateway => gateway[o] # "refused" /\ (o \in wire \/ gateway[o] # "none")
        /\ wire' \subseteq wire
  <2>1. CASE Arrive(o)
    <3>1. PICK s \in {"refused", "working", "blocked"} :
            gateway' = [gateway EXCEPT ![o] = IF @ = "none" THEN s ELSE @]
      BY <2>1 DEF Arrive
    <3>2. (gateway[o] = "none" /\ gateway' = [gateway EXCEPT ![o] = s]) \/ gateway' = gateway
      BY <1>4, <3>1
    <3>3. QED
      BY <2>1, <3>2 DEF Arrive
  <2>2. CASE Proceed(o)
    BY <2>2 DEF Proceed
  <2>3. QED
    BY <2>1, <2>2
<1>6. \A p \in OpIds : /\ gateway[p] = "refused" => gateway'[p] = "refused"
                       /\ gateway'[p] # "none" => p \in wire \/ gateway[p] # "none"
  BY <1>4, <1>5
<1>7. CallInv'
  BY <1>1, <1>6, SameCalls DEF LifecycleInv
<1>8. wire' \subseteq OpIds /\ gateway' \in [OpIds -> {"none", "refused", "working", "blocked", "stopped"}]
  BY <1>4, <1>5 DEF LifecycleInv, OutsideInv
<1>9. told' \in [OpIds -> SUBSET Settled] /\ ToldIsKept'
  BY <1>1, <1>3 DEF LifecycleInv, OutsideInv, ToldIsKept
<1>10. \A p \in OpIds : entries'[p] # NoJournalEntry /\ entries'[p].outcome = "rejected" =>
          gateway'[p] = "refused"
  BY <1>3, <1>6 DEF LifecycleInv, OutsideInv, RefusedWithoutEffect
<1>11. OutsideInv'
  BY <1>2, <1>3, <1>5, <1>6, <1>8, <1>9, <1>10, OutsideKept DEF LifecycleInv
<1>12. QED
  BY <1>2, <1>7, <1>11 DEF LifecycleInv

\* A crash takes the memory and the handlers (Drop of the journal).
LEMMA CrashStep ==
  ASSUME LifecycleInv, Crash
  PROVE  LifecycleInv'
<1>1. /\ entries' = entries /\ lines' = lines /\ tail' = tail /\ faults' = faults
      /\ poisoned' = FALSE /\ up' = FALSE /\ intents' = [o \in OpIds |-> NoIntent]
      /\ call' = [c \in Callers |-> Idle]
      /\ wire' = wire /\ gateway' = gateway /\ told' = told
  BY DEF Crash
<1>2. FileTypes'
  BY <1>1 DEF LifecycleInv, FileInv, FileTypes, Begun
<1>3. \A o \in OpIds : LinesOf(o)' = LinesOf(o) /\ Latest(o)' = Latest(o) /\ Filed(o)' = Filed(o)
  BY <1>1 DEF LinesOf, Latest, Filed
<1>4. Begun' = Begun /\ Recorded' = Recorded
  BY <1>1, <1>3 DEF Begun, Recorded
<1>5. \A o \in OpIds : AgreesWithJournal(o)' = AgreesWithJournal(o)
  BY <1>1, <1>3 DEF AgreesWithJournal
<1>6. Chained => Chained'
  BY <1>1, <1>3 DEF Chained
<1>7. Clean => Clean'
  BY <1>1, <1>4, <1>5, <1>6 DEF Clean, Recorded
<1>8. FileInv'
  BY <1>1, <1>2, <1>7 DEF LifecycleInv, FileInv
<1>9. CallInv'
  BY <1>1 DEF CallInv, CallRecords, CallOK, Idle
<1>10. OutsideInv'
  BY <1>1, <1>3 DEF LifecycleInv, OutsideInv, IntentPrecedesEffect, ToldIsKept, RefusedWithoutEffect
<1>11. QED
  BY <1>8, <1>9, <1>10 DEF LifecycleInv

\* The service opens what the cross-check of the files lets through.
LEMMA OpenStep ==
  ASSUME LifecycleInv, OpenStore
  PROVE  LifecycleInv'
<1>1. /\ entries' = entries /\ lines' = lines /\ faults' = faults /\ poisoned' = poisoned
      /\ tail' = (IF tail = "torn" THEN "past" ELSE "end")
      /\ up' = TRUE /\ intents' = [o \in OpIds |-> Latest(o)] /\ call' = call
      /\ wire' = wire /\ gateway' = gateway /\ told' = told
      /\ ~up /\ Opens
  BY DEF OpenStore, counts
<1>2. FileTypes
  BY DEF LifecycleInv, FileInv
<1>3. ASSUME NEW o \in OpIds
      PROVE  /\ Latest(o) \in Intents \union {NoIntent}
             /\ Latest(o) # NoIntent =>
                  Latest(o) \in Intents /\ Latest(o).op = o /\ LinesOf(o) # {} /\ o \in Recorded
  <2>1. CASE LinesOf(o) = {}
    BY <2>1 DEF Latest
  <2>2. CASE LinesOf(o) # {}
    <3>1. PICK m \in LinesOf(o) : Latest(o) = lines[m]
      BY <1>2, <2>2, LatestExists
    <3>2. QED
      BY <1>2, <2>2, <3>1, LineFacts DEF Recorded
  <2>3. QED
    BY <2>1, <2>2
<1>4. FileTypes'
  BY <1>1, <1>2, <1>3 DEF FileTypes, Begun
<1>5. \A o \in OpIds : LinesOf(o)' = LinesOf(o) /\ Latest(o)' = Latest(o) /\ Filed(o)' = Filed(o)
  BY <1>1 DEF LinesOf, Latest, Filed
<1>6. ASSUME NEW o \in OpIds, Latest(o) # NoIntent PROVE Backed(o, intents[o])'
  <2>1. AgreesWithJournal(o)
    BY <1>1, <1>3, <1>6 DEF Opens
  <2>2. Filed(o)' /\ intents'[o] = Latest(o) /\ Latest(o).op = o
    BY <1>1, <1>3, <1>5, <1>6 DEF Filed
  <2>3. QED
    BY <1>1, <2>1, <2>2 DEF Backed, AgreesWithJournal
<1>7. Begun' = Begun /\ Recorded' = Recorded
  BY <1>1, <1>5 DEF Begun, Recorded
<1>8. \A o \in OpIds : AgreesWithJournal(o)' = AgreesWithJournal(o)
  BY <1>1, <1>5 DEF AgreesWithJournal
<1>9. Chained => Chained'
  BY <1>1, <1>5 DEF Chained
<1>10. Clean => Clean'
  BY <1>1, <1>5, <1>7, <1>8, <1>9 DEF Clean, Recorded
<1>11. FileInv'
  BY <1>1, <1>4, <1>6, <1>10 DEF LifecycleInv, FileInv
<1>12. \A c \in Callers : call[c] = Idle
  BY <1>1 DEF LifecycleInv, CallInv, CallOK
<1>13. CallInv'
  BY <1>1, <1>12 DEF LifecycleInv, CallInv, CallOK, Idle
<1>14. OutsideInv'
  BY <1>1, <1>5 DEF LifecycleInv, OutsideInv, IntentPrecedesEffect, ToldIsKept, RefusedWithoutEffect
<1>15. QED
  BY <1>11, <1>13, <1>14 DEF LifecycleInv

\* A record that is appended leaves the ones before it where they are.
LEMMA AppendKeeps ==
  ASSUME FileTypes, NEW i \in Intents, NEW v \in AppendWrites, AppendIntent(i, v)
  PROVE  /\ lines' \in Seq(Lines) /\ tail' \in {"end", "torn", "past"}
         /\ \A o \in OpIds : Filed(o) => Filed(o)'
         /\ v = "written" => Filed(i.op)'
         /\ v = "written" /\ tail = "end" => lines' = Append(lines, i) /\ tail' = "end"
<1>1. i.op \in OpIds /\ i # Unreadable /\ i \in Lines /\ Unreadable \in Lines
  BY LifecycleAssumption DEF Intents, Lines
<1>2. lines \in Seq(Lines) /\ Len(lines) \in Nat /\ DOMAIN lines = 1..Len(lines)
  BY LineFacts
<1>3. CASE v \in {"written", "unsynced"}
  <2>1. PICK r \in {i, Unreadable} : lines' = Append(lines, r) /\ tail' = "end" /\ (tail = "end" => r = i)
    BY <1>3 DEF AppendIntent
  <2>2. r \in Lines
    BY <1>1, <2>1
  <2>3. /\ lines' \in Seq(Lines) /\ DOMAIN lines' = 1..(Len(lines) + 1)
        /\ lines'[Len(lines) + 1] = r /\ \A n \in DOMAIN lines : lines'[n] = lines[n]
    BY <1>2, <2>1, <2>2
  <2>4. DOMAIN lines \subseteq DOMAIN lines' /\ Len(lines) + 1 \in DOMAIN lines'
    BY <1>2, <2>3
  <2>5. \A o \in OpIds : Filed(o) => Filed(o)'
    BY <2>3, <2>4 DEF Filed, LinesOf
  <2>6. Filed(i.op)'
    <3>1. CASE r = i
      BY <1>1, <2>3, <2>4, <3>1 DEF Filed, LinesOf
    <3>2. CASE r = Unreadable
      BY <2>3, <2>4, <3>2 DEF Filed
    <3>3. QED
      BY <2>1, <3>1, <3>2
  <2>7. QED
    BY <2>1, <2>3, <2>5, <2>6
<1>4. CASE v \notin {"written", "unsynced"}
  BY <1>2, <1>4 DEF AppendIntent, FileTypes, Filed, LinesOf
<1>5. QED
  BY <1>3, <1>4

\* In a file without torn records the appended one is the latest of its operation.
LEMMA AppendClean ==
  ASSUME FileTypes, \A n \in DOMAIN lines : lines[n] # Unreadable, Chained,
         NEW i \in Intents, lines' = Append(lines, i),
         LinesOf(i.op) # {} => Consistent(Latest(i.op), i)
  PROVE  /\ \A n \in DOMAIN lines' : lines'[n] # Unreadable
         /\ Chained' /\ Recorded' = Recorded \union {i.op}
         /\ Latest(i.op)' = i
         /\ \A o \in OpIds : o # i.op => Latest(o)' = Latest(o)
<1>1. i.op \in OpIds /\ i # Unreadable /\ i \in Lines
  BY LifecycleAssumption DEF Intents, Lines
<1>2. lines \in Seq(Lines) /\ Len(lines) \in Nat /\ DOMAIN lines = 1..Len(lines)
  BY LineFacts
<1> DEFINE last == Len(lines) + 1
<1>3. /\ DOMAIN lines' = 1..last /\ lines'[last] = i /\ \A n \in DOMAIN lines : lines'[n] = lines[n]
      /\ DOMAIN lines' = DOMAIN lines \union {last} /\ last \notin DOMAIN lines
  BY <1>1, <1>2
<1>4. LinesOf(i.op)' = LinesOf(i.op) \union {last}
  BY <1>1, <1>3 DEF LinesOf
<1>5. \A o \in OpIds : o # i.op => LinesOf(o)' = LinesOf(o)
  BY <1>1, <1>3 DEF LinesOf
<1>6. \A o \in OpIds : LinesOf(o) \subseteq DOMAIN lines
  BY LineFacts
<1>7. \A o \in OpIds : \A n \in LinesOf(o) : n \in Nat /\ n < last /\ lines'[n] = lines[n]
  BY <1>2, <1>3, <1>6
<1>8. Latest(i.op)' = i
  <2>1. LinesOf(i.op)' \in SUBSET Nat /\ last \in LinesOf(i.op)' /\ \A k \in LinesOf(i.op)' : k <= last
    BY <1>1, <1>2, <1>4, <1>7
  <2>2. (CHOOSE n \in LinesOf(i.op)' : \A k \in LinesOf(i.op)' : k <= n) = last
    BY <2>1, GreatestIs
  <2>3. QED
    BY <1>3, <2>1, <2>2 DEF Latest
<1>9. ASSUME NEW o \in OpIds, o # i.op PROVE Latest(o)' = Latest(o)
  <2>1. LinesOf(o)' = LinesOf(o)
    BY <1>5, <1>9
  <2>2. CASE LinesOf(o) = {}
    BY <2>1, <2>2 DEF Latest
  <2>3. CASE LinesOf(o) # {}
    <3>1. PICK m \in LinesOf(o) : (\A k \in LinesOf(o) : k <= m) /\ Latest(o) = lines[m]
      BY <2>3, LatestExists
    <3>2. LinesOf(o) \in SUBSET Nat
      BY <1>7
    <3>3. (CHOOSE n \in LinesOf(o) : \A k \in LinesOf(o) : k <= n) = m
      BY <3>1, <3>2, GreatestIs
    <3>4. (CHOOSE n \in LinesOf(o)' : \A k \in LinesOf(o)' : k <= n) = m
      BY <2>1, <3>3
    <3>5. Latest(o)' = lines'[m]
      BY <2>1, <2>3, <3>4 DEF Latest
    <3>6. QED
      BY <1>7, <3>1, <3>5
  <2>4. QED
    BY <2>2, <2>3
<1>10. Chained'
  <2> SUFFICES ASSUME NEW o \in OpIds, NEW n \in LinesOf(o)', NEW k \in LinesOf(o)', n < k,
                      \A j \in LinesOf(o)' : j <= n \/ j >= k
               PROVE  Consistent(lines'[n], lines'[k])
    BY DEF Chained, Consistent
  <2>1. CASE o # i.op \/ k # last
    <3>1. n \in LinesOf(o) /\ k \in LinesOf(o)
      BY <1>2, <1>4, <1>5, <1>7, <2>1
    <3>2. \A j \in LinesOf(o) : j <= n \/ j >= k
      BY <1>4, <1>5
    <3>3. n \in DOMAIN lines /\ k \in DOMAIN lines
      BY <1>6, <3>1
    <3>4. Consistent(lines[n], lines[k])
      BY <3>1, <3>2, <3>3 DEF Chained
    <3>5. lines'[n] = lines[n] /\ lines'[k] = lines[k]
      BY <1>7, <3>1
    <3>6. QED
      BY <3>4, <3>5
  <2>2. CASE o = i.op /\ k = last
    <3>1. n \in LinesOf(i.op)
      BY <1>2, <1>4, <2>2
    <3>2. PICK m \in LinesOf(i.op) : (\A j \in LinesOf(i.op) : j <= m) /\ Latest(i.op) = lines[m]
      BY <1>1, <3>1, LatestExists
    <3>3. m \in Nat /\ m < last /\ n \in Nat /\ n <= m
      BY <1>1, <1>7, <3>1, <3>2
    <3>4. m <= n \/ m >= last
      BY <1>4, <2>2, <3>2
    <3>5. n = m
      BY <1>2, <3>3, <3>4
    <3>6. lines'[n] = Latest(i.op) /\ lines'[k] = i
      BY <1>1, <1>3, <1>7, <2>2, <3>2, <3>5
    <3>7. QED
      BY <3>1, <3>6
  <2>3. QED
    BY <2>1, <2>2
<1>11. Recorded' = Recorded \union {i.op}
  BY <1>1, <1>4, <1>5 DEF Recorded
<1>12. \A n \in DOMAIN lines' : lines'[n] # Unreadable
  BY <1>1, <1>3
<1>13. QED
  BY <1>8, <1>9, <1>10, <1>11, <1>12

\* record_intent: the journal's entry, then the record, then the memory.
LEMMA RecordStep ==
  ASSUME LifecycleInv, NEW c \in Callers, NEW w \in JournalWrites, NEW v \in AppendWrites,
         RecordIntent(c, w, v)
  PROVE  LifecycleInv'
<1>1. PICK x : x = call[c]
  OBVIOUS
<1>2. x.at = "admitted" /\ x.cmd \in Commands /\ x.cmd.op \in OpIds /\ x.cmd.kind \in Kinds /\ x # Idle
      /\ x \in [at: {"admitted", "recorded", "cleared"}, cmd: Commands] /\ up
  BY <1>1, CallFields DEF RecordIntent, LifecycleInv, CallInv, CallOK
<1>3. PICK o \in OpIds : o = x.cmd.op
  BY <1>2
<1>4. FileTypes
  BY DEF LifecycleInv, FileInv
<1>5. PICK n : n = NextSequence
  OBVIOUS
<1>6. PICK e : e = [sequence |-> n, kind |-> x.cmd.kind, outcome |-> "pending"]
  OBVIOUS
<1>7. PICK i : i = [id |-> x.cmd.id, op |-> o, kind |-> x.cmd.kind, sequence |-> n, class |-> "none"]
  OBVIOUS
<1>8. /\ ~poisoned /\ entries[o] = NoJournalEntry
      /\ Cardinality(Begun) < MaxEntries
      /\ entries' = (IF w = "failed" THEN entries ELSE [entries EXCEPT ![o] = e])
      /\ poisoned' = (w # "written")
      /\ up' = up /\ wire' = wire /\ gateway' = gateway /\ told' = told
      /\ IF w = "written"
         THEN AppendIntent(i, v) /\ Fails(IF v = "written" THEN 0 ELSE 1)
         ELSE v = "failed" /\ UNCHANGED <<lines, tail>> /\ Fails(1)
      /\ IF w = "written" /\ v = "written"
         THEN /\ intents' = [intents EXCEPT ![o] = i]
              /\ Keeps(c, [x EXCEPT !.at = "recorded"])
         ELSE intents' = intents /\ Keeps(c, Idle)
  BY <1>1, <1>3, <1>5, <1>6, <1>7 DEF RecordIntent, JournalWrite
<1>9. n \in 1..MaxEntries
  <2>1. Cardinality(Begun) \in Nat
    BY <1>4, FS_CardinalityType DEF FileTypes
  <2>2. QED
    BY <1>5, <1>8, <2>1, LifecycleAssumption DEF NextSequence
<1>10. /\ e \in JournalEntries /\ e # NoJournalEntry
       /\ e.sequence = n /\ e.kind = x.cmd.kind /\ e.outcome = "pending"
  BY <1>2, <1>6, <1>9, LifecycleAssumption DEF JournalEntries, Outcomes
<1>11. /\ i \in Intents /\ i # NoIntent /\ i.op = o
       /\ i.sequence = n /\ i.kind = x.cmd.kind /\ i.class = "none"
  BY <1>2, <1>7, <1>9, LifecycleAssumption DEF Intents, Classifications
<1>12. faults' \in Nat /\ (faults' = 0 => faults = 0 /\ w = "written" /\ v = "written")
  BY <1>4, <1>8 DEF Fails, FileTypes
<1>13. /\ lines' \in Seq(Lines) /\ tail' \in {"end", "torn", "past"}
       /\ \A p \in OpIds : Filed(p) => Filed(p)'
       /\ w = "written" /\ v = "written" =>
            Filed(o)' /\ (tail = "end" => lines' = Append(lines, i) /\ tail' = "end")
  <2>1. CASE w = "written"
    <3>1. AppendIntent(i, v)
      BY <1>8, <2>1
    <3>2. QED
      BY <1>4, <1>11, <3>1, AppendKeeps
  <2>2. CASE w # "written"
    BY <1>4, <1>8, <2>2 DEF FileTypes, Filed, LinesOf
  <2>3. QED
    BY <2>1, <2>2
<1>14. /\ entries' \in [OpIds -> JournalEntries \union {NoJournalEntry}]
       /\ \A p \in OpIds : p # o => entries'[p] = entries[p]
       /\ entries'[o] = entries[o] \/ entries'[o] = e
       /\ w = "written" => entries'[o] = e
  BY <1>4, <1>8, <1>10 DEF FileTypes
<1>15. Begun' = Begun \/ Begun' = Begun \union {o}
  BY <1>10, <1>14 DEF Begun
<1>16. IsFiniteSet(Begun')
  BY <1>4, <1>15, FS_AddElement DEF FileTypes
<1>17. /\ intents' \in [OpIds -> Intents \union {NoIntent}]
       /\ \A p \in OpIds : p # o => intents'[p] = intents[p]
       /\ intents'[o] = intents[o] \/ (intents'[o] = i /\ w = "written" /\ v = "written")
  BY <1>4, <1>8, <1>11 DEF FileTypes
<1>18. FileTypes'
  BY <1>4, <1>8, <1>12, <1>13, <1>14, <1>16, <1>17 DEF FileTypes
<1>19. intents[o] = NoIntent
  BY <1>8 DEF LifecycleInv, FileInv, Backed
<1>20. ASSUME NEW p \in OpIds, intents'[p] # NoIntent PROVE Backed(p, intents[p])'
  <2>1. CASE p # o
    <3>1. Backed(p, intents[p]) /\ entries'[p] = entries[p] /\ intents'[p] = intents[p]
      BY <1>14, <1>17, <1>20, <2>1 DEF LifecycleInv, FileInv
    <3>2. Filed(p)'
      BY <1>13, <3>1 DEF Backed
    <3>3. QED
      BY <1>8, <3>1, <3>2 DEF Backed
  <2>2. CASE p = o
    <3>1. intents'[o] = i /\ w = "written" /\ v = "written" /\ entries'[o] = e /\ Filed(o)'
      BY <1>13, <1>14, <1>17, <1>19, <1>20, <2>2
    <3>2. QED
      BY <1>2, <1>8, <1>10, <1>11, <2>2, <3>1 DEF Backed, JournalOutcome
  <2>3. QED
    BY <2>1, <2>2
<1>21. ASSUME faults' = 0 PROVE Clean'
  <2>1. Clean /\ w = "written" /\ v = "written"
    BY <1>12, <1>21 DEF LifecycleInv, FileInv
  <2>2. lines' = Append(lines, i) /\ tail' = "end" /\ poisoned' = FALSE /\ intents'[o] = i
    BY <1>4, <1>8, <1>13, <2>1 DEF Clean, FileTypes
  <2>3. o \notin Recorded /\ LinesOf(i.op) = {}
    BY <1>8, <1>11, <2>1 DEF Clean, Begun, Recorded
  <2>4. /\ \A k \in DOMAIN lines' : lines'[k] # Unreadable
        /\ Chained' /\ Recorded' = Recorded \union {o}
        /\ Latest(o)' = i /\ \A p \in OpIds : p # o => Latest(p)' = Latest(p)
    <3>1. (\A k \in DOMAIN lines : lines[k] # Unreadable) /\ Chained
      BY <2>1 DEF Clean
    <3>2. QED
      BY <1>4, <1>11, <2>2, <2>3, <3>1, AppendClean
  <2>5. Begun' = Recorded'
    BY <1>10, <1>14, <2>1, <2>4 DEF Begun, Clean
  <2>6. ASSUME NEW p \in Recorded' PROVE AgreesWithJournal(p)'
    <3>1. CASE p = o
      BY <1>10, <1>11, <1>14, <2>1, <2>4, <3>1 DEF AgreesWithJournal, JournalOutcome
    <3>2. CASE p # o
      <4>1. p \in OpIds /\ AgreesWithJournal(p)
        BY <2>1, <2>4, <2>6, <3>2 DEF Clean, Recorded
      <4>2. QED
        BY <1>14, <2>4, <3>2, <4>1 DEF AgreesWithJournal
    <3>3. QED
      BY <3>1, <3>2
  <2>7. \A p \in OpIds : intents'[p] = Latest(p)'
    BY <1>2, <1>17, <2>1, <2>2, <2>4 DEF Clean
  <2>8. QED
    BY <2>2, <2>4, <2>5, <2>6, <2>7 DEF Clean
<1>22. FileInv'
  BY <1>18, <1>20, <1>21 DEF FileInv
<1>23. CallInv'
  <2>1. PICK y \in {Idle, [x EXCEPT !.at = "recorded"]} :
          /\ Keeps(c, y) /\ (y # Idle => y = [x EXCEPT !.at = "recorded"] /\ intents'[o] # NoIntent)
    BY <1>4, <1>8, <1>11 DEF FileTypes
  <2>2. y # Idle => y \in CallRecords /\ y.at = "recorded" /\ y.cmd = x.cmd
    BY <1>2, <2>1 DEF CallRecords
  <2>3. y \in CallRecords /\ CallOK(y)'
    BY <1>2, <1>3, <1>8, <2>1, <2>2 DEF CallRecords, CallOK, Idle
  <2>4. \A p \in OpIds : intents[p] # NoIntent => intents'[p] # NoIntent
    BY <1>11, <1>17
  <2>5. QED
    BY <1>8, <2>1, <2>3, <2>4, KeepsCall DEF LifecycleInv
<1>24. OutsideInv'
  <2>1. told[o] = {}
    BY <1>8 DEF LifecycleInv, OutsideInv, ToldIsKept
  <2>2. told' \in [OpIds -> SUBSET Settled] /\ ToldIsKept'
    BY <1>8, <1>14, <2>1 DEF LifecycleInv, OutsideInv, ToldIsKept
  <2>3. \A p \in OpIds : entries'[p] # NoJournalEntry /\ entries'[p].outcome = "rejected" =>
          gateway'[p] = "refused"
    BY <1>8, <1>10, <1>14 DEF LifecycleInv, OutsideInv, RefusedWithoutEffect
  <2>4. \A p \in OpIds : entries[p] # NoJournalEntry => entries'[p] # NoJournalEntry
    BY <1>8, <1>14
  <2>5. wire' \subseteq OpIds /\ gateway' \in [OpIds -> {"none", "refused", "working", "blocked", "stopped"}]
    BY <1>8 DEF LifecycleInv, OutsideInv
  <2>6. QED
    BY <1>8, <1>13, <2>2, <2>3, <2>4, <2>5, OutsideKept DEF LifecycleInv
<1>25. QED
  BY <1>22, <1>23, <1>24 DEF LifecycleInv

\* complete: the outcome goes the same way, and settled outcomes are final.
LEMMA SettleStep ==
  ASSUME LifecycleInv, NEW c \in Callers, NEW w \in JournalWrites, NEW v \in AppendWrites,
         Settle(c, w, v)
  PROVE  LifecycleInv'
<1>1. PICK x : x = call[c]
  OBVIOUS
<1>2. x.at = "answered" /\ x.op \in OpIds /\ x.class \in Settled \union {"unknown"} /\ x # Idle
      /\ up /\ intents[x.op] # NoIntent /\ (x.class = "rejected" => gateway[x.op] = "refused")
  BY <1>1, CallFields DEF Settle, LifecycleInv, CallInv, CallOK
<1>3. PICK o \in OpIds : o = x.op
  BY <1>2
<1>4. FileTypes
  BY DEF LifecycleInv, FileInv
<1>5. PICK out : out = JournalOutcome(x.class)
  OBVIOUS
<1>6. PICK old : old = entries[o].outcome
  OBVIOUS
<1>7. PICK e : e = [entries[o] EXCEPT !.outcome = out]
  OBVIOUS
<1>8. PICK i : i = [intents[o] EXCEPT !.class = x.class]
  OBVIOUS
<1>9. /\ ~poisoned /\ JournalTransition(old, out)
      /\ IF old # out
         THEN /\ entries' = (IF w = "failed" THEN entries ELSE [entries EXCEPT ![o] = e])
              /\ poisoned' = (w # "written")
         ELSE w = "written" /\ entries' = entries /\ poisoned' = poisoned
      /\ up' = up /\ wire' = wire /\ gateway' = gateway
      /\ IF w = "written"
         THEN /\ intents' = [intents EXCEPT ![o] = i]
              /\ AppendIntent(i, v) /\ Fails(IF v = "written" THEN 0 ELSE 1)
         ELSE v = "failed" /\ UNCHANGED <<intents, lines, tail>> /\ Fails(1)
      /\ IF w = "written" /\ v = "written" THEN Answers(i) ELSE told' = told
      /\ Keeps(c, Idle)
  BY <1>1, <1>3, <1>5, <1>6, <1>7, <1>8 DEF Settle, JournalWrite
<1>10. /\ intents[o] \in Intents /\ Backed(o, intents[o])
       /\ entries[o] # NoJournalEntry /\ entries[o] \in JournalEntries
       /\ entries[o].sequence = intents[o].sequence /\ entries[o].kind = intents[o].kind
       /\ old = JournalOutcome(intents[o].class) /\ intents[o].op = o
  BY <1>2, <1>3, <1>4, <1>6, <1>9 DEF LifecycleInv, FileInv, FileTypes, Backed
<1>11. /\ out \in {"accepted", "rejected", "unknown"} /\ (out = "rejected" => gateway[o] = "refused")
  BY <1>2, <1>3, <1>5 DEF JournalOutcome, Settled
<1>12. /\ e \in JournalEntries /\ e # NoJournalEntry /\ e.outcome = out
       /\ e.sequence = entries[o].sequence /\ e.kind = entries[o].kind
  BY <1>7, <1>10, <1>11, LifecycleAssumption DEF JournalEntries, Outcomes
<1>13. /\ i \in Intents /\ i # NoIntent /\ i.class = x.class /\ i.op = o
       /\ i.sequence = intents[o].sequence /\ i.kind = intents[o].kind /\ i.id = intents[o].id
  BY <1>2, <1>8, <1>10, LifecycleAssumption DEF Intents, Classifications
<1>14. faults' \in Nat /\ (faults' = 0 => faults = 0 /\ w = "written" /\ v = "written")
  BY <1>4, <1>9 DEF Fails, FileTypes
<1>15. /\ lines' \in Seq(Lines) /\ tail' \in {"end", "torn", "past"}
       /\ \A p \in OpIds : Filed(p) => Filed(p)'
       /\ w = "written" /\ v = "written" /\ tail = "end" => lines' = Append(lines, i) /\ tail' = "end"
  <2>1. CASE w = "written"
    <3>1. AppendIntent(i, v)
      BY <1>9, <2>1
    <3>2. QED
      BY <1>4, <1>13, <3>1, AppendKeeps
  <2>2. CASE w # "written"
    BY <1>4, <1>9, <2>2 DEF FileTypes, Filed, LinesOf
  <2>3. QED
    BY <2>1, <2>2
\* The entry keeps its attempt, and its outcome is the old one or the new one.
<1>16. /\ entries' \in [OpIds -> JournalEntries \union {NoJournalEntry}]
       /\ \A p \in OpIds : p # o => entries'[p] = entries[p]
       /\ entries'[o] # NoJournalEntry
       /\ entries'[o].sequence = entries[o].sequence /\ entries'[o].kind = entries[o].kind
       /\ entries'[o].outcome \in {old, out}
       /\ w = "written" => entries'[o].outcome = out
  <2>1. entries' = entries \/ entries' = [entries EXCEPT ![o] = e]
    BY <1>9
  <2>2. w = "written" => entries' = [entries EXCEPT ![o] = e] \/ (entries' = entries /\ old = out)
    BY <1>9
  <2>3. entries \in [OpIds -> JournalEntries \union {NoJournalEntry}]
    BY <1>4 DEF FileTypes
  <2>4. QED
    BY <1>6, <1>10, <1>12, <2>1, <2>2, <2>3
<1>17. Begun' = Begun
  BY <1>10, <1>16 DEF Begun
<1>18. /\ intents' \in [OpIds -> Intents \union {NoIntent}]
       /\ \A p \in OpIds : p # o => intents'[p] = intents[p]
       /\ intents'[o] = (IF w = "written" THEN i ELSE intents[o])
  BY <1>4, <1>9, <1>13 DEF FileTypes
<1>19. poisoned' \in BOOLEAN /\ (w = "written" => ~poisoned') /\ (w # "written" => poisoned' /\ old # out)
  BY <1>4, <1>9 DEF FileTypes
<1>20. FileTypes'
  BY <1>4, <1>9, <1>14, <1>15, <1>16, <1>17, <1>18, <1>19 DEF FileTypes
<1>21. ASSUME NEW p \in OpIds, intents'[p] # NoIntent PROVE Backed(p, intents[p])'
  <2>1. CASE p # o
    <3>1. Backed(p, intents[p]) /\ entries'[p] = entries[p] /\ intents'[p] = intents[p]
      BY <1>16, <1>18, <1>21, <2>1 DEF LifecycleInv, FileInv
    <3>2. Filed(p)'
      BY <1>15, <3>1 DEF Backed
    <3>3. QED
      BY <1>9, <3>1, <3>2 DEF Backed
  <2>2. CASE p = o
    <3>1. up' /\ Filed(o)'
      BY <1>2, <1>9, <1>10, <1>15 DEF Backed
    <3>2. CASE w = "written"
      <4>1. intents'[o] = i /\ entries'[o].outcome = JournalOutcome(i.class)
        BY <1>5, <1>13, <1>16, <1>18, <3>2
      <4>2. QED
        BY <1>10, <1>13, <1>16, <2>2, <3>1, <4>1 DEF Backed
    <3>3. CASE w # "written"
      <4>1. intents'[o] = intents[o] /\ poisoned' /\ old # out
        BY <1>18, <1>19, <3>3
      <4>2. old \in {"pending", "unknown"}
        BY <1>9, <4>1 DEF JournalTransition
      <4>3. intents[o].class \in {"none", "unknown"}
        BY <1>10, <4>2 DEF JournalOutcome, Intents, Classifications, Settled
      <4>4. QED
        BY <1>10, <1>16, <2>2, <3>1, <4>1, <4>3 DEF Backed
    <3>4. QED
      BY <3>2, <3>3
  <2>3. QED
    BY <2>1, <2>2
<1>22. ASSUME faults' = 0 PROVE Clean'
  <2>1. Clean /\ w = "written" /\ v = "written"
    BY <1>14, <1>22 DEF LifecycleInv, FileInv
  <2>2. lines' = Append(lines, i) /\ tail' = "end" /\ ~poisoned' /\ intents'[o] = i
    BY <1>15, <1>18, <1>19, <2>1 DEF Clean
  <2>3. o \in Recorded /\ Latest(o) = intents[o]
    BY <1>2, <1>10, <2>1 DEF Clean, Begun
  <2>4. Consistent(Latest(o), i)
    BY <1>5, <1>9, <1>10, <1>13, <2>3 DEF Consistent
  <2>5. /\ \A k \in DOMAIN lines' : lines'[k] # Unreadable
        /\ Chained' /\ Recorded' = Recorded
        /\ Latest(o)' = i /\ \A p \in OpIds : p # o => Latest(p)' = Latest(p)
    <3>1. (\A k \in DOMAIN lines : lines[k] # Unreadable) /\ Chained
      BY <2>1 DEF Clean
    <3>2. QED
      BY <1>4, <1>13, <2>2, <2>3, <2>4, <3>1, AppendClean
  <2>6. Begun' = Recorded'
    BY <1>17, <2>1, <2>5 DEF Clean
  <2>7. ASSUME NEW p \in Recorded' PROVE AgreesWithJournal(p)'
    <3>1. CASE p = o
      BY <1>5, <1>10, <1>13, <1>16, <2>1, <2>5, <3>1 DEF AgreesWithJournal
    <3>2. CASE p # o
      <4>1. p \in OpIds /\ AgreesWithJournal(p)
        BY <2>1, <2>5, <2>7, <3>2 DEF Clean, Recorded
      <4>2. QED
        BY <1>16, <2>5, <3>2, <4>1 DEF AgreesWithJournal
    <3>3. QED
      BY <3>1, <3>2
  <2>8. \A p \in OpIds : intents'[p] = Latest(p)'
    BY <1>2, <1>18, <2>1, <2>2, <2>5 DEF Clean
  <2>9. QED
    BY <2>2, <2>5, <2>6, <2>7, <2>8 DEF Clean
<1>23. FileInv'
  BY <1>20, <1>21, <1>22 DEF FileInv
<1>24. CallInv'
  <2>1. Idle \in CallRecords /\ CallOK(Idle)'
    BY DEF CallRecords, CallOK, Idle
  <2>2. \A p \in OpIds : intents[p] # NoIntent => intents'[p] # NoIntent
    BY <1>13, <1>18
  <2>3. QED
    BY <1>9, <2>1, <2>2, KeepsCall DEF LifecycleInv
<1>25. OutsideInv'
  <2>1. \A p \in OpIds : entries[p] # NoJournalEntry => entries'[p] # NoJournalEntry
    BY <1>16
  <2>2. ASSUME NEW p \in OpIds, entries[p] # NoJournalEntry, entries[p].outcome \in {"accepted", "rejected"}
        PROVE  entries'[p] # NoJournalEntry /\ entries'[p].outcome = entries[p].outcome
    <3>1. CASE p = o
      <4>1. old = out
        BY <1>6, <1>9, <2>2, <3>1 DEF JournalTransition
      <4>2. QED
        BY <1>6, <1>16, <3>1, <4>1
    <3>2. CASE p # o
      BY <1>16, <2>2, <3>2
    <3>3. QED
      BY <3>1, <3>2
  <2>3. told' \in [OpIds -> SUBSET Settled] /\ ToldIsKept'
    <3>1. told \in [OpIds -> SUBSET Settled] /\ ToldIsKept
      BY DEF LifecycleInv, OutsideInv
    <3>2. CASE w = "written" /\ v = "written"
      <4>1. Answers(i) /\ entries'[i.op] # NoJournalEntry /\ entries'[i.op].outcome = JournalOutcome(i.class)
        BY <1>5, <1>9, <1>13, <1>16, <3>2
      <4>2. QED
        BY <1>13, <2>2, <3>1, <4>1, AnswersKept
    <3>3. CASE ~(w = "written" /\ v = "written")
      <4>1. told' = told
        BY <1>9, <3>3
      <4>2. ASSUME NEW p \in OpIds, NEW class \in told[p]
            PROVE  entries'[p] # NoJournalEntry /\ entries'[p].outcome = JournalOutcome(class)
        <5>1. class \in Settled /\ entries[p] # NoJournalEntry /\ entries[p].outcome = JournalOutcome(class)
          BY <3>1 DEF ToldIsKept
        <5>2. JournalOutcome(class) \in {"accepted", "rejected"}
          BY <5>1 DEF JournalOutcome, Settled
        <5>3. QED
          BY <2>2, <5>1, <5>2
      <4>3. QED
        BY <3>1, <4>1, <4>2 DEF ToldIsKept
    <3>4. QED
      BY <3>2, <3>3
  <2>4. \A p \in OpIds : entries'[p] # NoJournalEntry /\ entries'[p].outcome = "rejected" =>
          gateway'[p] = "refused"
    BY <1>6, <1>9, <1>10, <1>11, <1>16 DEF LifecycleInv, OutsideInv, RefusedWithoutEffect
  <2>5. wire' \subseteq OpIds /\ gateway' \in [OpIds -> {"none", "refused", "working", "blocked", "stopped"}]
    BY <1>9 DEF LifecycleInv, OutsideInv
  <2>6. QED
    BY <1>9, <1>15, <2>1, <2>3, <2>4, <2>5, OutsideKept DEF LifecycleInv
<1>26. QED
  BY <1>23, <1>24, <1>25 DEF LifecycleInv

\* A step of nothing.
LEMMA LifecycleStutters ==
  ASSUME LifecycleInv, UNCHANGED lifecycleVars
  PROVE  LifecycleInv'
<1>1. UNCHANGED <<disk, up, intents, faults, call, wire, gateway, told>>
  BY DEF lifecycleVars, counts
<1>2. FileInv'
  BY <1>1, StillFiles DEF LifecycleInv
<1>3. CallInv'
  BY <1>1, SameCalls DEF LifecycleInv
<1>4. OutsideInv'
  BY <1>1 DEF LifecycleInv, OutsideInv, IntentPrecedesEffect, ToldIsKept, RefusedWithoutEffect,
              disk, LinesOf
<1>5. QED
  BY <1>2, <1>3, <1>4 DEF LifecycleInv

\* The inductive invariant of the process-lifecycle commands.
THEOREM LifecycleInvariant == LifecycleSpec => []LifecycleInv
<1>1. ASSUME LifecycleInv, [LifecycleNext]_lifecycleVars PROVE LifecycleInv'
  <2>1. ASSUME NEW c \in Callers, Handle(c) PROVE LifecycleInv'
    <3>1. CASE \E w \in JournalWrites, v \in AppendWrites : RecordIntent(c, w, v) \/ Settle(c, w, v)
      BY <1>1, <3>1, RecordStep, SettleStep
    <3>2. CASE ~ \E w \in JournalWrites, v \in AppendWrites : RecordIntent(c, w, v) \/ Settle(c, w, v)
      <4>1. \/ \E cmd \in Commands : AdmitCommand(c, cmd)
            \/ FindIntent(c) \/ RefuseIntent(c) \/ Fence(c) \/ Submit(c)
            \/ \E o \in OpIds : Lookup(c, o)
            \/ Answered(c) \/ RefuseOutcome(c)
        BY <2>1, <3>2 DEF Handle
      <4>2. QED
        BY <1>1, <4>1, QuietStep
    <3>3. QED
      BY <3>1, <3>2
  <2>2. QED
    BY <1>1, <2>1, GatewayStep, CrashStep, OpenStep, LifecycleStutters DEF LifecycleNext
<1>2. QED
  BY <1>1, LifecycleStarts, PTL DEF LifecycleSpec

\* The gateway, the two files and the memory agree whatever fails: intent comes before
\* effect, outcomes given out stay, and a refusal had no effect.
THEOREM LifecycleStaysSound == LifecycleSpec => []LifecycleSound
<1>1. QED
  BY LifecycleInvariant, LifecycleInvSound, PTL

=============================================================================
