---------------------------- MODULE ControlGate -----------------------------
(***************************************************************************)
(* One control authority under every call its public methods allow, and    *)
(* the journal its owner exports: a restart recovers the last export, and  *)
(* with it loses what was not exported.                                    *)
(***************************************************************************)
EXTENDS ControlAuthority

CONSTANT MaxEpoch   \* bound on recoveries

ASSUME GateAssumption == MaxEpoch \in Nat

VARIABLES authority, exported

gateVars == <<authority, exported>>

GateInit ==
  /\ \E o \in Observations : authority = NewAuthority(o)
  /\ exported = authority

\* The command of key k.
GateCommand(k) ==
  \/ MayPause(authority, k) /\ authority' = Pause(authority, k)
  \/ MayCommit(authority, k) /\ authority' = Commit(authority, k)
  \/ MayAdopt(authority, k) /\ authority' = Adopt(authority, k)
  \/ MayResume(authority, k) /\ authority' = Resume(authority, k)

StopGate == Reserves(authority, 1) /\ authority' = Stop(authority)

Advance ==
  /\ Reserves(authority, 1)
  /\ \E o \in Observations : o.gen > authority.seen.gen   \* bound
  /\ authority' = AdvanceBoundary(authority)

ObserveBoundary(o, c) ==
  MayObserve(authority, o) /\ authority' = RecordObservation(authority, o, c)

GateAdmits(x, plan) ==
  MayAdmit(authority, x, plan) /\ authority' = AdmitOperation(authority, x)

GateSettles(x) == MaySettle(authority, x) /\ authority' = SettleOperation(authority, x)

\* complete_provider_attempt, for a provider that answers a call of that plan.
CompleteAttempt(x, plan) == plan = authority.plan /\ GateSettles(x)

Retains(x) == MayRetain(authority, x) /\ authority' = RetainUnknown(authority)

Export == exported' = authority /\ UNCHANGED authority

Restart ==
  /\ exported.epoch <= MaxEpoch   \* bound
  /\ Recoverable(exported) /\ authority' = Recover(exported)
  /\ UNCHANGED exported

GateStep ==
  \/ \E k \in Keys : GateCommand(k)
  \/ StopGate
  \/ Advance
  \/ \E o \in Observations, c \in Observations \union {NoCatalog} : ObserveBoundary(o, c)
  \/ \E x \in OperationIds :
       \/ \E plan \in 1..authority.plan : GateAdmits(x, plan) \/ CompleteAttempt(x, plan)
       \/ GateSettles(x)
       \/ Retains(x)

GateNext == (GateStep /\ UNCHANGED exported) \/ Export \/ Restart

GateSpec == GateInit /\ [][GateNext]_gateVars

-----------------------------------------------------------------------------
(* Properties.                                                             *)

\* No operation is in flight under a plan the authority has left.
PlanHeldByWork(a) == \A u \in a.unresolved : u.plan = a.plan

\* A pause that reports a safe boundary has no work in flight, and a gate that lets
\* plans through is neither paused nor stopped.
StatusTruthful(a) ==
  /\ a.status \in {"PausedReady", "PausedCommitted"} => a.unresolved = {}
  /\ a.paused <=> a.status # "Running"
  /\ a.stopped => a.paused

\* Two commands never took effect at the same control version: the version a caller
\* read and named is spent by the first.
VersionsSpentOnce(a) ==
  \A k \in Keys :
    ~Unused(a, k) =>
      /\ a.commands[k].version <= a.version /\ a.commands[k].plan <= a.plan
      /\ \A j \in Keys :
           a.commands[j] # NoReceipt /\ a.commands[j].version = a.commands[k].version => j = k

AuthoritySound(a) ==
  /\ a \in Authorities
  /\ PlanHeldByWork(a) /\ StatusTruthful(a) /\ VersionsSpentOnce(a) /\ Recoverable(a)

\* What every reader of the authority and of its journal relies on: a revision is
\* never retired under work admitted for it, readiness and the latches agree, each
\* control version is spent once, and a journal the owner wrote can be recovered
\* (gate.rs, operations.rs, journal.rs), through every interleaving of commands,
\* late settlements, boundary changes and restarts from an old export.  A stop that
\* reached the journal is never taken back.
GateSound ==
  /\ AuthoritySound(authority) /\ AuthoritySound(exported)
  /\ exported.stopped => authority.stopped
=============================================================================
