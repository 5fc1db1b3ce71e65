---------------------------- MODULE ExoLifecycle ----------------------------
(***************************************************************************)
(* The durable owner of Exo one-shot model calls, exo_lifecycle/*.rs, with *)
(* its journal, provider_session/owner_journal.rs, and the thread that     *)
(* runs the model process, process_effect.rs.                              *)
(*                                                                         *)
(* An exchange is one thread that goes through `call`; every durable write *)
(* of it is a step of its own, so that the process may die between any two *)
(* of them.  A call the owner refuses without changing anything is no      *)
(* step.  The authority port may refuse any request; refusals are choices. *)
(* The lease of the journal is a file lock the operating system frees when *)
(* the process dies: there is one owner at a time, and the revision of the *)
(* journal is left out because only that owner writes it.                  *)
(***************************************************************************)
EXTENDS Naturals, FiniteSets

CONSTANTS
    Executions,  \* execution ids; binding, operation and reservation ids derive from them
    MaxEntries,  \* max_completed_turns and MAX_LIFECYCLE_ENTRIES
    MaxEpoch     \* bound on the owner epoch, hence on restarts

ASSUME LifecycleAssumption == MaxEntries \in Nat /\ MaxEpoch \in Nat \ {0}

VARIABLES
    up,         \* the process of the owner runs
    mem,        \* its snapshot: claim epoch, broker rows and journal entries
    disk,       \* the journal on disk
    poisoned,   \* the owner refuses every call until it is opened again
    call,       \* the exchange in progress and where it is
    store,      \* provider call of the execution store, external to this component
    effect,     \* the model process of an execution and the thread that owns it
    answer,     \* what that thread reported
    spawned,    \* how many model processes an execution was given
    cancelled,  \* the cancellation signal, which is never taken back
    delivered   \* executions whose decision was returned to a caller

lifecycleVars == <<up, mem, disk, poisoned, call, store, effect, answer, spawned, cancelled, delivered>>

NoEntry == [phase |-> "none", epoch |-> 0, possible |-> FALSE, native |-> FALSE]

Created ==
    [epoch |-> 1, binding |-> [x \in Executions |-> "none"], op |-> [x \in Executions |-> "none"],
     entry |-> [x \in Executions |-> NoEntry]]

Idle == [at |-> "idle"]
At(where, x) == [at |-> where, x |-> x]
Holding(x, phase) == [at |-> "hold", x |-> x, phase |-> phase]

LifecycleInit ==
    /\ up = TRUE /\ mem = Created /\ disk = Created /\ poisoned = FALSE /\ call = Idle
    /\ store = [x \in Executions |-> "missing"]
    /\ effect = [x \in Executions |-> "none"] /\ answer = [x \in Executions |-> "none"]
    /\ spawned = [x \in Executions |-> 0] /\ cancelled = FALSE /\ delivered = {}

Entered(s) == {x \in Executions : s.entry[x].phase # "none"}
Calls ==
    [at : {"prepared", "record", "reserve", "admit", "send", "start", "poll", "settle", "return"},
     x : Executions]
      \union [at : {"hold", "held"}, x : Executions, phase : {"unknown", "fenced"}]
      \union {Idle}

----------------------------------------------------------------------------
(* The journal.  A snapshot that fails this validation is neither written  *)
(* nor read: the owner could never be opened again.                        *)

Historical(s, x) == s.entry[x].epoch < s.epoch

\* LifecycleEntry::validate.
EntryValid(e) ==
    /\ e.possible <=> e.phase \in {"sent", "unknown", "completed", "fenced"}
    /\ e.native => e.phase = "completed"

\* The phase of an entry against the rows of the broker, semantics.rs.
Compatible(s, x) ==
    LET recovering == s.op[x] = "unknown" /\ s.binding[x] = "recovering" IN
    CASE s.entry[x].phase \in {"prepared", "admitted"} ->
             IF Historical(s, x) THEN recovering ELSE s.op[x] = "intent" /\ s.binding[x] = "pending"
      [] s.entry[x].phase = "sent" ->
             ~Historical(s, x) /\ s.op[x] = "sent" /\ s.binding[x] = "pending"
      [] s.entry[x].phase \in {"unknown", "fenced"} -> recovering
      [] s.entry[x].phase = "completed" -> IF s.entry[x].native THEN s.op[x] = "completed" ELSE recovering

Valid(s) ==
    /\ Cardinality(Entered(s)) <= MaxEntries
    /\ \A x \in Entered(s) : EntryValid(s.entry[x]) /\ Compatible(s, x) /\ s.entry[x].epoch <= s.epoch

\* persist: the write is refused, fails before or after the rename, or succeeds.  Any
\* failure poisons the owner and ends the exchange.
Persist(s, next) ==
    /\ mem' = s
    /\ \/ Valid(s) /\ disk' = s /\ poisoned' = FALSE /\ call' = next
       \/ disk' \in {disk} \union (IF Valid(s) THEN {s} ELSE {}) /\ poisoned' = TRUE /\ call' = Idle

Usable == up /\ ~poisoned

----------------------------------------------------------------------------
(* Starting a call.                                                        *)

\* prepare_one_shot_manifest without an entry: only one binding may be executable.
MayPrepare(x) ==
    /\ mem.entry[x] = NoEntry
    /\ \/ mem.binding[x] = "none" /\ \A y \in Executions : mem.binding[y] # "pending"
       \/ mem.binding[x] = "pending"

\* The binding and the operation exist in memory only; start has yet to admit them.
PrepareOneShot(x) ==
    /\ Usable /\ call = Idle /\ MayPrepare(x)
    /\ mem' = [mem EXCEPT !.binding[x] = "pending", !.op[x] = "intent"]
    /\ call' = At("prepared", x)
    /\ UNCHANGED <<up, disk, poisoned, store, effect, answer, spawned, cancelled, delivered>>

\* The broker refuses the turn after it admitted the binding, which stays executable.
PrepareRefused(x) ==
    /\ Usable /\ call = Idle /\ MayPrepare(x)
    /\ mem' = [mem EXCEPT !.binding[x] = "pending"]
    /\ UNCHANGED <<up, disk, poisoned, call, store, effect, answer, spawned, cancelled, delivered>>

\* admit_new: every earlier entry is settled, and the store knows nothing of the execution.
AdmitNew(x) ==
    /\ Cardinality(Entered(mem)) < MaxEntries
    /\ \A y \in Entered(mem) : mem.entry[y].phase = "completed"
    /\ store[x] = "missing"

StartRefused(x) ==
    /\ call = At("prepared", x)
    /\ call' = Idle
    /\ UNCHANGED <<up, mem, disk, poisoned, store, effect, answer, spawned, cancelled, delivered>>

PersistPrepared(x) ==
    /\ call = At("prepared", x) /\ AdmitNew(x)
    /\ Persist([mem EXCEPT !.entry[x] = [phase |-> "prepared", epoch |-> mem.epoch,
                                         possible |-> FALSE, native |-> FALSE]], At("record", x))
    /\ UNCHANGED <<up, store, effect, answer, spawned, cancelled, delivered>>

\* record_decision and reserve_provider; when one fails the entry stays as it is.
WriteStore(x, from, row, next) ==
    /\ call = At(from, x)
    /\ \/ store' = [store EXCEPT ![x] = row] /\ call' = At(next, x)
       \/ call' = Idle /\ UNCHANGED store
    /\ UNCHANGED <<up, mem, disk, poisoned, effect, answer, spawned, cancelled, delivered>>

RecordDecision(x) == WriteStore(x, "record", "recorded", "reserve")
ReserveProvider(x) == WriteStore(x, "reserve", "reserved", "admit")

PersistAdmitted(x) ==
    /\ call = At("admit", x)
    /\ Persist([mem EXCEPT !.entry[x].phase = "admitted"], At("send", x))
    /\ UNCHANGED <<up, store, effect, answer, spawned, cancelled, delivered>>

\* mark_sent and the entry that says a write is possible, before the permit exists.
PersistSent(x) ==
    /\ call = At("send", x)
    /\ Persist([mem EXCEPT !.op[x] = "sent", !.entry[x].phase = "sent", !.entry[x].possible = TRUE],
               At("start", x))
    /\ UNCHANGED <<up, store, effect, answer, spawned, cancelled, delivered>>

----------------------------------------------------------------------------
(* The model process.                                                      *)

\* Mutant: the start is tried again when the thread was not ready in time.
TryStartAgain(x) ==
    /\ call = At("start", x) /\ ~cancelled
    /\ \/ /\ effect' = [effect EXCEPT ![x] = "running"]
          /\ spawned' = [spawned EXCEPT ![x] = @ + 1]
          /\ call' = At("poll", x)
       \/ /\ effect' = [effect EXCEPT ![x] = "late"]
          /\ UNCHANGED <<call, spawned>>
    /\ UNCHANGED <<up, mem, disk, poisoned, store, answer, cancelled, delivered>>

\* try_start hands over once a child exists; otherwise the outcome is unknown, also when
\* the thread is slow and creates its child after the owner stopped waiting for it.
TryStart(x) ==
    /\ call = At("start", x)
    /\ \/ /\ ~cancelled
          /\ effect' = [effect EXCEPT ![x] = "running"]
          /\ spawned' = [spawned EXCEPT ![x] = @ + 1]
          /\ call' = At("poll", x)
       \/ /\ effect' = [effect EXCEPT ![x] = "ended"]
          /\ call' = Holding(x, "unknown") /\ UNCHANGED spawned
       \/ /\ ~cancelled
          /\ effect' = [effect EXCEPT ![x] = "late"]
          /\ call' = Holding(x, "unknown") /\ UNCHANGED spawned
    /\ UNCHANGED <<up, mem, disk, poisoned, store, answer, cancelled, delivered>>

LateStart(x) ==
    /\ effect[x] = "late"
    /\ \/ effect' = [effect EXCEPT ![x] = "running"] /\ spawned' = [spawned EXCEPT ![x] = @ + 1]
       \/ effect' = [effect EXCEPT ![x] = "ended"] /\ UNCHANGED spawned
    /\ UNCHANGED <<up, mem, disk, poisoned, call, store, answer, cancelled, delivered>>

\* Mutant: the thread waits for the child without a deadline, so it may never report.
EndsWithoutDeadline(x) ==
    /\ effect[x] = "running" /\ cancelled
    /\ effect' = [effect EXCEPT ![x] = "ended"]
    /\ answer' = [answer EXCEPT ![x] = "failed"]
    /\ UNCHANGED <<up, mem, disk, poisoned, call, store, spawned, cancelled, delivered>>

\* The child exits, or is killed on cancellation or at the deadline; then the thread reports.
ThreadReports(x) ==
    /\ effect[x] = "running"
    /\ effect' = [effect EXCEPT ![x] = "ended"]
    /\ \E a \in {"decision", "failed"} : answer' = [answer EXCEPT ![x] = a]
    /\ UNCHANGED <<up, mem, disk, poisoned, call, store, spawned, cancelled, delivered>>

\* A child that outlived the owner's process ends by itself.
OrphanExits(x) ==
    /\ effect[x] = "orphan"
    /\ effect' = [effect EXCEPT ![x] = "ended"]
    /\ UNCHANGED <<up, mem, disk, poisoned, call, store, answer, spawned, cancelled, delivered>>

Cancel ==
    /\ up /\ ~cancelled
    /\ cancelled' = TRUE
    /\ UNCHANGED <<up, mem, disk, poisoned, call, store, effect, answer, spawned, delivered>>

----------------------------------------------------------------------------
(* The answer.                                                             *)

\* poll: the handle fails, or finish refuses the answer before it reaches the store.
PollUnknown(x) ==
    /\ call = At("poll", x) /\ (cancelled \/ answer[x] # "none")
    /\ call' = Holding(x, "unknown")
    /\ UNCHANGED <<up, mem, disk, poisoned, store, effect, answer, spawned, cancelled, delivered>>

\* finish: the authority no longer lets the answer be consumed.
PollFenced(x) ==
    /\ call = At("poll", x) /\ ~cancelled /\ answer[x] = "decision"
    /\ call' = Holding(x, "fenced")
    /\ UNCHANGED <<up, mem, disk, poisoned, store, effect, answer, spawned, cancelled, delivered>>

\* complete_provider_with_result: from here on every failure requires reopening, and so
\* does an error of the store after which the call is no longer pending there.
FinishStores(x) ==
    /\ call = At("poll", x) /\ ~cancelled /\ answer[x] = "decision"
    /\ store' = [store EXCEPT ![x] = "completed"]
    /\ \/ call' = At("settle", x) /\ UNCHANGED poisoned
       \/ call' = Idle /\ poisoned' = TRUE
    /\ UNCHANGED <<up, mem, disk, effect, answer, spawned, cancelled, delivered>>

\* complete_metadata.
CompleteMetadata(x) ==
    /\ call = At("settle", x)
    /\ Persist([mem EXCEPT !.op[x] = "completed", !.binding[x] = "completed",
                           !.entry[x].phase = "completed", !.entry[x].native = TRUE], At("return", x))
    /\ UNCHANGED <<up, store, effect, answer, spawned, cancelled, delivered>>

\* The broker refuses to complete the turn, as for a binding that expired meanwhile.
CompleteRefused(x) ==
    /\ call = At("settle", x)
    /\ poisoned' = TRUE /\ call' = Idle
    /\ UNCHANGED <<up, mem, disk, store, effect, answer, spawned, cancelled, delivered>>

Return(x) ==
    /\ call = At("return", x)
    /\ delivered' = delivered \union {x} /\ call' = Idle
    /\ UNCHANGED <<up, mem, disk, poisoned, store, effect, answer, spawned, cancelled>>

\* hold: first the store, which must still have the call open; a failure, also of a write
\* that took place, leaves the owner poisoned ...
HoldStore(x) ==
    /\ call \in {Holding(x, "unknown"), Holding(x, "fenced")}
    /\ \/ /\ store[x] = "reserved"
          /\ store' = [store EXCEPT ![x] = "unknown"]
          /\ \/ call' = [call EXCEPT !.at = "held"] /\ UNCHANGED poisoned
             \/ call' = Idle /\ poisoned' = TRUE
       \/ poisoned' = TRUE /\ call' = Idle /\ UNCHANGED store
    /\ UNCHANGED <<up, mem, disk, effect, answer, spawned, cancelled, delivered>>

\* mark_unknown and the phase of the entry.
Held(s, x) == [s EXCEPT !.op[x] = "unknown", !.binding[x] = "recovering", !.entry[x].phase = call.phase]

\* ... then the broker and the journal.
HoldJournal(x) ==
    /\ call.at = "held" /\ call.x = x
    /\ Persist(Held(mem, x), Idle)
    /\ UNCHANGED <<up, store, effect, answer, spawned, cancelled, delivered>>

----------------------------------------------------------------------------
(* Results that are already stored.                                        *)

\* stored: only the owner that completed the call hands its result out again.
Stored(x) ==
    /\ Usable /\ call = Idle
    /\ mem.entry[x].phase = "completed" /\ ~Historical(mem, x)
    /\ mem.op[x] = "completed" /\ mem.binding[x] = "completed" /\ store[x] = "completed"
    /\ call' = At("return", x)
    /\ UNCHANGED <<up, mem, disk, poisoned, store, effect, answer, spawned, cancelled, delivered>>

\* The entry of a result that only the store had completed.
Reconciled(s, x) == [s EXCEPT !.entry[x].phase = "completed"]

\* Mutant: a fenced call may be reconciled as well, whatever the store says of it.
ReconcilesFenced(x) == mem.entry[x].possible

\* reconcile_stored: a write was possible and the store has the complete result.
Reconcilable(x) ==
    mem.entry[x].possible /\ mem.entry[x].phase \in {"sent", "unknown", "completed"} /\ store[x] = "completed"

ReconcileStored(x) ==
    /\ Usable /\ call = Idle /\ Reconcilable(x)
    /\ Persist(Reconciled(mem, x), At("return", x))
    /\ UNCHANGED <<up, store, effect, answer, spawned, cancelled, delivered>>

----------------------------------------------------------------------------
(* Death and restart.                                                      *)

\* The thread dies with the process, its child does not.
Die ==
    /\ up
    /\ up' = FALSE /\ call' = Idle /\ poisoned' = FALSE /\ cancelled' = FALSE /\ mem' = Created
    /\ effect' = [x \in Executions |-> CASE effect[x] = "running" -> "orphan"
                                         [] effect[x] = "late" -> "ended"
                                         [] OTHER -> effect[x]]
    /\ UNCHANGED <<disk, store, answer, spawned, delivered>>

\* Mutant: the entry of a sent call is left as it was.
RestoredKeepingSent(s) ==
    LET open(x) == s.op[x] \in {"intent", "sent", "unknown"} IN
    [epoch |-> s.epoch + 1,
     binding |-> [x \in Executions |-> IF open(x) THEN "recovering" ELSE s.binding[x]],
     op |-> [x \in Executions |-> IF open(x) THEN "unknown" ELSE s.op[x]],
     entry |-> s.entry]

\* The restored broker of the next epoch, and every sent entry unknown.  A binding
\* without an operation keeps its state and loses its capability.
Restored(s) ==
    LET open(x) == s.op[x] \in {"intent", "sent", "unknown"} IN
    [epoch |-> s.epoch + 1,
     binding |-> [x \in Executions |-> IF open(x) THEN "recovering"
                                       ELSE IF s.binding[x] = "pending" THEN "inert" ELSE s.binding[x]],
     op |-> [x \in Executions |-> IF open(x) THEN "unknown" ELSE s.op[x]],
     entry |-> [x \in Executions |-> IF s.entry[x].phase = "sent" THEN [s.entry[x] EXCEPT !.phase = "unknown"]
                                     ELSE s.entry[x]]]

\* LifecycleOwner::open; it fails without an owner when its commit does.
Open ==
    /\ ~up /\ disk.epoch < MaxEpoch /\ Valid(disk)
    /\ LET s == Restored(disk) IN
        \/ Valid(s) /\ up' = TRUE /\ mem' = s /\ disk' = s
        \/ Valid(s) /\ disk' = s /\ UNCHANGED <<up, mem>>
    /\ UNCHANGED <<poisoned, call, store, effect, answer, spawned, cancelled, delivered>>

----------------------------------------------------------------------------
\* What the exchange does next once it has begun.
Proceed ==
    \E x \in Executions :
        \/ StartRefused(x) \/ PersistPrepared(x) \/ RecordDecision(x) \/ ReserveProvider(x)
        \/ PersistAdmitted(x) \/ PersistSent(x) \/ TryStart(x)
        \/ PollUnknown(x) \/ PollFenced(x) \/ FinishStores(x) \/ CompleteMetadata(x)
        \/ CompleteRefused(x) \/ Return(x) \/ HoldStore(x) \/ HoldJournal(x)

LifecycleNext ==
    \/ Proceed \/ Cancel \/ Die \/ Open
    \/ \E x \in Executions :
        \/ PrepareOneShot(x) \/ PrepareRefused(x) \/ Stored(x) \/ ReconcileStored(x)
        \/ LateStart(x) \/ ThreadReports(x) \/ OrphanExits(x)

LifecycleSpec == LifecycleInit /\ [][LifecycleNext]_lifecycleVars

\* The exchange runs on its own thread and polls without giving up; the thread of the
\* effect ends at its deadline at the latest.
FairLifecycleSpec ==
    /\ LifecycleSpec
    /\ WF_lifecycleVars(Proceed)
    /\ \A x \in Executions : WF_lifecycleVars(ThreadReports(x))

----------------------------------------------------------------------------
Snapshots ==
    [epoch : 1 .. MaxEpoch, binding : [Executions -> {"none", "pending", "recovering", "completed", "inert"}],
     op : [Executions -> {"none", "intent", "sent", "unknown", "completed"}],
     entry : [Executions -> [phase : {"none", "prepared", "admitted", "sent", "unknown", "completed", "fenced"},
                             epoch : 0 .. MaxEpoch, possible : BOOLEAN, native : BOOLEAN]]]

\* Every variable keeps its shape; an execution has a row in the broker for every entry.
LifecycleTypeOK ==
    /\ {up, poisoned, cancelled} \subseteq BOOLEAN
    /\ {mem, disk} \subseteq Snapshots
    /\ call \in Calls
    /\ store \in [Executions -> {"missing", "recorded", "reserved", "unknown", "completed"}]
    /\ effect \in [Executions -> {"none", "late", "running", "orphan", "ended"}]
    /\ answer \in [Executions -> {"none", "decision", "failed"}]
    /\ spawned \in [Executions -> Nat] /\ delivered \subseteq Executions

\* An execution is given one model process at most, over every crash, restart, retry and
\* late start: a stored result is reused, an uncertain call is never made again.
OneEffect == \A x \in Executions : spawned[x] <= 1

\* No two model processes are alive or still to be started at once: an entry whose
\* outcome is unknown holds every later call back, also after a restart.
OneLiveProcess ==
    \A x, y \in Executions :
        effect[x] \in {"late", "running", "orphan"} /\ effect[y] \in {"late", "running", "orphan"} => x = y

\* A model process exists only behind a durable send boundary: the journal says a write
\* is possible and the execution store has the reservation.
EffectRecorded ==
    \A x \in Executions :
        spawned[x] > 0 => disk.entry[x].possible /\ store[x] \in {"reserved", "unknown", "completed"}

\* Whatever was written, the journal can be read back, and the snapshot a restart makes
\* of it can be written: no crash leaves a journal the owner cannot be opened from.
JournalReadable == Valid(disk) /\ Valid(Restored(disk)) /\ (Usable => Valid(mem))

\* A result the store has completed can always be handed out after a restart: its entry
\* never says that nothing was sent or that the answer is fenced.
ResultReachable ==
    \A x \in Executions :
        store[x] = "completed" =>
            disk.entry[x].possible /\ disk.entry[x].phase \in {"sent", "unknown", "completed"}

\* A decision is returned only when the store has its result and the journal its end.
DeliveredDurably ==
    \A x \in delivered : store[x] = "completed" /\ disk.entry[x].phase = "completed"

\* What was held is held for good: a fenced or unknown call never delivers a decision
\* later unless the store had completed it before.
HeldStaysHeld ==
    [][\A x \in Executions :
        disk.entry[x].phase \in {"unknown", "fenced"} /\ store[x] # "completed"
            => x \notin delivered' /\ disk'.entry[x].phase = disk.entry[x].phase
               /\ store'[x] # "completed"]_lifecycleVars

\* Every exchange ends: with a decision, an error, or the death of the process.
ExchangeEnds == call.at # "idle" ~> call.at = "idle"

\* An execution has at most one effect, no two effects are alive at once, and an effect
\* exists only when the journal on disk says that it may.  The journal can be opened after
\* a crash at any point, and it still leads to every result that was paid for and to
\* everything that was delivered.
EffectsSound ==
    /\ LifecycleTypeOK /\ OneEffect /\ OneLiveProcess /\ EffectRecorded
    /\ JournalReadable /\ ResultReachable /\ DeliveredDurably
=============================================================================
