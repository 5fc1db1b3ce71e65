-------------------------- MODULE ProcessLifecycle --------------------------
(***************************************************************************)
(* Process-lifecycle commands of the management service for one instance:  *)
(* the operation journal, the intent records beside it, and the handlers   *)
(* lifecycle_command and reconcile_lifecycle_operation around a gateway.   *)
(*                                                                         *)
(* A handler takes the lock of the intent store for each of its steps and  *)
(* not while it waits for the gateway, so the steps of two handlers mix    *)
(* and answers are recorded in any order.  A request whose answer is given *)
(* up on may still arrive.                                                 *)
(*                                                                         *)
(* A write may fail before, in the middle of or after it reached the disk; *)
(* a crash during a write is such a failure with Crash as the next step.   *)
(*                                                                         *)
(* Run, authority epoch and profile of a command are left out: another run *)
(* or epoch for an operation is refused as another kind is.  The gateway   *)
(* answers for the instance and operation it was asked about.              *)
(***************************************************************************)
EXTENDS Naturals, Sequences, FiniteSets

CONSTANTS
  Callers,      \* handlers that may run at once
  Commands,     \* [id, op, kind]: what clients may submit
  OpIds,        \* operation ids
  NoJournalEntry, NoIntent, Unreadable,
  MaxEntries,   \* MAX_JOURNAL_ENTRIES
  MaxIntentRecords,  \* MAX_INTENT_RECORDS, for the code the same number
  MaxLines,     \* bound on the records written
  MaxFaults,    \* bound on failed writes
  MaxCrashes    \* bound on crashes

VARIABLES
  entries,    \* the journal, which is durable, by operation
  poisoned,   \* the journal refuses until it is opened again
  lines,      \* the records of the intent file
  tail,       \* where the next record goes: after them, behind a torn one, or past the end
  up,         \* the service has opened the store
  intents,    \* the intents in its memory, by operation
  call,       \* the handlers
  wire,       \* operations of requests that were sent and have not arrived
  gateway,    \* what the gateway did with each operation
  told,       \* settled classifications answered to clients, by operation
  faults, crashes

disk == <<entries, poisoned, lines, tail>>
counts == <<faults, crashes>>
lifecycleVars == <<disk, up, intents, call, wire, gateway, told, counts>>

Kinds == {"launch_new", "restart", "stop", "attach_existing"}

\* is_effect_bearing.
EffectBearing == {"launch_new", "restart"}

Outcomes == {"pending", "accepted", "rejected", "unknown"}
Settled == {"accepted", "rejected", "stopped"}
Classifications == Settled \union {"unknown", "none"}

Intents == [id: {c.id : c \in Commands}, op: OpIds, kind: Kinds, sequence: 1..MaxEntries,
            class: Classifications]

JournalEntries == [sequence: 1..MaxEntries, kind: Kinds, outcome: Outcomes]

ASSUME LifecycleAssumption ==
  /\ OpIds \subseteq Nat
  /\ \A c \in Commands : c.op \in OpIds /\ c.kind \in Kinds
  /\ {MaxEntries, MaxIntentRecords, MaxLines, MaxFaults, MaxCrashes} \subseteq Nat
  /\ NoJournalEntry \notin JournalEntries /\ NoIntent \notin Intents /\ Unreadable \notin Intents

Idle == [at |-> "idle"]

LifecycleInit ==
  /\ entries = [o \in OpIds |-> NoJournalEntry] /\ poisoned = FALSE
  /\ lines = <<>> /\ tail = "end"
  /\ up = TRUE /\ intents = [o \in OpIds |-> NoIntent]
  /\ call = [c \in Callers |-> Idle]
  /\ wire = {} /\ gateway = [o \in OpIds |-> "none"]
  /\ told = [o \in OpIds |-> {}]
  /\ faults = 0 /\ crashes = 0

-----------------------------------------------------------------------------
(* The operation journal.                                                  *)

Begun == {o \in OpIds : entries[o] # NoJournalEntry}

\* The journal gives each attempt the next sequence number and forgets none.
NextSequence == Cardinality(Begun) + 1

\* Fault: an outcome replaces any other.
AnyTransition(previous, next) == TRUE

JournalTransition(previous, next) ==
  \/ previous = next
  \/ previous = "pending" /\ next \in {"accepted", "rejected", "unknown"}
  \/ previous = "unknown" /\ next \in {"accepted", "rejected"}

\* Writes entry e for o.  A write that fails may have reached the disk, and poisons.
JournalWrite(o, e, w) ==
  /\ entries' = IF w = "failed" THEN entries ELSE [entries EXCEPT ![o] = e]
  /\ poisoned' = (w # "written")

JournalWrites == {"written", "failed", "unsynced"}

-----------------------------------------------------------------------------
(* The intent file.                                                        *)

AppendWrites == {"written", "failed", "torn", "unsynced"}

\* The record lands behind what is there: one that follows a torn record, or a hole, is
\* one line with it.
AppendIntent(i, w) ==
  IF w \in {"written", "unsynced"}
  THEN /\ lines' = Append(lines, IF tail = "end" THEN i ELSE Unreadable)
       /\ tail' = "end"
  ELSE lines' = lines /\ tail' = IF w = "torn" THEN "torn" ELSE tail

JournalOutcome(class) ==
  CASE class = "none" -> "pending"
    [] class \in {"accepted", "stopped"} -> "accepted"
    [] OTHER -> class

LinesOf(o) == {n \in DOMAIN lines : lines[n] # Unreadable /\ lines[n].op = o}

\* The last record of an operation is its intent.
Latest(o) ==
  IF LinesOf(o) = {} THEN NoIntent
  ELSE lines[CHOOSE n \in LinesOf(o) : \A k \in LinesOf(o) : k <= n]

Consistent(previous, next) ==
  /\ previous.sequence = next.sequence /\ previous.id = next.id /\ previous.kind = next.kind
  /\ JournalTransition(JournalOutcome(previous.class), JournalOutcome(next.class))

AgreesWithJournal(o) ==
  /\ entries[o] # NoJournalEntry
  /\ entries[o].sequence = Latest(o).sequence
  /\ entries[o].kind = Latest(o).kind
  /\ entries[o].outcome = JournalOutcome(Latest(o).class)

Recorded == {o \in OpIds : LinesOf(o) # {}}

\* open_intent_file and reconcile: there are not too many records, every one can be read
\* and follows from the one before it, and the records and the journal have the same
\* attempts and outcomes.  Only the open counts records: an append never refuses one.
Opens ==
  /\ Len(lines) <= MaxIntentRecords
  /\ \A n \in DOMAIN lines : lines[n] # Unreadable
  /\ \A o \in OpIds, n, k \in DOMAIN lines :
       (/\ n \in LinesOf(o) /\ k \in LinesOf(o) /\ n < k
        /\ \A j \in LinesOf(o) : j <= n \/ j >= k) => Consistent(lines[n], lines[k])
  /\ \A o \in Recorded : AgreesWithJournal(o)
  /\ Cardinality(Begun) = Cardinality(Recorded)

-----------------------------------------------------------------------------
(* The handlers.                                                           *)

Keeps(c, x) == call' = [call EXCEPT ![c] = x]

\* Fails counts a failed write.
Fails(n) == faults + n <= MaxFaults /\ faults' = faults + n /\ UNCHANGED crashes

\* A client is answered from retained intent i; an unknown outcome is no promise.
Answers(i) ==
  told' = IF i.class \in Settled THEN [told EXCEPT ![i.op] = @ \union {i.class}] ELSE told

\* lifecycle_command up to replayed_lifecycle_command, which finds the first operation with
\* the command's id and answers with it when it has an outcome.
AdmitCommand(c, cmd) ==
  LET same == {o \in OpIds : intents[o] # NoIntent /\ intents[o].id = cmd.id}
      found == {o \in same : intents[o].class # "none" /\ \A k \in same : o <= k}
  IN  /\ up /\ call[c] = Idle
      /\ IF found = {}
         THEN Keeps(c, [at |-> "admitted", cmd |-> cmd]) /\ UNCHANGED told
         ELSE UNCHANGED call /\ \E o \in found : Answers(intents[o])
      /\ UNCHANGED <<disk, up, intents, wire, gateway, counts>>

\* record_intent of an operation the journal does not have.
RecordIntent(c, w, v) ==
  LET cmd == call[c].cmd
      entry == [sequence |-> NextSequence, kind |-> cmd.kind, outcome |-> "pending"]
      intent == [id |-> cmd.id, op |-> cmd.op, kind |-> cmd.kind, sequence |-> NextSequence,
                 class |-> "none"]
  IN  /\ call[c].at = "admitted" /\ ~poisoned
      /\ entries[cmd.op] = NoJournalEntry /\ Cardinality(Begun) < MaxEntries
      /\ Len(lines) < MaxLines
      /\ JournalWrite(cmd.op, entry, w)
      /\ IF w = "written"
         THEN AppendIntent(intent, v) /\ Fails(IF v = "written" THEN 0 ELSE 1)
         ELSE v = "failed" /\ UNCHANGED <<lines, tail>> /\ Fails(1)
      /\ IF w = "written" /\ v = "written"
         THEN /\ intents' = [intents EXCEPT ![cmd.op] = intent]
              /\ Keeps(c, [call[c] EXCEPT !.at = "recorded"])
         ELSE UNCHANGED intents /\ Keeps(c, Idle)
      /\ UNCHANGED <<up, wire, gateway, told>>

\* record_intent of one it has: the retained intent must be the same, and one that has an
\* outcome is the answer.  A refusal ends the call.
FindIntent(c) ==
  LET cmd == call[c].cmd
      i == intents[cmd.op]
      same == ~poisoned /\ i # NoIntent /\ entries[cmd.op].kind = cmd.kind
  IN  /\ call[c].at = "admitted" /\ entries[cmd.op] # NoJournalEntry
      /\ IF same /\ i.class = "none"
         THEN Keeps(c, [call[c] EXCEPT !.at = "recorded"]) ELSE Keeps(c, Idle)
      /\ IF same THEN Answers(i) ELSE UNCHANGED told
      /\ UNCHANGED <<disk, up, intents, wire, gateway, counts>>

\* The journal refuses a new attempt when it is full or poisoned.
RefuseIntent(c) ==
  /\ call[c].at = "admitted" /\ entries[call[c].cmd.op] = NoJournalEntry
  /\ poisoned \/ Cardinality(Begun) >= MaxEntries
  /\ Keeps(c, Idle)
  /\ UNCHANGED <<disk, up, intents, wire, gateway, told, counts>>

\* stop_dominates: a stop with an earlier sequence number is retained as stopped.
StopDominates(sequence) ==
  \E o \in OpIds :
    /\ intents[o] # NoIntent /\ intents[o].sequence < sequence
    /\ intents[o].class = "stopped"

\* stop_precedes_start of a launch or restart; a stop and an attachment pass.
Fence(c) ==
  LET cmd == call[c].cmd
      dominated == cmd.kind \in EffectBearing /\ StopDominates(intents[cmd.op].sequence)
  IN  /\ call[c].at = "recorded"
      /\ IF dominated THEN Keeps(c, Idle) ELSE Keeps(c, [call[c] EXCEPT !.at = "cleared"])
      /\ UNCHANGED <<disk, up, intents, wire, gateway, told, counts>>

\* ProcessLifecyclePort::submit sends the request.
Submit(c) ==
  /\ call[c].at = "cleared"
  /\ wire' = wire \union {call[c].cmd.op}
  /\ Keeps(c, [at |-> "waiting", op |-> call[c].cmd.op, kind |-> call[c].cmd.kind])
  /\ UNCHANGED <<disk, up, intents, gateway, told, counts>>

\* reconcile_lifecycle_operation reads the intent and looks the operation up.
Lookup(c, o) ==
  /\ up /\ call[c] = Idle /\ intents[o] # NoIntent
  /\ Keeps(c, [at |-> "waiting", op |-> o, kind |-> intents[o].kind])
  /\ UNCHANGED <<disk, up, intents, wire, gateway, told, counts>>

-----------------------------------------------------------------------------
(* The gateway keeps operations by id: it refuses one without an effect,   *)
(* or works on it, may be blocked meanwhile, and stops the process.        *)

Arrive(o) ==
  /\ o \in wire
  /\ wire' = wire \ {o}
  /\ \E s \in {"refused", "working", "blocked"} :
       gateway' = [gateway EXCEPT ![o] = IF @ = "none" THEN s ELSE @]
  /\ UNCHANGED <<disk, up, intents, call, told, counts>>

Proceed(o) ==
  /\ \/ gateway[o] = "blocked" /\ gateway' = [gateway EXCEPT ![o] = "working"]
     \/ /\ gateway[o] = "working" /\ entries[o].kind = "stop"
        /\ gateway' = [gateway EXCEPT ![o] = "stopped"]
  /\ UNCHANGED <<disk, up, intents, call, wire, told, counts>>

\* classify of the answer.
Classify(state, kind) ==
  CASE state = "refused" -> "rejected"
    [] state = "stopped" /\ kind = "stop" -> "stopped"
    [] state = "blocked" -> "unknown"
    [] OTHER -> "accepted"

\* Fault: an answer that does not come is taken for a refusal.
LostIsRefused == "rejected"

\* is_ambiguous: the effect may have happened when the answer does not come.
LostAnswer == "unknown"

\* The gateway's answer, or none in time: it may not have the operation, and the answer
\* may be lost.
Answered(c) ==
  /\ call[c].at = "waiting"
  /\ \E class \in {LostAnswer, Classify(gateway[call[c].op], call[c].kind)} :
       /\ class # LostAnswer => gateway[call[c].op] # "none"
       /\ Keeps(c, [at |-> "answered", op |-> call[c].op, class |-> class])
  /\ UNCHANGED <<disk, up, intents, wire, gateway, told, counts>>

\* settle_lifecycle and complete: the journal takes the outcome first, when it is a new
\* one, then the memory and the file do.
Settle(c, w, v) ==
  LET o == call[c].op
      outcome == JournalOutcome(call[c].class)
      new == entries[o].outcome # outcome
      updated == [intents[o] EXCEPT !.class = call[c].class]
  IN  /\ call[c].at = "answered" /\ ~poisoned
      /\ JournalTransition(entries[o].outcome, outcome)
      /\ Len(lines) < MaxLines
      /\ IF new THEN JournalWrite(o, [entries[o] EXCEPT !.outcome = outcome], w)
         ELSE w = "written" /\ UNCHANGED <<entries, poisoned>>
      /\ IF w = "written"
         THEN /\ intents' = [intents EXCEPT ![o] = updated]
              /\ AppendIntent(updated, v) /\ Fails(IF v = "written" THEN 0 ELSE 1)
         ELSE v = "failed" /\ UNCHANGED <<intents, lines, tail>> /\ Fails(1)
      /\ IF w = "written" /\ v = "written" THEN Answers(updated) ELSE UNCHANGED told
      /\ Keeps(c, Idle)
      /\ UNCHANGED <<up, wire, gateway>>

\* The journal refuses the outcome.
RefuseOutcome(c) ==
  /\ call[c].at = "answered"
  /\ poisoned \/ ~JournalTransition(entries[call[c].op].outcome, JournalOutcome(call[c].class))
  /\ Keeps(c, Idle)
  /\ UNCHANGED <<disk, up, intents, wire, gateway, told, counts>>

-----------------------------------------------------------------------------
(* The process.                                                            *)

Crash ==
  /\ up /\ crashes < MaxCrashes
  /\ up' = FALSE /\ poisoned' = FALSE /\ crashes' = crashes + 1
  /\ intents' = [o \in OpIds |-> NoIntent]
  /\ call' = [c \in Callers |-> Idle]
  /\ UNCHANGED <<entries, lines, tail, wire, gateway, told, faults>>

\* LifecycleIntentStore::open.  A torn record is cut off and the position of the file
\* stays behind it.
OpenStore ==
  /\ ~up /\ Opens
  /\ up' = TRUE
  /\ intents' = [o \in OpIds |-> Latest(o)]
  /\ tail' = IF tail = "torn" THEN "past" ELSE "end"
  /\ UNCHANGED <<entries, poisoned, lines, call, wire, gateway, told, counts>>

Handle(c) ==
  \/ \E cmd \in Commands : AdmitCommand(c, cmd)
  \/ \E w \in JournalWrites, v \in AppendWrites : RecordIntent(c, w, v) \/ Settle(c, w, v)
  \/ FindIntent(c) \/ RefuseIntent(c) \/ Fence(c) \/ Submit(c)
  \/ \E o \in OpIds : Lookup(c, o)
  \/ Answered(c) \/ RefuseOutcome(c)

LifecycleNext ==
  \/ \E c \in Callers : Handle(c)
  \/ \E o \in OpIds : Arrive(o) \/ Proceed(o)
  \/ Crash \/ OpenStore

LifecycleSpec == LifecycleInit /\ [][LifecycleNext]_lifecycleVars

-----------------------------------------------------------------------------

LifecycleTypeOK ==
  /\ \A o \in OpIds :
       /\ entries[o] = NoJournalEntry \/ entries[o] \in JournalEntries
       /\ intents[o] # NoIntent => intents[o] \in Intents /\ intents[o].op = o
       /\ told[o] \subseteq Settled
       /\ gateway[o] \in {"none", "refused", "working", "blocked", "stopped"}
  /\ \A n \in DOMAIN lines : lines[n] = Unreadable \/ lines[n] \in Intents
  /\ tail \in {"end", "torn", "past"}
  /\ up \in BOOLEAN /\ poisoned \in BOOLEAN
  /\ \A c \in Callers :
       call[c].at \in {"idle", "admitted", "recorded", "cleared", "waiting", "answered"}

\* "durable intent is recorded before any gateway call": what the gateway has or may still
\* get is in the journal and, unless a record cannot be read, in the intent file.
IntentPrecedesEffect ==
  \A o \in OpIds : (o \in wire \/ gateway[o] # "none") =>
    /\ entries[o] # NoJournalEntry
    /\ LinesOf(o) # {} \/ \E n \in DOMAIN lines : lines[n] = Unreadable

\* The store's memory and the journal have the same attempts and outcomes while the
\* journal accepts writes, whatever became of the intent file.
MemoryAgrees ==
  (up /\ ~poisoned) =>
    \A o \in OpIds : intents[o] # NoIntent =>
      /\ entries[o] # NoJournalEntry
      /\ entries[o].sequence = intents[o].sequence /\ entries[o].kind = intents[o].kind
      /\ entries[o].outcome = JournalOutcome(intents[o].class)

\* Without a failed write, and so with crashes between writes, the cross-check of the two
\* files never refuses what the service wrote: the number of records is all that can keep
\* the store from opening again.  That does: nothing bounds the records that are appended,
\* and beyond MaxIntentRecords (lifecycle_intent_recovery.rs, `lifecycle_intent_capacity`)
\* no service opens the file.
WrittenOpens == faults = 0 => (Opens <=> Len(lines) <= MaxIntentRecords)

\* An outcome that a client was given is durable and is not taken back: not by a late
\* answer, a lost one or a restart.
ToldIsKept ==
  \A o \in OpIds : \A class \in told[o] :
    entries[o] # NoJournalEntry /\ entries[o].outcome = JournalOutcome(class)

\* "The gateway refused the operation before any effect": no outcome on disk says so of an
\* operation that the gateway works on or may still get.
RefusedWithoutEffect ==
  \A o \in OpIds : entries[o] # NoJournalEntry /\ entries[o].outcome = "rejected" =>
    gateway[o] = "refused"

\* The process-lifecycle commands leave the gateway, the two files and the memory in
\* agreement: intent comes before effect, outcomes given out stay, and a refusal had no
\* effect.
LifecycleSound ==
  /\ LifecycleTypeOK /\ IntentPrecedesEffect /\ MemoryAgrees /\ WrittenOpens
  /\ ToldIsKept /\ RefusedWithoutEffect

\* "A start is never replayed after a stop settled": while a stop is retained as stopped,
\* the fence refuses every start that has come to it.
StartsFenced ==
  \A c \in Callers : \A o \in OpIds :
    (/\ call[c].at = "recorded" /\ call[c].cmd.kind \in EffectBearing
     /\ intents[o] # NoIntent /\ intents[o].class = "stopped")
    => StopDominates(intents[call[c].cmd.op].sequence)
=============================================================================
