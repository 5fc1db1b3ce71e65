---------------------------- MODULE OwnersProofs ----------------------------
(***************************************************************************)
(* The exo lifecycle owner, for any executions, journal entries and        *)
(* restarts, and the durable branch store with its continuation claims,    *)
(* for any branches, processes, instances and situations to begin with.    *)
(*                                                                         *)
(* EffectsSound relates four things no step writes together: the journal   *)
(* on disk, the execution store, the model process and the answer handed   *)
(* out.  The inductive invariant says how far each may be ahead of the     *)
(* next (EntriesAgree), that one entry at a time is open (OneUnsettled),   *)
(* and what an exchange under way may rely on at each of its steps         *)
(* (Exchanges).  A journal write may be refused, may fail, or may succeed  *)
(* and be reported as failed: PersistKeeps treats the three at once, so    *)
(* each writing step only has to justify the entry it writes.              *)
(*                                                                         *)
(* ContinuationSound relates what a process believes of its branch to what *)
(* the store, the claim file and the gateway hold, while other processes   *)
(* and operators write all three.  Its inductive invariant says what a     *)
(* process has at each of its steps (Standing), that what was verified or  *)
(* committed was so on the durable owner (ClaimsOK), and that two          *)
(* processes that began a branch never have one lease (Apart).  Most steps *)
(* are of one of a few classes (GoKeeps, StoreKeeps, StepKeeps): a class   *)
(* is proved once, and each action shows that it belongs to one.           *)
(***************************************************************************)
EXTENDS ExoLifecycle, BranchContinuation, FiniteSetTheorems, WellFoundedInduction, TLAPS

\* Where the journal, the store and the model process of one execution stand: an entry is
\* written before what it allows, and nothing is started before the entry says it was sent.
EntryAgrees(phase, row, process) ==
    /\ phase = "none" => row = "missing"
    /\ phase = "prepared" => row \in {"missing", "recorded", "reserved"}
    /\ phase = "admitted" => row = "reserved"
    /\ phase \in {"sent", "unknown"} => row \in {"reserved", "unknown", "completed"}
    /\ phase = "fenced" => row = "unknown"
    /\ phase = "completed" => row = "completed"
    /\ phase \in {"none", "prepared", "admitted"} => process = "none"
    /\ row = "completed" => process = "ended"

\* So it is with every execution.
EntriesAgree == \A x \in Executions : EntryAgrees(disk.entry[x].phase, store[x], effect[x])

\* Nothing is left to do for the entry.
Settled(phase) == phase \in {"none", "completed"}

\* One entry at a time is not settled: admit_new refuses a second one (start.rs).
OneUnsettled ==
    \A x, y \in Executions :
        ~Settled(disk.entry[x].phase) /\ ~Settled(disk.entry[y].phase) => x = y

\* Where an exchange c stands: what it has written, and that its process is not started yet.
Stands(c, entry) ==
    /\ c.at = "record" => entry[c.x].phase = "prepared" /\ store[c.x] = "missing"
    /\ c.at = "reserve" => entry[c.x].phase = "prepared" /\ store[c.x] = "recorded"
    /\ c.at = "admit" => entry[c.x].phase = "prepared" /\ store[c.x] = "reserved"
    /\ c.at = "send" => entry[c.x].phase = "admitted" /\ store[c.x] = "reserved"
    /\ c.at = "start" => entry[c.x].phase = "sent" /\ store[c.x] = "reserved" /\ effect[c.x] = "none"
    /\ c.at \in {"poll", "hold"} => entry[c.x].phase = "sent" /\ store[c.x] = "reserved"
    /\ c.at = "settle" => entry[c.x].phase = "sent" /\ store[c.x] = "completed"
    /\ c.at = "held" => entry[c.x].phase = "sent" /\ store[c.x] = "unknown"
    /\ c.at = "return" => entry[c.x].phase = "completed" /\ store[c.x] = "completed"

\* The exchange runs in an owner that is usable, whose entries are those on disk.
Exchanges ==
    /\ call # Idle => Usable
    /\ Usable => mem.entry = disk.entry
    /\ Stands(call, disk.entry)

\* A process is counted when it is created, and reports once.
Counted ==
    \A x \in Executions :
        /\ effect[x] \in {"none", "late"} => spawned[x] = 0
        /\ effect[x] # "ended" => answer[x] = "none"
        /\ spawned[x] <= 1

\* The inductive invariant.
ExoInv ==
    /\ LifecycleTypeOK /\ JournalReadable /\ DeliveredDurably
    /\ EntriesAgree /\ OneUnsettled /\ Exchanges /\ Counted

\* An exchange has an execution, unless there is none.
LEMMA CallShape ==
    ASSUME NEW c \in Calls
    PROVE  c = Idle \/ (c.at # "idle" /\ c.x \in Executions)
BY DEF Calls, At, Idle

\* What the exchange is at tells what it is.
LEMMA AtShape ==
    ASSUME NEW w \in {"prepared", "record", "reserve", "admit", "send", "start", "poll", "settle",
                      "return"}, NEW x \in Executions
    PROVE  At(w, x) \in Calls /\ At(w, x).at = w /\ At(w, x).x = x /\ At(w, x) # Idle
BY DEF Calls, At, Idle

\* The same for an exchange that gives its call up.
LEMMA HoldingShape ==
    ASSUME NEW x \in Executions, NEW phase \in {"unknown", "fenced"}
    PROVE  /\ Holding(x, phase) \in Calls /\ Holding(x, phase).at = "hold"
           /\ Holding(x, phase).x = x /\ Holding(x, phase).phase = phase
           /\ Holding(x, phase) # Idle
           /\ [Holding(x, phase) EXCEPT !.at = "held"] \in Calls
           /\ [Holding(x, phase) EXCEPT !.at = "held"].at = "held"
           /\ [Holding(x, phase) EXCEPT !.at = "held"].x = x
<1>1. [Holding(x, phase) EXCEPT !.at = "held"] = [at |-> "held", x |-> x, phase |-> phase]
  BY DEF Holding
<1>2. QED
  BY <1>1 DEF Calls, Holding, Idle

\* Nothing stands outside an exchange that has ended.
LEMMA IdleStands == ASSUME NEW entry PROVE Stands(Idle, entry)
BY DEF Stands, Idle

\* Whatever the journal validates can be read again by an owner of the next epoch.
LEMMA RestoredIs ==
    ASSUME NEW s \in Snapshots
    PROVE  /\ Restored(s).epoch = s.epoch + 1
           /\ Restored(s).binding \in
                [Executions -> {"none", "pending", "recovering", "completed", "inert"}]
           /\ Restored(s).op \in [Executions -> {"none", "intent", "sent", "unknown", "completed"}]
           /\ Restored(s).entry \in
                [Executions -> [phase : {"none", "prepared", "admitted", "sent", "unknown",
                                         "completed", "fenced"},
                                epoch : 0 .. MaxEpoch, possible : BOOLEAN, native : BOOLEAN]]
           /\ \A x \in Executions :
                /\ s.op[x] \in {"intent", "sent", "unknown"} =>
                     Restored(s).op[x] = "unknown" /\ Restored(s).binding[x] = "recovering"
                /\ s.op[x] = "completed" => Restored(s).op[x] = "completed"
                /\ Restored(s).entry[x].phase =
                     IF s.entry[x].phase = "sent" THEN "unknown" ELSE s.entry[x].phase
                /\ Restored(s).entry[x].epoch = s.entry[x].epoch
                /\ Restored(s).entry[x].possible = s.entry[x].possible
                /\ Restored(s).entry[x].native = s.entry[x].native
BY DEF Restored, Snapshots

\* What it reads is valid again: the tables agree under the phases a restart leaves.
LEMMA RestoredValid ==
    ASSUME NEW s \in Snapshots, Valid(s)
    PROVE  Valid(Restored(s))
<1> DEFINE r == Restored(s)
<1>1. Entered(r) = Entered(s)
  BY RestoredIs DEF Entered
<1>2. ASSUME NEW x \in Entered(r)
      PROVE  EntryValid(r.entry[x]) /\ Compatible(r, x) /\ r.entry[x].epoch <= r.epoch
  <2>1. /\ x \in Executions /\ EntryValid(s.entry[x]) /\ Compatible(s, x)
        /\ s.entry[x].epoch <= s.epoch /\ s.entry[x].phase # "none"
    BY <1>1, <1>2 DEF Valid, Entered
  <2>2. /\ s.epoch \in Nat /\ s.entry[x].epoch \in Nat
        /\ s.entry[x].phase \in 
             {"none", "prepared", "admitted", "sent", "unknown", "completed", "fenced"}
    BY <2>1, LifecycleAssumption DEF Snapshots
  <2>3. Historical(r, x) /\ r.entry[x].epoch <= r.epoch
    BY <2>1, <2>2, RestoredIs DEF Historical
  <2>4. EntryValid(r.entry[x])
    BY <2>1, <2>2, RestoredIs DEF EntryValid
  <2>5. Compatible(r, x)
    <3>1. CASE s.entry[x].phase \in {"prepared", "admitted"}
      <4>1. s.op[x] \in {"intent", "unknown"}
        BY <2>1, <3>1 DEF Compatible
      <4>2. QED
        BY <2>1, <2>3, <3>1, <4>1, RestoredIs DEF Compatible
    <3>2. CASE s.entry[x].phase = "sent"
      <4>1. s.op[x] = "sent"
        BY <2>1, <3>2 DEF Compatible
      <4>2. QED
        BY <2>1, <2>3, <3>2, <4>1, RestoredIs DEF Compatible
    <3>3. CASE s.entry[x].phase \in {"unknown", "fenced"}
      <4>1. s.op[x] = "unknown"
        BY <2>1, <3>3 DEF Compatible
      <4>2. QED
        BY <2>1, <2>3, <3>3, <4>1, RestoredIs DEF Compatible
    <3>4. CASE s.entry[x].phase = "completed"
      <4>1. IF s.entry[x].native THEN s.op[x] = "completed" ELSE s.op[x] = "unknown"
        BY <2>1, <3>4 DEF Compatible
      <4>2. QED
        BY <2>1, <2>3, <3>4, <4>1, RestoredIs DEF Compatible
    <3>5. QED
      BY <2>1, <2>2, <3>1, <3>2, <3>3, <3>4
  <2>6. QED
    BY <2>3, <2>4, <2>5
<1>3. Cardinality(Entered(r)) <= MaxEntries
  BY <1>1 DEF Valid
<1>4. QED
  BY <1>2, <1>3 DEF Valid

\* The entry on disk of an execution that is not sent is not possible.
LEMMA PossibleIs ==
    ASSUME ExoInv, NEW x \in Executions, disk.entry[x].phase # "none"
    PROVE  disk.entry[x].possible <=>
             disk.entry[x].phase \in {"sent", "unknown", "completed", "fenced"}
BY DEF ExoInv, JournalReadable, Valid, Entered, EntryValid

\* A write of the journal that changes the entry of one execution keeps the invariant,
\* whether it is refused, fails or succeeds.
LEMMA PersistKeeps ==
    ASSUME ExoInv, Usable, NEW x \in Executions, NEW s \in Snapshots, NEW next \in Calls,
           Persist(s, next),
           \A y \in Executions : y # x => s.entry[y] = disk.entry[y],
           UNCHANGED <<up, store, effect, answer, spawned, cancelled, delivered>>,
           EntryAgrees(s.entry[x].phase, store[x], effect[x]),
           ~Settled(s.entry[x].phase) =>
             \A y \in Executions : y # x => Settled(disk.entry[y].phase),
           x \in delivered => s.entry[x].phase = "completed",
           Stands(next, s.entry)
    PROVE  ExoInv'
<1>1. /\ mem' = s
      /\ \/ disk' = s /\ Valid(s) /\ poisoned' = FALSE /\ call' = next
         \/ disk' = disk /\ poisoned' = TRUE /\ call' = Idle
         \/ disk' = s /\ Valid(s) /\ poisoned' = TRUE /\ call' = Idle
  BY DEF Persist
<1>2. disk \in Snapshots /\ disk' \in Snapshots /\ disk' \in {disk, s} /\ Valid(disk')
  BY <1>1 DEF ExoInv, LifecycleTypeOK, JournalReadable
<1>3. LifecycleTypeOK'
  <2>1. Idle \in Calls
    BY DEF Calls
  <2>2. QED
    BY <1>1, <1>2, <2>1 DEF ExoInv, LifecycleTypeOK
<1>4. JournalReadable'
  <2>1. Valid(disk)' /\ Valid(Restored(disk))'
    BY <1>2, RestoredValid
  <2>2. Usable' => Valid(mem)'
    BY <1>1 DEF Usable
  <2>3. QED
    BY <2>1, <2>2 DEF JournalReadable
<1>5. DeliveredDurably'
  BY <1>2 DEF ExoInv, DeliveredDurably, LifecycleTypeOK
<1>6. EntriesAgree'
  BY <1>2 DEF ExoInv, EntriesAgree
<1>7. OneUnsettled'
  BY <1>2 DEF ExoInv, OneUnsettled, Settled
<1>8. Exchanges'
  <2>1. up
    BY DEF Usable
  <2>2. CASE poisoned'
    <3>1. call' = Idle
      BY <1>1, <2>2
    <3>2. QED
      BY <2>2, <3>1 DEF Exchanges, Usable, Stands, Idle
  <2>3. CASE ~poisoned'
    <3>1. mem' = s /\ disk' = s /\ call' = next
      BY <1>1, <2>3
    <3>2. QED
      BY <2>1, <2>3, <3>1 DEF Exchanges, Usable, Stands
  <2>4. QED
    BY <2>2, <2>3
<1>9. Counted'
  BY DEF ExoInv, Counted
<1>10. QED
  BY <1>3, <1>4, <1>5, <1>6, <1>7, <1>8, <1>9 DEF ExoInv

\* The parts of a snapshot.
Entries ==
    [phase : {"none", "prepared", "admitted", "sent", "unknown", "completed", "fenced"},
     epoch : 0 .. MaxEpoch, possible : BOOLEAN, native : BOOLEAN]

\* Where a binding of the broker and an operation stand.
BindingStates == {"none", "pending", "recovering", "completed", "inert"}
OperationStates == {"none", "intent", "sent", "unknown", "completed"}

\* The fields of a snapshot are of their types.
LEMMA SnapshotIs ==
    ASSUME NEW s \in Snapshots
    PROVE  /\ s.epoch \in 1 .. MaxEpoch
           /\ s.binding \in [Executions -> BindingStates] /\ s.op \in [Executions -> OperationStates]
           /\ s.entry \in [Executions -> Entries]
BY DEF Snapshots, Entries, BindingStates, OperationStates

\* The snapshot s in which the entry of x is e, its operation o and its binding b.
Updated(s, x, b, o, e) ==
    [s EXCEPT !.binding = [s.binding EXCEPT ![x] = b], !.op = [s.op EXCEPT ![x] = o],
              !.entry = [s.entry EXCEPT ![x] = e]]

\* It is a snapshot, and the other entries are as they were.
LEMMA UpdatedIs ==
    ASSUME NEW s \in Snapshots, NEW x \in Executions, NEW e \in Entries,
           NEW b \in BindingStates,
           NEW o \in OperationStates
    PROVE  /\ Updated(s, x, b, o, e) \in Snapshots
           /\ Updated(s, x, b, o, e).entry[x] = e
           /\ \A y \in Executions : y # x => Updated(s, x, b, o, e).entry[y] = s.entry[y]
<1> DEFINE w == Updated(s, x, b, o, e)
           bs == [s.binding EXCEPT ![x] = b]
           os == [s.op EXCEPT ![x] = o]
           es == [s.entry EXCEPT ![x] = e]
<1>1. bs \in [Executions -> BindingStates] /\ os \in [Executions -> OperationStates]
      /\ es \in [Executions -> Entries]
  BY SnapshotIs
<1>2. es[x] = e /\ \A y \in Executions : y # x => es[y] = s.entry[y]
  BY SnapshotIs
<1>3. w = [s EXCEPT !.binding = bs, !.op = os, !.entry = es]
  BY DEF Updated
<1> HIDE DEF w, bs, os, es
<1>4. w \in Snapshots /\ w.entry = es
  BY <1>1, <1>3 DEF Snapshots, Entries, BindingStates, OperationStates
<1>5. QED
  BY <1>2, <1>4 DEF w

\* What the invariant says of an exchange that is under way.
LEMMA UnderWay ==
    ASSUME ExoInv, call # Idle
    PROVE  /\ Usable /\ call.x \in Executions /\ mem \in Snapshots /\ disk \in Snapshots
           /\ mem.entry = disk.entry /\ Stands(call, disk.entry)
BY CallShape DEF ExoInv, Exchanges, LifecycleTypeOK

\* prepare_send writes the entry of a new execution.
LEMMA PersistPreparedKeeps ==
    ASSUME ExoInv, NEW x \in Executions, PersistPrepared(x)
    PROVE  ExoInv'
<1> DEFINE s == [mem EXCEPT !.entry[x] = [phase |-> "prepared", epoch |-> mem.epoch,
                                          possible |-> FALSE, native |-> FALSE]]
<1>1. /\ call = At("prepared", x) /\ AdmitNew(x) /\ Persist(s, At("record", x))
      /\ UNCHANGED <<up, store, effect, answer, spawned, cancelled, delivered>>
  BY DEF PersistPrepared
<1>2. /\ Usable /\ mem \in Snapshots /\ disk \in Snapshots /\ mem.entry = disk.entry
  BY <1>1, AtShape, UnderWay
<1>3. s \in Snapshots /\ s.entry[x].phase = "prepared"
      /\ \A y \in Executions : y # x => s.entry[y] = disk.entry[y]
  <2> DEFINE b == mem.binding[x]
             o == mem.op[x]
             e == [phase |-> "prepared", epoch |-> mem.epoch, possible |-> FALSE, native |-> FALSE]
  <2>1. mem \in Snapshots
    BY <1>2
  <2>2. mem.entry[x] \in Entries /\ mem.epoch \in 1 .. MaxEpoch
    BY <1>2, SnapshotIs
  <2>3. /\ b \in BindingStates
        /\ o \in OperationStates
    BY <1>2, SnapshotIs
  <2>4. e \in Entries /\ e.phase = "prepared"
    BY <2>2, LifecycleAssumption DEF Entries
  <2>5. /\ [mem.binding EXCEPT ![x] = mem.binding[x]] = mem.binding
        /\ [mem.op EXCEPT ![x] = mem.op[x]] = mem.op
        /\ [mem.entry EXCEPT ![x] = [phase |-> "prepared", epoch |-> mem.epoch, possible |-> FALSE,
                                     native |-> FALSE]] = [mem.entry EXCEPT ![x] = e]
    BY <1>2, SnapshotIs
  <2>6. s = [mem EXCEPT !.binding = mem.binding, !.op = mem.op,
                        !.entry = [mem.entry EXCEPT ![x] = [phase |-> "prepared", epoch |-> mem.epoch,
                                   possible |-> FALSE, native |-> FALSE]]]
    BY <1>2 DEF Snapshots
  <2>7. s = Updated(mem, x, b, o, e)
    BY <2>5, <2>6 DEF Updated
  <2> HIDE DEF b, o, e, s
  <2>8. /\ Updated(mem, x, b, o, e) \in Snapshots
        /\ Updated(mem, x, b, o, e).entry[x] = e
        /\ \A y \in Executions : y # x => Updated(mem, x, b, o, e).entry[y] = mem.entry[y]
    BY <2>1, <2>3, <2>4, UpdatedIs
  <2>9. QED
    BY <1>2, <2>4, <2>7, <2>8
<1>4. store[x] = "missing" /\ effect[x] = "none"
  <2>1. store[x] = "missing"
    BY <1>1 DEF AdmitNew
  <2>2. disk.entry[x].phase \in {"none", "prepared"}
    BY <1>2, <2>1 DEF ExoInv, EntriesAgree, EntryAgrees, Snapshots
  <2>3. QED
    BY <2>1, <2>2 DEF ExoInv, EntriesAgree, EntryAgrees
<1>5. \A y \in Executions : y # x => Settled(disk.entry[y].phase)
  BY <1>1, <1>2 DEF AdmitNew, Entered, Settled
<1>6. x \notin delivered
  BY <1>4 DEF ExoInv, DeliveredDurably
<1>7. EntryAgrees(s.entry[x].phase, store[x], effect[x])
  BY <1>3, <1>4 DEF EntryAgrees
<1>8. Stands(At("record", x), s.entry) /\ At("record", x) \in Calls
  BY <1>3, <1>4, AtShape DEF Stands
<1> HIDE DEF s
<1>9. QED
  BY <1>1, <1>2, <1>3, <1>5, <1>6, <1>7, <1>8, PersistKeeps

\* The unsettled entry is the only one.
LEMMA OthersSettled ==
    ASSUME ExoInv, NEW x \in Executions, ~Settled(disk.entry[x].phase)
    PROVE  \A y \in Executions : y # x => Settled(disk.entry[y].phase)
BY DEF ExoInv, OneUnsettled

\* The reservation of the store is in hand: the entry is admitted.
LEMMA PersistAdmittedKeeps ==
    ASSUME ExoInv, NEW x \in Executions, PersistAdmitted(x)
    PROVE  ExoInv'
<1> DEFINE s == [mem EXCEPT !.entry[x].phase = "admitted"]
<1>1. /\ call = At("admit", x) /\ Persist(s, At("send", x))
      /\ UNCHANGED <<up, store, effect, answer, spawned, cancelled, delivered>>
  BY DEF PersistAdmitted
<1>2. /\ Usable /\ mem \in Snapshots /\ disk \in Snapshots /\ mem.entry = disk.entry
      /\ disk.entry[x].phase = "prepared" /\ store[x] = "reserved"
  BY <1>1, AtShape, UnderWay DEF Stands
<1>3. s \in Snapshots /\ s.entry[x].phase = "admitted"
      /\ \A y \in Executions : y # x => s.entry[y] = disk.entry[y]
  <2> DEFINE b == mem.binding[x]
             o == mem.op[x]
             e == [mem.entry[x] EXCEPT !.phase = "admitted"]
  <2>1. mem \in Snapshots
    BY <1>2
  <2>2. mem.entry[x] \in Entries /\ mem.epoch \in 1 .. MaxEpoch
    BY <1>2, SnapshotIs
  <2>3. /\ b \in BindingStates
        /\ o \in OperationStates
    BY <1>2, SnapshotIs
  <2>4. e \in Entries /\ e.phase = "admitted"
    BY <2>2, LifecycleAssumption DEF Entries
  <2>5. /\ [mem.binding EXCEPT ![x] = mem.binding[x]] = mem.binding
        /\ [mem.op EXCEPT ![x] = mem.op[x]] = mem.op
        /\ [mem.entry EXCEPT ![x].phase = "admitted"] = [mem.entry EXCEPT ![x] = e]
    BY <1>2, SnapshotIs
  <2>6. s = [mem EXCEPT !.binding = mem.binding, !.op = mem.op,
                        !.entry = [mem.entry EXCEPT ![x].phase = "admitted"]]
    BY <1>2 DEF Snapshots
  <2>7. s = Updated(mem, x, b, o, e)
    BY <2>5, <2>6 DEF Updated
  <2> HIDE DEF b, o, e, s
  <2>8. /\ Updated(mem, x, b, o, e) \in Snapshots
        /\ Updated(mem, x, b, o, e).entry[x] = e
        /\ \A y \in Executions : y # x => Updated(mem, x, b, o, e).entry[y] = mem.entry[y]
    BY <2>1, <2>3, <2>4, UpdatedIs
  <2>9. QED
    BY <1>2, <2>4, <2>7, <2>8
<1>4. effect[x] = "none" /\ x \notin delivered
  BY <1>2 DEF ExoInv, EntriesAgree, EntryAgrees, DeliveredDurably
<1>5. \A y \in Executions : y # x => Settled(disk.entry[y].phase)
  BY <1>2, OthersSettled DEF Settled
<1>6. EntryAgrees(s.entry[x].phase, store[x], effect[x])
  BY <1>2, <1>3, <1>4 DEF EntryAgrees
<1>7. Stands(At("send", x), s.entry) /\ At("send", x) \in Calls
  BY <1>2, <1>3, AtShape DEF Stands
<1> HIDE DEF s
<1>8. QED
  BY <1>1, <1>2, <1>3, <1>4, <1>5, <1>6, <1>7, PersistKeeps

\* mark_sent, the last write before a process may be created.
LEMMA PersistSentKeeps ==
    ASSUME ExoInv, NEW x \in Executions, PersistSent(x)
    PROVE  ExoInv'
<1> DEFINE s == [mem EXCEPT !.op[x] = "sent", !.entry[x].phase = "sent", !.entry[x].possible = TRUE]
<1>1. /\ call = At("send", x) /\ Persist(s, At("start", x))
      /\ UNCHANGED <<up, store, effect, answer, spawned, cancelled, delivered>>
  BY DEF PersistSent
<1>2. /\ Usable /\ mem \in Snapshots /\ disk \in Snapshots /\ mem.entry = disk.entry
      /\ disk.entry[x].phase = "admitted" /\ store[x] = "reserved"
  BY <1>1, AtShape, UnderWay DEF Stands
<1>3. s \in Snapshots /\ s.entry[x].phase = "sent"
      /\ \A y \in Executions : y # x => s.entry[y] = disk.entry[y]
  <2> DEFINE b == mem.binding[x]
             o == mem.op[x]
             e == [mem.entry[x] EXCEPT !.phase = "sent", !.possible = TRUE]
  <2>1. mem \in Snapshots
    BY <1>2
  <2>2. mem.entry[x] \in Entries /\ mem.epoch \in 1 .. MaxEpoch
    BY <1>2, SnapshotIs
  <2>3. /\ b \in BindingStates
        /\ o \in OperationStates
    BY <1>2, SnapshotIs
  <2>4. e \in Entries /\ e.phase = "sent"
    BY <2>2, LifecycleAssumption DEF Entries
  <2>5. /\ [mem.binding EXCEPT ![x] = mem.binding[x]] = mem.binding
        /\ [mem.op EXCEPT ![x] = mem.op[x]] = mem.op
        /\ [mem.entry EXCEPT ![x].phase = "sent", ![x].possible = TRUE] = [mem.entry EXCEPT ![x] = e]
    BY <1>2, SnapshotIs
  <2>6. s = [mem EXCEPT !.binding = mem.binding, !.op = [mem.op EXCEPT ![x] = "sent"],
                        !.entry = [mem.entry EXCEPT ![x].phase = "sent", ![x].possible = TRUE]]
    BY <1>2 DEF Snapshots
  <2>7. s = Updated(mem, x, b, "sent", e)
    BY <2>5, <2>6 DEF Updated
  <2> HIDE DEF b, o, e, s
  <2>8. /\ Updated(mem, x, b, "sent", e) \in Snapshots
        /\ Updated(mem, x, b, "sent", e).entry[x] = e
        /\ \A y \in Executions : y # x => Updated(mem, x, b, "sent", e).entry[y] = mem.entry[y]
    BY <2>1, <2>3, <2>4, UpdatedIs DEF OperationStates
  <2>9. QED
    BY <1>2, <2>4, <2>7, <2>8
<1>4. effect[x] = "none" /\ x \notin delivered
  BY <1>2 DEF ExoInv, EntriesAgree, EntryAgrees, DeliveredDurably
<1>5. \A y \in Executions : y # x => Settled(disk.entry[y].phase)
  BY <1>2, OthersSettled DEF Settled
<1>6. EntryAgrees(s.entry[x].phase, store[x], effect[x])
  BY <1>2, <1>3, <1>4 DEF EntryAgrees
<1>7. Stands(At("start", x), s.entry) /\ At("start", x) \in Calls
  BY <1>2, <1>3, <1>4, AtShape DEF Stands
<1> HIDE DEF s
<1>8. QED
  BY <1>1, <1>2, <1>3, <1>4, <1>5, <1>6, <1>7, PersistKeeps

\* complete_metadata, after the store has completed the call.
LEMMA CompleteMetadataKeeps ==
    ASSUME ExoInv, NEW x \in Executions, CompleteMetadata(x)
    PROVE  ExoInv'
<1> DEFINE s == [mem EXCEPT !.op[x] = "completed", !.binding[x] = "completed",
                            !.entry[x].phase = "completed", !.entry[x].native = TRUE]
<1>1. /\ call = At("settle", x) /\ Persist(s, At("return", x))
      /\ UNCHANGED <<up, store, effect, answer, spawned, cancelled, delivered>>
  BY DEF CompleteMetadata
<1>2. /\ Usable /\ mem \in Snapshots /\ disk \in Snapshots /\ mem.entry = disk.entry
      /\ disk.entry[x].phase = "sent" /\ store[x] = "completed"
  BY <1>1, AtShape, UnderWay DEF Stands
<1>3. s \in Snapshots /\ s.entry[x].phase = "completed"
      /\ \A y \in Executions : y # x => s.entry[y] = disk.entry[y]
  <2> DEFINE e == [mem.entry[x] EXCEPT !.phase = "completed", !.native = TRUE]
  <2>1. mem \in Snapshots
    BY <1>2
  <2>2. mem.entry[x] \in Entries /\ mem.epoch \in 1 .. MaxEpoch
    BY <1>2, SnapshotIs
  <2>3. e \in Entries /\ e.phase = "completed"
    BY <2>2, LifecycleAssumption DEF Entries
  <2>4. /\ [mem.binding EXCEPT ![x] = mem.binding[x]] = mem.binding
        /\ [mem.op EXCEPT ![x] = mem.op[x]] = mem.op
        /\ [mem.entry EXCEPT ![x].phase = "completed", ![x].native = TRUE] = [mem.entry EXCEPT ![x] = e]
    BY <1>2, SnapshotIs
  <2>5. s = [mem EXCEPT !.binding = [mem.binding EXCEPT ![x] = "completed"],
                        !.op = [mem.op EXCEPT ![x] = "completed"],
                        !.entry = [mem.entry EXCEPT ![x].phase = "completed", ![x].native = TRUE]]
    BY <1>2 DEF Snapshots
  <2>6. s = Updated(mem, x, "completed", "completed", e)
    BY <2>4, <2>5 DEF Updated
  <2> HIDE DEF e, s
  <2>7. /\ Updated(mem, x, "completed", "completed", e) \in Snapshots
        /\ Updated(mem, x, "completed", "completed", e).entry[x] = e
        /\ \A y \in Executions : y # x =>
             Updated(mem, x, "completed", "completed", e).entry[y] = mem.entry[y]
    BY <2>1, <2>3, UpdatedIs DEF BindingStates, OperationStates
  <2>8. QED
    BY <1>2, <2>3, <2>6, <2>7
<1>4. effect[x] = "ended"
  BY <1>2 DEF ExoInv, EntriesAgree, EntryAgrees
<1>5. EntryAgrees(s.entry[x].phase, store[x], effect[x]) /\ Settled(s.entry[x].phase)
  BY <1>2, <1>3, <1>4 DEF EntryAgrees, Settled
<1>6. Stands(At("return", x), s.entry) /\ At("return", x) \in Calls
  BY <1>2, <1>3, AtShape DEF Stands
<1> HIDE DEF s
<1>7. QED
  BY <1>1, <1>2, <1>3, <1>5, <1>6, PersistKeeps

\* hold: the entry is unknown or fenced once the store says so.
LEMMA HoldJournalKeeps ==
    ASSUME ExoInv, NEW x \in Executions, HoldJournal(x)
    PROVE  ExoInv'
<1> DEFINE s == Held(mem, x)
<1>1. /\ call.at = "held" /\ call.x = x /\ Persist(s, Idle)
      /\ UNCHANGED <<up, store, effect, answer, spawned, cancelled, delivered>>
  BY DEF HoldJournal
<1>2. /\ Usable /\ mem \in Snapshots /\ disk \in Snapshots /\ mem.entry = disk.entry
      /\ disk.entry[x].phase = "sent" /\ store[x] = "unknown"
  BY <1>1, UnderWay DEF Stands, Idle
<1>3. call.phase \in {"unknown", "fenced"}
  BY <1>1 DEF ExoInv, LifecycleTypeOK, Calls, Idle
<1>4. s \in Snapshots /\ s.entry[x].phase \in {"unknown", "fenced"}
      /\ \A y \in Executions : y # x => s.entry[y] = disk.entry[y]
  <2> DEFINE e == [mem.entry[x] EXCEPT !.phase = call.phase]
  <2>1. mem \in Snapshots
    BY <1>2
  <2>2. mem.entry[x] \in Entries /\ mem.epoch \in 1 .. MaxEpoch
    BY <1>2, SnapshotIs
  <2>3. e \in Entries /\ e.phase \in {"unknown", "fenced"}
    BY <2>2, <1>3, LifecycleAssumption DEF Entries
  <2>4. /\ [mem.binding EXCEPT ![x] = mem.binding[x]] = mem.binding
        /\ [mem.op EXCEPT ![x] = mem.op[x]] = mem.op
        /\ [mem.entry EXCEPT ![x].phase = call.phase] = [mem.entry EXCEPT ![x] = e]
    BY <1>2, SnapshotIs
  <2>5. s = [mem EXCEPT !.binding = [mem.binding EXCEPT ![x] = "recovering"],
                        !.op = [mem.op EXCEPT ![x] = "unknown"],
                        !.entry = [mem.entry EXCEPT ![x].phase = call.phase]]
    BY <1>2 DEF Snapshots, Held
  <2>6. s = Updated(mem, x, "recovering", "unknown", e)
    BY <2>4, <2>5 DEF Updated
  <2> HIDE DEF e, s
  <2>7. /\ Updated(mem, x, "recovering", "unknown", e) \in Snapshots
        /\ Updated(mem, x, "recovering", "unknown", e).entry[x] = e
        /\ \A y \in Executions : y # x =>
             Updated(mem, x, "recovering", "unknown", e).entry[y] = mem.entry[y]
    BY <2>1, <2>3, UpdatedIs DEF BindingStates, OperationStates
  <2>8. QED
    BY <1>2, <2>3, <2>6, <2>7
<1>5. x \notin delivered
  BY <1>2 DEF ExoInv, DeliveredDurably
<1>6. \A y \in Executions : y # x => Settled(disk.entry[y].phase)
  BY <1>2, OthersSettled DEF Settled
<1>7. EntryAgrees(s.entry[x].phase, store[x], effect[x])
  BY <1>2, <1>4 DEF EntryAgrees
<1>8. Stands(Idle, s.entry) /\ Idle \in Calls
  BY IdleStands DEF Calls
<1> HIDE DEF s
<1>9. QED
  BY <1>1, <1>2, <1>4, <1>5, <1>6, <1>7, <1>8, PersistKeeps

\* reconcile_stored takes up a result that only the store has completed.
LEMMA ReconcileStoredKeeps ==
    ASSUME ExoInv, NEW x \in Executions, ReconcileStored(x)
    PROVE  ExoInv'
<1> DEFINE s == Reconciled(mem, x)
<1>1. /\ Usable /\ Persist(s, At("return", x)) /\ store[x] = "completed"
      /\ UNCHANGED <<up, store, effect, answer, spawned, cancelled, delivered>>
  BY DEF ReconcileStored, Reconcilable
<1>2. mem \in Snapshots /\ disk \in Snapshots /\ mem.entry = disk.entry
  BY <1>1 DEF ExoInv, Exchanges, LifecycleTypeOK
<1>3. s \in Snapshots /\ s.entry[x].phase = "completed"
      /\ \A y \in Executions : y # x => s.entry[y] = disk.entry[y]
  <2> DEFINE b == mem.binding[x]
             o == mem.op[x]
             e == [mem.entry[x] EXCEPT !.phase = "completed"]
  <2>1. mem \in Snapshots
    BY <1>2
  <2>2. mem.entry[x] \in Entries /\ mem.epoch \in 1 .. MaxEpoch
    BY <1>2, SnapshotIs
  <2>3. /\ b \in BindingStates
        /\ o \in OperationStates
    BY <1>2, SnapshotIs
  <2>4. e \in Entries /\ e.phase = "completed"
    BY <2>2, LifecycleAssumption DEF Entries
  <2>5. /\ [mem.binding EXCEPT ![x] = mem.binding[x]] = mem.binding
        /\ [mem.op EXCEPT ![x] = mem.op[x]] = mem.op
        /\ [mem.entry EXCEPT ![x].phase = "completed"] = [mem.entry EXCEPT ![x] = e]
    BY <1>2, SnapshotIs
  <2>6. s = [mem EXCEPT !.binding = mem.binding, !.op = mem.op,
                        !.entry = [mem.entry EXCEPT ![x].phase = "completed"]]
    BY <1>2 DEF Snapshots, Reconciled
  <2>7. s = Updated(mem, x, b, o, e)
    BY <2>5, <2>6 DEF Updated
  <2> HIDE DEF b, o, e, s
  <2>8. /\ Updated(mem, x, b, o, e) \in Snapshots
        /\ Updated(mem, x, b, o, e).entry[x] = e
        /\ \A y \in Executions : y # x => Updated(mem, x, b, o, e).entry[y] = mem.entry[y]
    BY <2>1, <2>3, <2>4, UpdatedIs
  <2>9. QED
    BY <1>2, <2>4, <2>7, <2>8
<1>4. effect[x] = "ended"
  BY <1>1 DEF ExoInv, EntriesAgree, EntryAgrees
<1>5. EntryAgrees(s.entry[x].phase, store[x], effect[x]) /\ Settled(s.entry[x].phase)
  BY <1>1, <1>3, <1>4 DEF EntryAgrees, Settled
<1>6. Stands(At("return", x), s.entry) /\ At("return", x) \in Calls
  BY <1>1, <1>3, AtShape DEF Stands
<1> HIDE DEF s
<1>7. QED
  BY <1>1, <1>2, <1>3, <1>5, <1>6, PersistKeeps

\* A step that leaves the journal on disk alone keeps what is said of it.
LEMMA SameDisk ==
    ASSUME ExoInv, UNCHANGED disk, LifecycleTypeOK', EntriesAgree', Counted', Exchanges',
           DeliveredDurably',
           Usable' => Valid(mem')
    PROVE  ExoInv'
<1>1. JournalReadable'
  BY DEF ExoInv, JournalReadable
<1>2. OneUnsettled'
  BY DEF ExoInv, OneUnsettled
<1>3. QED
  BY <1>1, <1>2 DEF ExoInv

\* The snapshot s with other rows of the broker for x.
WithRows(s, x, b, o) ==
    [s EXCEPT !.binding = [s.binding EXCEPT ![x] = b], !.op = [s.op EXCEPT ![x] = o]]

\* EntriesAgree of the broker for an execution without an entry are no concern of the journal.
LEMMA RowsOfNoEntry ==
    ASSUME NEW s \in Snapshots, Valid(s), NEW x \in Executions, s.entry[x] = NoEntry,
           NEW b \in BindingStates, NEW o \in OperationStates, NEW r, r = WithRows(s, x, b, o)
    PROVE  r \in Snapshots /\ r.entry = s.entry /\ Valid(r)
<1> DEFINE bs == [s.binding EXCEPT ![x] = b]
           os == [s.op EXCEPT ![x] = o]
<1>1. bs \in [Executions -> BindingStates] /\ os \in [Executions -> OperationStates]
  BY SnapshotIs
<1>2. \A y \in Executions : y # x => bs[y] = s.binding[y] /\ os[y] = s.op[y]
  BY SnapshotIs
<1>3. r = [s EXCEPT !.binding = bs, !.op = os]
  BY DEF WithRows
<1> HIDE DEF bs, os
<1>4. r \in Snapshots /\ r.entry = s.entry /\ r.epoch = s.epoch /\ r.binding = bs /\ r.op = os
  BY <1>1, <1>3 DEF Snapshots, BindingStates, OperationStates
<1>5. Entered(r) = Entered(s)
  BY <1>4 DEF Entered
<1>6. ASSUME NEW y \in Entered(r)
      PROVE  EntryValid(r.entry[y]) /\ Compatible(r, y) /\ r.entry[y].epoch <= r.epoch
  <2>1. y \in Executions /\ y # x
    BY <1>4, <1>6 DEF Entered, NoEntry
  <2>2. EntryValid(s.entry[y]) /\ Compatible(s, y) /\ s.entry[y].epoch <= s.epoch
    BY <1>5, <1>6 DEF Valid
  <2>3. Compatible(r, y)
    BY <1>2, <1>4, <2>1, <2>2 DEF Compatible, Historical
  <2>4. QED
    BY <1>4, <2>2, <2>3
<1>7. QED
  BY <1>4, <1>5, <1>6 DEF Valid

\* A binding and an operation that exist in memory only.
LEMMA PrepareEntryKeeps ==
    ASSUME ExoInv, NEW x \in Executions, PrepareOneShot(x) \/ PrepareRefused(x)
    PROVE  ExoInv'
<1>1. /\ Usable /\ call = Idle /\ mem.entry[x] = NoEntry
      /\ UNCHANGED <<up, disk, poisoned, store, effect, answer, spawned, cancelled, delivered>>
      /\ call' \in {At("prepared", x), Idle}
  BY DEF PrepareOneShot, PrepareRefused, MayPrepare
<1>2. mem \in Snapshots /\ Valid(mem) /\ mem.entry = disk.entry
  BY <1>1 DEF ExoInv, LifecycleTypeOK, JournalReadable, Exchanges
<1>3. PICK o \in OperationStates : mem' = WithRows(mem, x, "pending", o)
  <2>1. CASE PrepareOneShot(x)
    <3>1. mem' = [mem EXCEPT !.binding[x] = "pending", !.op[x] = "intent"]
      BY <2>1 DEF PrepareOneShot
    <3>2. QED
      BY <1>2, <3>1 DEF Snapshots, OperationStates, WithRows
  <2>2. CASE PrepareRefused(x)
    <3>1. mem' = [mem EXCEPT !.binding[x] = "pending"]
      BY <2>2 DEF PrepareRefused
    <3>2. mem.op[x] \in OperationStates /\ [mem.op EXCEPT ![x] = mem.op[x]] = mem.op
      BY <1>2, SnapshotIs
    <3>3. [mem EXCEPT !.binding[x] = "pending"] =
            [mem EXCEPT !.binding = [mem.binding EXCEPT ![x] = "pending"], !.op = mem.op]
      BY <1>2 DEF Snapshots
    <3>4. QED
      BY <3>1, <3>2, <3>3 DEF WithRows
  <2>3. QED
    BY <2>1, <2>2
<1>4. mem' \in Snapshots /\ mem'.entry = mem.entry /\ Valid(mem')
  <2>1. "pending" \in BindingStates
    BY DEF BindingStates
  <2>2. QED
    BY <1>1, <1>2, <1>3, <2>1, RowsOfNoEntry
<1>5. call' \in Calls /\ Stands(call', disk.entry)
  BY <1>1, AtShape, IdleStands DEF Stands, Calls
<1>6. LifecycleTypeOK'
  BY <1>1, <1>4, <1>5 DEF ExoInv, LifecycleTypeOK
<1>7. Exchanges'
  BY <1>1, <1>2, <1>4, <1>5 DEF Exchanges, Usable, Stands
<1>8. EntriesAgree' /\ Counted' /\ DeliveredDurably'
  BY <1>1 DEF ExoInv, EntriesAgree, Counted, DeliveredDurably
<1>9. QED
  BY <1>1, <1>4, <1>6, <1>7, <1>8, SameDisk

\* A step of an exchange that leaves journal, memory and processes alone.
LEMMA CallMoves ==
    ASSUME ExoInv, UNCHANGED <<up, mem, disk, effect, answer, spawned, cancelled>>,
           call' \in Calls, poisoned' \in BOOLEAN, poisoned => poisoned',
           NEW x \in Executions, NEW row \in {"missing", "recorded", "reserved", "unknown", "completed"},
           store' = [store EXCEPT ![x] = row], EntryAgrees(disk.entry[x].phase, row, effect[x]),
           x \in delivered => row = "completed",
           delivered' = delivered \/ (delivered' = delivered \union {x} /\ row = "completed"
                                      /\ disk.entry[x].phase = "completed"),
           call' # Idle => Usable /\ ~poisoned',
           Stands(call, disk.entry)'
    PROVE  ExoInv'
<1>1. LifecycleTypeOK'
  BY DEF ExoInv, LifecycleTypeOK
<1>2. EntriesAgree' /\ Counted'
  BY DEF ExoInv, LifecycleTypeOK, EntriesAgree, Counted
<1>3. DeliveredDurably'
  BY DEF ExoInv, LifecycleTypeOK, DeliveredDurably
<1>4. Exchanges' /\ (Usable' => Valid(mem'))
  BY DEF ExoInv, JournalReadable, Exchanges, Usable
<1>5. QED
  BY <1>1, <1>2, <1>3, <1>4, SameDisk

\* The store as it is.
LEMMA SameStore ==
    ASSUME ExoInv, NEW x \in Executions
    PROVE  /\ store[x] \in {"missing", "recorded", "reserved", "unknown", "completed"}
           /\ store = [store EXCEPT ![x] = store[x]]
           /\ EntryAgrees(disk.entry[x].phase, store[x], effect[x])
           /\ x \in delivered => store[x] = "completed"
           /\ poisoned \in BOOLEAN /\ Idle \in Calls
BY DEF ExoInv, LifecycleTypeOK, EntriesAgree, DeliveredDurably, Calls

\* An exchange ends and leaves the entry where it is, or goes on to give its call up.
LEMMA StaysKeeps ==
    ASSUME ExoInv, NEW x \in Executions,
           StartRefused(x) \/ PollUnknown(x) \/ PollFenced(x) \/ CompleteRefused(x) \/ Stored(x)
    PROVE  ExoInv'
<1>1. /\ UNCHANGED <<up, mem, disk, store, effect, answer, spawned, cancelled, delivered>>
      /\ poisoned' \in BOOLEAN /\ (poisoned => poisoned')
  <2>1. poisoned' = poisoned \/ poisoned' = TRUE
    BY DEF StartRefused, PollUnknown, PollFenced, CompleteRefused, Stored
  <2>2. UNCHANGED <<up, mem, disk, store, effect, answer, spawned, cancelled, delivered>>
    BY DEF StartRefused, PollUnknown, PollFenced, CompleteRefused, Stored
  <2>3. poisoned \in BOOLEAN
    BY SameStore
  <2>4. poisoned' \in BOOLEAN
    BY <2>1, <2>3
  <2>5. poisoned => poisoned'
    BY <2>1, Zenon
  <2>6. QED
    BY <2>2, <2>4, <2>5
<1>2. /\ call' \in Calls /\ (call' # Idle => Usable /\ ~poisoned')
      /\ Stands(call', disk.entry)
  <2>1. CASE StartRefused(x) \/ CompleteRefused(x)
    BY <2>1, SameStore, IdleStands DEF StartRefused, CompleteRefused
  <2>2. CASE PollUnknown(x) \/ PollFenced(x)
    <3>1. PICK phase \in {"unknown", "fenced"} : call' = Holding(x, phase)
      BY <2>2 DEF PollUnknown, PollFenced
    <3>2. call = At("poll", x) /\ UNCHANGED poisoned
      BY <2>2 DEF PollUnknown, PollFenced
    <3>3. Usable /\ disk.entry[x].phase = "sent" /\ store[x] = "reserved"
      BY <3>2, AtShape, UnderWay DEF Stands
    <3>4. QED
      BY <3>1, <3>2, <3>3, HoldingShape DEF Stands, Usable
  <2>3. CASE Stored(x)
    <3>1. /\ Usable /\ mem.entry[x].phase = "completed" /\ store[x] = "completed"
          /\ call' = At("return", x) /\ UNCHANGED poisoned
      BY <2>3 DEF Stored
    <3>2. mem.entry = disk.entry
      BY <3>1 DEF ExoInv, Exchanges
    <3>3. QED
      BY <3>1, <3>2, AtShape DEF Stands, Usable
  <2>4. QED
    BY <2>1, <2>2, <2>3
<1>3. Stands(call, disk.entry)'
  BY <1>1, <1>2 DEF Stands
<1> DEFINE row == store[x]
<1>4. /\ row \in {"missing", "recorded", "reserved", "unknown", "completed"}
      /\ store' = [store EXCEPT ![x] = row] /\ EntryAgrees(disk.entry[x].phase, row, effect[x])
      /\ x \in delivered => row = "completed"
  BY <1>1, SameStore
<1> HIDE DEF row
<1>5. QED
  BY <1>1, <1>2, <1>3, <1>4, CallMoves

\* Steps of the exchange that write to the execution store, and the return of a decision.
LEMMA StoreWritesKeep ==
    ASSUME ExoInv, NEW x \in Executions,
           RecordDecision(x) \/ ReserveProvider(x) \/ FinishStores(x) \/ HoldStore(x) \/ Return(x)
    PROVE  ExoInv'
<1>1. /\ UNCHANGED <<up, mem, disk, effect, answer, spawned, cancelled>>
      /\ poisoned' \in BOOLEAN /\ (poisoned => poisoned')
  <2>1. poisoned' = poisoned \/ poisoned' = TRUE
    BY DEF RecordDecision, ReserveProvider, WriteStore, FinishStores, HoldStore, Return
  <2>2. UNCHANGED <<up, mem, disk, effect, answer, spawned, cancelled>>
    BY DEF RecordDecision, ReserveProvider, WriteStore, FinishStores, HoldStore, Return
  <2>3. poisoned \in BOOLEAN
    BY SameStore
  <2>4. poisoned' \in BOOLEAN
    BY <2>1, <2>3
  <2>5. poisoned => poisoned'
    BY <2>1, Zenon
  <2>6. QED
    BY <2>2, <2>4, <2>5
<1>2. Idle \in Calls
  BY SameStore
<1>3. ASSUME NEW row \in {"recorded", "reserved"}, NEW from, NEW next, WriteStore(x, from, row, next),
             \/ from = "record" /\ row = "recorded" /\ next = "reserve"
             \/ from = "reserve" /\ row = "reserved" /\ next = "admit"
      PROVE  ExoInv'
  <2>1. /\ call = At(from, x) /\ UNCHANGED <<poisoned, delivered>>
        /\ \/ store' = [store EXCEPT ![x] = row] /\ call' = At(next, x)
           \/ call' = Idle /\ UNCHANGED store
    BY <1>3 DEF WriteStore
  <2>2. Usable /\ disk.entry[x].phase = "prepared" /\ store[x] \in {"missing", "recorded"}
    BY <1>3, <2>1, AtShape, UnderWay DEF Stands
  <2>3. effect[x] = "none" /\ x \notin delivered
    BY <2>2 DEF ExoInv, EntriesAgree, EntryAgrees, DeliveredDurably
  <2>4. CASE store' = [store EXCEPT ![x] = row] /\ call' = At(next, x)
    <3>1. store'[x] = row
      BY <2>4 DEF ExoInv, LifecycleTypeOK
    <3>2. Stands(call, disk.entry)' /\ call' \in Calls
      BY <1>1, <1>3, <2>2, <2>4, <3>1, AtShape DEF Stands
    <3>3. EntryAgrees(disk.entry[x].phase, row, effect[x])
      BY <1>3, <2>2, <2>3 DEF EntryAgrees
    <3>4. QED
      BY <1>1, <1>3, <2>1, <2>2, <2>3, <2>4, <3>2, <3>3, CallMoves DEF Usable
  <2>5. CASE call' = Idle /\ UNCHANGED store
    <3> DEFINE old == store[x]
    <3>1. /\ old \in {"missing", "recorded", "reserved", "unknown", "completed"}
          /\ store' = [store EXCEPT ![x] = old] /\ EntryAgrees(disk.entry[x].phase, old, effect[x])
      BY <2>5, SameStore
    <3>2. Stands(call, disk.entry)'
      BY <2>5 DEF Stands, Idle
    <3> HIDE DEF old
    <3>3. QED
      BY <1>1, <1>2, <2>1, <2>3, <2>5, <3>1, <3>2, CallMoves
  <2>6. QED
    BY <2>1, <2>4, <2>5
<1>4. ASSUME FinishStores(x)
      PROVE  ExoInv'
  <2>1. /\ call = At("poll", x) /\ answer[x] = "decision" /\ store' = [store EXCEPT ![x] = "completed"]
        /\ \/ call' = At("settle", x) /\ UNCHANGED poisoned
           \/ call' = Idle /\ poisoned' = TRUE
        /\ UNCHANGED delivered
    BY <1>4 DEF FinishStores
  <2>2. Usable /\ disk.entry[x].phase = "sent"
    BY <2>1, AtShape, UnderWay DEF Stands
  <2>3. effect[x] = "ended"
    BY <2>1 DEF ExoInv, Counted
  <2>4. EntryAgrees(disk.entry[x].phase, "completed", effect[x])
    BY <2>2, <2>3 DEF EntryAgrees
  <2>5. store'[x] = "completed"
    BY <2>1 DEF ExoInv, LifecycleTypeOK
  <2>6. call' \in Calls /\ Stands(call, disk.entry)' /\ (call' # Idle => ~poisoned')
    BY <1>1, <1>2, <2>1, <2>2, <2>5, AtShape DEF Stands, Idle, Usable
  <2>7. QED
    BY <1>1, <2>1, <2>2, <2>4, <2>6, CallMoves
<1>5. ASSUME HoldStore(x)
      PROVE  ExoInv'
  <2>1. PICK phase \in {"unknown", "fenced"} : call = Holding(x, phase)
    BY <1>5 DEF HoldStore
  <2>2. Usable /\ disk.entry[x].phase = "sent" /\ store[x] = "reserved"
    BY <2>1, HoldingShape, UnderWay DEF Stands
  <2>3. PICK row \in {"reserved", "unknown"} :
          /\ store' = [store EXCEPT ![x] = row] /\ UNCHANGED delivered
          /\ \/ row = "unknown" /\ call' = [Holding(x, phase) EXCEPT !.at = "held"] /\ UNCHANGED poisoned
             \/ call' = Idle /\ poisoned' = TRUE
    BY <1>5, <2>1, <2>2, SameStore DEF HoldStore
  <2>4. x \notin delivered
    BY <2>2 DEF ExoInv, DeliveredDurably
  <2>5. EntryAgrees(disk.entry[x].phase, row, effect[x])
    BY <2>2 DEF EntryAgrees
  <2>6. store'[x] = row
    BY <2>3 DEF ExoInv, LifecycleTypeOK
  <2>7. call' \in Calls /\ Stands(call, disk.entry)' /\ (call' # Idle => ~poisoned')
    <3>1. CASE call' = Idle
      BY <1>2, <3>1 DEF Stands, Idle
    <3>2. CASE call' # Idle
      <4> DEFINE next == [Holding(x, phase) EXCEPT !.at = "held"]
      <4>1. call' = next /\ row = "unknown" /\ UNCHANGED poisoned
        BY <2>3, <3>2
      <4>2. next \in Calls /\ next.at = "held" /\ next.x = x
        BY HoldingShape
      <4> HIDE DEF next
      <4>3. Stands(call, disk.entry)'
        BY <1>1, <2>2, <2>6, <4>1, <4>2 DEF Stands
      <4>4. QED
        BY <2>2, <4>1, <4>2, <4>3 DEF Usable
    <3>3. QED
      BY <3>1, <3>2
  <2>8. QED
    BY <1>1, <2>2, <2>3, <2>4, <2>5, <2>7, CallMoves
<1>6. ASSUME Return(x)
      PROVE  ExoInv'
  <2>1. /\ call = At("return", x) /\ delivered' = delivered \union {x} /\ call' = Idle
        /\ UNCHANGED store
    BY <1>6 DEF Return
  <2>2. Usable /\ disk.entry[x].phase = "completed" /\ store[x] = "completed"
    BY <2>1, AtShape, UnderWay DEF Stands
  <2>3. store' = [store EXCEPT ![x] = "completed"] /\ EntryAgrees(disk.entry[x].phase, "completed", effect[x])
    BY <2>1, <2>2, SameStore
  <2>4. Stands(call, disk.entry)'
    BY <2>1 DEF Stands, Idle
  <2>5. QED
    BY <1>1, <1>2, <2>1, <2>2, <2>3, <2>4, CallMoves
<1>7. QED
  BY <1>3, <1>4, <1>5, <1>6 DEF RecordDecision, ReserveProvider

\* What happens to a model process and its thread, for whatever execution and exchange.
LEMMA ProcessKeeps ==
    ASSUME ExoInv, UNCHANGED <<up, mem, disk, poisoned, store, cancelled, delivered>>,
           NEW x \in Executions, ~(disk.entry[x].phase \in {"none", "prepared", "admitted"}),
           NEW process \in {"late", "running", "ended"}, effect' = [effect EXCEPT ![x] = process],
           effect[x] # process, effect[x] # "ended",
           \/ process = "running" /\ effect[x] \in {"none", "late"}
              /\ spawned' = [spawned EXCEPT ![x] = @ + 1] /\ UNCHANGED answer
           \/ process # "running" /\ UNCHANGED <<spawned, answer>>
              /\ (process = "late" => effect[x] = "none")
           \/ /\ process = "ended" /\ UNCHANGED spawned
              /\ \E a \in {"decision", "failed"} : answer' = [answer EXCEPT ![x] = a],
           call' \in Calls, call' # Idle => Usable,
           Stands(call, disk.entry)'
    PROVE  ExoInv'
<1>1. store[x] # "completed"
  BY DEF ExoInv, EntriesAgree, EntryAgrees
<1>2. EntriesAgree'
  BY <1>1 DEF ExoInv, LifecycleTypeOK, EntriesAgree, EntryAgrees
<1>3. Counted'
  BY DEF ExoInv, LifecycleTypeOK, Counted
<1>4. LifecycleTypeOK'
  BY DEF ExoInv, LifecycleTypeOK
<1>5. Exchanges' /\ DeliveredDurably' /\ (Usable' => Valid(mem'))
  BY DEF ExoInv, JournalReadable, DeliveredDurably, Exchanges, Usable
<1>6. QED
  BY <1>2, <1>3, <1>4, <1>5, SameDisk

\* try_start: the one step that asks for a process, of an execution that has none.
LEMMA TryStartKeeps ==
    ASSUME ExoInv, NEW x \in Executions, TryStart(x)
    PROVE  ExoInv'
<1>1. /\ call = At("start", x)
      /\ UNCHANGED <<up, mem, disk, poisoned, store, answer, cancelled, delivered>>
  BY DEF TryStart
<1>2. Usable /\ disk.entry[x].phase = "sent" /\ store[x] = "reserved" /\ effect[x] = "none"
  BY <1>1, AtShape, UnderWay DEF Stands
<1>3. PICK process \in {"late", "running", "ended"} :
        /\ effect' = [effect EXCEPT ![x] = process]
        /\ \/ process = "running" /\ spawned' = [spawned EXCEPT ![x] = @ + 1] /\ call' = At("poll", x)
           \/ process # "running" /\ UNCHANGED spawned /\ call' = Holding(x, "unknown")
  BY DEF TryStart
<1>4. call' \in Calls /\ call'.at \in {"poll", "hold"} /\ call'.x = x
  <2>1. At("poll", x) \in Calls /\ At("poll", x).at = "poll" /\ At("poll", x).x = x
    BY AtShape
  <2>2. /\ Holding(x, "unknown") \in Calls /\ Holding(x, "unknown").at = "hold"
        /\ Holding(x, "unknown").x = x
    BY HoldingShape
  <2>3. QED
    BY <1>3, <2>1, <2>2
<1>5. Stands(call, disk.entry)'
  BY <1>1, <1>2, <1>4 DEF Stands
<1>6. QED
  BY <1>1, <1>2, <1>3, <1>4, <1>5, ProcessKeeps

\* A thread that is slow to start, a child that exits and a child that outlived its owner.
LEMMA ThreadKeeps ==
    ASSUME ExoInv, NEW x \in Executions, LateStart(x) \/ ThreadReports(x) \/ OrphanExits(x)
    PROVE  ExoInv'
<1>1. /\ UNCHANGED <<up, mem, disk, poisoned, store, cancelled, delivered, call>>
      /\ effect[x] \in {"late", "running", "orphan"}
  BY DEF LateStart, ThreadReports, OrphanExits
<1>2. ~(disk.entry[x].phase \in {"none", "prepared", "admitted"})
  BY <1>1 DEF ExoInv, EntriesAgree, EntryAgrees
<1>3. PICK process \in {"running", "ended"} :
        /\ effect' = [effect EXCEPT ![x] = process] /\ effect[x] # process
        /\ \/ process = "running" /\ effect[x] = "late"
              /\ spawned' = [spawned EXCEPT ![x] = @ + 1] /\ UNCHANGED answer
           \/ process = "ended" /\ UNCHANGED <<spawned, answer>>
           \/ /\ process = "ended" /\ UNCHANGED spawned
              /\ \E a \in {"decision", "failed"} : answer' = [answer EXCEPT ![x] = a]
  BY <1>1 DEF LateStart, ThreadReports, OrphanExits
<1>4. call' \in Calls /\ (call' # Idle => Usable)
  BY <1>1 DEF ExoInv, LifecycleTypeOK, Exchanges
<1>5. Stands(call, disk.entry)'
  <2>1. Stands(call, disk.entry)
    BY DEF ExoInv, Exchanges
  <2>2. call.at = "start" => call.x \in Executions /\ call.x # x
    BY <1>1, <2>1, CallShape DEF ExoInv, LifecycleTypeOK, Stands, Idle
  <2>3. call.at = "start" => effect'[call.x] = effect[call.x]
    BY <1>3, <2>2 DEF ExoInv, LifecycleTypeOK
  <2>4. QED
    BY <1>1, <2>1, <2>3 DEF Stands
<1>6. QED
  BY <1>1, <1>2, <1>3, <1>4, <1>5, ProcessKeeps

\* The cancellation signal touches nothing else.
LEMMA CancelKeeps ==
    ASSUME ExoInv, Cancel
    PROVE  ExoInv'
<1>1. /\ UNCHANGED <<up, mem, disk, poisoned, call, store, effect, answer, spawned, delivered>>
      /\ cancelled' = TRUE
  BY DEF Cancel
<1>2. QED
  BY <1>1 DEF ExoInv, LifecycleTypeOK, JournalReadable, Usable, DeliveredDurably, EntriesAgree,
     OneUnsettled, Exchanges, Stands, Counted

\* The process dies: what is on disk and outside stays.
LEMMA DieKeeps ==
    ASSUME ExoInv, Die
    PROVE  ExoInv'
<1>1. /\ up' = FALSE /\ call' = Idle /\ poisoned' = FALSE /\ cancelled' = FALSE /\ mem' = Created
      /\ UNCHANGED <<disk, store, answer, spawned, delivered>>
  BY DEF Die
<1>2. effect' = [x \in Executions |-> CASE effect[x] = "running" -> "orphan"
                                       [] effect[x] = "late" -> "ended"
                                       [] OTHER -> effect[x]]
  BY DEF Die
<1>3. \A x \in Executions :
        /\ effect'[x] \in {"none", "late", "running", "orphan", "ended"}
        /\ effect[x] = "none" <=> effect'[x] = "none"
        /\ effect'[x] # "late"
        /\ effect[x] = "ended" => effect'[x] = "ended"
        /\ effect'[x] # "ended" => effect[x] # "ended"
  BY <1>2 DEF ExoInv, LifecycleTypeOK
<1>4. Created \in Snapshots
  BY LifecycleAssumption DEF Created, Snapshots, NoEntry
<1>5. LifecycleTypeOK'
  BY <1>1, <1>2, <1>3, <1>4 DEF ExoInv, LifecycleTypeOK, Calls
<1>6. EntriesAgree' /\ Counted'
  BY <1>1, <1>3 DEF ExoInv, EntriesAgree, EntryAgrees, Counted
<1>7. Exchanges' /\ DeliveredDurably' /\ (Usable' => Valid(mem'))
  BY <1>1 DEF ExoInv, DeliveredDurably, Exchanges, Usable, Stands, Idle
<1>8. QED
  BY <1>1, <1>5, <1>6, <1>7, SameDisk

\* The journal as the owner of the next epoch writes it.
LEMMA OpenKeeps ==
    ASSUME ExoInv, Open
    PROVE  ExoInv'
<1> DEFINE s == Restored(disk)
<1>1. /\ ~up /\ disk.epoch < MaxEpoch /\ Valid(s) /\ disk' = s
      /\ \/ up' = TRUE /\ mem' = s
         \/ UNCHANGED <<up, mem>>
      /\ UNCHANGED <<poisoned, call, store, effect, answer, spawned, cancelled, delivered>>
  BY DEF Open
<1>2. disk \in Snapshots /\ call = Idle
  BY <1>1 DEF ExoInv, LifecycleTypeOK, Exchanges, Usable
<1>3. s \in Snapshots
  <2>1. s.epoch \in 1 .. MaxEpoch
    BY <1>1, <1>2, RestoredIs, SnapshotIs, LifecycleAssumption
  <2>2. s = [epoch |-> s.epoch, binding |-> s.binding, op |-> s.op, entry |-> s.entry]
    BY DEF Restored
  <2>3. QED
    BY <1>2, <2>1, <2>2, RestoredIs DEF Snapshots
<1>4. \A x \in Executions :
        s.entry[x].phase = IF disk.entry[x].phase = "sent" THEN "unknown" ELSE disk.entry[x].phase
  BY <1>2, RestoredIs
<1>5. Valid(Restored(s))
  BY <1>1, <1>3, RestoredValid
<1> HIDE DEF s
<1>6. LifecycleTypeOK'
  BY <1>1, <1>3 DEF ExoInv, LifecycleTypeOK
<1>7. JournalReadable'
  BY <1>1, <1>5 DEF JournalReadable, Usable
<1>8. DeliveredDurably'
  BY <1>1, <1>4 DEF ExoInv, LifecycleTypeOK, DeliveredDurably
<1>9. EntriesAgree'
  BY <1>1, <1>4 DEF ExoInv, EntriesAgree, EntryAgrees
<1>10. OneUnsettled'
  BY <1>1, <1>4 DEF ExoInv, OneUnsettled, Settled
<1>11. Exchanges' /\ Counted'
  BY <1>1, <1>2 DEF ExoInv, Exchanges, Usable, Stands, Idle, Counted
<1>12. QED
  BY <1>6, <1>7, <1>8, <1>9, <1>10, <1>11 DEF ExoInv

\* The owner starts with an empty journal.
LEMMA ExoStarts == LifecycleInit => ExoInv
<1> SUFFICES ASSUME LifecycleInit PROVE ExoInv
  OBVIOUS
<1>1. Created \in Snapshots
  BY LifecycleAssumption DEF Created, Snapshots, NoEntry
<1>2. LifecycleTypeOK
  BY <1>1 DEF LifecycleInit, LifecycleTypeOK, Calls
<1>3. Entered(Created) = {} /\ \A x \in Executions : Created.entry[x].phase = "none"
  BY DEF Entered, Created, NoEntry
<1>4. Valid(Created)
  BY <1>3, FS_EmptySet, LifecycleAssumption DEF Valid
<1>5. JournalReadable
  BY <1>1, <1>4, RestoredValid DEF LifecycleInit, JournalReadable
<1>6. EntriesAgree /\ OneUnsettled /\ Counted /\ DeliveredDurably
  BY <1>3 DEF LifecycleInit, EntriesAgree, EntryAgrees, OneUnsettled, Settled, Counted, DeliveredDurably
<1>7. Exchanges
  BY DEF LifecycleInit, Exchanges, Usable, Stands, Idle
<1>8. QED
  BY <1>2, <1>5, <1>6, <1>7 DEF ExoInv

\* Every step of the owner, its exchange, its processes and its death keeps the invariant.
LEMMA ExoKept == ExoInv /\ [LifecycleNext]_lifecycleVars => ExoInv'
<1> SUFFICES ASSUME ExoInv, [LifecycleNext]_lifecycleVars PROVE ExoInv'
  OBVIOUS
<1>1. CASE UNCHANGED lifecycleVars
  BY <1>1 DEF lifecycleVars, ExoInv, LifecycleTypeOK, JournalReadable, Usable, DeliveredDurably,
     EntriesAgree, OneUnsettled, Exchanges, Stands, Counted
<1>2. CASE Proceed
  <2>1. PICK x \in Executions :
        \/ StartRefused(x) \/ PersistPrepared(x) \/ RecordDecision(x) \/ ReserveProvider(x)
        \/ PersistAdmitted(x) \/ PersistSent(x) \/ TryStart(x)
        \/ PollUnknown(x) \/ PollFenced(x) \/ FinishStores(x) \/ CompleteMetadata(x)
        \/ CompleteRefused(x) \/ Return(x) \/ HoldStore(x) \/ HoldJournal(x)
    BY <1>2 DEF Proceed
  <2>2. QED
    BY <2>1, PersistPreparedKeeps, PersistAdmittedKeeps, PersistSentKeeps, CompleteMetadataKeeps,
       HoldJournalKeeps, TryStartKeeps, StaysKeeps, StoreWritesKeep
<1>3. CASE Cancel \/ Die \/ Open
  BY <1>3, CancelKeeps, DieKeeps, OpenKeeps
<1>4. ASSUME NEW x \in Executions,
             \/ PrepareOneShot(x) \/ PrepareRefused(x) \/ Stored(x) \/ ReconcileStored(x)
             \/ LateStart(x) \/ ThreadReports(x) \/ OrphanExits(x)
      PROVE  ExoInv'
  BY <1>4, PrepareEntryKeeps, StaysKeeps, ReconcileStoredKeeps, ThreadKeeps
<1>5. QED
  BY <1>1, <1>2, <1>3, <1>4 DEF LifecycleNext

\* The invariant is strong enough.
LEMMA ExoInvSound == ExoInv => EffectsSound
<1> SUFFICES ASSUME ExoInv PROVE EffectsSound
  OBVIOUS
<1>1. OneEffect
  BY DEF ExoInv, Counted, OneEffect
<1>2. \A x \in Executions : effect[x] # "none" =>
        disk.entry[x].phase \in {"sent", "unknown", "completed", "fenced"} /\ disk.entry[x].possible
  <2>1. ASSUME NEW x \in Executions, effect[x] # "none"
        PROVE  disk.entry[x].phase \in {"sent", "unknown", "completed", "fenced"}
    BY <2>1 DEF ExoInv, LifecycleTypeOK, Snapshots, EntriesAgree, EntryAgrees
  <2>2. QED
    BY <2>1, PossibleIs
<1>3. OneLiveProcess
  BY <1>2 DEF ExoInv, EntriesAgree, EntryAgrees, OneUnsettled, Settled, OneLiveProcess
<1>4. EffectRecorded
  <2>1. ASSUME NEW x \in Executions, spawned[x] > 0
        PROVE  effect[x] # "none"
    BY <2>1 DEF ExoInv, Counted
  <2>2. QED
    BY <1>2, <2>1 DEF ExoInv, EntriesAgree, EntryAgrees, EffectRecorded
<1>5. ResultReachable
  BY <1>2 DEF ExoInv, EntriesAgree, EntryAgrees, ResultReachable
<1>6. QED
  BY <1>1, <1>3, <1>4, <1>5 DEF ExoInv, EffectsSound

\* A held call stays where it is: nothing but its own exchange, which is over, writes its
\* entry, and a restart leaves it.
LEMMA HeldStepStays ==
    ASSUME ExoInv, LifecycleNext, NEW x \in Executions,
           disk.entry[x].phase \in {"unknown", "fenced"}, store[x] # "completed"
    PROVE  /\ x \notin delivered' /\ disk'.entry[x].phase = disk.entry[x].phase
           /\ store'[x] # "completed"
<1>1. x \notin delivered /\ disk \in Snapshots /\ disk' \in Snapshots
  <2>1. ExoInv'
    BY ExoKept
  <2>2. QED
    BY <2>1 DEF ExoInv, DeliveredDurably, LifecycleTypeOK
<1>2. call # Idle => Usable /\ mem.entry = disk.entry /\ Stands(call, disk.entry)
  BY UnderWay
<1>3. ASSUME NEW y \in Executions,
             \/ StartRefused(y) \/ RecordDecision(y) \/ ReserveProvider(y) \/ TryStart(y)
             \/ PollUnknown(y) \/ PollFenced(y) \/ CompleteRefused(y) \/ HoldStore(y)
             \/ PrepareOneShot(y) \/ PrepareRefused(y) \/ Stored(y)
             \/ LateStart(y) \/ ThreadReports(y) \/ OrphanExits(y) \/ Cancel \/ Die
      PROVE  /\ disk' = disk /\ delivered' = delivered
             /\ \/ store' = store
                \/ \E row \in {"recorded", "reserved", "unknown"} : store' = [store EXCEPT ![y] = row]
  BY <1>3 DEF StartRefused, RecordDecision, ReserveProvider, WriteStore, TryStart, PollUnknown,
     PollFenced, CompleteRefused, HoldStore, PrepareOneShot, PrepareRefused, Stored, LateStart,
     ThreadReports, OrphanExits, Cancel, Die
<1>4. ASSUME NEW y \in Executions, FinishStores(y) \/ Return(y)
      PROVE  /\ y # x /\ disk' = disk /\ delivered' \subseteq delivered \union {y}
             /\ store' = store \/ store' = [store EXCEPT ![y] = "completed"]
  <2>1. call \in {At("poll", y), At("return", y)}
    BY <1>4 DEF FinishStores, Return
  <2>2. disk.entry[y].phase \in {"sent", "completed"}
    BY <1>2, <2>1, AtShape DEF Stands
  <2>3. QED
    BY <1>4, <2>2 DEF FinishStores, Return
<1>5. ASSUME NEW y \in Executions,
             \/ PersistPrepared(y) \/ PersistAdmitted(y) \/ PersistSent(y) \/ CompleteMetadata(y)
             \/ HoldJournal(y) \/ ReconcileStored(y)
      PROVE  /\ disk'.entry[x].phase = disk.entry[x].phase
             /\ delivered' = delivered /\ store' = store
  <2>1. mem \in Snapshots
    BY DEF ExoInv, LifecycleTypeOK
  <2>2. mem.entry = disk.entry
    BY <1>2, <1>5, AtShape DEF ReconcileStored, ExoInv, Exchanges, PersistPrepared, PersistAdmitted,
       PersistSent, CompleteMetadata, HoldJournal, Idle
  <2>3. y # x
    <3>1. CASE PersistPrepared(y)
      <4>1. x \in Entered(mem)
        BY <2>2 DEF Entered
      <4>2. FALSE
        BY <2>2, <3>1, <4>1 DEF PersistPrepared, AdmitNew
      <4>3. QED
        BY <4>2
    <3>2. CASE PersistAdmitted(y) \/ PersistSent(y) \/ CompleteMetadata(y)
      <4>1. call \in {At("admit", y), At("send", y), At("settle", y)}
        BY <3>2 DEF PersistAdmitted, PersistSent, CompleteMetadata
      <4>2. disk.entry[y].phase \in {"prepared", "admitted", "sent"}
        BY <1>2, <4>1, AtShape DEF Stands
      <4>3. QED
        BY <4>2
    <3>3. CASE HoldJournal(y)
      <4>1. disk.entry[y].phase = "sent"
        BY <1>2, <3>3 DEF HoldJournal, Stands, Idle
      <4>2. QED
        BY <4>1
    <3>4. CASE ReconcileStored(y)
      BY <3>4 DEF ReconcileStored, Reconcilable
    <3>5. QED
      BY <1>5, <3>1, <3>2, <3>3, <3>4
  <2>4. ASSUME NEW s, NEW next, Persist(s, next), s.entry[x] = mem.entry[x]
        PROVE  disk'.entry[x] = disk.entry[x]
    BY <2>2, <2>4 DEF Persist
  <2>5. disk'.entry[x] = disk.entry[x]
    <3>1. CASE PersistPrepared(y)
      BY <2>1, <2>3, <2>4, <3>1 DEF PersistPrepared, Snapshots
    <3>2. CASE PersistAdmitted(y)
      BY <2>1, <2>3, <2>4, <3>2 DEF PersistAdmitted, Snapshots
    <3>3. CASE PersistSent(y)
      BY <2>1, <2>3, <2>4, <3>3 DEF PersistSent, Snapshots
    <3>4. CASE CompleteMetadata(y)
      BY <2>1, <2>3, <2>4, <3>4 DEF CompleteMetadata, Snapshots
    <3>5. CASE HoldJournal(y)
      BY <2>1, <2>3, <2>4, <3>5 DEF HoldJournal, Held, Snapshots
    <3>6. CASE ReconcileStored(y)
      BY <2>1, <2>3, <2>4, <3>6 DEF ReconcileStored, Reconciled, Snapshots
    <3>7. QED
      BY <1>5, <3>1, <3>2, <3>3, <3>4, <3>5, <3>6
  <2>6. delivered' = delivered /\ store' = store
    BY <1>5 DEF PersistPrepared, PersistAdmitted, PersistSent, CompleteMetadata, HoldJournal,
       ReconcileStored
  <2>7. QED
    BY <2>5, <2>6
<1>6. ASSUME Open
      PROVE  /\ disk'.entry[x].phase = disk.entry[x].phase
             /\ delivered' = delivered /\ store' = store
  <2>1. disk' = Restored(disk) /\ delivered' = delivered /\ store' = store
    BY <1>6 DEF Open
  <2>2. QED
    BY <1>1, <2>1, RestoredIs
<1>7. store \in [Executions -> {"missing", "recorded", "reserved", "unknown", "completed"}]
  BY DEF ExoInv, LifecycleTypeOK
<1>8. QED
  BY <1>1, <1>3, <1>4, <1>5, <1>6, <1>7 DEF LifecycleNext, Proceed

\* The inductive invariant of the owner, for any executions, entries and restarts.
THEOREM ExoInvariant == LifecycleSpec => []ExoInv
BY ExoStarts, ExoKept, PTL DEF LifecycleSpec

\* An execution has one model process at most and only behind a durable send boundary, the
\* journal can be opened after a crash at any point, and every result that was paid for can
\* still be handed out (start.rs, recovery.rs, owner_journal.rs, process_effect.rs).
THEOREM EffectsStaySound == LifecycleSpec => []EffectsSound
BY ExoInvariant, ExoInvSound, PTL

\* What is held is held for good: no restart, retry or late answer delivers it.
THEOREM HeldStaysHeldForGood == LifecycleSpec => HeldStaysHeld
<1>1. ExoInv /\ [LifecycleNext]_lifecycleVars =>
        [\A x \in Executions :
          disk.entry[x].phase \in {"unknown", "fenced"} /\ store[x] # "completed"
            => x \notin delivered' /\ disk'.entry[x].phase = disk.entry[x].phase
               /\ store'[x] # "completed"]_lifecycleVars
  BY HeldStepStays
<1>2. QED
  BY <1>1, ExoInvariant, PTL DEF LifecycleSpec, HeldStaysHeld

(***************************************************************************)
(* The branch store and the claims of a continuation.                      *)
(***************************************************************************)

\* Where the claim of an owner, and a process, may stand.
ClaimStates ==
    {"none", "prepared", "owner_snapshotted", "claimed", "boundary_verified", "resuming", "unknown"}
\* The steps of a process: its program counters.
Continuing ==
    {"gone", "reconcile", "prepare", "check_ready", "claim_restore", "allocate", "claim_resume",
     "adopt", "owner", "owner_claim", "record_claim", "restore", "replay_claim", "attach", "assure",
     "ready", "boundary", "run", "replay", "playing", "complete", "failing", "unknowing"}
\* The rows a process found half-way when it started.
HalfBranches == [b : Branches, rev : 0..MaxRevision, status : Statuses]
\* What a process keeps in memory.
Procs ==
    [pc : Continuing, b : Branches \cup {NoBranch}, resuming : BOOLEAN, todo : SUBSET HalfBranches,
     rev : 0..MaxRevision, op : 0..MaxRevision, memory : ClaimStates, seen : ClaimStates,
     lease : 0..MaxLeases]

\* Steps at which a process has the durable owner of its branch, the gateway has
\* acknowledged it, and its game has left the beginning.
Verified == {"attach", "assure", "ready", "boundary", "run", "playing"}
Acked == Verified \cup {"record_claim", "restore", "replay_claim", "replay"}
Owning == Acked \cup {"owner_claim"}

\* The rows of the store.
BranchesOK ==
    /\ branches \in [Branches -> {NoBranch} \cup BranchRows]
    /\ tombs \subseteq Rows
    /\ ReadyAssured

\* The gateway, the host and the claims are of their types.
GatewayOK ==
    /\ epoch \in 0..MaxLeases
    /\ leases \in [Instances -> 0..MaxLeases] /\ \A i \in Instances : leases[i] <= epoch
    /\ claims \in [Branches -> [state : ClaimStates, owner : 0..MaxLeases]]
    /\ granted \in [Branches -> 0..MaxLeases]
    /\ hosts \in [1..MaxLeases -> {"blank", "boundary", "played"}]
    /\ commits \in [Branches -> 0..MaxRevision]

\* What was acknowledged, verified or committed for a branch was so on its durable owner.
ClaimsOK ==
    /\ ClaimAcknowledged
    /\ \A b \in Branches :
           claims[b].state \in {"boundary_verified", "resuming"} \/ commits[b] # 0 =>
               claims[b].owner # 0 /\ hosts[claims[b].owner] # "blank"

\* The process r has a branch, and of it what its step says.
Standing(r) ==
    /\ r.lease <= epoch
    /\ r.pc # "gone" => r.b \in Rows
    /\ r.pc \in {"claim_resume", "adopt"} => r.resuming
    /\ r.pc = "owner" => r.lease # 0
    /\ r.pc \in Owning => r.lease # 0 /\ claims[r.b].owner = r.lease
    /\ r.pc \in Acked => granted[r.b] = r.lease
    /\ r.pc \in Verified => hosts[r.lease] # "blank"

\* The flock of the store has one holder at most.
LockOK == lock \subseteq Processes /\ \A p, q \in lock : p = q

\* Every process is where it may be, with what its step says.
ProcsOK ==
    /\ proc \in [Processes -> Procs]
    /\ \A p \in Processes : Standing(proc[p])

\* Two processes that began a branch have different leases.
Apart ==
    \A p, q \in Processes :
        ~proc[p].resuming /\ ~proc[q].resuming /\ proc[p].lease = proc[q].lease
            /\ proc[p].lease # 0 => p = q

\* What the steps keep.
BranchInv == BranchesOK /\ GatewayOK /\ ClaimsOK /\ LockOK /\ ProcsOK /\ Apart

\* The inductive invariant.
ContinuationInv == world \in Worlds /\ BranchInv

\* A set of numbers that is not empty has a least one.
LEMMA Least ==
    ASSUME NEW S \in SUBSET Nat, S # {}
    PROVE  \E m \in S : \A n \in S : m <= n
<1>1. PICK m \in S : \A n \in S : ~(<<n, m>> \in OpToRel(<, Nat))
  BY NatLessThanWellFounded, WFMin
<1>2. ASSUME NEW n \in S PROVE m <= n
  <2>1. ~(n < m)
    BY <1>1, <1>2 DEF OpToRel
  <2>2. QED
    BY <2>1
<1>3. QED
  BY <1>1, <1>2

\* The first claim of a restore that was claimed.
LEMMA FirstClaimIs ==
    ASSUME NEW b, NEW q \in 0..MaxRevision, Recorded(<<b, q, "claim-restore">>) # {}
    PROVE  FirstClaim(b) \in 0..MaxRevision
<1> DEFINE S == {r \in 0..MaxRevision : Recorded(<<b, r, "claim-restore">>) # {}}
<1>1. S \in SUBSET Nat /\ S # {}
  BY BranchAssumption
<1>2. PICK m \in S : \A n \in S : m <= n
  <2> HIDE DEF S
  <2>1. QED
    BY <1>1, Least
<1>3. m \in 0..MaxRevision /\ Recorded(<<b, m, "claim-restore">>) # {}
      /\ \A n \in 0..MaxRevision : Recorded(<<b, n, "claim-restore">>) # {} => m <= n
  BY <1>2
<1>4. QED
  BY <1>3, Zenon DEF FirstClaim

\* A lock that one process holds at most has at most one element.
LEMMA LockIsOne == LockOK => Cardinality(lock) <= 1
<1> SUFFICES ASSUME LockOK PROVE Cardinality(lock) <= 1
  OBVIOUS
<1>1. CASE lock = {}
  BY <1>1, FS_EmptySet
<1>2. CASE lock # {}
  <2>1. PICK p \in lock : lock = {p}
    BY <1>2 DEF LockOK
  <2>2. Cardinality({p}) = 1
    BY FS_Singleton
  <2>3. QED
    BY <2>1, <2>2
<1>3. QED
  BY <1>1, <1>2

\* The invariant is strong enough.
LEMMA BranchInvSound == BranchInv => ContinuationSound
<1> SUFFICES ASSUME BranchInv PROVE ContinuationSound
  OBVIOUS
<1>1. ContinuationTypeOK
  <2>1. \A p \in Processes : proc[p].lease \in 0..epoch /\ proc[p].rev \in 0..MaxRevision
    <3> SUFFICES ASSUME NEW p \in Processes
                 PROVE  proc[p].lease \in 0..epoch /\ proc[p].rev \in 0..MaxRevision
      OBVIOUS
    <3>1. proc[p] \in Procs /\ proc[p].lease <= epoch /\ epoch \in Nat
      BY ContinuationAssumption DEF BranchInv, ProcsOK, Standing, GatewayOK
    <3>2. QED
      BY <3>1, ContinuationAssumption DEF Procs
  <2>2. QED
    BY <2>1, LockIsOne DEF BranchInv, BranchesOK, LockOK, GatewayOK, ContinuationTypeOK, ClaimStates
<1>2. OneFreshDriver
  <2> SUFFICES ASSUME NEW b \in Branches, NEW p \in Processes, NEW q \in Processes,
                      Drives(p, b), Drives(q, b), ~proc[p].resuming, ~proc[q].resuming
               PROVE  p = q
    BY DEF OneFreshDriver
  <2>1. /\ proc[p].lease = claims[b].owner /\ proc[p].lease # 0
        /\ proc[q].lease = claims[b].owner
    BY DEF BranchInv, ProcsOK, Standing, Drives, IsAt, Owning, Acked, Verified
  <2>2. QED
    BY <2>1 DEF BranchInv, Apart
<1>3. DrivenOnVerifiedHost
  BY DEF BranchInv, ProcsOK, Standing, DrivenOnVerifiedHost, IsAt, Acked, Verified
<1>4. QED
  BY <1>1, <1>2, <1>3 DEF BranchInv, BranchesOK, ClaimsOK, ContinuationSound

\* Every situation begins with sound rows and nothing else.
LEMMA BranchStarts == ContinuationInit => BranchInv
<1> SUFFICES ASSUME ContinuationInit PROVE BranchInv
  OBVIOUS
<1>1. BranchesOK
  BY ContinuationAssumption DEF ContinuationInit, BranchesOK, ReadyAssured, Rows
<1>2. GatewayOK
  BY ContinuationAssumption, BranchAssumption DEF ContinuationInit, GatewayOK, ClaimStates
<1>3. ClaimsOK
  BY DEF ContinuationInit, ClaimsOK, ClaimAcknowledged
<1>4. LockOK
  BY DEF ContinuationInit, LockOK
<1>5. Gone \in Procs
  BY ContinuationAssumption, BranchAssumption DEF Gone, Procs, Continuing, ClaimStates
<1>6. ProcsOK
  BY <1>5, ContinuationAssumption
  DEF ContinuationInit, ProcsOK, Standing, Gone, Owning, Acked, Verified
<1>7. Apart
  BY DEF ContinuationInit, Apart, Gone
<1>8. QED
  BY <1>1, <1>2, <1>3, <1>4, <1>6, <1>7 DEF BranchInv

\* What a write of the store may do to the rows: nothing is taken away, and a pruned
\* branch stays as it is.
RowsKept ==
    /\ BranchesOK' /\ Rows \subseteq Rows'
    /\ \A b \in tombs : b \in tombs' /\ branches'[b] = branches[b]

\* The row of an evidenced branch is assured.
Evident(row) == row.status \in Evidenced => row.assured

\* A row that is written keeps its fields but for what the operation changes.
LEMMA MovedIs ==
    ASSUME BranchesOK, NEW b, NEW rev, NEW status, CanMove(b, rev, status),
           branches[b].rev < MaxRevision
    PROVE  Moved(branches[b], status) \in BranchRows /\ Evident(Moved(branches[b], status))
<1> DEFINE row == branches[b]
           m == Moved(row, status)
<1>1. /\ b \in Branches /\ row \in BranchRows /\ row.rev \in 0..MaxRevision
      /\ status \in MovesFrom(row.status) /\ (status = "ready" => row.assured)
      /\ row.status \in Statuses /\ Evident(row)
  BY DEF BranchesOK, CanMove, Current, Rows, BranchRows, ReadyAssured, Evident
<1>2. /\ status \in Statuses
      /\ status \in Evidenced => status = "ready" \/ row.status \in Evidenced
  BY <1>1 DEF MovesFrom, Statuses, HalfCreated, Evidenced
<1>3. status \in Evidenced => row.assured /\ status \notin {"pending", "restoring", "replaying"}
  BY <1>1, <1>2 DEF Evident, Evidenced
<1> DEFINE yes == row.assured /\ status \notin {"pending", "restoring", "replaying"}
<1>4. m = [row EXCEPT !.status = status, !.assured = yes, !.rev = row.rev + 1]
  BY <1>1 DEF Moved, Bumped, BranchRows
<1>5. yes \in BOOLEAN /\ row.rev + 1 \in 0..MaxRevision /\ (status \in Evidenced => yes)
  BY <1>1, <1>3, BranchAssumption
<1> HIDE DEF m, row, yes
<1>6. m \in BranchRows /\ m.status = status /\ m.assured = yes
  BY <1>1, <1>2, <1>4, <1>5 DEF BranchRows
<1>7. QED
  BY <1>5, <1>6 DEF Evident, m, row

\* The row an assurance writes is a row, with the evidence its status needs.
LEMMA AssuredIs ==
    ASSUME BranchesOK, NEW b, NEW rev, NEW yes \in BOOLEAN, CanAssure(b, rev),
           branches[b].rev < MaxRevision
    PROVE  Assured(branches[b], yes) \in BranchRows /\ Evident(Assured(branches[b], yes))
<1> DEFINE row == branches[b]
           m == Assured(row, yes)
<1>1. /\ row \in BranchRows /\ row.rev + 1 \in 0..MaxRevision
      /\ row.status \in {"restoring", "replaying", "unknown"}
  BY BranchAssumption DEF BranchesOK, CanAssure, Current, Rows, BranchRows
<1>2. m = [row EXCEPT !.assured = yes, !.rev = row.rev + 1]
  BY <1>1 DEF Assured, Bumped, BranchRows
<1> HIDE DEF m, row
<1>3. m \in BranchRows /\ m.status = row.status
  BY <1>1, <1>2 DEF BranchRows
<1>4. QED
  BY <1>1, <1>3 DEF Evident, Evidenced, m, row

\* So is the row an attached artifact leaves.
LEMMA AttachedIs ==
    ASSUME BranchesOK, NEW b, NEW rev, NEW artifact, CanAttach(b, rev, artifact),
           artifact \in Sources \cup {Receipt(r) : r \in 0..MaxRevision},
           branches[b].rev < MaxRevision
    PROVE  /\ Attached(branches[b], artifact) \in BranchRows
           /\ Evident(Attached(branches[b], artifact))
<1> DEFINE row == branches[b]
           m == Attached(row, artifact)
<1>1. /\ row \in BranchRows /\ row.rev + 1 \in 0..MaxRevision /\ Evident(row)
      /\ row.artifacts \cup {artifact} \subseteq Sources \cup {Receipt(r) : r \in 0..MaxRevision}
  BY BranchAssumption DEF BranchesOK, CanAttach, Current, Rows, BranchRows, ReadyAssured, Evident
<1>2. m = [row EXCEPT !.artifacts = row.artifacts \cup {artifact}, !.rev = row.rev + 1]
  BY <1>1 DEF Attached, Bumped, BranchRows
<1> HIDE DEF m, row
<1>3. m \in BranchRows /\ m.status = row.status /\ m.assured = row.assured
  BY <1>1, <1>2 DEF BranchRows
<1>4. QED
  BY <1>1, <1>3 DEF Evident, m, row

\* So is a row whose revision alone moves on.
LEMMA BumpedIs ==
    ASSUME BranchesOK, NEW b \in Rows, branches[b].rev < MaxRevision
    PROVE  Bumped(branches[b]) \in BranchRows /\ Evident(Bumped(branches[b]))
<1> DEFINE row == branches[b]
           m == Bumped(row)
<1>1. row \in BranchRows /\ row.rev + 1 \in 0..MaxRevision /\ Evident(row)
  BY BranchAssumption DEF BranchesOK, Rows, BranchRows, ReadyAssured, Evident
<1>2. m = [row EXCEPT !.rev = row.rev + 1]
  BY <1>1 DEF Bumped, BranchRows
<1> HIDE DEF m, row
<1>3. m \in BranchRows /\ m.status = row.status /\ m.assured = row.assured
  BY <1>1, <1>2 DEF BranchRows
<1>4. QED
  BY <1>1, <1>3 DEF Evident, m, row

\* A sound row, written where no tombstone is, keeps the rows sound.
LEMMA WriteKeeps ==
    ASSUME BranchesOK, NEW b \in Branches \ tombs, NEW row \in BranchRows, Evident(row),
           branches' = [branches EXCEPT ![b] = row], tombs' = tombs
    PROVE  RowsKept
<1>1. Rows \subseteq Rows' /\ Rows' \subseteq Rows \cup {b}
  BY BranchAssumption DEF BranchesOK, Rows
<1>2. branches' \in [Branches -> {NoBranch} \cup BranchRows]
  BY DEF BranchesOK
<1>3. ReadyAssured'
  BY <1>1 DEF BranchesOK, ReadyAssured, Evident, Rows
<1>4. \A t \in tombs : branches'[t] = branches[t]
  BY DEF BranchesOK, Rows
<1>5. QED
  BY <1>1, <1>2, <1>3, <1>4 DEF RowsKept, BranchesOK

\* A step that writes no row keeps them.
LEMMA SameRows == ASSUME BranchesOK, UNCHANGED <<branches, tombs>> PROVE RowsKept
BY DEF BranchesOK, RowsKept, Rows, ReadyAssured

\* A transaction whose row is sound when it can run.
LEMMA TransactKeeps ==
    ASSUME BranchesOK, NEW id, NEW payload, NEW can, NEW b, NEW row,
           Transact(id, payload, can, b, row),
           can => b \in Rows \ tombs,
           can /\ branches[b].rev < MaxRevision => row \in BranchRows /\ Evident(row)
    PROVE  RowsKept
<1>1. CASE Outcome(id, payload, can) = "applied"
  <2>1. can
    BY <1>1 DEF Outcome
  <2>2. /\ b \in Branches \ tombs /\ row \in BranchRows /\ Evident(row)
        /\ branches' = [branches EXCEPT ![b] = row] /\ tombs' = tombs
    BY <1>1, <2>1 DEF Transact, Rows
  <2>3. QED
    BY <2>2, WriteKeeps
<1>2. CASE Outcome(id, payload, can) # "applied"
  BY <1>2, SameRows DEF Transact
<1>3. QED
  BY <1>1, <1>2

\* What operators do to the rows.
LEMMA OperatorKeeps ==
    ASSUME BranchesOK, NEW bs \in SUBSET Branches, OperatorStep(bs)
    PROVE  RowsKept
<1>1. ASSUME NEW b \in bs, NEW parent, NEW s \in Strategies, NEW a \in Sources,
             Create(b, parent, s, a)
      PROVE  RowsKept
  <2> DEFINE row == [status |-> "pending", strategy |-> s, assured |-> FALSE, rev |-> 0,
                     artifacts |-> {a}]
  <2>1. row \in BranchRows /\ Evident(row)
    BY BranchAssumption DEF BranchRows, Statuses, HalfCreated, Evident, Evidenced
  <2>2. /\ branches' = [branches EXCEPT ![b] = row] /\ tombs' = tombs /\ b \in Branches \ tombs
    BY <1>1 DEF Create, BranchesOK
  <2> HIDE DEF row
  <2>3. QED
    BY <2>1, <2>2, WriteKeeps
<1>2. ASSUME NEW b \in bs, NEW status, MoveBranch(b, status)
      PROVE  RowsKept
  BY <1>2, MovedIs, WriteKeeps DEF MoveBranch, Write, CanMove, Current
<1>3. ASSUME NEW b \in bs, NEW yes \in BOOLEAN, SetAssurance(b, yes)
      PROVE  RowsKept
  BY <1>3, AssuredIs, WriteKeeps DEF SetAssurance, Write, CanAssure, Current
<1>4. ASSUME NEW b \in bs, NEW a \in Sources, AttachArtifact(b, a)
      PROVE  RowsKept
  BY <1>4, AttachedIs, WriteKeeps DEF AttachArtifact, Write, CanAttach, Current
<1>5. ASSUME NEW b \in bs, Rename(b)
      PROVE  RowsKept
  BY <1>5, BumpedIs, WriteKeeps DEF Rename, Write, Current
<1>6. ASSUME NEW selected \in SUBSET bs, NEW retain \in BOOLEAN, Prune(selected, retain)
      PROVE  RowsKept
  BY <1>6 DEF Prune, BranchesOK, RowsKept, Rows, ReadyAssured
<1>7. QED
  BY <1>1, <1>2, <1>3, <1>4, <1>5, <1>6 DEF OperatorStep

\* What the gateway, the host and the claims keep in every step: an owner that is
\* recorded, an acknowledgement and a game that has begun.
Grows ==
    /\ \A b \in Branches :
         /\ claims[b].owner # 0 => claims'[b].owner = claims[b].owner
         /\ granted[b] # 0 => granted'[b] = granted[b]
    /\ \A o \in 1..MaxLeases : hosts[o] # "blank" => hosts'[o] # "blank"
    /\ epoch <= epoch'

\* The state of a process outlives the steps of the others.
LEMMA StandingStays ==
    ASSUME BranchInv, Grows, GatewayOK', Rows \subseteq Rows', NEW r \in Procs, Standing(r)
    PROVE  Standing(r)'
<1>1. /\ r.lease \in Nat /\ r.lease <= MaxLeases /\ epoch \in Nat /\ epoch' \in Nat
      /\ r.pc \in Continuing
  BY ContinuationAssumption DEF BranchInv, GatewayOK, Procs
<1>2. r.lease <= epoch'
  BY <1>1 DEF Grows, Standing
<1>3. r.pc \in Owning =>
        r.b \in Branches /\ r.lease # 0 /\ claims[r.b].owner = r.lease
          /\ claims'[r.b].owner = r.lease
  BY DEF Standing, Grows, Owning, Acked, Verified, Rows
<1>4. r.pc \in Acked => granted'[r.b] = r.lease
  BY <1>3 DEF Standing, Grows, Owning
<1>5. r.pc \in Verified => hosts'[r.lease] # "blank"
  <2>1. r.pc \in Verified => r.lease \in 1..MaxLeases
    BY <1>1, <1>3, ContinuationAssumption DEF Owning, Acked
  <2>2. QED
    BY <2>1 DEF Standing, Grows
<1>6. QED
  BY <1>2, <1>3, <1>4, <1>5 DEF Standing

\* No other process that began a branch has the lease of r.
Alone(p, r) ==
    ~r.resuming /\ r.lease # 0 =>
        \A q \in Processes : q # p /\ ~proc[q].resuming => proc[q].lease # r.lease

\* A step of one process.
LEMMA StepKeeps ==
    ASSUME BranchInv, RowsKept, Grows, GatewayOK', ClaimsOK', LockOK',
           NEW p \in Processes, NEW r \in Procs, proc' = [proc EXCEPT ![p] = r],
           Standing(r)', Alone(p, r)
    PROVE  BranchInv'
<1>1. proc \in [Processes -> Procs] /\ \A q \in Processes : Standing(proc[q])
  BY DEF BranchInv, ProcsOK
<1>2. ASSUME NEW q \in Processes PROVE proc'[q] \in Procs /\ Standing(proc[q])'
  <2>1. CASE q = p
    <3>1. proc'[q] = r
      BY <1>1, <2>1
    <3>2. QED
      BY <3>1 DEF Standing
  <2>2. CASE q # p
    <3>1. proc'[q] = proc[q] /\ proc[q] \in Procs /\ Standing(proc[q])
      BY <1>1, <2>2
    <3>2. PICK s \in Procs : s = proc[q]
      BY <3>1
    <3>3. Standing(s)
      BY <3>1, <3>2
    <3>4. Standing(s)'
      BY <3>3, StandingStays DEF RowsKept
    <3>5. QED
      BY <3>1, <3>2, <3>4 DEF Standing
  <2>3. QED
    BY <2>1, <2>2
<1>3. ProcsOK'
  <2>1. proc' \in [Processes -> Procs]
    BY <1>1
  <2>2. QED
    BY <1>2, <2>1 DEF ProcsOK
<1>4. Apart'
  BY <1>1 DEF BranchInv, Apart, Alone
<1>5. QED
  BY <1>3, <1>4 DEF BranchInv, RowsKept

\* Claims, gateway and host as they are.
Quiet == UNCHANGED <<claims, granted, leases, epoch, hosts, commits>>

\* Where nothing of the gateway moves, what was said of it stays true.
LEMMA QuietKeeps ==
    ASSUME BranchInv, Quiet PROVE Grows /\ GatewayOK' /\ ClaimsOK'
BY DEF BranchInv, Quiet, Grows, GatewayOK, ClaimsOK, ClaimAcknowledged

\* What a process may rely on at the step to, it relied on before.
Follows(from, to) ==
    /\ to \in Continuing \ {"claim_resume", "adopt", "owner"}
    /\ to \in Owning => from \in Owning
    /\ to \in Acked => from \in Acked
    /\ to \in Verified => from \in Verified

\* The process r at another step.
AtStep(r, to) == [r EXCEPT !.pc = to]

\* Such a process differs in its step only.
LEMMA AtStepIs ==
    ASSUME NEW r \in Procs, NEW to \in Continuing
    PROVE  /\ AtStep(r, to) \in Procs /\ AtStep(r, to).pc = to /\ AtStep(r, to).b = r.b
           /\ AtStep(r, to).resuming = r.resuming /\ AtStep(r, to).lease = r.lease
BY DEF AtStep, Procs

\* Go moves one process to another step.
LEMMA GoIs ==
    ASSUME BranchInv, NEW p \in Processes, NEW to, Go(p, to)
    PROVE  proc' = [proc EXCEPT ![p] = AtStep(proc[p], to)]
BY DEF Go, AtStep, BranchInv, ProcsOK

\* A process that has left has nothing.
LEMMA GoneIs ==
    /\ Gone \in Procs /\ Gone.pc = "gone" /\ Gone.lease = 0 /\ Gone.resuming = FALSE
BY ContinuationAssumption, BranchAssumption DEF Gone, Procs, Continuing, ClaimStates

\* A process keeps its branch and its lease, and goes on to a step it may rely on, while
\* claims and gateway may grow.
LEMMA FollowKeeps ==
    ASSUME BranchInv, RowsKept, Grows, GatewayOK', ClaimsOK', LockOK',
           NEW p \in Processes, NEW r \in Procs, proc' = [proc EXCEPT ![p] = r],
           r.b = proc[p].b, r.resuming = proc[p].resuming, r.lease = proc[p].lease,
           proc[p].pc # "gone", Follows(proc[p].pc, r.pc)
    PROVE  BranchInv'
<1>1. proc[p] \in Procs /\ Standing(proc[p])
  BY DEF BranchInv, ProcsOK
<1>2. Standing(r)
  BY <1>1 DEF Standing, Follows
<1>3. Standing(r)'
  BY <1>2, StandingStays DEF RowsKept
<1>4. Alone(p, r)
  BY DEF BranchInv, Apart, Alone
<1>5. QED
  BY <1>3, <1>4, StepKeeps

\* A process leaves.
LEMMA ExitKeeps ==
    ASSUME BranchInv, RowsKept, Quiet, NEW p \in Processes, Exit(p)
    PROVE  BranchInv'
<1>1. Grows /\ GatewayOK' /\ ClaimsOK'
  BY QuietKeeps
<1>2. LockOK'
  BY DEF BranchInv, LockOK, Exit
<1>3. Standing(Gone)'
  BY <1>1, GoneIs, ContinuationAssumption DEF Standing, GatewayOK, Owning, Acked, Verified
<1>4. Alone(p, Gone) /\ proc' = [proc EXCEPT ![p] = Gone]
  BY GoneIs DEF Alone, Exit
<1>5. QED
  BY <1>1, <1>2, <1>3, <1>4, GoneIs, StepKeeps

\* A process goes on, and the lock with it.
LEMMA GoKeeps ==
    ASSUME BranchInv, RowsKept, Grows, GatewayOK', ClaimsOK', UNCHANGED lock,
           NEW p \in Processes, NEW to, Go(p, to), proc[p].pc # "gone", Follows(proc[p].pc, to)
    PROVE  BranchInv'
<1>1. LockOK'
  BY DEF BranchInv, LockOK
<1>2. proc[p] \in Procs /\ to \in Continuing
  BY DEF BranchInv, ProcsOK, Follows
<1>3. proc' = [proc EXCEPT ![p] = AtStep(proc[p], to)]
  BY GoIs
<1> DEFINE r == AtStep(proc[p], to)
<1>4. r \in Procs /\ r.pc = to /\ r.b = proc[p].b /\ r.resuming = proc[p].resuming
      /\ r.lease = proc[p].lease
  BY <1>2, AtStepIs
<1> HIDE DEF r
<1>5. proc' = [proc EXCEPT ![p] = r]
  BY <1>3 DEF r
<1>6. QED
  BY <1>1, <1>4, <1>5, FollowKeeps

\* A step that is one transaction of the store.
LEMMA StoreKeeps ==
    ASSUME BranchInv, NEW p \in Processes, NEW suffix, NEW payload, NEW can, NEW row,
           NEW next, NEW else, Store(p, suffix, payload, can, row, next, else),
           can => proc[p].b \in Rows \ tombs,
           can /\ branches[proc[p].b].rev < MaxRevision => row \in BranchRows /\ Evident(row),
           proc[p].pc # "gone", Follows(proc[p].pc, next), Follows(proc[p].pc, else)
    PROVE  BranchInv'
<1> DEFINE id == <<proc[p].b, proc[p].op, suffix>>
           done == Outcome(id, payload, can) # "refused"
           to == IF done THEN next ELSE else
           rev == IF done THEN branches'[proc[p].b].rev ELSE proc[p].rev
           r == [proc[p] EXCEPT !.pc = to, !.rev = rev]
<1>1. RowsKept
  <2>1. Transact(id, payload, can, proc[p].b, row)
    BY DEF Store
  <2> HIDE DEF id
  <2>2. QED
    BY <2>1, TransactKeeps DEF BranchInv
<1>2. Quiet
  BY DEF Store, Quiet, gatewayVars
<1>3. CASE to = "gone"
  <2>1. Exit(p)
    BY <1>3 DEF Store
  <2>2. QED
    BY <1>1, <1>2, <2>1, ExitKeeps
<1>4. CASE to # "gone"
  <2>1. proc' = [proc EXCEPT ![p].pc = to, ![p].rev = IF done THEN branches'[proc[p].b].rev ELSE @]
        /\ UNCHANGED lock
    BY <1>4 DEF Store
  <2>2. proc[p] \in Procs /\ proc \in [Processes -> Procs] /\ proc[p].b \in Rows
    BY DEF BranchInv, ProcsOK, Standing
  <2>3. rev \in 0..MaxRevision
    <3>1. proc[p].rev \in 0..MaxRevision
      BY <2>2 DEF Procs
    <3>2. branches'[proc[p].b] \in BranchRows
      BY <1>1, <2>2 DEF RowsKept, BranchesOK, Rows
    <3>3. QED
      BY <3>1, <3>2 DEF BranchRows
  <2>4. proc' = [proc EXCEPT ![p] = r]
    BY <2>1, <2>2
  <2>5. Follows(proc[p].pc, to) /\ to \in Continuing
    BY DEF Follows
  <2> HIDE DEF to, rev, done
  <2>6. r \in Procs /\ r.pc = to /\ r.b = proc[p].b /\ r.resuming = proc[p].resuming
        /\ r.lease = proc[p].lease
    BY <2>2, <2>3, <2>5 DEF Procs
  <2>7. LockOK'
    BY <2>1 DEF BranchInv, LockOK
  <2> HIDE DEF r
  <2>8. QED
    BY <1>1, <1>2, <2>4, <2>5, <2>6, <2>7, QuietKeeps, FollowKeeps
<1>5. QED
  BY <1>3, <1>4

\* A step that moves the status of the branch.
LEMMA StoreMoveKeeps ==
    ASSUME BranchInv, NEW p \in Processes, NEW suffix, NEW status, NEW next, NEW else,
           StoreMove(p, suffix, status, next, else),
           proc[p].pc # "gone", Follows(proc[p].pc, next), Follows(proc[p].pc, else)
    PROVE  BranchInv'
<1> DEFINE can == CanMove(proc[p].b, proc[p].rev, status)
           row == Moved(branches[proc[p].b], status)
           payload == <<proc[p].rev, status>>
<1>1. Store(p, suffix, payload, can, row, next, else)
  BY DEF StoreMove, Row
<1>2. can => proc[p].b \in Rows \ tombs
  BY DEF CanMove, Current
<1>3. can /\ branches[proc[p].b].rev < MaxRevision => row \in BranchRows /\ Evident(row)
  BY MovedIs DEF BranchInv
<1> HIDE DEF can, row, payload
<1>4. QED
  BY <1>1, <1>2, <1>3, StoreKeeps

\* A quiet step of a process that leaves the store alone.
LEMMA QuietGoKeeps ==
    ASSUME BranchInv, UNCHANGED <<storeVars, lock, claims, gatewayVars>>,
           NEW p \in Processes, NEW to, Go(p, to), proc[p].pc # "gone", Follows(proc[p].pc, to)
    PROVE  BranchInv'
<1>1. RowsKept
  BY SameRows DEF storeVars, BranchInv
<1>2. Quiet
  BY DEF Quiet, gatewayVars
<1>3. QED
  BY <1>1, <1>2, QuietKeeps, GoKeeps

\* A process may leave at any time.
LEMMA QuietExitKeeps ==
    ASSUME BranchInv, UNCHANGED <<storeVars, claims, gatewayVars>>, NEW p \in Processes, Exit(p)
    PROVE  BranchInv'
BY SameRows, ExitKeeps DEF storeVars, BranchInv, Quiet, gatewayVars

\* The start of a process.
LEMMA StartKeeps ==
    ASSUME BranchInv, NEW p \in Processes, NEW b \in Rows, NEW resuming \in BOOLEAN,
           Start(p, b, resuming)
    PROVE  BranchInv'
<1> DEFINE half == {[b |-> r, rev |-> branches[r].rev, status |-> branches[r].status] :
                       r \in {r \in Rows : branches[r].status \in HalfCreated}}
           s == [Gone EXCEPT !.pc = "reconcile", !.b = b, !.resuming = resuming, !.todo = half]
<1>1. half \subseteq HalfBranches
  BY DEF BranchInv, BranchesOK, Rows, BranchRows, HalfBranches
<1>2. proc' = [proc EXCEPT ![p] = s]
  BY DEF Start
<1>3. b \in Branches
  BY DEF Rows
<1> HIDE DEF half
<1>4. Gone \in Procs /\ Gone.lease = 0
  BY GoneIs
<1>5. half \in SUBSET HalfBranches /\ "reconcile" \in Continuing
  BY <1>1 DEF Continuing
<1>6. s \in Procs /\ s.pc = "reconcile" /\ s.b = b /\ s.lease = 0
  BY <1>3, <1>4, <1>5 DEF Procs
<1> HIDE DEF s
<1>7. PICK r \in Procs : r = s
  BY <1>6
<1>8. RowsKept /\ Quiet /\ LockOK'
  BY SameRows DEF Start, storeVars, gatewayVars, BranchInv, Quiet, LockOK
<1>9. Grows /\ GatewayOK' /\ ClaimsOK'
  BY <1>8, QuietKeeps
<1>10. r.pc = "reconcile" /\ r.b = b /\ r.lease = 0 /\ b \in Rows' /\ 0 <= epoch'
  BY <1>6, <1>7, <1>8, <1>9, ContinuationAssumption DEF RowsKept, GatewayOK
<1>11. Standing(r)'
  BY <1>10 DEF Standing, Owning, Acked, Verified
<1>12. Alone(p, r) /\ proc' = [proc EXCEPT ![p] = r]
  BY <1>2, <1>7, <1>10 DEF Alone
<1>13. QED
  BY <1>8, <1>9, <1>11, <1>12, StepKeeps

\* reconcile_startup, one half created branch at a time.
LEMMA ReconcileKeeps ==
    ASSUME BranchInv, NEW p \in Processes, Reconcile(p)
    PROVE  BranchInv'
<1>1. PICK x \in proc[p].todo :
        /\ IsAt(p, "reconcile")
        /\ Transact(ReconcileId(x.b), <<x.rev, Resolution(x.status)>>,
                    CanMove(x.b, x.rev, Resolution(x.status)), x.b,
                    Moved(branches[x.b], Resolution(x.status)))
        /\ \/ proc' = [proc EXCEPT ![p].todo = @ \ {x}] /\ UNCHANGED lock
           \/ Exit(p)
        /\ UNCHANGED <<starts, claims, gatewayVars>>
  BY DEF Reconcile
<1>2. RowsKept
  <2> DEFINE status == Resolution(x.status)
             can == CanMove(x.b, x.rev, status)
             row == Moved(branches[x.b], status)
  <2>1. can => x.b \in Rows \ tombs
    BY DEF CanMove, Current
  <2>2. can /\ branches[x.b].rev < MaxRevision => row \in BranchRows /\ Evident(row)
    <3> HIDE DEF status
    <3>1. QED
      BY MovedIs DEF BranchInv
  <2>3. Transact(ReconcileId(x.b), <<x.rev, status>>, can, x.b, row)
    BY <1>1
  <2> HIDE DEF status, can, row
  <2>4. QED
    BY <2>1, <2>2, <2>3, TransactKeeps DEF BranchInv
<1>3. Quiet
  BY <1>1 DEF Quiet, gatewayVars
<1>4. CASE proc' = [proc EXCEPT ![p].todo = @ \ {x}] /\ UNCHANGED lock
  <2> DEFINE r == [proc[p] EXCEPT !.todo = proc[p].todo \ {x}]
  <2>1. proc[p] \in Procs /\ proc \in [Processes -> Procs] /\ proc[p].pc = "reconcile"
    BY <1>1 DEF BranchInv, ProcsOK, IsAt
  <2>2. proc' = [proc EXCEPT ![p] = r]
    BY <1>4, <2>1
  <2>3. r \in Procs /\ r.pc = "reconcile" /\ r.b = proc[p].b /\ r.resuming = proc[p].resuming
        /\ r.lease = proc[p].lease
    BY <2>1 DEF Procs
  <2>4. Follows("reconcile", "reconcile")
    BY DEF Follows, Continuing
  <2>5. LockOK'
    BY <1>4 DEF BranchInv, LockOK
  <2> HIDE DEF r
  <2>6. QED
    BY <1>2, <1>3, <2>1, <2>2, <2>3, <2>4, <2>5, QuietKeeps, FollowKeeps
<1>5. CASE Exit(p)
  BY <1>2, <1>3, <1>5, ExitKeeps
<1>6. QED
  BY <1>1, <1>4, <1>5

\* The admission of the selected branch, to begin it or to resume it.
LEMMA LoadKeeps ==
    ASSUME BranchInv, NEW p \in Processes, Load(p) \/ LoadForResume(p)
    PROVE  BranchInv'
<1> DEFINE old == proc[p]
<1>1. old \in Procs /\ proc \in [Processes -> Procs] /\ old.pc = "reconcile" /\ old.b \in Rows
  BY DEF Load, LoadForResume, StartupDone, IsAt, BranchInv, ProcsOK, Standing
<1>2. Row(p) \in BranchRows /\ Row(p).rev \in 0..MaxRevision
  BY <1>1 DEF BranchInv, BranchesOK, Rows, Row, BranchRows
<1>3. claims[old.b].state \in ClaimStates
  BY <1>1 DEF BranchInv, GatewayOK, Rows
<1>4. LoadForResume(p) /\ Exact(p) => FirstClaim(old.b) \in 0..MaxRevision
  BY FirstClaimIs DEF LoadForResume, Resumable
<1>5. \E rev \in 0..MaxRevision, op \in 0..MaxRevision, memory \in ClaimStates :
        proc' = [proc EXCEPT ![p] = [old EXCEPT !.pc = "prepare", !.rev = rev, !.op = op,
                                                !.memory = memory]]
  <2>1. CASE Load(p)
    <3>1. old.memory \in ClaimStates /\ Row(p).rev \in 0..MaxRevision
      BY <1>1, <1>2 DEF Procs
    <3>2. [old EXCEPT !.pc = "prepare", !.rev = Row(p).rev, !.op = Row(p).rev]
            = [old EXCEPT !.pc = "prepare", !.rev = Row(p).rev, !.op = Row(p).rev,
                          !.memory = old.memory]
      BY <1>1 DEF Procs
    <3>3. proc' = [proc EXCEPT ![p] =
                     [old EXCEPT !.pc = "prepare", !.rev = Row(p).rev, !.op = Row(p).rev]]
      BY <1>1, <2>1 DEF Load
    <3>4. PICK rev \in 0..MaxRevision, memory \in ClaimStates :
             rev = Row(p).rev /\ memory = old.memory
      BY <3>1
    <3>5. proc' = [proc EXCEPT ![p] = [old EXCEPT !.pc = "prepare", !.rev = rev, !.op = rev,
                                                  !.memory = memory]]
      BY <3>2, <3>3, <3>4
    <3>6. QED
      BY <3>5
  <2>2. CASE LoadForResume(p)
    <3> DEFINE op == IF Exact(p) THEN FirstClaim(old.b) ELSE Row(p).rev
    <3>1. op \in 0..MaxRevision
      BY <1>2, <1>4, <2>2
    <3>2. proc' = [proc EXCEPT ![p].pc = "prepare", ![p].rev = Row(p).rev,
                               ![p].op = op, ![p].memory = claims[old.b].state]
      BY <2>2 DEF LoadForResume
    <3> HIDE DEF op
    <3>3. proc' = [proc EXCEPT ![p] = [old EXCEPT !.pc = "prepare", !.rev = Row(p).rev,
                                                  !.op = op, !.memory = claims[old.b].state]]
      BY <1>1, <3>2
    <3>4. QED
      BY <1>2, <1>3, <3>1, <3>3
  <2>3. QED
    BY <2>1, <2>2
<1>6. PICK rev \in 0..MaxRevision, op \in 0..MaxRevision, memory \in ClaimStates :
        proc' = [proc EXCEPT ![p] = [old EXCEPT !.pc = "prepare", !.rev = rev, !.op = op,
                                                !.memory = memory]]
  BY <1>5
<1> DEFINE r == [old EXCEPT !.pc = "prepare", !.rev = rev, !.op = op, !.memory = memory]
<1>7. r \in Procs /\ r.pc = "prepare" /\ r.b = old.b /\ r.resuming = old.resuming
      /\ r.lease = old.lease
  BY <1>1 DEF Procs, Continuing
<1>8. RowsKept /\ Quiet
  BY SameRows DEF Load, LoadForResume, storeVars, gatewayVars, BranchInv, Quiet
<1>9. LockOK'
  BY DEF Load, LoadForResume, BranchInv, LockOK
<1>10. Follows("reconcile", "prepare")
  BY DEF Follows, Continuing, Owning, Acked, Verified
<1>11. proc' = [proc EXCEPT ![p] = r]
  BY <1>6
<1> HIDE DEF r
<1>12. QED
  BY <1>1, <1>7, <1>8, <1>9, <1>10, <1>11, QuietKeeps, FollowKeeps

\* What a process holds is its branch, at most its own lease, and no other's.
LEMMA OwnLeaseAlone ==
    ASSUME BranchInv, NEW p \in Processes, NEW r, r.resuming = proc[p].resuming,
           r.lease \in {0, proc[p].lease}
    PROVE  Alone(p, r)
BY DEF BranchInv, Apart, Alone

\* What the invariant says of a process that is there.
LEMMA Present ==
    ASSUME BranchInv, NEW p \in Processes, proc[p].pc # "gone"
    PROVE  /\ proc \in [Processes -> Procs] /\ proc[p] \in Procs /\ Standing(proc[p])
           /\ proc[p].b \in Rows /\ proc[p].b \in Branches
           /\ claims[proc[p].b].state \in ClaimStates
           /\ claims[proc[p].b].owner \in 0..MaxLeases
BY DEF BranchInv, ProcsOK, Standing, Rows, GatewayOK

\* A change of the claim and of the grant of one branch.
LEMMA ClaimChanges ==
    ASSUME BranchInv, NEW b \in Branches, NEW c \in [state : ClaimStates, owner : 0..MaxLeases],
           NEW g \in 0..MaxLeases,
           claims' = [claims EXCEPT ![b] = c], granted' = [granted EXCEPT ![b] = g],
           UNCHANGED <<hosts, commits, epoch>>,
           claims[b].owner # 0 => c.owner = claims[b].owner,
           granted[b] # 0 => g = granted[b],
           g # 0 => c.owner = g,
           c.state \in {"claimed", "boundary_verified", "resuming"} => g = c.owner,
           c.state \in {"boundary_verified", "resuming"} \/ commits[b] # 0 =>
               c.owner # 0 /\ hosts[c.owner] # "blank"
    PROVE  /\ Grows /\ ClaimsOK'
           /\ claims' \in [Branches -> [state : ClaimStates, owner : 0..MaxLeases]]
           /\ granted' \in [Branches -> 0..MaxLeases]
<1>1. /\ claims \in [Branches -> [state : ClaimStates, owner : 0..MaxLeases]]
      /\ granted \in [Branches -> 0..MaxLeases] /\ epoch \in Nat
  BY ContinuationAssumption DEF BranchInv, GatewayOK
<1>2. /\ claims'[b] = c /\ granted'[b] = g
      /\ \A a \in Branches : a # b => claims'[a] = claims[a] /\ granted'[a] = granted[a]
  BY <1>1
<1>3. Grows
  BY <1>1, <1>2 DEF Grows
<1>4. ClaimAcknowledged'
  BY <1>2 DEF BranchInv, ClaimsOK, ClaimAcknowledged
<1>5. ClaimsOK'
  BY <1>2, <1>4 DEF BranchInv, ClaimsOK
<1>6. QED
  BY <1>1, <1>3, <1>5

\* A change of the state of a claim.
LEMMA StateMoves ==
    ASSUME BranchInv, NEW b \in Branches, NEW to \in ClaimStates,
           claims' = claims \/ claims' = [claims EXCEPT ![b].state = to],
           UNCHANGED <<granted, hosts, commits, epoch>>,
           to \in {"claimed", "boundary_verified", "resuming"} => granted[b] = claims[b].owner,
           to \in {"boundary_verified", "resuming"} =>
               claims[b].owner # 0 /\ hosts[claims[b].owner] # "blank"
    PROVE  /\ Grows /\ ClaimsOK'
           /\ claims' \in [Branches -> [state : ClaimStates, owner : 0..MaxLeases]]
           /\ granted' \in [Branches -> 0..MaxLeases]
<1>1. CASE claims' = claims
  BY <1>1, ContinuationAssumption DEF BranchInv, GatewayOK, ClaimsOK, ClaimAcknowledged, Grows
<1>2. CASE claims' = [claims EXCEPT ![b].state = to]
  <2> DEFINE c == [claims[b] EXCEPT !.state = to]
             g == granted[b]
  <2>1. /\ claims \in [Branches -> [state : ClaimStates, owner : 0..MaxLeases]]
        /\ granted \in [Branches -> 0..MaxLeases]
    BY DEF BranchInv, GatewayOK
  <2>2. /\ claims' = [claims EXCEPT ![b] = c] /\ granted' = [granted EXCEPT ![b] = g]
        /\ g \in 0..MaxLeases
    BY <1>2, <2>1
  <2>3. /\ c \in [state : ClaimStates, owner : 0..MaxLeases]
        /\ c.state = to /\ c.owner = claims[b].owner
    BY <2>1
  <2>4. g # 0 => c.owner = g
    BY <2>3 DEF BranchInv, ClaimsOK, ClaimAcknowledged
  <2>5. commits[b] # 0 => c.owner # 0 /\ hosts[c.owner] # "blank"
    BY <2>3 DEF BranchInv, ClaimsOK
  <2> HIDE DEF c
  <2>6. QED
    BY <2>2, <2>3, <2>4, <2>5, ClaimChanges
<1>3. QED
  BY <1>1, <1>2

\* release_lease_inner and the step to mark_failed.
LEMMA ReleaseKeeps ==
    ASSUME BranchInv, NEW p \in Processes, proc[p].pc # "gone", ReleaseAndFail(p),
           Grows, ClaimsOK',
           claims' \in [Branches -> [state : ClaimStates, owner : 0..MaxLeases]],
           granted' \in [Branches -> 0..MaxLeases]
    PROVE  BranchInv'
<1> DEFINE r == [proc[p] EXCEPT !.pc = "failing", !.lease = 0]
<1>1. proc' = [proc EXCEPT ![p] = r]
  BY Present DEF ReleaseAndFail
<1>2. r \in Procs /\ r.pc = "failing" /\ r.lease = 0 /\ r.b = proc[p].b
      /\ r.resuming = proc[p].resuming
  <2>1. proc[p] \in Procs /\ 0 \in 0..MaxLeases /\ "failing" \in Continuing
    BY Present, ContinuationAssumption DEF Continuing
  <2>2. QED
    BY <2>1 DEF Procs
<1> HIDE DEF r
<1>3. leases' \in [Instances -> 0..MaxLeases] /\ \A i \in Instances : leases'[i] <= epoch
  <2>1. /\ leases \in [Instances -> 0..MaxLeases] /\ \A i \in Instances : leases[i] <= epoch
        /\ MaxLeases \in Nat /\ epoch \in Nat
    BY ContinuationAssumption DEF BranchInv, GatewayOK
  <2>2. \/ leases' = leases
        \/ leases' = [i \in Instances |-> IF leases[i] = proc[p].lease THEN 0 ELSE leases[i]]
    BY DEF ReleaseAndFail
  <2>3. QED
    BY <2>1, <2>2
<1>4. GatewayOK'
  BY <1>3 DEF ReleaseAndFail, BranchInv, GatewayOK
<1>5. RowsKept /\ LockOK'
  BY SameRows DEF ReleaseAndFail, storeVars, BranchInv, LockOK
<1>6. PICK s \in Procs : s = r
  BY <1>2
<1>7. s.b \in Rows' /\ 0 <= epoch'
  BY <1>2, <1>4, <1>5, <1>6, Present, ContinuationAssumption DEF RowsKept, GatewayOK
<1>8. Standing(s)'
  BY <1>2, <1>6, <1>7 DEF Standing, Owning, Acked, Verified
<1>9. Alone(p, s)
  BY <1>2, <1>6, OwnLeaseAlone
<1>10. QED
  BY <1>1, <1>4, <1>5, <1>6, <1>8, <1>9, StepKeeps

\* The preparation of the owner claim.
LEMMA PrepareRowKeeps ==
    ASSUME BranchInv, NEW p \in Processes, PrepareOwnerClaim(p)
    PROVE  BranchInv'
<1> DEFINE b == proc[p].b
<1>1. proc[p].pc = "prepare" /\ b \in Branches /\ b \in Rows /\ proc[p] \in Procs
      /\ proc \in [Processes -> Procs] /\ Standing(proc[p])
  BY Present DEF PrepareOwnerClaim, IsAt
<1>2. /\ claims' = claims \/ claims' = [claims EXCEPT ![b].state = "prepared"]
      /\ UNCHANGED <<storeVars, lock, gatewayVars>>
  BY DEF PrepareOwnerClaim
<1>3. /\ Grows /\ ClaimsOK'
      /\ claims' \in [Branches -> [state : ClaimStates, owner : 0..MaxLeases]]
  <2>1. "prepared" \in ClaimStates
    BY DEF ClaimStates
  <2>2. QED
    BY <1>1, <1>2, <2>1, StateMoves DEF gatewayVars
<1>4. GatewayOK'
  BY <1>2, <1>3 DEF BranchInv, GatewayOK, gatewayVars
<1>5. RowsKept /\ LockOK'
  BY <1>2, SameRows DEF storeVars, BranchInv, LockOK
<1>6. PICK memory \in ClaimStates, to \in {"claim_resume", "check_ready", "allocate"} :
        /\ to = "claim_resume" => proc[p].resuming
        /\ proc' = [proc EXCEPT ![p] = [proc[p] EXCEPT !.memory = memory, !.pc = to]]
  <2>1. claims'[b].state \in ClaimStates
    BY <1>1, <1>3
  <2>2. PICK memory \in ClaimStates : memory = claims'[b].state
    BY <2>1
  <2>3. PICK to \in {"claim_resume", "check_ready", "allocate"} :
          to = IF proc[p].resuming THEN "claim_resume"
               ELSE IF Exact(p) THEN "check_ready" ELSE "allocate"
    OBVIOUS
  <2>4. proc' = [proc EXCEPT ![p].memory = memory, ![p].pc = to]
    BY <2>2, <2>3 DEF PrepareOwnerClaim
  <2>5. QED
    BY <1>1, <2>3, <2>4
<1> DEFINE r == [proc[p] EXCEPT !.memory = memory, !.pc = to]
<1>7. /\ r \in Procs /\ r.pc = to /\ r.b = b /\ r.resuming = proc[p].resuming
      /\ r.lease = proc[p].lease
  BY <1>1 DEF Procs, Continuing
<1>8. proc' = [proc EXCEPT ![p] = r]
  BY <1>6
<1> HIDE DEF r
<1>9. PICK s \in Procs : s = r
  BY <1>7
<1>10. Standing(s)
  BY <1>1, <1>6, <1>7, <1>9 DEF Standing, Owning, Acked, Verified
<1>11. Standing(s)'
  BY <1>3, <1>4, <1>5, <1>10, StandingStays DEF RowsKept
<1>12. Alone(p, s)
  BY <1>7, <1>9, OwnLeaseAlone
<1>13. QED
  BY <1>3, <1>4, <1>5, <1>8, <1>9, <1>11, <1>12, StepKeeps

\* The steps of the table a process may go, claims and gateway aside.
LEMMA FollowsTable ==
    /\ Follows("check_ready", "claim_restore") /\ Follows("claim_restore", "allocate")
    /\ Follows("adopt", "failing") /\ Follows("allocate", "failing")
    /\ \A from \in Continuing : Follows(from, "failing") /\ Follows(from, "unknowing")
                                  /\ Follows(from, "gone")
    /\ Follows("attach", "assure") /\ Follows("assure", "ready")
    /\ Follows("ready", "boundary") /\ Follows("ready", "run")
    /\ Follows("boundary", "run") /\ Follows("boundary", "playing")
    /\ Follows("run", "boundary") /\ Follows("run", "playing")
    /\ Follows("replay_claim", "replay")
    /\ Follows("owner_claim", "owner_claim")
    /\ Follows("record_claim", "restore") /\ Follows("record_claim", "replay_claim")
    /\ Follows("restore", "failing")
BY DEF Follows, Continuing, Owning, Acked, Verified

\* The first claim of the store.
LEMMA ClaimRestoreKeeps ==
    ASSUME BranchInv, NEW p \in Processes, CheckReady(p) \/ ClaimExactRestore(p)
    PROVE  BranchInv'
<1>1. CASE CheckReady(p)
  <2>1. proc[p].pc = "check_ready" /\ UNCHANGED <<storeVars, claims, gatewayVars>>
        /\ ((Go(p, "claim_restore") /\ UNCHANGED lock) \/ Exit(p))
    BY <1>1 DEF CheckReady, IsAt
  <2>2. QED
    BY <2>1, FollowsTable, QuietGoKeeps, QuietExitKeeps
<1>2. CASE ClaimExactRestore(p)
  <2>1. proc[p].pc = "claim_restore" /\ "claim_restore" \in Continuing
        /\ StoreMove(p, "claim-restore", "restoring", "allocate", "gone")
    BY <1>2 DEF ClaimExactRestore, IsAt, Continuing
  <2>2. QED
    BY <2>1, FollowsTable, StoreMoveKeeps
<1>3. QED
  BY <1>1, <1>2

\* A process that resumes a branch claims it and adopts its owner.
LEMMA ClaimResumeKeeps ==
    ASSUME BranchInv, NEW p \in Processes, ClaimResume(p)
    PROVE  BranchInv'
<1> DEFINE b == proc[p].b
<1>1. proc[p].pc = "claim_resume" /\ UNCHANGED <<storeVars, gatewayVars>>
  BY DEF ClaimResume, IsAt
<1>2. /\ proc[p] \in Procs /\ proc \in [Processes -> Procs] /\ b \in Branches
      /\ Standing(proc[p]) /\ proc[p].resuming
  BY <1>1, Present DEF Standing
<1>3. CASE UNCHANGED claims /\ Exit(p)
  BY <1>1, <1>3, QuietExitKeeps
<1>4. CASE /\ proc[p].memory \in {"boundary_verified", "resuming"}
           /\ ClaimMove(b, proc[p].memory, "resuming")
           /\ Go(p, "adopt") /\ UNCHANGED lock
  <2>1. /\ claims[b].state \in {"boundary_verified", "resuming"}
        /\ claims' = [claims EXCEPT ![b].state = "resuming"]
    BY <1>4 DEF ClaimMove
  <2>2. /\ granted[b] = claims[b].owner
        /\ claims[b].owner # 0 /\ hosts[claims[b].owner] # "blank"
    BY <1>2, <2>1 DEF BranchInv, ClaimsOK, ClaimAcknowledged
  <2>3. /\ Grows /\ ClaimsOK'
        /\ claims' \in [Branches -> [state : ClaimStates, owner : 0..MaxLeases]]
    <3>1. "resuming" \in ClaimStates
      BY DEF ClaimStates
    <3>2. QED
      BY <1>1, <1>2, <2>1, <2>2, <3>1, StateMoves DEF gatewayVars
  <2>4. GatewayOK'
    BY <1>1, <2>3 DEF BranchInv, GatewayOK, gatewayVars
  <2>5. RowsKept /\ LockOK'
    BY <1>1, <1>4, SameRows DEF storeVars, BranchInv, LockOK
  <2>6. proc' = [proc EXCEPT ![p] = AtStep(proc[p], "adopt")]
    BY <1>4, GoIs
  <2>7. "adopt" \in Continuing
    BY DEF Continuing
  <2>8. PICK s \in Procs : s = AtStep(proc[p], "adopt")
    BY <1>2, <2>7, AtStepIs
  <2>9. s.pc = "adopt" /\ s.b = b /\ s.resuming = proc[p].resuming /\ s.lease = proc[p].lease
    BY <1>2, <2>7, <2>8, AtStepIs
  <2>10. Standing(s)
    BY <1>1, <1>2, <2>9 DEF Standing, Owning, Acked, Verified
  <2>11. Standing(s)'
    BY <2>3, <2>4, <2>5, <2>10, StandingStays DEF RowsKept
  <2>12. Alone(p, s)
    BY <2>9, OwnLeaseAlone
  <2>13. QED
    BY <2>3, <2>4, <2>5, <2>6, <2>8, <2>11, <2>12, StepKeeps
<1>5. QED
  BY <1>3, <1>4 DEF ClaimResume

\* A resumed process takes over the owner the gateway acknowledged.
LEMMA AdoptKeeps ==
    ASSUME BranchInv, NEW p \in Processes, AdoptCurrentOwner(p)
    PROVE  BranchInv'
<1> DEFINE b == proc[p].b
           o == claims[b].owner
           r == [proc[p] EXCEPT !.pc = "playing", !.lease = o]
<1>1. /\ proc[p].pc = "adopt" /\ claims[b].state = "resuming" /\ granted[b] = o
      /\ \E i \in Instances : leases[i] = o
      /\ proc' = [proc EXCEPT ![p].pc = "playing", ![p].lease = o]
      /\ UNCHANGED <<storeVars, lock, claims, gatewayVars>>
  BY DEF AdoptCurrentOwner, IsAt
<1>2. /\ proc[p] \in Procs /\ proc \in [Processes -> Procs] /\ b \in Branches /\ b \in Rows
      /\ proc[p].resuming /\ o \in 0..MaxLeases /\ "playing" \in Continuing
  BY <1>1, Present DEF Standing, Continuing
<1>3. o # 0 /\ hosts[o] # "blank"
  BY <1>1, <1>2 DEF BranchInv, ClaimsOK
<1>4. o <= epoch
  BY <1>1 DEF BranchInv, GatewayOK
<1>5. proc' = [proc EXCEPT ![p] = r]
  BY <1>1, <1>2
<1> HIDE DEF o
<1>6. r \in Procs /\ r.pc = "playing" /\ r.lease = o /\ r.b = b /\ r.resuming = proc[p].resuming
  BY <1>2 DEF Procs
<1> HIDE DEF r
<1>7. PICK s \in Procs : s = r
  BY <1>6
<1>8. RowsKept /\ LockOK' /\ Quiet
  BY <1>1, SameRows DEF storeVars, BranchInv, LockOK, Quiet, gatewayVars
<1>9. Grows /\ GatewayOK' /\ ClaimsOK'
  BY <1>8, QuietKeeps
<1>10. Standing(s)
  BY <1>1, <1>2, <1>3, <1>4, <1>6, <1>7 DEF Standing, o
<1>11. Standing(s)'
  BY <1>8, <1>9, <1>10, StandingStays DEF RowsKept
<1>12. Alone(p, s)
  BY <1>2, <1>6, <1>7 DEF Alone
<1>13. QED
  BY <1>5, <1>7, <1>8, <1>9, <1>11, <1>12, StepKeeps

\* The gateway hands out a new lease, or one that nobody holds.
LEMMA AllocateKeeps ==
    ASSUME BranchInv, NEW p \in Processes, NEW i \in Instances, Allocate(p, i)
    PROVE  BranchInv'
<1> DEFINE o == leases'[i]
           r == [proc[p] EXCEPT !.pc = "owner", !.lease = o]
<1>1. /\ proc[p].pc = "allocate" /\ proc' = [proc EXCEPT ![p].pc = "owner", ![p].lease = o]
      /\ UNCHANGED <<storeVars, lock, claims, granted, hosts, commits>>
  BY DEF Allocate, IsAt
<1>2. /\ proc[p] \in Procs /\ proc \in [Processes -> Procs] /\ proc[p].b \in Rows
      /\ "owner" \in Continuing
  BY <1>1, Present DEF Continuing
<1>3. /\ leases \in [Instances -> 0..MaxLeases] /\ \A j \in Instances : leases[j] <= epoch
      /\ epoch \in Nat /\ MaxLeases \in Nat /\ epoch <= MaxLeases
  BY ContinuationAssumption DEF BranchInv, GatewayOK
<1>4. /\ leases' \in [Instances -> 0..MaxLeases] /\ \A j \in Instances : leases'[j] <= epoch'
      /\ epoch' \in 0..MaxLeases /\ epoch <= epoch'
      /\ o # 0 /\ o \in 0..MaxLeases /\ o <= epoch'
      /\ \A q \in Processes : proc[q].lease # o
  <2>1. CASE leases[i] = 0 /\ epoch < MaxLeases /\ epoch' = epoch + 1
             /\ leases' = [leases EXCEPT ![i] = epoch + 1]
    <3>1. o = epoch + 1
      BY <1>3, <2>1
    <3>2. ASSUME NEW q \in Processes PROVE proc[q].lease # o
      <4>1. proc[q].lease <= epoch /\ proc[q].lease \in Nat
        BY ContinuationAssumption DEF BranchInv, ProcsOK, Standing, Procs
      <4>2. QED
        BY <1>3, <3>1, <4>1
    <3>3. QED
      BY <1>3, <2>1, <3>1, <3>2
  <2>2. CASE leases[i] # 0 /\ ~LeaseHeld(leases[i]) /\ UNCHANGED <<epoch, leases>>
    BY <1>3, <2>2 DEF LeaseHeld
  <2>3. QED
    BY <2>1, <2>2 DEF Allocate
<1>5. proc' = [proc EXCEPT ![p] = r]
  BY <1>1, <1>2
<1> HIDE DEF o
<1>6. r \in Procs /\ r.pc = "owner" /\ r.lease = o /\ r.b = proc[p].b
  BY <1>2, <1>4 DEF Procs
<1> HIDE DEF r
<1>7. PICK s \in Procs : s = r
  BY <1>6
<1>8. RowsKept /\ LockOK'
  BY <1>1, SameRows DEF storeVars, BranchInv, LockOK
<1>9. GatewayOK'
  BY <1>1, <1>4 DEF BranchInv, GatewayOK
<1>10. Grows /\ ClaimsOK'
  BY <1>1, <1>4 DEF BranchInv, Grows, ClaimsOK, ClaimAcknowledged
<1>11. Standing(s)'
  BY <1>2, <1>4, <1>6, <1>7, <1>8 DEF Standing, RowsKept, Owning, Acked, Verified
<1>12. Alone(p, s)
  BY <1>4, <1>6, <1>7 DEF Alone
<1>13. QED
  BY <1>5, <1>7, <1>8, <1>9, <1>10, <1>11, <1>12, StepKeeps

\* The lease of a process that is gone runs out.
LEMMA ExpireKeeps ==
    ASSUME BranchInv, NEW i \in Instances, Expire(i)
    PROVE  BranchInv'
<1>1. /\ leases' = [leases EXCEPT ![i] = 0]
      /\ UNCHANGED <<storeVars, proc, lock, claims, granted, epoch, hosts, commits>>
  BY DEF Expire
<1>2. GatewayOK'
  <2>1. 0 \in 0..MaxLeases /\ epoch \in Nat
    BY ContinuationAssumption DEF BranchInv, GatewayOK
  <2>2. QED
    BY <1>1, <2>1 DEF BranchInv, GatewayOK
<1>3. BranchesOK' /\ ClaimsOK' /\ LockOK' /\ ProcsOK' /\ Apart'
  BY <1>1 DEF BranchInv, BranchesOK, ClaimsOK, ClaimAcknowledged, LockOK, ProcsOK, Apart, Standing,
              Rows, ReadyAssured, storeVars
<1>4. QED
  BY <1>2, <1>3 DEF BranchInv

\* A process that has the lease of its branch goes on with it: it keeps its branch and
\* its lease, and claims, gateway and host have grown into what the next step relies on.
LEMMA OwnerGoes ==
    ASSUME BranchInv, UNCHANGED <<storeVars, lock>>, Grows, GatewayOK', ClaimsOK',
           NEW p \in Processes, proc[p].pc # "gone", NEW r \in Procs,
           proc' = [proc EXCEPT ![p] = r],
           r.b = proc[p].b, r.resuming = proc[p].resuming, r.lease = proc[p].lease,
           r.pc \in Owning, r.lease # 0, claims'[r.b].owner = r.lease,
           r.pc \in Acked => granted'[r.b] = r.lease,
           r.pc \in Verified => hosts'[r.lease] # "blank"
    PROVE  BranchInv'
<1>1. RowsKept /\ LockOK'
  BY SameRows DEF storeVars, BranchInv, LockOK
<1>2. proc[p] \in Procs /\ proc[p].b \in Rows /\ proc[p].lease <= epoch
  BY Present DEF Standing
<1>3. r.lease <= epoch'
  <2>1. r.lease \in Nat /\ epoch \in Nat /\ epoch' \in Nat /\ epoch <= epoch'
    BY ContinuationAssumption DEF BranchInv, GatewayOK, Procs, Grows
  <2>2. QED
    BY <1>2, <2>1
<1>4. Standing(r)'
  BY <1>1, <1>2, <1>3 DEF Standing, RowsKept, Owning, Acked, Verified
<1>5. Alone(p, r)
  BY OwnLeaseAlone
<1>6. QED
  BY <1>1, <1>4, <1>5, StepKeeps

\* The lease of a process that owns is the durable owner of its branch.
LEMMA OwnerIs ==
    ASSUME BranchInv, NEW p \in Processes, proc[p].pc \in Owning
    PROVE  /\ proc[p].pc # "gone" /\ proc[p].lease \in 1..MaxLeases
           /\ claims[proc[p].b].owner = proc[p].lease /\ proc[p].lease # 0
           /\ proc[p].pc \in Acked => granted[proc[p].b] = proc[p].lease
           /\ proc[p].pc \in Verified => hosts[proc[p].lease] # "blank"
<1>1. proc[p] \in Procs /\ Standing(proc[p])
  BY DEF BranchInv, ProcsOK
<1>2. proc[p].lease \in 1..MaxLeases
  BY <1>1, ContinuationAssumption DEF Standing, Procs
<1>3. QED
  BY <1>1, <1>2 DEF Standing, Owning, Acked, Verified

\* The owner that is current is recorded, or is the one recorded.
LEMMA SnapshotKeeps ==
    ASSUME BranchInv, NEW p \in Processes, SnapshotOwner(p)
    PROVE  BranchInv'
<1> DEFINE b == proc[p].b
           c == [state |-> "owner_snapshotted", owner |-> proc[p].lease]
           r == [proc[p] EXCEPT !.pc = "owner_claim", !.seen = "owner_snapshotted"]
<1>1. /\ proc[p].pc = "owner" /\ claims[b].owner = 0 /\ claims' = [claims EXCEPT ![b] = c]
      /\ proc' = [proc EXCEPT ![p].pc = "owner_claim", ![p].seen = "owner_snapshotted"]
      /\ UNCHANGED <<storeVars, lock, gatewayVars>>
  BY DEF SnapshotOwner, IsAt
<1>2. /\ proc[p] \in Procs /\ proc \in [Processes -> Procs] /\ b \in Branches
      /\ proc[p].lease # 0 /\ proc[p].lease \in 0..MaxLeases
      /\ "owner_claim" \in Continuing /\ "owner_snapshotted" \in ClaimStates
  BY <1>1, Present DEF Standing, Procs, Continuing, ClaimStates
<1>3. c \in [state : ClaimStates, owner : 0..MaxLeases] /\ c.owner = proc[p].lease
      /\ c.state = "owner_snapshotted"
  BY <1>2
<1>4. granted[b] = 0 /\ commits[b] = 0 /\ 0 \in 0..MaxLeases
      /\ granted' = [granted EXCEPT ![b] = 0]
  BY <1>1, <1>2, ContinuationAssumption
  DEF BranchInv, ClaimsOK, ClaimAcknowledged, GatewayOK, gatewayVars
<1> HIDE DEF c
<1>5. /\ Grows /\ ClaimsOK'
      /\ claims' \in [Branches -> [state : ClaimStates, owner : 0..MaxLeases]]
  BY <1>1, <1>2, <1>3, <1>4, ClaimChanges DEF gatewayVars
<1>6. GatewayOK' /\ claims'[b].owner = proc[p].lease
  BY <1>1, <1>2, <1>3, <1>5 DEF BranchInv, GatewayOK, gatewayVars
<1>7. proc' = [proc EXCEPT ![p] = r]
  BY <1>1, <1>2
<1>8. r \in Procs /\ r.pc = "owner_claim" /\ r.b = b /\ r.resuming = proc[p].resuming
      /\ r.lease = proc[p].lease
  BY <1>2 DEF Procs
<1> HIDE DEF r
<1>9. "owner_claim" \in Owning /\ "owner_claim" \notin Acked /\ "owner_claim" \notin Verified
  BY DEF Owning, Acked, Verified
<1>10. /\ r.pc \in Owning /\ r.pc \notin Acked /\ r.pc \notin Verified
       /\ r.lease # 0 /\ claims'[r.b].owner = r.lease /\ proc[p].pc # "gone"
       /\ UNCHANGED <<storeVars, lock>>
  BY <1>1, <1>2, <1>6, <1>8, <1>9
<1>11. QED
  BY <1>5, <1>6, <1>7, <1>8, <1>10, OwnerGoes

\* A process that finds itself the durable owner asks for the acknowledgement.
LEMMA KnownKeeps ==
    ASSUME BranchInv, NEW p \in Processes, KnownOwner(p)
    PROVE  BranchInv'
<1> DEFINE b == proc[p].b
           seen == claims[b].state
           r == [proc[p] EXCEPT !.pc = "owner_claim", !.seen = seen]
<1>1. /\ proc[p].pc = "owner" /\ claims[b].owner = proc[p].lease
      /\ proc' = [proc EXCEPT ![p].pc = "owner_claim", ![p].seen = seen]
      /\ UNCHANGED <<storeVars, lock, claims, gatewayVars>>
  BY DEF KnownOwner, IsAt, SameOwner
<1>2. /\ proc[p] \in Procs /\ proc \in [Processes -> Procs] /\ proc[p].lease # 0
      /\ "owner_claim" \in Continuing /\ seen \in ClaimStates
  BY <1>1, Present DEF Standing, Continuing
<1>3. Grows /\ GatewayOK' /\ ClaimsOK' /\ claims'[b].owner = proc[p].lease
  BY <1>1, QuietKeeps DEF Quiet, gatewayVars
<1>4. proc' = [proc EXCEPT ![p] = r]
  BY <1>1, <1>2
<1> HIDE DEF seen
<1>5. r \in Procs /\ r.pc = "owner_claim" /\ r.b = b /\ r.resuming = proc[p].resuming
      /\ r.lease = proc[p].lease
  BY <1>2 DEF Procs
<1> HIDE DEF r
<1>6. "owner_claim" \in Owning /\ "owner_claim" \notin Acked /\ "owner_claim" \notin Verified
  BY DEF Owning, Acked, Verified
<1>7. /\ r.pc \in Owning /\ r.pc \notin Acked /\ r.pc \notin Verified
      /\ r.lease # 0 /\ claims'[r.b].owner = r.lease /\ proc[p].pc # "gone"
      /\ UNCHANGED <<storeVars, lock>>
  BY <1>1, <1>2, <1>3, <1>5, <1>6
<1>8. QED
  BY <1>3, <1>4, <1>5, <1>7, OwnerGoes

\* A process with its lease goes to another step, and nothing else changes of it.
LEMMA OwnerSteps ==
    ASSUME BranchInv, UNCHANGED <<storeVars, lock>>, Grows, GatewayOK', ClaimsOK',
           NEW p \in Processes, proc[p].pc # "gone", NEW to \in Owning, Go(p, to),
           proc[p].lease # 0, claims'[proc[p].b].owner = proc[p].lease,
           to \in Acked => granted'[proc[p].b] = proc[p].lease,
           to \in Verified => hosts'[proc[p].lease] # "blank"
    PROVE  BranchInv'
<1>1. proc[p] \in Procs /\ to \in Continuing
  BY Present DEF Owning, Acked, Verified, Continuing
<1> DEFINE r == AtStep(proc[p], to)
<1>2. proc' = [proc EXCEPT ![p] = r]
  BY GoIs
<1>3. r \in Procs /\ r.pc = to /\ r.b = proc[p].b /\ r.resuming = proc[p].resuming
      /\ r.lease = proc[p].lease
  BY <1>1, AtStepIs
<1> HIDE DEF r
<1>4. QED
  BY <1>2, <1>3, OwnerGoes

\* A process whose owner was acknowledged goes on as its branch was made.
LEMMA AcknowledgedKeeps ==
    ASSUME BranchInv, NEW p \in Processes, AcknowledgedOwner(p)
    PROVE  BranchInv'
<1>1. /\ proc[p].pc = "owner" /\ claims[proc[p].b].owner = proc[p].lease
      /\ granted[proc[p].b] = proc[p].lease /\ Go(p, Strategy(p))
      /\ UNCHANGED <<storeVars, lock, claims, gatewayVars>>
  BY DEF AcknowledgedOwner, IsAt, SameOwner
<1>2. proc[p].lease # 0
  BY <1>1, Present DEF Standing
<1>3. Strategy(p) \in Owning /\ Strategy(p) \notin Verified
  BY DEF Strategy, Owning, Acked, Verified
<1>4. Grows /\ GatewayOK' /\ ClaimsOK' /\ UNCHANGED <<claims, granted>>
  BY <1>1, QuietKeeps DEF Quiet, gatewayVars
<1> DEFINE to == Strategy(p)
<1>5. to \in Owning /\ to \notin Verified /\ Go(p, to)
  BY <1>1, <1>3
<1> HIDE DEF to
<1>6. QED
  BY <1>1, <1>2, <1>4, <1>5, OwnerSteps

\* An owner that is refused releases its lease and fails.
LEMMA RefusedKeeps ==
    ASSUME BranchInv, NEW p \in Processes, OwnerRefused(p)
    PROVE  BranchInv'
<1> DEFINE b == proc[p].b
<1>1. /\ proc[p].pc = "owner" /\ ReleaseAndFail(p) /\ UNCHANGED granted
      /\ claims' = claims \/ claims' = [claims EXCEPT ![b].state = "unknown"]
  BY DEF OwnerRefused, IsAt
<1>2. UNCHANGED <<granted, hosts, commits, epoch>>
  BY <1>1 DEF ReleaseAndFail
<1>3. b \in Branches /\ "unknown" \in ClaimStates
  BY <1>1, Present DEF ClaimStates
<1>4. /\ Grows /\ ClaimsOK'
      /\ claims' \in [Branches -> [state : ClaimStates, owner : 0..MaxLeases]]
      /\ granted' \in [Branches -> 0..MaxLeases]
  BY <1>1, <1>2, <1>3, StateMoves
<1>5. QED
  BY <1>1, <1>4, ReleaseKeeps

\* The claim request, whatever of it and of its answer is lost.
LEMMA ClaimOwnerKeeps ==
    ASSUME BranchInv, NEW p \in Processes, NEW reached, NEW reply, ClaimOwner(p, reached, reply)
    PROVE  BranchInv'
<1> DEFINE b == proc[p].b
           o == proc[p].lease
<1>1. /\ proc[p].pc = "owner_claim"
      /\ granted' = granted \/ (granted[b] = 0 /\ granted' = [granted EXCEPT ![b] = o])
      /\ \/ /\ granted'[b] = o /\ Go(p, "record_claim")
            /\ UNCHANGED <<storeVars, lock, claims, leases, epoch, hosts, commits>>
         \/ /\ claims' = claims \/ claims' = [claims EXCEPT ![b].state = "unknown"]
            /\ ReleaseAndFail(p)
  BY DEF ClaimOwner, IsAt
<1>2. /\ o \in 0..MaxLeases /\ o # 0 /\ claims[b].owner = o /\ b \in Branches
      /\ "unknown" \in ClaimStates /\ claims[b] \in [state : ClaimStates, owner : 0..MaxLeases]
  <2>1. proc[p].pc \in Owning /\ proc[p].pc # "gone"
    BY <1>1 DEF Owning
  <2>2. b \in Branches
    BY <2>1, Present
  <2>3. QED
    BY <2>1, <2>2, OwnerIs DEF ClaimStates, BranchInv, GatewayOK
<1>3. PICK g \in 0..MaxLeases : granted' = [granted EXCEPT ![b] = g] /\ g \in {granted[b], o}
          /\ (granted[b] # 0 => g = granted[b])
  <2>1. granted = [granted EXCEPT ![b] = granted[b]] /\ granted[b] \in 0..MaxLeases
    BY <1>2 DEF BranchInv, GatewayOK
  <2>2. CASE granted' = granted
    BY <2>1, <2>2
  <2>3. CASE granted[b] = 0 /\ granted' = [granted EXCEPT ![b] = o]
    BY <1>2, <2>3
  <2>4. QED
    BY <1>1, <2>2, <2>3
<1>4. PICK c \in [state : ClaimStates, owner : 0..MaxLeases] :
        /\ claims' = [claims EXCEPT ![b] = c] /\ c.owner = o
        /\ c.state \in {claims[b].state, "unknown"}
  <2>1. claims \in [Branches -> [state : ClaimStates, owner : 0..MaxLeases]]
    BY DEF BranchInv, GatewayOK
  <2>2. CASE claims' = claims
    BY <1>2, <2>1, <2>2
  <2>3. CASE claims' = [claims EXCEPT ![b].state = "unknown"]
    <3> DEFINE c == [claims[b] EXCEPT !.state = "unknown"]
    <3>1. claims' = [claims EXCEPT ![b] = c]
      BY <1>2, <2>1, <2>3
    <3>2. c \in [state : ClaimStates, owner : 0..MaxLeases] /\ c.owner = o /\ c.state = "unknown"
      BY <1>2
    <3> HIDE DEF c
    <3>3. QED
      BY <3>1, <3>2
  <2>4. QED
    BY <1>1, <2>2, <2>3
<1>5. UNCHANGED <<hosts, commits, epoch>>
  BY <1>1 DEF ReleaseAndFail
<1>6. /\ granted[b] # 0 => granted[b] = o
      /\ claims[b].state \in {"claimed", "boundary_verified", "resuming"} => granted[b] = o
      /\ claims[b].state \in {"boundary_verified", "resuming"} \/ commits[b] # 0 =>
           hosts[o] # "blank"
  BY <1>2 DEF BranchInv, ClaimsOK, ClaimAcknowledged
<1>7. /\ Grows /\ ClaimsOK'
      /\ claims' \in [Branches -> [state : ClaimStates, owner : 0..MaxLeases]]
      /\ granted' \in [Branches -> 0..MaxLeases]
  <2>1. /\ g # 0 => c.owner = g
        /\ c.state \in {"claimed", "boundary_verified", "resuming"} => g = c.owner
        /\ c.state \in {"boundary_verified", "resuming"} \/ commits[b] # 0 =>
             c.owner # 0 /\ hosts[c.owner] # "blank"
    BY <1>2, <1>3, <1>4, <1>6
  <2> HIDE DEF b, o
  <2>2. b \in Branches
    BY <1>2
  <2>3. claims[b].owner # 0 => c.owner = claims[b].owner
    BY <1>2, <1>4
  <2>4. QED
    BY <1>3, <1>4, <1>5, <2>1, <2>2, <2>3, ClaimChanges
<1>8. CASE ReleaseAndFail(p)
  BY <1>1, <1>7, <1>8, ReleaseKeeps
<1>9. CASE /\ granted'[b] = o /\ Go(p, "record_claim")
           /\ UNCHANGED <<storeVars, lock, claims, leases, epoch, hosts, commits>>
  <2>1. GatewayOK'
    BY <1>7, <1>9 DEF BranchInv, GatewayOK
  <2>2. "record_claim" \in Owning /\ "record_claim" \notin Verified
    BY DEF Owning, Acked, Verified
  <2>3. claims'[b].owner = o
    BY <1>2, <1>9
  <2>4. QED
    BY <1>1, <1>2, <1>7, <1>9, <2>1, <2>2, <2>3, OwnerSteps
<1>10. QED
  BY <1>1, <1>8, <1>9

\* The acknowledgement is recorded, or the claim was moved meanwhile.
LEMMA RecordKeeps ==
    ASSUME BranchInv, NEW p \in Processes, RecordClaim(p)
    PROVE  BranchInv'
<1> DEFINE b == proc[p].b
<1>1. proc[p].pc = "record_claim" /\ proc[p].pc \in Owning /\ proc[p].pc \in Acked
  BY DEF RecordClaim, IsAt, Owning, Acked
<1>2. /\ proc[p].lease # 0 /\ claims[b].owner = proc[p].lease /\ granted[b] = proc[p].lease
      /\ proc[p].pc # "gone" /\ b \in Branches /\ "claimed" \in ClaimStates
  BY <1>1, OwnerIs, Present DEF ClaimStates
<1>3. CASE UNCHANGED <<claims, granted>> /\ ReleaseAndFail(p)
  <2>1. UNCHANGED <<hosts, commits, epoch>>
    BY <1>3 DEF ReleaseAndFail
  <2>2. /\ Grows /\ ClaimsOK'
        /\ claims' \in [Branches -> [state : ClaimStates, owner : 0..MaxLeases]]
        /\ granted' \in [Branches -> 0..MaxLeases]
    BY <1>2, <1>3, <2>1, StateMoves
  <2>3. QED
    BY <1>2, <1>3, <2>2, ReleaseKeeps
<1>4. CASE /\ claims' = [claims EXCEPT ![b].state = "claimed"] /\ Go(p, Strategy(p))
           /\ UNCHANGED <<storeVars, lock, starts, gatewayVars>>
  <2>1. /\ Grows /\ ClaimsOK'
        /\ claims' \in [Branches -> [state : ClaimStates, owner : 0..MaxLeases]]
    BY <1>2, <1>4, StateMoves DEF gatewayVars
  <2>2. GatewayOK'
    BY <1>4, <2>1 DEF BranchInv, GatewayOK, gatewayVars
  <2>3. Strategy(p) \in Owning /\ Strategy(p) \notin Verified
    BY DEF Strategy, Owning, Acked, Verified
  <2>4. claims'[b].owner = proc[p].lease /\ granted'[b] = proc[p].lease
    BY <1>2, <1>4, <2>1 DEF Grows, gatewayVars
  <2> DEFINE to == Strategy(p)
  <2>5. to \in Owning /\ to \notin Verified /\ Go(p, to)
    BY <1>4, <2>3
  <2> HIDE DEF to
  <2>6. QED
    BY <1>2, <1>4, <2>1, <2>2, <2>4, <2>5, OwnerSteps
<1>5. QED
  BY <1>3, <1>4 DEF RecordClaim, ClaimMove

\* A game that is moved on: restored, replayed or played, on the lease of a process that
\* owns.
LEMMA HostMoves ==
    ASSUME BranchInv, NEW p \in Processes, proc[p].pc \in Owning,
           NEW game \in {"boundary", "played"},
           hosts' = [hosts EXCEPT ![proc[p].lease] = game],
           commits' = commits \/ commits' = [commits EXCEPT ![proc[p].b] = proc[p].rev],
           UNCHANGED <<claims, granted, leases, epoch>>
    PROVE  Grows /\ GatewayOK' /\ ClaimsOK' /\ hosts'[proc[p].lease] # "blank"
<1> DEFINE o == proc[p].lease
           b == proc[p].b
<1>1. o \in 1..MaxLeases /\ claims[b].owner = o /\ o # 0 /\ proc[p].pc # "gone"
  BY OwnerIs
<1>2. b \in Branches /\ proc[p].rev \in 0..MaxRevision
  BY <1>1, Present DEF Procs
<1>3. /\ hosts \in [1..MaxLeases -> {"blank", "boundary", "played"}]
      /\ commits \in [Branches -> 0..MaxRevision] /\ epoch \in Nat
  BY ContinuationAssumption DEF BranchInv, GatewayOK
<1>4. /\ hosts' \in [1..MaxLeases -> {"blank", "boundary", "played"}] /\ hosts'[o] # "blank"
      /\ \A x \in 1..MaxLeases : hosts[x] # "blank" => hosts'[x] # "blank"
  BY <1>1, <1>3
<1>5. /\ commits' \in [Branches -> 0..MaxRevision]
      /\ \A x \in Branches : x # b => commits'[x] = commits[x]
  BY <1>2, <1>3
<1>6. Grows
  BY <1>3, <1>4 DEF Grows
<1>7. GatewayOK'
  BY <1>4, <1>5 DEF BranchInv, GatewayOK
<1>8. ClaimsOK'
  <2>1. ClaimAcknowledged'
    BY DEF BranchInv, ClaimsOK, ClaimAcknowledged
  <2>2. ASSUME NEW x \in Branches,
               claims[x].state \in {"boundary_verified", "resuming"} \/ commits'[x] # 0
        PROVE  claims[x].owner # 0 /\ hosts'[claims[x].owner] # "blank"
    <3>1. CASE x = b
      BY <1>1, <1>4, <3>1
    <3>2. CASE x # b
      <4>1. claims[x].owner # 0 /\ hosts[claims[x].owner] # "blank"
        BY <1>5, <2>2, <3>2 DEF BranchInv, ClaimsOK
      <4>2. claims[x].owner \in 1..MaxLeases
        BY <4>1, ContinuationAssumption DEF BranchInv, GatewayOK
      <4>3. QED
        BY <1>4, <4>1, <4>2
    <3>3. QED
      BY <3>1, <3>2
  <2>3. QED
    BY <2>1, <2>2 DEF ClaimsOK
<1>9. QED
  BY <1>4, <1>6, <1>7, <1>8

\* The restore at the host, of which the process may not learn.
LEMMA RestoreKeeps ==
    ASSUME BranchInv, NEW p \in Processes, Restore(p)
    PROVE  BranchInv'
<1> DEFINE o == proc[p].lease
           b == proc[p].b
<1>1. proc[p].pc = "restore" /\ proc[p].pc \in Owning /\ proc[p].pc \in Acked
  BY DEF Restore, IsAt, Owning, Acked
<1>2. /\ o # 0 /\ claims[b].owner = o /\ granted[b] = o
      /\ proc[p].pc # "gone" /\ b \in Branches /\ proc[p].pc \in Continuing
  BY <1>1, OwnerIs, Present DEF Continuing
<1>3. /\ UNCHANGED <<storeVars, lock, claims, granted, leases, epoch>>
      /\ \/ Commit(p) /\ Go(p, "attach")
         \/ (Commit(p) \/ UNCHANGED <<commits, hosts>>) /\ Go(p, "unknowing")
         \/ UNCHANGED <<commits, hosts>> /\ Go(p, "failing")
  BY DEF Restore, gatewayVars
<1>4. ASSUME Commit(p) PROVE Grows /\ GatewayOK' /\ ClaimsOK' /\ hosts'[o] # "blank"
  <2>1. CASE commits[b] = 0
    <3>1. /\ commits' = [commits EXCEPT ![b] = proc[p].rev]
          /\ hosts' = [hosts EXCEPT ![o] = "boundary"]
      BY <1>4, <2>1 DEF Commit
    <3>2. QED
      BY <1>1, <1>3, <3>1, HostMoves
  <2>2. CASE commits[b] # 0
    <3>1. Quiet
      BY <1>3, <1>4, <2>2 DEF Commit, Quiet
    <3>2. hosts[o] # "blank"
      BY <1>2, <2>2 DEF BranchInv, ClaimsOK
    <3>3. QED
      BY <3>1, <3>2, QuietKeeps DEF Quiet
  <2>3. QED
    BY <2>1, <2>2
<1>5. ASSUME UNCHANGED <<commits, hosts>> PROVE Grows /\ GatewayOK' /\ ClaimsOK'
  BY <1>3, <1>5, QuietKeeps DEF Quiet
<1>6. RowsKept
  BY <1>3, SameRows DEF storeVars, BranchInv
<1>7. CASE Commit(p) /\ Go(p, "attach")
  <2>1. "attach" \in Owning
    BY DEF Owning, Acked, Verified
  <2>2. claims'[b].owner = o /\ granted'[b] = o
    BY <1>2, <1>3
  <2>3. QED
    BY <1>2, <1>3, <1>4, <1>7, <2>1, <2>2, OwnerSteps
<1>8. CASE (Commit(p) \/ UNCHANGED <<commits, hosts>>) /\ Go(p, "unknowing")
  BY <1>2, <1>3, <1>4, <1>5, <1>6, <1>8, FollowsTable, GoKeeps
<1>9. CASE UNCHANGED <<commits, hosts>> /\ Go(p, "failing")
  BY <1>2, <1>3, <1>5, <1>6, <1>9, FollowsTable, GoKeeps
<1>10. QED
  BY <1>3, <1>7, <1>8, <1>9

\* The replay of the recorded actions.
LEMMA ReplayKeeps ==
    ASSUME BranchInv, NEW p \in Processes, Replay(p)
    PROVE  BranchInv'
<1> DEFINE o == proc[p].lease
           b == proc[p].b
<1>1. proc[p].pc = "replay" /\ proc[p].pc \in Owning /\ proc[p].pc \in Acked
  BY DEF Replay, IsAt, Owning, Acked
<1>2. /\ o # 0 /\ claims[b].owner = o /\ granted[b] = o /\ proc[p].pc # "gone"
      /\ proc[p].pc \in Continuing
  BY <1>1, OwnerIs DEF Continuing
<1>3. /\ UNCHANGED <<storeVars, lock, claims, granted, leases, epoch, commits>>
      /\ \/ hosts' = [hosts EXCEPT ![o] = "boundary"] /\ Go(p, "assure")
         \/ hosts' = [hosts EXCEPT ![o] = "played"] /\ Go(p, "failing")
  BY DEF Replay
<1>4. PICK game \in {"boundary", "played"} : hosts' = [hosts EXCEPT ![o] = game]
  BY <1>3
<1>5. Grows /\ GatewayOK' /\ ClaimsOK' /\ hosts'[o] # "blank"
  BY <1>1, <1>3, <1>4, HostMoves
<1>6. CASE Go(p, "assure")
  <2>1. "assure" \in Owning
    BY DEF Owning, Acked, Verified
  <2>2. claims'[b].owner = o /\ granted'[b] = o
    BY <1>2, <1>3
  <2>3. QED
    BY <1>2, <1>3, <1>5, <1>6, <2>1, <2>2, OwnerSteps
<1>7. CASE Go(p, "failing")
  <2>1. RowsKept
    BY <1>3, SameRows DEF storeVars, BranchInv
  <2>2. QED
    BY <1>2, <1>3, <1>5, <1>7, <2>1, FollowsTable, GoKeeps
<1>8. QED
  BY <1>3, <1>6, <1>7

\* Where a process goes that cannot publish.
LEMMA UnpublishedIs ==
    ASSUME NEW p, NEW from \in Continuing PROVE Follows(from, Unpublished(p))
BY FollowsTable DEF Unpublished

\* The transactions that publish the boundary: receipt, assurance, status.
LEMMA PublishKeeps ==
    ASSUME BranchInv, NEW p \in Processes,
           AttachReceipt(p) \/ PublishAssurance(p) \/ PublishReady(p) \/ PublishRunning(p)
    PROVE  BranchInv'
<1> DEFINE un == Unpublished(p)
<1>1. ASSUME CannotPublish(p), proc[p].pc \in Continuing \ {"gone"} PROVE BranchInv'
  <2>1. Go(p, un) /\ UNCHANGED <<storeVars, lock, claims, gatewayVars>>
    BY <1>1 DEF CannotPublish
  <2>2. Follows(proc[p].pc, un)
    BY <1>1, UnpublishedIs
  <2> HIDE DEF un
  <2>3. QED
    BY <1>1, <2>1, <2>2, QuietGoKeeps
<1>2. CASE AttachReceipt(p)
  <2> DEFINE receipt == Receipt(commits[proc[p].b])
             payload == <<proc[p].rev, "receipt", commits[proc[p].b]>>
             can == CanAttach(proc[p].b, proc[p].rev, receipt)
             row == Attached(branches[proc[p].b], receipt)
  <2>1. proc[p].pc = "attach" /\ proc[p].pc \in Continuing \ {"gone"}
    BY <1>2 DEF AttachReceipt, IsAt, Continuing
  <2>2. receipt \in Sources \cup {Receipt(r) : r \in 0..MaxRevision}
    BY <2>1, Present DEF BranchInv, GatewayOK
  <2>3. can => proc[p].b \in Rows \ tombs
    BY DEF CanAttach, Current
  <2>4. can /\ branches[proc[p].b].rev < MaxRevision => row \in BranchRows /\ Evident(row)
    <3> HIDE DEF receipt
    <3>1. QED
      BY <2>2, AttachedIs DEF BranchInv
  <2>5. Store(p, "receipt-artifact", payload, can, row, "assure", "unknowing") \/ CannotPublish(p)
    BY <1>2 DEF AttachReceipt, Row
  <2> HIDE DEF can, row, payload
  <2>6. QED
    BY <1>1, <2>1, <2>3, <2>4, <2>5, FollowsTable, StoreKeeps
<1>3. CASE PublishAssurance(p)
  <2> DEFINE payload == <<proc[p].rev, "assured">>
             can == CanAssure(proc[p].b, proc[p].rev)
             row == Assured(branches[proc[p].b], TRUE)
  <2>1. proc[p].pc = "assure" /\ proc[p].pc \in Continuing \ {"gone"}
    BY <1>3 DEF PublishAssurance, IsAt, Continuing
  <2>2. can => proc[p].b \in Rows \ tombs
    BY DEF CanAssure, Current
  <2>3. can /\ branches[proc[p].b].rev < MaxRevision => row \in BranchRows /\ Evident(row)
    BY AssuredIs DEF BranchInv
  <2>4. Store(p, "assurance", payload, can, row, "ready", un) \/ CannotPublish(p)
    BY <1>3 DEF PublishAssurance, Row
  <2>5. Follows(proc[p].pc, un)
    BY <2>1, UnpublishedIs
  <2> HIDE DEF can, row, payload, un
  <2>6. QED
    BY <1>1, <2>1, <2>2, <2>3, <2>4, <2>5, FollowsTable, StoreKeeps
<1>4. CASE PublishReady(p)
  <2> DEFINE to == IF Exact(p) THEN "boundary" ELSE "run"
  <2>1. proc[p].pc = "ready" /\ "ready" \in Continuing /\ StoreMove(p, "ready", "ready", to, un)
    BY <1>4 DEF PublishReady, IsAt, Continuing
  <2>2. Follows(proc[p].pc, to) /\ Follows(proc[p].pc, un)
    BY <2>1, FollowsTable, UnpublishedIs
  <2> HIDE DEF to, un
  <2>3. QED
    BY <2>1, <2>2, StoreMoveKeeps
<1>5. CASE PublishRunning(p)
  <2> DEFINE to == IF Exact(p) THEN "playing" ELSE "boundary"
  <2>1. proc[p].pc = "run" /\ "run" \in Continuing /\ StoreMove(p, "running", "running", to, un)
    BY <1>5 DEF PublishRunning, IsAt, Continuing
  <2>2. Follows(proc[p].pc, to) /\ Follows(proc[p].pc, un)
    BY <2>1, FollowsTable, UnpublishedIs
  <2> HIDE DEF to, un
  <2>3. QED
    BY <2>1, <2>2, StoreMoveKeeps
<1>6. QED
  BY <1>2, <1>3, <1>4, <1>5

\* The boundary in the claim of the owner.
LEMMA BoundaryKeeps ==
    ASSUME BranchInv, NEW p \in Processes, PublishBoundary(p)
    PROVE  BranchInv'
<1> DEFINE b == proc[p].b
           un == Unpublished(p)
           on == IF Exact(p) THEN "run" ELSE "playing"
<1>1. /\ proc[p].pc = "boundary" /\ proc[p].pc \in Owning /\ proc[p].pc \in Acked
      /\ proc[p].pc \in Verified /\ proc[p].pc \in Continuing
  BY DEF PublishBoundary, IsAt, Owning, Acked, Verified, Continuing
<1>2. /\ proc[p].pc # "gone" /\ claims[b].owner = proc[p].lease /\ proc[p].lease # 0
      /\ granted[b] = proc[p].lease /\ hosts[proc[p].lease] # "blank"
      /\ b \in Branches /\ "boundary_verified" \in ClaimStates
  BY <1>1, OwnerIs, Present DEF ClaimStates
<1>3. /\ claims' = claims \/ claims' = [claims EXCEPT ![b].state = "boundary_verified"]
      /\ \E to \in {on, un} : Go(p, to)
      /\ UNCHANGED <<storeVars, lock, gatewayVars>>
  BY DEF PublishBoundary, ClaimMove
<1>4. /\ Grows /\ ClaimsOK'
      /\ claims' \in [Branches -> [state : ClaimStates, owner : 0..MaxLeases]]
  BY <1>2, <1>3, StateMoves DEF gatewayVars
<1>5. GatewayOK'
  BY <1>3, <1>4 DEF BranchInv, GatewayOK, gatewayVars
<1>6. RowsKept
  BY <1>3, SameRows DEF storeVars, BranchInv
<1>7. Follows(proc[p].pc, on) /\ Follows(proc[p].pc, un)
  BY <1>1, FollowsTable, UnpublishedIs
<1> HIDE DEF on, un
<1>8. QED
  BY <1>2, <1>3, <1>4, <1>5, <1>6, <1>7, GoKeeps

\* Play moves the game and nothing else.
LEMMA PlayKeeps ==
    ASSUME BranchInv, NEW p \in Processes, Play(p)
    PROVE  BranchInv'
<1>1. /\ proc[p].pc = "playing" /\ proc[p].pc \in Owning
      /\ hosts' = [hosts EXCEPT ![proc[p].lease] = "played"]
      /\ UNCHANGED <<storeVars, proc, lock, claims, granted, leases, epoch, commits>>
  BY DEF Play, IsAt, Owning, Acked, Verified
<1>2. Grows /\ GatewayOK' /\ ClaimsOK'
  BY <1>1, HostMoves
<1>3. proc[p].pc # "gone" /\ proc[p] \in Procs /\ proc \in [Processes -> Procs]
  BY <1>1, Present
<1> DEFINE r == proc[p]
<1>4. proc' = [proc EXCEPT ![p] = r]
  BY <1>1, <1>3
<1>5. Follows(proc[p].pc, r.pc)
  BY <1>1 DEF Follows, Continuing
<1>6. RowsKept /\ LockOK'
  BY <1>1, SameRows DEF storeVars, BranchInv, LockOK
<1>7. r \in Procs /\ r.b = proc[p].b /\ r.resuming = proc[p].resuming /\ r.lease = proc[p].lease
  BY <1>3
<1> HIDE DEF r
<1>8. QED
  BY <1>2, <1>3, <1>4, <1>5, <1>6, <1>7, FollowKeeps

\* The end of the game: the lease is given back.
LEMMA GameOverKeeps ==
    ASSUME BranchInv, NEW p \in Processes, GameOver(p)
    PROVE  BranchInv'
<1> DEFINE r == [proc[p] EXCEPT !.pc = "complete", !.lease = 0]
<1>1. /\ proc[p].pc = "playing" /\ proc' = [proc EXCEPT ![p].pc = "complete", ![p].lease = 0]
      /\ leases' = [i \in Instances |-> IF leases[i] = proc[p].lease THEN 0 ELSE leases[i]]
      /\ UNCHANGED <<storeVars, lock, claims, granted, epoch, hosts, commits>>
  BY DEF GameOver, IsAt
<1>2. /\ proc[p] \in Procs /\ proc \in [Processes -> Procs] /\ proc[p].b \in Rows
      /\ 0 \in 0..MaxLeases /\ "complete" \in Continuing
  BY <1>1, Present, ContinuationAssumption DEF Continuing
<1>3. proc' = [proc EXCEPT ![p] = r]
  BY <1>1, <1>2
<1>4. r \in Procs /\ r.pc = "complete" /\ r.lease = 0 /\ r.b = proc[p].b
      /\ r.resuming = proc[p].resuming
  BY <1>2 DEF Procs
<1> HIDE DEF r
<1>5. GatewayOK'
  <2>1. /\ leases \in [Instances -> 0..MaxLeases] /\ \A i \in Instances : leases[i] <= epoch
        /\ MaxLeases \in Nat /\ epoch \in Nat
    BY ContinuationAssumption DEF BranchInv, GatewayOK
  <2>2. leases' \in [Instances -> 0..MaxLeases] /\ \A i \in Instances : leases'[i] <= epoch
    BY <1>1, <2>1
  <2>3. QED
    BY <1>1, <2>2 DEF BranchInv, GatewayOK
<1>6. Grows /\ ClaimsOK'
  BY <1>1, ContinuationAssumption DEF BranchInv, Grows, GatewayOK, ClaimsOK, ClaimAcknowledged
<1>7. RowsKept /\ LockOK'
  BY <1>1, SameRows DEF storeVars, BranchInv, LockOK
<1>8. PICK s \in Procs : s = r
  BY <1>4
<1>9. 0 <= epoch' /\ s.b \in Rows'
  BY <1>2, <1>4, <1>5, <1>7, <1>8, ContinuationAssumption DEF GatewayOK, RowsKept
<1>10. Standing(s)'
  BY <1>4, <1>8, <1>9 DEF Standing, Owning, Acked, Verified
<1>11. Alone(p, s)
  BY <1>4, <1>8, OwnLeaseAlone
<1>12. QED
  BY <1>3, <1>5, <1>6, <1>7, <1>8, <1>10, <1>11, StepKeeps

\* The ends of a continuation: completed, failed, unknown or gone.
LEMMA EndKeeps ==
    ASSUME BranchInv, NEW p \in Processes,
           \/ Complete(p) \/ PlayFails(p) \/ MarkFailed(p) \/ MarkUnknown(p) \/ Crash(p)
           \/ LoadRefused(p) \/ PreflightFails(p) \/ ClaimPrefixReplay(p)
    PROVE  BranchInv'
<1>1. CASE Complete(p)
  <2>1. proc[p].pc = "complete" /\ "complete" \in Continuing
        /\ StoreMove(p, "complete", "completed", "gone", "gone")
    BY <1>1 DEF Complete, IsAt, Continuing
  <2>2. QED
    BY <2>1, FollowsTable, StoreMoveKeeps
<1>2. CASE PlayFails(p)
  <2>1. CASE /\ proc[p].pc \in {"playing", "complete"} /\ UNCHANGED <<claims, granted>>
             /\ ReleaseAndFail(p)
    <3>1. UNCHANGED <<hosts, commits, epoch>> /\ proc[p].pc # "gone"
      BY <2>1 DEF ReleaseAndFail
    <3>2. proc[p].b \in Branches /\ "unknown" \in ClaimStates
      BY <3>1, Present DEF ClaimStates
    <3>3. /\ Grows /\ ClaimsOK'
          /\ claims' \in [Branches -> [state : ClaimStates, owner : 0..MaxLeases]]
          /\ granted' \in [Branches -> 0..MaxLeases]
      BY <2>1, <3>1, <3>2, StateMoves
    <3>4. QED
      BY <2>1, <3>1, <3>3, ReleaseKeeps
  <2>2. CASE /\ proc[p].pc \in {"playing", "replay_claim"} /\ Go(p, "failing")
             /\ UNCHANGED <<storeVars, lock, claims, gatewayVars>>
    <3>1. proc[p].pc \in Continuing \ {"gone"}
      BY <2>2 DEF Continuing
    <3>2. QED
      BY <2>2, <3>1, FollowsTable, QuietGoKeeps
  <2>3. QED
    BY <1>2, <2>1, <2>2 DEF PlayFails
<1>3. CASE MarkFailed(p)
  <2>1. proc[p].pc = "failing" /\ "failing" \in Continuing
    BY <1>3 DEF MarkFailed, IsAt, Continuing
  <2>2. \/ StoreMove(p, "failed", "failed", "gone", "gone")
        \/ StoreMove(p, "failed", "unknown", "gone", "gone")
        \/ Exit(p) /\ UNCHANGED <<storeVars, claims, gatewayVars>>
    BY <1>3 DEF MarkFailed
  <2>3. QED
    BY <2>1, <2>2, FollowsTable, StoreMoveKeeps, QuietExitKeeps
<1>4. CASE MarkUnknown(p)
  <2>1. proc[p].pc = "unknowing" /\ "unknowing" \in Continuing
    BY <1>4 DEF MarkUnknown, IsAt, Continuing
  <2>2. \/ StoreMove(p, "unknown", "unknown", "gone", "gone")
        \/ Exit(p) /\ UNCHANGED <<storeVars, claims, gatewayVars>>
    BY <1>4 DEF MarkUnknown
  <2>3. QED
    BY <2>1, <2>2, FollowsTable, StoreMoveKeeps, QuietExitKeeps
<1>5. CASE Crash(p) \/ LoadRefused(p)
  <2>1. Exit(p) /\ UNCHANGED <<storeVars, claims, gatewayVars>>
    BY <1>5 DEF Crash, LoadRefused
  <2>2. QED
    BY <2>1, QuietExitKeeps
<1>6. CASE PreflightFails(p)
  <2>1. /\ proc[p].pc \in {"adopt", "allocate"} /\ Go(p, "failing")
        /\ UNCHANGED <<storeVars, lock, claims, gatewayVars>>
    BY <1>6 DEF PreflightFails
  <2>2. QED
    BY <2>1, FollowsTable, QuietGoKeeps
<1>7. CASE ClaimPrefixReplay(p)
  <2>1. proc[p].pc = "replay_claim" /\ "replay_claim" \in Continuing
        /\ StoreMove(p, "claim", "replaying", "replay", "failing")
    BY <1>7 DEF ClaimPrefixReplay, IsAt, Continuing
  <2>2. QED
    BY <2>1, FollowsTable, StoreMoveKeeps
<1>8. QED
  BY <1>1, <1>2, <1>3, <1>4, <1>5, <1>6, <1>7

\* Every step of a process, of the gateway and of an operator keeps the invariant.
LEMMA BranchKept == ContinuationInv /\ [ContinuationNext]_continuationVars => ContinuationInv'
<1> SUFFICES ASSUME BranchInv, world \in Worlds, [ContinuationNext]_continuationVars
             PROVE  BranchInv' /\ world' \in Worlds
  BY DEF ContinuationInv
<1>1. CASE UNCHANGED continuationVars
  BY <1>1
  DEF continuationVars, storeVars, gatewayVars, BranchInv, BranchesOK, Rows, ReadyAssured,
      GatewayOK,
      ClaimsOK, ClaimAcknowledged, LockOK, ProcsOK, Apart, Standing
<1>2. ASSUME NEW p \in Processes, ProcessStep(p) PROVE BranchInv'
  BY <1>2, StartKeeps, ReconcileKeeps, LoadKeeps, PrepareRowKeeps, ClaimRestoreKeeps, ClaimResumeKeeps,
     AdoptKeeps, AllocateKeeps, SnapshotKeeps, KnownKeeps, AcknowledgedKeeps, RefusedKeeps,
     ClaimOwnerKeeps, RecordKeeps, RestoreKeeps, ReplayKeeps, PublishKeeps, BoundaryKeeps, PlayKeeps,
     GameOverKeeps, EndKeeps
  DEF ProcessStep
<1>3. ASSUME NEW i \in Instances, Expire(i) PROVE BranchInv'
  BY <1>3, ExpireKeeps
<1>4. ASSUME OperatorStep(world.edited),
             UNCHANGED <<world, proc, lock, starts, claims, gatewayVars>>,
             world.edited \in SUBSET Branches
      PROVE  BranchInv'
  <2>1. RowsKept
    BY <1>4, OperatorKeeps DEF BranchInv
  <2>2. Quiet
    BY <1>4 DEF Quiet, gatewayVars
  <2>3. Grows /\ GatewayOK' /\ ClaimsOK' /\ LockOK'
    BY <1>4, <2>2, QuietKeeps DEF BranchInv, LockOK
  <2>4. ProcsOK' /\ Apart'
    BY <1>4, <2>1, <2>2
    DEF BranchInv, ProcsOK, Apart, Standing, RowsKept, Quiet
  <2>5. QED
    BY <2>1, <2>3, <2>4 DEF BranchInv, RowsKept
<1>5. world.edited \in SUBSET Branches /\ world' = world
  BY ContinuationAssumption DEF ContinuationNext, continuationVars
<1>6. QED
  BY <1>1, <1>2, <1>3, <1>4, <1>5 DEF ContinuationNext

\* A step of a process writes the rows in one transaction of the store or not at all, and
\* only a prune reports artifacts.
LEMMA ProcessRows ==
    ASSUME BranchInv, NEW p \in Processes, ProcessStep(p)
    PROVE  RowsKept /\ UNCHANGED collected
<1>1. ASSUME UNCHANGED storeVars PROVE RowsKept /\ UNCHANGED collected
  BY <1>1, SameRows DEF storeVars, BranchInv
<1>2. ASSUME NEW suffix, NEW payload, NEW can, NEW row, NEW next, NEW else,
             Store(p, suffix, payload, can, row, next, else),
             can => proc[p].b \in Rows \ tombs,
             can /\ branches[proc[p].b].rev < MaxRevision => row \in BranchRows /\ Evident(row)
      PROVE  RowsKept /\ UNCHANGED collected
  <2> DEFINE id == <<proc[p].b, proc[p].op, suffix>>
  <2>1. Transact(id, payload, can, proc[p].b, row)
    BY <1>2 DEF Store
  <2> HIDE DEF id
  <2>2. UNCHANGED collected
    BY <2>1 DEF Transact
  <2>3. QED
    BY <1>2, <2>1, <2>2, TransactKeeps DEF BranchInv
<1>3. ASSUME NEW suffix, NEW status, NEW next, NEW else, StoreMove(p, suffix, status, next, else)
      PROVE  RowsKept /\ UNCHANGED collected
  <2> DEFINE can == CanMove(proc[p].b, proc[p].rev, status)
             row == Moved(branches[proc[p].b], status)
             payload == <<proc[p].rev, status>>
  <2>1. Store(p, suffix, payload, can, row, next, else)
    BY <1>3 DEF StoreMove, Row
  <2>2. can => proc[p].b \in Rows \ tombs
    BY DEF CanMove, Current
  <2>3. can /\ branches[proc[p].b].rev < MaxRevision => row \in BranchRows /\ Evident(row)
    BY MovedIs DEF BranchInv
  <2> HIDE DEF can, row, payload
  <2>4. QED
    BY <1>2, <2>1, <2>2, <2>3
<1>4. CASE AttachReceipt(p)
  <2> DEFINE receipt == Receipt(commits[proc[p].b])
             payload == <<proc[p].rev, "receipt", commits[proc[p].b]>>
             can == CanAttach(proc[p].b, proc[p].rev, receipt)
             row == Attached(branches[proc[p].b], receipt)
  <2>1. proc[p].pc # "gone"
    BY <1>4 DEF AttachReceipt, IsAt
  <2>2. receipt \in Sources \cup {Receipt(r) : r \in 0..MaxRevision}
    BY <2>1, Present DEF BranchInv, GatewayOK
  <2>3. can => proc[p].b \in Rows \ tombs
    BY DEF CanAttach, Current
  <2>4. can /\ branches[proc[p].b].rev < MaxRevision => row \in BranchRows /\ Evident(row)
    <3> HIDE DEF receipt
    <3>1. QED
      BY <2>2, AttachedIs DEF BranchInv
  <2>5. \/ Store(p, "receipt-artifact", payload, can, row, "assure", "unknowing")
        \/ UNCHANGED storeVars
    BY <1>4 DEF AttachReceipt, Row, CannotPublish
  <2> HIDE DEF can, row, payload
  <2>6. QED
    BY <1>1, <1>2, <2>3, <2>4, <2>5
<1>5. CASE PublishAssurance(p)
  <2> DEFINE payload == <<proc[p].rev, "assured">>
             can == CanAssure(proc[p].b, proc[p].rev)
             row == Assured(branches[proc[p].b], TRUE)
             un == Unpublished(p)
  <2>1. can => proc[p].b \in Rows \ tombs
    BY DEF CanAssure, Current
  <2>2. can /\ branches[proc[p].b].rev < MaxRevision => row \in BranchRows /\ Evident(row)
    BY AssuredIs DEF BranchInv
  <2>3. Store(p, "assurance", payload, can, row, "ready", un) \/ UNCHANGED storeVars
    BY <1>5 DEF PublishAssurance, Row, CannotPublish
  <2> HIDE DEF can, row, payload, un
  <2>4. QED
    BY <1>1, <1>2, <2>1, <2>2, <2>3
<1>6. CASE PublishReady(p) \/ PublishRunning(p)
  <2> DEFINE un == Unpublished(p)
             to == IF PublishReady(p) THEN (IF Exact(p) THEN "boundary" ELSE "run")
                   ELSE (IF Exact(p) THEN "playing" ELSE "boundary")
  <2>1. StoreMove(p, "ready", "ready", to, un) \/ StoreMove(p, "running", "running", to, un)
    BY <1>6 DEF PublishReady, PublishRunning
  <2> HIDE DEF to, un
  <2>2. QED
    BY <1>3, <2>1
<1>7. CASE \/ ClaimExactRestore(p) \/ ClaimPrefixReplay(p) \/ Complete(p)
           \/ MarkFailed(p) \/ MarkUnknown(p)
  BY <1>1, <1>3, <1>7
  DEF ClaimExactRestore, ClaimPrefixReplay, Complete, MarkFailed, MarkUnknown
<1>8. CASE Reconcile(p)
  <2>1. PICK x \in proc[p].todo :
          Transact(ReconcileId(x.b), <<x.rev, Resolution(x.status)>>,
                   CanMove(x.b, x.rev, Resolution(x.status)), x.b,
                   Moved(branches[x.b], Resolution(x.status)))
    BY <1>8 DEF Reconcile
  <2> DEFINE status == Resolution(x.status)
             can == CanMove(x.b, x.rev, status)
             row == Moved(branches[x.b], status)
  <2>2. can => x.b \in Rows \ tombs
    BY DEF CanMove, Current
  <2>3. can /\ branches[x.b].rev < MaxRevision => row \in BranchRows /\ Evident(row)
    <3> HIDE DEF status
    <3>1. QED
      BY MovedIs DEF BranchInv
  <2>4. Transact(ReconcileId(x.b), <<x.rev, status>>, can, x.b, row)
    BY <2>1
  <2> HIDE DEF status, can, row
  <2>5. UNCHANGED collected
    BY <2>4 DEF Transact
  <2>6. QED
    BY <2>2, <2>3, <2>4, <2>5, TransactKeeps DEF BranchInv
<1>9. CASE \/ \E b \in Rows, resuming \in BOOLEAN : Start(p, b, resuming)
           \/ Load(p) \/ LoadForResume(p) \/ LoadRefused(p) \/ PrepareOwnerClaim(p) \/ CheckReady(p)
           \/ ClaimResume(p) \/ AdoptCurrentOwner(p) \/ PreflightFails(p)
           \/ \E i \in Instances : Allocate(p, i)
  BY <1>1, <1>9
  DEF Start, Load, LoadForResume, LoadRefused, PrepareOwnerClaim, CheckReady, ClaimResume,
      AdoptCurrentOwner, PreflightFails, Allocate
<1>10. CASE \/ SnapshotOwner(p) \/ KnownOwner(p) \/ AcknowledgedOwner(p) \/ OwnerRefused(p)
            \/ \E reached \in BOOLEAN, reply \in {"acknowledged", "uncertain", "unread"} :
                   ClaimOwner(p, reached, reply)
            \/ RecordClaim(p) \/ Restore(p) \/ PublishBoundary(p) \/ Replay(p) \/ Play(p)
            \/ GameOver(p) \/ PlayFails(p) \/ Crash(p)
  BY <1>1, <1>10
  DEF SnapshotOwner, KnownOwner, AcknowledgedOwner, OwnerRefused, ClaimOwner, RecordClaim, Restore,
      PublishBoundary, Replay, Play, GameOver, PlayFails, Crash, ReleaseAndFail
<1>11. QED
  BY <1>4, <1>5, <1>6, <1>7, <1>8, <1>9, <1>10 DEF ProcessStep

\* What a step adds to the reported artifacts no branch that remains refers to.
Unreferenced ==
    \A a \in collected' \ collected : \A b \in Rows \ tombs' : a \notin branches[b].artifacts

\* Pruned rows stay, and a prune reports what nothing left refers to.
LEMMA BranchStepKeeps ==
    ContinuationInv /\ [ContinuationNext]_continuationVars =>
        (\A b \in tombs : b \in tombs' /\ branches'[b] = branches[b]) /\ Unreferenced
<1> SUFFICES ASSUME BranchInv, world \in Worlds, [ContinuationNext]_continuationVars
             PROVE  (\A b \in tombs : b \in tombs' /\ branches'[b] = branches[b]) /\ Unreferenced
  BY DEF ContinuationInv
<1>1. ASSUME UNCHANGED storeVars
      PROVE  (\A b \in tombs : b \in tombs' /\ branches'[b] = branches[b]) /\ Unreferenced
  BY <1>1 DEF storeVars, Unreferenced
<1>2. ASSUME NEW p \in Processes, ProcessStep(p)
      PROVE  (\A b \in tombs : b \in tombs' /\ branches'[b] = branches[b]) /\ Unreferenced
  BY <1>2, ProcessRows DEF RowsKept, Unreferenced
<1>3. ASSUME OperatorStep(world.edited)
      PROVE  (\A b \in tombs : b \in tombs' /\ branches'[b] = branches[b]) /\ Unreferenced
  <2>1. world.edited \in SUBSET Branches
    BY ContinuationAssumption
  <2>2. RowsKept
    BY <1>3, <2>1, OperatorKeeps DEF BranchInv
  <2>3. \/ UNCHANGED collected
        \/ \E selected \in SUBSET world.edited, retain \in BOOLEAN : Prune(selected, retain)
    BY <1>3 DEF OperatorStep, Create, MoveBranch, SetAssurance, AttachArtifact, Rename, Write
  <2>4. ASSUME NEW selected, NEW retain, Prune(selected, retain) PROVE Unreferenced
    <3> SUFFICES ASSUME NEW a \in collected' \ collected, NEW r \in Rows \ tombs'
                 PROVE  a \notin branches[r].artifacts
      BY DEF Unreferenced
    <3>1. a \in Collectable(selected) /\ r \in Rows \ (selected \cup tombs)
      BY <2>4 DEF Prune
    <3>2. QED
      BY <3>1 DEF Collectable
  <2>5. QED
    BY <2>2, <2>3, <2>4 DEF RowsKept, Unreferenced
<1>4. QED
  BY <1>1, <1>2, <1>3 DEF ContinuationNext, continuationVars, Expire

\* The inductive invariant, for any branches, processes, instances, situations and bounds.
THEOREM ContinuationInvariant == ContinuationSpec => []ContinuationInv
<1>1. ContinuationInit => ContinuationInv
  BY BranchStarts DEF ContinuationInv, ContinuationInit
<1>2. QED
  BY <1>1, BranchKept, PTL DEF ContinuationSpec

\* Branches and claims stay sound: what is ready has its evidence, what counts as
\* acknowledged is the gateway's, and a branch has one driver that began it, however
\* requests, answers and processes are lost (continuation_owner.rs).
THEOREM ContinuationStaysSound == ContinuationSpec => []ContinuationSound
<1>1. ContinuationInv => ContinuationSound
  BY BranchInvSound DEF ContinuationInv
<1>2. QED
  BY <1>1, ContinuationInvariant, PTL

\* A pruned branch is never touched again, and a prune reports only what no remaining
\* branch refers to (durable_branch_store_retention.rs).
THEOREM PrunesAreFinal == ContinuationSpec => PrunedFrozen /\ CollectsUnreferenced
<1>1. ContinuationInv /\ [ContinuationNext]_continuationVars =>
        /\ [\A b \in tombs : b \in tombs' /\ branches'[b] = branches[b]]_storeVars
        /\ [\A a \in collected' \ collected :
               \A b \in Rows \ tombs' : a \notin branches[b].artifacts]_storeVars
  BY BranchStepKeeps DEF Unreferenced
<1>2. QED
  BY <1>1, ContinuationInvariant, PTL DEF ContinuationSpec, PrunedFrozen, CollectsUnreferenced
=============================================================================
