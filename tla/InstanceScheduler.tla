------------------------- MODULE InstanceScheduler -------------------------
(***************************************************************************)
(* RuntimeV2Coordinator: a bounded scheduler with one serial action slot   *)
(* per game instance, fair round-robin between idle instances, and a       *)
(* bounded memory of finished operation ids.  Every method runs to its end *)
(* under &mut self, so it is one step.  The counters and service times of  *)
(* the snapshot are left out: no method reads them.                        *)
(***************************************************************************)
EXTENDS Naturals, FiniteSets, SequencesExt

CONSTANTS Instances,
          Bindings,       \* records [instance, namespace, epoch]
          Operations,
          MaxInstances,   \* RuntimeV2CoordinatorConfig
          GlobalQueueCapacity,
          PerInstanceQueueCapacity,
          MaxRetained,    \* RUNTIME_V2_MAX_RETAINED_OPERATIONS
          None

ASSUME SchedulerAssumption ==
  /\ Bindings \subseteq [instance: Instances, namespace: Nat, epoch: Nat]
  /\ MaxInstances \in Nat /\ GlobalQueueCapacity \in Nat
  /\ PerInstanceQueueCapacity \in Nat /\ MaxRetained \in Nat \ {0}
  /\ None \notin Bindings \union Instances

VARIABLES lanes,      \* instance -> [binding, queue, active]; an unregistered one has no binding
          ready,      \* instances that wait for a turn
          queued,     \* queued_operations
          active,     \* active_operations: operation -> instance, or None
          uncertain,  \* uncertain_operations
          retained,   \* retained_operations, oldest first
          open        \* admission_open

schedulerVars == <<lanes, ready, queued, active, uncertain, retained, open>>

NoLane == [binding |-> None, queue |-> <<>>, active |-> FALSE]

SchedulerInit ==
  /\ lanes = [i \in Instances |-> NoLane]
  /\ ready = <<>>
  /\ queued = {}
  /\ active = [o \in Operations |-> None]
  /\ uncertain = {}
  /\ retained = <<>>
  /\ open = TRUE

Registered == {i \in Instances : lanes[i].binding # None}
ActiveOperations == {o \in Operations : active[o] # None}
Waiting(i) == ToSet(lanes[i].queue)

\* The items that wait, each as its place in the queue of its lane.
Places == UNION {{i} \X DOMAIN lanes[i].queue : i \in Instances}
QueuedLen == Cardinality(Places)

EnqueueReadyFault(i) == IF Contains(ready, i) THEN ready ELSE <<i>> \o ready
EnqueueReady(i) == IF Contains(ready, i) THEN ready ELSE Append(ready, i)

\* retain_operation of the ids of c in turn: each goes to the back, and the last
\* MaxRetained of them all are kept.
Retain(s, c) ==
  LET all == s \o c IN
  SubSeq(all, IF Len(all) > MaxRetained THEN Len(all) - MaxRetained + 1 ELSE 1, Len(all))

-----------------------------------------------------------------------------

NamespaceConflicts(b) == \E i \in Registered : lanes[i].binding.namespace = b.namespace

RegisterInstance(b) ==
  /\ open
  /\ Cardinality(Registered) < MaxInstances
  /\ b.instance \notin Registered
  /\ ~NamespaceConflicts(b)
  /\ lanes' = [lanes EXCEPT ![b.instance] = [NoLane EXCEPT !.binding = b]]
  /\ UNCHANGED <<ready, queued, active, uncertain, retained, open>>

\* An operation id that may not be admitted again.
Remembered(o) == o \in queued \/ o \in ActiveOperations \/ Contains(retained, o)

\* A refused item changes nothing but a counter.
Admit(b, o) ==
  LET i == b.instance IN
  /\ open
  /\ lanes[i].binding = b
  /\ ~Remembered(o)
  /\ QueuedLen < GlobalQueueCapacity
  /\ Len(lanes[i].queue) < PerInstanceQueueCapacity
  /\ lanes' = [lanes EXCEPT ![i].queue = Append(@, o)]
  /\ queued' = queued \union {o}
  /\ ready' = IF lanes[i].queue = <<>> /\ ~lanes[i].active THEN EnqueueReady(i) ELSE ready
  /\ UNCHANGED <<active, uncertain, retained, open>>

\* Entries of ready whose queue has been emptied by a cancellation are skipped.
NextWork ==
  LET serving == SelectInSeq(ready, LAMBDA i : lanes[i].queue # <<>>) IN
  IF serving = 0
  THEN /\ ready # <<>>
       /\ ready' = <<>>
       /\ UNCHANGED <<lanes, queued, active, uncertain, retained, open>>
  ELSE LET i == ready[serving]
           o == Head(lanes[i].queue) IN
       /\ ready' = SubSeq(ready, serving + 1, Len(ready))
       /\ lanes' = [lanes EXCEPT ![i].queue = Tail(@), ![i].active = TRUE]
       /\ queued' = queued \ {o}
       /\ active' = [active EXCEPT ![o] = i]
       /\ UNCHANGED <<uncertain, retained, open>>

\* The instance keeps its place in ready even when its queue becomes empty.  An id is at one
\* place of one queue (OnePlace): the items that stay are the others.
CancelQueued(o) ==
  \E i \in Instances :
    /\ \E k \in DOMAIN lanes[i].queue :
         /\ lanes[i].queue[k] = o
         /\ lanes' = [lanes EXCEPT ![i].queue = RemoveAt(@, k)]
    /\ queued' = queued \ {o}
    /\ retained' = Retain(retained, <<o>>)
    /\ UNCHANGED <<ready, active, uncertain, open>>

CompleteUnknownFault(o) ==
  /\ o \in ActiveOperations
  /\ uncertain' = uncertain \union {o}
  /\ active' = [active EXCEPT ![o] = None]
  /\ lanes' = [lanes EXCEPT ![active[o]].active = FALSE]
  /\ ready' = IF lanes[active[o]].queue # <<>> THEN EnqueueReady(active[o]) ELSE ready
  /\ UNCHANGED <<queued, retained, open>>
\* complete with status Unknown: the operation keeps its slot.
CompleteUnknown(o) ==
  /\ o \in ActiveOperations
  /\ uncertain' = uncertain \union {o}
  /\ UNCHANGED <<lanes, ready, queued, active, retained, open>>

CompleteFault(o) ==
  LET i == active[o] IN
  /\ o \in ActiveOperations
  /\ active' = [active EXCEPT ![o] = None]
  /\ uncertain' = uncertain \ {o}
  /\ lanes' = [lanes EXCEPT ![i].active = FALSE]
  /\ retained' = Retain(retained, <<o>>)
  /\ UNCHANGED <<ready, queued, open>>
\* complete with a terminal status, for an operation that may be uncertain.
Complete(o) ==
  LET i == active[o] IN
  /\ o \in ActiveOperations
  /\ active' = [active EXCEPT ![o] = None]
  /\ uncertain' = uncertain \ {o}
  /\ lanes' = [lanes EXCEPT ![i].active = FALSE]
  /\ ready' = IF lanes[i].queue # <<>> THEN EnqueueReady(i) ELSE ready
  /\ retained' = Retain(retained, <<o>>)
  /\ UNCHANGED <<queued, open>>

\* c has the queues of the lanes one after the other.  Instances have no order here.
LaneByLane(c) ==
  \A i \in Instances : \E a \in 0..(Len(c) - Len(lanes[i].queue)) :
    \A k \in DOMAIN lanes[i].queue : c[a + k] = lanes[i].queue[k]

\* Active work is left for its own settlement.
Shutdown ==
  /\ open' = FALSE
  /\ ready' = <<>>
  /\ lanes' = [i \in Instances |-> [lanes[i] EXCEPT !.queue = <<>>]]
  /\ queued' = {}
  /\ \E c \in SetToSeqs(UNION {Waiting(i) : i \in Instances}) :
       LaneByLane(c) /\ retained' = Retain(retained, c)
  /\ UNCHANGED <<active, uncertain>>

SchedulerNext ==
  \/ \E b \in Bindings : RegisterInstance(b)
  \/ \E b \in Bindings, o \in Operations : Admit(b, o)
  \/ NextWork
  \/ \E o \in Operations : CancelQueued(o) \/ CompleteUnknown(o) \/ Complete(o)
  \/ Shutdown

SchedulerSpec == SchedulerInit /\ [][SchedulerNext]_schedulerVars

\* The dispatcher goes on asking for work.  That an action is ever settled, or that
\* anyone cancels or shuts down, is not promised.
FairSchedulerSpec == SchedulerSpec /\ WF_schedulerVars(NextWork)

-----------------------------------------------------------------------------
(* Properties.                                                             *)

\* Types and limits: every queue and memory stays within its configured bound,
\* and no two lanes share a namespace.
WithinBounds ==
  /\ lanes \in [Instances -> [binding: Bindings \union {None}, queue: Seq(Operations),
                              active: BOOLEAN]]
  /\ ready \in Seq(Instances)
  /\ queued \subseteq Operations
  /\ active \in [Operations -> Instances \union {None}]
  /\ uncertain \subseteq Operations
  /\ retained \in Seq(Operations)
  /\ open \in BOOLEAN
  /\ Cardinality(Registered) <= MaxInstances
  /\ QueuedLen <= GlobalQueueCapacity
  /\ \A i \in Instances : Len(lanes[i].queue) <= PerInstanceQueueCapacity
  /\ \A i, j \in Registered : i # j => lanes[i].binding.namespace # lanes[j].binding.namespace
  /\ Len(retained) <= MaxRetained

\* A lane with waiting work and a free slot has a place in ready: no sequence of
\* admissions, cancellations and completions loses its turn.
NoLostTurn ==
  \A i \in Instances :
    lanes[i].queue # <<>> /\ ~lanes[i].active => Contains(ready, i)

\* One action per instance: a slot is taken exactly while one operation of the
\* instance is active, and an instance waits for at most one turn, none while it acts.
SerialSlot ==
  /\ \A i \in Instances :
       Cardinality({o \in Operations : active[o] = i}) = IF lanes[i].active THEN 1 ELSE 0
  /\ \A k \in 1..Len(ready) : ~lanes[ready[k]].active
  /\ IsInjective(ready)

\* An operation id is in one place: once in one queue, or in one slot, or
\* remembered as finished; and the index of queued operations is exact.
OnePlace ==
  /\ queued = UNION {Waiting(i) : i \in Instances}
  /\ \A i, j \in Instances : i # j => Waiting(i) \intersect Waiting(j) = {}
  /\ \A i \in Instances : IsInjective(lanes[i].queue)
  /\ queued \intersect ActiveOperations = {}
  /\ ToSet(retained) \intersect (queued \union ActiveOperations) = {}
  /\ IsInjective(retained)

\* An action whose outcome is unknown keeps the slot of its instance until it is
\* completed: whatever else happens, no other action of that instance is dispatched.
UnknownHoldsSlot ==
  [][\A o \in uncertain :
       /\ active[o] # None /\ lanes[active[o]].active
       /\ o \in uncertain' => active'[o] = active[o] /\ lanes'[active[o]].active]_schedulerVars

\* Between two contents s and t of the memory only the oldest ids are forgotten, and
\* only when the memory is full.
ForgetsOldest(s, t) ==
  \A k \in DOMAIN s : s[k] \notin ToSet(t) =>
    Len(t) = MaxRetained /\ \A m \in 1..k : s[m] \notin ToSet(t)

\* What leaves a queue or a slot for good is remembered as finished, and forgotten
\* only when MaxRetained later ones are remembered: until then its id is not admitted.
FinishedRemembered ==
  [][LET gone == (queued \union ActiveOperations) \ (queued' \union ActiveOperations') IN
     /\ gone \subseteq ToSet(retained') \/ Cardinality(gone) > MaxRetained
     /\ ForgetsOldest(retained, retained')]_schedulerVars

\* An idle instance with waiting work gets its turn, however busy the others are.
IdleInstanceServed ==
  \A i \in Instances :
    (lanes[i].queue # <<>> /\ ~lanes[i].active)
      ~> (lanes[i].active \/ lanes[i].queue = <<>>)

\* The queues, slots and memories agree: within their limits, no turn is lost, a slot is
\* one operation's, and an operation id is in one place.
SchedulerSound == WithinBounds /\ NoLostTurn /\ SerialSlot /\ OnePlace

\* What was dispatched or finished is not forgotten: an unknown outcome keeps its slot and
\* a finished id its memory.
OutcomesKept == UnknownHoldsSlot /\ FinishedRemembered
=============================================================================
