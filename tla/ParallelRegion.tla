--------------------------- MODULE ParallelRegion ---------------------------
(***************************************************************************)
(* The bounded analysis route of the workflow runtime: an owner loop       *)
(* (drive) that dispatches the ready nodes of a plan to at most Cap        *)
(* threads, a budget ledger shared between loops and surviving them, and   *)
(* the join of the outcomes.  A loop asks the ledger twice about a node,   *)
(* each time under its mutex: what is reserved, and then to reserve.       *)
(***************************************************************************)
EXTENDS Naturals, FiniteSets, FiniteSetsExt

CONSTANTS Nodes,    \* node identities, numbered in their order
          Plans,    \* possible plans: node -> its declared inputs
          Owners,   \* owner loops that share the ledger
          Cap,      \* ParallelCap
          Limit,    \* BranchBudgetLedger.limit
          Units,    \* units_per_branch
          MaxRuns   \* executions of the plan, bound

ASSUME RegionAssumption ==
  /\ Nodes \subseteq Nat /\ IsFiniteSet(Nodes)
  /\ Plans \subseteq [Nodes -> SUBSET Nodes]
  /\ Cap \in 1..4 /\ Limit \in Nat \ {0} /\ Units \in Nat \ {0} /\ MaxRuns \in Nat

VARIABLES plan,
          ledger,    \* node -> state of its reservation
          reserved,  \* aggregate units
          loops,     \* owner -> its loop
          cancel,    \* owner -> CancelFlag
          verdict,   \* owner -> node -> what the executor will answer in this execution
          runs,      \* executions started
          paid       \* node -> inferences that may have been paid for

regionVars == <<plan, ledger, reserved, loops, cancel, verdict, runs, paid>>

Verdicts == {"settled", "failed", "lost", "unknown"}
Outcomes == Verdicts \union {"unsettled_input", "exhausted"}
ReservationStates == {"none", "reserved", "completed", "failed", "unknown"}

\* running: threads that execute; sent: outcomes in the channel.
Idle == [phase |-> "idle", ready |-> {}, outcomes |-> <<>>, inFlight |-> {},
         running |-> {}, sent |-> {}, node |-> 0]

RegionInit ==
  /\ plan \in Plans
  /\ ledger = [n \in Nodes |-> "none"]
  /\ reserved = 0
  /\ loops = [o \in Owners |-> Idle]
  /\ cancel = [o \in Owners |-> FALSE]
  /\ verdict = [o \in Owners |-> [n \in Nodes |-> "settled"]]
  /\ runs = 0
  /\ paid = [n \in Nodes |-> 0]

-----------------------------------------------------------------------------
(* JoinState.                                                              *)

\* The outcome of a node; a dependent is ready when it was its last open input.
Settle(l, n, outcome) ==
  LET known == [m \in DOMAIN l.outcomes \union {n} |-> IF m = n THEN outcome ELSE l.outcomes[m]] IN
  [l EXCEPT !.outcomes = known,
            !.ready = @ \union {d \in Nodes : n \in plan[d] /\ plan[d] \subseteq DOMAIN known}]

\* gather_inputs: some declared input did not settle.
Unsettled(l, n) ==
  ~(plan[n] \subseteq {i \in DOMAIN l.outcomes : l.outcomes[i] = "settled"})

First(l) == Min(l.ready)
Popped(l) == [l EXCEPT !.ready = @ \ {First(l)}]

SetLoop(o, l) == loops' = [loops EXCEPT ![o] = l]

Start(o) ==
  /\ loops[o].phase \in {"idle", "done", "cancelled"}
  /\ runs < MaxRuns
  /\ runs' = runs + 1
  /\ SetLoop(o, [Idle EXCEPT !.phase = "loop", !.ready = {n \in Nodes : plan[n] = {}}])
  /\ cancel' = [cancel EXCEPT ![o] = FALSE]
  /\ \E v \in [Nodes -> Verdicts] : verdict' = [verdict EXCEPT ![o] = v]
  /\ UNCHANGED <<plan, ledger, reserved, paid>>

Cancel(o) ==
  /\ loops[o].phase \notin {"idle", "done", "cancelled"}
  /\ ~cancel[o]
  /\ cancel' = [cancel EXCEPT ![o] = TRUE]
  /\ UNCHANGED <<plan, ledger, reserved, loops, verdict, runs, paid>>

-----------------------------------------------------------------------------
(* drive, with the budget's admission.                                     *)

Free(l) == Cardinality(l.inFlight) < Cap

\* The loop looks at the cancel signal before it takes a node.
Dispatching(o) ==
  /\ loops[o].phase = "loop"
  /\ Free(loops[o])
  /\ ~cancel[o]
  /\ loops[o].ready # {}

MayHaveWrittenFault(n) == ledger[n] \notin {"none", "failed", "unknown"}
MayHaveWritten(n) == ledger[n] \notin {"none", "failed"}

\* A node that is not dispatched, because of its inputs or of an earlier dispatch.
Refuse(o) ==
  LET n == First(loops[o])
      l == Popped(loops[o]) IN
  /\ Dispatching(o)
  /\ \/ Unsettled(l, n) /\ SetLoop(o, Settle(l, n, "unsettled_input"))
     \/ ~Unsettled(l, n) /\ MayHaveWritten(n) /\ SetLoop(o, Settle(l, n, "unknown"))
  /\ UNCHANGED <<plan, ledger, reserved, cancel, verdict, runs, paid>>

Consider(o) ==
  LET n == First(loops[o])
      l == Popped(loops[o]) IN
  /\ Dispatching(o)
  /\ ~Unsettled(l, n)
  /\ ~MayHaveWritten(n)
  /\ SetLoop(o, [l EXCEPT !.phase = "reserve", !.node = n])
  /\ UNCHANGED <<plan, ledger, reserved, cancel, verdict, runs, paid>>

HasRoom == reserved + Units <= Limit

\* Reserve and, when granted, spawn the branch.  A repeated reservation is granted
\* whatever its state is; only a definite failure is taken back to reserved.
Reserve(o) ==
  LET n == loops[o].node
      l == [loops[o] EXCEPT !.phase = "loop", !.node = 0] IN
  /\ loops[o].phase = "reserve"
  /\ \/ /\ ledger[n] # "none" \/ (Units <= Limit /\ HasRoom)
        /\ ledger' = [ledger EXCEPT ![n] = IF @ \in {"none", "failed"} THEN "reserved" ELSE @]
        /\ reserved' = IF ledger[n] = "none" THEN reserved + Units ELSE reserved
        /\ SetLoop(o, [l EXCEPT !.inFlight = @ \union {n}, !.running = @ \union {n}])
        /\ paid' = [paid EXCEPT ![n] = @ + 1]
     \/ /\ ledger[n] = "none" /\ ~(Units <= Limit /\ HasRoom)
        /\ SetLoop(o, Settle(l, n, "exhausted"))
        /\ UNCHANGED <<ledger, reserved, paid>>
  /\ UNCHANGED <<plan, cancel, verdict, runs>>

BranchUnwinding(o, n) ==
  /\ n \in loops[o].running
  /\ SetLoop(o, [loops[o] EXCEPT !.running = @ \ {n},
                               !.sent = IF verdict[o][n] = "lost" THEN @ ELSE @ \union {n}])
  /\ paid' = IF verdict[o][n] = "failed" THEN [paid EXCEPT ![n] = @ - 1] ELSE paid
  /\ UNCHANGED <<plan, ledger, reserved, cancel, verdict, runs>>
\* A branch ends and reports, once, also when it unwinds.
Branch(o, n) ==
  /\ n \in loops[o].running
  /\ SetLoop(o, [loops[o] EXCEPT !.running = @ \ {n}, !.sent = @ \union {n}])
  /\ paid' = IF verdict[o][n] = "failed" THEN [paid EXCEPT ![n] = @ - 1] ELSE paid
  /\ UNCHANGED <<plan, ledger, reserved, cancel, verdict, runs>>

\* No node to take and branches in flight: the loop blocks on the channel.
AwaitBranch(o) ==
  LET l == loops[o] IN
  /\ l.phase = "loop"
  /\ l.inFlight # {}
  /\ ~Free(l) \/ (~cancel[o] /\ l.ready = {})
  /\ SetLoop(o, [l EXCEPT !.phase = "recv"])
  /\ UNCHANGED <<plan, ledger, reserved, cancel, verdict, runs, paid>>

\* BranchBudgetLedger::finish: only a held reservation changes.
FinishReservation(n, state) == [ledger EXCEPT ![n] = IF @ = "reserved" THEN state ELSE @]

RecordedAs(outcome) ==
  CASE outcome = "settled" -> "completed"
    [] outcome \in {"lost", "unknown"} -> "unknown"
    [] OTHER -> "failed"

Receive(o, n) ==
  LET outcome == verdict[o][n]
      l == [loops[o] EXCEPT !.phase = "loop", !.sent = @ \ {n}, !.inFlight = @ \ {n}] IN
  /\ loops[o].phase = "recv"
  /\ n \in loops[o].sent
  /\ ledger' = FinishReservation(n, RecordedAs(outcome))
  /\ SetLoop(o, Settle(l, n, outcome))
  /\ UNCHANGED <<plan, reserved, cancel, verdict, runs, paid>>

\* on_cancel: what is in flight, reported or not, is retained as unknown.
Abandon(o) ==
  [n \in Nodes |-> IF n \in loops[o].inFlight /\ ledger[n] = "reserved"
                   THEN "unknown" ELSE ledger[n]]

StopDispatching(o) ==
  /\ loops[o].phase = "loop"
  /\ Free(loops[o])
  /\ cancel[o]
  /\ ledger' = Abandon(o)
  /\ SetLoop(o, [loops[o] EXCEPT !.phase = "joining"])
  /\ UNCHANGED <<plan, reserved, cancel, verdict, runs, paid>>

\* The scope ends when its threads have; what they report is not read.
EndCancelled(o) ==
  /\ loops[o].phase = "joining"
  /\ loops[o].running = {}
  /\ SetLoop(o, [loops[o] EXCEPT !.phase = "cancelled"])
  /\ UNCHANGED <<plan, ledger, reserved, cancel, verdict, runs, paid>>

\* The join; when nodes are left without an outcome it is refused as a cycle.
Finish(o) ==
  LET l == loops[o] IN
  /\ l.phase = "loop"
  /\ ~cancel[o]
  /\ l.inFlight = {} /\ l.ready = {}
  /\ SetLoop(o, [l EXCEPT !.phase = "done"])
  /\ UNCHANGED <<plan, ledger, reserved, cancel, verdict, runs, paid>>

LoopStep(o) ==
  \/ Refuse(o) \/ Consider(o) \/ Reserve(o) \/ AwaitBranch(o)
  \/ \E n \in Nodes : Receive(o, n)
  \/ StopDispatching(o) \/ EndCancelled(o) \/ Finish(o)

RegionNext ==
  \E o \in Owners :
    Start(o) \/ Cancel(o) \/ LoopStep(o) \/ \E n \in Nodes : Branch(o, n)

RegionSpec == RegionInit /\ [][RegionNext]_regionVars

\* The loop is a thread that does nothing else, and the executor answers every
\* branch (a thread that never ends is outside the promise of drive).
FairRegionSpec ==
  RegionSpec /\ \A o \in Owners : WF_regionVars(LoopStep(o)) /\ \A n \in Nodes : WF_regionVars(Branch(o, n))

-----------------------------------------------------------------------------
(* Properties.                                                             *)

\* Types, the cap on threads, and the aggregate: it is the sum of what is reserved
\* and never exceeds the limit.  The run has one loop after another; that it also holds
\* of loops that race for the last units is theorem BudgetAndJoinHold, for any Owners.
WithinBudget ==
  /\ ledger \in [Nodes -> ReservationStates]
  /\ \A o \in Owners :
       /\ loops[o].phase \in {"idle", "loop", "reserve", "recv", "joining", "done", "cancelled"}
       /\ loops[o].running \union loops[o].sent \subseteq loops[o].inFlight
       /\ Cardinality(loops[o].running) <= Cap
       /\ DOMAIN loops[o].outcomes \subseteq Nodes
       /\ \A n \in DOMAIN loops[o].outcomes : loops[o].outcomes[n] \in Outcomes
  /\ reserved = Units * Cardinality({n \in Nodes : ledger[n] # "none"})
  /\ reserved <= Limit

\* A branch that may have reached the provider is not dispatched again, across
\* failures, lost branches, cancellations and further executions, when one loop at a time
\* works with the ledger.
InferredOnce == \A n \in Nodes : paid[n] <= 1

\* A definite failure is the only state of the ledger from which a branch can run
\* again, and it is recorded only for a branch that ended without a write.
FailureIsDefinite ==
  \A n \in Nodes : ledger[n] = "failed" => paid[n] = 0

\* A join says of every node what happened to it.  A node whose inputs settled has the
\* executor's answer; otherwise either the budget had no room for it and has none since
\* (BudgetExhausted), or an earlier or another execution has dispatched it (Unknown),
\* which no node of the first execution with a ledger is told.  A node with an input that
\* did not settle says so, and no node that can have an outcome is left out.  Which nodes
\* the last units of a budget go to is not fixed: see JoinOrderFree.
JoinFaithful ==
  \A o \in Owners :
    LET l == loops[o] IN
    l.phase = "done" =>
      /\ \A n \in DOMAIN l.outcomes :
           /\ plan[n] \subseteq DOMAIN l.outcomes
           /\ l.outcomes[n] = "unsettled_input" <=> Unsettled(l, n)
           /\ ~Unsettled(l, n) => \/ l.outcomes[n] = verdict[o][n]
                                  \/ l.outcomes[n] = "exhausted" /\ ledger[n] = "none" /\ ~HasRoom
                                  \/ l.outcomes[n] = "unknown" /\ ledger[n] # "none" /\ runs > 1
      /\ \A n \in Nodes \ DOMAIN l.outcomes : ~(plan[n] \subseteq DOMAIN l.outcomes)

\* The outcomes of a first execution with the answers v in which the branches end in the
\* order of their identities.
InOrderJoin(v) ==
  LET Spent(l) == Units * Cardinality({n \in DOMAIN l.outcomes : l.outcomes[n] \in Verdicts}
                                        \union l.inFlight)
      Taken(l, n) ==
        IF Unsettled(l, n) THEN Settle(l, n, "unsettled_input")
        ELSE IF Spent(l) + Units > Limit THEN Settle(l, n, "exhausted")
        ELSE [l EXCEPT !.inFlight = @ \union {n}]
      Ended(l, n) == Settle([l EXCEPT !.inFlight = @ \ {n}], n, v[n])
      after[k \in 0..2 * Cardinality(Nodes)] ==
        IF k = 0 THEN [Idle EXCEPT !.ready = {n \in Nodes : plan[n] = {}}]
        ELSE LET l == after[k - 1] IN
             IF Free(l) /\ l.ready # {} THEN Taken(Popped(l), First(l))
             ELSE IF l.inFlight # {} THEN Ended(l, Min(l.inFlight))
             ELSE l IN
  after[2 * Cardinality(Nodes)].outcomes

\* "Results are joined by node identity, so the joined ordering and join_digest do not
\* depend on completion timing" (dynamic_parallel.rs:9-10): the join of an execution with a
\* fresh ledger is the one of any other order of completion.  With a budget it is not: the
\* branch that ends first makes its dependent ready, which then takes the last units.
JoinOrderFree ==
  \A o \in Owners :
    loops[o].phase = "done" /\ runs = 1 => loops[o].outcomes = InOrderJoin(verdict[o])

\* A loop ends, with a join or cancelled.
LoopEnds ==
  \A o \in Owners : (loops[o].phase = "loop") ~> (loops[o].phase \in {"done", "cancelled"})

\* The budget is never exceeded, a branch that may have been paid for is not run again, and
\* the join says of every node what happened to it, in whatever order branches end.
RegionSound == WithinBudget /\ InferredOnce /\ FailureIsDefinite /\ JoinFaithful
=============================================================================
