----------------------------- MODULE MCWorkflow -----------------------------
(***************************************************************************)
(* The instance scheduler, the bounded analysis route and the plan order   *)
(* for TLC.  They share no state, so a behaviour of the three is           *)
(* interleaved from behaviours of each: one part moves and the others stay *)
(* where they began.                                                       *)
(***************************************************************************)
EXTENDS InstanceScheduler, ParallelRegion, PlanOrder

CONSTANTS i1, i2, i3

VARIABLE part   \* which of them moves

\* Each instance has a lane of its own; the first also a stale epoch, and the last
\* shares a namespace with it.
SmallBindings ==
  {[instance |-> i1, namespace |-> 1, epoch |-> 1],
   [instance |-> i1, namespace |-> 1, epoch |-> 2],
   [instance |-> i2, namespace |-> 2, epoch |-> 1],
   [instance |-> i3, namespace |-> 1, epoch |-> 1]}

\* A chain beside a free node, a join of two, and one whose decision input and edge
\* form a cycle.
ThreePlans ==
  {<<{}, {1}, {}>>, <<{}, {}, {1, 2}>>, <<{2}, {1}, {}>>}

AllListings == SetToSeqs(PlanNodes)

WorkflowInit ==
  /\ SchedulerInit /\ RegionInit /\ PlanInit
  /\ \/ part = "scheduler"
     \/ part = "region"
     \/ part = "order"
  /\ part # "region" => plan = CHOOSE p \in Plans : TRUE
  /\ part # "order" =>
       /\ listing = CHOOSE l \in Listings : TRUE
       /\ edges = {} /\ \A n \in PlanNodes : inputs[n] = {}

SchedulerPart(A) == part = "scheduler" /\ A /\ UNCHANGED <<part, regionVars, planVars>>
RegionPart(A) == part = "region" /\ A /\ UNCHANGED <<part, schedulerVars, planVars>>
OrderPart(A) == part = "order" /\ A /\ UNCHANGED <<part, schedulerVars, regionVars>>

WorkflowNext == SchedulerPart(SchedulerNext) \/ RegionPart(RegionNext) \/ OrderPart(PlanNext)

workflowVars == <<part, schedulerVars, regionVars, planVars>>

\* The fairness of FairSchedulerSpec and FairRegionSpec.
WorkflowSpec ==
  /\ WorkflowInit /\ [][WorkflowNext]_workflowVars
  /\ WF_schedulerVars(SchedulerPart(NextWork))
  /\ \A o \in Owners :
       /\ WF_regionVars(RegionPart(LoopStep(o)))
       /\ \A n \in Nodes : WF_regionVars(RegionPart(Branch(o, n)))
=============================================================================
