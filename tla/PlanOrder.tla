----------------------------- MODULE PlanOrder -----------------------------
(***************************************************************************)
(* validate_plan and execute_plan of the dynamic analysis route: the scan  *)
(* of the node list, the topological sort over the edges, and the serial   *)
(* execution in that order.  PlanNodes are numbered in the order of their  *)
(* identities; an Analyze node has no inputs of its own.                   *)
(***************************************************************************)
EXTENDS Naturals, FiniteSets, SequencesExt

CONSTANTS PlanNodes,
          Listings,   \* orders in which the plan lists its nodes
          MaxEdges

ASSUME PlanAssumption == PlanNodes \subseteq Nat /\ IsFiniteSet(PlanNodes) /\ MaxEdges \in Nat

VARIABLES listing, inputs, edges,   \* the plan; inputs are those of Decide nodes
          phase,
          incoming, queue, order,   \* of the sort
          values                    \* of the serial execution

planVars == <<listing, inputs, edges, phase, incoming, queue, order, values>>
thePlan == <<listing, inputs, edges>>

PlanInit ==
  /\ listing \in Listings
  /\ inputs \in [PlanNodes -> {{}} \union {{n} : n \in PlanNodes}]
  /\ edges \in SUBSET (PlanNodes \X PlanNodes)
  /\ Cardinality(edges) <= MaxEdges
  /\ phase = "scan"
  /\ incoming = [n \in PlanNodes |-> 0]
  /\ queue = <<>> /\ order = <<>> /\ values = {}

\* The nodes listed up to and with n.
ListedBefore(n) ==
  {listing[k] : k \in 1..(CHOOSE k \in DOMAIN listing : listing[k] = n)}

\* The order of the identities, in which incoming is read.
Ascending(s) == \A i, j \in DOMAIN s : i < j => s[i] < s[j]

\* A Decide node names inputs listed before it, or itself.
Scan ==
  /\ phase = "scan"
  /\ IF \E n \in PlanNodes : ~(inputs[n] \subseteq ListedBefore(n))
     THEN phase' = "missing_reference" /\ UNCHANGED <<incoming, queue>>
     ELSE LET count == [n \in PlanNodes |-> Cardinality({e \in edges : e[2] = n})] IN
          /\ phase' = "sort"
          /\ incoming' = count
          /\ \E s \in SetToSeqs({n \in PlanNodes : count[n] = 0}) : Ascending(s) /\ queue' = s
  /\ UNCHANGED <<thePlan, order, values>>

\* Children whose last open edge comes from n.
Freed(n) == {c \in PlanNodes : <<n, c>> \in edges /\ incoming[c] = 1}

\* The freed children join the queue in the order of the plan's edge list.
PopFront ==
  LET n == Head(queue) IN
  /\ phase = "sort"
  /\ queue # <<>>
  /\ order' = Append(order, n)
  /\ incoming' = [c \in PlanNodes |-> IF <<n, c>> \in edges THEN incoming[c] - 1 ELSE incoming[c]]
  /\ \E s \in SetToSeqs(Freed(n)) : queue' = Tail(queue) \o s
  /\ UNCHANGED <<thePlan, phase, values>>

SortedUnchecked ==
  /\ phase = "sort"
  /\ queue = <<>>
  /\ phase' = "execute"
  /\ UNCHANGED <<thePlan, incoming, queue, order, values>>
\* An ordered plan is executed; any other is refused.
Sorted ==
  /\ phase = "sort"
  /\ queue = <<>>
  /\ phase' = IF Len(order) = Cardinality(PlanNodes) THEN "execute" ELSE "cycle"
  /\ UNCHANGED <<thePlan, incoming, queue, order, values>>

\* execute_plan: the next node of the order is analysed, or lacks an input.
Execute ==
  LET n == order[Cardinality(values) + 1] IN
  /\ phase = "execute"
  /\ Cardinality(values) < Len(order)
  /\ IF inputs[n] \subseteq values
     THEN values' = values \union {n} /\ UNCHANGED phase
     ELSE phase' = "input_missing" /\ UNCHANGED values
  /\ UNCHANGED <<thePlan, incoming, queue, order>>

\* The executor refuses the next node.
ExecuteFails ==
  /\ phase = "execute"
  /\ Cardinality(values) < Len(order)
  /\ inputs[order[Cardinality(values) + 1]] \subseteq values
  /\ phase' = "failed"
  /\ UNCHANGED <<thePlan, incoming, queue, order, values>>

Executed ==
  /\ phase = "execute"
  /\ Cardinality(values) = Len(order)
  /\ phase' = "done"
  /\ UNCHANGED <<thePlan, incoming, queue, order, values>>

PlanNext == Scan \/ PopFront \/ Sorted \/ Execute \/ ExecuteFails \/ Executed

PlanSpec == PlanInit /\ [][PlanNext]_planVars

-----------------------------------------------------------------------------
(* Properties.                                                             *)

\* Some nodes each have a predecessor among themselves.
Cyclic(r) == \E S \in (SUBSET PlanNodes) \ {{}} : \A n \in S : \E m \in S : <<m, n>> \in r

\* An accepted order has every node once and every edge forward.
OrderIsTopological ==
  phase \in {"execute", "input_missing", "failed", "done"} =>
    /\ ToSet(order) = PlanNodes /\ Len(order) = Cardinality(PlanNodes)
    /\ \A i, j \in DOMAIN order : <<order[i], order[j]>> \in edges => i < j

\* A plan is refused as a cycle exactly when its edges have one.
CycleIsReal ==
  /\ phase = "cycle" => Cyclic(edges)
  /\ phase \in {"execute", "input_missing", "failed", "done"} => ~Cyclic(edges)

\* An accepted plan is executed in an order that has every node once and every edge
\* forward, and a plan is refused as a cycle exactly when its edges have one.
PlanOrderSound == OrderIsTopological /\ CycleIsReal
=============================================================================
