--------------------------- MODULE WorkflowProofs ---------------------------
(***************************************************************************)
(* The bounded analysis route, the runtime v2 coordinator and the plan     *)
(* order, for any plans, owners, instances, operations and capacities.     *)
(*                                                                         *)
(* The route: what is ready, in flight or being admitted is exactly the    *)
(* frontier of the plan (Frontier), an outcome is the executor's or says   *)
(* why there is none (Answers), and a reservation is in the state that     *)
(* the loop which holds it supposes (PaidFor).  The last needs the loops   *)
(* not to share a ledger while they run, so it is stated for one owner;    *)
(* the budget and the join hold for any number of them.                    *)
(*                                                                         *)
(* The coordinator: ready has every idle lane with work and no busy one    *)
(* (Turns), a slot is taken exactly while one operation is active (Slots), *)
(* and an operation id is in one place (OnePlace).  Each is needed to keep *)
(* the others: a turn is not lost by cancellation because the stale entry  *)
(* stays, and next_work may skip stale entries because their queues are    *)
(* empty.                                                                  *)
(*                                                                         *)
(* The order: the count of a node is the number of its open edges, and it  *)
(* is queued or ordered exactly when there are none (Sorting).  The nodes  *)
(* that are left when the queue is empty each have a predecessor among     *)
(* themselves; and a cycle of an accepted plan would have a first node in  *)
(* the order.                                                              *)
(***************************************************************************)
EXTENDS ParallelRegion, InstanceScheduler, PlanOrder, FiniteSetTheorems, SequenceTheorems,
        WellFoundedInduction, NaturalsInduction, TLAPS

-----------------------------------------------------------------------------
(* Lists without repetition.                                               *)

\* Membership of a list, as the model and as the proofs say it.
LEMMA ContainsIs ==
  ASSUME NEW S, NEW s \in Seq(S), NEW e
  PROVE  /\ Contains(s, e) <=> e \in ToSet(s)
         /\ DOMAIN s = 1..Len(s) /\ ToSet(s) \subseteq S
<1>1. DOMAIN s = 1..Len(s)
  OBVIOUS
<1>2. Contains(s, e) <=> e \in ToSet(s)
  BY <1>1 DEF Contains, ToSet
<1>3. ToSet(s) \subseteq S
  BY <1>1 DEF ToSet
<1>4. QED
  BY <1>1, <1>2, <1>3

\* A queue without its k-th item.
LEMMA WithoutItem ==
  ASSUME NEW S, NEW q \in Seq(S), IsInjective(q), NEW k \in 1..Len(q), NEW r \in Seq(S),
         Len(r) = Len(q) - 1, \A m \in 1..Len(r) : m < k => r[m] = q[m],
         \A m \in 1..Len(r) : ~(m < k) => r[m] = q[m + 1]
  PROVE  ToSet(r) = ToSet(q) \ {q[k]} /\ IsInjective(r)
<1>1. Len(q) \in Nat /\ Len(r) \in Nat /\ DOMAIN q = 1..Len(q) /\ DOMAIN r = 1..Len(r)
  OBVIOUS
<1>2. \A m, n \in 1..Len(q) : q[m] = q[n] => m = n
  BY <1>1 DEF IsInjective
<1>3. ASSUME NEW m \in 1..Len(r)
      PROVE  \E n \in 1..Len(q) : n # k /\ r[m] = q[n] /\ n = IF m < k THEN m ELSE m + 1
  <2>1. CASE m < k
    BY <1>1, <2>1
  <2>2. CASE ~(m < k)
    BY <1>1, <2>2
  <2>3. QED
    BY <2>1, <2>2
<1>4. ToSet(r) \subseteq ToSet(q) \ {q[k]}
  <2>1. ASSUME NEW m \in 1..Len(r) PROVE r[m] \in ToSet(q) \ {q[k]}
    <3>1. PICK n \in 1..Len(q) : n # k /\ r[m] = q[n]
      BY <1>3
    <3>2. q[n] # q[k]
      BY <1>2, <3>1
    <3>3. QED
      BY <1>1, <3>1, <3>2 DEF ToSet
  <2>2. QED
    BY <1>1, <2>1 DEF ToSet
<1>5. ASSUME NEW n \in 1..Len(q), n # k PROVE q[n] \in ToSet(r)
  <2>1. CASE n < k
    <3>1. n \in 1..Len(r) /\ r[n] = q[n]
      BY <1>1, <2>1
    <3>2. QED
      BY <1>1, <3>1 DEF ToSet
  <2>2. CASE ~(n < k)
    <3>1. n - 1 \in 1..Len(r) /\ ~(n - 1 < k) /\ (n - 1) + 1 = n
      BY <1>1, <1>5, <2>2
    <3>2. r[n - 1] = q[n]
      BY <3>1
    <3>3. QED
      BY <1>1, <3>1, <3>2 DEF ToSet
  <2>3. QED
    BY <2>1, <2>2
<1>6. ToSet(q) \ {q[k]} \subseteq ToSet(r)
  BY <1>1, <1>5 DEF ToSet
<1>7. IsInjective(r)
  <2>1. ASSUME NEW m \in 1..Len(r), NEW n \in 1..Len(r), r[m] = r[n] PROVE m = n
    <3>1. PICK a \in 1..Len(q) : r[m] = q[a] /\ a = IF m < k THEN m ELSE m + 1
      BY <1>3
    <3>2. PICK b \in 1..Len(q) : r[n] = q[b] /\ b = IF n < k THEN n ELSE n + 1
      BY <1>3
    <3>3. a = b
      BY <1>2, <2>1, <3>1, <3>2
    <3>4. QED
      BY <1>1, <3>1, <3>2, <3>3
  <2>2. QED
    BY <1>1, <2>1 DEF IsInjective
<1>8. QED
  BY <1>4, <1>6, <1>7

\* cancel_queued takes one item out of a queue.
LEMMA RemoveKeeps ==
  ASSUME NEW S, NEW q \in Seq(S), IsInjective(q), NEW k \in DOMAIN q, NEW r, r = RemoveAt(q, k)
  PROVE  r \in Seq(S) /\ Len(r) = Len(q) - 1 /\ ToSet(r) = ToSet(q) \ {q[k]} /\ IsInjective(r)
<1>1. Len(q) \in Nat /\ k \in 1..Len(q) /\ DOMAIN q = 1..Len(q)
  OBVIOUS
<1>2. PICK a, b : a = SubSeq(q, 1, k - 1) /\ b = SubSeq(q, k + 1, Len(q))
  OBVIOUS
<1>3. a \in Seq(S) /\ Len(a) = k - 1 /\ \A m \in 1..Len(a) : a[m] = q[m]
  <2>1. \A m \in 1..(k - 1) : q[m] \in S
    BY <1>1
  <2>2. QED
    BY <1>1, <1>2, <2>1
<1>4. b \in Seq(S) /\ Len(b) = Len(q) - k /\ \A m \in 1..Len(b) : b[m] = q[k + m]
  <2>1. \A m \in (k + 1)..Len(q) : q[m] \in S
    BY <1>1
  <2>2. QED
    BY <1>1, <1>2, <2>1
<1>5. /\ r = a \o b /\ r \in Seq(S) /\ Len(r) = Len(a) + Len(b)
      /\ \A m \in 1..(Len(a) + Len(b)) : r[m] = IF m <= Len(a) THEN a[m] ELSE b[m - Len(a)]
  <2>1. r = a \o b
    BY <1>2 DEF RemoveAt
  <2>2. a \in Seq(S) /\ b \in Seq(S)
    BY <1>3, <1>4
  <2>3. QED
    BY <2>1, <2>2, ConcatProperties
<1>6. Len(r) = Len(q) - 1
  BY <1>1, <1>3, <1>4, <1>5
<1>7. ASSUME NEW m \in 1..Len(r) PROVE r[m] = IF m < k THEN q[m] ELSE q[m + 1]
  <2>1. CASE m < k
    <3>1. m \in 1..Len(a) /\ m <= Len(a) /\ m \in 1..(Len(a) + Len(b))
      BY <1>1, <1>3, <1>4, <1>5, <2>1
    <3>2. QED
      BY <1>3, <1>5, <2>1, <3>1
  <2>2. CASE ~(m < k)
    <3>1. m - Len(a) \in 1..Len(b) /\ ~(m <= Len(a)) /\ m \in 1..(Len(a) + Len(b))
          /\ k + (m - Len(a)) = m + 1
      BY <1>1, <1>3, <1>4, <1>5, <2>2
    <3>2. r[m] = b[m - Len(a)] /\ b[m - Len(a)] = q[k + (m - Len(a))]
      BY <1>4, <1>5, <3>1
    <3>3. QED
      BY <2>2, <3>1, <3>2
  <2>3. QED
    BY <2>1, <2>2
<1>8. ToSet(r) = ToSet(q) \ {q[k]} /\ IsInjective(r)
  <2>1. /\ \A m \in 1..Len(r) : m < k => r[m] = q[m]
        /\ \A m \in 1..Len(r) : ~(m < k) => r[m] = q[m + 1]
    BY <1>7
  <2>2. k \in 1..Len(q) /\ r \in Seq(S) /\ Len(r) = Len(q) - 1
    BY <1>1, <1>5, <1>6
  <2>3. QED
    BY <2>1, <2>2, WithoutItem
<1>9. QED
  BY <1>5, <1>6, <1>8

\* next_work and the sort take the first item of a queue.
LEMMA TailKeeps ==
  ASSUME NEW S, NEW q \in Seq(S), IsInjective(q), q # <<>>, NEW r, r = Tail(q)
  PROVE  /\ r \in Seq(S) /\ Len(r) = Len(q) - 1 /\ ToSet(r) = ToSet(q) \ {Head(q)} /\ IsInjective(r)
         /\ Head(q) \in ToSet(q) /\ Head(q) \in S
<1>1. Len(q) \in Nat \ {0} /\ DOMAIN q = 1..Len(q) /\ Head(q) = q[1] /\ 1 \in 1..Len(q)
  OBVIOUS
<1>2. r \in Seq(S) /\ Len(r) = Len(q) - 1 /\ \A m \in 1..Len(r) : r[m] = q[m + 1]
  BY <1>1
<1>3. /\ \A m \in 1..Len(r) : m < 1 => r[m] = q[m]
      /\ \A m \in 1..Len(r) : ~(m < 1) => r[m] = q[m + 1]
  BY <1>1, <1>2
<1>4. ToSet(r) = ToSet(q) \ {q[1]} /\ IsInjective(r)
  BY <1>1, <1>2, <1>3, WithoutItem
<1>5. q[1] \in ToSet(q) /\ q[1] \in S
  BY <1>1 DEF ToSet
<1>6. QED
  BY <1>1, <1>2, <1>4, <1>5

\* An item that is not in a list joins its end.
LEMMA AppendKeeps ==
  ASSUME NEW S, NEW q \in Seq(S), IsInjective(q), NEW e \in S, e \notin ToSet(q)
  PROVE  ToSet(Append(q, e)) = ToSet(q) \union {e} /\ IsInjective(Append(q, e))
<1>0. PICK r : r = Append(q, e)
  OBVIOUS
<1>1. Len(q) \in Nat /\ DOMAIN q = 1..Len(q)
  OBVIOUS
<1>2. /\ r \in Seq(S) /\ Len(r) = Len(q) + 1 /\ r[Len(q) + 1] = e /\ DOMAIN r = 1..(Len(q) + 1)
      /\ \A m \in 1..Len(q) : r[m] = q[m]
  BY <1>0, <1>1
<1>3. DOMAIN r = DOMAIN q \union {Len(q) + 1} /\ r # <<>>
  BY <1>1, <1>2
<1>4. ToSet(r) = ToSet(q) \union {e}
  BY <1>1, <1>2, <1>3 DEF ToSet
<1>5. \A m \in 1..Len(q) : r[m] # e
  BY <1>1, <1>2 DEF ToSet
<1>6. IsInjective(r)
  BY <1>1, <1>2, <1>3, <1>5 DEF IsInjective
<1>7. QED
  BY <1>0, <1>4, <1>6

\* A list of each member of a finite set.
LEMMA EachOnce ==
  ASSUME NEW S, IsFiniteSet(S), NEW c \in SetToSeqs(S)
  PROVE  c \in Seq(S) /\ Len(c) = Cardinality(S) /\ ToSet(c) = S /\ IsInjective(c)
<1>1. PICK n \in Nat : n = Cardinality(S)
  BY FS_CardinalityType
<1>2. c \in [1..n -> S] /\ \A i, j \in 1..n : i # j => c[i] # c[j]
  BY <1>1 DEF SetToSeqs
<1>3. c \in Seq(S) /\ Len(c) = n /\ DOMAIN c = 1..n
  BY <1>1, <1>2
<1>4. IsInjective(c)
  BY <1>2, <1>3 DEF IsInjective
<1>5. c \in Injection(1..n, S)
  BY <1>2, <1>4 DEF Injection
<1>6. Cardinality(1..n) = n
  <2>1. 1 \in Int /\ n \in Int
    BY <1>1
  <2>2. Cardinality(1..n) = IF 1 > n THEN 0 ELSE n - 1 + 1
    BY <2>1, FS_Interval
  <2>3. QED
    BY <1>1, <2>2
<1>7. c \in Surjection(1..n, S)
  BY <1>1, <1>5, <1>6, FS_Injection
<1>8. \A t \in S : \E i \in 1..n : c[i] = t
  BY <1>7 DEF Surjection
<1>9. ToSet(c) = S
  BY <1>2, <1>3, <1>8 DEF ToSet
<1>10. QED
  BY <1>1, <1>3, <1>4, <1>9

\* Two lists without a common item, one after the other.
LEMMA ConcatKeeps ==
  ASSUME NEW S, NEW s \in Seq(S), NEW c \in Seq(S), IsInjective(s), IsInjective(c),
         ToSet(s) \intersect ToSet(c) = {}
  PROVE  s \o c \in Seq(S) /\ ToSet(s \o c) = ToSet(s) \union ToSet(c) /\ IsInjective(s \o c)
<1>1. Len(s) \in Nat /\ Len(c) \in Nat
  OBVIOUS
<1>2. PICK all : all = s \o c
  OBVIOUS
<1>3. /\ all \in Seq(S) /\ Len(all) = Len(s) + Len(c)
      /\ \A k \in 1..Len(s) : all[k] = s[k]
      /\ \A k \in 1..Len(c) : all[Len(s) + k] = c[k]
  BY <1>2, ConcatProperties
<1>4. DOMAIN all = 1..Len(all) /\ DOMAIN s = 1..Len(s) /\ DOMAIN c = 1..Len(c)
  BY <1>3
<1>5. \A m \in 1..Len(s) : s[m] \in ToSet(s)
  BY <1>4 DEF ToSet
<1>6. \A m \in 1..Len(c) : c[m] \in ToSet(c)
  BY <1>4 DEF ToSet
<1>7. ASSUME NEW m \in 1..Len(all)
      PROVE  \/ m \in 1..Len(s) /\ all[m] = s[m]
             \/ m - Len(s) \in 1..Len(c) /\ all[m] = c[m - Len(s)]
  <2>1. CASE m \in 1..Len(s)
    BY <1>3, <2>1
  <2>2. CASE m \notin 1..Len(s)
    <3>1. m - Len(s) \in 1..Len(c) /\ Len(s) + (m - Len(s)) = m
      BY <1>1, <1>3, <2>2
    <3>2. QED
      BY <1>3, <3>1
  <2>3. QED
    BY <2>1, <2>2
<1>8. \A m, n \in 1..Len(all) : all[m] = all[n] => m = n
  <2>1. SUFFICES ASSUME NEW m \in 1..Len(all), NEW n \in 1..Len(all), all[m] = all[n] PROVE m = n
    OBVIOUS
  <2>2. CASE m \in 1..Len(s) /\ n \in 1..Len(s)
    BY <1>3, <1>4, <2>1, <2>2 DEF IsInjective
  <2>3. CASE m \notin 1..Len(s) /\ n \notin 1..Len(s)
    <3>1. m - Len(s) \in 1..Len(c) /\ n - Len(s) \in 1..Len(c) /\ c[m - Len(s)] = c[n - Len(s)]
      BY <1>7, <2>1, <2>3
    <3>2. m - Len(s) = n - Len(s)
      BY <1>4, <3>1 DEF IsInjective
    <3>3. QED
      BY <1>1, <1>3, <3>2
  <2>4. CASE m \in 1..Len(s) /\ n \notin 1..Len(s)
    BY <1>3, <1>5, <1>6, <1>7, <2>1, <2>4
  <2>5. CASE m \notin 1..Len(s) /\ n \in 1..Len(s)
    BY <1>3, <1>5, <1>6, <1>7, <2>1, <2>5
  <2>6. QED
    BY <2>2, <2>3, <2>4, <2>5
<1>9. IsInjective(all)
  BY <1>4, <1>8 DEF IsInjective
<1>10. ASSUME NEW x \in ToSet(all) PROVE x \in ToSet(s) \union ToSet(c)
  <2>1. PICK m \in 1..Len(all) : x = all[m]
    BY <1>4, <1>10 DEF ToSet
  <2>2. QED
    BY <1>5, <1>6, <1>7, <2>1
<1>11. ASSUME NEW x \in ToSet(s) PROVE x \in ToSet(all)
  <2>1. PICK m \in 1..Len(s) : x = s[m]
    BY <1>4, <1>11 DEF ToSet
  <2>2. m \in 1..Len(all) /\ all[m] = x
    BY <1>1, <1>3, <2>1
  <2>3. QED
    BY <1>4, <2>2 DEF ToSet
<1>12. ASSUME NEW x \in ToSet(c) PROVE x \in ToSet(all)
  <2>1. PICK m \in 1..Len(c) : x = c[m]
    BY <1>4, <1>12 DEF ToSet
  <2>2. Len(s) + m \in 1..Len(all) /\ all[Len(s) + m] = x
    BY <1>1, <1>3, <2>1
  <2>3. QED
    BY <1>4, <2>2 DEF ToSet
<1>13. ToSet(all) = ToSet(s) \union ToSet(c)
  BY <1>10, <1>11, <1>12
<1>14. QED
  BY <1>2, <1>3, <1>9, <1>13

-----------------------------------------------------------------------------
(* The bounded analysis route.                                             *)

\* Where the loop of an owner can be.
Phases == {"idle", "loop", "reserve", "recv", "joining", "done", "cancelled"}

\* Outcomes of the nodes settled so far.
PartialOutcomes == UNION {[D -> Outcomes] : D \in SUBSET Nodes}

\* The state of one loop.
Loops == [phase: Phases, ready: SUBSET Nodes, outcomes: PartialOutcomes, inFlight: SUBSET Nodes,
          running: SUBSET Nodes, sent: SUBSET Nodes, node: Nodes \union {0}]

\* Nodes a loop has yet to settle.
Pending(l) == l.ready \union l.inFlight \union (IF l.phase = "reserve" THEN {l.node} ELSE {})

\* The frontier of the plan while the nodes of taken are between two places: what is
\* pending or settled has its inputs settled, and whatever has them is pending or settled.
Frontier(l, taken) ==
  /\ Pending(l) \intersect DOMAIN l.outcomes = {}
  /\ l.ready \intersect l.inFlight = {}
  /\ l.phase = "reserve" => l.node \in Nodes /\ l.node \notin l.ready \union l.inFlight
  /\ \A n \in Pending(l) \union DOMAIN l.outcomes : plan[n] \subseteq DOMAIN l.outcomes
  /\ \A n \in Nodes : plan[n] \subseteq DOMAIN l.outcomes =>
       n \in Pending(l) \union DOMAIN l.outcomes \union taken

\* What was dispatched had its inputs, and an outcome is the executor's or says why not.
Answers(l, v) ==
  /\ \A n \in Nodes : n \in Pending(l) /\ n \notin l.ready => ~Unsettled(l, n)
  /\ \A n \in DOMAIN l.outcomes :
       /\ l.outcomes[n] = "unsettled_input" <=> Unsettled(l, n)
       /\ ~Unsettled(l, n) => l.outcomes[n] \in {v[n], "exhausted", "unknown"}

\* Threads of a loop are of nodes in flight, and those are at most Cap.
Threads(l) ==
  /\ l.running \union l.sent \subseteq l.inFlight
  /\ l.running \intersect l.sent = {}
  /\ Cardinality(l.inFlight) <= Cap
  /\ l.phase = "reserve" => Cardinality(l.inFlight) < Cap
  /\ l.phase \in {"idle", "done"} => l.inFlight = {} /\ l.ready = {}
  /\ l.phase = "cancelled" => l.running = {}

\* All of it for the loop l and the verdicts v of its executor.
LoopOK(l, v) ==
  /\ l \in Loops /\ v \in [Nodes -> Verdicts]
  /\ Threads(l)
  /\ l.phase # "idle" => Frontier(l, {}) /\ Answers(l, v)

\* And for every owner.
LoopsInv ==
  /\ plan \in Plans
  /\ loops \in [Owners -> Loops] /\ verdict \in [Owners -> [Nodes -> Verdicts]]
  /\ \A o \in Owners : LoopOK(loops[o], verdict[o])

\* The nodes with a reservation, of whatever state.
Held == {n \in Nodes : ledger[n] # "none"}

\* What is reserved is what the reservations hold, and within the limit.
BudgetInv ==
  /\ ledger \in [Nodes -> ReservationStates]
  /\ reserved = Units * Cardinality(Held)
  /\ reserved <= Limit

\* What one loop l knows of the reservations and of what was paid.
PaidFor(l, v, n) ==
  /\ n \in l.running => paid[n] = 1
  /\ n \in l.sent /\ v[n] = "failed" => paid[n] = 0
  /\ n \in l.inFlight => ledger[n] = (IF l.phase \in {"joining", "cancelled"} THEN "unknown" ELSE "reserved")
  /\ l.phase = "reserve" /\ n = l.node => ledger[n] \in {"none", "failed"}

\* An inference is paid at most once, and never where a retry is allowed.
PaidInv ==
  /\ paid \in [Nodes -> {0, 1}]
  /\ \A n \in Nodes : ledger[n] \in {"none", "failed"} => paid[n] = 0
  /\ \A o \in Owners : \A n \in Nodes : PaidFor(loops[o], verdict[o], n)

\* One loop at a time works with the ledger.
OneOwner == \A o, p \in Owners : o = p

\* The inductive invariant of the bounded route.
RegionInv == LoopsInv /\ BudgetInv /\ (OneOwner => PaidInv)

\* Why the nodes of a loop l that have an outcome other than the executor's have it.
Reasons(l, v) ==
  \A n \in DOMAIN l.outcomes :
    /\ l.outcomes[n] = "exhausted" => ledger[n] = "none" /\ ~HasRoom
    /\ l.outcomes[n] = "unknown" /\ v[n] # "unknown" => ledger[n] # "none" /\ runs > 1

\* In the first execution a reservation is one of its own.
OwnReservations(l) ==
  \A n \in Nodes : ledger[n] # "none" => n \in l.inFlight \union DOMAIN l.outcomes

\* The inductive invariant of the reasons, beside RegionInv.
ReasonsInv ==
  /\ runs \in Nat /\ reserved \in Nat
  /\ runs = 0 => /\ \A o \in Owners : loops[o].phase = "idle"
                 /\ \A n \in Nodes : ledger[n] = "none"
  /\ runs <= 1 => \A o, p \in Owners : loops[o].phase # "idle" /\ loops[p].phase # "idle" => o = p
  /\ \A o \in Owners : loops[o].phase # "idle" =>
       Reasons(loops[o], verdict[o]) /\ (runs = 1 => OwnReservations(loops[o]))

\* The plan gives every node its inputs.
LEMMA PlanFacts ==
  ASSUME LoopsInv PROVE plan \in [Nodes -> SUBSET Nodes]
  BY RegionAssumption DEF LoopsInv

\* Every set of nodes is finite.
LEMMA NodesFinite ==
  ASSUME NEW S \in SUBSET Nodes
  PROVE  IsFiniteSet(S) /\ Cardinality(S) \in Nat
  BY RegionAssumption, FS_Subset, FS_CardinalityType

\* A set of numbers has a first member.
LEMMA FirstIs ==
  ASSUME NEW l, l.ready \in SUBSET Nodes, l.ready # {}
  PROVE  First(l) \in l.ready
<1>1. PICK m \in l.ready : \A i \in l.ready : <<i, m>> \notin OpToRel(<, Nat)
  BY NatLessThanWellFounded, WFMin, RegionAssumption
<1>2. \A i \in l.ready : i \in Nat /\ ~(i < m) /\ m \in Nat
  BY <1>1, RegionAssumption DEF OpToRel
<1>3. \A i \in l.ready : m =< i
  BY <1>2
<1>4. QED
  BY <1>1, <1>3 DEF First, Min

\* The invariant implies what the run checks.
LEMMA RegionInvSound ==
  ASSUME RegionInv, ReasonsInv
  PROVE  WithinBudget /\ JoinFaithful /\ (OneOwner => InferredOnce /\ FailureIsDefinite)
<1>1. WithinBudget
  <2>1. ASSUME NEW o \in Owners
        PROVE  /\ loops[o].phase \in {"idle", "loop", "reserve", "recv", "joining", "done", "cancelled"}
               /\ loops[o].running \union loops[o].sent \subseteq loops[o].inFlight
               /\ Cardinality(loops[o].running) <= Cap
               /\ DOMAIN loops[o].outcomes \subseteq Nodes
               /\ \A n \in DOMAIN loops[o].outcomes : loops[o].outcomes[n] \in Outcomes
    <3>1. loops[o] \in Loops /\ Threads(loops[o])
      BY DEF RegionInv, LoopsInv, LoopOK
    <3>2. PICK l : l = loops[o]
      OBVIOUS
    <3>3. l.inFlight \in SUBSET Nodes /\ l.running \subseteq l.inFlight
      BY <3>1, <3>2 DEF Loops, Threads
    <3>4. Cardinality(l.running) \in Nat /\ Cardinality(l.inFlight) \in Nat
          /\ Cardinality(l.running) <= Cardinality(l.inFlight)
      BY <3>3, NodesFinite, FS_Subset
    <3>5. Cardinality(l.running) <= Cap
      BY <3>1, <3>2, <3>4, RegionAssumption DEF Threads
    <3>6. DOMAIN l.outcomes \subseteq Nodes /\ \A n \in DOMAIN l.outcomes : l.outcomes[n] \in Outcomes
      BY <3>1, <3>2 DEF Loops, PartialOutcomes
    <3>7. QED
      BY <3>1, <3>2, <3>5, <3>6 DEF Loops, Phases, Threads
  <2>2. QED
    BY <2>1 DEF WithinBudget, RegionInv, BudgetInv, Held
<1>2. JoinFaithful
  <2>1. ASSUME NEW o \in Owners, loops[o].phase = "done"
        PROVE  LET l == loops[o] IN
               /\ \A n \in DOMAIN l.outcomes :
                    /\ plan[n] \subseteq DOMAIN l.outcomes
                    /\ l.outcomes[n] = "unsettled_input" <=> Unsettled(l, n)
                    /\ ~Unsettled(l, n) => \/ l.outcomes[n] = verdict[o][n]
                                           \/ l.outcomes[n] = "exhausted" /\ ledger[n] = "none" /\ ~HasRoom
                                           \/ l.outcomes[n] = "unknown" /\ ledger[n] # "none" /\ runs > 1
               /\ \A n \in Nodes \ DOMAIN l.outcomes : ~(plan[n] \subseteq DOMAIN l.outcomes)
    <3>1. Threads(loops[o]) /\ Frontier(loops[o], {}) /\ Answers(loops[o], verdict[o])
      BY <2>1 DEF RegionInv, LoopsInv, LoopOK
    <3>2. Pending(loops[o]) = {}
      BY <2>1, <3>1 DEF Threads, Pending
    <3>3. Reasons(loops[o], verdict[o])
      BY <2>1 DEF ReasonsInv
    <3>4. QED
      BY <3>1, <3>2, <3>3 DEF Frontier, Answers, Reasons
  <2>2. QED
    BY <2>1 DEF JoinFaithful
<1>3. OneOwner => InferredOnce /\ FailureIsDefinite
  BY DEF RegionInv, PaidInv, InferredOnce, FailureIsDefinite
<1>4. QED
  BY <1>1, <1>2, <1>3

\* It holds before any loop has started.
LEMMA RegionStarts == RegionInit => RegionInv
<1> SUFFICES ASSUME RegionInit PROVE RegionInv
  OBVIOUS
<1>1. <<>> \in [{} -> Outcomes] /\ <<>> \in PartialOutcomes
  BY DEF PartialOutcomes
<1>2. Idle \in Loops
  BY <1>1 DEF Idle, Loops, Phases
<1>3. Threads(Idle)
  BY FS_EmptySet, RegionAssumption DEF Idle, Threads
<1>4. LoopsInv
  <2>1. ASSUME NEW o \in Owners PROVE LoopOK(loops[o], verdict[o])
    BY <1>2, <1>3 DEF RegionInit, LoopOK, Idle, Verdicts
  <2>2. QED
    BY <1>2, <2>1 DEF LoopsInv, RegionInit, Verdicts
<1>5. Held = {}
  BY DEF RegionInit, Held
<1>6. Cardinality(Held) = 0
  BY <1>5, FS_EmptySet
<1>7. BudgetInv
  BY <1>6, RegionAssumption DEF BudgetInv, RegionInit, ReservationStates
<1>8. PaidInv
  BY DEF PaidInv, PaidFor, RegionInit, Idle
<1>9. QED
  BY <1>4, <1>7, <1>8 DEF RegionInv

\* The conditions on a loop read the plan and nothing else that moves.
LEMMA SamePlan ==
  ASSUME plan' = plan, NEW x, NEW y
  PROVE  LoopOK(x, y)' <=> LoopOK(x, y)
  BY DEF LoopOK, Threads, Frontier, Answers, Unsettled

\* One loop moves and the others stay.
LEMMA OneLoop ==
  ASSUME LoopsInv, NEW o \in Owners, NEW l, NEW v, plan' = plan, SetLoop(o, l),
         verdict' = [verdict EXCEPT ![o] = v], LoopOK(l, v)
  PROVE  LoopsInv'
<1>1. l \in Loops /\ v \in [Nodes -> Verdicts]
  BY DEF LoopOK
<1>2. ASSUME NEW p \in Owners PROVE LoopOK(loops[p], verdict[p])'
  <2>1. PICK x, y : x = loops'[p] /\ y = verdict'[p]
    OBVIOUS
  <2>2. LoopOK(x, y)
    BY <2>1 DEF LoopsInv, SetLoop
  <2>3. LoopOK(x, y)'
    BY <2>2, SamePlan
  <2>4. QED
    BY <2>1, <2>3
<1>3. QED
  BY <1>1, <1>2 DEF LoopsInv, SetLoop

\* JoinState::settle: the outcome of a node that was taken off the frontier, and the
\* dependents it makes ready.
LEMMA SettleKeeps ==
  ASSUME LoopsInv, NEW l \in Loops, NEW v \in [Nodes -> Verdicts], NEW n \in Nodes,
         NEW outcome \in Outcomes, l.phase = "loop",
         n \notin l.ready \union l.inFlight \union DOMAIN l.outcomes,
         plan[n] \subseteq DOMAIN l.outcomes,
         Threads(l), Frontier(l, {n}), Answers(l, v),
         outcome = "unsettled_input" <=> Unsettled(l, n),
         ~Unsettled(l, n) => outcome \in {v[n], "exhausted", "unknown"},
         NEW k, k = Settle(l, n, outcome)
  PROVE  /\ LoopOK(k, v)
         /\ k.phase = "loop" /\ k.inFlight = l.inFlight /\ k.running = l.running /\ k.sent = l.sent
<1>1. plan \in [Nodes -> SUBSET Nodes]
  BY PlanFacts
<1>2. PICK D \in SUBSET Nodes : l.outcomes \in [D -> Outcomes]
  BY DEF Loops, PartialOutcomes
<1>3. PICK known : known = [m \in DOMAIN l.outcomes \union {n} |-> IF m = n THEN outcome ELSE l.outcomes[m]]
  OBVIOUS
<1>4. /\ known \in [D \union {n} -> Outcomes] /\ DOMAIN known = D \union {n} /\ DOMAIN l.outcomes = D
      /\ known[n] = outcome /\ \A m \in D : known[m] = l.outcomes[m]
  BY <1>2, <1>3
<1>5. PICK new : new = {d \in Nodes : n \in plan[d] /\ plan[d] \subseteq DOMAIN known}
  OBVIOUS
<1>6. k = [l EXCEPT !.outcomes = known, !.ready = l.ready \union new]
  BY <1>3, <1>5 DEF Settle
<1>7. /\ k.phase = "loop" /\ k.inFlight = l.inFlight /\ k.running = l.running /\ k.sent = l.sent
      /\ k.outcomes = known /\ k.ready = l.ready \union new /\ k.node = l.node
  BY <1>6 DEF Loops
<1>8. known \in PartialOutcomes /\ new \subseteq Nodes
  BY <1>4, <1>5 DEF PartialOutcomes
<1>9. k \in Loops
  BY <1>6, <1>8 DEF Loops
<1>10. Threads(k)
  BY <1>7 DEF Threads
<1>11. Pending(k) = l.ready \union new \union l.inFlight /\ Pending(l) = l.ready \union l.inFlight
  BY <1>7 DEF Pending
<1>12. \A d \in new : d \in Nodes /\ n \in plan[d] /\ plan[d] \subseteq D \union {n}
  BY <1>4, <1>5
<1>13. \A m \in Pending(l) \union D : m \in Nodes /\ plan[m] \subseteq D /\ n \notin plan[m]
  BY <1>4, <1>11 DEF Frontier, Loops
<1>14. \A d \in new : d \notin Pending(l) \union D \union {n}
  BY <1>4, <1>12, <1>13
<1>15. Frontier(k, {})
  <2>1. Pending(k) \intersect DOMAIN k.outcomes = {}
    BY <1>4, <1>7, <1>11, <1>14 DEF Frontier
  <2>2. k.ready \intersect k.inFlight = {}
    BY <1>7, <1>11, <1>14 DEF Frontier
  <2>3. \A m \in Pending(k) \union DOMAIN k.outcomes : plan[m] \subseteq DOMAIN k.outcomes
    BY <1>4, <1>7, <1>11, <1>12, <1>13
  <2>4. ASSUME NEW m \in Nodes, plan[m] \subseteq DOMAIN k.outcomes
        PROVE  m \in Pending(k) \union DOMAIN k.outcomes
    <3>1. CASE n \in plan[m]
      BY <1>5, <1>7, <1>11, <2>4, <3>1
    <3>2. CASE n \notin plan[m]
      BY <1>4, <1>7, <1>11, <2>4, <3>2 DEF Frontier
    <3>3. QED
      BY <3>1, <3>2
  <2>5. QED
    BY <1>7, <2>1, <2>2, <2>3, <2>4 DEF Frontier
<1>16. \A m \in Nodes : plan[m] \subseteq D => (Unsettled(k, m) <=> Unsettled(l, m))
  BY <1>4, <1>7 DEF Unsettled
<1>17. Answers(k, v)
  <2>1. ASSUME NEW m \in Nodes, m \in Pending(k), m \notin k.ready PROVE ~Unsettled(k, m)
    BY <1>7, <1>11, <1>13, <1>16, <2>1 DEF Answers
  <2>2. ASSUME NEW m \in DOMAIN k.outcomes
        PROVE  /\ k.outcomes[m] = "unsettled_input" <=> Unsettled(k, m)
               /\ ~Unsettled(k, m) => k.outcomes[m] \in {v[m], "exhausted", "unknown"}
    <3>1. CASE m = n
      BY <1>4, <1>7, <1>16, <3>1
    <3>2. CASE m # n
      BY <1>4, <1>7, <1>13, <1>16, <3>2 DEF Answers
    <3>3. QED
      BY <3>1, <3>2
  <2>3. QED
    BY <2>1, <2>2 DEF Answers
<1>18. QED
  BY <1>7, <1>9, <1>10, <1>15, <1>17 DEF LoopOK

\* What is known of the loop that takes a step.
LEMMA LoopFacts ==
  ASSUME LoopsInv, NEW o \in Owners
  PROVE  /\ LoopOK(loops[o], verdict[o]) /\ loops[o] \in Loops /\ verdict[o] \in [Nodes -> Verdicts]
         /\ plan \in [Nodes -> SUBSET Nodes]
  BY PlanFacts DEF LoopsInv, LoopOK

\* What was paid for, when there is one loop and it takes a step.
LEMMA OnePaid ==
  ASSUME OneOwner, loops \in [Owners -> Loops], verdict \in [Owners -> [Nodes -> Verdicts]],
         NEW o \in Owners, NEW l, NEW v, SetLoop(o, l), verdict' = [verdict EXCEPT ![o] = v],
         paid' \in [Nodes -> {0, 1}],
         \A n \in Nodes : ledger'[n] \in {"none", "failed"} => paid'[n] = 0,
         \A n \in Nodes : PaidFor(l, v, n)'
  PROVE  PaidInv'
<1>1. \A p \in Owners : p = o
  BY DEF OneOwner
<1>2. loops'[o] = l /\ verdict'[o] = v
  BY DEF SetLoop
<1>3. ASSUME NEW p \in Owners, NEW n \in Nodes PROVE PaidFor(loops[p], verdict[p], n)'
  BY <1>1, <1>2 DEF PaidFor
<1>4. QED
  BY <1>3 DEF PaidInv

\* A step of one loop that leaves the ledger alone.
LEMMA LoopMoves ==
  ASSUME RegionInv, NEW o \in Owners, NEW l, NEW v, plan' = plan, ledger' = ledger,
         reserved' = reserved, paid' = paid, SetLoop(o, l), verdict' = [verdict EXCEPT ![o] = v],
         LoopOK(l, v),
         \A n \in Nodes : PaidFor(loops[o], verdict[o], n) => PaidFor(l, v, n)
  PROVE  RegionInv'
<1>1. LoopsInv'
  BY OneLoop DEF RegionInv
<1>2. BudgetInv'
  BY DEF RegionInv, BudgetInv, Held
<1>3. ASSUME OneOwner PROVE PaidInv'
  <2>1. PaidInv /\ loops \in [Owners -> Loops] /\ verdict \in [Owners -> [Nodes -> Verdicts]]
    BY <1>3 DEF RegionInv, LoopsInv
  <2>2. \A n \in Nodes : PaidFor(l, v, n)
    BY <2>1 DEF PaidInv
  <2>3. \A n \in Nodes : PaidFor(l, v, n)'
    BY <2>2 DEF PaidFor
  <2>4. paid' \in [Nodes -> {0, 1}] /\ \A n \in Nodes : ledger'[n] \in {"none", "failed"} => paid'[n] = 0
    BY <2>1 DEF PaidInv
  <2>5. QED
    BY <1>3, <2>1, <2>3, <2>4, OnePaid
<1>4. QED
  BY <1>1, <1>2, <1>3 DEF RegionInv

\* A step that changes nothing keeps it.
LEMMA RegionStutters ==
  ASSUME RegionInv, UNCHANGED <<plan, ledger, reserved, loops, verdict, paid>>
  PROVE  RegionInv'
<1>1. ASSUME NEW p \in Owners PROVE LoopOK(loops[p], verdict[p])'
  <2>1. PICK x, y : x = loops[p] /\ y = verdict[p]
    OBVIOUS
  <2>2. LoopOK(x, y)'
    BY <2>1, SamePlan DEF RegionInv, LoopsInv
  <2>3. QED
    BY <2>1, <2>2
<1>2. LoopsInv'
  BY <1>1 DEF RegionInv, LoopsInv
<1>3. BudgetInv' /\ (OneOwner => PaidInv')
  BY DEF RegionInv, BudgetInv, Held, PaidInv, PaidFor
<1>4. QED
  BY <1>2, <1>3 DEF RegionInv

\* The loop starts: the roots of the plan are ready.
LEMMA StartStep ==
  ASSUME RegionInv, NEW o \in Owners, Start(o)
  PROVE  RegionInv'
<1>1. PICK v \in [Nodes -> Verdicts] : verdict' = [verdict EXCEPT ![o] = v]
  BY DEF Start
<1>2. PICK l : l = [Idle EXCEPT !.phase = "loop", !.ready = {n \in Nodes : plan[n] = {}}]
  OBVIOUS
<1>3. /\ SetLoop(o, l) /\ plan' = plan /\ ledger' = ledger /\ reserved' = reserved /\ paid' = paid
  BY <1>2 DEF Start
<1>4. /\ l.phase = "loop" /\ l.ready = {n \in Nodes : plan[n] = {}} /\ l.outcomes = <<>>
      /\ l.inFlight = {} /\ l.running = {} /\ l.sent = {} /\ l.node = 0
  BY <1>2 DEF Idle
<1>5. <<>> \in PartialOutcomes /\ DOMAIN l.outcomes = {}
  <2>1. <<>> \in [{} -> Outcomes] /\ {} \in SUBSET Nodes
    OBVIOUS
  <2>2. <<>> \in PartialOutcomes
    BY <2>1 DEF PartialOutcomes
  <2>3. QED
    BY <1>4, <2>2
<1>6. l \in Loops
  BY <1>2, <1>5 DEF Idle, Loops, Phases
<1>7. Threads(l)
  BY <1>4, FS_EmptySet, RegionAssumption DEF Threads
<1>8. Pending(l) = {n \in Nodes : plan[n] = {}}
  BY <1>4 DEF Pending
<1>9. Frontier(l, {})
  BY <1>4, <1>5, <1>8 DEF Frontier
<1>10. Answers(l, v)
  BY <1>4, <1>5, <1>8 DEF Answers
<1>11. LoopOK(l, v)
  BY <1>6, <1>7, <1>9, <1>10 DEF LoopOK
<1>12. \A n \in Nodes : PaidFor(l, v, n)
  BY <1>4 DEF PaidFor
<1>13. QED
  BY <1>1, <1>3, <1>11, <1>12, LoopMoves

\* The loop takes the first ready node off.
LEMMA PoppedKeeps ==
  ASSUME LoopsInv, NEW x, NEW v, LoopOK(x, v), x.phase = "loop", x.ready # {},
         NEW n, n = First(x), NEW l, l = Popped(x)
  PROVE  /\ n \in Nodes /\ n \notin l.ready \union l.inFlight \union DOMAIN l.outcomes
         /\ plan[n] \subseteq DOMAIN l.outcomes
         /\ l \in Loops /\ l.phase = "loop" /\ l.outcomes = x.outcomes
         /\ l.inFlight = x.inFlight /\ l.running = x.running /\ l.sent = x.sent
         /\ l.ready = x.ready \ {n} /\ n \in x.ready
         /\ Threads(l) /\ Frontier(l, {n}) /\ Answers(l, v)
<1>1. x \in Loops /\ Threads(x) /\ Frontier(x, {}) /\ Answers(x, v)
  BY DEF LoopOK
<1>2. n \in x.ready /\ n \in Nodes
  BY <1>1, FirstIs DEF Loops
<1>3. /\ l \in Loops /\ l.phase = "loop" /\ l.outcomes = x.outcomes
      /\ l.inFlight = x.inFlight /\ l.running = x.running /\ l.sent = x.sent
      /\ l.ready = x.ready \ {n}
  BY <1>1, <1>2 DEF Popped, Loops
<1>4. Pending(x) = x.ready \union x.inFlight /\ Pending(l) = (x.ready \ {n}) \union x.inFlight
  BY <1>3 DEF Pending
<1>5. n \notin l.ready \union l.inFlight \union DOMAIN l.outcomes /\ plan[n] \subseteq DOMAIN l.outcomes
  BY <1>1, <1>2, <1>3, <1>4 DEF Frontier
<1>6. Threads(l)
  BY <1>1, <1>3 DEF Threads
<1>7. Frontier(l, {n})
  BY <1>1, <1>2, <1>3, <1>4 DEF Frontier
<1>8. \A m \in Nodes : Unsettled(l, m) <=> Unsettled(x, m)
  BY <1>3 DEF Unsettled
<1>9. DOMAIN x.outcomes \subseteq Nodes
  BY <1>1 DEF Loops, PartialOutcomes
<1>10. Answers(l, v)
  <2>1. ASSUME NEW m \in Nodes, m \in Pending(l), m \notin l.ready PROVE ~Unsettled(l, m)
    BY <1>1, <1>3, <1>4, <1>5, <1>8, <2>1 DEF Answers
  <2>2. ASSUME NEW m \in DOMAIN l.outcomes
        PROVE  /\ l.outcomes[m] = "unsettled_input" <=> Unsettled(l, m)
               /\ ~Unsettled(l, m) => l.outcomes[m] \in {v[m], "exhausted", "unknown"}
    BY <1>1, <1>3, <1>8, <1>9 DEF Answers
  <2>3. QED
    BY <2>1, <2>2 DEF Answers
<1>11. QED
  BY <1>2, <1>3, <1>5, <1>6, <1>7, <1>10

\* A node with an unsettled input is settled without an inference.
LEMMA RefuseStep ==
  ASSUME RegionInv, NEW o \in Owners, Refuse(o)
  PROVE  RegionInv'
<1>1. PICK x, v : x = loops[o] /\ v = verdict[o]
  OBVIOUS
<1>2. PICK n, l : n = First(x) /\ l = Popped(x)
  OBVIOUS
<1>3. LoopsInv /\ LoopOK(x, v) /\ v \in [Nodes -> Verdicts] /\ verdict \in [Owners -> [Nodes -> Verdicts]]
  BY <1>1, LoopFacts DEF RegionInv, LoopsInv
<1>4. x.phase = "loop" /\ x.ready # {} /\ plan' = plan /\ ledger' = ledger /\ reserved' = reserved
      /\ paid' = paid /\ verdict' = verdict
  BY <1>1 DEF Refuse, Dispatching
<1>5. /\ n \in Nodes /\ n \notin l.ready \union l.inFlight \union DOMAIN l.outcomes
      /\ plan[n] \subseteq DOMAIN l.outcomes
      /\ l \in Loops /\ l.phase = "loop"
      /\ l.inFlight = x.inFlight /\ l.running = x.running /\ l.sent = x.sent
      /\ Threads(l) /\ Frontier(l, {n}) /\ Answers(l, v)
  <2>1. LoopsInv /\ LoopOK(x, v) /\ x.phase = "loop" /\ x.ready # {}
    BY <1>3, <1>4
  <2>2. QED
    BY <1>2, <2>1, PoppedKeeps
<1>6. PICK outcome \in Outcomes :
        /\ SetLoop(o, Settle(l, n, outcome))
        /\ outcome = "unsettled_input" <=> Unsettled(l, n)
        /\ ~Unsettled(l, n) => outcome \in {v[n], "exhausted", "unknown"}
  <2>1. CASE Unsettled(l, n)
    BY <1>1, <1>2, <2>1 DEF Refuse, Outcomes
  <2>2. CASE ~Unsettled(l, n)
    BY <1>1, <1>2, <2>2 DEF Refuse, Outcomes, Verdicts
  <2>3. QED
    BY <2>1, <2>2
<1>7. PICK k : k = Settle(l, n, outcome)
  OBVIOUS
<1>8. /\ LoopOK(k, v)
      /\ k.phase = "loop" /\ k.inFlight = l.inFlight /\ k.running = l.running /\ k.sent = l.sent
  BY <1>3, <1>5, <1>6, <1>7, SettleKeeps
<1>9. \A m \in Nodes : PaidFor(x, v, m) => PaidFor(k, v, m)
  BY <1>4, <1>5, <1>8 DEF PaidFor
<1>10. verdict' = [verdict EXCEPT ![o] = v]
  BY <1>1, <1>3, <1>4
<1>11. QED
  BY <1>1, <1>4, <1>6, <1>7, <1>8, <1>9, <1>10, LoopMoves

\* A node with its inputs goes to admission.
LEMMA ConsiderStep ==
  ASSUME RegionInv, NEW o \in Owners, Consider(o)
  PROVE  RegionInv'
<1>1. PICK x, v : x = loops[o] /\ v = verdict[o]
  OBVIOUS
<1>2. PICK n, l : n = First(x) /\ l = Popped(x)
  OBVIOUS
<1>3. LoopsInv /\ LoopOK(x, v) /\ v \in [Nodes -> Verdicts] /\ verdict \in [Owners -> [Nodes -> Verdicts]]
  BY <1>1, LoopFacts DEF RegionInv, LoopsInv
<1>4. x.phase = "loop" /\ x.ready # {} /\ plan' = plan /\ ledger' = ledger /\ reserved' = reserved
      /\ paid' = paid /\ verdict' = verdict /\ Cardinality(x.inFlight) < Cap
      /\ ~Unsettled(l, n) /\ ledger[n] \in {"none", "failed"}
  BY <1>1, <1>2 DEF Consider, Dispatching, Free, MayHaveWritten
<1>5. /\ n \in Nodes /\ n \notin l.ready \union l.inFlight \union DOMAIN l.outcomes
      /\ plan[n] \subseteq DOMAIN l.outcomes
      /\ l \in Loops /\ l.phase = "loop"
      /\ l.inFlight = x.inFlight /\ l.running = x.running /\ l.sent = x.sent
      /\ Threads(l) /\ Frontier(l, {n}) /\ Answers(l, v)
  <2>1. LoopsInv /\ LoopOK(x, v) /\ x.phase = "loop" /\ x.ready # {}
    BY <1>3, <1>4
  <2>2. QED
    BY <1>2, <2>1, PoppedKeeps
<1>6. PICK k : k = [l EXCEPT !.phase = "reserve", !.node = n]
  OBVIOUS
<1>7. SetLoop(o, k)
  BY <1>1, <1>2, <1>6 DEF Consider
<1>8. /\ k \in Loops /\ k.phase = "reserve" /\ k.node = n /\ k.ready = l.ready /\ k.outcomes = l.outcomes
      /\ k.inFlight = l.inFlight /\ k.running = l.running /\ k.sent = l.sent
  BY <1>5, <1>6 DEF Loops, Phases
<1>9. Pending(k) = l.ready \union l.inFlight \union {n} /\ Pending(l) = l.ready \union l.inFlight
  BY <1>5, <1>8 DEF Pending
<1>10. Threads(k)
  BY <1>4, <1>5, <1>8 DEF Threads
<1>11. Frontier(k, {})
  BY <1>5, <1>8, <1>9 DEF Frontier
<1>12. \A m \in Nodes : Unsettled(k, m) <=> Unsettled(l, m)
  BY <1>8 DEF Unsettled
<1>13. DOMAIN l.outcomes \subseteq Nodes
  BY <1>5 DEF Loops, PartialOutcomes
<1>14. Answers(k, v)
  <2>1. ASSUME NEW m \in Nodes, m \in Pending(k), m \notin k.ready PROVE ~Unsettled(k, m)
    BY <1>4, <1>5, <1>8, <1>9, <1>12, <2>1 DEF Answers
  <2>2. ASSUME NEW m \in DOMAIN k.outcomes
        PROVE  /\ k.outcomes[m] = "unsettled_input" <=> Unsettled(k, m)
               /\ ~Unsettled(k, m) => k.outcomes[m] \in {v[m], "exhausted", "unknown"}
    BY <1>5, <1>8, <1>12, <1>13 DEF Answers
  <2>3. QED
    BY <2>1, <2>2 DEF Answers
<1>15. LoopOK(k, v)
  BY <1>3, <1>8, <1>10, <1>11, <1>14 DEF LoopOK
<1>16. \A m \in Nodes : PaidFor(x, v, m) => PaidFor(k, v, m)
  BY <1>4, <1>5, <1>8 DEF PaidFor
<1>17. verdict' = [verdict EXCEPT ![o] = v]
  BY <1>1, <1>3, <1>4
<1>18. QED
  BY <1>1, <1>4, <1>7, <1>15, <1>16, <1>17, LoopMoves

\* A step of one loop that keeps which nodes hold a reservation.
LEMMA LedgerMoves ==
  ASSUME RegionInv, NEW o \in Owners, NEW l, NEW v, plan' = plan, reserved' = reserved,
         SetLoop(o, l), verdict' = [verdict EXCEPT ![o] = v], LoopOK(l, v),
         ledger' \in [Nodes -> ReservationStates],
         \A n \in Nodes : ledger'[n] = "none" <=> ledger[n] = "none",
         OneOwner /\ PaidInv =>
           /\ paid' \in [Nodes -> {0, 1}]
           /\ \A n \in Nodes : ledger'[n] \in {"none", "failed"} => paid'[n] = 0
           /\ \A n \in Nodes : PaidFor(l, v, n)'
  PROVE  RegionInv'
<1>1. LoopsInv'
  BY OneLoop DEF RegionInv
<1>2. Held' = Held
  BY DEF Held
<1>3. BudgetInv'
  BY <1>2 DEF RegionInv, BudgetInv
<1>4. ASSUME OneOwner PROVE PaidInv'
  <2>1. PaidInv /\ loops \in [Owners -> Loops] /\ verdict \in [Owners -> [Nodes -> Verdicts]]
    BY <1>4 DEF RegionInv, LoopsInv
  <2>2. QED
    BY <1>4, <2>1, OnePaid
<1>5. QED
  BY <1>1, <1>3, <1>4 DEF RegionInv

\* A loop that only goes on to another phase.
LEMMA PhaseMoves ==
  ASSUME LoopsInv, NEW x, NEW v, LoopOK(x, v), x.phase \notin {"idle", "reserve"},
         NEW ph \in Phases \ {"idle", "reserve"},
         ph = "done" => x.inFlight = {} /\ x.ready = {}, ph = "cancelled" => x.running = {},
         NEW l, l = [x EXCEPT !.phase = ph]
  PROVE  /\ LoopOK(l, v) /\ l.phase = ph
         /\ l.inFlight = x.inFlight /\ l.running = x.running /\ l.sent = x.sent
<1>1. x \in Loops /\ Threads(x) /\ Frontier(x, {}) /\ Answers(x, v)
  BY DEF LoopOK
<1>2. /\ l \in Loops /\ l.phase = ph /\ l.ready = x.ready /\ l.outcomes = x.outcomes
      /\ l.inFlight = x.inFlight /\ l.running = x.running /\ l.sent = x.sent
  BY <1>1 DEF Loops
<1>3. Pending(l) = Pending(x)
  BY <1>2 DEF Pending
<1>4. Threads(l)
  BY <1>1, <1>2 DEF Threads
<1>5. Frontier(l, {})
  BY <1>1, <1>2, <1>3 DEF Frontier
<1>6. \A m \in Nodes \union DOMAIN x.outcomes : Unsettled(l, m) <=> Unsettled(x, m)
  BY <1>2 DEF Unsettled
<1>7. Answers(l, v)
  BY <1>1, <1>2, <1>3, <1>6 DEF Answers
<1>8. QED
  BY <1>2, <1>4, <1>5, <1>7 DEF LoopOK

\* A step that only moves the loop on.
LEMMA PhaseStep ==
  ASSUME RegionInv, NEW o \in Owners, AwaitBranch(o) \/ EndCancelled(o) \/ Finish(o)
  PROVE  RegionInv'
<1>1. PICK x, v : x = loops[o] /\ v = verdict[o]
  OBVIOUS
<1>2. LoopsInv /\ LoopOK(x, v) /\ v \in [Nodes -> Verdicts] /\ verdict \in [Owners -> [Nodes -> Verdicts]]
  BY <1>1, LoopFacts DEF RegionInv, LoopsInv
<1>3. plan' = plan /\ ledger' = ledger /\ reserved' = reserved /\ paid' = paid /\ verdict' = verdict
  BY DEF AwaitBranch, EndCancelled, Finish
<1>4. PICK ph \in {"recv", "cancelled", "done"} :
        /\ SetLoop(o, [x EXCEPT !.phase = ph]) /\ x.phase \in {"loop", "joining"}
        /\ ph = "done" => x.inFlight = {} /\ x.ready = {}
        /\ ph = "cancelled" => x.running = {} /\ x.phase = "joining"
        /\ ph = "recv" => x.phase = "loop"
  BY <1>1 DEF AwaitBranch, EndCancelled, Finish
<1>5. PICK l : l = [x EXCEPT !.phase = ph]
  OBVIOUS
<1>6. ph \in Phases \ {"idle", "reserve"}
  BY DEF Phases
<1>7. /\ LoopOK(l, v) /\ l.phase = ph
      /\ l.inFlight = x.inFlight /\ l.running = x.running /\ l.sent = x.sent
  BY <1>2, <1>4, <1>5, <1>6, PhaseMoves
<1>8. \A n \in Nodes : PaidFor(x, v, n) => PaidFor(l, v, n)
  BY <1>4, <1>7 DEF PaidFor
<1>9. verdict' = [verdict EXCEPT ![o] = v]
  BY <1>1, <1>2, <1>3
<1>10. QED
  BY <1>1, <1>3, <1>4, <1>5, <1>7, <1>8, <1>9, LoopMoves

\* The loop stops dispatching, joins or ends cancelled.
LEMMA StopStep ==
  ASSUME RegionInv, NEW o \in Owners, StopDispatching(o)
  PROVE  RegionInv'
<1>1. PICK x, v : x = loops[o] /\ v = verdict[o]
  OBVIOUS
<1>2. LoopsInv /\ LoopOK(x, v) /\ v \in [Nodes -> Verdicts] /\ verdict \in [Owners -> [Nodes -> Verdicts]]
      /\ ledger \in [Nodes -> ReservationStates]
  BY <1>1, LoopFacts DEF RegionInv, LoopsInv, BudgetInv
<1>3. /\ plan' = plan /\ reserved' = reserved /\ paid' = paid /\ verdict' = verdict
      /\ ledger' = Abandon(o) /\ SetLoop(o, [x EXCEPT !.phase = "joining"]) /\ x.phase = "loop"
  BY <1>1 DEF StopDispatching
<1>4. PICK l : l = [x EXCEPT !.phase = "joining"]
  OBVIOUS
<1>5. /\ LoopOK(l, v) /\ l.phase = "joining"
      /\ l.inFlight = x.inFlight /\ l.running = x.running /\ l.sent = x.sent
  <2>1. x.phase \notin {"idle", "reserve"} /\ "joining" \in Phases \ {"idle", "reserve"}
    BY <1>3 DEF Phases
  <2>2. QED
    BY <1>2, <1>4, <2>1, PhaseMoves
<1>6. \A n \in Nodes : ledger'[n] = (IF n \in x.inFlight /\ ledger[n] = "reserved" THEN "unknown" ELSE ledger[n])
  BY <1>1, <1>3 DEF Abandon
<1>7. ledger' \in [Nodes -> ReservationStates]
  BY <1>2, <1>3 DEF Abandon, ReservationStates
<1>8. ASSUME PaidInv
      PROVE  /\ paid' \in [Nodes -> {0, 1}]
             /\ \A n \in Nodes : ledger'[n] \in {"none", "failed"} => paid'[n] = 0
             /\ \A n \in Nodes : PaidFor(l, v, n)'
  <2>1. \A n \in Nodes : PaidFor(x, v, n)
    BY <1>1, <1>8 DEF PaidInv
  <2>2. \A n \in Nodes : PaidFor(l, v, n)'
    BY <1>3, <1>5, <1>6, <2>1 DEF PaidFor
  <2>3. QED
    BY <1>3, <1>6, <1>8, <2>2 DEF PaidInv
<1>9. verdict' = [verdict EXCEPT ![o] = v]
  BY <1>1, <1>2, <1>3
<1>10. \A n \in Nodes : ledger'[n] = "none" <=> ledger[n] = "none"
  BY <1>6
<1>11. QED
  BY <1>3, <1>4, <1>5, <1>7, <1>8, <1>9, <1>10, LedgerMoves

\* A worker thread sends its outcome.
LEMMA BranchStep ==
  ASSUME RegionInv, NEW o \in Owners, NEW n \in Nodes, Branch(o, n)
  PROVE  RegionInv'
<1>1. PICK x, v : x = loops[o] /\ v = verdict[o]
  OBVIOUS
<1>2. LoopsInv /\ LoopOK(x, v) /\ v \in [Nodes -> Verdicts] /\ verdict \in [Owners -> [Nodes -> Verdicts]]
      /\ ledger \in [Nodes -> ReservationStates]
  BY <1>1, LoopFacts DEF RegionInv, LoopsInv, BudgetInv
<1>3. PICK l : l = [x EXCEPT !.running = x.running \ {n}, !.sent = x.sent \union {n}]
  OBVIOUS
<1>4. /\ plan' = plan /\ reserved' = reserved /\ verdict' = verdict /\ ledger' = ledger
      /\ SetLoop(o, l) /\ n \in x.running
      /\ paid' = IF v[n] = "failed" THEN [paid EXCEPT ![n] = @ - 1] ELSE paid
  BY <1>1, <1>3 DEF Branch
<1>5. x \in Loops /\ Threads(x) /\ (x.phase # "idle" => Frontier(x, {}) /\ Answers(x, v))
  BY <1>2 DEF LoopOK
<1>6. /\ l \in Loops /\ l.phase = x.phase /\ l.ready = x.ready /\ l.outcomes = x.outcomes /\ l.node = x.node
      /\ l.inFlight = x.inFlight /\ l.running = x.running \ {n} /\ l.sent = x.sent \union {n}
  BY <1>3, <1>5 DEF Loops
<1>7. Pending(l) = Pending(x)
  BY <1>6 DEF Pending
<1>8. Threads(l)
  BY <1>4, <1>5, <1>6 DEF Threads
<1>9. x.phase # "idle" => Frontier(l, {})
  BY <1>5, <1>6, <1>7 DEF Frontier
<1>10. \A m \in Nodes \union DOMAIN x.outcomes : Unsettled(l, m) <=> Unsettled(x, m)
  BY <1>6 DEF Unsettled
<1>11. x.phase # "idle" => Answers(l, v)
  BY <1>5, <1>6, <1>7, <1>10 DEF Answers
<1>12. LoopOK(l, v)
  BY <1>2, <1>6, <1>8, <1>9, <1>11 DEF LoopOK
<1>13. ASSUME PaidInv
       PROVE  /\ paid' \in [Nodes -> {0, 1}]
              /\ \A m \in Nodes : ledger'[m] \in {"none", "failed"} => paid'[m] = 0
              /\ \A m \in Nodes : PaidFor(l, v, m)'
  <2>1. (\A m \in Nodes : PaidFor(x, v, m)) /\ paid \in [Nodes -> {0, 1}]
        /\ \A m \in Nodes : ledger[m] \in {"none", "failed"} => paid[m] = 0
    BY <1>1, <1>13 DEF PaidInv
  <2>2. paid[n] = 1
    BY <1>4, <2>1 DEF PaidFor
  <2>3. /\ paid' \in [Nodes -> {0, 1}] /\ \A m \in Nodes : m # n => paid'[m] = paid[m]
        /\ v[n] = "failed" => paid'[n] = 0
        /\ paid[n] = 0 => paid'[n] = 0
    BY <1>4, <2>1, <2>2
  <2>4. ASSUME NEW m \in Nodes PROVE PaidFor(l, v, m)'
    <3>1. PaidFor(x, v, m) /\ (m # n => paid'[m] = paid[m])
      BY <2>1, <2>3
    <3>2. n \notin l.running /\ (m # n => (m \in l.running <=> m \in x.running) /\ (m \in l.sent <=> m \in x.sent))
      BY <1>6
    <3>3. QED
      BY <1>4, <1>6, <2>3, <3>1, <3>2 DEF PaidFor
  <2>5. \A m \in Nodes : ledger'[m] \in {"none", "failed"} => paid'[m] = 0
    BY <1>4, <2>1, <2>3
  <2>6. QED
    BY <2>3, <2>4, <2>5
<1>14. verdict' = [verdict EXCEPT ![o] = v]
  BY <1>1, <1>2, <1>4
<1>15. QED
  BY <1>2, <1>4, <1>12, <1>13, <1>14, LedgerMoves

\* Receive: the branch of a node in flight has reported.
LEMMA ReceiveStep ==
  ASSUME RegionInv, NEW o \in Owners, NEW n \in Nodes, Receive(o, n)
  PROVE  RegionInv'
<1>1. PICK x, v : x = loops[o] /\ v = verdict[o]
  OBVIOUS
<1>2. LoopsInv /\ LoopOK(x, v) /\ v \in [Nodes -> Verdicts] /\ verdict \in [Owners -> [Nodes -> Verdicts]]
      /\ ledger \in [Nodes -> ReservationStates]
  BY <1>1, LoopFacts DEF RegionInv, LoopsInv, BudgetInv
<1>3. PICK l : l = [x EXCEPT !.phase = "loop", !.sent = x.sent \ {n}, !.inFlight = x.inFlight \ {n}]
  OBVIOUS
<1>4. PICK k : k = Settle(l, n, v[n])
  OBVIOUS
<1>5. /\ plan' = plan /\ reserved' = reserved /\ verdict' = verdict /\ paid' = paid
      /\ ledger' = FinishReservation(n, RecordedAs(v[n]))
      /\ SetLoop(o, k) /\ n \in x.sent /\ x.phase = "recv"
  BY <1>1, <1>3, <1>4 DEF Receive
<1>6. x \in Loops /\ Threads(x) /\ Frontier(x, {}) /\ Answers(x, v)
  BY <1>2, <1>5 DEF LoopOK
<1>7. /\ l \in Loops /\ l.phase = "loop" /\ l.ready = x.ready /\ l.outcomes = x.outcomes
      /\ l.inFlight = x.inFlight \ {n} /\ l.running = x.running /\ l.sent = x.sent \ {n}
  BY <1>3, <1>6 DEF Loops, Phases
<1>8. n \in x.inFlight /\ n \notin x.running
  BY <1>5, <1>6 DEF Threads
<1>9. Pending(x) = x.ready \union x.inFlight /\ Pending(l) = x.ready \union (x.inFlight \ {n})
  BY <1>5, <1>7 DEF Pending
<1>10. n \notin l.ready \union l.inFlight \union DOMAIN l.outcomes /\ plan[n] \subseteq DOMAIN l.outcomes
  BY <1>6, <1>7, <1>8, <1>9 DEF Frontier
<1>11. Threads(l)
  <2>1. x.inFlight \in SUBSET Nodes /\ l.inFlight \in SUBSET Nodes /\ l.inFlight \subseteq x.inFlight
    BY <1>6, <1>7 DEF Loops
  <2>2. /\ Cardinality(l.inFlight) <= Cardinality(x.inFlight)
        /\ Cardinality(l.inFlight) \in Nat /\ Cardinality(x.inFlight) \in Nat
    BY <2>1, NodesFinite, FS_Subset
  <2>3. Cardinality(l.inFlight) <= Cap
    BY <1>6, <2>2, RegionAssumption DEF Threads
  <2>4. QED
    BY <1>6, <1>7, <1>8, <2>3 DEF Threads
<1>12. Frontier(l, {n})
  BY <1>6, <1>7, <1>8, <1>9 DEF Frontier
<1>13. \A m \in Nodes \union DOMAIN x.outcomes : Unsettled(l, m) <=> Unsettled(x, m)
  BY <1>7 DEF Unsettled
<1>14. Answers(l, v)
  BY <1>6, <1>7, <1>9, <1>13 DEF Answers
<1>15. ~Unsettled(l, n)
  BY <1>6, <1>8, <1>9, <1>10, <1>7, <1>13 DEF Answers
<1>16. v[n] \in Verdicts /\ v[n] \in Outcomes /\ v[n] # "unsettled_input"
  BY <1>2 DEF Outcomes, Verdicts
<1>17. /\ LoopOK(k, v)
       /\ k.phase = "loop" /\ k.inFlight = l.inFlight /\ k.running = l.running /\ k.sent = l.sent
  BY <1>2, <1>4, <1>7, <1>10, <1>11, <1>12, <1>14, <1>15, <1>16, SettleKeeps
<1>18. PICK r \in {"completed", "unknown", "failed"} :
         r = RecordedAs(v[n]) /\ (r = "failed" <=> v[n] = "failed")
  BY <1>16 DEF RecordedAs, Verdicts
<1>19. /\ ledger' \in [Nodes -> ReservationStates]
       /\ \A m \in Nodes : m # n => ledger'[m] = ledger[m]
       /\ ledger'[n] = IF ledger[n] = "reserved" THEN r ELSE ledger[n]
  BY <1>2, <1>5, <1>18 DEF FinishReservation, ReservationStates
<1>20. \A m \in Nodes : ledger'[m] = "none" <=> ledger[m] = "none"
  BY <1>19
<1>21. ASSUME PaidInv
       PROVE  /\ paid' \in [Nodes -> {0, 1}]
              /\ \A m \in Nodes : ledger'[m] \in {"none", "failed"} => paid'[m] = 0
              /\ \A m \in Nodes : PaidFor(k, v, m)'
  <2>1. (\A m \in Nodes : PaidFor(x, v, m)) /\ paid \in [Nodes -> {0, 1}]
        /\ \A m \in Nodes : ledger[m] \in {"none", "failed"} => paid[m] = 0
    BY <1>1, <1>21 DEF PaidInv
  <2>2. v[n] = "failed" => paid[n] = 0
    BY <1>5, <2>1 DEF PaidFor
  <2>3. \A m \in Nodes : ledger'[m] \in {"none", "failed"} => paid'[m] = 0
    BY <1>5, <1>18, <1>19, <2>1, <2>2
  <2>4. ASSUME NEW m \in Nodes PROVE PaidFor(k, v, m)'
    <3>1. PaidFor(x, v, m)
      BY <2>1
    <3>2. m \in k.inFlight => m # n /\ m \in x.inFlight
      BY <1>7, <1>17
    <3>3. QED
      BY <1>5, <1>7, <1>17, <1>19, <3>1, <3>2 DEF PaidFor
  <2>5. QED
    BY <1>5, <2>1, <2>3, <2>4
<1>22. verdict' = [verdict EXCEPT ![o] = v]
  BY <1>1, <1>2, <1>5
<1>23. QED
  BY <1>5, <1>17, <1>19, <1>20, <1>21, <1>22, LedgerMoves

\* Reserve: the grant checks the budget, and the thread starts, under one lock.
LEMMA ReserveStep ==
  ASSUME RegionInv, NEW o \in Owners, Reserve(o)
  PROVE  RegionInv'
<1>1. PICK x, v : x = loops[o] /\ v = verdict[o]
  OBVIOUS
<1>2. LoopsInv /\ LoopOK(x, v) /\ v \in [Nodes -> Verdicts] /\ verdict \in [Owners -> [Nodes -> Verdicts]]
      /\ ledger \in [Nodes -> ReservationStates]
  BY <1>1, LoopFacts DEF RegionInv, LoopsInv, BudgetInv
<1>3. PICK n, l : n = x.node /\ l = [x EXCEPT !.phase = "loop", !.node = 0]
  OBVIOUS
<1>4. x.phase = "reserve" /\ plan' = plan /\ verdict' = verdict
  BY <1>1 DEF Reserve
<1>5. x \in Loops /\ Threads(x) /\ Frontier(x, {}) /\ Answers(x, v)
  BY <1>2, <1>4 DEF LoopOK
<1>6. /\ l \in Loops /\ l.phase = "loop" /\ l.ready = x.ready /\ l.outcomes = x.outcomes
      /\ l.inFlight = x.inFlight /\ l.running = x.running /\ l.sent = x.sent
  BY <1>3, <1>5 DEF Loops, Phases
<1>7. n \in Nodes /\ n \notin x.ready \union x.inFlight
  BY <1>3, <1>4, <1>5 DEF Frontier
<1>8. Pending(x) = x.ready \union x.inFlight \union {n} /\ Pending(l) = x.ready \union x.inFlight
  BY <1>3, <1>4, <1>6 DEF Pending
<1>9. n \notin DOMAIN x.outcomes /\ plan[n] \subseteq DOMAIN x.outcomes
  BY <1>5, <1>8 DEF Frontier
<1>10. ~Unsettled(x, n)
  BY <1>5, <1>7, <1>8 DEF Answers
<1>11. verdict' = [verdict EXCEPT ![o] = v]
  BY <1>1, <1>2, <1>4
<1>12. DOMAIN x.outcomes \subseteq Nodes
  BY <1>5 DEF Loops, PartialOutcomes
<1>13. CASE ledger[n] = "none" /\ ~(Units <= Limit /\ HasRoom)
  <2>1. PICK k : k = Settle(l, n, "exhausted")
    OBVIOUS
  <2>2. SetLoop(o, k) /\ ledger' = ledger /\ reserved' = reserved /\ paid' = paid
    BY <1>1, <1>3, <1>13, <2>1 DEF Reserve
  <2>3. Threads(l)
    BY <1>4, <1>5, <1>6 DEF Threads
  <2>4. Frontier(l, {n})
    BY <1>5, <1>6, <1>8 DEF Frontier
  <2>5. \A m \in Nodes : Unsettled(l, m) <=> Unsettled(x, m)
    BY <1>6 DEF Unsettled
  <2>6. Answers(l, v)
    <3>1. ASSUME NEW m \in Nodes, m \in Pending(l), m \notin l.ready PROVE ~Unsettled(l, m)
      BY <1>5, <1>6, <1>8, <2>5, <3>1 DEF Answers
    <3>2. ASSUME NEW m \in DOMAIN l.outcomes
          PROVE  /\ l.outcomes[m] = "unsettled_input" <=> Unsettled(l, m)
                 /\ ~Unsettled(l, m) => l.outcomes[m] \in {v[m], "exhausted", "unknown"}
      BY <1>5, <1>6, <1>12, <2>5 DEF Answers
    <3>3. QED
      BY <3>1, <3>2 DEF Answers
  <2>7. n \notin l.ready \union l.inFlight \union DOMAIN l.outcomes /\ plan[n] \subseteq DOMAIN l.outcomes
    BY <1>6, <1>7, <1>9
  <2>8. "exhausted" \in Outcomes /\ ~Unsettled(l, n)
    BY <1>7, <1>10, <2>5 DEF Outcomes
  <2>9. /\ LoopOK(k, v)
        /\ k.phase = "loop" /\ k.inFlight = l.inFlight /\ k.running = l.running /\ k.sent = l.sent
    BY <1>2, <1>6, <1>7, <2>1, <2>3, <2>4, <2>6, <2>7, <2>8, SettleKeeps
  <2>10. \A m \in Nodes : PaidFor(x, v, m) => PaidFor(k, v, m)
    BY <1>4, <1>6, <2>9 DEF PaidFor
  <2>11. QED
    BY <1>1, <1>4, <1>11, <2>2, <2>9, <2>10, LoopMoves
<1>14. CASE ledger[n] # "none" \/ (Units <= Limit /\ HasRoom)
  <2>1. PICK k : k = [l EXCEPT !.inFlight = x.inFlight \union {n}, !.running = x.running \union {n}]
    OBVIOUS
  <2>2. /\ ledger' = [ledger EXCEPT ![n] = IF @ \in {"none", "failed"} THEN "reserved" ELSE @]
        /\ reserved' = IF ledger[n] = "none" THEN reserved + Units ELSE reserved
        /\ SetLoop(o, k)
        /\ paid' = [paid EXCEPT ![n] = @ + 1]
    BY <1>1, <1>3, <1>6, <1>14, <2>1 DEF Reserve
  <2>3. /\ k \in Loops /\ k.phase = "loop" /\ k.ready = x.ready /\ k.outcomes = x.outcomes
        /\ k.inFlight = x.inFlight \union {n} /\ k.running = x.running \union {n} /\ k.sent = x.sent
    BY <1>6, <1>7, <2>1 DEF Loops
  <2>4. Pending(k) = Pending(x)
    BY <1>8, <2>3 DEF Pending
  <2>5. Threads(k)
    <3>1. x.inFlight \in SUBSET Nodes
      BY <1>5 DEF Loops
    <3>2. Cardinality(x.inFlight \union {n}) = Cardinality(x.inFlight) + 1 /\ Cardinality(x.inFlight) \in Nat
      BY <1>7, <3>1, NodesFinite, FS_AddElement
    <3>3. Cardinality(k.inFlight) <= Cap
      BY <1>4, <1>5, <2>3, <3>2, RegionAssumption DEF Threads
    <3>4. QED
      BY <1>5, <1>7, <2>3, <3>3 DEF Threads
  <2>6. Frontier(k, {})
    BY <1>5, <1>7, <2>3, <2>4 DEF Frontier
  <2>7. \A m \in Nodes : Unsettled(k, m) <=> Unsettled(x, m)
    BY <2>3 DEF Unsettled
  <2>8. Answers(k, v)
    <3>1. ASSUME NEW m \in Nodes, m \in Pending(k), m \notin k.ready PROVE ~Unsettled(k, m)
      BY <1>5, <2>3, <2>4, <2>7, <3>1 DEF Answers
    <3>2. ASSUME NEW m \in DOMAIN k.outcomes
          PROVE  /\ k.outcomes[m] = "unsettled_input" <=> Unsettled(k, m)
                 /\ ~Unsettled(k, m) => k.outcomes[m] \in {v[m], "exhausted", "unknown"}
      BY <1>5, <1>12, <2>3, <2>7 DEF Answers
    <3>3. QED
      BY <3>1, <3>2 DEF Answers
  <2>9. LoopOK(k, v)
    BY <1>2, <2>3, <2>5, <2>6, <2>8 DEF LoopOK
  <2>10. LoopsInv'
    BY <1>2, <1>4, <1>11, <2>2, <2>9, OneLoop
  <2>11. /\ ledger' \in [Nodes -> ReservationStates]
         /\ \A m \in Nodes : m # n => ledger'[m] = ledger[m]
         /\ ledger'[n] = IF ledger[n] \in {"none", "failed"} THEN "reserved" ELSE ledger[n]
    BY <1>2, <1>7, <2>2 DEF ReservationStates
  <2>12. BudgetInv'
    <3>1. Held \in SUBSET Nodes /\ Cardinality(Held) \in Nat /\ IsFiniteSet(Held)
      BY NodesFinite DEF Held
    <3>2. reserved = Units * Cardinality(Held) /\ reserved <= Limit
      BY DEF RegionInv, BudgetInv
    <3>3. CASE ledger[n] = "none"
      <4>1. Held' = Held \union {n} /\ n \notin Held
        BY <1>7, <2>11, <3>3 DEF Held
      <4>2. Cardinality(Held') = Cardinality(Held) + 1
        BY <3>1, <4>1, FS_AddElement
      <4>3. reserved' = reserved + Units /\ reserved + Units <= Limit
        BY <1>14, <2>2, <3>3 DEF HasRoom
      <4>4. PICK c \in Nat : c = Cardinality(Held)
        BY <3>1
      <4>5. Units * c + Units = Units * (c + 1)
        BY RegionAssumption
      <4>6. QED
        BY <2>11, <3>2, <4>2, <4>3, <4>4, <4>5 DEF BudgetInv
    <3>4. CASE ledger[n] # "none"
      <4>1. Held' = Held
        BY <1>7, <2>11, <3>4 DEF Held
      <4>2. QED
        BY <2>2, <2>11, <3>2, <3>4, <4>1 DEF BudgetInv
    <3>5. QED
      BY <3>3, <3>4
  <2>13. ASSUME OneOwner PROVE PaidInv'
    <3>1. PaidInv /\ loops \in [Owners -> Loops]
      BY <2>13 DEF RegionInv, LoopsInv
    <3>2. (\A m \in Nodes : PaidFor(x, v, m)) /\ paid \in [Nodes -> {0, 1}]
          /\ \A m \in Nodes : ledger[m] \in {"none", "failed"} => paid[m] = 0
      BY <1>1, <3>1 DEF PaidInv
    <3>3. ledger[n] \in {"none", "failed"} /\ paid[n] = 0
      BY <1>3, <1>4, <1>7, <3>2 DEF PaidFor
    <3>4. paid' \in [Nodes -> {0, 1}] /\ paid'[n] = 1 /\ \A m \in Nodes : m # n => paid'[m] = paid[m]
      BY <1>7, <2>2, <3>2, <3>3
    <3>5. \A m \in Nodes : ledger'[m] \in {"none", "failed"} => paid'[m] = 0
      BY <2>11, <3>2, <3>3, <3>4
    <3>6. n \notin x.sent
      BY <1>5, <1>7 DEF Threads
    <3>7. ASSUME NEW m \in Nodes PROVE PaidFor(k, v, m)'
      <4>1. PaidFor(x, v, m)
        BY <3>2
      <4>2. CASE m = n
        BY <2>3, <2>11, <3>3, <3>4, <3>6, <4>2 DEF PaidFor
      <4>3. CASE m # n
        BY <1>4, <2>3, <2>11, <3>4, <4>1, <4>3 DEF PaidFor
      <4>4. QED
        BY <4>2, <4>3
    <3>8. QED
      BY <1>2, <1>11, <2>2, <2>13, <3>1, <3>4, <3>5, <3>7, OnePaid
  <2>14. QED
    BY <2>10, <2>12, <2>13 DEF RegionInv
<1>15. QED
  BY <1>13, <1>14

\* The inductive invariant of the owner loops and their ledger.
THEOREM RegionInvariant == RegionSpec => []RegionInv
<1>1. ASSUME RegionInv, [RegionNext]_regionVars PROVE RegionInv'
  <2>1. ASSUME NEW o \in Owners, Start(o) \/ Cancel(o) \/ LoopStep(o) \/ \E n \in Nodes : Branch(o, n)
        PROVE  RegionInv'
    <3>1. CASE Start(o)
      BY <1>1, <3>1, StartStep
    <3>2. CASE Cancel(o)
      BY <1>1, <3>2, RegionStutters DEF Cancel
    <3>3. CASE LoopStep(o)
      BY <1>1, <3>3, RefuseStep, ConsiderStep, ReserveStep, PhaseStep, ReceiveStep, StopStep DEF LoopStep
    <3>4. CASE \E n \in Nodes : Branch(o, n)
      BY <1>1, <3>4, BranchStep
    <3>5. QED
      BY <2>1, <3>1, <3>2, <3>3, <3>4
  <2>2. CASE UNCHANGED regionVars
    BY <1>1, <2>2, RegionStutters DEF regionVars
  <2>3. QED
    BY <1>1, <2>1, <2>2 DEF RegionNext
<1>2. QED
  BY <1>1, RegionStarts, PTL DEF RegionSpec

\* Units are not given back.
LEMMA RoomLost ==
  ASSUME reserved \in Nat, reserved' \in Nat, reserved' >= reserved
  PROVE  ~HasRoom => ~HasRoom'
<1>1. ASSUME NEW r \in Nat, NEW s \in Nat, s >= r, NEW u \in Nat, NEW m \in Nat
      PROVE  ~(r + u <= m) => ~(s + u <= m)
  BY <1>1
<1>2. PICK r, s : r = reserved /\ s = reserved'
  OBVIOUS
<1>3. r \in Nat /\ s \in Nat /\ s >= r
  BY <1>2
<1>4. ~(r + Units <= Limit) => ~(s + Units <= Limit)
  BY <1>1, <1>3, RegionAssumption
<1>5. (HasRoom <=> r + Units <= Limit) /\ (HasRoom' <=> s + Units <= Limit)
  BY <1>2 DEF HasRoom
<1>6. QED
  BY <1>4, <1>5

\* A step of a loop that has started keeps every reason: a reservation is not given back,
\* and a new one needs room.
LEMMA ReasonsMove ==
  ASSUME ReasonsInv, loops \in [Owners -> Loops], NEW o \in Owners, NEW x, x = loops[o],
         NEW k, SetLoop(o, k), x.phase # "idle", k.phase # "idle", runs' = runs, verdict' = verdict,
         reserved' \in Nat, reserved' >= reserved,
         \A n \in Nodes : ledger[n] # "none" => ledger'[n] # "none",
         \A n \in Nodes : ledger'[n] # "none" => ledger[n] # "none" \/ (HasRoom /\ n \in k.inFlight),
         \A p \in Owners : DOMAIN loops[p].outcomes \subseteq Nodes,
         x.inFlight \union DOMAIN x.outcomes \subseteq k.inFlight \union DOMAIN k.outcomes,
         \A n \in DOMAIN k.outcomes :
            \/ n \in DOMAIN x.outcomes /\ k.outcomes[n] = x.outcomes[n]
            \/ /\ k.outcomes[n] = "exhausted" => ledger'[n] = "none" /\ ~HasRoom'
               /\ k.outcomes[n] = "unknown" /\ verdict[o][n] # "unknown" => ledger'[n] # "none" /\ runs > 1
  PROVE  ReasonsInv'
<1>1. loops'[o] = k /\ \A p \in Owners : p # o => loops'[p] = loops[p]
  BY DEF SetLoop
<1>2. \A p \in Owners : loops'[p].phase = "idle" <=> loops[p].phase = "idle"
  BY <1>1
<1>3. ~HasRoom => ~HasRoom'
  <2>1. reserved \in Nat
    BY DEF ReasonsInv
  <2>2. QED
    BY <2>1, RoomLost
<1>4. \A n \in Nodes : ledger[n] = "none" /\ ~HasRoom => ledger'[n] = "none"
  OBVIOUS
<1>5. ASSUME NEW p \in Owners, loops[p].phase # "idle", NEW n \in DOMAIN loops[p].outcomes
      PROVE  /\ loops[p].outcomes[n] = "exhausted" => ledger'[n] = "none" /\ ~HasRoom'
             /\ loops[p].outcomes[n] = "unknown" /\ verdict[p][n] # "unknown" =>
                  ledger'[n] # "none" /\ runs > 1
  <2>1. Reasons(loops[p], verdict[p]) /\ n \in Nodes
    BY <1>5 DEF ReasonsInv
  <2>2. QED
    BY <1>3, <1>4, <1>5, <2>1 DEF Reasons
<1>6. ASSUME NEW p \in Owners, loops'[p].phase # "idle" PROVE Reasons(loops[p], verdict[p])'
  <2>1. CASE p = o
    BY <1>1, <1>5, <2>1 DEF Reasons
  <2>2. CASE p # o
    BY <1>1, <1>2, <1>5, <1>6, <2>2 DEF Reasons
  <2>3. QED
    BY <2>1, <2>2
<1>7. ASSUME NEW p \in Owners, loops'[p].phase # "idle", runs = 1 PROVE OwnReservations(loops[p])'
  <2>1. p = o /\ OwnReservations(x)
    BY <1>2, <1>7 DEF ReasonsInv
  <2>2. QED
    BY <1>1, <2>1 DEF OwnReservations
<1>8. QED
  BY <1>2, <1>6, <1>7 DEF ReasonsInv

\* The start of an execution: nobody has reserved before the first, and later ones are not
\* the first.
LEMMA ReasonsStart ==
  ASSUME RegionInv, ReasonsInv, NEW o \in Owners, Start(o)
  PROVE  ReasonsInv'
<1>1. PICK v \in [Nodes -> Verdicts] : verdict' = [verdict EXCEPT ![o] = v]
  BY DEF Start
<1>2. PICK k : k = [Idle EXCEPT !.phase = "loop", !.ready = {n \in Nodes : plan[n] = {}}]
  OBVIOUS
<1>3. k.phase = "loop" /\ k.outcomes = <<>> /\ DOMAIN k.outcomes = {} /\ k.inFlight = {}
  BY <1>2 DEF Idle
<1>4. /\ loops' = [loops EXCEPT ![o] = k] /\ ledger' = ledger /\ reserved' = reserved
      /\ runs' = runs + 1 /\ runs \in Nat
  BY <1>2 DEF Start, SetLoop, ReasonsInv
<1>5. loops \in [Owners -> Loops] /\ verdict \in [Owners -> [Nodes -> Verdicts]]
  BY DEF RegionInv, LoopsInv
<1>6. /\ loops'[o] = k /\ verdict'[o] = v
      /\ \A p \in Owners : p # o => loops'[p] = loops[p] /\ verdict'[p] = verdict[p]
  BY <1>1, <1>4, <1>5
<1>7. ASSUME NEW p \in Owners, loops'[p].phase # "idle" PROVE Reasons(loops[p], verdict[p])'
  <2>1. CASE p = o
    BY <1>3, <1>6, <2>1 DEF Reasons
  <2>2. CASE p # o
    <3>1. Reasons(loops[p], verdict[p]) /\ loops'[p] = loops[p] /\ verdict'[p] = verdict[p]
      BY <1>6, <1>7, <2>2 DEF ReasonsInv
    <3>2. (HasRoom' <=> HasRoom) /\ (runs > 1 => runs' > 1)
      BY <1>4 DEF HasRoom
    <3>3. QED
      BY <1>4, <3>1, <3>2 DEF Reasons
  <2>3. QED
    BY <2>1, <2>2
<1>8. CASE runs = 0
  <2>1. /\ \A p \in Owners : p # o => loops'[p].phase = "idle"
        /\ \A n \in Nodes : ledger'[n] = "none"
    BY <1>4, <1>6, <1>8 DEF ReasonsInv
  <2>2. \A p \in Owners : OwnReservations(loops[p])'
    BY <2>1 DEF OwnReservations
  <2>3. QED
    BY <1>4, <1>7, <1>8, <2>1, <2>2 DEF ReasonsInv
<1>9. CASE runs # 0
  <2>1. runs' \in Nat /\ runs' > 1
    BY <1>4, <1>9
  <2>2. QED
    BY <1>4, <1>7, <2>1 DEF ReasonsInv
<1>10. QED
  BY <1>8, <1>9

\* A step of the owner loop or of a branch.
LEMMA ReasonsStep ==
  ASSUME RegionInv, ReasonsInv, NEW o \in Owners, LoopStep(o) \/ \E n \in Nodes : Branch(o, n)
  PROVE  ReasonsInv'
<1>1. PICK x, v : x = loops[o] /\ v = verdict[o]
  OBVIOUS
<1>2. /\ LoopsInv /\ LoopOK(x, v) /\ x \in Loops /\ v \in [Nodes -> Verdicts]
      /\ loops \in [Owners -> Loops] /\ ledger \in [Nodes -> ReservationStates]
  BY <1>1, LoopFacts DEF RegionInv, LoopsInv, BudgetInv
<1>3. /\ \A p \in Owners : DOMAIN loops[p].outcomes \subseteq Nodes
      /\ DOMAIN x.outcomes \subseteq Nodes
  BY <1>1, <1>2 DEF Loops, PartialOutcomes
<1>4. reserved \in Nat /\ runs \in Nat
  BY DEF ReasonsInv
<1>5. ASSUME NEW l \in Loops, NEW n, NEW outcome, NEW k, k = Settle(l, n, outcome)
      PROVE  /\ k.phase = l.phase /\ k.inFlight = l.inFlight
             /\ DOMAIN k.outcomes = DOMAIN l.outcomes \union {n} /\ k.outcomes[n] = outcome
             /\ \A m \in DOMAIN l.outcomes : m # n => k.outcomes[m] = l.outcomes[m]
  <2>1. PICK known : known = [m \in DOMAIN l.outcomes \union {n} |-> IF m = n THEN outcome ELSE l.outcomes[m]]
    OBVIOUS
  <2>2. PICK new : new = l.ready \union {d \in Nodes : n \in plan[d] /\ plan[d] \subseteq DOMAIN known}
    OBVIOUS
  <2>3. k = [l EXCEPT !.outcomes = known, !.ready = new]
    BY <1>5, <2>1, <2>2 DEF Settle
  <2>4. k.phase = l.phase /\ k.inFlight = l.inFlight /\ k.outcomes = known
    BY <2>3 DEF Loops
  <2>5. QED
    BY <2>1, <2>4
<1>6. CASE Refuse(o)
  <2>1. PICK n, l : n = First(x) /\ l = Popped(x)
    OBVIOUS
  <2>2. /\ x.phase = "loop" /\ x.ready # {} /\ verdict' = verdict /\ runs' = runs
        /\ ledger' = ledger /\ reserved' = reserved
    BY <1>1, <1>6 DEF Refuse, Dispatching
  <2>3. /\ n \in Nodes /\ n \notin l.ready \union l.inFlight \union DOMAIN l.outcomes
        /\ l \in Loops /\ l.phase = "loop" /\ l.outcomes = x.outcomes /\ l.inFlight = x.inFlight
    <3>1. LoopsInv /\ LoopOK(x, v) /\ x.phase = "loop" /\ x.ready # {}
      BY <1>2, <2>2
    <3>2. /\ n \in Nodes /\ n \notin l.ready \union l.inFlight \union DOMAIN l.outcomes
          /\ plan[n] \subseteq DOMAIN l.outcomes
          /\ l \in Loops /\ l.phase = "loop"
          /\ l.inFlight = x.inFlight /\ l.running = x.running /\ l.sent = x.sent
          /\ Threads(l) /\ Frontier(l, {n}) /\ Answers(l, v)
      BY <2>1, <3>1, PoppedKeeps
    <3>3. l.outcomes = x.outcomes
      BY <1>2, <2>1 DEF Popped, Loops
    <3>4. QED
      BY <3>2, <3>3
  <2>4. PICK outcome \in {"unsettled_input", "unknown"} :
          SetLoop(o, Settle(l, n, outcome)) /\ (outcome = "unknown" => MayHaveWritten(n))
    BY <1>1, <1>6, <2>1 DEF Refuse
  <2>5. PICK k : k = Settle(l, n, outcome)
    OBVIOUS
  <2>6. outcome = "unknown" => ledger[n] # "none" /\ runs > 1
    <3>1. outcome = "unknown" => ledger[n] # "none"
      BY <2>4 DEF MayHaveWritten
    <3>2. runs # 0
      BY <1>1, <2>2 DEF ReasonsInv
    <3>3. runs = 1 => OwnReservations(x)
      BY <1>1, <2>2 DEF ReasonsInv
    <3>4. runs = 1 => ledger[n] = "none"
      BY <2>3, <3>3 DEF OwnReservations
    <3>5. QED
      BY <1>4, <3>1, <3>2, <3>4
  <2>7. /\ k.phase = "loop" /\ k.inFlight = x.inFlight /\ DOMAIN k.outcomes = DOMAIN x.outcomes \union {n}
        /\ k.outcomes[n] = outcome /\ \A m \in DOMAIN x.outcomes : m # n => k.outcomes[m] = x.outcomes[m]
    BY <1>5, <2>3, <2>5
  <2>8. SetLoop(o, k) /\ x.phase # "idle" /\ k.phase # "idle" /\ reserved' \in Nat /\ reserved' >= reserved
    BY <1>4, <2>2, <2>4, <2>5, <2>7
  <2>9. \A m \in DOMAIN k.outcomes :
            \/ m \in DOMAIN x.outcomes /\ k.outcomes[m] = x.outcomes[m]
            \/ /\ k.outcomes[m] = "exhausted" => ledger'[m] = "none" /\ ~HasRoom'
               /\ k.outcomes[m] = "unknown" /\ verdict[o][m] # "unknown" => ledger'[m] # "none" /\ runs > 1
    BY <2>2, <2>3, <2>4, <2>6, <2>7
  <2>10. x.inFlight \union DOMAIN x.outcomes \subseteq k.inFlight \union DOMAIN k.outcomes
    BY <2>7
  <2>11. QED
    BY <1>1, <1>2, <1>3, <2>2, <2>8, <2>9, <2>10, ReasonsMove
<1>7. CASE Reserve(o)
  <2>1. PICK n, l : n = x.node /\ l = [x EXCEPT !.phase = "loop", !.node = 0]
    OBVIOUS
  <2>2. x.phase = "reserve" /\ verdict' = verdict /\ runs' = runs
    BY <1>1, <1>7 DEF Reserve
  <2>3. l \in Loops /\ l.phase = "loop" /\ l.outcomes = x.outcomes /\ l.inFlight = x.inFlight
    BY <1>2, <2>1 DEF Loops, Phases
  <2>4. n \in Nodes /\ n \notin DOMAIN x.outcomes
    BY <1>2, <2>1, <2>2 DEF LoopOK, Frontier, Pending
  <2>5. CASE ledger[n] = "none" /\ ~(Units <= Limit /\ HasRoom)
    <3>1. PICK k : k = Settle(l, n, "exhausted")
      OBVIOUS
    <3>2. SetLoop(o, k) /\ ledger' = ledger /\ reserved' = reserved
      BY <1>1, <1>7, <2>1, <2>5, <3>1 DEF Reserve
    <3>3. ~HasRoom'
      BY <1>4, <2>5, <3>2, RegionAssumption DEF HasRoom
    <3>4. /\ k.phase = "loop" /\ k.inFlight = x.inFlight /\ DOMAIN k.outcomes = DOMAIN x.outcomes \union {n}
          /\ k.outcomes[n] = "exhausted" /\ \A m \in DOMAIN x.outcomes : m # n => k.outcomes[m] = x.outcomes[m]
      BY <1>5, <2>3, <3>1
    <3>5. \A m \in DOMAIN k.outcomes :
            \/ m \in DOMAIN x.outcomes /\ k.outcomes[m] = x.outcomes[m]
            \/ /\ k.outcomes[m] = "exhausted" => ledger'[m] = "none" /\ ~HasRoom'
               /\ k.outcomes[m] = "unknown" /\ verdict[o][m] # "unknown" => ledger'[m] # "none" /\ runs > 1
      BY <2>4, <2>5, <3>2, <3>3, <3>4
    <3>6. /\ x.inFlight \union DOMAIN x.outcomes \subseteq k.inFlight \union DOMAIN k.outcomes
          /\ x.phase # "idle" /\ k.phase # "idle" /\ reserved' \in Nat /\ reserved' >= reserved
      BY <1>4, <2>2, <3>2, <3>4
    <3>7. QED
      BY <1>1, <1>2, <1>3, <2>2, <3>2, <3>5, <3>6, ReasonsMove
  <2>6. CASE ledger[n] # "none" \/ (Units <= Limit /\ HasRoom)
    <3>1. PICK k : k = [l EXCEPT !.inFlight = l.inFlight \union {n}, !.running = l.running \union {n}]
      OBVIOUS
    <3>2. /\ ledger' = [ledger EXCEPT ![n] = IF @ \in {"none", "failed"} THEN "reserved" ELSE @]
          /\ reserved' = IF ledger[n] = "none" THEN reserved + Units ELSE reserved
          /\ SetLoop(o, k)
      BY <1>1, <1>7, <2>1, <2>6, <3>1 DEF Reserve
    <3>3. k.phase = "loop" /\ k.outcomes = x.outcomes /\ k.inFlight = x.inFlight \union {n}
      BY <2>3, <3>1 DEF Loops
    <3>4. /\ \A m \in Nodes : m # n => ledger'[m] = ledger[m]
          /\ ledger'[n] # "none" /\ (ledger[n] = "none" => HasRoom)
      BY <1>2, <2>4, <2>6, <3>2
    <3>5. reserved' \in Nat /\ reserved' >= reserved
      BY <1>4, <3>2, RegionAssumption
    <3>6. /\ \A m \in Nodes : ledger[m] # "none" => ledger'[m] # "none"
          /\ \A m \in Nodes : ledger'[m] # "none" => ledger[m] # "none" \/ (HasRoom /\ m \in k.inFlight)
      BY <3>3, <3>4
    <3>7. /\ x.inFlight \union DOMAIN x.outcomes \subseteq k.inFlight \union DOMAIN k.outcomes
          /\ x.phase # "idle" /\ k.phase # "idle"
          /\ \A m \in DOMAIN k.outcomes : m \in DOMAIN x.outcomes /\ k.outcomes[m] = x.outcomes[m]
      BY <2>2, <3>3
    <3>8. QED
      BY <1>1, <1>2, <1>3, <2>2, <3>2, <3>5, <3>6, <3>7, ReasonsMove
  <2>7. QED
    BY <2>5, <2>6
<1>8. CASE \E n \in Nodes : Receive(o, n)
  <2>1. PICK n \in Nodes : Receive(o, n)
    BY <1>8
  <2>2. PICK l : l = [x EXCEPT !.phase = "loop", !.sent = x.sent \ {n}, !.inFlight = x.inFlight \ {n}]
    OBVIOUS
  <2>3. PICK k : k = Settle(l, n, v[n])
    OBVIOUS
  <2>4. /\ x.phase = "recv" /\ n \in x.sent /\ verdict' = verdict /\ runs' = runs /\ reserved' = reserved
        /\ ledger' = FinishReservation(n, RecordedAs(v[n])) /\ SetLoop(o, k)
    BY <1>1, <2>1, <2>2, <2>3 DEF Receive
  <2>5. l \in Loops /\ l.phase = "loop" /\ l.outcomes = x.outcomes /\ l.inFlight = x.inFlight \ {n}
    BY <1>2, <2>2 DEF Loops, Phases
  <2>6. /\ k.phase = "loop" /\ k.inFlight = x.inFlight \ {n}
        /\ DOMAIN k.outcomes = DOMAIN x.outcomes \union {n}
        /\ k.outcomes[n] = v[n] /\ \A m \in DOMAIN x.outcomes : m # n => k.outcomes[m] = x.outcomes[m]
    BY <1>5, <2>3, <2>5
  <2>7. v[n] \in Verdicts /\ v[n] # "exhausted"
    BY <1>2 DEF Verdicts
  <2>8. RecordedAs(v[n]) # "none"
    BY <2>7 DEF RecordedAs, Verdicts
  <2>9. \A m \in Nodes : ledger'[m] = "none" <=> ledger[m] = "none"
    BY <1>2, <2>4, <2>8 DEF FinishReservation
  <2>10. \A m \in DOMAIN k.outcomes :
            \/ m \in DOMAIN x.outcomes /\ k.outcomes[m] = x.outcomes[m]
            \/ /\ k.outcomes[m] = "exhausted" => ledger'[m] = "none" /\ ~HasRoom'
               /\ k.outcomes[m] = "unknown" /\ verdict[o][m] # "unknown" => ledger'[m] # "none" /\ runs > 1
    BY <1>1, <2>6, <2>7
  <2>11. /\ x.inFlight \union DOMAIN x.outcomes \subseteq k.inFlight \union DOMAIN k.outcomes
         /\ x.phase # "idle" /\ k.phase # "idle" /\ reserved' \in Nat /\ reserved' >= reserved
    BY <1>4, <2>4, <2>6
  <2>12. QED
    BY <1>1, <1>2, <1>3, <2>4, <2>9, <2>10, <2>11, ReasonsMove
<1>9. CASE Consider(o) \/ AwaitBranch(o) \/ EndCancelled(o) \/ Finish(o) \/ StopDispatching(o)
           \/ \E n \in Nodes : Branch(o, n)
  <2>1. PICK k : k = loops'[o]
    OBVIOUS
  <2>2. /\ SetLoop(o, k) /\ x.phase # "idle" /\ k.phase # "idle"
        /\ k.outcomes = x.outcomes /\ k.inFlight = x.inFlight
    <3>1. CASE Consider(o)
      BY <1>1, <1>2, <2>1, <3>1 DEF Consider, Dispatching, SetLoop, Popped, Loops
    <3>2. CASE AwaitBranch(o) \/ EndCancelled(o) \/ Finish(o) \/ StopDispatching(o)
      BY <1>1, <1>2, <2>1, <3>2 DEF AwaitBranch, EndCancelled, Finish, StopDispatching, SetLoop, Loops
    <3>3. CASE \E n \in Nodes : Branch(o, n)
      <4>1. PICK n \in Nodes : Branch(o, n)
        BY <3>3
      <4>2. SetLoop(o, [x EXCEPT !.running = @ \ {n}, !.sent = @ \union {n}]) /\ n \in x.running
        BY <1>1, <4>1 DEF Branch
      <4>3. x.phase # "idle"
        BY <1>2, <4>2 DEF LoopOK, Threads
      <4>4. QED
        BY <1>2, <2>1, <4>2, <4>3 DEF SetLoop, Loops
    <3>4. QED
      BY <1>9, <3>1, <3>2, <3>3
  <2>3. verdict' = verdict /\ runs' = runs /\ reserved' = reserved /\ (ledger' = ledger \/ ledger' = Abandon(o))
    BY <1>9 DEF Consider, AwaitBranch, EndCancelled, Finish, StopDispatching, Branch
  <2>4. \A m \in Nodes : ledger'[m] = "none" <=> ledger[m] = "none"
    BY <1>2, <2>3 DEF Abandon
  <2>5. \A m \in DOMAIN k.outcomes : m \in DOMAIN x.outcomes /\ k.outcomes[m] = x.outcomes[m]
    BY <2>2
  <2>6. /\ x.inFlight \union DOMAIN x.outcomes \subseteq k.inFlight \union DOMAIN k.outcomes
        /\ reserved' \in Nat /\ reserved' >= reserved
    BY <1>4, <2>2, <2>3
  <2>7. QED
    BY <1>1, <1>2, <1>3, <2>2, <2>3, <2>4, <2>5, <2>6, ReasonsMove
<1>10. QED
  BY <1>6, <1>7, <1>8, <1>9 DEF LoopStep

\* Both invariants hold in every state.
LEMMA ReasonsHold == RegionSpec => [](RegionInv /\ ReasonsInv)
<1>1. RegionInit => ReasonsInv
  <2> SUFFICES ASSUME RegionInit PROVE ReasonsInv
    OBVIOUS
  <2>1. \A o \in Owners : loops[o].phase = "idle"
    BY DEF RegionInit, Idle
  <2>2. QED
    BY <2>1 DEF RegionInit, ReasonsInv
<1>2. ASSUME RegionInv, ReasonsInv, [RegionNext]_regionVars PROVE ReasonsInv'
  <2>1. CASE \E o \in Owners : Start(o)
    BY <1>2, <2>1, ReasonsStart
  <2>2. CASE \E o \in Owners : LoopStep(o) \/ \E n \in Nodes : Branch(o, n)
    BY <1>2, <2>2, ReasonsStep
  <2>3. CASE (\E o \in Owners : Cancel(o)) \/ UNCHANGED regionVars
    <3>1. UNCHANGED <<plan, ledger, reserved, loops, verdict, runs>>
      BY <2>3 DEF Cancel, regionVars
    <3>2. QED
      BY <1>2, <3>1 DEF ReasonsInv, Reasons, OwnReservations, HasRoom
  <2>4. QED
    BY <1>2, <2>1, <2>2, <2>3 DEF RegionNext
<1>3. QED
  BY <1>1, <1>2, RegionInvariant, PTL DEF RegionSpec

\* However many loops share the ledger, the budget is not exceeded, and every join says of
\* each node what happened to it.
THEOREM BudgetAndJoinHold == RegionSpec => [](WithinBudget /\ JoinFaithful)
<1>1. RegionInv /\ ReasonsInv => WithinBudget /\ JoinFaithful
  BY RegionInvSound
<1>2. QED
  BY <1>1, ReasonsHold, PTL

\* With one loop at a time, a branch that may have been paid for is not run again either.
THEOREM RegionStaysSound ==
  ASSUME OneOwner
  PROVE  RegionSpec => []RegionSound
<1>1. RegionInv /\ ReasonsInv => RegionSound
  BY RegionInvSound DEF RegionSound
<1>2. QED
  BY <1>1, ReasonsHold, PTL

-----------------------------------------------------------------------------
(* The coordinator.                                                        *)

\* A lane of the coordinator.
LaneRecords == [binding: Bindings \union {None}, queue: Seq(Operations), active: BOOLEAN]

\* The types of the coordinator's state.
SchedulerTypes ==
  /\ lanes \in [Instances -> LaneRecords]
  /\ ready \in Seq(Instances)
  /\ queued \subseteq Operations
  /\ active \in [Operations -> Instances \union {None}]
  /\ uncertain \subseteq Operations
  /\ retained \in Seq(Operations)
  /\ open \in BOOLEAN

\* An unregistered lane is empty and idle, and an uncertain operation is active.
Tidy ==
  /\ \A i \in Instances : lanes[i].binding = None => lanes[i].queue = <<>> /\ ~lanes[i].active
  /\ \A o \in uncertain : active[o] # None

\* The configured bounds, of sets that are finite.
Limits ==
  /\ IsFiniteSet(Registered) /\ Cardinality(Registered) <= MaxInstances
  /\ IsFiniteSet(Places) /\ QueuedLen <= GlobalQueueCapacity
  /\ \A i \in Instances : Len(lanes[i].queue) <= PerInstanceQueueCapacity
  /\ \A i, j \in Registered : i # j => lanes[i].binding.namespace # lanes[j].binding.namespace
  /\ Len(retained) <= MaxRetained

\* A slot is taken exactly while one operation of the instance is active.
Slots ==
  /\ \A i \in Instances : lanes[i].active <=> \E o \in Operations : active[o] = i
  /\ \A o, p \in Operations : active[o] = active[p] /\ active[o] # None => o = p

\* Only idle instances wait for a turn, each for one, and every idle one with work does.
Turns ==
  /\ \A i \in ToSet(ready) : ~lanes[i].active
  /\ IsInjective(ready)
  /\ \A i \in Instances : lanes[i].queue # <<>> /\ ~lanes[i].active => i \in ToSet(ready)

\* The inductive invariant of the coordinator.
SchedulerInv == SchedulerTypes /\ Tidy /\ Limits /\ Slots /\ Turns /\ OnePlace

\* The invariant implies what the run checks.
LEMMA SchedulerInvSound == SchedulerInv => SchedulerSound
<1> SUFFICES ASSUME SchedulerInv PROVE SchedulerSound
  OBVIOUS
<1>1. WithinBounds
  BY DEF SchedulerInv, SchedulerTypes, Limits, WithinBounds, LaneRecords
<1>2. ASSUME NEW i \in Instances
      PROVE  Cardinality({o \in Operations : active[o] = i}) = IF lanes[i].active THEN 1 ELSE 0
  <2> DEFINE mine == {o \in Operations : active[o] = i}
  <2>1. lanes[i].active <=> \E o \in Operations : active[o] = i
    BY DEF SchedulerInv, Slots
  <2>2. CASE lanes[i].active
    <3>1. PICK o \in Operations : active[o] = i
      BY <2>1, <2>2
    <3>2. i # None
      BY SchedulerAssumption
    <3>3. \A p \in Operations : active[p] = i => p = o
      BY <3>1, <3>2 DEF SchedulerInv, Slots
    <3>4. mine = {o}
      BY <3>1, <3>3
    <3>5. Cardinality(mine) = 1
      BY <3>4, FS_Singleton
    <3>6. QED
      BY <2>2, <3>5
  <2>3. CASE ~lanes[i].active
    <3>1. mine = {}
      BY <2>1, <2>3
    <3>2. Cardinality(mine) = 0
      BY <3>1, FS_EmptySet
    <3>3. QED
      BY <2>3, <3>2
  <2>4. QED
    BY <2>2, <2>3
<1>3. ready \in Seq(Instances) /\ DOMAIN ready = 1..Len(ready)
  BY DEF SchedulerInv, SchedulerTypes
<1>4. \A k \in 1..Len(ready) : ~lanes[ready[k]].active
  BY <1>3 DEF SchedulerInv, Turns, ToSet
<1>5. SerialSlot
  BY <1>2, <1>4 DEF SerialSlot, SchedulerInv, Turns
<1>6. NoLostTurn
  <2>1. \A i \in Instances : lanes[i].queue # <<>> /\ ~lanes[i].active => i \in ToSet(ready)
    BY DEF SchedulerInv, Turns
  <2>2. \A i : Contains(ready, i) <=> i \in ToSet(ready)
    BY <1>3, ContainsIs
  <2>3. QED
    BY <2>1, <2>2 DEF NoLostTurn
<1>7. QED
  BY <1>1, <1>5, <1>6 DEF SchedulerSound, SchedulerInv

\* It holds of a new coordinator.
LEMMA SchedulerStarts == SchedulerInit => SchedulerInv
<1> SUFFICES ASSUME SchedulerInit PROVE SchedulerInv
  OBVIOUS
<1>1. /\ lanes = [i \in Instances |-> NoLane] /\ ready = <<>> /\ queued = {} /\ open = TRUE
      /\ active = [o \in Operations |-> None] /\ uncertain = {} /\ retained = <<>>
  BY DEF SchedulerInit
<1>2. NoLane \in LaneRecords /\ NoLane.binding = None /\ NoLane.queue = <<>> /\ ~NoLane.active
  BY DEF NoLane, LaneRecords
<1>3. \A i \in Instances : lanes[i] = NoLane
  BY <1>1
<1>4. SchedulerTypes
  <2>1. lanes \in [Instances -> LaneRecords]
    BY <1>1, <1>2
  <2>2. ready \in Seq(Instances) /\ retained \in Seq(Operations)
    BY <1>1
  <2>3. QED
    BY <1>1, <2>1, <2>2 DEF SchedulerTypes
<1>5. Registered = {} /\ Places = {}
  BY <1>2, <1>3 DEF Registered, Places
<1>6. Limits
  <2>1. Cardinality({}) = 0 /\ IsFiniteSet({})
    BY FS_EmptySet
  <2>2. \A i \in Instances : Len(lanes[i].queue) = 0
    BY <1>2, <1>3
  <2>3. Len(retained) = 0
    BY <1>1
  <2>4. QED
    BY <1>5, <2>1, <2>2, <2>3, SchedulerAssumption DEF Limits, QueuedLen
<1>7. Tidy
  BY <1>1, <1>2, <1>3 DEF Tidy
<1>8. Slots
  <2>1. \A i \in Instances : i # None
    BY SchedulerAssumption
  <2>2. QED
    BY <1>1, <1>2, <1>3, <2>1 DEF Slots
<1>9. Turns
  BY <1>1, <1>2, <1>3 DEF Turns, IsInjective, ToSet
<1>10. OnePlace
  <2>1. \A i \in Instances : Waiting(i) = {} /\ IsInjective(lanes[i].queue)
    BY <1>2, <1>3 DEF Waiting, ToSet, IsInjective
  <2>2. ToSet(retained) = {} /\ IsInjective(retained)
    BY <1>1 DEF ToSet, IsInjective
  <2>3. QED
    BY <1>1, <2>1, <2>2 DEF OnePlace
<1>11. QED
  BY <1>4, <1>6, <1>7, <1>8, <1>9, <1>10 DEF SchedulerInv

\* The memory of finished operations: it forgets the oldest, and only when it is full.
LEMMA RetainKeeps ==
  ASSUME NEW s \in Seq(Operations), NEW c \in Seq(Operations), Len(s) <= MaxRetained,
         IsInjective(s), IsInjective(c), ToSet(s) \intersect ToSet(c) = {}, NEW r, r = Retain(s, c)
  PROVE  /\ r \in Seq(Operations) /\ Len(r) <= MaxRetained /\ IsInjective(r)
         /\ ToSet(r) \subseteq ToSet(s) \union ToSet(c)
         /\ Len(c) <= MaxRetained => ToSet(c) \subseteq ToSet(r)
         /\ ForgetsOldest(s, r)
<1>1. MaxRetained \in Nat \ {0} /\ Len(s) \in Nat /\ Len(c) \in Nat
  BY SchedulerAssumption
<1>2. PICK all : all = s \o c
  OBVIOUS
<1>3. /\ all \in Seq(Operations) /\ Len(all) = Len(s) + Len(c)
      /\ \A k \in 1..Len(s) : all[k] = s[k]
      /\ \A k \in 1..Len(c) : all[Len(s) + k] = c[k]
  BY <1>2, ConcatProperties
<1>4. PICK d \in Nat : d = IF Len(all) > MaxRetained THEN Len(all) - MaxRetained ELSE 0
  <2>1. PICK e : e = IF Len(all) > MaxRetained THEN Len(all) - MaxRetained ELSE 0
    OBVIOUS
  <2>2. Len(all) \in Nat
    BY <1>1, <1>3
  <2>3. e \in Nat
    BY <1>1, <2>1, <2>2
  <2>4. QED
    BY <2>1, <2>3
<1>5. r = SubSeq(all, d + 1, Len(all))
  BY <1>1, <1>2, <1>3, <1>4 DEF Retain
<1>6. d <= Len(s) + Len(c) /\ (d # 0 => Len(s) + Len(c) - d = MaxRetained)
      /\ (Len(c) <= MaxRetained => d <= Len(s)) /\ Len(s) + Len(c) - d <= MaxRetained
      /\ Len(s) + Len(c) - d \in Nat
  BY <1>1, <1>3, <1>4
<1>7. r \in Seq(Operations) /\ Len(r) = Len(all) - d /\ \A k \in 1..Len(r) : r[k] = all[d + k]
  <2>1. d + 1 \in 1..(Len(all) + 1) /\ Len(all) \in d..Len(all)
    BY <1>1, <1>3, <1>6
  <2>2. \A k \in (d + 1)..Len(all) : all[k] \in Operations
    BY <1>3, <1>1
  <2>3. QED
    BY <1>1, <1>3, <1>5, <1>6, <2>1, <2>2
<1>8. DOMAIN r = 1..Len(r) /\ DOMAIN s = 1..Len(s) /\ DOMAIN c = 1..Len(c)
  BY <1>7
<1>9. \A m \in 1..Len(s) : s[m] \in ToSet(s)
  BY <1>8 DEF ToSet
<1>10. \A m \in 1..Len(c) : c[m] \in ToSet(c)
  BY <1>8 DEF ToSet
<1>11. ASSUME NEW m \in 1..Len(all)
       PROVE  \/ m \in 1..Len(s) /\ all[m] = s[m]
              \/ m - Len(s) \in 1..Len(c) /\ all[m] = c[m - Len(s)]
  <2>1. CASE m \in 1..Len(s)
    BY <1>3, <2>1
  <2>2. CASE m \notin 1..Len(s)
    <3>1. m - Len(s) \in 1..Len(c) /\ Len(s) + (m - Len(s)) = m
      BY <1>1, <1>3, <2>2
    <3>2. QED
      BY <1>3, <3>1
  <2>3. QED
    BY <2>1, <2>2
<1>12. \A m, n \in 1..Len(all) : all[m] = all[n] => m = n
  <2>1. SUFFICES ASSUME NEW m \in 1..Len(all), NEW n \in 1..Len(all), all[m] = all[n] PROVE m = n
    OBVIOUS
  <2>2. CASE m \in 1..Len(s) /\ n \in 1..Len(s)
    BY <1>3, <1>8, <2>1, <2>2 DEF IsInjective
  <2>3. CASE m \notin 1..Len(s) /\ n \notin 1..Len(s)
    <3>1. m - Len(s) \in 1..Len(c) /\ n - Len(s) \in 1..Len(c) /\ c[m - Len(s)] = c[n - Len(s)]
      BY <1>11, <2>1, <2>3
    <3>2. m - Len(s) = n - Len(s)
      BY <1>8, <3>1 DEF IsInjective
    <3>3. QED
      BY <1>1, <1>3, <3>2
  <2>4. CASE m \in 1..Len(s) /\ n \notin 1..Len(s)
    BY <1>3, <1>9, <1>10, <1>11, <2>1, <2>4
  <2>5. CASE m \notin 1..Len(s) /\ n \in 1..Len(s)
    BY <1>3, <1>9, <1>10, <1>11, <2>1, <2>5
  <2>6. QED
    BY <2>2, <2>3, <2>4, <2>5
<1>13. \A k \in 1..Len(r) : d + k \in 1..Len(all)
  BY <1>1, <1>3, <1>7
<1>14. IsInjective(r)
  <2>1. ASSUME NEW m \in 1..Len(r), NEW n \in 1..Len(r), r[m] = r[n] PROVE m = n
    <3>1. d + m = d + n
      BY <1>7, <1>12, <1>13, <2>1
    <3>2. QED
      BY <1>7, <3>1
  <2>2. QED
    BY <1>8, <2>1 DEF IsInjective
<1>15. ToSet(r) \subseteq ToSet(s) \union ToSet(c)
  <2>1. ASSUME NEW k \in 1..Len(r) PROVE r[k] \in ToSet(s) \union ToSet(c)
    BY <1>7, <1>9, <1>10, <1>11, <1>13
  <2>2. QED
    BY <1>8, <2>1 DEF ToSet
<1>16. ASSUME NEW m \in 1..Len(all), m > d PROVE all[m] \in ToSet(r)
  <2>1. m - d \in 1..Len(r) /\ d + (m - d) = m
    BY <1>1, <1>3, <1>7, <1>16
  <2>2. r[m - d] = all[m]
    BY <1>7, <2>1
  <2>3. QED
    BY <1>8, <2>1, <2>2 DEF ToSet
<1>17. ASSUME Len(c) <= MaxRetained PROVE ToSet(c) \subseteq ToSet(r)
  <2>1. ASSUME NEW k \in 1..Len(c) PROVE c[k] \in ToSet(r)
    <3>1. Len(s) + k \in 1..Len(all) /\ Len(s) + k > d /\ all[Len(s) + k] = c[k]
      BY <1>1, <1>3, <1>6, <1>17
    <3>2. QED
      BY <1>16, <3>1
  <2>2. QED
    BY <1>8, <2>1 DEF ToSet
<1>18. ForgetsOldest(s, r)
  <2>1. SUFFICES ASSUME NEW k \in 1..Len(s), s[k] \notin ToSet(r)
                 PROVE  Len(r) = MaxRetained /\ \A m \in 1..k : s[m] \notin ToSet(r)
    BY <1>8 DEF ForgetsOldest
  <2>2. k \in 1..Len(all) /\ all[k] = s[k]
    BY <1>1, <1>3, <2>1
  <2>3. ~(k > d)
    BY <1>16, <2>1, <2>2
  <2>4. d # 0
    BY <1>1, <2>1, <2>3
  <2>5. ASSUME NEW m \in 1..k, s[m] \in ToSet(r) PROVE FALSE
    <3>1. m \in 1..Len(all) /\ all[m] = s[m] /\ m <= d
      BY <1>1, <1>3, <2>3
    <3>2. PICK i \in 1..Len(r) : r[i] = s[m]
      BY <1>8, <2>5 DEF ToSet
    <3>3. d + i = m
      BY <1>7, <1>12, <1>13, <3>1, <3>2
    <3>4. QED
      BY <1>7, <3>1, <3>2, <3>3
  <2>6. QED
    BY <1>3, <1>6, <1>7, <2>4, <2>5
<1>19. Len(r) <= MaxRetained
  BY <1>3, <1>6, <1>7
<1>20. QED
  BY <1>7, <1>14, <1>15, <1>17, <1>18, <1>19

\* A step that keeps every binding keeps the limits on them.
LEMMA BindingsKept ==
  ASSUME SchedulerInv, lanes' \in [Instances -> LaneRecords],
         \A i \in Instances : lanes'[i].binding = lanes[i].binding
  PROVE  /\ IsFiniteSet(Registered') /\ Cardinality(Registered') <= MaxInstances
         /\ (\A i, j \in Registered :
               i # j => lanes[i].binding.namespace # lanes[j].binding.namespace)'
<1>1. Registered' = Registered
  BY DEF Registered
<1>2. Registered \subseteq Instances
  BY DEF Registered
<1>3. \A i, j \in Registered : i # j => lanes[i].binding.namespace # lanes[j].binding.namespace
  BY DEF SchedulerInv, Limits
<1>4. IsFiniteSet(Registered) /\ Cardinality(Registered) <= MaxInstances
  BY DEF SchedulerInv, Limits
<1>5. \A i, j \in Registered' : i # j => lanes'[i].binding.namespace # lanes'[j].binding.namespace
  BY <1>1, <1>2, <1>3
<1>6. QED
  BY <1>1, <1>4, <1>5

\* A step that lengthens no queue keeps the limits on them.
LEMMA PlacesShrink ==
  ASSUME SchedulerInv, lanes' \in [Instances -> LaneRecords],
         \A i \in Instances : Len(lanes'[i].queue) <= Len(lanes[i].queue)
  PROVE  /\ IsFiniteSet(Places') /\ QueuedLen' <= GlobalQueueCapacity
         /\ \A i \in Instances : Len(lanes'[i].queue) <= PerInstanceQueueCapacity
<1>1. \A i \in Instances : lanes[i].queue \in Seq(Operations) /\ lanes'[i].queue \in Seq(Operations)
  BY DEF SchedulerInv, SchedulerTypes, LaneRecords
<1>2. \A i \in Instances : Len(lanes[i].queue) \in Nat /\ Len(lanes'[i].queue) \in Nat
  BY <1>1
<1>3. \A i \in Instances : DOMAIN lanes[i].queue = 1..Len(lanes[i].queue)
                         /\ DOMAIN lanes'[i].queue = 1..Len(lanes'[i].queue)
  BY <1>1
<1>4. \A i \in Instances : DOMAIN lanes'[i].queue \subseteq DOMAIN lanes[i].queue
  BY <1>2, <1>3
<1>5. Places' \subseteq Places
  BY <1>4 DEF Places
<1>6. IsFiniteSet(Places) /\ Cardinality(Places) <= GlobalQueueCapacity
  BY DEF SchedulerInv, Limits, QueuedLen
<1>7. IsFiniteSet(Places') /\ Cardinality(Places') <= Cardinality(Places)
  BY <1>5, <1>6, FS_Subset
<1>8. Cardinality(Places) \in Nat /\ Cardinality(Places') \in Nat
  BY <1>6, <1>7, FS_CardinalityType
<1>9. QueuedLen' <= GlobalQueueCapacity
  BY <1>6, <1>7, <1>8, SchedulerAssumption DEF QueuedLen
<1>10. \A i \in Instances : Len(lanes[i].queue) <= PerInstanceQueueCapacity
  BY DEF SchedulerInv, Limits
<1>11. \A i \in Instances : Len(lanes'[i].queue) <= PerInstanceQueueCapacity
  BY <1>2, <1>10, SchedulerAssumption
<1>12. QED
  BY <1>7, <1>9, <1>11

\* enqueue_ready: the instance is given a turn it does not have yet.
LEMMA EnqueueKeeps ==
  ASSUME ready \in Seq(Instances), IsInjective(ready), NEW i \in Instances, NEW r, r = EnqueueReady(i)
  PROVE  r \in Seq(Instances) /\ IsInjective(r) /\ ToSet(r) = ToSet(ready) \union {i}
<1>1. Contains(ready, i) <=> i \in ToSet(ready)
  BY ContainsIs
<1>2. CASE i \in ToSet(ready)
  BY <1>1, <1>2 DEF EnqueueReady
<1>3. CASE i \notin ToSet(ready)
  <2>1. r = Append(ready, i)
    BY <1>1, <1>3 DEF EnqueueReady
  <2>2. r \in Seq(Instances)
    BY <2>1
  <2>3. ToSet(Append(ready, i)) = ToSet(ready) \union {i} /\ IsInjective(Append(ready, i))
    BY <1>3, AppendKeeps
  <2>4. QED
    BY <2>1, <2>2, <2>3
<1>4. QED
  BY <1>2, <1>3

\* A step that changes nothing keeps the invariant.
LEMMA SchedulerStutters ==
  ASSUME SchedulerInv, UNCHANGED schedulerVars
  PROVE  SchedulerInv'
<1> USE DEF schedulerVars
<1>1. SchedulerTypes'
  BY DEF SchedulerInv, SchedulerTypes
<1>2. Tidy'
  BY DEF SchedulerInv, Tidy
<1>3. Limits'
  BY DEF SchedulerInv, Limits, Registered, QueuedLen, Places
<1>4. Slots' /\ Turns'
  BY DEF SchedulerInv, Slots, Turns
<1>5. OnePlace'
  BY DEF SchedulerInv, OnePlace, Waiting, ActiveOperations
<1>6. QED
  BY <1>1, <1>2, <1>3, <1>4, <1>5 DEF SchedulerInv

\* complete with status Unknown keeps it.
LEMMA UnknownStep ==
  ASSUME SchedulerInv, NEW o \in Operations, CompleteUnknown(o)
  PROVE  SchedulerInv'
<1>1. /\ UNCHANGED <<lanes, ready, queued, active, retained, open>>
      /\ uncertain' = uncertain \union {o} /\ active[o] # None
  BY DEF CompleteUnknown, ActiveOperations
<1>2. SchedulerTypes'
  BY <1>1 DEF SchedulerInv, SchedulerTypes
<1>3. Tidy'
  BY <1>1 DEF SchedulerInv, Tidy
<1>4. Limits'
  BY <1>1 DEF SchedulerInv, Limits, Registered, QueuedLen, Places
<1>5. Slots' /\ Turns'
  BY <1>1 DEF SchedulerInv, Slots, Turns
<1>6. OnePlace'
  BY <1>1 DEF SchedulerInv, OnePlace, Waiting, ActiveOperations
<1>7. QED
  BY <1>2, <1>3, <1>4, <1>5, <1>6 DEF SchedulerInv

\* register_instance keeps it.
LEMMA RegisterStep ==
  ASSUME SchedulerInv, NEW b \in Bindings, RegisterInstance(b)
  PROVE  SchedulerInv'
<1>1. PICK i \in Instances : i = b.instance
  BY SchedulerAssumption
<1>2. b # None
  BY SchedulerAssumption
<1>3. /\ Cardinality(Registered) < MaxInstances /\ i \notin Registered
      /\ \A j \in Registered : lanes[j].binding.namespace # b.namespace
      /\ lanes' = [lanes EXCEPT ![i] = [NoLane EXCEPT !.binding = b]]
      /\ UNCHANGED <<ready, queued, active, uncertain, retained, open>>
  BY <1>1 DEF RegisterInstance, NamespaceConflicts
<1>4. PICK n, l : n = NoLane /\ l = [n EXCEPT !.binding = b]
  OBVIOUS
<1>5. l \in LaneRecords /\ l.binding = b /\ l.queue = <<>> /\ ~l.active
  <2>1. n \in LaneRecords /\ n.queue = <<>> /\ ~n.active
    BY <1>4 DEF NoLane, LaneRecords
  <2>2. l \in LaneRecords /\ l.binding = b /\ l.queue = n.queue /\ (l.active <=> n.active)
    BY <1>4, <2>1 DEF LaneRecords
  <2>3. QED
    BY <2>1, <2>2
<1>6. lanes \in [Instances -> LaneRecords]
  BY DEF SchedulerInv, SchedulerTypes
<1>7. lanes' = [lanes EXCEPT ![i] = l]
  BY <1>3, <1>4
<1>8. lanes'[i] = l /\ (\A j \in Instances : j # i => lanes'[j] = lanes[j])
      /\ lanes' \in [Instances -> LaneRecords]
  BY <1>5, <1>6, <1>7
<1>9. lanes[i].binding = None /\ lanes[i].queue = <<>> /\ ~lanes[i].active
  BY <1>3 DEF Registered, SchedulerInv, Tidy
<1>10. \A j \in Instances : lanes'[j].queue = lanes[j].queue /\ (lanes'[j].active <=> lanes[j].active)
  BY <1>5, <1>8, <1>9
<1>11. SchedulerTypes'
  BY <1>3, <1>8 DEF SchedulerInv, SchedulerTypes
<1>12. Tidy'
  <2>1. ASSUME NEW j \in Instances, lanes'[j].binding = None
        PROVE  lanes'[j].queue = <<>> /\ ~lanes'[j].active
    <3>1. CASE j = i
      BY <1>5, <1>8, <3>1
    <3>2. CASE j # i
      <4>1. lanes[j].binding = None
        BY <1>8, <2>1, <3>2
      <4>2. QED
        BY <1>8, <3>2, <4>1 DEF SchedulerInv, Tidy
    <3>3. QED
      BY <3>1, <3>2
  <2>2. QED
    BY <1>3, <2>1 DEF SchedulerInv, Tidy
<1>13. Registered' = Registered \union {i}
  BY <1>2, <1>5, <1>8 DEF Registered
<1>14. IsFiniteSet(Registered') /\ Cardinality(Registered') <= MaxInstances
  <2>1. IsFiniteSet(Registered)
    BY DEF SchedulerInv, Limits
  <2>2. Cardinality(Registered) \in Nat
    BY <2>1, FS_CardinalityType
  <2>3. IsFiniteSet(Registered \union {i}) /\ Cardinality(Registered \union {i}) = Cardinality(Registered) + 1
    BY <1>3, <2>1, FS_AddElement
  <2>4. QED
    BY <1>3, <1>13, <2>2, <2>3, SchedulerAssumption
<1>15. ASSUME NEW j \in Registered', NEW k \in Registered', j # k
       PROVE  lanes'[j].binding.namespace # lanes'[k].binding.namespace
  <2>1. j \in Instances /\ k \in Instances
    BY DEF Registered
  <2>2. CASE j = i
    BY <1>3, <1>5, <1>8, <1>13, <1>15, <2>1, <2>2
  <2>3. CASE k = i
    BY <1>3, <1>5, <1>8, <1>13, <1>15, <2>1, <2>3
  <2>4. CASE j # i /\ k # i
    <3>1. j \in Registered /\ k \in Registered
      BY <1>13, <2>4
    <3>2. lanes[j].binding.namespace # lanes[k].binding.namespace
      BY <1>15, <3>1 DEF SchedulerInv, Limits
    <3>3. QED
      BY <1>8, <2>1, <2>4, <3>2
  <2>5. QED
    BY <2>2, <2>3, <2>4
<1>16. /\ IsFiniteSet(Places') /\ QueuedLen' <= GlobalQueueCapacity
       /\ \A j \in Instances : Len(lanes'[j].queue) <= PerInstanceQueueCapacity
  <2>1. Places' = Places
    BY <1>10 DEF Places
  <2>2. QED
    BY <1>10, <2>1 DEF SchedulerInv, Limits, QueuedLen
<1>17. Limits'
  <2>1. Len(retained') <= MaxRetained
    BY <1>3 DEF SchedulerInv, Limits
  <2>2. QED
    BY <1>14, <1>15, <1>16, <2>1 DEF Limits
<1>18. Slots'
  BY <1>3, <1>10 DEF SchedulerInv, Slots
<1>19. Turns'
  <2>1. ToSet(ready) \subseteq Instances
    BY ContainsIs DEF SchedulerInv, SchedulerTypes
  <2>2. QED
    BY <1>3, <1>10, <2>1 DEF SchedulerInv, Turns
<1>20. OnePlace'
  <2>1. \A j \in Instances : Waiting(j)' = Waiting(j)
    BY <1>10 DEF Waiting
  <2>2. QED
    BY <1>3, <1>10, <2>1 DEF SchedulerInv, OnePlace, ActiveOperations
<1>21. QED
  BY <1>11, <1>12, <1>17, <1>18, <1>19, <1>20 DEF SchedulerInv

\* An item leaves the queue of lane i and the index of queued operations.
LEMMA QueueLoses ==
  ASSUME SchedulerInv, NEW i \in Instances, NEW o \in Waiting(i), queued' = queued \ {o},
         ToSet(lanes'[i].queue) = Waiting(i) \ {o}, IsInjective(lanes'[i].queue),
         \A j \in Instances : j # i => lanes'[j].queue = lanes[j].queue
  PROVE  /\ (queued = UNION {Waiting(j) : j \in Instances})'
         /\ (\A j, k \in Instances : j # k => Waiting(j) \intersect Waiting(k) = {})'
         /\ (\A j \in Instances : IsInjective(lanes[j].queue))'
         /\ o \in queued /\ o \notin ActiveOperations /\ o \notin ToSet(retained)
<1>1. Waiting(i)' = Waiting(i) \ {o} /\ \A j \in Instances : j # i => Waiting(j)' = Waiting(j)
  BY DEF Waiting
<1>2. /\ queued = UNION {Waiting(j) : j \in Instances}
      /\ \A j, k \in Instances : j # k => Waiting(j) \intersect Waiting(k) = {}
  BY DEF SchedulerInv, OnePlace
<1>3. \A j \in Instances : Waiting(j)' = Waiting(j) \ {o}
  BY <1>1, <1>2
<1>4. (queued = UNION {Waiting(j) : j \in Instances})'
  BY <1>2, <1>3
<1>5. (\A j, k \in Instances : j # k => Waiting(j) \intersect Waiting(k) = {})'
  BY <1>2, <1>3
<1>6. (\A j \in Instances : IsInjective(lanes[j].queue))'
  <2>1. ASSUME NEW j \in Instances PROVE IsInjective(lanes'[j].queue)
    <3>1. IsInjective(lanes[j].queue)
      BY DEF SchedulerInv, OnePlace
    <3>2. QED
      BY <3>1
  <2>2. QED
    BY <2>1
<1>7. o \in queued
  BY <1>2
<1>8. QED
  BY <1>4, <1>5, <1>6, <1>7 DEF SchedulerInv, OnePlace

\* One finished operation is remembered.
LEMMA RememberOne ==
  ASSUME SchedulerInv, NEW o \in Operations, o \notin ToSet(retained),
         retained' = Retain(retained, <<o>>)
  PROVE  /\ retained' \in Seq(Operations) /\ Len(retained') <= MaxRetained /\ IsInjective(retained')
         /\ ToSet(retained') \subseteq ToSet(retained) \union {o} /\ o \in ToSet(retained')
         /\ ForgetsOldest(retained, retained')
<1>1. PICK c, m, n : c = <<o>> /\ m = retained /\ n = retained'
  OBVIOUS
<1>2. c \in Seq(Operations) /\ Len(c) = 1 /\ ToSet(c) = {o} /\ IsInjective(c)
  BY <1>1 DEF ToSet, IsInjective
<1>3. m \in Seq(Operations) /\ Len(m) <= MaxRetained /\ IsInjective(m) /\ ToSet(m) \intersect ToSet(c) = {}
      /\ n = Retain(m, c)
  BY <1>1, <1>2 DEF SchedulerInv, SchedulerTypes, Limits, OnePlace
<1>4. /\ n \in Seq(Operations) /\ Len(n) <= MaxRetained /\ IsInjective(n)
      /\ ToSet(n) \subseteq ToSet(m) \union ToSet(c)
      /\ Len(c) <= MaxRetained => ToSet(c) \subseteq ToSet(n)
      /\ ForgetsOldest(m, n)
  BY <1>2, <1>3, RetainKeeps
<1>5. 1 <= MaxRetained
  BY SchedulerAssumption
<1>6. QED
  BY <1>1, <1>2, <1>4, <1>5

\* cancel_queued keeps it, and remembers the operation.
LEMMA CancelStep ==
  ASSUME SchedulerInv, NEW o \in Operations, CancelQueued(o)
  PROVE  /\ SchedulerInv' /\ o \in queued /\ o \notin ActiveOperations
         /\ ToSet(retained') \subseteq ToSet(retained) \union {o} /\ o \in ToSet(retained')
         /\ ForgetsOldest(retained, retained')
<1>1. PICK i \in Instances :
        /\ \E k \in DOMAIN lanes[i].queue :
             /\ lanes[i].queue[k] = o
             /\ lanes' = [lanes EXCEPT ![i].queue = RemoveAt(@, k)]
        /\ queued' = queued \ {o}
        /\ retained' = Retain(retained, <<o>>)
        /\ UNCHANGED <<ready, active, uncertain, open>>
  BY DEF CancelQueued
<1>2. PICK k \in DOMAIN lanes[i].queue :
        lanes[i].queue[k] = o /\ lanes' = [lanes EXCEPT ![i].queue = RemoveAt(@, k)]
  BY <1>1
<1>3. PICK q, r, l : q = lanes[i].queue /\ r = RemoveAt(q, k) /\ l = [lanes[i] EXCEPT !.queue = r]
  OBVIOUS
<1>4. lanes \in [Instances -> LaneRecords] /\ lanes[i] \in LaneRecords /\ q \in Seq(Operations)
      /\ IsInjective(q)
  BY <1>3 DEF SchedulerInv, SchedulerTypes, LaneRecords, OnePlace
<1>5. q[k] = o /\ k \in DOMAIN q
  BY <1>2, <1>3
<1>6. r \in Seq(Operations) /\ Len(r) = Len(q) - 1 /\ ToSet(r) = ToSet(q) \ {o} /\ IsInjective(r)
  <2>1. q \in Seq(Operations) /\ IsInjective(q) /\ k \in DOMAIN q /\ r = RemoveAt(q, k)
    BY <1>3, <1>4, <1>5
  <2>2. /\ r \in Seq(Operations) /\ Len(r) = Len(q) - 1 /\ ToSet(r) = ToSet(q) \ {q[k]}
        /\ IsInjective(r)
    BY <2>1, RemoveKeeps
  <2>3. QED
    BY <1>5, <2>2
<1>7. l \in LaneRecords /\ l.binding = lanes[i].binding /\ l.queue = r
      /\ (l.active <=> lanes[i].active)
  BY <1>3, <1>4, <1>6 DEF LaneRecords
<1>8. lanes' = [lanes EXCEPT ![i] = l]
  BY <1>2, <1>3, <1>4
<1>9. lanes'[i] = l /\ (\A j \in Instances : j # i => lanes'[j] = lanes[j])
      /\ lanes' \in [Instances -> LaneRecords]
  BY <1>4, <1>7, <1>8
<1>10. \A j \in Instances : lanes'[j].binding = lanes[j].binding
                        /\ (lanes'[j].active <=> lanes[j].active)
  BY <1>7, <1>9
<1>11. o \in Waiting(i) /\ ToSet(lanes'[i].queue) = Waiting(i) \ {o} /\ IsInjective(lanes'[i].queue)
  <2>1. Waiting(i) = ToSet(q) /\ lanes'[i].queue = r
    BY <1>3, <1>7, <1>9 DEF Waiting
  <2>2. o \in ToSet(q)
    BY <1>5 DEF ToSet
  <2>3. QED
    BY <1>6, <2>1, <2>2
<1>12. /\ (queued = UNION {Waiting(j) : j \in Instances})'
       /\ (\A j, k1 \in Instances : j # k1 => Waiting(j) \intersect Waiting(k1) = {})'
       /\ (\A j \in Instances : IsInjective(lanes[j].queue))'
       /\ o \in queued /\ o \notin ActiveOperations /\ o \notin ToSet(retained)
  BY <1>1, <1>9, <1>11, QueueLoses
<1>13. /\ retained' \in Seq(Operations) /\ Len(retained') <= MaxRetained /\ IsInjective(retained')
       /\ ToSet(retained') \subseteq ToSet(retained) \union {o} /\ o \in ToSet(retained')
       /\ ForgetsOldest(retained, retained')
  BY <1>1, <1>12, RememberOne
<1>14. SchedulerTypes'
  BY <1>1, <1>9, <1>13 DEF SchedulerInv, SchedulerTypes
<1>15. \A j \in Instances : lanes[j].queue = <<>> => lanes'[j].queue = <<>>
  <2>1. k \in 1..Len(q) /\ q # <<>>
    BY <1>4, <1>5
  <2>2. QED
    BY <1>3, <1>9, <2>1
<1>16. Tidy'
  BY <1>1, <1>10, <1>15 DEF SchedulerInv, Tidy
<1>17. Limits'
  <2>1. \A j \in Instances : Len(lanes'[j].queue) <= Len(lanes[j].queue)
    <3>1. Len(r) <= Len(q)
      BY <1>4, <1>6
    <3>2. \A j \in Instances : Len(lanes[j].queue) \in Nat
      BY <1>4 DEF LaneRecords
    <3>3. ASSUME NEW j \in Instances PROVE Len(lanes'[j].queue) <= Len(lanes[j].queue)
      <4>1. CASE j = i
        BY <1>3, <1>7, <1>9, <3>1, <4>1
      <4>2. CASE j # i
        BY <1>9, <3>2, <4>2
      <4>3. QED
        BY <4>1, <4>2
    <3>4. QED
      BY <3>3
  <2>2. /\ IsFiniteSet(Places') /\ QueuedLen' <= GlobalQueueCapacity
        /\ \A j \in Instances : Len(lanes'[j].queue) <= PerInstanceQueueCapacity
    BY <1>9, <2>1, PlacesShrink
  <2>3. QED
    BY <1>9, <1>10, <1>13, <2>2, BindingsKept DEF Limits
<1>18. Slots'
  BY <1>1, <1>10 DEF SchedulerInv, Slots
<1>19. Turns'
  <2>1. ToSet(ready) \subseteq Instances
    BY ContainsIs DEF SchedulerInv, SchedulerTypes
  <2>2. QED
    BY <1>1, <1>10, <1>15, <2>1 DEF SchedulerInv, Turns
<1>20. OnePlace'
  <2>1. ActiveOperations' = ActiveOperations
    BY <1>1 DEF ActiveOperations
  <2>2. ToSet(retained') \intersect (queued' \union ActiveOperations') = {}
    BY <1>1, <1>12, <1>13, <2>1 DEF SchedulerInv, OnePlace
  <2>3. queued' \intersect ActiveOperations' = {}
    BY <1>1, <2>1 DEF SchedulerInv, OnePlace
  <2>4. QED
    BY <1>12, <1>13, <2>2, <2>3 DEF OnePlace
<1>21. QED
  BY <1>12, <1>13, <1>14, <1>16, <1>17, <1>18, <1>19, <1>20 DEF SchedulerInv

\* complete with a terminal status keeps it, and remembers the operation.
LEMMA CompleteStep ==
  ASSUME SchedulerInv, NEW o \in Operations, Complete(o)
  PROVE  /\ SchedulerInv' /\ active[o] # None /\ active' = [active EXCEPT ![o] = None]
         /\ lanes' = [lanes EXCEPT ![active[o]].active = FALSE]
         /\ queued' = queued /\ uncertain' = uncertain \ {o}
         /\ ToSet(retained') \subseteq ToSet(retained) \union {o} /\ o \in ToSet(retained')
         /\ ForgetsOldest(retained, retained')
<1>1. active \in [Operations -> Instances \union {None}] /\ active[o] # None
  BY DEF SchedulerInv, SchedulerTypes, Complete, ActiveOperations
<1>2. PICK i \in Instances : i = active[o]
  BY <1>1
<1>3. /\ active' = [active EXCEPT ![o] = None]
      /\ uncertain' = uncertain \ {o}
      /\ lanes' = [lanes EXCEPT ![i].active = FALSE]
      /\ ready' = IF lanes[i].queue # <<>> THEN EnqueueReady(i) ELSE ready
      /\ retained' = Retain(retained, <<o>>)
      /\ UNCHANGED <<queued, open>>
  BY <1>2 DEF Complete
<1>4. PICK l : l = [lanes[i] EXCEPT !.active = FALSE]
  OBVIOUS
<1>5. lanes \in [Instances -> LaneRecords] /\ lanes[i] \in LaneRecords
  BY DEF SchedulerInv, SchedulerTypes
<1>6. l \in LaneRecords /\ l.binding = lanes[i].binding /\ l.queue = lanes[i].queue /\ ~l.active
  BY <1>4, <1>5 DEF LaneRecords
<1>7. lanes' = [lanes EXCEPT ![i] = l]
  BY <1>3, <1>4, <1>5
<1>8. lanes'[i] = l /\ (\A j \in Instances : j # i => lanes'[j] = lanes[j])
      /\ lanes' \in [Instances -> LaneRecords]
  BY <1>5, <1>6, <1>7
<1>9. \A j \in Instances : lanes'[j].binding = lanes[j].binding /\ lanes'[j].queue = lanes[j].queue
  BY <1>6, <1>8
<1>10. /\ active' \in [Operations -> Instances \union {None}] /\ active'[o] = None
       /\ \A p \in Operations : p # o => active'[p] = active[p]
  BY <1>1, <1>3
<1>11. ActiveOperations' = ActiveOperations \ {o}
  BY <1>10 DEF ActiveOperations
<1>12. o \notin ToSet(retained) /\ o \in ActiveOperations
  BY <1>1 DEF SchedulerInv, OnePlace, ActiveOperations
<1>13. /\ retained' \in Seq(Operations) /\ Len(retained') <= MaxRetained /\ IsInjective(retained')
       /\ ToSet(retained') \subseteq ToSet(retained) \union {o} /\ o \in ToSet(retained')
       /\ ForgetsOldest(retained, retained')
  BY <1>3, <1>12, RememberOne
<1>14. /\ ready' \in Seq(Instances) /\ IsInjective(ready')
       /\ ToSet(ready) \subseteq ToSet(ready') /\ ToSet(ready') \subseteq ToSet(ready) \union {i}
       /\ lanes[i].queue # <<>> => i \in ToSet(ready')
  <2>1. ready \in Seq(Instances) /\ IsInjective(ready)
    BY DEF SchedulerInv, SchedulerTypes, Turns
  <2>2. CASE lanes[i].queue # <<>>
    <3>1. ready' = EnqueueReady(i)
      BY <1>3, <2>2
    <3>2. ready' \in Seq(Instances) /\ IsInjective(ready') /\ ToSet(ready') = ToSet(ready) \union {i}
      BY <2>1, <3>1, EnqueueKeeps
    <3>3. QED
      BY <3>2
  <2>3. CASE lanes[i].queue = <<>>
    BY <1>3, <2>1, <2>3
  <2>4. QED
    BY <2>2, <2>3
<1>15. SchedulerTypes'
  BY <1>3, <1>8, <1>10, <1>13, <1>14 DEF SchedulerInv, SchedulerTypes
<1>16. Tidy'
  <2>1. ASSUME NEW p \in uncertain' PROVE active'[p] # None
    <3>1. p \in uncertain /\ p # o /\ p \in Operations
      BY <1>3, <2>1 DEF SchedulerInv, SchedulerTypes
    <3>2. QED
      BY <1>10, <3>1 DEF SchedulerInv, Tidy
  <2>2. ASSUME NEW j \in Instances, lanes'[j].binding = None
        PROVE  lanes'[j].queue = <<>> /\ ~lanes'[j].active
    <3>1. lanes[j].queue = <<>> /\ ~lanes[j].active
      BY <1>9, <2>2 DEF SchedulerInv, Tidy
    <3>2. QED
      BY <1>6, <1>8, <1>9, <3>1
  <2>3. QED
    BY <2>1, <2>2 DEF Tidy
<1>17. Limits'
  <2>1. \A j \in Instances : Len(lanes'[j].queue) <= Len(lanes[j].queue)
    <3>1. \A j \in Instances : Len(lanes[j].queue) \in Nat
      BY <1>5 DEF LaneRecords
    <3>2. QED
      BY <1>9, <3>1
  <2>2. /\ IsFiniteSet(Places') /\ QueuedLen' <= GlobalQueueCapacity
        /\ \A j \in Instances : Len(lanes'[j].queue) <= PerInstanceQueueCapacity
    BY <1>8, <2>1, PlacesShrink
  <2>3. QED
    BY <1>8, <1>9, <1>13, <2>2, BindingsKept DEF Limits
<1>18. Slots'
  <2>1. \A p, q \in Operations : active[p] = active[q] /\ active[p] # None => p = q
    BY DEF SchedulerInv, Slots
  <2>2. \A p \in Operations : active'[p] # i
    <3>1. i # None
      BY SchedulerAssumption
    <3>2. QED
      BY <1>2, <1>10, <2>1, <3>1
  <2>3. ASSUME NEW j \in Instances PROVE lanes'[j].active <=> \E p \in Operations : active'[p] = j
    <3>1. CASE j = i
      BY <1>6, <1>8, <2>2, <3>1
    <3>2. CASE j # i
      <4>1. lanes[j].active <=> \E p \in Operations : active[p] = j
        BY DEF SchedulerInv, Slots
      <4>2. j # None
        BY SchedulerAssumption
      <4>3. \A p \in Operations : active[p] = j <=> active'[p] = j
        BY <1>2, <1>10, <3>2, <4>2
      <4>4. QED
        BY <1>8, <3>2, <4>1, <4>3
    <3>3. QED
      BY <3>1, <3>2
  <2>4. \A p, q \in Operations : active'[p] = active'[q] /\ active'[p] # None => p = q
    BY <1>10, <2>1
  <2>5. QED
    BY <2>3, <2>4 DEF Slots
<1>19. Turns'
  <2>1. ToSet(ready) \subseteq Instances
    BY ContainsIs DEF SchedulerInv, SchedulerTypes
  <2>2. ASSUME NEW j \in ToSet(ready') PROVE ~lanes'[j].active
    <3>1. CASE j = i
      BY <1>6, <1>8, <3>1
    <3>2. CASE j # i
      <4>1. j \in ToSet(ready) /\ j \in Instances
        BY <1>14, <2>1, <2>2, <3>2
      <4>2. QED
        BY <1>8, <3>2, <4>1 DEF SchedulerInv, Turns
    <3>3. QED
      BY <3>1, <3>2
  <2>3. ASSUME NEW j \in Instances, lanes'[j].queue # <<>>, ~lanes'[j].active
        PROVE  j \in ToSet(ready')
    <3>1. CASE j = i
      BY <1>9, <1>14, <2>3, <3>1
    <3>2. CASE j # i
      <4>1. j \in ToSet(ready)
        BY <1>8, <2>3, <3>2 DEF SchedulerInv, Turns
      <4>2. QED
        BY <1>14, <4>1
    <3>3. QED
      BY <3>1, <3>2
  <2>4. QED
    BY <1>14, <2>2, <2>3 DEF Turns
<1>20. OnePlace'
  <2>1. \A j \in Instances : Waiting(j)' = Waiting(j)
    BY <1>9 DEF Waiting
  <2>2. o \notin queued
    BY <1>12 DEF SchedulerInv, OnePlace
  <2>3. ToSet(retained') \intersect (queued' \union ActiveOperations') = {}
    BY <1>3, <1>11, <1>13, <2>2 DEF SchedulerInv, OnePlace
  <2>4. queued' \intersect ActiveOperations' = {}
    BY <1>3, <1>11 DEF SchedulerInv, OnePlace
  <2>5. QED
    BY <1>3, <1>9, <1>13, <2>1, <2>3, <2>4 DEF SchedulerInv, OnePlace
<1>21. QED
  BY <1>1, <1>2, <1>3, <1>13, <1>15, <1>16, <1>17, <1>18, <1>19, <1>20 DEF SchedulerInv

\* admit keeps it, and ends nothing.
LEMMA AdmitStep ==
  ASSUME SchedulerInv, NEW b \in Bindings, NEW o \in Operations, Admit(b, o)
  PROVE  /\ SchedulerInv' /\ queued \subseteq queued' /\ active' = active
         /\ uncertain' = uncertain /\ retained' = retained
         /\ \A j \in Instances : lanes'[j].active <=> lanes[j].active
<1>1. PICK i \in Instances : i = b.instance
  BY SchedulerAssumption
<1>2. PICK q, r, l : q = lanes[i].queue /\ r = Append(q, o) /\ l = [lanes[i] EXCEPT !.queue = r]
  OBVIOUS
<1>3. /\ lanes[i].binding = b /\ ~Remembered(o) /\ QueuedLen < GlobalQueueCapacity
      /\ Len(q) < PerInstanceQueueCapacity
      /\ lanes' = [lanes EXCEPT ![i].queue = Append(@, o)]
      /\ queued' = queued \union {o}
      /\ ready' = IF q = <<>> /\ ~lanes[i].active THEN EnqueueReady(i) ELSE ready
      /\ UNCHANGED <<active, uncertain, retained, open>>
  BY <1>1, <1>2 DEF Admit
<1>4. lanes \in [Instances -> LaneRecords] /\ lanes[i] \in LaneRecords /\ q \in Seq(Operations)
      /\ IsInjective(q)
  BY <1>2 DEF SchedulerInv, SchedulerTypes, LaneRecords, OnePlace
<1>5. o \notin queued /\ o \notin ActiveOperations /\ o \notin ToSet(retained)
  <2>1. Contains(retained, o) <=> o \in ToSet(retained)
    BY ContainsIs DEF SchedulerInv, SchedulerTypes
  <2>2. QED
    BY <1>3, <2>1 DEF Remembered
<1>6. \A j \in Instances : o \notin Waiting(j)
  BY <1>5 DEF SchedulerInv, OnePlace
<1>7. o \notin ToSet(q)
  BY <1>2, <1>6 DEF Waiting
<1>8. r \in Seq(Operations) /\ Len(r) = Len(q) + 1 /\ DOMAIN r = 1..(Len(q) + 1)
      /\ DOMAIN q = 1..Len(q) /\ Len(q) \in Nat /\ r # <<>>
  BY <1>2, <1>4
<1>9. ToSet(r) = ToSet(q) \union {o} /\ IsInjective(r)
  <2>1. ToSet(Append(q, o)) = ToSet(q) \union {o} /\ IsInjective(Append(q, o))
    BY <1>4, <1>7, AppendKeeps
  <2>2. QED
    BY <1>2, <2>1
<1>10. l \in LaneRecords /\ l.binding = lanes[i].binding /\ l.queue = r
       /\ (l.active <=> lanes[i].active)
  BY <1>2, <1>4, <1>8 DEF LaneRecords
<1>11. lanes' = [lanes EXCEPT ![i] = l]
  BY <1>2, <1>3, <1>4
<1>12. lanes'[i] = l /\ (\A j \in Instances : j # i => lanes'[j] = lanes[j])
       /\ lanes' \in [Instances -> LaneRecords]
  BY <1>4, <1>10, <1>11
<1>13. \A j \in Instances : lanes'[j].binding = lanes[j].binding
                        /\ (lanes'[j].active <=> lanes[j].active)
  BY <1>10, <1>12
<1>14. /\ ready' \in Seq(Instances) /\ IsInjective(ready')
       /\ ToSet(ready) \subseteq ToSet(ready') /\ ToSet(ready') \subseteq ToSet(ready) \union {i}
       /\ (~lanes[i].active => i \in ToSet(ready')) /\ (lanes[i].active => ready' = ready)
  <2>1. ready \in Seq(Instances) /\ IsInjective(ready)
    BY DEF SchedulerInv, SchedulerTypes, Turns
  <2>2. CASE q = <<>> /\ ~lanes[i].active
    <3>1. ready' = EnqueueReady(i)
      BY <1>3, <2>2
    <3>2. ready' \in Seq(Instances) /\ IsInjective(ready') /\ ToSet(ready') = ToSet(ready) \union {i}
      BY <2>1, <3>1, EnqueueKeeps
    <3>3. QED
      BY <2>2, <3>2
  <2>3. CASE ~(q = <<>> /\ ~lanes[i].active)
    <3>1. ready' = ready
      BY <1>3, <2>3
    <3>2. ~lanes[i].active => i \in ToSet(ready)
      BY <1>2, <2>3 DEF SchedulerInv, Turns
    <3>3. QED
      BY <2>1, <3>1, <3>2
  <2>4. QED
    BY <2>2, <2>3
<1>15. SchedulerTypes'
  BY <1>3, <1>12, <1>14 DEF SchedulerInv, SchedulerTypes
<1>16. Tidy'
  <2>1. ASSUME NEW j \in Instances, lanes'[j].binding = None
        PROVE  lanes'[j].queue = <<>> /\ ~lanes'[j].active
    <3>1. b # None
      BY SchedulerAssumption
    <3>2. j # i /\ lanes[j].binding = None
      BY <1>3, <1>13, <2>1, <3>1
    <3>3. QED
      BY <1>12, <3>2 DEF SchedulerInv, Tidy
  <2>2. QED
    BY <1>3, <2>1 DEF SchedulerInv, Tidy
<1>17. Places' = Places \union {<<i, Len(q) + 1>>} /\ <<i, Len(q) + 1>> \notin Places
  <2>1. DOMAIN lanes'[i].queue = DOMAIN lanes[i].queue \union {Len(q) + 1}
    BY <1>2, <1>8, <1>10, <1>12
  <2>2. \A j \in Instances : j # i => DOMAIN lanes'[j].queue = DOMAIN lanes[j].queue
    BY <1>12
  <2>3. Len(q) + 1 \notin DOMAIN lanes[i].queue
    BY <1>2, <1>8
  <2>4. \A p : p \in Places <=> \E j \in Instances : \E k \in DOMAIN lanes[j].queue : p = <<j, k>>
    BY DEF Places
  <2>5. \A p : p \in Places' <=> \E j \in Instances : \E k \in DOMAIN lanes'[j].queue : p = <<j, k>>
    BY DEF Places
  <2>6. ASSUME NEW p \in Places' PROVE p \in Places \union {<<i, Len(q) + 1>>}
    <3>1. PICK j \in Instances : \E k \in DOMAIN lanes'[j].queue : p = <<j, k>>
      BY <2>5, <2>6
    <3>2. QED
      BY <2>1, <2>2, <2>4, <3>1
  <2>7. ASSUME NEW p \in Places PROVE p \in Places'
    <3>1. PICK j \in Instances : \E k \in DOMAIN lanes[j].queue : p = <<j, k>>
      BY <2>4, <2>7
    <3>2. PICK k \in DOMAIN lanes[j].queue : p = <<j, k>>
      BY <3>1
    <3>3. k \in DOMAIN lanes'[j].queue
      BY <2>1, <2>2, <3>2
    <3>4. QED
      BY <2>5, <3>2, <3>3
  <2>8. <<i, Len(q) + 1>> \in Places'
    BY <2>1, <2>5
  <2>9. <<i, Len(q) + 1>> \notin Places
    BY <2>3, <2>4
  <2>10. QED
    BY <2>6, <2>7, <2>8, <2>9
<1>18. Limits'
  <2>1. IsFiniteSet(Places) /\ Cardinality(Places) \in Nat
    BY FS_CardinalityType DEF SchedulerInv, Limits
  <2>2. IsFiniteSet(Places') /\ Cardinality(Places') = Cardinality(Places) + 1
    BY <1>17, <2>1, FS_AddElement
  <2>3. QueuedLen' <= GlobalQueueCapacity
    BY <1>3, <2>1, <2>2, SchedulerAssumption DEF QueuedLen
  <2>4. ASSUME NEW j \in Instances PROVE Len(lanes'[j].queue) <= PerInstanceQueueCapacity
    <3>1. CASE j = i
      <4>1. lanes'[j].queue = r
        BY <1>10, <1>12, <3>1
      <4>2. Len(r) <= PerInstanceQueueCapacity
        BY <1>3, <1>8, SchedulerAssumption
      <4>3. QED
        BY <4>1, <4>2
    <3>2. CASE j # i
      BY <1>12, <3>2 DEF SchedulerInv, Limits
    <3>3. QED
      BY <3>1, <3>2
  <2>5. Len(retained') <= MaxRetained
    BY <1>3 DEF SchedulerInv, Limits
  <2>6. QED
    BY <1>12, <1>13, <2>2, <2>3, <2>4, <2>5, BindingsKept DEF Limits
<1>19. Slots'
  BY <1>3, <1>13 DEF SchedulerInv, Slots
<1>20. Turns'
  <2>1. ToSet(ready) \subseteq Instances
    BY ContainsIs DEF SchedulerInv, SchedulerTypes
  <2>2. ASSUME NEW j \in ToSet(ready') PROVE ~lanes'[j].active
    <3>1. CASE j \in ToSet(ready)
      BY <1>13, <2>1, <3>1 DEF SchedulerInv, Turns
    <3>2. CASE j \notin ToSet(ready)
      BY <1>13, <1>14, <2>2, <3>2
    <3>3. QED
      BY <3>1, <3>2
  <2>3. ASSUME NEW j \in Instances, lanes'[j].queue # <<>>, ~lanes'[j].active
        PROVE  j \in ToSet(ready')
    <3>1. CASE j = i
      BY <1>13, <1>14, <2>3, <3>1
    <3>2. CASE j # i
      BY <1>12, <1>14, <2>3, <3>2 DEF SchedulerInv, Turns
    <3>3. QED
      BY <3>1, <3>2
  <2>4. QED
    BY <1>14, <2>2, <2>3 DEF Turns
<1>21. OnePlace'
  <2>1. Waiting(i)' = Waiting(i) \union {o} /\ \A j \in Instances : j # i => Waiting(j)' = Waiting(j)
    BY <1>2, <1>9, <1>10, <1>12 DEF Waiting
  <2>2. queued' = UNION {Waiting(j)' : j \in Instances}
    <3>1. queued = UNION {Waiting(j) : j \in Instances}
      BY DEF SchedulerInv, OnePlace
    <3>2. QED
      BY <1>3, <2>1, <3>1
  <2>3. \A j, k \in Instances : j # k => Waiting(j)' \intersect Waiting(k)' = {}
    <3>1. \A j, k \in Instances : j # k => Waiting(j) \intersect Waiting(k) = {}
      BY DEF SchedulerInv, OnePlace
    <3>2. QED
      BY <1>6, <2>1, <3>1
  <2>4. ASSUME NEW j \in Instances PROVE IsInjective(lanes'[j].queue)
    <3>1. CASE j = i
      BY <1>9, <1>10, <1>12, <3>1
    <3>2. CASE j # i
      BY <1>12, <3>2 DEF SchedulerInv, OnePlace
    <3>3. QED
      BY <3>1, <3>2
  <2>5. ActiveOperations' = ActiveOperations
    BY <1>3 DEF ActiveOperations
  <2>6. /\ queued' \intersect ActiveOperations' = {}
        /\ ToSet(retained') \intersect (queued' \union ActiveOperations') = {}
        /\ IsInjective(retained')
    BY <1>3, <1>5, <2>5 DEF SchedulerInv, OnePlace
  <2>7. QED
    BY <2>2, <2>3, <2>4, <2>6 DEF OnePlace
<1>22. QED
  BY <1>3, <1>13, <1>15, <1>16, <1>18, <1>19, <1>20, <1>21 DEF SchedulerInv

\* Where next_work stops: the first instance in ready with work, or none.
Serving == SelectInSeq(ready, LAMBDA i : lanes[i].queue # <<>>)

\* What the search through ready finds.
LEMMA ServingIs ==
  ASSUME ready \in Seq(Instances)
  PROVE  \/ Serving = 0 /\ \A k \in 1..Len(ready) : lanes[ready[k]].queue = <<>>
         \/ /\ Serving \in 1..Len(ready) /\ lanes[ready[Serving]].queue # <<>>
            /\ \A k \in 1..Len(ready) : k < Serving => lanes[ready[k]].queue = <<>>
<1>1. PICK I : I = {k \in 1..Len(ready) : lanes[ready[k]].queue # <<>>}
  OBVIOUS
<1>2. Serving = IF I # {} THEN Min(I) ELSE 0
  BY <1>1 DEF Serving, SelectInSeq
<1>3. CASE I = {}
  BY <1>1, <1>2, <1>3
<1>4. CASE I # {}
  <2>1. I \in SUBSET Nat
    BY <1>1
  <2>2. PICK m \in I : \A n \in I : ~(<<n, m>> \in OpToRel(<, Nat))
    BY <1>4, <2>1, NatLessThanWellFounded, WFMin
  <2>3. \A n \in I : m <= n
    <3>1. ASSUME NEW n \in I PROVE m <= n
      <4>1. ~(n < m)
        BY <2>1, <2>2 DEF OpToRel
      <4>2. QED
        BY <2>1, <4>1
    <3>2. QED
      BY <3>1
  <2>4. Min(I) \in I /\ \A n \in I : Min(I) <= n
    BY <2>2, <2>3 DEF Min
  <2>5. Serving \in I /\ \A n \in I : Serving <= n
    BY <1>2, <1>4, <2>4
  <2>6. ASSUME NEW k \in 1..Len(ready), k < Serving PROVE lanes[ready[k]].queue = <<>>
    <3>1. k \notin I
      BY <1>1, <2>1, <2>5, <2>6
    <3>2. QED
      BY <1>1, <3>1
  <2>7. QED
    BY <1>1, <2>5, <2>6
<1>5. QED
  BY <1>3, <1>4

\* next_work keeps it, and moves an operation from its queue to the slot.
LEMMA NextWorkStep ==
  ASSUME SchedulerInv, NextWork
  PROVE  /\ SchedulerInv' /\ uncertain' = uncertain /\ retained' = retained
         /\ queued' \union ActiveOperations' = queued \union ActiveOperations
         /\ \A p \in Operations : active[p] # None => active'[p] = active[p]
         /\ \A j \in Instances : lanes[j].active => lanes'[j].active
<1>1. lanes \in [Instances -> LaneRecords] /\ ready \in Seq(Instances) /\ Len(ready) \in Nat
      /\ active \in [Operations -> Instances \union {None}] /\ DOMAIN ready = 1..Len(ready)
  BY DEF SchedulerInv, SchedulerTypes
<1>2. CASE Serving = 0
  <2>1. ready' = <<>> /\ UNCHANGED <<lanes, queued, active, uncertain, retained, open>>
    BY <1>2 DEF NextWork, Serving
  <2>2. \A k \in 1..Len(ready) : lanes[ready[k]].queue = <<>>
    BY <1>1, <1>2, ServingIs
  <2>3. ToSet(ready') = {} /\ IsInjective(ready') /\ ready' \in Seq(Instances)
    BY <2>1 DEF ToSet, IsInjective
  <2>4. \A i \in Instances : ~(lanes[i].queue # <<>> /\ ~lanes[i].active)
    <3>1. \A i \in ToSet(ready) : lanes[i].queue = <<>>
      BY <1>1, <2>2 DEF ToSet
    <3>2. QED
      BY <3>1 DEF SchedulerInv, Turns
  <2>5. SchedulerTypes'
    BY <2>1, <2>3 DEF SchedulerInv, SchedulerTypes
  <2>6. Tidy' /\ Slots'
    BY <2>1 DEF SchedulerInv, Tidy, Slots
  <2>7. Limits'
    BY <2>1 DEF SchedulerInv, Limits, Registered, QueuedLen, Places
  <2>8. Turns'
    BY <2>1, <2>3, <2>4 DEF Turns
  <2>9. OnePlace' /\ ActiveOperations' = ActiveOperations
    BY <2>1 DEF SchedulerInv, OnePlace, Waiting, ActiveOperations
  <2>10. QED
    BY <2>1, <2>5, <2>6, <2>7, <2>8, <2>9 DEF SchedulerInv
<1>3. CASE Serving # 0
  <2>1. PICK s \in 1..Len(ready) :
          /\ s = Serving /\ lanes[ready[s]].queue # <<>>
          /\ \A k \in 1..Len(ready) : k < s => lanes[ready[k]].queue = <<>>
    BY <1>1, <1>3, ServingIs
  <2>2. PICK i \in Instances : i = ready[s]
    BY <1>1
  <2>3. PICK q, o, r, l : /\ q = lanes[i].queue /\ o = Head(q) /\ r = Tail(q)
                          /\ l = [lanes[i] EXCEPT !.queue = r, !.active = TRUE]
    OBVIOUS
  <2>4. /\ ready' = SubSeq(ready, s + 1, Len(ready))
        /\ lanes' = [lanes EXCEPT ![i].queue = Tail(@), ![i].active = TRUE]
        /\ queued' = queued \ {o}
        /\ active' = [active EXCEPT ![o] = i]
        /\ UNCHANGED <<uncertain, retained, open>>
    BY <1>3, <2>1, <2>2, <2>3 DEF NextWork, Serving
  <2>5. lanes[i] \in LaneRecords /\ q \in Seq(Operations) /\ IsInjective(q) /\ q # <<>>
    BY <1>1, <2>1, <2>2, <2>3 DEF LaneRecords, SchedulerInv, OnePlace
  <2>6. /\ r \in Seq(Operations) /\ Len(r) = Len(q) - 1 /\ ToSet(r) = ToSet(q) \ {o} /\ IsInjective(r)
        /\ o \in ToSet(q) /\ o \in Operations
    <3>1. r = Tail(q) /\ o = Head(q)
      BY <2>3
    <3>2. /\ r \in Seq(Operations) /\ Len(r) = Len(q) - 1 /\ ToSet(r) = ToSet(q) \ {Head(q)}
          /\ IsInjective(r) /\ Head(q) \in ToSet(q) /\ Head(q) \in Operations
      BY <2>5, <3>1, TailKeeps
    <3>3. QED
      BY <3>1, <3>2
  <2>7. l \in LaneRecords /\ l.binding = lanes[i].binding /\ l.queue = r /\ l.active
    BY <2>3, <2>5, <2>6 DEF LaneRecords
  <2>8. lanes' = [lanes EXCEPT ![i] = l]
    BY <1>1, <2>3, <2>4
  <2>9. lanes'[i] = l /\ (\A j \in Instances : j # i => lanes'[j] = lanes[j])
        /\ lanes' \in [Instances -> LaneRecords]
    BY <1>1, <2>7, <2>8
  <2>10. o \in Waiting(i) /\ ToSet(lanes'[i].queue) = Waiting(i) \ {o} /\ IsInjective(lanes'[i].queue)
    <3>1. Waiting(i) = ToSet(q) /\ lanes'[i].queue = r
      BY <2>3, <2>7, <2>9 DEF Waiting
    <3>2. QED
      BY <2>6, <3>1
  <2>11. /\ (queued = UNION {Waiting(j) : j \in Instances})'
         /\ (\A j, k \in Instances : j # k => Waiting(j) \intersect Waiting(k) = {})'
         /\ (\A j \in Instances : IsInjective(lanes[j].queue))'
         /\ o \in queued /\ o \notin ActiveOperations /\ o \notin ToSet(retained)
    BY <2>4, <2>9, <2>10, QueueLoses
  <2>12. /\ active' \in [Operations -> Instances \union {None}] /\ active'[o] = i
         /\ \A p \in Operations : p # o => active'[p] = active[p]
    BY <1>1, <2>4, <2>6
  <2>13. i # None /\ active[o] = None /\ ActiveOperations' = ActiveOperations \union {o}
    <3>1. i # None
      BY SchedulerAssumption
    <3>2. QED
      BY <2>6, <2>11, <2>12, <3>1 DEF ActiveOperations
  <2>14. i \in ToSet(ready) /\ ~lanes[i].active
    BY <1>1, <2>1, <2>2 DEF SchedulerInv, Turns, ToSet
  <2>15. /\ ready' \in Seq(Instances) /\ Len(ready') = Len(ready) - s
         /\ \A k \in 1..Len(ready') : ready'[k] = ready[s + k]
    <3>1. \A k \in (s + 1)..Len(ready) : ready[k] \in Instances
      BY <1>1
    <3>2. QED
      BY <1>1, <2>4, <3>1
  <2>16. DOMAIN ready' = 1..Len(ready') /\ Len(ready') \in Nat /\ \A k \in 1..Len(ready') : s + k \in 1..Len(ready)
    BY <1>1, <2>15
  <2>17. \A k, m \in 1..Len(ready) : ready[k] = ready[m] => k = m
    BY <1>1 DEF SchedulerInv, Turns, IsInjective
  <2>18. IsInjective(ready')
    <3>1. ASSUME NEW k \in 1..Len(ready'), NEW m \in 1..Len(ready'), ready'[k] = ready'[m] PROVE k = m
      <4>1. s + k = s + m
        BY <2>15, <2>16, <2>17, <3>1
      <4>2. QED
        BY <2>16, <4>1
    <3>2. QED
      BY <2>16, <3>1 DEF IsInjective
  <2>19. ASSUME NEW j \in ToSet(ready') PROVE j \in ToSet(ready) /\ j # i
    <3>1. PICK k \in 1..Len(ready') : j = ready'[k]
      BY <2>16, <2>19 DEF ToSet
    <3>2. j = ready[s + k] /\ s + k \in 1..Len(ready) /\ s + k # s
      BY <2>15, <2>16, <3>1
    <3>3. QED
      BY <1>1, <2>2, <2>17, <3>2 DEF ToSet
  <2>20. ASSUME NEW j \in ToSet(ready), lanes[j].queue # <<>>, j # i PROVE j \in ToSet(ready')
    <3>1. PICK k \in 1..Len(ready) : j = ready[k]
      BY <1>1, <2>20 DEF ToSet
    <3>2. ~(k < s) /\ k # s
      BY <2>1, <2>2, <2>20, <3>1
    <3>3. k - s \in 1..Len(ready') /\ s + (k - s) = k
      BY <1>1, <2>15, <3>2
    <3>4. ready'[k - s] = j
      BY <2>15, <3>1, <3>3
    <3>5. QED
      BY <2>16, <3>3, <3>4 DEF ToSet
  <2>21. SchedulerTypes'
    BY <2>4, <2>9, <2>12, <2>15 DEF SchedulerInv, SchedulerTypes
  <2>22. Tidy'
    <3>1. ASSUME NEW p \in uncertain' PROVE active'[p] # None
      <4>1. p \in Operations /\ active[p] # None
        BY <2>4, <3>1 DEF SchedulerInv, SchedulerTypes, Tidy
      <4>2. QED
        BY <2>12, <2>13, <4>1
    <3>2. ASSUME NEW j \in Instances, lanes'[j].binding = None
          PROVE  lanes'[j].queue = <<>> /\ ~lanes'[j].active
      <4>1. lanes[i].binding # None
        BY <2>3, <2>5 DEF SchedulerInv, Tidy
      <4>2. j # i
        BY <2>7, <2>9, <3>2, <4>1
      <4>3. QED
        BY <2>9, <3>2, <4>2 DEF SchedulerInv, Tidy
    <3>3. QED
      BY <3>1, <3>2 DEF Tidy
  <2>23. Limits'
    <3>1. ASSUME NEW j \in Instances PROVE Len(lanes'[j].queue) <= Len(lanes[j].queue)
      <4>1. CASE j = i
        <5>1. lanes'[j].queue = r /\ lanes[j].queue = q
          BY <2>3, <2>7, <2>9, <4>1
        <5>2. Len(r) <= Len(q)
          BY <2>5, <2>6
        <5>3. QED
          BY <5>1, <5>2
      <4>2. CASE j # i
        <5>1. Len(lanes[j].queue) \in Nat
          BY <1>1 DEF LaneRecords
        <5>2. QED
          BY <2>9, <4>2, <5>1
      <4>3. QED
        BY <4>1, <4>2
    <3>2. /\ IsFiniteSet(Places') /\ QueuedLen' <= GlobalQueueCapacity
          /\ \A j \in Instances : Len(lanes'[j].queue) <= PerInstanceQueueCapacity
      BY <2>9, <3>1, PlacesShrink
    <3>3. \A j \in Instances : lanes'[j].binding = lanes[j].binding
      BY <2>7, <2>9
    <3>4. Len(retained') <= MaxRetained
      BY <2>4 DEF SchedulerInv, Limits
    <3>5. QED
      BY <2>9, <3>2, <3>3, <3>4, BindingsKept DEF Limits
  <2>24. \A p \in Operations : active[p] # i
    BY <2>14 DEF SchedulerInv, Slots
  <2>25. Slots'
    <3>1. ASSUME NEW j \in Instances PROVE lanes'[j].active <=> \E p \in Operations : active'[p] = j
      <4>1. CASE j = i
        BY <2>6, <2>7, <2>9, <2>12, <4>1
      <4>2. CASE j # i
        <5>1. lanes[j].active <=> \E p \in Operations : active[p] = j
          BY DEF SchedulerInv, Slots
        <5>2. j # None
          BY SchedulerAssumption
        <5>3. \A p \in Operations : active[p] = j <=> active'[p] = j
          BY <2>12, <2>13, <4>2, <5>2
        <5>4. QED
          BY <2>9, <4>2, <5>1, <5>3
      <4>3. QED
        BY <4>1, <4>2
    <3>2. \A p, t \in Operations : active'[p] = active'[t] /\ active'[p] # None => p = t
      <4>1. \A p, t \in Operations : active[p] = active[t] /\ active[p] # None => p = t
        BY DEF SchedulerInv, Slots
      <4>2. QED
        BY <2>12, <2>24, <4>1
    <3>3. QED
      BY <3>1, <3>2 DEF Slots
  <2>26. Turns'
    <3>1. ToSet(ready) \subseteq Instances
      BY <1>1, ContainsIs
    <3>2. ASSUME NEW j \in ToSet(ready') PROVE ~lanes'[j].active
      <4>1. j \in ToSet(ready) /\ j # i /\ j \in Instances
        BY <2>19, <3>1, <3>2
      <4>2. QED
        BY <2>9, <4>1 DEF SchedulerInv, Turns
    <3>3. ASSUME NEW j \in Instances, lanes'[j].queue # <<>>, ~lanes'[j].active
          PROVE  j \in ToSet(ready')
      <4>1. j # i
        BY <2>7, <2>9, <3>3
      <4>2. lanes[j].queue # <<>> /\ ~lanes[j].active
        BY <2>9, <3>3, <4>1
      <4>3. j \in ToSet(ready)
        BY <4>2 DEF SchedulerInv, Turns
      <4>4. QED
        BY <2>20, <4>1, <4>2, <4>3
    <3>4. QED
      BY <2>18, <3>2, <3>3 DEF Turns
  <2>27. OnePlace'
    <3>1. ToSet(retained') \intersect (queued' \union ActiveOperations') = {}
      BY <2>4, <2>11, <2>13 DEF SchedulerInv, OnePlace
    <3>2. queued' \intersect ActiveOperations' = {} /\ IsInjective(retained')
      BY <2>4, <2>13 DEF SchedulerInv, OnePlace
    <3>3. QED
      BY <2>11, <3>1, <3>2 DEF OnePlace
  <2>28. queued' \union ActiveOperations' = queued \union ActiveOperations
    BY <2>4, <2>11, <2>13
  <2>29. \A p \in Operations : active[p] # None => active'[p] = active[p]
    BY <2>12, <2>13
  <2>30. \A j \in Instances : lanes[j].active => lanes'[j].active
    BY <2>7, <2>9
  <2>31. QED
    BY <2>4, <2>21, <2>22, <2>23, <2>25, <2>26, <2>27, <2>28, <2>29, <2>30 DEF SchedulerInv
<1>4. QED
  BY <1>2, <1>3

\* The operations that wait are finitely many, one at each place.
LEMMA QueuedFinite ==
  ASSUME SchedulerInv
  PROVE  IsFiniteSet(queued) /\ Cardinality(queued) \in Nat
<1>1. IsFiniteSet(Places)
  BY DEF SchedulerInv, Limits
<1>2. PICK f : f = [p \in Places |-> lanes[p[1]].queue[p[2]]]
  OBVIOUS
<1>3. PICK T : T = {f[p] : p \in Places}
  OBVIOUS
<1>4. f \in Surjection(Places, T)
  BY <1>2, <1>3 DEF Surjection
<1>5. IsFiniteSet(T)
  BY <1>1, <1>4, FS_Surjection
<1>6. ASSUME NEW o \in queued PROVE o \in T
  <2>1. PICK i \in Instances : o \in Waiting(i)
    BY <1>6 DEF SchedulerInv, OnePlace
  <2>2. PICK k \in DOMAIN lanes[i].queue : lanes[i].queue[k] = o
    BY <2>1 DEF Waiting, ToSet
  <2>3. PICK p : p = <<i, k>>
    OBVIOUS
  <2>4. p \in Places /\ p[1] = i /\ p[2] = k
    BY <2>3 DEF Places
  <2>5. f[p] = o
    BY <1>2, <2>2, <2>4
  <2>6. QED
    BY <1>3, <2>4, <2>5
<1>7. QED
  BY <1>5, <1>6, FS_Subset, FS_CardinalityType

\* shutdown keeps it, and remembers what it cancels as far as the memory goes.
LEMMA ShutdownStep ==
  ASSUME SchedulerInv, Shutdown
  PROVE  /\ SchedulerInv' /\ queued' = {} /\ UNCHANGED <<active, uncertain>>
         /\ \A j \in Instances : lanes'[j].active <=> lanes[j].active
         /\ queued \subseteq ToSet(retained') \/ Cardinality(queued) > MaxRetained
         /\ ForgetsOldest(retained, retained')
<1>1. /\ open' = FALSE /\ ready' = <<>> /\ queued' = {} /\ UNCHANGED <<active, uncertain>>
      /\ lanes' = [i \in Instances |-> [lanes[i] EXCEPT !.queue = <<>>]]
  BY DEF Shutdown
<1>2. queued = UNION {Waiting(i) : i \in Instances}
  BY DEF SchedulerInv, OnePlace
<1>3. PICK c \in SetToSeqs(queued) : LaneByLane(c) /\ retained' = Retain(retained, c)
  BY <1>2 DEF Shutdown
<1>4. PICK n \in Nat : n = Cardinality(queued)
  BY QueuedFinite
<1>5. c \in [1..n -> queued] /\ \A i, j \in 1..n : i # j => c[i] # c[j]
  BY <1>3, <1>4 DEF SetToSeqs
<1>6. queued \subseteq Operations
  BY DEF SchedulerInv, SchedulerTypes
<1>7. c \in Seq(Operations) /\ Len(c) = n /\ DOMAIN c = 1..n
  BY <1>4, <1>5, <1>6
<1>8. IsInjective(c) /\ ToSet(c) \subseteq queued
  BY <1>5, <1>7 DEF IsInjective, ToSet
<1>9. lanes \in [Instances -> LaneRecords]
  BY DEF SchedulerInv, SchedulerTypes
<1>10. ASSUME NEW o \in queued PROVE o \in ToSet(c)
  <2>1. PICK i \in Instances : o \in Waiting(i)
    BY <1>2, <1>10
  <2>2. PICK q : q = lanes[i].queue
    OBVIOUS
  <2>3. q \in Seq(Operations) /\ DOMAIN q = 1..Len(q) /\ Len(q) \in Nat
    BY <1>9, <2>2 DEF LaneRecords
  <2>4. PICK k \in 1..Len(q) : q[k] = o
    BY <2>1, <2>2, <2>3 DEF Waiting, ToSet
  <2>5. PICK a \in 0..(n - Len(q)) : \A m \in 1..Len(q) : c[a + m] = q[m]
    BY <1>3, <1>7, <2>2, <2>3 DEF LaneByLane
  <2>6. a + k \in 1..n /\ c[a + k] = o
    BY <1>4, <2>3, <2>4, <2>5
  <2>7. QED
    BY <1>7, <2>6 DEF ToSet
<1>11. /\ retained' \in Seq(Operations) /\ Len(retained') <= MaxRetained /\ IsInjective(retained')
       /\ ToSet(retained') \subseteq ToSet(retained) \union queued
       /\ n <= MaxRetained => queued \subseteq ToSet(retained')
       /\ ForgetsOldest(retained, retained')
  <2>1. PICK m, r : m = retained /\ r = retained'
    OBVIOUS
  <2>2. /\ m \in Seq(Operations) /\ Len(m) <= MaxRetained /\ IsInjective(m)
        /\ ToSet(m) \intersect ToSet(c) = {} /\ r = Retain(m, c)
    BY <1>3, <1>8, <2>1 DEF SchedulerInv, SchedulerTypes, Limits, OnePlace
  <2>3. /\ r \in Seq(Operations) /\ Len(r) <= MaxRetained /\ IsInjective(r)
        /\ ToSet(r) \subseteq ToSet(m) \union ToSet(c)
        /\ Len(c) <= MaxRetained => ToSet(c) \subseteq ToSet(r)
        /\ ForgetsOldest(m, r)
    BY <1>7, <1>8, <2>2, RetainKeeps
  <2>4. QED
    BY <1>7, <1>8, <1>10, <2>1, <2>3
<1>12. queued \subseteq ToSet(retained') \/ Cardinality(queued) > MaxRetained
  <2>1. n <= MaxRetained \/ n > MaxRetained
    BY <1>4, SchedulerAssumption
  <2>2. QED
    BY <1>4, <1>11, <2>1
<1>13. ASSUME NEW j \in Instances
       PROVE  /\ lanes'[j] \in LaneRecords /\ lanes'[j].queue = <<>>
              /\ lanes'[j].binding = lanes[j].binding /\ (lanes'[j].active <=> lanes[j].active)
  <2>1. PICK l : l = [lanes[j] EXCEPT !.queue = <<>>]
    OBVIOUS
  <2>2. lanes'[j] = l
    BY <1>1, <2>1
  <2>3. lanes[j] \in LaneRecords /\ <<>> \in Seq(Operations)
    BY <1>9
  <2>4. l \in LaneRecords /\ l.queue = <<>> /\ l.binding = lanes[j].binding /\ (l.active <=> lanes[j].active)
    BY <2>1, <2>3 DEF LaneRecords
  <2>5. QED
    BY <2>2, <2>4
<1>14. lanes' \in [Instances -> LaneRecords]
  BY <1>1, <1>13
<1>15. SchedulerTypes'
  <2>1. open' \in BOOLEAN
    BY <1>1
  <2>2. ready' \in Seq(Instances) /\ queued' \subseteq Operations
    <3>1. ready' = <<>> /\ queued' = {}
      BY <1>1
    <3>2. QED
      BY <3>1
  <2>3. QED
    BY <1>1, <1>11, <1>14, <2>1, <2>2 DEF SchedulerInv, SchedulerTypes
<1>16. Tidy'
  BY <1>1, <1>13 DEF SchedulerInv, Tidy
<1>17. Limits'
  <2>1. ASSUME NEW j \in Instances PROVE Len(lanes'[j].queue) <= Len(lanes[j].queue)
    <3>1. Len(lanes[j].queue) \in Nat
      BY <1>9 DEF LaneRecords
    <3>2. Len(lanes'[j].queue) = 0
      BY <1>13
    <3>3. QED
      BY <3>1, <3>2
  <2>2. /\ IsFiniteSet(Places') /\ QueuedLen' <= GlobalQueueCapacity
        /\ \A j \in Instances : Len(lanes'[j].queue) <= PerInstanceQueueCapacity
    BY <1>14, <2>1, PlacesShrink
  <2>3. QED
    BY <1>11, <1>13, <1>14, <2>2, BindingsKept DEF Limits
<1>18. Slots'
  BY <1>1, <1>13 DEF SchedulerInv, Slots
<1>19. Turns'
  <2>1. ToSet(ready') = {} /\ IsInjective(ready')
    BY <1>1 DEF ToSet, IsInjective
  <2>2. QED
    BY <1>13, <2>1 DEF Turns
<1>20. OnePlace'
  <2>1. \A j \in Instances : Waiting(j)' = {} /\ IsInjective(lanes'[j].queue)
    <3>1. PICK e : e = <<>>
      OBVIOUS
    <3>2. DOMAIN e = {}
      BY <3>1
    <3>3. ToSet(e) = {} /\ IsInjective(e)
      BY <3>2 DEF ToSet, IsInjective
    <3>4. QED
      BY <1>13, <3>1, <3>3 DEF Waiting
  <2>2. ActiveOperations' = ActiveOperations
    BY <1>1 DEF ActiveOperations
  <2>3. ToSet(retained') \intersect (queued' \union ActiveOperations') = {}
    BY <1>1, <1>11, <2>2 DEF SchedulerInv, OnePlace
  <2>4. queued' = UNION {Waiting(j)' : j \in Instances}
    BY <1>1, <2>1
  <2>5. QED
    BY <1>1, <1>11, <2>1, <2>3, <2>4 DEF OnePlace
<1>21. QED
  BY <1>1, <1>11, <1>12, <1>13, <1>15, <1>16, <1>17, <1>18, <1>19, <1>20 DEF SchedulerInv

\* Every step of the coordinator keeps it.
LEMMA SchedulerStep ==
  ASSUME SchedulerInv, [SchedulerNext]_schedulerVars
  PROVE  SchedulerInv'
<1>1. ASSUME NEW b \in Bindings, RegisterInstance(b) PROVE SchedulerInv'
  BY <1>1, RegisterStep
<1>2. ASSUME NEW b \in Bindings, NEW o \in Operations, Admit(b, o) PROVE SchedulerInv'
  BY <1>2, AdmitStep
<1>3. CASE NextWork
  BY <1>3, NextWorkStep
<1>4. ASSUME NEW o \in Operations, CancelQueued(o) PROVE SchedulerInv'
  BY <1>4, CancelStep
<1>5. ASSUME NEW o \in Operations, CompleteUnknown(o) PROVE SchedulerInv'
  BY <1>5, UnknownStep
<1>6. ASSUME NEW o \in Operations, Complete(o) PROVE SchedulerInv'
  BY <1>6, CompleteStep
<1>7. CASE Shutdown
  BY <1>7, ShutdownStep
<1>8. CASE UNCHANGED schedulerVars
  BY <1>8, SchedulerStutters
<1>9. QED
  BY <1>1, <1>2, <1>3, <1>4, <1>5, <1>6, <1>7, <1>8 DEF SchedulerNext

\* The inductive invariant of the coordinator holds in every reachable state, for any instances,
\* bindings, operations and capacities.
THEOREM SchedulerInvariant == SchedulerSpec => []SchedulerInv
<1>1. QED
  BY SchedulerStarts, SchedulerStep, PTL DEF SchedulerSpec

\* The coordinator keeps its promises with any number of instances, operations and bindings, and
\* any capacities.
THEOREM SchedulerStaysSound == SchedulerSpec => []SchedulerSound
<1>1. QED
  BY SchedulerInvariant, SchedulerInvSound, PTL

\* An unknown outcome keeps its slot, in every step.
LEMMA UnknownKept ==
  ASSUME SchedulerInv, [SchedulerNext]_schedulerVars, NEW o \in uncertain
  PROVE  /\ active[o] # None /\ lanes[active[o]].active
         /\ o \in uncertain' => active'[o] = active[o] /\ lanes'[active[o]].active
<1>1. o \in Operations /\ active[o] # None
  BY DEF SchedulerInv, SchedulerTypes, Tidy
<1>2. PICK i \in Instances : i = active[o]
  BY <1>1 DEF SchedulerInv, SchedulerTypes
<1>3. lanes[i].active
  BY <1>1, <1>2 DEF SchedulerInv, Slots
<1>4. SUFFICES ASSUME o \in uncertain' PROVE active'[o] = i /\ lanes'[i].active
  BY <1>1, <1>2, <1>3
<1>5. active'[o] = i
  <2>1. ASSUME NEW b \in Bindings, RegisterInstance(b) PROVE active'[o] = i
    BY <1>2, <2>1 DEF RegisterInstance
  <2>2. ASSUME NEW b \in Bindings, NEW p \in Operations, Admit(b, p) PROVE active'[o] = i
    BY <1>2, <2>2 DEF Admit
  <2>3. CASE NextWork
    BY <1>1, <1>2, <2>3, NextWorkStep
  <2>4. ASSUME NEW p \in Operations, CancelQueued(p) PROVE active'[o] = i
    BY <1>2, <2>4 DEF CancelQueued
  <2>5. ASSUME NEW p \in Operations, CompleteUnknown(p) PROVE active'[o] = i
    BY <1>2, <2>5 DEF CompleteUnknown
  <2>6. ASSUME NEW p \in Operations, Complete(p) PROVE active'[o] = i
    <3>1. active' = [active EXCEPT ![p] = None] /\ uncertain' = uncertain \ {p}
      BY <2>6, CompleteStep
    <3>2. p # o
      BY <1>4, <3>1
    <3>3. QED
      BY <1>1, <1>2, <3>1, <3>2 DEF SchedulerInv, SchedulerTypes
  <2>7. CASE Shutdown
    BY <1>2, <2>7 DEF Shutdown
  <2>8. CASE UNCHANGED schedulerVars
    BY <1>2, <2>8 DEF schedulerVars
  <2>9. QED
    BY <2>1, <2>2, <2>3, <2>4, <2>5, <2>6, <2>7, <2>8 DEF SchedulerNext
<1>6. lanes'[i].active
  BY <1>1, <1>5, SchedulerStep DEF SchedulerInv, Slots
<1>7. QED
  BY <1>5, <1>6

\* A memory that stays forgets nothing.
LEMMA Unforgotten ==
  ASSUME retained' = retained PROVE ForgetsOldest(retained, retained')
  BY DEF ForgetsOldest, ToSet

\* What leaves a queue or a slot for good is remembered, in every step.
LEMMA GoneRemembered ==
  ASSUME SchedulerInv, [SchedulerNext]_schedulerVars, NEW gone,
         gone = (queued \union ActiveOperations) \ (queued' \union ActiveOperations')
  PROVE  /\ gone \subseteq ToSet(retained') \/ Cardinality(gone) > MaxRetained
         /\ ForgetsOldest(retained, retained')
<1> DEFINE Kept == /\ gone \subseteq ToSet(retained') \/ Cardinality(gone) > MaxRetained
                   /\ ForgetsOldest(retained, retained')
<1>1. ASSUME NEW b \in Bindings, RegisterInstance(b) PROVE Kept
  <2>1. UNCHANGED <<queued, active, retained>>
    BY <1>1 DEF RegisterInstance
  <2>2. QED
    BY <2>1, Unforgotten DEF ActiveOperations
<1>2. ASSUME NEW b \in Bindings, NEW p \in Operations, Admit(b, p) PROVE Kept
  <2>1. queued \subseteq queued' /\ active' = active /\ retained' = retained
    BY <1>2, AdmitStep
  <2>2. QED
    BY <2>1, Unforgotten DEF ActiveOperations
<1>3. CASE NextWork
  <2>1. queued' \union ActiveOperations' = queued \union ActiveOperations /\ retained' = retained
    BY <1>3, NextWorkStep
  <2>2. QED
    BY <2>1, Unforgotten
<1>4. ASSUME NEW p \in Operations, CancelQueued(p) PROVE Kept
  <2>1. queued' = queued \ {p} /\ active' = active
    BY <1>4 DEF CancelQueued
  <2>2. ActiveOperations' = ActiveOperations
    BY <2>1 DEF ActiveOperations
  <2>3. gone \subseteq {p}
    BY <2>1, <2>2
  <2>4. p \in ToSet(retained')
        /\ ForgetsOldest(retained, retained')
    BY <1>4, CancelStep
  <2>5. QED
    BY <2>3, <2>4
<1>5. ASSUME NEW p \in Operations, CompleteUnknown(p) PROVE Kept
  <2>1. UNCHANGED <<queued, active, retained>>
    BY <1>5 DEF CompleteUnknown
  <2>2. QED
    BY <2>1, Unforgotten DEF ActiveOperations
<1>6. ASSUME NEW p \in Operations, Complete(p) PROVE Kept
  <2>1. queued' = queued /\ active' = [active EXCEPT ![p] = None] /\ p \in ToSet(retained')
        /\ ForgetsOldest(retained, retained')
    BY <1>6, CompleteStep
  <2>2. active \in [Operations -> Instances \union {None}]
    BY DEF SchedulerInv, SchedulerTypes
  <2>3. ActiveOperations \ {p} \subseteq ActiveOperations'
    BY <2>1, <2>2 DEF ActiveOperations
  <2>4. gone \subseteq {p}
    BY <2>1, <2>3
  <2>5. QED
    BY <2>1, <2>4
<1>7. CASE Shutdown
  <2>1. queued' = {} /\ active' = active
        /\ (queued \subseteq ToSet(retained') \/ Cardinality(queued) > MaxRetained)
        /\ ForgetsOldest(retained, retained')
    BY <1>7, ShutdownStep
  <2>2. ActiveOperations' = ActiveOperations /\ queued \intersect ActiveOperations = {}
    BY <2>1 DEF ActiveOperations, SchedulerInv, OnePlace
  <2>3. gone = queued
    BY <2>1, <2>2
  <2>4. QED
    BY <2>1, <2>3
<1>8. CASE UNCHANGED schedulerVars
  <2>1. UNCHANGED <<queued, active, retained>>
    BY <1>8 DEF schedulerVars
  <2>2. QED
    BY <2>1, Unforgotten DEF ActiveOperations
<1>9. QED
  BY <1>1, <1>2, <1>3, <1>4, <1>5, <1>6, <1>7, <1>8 DEF SchedulerNext

\* What was dispatched or finished is not forgotten: whatever else happens an unknown outcome keeps
\* the slot of its instance, and a finished id is forgotten only when later ones fill the memory,
\* the oldest first.
THEOREM OutcomesStayKept == SchedulerSpec => OutcomesKept
<1>1. SchedulerInv /\ [SchedulerNext]_schedulerVars =>
        [\A o \in uncertain :
           /\ active[o] # None /\ lanes[active[o]].active
           /\ o \in uncertain' => active'[o] = active[o] /\ lanes'[active[o]].active]_schedulerVars
  BY UnknownKept
<1>2. SchedulerInv /\ [SchedulerNext]_schedulerVars =>
        [LET gone == (queued \union ActiveOperations) \ (queued' \union ActiveOperations') IN
         /\ gone \subseteq ToSet(retained') \/ Cardinality(gone) > MaxRetained
         /\ ForgetsOldest(retained, retained')]_schedulerVars
  BY GoneRemembered
<1>3. QED
  BY <1>1, <1>2, SchedulerInvariant, PTL
     DEF SchedulerSpec, OutcomesKept, UnknownHoldsSlot, FinishedRemembered

-----------------------------------------------------------------------------
(* The order of a plan.                                                    *)

\* Edges into c whose other end is not in the order yet.
OpenEdges(c) == {e \in edges : e[2] = c /\ e[1] \notin ToSet(order)}

\* Phases of a plan that was accepted.
Accepted == {"execute", "input_missing", "failed", "done"}

\* The types of the sort; before it nothing is queued or ordered.
OrderTypes ==
  /\ edges \in SUBSET (PlanNodes \X PlanNodes)
  /\ order \in Seq(PlanNodes) /\ queue \in Seq(PlanNodes)
  /\ phase \in {"scan", "missing_reference", "sort", "cycle"} \union Accepted
  /\ phase = "scan" => order = <<>> /\ queue = <<>>

\* The sort: a node's count is of its open edges, and it is in the queue or the order,
\* once, exactly when there are none.
Sorting ==
  /\ incoming = [c \in PlanNodes |-> Cardinality(OpenEdges(c))]
  /\ IsInjective(order) /\ IsInjective(queue) /\ ToSet(order) \intersect ToSet(queue) = {}
  /\ \A c \in PlanNodes : c \in ToSet(order) \union ToSet(queue) <=> OpenEdges(c) = {}
  /\ \A i, j \in DOMAIN order : <<order[i], order[j]>> \in edges => i < j

\* The verdict on the order of an emptied queue.
Verdict ==
  /\ phase \in Accepted => queue = <<>> /\ Len(order) = Cardinality(PlanNodes)
  /\ phase = "cycle" => queue = <<>> /\ Len(order) # Cardinality(PlanNodes)

\* The inductive invariant of the sort.
OrderInv ==
  /\ OrderTypes
  /\ phase \notin {"scan", "missing_reference"} => Sorting
  /\ Verdict

\* Every set of edges is finite.
LEMMA EdgesFinite ==
  ASSUME OrderTypes, NEW T \in SUBSET edges
  PROVE  IsFiniteSet(T) /\ Cardinality(T) \in Nat /\ (Cardinality(T) = 0 <=> T = {})
<1>1. IsFiniteSet(PlanNodes \X PlanNodes)
  BY PlanAssumption, FS_Product
<1>2. T \in SUBSET (PlanNodes \X PlanNodes)
  BY DEF OrderTypes
<1>3. IsFiniteSet(T)
  BY <1>1, <1>2, FS_Subset
<1>4. QED
  BY <1>3, FS_CardinalityType, FS_EmptySet

\* It holds of a plan that is yet to be scanned.
LEMMA OrderStarts == PlanInit => OrderInv
<1> SUFFICES ASSUME PlanInit PROVE OrderInv
  OBVIOUS
<1>1. phase = "scan" /\ order = <<>> /\ queue = <<>> /\ edges \in SUBSET (PlanNodes \X PlanNodes)
  BY DEF PlanInit
<1>2. OrderTypes
  <2>1. order \in Seq(PlanNodes) /\ queue \in Seq(PlanNodes)
    BY <1>1
  <2>2. QED
    BY <1>1, <2>1 DEF OrderTypes
<1>3. QED
  BY <1>1, <1>2 DEF OrderInv, Verdict, Accepted

\* The scan queues the nodes without an incoming edge.
LEMMA ScanStep ==
  ASSUME OrderInv, Scan
  PROVE  OrderInv'
<1>1. phase = "scan" /\ UNCHANGED <<thePlan, order, values>> /\ order = <<>> /\ queue = <<>>
  BY DEF Scan, OrderInv, OrderTypes
<1>2. edges' = edges /\ order' = order
  BY <1>1 DEF thePlan
<1>3. CASE phase' = "missing_reference" /\ UNCHANGED <<incoming, queue>>
  BY <1>1, <1>2, <1>3 DEF OrderInv, OrderTypes, Verdict, Accepted
<1>4. ASSUME NEW count, count = [n \in PlanNodes |-> Cardinality({e \in edges : e[2] = n})],
             phase' = "sort", incoming' = count,
             NEW s \in SetToSeqs({n \in PlanNodes : count[n] = 0}), queue' = s
      PROVE  OrderInv'
  <2>1. PICK R : R = {n \in PlanNodes : count[n] = 0}
    OBVIOUS
  <2>2. IsFiniteSet(R)
    BY <2>1, PlanAssumption, FS_Subset
  <2>3. s \in Seq(R) /\ ToSet(s) = R /\ IsInjective(s)
    BY <1>4, <2>1, <2>2, EachOnce
  <2>4. s \in Seq(PlanNodes)
    BY <2>1, <2>3
  <2>5. ToSet(order) = {} /\ IsInjective(order) /\ DOMAIN order = {}
    BY <1>1 DEF ToSet, IsInjective
  <2>6. \A n \in PlanNodes : OpenEdges(n)' = {e \in edges : e[2] = n}
    BY <1>2, <2>5 DEF OpenEdges
  <2>7. OrderTypes
    BY DEF OrderInv
  <2>8. \A n \in PlanNodes : count[n] = Cardinality(OpenEdges(n)')
    BY <1>4, <2>6
  <2>9. \A n \in PlanNodes : n \in R <=> OpenEdges(n)' = {}
    <3>1. ASSUME NEW n \in PlanNodes PROVE n \in R <=> OpenEdges(n)' = {}
      <4>1. OpenEdges(n)' \in SUBSET edges
        BY <2>6
      <4>2. Cardinality(OpenEdges(n)') = 0 <=> OpenEdges(n)' = {}
        BY <2>7, <4>1, EdgesFinite
      <4>3. QED
        BY <2>1, <2>8, <4>2
    <3>2. QED
      BY <3>1
  <2>10. OrderTypes'
    BY <1>2, <1>4, <2>4, <2>7 DEF OrderTypes
  <2>11. incoming' = [c \in PlanNodes |-> Cardinality(OpenEdges(c)')]
    BY <1>4, <2>6
  <2>12. Sorting'
    BY <1>2, <1>4, <2>3, <2>5, <2>9, <2>11 DEF Sorting
  <2>13. Verdict'
    BY <1>4 DEF Verdict, Accepted
  <2>14. QED
    BY <2>10, <2>12, <2>13 DEF OrderInv
<1>5. QED
  BY <1>3, <1>4 DEF Scan

\* A node leaves the queue for the order, and its children lose an open edge.
LEMMA PopStep ==
  ASSUME OrderInv, PopFront
  PROVE  OrderInv'
<1>1. PICK n : n = Head(queue)
  OBVIOUS
<1>2. /\ phase = "sort" /\ phase' = phase /\ queue # <<>> /\ edges' = edges
      /\ order' = Append(order, n)
      /\ incoming' = [c \in PlanNodes |-> IF <<n, c>> \in edges THEN incoming[c] - 1 ELSE incoming[c]]
      /\ \E s \in SetToSeqs(Freed(n)) : queue' = Tail(queue) \o s
  BY <1>1 DEF PopFront, thePlan
<1>3. PICK s \in SetToSeqs(Freed(n)) : queue' = Tail(queue) \o s
  BY <1>2
<1>4. OrderTypes /\ Sorting
  BY <1>2 DEF OrderInv
<1>5. order \in Seq(PlanNodes) /\ queue \in Seq(PlanNodes) /\ Len(order) \in Nat
      /\ DOMAIN order = 1..Len(order)
  BY <1>4 DEF OrderTypes
<1>6. PICK t : t = Tail(queue)
  OBVIOUS
<1>7. /\ t \in Seq(PlanNodes) /\ ToSet(t) = ToSet(queue) \ {n} /\ IsInjective(t)
      /\ n \in ToSet(queue) /\ n \in PlanNodes
  <2>1. IsInjective(queue) /\ queue # <<>> /\ t = Tail(queue)
    BY <1>2, <1>4, <1>6 DEF Sorting
  <2>2. /\ t \in Seq(PlanNodes) /\ ToSet(t) = ToSet(queue) \ {Head(queue)} /\ IsInjective(t)
        /\ Head(queue) \in ToSet(queue) /\ Head(queue) \in PlanNodes
    BY <1>5, <2>1, TailKeeps
  <2>3. QED
    BY <1>1, <2>2
<1>8. n \notin ToSet(order) /\ OpenEdges(n) = {}
  BY <1>4, <1>7 DEF Sorting
<1>9. order' \in Seq(PlanNodes) /\ ToSet(order') = ToSet(order) \union {n} /\ IsInjective(order')
  <2>1. order' \in Seq(PlanNodes)
    BY <1>2, <1>5, <1>7
  <2>2. IsInjective(order)
    BY <1>4 DEF Sorting
  <2>3. ToSet(Append(order, n)) = ToSet(order) \union {n} /\ IsInjective(Append(order, n))
    BY <1>5, <1>7, <1>8, <2>2, AppendKeeps
  <2>4. QED
    BY <1>2, <2>1, <2>3
<1>10. \A c \in PlanNodes : OpenEdges(c)' = OpenEdges(c) \ {<<n, c>>}
  <2>1. ASSUME NEW c \in PlanNodes, NEW e \in edges, e[2] = c PROVE e[1] = n <=> e = <<n, c>>
    <3>1. e \in PlanNodes \X PlanNodes
      BY <1>4 DEF OrderTypes
    <3>2. QED
      BY <2>1, <3>1
  <2>2. QED
    BY <1>2, <1>9, <2>1 DEF OpenEdges
<1>11. ASSUME NEW c \in PlanNodes
       PROVE  /\ <<n, c>> \in edges <=> <<n, c>> \in OpenEdges(c)
              /\ IsFiniteSet(OpenEdges(c)) /\ Cardinality(OpenEdges(c)) \in Nat
              /\ Cardinality(OpenEdges(c)) = 0 <=> OpenEdges(c) = {}
              /\ incoming[c] = Cardinality(OpenEdges(c))
  <2>1. OpenEdges(c) \in SUBSET edges
    BY DEF OpenEdges
  <2>2. <<n, c>> \in edges <=> <<n, c>> \in OpenEdges(c)
    BY <1>8 DEF OpenEdges
  <2>3. incoming[c] = Cardinality(OpenEdges(c))
    BY <1>4 DEF Sorting
  <2>4. QED
    BY <1>4, <2>1, <2>2, <2>3, EdgesFinite
<1>12. ASSUME NEW c \in PlanNodes PROVE incoming'[c] = Cardinality(OpenEdges(c)')
  <2>1. incoming'[c] = IF <<n, c>> \in edges THEN incoming[c] - 1 ELSE incoming[c]
    BY <1>2
  <2>2. Cardinality(OpenEdges(c) \ {<<n, c>>}) =
          IF <<n, c>> \in OpenEdges(c) THEN Cardinality(OpenEdges(c)) - 1 ELSE Cardinality(OpenEdges(c))
    BY <1>11, FS_RemoveElement
  <2>3. QED
    BY <1>10, <1>11, <2>1, <2>2
<1>13. incoming' = [c \in PlanNodes |-> Cardinality(OpenEdges(c)')]
  <2>1. incoming' = [c \in PlanNodes |-> incoming'[c]]
    BY <1>2
  <2>2. QED
    BY <1>12, <2>1
<1>14. ASSUME NEW c \in PlanNodes
       PROVE  c \in Freed(n) <=> OpenEdges(c)' = {} /\ OpenEdges(c) # {}
  <2>1. c \in Freed(n) <=> <<n, c>> \in OpenEdges(c) /\ Cardinality(OpenEdges(c)) = 1
    BY <1>11 DEF Freed
  <2>2. Cardinality(OpenEdges(c)) = 1 <=> \E x : OpenEdges(c) = {x}
    BY <1>11, FS_Singleton
  <2>3. OpenEdges(c)' = OpenEdges(c) \ {<<n, c>>}
    BY <1>10
  <2>4. QED
    BY <2>1, <2>2, <2>3
<1>15. s \in Seq(PlanNodes) /\ ToSet(s) = Freed(n) /\ IsInjective(s)
  <2>1. Freed(n) \in SUBSET PlanNodes
    BY DEF Freed
  <2>2. IsFiniteSet(Freed(n))
    BY <2>1, PlanAssumption, FS_Subset
  <2>3. s \in Seq(Freed(n)) /\ ToSet(s) = Freed(n) /\ IsInjective(s)
    BY <1>3, <2>2, EachOnce
  <2>4. QED
    BY <2>1, <2>3
<1>16. \A c \in PlanNodes : c \in ToSet(order) \union ToSet(queue) <=> OpenEdges(c) = {}
  BY <1>4 DEF Sorting
<1>17. ToSet(t) \intersect ToSet(s) = {}
  <2>1. ASSUME NEW c \in Freed(n) PROVE c \notin ToSet(queue)
    <3>1. c \in PlanNodes
      BY DEF Freed
    <3>2. QED
      BY <1>14, <1>16, <2>1, <3>1
  <2>2. QED
    BY <1>7, <1>15, <2>1
<1>18. queue' \in Seq(PlanNodes) /\ ToSet(queue') = ToSet(t) \union Freed(n) /\ IsInjective(queue')
  <2>1. t \o s \in Seq(PlanNodes) /\ ToSet(t \o s) = ToSet(t) \union ToSet(s) /\ IsInjective(t \o s)
    BY <1>7, <1>15, <1>17, ConcatKeeps
  <2>2. queue' = t \o s
    BY <1>3, <1>6
  <2>3. QED
    BY <1>15, <2>1, <2>2
<1>19. ASSUME NEW c \in PlanNodes
       PROVE  c \in ToSet(order') \union ToSet(queue') <=> OpenEdges(c)' = {}
  <2>1. c \in ToSet(order') \union ToSet(queue') <=> c \in ToSet(order) \union ToSet(queue) \/ c \in Freed(n)
    BY <1>7, <1>9, <1>18
  <2>2. OpenEdges(c) = {} => OpenEdges(c)' = {}
    BY <1>10
  <2>3. QED
    BY <1>14, <1>16, <2>1, <2>2
<1>20. ToSet(order') \intersect ToSet(queue') = {}
  <2>1. ASSUME NEW c \in Freed(n) PROVE c \notin ToSet(order) /\ c # n
    <3>1. c \in PlanNodes
      BY DEF Freed
    <3>2. QED
      BY <1>7, <1>14, <1>16, <2>1, <3>1
  <2>2. ToSet(order) \intersect ToSet(queue) = {}
    BY <1>4 DEF Sorting
  <2>3. QED
    BY <1>7, <1>9, <1>18, <2>1, <2>2
<1>21. /\ DOMAIN order' = 1..(Len(order) + 1) /\ order'[Len(order) + 1] = n
       /\ \A k \in 1..Len(order) : order'[k] = order[k]
  BY <1>2, <1>5, <1>7
<1>22. ASSUME NEW i \in DOMAIN order', NEW j \in DOMAIN order', <<order'[i], order'[j]>> \in edges'
       PROVE  i < j
  <2>1. \A m \in PlanNodes : <<m, n>> \in edges => m \in ToSet(order)
    BY <1>8 DEF OpenEdges
  <2>2. CASE j = Len(order) + 1
    <3>1. order'[j] = n
      BY <1>21, <2>2
    <3>2. i # j
      <4>1. <<n, n>> \notin edges
        BY <1>7, <1>8, <2>1
      <4>2. QED
        BY <1>2, <1>22, <3>1, <4>1
    <3>3. QED
      BY <1>5, <1>21, <2>2, <3>2
  <2>3. CASE j # Len(order) + 1
    <3>1. j \in 1..Len(order)
      BY <1>5, <1>21, <2>3
    <3>2. order'[j] = order[j] /\ order[j] \in ToSet(order) /\ order[j] \in PlanNodes
      BY <1>5, <1>21, <3>1 DEF ToSet
    <3>3. OpenEdges(order[j]) = {}
      BY <1>16, <3>2
    <3>4. i # Len(order) + 1
      <4>1. <<n, order[j]>> \notin edges
        BY <1>8, <3>2, <3>3 DEF OpenEdges
      <4>2. QED
        BY <1>2, <1>21, <1>22, <3>2, <4>1
    <3>5. i \in 1..Len(order) /\ order'[i] = order[i]
      BY <1>5, <1>21, <3>4
    <3>6. <<order[i], order[j]>> \in edges
      BY <1>2, <1>22, <3>2, <3>5
    <3>7. QED
      BY <1>4, <1>5, <3>1, <3>5, <3>6 DEF Sorting
  <2>4. QED
    BY <2>2, <2>3
<1>23. OrderTypes'
  BY <1>2, <1>4, <1>9, <1>18 DEF OrderTypes
<1>24. Sorting'
  BY <1>9, <1>13, <1>18, <1>19, <1>20, <1>22 DEF Sorting
<1>25. Verdict'
  BY <1>2 DEF Verdict, Accepted
<1>26. QED
  BY <1>23, <1>24, <1>25 DEF OrderInv

\* A step that leaves the plan and its order alone keeps the invariant.
LEMMA OrderKept ==
  ASSUME OrderInv, UNCHANGED <<thePlan, incoming, queue, order>>, phase' = phase
  PROVE  OrderInv'
<1>1. edges' = edges /\ UNCHANGED <<incoming, queue, order, phase>>
  BY DEF thePlan
<1>2. OrderTypes'
  BY <1>1 DEF OrderInv, OrderTypes
<1>3. Sorting' <=> Sorting
  BY <1>1 DEF Sorting, OpenEdges
<1>4. QED
  BY <1>1, <1>2, <1>3 DEF OrderInv, Verdict

\* A sort that has ended stands, and so does what was made of it.
LEMMA VerdictStands ==
  ASSUME OrderInv, UNCHANGED <<thePlan, incoming, queue, order>>, phase \in {"sort"} \union Accepted,
         phase' \in {"cycle"} \union Accepted, Verdict'
  PROVE  OrderInv'
<1>1. edges' = edges /\ UNCHANGED <<incoming, queue, order>>
  BY DEF thePlan
<1>2. OrderTypes'
  BY <1>1 DEF OrderInv, OrderTypes, Accepted
<1>3. Sorting'
  BY <1>1 DEF OrderInv, Accepted, Sorting, OpenEdges
<1>4. QED
  BY <1>2, <1>3 DEF OrderInv

\* Every step of validation and execution keeps it.
LEMMA OrderStep ==
  ASSUME OrderInv, [PlanNext]_planVars
  PROVE  OrderInv'
<1>1. CASE Scan
  BY <1>1, ScanStep
<1>2. CASE PopFront
  BY <1>2, PopStep
<1>3. CASE Sorted
  <2>1. /\ phase = "sort" /\ queue = <<>> /\ UNCHANGED <<thePlan, incoming, queue, order>>
        /\ phase' = IF Len(order) = Cardinality(PlanNodes) THEN "execute" ELSE "cycle"
    BY <1>3 DEF Sorted
  <2>2. Verdict'
    BY <2>1 DEF Verdict, Accepted
  <2>3. phase \in {"sort"} \union Accepted /\ phase' \in {"cycle"} \union Accepted
    BY <2>1 DEF Accepted
  <2>4. QED
    BY <2>1, <2>2, <2>3, VerdictStands
<1>4. CASE Execute \/ ExecuteFails \/ Executed
  <2>1. /\ phase = "execute" /\ UNCHANGED <<thePlan, incoming, queue, order>>
        /\ phase' \in Accepted
    BY <1>4 DEF Execute, ExecuteFails, Executed, Accepted
  <2>2. Verdict'
    BY <2>1 DEF Verdict, Accepted, OrderInv
  <2>3. phase \in {"sort"} \union Accepted /\ phase' \in {"cycle"} \union Accepted
    BY <2>1 DEF Accepted
  <2>4. QED
    BY <2>1, <2>2, <2>3, VerdictStands
<1>5. CASE UNCHANGED planVars
  BY <1>5, OrderKept DEF planVars, thePlan
<1>6. QED
  BY <1>1, <1>2, <1>3, <1>4, <1>5 DEF PlanNext

\* The invariant implies what the run checks.
LEMMA OrderInvSound == OrderInv => PlanOrderSound
<1> SUFFICES ASSUME OrderInv PROVE PlanOrderSound
  OBVIOUS
<1>1. order \in Seq(PlanNodes) /\ Len(order) \in Nat /\ DOMAIN order = 1..Len(order)
      /\ ToSet(order) \subseteq PlanNodes
  BY DEF OrderInv, OrderTypes, ToSet
<1>2. IsFiniteSet(PlanNodes)
  BY PlanAssumption
<1>3. ASSUME phase \in Accepted
      PROVE  /\ ToSet(order) = PlanNodes /\ Len(order) = Cardinality(PlanNodes)
             /\ \A i, j \in DOMAIN order : <<order[i], order[j]>> \in edges => i < j
  <2>1. Sorting /\ Len(order) = Cardinality(PlanNodes)
    BY <1>3 DEF OrderInv, Verdict, Accepted
  <2>2. ToSet(order) = PlanNodes
    <3>1. PICK n \in Nat : n = Len(order)
      BY <1>1
    <3>2. order \in [1..n -> PlanNodes] /\ IsInjective(order)
      BY <1>1, <2>1, <3>1 DEF Sorting
    <3>3. order \in Injection(1..n, PlanNodes)
      BY <3>2 DEF Injection
    <3>4. Cardinality(1..n) = n
      <4>1. 1 \in Int /\ n \in Int
        BY <3>1
      <4>2. Cardinality(1..n) = IF 1 > n THEN 0 ELSE n - 1 + 1
        BY <4>1, FS_Interval
      <4>3. QED
        BY <3>1, <4>2
    <3>5. order \in Surjection(1..n, PlanNodes)
      BY <1>2, <2>1, <3>1, <3>3, <3>4, FS_Injection
    <3>6. \A t \in PlanNodes : \E i \in 1..n : order[i] = t
      BY <3>5 DEF Surjection
    <3>7. QED
      BY <1>1, <3>1, <3>6 DEF ToSet
  <2>3. QED
    BY <2>1, <2>2 DEF Sorting
<1>4. ASSUME phase = "cycle" PROVE Cyclic(edges)
  <2>1. Sorting /\ queue = <<>> /\ Len(order) # Cardinality(PlanNodes)
    BY <1>4 DEF OrderInv, Verdict, Accepted
  <2>2. PICK S : S = PlanNodes \ ToSet(order)
    OBVIOUS
  <2>3. S # {}
    <3>1. SUFFICES ASSUME S = {} PROVE FALSE
      OBVIOUS
    <3>2. PICK n \in Nat : n = Len(order)
      BY <1>1
    <3>3. order \in [1..n -> PlanNodes] /\ IsInjective(order)
      BY <1>1, <2>1, <3>2 DEF Sorting
    <3>4. \A t \in PlanNodes : \E i \in 1..n : order[i] = t
      BY <1>1, <2>2, <3>1, <3>2 DEF ToSet
    <3>5. order \in Bijection(1..n, PlanNodes)
      BY <3>3, <3>4 DEF Bijection, Injection, Surjection
    <3>6. ExistsBijection(1..n, PlanNodes)
      BY <3>5 DEF ExistsBijection
    <3>7. IsFiniteSet(1..n) /\ Cardinality(1..n) = n
      <4>1. 1 \in Int /\ n \in Int
        BY <3>2
      <4>2. IsFiniteSet(1..n) /\ Cardinality(1..n) = IF 1 > n THEN 0 ELSE n - 1 + 1
        BY <4>1, FS_Interval
      <4>3. QED
        BY <3>2, <4>2
    <3>8. Cardinality(PlanNodes) = n
      BY <3>6, <3>7, FS_Bijection
    <3>9. QED
      BY <2>1, <3>2, <3>8
  <2>4. ASSUME NEW n \in S PROVE \E m \in S : <<m, n>> \in edges
    <3>1. n \in PlanNodes /\ n \notin ToSet(order) \union ToSet(queue)
      <4>1. ToSet(queue) = {}
        BY <2>1 DEF ToSet
      <4>2. QED
        BY <2>2, <2>4, <4>1
    <3>2. OpenEdges(n) # {}
      BY <2>1, <3>1 DEF Sorting
    <3>3. PICK e \in edges : e[2] = n /\ e[1] \notin ToSet(order)
      BY <3>2 DEF OpenEdges
    <3>4. e \in PlanNodes \X PlanNodes
      BY <3>3 DEF OrderInv, OrderTypes
    <3>5. e = <<e[1], n>> /\ e[1] \in S
      BY <2>2, <3>3, <3>4
    <3>6. QED
      BY <3>3, <3>5
  <2>5. QED
    BY <2>2, <2>3, <2>4 DEF Cyclic
<1>5. ASSUME phase \in Accepted PROVE ~Cyclic(edges)
  <2>1. SUFFICES ASSUME NEW S \in (SUBSET PlanNodes) \ {{}}, \A n \in S : \E m \in S : <<m, n>> \in edges
                 PROVE  FALSE
    BY DEF Cyclic
  <2>2. ToSet(order) = PlanNodes /\ \A i, j \in DOMAIN order : <<order[i], order[j]>> \in edges => i < j
    BY <1>3, <1>5
  <2>3. PICK T : T = {k \in 1..Len(order) : order[k] \in S}
    OBVIOUS
  <2>4. T \in SUBSET Nat /\ T # {}
    <3>1. PICK n \in S : n \in PlanNodes
      BY <2>1
    <3>2. PICK k \in 1..Len(order) : order[k] = n
      BY <1>1, <2>2, <3>1 DEF ToSet
    <3>3. QED
      BY <1>1, <2>3, <3>1, <3>2
  <2>5. PICK j \in T : \A i \in T : ~(<<i, j>> \in OpToRel(<, Nat))
    BY <2>4, NatLessThanWellFounded, WFMin
  <2>6. PICK m \in S : <<m, order[j]>> \in edges
    BY <2>1, <2>3, <2>5
  <2>7. PICK i \in 1..Len(order) : order[i] = m
    BY <1>1, <2>1, <2>2, <2>6 DEF ToSet
  <2>8. i \in T /\ i < j
    BY <1>1, <2>2, <2>3, <2>5, <2>6, <2>7
  <2>9. <<i, j>> \in OpToRel(<, Nat)
    BY <2>4, <2>5, <2>8 DEF OpToRel
  <2>10. QED
    BY <2>5, <2>8, <2>9
<1>6. QED
  BY <1>3, <1>4, <1>5 DEF PlanOrderSound, OrderIsTopological, CycleIsReal, Accepted

\* The inductive invariant of the sort holds in every reachable state, for any finite set of nodes,
\* any edges and any listing.
THEOREM OrderInvariant == PlanSpec => []OrderInv
<1>1. QED
  BY OrderStarts, OrderStep, PTL DEF PlanSpec

\* validate_plan on a plan of any size: an accepted order has every node once and every edge
\* forward, and a plan is refused as a cycle exactly when its edges have one.
THEOREM PlanOrderStaysSound == PlanSpec => []PlanOrderSound
<1>1. QED
  BY OrderInvariant, OrderInvSound, PTL
=============================================================================
