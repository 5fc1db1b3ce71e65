------------------------------ MODULE MCStores ------------------------------
(***************************************************************************)
(* The execution store, the control gate, the context owner over its       *)
(* store, and the process-lifecycle intents for TLC.  They share no state, *)
(* so a behaviour of the four is interleaved from behaviours of each: one  *)
(* part moves and the others stay where they began.                        *)
(***************************************************************************)
EXTENDS ExecutionStore, ControlGate, ContextOwner, MCProcessLifecycle, TLC

CONSTANTS
  r1, r2, a1, a2, a3,
  p1, p2, k1, k2, k3, m1, m2,
  MaxEffort   \* bound on what the context owner's store takes up

VARIABLE part   \* which of them moves

\* Results, and handlers, are only compared with one another.
Symmetry == Permutations(Results) \union Permutations(Callers)

\* So are runs and attempts, which are never forgotten: the first is started first.
StartedInOrder ==
  /\ runs[r2] # None => runs[r1] # None
  /\ Exists(attempts[a2]) => Exists(attempts[a1])
  /\ Exists(attempts[a3]) => Exists(attempts[a2])

\* Two generations of one state.
TwoGenerations == {[gen |-> 1, id |-> "s"], [gen |-> 2, id |-> "s"]}

\* A key that was not used may be any key that was not used: the first is.
KeysInOrder ==
  /\ ~Unused(authority, k2) => ~Unused(authority, k1)
  /\ ~Unused(authority, k3) => ~Unused(authority, k2)

\* What the context owner did, and one for each process beyond the first generation.
Effort ==
  Cardinality({k \in Keys : rows[k] # NoReceipt}) + Cardinality(done)
    + Cardinality(Publications) + Cardinality(stored)
    + Cardinality({p \in Services : owner[p].mem # NoJournal /\ owner[p].mem.seen.gen > 1})

\* The same for the keys, requests and processes of the context owner; the second process
\* has the newer lease, and the third key is for the gate alone.
InOrder ==
  /\ contacts = 1 => owner[p2] = Gone
  /\ owner[p1].lease # 2 /\ owner[p2].lease # 1
  /\ rows[k2] # NoReceipt => rows[k1] # NoReceipt
  /\ rows[k3] = NoReceipt
  /\ m2 \in done => m1 \in done

StoresInit ==
  /\ Init /\ GateInit /\ OwnerInit /\ LifecycleInit
  /\ part \in {"execution", "gate", "context", "lifecycle"}
  /\ part # "gate" => authority.seen.gen = 1

StoresNext ==
  \/ /\ part = "execution" /\ Next /\ StartedInOrder'
     /\ UNCHANGED <<part, gateVars, ownerVars, lifecycleVars>>
  \/ /\ part = "gate" /\ GateNext /\ KeysInOrder'
     /\ UNCHANGED <<part, vars, ownerVars, lifecycleVars>>
  \/ /\ part = "context" /\ OwnerNext /\ Effort' <= MaxEffort /\ InOrder'
     /\ UNCHANGED <<part, vars, gateVars, lifecycleVars>>
  \/ /\ part = "lifecycle" /\ LifecycleNext /\ OverlapUntilFault' /\ RestartedWhenFull
     /\ UNCHANGED <<part, vars, gateVars, ownerVars>>

StoresSpec == StoresInit /\ [][StoresNext]_<<part, vars, gateVars, ownerVars, lifecycleVars>>
=============================================================================
