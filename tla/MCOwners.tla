------------------------------- MODULE MCOwners -------------------------------
(***************************************************************************)
(* Two durable owners of the runtime for TLC: the owner of one-shot model  *)
(* calls and the continuations of a durable branch.  They share no state,  *)
(* so one part moves and the other stays where it began.                   *)
(***************************************************************************)
EXTENDS ExoLifecycle, BranchContinuation, TLC

CONSTANTS b1, b2, a1, a2

VARIABLE part   \* which of them moves

Prepared(strategy) ==
    [status |-> "ready", strategy |-> strategy, assured |-> TRUE, rev |-> 3, artifacts |-> {a1}]

\* One branch that operators prepared, then some starts of processes.
Alone(strategy, n) ==
    [rows |-> b1 :> Prepared(strategy) @@ b2 :> NoBranch, starts |-> n, edited |-> {}, edits |-> 0]

\* Two starts, and operators who edit the branch meanwhile.
Edited(strategy) == [Alone(strategy, 2) EXCEPT !.edited = {b1}, !.edits = 4]

\* Operators only, with two branches.
Operators ==
    [rows |-> b1 :> NoBranch @@ b2 :> NoBranch, starts |-> 0, edited |-> {b1, b2}, edits |-> 4]

\* A branch is resumed twice only after the fourth start.
AllWorlds == {Alone("exact", 3), Alone("prefix", 4), Edited("exact"), Edited("prefix"), Operators}
ExactWorld == {Alone("exact", 2)}

ownersVars == <<part, lifecycleVars, continuationVars>>

OwnersInit ==
    /\ LifecycleInit /\ ContinuationInit
    /\ \/ part = "continuation"
       \/ part = "lifecycle" /\ world = CHOOSE w \in Worlds : TRUE

LifecyclePart(A) == part = "lifecycle" /\ A /\ UNCHANGED <<part, continuationVars>>
ContinuationPart(A) == part = "continuation" /\ A /\ UNCHANGED <<part, lifecycleVars>>

OwnersNext == LifecyclePart(LifecycleNext) \/ ContinuationPart(ContinuationNext)

\* The fairness of FairLifecycleSpec.
OwnersSpec ==
    /\ OwnersInit /\ [][OwnersNext]_ownersVars
    /\ WF_lifecycleVars(LifecyclePart(Proceed))
    /\ \A x \in Executions : WF_lifecycleVars(LifecyclePart(ThreadReports(x)))
===============================================================================
