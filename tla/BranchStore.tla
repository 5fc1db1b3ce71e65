----------------------------- MODULE BranchStore -----------------------------
(***************************************************************************)
(* The durable branch store, exact_transition/durable_branch_store*.rs:    *)
(* branches of one experiment, each with a lifecycle status, the assurance *)
(* of its strategy, a metadata revision and references to artifacts.       *)
(*                                                                         *)
(* Every operation is one SQLite transaction.  It carries an operation id  *)
(* and the revision its caller read.  A repeated id with the same payload  *)
(* answers the row as it is now; with another payload it is refused, and   *)
(* so is a stale revision.  The ids of operators are fresh, so a retry of  *)
(* theirs changes nothing and is no step; the ids the runtime derives from *)
(* a branch are kept in branchOps, for they may come again.                *)
(***************************************************************************)
EXTENDS Naturals, FiniteSets

CONSTANTS
    Branches,     \* branch ids of the experiment
    Sources,      \* checkpoints and replay prefixes, shared between branches
    MaxRevision,  \* bound on metadata_revision
    NoBranch

VARIABLES
    branches,   \* the row of each branch, or NoBranch
    tombs,      \* branch_tombstones
    collected,  \* artifacts some prune reported collectable
    branchOps   \* branch_operations with a derived id: [id, payload]

storeVars == <<branches, tombs, collected, branchOps>>

Strategies == {"exact", "prefix"}
HalfCreated == {"pending", "restoring", "replaying", "unknown"}
Statuses == HalfCreated \cup {"ready", "running", "held", "completed", "failed", "archived"}
Evidenced == {"ready", "running", "held", "completed"}

\* A retained receipt of the restore that was claimed at this revision.
Receipt(rev) == [receipt |-> rev]

BranchRows ==
    [status : Statuses, strategy : Strategies, assured : BOOLEAN, rev : 0..MaxRevision,
     artifacts : SUBSET (Sources \cup {Receipt(r) : r \in 0..MaxRevision})]

ASSUME BranchAssumption == MaxRevision \in Nat /\ NoBranch \notin BranchRows

Rows == {b \in Branches : branches[b] # NoBranch}

\* transition_allowed: where a status may move to.
MovesFrom(status) ==
    CASE status = "pending" -> {"restoring", "replaying", "archived"}
      [] status \in {"restoring", "replaying"} -> {"ready", "failed", "unknown", "archived"}
      [] status = "ready" -> {"restoring", "replaying", "running", "held", "archived"}
      [] status \in {"running", "held"} ->
           ({"running", "held"} \ {status}) \cup {"completed", "failed", "unknown", "archived"}
      [] status \in {"completed", "failed"} -> {"archived"}
      [] status = "unknown" -> {"restoring", "replaying", "failed", "archived"}
      [] status = "archived" -> {"pending"}

\* A call with the revision its caller read reaches a branch that is not pruned.
Current(b, rev) == b \in Rows /\ b \notin tombs /\ branches[b].rev = rev

CanMove(b, rev, status) ==
    /\ Current(b, rev)
    /\ status \in MovesFrom(branches[b].status)
    /\ status = "ready" => branches[b].assured
    /\ status = "restoring" => branches[b].strategy = "exact"
    /\ status = "replaying" => branches[b].strategy = "prefix"

Bumped(row) == [row EXCEPT !.rev = @ + 1]

\* A strategy that starts again has no evidence yet.
Moved(row, status) ==
    Bumped([row EXCEPT !.status = status,
                       !.assured = @ /\ status \notin {"pending", "restoring", "replaying"}])

\* set_assurance refuses the evidence of the other strategy.
CanAssure(b, rev) ==
    /\ Current(b, rev)
    /\ branches[b].status \in {"restoring", "replaying", "unknown"}

Assured(row, yes) == Bumped([row EXCEPT !.assured = yes])

CanAttach(b, rev, artifact) == Current(b, rev) /\ artifact \notin branches[b].artifacts

Attached(row, artifact) == Bumped([row EXCEPT !.artifacts = @ \cup {artifact}])

(***************************************************************************)
(* What an operation with a derived id does: "applied" runs it, "again"    *)
(* answers the row without running it, "refused" is any error.             *)
(***************************************************************************)
Recorded(id) == {o \in branchOps : o.id = id}

Outcome(id, payload, can) ==
    IF [id |-> id, payload |-> payload] \in branchOps THEN "again"
    ELSE IF Recorded(id) = {} /\ can THEN "applied" ELSE "refused"

\* The transaction of such an operation on the row of b.
Transact(id, payload, can, b, row) ==
    LET applied == Outcome(id, payload, can) = "applied"
    IN  /\ applied => branches[b].rev < MaxRevision
        /\ branches' = IF applied THEN [branches EXCEPT ![b] = row] ELSE branches
        /\ branchOps' = branchOps \cup IF applied THEN {[id |-> id, payload |-> payload]} ELSE {}
        /\ UNCHANGED <<tombs, collected>>

(***************************************************************************)
(* The operators of the experiment.  They read the row and then write, so  *)
(* an operation that is not refused has the current revision.              *)
(***************************************************************************)
Write(b, row) ==
    /\ branches[b].rev < MaxRevision
    /\ branches' = [branches EXCEPT ![b] = row]
    /\ UNCHANGED <<tombs, collected, branchOps>>

\* The root names no parent; a child names a branch that exists.
Create(b, parent, strategy, source) ==
    /\ b \notin Rows
    /\ IF parent = NoBranch THEN Rows = {} ELSE parent \in Rows
    /\ branches' = [branches EXCEPT ![b] =
           [status |-> "pending", strategy |-> strategy, assured |-> FALSE, rev |-> 0,
            artifacts |-> {source}]]
    /\ UNCHANGED <<tombs, collected, branchOps>>

MoveBranch(b, status) ==
    /\ b \in Rows /\ CanMove(b, branches[b].rev, status)
    /\ Write(b, Moved(branches[b], status))

SetAssurance(b, yes) ==
    /\ b \in Rows /\ CanAssure(b, branches[b].rev)
    /\ Write(b, Assured(branches[b], yes))

AttachArtifact(b, artifact) ==
    /\ b \in Rows /\ CanAttach(b, branches[b].rev, artifact)
    /\ Write(b, Attached(branches[b], artifact))

Rename(b) ==
    /\ b \in Rows /\ Current(b, branches[b].rev)
    /\ Write(b, Bumped(branches[b]))

\* Artifacts of the selected branches that no other live branch refers to.
Collectable(selected) ==
    (UNION {branches[b].artifacts : b \in selected \ tombs})
        \ (UNION {branches[b].artifacts : b \in Rows \ (selected \cup tombs)})

\* prune; retainCompleted is the policy of the request.
Prune(selected, retainCompleted) ==
    /\ selected # {} /\ selected \subseteq Rows
    /\ \A b \in selected : \/ branches[b].status = "archived"
                           \/ branches[b].status = "completed" /\ ~retainCompleted
    /\ tombs' = tombs \cup selected
    /\ collected' = collected \cup Collectable(selected)
    /\ UNCHANGED <<branches, branchOps>>

\* What operators may do to the branches bs.
OperatorStep(bs) ==
    \/ \E b \in bs, parent \in bs \cup {NoBranch}, s \in Strategies, a \in Sources :
           Create(b, parent, s, a)
    \/ \E b \in bs :
           \/ \E status \in Statuses : MoveBranch(b, status)
           \/ \E yes \in BOOLEAN : SetAssurance(b, yes)
           \/ \E a \in Sources : AttachArtifact(b, a)
           \/ Rename(b)
    \/ \E selected \in SUBSET bs, retain \in BOOLEAN : Prune(selected, retain)

(***************************************************************************)
(* Properties.                                                             *)
(***************************************************************************)

\* A branch that is ready or beyond has the evidence its strategy requires, whoever
\* moved it there and however often it was archived, revived and started again.
ReadyAssured == \A b \in Rows : branches[b].status \in Evidenced => branches[b].assured

\* Nothing changes the row of a pruned branch, and a tombstone is never taken back.
PrunedFrozen ==
    [][\A b \in tombs : b \in tombs' /\ branches'[b] = branches[b]]_storeVars

\* A prune reports an artifact collectable only when no branch that remains refers to
\* it, shared checkpoints of siblings and artifacts attached later included.
CollectsUnreferenced ==
    [][\A a \in collected' \ collected :
           \A b \in Rows \ tombs' : a \notin branches[b].artifacts]_storeVars
=============================================================================
