-------------------------- MODULE PreparedDispatch --------------------------
(***************************************************************************)
(* The controller of prepared dispatches, context_capture/dispatch_*.rs:   *)
(* an exact input is drafted, committed and held, and released to a write  *)
(* port by an explicit resume.  Receipts and cancellations form a ledger,  *)
(* whose durable image outlives the controller.                            *)
(*                                                                         *)
(* All the axes of DispatchFences are compared for equality, so they are   *)
(* one value, and so are the bytes of an input with the input.  A call the *)
(* code refuses without a change is no step.                               *)
(***************************************************************************)
EXTENDS Naturals

CONSTANTS
    Dispatches,    \* dispatch identities
    FenceValues,   \* what the fences of the world can be
    MaxStops,      \* bound on requests to stop in one process
    MaxReloads     \* bound on restarts

VARIABLES
    approvals,   \* the held dispatches of the controller
    ledger,      \* its receipts and terminal cancellations
    image,       \* the durable image of the ledger
    stopEpoch,   \* stop_epoch
    fences,      \* outside: the current fences
    writes,      \* outside: identity -> writes the port attempted
    settled,     \* history: identities the image once held
    fresh,       \* history: identities drafted since the last request to stop
    reloads

preparedVars == <<approvals, ledger, image, stopEpoch, fences, writes, settled, fresh, reloads>>

DispatchStates == {"drafted", "committed_held", "dispatched", "stale", "cancelled"}
WriteOutcomes == {"write_completed", "unknown"}
NoReceipt == "none"
Ledgers == [receipts: [Dispatches -> WriteOutcomes \cup {NoReceipt}], cancelled: SUBSET Dispatches]
EmptyLedger == [receipts |-> [d \in Dispatches |-> NoReceipt], cancelled |-> {}]
NotHeld(f) == [state |-> "absent", fences |-> f, epoch |-> 0]

ASSUME PreparedAssumption == MaxStops \in Nat /\ MaxReloads \in Nat /\ FenceValues # {}

PreparedInit ==
    /\ fences \in FenceValues
    /\ approvals = [d \in Dispatches |-> NotHeld(fences)]
    /\ ledger = EmptyLedger /\ image = EmptyLedger
    /\ stopEpoch = 0 /\ reloads = 0
    /\ writes = [d \in Dispatches |-> 0]
    /\ settled = {} /\ fresh = {}

Written(l, d) == l.receipts[d] # NoReceipt
HeldDispatch(d) == approvals[d].state # "absent"
SetState(d, state) == approvals' = [approvals EXCEPT ![d].state = state]

\* draft: an identity that is held in whatever state, recorded or cancelled is refused.
Draft(d) ==
    /\ ~Written(ledger, d) /\ d \notin ledger.cancelled /\ ~HeldDispatch(d)
    /\ approvals' = [approvals EXCEPT ![d] =
           [state |-> "drafted", fences |-> fences, epoch |-> stopEpoch]]
    /\ fresh' = fresh \cup {d}
    /\ UNCHANGED <<ledger, image, stopEpoch, fences, writes, settled, reloads>>

\* commit: a stop or a drift makes the draft stale for good.
Commit(d) ==
    /\ HeldDispatch(d)
    /\ IF approvals[d].epoch # stopEpoch THEN SetState(d, "stale")
       ELSE /\ approvals[d].state = "drafted"
            /\ SetState(d, IF approvals[d].fences = fences THEN "committed_held" ELSE "stale")
    /\ UNCHANGED <<ledger, image, stopEpoch, fences, writes, settled, fresh, reloads>>

\* request_stop: every pending approval becomes stale.
RequestStop ==
    /\ stopEpoch < MaxStops
    /\ stopEpoch' = stopEpoch + 1
    /\ approvals' = [d \in Dispatches |->
           IF approvals[d].state \in {"drafted", "committed_held"}
           THEN [approvals[d] EXCEPT !.state = "stale"] ELSE approvals[d]]
    /\ fresh' = {}
    /\ UNCHANGED <<ledger, image, fences, writes, settled, reloads>>

\* cancel: refused once a write was attempted.
CancelDispatch(d) ==
    /\ ~Written(ledger, d)
    /\ ledger' = [ledger EXCEPT !.cancelled = @ \cup {d}]
    /\ approvals' = IF HeldDispatch(d) THEN [approvals EXCEPT ![d].state = "cancelled"] ELSE approvals
    /\ UNCHANGED <<image, stopEpoch, fences, writes, settled, fresh, reloads>>

\* Mutant of MayResume: a stop is only looked for when the approval is committed.
MayResumeStopped(d) ==
    /\ ~Written(ledger, d) /\ d \notin ledger.cancelled
    /\ approvals[d].state \in {"committed_held", "stale"} /\ approvals[d].fences = fences

\* The checks of resume in front of the write.
MayResume(d) ==
    /\ ~Written(ledger, d) /\ d \notin ledger.cancelled
    /\ approvals[d].epoch = stopEpoch
    /\ approvals[d].state = "committed_held" /\ approvals[d].fences = fences

\* resume, refused: a held approval that a stop or a drift overtook becomes stale.
ResumeRefused(d) ==
    /\ ~Written(ledger, d) /\ d \notin ledger.cancelled /\ HeldDispatch(d)
    /\ \/ approvals[d].epoch # stopEpoch
       \/ approvals[d].state = "committed_held" /\ approvals[d].fences # fences
    /\ SetState(d, "stale")
    /\ UNCHANGED <<ledger, image, stopEpoch, fences, writes, settled, fresh, reloads>>

\* resume: the port gets the material; the receipt is recorded whatever it answers.
ResumeDispatch(d, outcome) ==
    /\ MayResume(d)
    /\ writes' = [writes EXCEPT ![d] = @ + 1]
    /\ ledger' = [ledger EXCEPT !.receipts[d] = outcome]
    /\ SetState(d, "dispatched")
    /\ UNCHANGED <<image, stopEpoch, fences, settled, fresh, reloads>>

\* validate: an identity is not both recorded and cancelled.
Consistent(l) == \A d \in l.cancelled : ~Written(l, d)

\* save: the owner of the ledger replaces the image; one that cannot be written stays.
SaveImage ==
    /\ Consistent(ledger)
    /\ image' = ledger
    /\ settled' = settled \cup ledger.cancelled \cup {d \in Dispatches : Written(ledger, d)}
    /\ UNCHANGED <<approvals, ledger, stopEpoch, fences, writes, fresh, reloads>>

\* restore: the receipts and the cancellations of an image.
Restored(l) == [receipts |-> l.receipts, cancelled |-> l.cancelled]

\* load and restart: the process ends, and a controller is rebuilt from the image alone.
RestartController ==
    /\ reloads < MaxReloads /\ Consistent(image)
    /\ ledger' = Restored(image)
    /\ approvals' = [d \in Dispatches |-> NotHeld(fences)]
    /\ stopEpoch' = 0 /\ fresh' = {} /\ reloads' = reloads + 1
    /\ UNCHANGED <<image, fences, writes, settled>>

\* An axis of the fences changes, or changes back.
FencesMove(f) ==
    /\ f # fences /\ fences' = f
    /\ UNCHANGED <<approvals, ledger, image, stopEpoch, writes, settled, fresh, reloads>>

PreparedNext ==
    \/ \E d \in Dispatches :
          \/ Draft(d) \/ Commit(d) \/ CancelDispatch(d) \/ ResumeRefused(d)
          \/ \E outcome \in WriteOutcomes : ResumeDispatch(d, outcome)
    \/ RequestStop \/ SaveImage \/ RestartController
    \/ \E f \in FenceValues : FencesMove(f)

PreparedSpec == PreparedInit /\ [][PreparedNext]_preparedVars

----------------------------------------------------------------------------
(* Properties.                                                             *)

PreparedTypeOK ==
    /\ approvals \in [Dispatches -> [state: DispatchStates \cup {"absent"}, fences: FenceValues,
                                     epoch: 0..MaxStops]]
    /\ ledger \in Ledgers /\ image \in Ledgers
    /\ stopEpoch \in 0..MaxStops /\ fences \in FenceValues
    /\ writes \in [Dispatches -> Nat]
    /\ settled \subseteq Dispatches /\ fresh \subseteq Dispatches
    /\ reloads \in 0..MaxReloads

\* Every image that can be saved can be restored, and its receipts are of writes that were
\* attempted.
ImageTrusted ==
    /\ Consistent(ledger) /\ Consistent(image)
    /\ \A d \in Dispatches : Written(ledger, d) \/ Written(image, d) => writes[d] > 0

\* A write is made of an approval that was given after the last request to stop, and never
\* of an identity the durable image has once recorded or cancelled ("the same approval can
\* never be dispatched twice", "a stop dominates a later resume").
ReleasedOnce ==
    [][\A d \in Dispatches : writes'[d] > writes[d] => d \in fresh \ settled]_preparedVars

\* The ledger and its image stay trustworthy over stops, cancellations and restarts, and
\* what they settle is released at most once.
PreparedSound == [](PreparedTypeOK /\ ImageTrusted) /\ ReleasedOnce
=============================================================================
