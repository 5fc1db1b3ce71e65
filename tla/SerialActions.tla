--------------------------- MODULE SerialActions ---------------------------
(***************************************************************************)
(* What a durable episode promises about its actions: they are applied one *)
(* at a time, each at most once, and an outcome is recorded only when it   *)
(* is the true one and never changes afterwards.  An action whose outcome  *)
(* cannot be learned stays open, and nothing is begun after it.            *)
(***************************************************************************)
CONSTANT Operations

VARIABLES effect,    \* operation -> its outcome in the game
          recorded   \* operation -> what the harness has recorded of it

serialVars == <<effect, recorded>>

Outcomes == {"applied", "refused"}

Init ==
  /\ effect = [o \in Operations |-> "none"]
  /\ recorded = [o \in Operations |-> "none"]

\* A new action is begun when no earlier one is open.
Begin(o) ==
  /\ recorded[o] = "none"
  /\ \A x \in Operations : recorded[x] # "open"
  /\ recorded' = [recorded EXCEPT ![o] = "open"]
  /\ UNCHANGED effect

\* Only the open action takes effect or is refused, once.
TakeEffect(o, outcome) ==
  /\ recorded[o] = "open"
  /\ effect[o] = "none"
  /\ effect' = [effect EXCEPT ![o] = outcome]
  /\ UNCHANGED recorded

\* The outcome is learned.
Learn(o) ==
  /\ recorded[o] = "open"
  /\ effect[o] \in Outcomes
  /\ recorded' = [recorded EXCEPT ![o] = effect[o]]
  /\ UNCHANGED effect

Next ==
  \E o \in Operations :
    Begin(o) \/ Learn(o) \/ \E outcome \in Outcomes : TakeEffect(o, outcome)

Spec == Init /\ [][Next]_serialVars
=============================================================================
