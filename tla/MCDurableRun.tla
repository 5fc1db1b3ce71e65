---------------------------- MODULE MCDurableRun ----------------------------
(* Small instances of a durable run for TLC.                               *)
EXTENDS DurableRun, TLC

CONSTANTS r1, e1, a1

Lineage1 == [run |-> r1, episode |-> e1, attempt |-> a1]

\* A decision, a screen the harness cannot name, an animation, a decision, and
\* the end of the game.
Game == <<"ready", "unknown", "blocked", "ready", "terminal">>
GameStage == [g \in 0..4 |-> Game[g + 1]]

RunBoundaries == 0..MaxGeneration
RunDecisions == 1..MaxSteps
RunResults == {"accepted", "settled", "rejected", "unknown", "terminal"}
Symmetry == Permutations(Operations)
=============================================================================
