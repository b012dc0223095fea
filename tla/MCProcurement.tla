--------------------------- MODULE MCProcurement ---------------------------
(* The instances of Procurement TLC checks: see the .cfg files. *)
EXTENDS Procurement, TLC

CONSTANTS graph, peer

\* A primary that is bought, and a peer.
Pair == <<graph, peer>>

\* What they expect their sellers to ask: a dollar.
OneEach == [s \in Sources |-> 1]

\* The runs are interchangeable; used without liveness only.
RunSymmetry == Permutations(Runs)
=============================================================================
