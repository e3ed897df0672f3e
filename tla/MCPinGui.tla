------------------------------ MODULE MCPinGui ------------------------------
(* Instances of PinGui for TLC. *)
EXTENDS PinGui, TLC

CONSTANTS h1, h2

MCHandlers == {h1, h2}
HandlerSymmetry == Permutations(MCHandlers)
=============================================================================
