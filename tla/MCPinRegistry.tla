--------------------------- MODULE MCPinRegistry ---------------------------
(* Instances of PinRegistry for TLC. *)
EXTENDS PinRegistry, TLC

CONSTANTS h1, h2

MCHandlers == {h1, h2}
HandlerSymmetry == Permutations(MCHandlers)
=============================================================================
