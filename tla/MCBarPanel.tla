----------------------------- MODULE MCBarPanel -----------------------------
(* Instances of BarPanel for TLC. *)
EXTENDS BarPanel
=============================================================================
