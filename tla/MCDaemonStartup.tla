-------------------------- MODULE MCDaemonStartup --------------------------
(* Instances of DaemonStartup for TLC. *)
EXTENDS DaemonStartup
=============================================================================
