---------------------------- MODULE MCImageJobs ----------------------------
(* Instances of ImageJobs for TLC. *)
EXTENDS ImageJobs, TLC

MCOffers == {{"text"}, {"png", "jpeg"}, {"svg", "text"}}
============================================================================
