--------------------------- MODULE MCEpochTrigger ---------------------------
(* Bounded instance of EpochTrigger: the constants come from the .cfg.       *)
EXTENDS EpochTrigger
=============================================================================
