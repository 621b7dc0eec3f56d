---------------------------- MODULE MCEpochClock ----------------------------
(* Finite instance of EpochClock: the constants come from the .cfg.          *)
EXTENDS EpochClock
=============================================================================
