---------------------------- MODULE MCUtilities -----------------------------
(* The parts on small instances; their constants are in utilities.cfg.     *)
EXTENDS Utilities
INSTANCE Environments
=============================================================================
