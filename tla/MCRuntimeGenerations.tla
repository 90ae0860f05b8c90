----------------------- MODULE MCRuntimeGenerations -----------------------
(* The instance of RuntimeGenerations for TLC: MCRuntimeGenerations.cfg.   *)
EXTENDS RuntimeGenerations

===========================================================================
