------------------------------- MODULE MCCli --------------------------------
(***************************************************************************)
(* Cli on three edges, in every combination of drifted and converged.      *)
(***************************************************************************)
EXTENDS Cli
=============================================================================
