---------------------------- MODULE MCHostDeploy ----------------------------
(* Instances of HostDeploy for TLC: the deploy ids are model values. *)
EXTENDS HostDeploy, TLC

CONSTANTS d1, d2, d3

\* The deploy ids that are not singled out by a cfg.
Interchangeable == Permutations({d2, d3})
=============================================================================
