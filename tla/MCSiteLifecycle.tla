---------------------------- MODULE MCSiteLifecycle ----------------------------
(* Instances of SiteLifecycle for TLC. *)
EXTENDS SiteLifecycle, TLC

CONSTANTS t1, t2, t3, d1, d2, f1, x1, x2, a1, a2, none

\* Nothing but the sets they are in tells these values apart.
MCSymmetry == UNION {Permutations(S) : S \in {Trees, Deploys, Files, Archives, Admins}}
================================================================================
