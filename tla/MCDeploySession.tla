--------------------------- MODULE MCDeploySession ---------------------------
(* Instances of DeploySession for TLC: who deploys what. *)
EXTENDS DeploySession

CONSTANTS d1, alice, bob

OneOwner == [d \in DeployIds |-> alice]
TwoOwners == [d \in DeployIds |-> IF d = d1 THEN alice ELSE bob]
==============================================================================
