---------------------------- MODULE MCDeployStore ---------------------------
(* Three deploys of three generations; the ids are interchangeable. *)
EXTENDS DeployStore, TLC

MCGenerations == 1..3
Symmetry == Permutations(Deploys)
=============================================================================
