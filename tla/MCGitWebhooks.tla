---------------------------- MODULE MCGitWebhooks ----------------------------
(* Processes and deliveries for the run of GitWebhooks.                    *)
EXTENDS GitWebhooks, TLC

CONSTANTS i1, i2, r1, r2

\* The push reaches two workspaces, the deletion the first of them.
MCFanout == [p |-> 2, d |-> 1]

Symmetry == Permutations({i1, i2}) \cup Permutations({r1, r2})
=============================================================================
