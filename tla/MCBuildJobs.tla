---------------------------- MODULE MCBuildJobs ----------------------------
(* Small instances of BuildJobs for TLC. *)
EXTENDS BuildJobs, TLC

CONSTANTS b1, b2, b3, node, edition

(* Every build is of the flavor "node". *)
OneFlavor == [b \in Builds |-> node]

(* The first build is of a flavor of its own. *)
TwoFlavors == [b \in Builds |-> IF b = b1 THEN edition ELSE node]

(* Builds of one flavor are interchangeable. *)
SymmetryAll == Permutations(Builds)
SymmetryRest == Permutations(Builds \ {b1})
=============================================================================
