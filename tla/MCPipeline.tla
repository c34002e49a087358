---------------------------- MODULE MCPipeline ----------------------------
(* Small instances of Pipeline for TLC. *)
EXTENDS Pipeline, TLC

CONSTANTS b1, b2, rustkube, fastetcd, kubelet, proxy, pause

(* One RPM with two binaries. *)
TwoBinaries == [a \in Agents |-> {kubelet, proxy}]

(* The agent has a release, the image not yet. *)
AgentReleased == [c \in Components |-> IF c = rustkube THEN 1 ELSE 0]

(* Each component is released once after what was staged by hand. *)
OneRelease == [c \in Components |-> 1]

SymmetryBuilds == Permutations(Builds) \cup Permutations({kubelet, proxy})
=============================================================================
