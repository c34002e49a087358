----------------------------- MODULE MCWatcher -----------------------------
(* Small instances of Watcher for TLC. *)
EXTENDS Watcher

CONSTANTS b1, b2, fastetcd, rustkube, base, node

(* fastetcd moves on, rustkube stays. *)
OneMoves == [c \in Components |-> IF c = fastetcd THEN 2 ELSE 1]

(* `node` extends `base`: a commit to fastetcd concerns both. *)
Layered == [f \in Flavors |-> IF f = base THEN {fastetcd} ELSE {fastetcd, rustkube}]
=============================================================================
