--------------------------- MODULE MCClusterJobs ---------------------------
(* Small instances of ClusterJobs for TLC. *)
EXTENDS ClusterJobs

CONSTANTS t0, t1, t2, dev1, r1, r2

(* Every request is about the same name. *)
OneName == [t \in Tasks |-> dev1]

(* Before the requests t1 and t2, t0 has provisioned the name with r1,     *)
(* which passed its QA, or deleted it and there is nothing: any two jobs   *)
(* of the name may then overlap.                                           *)
MCInit ==
  \E r \in {r1, NoRelease} :
    /\ releases = {r} \ {NoRelease}
    /\ image = [x \in Releases |-> IF x = r THEN "done" ELSE "unbuilt"]
    /\ cluster = [n \in Names |->
         IF r = r1 THEN [phase |-> "ready", release |-> r] ELSE NoRecord]
    /\ vm = [n \in Names |-> r]
    /\ log = [n \in Names |-> r = r1]
    /\ report = [x \in Releases \cup {NoRelease} |->
         IF x = r1 /\ r = r1 THEN "pass" ELSE "none"]
    /\ pc = [t \in Tasks |-> IF t = t0 THEN "done" ELSE "idle"]
    /\ job = [t \in Tasks |-> IF t = t0 /\ r # r1 THEN "delete" ELSE "provision"]
    /\ rel = [t \in Tasks |-> IF t = t0 THEN r ELSE NoRelease]
    /\ found = [t \in Tasks |-> t = t0 /\ r = r1]
    /\ verdict = [t \in Tasks |-> IF t = t0 /\ r = r1 THEN "pass" ELSE "none"]
    /\ tombstoned = {} /\ faulty = {} /\ crashes = 0

MCSpec == MCInit /\ [][Next]_vars /\ \A t \in Tasks : WF_vars(TaskStep(t))
=============================================================================
