----------------------------- MODULE Retention -----------------------------
(***************************************************************************)
(* The promise of keep_releases: of the releases of a flavor, the newest   *)
(* Keep stay on offer, record and image; an older one may be withdrawn at  *)
(* any time, any number of them at once; with Keep = 0 none ever is.       *)
(* BuildJobs implements this with sweeps and prunes that act on snapshots. *)
(***************************************************************************)
EXTENDS Naturals, FiniteSets

CONSTANTS
  Builds, FlavorOf,
  Keep              \* cfg.keep_releases

VARIABLES
  created,    \* the second a release was made in
  position,   \* the order they were made in, 0 before
  offered     \* the releases that can be had

vars == <<created, position, offered>>

Made == {b \in Builds : position[b] # 0}

Newer(q, r) ==
  \/ created[q] > created[r]
  \/ created[q] = created[r] /\ position[q] < position[r]

Old(r) ==
  Cardinality({q \in Made : FlavorOf[q] = FlavorOf[r] /\ Newer(q, r)}) >= Keep

Init ==
  /\ created = [b \in Builds |-> 0]
  /\ position = [b \in Builds |-> 0]
  /\ offered = {}

(* Made in some second, and after all others. *)
Offer(r) ==
  /\ r \notin Made
  /\ created' = [created EXCEPT ![r] = created'[r]]
  /\ position' = [position EXCEPT ![r] = position'[r]]
  /\ \A q \in Builds : position[q] < position'[r]
  /\ offered' = offered \cup {r}

Withdraw ==
  /\ Keep # 0
  /\ \E gone \in SUBSET offered :
       /\ \A r \in gone : Old(r)
       /\ offered' = offered \ gone
  /\ UNCHANGED <<created, position>>

Next == Withdraw \/ \E r \in Builds : Offer(r)

Spec == Init /\ [][Next]_vars

=============================================================================
