---------------------------- MODULE DurableState ----------------------------
(***************************************************************************)
(* What App::read and App::mutate promise the job engine: a value that     *)
(* tasks see (current) and a value that a restart brings back (stored).    *)
(* Each is the set of the mutations applied to it.  A mutation is seen by  *)
(* nobody before it is stored, unless the save failed; the next save that  *)
(* succeeds stores it too.                                                 *)
(***************************************************************************)
CONSTANTS
  Mutations,   \* the calls of App::mutate
  IoErrors,    \* whether a save may fail
  ReadErrors   \* whether the file may be unreadable at a restart

VARIABLES current, stored

Init == current = {} /\ stored = {}

Commit(m) ==
  /\ current' = current \cup {m}
  /\ stored' = current'

(* The error is only logged. *)
CommitUnsaved(m) ==
  /\ IoErrors
  /\ current' = current \cup {m}
  /\ UNCHANGED stored

Restart == current' = stored /\ UNCHANGED stored

(* State::load falls back to the default. *)
StartEmpty == ReadErrors /\ current' = {} /\ UNCHANGED stored

Next ==
  \/ \E m \in Mutations : Commit(m) \/ CommitUnsaved(m)
  \/ Restart
  \/ StartEmpty

Spec == Init /\ [][Next]_<<current, stored>>
=============================================================================
