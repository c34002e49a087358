----------------------------- MODULE StateFile -----------------------------
(***************************************************************************)
(* App::mutate with State::save and State::load (main.rs, model.rs): under *)
(* the write lock the state is changed in memory, serialised whole into    *)
(* state.json.tmp, and renamed over state.json.  Any step of the save may  *)
(* fail, and the process may die between any two.                          *)
(*                                                                         *)
(* The state is the set of the mutations applied to it, each call of       *)
(* App::mutate being a mutation of its own.  A file is whole or not: one   *)
(* that is missing or truncated does not parse.                            *)
(***************************************************************************)
EXTENDS Naturals

CONSTANTS
  Mutations,   \* the calls of App::mutate
  IoErrors,    \* whether create_dir_all, write or rename may fail
  ReadErrors,  \* whether State::load may fail to read a whole file
  MaxCrashes   \* bound: the restarts of the service

ASSUME CrashBoundAssumption == MaxCrashes \in Nat

VARIABLES
  memory,   \* the State behind the RwLock
  file,     \* state.json
  tmp,      \* state.json.tmp
  crashes,
  pc        \* where each call is; the lock is held from "mutated" to "written"

vars == <<memory, file, tmp, crashes, pc>>

NotWhole == [whole |-> FALSE, applied |-> {}]
Whole(s) == [whole |-> TRUE, applied |-> s]
Saving == {"mutated", "writing", "written"}
Locked == \E m \in Mutations : pc[m] \in Saving

Init ==
  /\ memory = {}
  /\ file = NotWhole
  /\ tmp = NotWhole
  /\ crashes = 0
  /\ pc = [m \in Mutations |-> "waiting"]

Goto(m, from, to) == pc[m] = from /\ pc' = [pc EXCEPT ![m] = to]

(* The write lock is granted and the closure runs. *)
Mutate_Unlocked(m) ==
  /\ Goto(m, "waiting", "mutated")
  /\ memory' = memory \cup {m}
  /\ UNCHANGED <<file, tmp, crashes>>
Mutate(m) ==
  /\ Goto(m, "waiting", "mutated")
  /\ ~Locked
  /\ memory' = memory \cup {m}
  /\ UNCHANGED <<file, tmp, crashes>>

(* std::fs::write creates or truncates the temporary file ... *)
OpenTmp_InPlace(m) ==
  /\ Goto(m, "mutated", "writing")
  /\ tmp' = NotWhole
  /\ file' = NotWhole
  /\ UNCHANGED <<memory, crashes>>
OpenTmp(m) ==
  /\ Goto(m, "mutated", "writing")
  /\ tmp' = NotWhole
  /\ UNCHANGED <<memory, file, crashes>>

(* ... and fills it with the serialised state. *)
WriteTmp(m) ==
  /\ Goto(m, "writing", "written")
  /\ tmp' = Whole(memory)
  /\ UNCHANGED <<memory, file, crashes>>

(* The rename; the guard is dropped and the call returns. *)
Rename(m) ==
  /\ Goto(m, "written", "done")
  /\ file' = tmp
  /\ tmp' = NotWhole
  /\ UNCHANGED <<memory, crashes>>

(* Any step of the save fails: mutate logs it, drops the guard, returns. *)
SaveFails(m) ==
  /\ IoErrors
  /\ pc[m] \in Saving
  /\ pc' = [pc EXCEPT ![m] = "done"]
  /\ UNCHANGED <<memory, file, tmp, crashes>>

(* The process dies; State::load parses the file or starts from scratch.   *)
(* A call that waits is one the next process makes.                        *)
Crash ==
  /\ crashes < MaxCrashes
  /\ crashes' = crashes + 1
  /\ pc' = [m \in Mutations |-> IF pc[m] \in Saving THEN "dead" ELSE pc[m]]
  /\ \/ memory' = file.applied
     \/ ReadErrors /\ memory' = {}
  /\ UNCHANGED <<file, tmp>>

Next ==
  \/ \E m \in Mutations :
       Mutate(m) \/ OpenTmp(m) \/ WriteTmp(m) \/ Rename(m) \/ SaveFails(m)
  \/ Crash

Spec == Init /\ [][Next]_vars

-----------------------------------------------------------------------------
(* Properties                                                              *)

(* The type invariant: each variable has its type. *)
TypeOK ==
  /\ memory \subseteq Mutations
  /\ file \in [whole : BOOLEAN, applied : SUBSET Mutations]
  /\ tmp \in [whole : BOOLEAN, applied : SUBSET Mutations]
  /\ crashes \in Nat
  /\ pc \in [Mutations -> Saving \cup {"waiting", "done", "dead"}]

(* A save never takes out of the file a mutation the process knows of: no  *)
(* later save, failed save or crash loses what was saved, save what an     *)
(* unreadable file hid from the process that writes over it.               *)
SavedStaySaved == [][file.applied \cap memory \subseteq file'.applied]_vars

(* Readers wait while the lock is held, so what they see does not yet have *)
(* the mutation whose save is under way.                                   *)
Visible == {m \in memory : pc[m] \notin Saving}

(* mutate, save and load implement DurableState: a reader never sees a     *)
(* mutation before it is stored or its save has failed, a restart brings   *)
(* back exactly what was stored, and a half-written file is never loaded.  *)
Durable == INSTANCE DurableState WITH current <- Visible, stored <- file.applied
IsDurableState == Durable!Spec
=============================================================================
