-------------------------- MODULE StateFileProofs --------------------------
(***************************************************************************)
(* StateFile implements DurableState, for any number of calls and crashes. *)
(***************************************************************************)
EXTENDS StateFile, TLAPS

(* The lock holder is alone, its mutation is in memory, what it renames is *)
(* the whole memory, and a call that waits has left no trace.              *)
Inv ==
  /\ TypeOK
  /\ \A m, n \in Mutations : pc[m] \in Saving /\ pc[n] \in Saving => m = n
  /\ \A m \in Mutations :
       /\ pc[m] \in Saving => m \in memory
       /\ pc[m] = "written" => tmp = Whole(memory)
       /\ pc[m] = "waiting" => m \notin memory /\ m \notin file.applied

LEMMA InvInit == Init => Inv
  BY CrashBoundAssumption DEF Init, Inv, TypeOK, NotWhole, Saving

LEMMA InvNext == Inv /\ [Next]_vars => Inv'
<1> SUFFICES ASSUME Inv, [Next]_vars PROVE Inv'
  OBVIOUS
<1> USE DEF Inv, TypeOK, Saving
<1>1. ASSUME NEW m \in Mutations, Mutate(m) PROVE Inv'
  BY <1>1 DEF Mutate, Goto, Locked
<1>2. ASSUME NEW m \in Mutations, OpenTmp(m) PROVE Inv'
  BY <1>2 DEF OpenTmp, Goto, NotWhole
<1>3. ASSUME NEW m \in Mutations, WriteTmp(m) PROVE Inv'
  BY <1>3 DEF WriteTmp, Goto, Whole
<1>4. ASSUME NEW m \in Mutations, Rename(m) PROVE Inv'
  BY <1>4 DEF Rename, Goto, Whole, NotWhole
<1>5. ASSUME NEW m \in Mutations, SaveFails(m) PROVE Inv'
  BY <1>5 DEF SaveFails
<1>6. CASE Crash
  BY <1>6 DEF Crash
<1>7. CASE UNCHANGED vars
  BY <1>7 DEF vars
<1> QED
  BY <1>1, <1>2, <1>3, <1>4, <1>5, <1>6, <1>7 DEF Next

(* Every reachable state is well typed. *)
THEOREM TypeCorrect == Spec => []TypeOK
<1>1. Inv => TypeOK
  BY DEF Inv
<1> QED
  BY <1>1, InvInit, InvNext, PTL DEF Spec

-----------------------------------------------------------------------------
(* Refinement                                                              *)

LEMMA InitRefines == Init => Durable!Init
  BY DEF Init, Durable!Init, Visible, NotWhole

(* The rename, or the failure of the save, is where a mutation happens;    *)
(* every other step of a call is a stutter.                                *)
LEMMA NextRefines ==
  Inv /\ [Next]_vars => [Durable!Next]_<<Visible, file.applied>>
<1> SUFFICES ASSUME Inv, [Next]_vars,
                    ~ UNCHANGED <<Visible, file.applied>>
             PROVE  Durable!Next
  OBVIOUS
<1> USE DEF Inv, TypeOK, Saving
<1>1. ASSUME NEW m \in Mutations, Mutate(m) PROVE FALSE
  BY <1>1 DEF Mutate, Goto, Visible, Locked
<1>2. ASSUME NEW m \in Mutations, OpenTmp(m) \/ WriteTmp(m) PROVE FALSE
  BY <1>2 DEF OpenTmp, WriteTmp, Goto, Visible
<1>3. ASSUME NEW m \in Mutations, Rename(m) PROVE Durable!Commit(m)
  <2>1. Visible' = memory /\ Visible \cup {m} = memory
    BY <1>3 DEF Rename, Goto, Visible
  <2>2. file'.applied = memory
    BY <1>3 DEF Rename, Goto, Whole
  <2> QED
    BY <2>1, <2>2 DEF Durable!Commit
<1>4. ASSUME NEW m \in Mutations, SaveFails(m) PROVE Durable!CommitUnsaved(m)
  <2>1. Visible' = memory /\ Visible \cup {m} = memory
    BY <1>4 DEF SaveFails, Visible
  <2> QED
    BY <2>1, <1>4 DEF SaveFails, Durable!CommitUnsaved
<1>5. CASE Crash
  <2>1. Visible' = memory'
    BY <1>5 DEF Crash, Visible
  <2> QED
    BY <1>5, <2>1 DEF Crash, Durable!Next, Durable!Restart, Durable!StartEmpty
<1>6. CASE UNCHANGED vars
  BY <1>6 DEF vars, Visible
<1> QED
  BY <1>1, <1>2, <1>3, <1>4, <1>5, <1>6 DEF Next, Durable!Next

(* App::mutate over State::save and State::load is DurableState: atomic to *)
(* readers, all or nothing on disk.                                        *)
THEOREM Refinement == Spec => IsDurableState
<1>1. Inv /\ [Next]_vars => [Durable!Next]_<<Visible, file.applied>>
  BY NextRefines
<1> QED
  BY InitRefines, InvInit, InvNext, <1>1, PTL
     DEF Spec, IsDurableState, Durable!Spec

-----------------------------------------------------------------------------
(* Nothing saved is ever lost                                              *)

(* No step takes out of the file a mutation the process knows of: what is  *)
(* written is all of memory, and a restart leaves the file alone.          *)
THEOREM SavedStay == Spec => SavedStaySaved
<1>1. Inv /\ [Next]_vars => [file.applied \cap memory \subseteq file'.applied]_vars
  <2> SUFFICES ASSUME Inv, Next
               PROVE  file.applied \cap memory \subseteq file'.applied
    OBVIOUS
  <2>1. ASSUME NEW m \in Mutations,
               Mutate(m) \/ OpenTmp(m) \/ WriteTmp(m) \/ SaveFails(m)
        PROVE  file' = file
    BY <2>1 DEF Mutate, OpenTmp, WriteTmp, SaveFails
  <2>2. ASSUME NEW m \in Mutations, Rename(m)
        PROVE  file'.applied = memory
    BY <2>2 DEF Rename, Goto, Whole, Inv
  <2>3. CASE Crash
    BY <2>3 DEF Crash
  <2> QED
    BY <2>1, <2>2, <2>3 DEF Next
<1> QED
  BY <1>1, InvInit, InvNext, PTL DEF Spec, SavedStaySaved

=============================================================================
