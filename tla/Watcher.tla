------------------------------ MODULE Watcher ------------------------------
(***************************************************************************)
(* How a commit reaches an image: the watcher task of stormcos-builder     *)
(* (jobs.rs) polls the head of every component, records it in last_seen    *)
(* and spawns a build of each flavor concerned; a build reads the heads    *)
(* again, takes its release notes from last_seen, and writes last_seen     *)
(* itself when it succeeds (main.rs, jobs.rs).  Builds of any flavors run  *)
(* at once and may be asked for by hand as well.                           *)
(*                                                                         *)
(* The head of a component is the number of commits on its branch, a sha   *)
(* the number of its commit; 0 stands for none.  Components and flavors    *)
(* are gone through in any order, which covers each order of the           *)
(* configuration.  auto_build is on.  The builds themselves are those of   *)
(* BuildJobs; here they only succeed or fail.                              *)
(***************************************************************************)
EXTENDS Naturals

CONSTANTS
  Components,
  Flavors,
  NoFlavor,
  PartsOf,      \* flavor_components, the assets of a flavor (see Flavors)
  Tasks,        \* bound: the builds that may run at once
  MaxHead,      \* bound: the commits of each component
  MaxEvents     \* bound: builds asked for by hand, failed polls, failed
                \* builds and restarts

ASSUME PartsAssumption == PartsOf \in [Flavors -> SUBSET Components]
ASSUME NoFlavorAssumption == NoFlavor \notin Flavors
ASSUME BoundAssumption == /\ MaxHead \in [Components -> Nat]
                          /\ MaxEvents \in Nat

VARIABLES
  head,        \* GitHub: the newest commit of each branch
  seen,        \* State.last_seen
  released,    \* the newest commit any release of a flavor was built from
  stage,       \* where the watcher is in its round
  unpolled,    \* the components its round has still to poll
  found,       \* the head it has just polled: <<component, sha>>
  changed,     \* watcher: local `changed`
  unasked,     \* the flavors the round has still to look at
  pc, flavor,  \* where each build is, and its flavor (none of an idle task)
  unread,      \* compute_release_notes: the components still to read
  shas,        \* compute_release_notes: local `shas`
  events,
  dropped,     \* history: flavor and component whose build came to nothing
  preempted    \* history: ... whose change another flavor's build recorded

watch == <<stage, unpolled, found, changed, unasked>>
task == <<pc, flavor, unread, shas>>
history == <<dropped, preempted>>
vars == <<head, seen, released, watch, task, events, history>>

Nothing == [c \in Components |-> 0]

Init ==
  /\ head = [c \in Components |-> 1]
  /\ seen = Nothing
  /\ released = [f \in Flavors |-> Nothing]
  /\ stage = "asleep"
  /\ unpolled = {}
  /\ found = <<>>
  /\ changed = {}
  /\ unasked = {}
  /\ pc = [t \in Tasks |-> "idle"]
  /\ flavor = [t \in Tasks |-> NoFlavor]
  /\ unread = [t \in Tasks |-> {}]
  /\ shas = [t \in Tasks |-> Nothing]
  /\ events = 0
  /\ dropped = {}
  /\ preempted = {}

Event == events < MaxEvents /\ events' = events + 1
Assets == {p \in Flavors \X Components : p[2] \in PartsOf[p[1]]}
Pairs(f, cs) == {f} \X cs

-----------------------------------------------------------------------------
(* GitHub *)
Commit(c) ==
  /\ head[c] < MaxHead[c]
  /\ head' = [head EXCEPT ![c] = @ + 1]
  /\ UNCHANGED <<seen, released, watch, task, events, history>>

HeadSha(c) == head[c]

-----------------------------------------------------------------------------
(* watcher()                                                               *)

Wake ==
  /\ stage = "asleep"
  /\ stage' = "polling"
  /\ unpolled' = Components
  /\ UNCHANGED <<head, seen, released, found, changed, unasked, task,
                 events, history>>

(* head_sha *)
Poll(c) ==
  /\ stage = "polling" /\ c \in unpolled
  /\ stage' = "comparing"
  /\ unpolled' = unpolled \ {c}
  /\ found' = <<c, HeadSha(c)>>
  /\ UNCHANGED <<head, seen, released, changed, unasked, task, events, history>>

(* The comparison with last_seen, which a build may have written since. *)
Compare_KnownOnly ==
  /\ stage = "comparing"
  /\ IF seen[found[1]] \in {0, found[2]}
       THEN stage' = "polling" /\ found' = <<>>
       ELSE stage' = "recording" /\ UNCHANGED found
  /\ UNCHANGED <<head, seen, released, unpolled, changed, unasked, task,
                 events, history>>
Compare ==
  /\ stage = "comparing"
  /\ IF seen[found[1]] = found[2]
       THEN stage' = "polling" /\ found' = <<>>
       ELSE stage' = "recording" /\ UNCHANGED found
  /\ UNCHANGED <<head, seen, released, unpolled, changed, unasked, task,
                 events, history>>

(* A warning, no more. *)
PollFails(c) ==
  /\ stage = "polling" /\ c \in unpolled
  /\ Event
  /\ unpolled' = unpolled \ {c}
  /\ UNCHANGED <<head, seen, released, stage, found, changed, unasked, task, history>>

Record ==
  /\ stage = "recording"
  /\ stage' = "polling"
  /\ seen' = [seen EXCEPT ![found[1]] = found[2]]
  /\ found' = <<>>
  /\ changed' = changed \cup {found[1]}
  /\ UNCHANGED <<head, released, unpolled, unasked, task, events,
                 history>>

EndRound ==
  /\ stage = "polling" /\ unpolled = {}
  /\ IF changed = {}
       THEN stage' = "asleep" /\ UNCHANGED unasked
       ELSE stage' = "spawning" /\ unasked' = Flavors
  /\ UNCHANGED <<head, seen, released, unpolled, found, changed, task,
                 events, history>>

(* build() begins with the heads of the flavor's components. *)
Begin(t, f) ==
  /\ pc[t] = "idle"
  /\ pc' = [pc EXCEPT ![t] = "reading"]
  /\ flavor' = [flavor EXCEPT ![t] = f]
  /\ unread' = [unread EXCEPT ![t] = PartsOf[f]]
  /\ UNCHANGED shas

Spawn(f) ==
  /\ stage = "spawning" /\ f \in unasked
  /\ unasked' = unasked \ {f}
  /\ IF PartsOf[f] \cap changed = {}
       THEN UNCHANGED task
       ELSE \E t \in Tasks : Begin(t, f)
  /\ UNCHANGED <<head, seen, released, stage, unpolled, found, changed,
                 events, history>>

EndSpawn_KeepsChanged ==
  /\ stage = "spawning" /\ unasked = {}
  /\ stage' = "asleep"
  /\ UNCHANGED <<head, seen, released, unpolled, found, changed, unasked, task,
                 events, history>>
EndSpawn ==
  /\ stage = "spawning" /\ unasked = {}
  /\ stage' = "asleep"
  /\ changed' = {}
  /\ UNCHANGED <<head, seen, released, unpolled, found, unasked, task,
                 events, history>>

-----------------------------------------------------------------------------
(* compute_release_notes() and build()                                     *)

(* POST /flavors/{flavor}/build *)
Request(f) ==
  /\ Event
  /\ \E t \in Tasks : Begin(t, f)
  /\ UNCHANGED <<head, seen, released, watch, history>>

ReadHead(t, c) ==
  /\ pc[t] = "reading" /\ c \in unread[t]
  /\ pc' = [pc EXCEPT ![t] = "noting"]
  /\ shas' = [shas EXCEPT ![t][c] = HeadSha(c)]
  /\ UNCHANGED <<head, seen, released, watch, flavor, unread, events, history>>

(* "(poll failed)": the component is missing from the shas. *)
ReadHeadFails(t, c) ==
  /\ pc[t] = "reading" /\ c \in unread[t]
  /\ Event
  /\ unread' = [unread EXCEPT ![t] = @ \ {c}]
  /\ dropped' = dropped \cup {<<flavor[t], c>>}
  /\ UNCHANGED <<head, seen, released, watch, pc, flavor, shas,
                 preempted>>

(* The commits since last_seen go to the notes, whose text is left out. *)
ReadNotes(t, c) ==
  /\ pc[t] = "noting" /\ c \in unread[t] /\ shas[t][c] # 0
  /\ pc' = [pc EXCEPT ![t] = "reading"]
  /\ unread' = [unread EXCEPT ![t] = @ \ {c}]
  /\ UNCHANGED <<head, seen, released, watch, flavor, shas, events,
                 history>>

End_KeepsFlavor(t) ==
  /\ pc' = [pc EXCEPT ![t] = "idle"]
  /\ unread' = [unread EXCEPT ![t] = {}]
  /\ shas' = [shas EXCEPT ![t] = Nothing]
  /\ UNCHANGED flavor
End(t) ==
  /\ pc' = [pc EXCEPT ![t] = "idle"]
  /\ unread' = [unread EXCEPT ![t] = {}]
  /\ shas' = [shas EXCEPT ![t] = Nothing]
  /\ flavor' = [flavor EXCEPT ![t] = NoFlavor]

Read(t) == {c \in Components : shas[t][c] # 0}

(* The closing mutate of a build that succeeded: the release, and          *)
(* last_seen, whatever others have recorded there meanwhile.               *)
Register_CurrentHead(t) ==
  /\ pc[t] = "reading" /\ unread[t] = {}
  /\ LET f == flavor[t] IN
       /\ released' = [released EXCEPT ![f] =
            [c \in Components |-> IF shas[t][c] > released[f][c]
                                    THEN shas[t][c] ELSE released[f][c]]]
       /\ dropped' = dropped \ Pairs(f, Read(t))
       /\ preempted' =
            (preempted \ Pairs(f, Read(t)))
              \cup {p \in Assets : /\ p[1] # f /\ p[2] \in Read(t)
                                    /\ shas[t][p[2]] > seen[p[2]]}
  /\ seen' = [c \in Components |-> IF c \in Read(t) THEN head[c] ELSE seen[c]]
  /\ End(t)
  /\ UNCHANGED <<head, watch, events>>
Register(t) ==
  /\ pc[t] = "reading" /\ unread[t] = {}
  /\ LET f == flavor[t] IN
       /\ released' = [released EXCEPT ![f] =
            [c \in Components |-> IF shas[t][c] > released[f][c]
                                    THEN shas[t][c] ELSE released[f][c]]]
       /\ dropped' = dropped \ Pairs(f, Read(t))
       /\ preempted' =
            (preempted \ Pairs(f, Read(t)))
              \cup {p \in Assets : /\ p[1] # f /\ p[2] \in Read(t)
                                    /\ shas[t][p[2]] > seen[p[2]]}
  /\ seen' = [c \in Components |-> IF c \in Read(t) THEN shas[t][c] ELSE seen[c]]
  /\ End(t)
  /\ UNCHANGED <<head, watch, events>>

(* The closing mutate of a build that failed: last_seen stays. *)
BuildFails(t) ==
  /\ pc[t] = "reading" /\ unread[t] = {}
  /\ Event
  /\ dropped' = dropped \cup Pairs(flavor[t], PartsOf[flavor[t]])
  /\ End(t)
  /\ UNCHANGED <<head, seen, released, watch, preempted>>

-----------------------------------------------------------------------------
(* The round has to build f for c. *)
Owed(f, c) ==
  c \in changed /\ (stage # "spawning" \/ f \in unasked)

(* The service dies and is restarted with what last_seen holds. *)
Crash ==
  /\ Event
  /\ dropped' = dropped
       \cup {p \in Assets : Owed(p[1], p[2])}
       \cup UNION {Pairs(flavor[t], PartsOf[flavor[t]]) :
                     t \in {u \in Tasks : pc[u] # "idle"}}
  /\ stage' = "asleep"
  /\ unpolled' = {} /\ found' = <<>> /\ changed' = {} /\ unasked' = {}
  /\ pc' = [t \in Tasks |-> "idle"]
  /\ unread' = [t \in Tasks |-> {}]
  /\ shas' = [t \in Tasks |-> Nothing]
  /\ flavor' = [t \in Tasks |-> NoFlavor]
  /\ UNCHANGED <<head, seen, released, preempted>>

WatcherStep ==
  \/ Wake \/ Compare \/ Record \/ EndRound \/ EndSpawn
  \/ \E c \in Components : Poll(c) \/ PollFails(c)
  \/ \E f \in Flavors : Spawn(f)

TaskStep(t) ==
  \/ Register(t) \/ BuildFails(t)
  \/ \E c \in Components : ReadHead(t, c) \/ ReadHeadFails(t, c) \/ ReadNotes(t, c)

Next ==
  \/ \E c \in Components : Commit(c)
  \/ \E f \in Flavors : Request(f)
  \/ WatcherStep
  \/ \E t \in Tasks : TaskStep(t)
  \/ Crash

Spec == Init /\ [][Next]_vars

(* The runtime polls the watcher and every build; a timer fires, a request *)
(* to GitHub returns, a command ends.                                      *)
FairSpec == Spec /\ WF_vars(WatcherStep) /\ \A t \in Tasks : WF_vars(TaskStep(t))

-----------------------------------------------------------------------------
(* Properties                                                              *)

(* The type invariant. *)
TypeOK ==
  /\ head \in [Components -> Nat]
  /\ seen \in [Components -> Nat]
  /\ released \in [Flavors -> [Components -> Nat]]
  /\ stage \in {"asleep", "polling", "comparing", "recording", "spawning"}
  /\ unpolled \subseteq Components
  /\ IF stage \in {"comparing", "recording"}
       THEN found \in Components \X Nat ELSE found = <<>>
  /\ changed \subseteq Components
  /\ unasked \subseteq Flavors
  /\ pc \in [Tasks -> {"idle", "reading", "noting"}]
  /\ flavor \in [Tasks -> Flavors \cup {NoFlavor}]
  /\ \A t \in Tasks : pc[t] = "idle" <=> flavor[t] = NoFlavor
  /\ unread \in [Tasks -> SUBSET Components]
  /\ shas \in [Tasks -> [Components -> Nat]]
  /\ events \in Nat
  /\ dropped \subseteq Flavors \X Components
  /\ preempted \subseteq Flavors \X Components

(* A build of f is on its way whose release will have what last_seen says. *)
Coming(t, f, c) ==
  /\ pc[t] # "idle" /\ flavor[t] = f
  /\ \/ c \in unread[t] /\ shas[t][c] = 0
     \/ shas[t][c] >= seen[c] /\ shas[t][c] # 0

(* What last_seen has of an asset is what the watcher will not build       *)
(* again.  So for each flavor with the asset it is in a release, or the    *)
(* watcher's round or a running build has still to bring it there, however *)
(* rounds, builds and late writes of last_seen overlap.  Two things are    *)
(* excepted, and nothing else: a poll, a build or the service failed       *)
(* (`dropped`), or a build of another flavor recorded the commit before    *)
(* the watcher had seen it (`preempted`); in both cases the flavor waits   *)
(* for the next commit.                                                    *)
ChangeOwned ==
  \A f \in Flavors : \A c \in PartsOf[f] :
    \/ released[f][c] >= seen[c]
    \/ Owed(f, c)
    \/ \E t \in Tasks : Coming(t, f, c)
    \/ <<f, c>> \in dropped \cup preempted

(* Rebuilding stops when commits do: although a build that ends late puts  *)
(* older shas back into last_seen, which starts further builds, in the end *)
(* nothing is built and last_seen has the heads.                           *)
Settles == <>[](/\ \A t \in Tasks : pc[t] = "idle"
                /\ seen = head)

(* README.md: "A change to any asset rebuilds every flavor that includes   *)
(* it", with the two exceptions of ChangeOwned: in the end the newest      *)
(* commit is in a release of each flavor with the asset.                   *)
ChangeReleased ==
  <>[](\A f \in Flavors : \A c \in PartsOf[f] :
         released[f][c] = head[c] \/ <<f, c>> \in dropped \cup preempted)

-----------------------------------------------------------------------------
(* What README.md says, and the code does not do.                          *)

(* The newest commit of c any release was built from. *)
LastBuilt(c, h) == \E f \in Flavors : released[f][c] >= h

(* "Release notes are generated from each asset's commits since the last   *)
(* build": the commit they start after, last_seen, is one that was built.  *)
NotesSinceLastBuild ==
  [][\A t \in Tasks, c \in Components :
       ReadNotes(t, c) => seen[c] = 0 \/ LastBuilt(c, seen[c])]_vars

=============================================================================
