------------------------------ MODULE Lookups ------------------------------
(***************************************************************************)
(* The three pure algorithms the builder's decisions rest on, asked about  *)
(* every small input: what a flavor consists of (Flavors), which asset a   *)
(* pattern names (Globs), when a harvest is worth a build (Reconcile).     *)
(* The inputs are made one table, character or repository at a time.       *)
(***************************************************************************)
EXTENDS Flavors, Globs, Reconcile

CONSTANTS
  FlavorNames, AssetLists,   \* what a [[flavor]] table may hold
  MaxTables,                 \* bound: the tables of a configuration
  Letters, MaxPattern, MaxText,
  Tags, FirstTag, RecipeRepo   \* tags; the recipe's at first, its repository

ASSUME BoundAssumption == {MaxTables, MaxPattern, MaxText} \subseteq Nat
ASSUME ListAssumption == \A list \in AssetLists : list \in Seq(ToSet(list))
(* GitHub has neither character in an owner or a name; git allows both in  *)
(* a tag.                                                                  *)
ASSUME RepoAssumption ==
  /\ Repos \subseteq Nat /\ RecipeRepo \in Repos
  /\ RepoName \in [Repos -> Seq(STRING)]
  /\ \A r \in Repos : {"=", ";"} \cap ToSet(RepoName[r]) = {}
  /\ \A q, r \in Repos : RepoName[q] = RepoName[r] => q = r
ASSUME TagAssumption == Tags \subseteq Seq(STRING) /\ FirstTag \in Tags
(* None is the value of anything. *)
ASSUME NoneAssumption ==
  /\ NoFlavor \notin FlavorNames
  /\ NoPosition \notin Nat
  /\ LET row == [repo : Repos, tag : Tags, fallback : BOOLEAN]
     IN NoManifest \notin [recipe : row, components : Seq(row)]

VARIABLES
  cfg,              \* Config.flavors
  pattern, text,    \* the arguments of glob_match
  recipe, harvest,  \* what the next manifest is made of: the recipe's tag
  last,             \* the manifest of the last build
  lastOf            \* ... and what it was made of

glob == <<pattern, text>>
harvests == <<recipe, harvest, last, lastOf>>
vars == <<cfg, glob, harvests>>

Init ==
  /\ cfg = <<>>
  /\ pattern = <<>> /\ text = <<>>
  /\ recipe = FirstTag /\ harvest = <<>>
  /\ last = NoManifest /\ lastOf = <<>>

AddTable(name, base, assets) ==
  /\ glob = <<<<>>, <<>>>> /\ harvest = <<>> /\ recipe = FirstTag
  /\ Len(cfg) < MaxTables
  /\ cfg' = Append(cfg, [name |-> name, extends |-> base, assets |-> assets])
  /\ UNCHANGED <<glob, harvests>>

AddToPattern(c) ==
  /\ cfg = <<>> /\ harvest = <<>> /\ recipe = FirstTag
  /\ Len(pattern) < MaxPattern /\ text = <<>>
  /\ pattern' = Append(pattern, c)
  /\ UNCHANGED <<cfg, text, harvests>>

AddToText(c) ==
  /\ cfg = <<>> /\ harvest = <<>> /\ recipe = FirstTag
  /\ Len(text) < MaxText
  /\ text' = Append(text, c)
  /\ UNCHANGED <<cfg, pattern, harvests>>

Harvest(r, tag, fallback) ==
  /\ cfg = <<>> /\ glob = <<<<>>, <<>>>>
  /\ harvest' = [q \in DOMAIN harvest \cup {r} |->
                   IF q = r THEN [tag |-> tag, fallback |-> fallback] ELSE harvest[q]]
  /\ UNCHANGED <<cfg, glob, recipe, last, lastOf>>

CommitRecipe(tag) ==
  /\ cfg = <<>> /\ glob = <<<<>>, <<>>>>
  /\ recipe' = tag
  /\ UNCHANGED <<cfg, glob, harvest, last, lastOf>>

ManifestOf(tag, h) == Manifest(Version(RecipeRepo, tag, FALSE), h)

Build ==
  /\ cfg = <<>> /\ glob = <<<<>>, <<>>>>
  /\ last' = ManifestOf(recipe, harvest)
  /\ lastOf' = <<recipe, harvest>>
  /\ UNCHANGED <<cfg, glob, recipe, harvest>>

Next ==
  \/ \E n \in FlavorNames, b \in FlavorNames \cup {NoFlavor}, as \in AssetLists :
       AddTable(n, b, as)
  \/ \E c \in Letters \cup {Star} : AddToPattern(c)
  \/ \E c \in Letters : AddToText(c)
  \/ \E r \in Repos, t \in Tags, fb \in BOOLEAN : Harvest(r, t, fb)
  \/ \E t \in Tags : CommitRecipe(t)
  \/ Build

Spec == Init /\ [][Next]_vars

-----------------------------------------------------------------------------
(* A flavor has each asset of the flavors its `extends` chain reaches, and *)
(* no other, once, whether or not the chain ends (config.rs: "de-duplicated*)
(* asset names ... Cycle-safe").                                           *)
ResolvesAll ==
  \A n \in FlavorNames :
    LET names == AssetNames(cfg, n) IN
    /\ ToSet(names) = UNION {ToSet(Flavor(cfg, m).assets) :
                               m \in {k \in Reached(cfg, n) : IsFlavor(cfg, k)}}
    /\ Cardinality(ToSet(names)) = Len(names)

(* README.md: "Flavors compose upward": what a flavor adds comes after all *)
(* there is in the flavor it extends, which a derived flavor never         *)
(* reorders; only in a cycle is there no such order.                       *)
ComposesUpward ==
  \A n \in FlavorNames :
    (IsFlavor(cfg, n) /\ n \notin Reached(cfg, Base(cfg, n)))
      => IsPrefix(AssetNames(cfg, Base(cfg, n)), AssetNames(cfg, n))

(* The scan that takes every inner part where it occurs first accepts      *)
(* exactly the names some choice of runs for the stars would accept.       *)
GlobExact == GlobMatch(pattern, text) <=> Agrees(pattern, text)

(* reconcile.rs: "did the manifest change?" is "should we build?": the     *)
(* same recipe, repositories and tags are never built twice in a row,      *)
(* however the tags were come by and in whatever order they were           *)
(* harvested; a change of any of them is built, unless some tag has a ';'  *)
(* in it, which the identity cannot tell from the end of a field.          *)
TagsOf(h) == {<<r, h[r].tag>> : r \in DOMAIN h}
Plain(tag, h) == \A t \in {tag} \cup {h[r].tag : r \in DOMAIN h} : ";" \notin ToSet(t)
BuildsOnChange ==
  LET builds == ChangedFrom(ManifestOf(recipe, harvest), last)
      same == /\ lastOf # <<>> /\ recipe = lastOf[1]
              /\ TagsOf(harvest) = TagsOf(lastOf[2])
      plain == lastOf = <<>> \/ (Plain(recipe, harvest) /\ Plain(lastOf[1], lastOf[2]))
  IN /\ builds => ~same
     /\ ~same /\ plain => builds
=============================================================================
