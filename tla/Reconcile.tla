----------------------------- MODULE Reconcile -----------------------------
(***************************************************************************)
(* When the reconciler builds (reconcile.rs): the manifest of a harvest,   *)
(* its identity, and the comparison with the last one built.  A harvest    *)
(* maps repositories to the version taken, a tag and whether it was the    *)
(* fallback to an earlier release; a repository is a number, in the order  *)
(* of the names.  Names, tags and identities are sequences of characters,  *)
(* since an identity puts names and tags together without marking what of  *)
(* it was theirs.                                                          *)
(***************************************************************************)
EXTENDS Naturals, SequencesExt, FiniteSets

CONSTANTS
  Repos,
  RepoName,     \* the characters of "owner/name"
  NoManifest    \* nothing was built yet

(* sort_by: numbers in ascending order. *)
Sorted(S) ==
  CHOOSE r \in [1 .. Cardinality(S) -> S] :
    \A i, j \in 1 .. Cardinality(S) : i < j => r[i] < r[j]

(* ComponentVersion *)
Version(r, t, fb) == [repo |-> r, tag |-> t, fallback |-> fb]

(* Manifest::new: the rows sorted by repository. *)
Manifest(recipe, harvested) ==
  [recipe |-> recipe,
   components |->
     LET row(r) == Version(r, harvested[r].tag, harvested[r].fallback)
         repos == Sorted(DOMAIN harvested)
     IN [i \in DOMAIN repos |-> row(repos[i])]]

(* What of a row goes into the identity: repo=tag. *)
Field_WithFallback(v) ==
  RepoName[v.repo] \o <<"=">> \o v.tag \o (IF v.fallback THEN <<"!">> ELSE <<>>)
Field(v) == RepoName[v.repo] \o <<"=">> \o v.tag

(* Manifest::identity: the fields, the recipe's first, a ';' between them. *)
Identity(m) ==
  FoldLeft(LAMBDA s, v : s \o <<";">> \o Field(v), Field(m.recipe), m.components)

(* Manifest::changed_from *)
ChangedFrom(m, last) == last = NoManifest \/ Identity(m) # Identity(last)
=============================================================================
