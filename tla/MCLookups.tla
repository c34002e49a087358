----------------------------- MODULE MCLookups -----------------------------
(* Small inputs of Lookups for TLC. *)
EXTENDS Lookups

(* The lists that overlap, in both orders. *)
Lists == {<<"stormblock">>, <<"rustkube", "stormblock">>, <<"rustkube", "cadvisor">>}

(* Names of which one is the beginning of another. *)
Names == <<<<"a">>, <<"a", "b">>, <<"b">>>>

(* A tag, one with a separator in it, and one that looks like a tag and a  *)
(* field.                                                                  *)
OneTag == <<"v">>
TwoFields == OneTag \o <<";">> \o Names[3] \o <<"=">> \o OneTag
SomeTags == {OneTag, <<"v", "=">>, TwoFields}

(* What BuildsOnChange excepts there is: two harvests that differ and have *)
(* one identity (reconcile.rs:66, nothing is escaped).                     *)
ASSUME Collision ==
  LET v(t) == [tag |-> t, fallback |-> FALSE]
      one == 2 :> v(TwoFields)
      two == 2 :> v(OneTag) @@ 3 :> v(OneTag)
  IN Identity(ManifestOf(OneTag, one)) = Identity(ManifestOf(OneTag, two))
=============================================================================
