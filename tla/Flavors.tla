------------------------------ MODULE Flavors ------------------------------
(***************************************************************************)
(* What a flavor consists of (config.rs): flavors compose upward through   *)
(* `extends`, and each adds assets to those of the flavor it extends.  A   *)
(* configuration is the sequence of its [[flavor]] tables; nothing checks  *)
(* that names are unique, that a base exists, or that the chain ends.      *)
(***************************************************************************)
EXTENDS Naturals, SequencesExt

CONSTANT NoFlavor   \* extends of a flavor without a base

(* Config::flavor: the first table of that name. *)
IsFlavor(cfg, name) == \E i \in DOMAIN cfg : cfg[i].name = name
Flavor(cfg, name) == cfg[SelectInSeq(cfg, LAMBDA f : f.name = name)]

NamesIn(cfg) == {cfg[i].name : i \in DOMAIN cfg} \cup {cfg[i].extends : i \in DOMAIN cfg}

(* The frames of resolve_assets that come to adding assets, innermost      *)
(* first: a name that is on the chain already, or that is no flavor,       *)
(* returns before.                                                         *)
Layers_DerivedFirst(cfg, name) ==
  LET names == NamesIn(cfg) \cup {name}
      walk[at \in names \X SUBSET names] ==
        LET n == at[1]
            chain == at[2]
        IN IF n \in chain \/ ~IsFlavor(cfg, n) THEN <<>>
           ELSE <<n>> \o (IF Flavor(cfg, n).extends = NoFlavor THEN <<>>
                          ELSE walk[<<Flavor(cfg, n).extends, chain \cup {n}>>])
  IN walk[<<name, {}>>]
Layers(cfg, name) ==
  LET names == NamesIn(cfg) \cup {name}
      walk[at \in names \X SUBSET names] ==
        LET n == at[1]
            chain == at[2]
        IN IF n \in chain \/ ~IsFlavor(cfg, n) THEN <<>>
           ELSE (IF Flavor(cfg, n).extends = NoFlavor THEN <<>>
                 ELSE walk[<<Flavor(cfg, n).extends, chain \cup {n}>>]) \o <<n>>
  IN walk[<<name, {}>>]

(* flavor_asset_names: each asset where it comes first. *)
AddMissing_Always(out, a) == Append(out, a)
AddMissing(out, a) == IF Contains(out, a) THEN out ELSE Append(out, a)
AssetNames(cfg, name) ==
  FoldLeft(LAMBDA out, n : FoldLeft(AddMissing, out, Flavor(cfg, n).assets),
           <<>>, Layers(cfg, name))

-----------------------------------------------------------------------------
(* The reference: the names reached through `extends`.                     *)
Reached(cfg, name) ==
  CHOOSE S \in SUBSET (NamesIn(cfg) \cup {name}) :
    LET closed(T) ==
          /\ name \in T
          /\ \A n \in T : IsFlavor(cfg, n) => Flavor(cfg, n).extends \in T \cup {NoFlavor}
    IN closed(S) /\ \A T \in SUBSET S : closed(T) => T = S

Base(cfg, name) == Flavor(cfg, name).extends
=============================================================================
