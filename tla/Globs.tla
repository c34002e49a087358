------------------------------- MODULE Globs -------------------------------
(***************************************************************************)
(* The matching of release asset names (github.rs `glob_match`), by which  *)
(* latest_release_asset picks the asset to harvest: `*` in the pattern     *)
(* stands for any run of characters.  Text is a sequence of characters.    *)
(***************************************************************************)
EXTENDS Naturals, SequencesExt

CONSTANTS
  Star,
  NoPosition   \* the scan has returned false

(* pattern.split('*'): as many parts as stars, and one more. *)
Split(p) ==
  FoldLeft(LAMBDA parts, c :
             IF c = Star THEN Append(parts, <<>>)
             ELSE [parts EXCEPT ![Len(parts)] = Append(@, c)],
           << <<>> >>, p)

(* str::find: how much of s is before the first occurrence of part. *)
Occurrences(part, s) == {k \in 0 .. Len(s) - Len(part) :
                           SubSeq(s, k + 1, k + Len(part)) = part}
From(s, pos) == SubSeq(s, pos + 1, Len(s))

(* Each inner part is taken where it occurs first, the last at the end.    *)
Find_Once(s, pos, part) ==
  IF pos = NoPosition \/ Occurrences(part, s) = {} THEN NoPosition
  ELSE (CHOOSE k \in Occurrences(part, s) : \A l \in Occurrences(part, s) : k <= l)
         + Len(part)
Find(s, pos, part) ==
  IF pos = NoPosition THEN NoPosition
  ELSE LET at == Occurrences(part, From(s, pos)) IN
       IF at = {} THEN NoPosition
       ELSE pos + (CHOOSE k \in at : \A l \in at : k <= l) + Len(part)

GlobMatch(p, s) ==
  LET parts == Split(p)
      first == Head(parts)
      inner == SubSeq(parts, 2, Len(parts) - 1)
  IN IF Len(parts) = 1 THEN p = s
     ELSE /\ IsPrefix(first, s)
          /\ LET pos == FoldLeft(LAMBDA q, part : Find(s, q, part), Len(first), inner)
             IN pos # NoPosition /\ IsSuffix(Last(parts), From(s, pos))

-----------------------------------------------------------------------------
(* The reference: p and s agree from these places on, where a star takes   *)
(* nothing or one more character.                                          *)
Agrees(p, s) ==
  LET m[at \in (1 .. Len(p) + 1) \X (1 .. Len(s) + 1)] ==
        LET i == at[1]
            j == at[2]
        IN IF i > Len(p) THEN j > Len(s)
           ELSE IF p[i] = Star THEN m[<<i + 1, j>>] \/ (j <= Len(s) /\ m[<<i, j + 1>>])
           ELSE j <= Len(s) /\ p[i] = s[j] /\ m[<<i + 1, j + 1>>]
  IN m[<<1, 1>>]
=============================================================================
