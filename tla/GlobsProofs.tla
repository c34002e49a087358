---------------------------- MODULE GlobsProofs ----------------------------
(***************************************************************************)
(* The scan of glob_match, which takes every inner part of the pattern     *)
(* where it occurs first and never comes back, accepts what its reference  *)
(* accepts: for every pattern and name, of any length, over any alphabet.  *)
(***************************************************************************)
EXTENDS Globs, Induction, SequenceTheorems

-----------------------------------------------------------------------------
(* The reference's recursion is one: its function satisfies its equation.  *)

Places(p, s) == (1 .. Len(p) + 1) \X (1 .. Len(s) + 1)

AgreesFrom(p, s, m, i, j) ==
  IF i > Len(p) THEN j > Len(s)
  ELSE IF p[i] = Star THEN m[<<i + 1, j>>] \/ (j <= Len(s) /\ m[<<i, j + 1>>])
  ELSE j <= Len(s) /\ p[i] = s[j] /\ m[<<i + 1, j + 1>>]

(* How far a place is from the ends. *)
Left(p, s, i, j) == (Len(p) + 1 - i) + (Len(s) + 1 - j)

SolvedTo(k, p, s, m) ==
  /\ m \in [Places(p, s) -> BOOLEAN]
  /\ \A i \in 1 .. Len(p) + 1, j \in 1 .. Len(s) + 1 :
       Left(p, s, i, j) <= k => (m[<<i, j>>] <=> AgreesFrom(p, s, m, i, j))

LEMMA PlacesNext ==
  ASSUME NEW C, NEW p \in Seq(C), NEW s \in Seq(C),
         NEW i \in 1 .. Len(p) + 1, NEW j \in 1 .. Len(s) + 1
  PROVE  /\ Len(p) \in Nat /\ Len(s) \in Nat /\ i \in Nat /\ j \in Nat
         /\ Left(p, s, i, j) \in 0 .. Len(p) + Len(s)
         /\ i <= Len(p) => /\ i + 1 \in 1 .. Len(p) + 1
                           /\ Left(p, s, i + 1, j) < Left(p, s, i, j)
         /\ j <= Len(s) => /\ j + 1 \in 1 .. Len(s) + 1
                           /\ Left(p, s, i, j + 1) < Left(p, s, i, j)
         /\ i <= Len(p) /\ j <= Len(s) => Left(p, s, i + 1, j + 1) < Left(p, s, i, j)
<1>1. Len(p) \in Nat /\ Len(s) \in Nat /\ i \in Nat /\ j \in Nat
  OBVIOUS
<1> QED
  BY <1>1 DEF Left

(* Two tables that agree nearer the ends say the same of a place. *)
LEMMA AgreesFromNext ==
  ASSUME NEW C, NEW p \in Seq(C), NEW s \in Seq(C),
         NEW i \in 1 .. Len(p) + 1, NEW j \in 1 .. Len(s) + 1, NEW m, NEW n,
         \A x \in 1 .. Len(p) + 1, y \in 1 .. Len(s) + 1 :
           Left(p, s, x, y) < Left(p, s, i, j) => (m[<<x, y>>] <=> n[<<x, y>>])
  PROVE  AgreesFrom(p, s, m, i, j) <=> AgreesFrom(p, s, n, i, j)
<1>1. CASE i > Len(p)
  BY <1>1 DEF AgreesFrom
<1>2. CASE ~(i > Len(p)) /\ p[i] = Star
  <2>1. m[<<i + 1, j>>] <=> n[<<i + 1, j>>]
    <3>1. /\ i + 1 \in 1 .. Len(p) + 1
          /\ Left(p, s, i + 1, j) < Left(p, s, i, j)
      BY <1>2, PlacesNext
    <3> QED
      BY <3>1
  <2>2. j <= Len(s) => (m[<<i, j + 1>>] <=> n[<<i, j + 1>>])
    <3>1. j <= Len(s) => /\ j + 1 \in 1 .. Len(s) + 1
                         /\ Left(p, s, i, j + 1) < Left(p, s, i, j)
      BY PlacesNext
    <3> QED
      BY <3>1
  <2> QED
    BY <1>2, <2>1, <2>2 DEF AgreesFrom
<1>3. CASE ~(i > Len(p)) /\ p[i] # Star
  <2>1. j <= Len(s) => (m[<<i + 1, j + 1>>] <=> n[<<i + 1, j + 1>>])
    <3>1. j <= Len(s) => /\ i + 1 \in 1 .. Len(p) + 1 /\ j + 1 \in 1 .. Len(s) + 1
                         /\ Left(p, s, i + 1, j + 1) < Left(p, s, i, j)
      BY <1>3, PlacesNext
    <3> QED
      BY <3>1
  <2> QED
    BY <1>3, <2>1 DEF AgreesFrom
<1> QED
  BY <1>1, <1>2, <1>3

LEMMA AgreesFromType ==
  ASSUME NEW p, NEW s, NEW m, NEW i, NEW j
  PROVE  AgreesFrom(p, s, m, i, j) \in BOOLEAN
<1>1. CASE i > Len(p)
  BY <1>1 DEF AgreesFrom
<1>2. CASE ~(i > Len(p)) /\ p[i] = Star
  BY <1>2 DEF AgreesFrom
<1>3. CASE ~(i > Len(p)) /\ p[i] # Star
  BY <1>3 DEF AgreesFrom
<1> QED
  BY <1>1, <1>2, <1>3

LEMMA TableExists ==
  ASSUME NEW C, NEW p \in Seq(C), NEW s \in Seq(C)
  PROVE  \E m : SolvedTo(Len(p) + Len(s), p, s, m)
<1> DEFINE N == Len(p) + Len(s)
           Solved(k) == \E m : SolvedTo(k, p, s, m)
           T == {k \in Nat : ~Solved(k)}
<1>0. N \in Nat
  OBVIOUS
<1>1. SUFFICES ASSUME T # {} PROVE FALSE
  <2> HIDE DEF Solved
  <2>1. Solved(N)
    BY <1>0, <1>1
  <2> QED
    BY <2>1 DEF Solved
<1>2. PICK k \in T : \A l \in T : k <= l
  <2>1. T \subseteq Nat
    OBVIOUS
  <2> QED
    BY <1>1, <2>1, LeastNat
<1>3. k \in Nat /\ ~Solved(k)
  OBVIOUS
<1> DEFINE Table(m) == [d \in Places(p, s) |->
                          IF Left(p, s, d[1], d[2]) < k THEN m[d]
                          ELSE AgreesFrom(p, s, m, d[1], d[2])]
<1>4. PICK m : /\ m \in [Places(p, s) -> BOOLEAN]
               /\ k # 0 => SolvedTo(k - 1, p, s, m)
  <2>1. CASE k = 0
    <3>1. [d \in Places(p, s) |-> TRUE] \in [Places(p, s) -> BOOLEAN]
      OBVIOUS
    <3> QED
      BY <2>1, <3>1
  <2>2. CASE k # 0
    <3>1. k - 1 \in Nat /\ k - 1 < k
      BY <1>3, <2>2
    <3>2. Solved(k - 1)
      <4> HIDE DEF Solved
      <4> QED
        BY <1>2, <1>3, <3>1
    <3>3. PICK m : SolvedTo(k - 1, p, s, m)
      BY <3>2
    <3> QED
      BY <3>3 DEF SolvedTo
  <2> QED
    BY <2>1, <2>2
<1>5. \A i \in 1 .. Len(p) + 1, j \in 1 .. Len(s) + 1 :
        AgreesFrom(p, s, m, i, j) \in BOOLEAN
  BY AgreesFromType
<1> DEFINE n == Table(m)
<1>6. n \in [Places(p, s) -> BOOLEAN]
  <2>1. \A d \in Places(p, s) : d[1] \in 1 .. Len(p) + 1 /\ d[2] \in 1 .. Len(s) + 1
    BY DEF Places
  <2> HIDE DEF Places
  <2> QED
    BY <1>4, <1>5, <2>1
<1>7. \A i \in 1 .. Len(p) + 1, j \in 1 .. Len(s) + 1 :
        n[<<i, j>>] = IF Left(p, s, i, j) < k THEN m[<<i, j>>]
                      ELSE AgreesFrom(p, s, m, i, j)
  BY DEF Places
<1> HIDE DEF n
<1>8. ASSUME NEW i \in 1 .. Len(p) + 1, NEW j \in 1 .. Len(s) + 1,
             Left(p, s, i, j) <= k
      PROVE  n[<<i, j>>] <=> AgreesFrom(p, s, n, i, j)
  <2>1. Left(p, s, i, j) \in Nat
    BY PlacesNext
  <2>2. \A x \in 1 .. Len(p) + 1, y \in 1 .. Len(s) + 1 :
          Left(p, s, x, y) < Left(p, s, i, j) => n[<<x, y>>] = m[<<x, y>>]
    <3> SUFFICES ASSUME NEW x \in 1 .. Len(p) + 1, NEW y \in 1 .. Len(s) + 1,
                        Left(p, s, x, y) < Left(p, s, i, j)
                 PROVE  n[<<x, y>>] = m[<<x, y>>]
      OBVIOUS
    <3>1. Left(p, s, x, y) \in Nat
      BY PlacesNext
    <3>2. Left(p, s, x, y) < k
      BY <1>3, <1>8, <2>1, <3>1
    <3> QED
      BY <1>7, <3>2
  <2>3. AgreesFrom(p, s, n, i, j) <=> AgreesFrom(p, s, m, i, j)
    BY <2>2, AgreesFromNext
  <2>4. CASE Left(p, s, i, j) < k
    <3>1. k # 0 /\ Left(p, s, i, j) <= k - 1
      BY <1>3, <2>1, <2>4
    <3>2. m[<<i, j>>] <=> AgreesFrom(p, s, m, i, j)
      BY <1>4, <3>1 DEF SolvedTo
    <3>3. n[<<i, j>>] = m[<<i, j>>]
      BY <1>7, <2>4
    <3> QED
      BY <2>3, <3>2, <3>3
  <2>5. CASE ~(Left(p, s, i, j) < k)
    <3>1. n[<<i, j>>] = AgreesFrom(p, s, m, i, j)
      BY <1>7, <2>5
    <3> QED
      BY <2>3, <3>1
  <2> QED
    BY <2>4, <2>5
<1>9. SolvedTo(k, p, s, n)
  BY <1>6, <1>8 DEF SolvedTo
<1> QED
  BY <1>3, <1>9

(* What Agrees looks up, and where. *)
LEMMA AgreesTable ==
  ASSUME NEW C, NEW p \in Seq(C), NEW s \in Seq(C)
  PROVE  \E m : /\ SolvedTo(Len(p) + Len(s), p, s, m)
                /\ Agrees(p, s) <=> m[<<1, 1>>]
<1> DEFINE F(m) == [at \in Places(p, s) |-> AgreesFrom(p, s, m, at[1], at[2])]
           M == CHOOSE m : m = F(m)
<1>1. Agrees(p, s) = M[<<1, 1>>]
  BY DEF Agrees, AgreesFrom, Places
<1>2. PICK m : SolvedTo(Len(p) + Len(s), p, s, m)
  BY TableExists
<1>3. \A d \in Places(p, s) : /\ d[1] \in 1 .. Len(p) + 1
                              /\ d[2] \in 1 .. Len(s) + 1
                              /\ d = <<d[1], d[2]>>
  BY DEF Places
<1>4. m = F(m)
  <2>1. m \in [Places(p, s) -> BOOLEAN]
    BY <1>2 DEF SolvedTo
  <2>2. \A d \in Places(p, s) : m[d] = AgreesFrom(p, s, m, d[1], d[2])
    <3> SUFFICES ASSUME NEW d \in Places(p, s)
                 PROVE  m[d] = AgreesFrom(p, s, m, d[1], d[2])
      OBVIOUS
    <3>1. Left(p, s, d[1], d[2]) <= Len(p) + Len(s)
      <4>1. \A i \in 1 .. Len(p) + 1, j \in 1 .. Len(s) + 1 :
              Left(p, s, i, j) <= Len(p) + Len(s)
        BY PlacesNext
      <4> QED
        BY <1>3, <4>1
    <3>2. m[<<d[1], d[2]>>] <=> AgreesFrom(p, s, m, d[1], d[2])
      BY <1>2, <1>3, <3>1 DEF SolvedTo
    <3>3. m[d] \in BOOLEAN /\ AgreesFrom(p, s, m, d[1], d[2]) \in BOOLEAN
      BY <2>1, AgreesFromType
    <3>4. d = <<d[1], d[2]>>
      BY <1>3
    <3> HIDE DEF Places
    <3>5. m[d] <=> AgreesFrom(p, s, m, d[1], d[2])
      BY <3>2, <3>4
    <3> QED
      BY <3>3, <3>5
  <2> QED
    BY <2>1, <2>2
<1>5. M = F(M)
  <2> HIDE DEF F
  <2> QED
    BY <1>4
<1>6. \A d \in Places(p, s) : AgreesFrom(p, s, M, d[1], d[2]) \in BOOLEAN
  BY AgreesFromType
<1>7. M \in [Places(p, s) -> BOOLEAN]
  <2> HIDE DEF M
  <2> QED
    BY <1>5, <1>6
<1>8. ASSUME NEW i \in 1 .. Len(p) + 1, NEW j \in 1 .. Len(s) + 1
      PROVE  M[<<i, j>>] <=> AgreesFrom(p, s, M, i, j)
  <2> HIDE DEF M
  <2>1. <<i, j>> \in Places(p, s)
    BY DEF Places
  <2> QED
    BY <1>5, <2>1
<1>9. SolvedTo(Len(p) + Len(s), p, s, M)
  BY <1>7, <1>8 DEF SolvedTo
<1> QED
  BY <1>1, <1>9

-----------------------------------------------------------------------------
(* What the table says of an end, a star, and a run of other characters.   *)

FollowsRules(p, s, m) ==
  \A i \in 1 .. Len(p) + 1, j \in 1 .. Len(s) + 1 :
    /\ i = Len(p) + 1 => (m[<<i, j>>] <=> j = Len(s) + 1)
    /\ i <= Len(p) /\ p[i] = Star =>
         (m[<<i, j>>] <=> m[<<i + 1, j>>] \/ (j <= Len(s) /\ m[<<i, j + 1>>]))
    /\ i <= Len(p) /\ p[i] # Star =>
         (m[<<i, j>>] <=> j <= Len(s) /\ p[i] = s[j] /\ m[<<i + 1, j + 1>>])

LEMMA AgreesByRules ==
  ASSUME NEW C, NEW p \in Seq(C), NEW s \in Seq(C)
  PROVE  \E m : FollowsRules(p, s, m) /\ (Agrees(p, s) <=> m[<<1, 1>>])
<1>1. PICK m : /\ SolvedTo(Len(p) + Len(s), p, s, m)
               /\ Agrees(p, s) <=> m[<<1, 1>>]
  BY AgreesTable
<1>2. ASSUME NEW i \in 1 .. Len(p) + 1, NEW j \in 1 .. Len(s) + 1
      PROVE  /\ i = Len(p) + 1 => (m[<<i, j>>] <=> j = Len(s) + 1)
             /\ i <= Len(p) /\ p[i] = Star =>
                  (m[<<i, j>>] <=> m[<<i + 1, j>>] \/ (j <= Len(s) /\ m[<<i, j + 1>>]))
             /\ i <= Len(p) /\ p[i] # Star =>
                  (m[<<i, j>>] <=> j <= Len(s) /\ p[i] = s[j] /\ m[<<i + 1, j + 1>>])
  <2>1. m[<<i, j>>] <=> AgreesFrom(p, s, m, i, j)
    BY <1>1, PlacesNext DEF SolvedTo
  <2>2. /\ i \in Nat /\ j \in Nat /\ Len(p) \in Nat /\ Len(s) \in Nat
        /\ i <= Len(p) + 1 /\ j <= Len(s) + 1
    BY PlacesNext
  <2>3. ASSUME i = Len(p) + 1 PROVE m[<<i, j>>] <=> j = Len(s) + 1
    BY <2>1, <2>2, <2>3 DEF AgreesFrom
  <2>4. ASSUME i <= Len(p), p[i] = Star
        PROVE  m[<<i, j>>] <=> m[<<i + 1, j>>] \/ (j <= Len(s) /\ m[<<i, j + 1>>])
    BY <2>1, <2>2, <2>4 DEF AgreesFrom
  <2>5. ASSUME i <= Len(p), p[i] # Star
        PROVE  m[<<i, j>>] <=> j <= Len(s) /\ p[i] = s[j] /\ m[<<i + 1, j + 1>>]
    BY <2>1, <2>2, <2>5 DEF AgreesFrom
  <2> QED
    BY <2>3, <2>4, <2>5
<1> QED
  BY <1>1, <1>2 DEF FollowsRules

(* A star takes any number of characters. *)
LEMMA StarTakesAny ==
  ASSUME NEW C, NEW p \in Seq(C), NEW s \in Seq(C), NEW m, FollowsRules(p, s, m),
         NEW i \in 1 .. Len(p), p[i] = Star, NEW j \in 1 .. Len(s) + 1
  PROVE  m[<<i, j>>] <=> \E k \in j .. Len(s) + 1 : m[<<i + 1, k>>]
<1> DEFINE Further(y) == m[<<i, y>>] <=> \E k \in y .. Len(s) + 1 : m[<<i + 1, k>>]
           G == {d \in 0 .. Len(s) : Further(Len(s) + 1 - d)}
<1>1. Len(s) \in Nat /\ Len(p) \in Nat /\ i \in 1 .. Len(p) + 1 /\ i <= Len(p)
  OBVIOUS
<1>2. \A y \in 1 .. Len(s) + 1 :
        m[<<i, y>>] <=> m[<<i + 1, y>>] \/ (y <= Len(s) /\ m[<<i, y + 1>>])
  BY <1>1 DEF FollowsRules
<1>3. 0 \in G
  <2>1. Further(Len(s) + 1)
    <3>1. Len(s) + 1 \in 1 .. Len(s) + 1 /\ ~(Len(s) + 1 <= Len(s))
      BY <1>1
    <3>2. \A k : k \in Len(s) + 1 .. Len(s) + 1 <=> k = Len(s) + 1
      BY <1>1
    <3> QED
      BY <1>2, <3>1, <3>2
  <2> HIDE DEF Further
  <2> QED
    BY <1>1, <2>1
<1>4. ASSUME NEW d \in 0 .. Len(s), d + 1 <= Len(s), d \in G
      PROVE  d + 1 \in G
  <2> DEFINE y == Len(s) + 1 - (d + 1)
  <2>1. y \in 1 .. Len(s) + 1 /\ y + 1 = Len(s) + 1 - d /\ y <= Len(s) /\ d + 1 \in 0 .. Len(s)
    BY <1>1, <1>4
  <2>2. Further(y + 1)
    <3> HIDE DEF Further
    <3> QED
      BY <1>4, <2>1
  <2>3. \A k : k \in y .. Len(s) + 1 <=> k = y \/ k \in y + 1 .. Len(s) + 1
    BY <1>1, <2>1
  <2> HIDE DEF y
  <2>4. Further(y)
    BY <1>2, <2>1, <2>2, <2>3
  <2> HIDE DEF Further
  <2> QED
    BY <2>1, <2>4 DEF y
<1>5. \A d \in 0 .. Len(s) : d \in G
  <2> HIDE DEF G
  <2> QED
    BY <1>1, <1>3, <1>4, UpTo
<1> DEFINE d == Len(s) + 1 - j
<1>6. d \in 0 .. Len(s) /\ Len(s) + 1 - d = j
  BY <1>1
<1> HIDE DEF d
<1>7. Further(Len(s) + 1 - d)
  <2> HIDE DEF Further
  <2> QED
    BY <1>5, <1>6
<1> QED
  BY <1>6, <1>7

(* w is what s has from j on. *)
FitsAt(w, s, j) ==
  /\ j + Len(w) <= Len(s) + 1
  /\ \A q \in 1 .. Len(w) : s[j + q - 1] = w[q]

(* ... and from i on the pattern has w, in which there is no star. *)
RunAt(w, p, i) == FitsAt(w, p, i) /\ \A q \in 1 .. Len(w) : w[q] # Star

LEMMA RunTakesItself ==
  ASSUME NEW C, NEW p \in Seq(C), NEW s \in Seq(C), NEW m, FollowsRules(p, s, m),
         NEW w \in Seq(C), NEW i \in 1 .. Len(p) + 1, NEW j \in 1 .. Len(s) + 1,
         RunAt(w, p, i)
  PROVE  m[<<i, j>>] <=> FitsAt(w, s, j) /\ m[<<i + Len(w), j + Len(w)>>]
<1> DEFINE Took(r) == m[<<i, j>>] <=> /\ j + r <= Len(s) + 1
                                      /\ \A q \in 1 .. r : s[j + q - 1] = w[q]
                                      /\ m[<<i + r, j + r>>]
           G == {r \in 0 .. Len(w) : Took(r)}
<1>1. /\ Len(s) \in Nat /\ Len(p) \in Nat /\ Len(w) \in Nat
      /\ i \in Nat /\ j \in Nat /\ j >= 1 /\ i >= 1 /\ j <= Len(s) + 1
      /\ i + Len(w) <= Len(p) + 1
  BY DEF RunAt, FitsAt
<1>2. 0 \in G
  <2>1. Took(0)
    <3>1. i + 0 = i /\ j + 0 = j /\ j + 0 <= Len(s) + 1
      BY <1>1
    <3>2. \A q \in 1 .. 0 : s[j + q - 1] = w[q]
      OBVIOUS
    <3> QED
      BY <3>1, <3>2
  <2> HIDE DEF Took
  <2> QED
    BY <1>1, <2>1
<1>3. ASSUME NEW r \in 0 .. Len(w), r + 1 <= Len(w), r \in G
      PROVE  r + 1 \in G
  <2>1. /\ i + r \in 1 .. Len(p) + 1 /\ i + r <= Len(p)
        /\ r + 1 \in 0 .. Len(w) /\ r + 1 \in 1 .. Len(w)
        /\ i + (r + 1) - 1 = i + r /\ j + (r + 1) - 1 = j + r
        /\ (i + r) + 1 = i + (r + 1) /\ (j + r) + 1 = j + (r + 1)
        /\ j + r <= Len(s) <=> j + (r + 1) <= Len(s) + 1
        /\ j + r <= Len(s) => j + r <= Len(s) + 1
        /\ j + r <= Len(s) + 1 => j + r \in 1 .. Len(s) + 1
    BY <1>1, <1>3
  <2>2. p[i + r] = w[r + 1] /\ p[i + r] # Star
    BY <2>1 DEF RunAt, FitsAt
  <2>3. j + r <= Len(s) + 1 =>
          (m[<<i + r, j + r>>] <=>
             j + r <= Len(s) /\ w[r + 1] = s[j + r] /\ m[<<i + (r + 1), j + (r + 1)>>])
    <3> SUFFICES ASSUME j + r <= Len(s) + 1
                 PROVE  m[<<i + r, j + r>>] <=>
                          j + r <= Len(s) /\ w[r + 1] = s[j + r] /\ m[<<i + (r + 1), j + (r + 1)>>]
      OBVIOUS
    <3>1. j + r \in 1 .. Len(s) + 1
      BY <2>1
    <3>2. m[<<i + r, j + r>>] <=>
            j + r <= Len(s) /\ p[i + r] = s[j + r] /\ m[<<(i + r) + 1, (j + r) + 1>>]
      BY <2>1, <2>2, <3>1 DEF FollowsRules
    <3> QED
      BY <2>1, <2>2, <3>2
  <2>4. (\A q \in 1 .. r + 1 : s[j + q - 1] = w[q]) <=>
          (\A q \in 1 .. r : s[j + q - 1] = w[q]) /\ s[j + r] = w[r + 1]
    <3>1. \A q : q \in 1 .. r + 1 <=> q \in 1 .. r \/ q = r + 1
      OBVIOUS
    <3> QED
      BY <2>1, <3>1
  <2>5. Took(r)
    BY <1>3
  <2>6. Took(r + 1)
    <3>1. CASE j + r <= Len(s)
      BY <2>1, <2>3, <2>4, <2>5, <3>1
    <3>2. CASE ~(j + r <= Len(s))
      BY <2>1, <2>3, <2>5, <3>2
    <3> QED
      BY <3>1, <3>2
  <2> HIDE DEF Took
  <2> QED
    BY <2>1, <2>6
<1>4. \A r \in 0 .. Len(w) : r \in G
  <2> HIDE DEF G
  <2> QED
    BY <1>1, <1>2, <1>3, UpTo
<1>5. Took(Len(w))
  <2> HIDE DEF Took
  <2>1. Len(w) \in 0 .. Len(w)
    BY <1>1
  <2> QED
    BY <1>4, <2>1
<1> QED
  BY <1>5 DEF FitsAt

-----------------------------------------------------------------------------
(* What Split returns: runs of the pattern, a star between each two.       *)

(* The parts of the first k characters, where they start. *)
PartsOf(C, p, k, parts, starts) ==
  /\ parts \in Seq(Seq(C)) /\ Len(parts) # 0
  /\ starts \in Seq(Nat) /\ Len(starts) = Len(parts)
  /\ starts[1] = 1
  /\ \A t \in 1 .. Len(parts) :
       starts[t] \in 1 .. k + 1 /\ RunAt(parts[t], p, starts[t])
  /\ \A t \in 1 .. Len(parts) - 1 :
       /\ starts[t] + Len(parts[t]) \in 1 .. k
       /\ p[starts[t] + Len(parts[t])] = Star
       /\ starts[t + 1] = starts[t] + Len(parts[t]) + 1
  /\ starts[Len(parts)] + Len(parts[Len(parts)]) = k + 1

LEMMA PartsOfNone ==
  ASSUME NEW C, NEW p \in Seq(C)
  PROVE  PartsOf(C, p, 0, << <<>> >>, << 1 >>)
BY DEF PartsOf, RunAt, FitsAt

LEMMA PartsOfStar ==
  ASSUME NEW C, NEW p \in Seq(C), NEW k \in 0 .. Len(p) - 1, p[k + 1] = Star,
         NEW parts, NEW starts, PartsOf(C, p, k, parts, starts)
  PROVE  PartsOf(C, p, k + 1, Append(parts, <<>>), Append(starts, k + 2))
<1> DEFINE n == Len(parts)
           parts_ == Append(parts, <<>>)
           starts_ == Append(starts, k + 2)
<1>1. /\ n \in Nat /\ n # 0 /\ Len(p) \in Nat /\ k \in Nat /\ k + 1 <= Len(p)
      /\ parts \in Seq(Seq(C)) /\ starts \in Seq(Nat) /\ Len(starts) = n
      /\ n \in 1 .. n
  BY DEF PartsOf
<1>2. \A t \in 1 .. n : /\ parts[t] \in Seq(C) /\ Len(parts[t]) \in Nat
                        /\ starts[t] \in 1 .. k + 1 /\ RunAt(parts[t], p, starts[t])
  BY <1>1 DEF PartsOf
<1>3. /\ parts_ \in Seq(Seq(C)) /\ Len(parts_) = n + 1
      /\ \A t \in 1 .. n : parts_[t] = parts[t] /\ starts_[t] = starts[t]
      /\ parts_[n + 1] = <<>> /\ starts_[n + 1] = k + 2
      /\ starts_ \in Seq(Nat) /\ Len(starts_) = n + 1
  <2>1. <<>> \in Seq(C) /\ k + 2 \in Nat
    BY <1>1
  <2> QED
    BY <1>1, <2>1
<1> HIDE DEF parts_, starts_
<1>4. RunAt(<<>>, p, k + 2)
  <2>1. Len(<<>>) = 0 /\ 1 .. 0 = {} /\ (k + 2) + 0 <= Len(p) + 1
    BY <1>1
  <2> QED
    BY <2>1 DEF RunAt, FitsAt
<1>5. ASSUME NEW t \in 1 .. n + 1
      PROVE  starts_[t] \in 1 .. (k + 1) + 1 /\ RunAt(parts_[t], p, starts_[t])
  <2>1. CASE t = n + 1
    <3>1. starts_[t] = k + 2 /\ parts_[t] = <<>>
      BY <1>3, <2>1
    <3>2. k + 2 \in 1 .. (k + 1) + 1
      BY <1>1
    <3> QED
      BY <1>4, <3>1, <3>2
  <2>2. CASE t # n + 1
    <3>1. t \in 1 .. n /\ 1 .. k + 1 \subseteq 1 .. (k + 1) + 1
      BY <1>1, <2>2
    <3> QED
      BY <1>2, <1>3, <3>1
  <2> QED
    BY <2>1, <2>2
<1>6. ASSUME NEW t \in 1 .. n
      PROVE  /\ starts_[t] + Len(parts_[t]) \in 1 .. k + 1
             /\ p[starts_[t] + Len(parts_[t])] = Star
             /\ starts_[t + 1] = starts_[t] + Len(parts_[t]) + 1
  <2>1. CASE t = n
    <3>1. starts[n] + Len(parts[n]) = k + 1
      BY DEF PartsOf
    <3>2. starts_[t] + Len(parts_[t]) = k + 1 /\ starts_[t + 1] = k + 2
      BY <1>1, <1>3, <2>1, <3>1
    <3> QED
      BY <1>1, <3>2
  <2>2. CASE t # n
    <3>1. t \in 1 .. n - 1 /\ t + 1 \in 1 .. n /\ 1 .. k \subseteq 1 .. k + 1
      BY <1>1, <2>2
    <3>2. /\ starts[t] + Len(parts[t]) \in 1 .. k
          /\ p[starts[t] + Len(parts[t])] = Star
          /\ starts[t + 1] = starts[t] + Len(parts[t]) + 1
      BY <3>1 DEF PartsOf
    <3>3. starts_[t] = starts[t] /\ parts_[t] = parts[t] /\ starts_[t + 1] = starts[t + 1]
      BY <1>3, <3>1
    <3> QED
      BY <3>1, <3>2, <3>3
  <2> QED
    BY <2>1, <2>2
<1>7. starts_[1] = 1
  <2>1. 1 \in 1 .. n /\ starts[1] = 1
    BY <1>1 DEF PartsOf
  <2> QED
    BY <1>3, <2>1
<1>8. starts_[n + 1] + Len(parts_[n + 1]) = (k + 1) + 1
  BY <1>1, <1>3
<1>9. (n + 1) - 1 = n /\ n + 1 # 0
  BY <1>1
<1>10. PartsOf(C, p, k + 1, parts_, starts_)
  BY <1>3, <1>5, <1>6, <1>7, <1>8, <1>9 DEF PartsOf
<1> QED
  BY <1>10 DEF parts_, starts_

LEMMA PartsOfOther ==
  ASSUME NEW C, NEW p \in Seq(C), NEW k \in 0 .. Len(p) - 1, p[k + 1] # Star,
         NEW parts, NEW starts, PartsOf(C, p, k, parts, starts)
  PROVE  PartsOf(C, p, k + 1,
                 [parts EXCEPT ![Len(parts)] = Append(@, p[k + 1])], starts)
<1> DEFINE n == Len(parts)
           last == Append(parts[n], p[k + 1])
           parts_ == [parts EXCEPT ![n] = last]
<1>1. /\ n \in Nat /\ n # 0 /\ Len(p) \in Nat /\ k \in Nat /\ k + 1 \in 1 .. Len(p)
      /\ parts \in Seq(Seq(C)) /\ starts \in Seq(Nat) /\ Len(starts) = n
      /\ n \in 1 .. n
  BY DEF PartsOf
<1>2. /\ parts[n] \in Seq(C) /\ p[k + 1] \in C /\ starts[n] \in 1 .. k + 1
      /\ starts[n] + Len(parts[n]) = k + 1
      /\ RunAt(parts[n], p, starts[n])
  BY <1>1 DEF PartsOf
<1>3. /\ last \in Seq(C) /\ Len(last) = Len(parts[n]) + 1
      /\ \A q \in 1 .. Len(parts[n]) : last[q] = parts[n][q]
      /\ last[Len(parts[n]) + 1] = p[k + 1]
      /\ Len(parts[n]) \in Nat
  BY <1>2
<1> HIDE DEF last
<1>4. RunAt(last, p, starts[n])
  <2>1. starts[n] + Len(last) <= Len(p) + 1
    BY <1>1, <1>2, <1>3
  <2>2. ASSUME NEW q \in 1 .. Len(last)
        PROVE  p[starts[n] + q - 1] = last[q] /\ last[q] # Star
    <3>1. CASE q = Len(last)
      <4>1. starts[n] + q - 1 = k + 1
        BY <1>1, <1>2, <1>3, <3>1
      <4> QED
        BY <1>3, <3>1, <4>1
    <3>2. CASE q # Len(last)
      <4>1. q \in 1 .. Len(parts[n])
        BY <1>3, <3>2
      <4> QED
        BY <1>2, <1>3, <4>1 DEF RunAt, FitsAt
    <3> QED
      BY <3>1, <3>2
  <2> QED
    BY <2>1, <2>2 DEF RunAt, FitsAt
<1>5. /\ parts_ \in Seq(Seq(C)) /\ Len(parts_) = n /\ parts_[n] = last
      /\ \A t \in 1 .. n - 1 : parts_[t] = parts[t]
  BY <1>1, <1>3
<1> HIDE DEF parts_
<1>6. ASSUME NEW t \in 1 .. n
      PROVE  starts[t] \in 1 .. (k + 1) + 1 /\ RunAt(parts_[t], p, starts[t])
  <2>0. 1 .. k + 1 \subseteq 1 .. (k + 1) + 1
    BY <1>1
  <2>1. CASE t = n
    BY <1>2, <1>4, <1>5, <2>0, <2>1
  <2>2. CASE t # n
    <3>1. t \in 1 .. n - 1
      BY <1>1, <2>2
    <3> QED
      BY <1>5, <2>0, <3>1 DEF PartsOf
  <2> QED
    BY <2>1, <2>2
<1>7. ASSUME NEW t \in 1 .. n - 1
      PROVE  /\ starts[t] + Len(parts_[t]) \in 1 .. k + 1
             /\ p[starts[t] + Len(parts_[t])] = Star
             /\ starts[t + 1] = starts[t] + Len(parts_[t]) + 1
  <2>1. /\ starts[t] + Len(parts[t]) \in 1 .. k
        /\ p[starts[t] + Len(parts[t])] = Star
        /\ starts[t + 1] = starts[t] + Len(parts[t]) + 1
    BY DEF PartsOf
  <2>2. parts_[t] = parts[t]
    BY <1>5
  <2>3. 1 .. k \subseteq 1 .. k + 1
    BY <1>1
  <2> QED
    BY <2>1, <2>2, <2>3
<1>8. starts[n] + Len(parts_[n]) = (k + 1) + 1
  <2>1. Len(parts_[n]) = Len(parts[n]) + 1 /\ starts[n] \in Nat
    BY <1>1, <1>2, <1>3, <1>5
  <2>2. \A a, b \in Nat : a + b = k + 1 => a + (b + 1) = (k + 1) + 1
    BY <1>1
  <2> QED
    BY <1>2, <1>3, <2>1, <2>2
<1>9. starts[1] = 1
  BY DEF PartsOf
<1>10. PartsOf(C, p, k + 1, parts_, starts)
  BY <1>1, <1>5, <1>6, <1>7, <1>8, <1>9 DEF PartsOf
<1> QED
  BY <1>10 DEF parts_, last

LEMMA SplitIntoParts ==
  ASSUME NEW C, NEW p \in Seq(C)
  PROVE  \E starts : PartsOf(C, p, Len(p), Split(p), starts)
<1> DEFINE n == Len(p)
           V == {parts \in Seq(Seq(C)) : Len(parts) # 0}
           Step(parts, k) == IF p[k] = Star THEN Append(parts, <<>>)
                             ELSE [parts EXCEPT ![Len(parts)] = Append(@, p[k])]
           E(iter) == [ks \in SUBSET (DOMAIN p) |->
                         IF ks = {} THEN << <<>> >> ELSE Step(iter[ks \ {Max(ks)}], Max(ks))]
           M == CHOOSE iter : iter = E(iter)
<1>1. Split(p) = M[DOMAIN p]
  BY DEF Split, FoldLeft, MapThenFoldSet
<1>2. n \in Nat /\ DOMAIN p = 1 .. n
  OBVIOUS
<1>3. << <<>> >> \in V
  OBVIOUS
<1>4. \A parts \in V, k \in 1 .. n : Step(parts, k) \in V
  <2> SUFFICES ASSUME NEW parts \in V, NEW k \in 1 .. n
               PROVE  Step(parts, k) \in V
    OBVIOUS
  <2>1. /\ parts \in Seq(Seq(C)) /\ Len(parts) \in 1 .. Len(parts)
        /\ p[k] \in C /\ parts[Len(parts)] \in Seq(C) /\ <<>> \in Seq(C)
    OBVIOUS
  <2>2. Append(parts, <<>>) \in V
    BY <2>1
  <2>3. [parts EXCEPT ![Len(parts)] = Append(@, p[k])] \in V
    <3>1. Append(parts[Len(parts)], p[k]) \in Seq(C)
      BY <2>1
    <3> QED
      BY <2>1, <3>1
  <2> QED
    BY <2>2, <2>3
<1> DEFINE f == [x \in V \X (1 .. n) |-> Step(x[1], x[2])]
<1> HIDE DEF V, Step
<1>5. f \in [V \X (1 .. n) -> V] /\ \A parts \in V, k \in 1 .. n : f[<<parts, k>>] = Step(parts, k)
  BY <1>4
<1>6. PICK g : FoldsOver(g, V, << <<>> >>, f, n)
  <2> HIDE DEF f
  <2> QED
    BY <1>2, <1>3, <1>5, FoldExists
<1>7. g = E(g)
  <2>1. ASSUME NEW ks \in SUBSET (1 .. n), ks # {}
        PROVE  f[<<g[ks \ {Max(ks)}], Max(ks)>>] = Step(g[ks \ {Max(ks)}], Max(ks))
    <3>1. Max(ks) \in 1 .. n
      BY <1>2, <2>1, MaxOf
    <3>2. g[ks \ {Max(ks)}] \in V
      BY <1>6 DEF FoldsOver
    <3> HIDE DEF f
    <3> QED
      BY <1>5, <3>1, <3>2
  <2> HIDE DEF f
  <2> QED
    BY <1>2, <1>6, <2>1 DEF FoldsOver
<1>8. M = E(M)
  <2> HIDE DEF E
  <2> QED
    BY <1>7
<1>9. /\ M[{}] = << <<>> >>
      /\ \A ks \in SUBSET (1 .. n) :
           (ks # {} /\ M[ks \ {Max(ks)}] \in V) => M[ks] = f[<<M[ks \ {Max(ks)}], Max(ks)>>]
  <2> HIDE DEF M, f
  <2>1. \A ks \in SUBSET (1 .. n) :
          M[ks] = IF ks = {} THEN << <<>> >> ELSE Step(M[ks \ {Max(ks)}], Max(ks))
    BY <1>2, <1>8
  <2>2. \A ks \in SUBSET (1 .. n) : ks # {} => Max(ks) \in 1 .. n
    BY <1>2, MaxOf
  <2> QED
    BY <1>5, <2>1, <2>2
<1>10. PICK h \in [0 .. n -> V] :
         /\ h[0] = << <<>> >> /\ h[n] = M[1 .. n]
         /\ \A k \in 0 .. n - 1 : h[k + 1] = f[<<h[k], k + 1>>]
  <2> HIDE DEF M, f
  <2>1. Iterates(M, V, << <<>> >>, f, n)
    BY <1>2, <1>3, <1>5, <1>9 DEF Iterates
  <2> QED
    BY <2>1, FoldSteps
<1>11. \A k \in 0 .. n - 1 : h[k + 1] = Step(h[k], k + 1)
  <2> SUFFICES ASSUME NEW k \in 0 .. n - 1 PROVE h[k + 1] = Step(h[k], k + 1)
    OBVIOUS
  <2>1. k \in 0 .. n /\ k + 1 \in 1 .. n
    BY <1>2
  <2> HIDE DEF f
  <2> QED
    BY <1>5, <1>10, <2>1
<1> HIDE DEF f, M
<1> DEFINE Split_(k) == \E starts : PartsOf(C, p, k, h[k], starts)
           G == {k \in 0 .. n : Split_(k)}
<1>12. 0 \in G
  <2>1. Split_(0)
    BY <1>10, PartsOfNone
  <2> HIDE DEF Split_
  <2> QED
    BY <1>2, <2>1
<1>13. ASSUME NEW k \in 0 .. n, k + 1 <= n, k \in G
       PROVE  k + 1 \in G
  <2>1. k \in 0 .. Len(p) - 1 /\ k + 1 \in 0 .. n
    BY <1>2, <1>13
  <2>2. PICK starts : PartsOf(C, p, k, h[k], starts)
    BY <1>13
  <2>3. h[k + 1] = Step(h[k], k + 1)
    BY <1>11, <2>1
  <2>4. CASE p[k + 1] = Star
    <3>1. PartsOf(C, p, k + 1, Append(h[k], <<>>), Append(starts, k + 2))
      BY <2>1, <2>2, <2>4, PartsOfStar
    <3> QED
      BY <2>1, <2>3, <2>4, <3>1 DEF Step
  <2>5. CASE p[k + 1] # Star
    <3>1. PartsOf(C, p, k + 1,
                  [h[k] EXCEPT ![Len(h[k])] = Append(@, p[k + 1])], starts)
      BY <2>1, <2>2, <2>5, PartsOfOther
    <3> QED
      BY <2>1, <2>3, <2>5, <3>1 DEF Step
  <2> QED
    BY <2>4, <2>5
<1>14. \A k \in 0 .. n : k \in G
  <2> HIDE DEF G
  <2> QED
    BY <1>2, <1>12, <1>13, UpTo
<1>15. h[n] = Split(p)
  BY <1>1, <1>2, <1>10
<1>16. Split_(n)
  <2> HIDE DEF Split_
  <2>1. n \in 0 .. n
    BY <1>2
  <2> QED
    BY <1>14, <2>1
<1> QED
  BY <1>15, <1>16

-----------------------------------------------------------------------------
(* What the comparisons of the scan say: all that w is at some place of s. *)

LEMMA SubSeqFits ==
  ASSUME NEW C, NEW s \in Seq(C), NEW w \in Seq(C),
         NEW k \in Nat, k + Len(w) <= Len(s)
  PROVE  SubSeq(s, k + 1, k + Len(w)) = w <=> FitsAt(w, s, k + 1)
<1> DEFINE t == SubSeq(s, k + 1, k + Len(w))
<1>1. Len(s) \in Nat /\ Len(w) \in Nat
  OBVIOUS
<1>2. \A x \in k + 1 .. k + Len(w) : s[x] \in C
  BY <1>1
<1>3. /\ t \in Seq(C)
      /\ Len(t) = Len(w)
      /\ \A i \in 1 .. Len(w) : t[i] = s[k + 1 + i - 1]
  BY <1>1, <1>2, SubSeqProperties
<1> HIDE DEF t
<1>4. t = w <=> \A i \in 1 .. Len(w) : t[i] = w[i]
  BY <1>1, <1>3, SeqEqual
<1>5. k + 1 + Len(w) <= Len(s) + 1
  BY <1>1
<1> QED
  BY <1>3, <1>4, <1>5 DEF FitsAt, t

LEMMA RestOf ==
  ASSUME NEW C, NEW s \in Seq(C), NEW q \in 0 .. Len(s)
  PROVE  /\ Len(s) \in Nat /\ q \in Nat /\ q <= Len(s)
         /\ From(s, q) \in Seq(C) /\ Len(From(s, q)) = Len(s) - q
         /\ \A i \in 1 .. Len(s) - q : From(s, q)[i] = s[q + i]
<1>1. Len(s) \in Nat /\ q \in Nat /\ q + 1 \in Int /\ q <= Len(s)
  OBVIOUS
<1>2. \A x \in q + 1 .. Len(s) : s[x] \in C
  BY <1>1
<1>3. /\ From(s, q) \in Seq(C)
      /\ Len(From(s, q)) = IF q + 1 <= Len(s) THEN Len(s) - (q + 1) + 1 ELSE 0
      /\ \A i \in 1 .. Len(s) - (q + 1) + 1 : From(s, q)[i] = s[(q + 1) + i - 1]
  BY <1>1, <1>2, SubSeqProperties DEF From
<1>4. /\ Len(s) - (q + 1) + 1 = Len(s) - q
      /\ \A i \in 1 .. Len(s) - q : (q + 1) + i - 1 = q + i
      /\ q + 1 <= Len(s) \/ Len(s) - q = 0
  BY <1>1
<1>5. Len(From(s, q)) = Len(s) - q
  BY <1>3, <1>4
<1>6. \A i \in 1 .. Len(s) - q : From(s, q)[i] = s[q + i]
  BY <1>3, <1>4
<1> QED
  BY <1>1, <1>3, <1>5, <1>6

LEMMA OccursWhereItFits ==
  ASSUME NEW C, NEW s \in Seq(C), NEW w \in Seq(C), NEW q \in 0 .. Len(s), NEW k
  PROVE  k \in Occurrences(w, From(s, q)) <=> k \in Nat /\ FitsAt(w, s, q + k + 1)
<1> DEFINE t == From(s, q)
<1>0. Len(w) \in Nat
  OBVIOUS
<1>1. /\ Len(s) \in Nat /\ Len(w) \in Nat /\ q \in Nat /\ q <= Len(s)
      /\ t \in Seq(C) /\ Len(t) = Len(s) - q
      /\ \A i \in 1 .. Len(s) - q : t[i] = s[q + i]
  BY <1>0, RestOf, Zenon
<1> HIDE DEF t
<1>2. k \in Occurrences(w, t) <=>
        /\ k \in Nat /\ k + Len(w) <= Len(t)
        /\ SubSeq(t, k + 1, k + Len(w)) = w
  <2>1. \A x : x \in 0 .. Len(t) - Len(w) <=> x \in Nat /\ x + Len(w) <= Len(t)
    BY <1>1
  <2> QED
    BY <2>1 DEF Occurrences
<1>3. ASSUME k \in Nat, k + Len(w) <= Len(t)
      PROVE  SubSeq(t, k + 1, k + Len(w)) = w <=> FitsAt(w, s, q + k + 1)
  <2>1. SubSeq(t, k + 1, k + Len(w)) = w <=> FitsAt(w, t, k + 1)
    BY <1>1, <1>3, SubSeqFits
  <2>2. \A i \in 1 .. Len(w) : t[k + 1 + i - 1] = s[q + k + 1 + i - 1]
    <3> SUFFICES ASSUME NEW i \in 1 .. Len(w)
                 PROVE  t[k + 1 + i - 1] = s[q + k + 1 + i - 1]
      OBVIOUS
    <3>1. /\ k + 1 + i - 1 = k + i /\ q + k + 1 + i - 1 = q + (k + i)
          /\ k + i \in 1 .. Len(s) - q
      BY <1>1, <1>3
    <3> QED
      BY <1>1, <3>1
  <2>3. q + k + 1 + Len(w) <= Len(s) + 1 /\ k + 1 + Len(w) <= Len(t) + 1
    BY <1>1, <1>3
  <2> QED
    BY <2>1, <2>2, <2>3 DEF FitsAt
<1>4. (k \in Nat /\ FitsAt(w, s, q + k + 1)) => k + Len(w) <= Len(t)
  BY <1>1 DEF FitsAt
<1> QED
  BY <1>2, <1>3, <1>4 DEF t

(* Find returns where the first occurrence of the part ends. *)
LEMMA FindsFirst ==
  ASSUME NEW C, NEW s \in Seq(C), NEW w \in Seq(C), NEW q \in 0 .. Len(s),
         NoPosition \notin Nat
  PROVE  \/ /\ Find(s, q, w) = NoPosition
            /\ \A j \in q + 1 .. Len(s) + 1 : ~FitsAt(w, s, j)
         \/ \E j \in q + 1 .. Len(s) + 1 :
              /\ FitsAt(w, s, j)
              /\ \A l \in q + 1 .. Len(s) + 1 : FitsAt(w, s, l) => j <= l
              /\ Find(s, q, w) = (j - 1) + Len(w)
<1> DEFINE at == Occurrences(w, From(s, q))
           k == CHOOSE k \in at : \A l \in at : k <= l
<1>1. Len(s) \in Nat /\ Len(w) \in Nat /\ q \in Nat /\ q <= Len(s) /\ q # NoPosition
  OBVIOUS
<1>2. \A x : x \in at <=> x \in Nat /\ FitsAt(w, s, q + x + 1)
  BY OccursWhereItFits
<1> HIDE DEF at
<1>3. \A j \in q + 1 .. Len(s) + 1 : FitsAt(w, s, j) => j - q - 1 \in at
  <2> SUFFICES ASSUME NEW j \in q + 1 .. Len(s) + 1, FitsAt(w, s, j)
               PROVE  j - q - 1 \in at
    OBVIOUS
  <2>1. j - q - 1 \in Nat /\ q + (j - q - 1) + 1 = j
    BY <1>1
  <2> QED
    BY <1>2, <2>1
<1>4. CASE at = {}
  <2>1. Find(s, q, w) = NoPosition
    BY <1>1, <1>4 DEF Find, at
  <2> QED
    BY <1>3, <1>4, <2>1
<1>5. CASE at # {}
  <2>1. at \subseteq Nat
    BY <1>2
  <2>2. k \in at /\ \A l \in at : k <= l
    BY <1>5, <2>1, LeastNat
  <2>3. Find(s, q, w) = q + k + Len(w)
    BY <1>1, <1>5 DEF Find, at
  <2> HIDE DEF k
  <2> DEFINE j == q + k + 1
  <2>4. k \in Nat /\ FitsAt(w, s, j)
    BY <1>2, <2>2
  <2>5. j \in q + 1 .. Len(s) + 1 /\ (j - 1) + Len(w) = q + k + Len(w)
    BY <1>1, <2>4 DEF FitsAt
  <2>6. ASSUME NEW l \in q + 1 .. Len(s) + 1, FitsAt(w, s, l)
        PROVE  j <= l
    <3>1. k <= l - q - 1
      BY <1>3, <2>2, <2>6
    <3> QED
      BY <1>1, <2>4, <3>1
  <2> HIDE DEF j
  <2> QED
    BY <2>3, <2>4, <2>5, <2>6
<1> QED
  BY <1>4, <1>5

LEMMA PrefixFits ==
  ASSUME NEW C, NEW s \in Seq(C), NEW w \in Seq(C)
  PROVE  IsPrefix(w, s) <=> FitsAt(w, s, 1)
<1>1. Len(s) \in Nat /\ Len(w) \in Nat /\ SubSeq(w, 1, Len(w)) = w
  BY SubSeqFull
<1>2. ASSUME Len(w) <= Len(s)
      PROVE  SubSeq(s, 1, Len(w)) = w <=> FitsAt(w, s, 1)
  <2>1. 0 + 1 = 1 /\ 0 + Len(w) = Len(w)
    BY <1>1
  <2>2. SubSeq(s, 0 + 1, 0 + Len(w)) = w <=> FitsAt(w, s, 0 + 1)
    BY <1>1, <1>2, <2>1, SubSeqFits
  <2> QED
    BY <2>1, <2>2
<1>3. FitsAt(w, s, 1) => Len(w) <= Len(s)
  BY <1>1 DEF FitsAt
<1> QED
  BY <1>1, <1>2, <1>3 DEF IsPrefix

LEMMA Reversed ==
  ASSUME NEW C, NEW s \in Seq(C)
  PROVE  /\ Reverse(s) \in Seq(C) /\ Len(Reverse(s)) = Len(s)
         /\ \A i \in 1 .. Len(s) : Reverse(s)[i] = s[(Len(s) - i) + 1]
<1>1. Len(s) \in Nat /\ \A i \in 1 .. Len(s) : (Len(s) - i) + 1 \in 1 .. Len(s)
  OBVIOUS
<1> QED
  BY <1>1 DEF Reverse

LEMMA SuffixFits ==
  ASSUME NEW C, NEW s \in Seq(C), NEW w \in Seq(C), NEW q \in 0 .. Len(s)
  PROVE  IsSuffix(w, From(s, q)) <=>
           Len(w) <= Len(s) - q /\ FitsAt(w, s, Len(s) + 1 - Len(w))
<1> DEFINE t == From(s, q)
<1>0. Len(w) \in Nat
  OBVIOUS
<1>1. /\ Len(s) \in Nat /\ Len(w) \in Nat /\ q \in Nat /\ q <= Len(s)
      /\ t \in Seq(C) /\ Len(t) = Len(s) - q
      /\ \A i \in 1 .. Len(s) - q : t[i] = s[q + i]
  BY <1>0, RestOf, Zenon
<1> HIDE DEF t
<1> DEFINE v == Reverse(w)
           u == Reverse(t)
<1>2. /\ v \in Seq(C) /\ Len(v) = Len(w)
      /\ \A i \in 1 .. Len(w) : v[i] = w[(Len(w) - i) + 1]
      /\ u \in Seq(C) /\ Len(u) = Len(t)
      /\ \A i \in 1 .. Len(t) : u[i] = t[(Len(t) - i) + 1]
  BY <1>1, Reversed
<1> HIDE DEF v, u
<1>3. IsSuffix(w, t) <=> FitsAt(v, u, 1)
  BY <1>2, PrefixFits DEF IsSuffix, v, u
<1>4. FitsAt(v, u, 1) <=> /\ Len(w) <= Len(s) - q
                          /\ \A i \in 1 .. Len(w) : u[i] = v[i]
  <2>1. \A i \in 1 .. Len(w) : 1 + i - 1 = i
    BY <1>1
  <2>2. 1 + Len(v) <= Len(u) + 1 <=> Len(w) <= Len(s) - q
    BY <1>1, <1>2
  <2> QED
    BY <1>2, <2>1, <2>2 DEF FitsAt
<1>5. ASSUME Len(w) <= Len(s) - q
      PROVE  (\A i \in 1 .. Len(w) : u[i] = v[i])
               <=> FitsAt(w, s, Len(s) + 1 - Len(w))
  <2> DEFINE e == Len(s) + 1 - Len(w)
             r(i) == (Len(w) - i) + 1
  <2>1. \A i \in 1 .. Len(w) : /\ r(i) \in 1 .. Len(w) /\ r(r(i)) = i
                               /\ v[i] = w[r(i)]
                               /\ u[i] = s[e + r(i) - 1]
    <3> SUFFICES ASSUME NEW i \in 1 .. Len(w)
                 PROVE  /\ r(i) \in 1 .. Len(w) /\ r(r(i)) = i
                        /\ v[i] = w[r(i)]
                        /\ u[i] = s[e + r(i) - 1]
      OBVIOUS
    <3>1. /\ i \in 1 .. Len(t)
          /\ (Len(t) - i) + 1 \in 1 .. Len(s) - q
          /\ q + ((Len(t) - i) + 1) = e + r(i) - 1
          /\ r(i) \in 1 .. Len(w) /\ r(r(i)) = i
      BY <1>1, <1>5
    <3>2. u[i] = t[(Len(t) - i) + 1] /\ v[i] = w[r(i)]
      BY <1>2, <3>1
    <3> QED
      BY <1>1, <3>1, <3>2
  <2>2. e + Len(w) <= Len(s) + 1
    BY <1>1
  <2> HIDE DEF e, r
  <2>3. FitsAt(w, s, e) <=> \A i \in 1 .. Len(w) : s[e + i - 1] = w[i]
    BY <2>2 DEF FitsAt
  <2>4. (\A i \in 1 .. Len(w) : u[i] = v[i])
          <=> \A i \in 1 .. Len(w) : s[e + i - 1] = w[i]
    <3>1. ASSUME \A i \in 1 .. Len(w) : u[i] = v[i], NEW i \in 1 .. Len(w)
          PROVE  s[e + i - 1] = w[i]
      <4>1. u[r(i)] = v[r(i)]
        BY <2>1, <3>1
      <4> QED
        BY <2>1, <4>1
    <3>2. ASSUME \A i \in 1 .. Len(w) : s[e + i - 1] = w[i], NEW i \in 1 .. Len(w)
          PROVE  u[i] = v[i]
      BY <2>1, <3>2
    <3> QED
      BY <3>1, <3>2
  <2> QED
    BY <2>3, <2>4 DEF e
<1> QED
  BY <1>3, <1>4, <1>5 DEF t

-----------------------------------------------------------------------------
(* The scan, part by part. *)

ScanEnd(s, inner, start) ==
  FoldLeft(LAMBDA q, part : Find(s, q, part), start, inner)

(* Where the scan is after each of the inner parts. *)
ScansTo(s, inner, start, pos) ==
  /\ pos \in [0 .. Len(inner) -> 0 .. Len(s) \cup {NoPosition}]
  /\ pos[0] = start
  /\ \A k \in 0 .. Len(inner) - 1 : pos[k + 1] = Find(s, pos[k], inner[k + 1])

LEMMA FindType ==
  ASSUME NEW C, NEW s \in Seq(C), NEW w \in Seq(C),
         NEW q \in 0 .. Len(s) \cup {NoPosition}, NoPosition \notin Nat
  PROVE  Find(s, q, w) \in 0 .. Len(s) \cup {NoPosition}
<1>1. CASE q = NoPosition
  BY <1>1 DEF Find
<1>2. CASE q \in 0 .. Len(s)
  <2>1. ASSUME NEW j \in q + 1 .. Len(s) + 1, FitsAt(w, s, j)
        PROVE  (j - 1) + Len(w) \in 0 .. Len(s)
    <3>1. Len(w) \in Nat /\ q \in Nat /\ Len(s) \in Nat
      BY <1>2
    <3> QED
      BY <2>1, <3>1 DEF FitsAt
  <2> QED
    BY <1>2, <2>1, FindsFirst
<1> QED
  BY <1>1, <1>2

LEMMA ScanSteps ==
  ASSUME NEW C, NEW s \in Seq(C), NEW inner \in Seq(Seq(C)),
         NEW start \in 0 .. Len(s), NoPosition \notin Nat
  PROVE  \E pos :
           /\ ScansTo(s, inner, start, pos)
           /\ pos[Len(inner)] = ScanEnd(s, inner, start)
<1> DEFINE n == Len(inner)
           V == 0 .. Len(s) \cup {NoPosition}
           E(iter) == [ks \in SUBSET (DOMAIN inner) |->
                         IF ks = {} THEN start
                         ELSE Find(s, iter[ks \ {Max(ks)}], inner[Max(ks)])]
           M == CHOOSE iter : iter = E(iter)
<1>1. ScanEnd(s, inner, start) = M[DOMAIN inner]
  BY DEF ScanEnd, FoldLeft, MapThenFoldSet
<1>2. n \in Nat /\ DOMAIN inner = 1 .. n /\ start \in V
  OBVIOUS
<1>3. \A q \in V, k \in 1 .. n : Find(s, q, inner[k]) \in V
  <2> SUFFICES ASSUME NEW q \in V, NEW k \in 1 .. n
               PROVE  Find(s, q, inner[k]) \in V
    OBVIOUS
  <2>1. inner[k] \in Seq(C)
    OBVIOUS
  <2> QED
    BY <2>1, FindType
<1> DEFINE f == [x \in V \X (1 .. n) |-> Find(s, x[1], inner[x[2]])]
<1> HIDE DEF V
<1>4. f \in [V \X (1 .. n) -> V] /\ \A q \in V, k \in 1 .. n : f[<<q, k>>] = Find(s, q, inner[k])
  BY <1>3
<1>5. PICK g : FoldsOver(g, V, start, f, n)
  <2> HIDE DEF f
  <2> QED
    BY <1>2, <1>4, FoldExists
<1>6. g = E(g)
  <2>1. ASSUME NEW ks \in SUBSET (1 .. n), ks # {}
        PROVE  f[<<g[ks \ {Max(ks)}], Max(ks)>>] = Find(s, g[ks \ {Max(ks)}], inner[Max(ks)])
    <3>1. Max(ks) \in 1 .. n
      BY <1>2, <2>1, MaxOf
    <3>2. g[ks \ {Max(ks)}] \in V
      BY <1>5 DEF FoldsOver
    <3> HIDE DEF f
    <3> QED
      BY <1>4, <3>1, <3>2
  <2> HIDE DEF f
  <2> QED
    BY <1>2, <1>5, <2>1 DEF FoldsOver
<1>7. M = E(M)
  <2> HIDE DEF E
  <2> QED
    BY <1>6
<1>8. /\ M[{}] = start
      /\ \A ks \in SUBSET (1 .. n) :
           (ks # {} /\ M[ks \ {Max(ks)}] \in V) => M[ks] = f[<<M[ks \ {Max(ks)}], Max(ks)>>]
  <2> HIDE DEF M, f
  <2>1. \A ks \in SUBSET (1 .. n) :
          M[ks] = IF ks = {} THEN start ELSE Find(s, M[ks \ {Max(ks)}], inner[Max(ks)])
    BY <1>2, <1>7
  <2>2. \A ks \in SUBSET (1 .. n) : ks # {} => Max(ks) \in 1 .. n
    BY <1>2, MaxOf
  <2> QED
    BY <1>4, <2>1, <2>2
<1>9. PICK pos \in [0 .. n -> V] :
        /\ pos[0] = start /\ pos[n] = M[1 .. n]
        /\ \A k \in 0 .. n - 1 : pos[k + 1] = f[<<pos[k], k + 1>>]
  <2> HIDE DEF M, f
  <2>1. Iterates(M, V, start, f, n)
    BY <1>2, <1>4, <1>8 DEF Iterates
  <2> QED
    BY <2>1, FoldSteps
<1>10. \A k \in 0 .. n - 1 : pos[k + 1] = Find(s, pos[k], inner[k + 1])
  <2> SUFFICES ASSUME NEW k \in 0 .. n - 1
               PROVE  pos[k + 1] = Find(s, pos[k], inner[k + 1])
    OBVIOUS
  <2>1. k \in 0 .. n /\ k + 1 \in 1 .. n
    BY <1>2
  <2> HIDE DEF f
  <2> QED
    BY <1>4, <1>9, <2>1
<1> HIDE DEF f, M
<1> QED
  BY <1>1, <1>2, <1>9, <1>10 DEF ScansTo, V

(* From the place the scan has come to the table can be left as well as    *)
(* from any later one: to take the first occurrence gives nothing away.    *)
LeavesFrom(s, m, i, q) ==
  q # NoPosition /\ \E k \in q + 1 .. Len(s) + 1 : m[<<i, k>>]

LEMMA FirstIsEnough ==
  ASSUME NEW C, NEW p \in Seq(C), NEW s \in Seq(C), NEW m, FollowsRules(p, s, m),
         NEW w \in Seq(C), NEW i \in 1 .. Len(p) + 1, RunAt(w, p, i),
         i + Len(w) \in 1 .. Len(p), p[i + Len(w)] = Star,
         NEW q \in 0 .. Len(s) \cup {NoPosition}, NoPosition \notin Nat
  PROVE  LeavesFrom(s, m, i, q) <=>
           LeavesFrom(s, m, i + Len(w) + 1, Find(s, q, w))
<1> DEFINE e == i + Len(w)
<1>1. Len(s) \in Nat /\ Len(w) \in Nat
  OBVIOUS
<1>2. CASE q = NoPosition
  BY <1>2 DEF LeavesFrom, Find
<1>3. CASE q \in 0 .. Len(s)
  <2>1. q \in Nat /\ q <= Len(s) /\ q # NoPosition
    BY <1>1, <1>3
  <2>2. \A k \in q + 1 .. Len(s) + 1 :
          m[<<i, k>>] <=> FitsAt(w, s, k) /\ m[<<e, k + Len(w)>>]
    <3> SUFFICES ASSUME NEW k \in q + 1 .. Len(s) + 1
                 PROVE  m[<<i, k>>] <=> FitsAt(w, s, k) /\ m[<<e, k + Len(w)>>]
      OBVIOUS
    <3>1. k \in 1 .. Len(s) + 1
      BY <1>1, <2>1
    <3> QED
      BY <3>1, RunTakesItself
  <2>3. \A j \in 1 .. Len(s) + 1 :
          m[<<e, j>>] <=> \E k \in j .. Len(s) + 1 : m[<<e + 1, k>>]
    BY StarTakesAny
  <2> HIDE DEF e
  <2>4. \A k \in q + 1 .. Len(s) + 1 :
          FitsAt(w, s, k) => k + Len(w) \in 1 .. Len(s) + 1
    BY <1>1, <2>1 DEF FitsAt
  <2>5. CASE \A j \in q + 1 .. Len(s) + 1 : ~FitsAt(w, s, j)
    <3>1. ~LeavesFrom(s, m, i, q)
      BY <2>2, <2>5 DEF LeavesFrom
    <3>2. Find(s, q, w) = NoPosition
      BY <1>3, <2>5, FindsFirst
    <3> QED
      BY <3>1, <3>2 DEF LeavesFrom, e
  <2>6. CASE ~\A j \in q + 1 .. Len(s) + 1 : ~FitsAt(w, s, j)
    <3>1. PICK j \in q + 1 .. Len(s) + 1 :
            /\ FitsAt(w, s, j)
            /\ \A l \in q + 1 .. Len(s) + 1 : FitsAt(w, s, l) => j <= l
            /\ Find(s, q, w) = (j - 1) + Len(w)
      BY <1>3, <2>6, FindsFirst
    <3>2. j + Len(w) \in 1 .. Len(s) + 1
      BY <2>4, <3>1
    <3>3. Find(s, q, w) + 1 = j + Len(w) /\ Find(s, q, w) # NoPosition
      BY <1>1, <2>1, <3>1, <3>2
    <3>4. LeavesFrom(s, m, e + 1, Find(s, q, w)) <=> m[<<e, j + Len(w)>>]
      BY <2>3, <3>2, <3>3 DEF LeavesFrom
    <3>5. ASSUME m[<<e, j + Len(w)>>] PROVE LeavesFrom(s, m, i, q)
      BY <2>1, <2>2, <3>1, <3>5 DEF LeavesFrom
    <3>6. ASSUME LeavesFrom(s, m, i, q) PROVE m[<<e, j + Len(w)>>]
      <4>1. PICK k \in q + 1 .. Len(s) + 1 : m[<<i, k>>]
        BY <3>6 DEF LeavesFrom
      <4>2. FitsAt(w, s, k) /\ m[<<e, k + Len(w)>>]
        BY <2>2, <4>1
      <4>3. j <= k /\ k + Len(w) \in 1 .. Len(s) + 1
        BY <2>4, <3>1, <4>2
      <4>4. PICK l \in k + Len(w) .. Len(s) + 1 : m[<<e + 1, l>>]
        BY <2>3, <4>2, <4>3
      <4>5. l \in j + Len(w) .. Len(s) + 1
        BY <1>1, <2>1, <4>3
      <4> QED
        BY <2>3, <3>2, <4>4, <4>5
    <3> QED
      BY <3>4, <3>5, <3>6 DEF e
  <2> QED
    BY <2>5, <2>6
<1> QED
  BY <1>2, <1>3

(* What is left for the last part: it must reach the end. *)
LEMMA LastReachesEnd ==
  ASSUME NEW C, NEW p \in Seq(C), NEW s \in Seq(C), NEW m, FollowsRules(p, s, m),
         NEW w \in Seq(C), NEW i \in 1 .. Len(p) + 1, RunAt(w, p, i),
         i + Len(w) = Len(p) + 1, NEW q \in 0 .. Len(s), NoPosition \notin Nat
  PROVE  LeavesFrom(s, m, i, q) <=> IsSuffix(w, From(s, q))
<1>1. Len(s) \in Nat /\ Len(w) \in Nat /\ q \in Nat /\ q <= Len(s) /\ q # NoPosition
      /\ Len(p) + 1 \in 1 .. Len(p) + 1
  OBVIOUS
<1>2. ASSUME NEW k \in q + 1 .. Len(s) + 1
      PROVE  m[<<i, k>>] <=> FitsAt(w, s, k) /\ k + Len(w) = Len(s) + 1
  <2>1. k \in 1 .. Len(s) + 1
    BY <1>1
  <2>2. m[<<i, k>>] <=> FitsAt(w, s, k) /\ m[<<Len(p) + 1, k + Len(w)>>]
    BY <2>1, RunTakesItself
  <2>3. FitsAt(w, s, k) => k + Len(w) \in 1 .. Len(s) + 1
    BY <1>1, <2>1 DEF FitsAt
  <2>4. \A j \in 1 .. Len(s) + 1 : m[<<Len(p) + 1, j>>] <=> j = Len(s) + 1
    BY <1>1 DEF FollowsRules
  <2> QED
    BY <2>2, <2>3, <2>4
<1> DEFINE k == Len(s) + 1 - Len(w)
<1>3. \A l \in q + 1 .. Len(s) + 1 : l + Len(w) = Len(s) + 1 <=> l = k
  BY <1>1
<1>4. k \in q + 1 .. Len(s) + 1 <=> Len(w) <= Len(s) - q
  BY <1>1
<1> HIDE DEF k
<1>5. LeavesFrom(s, m, i, q) <=> k \in q + 1 .. Len(s) + 1 /\ FitsAt(w, s, k)
  BY <1>1, <1>2, <1>3 DEF LeavesFrom
<1> QED
  BY <1>4, <1>5, SuffixFits DEF k

-----------------------------------------------------------------------------
(* For every pattern and every name, glob_match (github.rs) accepts what   *)
(* the reference does: that it never takes a later occurrence of a part    *)
(* than the first loses no match, and all it accepts is one.               *)
THEOREM GlobMatchesExactly ==
  ASSUME NEW C, NEW p \in Seq(C), NEW s \in Seq(C), NoPosition \notin Nat
  PROVE  GlobMatch(p, s) <=> Agrees(p, s)
<1> DEFINE parts == Split(p)
           n == Len(parts)
           first == parts[1]
           inner == SubSeq(parts, 2, n - 1)
<1>1. PICK starts : PartsOf(C, p, Len(p), parts, starts)
  BY SplitIntoParts
<1>2. PICK m : FollowsRules(p, s, m) /\ (Agrees(p, s) <=> m[<<1, 1>>])
  BY AgreesByRules
<1>3. /\ parts \in Seq(Seq(C)) /\ n \in Nat /\ n # 0
      /\ Len(p) \in Nat /\ Len(s) \in Nat
      /\ starts[1] = 1 /\ starts[n] + Len(parts[n]) = Len(p) + 1
      /\ \A t \in 1 .. n : /\ parts[t] \in Seq(C) /\ Len(parts[t]) \in Nat
                           /\ starts[t] \in 1 .. Len(p) + 1
                           /\ RunAt(parts[t], p, starts[t])
      /\ \A t \in 1 .. n - 1 :
           /\ starts[t] + Len(parts[t]) \in 1 .. Len(p)
           /\ p[starts[t] + Len(parts[t])] = Star
           /\ starts[t + 1] = starts[t] + Len(parts[t]) + 1
  <2> HIDE DEF parts
  <2> QED
    BY <1>1 DEF PartsOf
<1>4. Head(parts) = first /\ Last(parts) = parts[n]
  <2> HIDE DEF parts
  <2> QED
    BY <1>3 DEF Last
<1>5. GlobMatch(p, s) <=>
        IF n = 1 THEN p = s
        ELSE /\ IsPrefix(first, s)
             /\ ScanEnd(s, inner, Len(first)) # NoPosition
             /\ IsSuffix(parts[n], From(s, ScanEnd(s, inner, Len(first))))
  BY <1>4 DEF GlobMatch, ScanEnd
<1> HIDE DEF parts
<1>6. 1 \in 1 .. n /\ n \in 1 .. n /\ 1 \in 1 .. Len(p) + 1 /\ 1 \in 1 .. Len(s) + 1
  BY <1>3
<1>7. m[<<1, 1>>] <=> FitsAt(first, s, 1) /\ m[<<1 + Len(first), 1 + Len(first)>>]
  <2>1. first \in Seq(C) /\ RunAt(first, p, 1)
    BY <1>3, <1>6
  <2> QED
    BY <1>2, <1>6, <2>1, RunTakesItself
<1>8. CASE n = 1
  <2>1. 1 + Len(first) = Len(p) + 1 /\ Len(first) = Len(p)
    BY <1>3, <1>6, <1>8
  <2>2. \A j \in 1 .. Len(s) + 1 : m[<<Len(p) + 1, j>>] <=> j = Len(s) + 1
    <3>1. Len(p) + 1 \in 1 .. Len(p) + 1
      BY <1>3
    <3> QED
      BY <1>2, <3>1 DEF FollowsRules
  <2>3. FitsAt(first, s, 1) => 1 + Len(first) \in 1 .. Len(s) + 1
    BY <1>3, <1>6 DEF FitsAt
  <2>4. m[<<1, 1>>] <=> FitsAt(first, s, 1) /\ Len(p) = Len(s)
    BY <1>3, <1>7, <2>1, <2>2, <2>3
  <2>5. \A q \in 1 .. Len(p) : 1 + q - 1 = q /\ p[q] = first[q]
    <3>1. \A q \in 1 .. Len(p) : 1 + q - 1 = q
      BY <1>3
    <3>2. \A q \in 1 .. Len(first) : p[1 + q - 1] = first[q]
      BY <1>3, <1>6 DEF RunAt, FitsAt
    <3> QED
      BY <2>1, <3>1, <3>2
  <2>6. (FitsAt(first, s, 1) /\ Len(p) = Len(s)) <=>
          Len(p) = Len(s) /\ \A q \in 1 .. Len(p) : p[q] = s[q]
    <3>1. Len(p) = Len(s) => 1 + Len(first) <= Len(s) + 1
      BY <1>3, <2>1
    <3> QED
      BY <2>1, <2>5, <3>1 DEF FitsAt
  <2>7. p = s <=> Len(p) = Len(s) /\ \A q \in 1 .. Len(p) : p[q] = s[q]
    BY SeqEqual
  <2> QED
    BY <1>2, <1>5, <1>8, <2>4, <2>6, <2>7
<1>9. CASE n # 1
  <2>1. n \in Nat /\ n - 2 \in Nat /\ 1 \in 1 .. n - 1 /\ n - 1 \in Int
    <3>1. \A x \in Nat : x # 0 /\ x # 1 =>
            x - 2 \in Nat /\ 1 \in 1 .. x - 1 /\ x - 1 \in Int
      OBVIOUS
    <3>2. n \in Nat /\ n # 0
      BY <1>3
    <3> QED
      BY <1>9, <3>1, <3>2
  <2>2. inner \in Seq(Seq(C)) /\ Len(inner) = n - 2
        /\ \A k \in 1 .. n - 2 : inner[k] = parts[k + 1]
    <3>1. \A x \in 2 .. n - 1 : parts[x] \in Seq(C)
      BY <1>3
    <3>2. /\ inner \in Seq(Seq(C))
          /\ Len(inner) = IF 2 <= n - 1 THEN (n - 1) - 2 + 1 ELSE 0
          /\ \A i \in 1 .. (n - 1) - 2 + 1 : inner[i] = parts[2 + i - 1]
      BY <2>1, <3>1, SubSeqProperties
    <3>3. /\ (n - 1) - 2 + 1 = n - 2 /\ (2 <= n - 1 \/ n - 2 = 0)
          /\ \A i \in 1 .. n - 2 : 2 + i - 1 = i + 1
      <4>1. \A x \in Nat : /\ (x - 1) - 2 + 1 = x - 2
                           /\ x - 2 \in Nat => 2 <= x - 1 \/ x - 2 = 0
                           /\ \A i \in 1 .. x - 2 : 2 + i - 1 = i + 1
        OBVIOUS
      <4> QED
        BY <2>1, <4>1
    <3>4. Len(inner) = n - 2
      BY <3>2, <3>3
    <3> QED
      BY <3>2, <3>3, <3>4
  <2> HIDE DEF inner
  <2>3. IsPrefix(first, s) <=> FitsAt(first, s, 1)
    BY <1>3, <1>6, PrefixFits
  <2>4. CASE ~FitsAt(first, s, 1)
    BY <1>2, <1>5, <1>7, <1>9, <2>3, <2>4
  <2>5. CASE FitsAt(first, s, 1)
    <3>1. Len(first) \in 0 .. Len(s) /\ 1 + Len(first) \in 1 .. Len(s) + 1
      BY <1>3, <1>6, <2>5 DEF FitsAt
    <3>2. PICK pos : /\ ScansTo(s, inner, Len(first), pos)
                     /\ pos[Len(inner)] = ScanEnd(s, inner, Len(first))
      BY <2>2, <3>1, ScanSteps
    <3>3. /\ pos[0] = Len(first)
          /\ \A k \in 0 .. n - 2 : pos[k] \in 0 .. Len(s) \cup {NoPosition}
          /\ \A k \in 0 .. n - 3 : pos[k + 1] = Find(s, pos[k], parts[k + 2])
      <4>1. /\ pos[0] = Len(first)
            /\ \A k \in 0 .. n - 2 : pos[k] \in 0 .. Len(s) \cup {NoPosition}
        BY <2>2, <3>2 DEF ScansTo
      <4>2. ASSUME NEW k \in 0 .. n - 3
            PROVE  pos[k + 1] = Find(s, pos[k], parts[k + 2])
        <5>1. /\ k \in 0 .. Len(inner) - 1 /\ k + 1 \in 1 .. n - 2
              /\ (k + 1) + 1 = k + 2
          BY <1>3, <2>2
        <5>2. inner[k + 1] = parts[k + 2]
          BY <2>2, <5>1
        <5> QED
          BY <3>2, <5>1, <5>2 DEF ScansTo
      <4> QED
        BY <4>1, <4>2
    <3> DEFINE Left_(k) == LeavesFrom(s, m, starts[k + 2], pos[k]) <=> m[<<1, 1>>]
               G == {k \in 0 .. n - 2 : Left_(k)}
    <3>4. 0 \in G
      <4>1. /\ starts[1] + Len(parts[1]) \in 1 .. Len(p)
            /\ p[starts[1] + Len(parts[1])] = Star
            /\ starts[1 + 1] = starts[1] + Len(parts[1]) + 1
        BY <1>3, <2>1
      <4>2. /\ 1 + Len(first) \in 1 .. Len(p) /\ p[1 + Len(first)] = Star
            /\ starts[0 + 2] = 1 + Len(first) + 1
        BY <1>3, <4>1
      <4>3. m[<<1 + Len(first), 1 + Len(first)>>] <=>
              \E k \in 1 + Len(first) .. Len(s) + 1 : m[<<1 + Len(first) + 1, k>>]
        <5> DEFINE e == 1 + Len(first)
        <5>1. e \in 1 .. Len(p) /\ p[e] = Star /\ e \in 1 .. Len(s) + 1
          BY <3>1, <4>2
        <5> HIDE DEF e
        <5>2. m[<<e, e>>] <=> \E k \in e .. Len(s) + 1 : m[<<e + 1, k>>]
          BY <1>2, <5>1, StarTakesAny
        <5> QED
          BY <5>2 DEF e
      <4>4. Len(first) # NoPosition /\ 1 + Len(first) = Len(first) + 1
        BY <3>1
      <4>5. Left_(0)
        BY <1>7, <2>5, <3>3, <4>2, <4>3, <4>4 DEF LeavesFrom
      <4> HIDE DEF Left_
      <4> QED
        BY <2>1, <4>5
    <3>5. ASSUME NEW k \in 0 .. n - 2, k + 1 <= n - 2, k \in G
          PROVE  k + 1 \in G
      <4>1. /\ k + 2 \in 1 .. n - 1 /\ k + 2 \in 1 .. n /\ k \in 0 .. n - 3
            /\ (k + 2) + 1 = (k + 1) + 2 /\ k + 1 \in 0 .. n - 2
        BY <1>3, <2>1, <3>5
      <4> DEFINE w == parts[k + 2]
                 i == starts[k + 2]
                 q == pos[k]
      <4>2. /\ w \in Seq(C) /\ i \in 1 .. Len(p) + 1 /\ RunAt(w, p, i)
            /\ i + Len(w) \in 1 .. Len(p) /\ p[i + Len(w)] = Star
            /\ starts[(k + 1) + 2] = i + Len(w) + 1
            /\ q \in 0 .. Len(s) \cup {NoPosition}
            /\ pos[k + 1] = Find(s, q, w)
        BY <1>3, <3>3, <4>1
      <4>3. Left_(k)
        BY <3>5
      <4> HIDE DEF w, i, q
      <4>4. LeavesFrom(s, m, i, q) <=> LeavesFrom(s, m, i + Len(w) + 1, Find(s, q, w))
        BY <1>2, <4>2, FirstIsEnough
      <4>5. Left_(k + 1)
        BY <4>2, <4>3, <4>4 DEF i, q
      <4> HIDE DEF Left_
      <4> QED
        BY <4>1, <4>5
    <3>6. \A k \in 0 .. n - 2 : k \in G
      <4> HIDE DEF G
      <4> QED
        BY <2>1, <3>4, <3>5, UpTo
    <3>7. Left_(n - 2) /\ (n - 2) + 2 = n
      <4> HIDE DEF Left_
      <4>1. n - 2 \in 0 .. n - 2
        BY <2>1
      <4> QED
        BY <1>3, <3>6, <4>1
    <3> DEFINE q == pos[n - 2]
    <3>8. /\ q \in 0 .. Len(s) \cup {NoPosition}
          /\ q = ScanEnd(s, inner, Len(first))
          /\ LeavesFrom(s, m, starts[n], q) <=> m[<<1, 1>>]
      BY <2>1, <2>2, <3>2, <3>3, <3>7
    <3> HIDE DEF q
    <3>9. CASE q = NoPosition
      BY <1>2, <1>5, <1>9, <3>8, <3>9 DEF LeavesFrom
    <3>10. CASE q \in 0 .. Len(s)
      <4>1. LeavesFrom(s, m, starts[n], q) <=> IsSuffix(parts[n], From(s, q))
        BY <1>2, <1>3, <1>6, <3>10, LastReachesEnd
      <4>2. q # NoPosition
        BY <3>10
      <4> QED
        BY <1>2, <1>5, <1>9, <2>3, <2>5, <3>8, <4>1, <4>2
    <3> QED
      BY <3>8, <3>9, <3>10
  <2> QED
    BY <2>4, <2>5
<1> QED
  BY <1>8, <1>9

=============================================================================
