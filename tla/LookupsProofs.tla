--------------------------- MODULE LookupsProofs ---------------------------
(***************************************************************************)
(* What the runs ask of the three algorithms for all small inputs, proved  *)
(* for all inputs: manifests of any harvests, flavors of any configuration,*)
(* patterns and names of any length.                                       *)
(***************************************************************************)
EXTENDS Lookups, GlobsProofs, FiniteSetTheorems

-----------------------------------------------------------------------------
(* Manifests.                                                              *)

Ascends(r, n) == \A i, j \in 1 .. n : i < j => r[i] < r[j]

LEMMA AscendingExists ==
  ASSUME NEW S, S \subseteq Nat, IsFiniteSet(S)
  PROVE  \E r \in [1 .. Cardinality(S) -> S] : Ascends(r, Cardinality(S))
<1> DEFINE n == Cardinality(S)
           Listed(T, k) == \E r \in [1 .. k -> T] : Ascends(r, k)
           All(k) == \A T \in SUBSET S : Cardinality(T) = k => Listed(T, k)
           G == {k \in 0 .. n : All(k)}
<1>1. n \in Nat
  BY FS_CardinalityType
<1>2. 0 \in G
  <2>1. ASSUME NEW T \in SUBSET S PROVE Listed(T, 0)
    <3>1. [i \in 1 .. 0 |-> 0] \in [1 .. 0 -> T]
      OBVIOUS
    <3>2. \A r : Ascends(r, 0)
      BY DEF Ascends
    <3> QED
      BY <3>1, <3>2
  <2> HIDE DEF Listed
  <2> QED
    BY <1>1, <2>1
<1>3. ASSUME NEW k \in 0 .. n, k + 1 <= n, k \in G
      PROVE  k + 1 \in G
  <2>1. ASSUME NEW T \in SUBSET S, Cardinality(T) = k + 1
        PROVE  Listed(T, k + 1)
    <3>0. k \in Nat /\ k + 1 # 0 /\ (k + 1) - 1 = k
      BY <1>1
    <3>1. IsFiniteSet(T)
      BY FS_Subset
    <3>2. T # {}
      BY <2>1, <3>0, FS_EmptySet
    <3>3. PICK x \in T : \A y \in T : x <= y
      BY <3>2, LeastNat
    <3>4. Cardinality(T \ {x}) = k
      BY <2>1, <3>0, <3>1, FS_RemoveElement
    <3>5. PICK r \in [1 .. k -> T \ {x}] : Ascends(r, k)
      BY <1>3, <3>4
    <3> DEFINE q == [i \in 1 .. k + 1 |-> IF i = 1 THEN x ELSE r[i - 1]]
    <3>6. \A i \in 1 .. k + 1 : i # 1 => i - 1 \in 1 .. k
      BY <3>0
    <3>7. q \in [1 .. k + 1 -> T]
      BY <3>5, <3>6
    <3>8. \A i \in 1 .. k + 1 : /\ i = 1 => q[i] = x
                                /\ i # 1 => q[i] = r[i - 1] /\ x < q[i]
      <4> SUFFICES ASSUME NEW i \in 1 .. k + 1, i # 1
                   PROVE  q[i] = r[i - 1] /\ x < q[i]
        OBVIOUS
      <4>1. r[i - 1] \in T /\ r[i - 1] # x /\ r[i - 1] \in Nat /\ x \in Nat
        BY <3>5, <3>6
      <4>2. x <= r[i - 1]
        BY <3>3, <4>1
      <4> QED
        BY <4>1, <4>2
    <3> HIDE DEF q
    <3>9. ASSUME NEW i \in 1 .. k + 1, NEW j \in 1 .. k + 1, i < j
          PROVE  q[i] < q[j]
      <4>1. j # 1
        BY <3>0, <3>9
      <4>2. CASE i = 1
        BY <3>8, <4>1, <4>2
      <4>3. CASE i # 1
        <5>1. i - 1 \in 1 .. k /\ j - 1 \in 1 .. k /\ i - 1 < j - 1
          BY <3>0, <3>6, <3>9, <4>1, <4>3
        <5> QED
          BY <3>5, <3>8, <4>1, <4>3, <5>1 DEF Ascends
      <4> QED
        BY <4>2, <4>3
    <3> QED
      BY <3>7, <3>9 DEF Ascends
  <2>2. k + 1 \in 0 .. n
    BY <1>1, <1>3
  <2> HIDE DEF Listed
  <2> QED
    BY <2>1, <2>2
<1>4. \A k \in 0 .. n : k \in G
  <2> HIDE DEF G
  <2> QED
    BY <1>1, <1>2, <1>3, UpTo
<1>5. All(n)
  <2> HIDE DEF All
  <2> QED
    BY <1>1, <1>4
<1> QED
  BY <1>5

(* The sort lists each number of the set. *)
LEMMA SortedLists ==
  ASSUME NEW S, S \subseteq Nat, IsFiniteSet(S)
  PROVE  /\ Cardinality(S) \in Nat
         /\ Sorted(S) \in [1 .. Cardinality(S) -> S]
         /\ \A x \in S : \E i \in 1 .. Cardinality(S) : Sorted(S)[i] = x
<1> DEFINE n == Cardinality(S)
           r == Sorted(S)
<1>1. n \in Nat
  BY FS_CardinalityType
<1>2. r \in [1 .. n -> S] /\ Ascends(r, n)
  BY AscendingExists DEF Sorted, Ascends
<1> HIDE DEF r
<1>3. ASSUME NEW i \in 1 .. n, NEW j \in 1 .. n, r[i] = r[j]
      PROVE  i = j
  <2>1. r[i] \in Nat /\ r[j] \in Nat
    BY <1>2
  <2>2. ~(i < j) /\ ~(j < i)
    BY <1>2, <1>3, <2>1 DEF Ascends
  <2> QED
    BY <1>1, <2>2
<1>4. r \in Injection(1 .. n, S)
  BY <1>2, <1>3 DEF Injection, IsInjective
<1>5. IsFiniteSet(1 .. n) /\ Cardinality(1 .. n) = n
  BY <1>1, FS_Interval
<1>6. r \in Surjection(1 .. n, S)
  BY <1>4, <1>5, FS_Injection
<1> QED
  BY <1>1, <1>2, <1>6 DEF Surjection, r

IsHarvest(h) ==
  /\ DOMAIN h \subseteq Repos /\ IsFiniteSet(DOMAIN h)
  /\ h \in [DOMAIN h -> [tag : Tags, fallback : BOOLEAN]]

(* The repositories of a manifest and their tags, in its order. *)
PairsOf(h) ==
  [i \in 1 .. Cardinality(DOMAIN h) |->
     <<Sorted(DOMAIN h)[i], h[Sorted(DOMAIN h)[i]].tag>>]

LEMMA PairsType ==
  ASSUME NEW h, IsHarvest(h)
  PROVE  /\ PairsOf(h) \in Seq(Repos \X Tags)
         /\ \A f : f \in TagsOf(h) <=>
                     \E i \in 1 .. Len(PairsOf(h)) : PairsOf(h)[i] = f
<1> DEFINE n == Cardinality(DOMAIN h)
           r == Sorted(DOMAIN h)
<1>1. /\ n \in Nat /\ r \in [1 .. n -> DOMAIN h]
      /\ \A x \in DOMAIN h : \E i \in 1 .. n : r[i] = x
  BY RepoAssumption, SortedLists DEF IsHarvest
<1>2. \A x \in DOMAIN h : x \in Repos /\ h[x].tag \in Tags
  BY DEF IsHarvest
<1>3. PairsOf(h) = [i \in 1 .. n |-> <<r[i], h[r[i]].tag>>]
  BY DEF PairsOf
<1> HIDE DEF r, n
<1>4. PairsOf(h) \in Seq(Repos \X Tags) /\ Len(PairsOf(h)) = n
  BY <1>1, <1>2, <1>3
<1>5. ASSUME NEW f, f \in TagsOf(h)
      PROVE  \E i \in 1 .. n : PairsOf(h)[i] = f
  BY <1>1, <1>3, <1>5 DEF TagsOf
<1>6. ASSUME NEW i \in 1 .. n
      PROVE  PairsOf(h)[i] \in TagsOf(h)
  BY <1>1, <1>3 DEF TagsOf
<1> QED
  BY <1>4, <1>5, <1>6

(* A separator that is in neither of what follows it, or in neither of     *)
(* what comes before it, is found again.                                   *)
Free(x, s) == \A i \in 1 .. Len(s) : s[i] # x
Joined(a, x, b) == a \o <<x>> \o b

IsJoin(s, a, x, b, C) ==
  /\ s \in Seq(C) /\ Len(a) \in Nat /\ Len(b) \in Nat /\ Len(s) = Len(a) + 1 + Len(b)
  /\ \A i \in 1 .. Len(a) : s[i] = a[i]
  /\ s[Len(a) + 1] = x
  /\ \A i \in 1 .. Len(b) : s[Len(a) + 1 + i] = b[i]

LEMMA JoinedIs ==
  ASSUME NEW C, NEW x \in C, NEW a \in Seq(C), NEW b \in Seq(C)
  PROVE  IsJoin(Joined(a, x, b), a, x, b, C)
<1> DEFINE c == a \o <<x>>
<1>1. Len(a) \in Nat /\ Len(b) \in Nat
  OBVIOUS
<1>2. /\ c \in Seq(C) /\ Len(c) = Len(a) + 1
      /\ \A i \in 1 .. Len(a) : c[i] = a[i]
      /\ c[Len(a) + 1] = x
  OBVIOUS
<1>3. Joined(a, x, b) = c \o b
  BY DEF Joined
<1> HIDE DEF c
<1>4. /\ c \o b \in Seq(C) /\ Len(c \o b) = Len(c) + Len(b)
      /\ \A i \in 1 .. Len(c) + Len(b) :
           (c \o b)[i] = IF i <= Len(c) THEN c[i] ELSE b[i - Len(c)]
  BY <1>2, ConcatProperties
<1>5. \A i \in 1 .. Len(a) + 1 : i \in 1 .. Len(c) + Len(b) /\ i <= Len(c)
  BY <1>1, <1>2
<1>6. \A i \in 1 .. Len(b) :
        /\ Len(a) + 1 + i \in 1 .. Len(c) + Len(b) /\ ~(Len(a) + 1 + i <= Len(c))
        /\ (Len(a) + 1 + i) - Len(c) = i
  BY <1>1, <1>2
<1>7. \A i \in 1 .. Len(a) : i \in 1 .. Len(a) + 1
  BY <1>1
<1>8. Len(a) + 1 \in 1 .. Len(a) + 1
  BY <1>1
<1> QED
  BY <1>1, <1>2, <1>3, <1>4, <1>5, <1>6, <1>7, <1>8 DEF IsJoin

(* s, taken apart at a separator in two ways.                              *)
JoinedTwice(s, x, a, f, b, g, C) == IsJoin(s, a, x, f, C) /\ IsJoin(s, b, x, g, C)

LEMMA SeparatorPlace ==
  ASSUME NEW C, NEW x, NEW s, NEW a, NEW f, NEW b, NEW g,
         JoinedTwice(s, x, a, f, b, g, C), Free(x, f) \/ Free(x, b)
  PROVE  ~(Len(a) < Len(b))
<1> SUFFICES ASSUME Len(a) < Len(b) PROVE FALSE
  OBVIOUS
<1>1. /\ Len(a) \in Nat /\ Len(b) \in Nat /\ Len(f) \in Nat /\ Len(g) \in Nat
      /\ Len(a) + 1 + Len(f) = Len(b) + 1 + Len(g)
      /\ \A i \in 1 .. Len(f) : s[Len(a) + 1 + i] = f[i]
      /\ \A i \in 1 .. Len(b) : s[i] = b[i]
      /\ s[Len(a) + 1] = x /\ s[Len(b) + 1] = x
  BY DEF JoinedTwice, IsJoin
<1>2. CASE Free(x, f)
  <2>1. PICK i \in 1 .. Len(f) : Len(a) + 1 + i = Len(b) + 1
    <3>1. Len(b) - Len(a) \in 1 .. Len(f) /\ Len(a) + 1 + (Len(b) - Len(a)) = Len(b) + 1
      BY <1>1
    <3> QED
      BY <3>1
  <2> QED
    BY <1>1, <1>2, <2>1 DEF Free
<1>3. CASE Free(x, b)
  <2>1. Len(a) + 1 \in 1 .. Len(b)
    BY <1>1
  <2> QED
    BY <1>1, <1>3, <2>1 DEF Free
<1> QED
  BY <1>2, <1>3

LEMMA Separated ==
  ASSUME NEW C, NEW x \in C,
         NEW a \in Seq(C), NEW b \in Seq(C), NEW f \in Seq(C), NEW g \in Seq(C),
         Joined(a, x, f) = Joined(b, x, g),
         (Free(x, f) /\ Free(x, g)) \/ (Free(x, a) /\ Free(x, b))
  PROVE  a = b /\ f = g
<1>1. PICK s : s = Joined(a, x, f)
  OBVIOUS
<1>2. IsJoin(s, a, x, f, C)
  BY <1>1, JoinedIs
<1>3. IsJoin(s, b, x, g, C)
  <2>1. IsJoin(Joined(b, x, g), b, x, g, C)
    BY JoinedIs
  <2> QED
    BY <1>1, <2>1
<1>4. ~(Len(a) < Len(b)) /\ ~(Len(b) < Len(a))
  <2>1. JoinedTwice(s, x, a, f, b, g, C) /\ JoinedTwice(s, x, b, g, a, f, C)
    BY <1>2, <1>3 DEF JoinedTwice
  <2> QED
    BY <2>1, SeparatorPlace
<1>5. Len(a) = Len(b) /\ Len(f) = Len(g)
  BY <1>2, <1>3, <1>4 DEF IsJoin
<1>6. \A i \in 1 .. Len(a) : a[i] = b[i]
  BY <1>2, <1>3, <1>5 DEF IsJoin
<1>7. \A i \in 1 .. Len(f) : f[i] = g[i]
  BY <1>2, <1>3, <1>5 DEF IsJoin
<1> QED
  BY <1>5, <1>6, <1>7, SeqEqual

(* A field tells the repository and the tag: a name has no '=' in it.      *)
Row == [repo : Repos, tag : Tags, fallback : BOOLEAN]
Chars == STRING \cup {"=", ";"}

LEMMA SetHasElements ==
  ASSUME NEW C, NEW s \in Seq(C)
  PROVE  \A i \in 1 .. Len(s) : s[i] \in ToSet(s)
BY DEF ToSet

LEMMA FieldType ==
  ASSUME NEW v \in Row
  PROVE  /\ v.repo \in Repos /\ v.tag \in Seq(Chars) /\ RepoName[v.repo] \in Seq(Chars)
         /\ Field(v) = Joined(RepoName[v.repo], "=", v.tag)
         /\ Field(v) \in Seq(Chars)
         /\ Free("=", RepoName[v.repo])
         /\ ";" \notin ToSet(v.tag) => Free(";", Field(v))
<1>1. PICK n, t : n = RepoName[v.repo] /\ t = v.tag
  OBVIOUS
<1>2. v.repo \in Repos /\ t \in Seq(STRING) /\ n \in Seq(STRING)
  <2>1. v.repo \in Repos /\ v.tag \in Tags
    BY DEF Row
  <2> QED
    BY <1>1, <2>1, TagAssumption, RepoAssumption
<1>3. STRING \subseteq Chars /\ "=" \in Chars /\ "=" # ";"
  BY DEF Chars
<1>4. t \in Seq(Chars) /\ n \in Seq(Chars)
  BY <1>2, <1>3, SeqMonotonic
<1>5. Field(v) = Joined(n, "=", t)
  BY <1>1 DEF Field, Joined
<1>6. IsJoin(Field(v), n, "=", t, Chars)
  BY <1>3, <1>4, <1>5, JoinedIs
<1>7. Free("=", n) /\ Free(";", n)
  <2>1. "=" \notin ToSet(n) /\ ";" \notin ToSet(n)
    BY <1>1, <1>2, RepoAssumption
  <2> QED
    BY <1>4, <2>1, SetHasElements DEF Free
<1>8. ASSUME ";" \notin ToSet(t) PROVE Free(";", Field(v))
  <2>1. \A i \in 1 .. Len(t) : t[i] # ";"
    BY <1>4, <1>8, SetHasElements
  <2>2. ASSUME NEW i \in 1 .. Len(Field(v)) PROVE Field(v)[i] # ";"
    <3>1. PICK f : f = Field(v)
      OBVIOUS
    <3>2. CASE i \in 1 .. Len(n)
      BY <1>6, <1>7, <3>1, <3>2 DEF Free, IsJoin
    <3>3. CASE i = Len(n) + 1
      BY <1>3, <1>6, <3>1, <3>3 DEF IsJoin
    <3>4. CASE i \notin 1 .. Len(n) /\ i # Len(n) + 1
      <4>1. PICK k : k = i - (Len(n) + 1)
        OBVIOUS
      <4>2. k \in 1 .. Len(t) /\ Len(n) + 1 + k = i
        BY <1>6, <3>4, <4>1 DEF IsJoin
      <4> QED
        BY <1>6, <2>1, <4>2 DEF IsJoin
    <3> QED
      BY <3>2, <3>3, <3>4
  <2> QED
    BY <2>2 DEF Free
<1> QED
  BY <1>1, <1>2, <1>4, <1>5, <1>6, <1>7, <1>8 DEF IsJoin

LEMMA FieldTells ==
  ASSUME NEW v \in Row, NEW w \in Row
  PROVE  Field(v) = Field(w) <=> v.repo = w.repo /\ v.tag = w.tag
<1>1. ASSUME Field(v) = Field(w) PROVE v.repo = w.repo /\ v.tag = w.tag
  <2>1. PICK n, m, t, u : /\ n = RepoName[v.repo] /\ t = v.tag
                          /\ m = RepoName[w.repo] /\ u = w.tag
    OBVIOUS
  <2>2. /\ n \in Seq(Chars) /\ t \in Seq(Chars) /\ Free("=", n) /\ v.repo \in Repos
        /\ Field(v) = Joined(n, "=", t)
    BY <2>1, FieldType
  <2>3. /\ m \in Seq(Chars) /\ u \in Seq(Chars) /\ Free("=", m) /\ w.repo \in Repos
        /\ Field(w) = Joined(m, "=", u)
    BY <2>1, FieldType
  <2>4. "=" \in Chars /\ Joined(n, "=", t) = Joined(m, "=", u)
    BY <1>1, <2>2, <2>3 DEF Chars
  <2>5. n = m /\ t = u
    BY <2>2, <2>3, <2>4, Separated
  <2> QED
    BY <2>1, <2>2, <2>3, <2>5, RepoAssumption
<1> QED
  BY <1>1 DEF Field

(* u is what the identity comes to with each row of a manifest.            *)
Spells(u, rc, rows) ==
  /\ u \in [0 .. Len(rows) -> Seq(Chars)] /\ u[0] = Field(rc)
  /\ u[Len(rows)] = Identity([recipe |-> rc, components |-> rows])
  /\ \A k \in 0 .. Len(rows) - 1 : u[k + 1] = Joined(u[k], ";", Field(rows[k + 1]))

LEMMA IdentitySpelt ==
  ASSUME NEW rc \in Row, NEW rows \in Seq(Row)
  PROVE  \E u : Spells(u, rc, rows)
<1> DEFINE n == Len(rows)
           V == Seq(Chars)
           base == Field(rc)
           Put(s, v) == s \o <<";">> \o Field(v)
           E(iter) == [ks \in SUBSET (DOMAIN rows) |->
                         IF ks = {} THEN base
                         ELSE Put(iter[ks \ {Max(ks)}], rows[Max(ks)])]
           M == CHOOSE iter : iter = E(iter)
           f == [x \in V \X (1 .. n) |-> Put(x[1], rows[x[2]])]
<1>1. Identity([recipe |-> rc, components |-> rows]) = M[DOMAIN rows]
  BY DEF Identity, FoldLeft, MapThenFoldSet
<1>2. n \in Nat /\ DOMAIN rows = 1 .. n /\ base \in V
  <2>1. n \in Nat /\ DOMAIN rows = 1 .. n
    OBVIOUS
  <2>2. Field(rc) \in Seq(Chars)
    BY FieldType
  <2> QED
    BY <2>1, <2>2
<1>3. \A l \in V, k \in 1 .. n : Put(l, rows[k]) \in V /\ Put(l, rows[k]) = Joined(l, ";", Field(rows[k]))
  <2> SUFFICES ASSUME NEW l \in V, NEW k \in 1 .. n
               PROVE  Put(l, rows[k]) \in V /\ Put(l, rows[k]) = Joined(l, ";", Field(rows[k]))
    OBVIOUS
  <2>1. rows[k] \in Row
    OBVIOUS
  <2>2. Field(rows[k]) \in V /\ ";" \in Chars
    BY <2>1, FieldType DEF Chars
  <2>3. IsJoin(Joined(l, ";", Field(rows[k])), l, ";", Field(rows[k]), Chars)
    BY <2>2, JoinedIs
  <2> QED
    BY <2>3 DEF IsJoin, Joined
<1> HIDE DEF V, Put, base
<1>4. f \in [V \X (1 .. n) -> V] /\ \A l \in V, k \in 1 .. n : f[<<l, k>>] = Put(l, rows[k])
  BY <1>3
<1> HIDE DEF f
<1>5. PICK g : FoldsOver(g, V, base, f, n)
  BY <1>2, <1>4, FoldExists
<1>6. g = E(g)
  <2>1. ASSUME NEW ks \in SUBSET (1 .. n), ks # {}
        PROVE  f[<<g[ks \ {Max(ks)}], Max(ks)>>] = Put(g[ks \ {Max(ks)}], rows[Max(ks)])
    <3>1. Max(ks) \in 1 .. n
      BY <1>2, <2>1, MaxOf
    <3>2. g[ks \ {Max(ks)}] \in V
      BY <1>5 DEF FoldsOver
    <3> QED
      BY <1>4, <3>1, <3>2
  <2> QED
    BY <1>2, <1>5, <2>1 DEF FoldsOver
<1>7. M = E(M)
  <2> HIDE DEF E
  <2> QED
    BY <1>6
<1>8. /\ M[{}] = base
      /\ \A ks \in SUBSET (1 .. n) :
           (ks # {} /\ M[ks \ {Max(ks)}] \in V) => M[ks] = f[<<M[ks \ {Max(ks)}], Max(ks)>>]
  <2> HIDE DEF M
  <2>1. \A ks \in SUBSET (1 .. n) :
          M[ks] = IF ks = {} THEN base ELSE Put(M[ks \ {Max(ks)}], rows[Max(ks)])
    BY <1>2, <1>7
  <2>2. \A ks \in SUBSET (1 .. n) : ks # {} => Max(ks) \in 1 .. n
    BY <1>2, MaxOf
  <2> QED
    BY <1>4, <2>1, <2>2
<1>9. PICK h \in [0 .. n -> V] :
        /\ h[0] = base /\ h[n] = M[1 .. n]
        /\ \A k \in 0 .. n - 1 : h[k + 1] = f[<<h[k], k + 1>>]
  <2> HIDE DEF M
  <2>1. Iterates(M, V, base, f, n)
    BY <1>2, <1>4, <1>8 DEF Iterates
  <2> QED
    BY <2>1, FoldSteps
<1>10. \A k \in 0 .. n - 1 : h[k + 1] = Joined(h[k], ";", Field(rows[k + 1]))
  <2> SUFFICES ASSUME NEW k \in 0 .. n - 1
               PROVE  h[k + 1] = Joined(h[k], ";", Field(rows[k + 1]))
    OBVIOUS
  <2> HIDE DEF M, E
  <2>1. PICK i : i = k + 1 /\ k \in 0 .. n /\ i \in 1 .. n
    BY <1>2
  <2>2. PICK l \in V : l = h[k]
    BY <1>9, <2>1
  <2>3. h[i] = f[<<l, i>>]
    BY <1>9, <2>1, <2>2
  <2>4. f[<<l, i>>] = Put(l, rows[i])
    BY <1>4, <2>1
  <2>5. Put(l, rows[i]) = Joined(l, ";", Field(rows[i]))
    BY <1>3, <2>1
  <2> QED
    BY <2>1, <2>2, <2>3, <2>4, <2>5
<1> HIDE DEF M
<1> QED
  BY <1>1, <1>2, <1>9, <1>10 DEF Spells, V, base

(* The fields of two manifests are the same, one by one.                   *)
SameFields(rc, rows, rd, other, k) ==
  /\ Field(rc) = Field(rd)
  /\ \A i \in 1 .. k : Field(rows[i]) = Field(other[i])

Unseparated(rc, rows) ==
  Free(";", Field(rc)) /\ \A i \in 1 .. Len(rows) : Free(";", Field(rows[i]))

LEMMA FieldsOfIdentity ==
  ASSUME NEW rc \in Row, NEW rows \in Seq(Row), Unseparated(rc, rows),
         NEW rd \in Row, NEW other \in Seq(Row), Unseparated(rd, other),
         Identity([recipe |-> rc, components |-> rows])
           = Identity([recipe |-> rd, components |-> other])
  PROVE  Len(rows) = Len(other) /\ SameFields(rc, rows, rd, other, Len(rows))
<1>1. PICK n, m : n = Len(rows) /\ m = Len(other)
  OBVIOUS
<1>2. n \in Nat /\ m \in Nat /\ n \in 0 .. n /\ m \in 0 .. m
  BY <1>1
<1>3. PICK u : Spells(u, rc, rows)
  BY IdentitySpelt
<1>4. PICK w : Spells(w, rd, other)
  BY IdentitySpelt
<1>5. /\ u \in [0 .. n -> Seq(Chars)] /\ w \in [0 .. m -> Seq(Chars)]
      /\ u[0] = Field(rc) /\ w[0] = Field(rd) /\ u[n] = w[m]
      /\ \A k \in 0 .. n - 1 : u[k + 1] = Joined(u[k], ";", Field(rows[k + 1]))
      /\ \A k \in 0 .. m - 1 : w[k + 1] = Joined(w[k], ";", Field(other[k + 1]))
  BY <1>1, <1>3, <1>4 DEF Spells
<1>6. /\ \A k \in 0 .. n - 1 : /\ Field(rows[k + 1]) \in Seq(Chars)
                               /\ Free(";", Field(rows[k + 1]))
      /\ \A k \in 0 .. m - 1 : /\ Field(other[k + 1]) \in Seq(Chars)
                               /\ Free(";", Field(other[k + 1]))
  <2>1. ASSUME NEW k \in 0 .. n - 1
        PROVE  Field(rows[k + 1]) \in Seq(Chars) /\ Free(";", Field(rows[k + 1]))
    <3>1. k + 1 \in 1 .. Len(rows) /\ rows[k + 1] \in Row
      BY <1>1, <1>2
    <3> QED
      BY <3>1, FieldType DEF Unseparated
  <2>2. ASSUME NEW k \in 0 .. m - 1
        PROVE  Field(other[k + 1]) \in Seq(Chars) /\ Free(";", Field(other[k + 1]))
    <3>1. k + 1 \in 1 .. Len(other) /\ other[k + 1] \in Row
      BY <1>1, <1>2
    <3> QED
      BY <3>1, FieldType DEF Unseparated
  <2> QED
    BY <2>1, <2>2
<1>7. Free(";", Field(rc)) /\ Free(";", Field(rd)) /\ ";" \in Chars
  BY DEF Unseparated, Chars
<1>8. \A s, f \in Seq(Chars) : ~Free(";", Joined(s, ";", f))
  <2> SUFFICES ASSUME NEW s \in Seq(Chars), NEW f \in Seq(Chars)
               PROVE  ~Free(";", Joined(s, ";", f))
    OBVIOUS
  <2>1. IsJoin(Joined(s, ";", f), s, ";", f, Chars)
    BY <1>7, JoinedIs
  <2>2. PICK t : t = Joined(s, ";", f)
    OBVIOUS
  <2>3. /\ Len(s) \in Nat /\ Len(f) \in Nat /\ Len(t) = Len(s) + 1 + Len(f)
        /\ t[Len(s) + 1] = ";"
    BY <2>1, <2>2 DEF IsJoin
  <2>4. Len(s) + 1 \in 1 .. Len(t)
    <3>1. \A a, b \in Nat : a + 1 \in 1 .. a + 1 + b
      OBVIOUS
    <3> QED
      BY <2>3, <3>1
  <2> QED
    BY <2>2, <2>3, <2>4 DEF Free
<1> DEFINE Ends(k) == \A j \in 0 .. m :
                        u[k] = w[j] => k = j /\ SameFields(rc, rows, rd, other, k)
           G == {k \in 0 .. n : Ends(k)}
<1>9. Ends(0)
  <2> SUFFICES ASSUME NEW j \in 0 .. m, u[0] = w[j]
               PROVE  0 = j /\ SameFields(rc, rows, rd, other, 0)
    OBVIOUS
  <2>1. CASE j = 0
    <3>1. Field(rc) = Field(rd)
      BY <1>5, <2>1
    <3>2. \A i \in 1 .. 0 : Field(rows[i]) = Field(other[i])
      OBVIOUS
    <3> QED
      BY <2>1, <3>1, <3>2 DEF SameFields
  <2>2. CASE j # 0
    <3>1. j - 1 \in 0 .. m - 1 /\ (j - 1) + 1 = j /\ j - 1 \in 0 .. m
      BY <1>2, <2>2
    <3>2. PICK l : l = j - 1
      OBVIOUS
    <3>3. w[j] = Joined(w[l], ";", Field(other[j])) /\ Field(other[j]) \in Seq(Chars)
      BY <1>5, <1>6, <3>1, <3>2
    <3>4. w[l] \in Seq(Chars)
      BY <1>5, <3>1, <3>2
    <3> QED
      BY <1>5, <1>7, <1>8, <3>3, <3>4
  <2> QED
    BY <2>1, <2>2
<1>10. ASSUME NEW k \in 0 .. n, k + 1 <= n, Ends(k)
       PROVE  Ends(k + 1)
  <2> SUFFICES ASSUME NEW j \in 0 .. m, u[k + 1] = w[j]
               PROVE  k + 1 = j /\ SameFields(rc, rows, rd, other, k + 1)
    OBVIOUS
  <2>1. k \in 0 .. n - 1
    BY <1>2, <1>10
  <2>2. PICK f : f = Field(rows[k + 1])
    OBVIOUS
  <2>3. /\ u[k + 1] = Joined(u[k], ";", f) /\ f \in Seq(Chars) /\ Free(";", f)
        /\ u[k] \in Seq(Chars)
    BY <1>5, <1>6, <2>1, <2>2
  <2>4. CASE j = 0
    BY <1>5, <1>7, <1>8, <2>3, <2>4
  <2>5. CASE j # 0
    <3>1. PICK l : l = j - 1
      OBVIOUS
    <3>2. l \in 0 .. m - 1 /\ l + 1 = j /\ l \in 0 .. m
      BY <1>2, <2>5, <3>1
    <3>3. PICK g : g = Field(other[j])
      OBVIOUS
    <3>4. /\ w[j] = Joined(w[l], ";", g) /\ g \in Seq(Chars) /\ Free(";", g)
          /\ w[l] \in Seq(Chars)
      BY <1>5, <1>6, <3>2, <3>3
    <3>5. u[k] = w[l] /\ f = g
      <4>1. PICK a, b : a = u[k] /\ b = w[l]
        OBVIOUS
      <4>2. PICK x \in Chars : x = ";"
        BY <1>7
      <4>3. /\ a \in Seq(Chars) /\ b \in Seq(Chars) /\ Joined(a, x, f) = Joined(b, x, g)
            /\ f \in Seq(Chars) /\ g \in Seq(Chars) /\ Free(x, f) /\ Free(x, g)
        BY <2>3, <3>4, <4>1, <4>2
      <4>4. a = b /\ f = g
        BY <4>3, Separated
      <4> QED
        BY <4>1, <4>4
    <3>6. k = l /\ SameFields(rc, rows, rd, other, k)
      BY <1>10, <3>2, <3>5
    <3>7. \A i \in 1 .. k + 1 : i \in 1 .. k \/ i = k + 1
      BY <1>2
    <3> QED
      BY <2>2, <3>2, <3>3, <3>5, <3>6, <3>7 DEF SameFields
  <2> QED
    BY <2>4, <2>5
<1>11. \A k \in 0 .. n : k \in G
  <2> HIDE DEF Ends
  <2>1. 0 \in G
    BY <1>2, <1>9
  <2>2. ASSUME NEW k \in 0 .. n, k + 1 <= n, k \in G
        PROVE  k + 1 \in G
    BY <1>2, <1>10, <2>2
  <2> HIDE DEF G
  <2> QED
    BY <1>2, <2>1, <2>2, UpTo
<1>12. Ends(n)
  <2> HIDE DEF Ends
  <2> QED
    BY <1>2, <1>11
<1> QED
  BY <1>1, <1>2, <1>5, <1>12

(* The same fields make the same identity.                                 *)
LEMMA IdentityOfFields ==
  ASSUME NEW rc \in Row, NEW rows \in Seq(Row), NEW rd \in Row, NEW other \in Seq(Row),
         Len(rows) = Len(other), SameFields(rc, rows, rd, other, Len(rows))
  PROVE  Identity([recipe |-> rc, components |-> rows])
           = Identity([recipe |-> rd, components |-> other])
<1>1. PICK n : n = Len(rows) /\ n = Len(other)
  OBVIOUS
<1>2. n \in Nat
  BY <1>1
<1>3. PICK u : Spells(u, rc, rows)
  BY IdentitySpelt
<1>4. PICK w : Spells(w, rd, other)
  BY IdentitySpelt
<1>5. /\ u[0] = Field(rc) /\ w[0] = Field(rd)
      /\ \A k \in 0 .. n - 1 : u[k + 1] = Joined(u[k], ";", Field(rows[k + 1]))
      /\ \A k \in 0 .. n - 1 : w[k + 1] = Joined(w[k], ";", Field(other[k + 1]))
  BY <1>1, <1>3, <1>4 DEF Spells
<1> DEFINE G == {k \in 0 .. n : u[k] = w[k]}
<1>6. 0 \in G
  <2>1. 0 \in 0 .. n /\ Field(rc) = Field(rd)
    BY <1>2 DEF SameFields
  <2> QED
    BY <1>5, <2>1
<1>7. ASSUME NEW k \in 0 .. n, k + 1 <= n, k \in G
      PROVE  k + 1 \in G
  <2>1. k \in 0 .. n - 1 /\ k + 1 \in 1 .. n /\ k + 1 \in 0 .. n
    BY <1>2, <1>7
  <2>2. Field(rows[k + 1]) = Field(other[k + 1])
    BY <1>1, <2>1 DEF SameFields
  <2> QED
    BY <1>5, <1>7, <2>1, <2>2
<1>8. n \in G
  <2>1. n \in 0 .. n
    BY <1>2
  <2> HIDE DEF G
  <2> QED
    BY <1>2, <1>6, <1>7, <2>1, UpTo
<1> QED
  BY <1>1, <1>3, <1>4, <1>8 DEF Spells

(* The manifest of a harvest, row by row.                                  *)
LEMMA ManifestRows ==
  ASSUME NEW h, IsHarvest(h), NEW tag \in Tags
  PROVE  \E rows \in Seq(Row) :
           /\ ManifestOf(tag, h) = [recipe |-> Version(RecipeRepo, tag, FALSE),
                                    components |-> rows]
           /\ Version(RecipeRepo, tag, FALSE) \in Row
           /\ Len(rows) = Len(PairsOf(h))
           /\ \A i \in 1 .. Len(rows) : PairsOf(h)[i] = <<rows[i].repo, rows[i].tag>>
           /\ Plain(tag, h) => Unseparated(Version(RecipeRepo, tag, FALSE), rows)
<1> DEFINE n == Cardinality(DOMAIN h)
           r == Sorted(DOMAIN h)
           row(q) == Version(q, h[q].tag, h[q].fallback)
           rows == [i \in 1 .. n |-> row(r[i])]
           rc == Version(RecipeRepo, tag, FALSE)
<1>1. n \in Nat /\ r \in [1 .. n -> DOMAIN h] /\ DOMAIN r = 1 .. n
  BY RepoAssumption, SortedLists DEF IsHarvest
<1>2. \A x \in DOMAIN h : x \in Repos /\ h[x].tag \in Tags /\ h[x].fallback \in BOOLEAN
  BY DEF IsHarvest
<1>3. \A x \in DOMAIN h : /\ row(x) \in Row /\ row(x).tag = h[x].tag
                          /\ <<row(x).repo, row(x).tag>> = <<x, h[x].tag>>
  BY <1>2 DEF Row, Version
<1>4. rc \in Row /\ rc.tag = tag
  BY RepoAssumption DEF Row, Version
<1>5. ManifestOf(tag, h) = [recipe |-> rc, components |-> rows]
  BY <1>1 DEF ManifestOf, Manifest
<1>6. PairsOf(h) = [i \in 1 .. n |-> <<r[i], h[r[i]].tag>>]
  BY DEF PairsOf
<1> HIDE DEF r, n, row, rc
<1>7. \A i \in 1 .. n : r[i] \in DOMAIN h
  BY <1>1
<1>8. \A i \in 1 .. n : rows[i] = row(r[i]) /\ rows[i] \in Row
  BY <1>3, <1>7
<1>9. rows \in Seq(Row) /\ Len(rows) = n
  <2>1. rows \in [1 .. n -> Row]
    BY <1>8
  <2> HIDE DEF rows
  <2> QED
    BY <1>1, <2>1
<1>10. Len(PairsOf(h)) = n
  BY <1>1, <1>6
<1> HIDE DEF rows
<1>11. \A i \in 1 .. n : PairsOf(h)[i] = <<rows[i].repo, rows[i].tag>>
  BY <1>3, <1>6, <1>7, <1>8
<1>12. ASSUME Plain(tag, h) PROVE Unseparated(rc, rows)
  <2>1. ";" \notin ToSet(tag) /\ \A x \in DOMAIN h : ";" \notin ToSet(h[x].tag)
    BY <1>12 DEF Plain
  <2>2. Free(";", Field(rc))
    BY <1>4, <2>1, FieldType
  <2>3. ASSUME NEW i \in 1 .. n PROVE Free(";", Field(rows[i]))
    <3>1. PICK x \in DOMAIN h : rows[i] = row(x)
      BY <1>7, <1>8
    <3>2. row(x) \in Row /\ row(x).tag = h[x].tag
      BY <1>3
    <3>3. PICK v \in Row : v = rows[i] /\ v.tag = h[x].tag
      BY <3>1, <3>2
    <3>4. ";" \notin ToSet(v.tag)
      BY <2>1, <3>3
    <3>5. Free(";", Field(v))
      BY <3>4, FieldType
    <3> QED
      BY <3>3, <3>5
  <2> QED
    BY <1>9, <2>2, <2>3 DEF Unseparated
<1> QED
  BY <1>4, <1>5, <1>9, <1>10, <1>11, <1>12 DEF rc

LEMMA SamePairs ==
  ASSUME NEW g, IsHarvest(g), NEW h, IsHarvest(h)
  PROVE  PairsOf(g) = PairsOf(h) <=> TagsOf(g) = TagsOf(h)
<1>1. ASSUME PairsOf(g) = PairsOf(h) PROVE TagsOf(g) = TagsOf(h)
  <2>1. \A f : f \in TagsOf(g) <=> f \in TagsOf(h)
    BY <1>1, PairsType
  <2> QED
    BY <2>1
<1>2. ASSUME TagsOf(g) = TagsOf(h) PROVE PairsOf(g) = PairsOf(h)
  <2>1. \A r : /\ r \in DOMAIN g => <<r, g[r].tag>> \in TagsOf(h)
               /\ r \in DOMAIN h => <<r, h[r].tag>> \in TagsOf(g)
    BY <1>2 DEF TagsOf
  <2>2. DOMAIN g = DOMAIN h
    BY <2>1 DEF TagsOf
  <2>3. \A r \in DOMAIN g : g[r].tag = h[r].tag
    BY <2>1 DEF TagsOf
  <2>4. /\ Cardinality(DOMAIN g) \in Nat
        /\ \A i \in 1 .. Cardinality(DOMAIN g) : Sorted(DOMAIN g)[i] \in DOMAIN g
    <3>1. DOMAIN g \subseteq Nat /\ IsFiniteSet(DOMAIN g)
      BY RepoAssumption DEF IsHarvest
    <3> QED
      BY <3>1, SortedLists
  <2> QED
    BY <2>2, <2>3, <2>4 DEF PairsOf
<1> QED
  BY <1>1, <1>2

(* Manifest::identity is that of the recipe's tag and of the tags of the   *)
(* repositories, whatever the fallbacks, and tells manifests apart by      *)
(* them, though nothing in it is escaped, if no tag has a ';' in it.       *)
THEOREM IdentityTells ==
  ASSUME NEW g, IsHarvest(g), NEW tg \in Tags, NEW h, IsHarvest(h), NEW th \in Tags
  PROVE  LET same == tg = th /\ TagsOf(g) = TagsOf(h)
             equal == Identity(ManifestOf(tg, g)) = Identity(ManifestOf(th, h))
         IN /\ same => equal
            /\ equal /\ Plain(tg, g) /\ Plain(th, h) => same
<1>1. PICK rc, rd : rc = Version(RecipeRepo, tg, FALSE) /\ rd = Version(RecipeRepo, th, FALSE)
  OBVIOUS
<1>2. PICK rows \in Seq(Row) :
        /\ ManifestOf(tg, g) = [recipe |-> rc, components |-> rows]
        /\ rc \in Row /\ Len(rows) = Len(PairsOf(g))
        /\ \A i \in 1 .. Len(rows) : PairsOf(g)[i] = <<rows[i].repo, rows[i].tag>>
        /\ Plain(tg, g) => Unseparated(rc, rows)
  BY <1>1, ManifestRows
<1>3. PICK other \in Seq(Row) :
        /\ ManifestOf(th, h) = [recipe |-> rd, components |-> other]
        /\ rd \in Row /\ Len(other) = Len(PairsOf(h))
        /\ \A i \in 1 .. Len(other) : PairsOf(h)[i] = <<other[i].repo, other[i].tag>>
        /\ Plain(th, h) => Unseparated(rd, other)
  BY <1>1, ManifestRows
<1>4. \A i \in 1 .. Len(rows) : rows[i] \in Row
  OBVIOUS
<1>5. \A i \in 1 .. Len(other) : other[i] \in Row
  OBVIOUS
<1>6. Field(rc) = Field(rd) <=> tg = th
  <2>1. rc.repo = rd.repo /\ rc.tag = tg /\ rd.tag = th
    BY <1>1 DEF Version
  <2> QED
    BY <1>2, <1>3, <2>1, FieldTells
<1>7. ASSUME tg = th, TagsOf(g) = TagsOf(h)
      PROVE  Identity(ManifestOf(tg, g)) = Identity(ManifestOf(th, h))
  <2>1. PairsOf(g) = PairsOf(h)
    BY <1>7, SamePairs
  <2>2. Len(rows) = Len(other)
    BY <1>2, <1>3, <2>1
  <2>3. ASSUME NEW i \in 1 .. Len(rows) PROVE Field(rows[i]) = Field(other[i])
    <3>1. rows[i].repo = other[i].repo /\ rows[i].tag = other[i].tag
      <4>1. PairsOf(g)[i] = <<rows[i].repo, rows[i].tag>>
        BY <1>2
      <4>2. PairsOf(h)[i] = <<other[i].repo, other[i].tag>>
        BY <1>3, <2>2
      <4> QED
        BY <2>1, <4>1, <4>2
    <3> QED
      BY <1>4, <1>5, <2>2, <3>1, FieldTells
  <2>4. SameFields(rc, rows, rd, other, Len(rows))
    BY <1>6, <1>7, <2>3 DEF SameFields
  <2> QED
    BY <1>2, <1>3, <2>2, <2>4, IdentityOfFields
<1>8. ASSUME Identity(ManifestOf(tg, g)) = Identity(ManifestOf(th, h)),
             Plain(tg, g), Plain(th, h)
      PROVE  tg = th /\ TagsOf(g) = TagsOf(h)
  <2>1. Len(rows) = Len(other) /\ SameFields(rc, rows, rd, other, Len(rows))
    BY <1>2, <1>3, <1>8, FieldsOfIdentity
  <2>2. ASSUME NEW i \in 1 .. Len(PairsOf(g)) PROVE PairsOf(g)[i] = PairsOf(h)[i]
    <3>1. rows[i] \in Row /\ other[i] \in Row /\ Field(rows[i]) = Field(other[i])
      BY <1>2, <1>4, <1>5, <2>1 DEF SameFields
    <3>2. rows[i].repo = other[i].repo /\ rows[i].tag = other[i].tag
      BY <3>1, FieldTells
    <3> QED
      BY <1>2, <1>3, <2>1, <3>2
  <2>3. PairsOf(g) \in Seq(Repos \X Tags) /\ PairsOf(h) \in Seq(Repos \X Tags)
    BY PairsType
  <2>4. PairsOf(g) = PairsOf(h)
    BY <1>2, <1>3, <2>1, <2>2, <2>3, SeqEqual
  <2> QED
    BY <1>6, <2>1, <2>4, SamePairs DEF SameFields
<1> QED
  BY <1>7, <1>8

-----------------------------------------------------------------------------
(* Flavors.                                                                *)

Tables == [name : FlavorNames, extends : FlavorNames \cup {NoFlavor}, assets : AssetLists]

LEMMA FlavorIs ==
  ASSUME NEW c \in Seq(Tables), NEW n, IsFlavor(c, n)
  PROVE  /\ Flavor(c, n) \in Tables /\ Flavor(c, n).name = n
         /\ n \in FlavorNames /\ n # NoFlavor
         /\ n \in NamesIn(c) /\ Base(c, n) \in NamesIn(c)
<1> DEFINE I == {i \in 1 .. Len(c) : c[i].name = n}
           k == SelectInSeq(c, LAMBDA f : f.name = n)
<1>1. DOMAIN c = 1 .. Len(c) /\ \A i \in DOMAIN c : c[i] \in Tables
  OBVIOUS
<1>2. I # {} /\ I \subseteq Nat
  BY <1>1 DEF IsFlavor
<1>3. k = Min(I)
  BY <1>2 DEF SelectInSeq
<1>4. k \in DOMAIN c /\ c[k].name = n
  <2> HIDE DEF k
  <2> QED
    BY <1>1, <1>2, <1>3, MinOf
<1>5. Flavor(c, n) = c[k]
  BY DEF Flavor
<1> HIDE DEF k, I
<1>6. c[k] \in Tables /\ c[k].name \in FlavorNames
  BY <1>1, <1>4 DEF Tables
<1> QED
  BY <1>4, <1>5, <1>6, NoneAssumption DEF NamesIn, Base

LEMMA NamesFinite ==
  ASSUME NEW c \in Seq(Tables)
  PROVE  IsFiniteSet(NamesIn(c))
<1> DEFINE d == DOMAIN c
           f == [i \in d |-> c[i].name]
           g == [i \in d |-> c[i].extends]
           F == {c[i].name : i \in d}
           H == {c[i].extends : i \in d}
<1>1. IsFiniteSet(d)
  <2>1. d = 1 .. Len(c) /\ Len(c) \in Nat /\ 1 \in Int /\ Len(c) \in Int
    OBVIOUS
  <2> HIDE DEF d
  <2> QED
    BY <2>1, FS_Interval
<1>2. f \in Surjection(d, F) /\ g \in Surjection(d, H)
  BY DEF Surjection
<1>3. IsFiniteSet(F) /\ IsFiniteSet(H)
  <2> HIDE DEF f, g, d, F, H
  <2> QED
    BY <1>1, <1>2, FS_Surjection
<1>4. NamesIn(c) = F \cup H
  BY DEF NamesIn
<1> HIDE DEF F, H
<1> QED
  BY <1>3, <1>4, FS_Union

-----------------------------------------------------------------------------
(* The frames from name n on with a chain of names behind it, when w has   *)
(* those of every longer chain.                                            *)
Frames(c, w, n, chain) ==
  IF n \in chain \/ ~IsFlavor(c, n) THEN <<>>
  ELSE (IF Base(c, n) = NoFlavor THEN <<>> ELSE w[<<Base(c, n), chain \cup {n}>>]) \o <<n>>

(* w has the frames from each name of U on. *)
Walks(c, U, w) ==
  /\ w \in [U \X SUBSET U -> Seq(U)]
  /\ \A n \in U, chain \in SUBSET U : w[<<n, chain>>] = Frames(c, w, n, chain)

(* The names a walk may come to, and the chain that may still grow. *)
LEMMA ChainGrows ==
  ASSUME NEW U, IsFiniteSet(U)
  PROVE  \E N \in Nat : \E m \in [U \X SUBSET U -> 0 .. N] :
           \A n \in U, x \in U, chain \in SUBSET U :
             n \notin chain => m[<<x, chain \cup {n}>>] < m[<<n, chain>>]
<1> DEFINE N == Cardinality(U)
           m == [at \in U \X SUBSET U |-> Cardinality(U \ at[2])]
<1>1. N \in Nat
  BY FS_CardinalityType
<1>2. \A T \in SUBSET U : Cardinality(T) \in 0 .. N /\ IsFiniteSet(T)
  <2> SUFFICES ASSUME NEW T \in SUBSET U
               PROVE  Cardinality(T) \in 0 .. N /\ IsFiniteSet(T)
    OBVIOUS
  <2>1. IsFiniteSet(T) /\ Cardinality(T) <= N
    BY FS_Subset
  <2>2. Cardinality(T) \in Nat
    BY <2>1, FS_CardinalityType
  <2> HIDE DEF N
  <2> QED
    BY <1>1, <2>1, <2>2
<1> HIDE DEF N
<1>3. m \in [U \X SUBSET U -> 0 .. N]
  BY <1>2
<1>4. ASSUME NEW n \in U, NEW x \in U, NEW chain \in SUBSET U, n \notin chain
      PROVE  m[<<x, chain \cup {n}>>] < m[<<n, chain>>]
  <2>1. U \ (chain \cup {n}) = (U \ chain) \ {n} /\ n \in U \ chain
    BY <1>4
  <2>2. Cardinality((U \ chain) \ {n}) = Cardinality(U \ chain) - 1
    BY <1>2, <2>1, FS_RemoveElement
  <2>3. Cardinality(U \ chain) \in Nat
    BY <1>1, <1>2
  <2>4. /\ m[<<x, chain \cup {n}>>] = Cardinality(U \ (chain \cup {n}))
        /\ m[<<n, chain>>] = Cardinality(U \ chain)
    OBVIOUS
  <2>5. Cardinality(U \ (chain \cup {n})) = Cardinality(U \ chain) - 1
    BY <2>1, <2>2
  <2>6. \A a \in Nat : a - 1 < a
    OBVIOUS
  <2> HIDE DEF m
  <2> QED
    BY <2>3, <2>4, <2>5, <2>6, Zenon
<1> HIDE DEF m
<1>5. \A n \in U, x \in U, chain \in SUBSET U :
        n \notin chain => m[<<x, chain \cup {n}>>] < m[<<n, chain>>]
  BY <1>4
<1> QED
  BY <1>1, <1>3, <1>5

(* Induction over the walk: what is said of a name and a chain is a set.   *)
LEMMA AlongWalk ==
  ASSUME NEW U, IsFiniteSet(U), NEW P,
         \A n \in U, chain \in SUBSET U :
           (n \notin chain => \A x \in U : <<x, chain \cup {n}>> \in P) => <<n, chain>> \in P
  PROVE  \A n \in U, chain \in SUBSET U : <<n, chain>> \in P
<1> DEFINE X == U \X SUBSET U
<1>0. PICK N \in Nat : \E m \in [X -> 0 .. N] :
        \A n \in U, x \in U, chain \in SUBSET U :
          n \notin chain => m[<<x, chain \cup {n}>>] < m[<<n, chain>>]
  BY ChainGrows
<1>1. PICK m \in [X -> 0 .. N] :
        \A n \in U, x \in U, chain \in SUBSET U :
          n \notin chain => m[<<x, chain \cup {n}>>] < m[<<n, chain>>]
  BY <1>0
<1>2. ASSUME NEW at \in X, \A y \in X : m[y] < m[at] => y \in P
      PROVE  at \in P
  <2>1. PICK n \in U, chain \in SUBSET U : at = <<n, chain>>
    OBVIOUS
  <2>2. ASSUME NEW x \in U, n \notin chain
        PROVE  <<x, chain \cup {n}>> \in P
    <3>1. <<x, chain \cup {n}>> \in X /\ m[<<x, chain \cup {n}>>] < m[<<n, chain>>]
      BY <1>1, <2>2
    <3> QED
      BY <1>2, <2>1, <3>1
  <2> QED
    BY <2>1, <2>2
<1>3. \A at \in X : at \in P
  <2> HIDE DEF X
  <2> QED
    BY <1>1, <1>2, ByMeasure
<1> QED
  BY <1>3

(* The table Layers chooses, over the names U, has those frames.           *)
WalkOf(c, U) ==
  CHOOSE w : w = [at \in U \X SUBSET U |->
    LET n == at[1]
        chain == at[2]
    IN IF n \in chain \/ ~IsFlavor(c, n) THEN <<>>
       ELSE (IF Flavor(c, n).extends = NoFlavor THEN <<>>
             ELSE w[<<Flavor(c, n).extends, chain \cup {n}>>]) \o <<n>>]

LEMMA LayersOfWalk ==
  \A c, n : Layers(c, n) = WalkOf(c, NamesIn(c) \cup {n})[<<n, {}>>]
BY DEF Layers, WalkOf

LEMMA WalkOfWalks ==
  ASSUME NEW c \in Seq(Tables), NEW U, IsFiniteSet(U), NamesIn(c) \subseteq U
  PROVE  Walks(c, U, WalkOf(c, U))
<1> DEFINE X == U \X SUBSET U
           V == Seq(U)
           E(w) == [at \in X |->
                      LET n == at[1]
                          chain == at[2]
                      IN IF n \in chain \/ ~IsFlavor(c, n) THEN <<>>
                         ELSE (IF Flavor(c, n).extends = NoFlavor THEN <<>>
                               ELSE w[<<Flavor(c, n).extends, chain \cup {n}>>]) \o <<n>>]
           W == CHOOSE w : w = E(w)
<1>1. \A w, n, chain : <<n, chain>> \in X => E(w)[<<n, chain>>] = Frames(c, w, n, chain)
  BY DEF Frames, Base
<1>2. \A w, w_ : (\A at \in X : E(w)[at] = w_[at]) /\ w_ \in [X -> V] => E(w) = w_
  OBVIOUS
<1> HIDE DEF E
<1>3. ASSUME NEW n \in U, NEW chain \in SUBSET U, IsFlavor(c, n)
      PROVE  <<Base(c, n), chain \cup {n}>> \in X
  BY <1>3, FlavorIs
<1>4. \A w \in [X -> V], at \in X : Frames(c, w, at[1], at[2]) \in V
  <2> SUFFICES ASSUME NEW w \in [X -> V], NEW n \in U, NEW chain \in SUBSET U
               PROVE  Frames(c, w, n, chain) \in V
    OBVIOUS
  <2>1. <<>> \in V /\ <<n>> \in V
    OBVIOUS
  <2>2. IsFlavor(c, n) => w[<<Base(c, n), chain \cup {n}>>] \in V
    <3> HIDE DEF X, V
    <3> QED
      BY <1>3
  <2>3. \A s, t \in V : s \o t \in V
    OBVIOUS
  <2> HIDE DEF V
  <2> QED
    BY <2>1, <2>2, <2>3 DEF Frames
<1> DEFINE F == [d \in [X -> V] \X X |-> Frames(c, d[1], d[2][1], d[2][2])]
<1>5. F \in [[X -> V] \X X -> V]
  <2> HIDE DEF X, V
  <2> QED
    BY <1>4
<1>6. \A w \in [X -> V], n \in U, chain \in SUBSET U :
        F[<<w, <<n, chain>> >>] = Frames(c, w, n, chain)
  <2> SUFFICES ASSUME NEW w \in [X -> V], NEW n \in U, NEW chain \in SUBSET U
               PROVE  F[<<w, <<n, chain>> >>] = Frames(c, w, n, chain)
    OBVIOUS
  <2>1. <<n, chain>> \in X
    OBVIOUS
  <2> HIDE DEF X, V
  <2>2. <<w, <<n, chain>> >> \in [X -> V] \X X
    BY <2>1
  <2> QED
    BY <2>2
<1> HIDE DEF F
<1>7. PICK N \in Nat : \E m \in [X -> 0 .. N] :
        \A n \in U, x \in U, chain \in SUBSET U :
          n \notin chain => m[<<x, chain \cup {n}>>] < m[<<n, chain>>]
  BY ChainGrows
<1>8. PICK m \in [X -> 0 .. N] :
        \A n \in U, x \in U, chain \in SUBSET U :
          n \notin chain => m[<<x, chain \cup {n}>>] < m[<<n, chain>>]
  BY <1>7
<1>9. ASSUME NEW u \in [X -> V], NEW w \in [X -> V], NEW at \in X,
             \A y \in X : m[y] < m[at] => u[y] = w[y]
      PROVE  F[<<u, at>>] = F[<<w, at>>]
  <2>1. PICK n \in U, chain \in SUBSET U : at = <<n, chain>>
    OBVIOUS
  <2>2. ASSUME n \notin chain, IsFlavor(c, n)
        PROVE  u[<<Base(c, n), chain \cup {n}>>] = w[<<Base(c, n), chain \cup {n}>>]
    <3>1. Base(c, n) \in U /\ <<Base(c, n), chain \cup {n}>> \in X
      BY <1>3, <2>2
    <3>2. m[<<Base(c, n), chain \cup {n}>>] < m[<<n, chain>>]
      BY <1>8, <2>2, <3>1
    <3> HIDE DEF X, V
    <3> QED
      BY <1>9, <2>1, <3>1, <3>2
  <2>3. Frames(c, u, n, chain) = Frames(c, w, n, chain)
    BY <2>2 DEF Frames
  <2> HIDE DEF X, V
  <2> QED
    BY <1>6, <2>1, <2>3
<1>10. PICK w \in [X -> V] : \A at \in X : w[at] = F[<<w, at>>]
  <2>1. V # {}
    BY EmptySeq
  <2>2. \A u, w \in [X -> V], at \in X :
          (\A y \in X : m[y] < m[at] => u[y] = w[y]) => F[<<u, at>>] = F[<<w, at>>]
    BY <1>9
  <2> HIDE DEF X, V
  <2>3. Recurs(F, X, V, m, N)
    BY <1>5, <1>8, <2>1, <2>2 DEF Recurs
  <2> QED
    BY <2>3, RecursionExists
<1>11. ASSUME NEW n \in U, NEW chain \in SUBSET U
      PROVE  <<n, chain>> \in X /\ w[<<n, chain>>] = Frames(c, w, n, chain)
  <2>1. <<n, chain>> \in X
    OBVIOUS
  <2> HIDE DEF X, V
  <2>2. w[<<n, chain>>] = F[<<w, <<n, chain>> >>]
    BY <1>10, <2>1
  <2>3. F[<<w, <<n, chain>> >>] = Frames(c, w, n, chain)
    BY <1>6
  <2> QED
    BY <2>1, <2>2, <2>3
<1>12. E(w) = w
  <2>1. ASSUME NEW n \in U, NEW chain \in SUBSET U
        PROVE  E(w)[<<n, chain>>] = w[<<n, chain>>]
    <3> HIDE DEF X, V
    <3> QED
      BY <1>1, <1>11
  <2>2. \A at \in X : E(w)[at] = w[at]
    BY <2>1
  <2> HIDE DEF X, V
  <2> QED
    BY <1>2, <2>2
<1>13. W = E(W)
  BY <1>12
<1>14. ASSUME NEW n \in U, NEW chain \in SUBSET U
       PROVE  W[<<n, chain>>] = Frames(c, W, n, chain)
  <2>1. <<n, chain>> \in X
    OBVIOUS
  <2> HIDE DEF X, V, W
  <2> QED
    BY <1>1, <1>13, <2>1
<1>15. W = w
  <2> DEFINE P == {at \in X : W[at] = w[at]}
  <2>1. ASSUME NEW n \in U, NEW chain \in SUBSET U,
               n \notin chain => \A x \in U : <<x, chain \cup {n}>> \in P
        PROVE  <<n, chain>> \in P
    <3>1. ASSUME n \notin chain, IsFlavor(c, n)
          PROVE  W[<<Base(c, n), chain \cup {n}>>] = w[<<Base(c, n), chain \cup {n}>>]
      <4>1. Base(c, n) \in U
        BY <3>1, FlavorIs
      <4> QED
        BY <2>1, <3>1, <4>1
    <3>2. Frames(c, W, n, chain) = Frames(c, w, n, chain)
      BY <3>1 DEF Frames
    <3>3. W[<<n, chain>>] = Frames(c, W, n, chain)
      BY <1>14
    <3> HIDE DEF W, X, V
    <3> QED
      BY <1>11, <3>2, <3>3
  <2>2. \A n \in U, chain \in SUBSET U : <<n, chain>> \in P
    <3> HIDE DEF P
    <3> QED
      BY <2>1, AlongWalk
  <2>3. \A at \in X : E(W)[at] = w[at]
    <3> HIDE DEF W
    <3>1. \A at \in X : W[at] = w[at]
      BY <2>2
    <3> QED
      BY <1>13, <3>1
  <2> HIDE DEF W, X, V
  <2> QED
    BY <1>2, <1>10, <1>13, <2>3
<1>16. WalkOf(c, U) = W
  BY DEF WalkOf, E
<1> HIDE DEF W
<1> QED
  BY <1>10, <1>14, <1>15, <1>16 DEF Walks

LEMMA SetOfAppended ==
  ASSUME NEW S, NEW s \in Seq(S), NEW n \in S
  PROVE  /\ s \o <<n>> \in Seq(S) /\ ToSet(s \o <<n>>) = ToSet(s) \cup {n}
         /\ ToSet(<<n>>) = {n} /\ <<>> \o <<n>> = <<n>> /\ ToSet(<<>>) = {}
<1>1. <<n>> \in Seq(S) /\ Len(<<n>>) = 1 /\ <<n>>[1] = n
  OBVIOUS
<1>2. /\ s \o <<n>> \in Seq(S) /\ Len(s \o <<n>>) = Len(s) + 1
      /\ \A i \in 1 .. Len(s) + 1 :
           (s \o <<n>>)[i] = IF i <= Len(s) THEN s[i] ELSE <<n>>[i - Len(s)]
  BY <1>1, ConcatProperties
<1>3. Len(s) \in Nat /\ DOMAIN s = 1 .. Len(s) /\ DOMAIN (s \o <<n>>) = 1 .. Len(s) + 1
  BY <1>2
<1>4. /\ (s \o <<n>>)[Len(s) + 1] = n
      /\ \A i \in 1 .. Len(s) : (s \o <<n>>)[i] = s[i]
      /\ 1 .. Len(s) + 1 = (1 .. Len(s)) \cup {Len(s) + 1}
  BY <1>1, <1>2, <1>3
<1>5. ToSet(s \o <<n>>) = ToSet(s) \cup {n}
  BY <1>3, <1>4 DEF ToSet
<1>6. ToSet(<<n>>) = {n} /\ ToSet(<<>>) = {} /\ <<>> \o <<n>> = <<n>>
  BY <1>1 DEF ToSet
<1> QED
  BY <1>2, <1>5, <1>6

(* T holds the base of each of its flavors. *)
Stable(c, T) == \A n \in T : IsFlavor(c, n) => Base(c, n) \in T \cup {NoFlavor}

LEMMA WalkStays ==
  ASSUME NEW c \in Seq(Tables), NEW U, IsFiniteSet(U), NamesIn(c) \subseteq U,
         NEW w, Walks(c, U, w), NEW T \in SUBSET U, Stable(c, T),
         NEW n \in T, NEW chain \in SUBSET U
  PROVE  ToSet(w[<<n, chain>>]) \subseteq {m \in T : IsFlavor(c, m)}
<1> DEFINE K == {m \in T : IsFlavor(c, m)}
           P == {at \in U \X SUBSET U : at[1] \in T => ToSet(w[at]) \subseteq K}
<1>1. ASSUME NEW x \in U, NEW ch \in SUBSET U,
             x \notin ch => \A y \in U : <<y, ch \cup {x}>> \in P
      PROVE  <<x, ch>> \in P
  <2> SUFFICES ASSUME x \in T PROVE ToSet(w[<<x, ch>>]) \subseteq K
    OBVIOUS
  <2>1. w[<<x, ch>>] = Frames(c, w, x, ch)
    BY DEF Walks
  <2>2. CASE x \in ch \/ ~IsFlavor(c, x)
    <3>1. w[<<x, ch>>] = <<>> /\ ToSet(<<>>) = {}
      BY <2>1, <2>2 DEF Frames, ToSet
    <3> QED
      BY <3>1
  <2>3. CASE x \notin ch /\ IsFlavor(c, x) /\ Base(c, x) = NoFlavor
    <3>1. w[<<x, ch>>] = <<>> \o <<x>>
      BY <2>1, <2>3 DEF Frames
    <3>2. ToSet(w[<<x, ch>>]) = {x}
      BY <3>1, SetOfAppended, EmptySeq
    <3> QED
      BY <2>3, <3>2
  <2>4. CASE x \notin ch /\ IsFlavor(c, x) /\ Base(c, x) # NoFlavor
    <3> DEFINE b == Base(c, x)
    <3>1. b \in T /\ <<b, ch \cup {x}>> \in U \X SUBSET U
      BY <2>4 DEF Stable
    <3>2. ToSet(w[<<b, ch \cup {x}>>]) \subseteq K
      BY <1>1, <2>4, <3>1
    <3>3. w[<<x, ch>>] = w[<<b, ch \cup {x}>>] \o <<x>>
      BY <2>1, <2>4 DEF Frames
    <3>4. w[<<b, ch \cup {x}>>] \in Seq(U)
      BY <3>1 DEF Walks
    <3>5. ToSet(w[<<x, ch>>]) = ToSet(w[<<b, ch \cup {x}>>]) \cup {x}
      BY <3>3, <3>4, SetOfAppended
    <3> QED
      BY <2>4, <3>2, <3>5
  <2> QED
    BY <2>2, <2>3, <2>4
<1>2. \A x \in U, ch \in SUBSET U : <<x, ch>> \in P
  <2> HIDE DEF P
  <2> QED
    BY <1>1, AlongWalk
<1> QED
  BY <1>2

(* A name that is not come to need not be on the chain. *)
LEMMA WalkIgnores ==
  ASSUME NEW c \in Seq(Tables), NEW U, IsFiniteSet(U), NamesIn(c) \subseteq U,
         NEW w, Walks(c, U, w), NEW T \in SUBSET U, Stable(c, T),
         NEW n \in T, NEW chain \in SUBSET U, NEW z \in U \ T
  PROVE  w[<<n, chain>>] = w[<<n, chain \cup {z}>>]
<1> DEFINE P == {at \in U \X SUBSET U :
                   at[1] \in T => w[at] = w[<<at[1], at[2] \cup {z}>>]}
<1>1. ASSUME NEW x \in U, NEW ch \in SUBSET U,
             x \notin ch => \A y \in U : <<y, ch \cup {x}>> \in P
      PROVE  <<x, ch>> \in P
  <2> SUFFICES ASSUME x \in T PROVE w[<<x, ch>>] = w[<<x, ch \cup {z}>>]
    OBVIOUS
  <2>1. /\ w[<<x, ch>>] = Frames(c, w, x, ch)
        /\ w[<<x, ch \cup {z}>>] = Frames(c, w, x, ch \cup {z})
    <3>1. ch \cup {z} \in SUBSET U
      OBVIOUS
    <3> QED
      BY <3>1 DEF Walks
  <2>2. x \in ch <=> x \in ch \cup {z}
    OBVIOUS
  <2>3. ASSUME x \notin ch, IsFlavor(c, x), Base(c, x) # NoFlavor
        PROVE  w[<<Base(c, x), ch \cup {x}>>] = w[<<Base(c, x), (ch \cup {z}) \cup {x}>>]
    <3>1. Base(c, x) \in T /\ <<Base(c, x), ch \cup {x}>> \in P
      BY <1>1, <2>3 DEF Stable
    <3>2. w[<<Base(c, x), ch \cup {x}>>] = w[<<Base(c, x), (ch \cup {x}) \cup {z}>>]
      BY <3>1
    <3>3. (ch \cup {x}) \cup {z} = (ch \cup {z}) \cup {x}
      OBVIOUS
    <3> QED
      BY <3>2, <3>3
  <2> QED
    BY <2>1, <2>2, <2>3 DEF Frames
<1>2. \A x \in U, ch \in SUBSET U : <<x, ch>> \in P
  <2> HIDE DEF P
  <2> QED
    BY <1>1, AlongWalk
<1> QED
  BY <1>2

(* Where the walk ends: with a name that has no base, that is no flavor or *)
(* that was on the chain.                                                  *)
LEMMA WalkEnds ==
  ASSUME NEW c \in Seq(Tables), NEW U, IsFiniteSet(U), NamesIn(c) \subseteq U,
         NEW w, Walks(c, U, w), NEW n \in U, NEW chain \in SUBSET U
  PROVE  /\ n \notin chain /\ IsFlavor(c, n) => n \in ToSet(w[<<n, chain>>])
         /\ \A m \in ToSet(w[<<n, chain>>]) :
              IsFlavor(c, Base(c, m)) => Base(c, m) \in ToSet(w[<<n, chain>>]) \cup chain
<1> DEFINE Comes(x, ch) == x \notin ch /\ IsFlavor(c, x) => x \in ToSet(w[<<x, ch>>])
           Ends(x, ch) == \A m \in ToSet(w[<<x, ch>>]) :
             IsFlavor(c, Base(c, m)) => Base(c, m) \in ToSet(w[<<x, ch>>]) \cup ch
           P == {at \in U \X SUBSET U : Comes(at[1], at[2]) /\ Ends(at[1], at[2])}
<1>1. ASSUME NEW x \in U, NEW ch \in SUBSET U,
             x \notin ch => \A y \in U : <<y, ch \cup {x}>> \in P
      PROVE  <<x, ch>> \in P
  <2> SUFFICES Comes(x, ch) /\ Ends(x, ch)
    OBVIOUS
  <2>1. w[<<x, ch>>] = Frames(c, w, x, ch)
    BY DEF Walks
  <2>2. CASE x \in ch \/ ~IsFlavor(c, x)
    <3>1. w[<<x, ch>>] = <<>> /\ ToSet(<<>>) = {}
      BY <2>1, <2>2 DEF Frames, ToSet
    <3> QED
      BY <2>2, <3>1
  <2>3. CASE x \notin ch /\ IsFlavor(c, x) /\ Base(c, x) = NoFlavor
    <3>1. w[<<x, ch>>] = <<>> \o <<x>>
      BY <2>1, <2>3 DEF Frames
    <3>2. ToSet(w[<<x, ch>>]) = {x}
      BY <3>1, SetOfAppended, EmptySeq
    <3>3. ~IsFlavor(c, NoFlavor)
      BY FlavorIs
    <3> QED
      BY <2>3, <3>2, <3>3
  <2>4. CASE x \notin ch /\ IsFlavor(c, x) /\ Base(c, x) # NoFlavor
    <3> DEFINE b == Base(c, x)
    <3>1. b \in U /\ <<b, ch \cup {x}>> \in P
      BY <1>1, <2>4, FlavorIs
    <3>2. Comes(b, ch \cup {x}) /\ Ends(b, ch \cup {x})
      BY <3>1
    <3>3. w[<<x, ch>>] = w[<<b, ch \cup {x}>>] \o <<x>>
      BY <2>1, <2>4 DEF Frames
    <3>4. w[<<b, ch \cup {x}>>] \in Seq(U)
      BY <3>1 DEF Walks
    <3>5. ToSet(w[<<x, ch>>]) = ToSet(w[<<b, ch \cup {x}>>]) \cup {x}
      BY <3>3, <3>4, SetOfAppended
    <3>6. Comes(x, ch)
      BY <3>5
    <3>7. ASSUME NEW m \in ToSet(w[<<x, ch>>]), IsFlavor(c, Base(c, m))
          PROVE  Base(c, m) \in ToSet(w[<<x, ch>>]) \cup ch
      <4>1. CASE m \in ToSet(w[<<b, ch \cup {x}>>])
        BY <3>2, <3>5, <3>7, <4>1
      <4>2. CASE m = x
        BY <3>2, <3>5, <3>7, <4>2
      <4> QED
        BY <3>5, <4>1, <4>2
    <3> QED
      BY <3>6, <3>7
  <2> QED
    BY <2>2, <2>3, <2>4
<1>2. \A x \in U, ch \in SUBSET U : <<x, ch>> \in P
  <2> HIDE DEF P
  <2> QED
    BY <1>1, AlongWalk
<1>3. Comes(n, chain) /\ Ends(n, chain)
  <2>1. <<n, chain>> \in P
    BY <1>2
  <2> HIDE DEF Comes, Ends
  <2> QED
    BY <2>1
<1> QED
  BY <1>3

-----------------------------------------------------------------------------
(* What is reached is the least set that has the name and is stable.       *)
LEMMA ReachedIsLeast ==
  ASSUME NEW c \in Seq(Tables), NEW n
  PROVE  /\ Reached(c, n) \in SUBSET (NamesIn(c) \cup {n})
         /\ n \in Reached(c, n) /\ Stable(c, Reached(c, n))
         /\ \A T \in SUBSET (NamesIn(c) \cup {n}) :
              n \in T /\ Stable(c, T) => Reached(c, n) \subseteq T
<1> DEFINE U == NamesIn(c) \cup {n}
           Closed(T) == n \in T /\ Stable(c, T)
           R == Reached(c, n)
           L == {x \in U : \A T \in SUBSET U : Closed(T) => x \in T}
<1>1. R = CHOOSE S \in SUBSET U : Closed(S) /\ \A T \in SUBSET S : Closed(T) => T = S
  BY DEF Reached, Stable, Base
<1>2. Closed(L) /\ L \in SUBSET U
  <2>1. ASSUME NEW x \in L, IsFlavor(c, x), Base(c, x) # NoFlavor
        PROVE  Base(c, x) \in L
    <3>1. Base(c, x) \in U
      BY <2>1, FlavorIs
    <3>2. ASSUME NEW T \in SUBSET U, Closed(T) PROVE Base(c, x) \in T
      BY <2>1, <3>2 DEF Stable
    <3> QED
      BY <3>1, <3>2
  <2>2. n \in L
    OBVIOUS
  <2>3. Stable(c, L)
    <3> HIDE DEF L
    <3> QED
      BY <2>1 DEF Stable
  <2> QED
    BY <2>2, <2>3
<1>3. \A T \in SUBSET U : Closed(T) => L \subseteq T
  OBVIOUS
<1> HIDE DEF L, R, Closed, U
<1>4. L \in SUBSET U /\ Closed(L) /\ \A T \in SUBSET L : Closed(T) => T = L
  BY <1>2, <1>3
<1>5. R \in SUBSET U /\ Closed(R) /\ \A T \in SUBSET R : Closed(T) => T = R
  BY <1>1, <1>4
<1>6. R = L
  BY <1>2, <1>3, <1>5
<1> QED
  BY <1>3, <1>5, <1>6 DEF R, U, Closed

(* The layers of a flavor are the flavors reached from it.                 *)
LEMMA LayersReached ==
  ASSUME NEW c \in Seq(Tables), NEW n
  PROVE  /\ Layers(c, n) \in Seq({m \in Reached(c, n) : IsFlavor(c, m)})
         /\ ToSet(Layers(c, n)) = {m \in Reached(c, n) : IsFlavor(c, m)}
<1> DEFINE U == NamesIn(c) \cup {n}
           w == WalkOf(c, U)
           R == Reached(c, n)
           K == {m \in R : IsFlavor(c, m)}
           T == {x \in U : IsFlavor(c, x) => x \in ToSet(Layers(c, n))}
<1>1. IsFiniteSet(U) /\ NamesIn(c) \subseteq U
  BY NamesFinite, FS_AddElement
<1>2. Walks(c, U, w)
  BY <1>1, WalkOfWalks
<1>3. Layers(c, n) = w[<<n, {}>>]
  BY LayersOfWalk
<1>4. n \in U /\ {} \in SUBSET U
  OBVIOUS
<1>5. /\ R \in SUBSET U /\ n \in R /\ Stable(c, R)
      /\ \A S \in SUBSET U : n \in S /\ Stable(c, S) => R \subseteq S
  BY ReachedIsLeast
<1> HIDE DEF U, w, R
<1>6. ToSet(Layers(c, n)) \subseteq K
  BY <1>1, <1>2, <1>3, <1>4, <1>5, WalkStays
<1>7. /\ IsFlavor(c, n) => n \in ToSet(Layers(c, n))
      /\ \A m \in ToSet(Layers(c, n)) :
           IsFlavor(c, Base(c, m)) => Base(c, m) \in ToSet(Layers(c, n))
  BY <1>1, <1>2, <1>3, <1>4, WalkEnds
<1>8. R \subseteq T
  <2>1. T \in SUBSET U /\ n \in T
    BY <1>4, <1>7
  <2>2. Stable(c, T)
    <3> SUFFICES ASSUME NEW x \in T, IsFlavor(c, x) PROVE Base(c, x) \in T
      BY DEF Stable
    <3>1. x \in ToSet(Layers(c, n))
      OBVIOUS
    <3>2. Base(c, x) \in U
      BY <1>1, FlavorIs
    <3> QED
      BY <1>7, <3>1, <3>2
  <2> HIDE DEF T
  <2> QED
    BY <1>5, <2>1, <2>2
<1>9. ToSet(Layers(c, n)) = K
  BY <1>6, <1>8
<1>10. Layers(c, n) \in Seq(U)
  <2>1. <<n, {}>> \in U \X SUBSET U
    BY <1>4
  <2> QED
    BY <1>2, <1>3, <2>1 DEF Walks
<1>11. Layers(c, n) \in Seq(K)
  <2> HIDE DEF K
  <2>1. \A i \in 1 .. Len(Layers(c, n)) : Layers(c, n)[i] \in K
    BY <1>9, <1>10 DEF ToSet
  <2> QED
    BY <1>10, <2>1
<1> QED
  BY <1>9, <1>11 DEF R

(* Outside a cycle, a flavor comes last, after the layers of its base.     *)
LEMMA LayersOfBase ==
  ASSUME NEW c \in Seq(Tables), NEW n, IsFlavor(c, n), n \notin Reached(c, Base(c, n))
  PROVE  Layers(c, n) = Layers(c, Base(c, n)) \o <<n>>
<1> DEFINE U == NamesIn(c)
           w == WalkOf(c, U)
           b == Base(c, n)
<1>1. n \in U /\ b \in U /\ NamesIn(c) \cup {n} = U /\ NamesIn(c) \cup {b} = U
  BY FlavorIs
<1>2. IsFiniteSet(U) /\ NamesIn(c) \subseteq U
  BY NamesFinite
<1>3. Walks(c, U, w)
  BY <1>2, WalkOfWalks
<1>4. Layers(c, n) = w[<<n, {}>>] /\ Layers(c, b) = w[<<b, {}>>]
  <2> HIDE DEF U
  <2> QED
    BY <1>1, LayersOfWalk
<1>5. /\ w[<<n, {}>>] = Frames(c, w, n, {}) /\ w[<<b, {}>>] = Frames(c, w, b, {})
      /\ n \notin {} /\ {} \cup {n} = {n}
  <2> HIDE DEF U, w
  <2> QED
    BY <1>1, <1>3 DEF Walks
<1>6. CASE b = NoFlavor
  <2>1. ~IsFlavor(c, b)
    BY <1>6, FlavorIs
  <2>2. w[<<n, {}>>] = <<>> \o <<n>> /\ w[<<b, {}>>] = <<>>
    <3> HIDE DEF w
    <3> QED
      BY <1>5, <1>6, <2>1 DEF Frames
  <2> QED
    BY <1>4, <2>2
<1>7. CASE b # NoFlavor
  <2>1. w[<<n, {}>>] = w[<<b, {n}>>] \o <<n>>
    <3> HIDE DEF w
    <3> QED
      BY <1>5, <1>7 DEF Frames
  <2>2. /\ Reached(c, b) \in SUBSET U /\ b \in Reached(c, b) /\ Stable(c, Reached(c, b))
    BY <1>1, ReachedIsLeast
  <2>3. w[<<b, {}>>] = w[<<b, {} \cup {n}>>]
    <3>1. n \in U \ Reached(c, b) /\ {} \in SUBSET U
      BY <1>1
    <3> HIDE DEF U, w, b
    <3> QED
      BY <1>2, <1>3, <2>2, <3>1, WalkIgnores
  <2> HIDE DEF w
  <2> QED
    BY <1>4, <1>5, <2>1, <2>3
<1> QED
  BY <1>6, <1>7

-----------------------------------------------------------------------------
(* Assets.                                                                 *)
Distinct(s) == \A i, j \in 1 .. Len(s) : s[i] = s[j] => i = j

LEMMA DistinctIsCounted ==
  ASSUME NEW S, NEW s \in Seq(S), Distinct(s)
  PROVE  Cardinality(ToSet(s)) = Len(s)
<1> DEFINE n == Len(s)
<1>1. n \in Nat /\ 1 \in Int /\ n \in Int /\ DOMAIN s = 1 .. n
  OBVIOUS
<1>2. s \in Bijection(1 .. n, ToSet(s))
  BY <1>1 DEF Distinct, ToSet, Bijection, Injection, Surjection, IsInjective
<1>3. IsFiniteSet(1 .. n) /\ Cardinality(1 .. n) = n
  BY <1>1, FS_Interval
<1>4. ExistsBijection(1 .. n, ToSet(s))
  BY <1>2 DEF ExistsBijection
<1> QED
  BY <1>3, <1>4, FS_Bijection

LEMMA AddsMissing ==
  ASSUME NEW A, NEW out \in Seq(A), Distinct(out), NEW a \in A
  PROVE  /\ AddMissing(out, a) \in Seq(A) /\ Distinct(AddMissing(out, a))
         /\ ToSet(AddMissing(out, a)) = ToSet(out) \cup {a}
         /\ IsPrefix(out, AddMissing(out, a))
<1>1. Len(out) \in Nat /\ DOMAIN out = 1 .. Len(out)
  OBVIOUS
<1>2. CASE Contains(out, a)
  <2>1. AddMissing(out, a) = out /\ a \in ToSet(out)
    BY <1>1, <1>2 DEF AddMissing, Contains, ToSet
  <2>2. IsPrefix(out, out)
    BY <1>1 DEF IsPrefix
  <2> QED
    BY <2>1, <2>2
<1>3. CASE ~Contains(out, a)
  <2>1. AddMissing(out, a) = Append(out, a)
    BY <1>3 DEF AddMissing
  <2>2. /\ Append(out, a) \in Seq(A) /\ Len(Append(out, a)) = Len(out) + 1
        /\ Append(out, a)[Len(out) + 1] = a
        /\ \A i \in 1 .. Len(out) : Append(out, a)[i] = out[i] /\ out[i] # a
    BY <1>3, AppendProperties DEF Contains
  <2>3. \A i \in 1 .. Len(out) + 1 : i \in 1 .. Len(out) \/ i = Len(out) + 1
    BY <1>1
  <2>4. Distinct(Append(out, a))
    BY <2>2, <2>3 DEF Distinct
  <2>5. ToSet(Append(out, a)) = ToSet(out) \cup {a}
    <3>1. Append(out, a) = out \o <<a>>
      BY AppendIsConcat
    <3> QED
      BY <3>1, SetOfAppended
  <2>6. IsPrefix(out, Append(out, a))
    <3>1. SubSeq(Append(out, a), 1, Len(out)) = out /\ SubSeq(out, 1, Len(out)) = out
      BY <1>1
    <3>2. Len(out) <= Len(out) + 1
      BY <1>1
    <3> QED
      BY <2>2, <3>1, <3>2 DEF IsPrefix
  <2> QED
    BY <2>1, <2>2, <2>4, <2>5, <2>6
<1> QED
  BY <1>2, <1>3

LEMMA PrefixOfPrefix ==
  ASSUME NEW A, NEW s \in Seq(A), NEW t \in Seq(A), NEW u \in Seq(A),
         IsPrefix(s, t), IsPrefix(t, u)
  PROVE  IsPrefix(s, u)
<1>1. /\ Len(s) \in Nat /\ Len(t) \in Nat /\ Len(u) \in Nat
      /\ Len(s) <= Len(t) /\ Len(t) <= Len(u) /\ Len(s) <= Len(u)
  BY DEF IsPrefix
<1>2. \A i \in 1 .. Len(s) : s[i] = t[i] /\ t[i] = u[i]
  <2> SUFFICES ASSUME NEW i \in 1 .. Len(s) PROVE s[i] = t[i] /\ t[i] = u[i]
    OBVIOUS
  <2>1. i \in 1 .. Len(t) /\ i \in Nat
    BY <1>1
  <2>2. /\ SubSeq(s, 1, Len(s))[i] = s[i] /\ SubSeq(t, 1, Len(s))[i] = t[i]
        /\ SubSeq(t, 1, Len(t))[i] = t[i] /\ SubSeq(u, 1, Len(t))[i] = u[i]
    BY <1>1, <2>1
  <2> QED
    BY <2>2 DEF IsPrefix
<1>3. SubSeq(s, 1, Len(s)) = SubSeq(u, 1, Len(s))
  BY <1>1, <1>2
<1> QED
  BY <1>1, <1>3 DEF IsPrefix

(* The assets of one layer, each where it is missing; and of the first     *)
(* layers of several, layer by layer.                                       *)
AddAll(out, list) == FoldLeft(AddMissing, out, list)
OfLayers(c, layers) ==
  FoldLeft(LAMBDA out, n : AddAll(out, Flavor(c, n).assets), <<>>, layers)

(* h is what out comes to with each asset of a list. *)
AddsUp(h, out, list, A) ==
  /\ h \in [0 .. Len(list) -> Seq(A)] /\ h[0] = out /\ h[Len(list)] = AddAll(out, list)
  /\ \A k \in 0 .. Len(list) - 1 : h[k + 1] = AddMissing(h[k], list[k + 1])

LEMMA AddsEach ==
  ASSUME NEW A, NEW out \in Seq(A), NEW list \in Seq(A)
  PROVE  \E h : AddsUp(h, out, list, A)
<1> DEFINE n == Len(list)
           V == Seq(A)
           E(iter) == [ks \in SUBSET (DOMAIN list) |->
                         IF ks = {} THEN out
                         ELSE AddMissing(iter[ks \ {Max(ks)}], list[Max(ks)])]
           M == CHOOSE iter : iter = E(iter)
           f == [x \in V \X (1 .. n) |-> AddMissing(x[1], list[x[2]])]
<1>1. AddAll(out, list) = M[DOMAIN list]
  BY DEF AddAll, FoldLeft, MapThenFoldSet
<1>2. n \in Nat /\ DOMAIN list = 1 .. n /\ out \in V
  OBVIOUS
<1>3. \A l \in V, k \in 1 .. n : AddMissing(l, list[k]) \in V
  <2> SUFFICES ASSUME NEW l \in V, NEW k \in 1 .. n PROVE AddMissing(l, list[k]) \in V
    OBVIOUS
  <2>1. list[k] \in A
    OBVIOUS
  <2> QED
    BY <2>1 DEF AddMissing
<1> HIDE DEF V
<1>4. f \in [V \X (1 .. n) -> V] /\ \A l \in V, k \in 1 .. n : f[<<l, k>>] = AddMissing(l, list[k])
  BY <1>3
<1> HIDE DEF f
<1>5. PICK g : FoldsOver(g, V, out, f, n)
  BY <1>2, <1>4, FoldExists
<1>6. g = E(g)
  <2>1. ASSUME NEW ks \in SUBSET (1 .. n), ks # {}
        PROVE  f[<<g[ks \ {Max(ks)}], Max(ks)>>] = AddMissing(g[ks \ {Max(ks)}], list[Max(ks)])
    <3>1. Max(ks) \in 1 .. n
      BY <1>2, <2>1, MaxOf
    <3>2. g[ks \ {Max(ks)}] \in V
      BY <1>5 DEF FoldsOver
    <3> QED
      BY <1>4, <3>1, <3>2
  <2> QED
    BY <1>2, <1>5, <2>1 DEF FoldsOver
<1>7. M = E(M)
  <2> HIDE DEF E
  <2> QED
    BY <1>6
<1>8. /\ M[{}] = out
      /\ \A ks \in SUBSET (1 .. n) :
           (ks # {} /\ M[ks \ {Max(ks)}] \in V) => M[ks] = f[<<M[ks \ {Max(ks)}], Max(ks)>>]
  <2> HIDE DEF M
  <2>1. \A ks \in SUBSET (1 .. n) :
          M[ks] = IF ks = {} THEN out ELSE AddMissing(M[ks \ {Max(ks)}], list[Max(ks)])
    BY <1>2, <1>7
  <2>2. \A ks \in SUBSET (1 .. n) : ks # {} => Max(ks) \in 1 .. n
    BY <1>2, MaxOf
  <2> QED
    BY <1>4, <2>1, <2>2
<1>9. PICK h \in [0 .. n -> V] :
        /\ h[0] = out /\ h[n] = M[1 .. n]
        /\ \A k \in 0 .. n - 1 : h[k + 1] = f[<<h[k], k + 1>>]
  <2> HIDE DEF M
  <2>1. Iterates(M, V, out, f, n)
    BY <1>2, <1>4, <1>8 DEF Iterates
  <2> QED
    BY <2>1, FoldSteps
<1>10. \A k \in 0 .. n - 1 : h[k + 1] = AddMissing(h[k], list[k + 1])
  <2> SUFFICES ASSUME NEW k \in 0 .. n - 1 PROVE h[k + 1] = AddMissing(h[k], list[k + 1])
    OBVIOUS
  <2>1. k \in 0 .. n /\ k + 1 \in 1 .. n
    BY <1>2
  <2> QED
    BY <1>4, <1>9, <2>1
<1> HIDE DEF M
<1> QED
  BY <1>1, <1>2, <1>9, <1>10 DEF AddsUp, V

(* What is in s, its order kept, and what is in T, each once. *)
Extends(r, s, T, A) ==
  /\ r \in Seq(A) /\ Distinct(r) /\ IsPrefix(s, r) /\ ToSet(r) = ToSet(s) \cup T

LEMMA AddAllExtends ==
  ASSUME NEW A, NEW out \in Seq(A), Distinct(out), NEW list \in Seq(A)
  PROVE  Extends(AddAll(out, list), out, ToSet(list), A)
<1> DEFINE n == Len(list)
           Upto(k) == {list[i] : i \in 1 .. k}
<1>1. PICK h : AddsUp(h, out, list, A)
  BY AddsEach
<1> DEFINE G == {k \in 0 .. n : Extends(h[k], out, Upto(k), A)}
<1>2. n \in Nat /\ 0 \in 0 .. n /\ n \in 0 .. n /\ DOMAIN list = 1 .. n
  OBVIOUS
<1>3. 0 \in G
  <2>1. Upto(0) = {} /\ h[0] = out
    BY <1>1 DEF AddsUp
  <2>2. IsPrefix(out, out)
    BY DEF IsPrefix
  <2>3. Extends(h[0], out, Upto(0), A)
    <3> HIDE DEF Upto
    <3> QED
      BY <2>1, <2>2 DEF Extends
  <2> QED
    BY <1>2, <2>3
<1>4. ASSUME NEW k \in 0 .. n, k + 1 <= n, k \in G
      PROVE  k + 1 \in G
  <2>1. k \in 0 .. n - 1 /\ k + 1 \in 0 .. n /\ k + 1 \in 1 .. n
    BY <1>2, <1>4
  <2>2. h[k + 1] = AddMissing(h[k], list[k + 1]) /\ list[k + 1] \in A
    BY <1>1, <2>1 DEF AddsUp
  <2>3. Extends(h[k], out, Upto(k), A)
    BY <1>4
  <2>4. Upto(k + 1) = Upto(k) \cup {list[k + 1]}
    <3>1. 1 .. k + 1 = (1 .. k) \cup {k + 1}
      BY <2>1
    <3> QED
      BY <3>1
  <2> HIDE DEF Upto
  <2>5. /\ h[k + 1] \in Seq(A) /\ Distinct(h[k + 1]) /\ IsPrefix(h[k], h[k + 1])
        /\ ToSet(h[k + 1]) = ToSet(h[k]) \cup {list[k + 1]}
    <3>1. h[k] \in Seq(A) /\ Distinct(h[k]) /\ list[k + 1] \in A
      BY <2>2, <2>3 DEF Extends
    <3>2. PICK s \in Seq(A), a \in A : s = h[k] /\ a = list[k + 1]
      BY <3>1
    <3>3. Distinct(s) /\ h[k + 1] = AddMissing(s, a)
      BY <2>2, <3>1, <3>2
    <3>4. /\ AddMissing(s, a) \in Seq(A) /\ Distinct(AddMissing(s, a))
          /\ IsPrefix(s, AddMissing(s, a)) /\ ToSet(AddMissing(s, a)) = ToSet(s) \cup {a}
      BY <3>3, AddsMissing
    <3> QED
      BY <3>2, <3>3, <3>4
  <2>6. IsPrefix(out, h[k + 1])
    BY <2>3, <2>5, PrefixOfPrefix DEF Extends
  <2>7. Extends(h[k + 1], out, Upto(k + 1), A)
    BY <2>3, <2>4, <2>5, <2>6 DEF Extends
  <2> QED
    BY <2>1, <2>7
<1>5. n \in G
  <2> HIDE DEF G
  <2> QED
    BY <1>2, <1>3, <1>4, UpTo
<1>6. h[n] = AddAll(out, list) /\ Upto(n) = ToSet(list)
  BY <1>1, <1>2 DEF AddsUp, ToSet
<1>7. Extends(h[n], out, Upto(n), A)
  <2> HIDE DEF Upto
  <2> QED
    BY <1>5
<1> HIDE DEF Upto, n
<1> QED
  BY <1>6, <1>7

(* ... and of layer after layer. *)
LayersUp(h, c, layers, A) ==
  /\ h \in [0 .. Len(layers) -> {s \in Seq(A) : Distinct(s)}]
  /\ h[0] = <<>> /\ h[Len(layers)] = OfLayers(c, layers)
  /\ \A k \in 0 .. Len(layers) - 1 :
       h[k + 1] = AddAll(h[k], Flavor(c, layers[k + 1]).assets)

(* The members of K are flavors, their assets of A. *)
AreFlavors(c, K, A) == \A m \in K : IsFlavor(c, m) /\ Flavor(c, m).assets \in Seq(A)

LEMMA NamesOfLayers ==
  \A c, n : AssetNames(c, n) = OfLayers(c, Layers(c, n))
BY DEF AssetNames, OfLayers, AddAll, FoldLeft, MapThenFoldSet

LEMMA AddsEachLayer ==
  ASSUME NEW c, NEW K, NEW A, AreFlavors(c, K, A), NEW layers \in Seq(K)
  PROVE  \E h : LayersUp(h, c, layers, A)
<1> DEFINE n == Len(layers)
           V == {s \in Seq(A) : Distinct(s)}
           Of(k) == Flavor(c, layers[k]).assets
           E(iter) == [ks \in SUBSET (DOMAIN layers) |->
                         IF ks = {} THEN <<>>
                         ELSE AddAll(iter[ks \ {Max(ks)}], Flavor(c, layers[Max(ks)]).assets)]
           M == CHOOSE iter : iter = E(iter)
           f == [x \in V \X (1 .. n) |-> AddAll(x[1], Of(x[2]))]
<1>1. OfLayers(c, layers) = M[DOMAIN layers]
  BY DEF OfLayers, FoldLeft, MapThenFoldSet
<1>2. n \in Nat /\ DOMAIN layers = 1 .. n /\ <<>> \in V
  <2>1. Distinct(<<>>)
    BY DEF Distinct
  <2> QED
    BY <2>1
<1>3. \A l \in V, k \in 1 .. n : AddAll(l, Of(k)) \in V
  <2> SUFFICES ASSUME NEW l \in V, NEW k \in 1 .. n PROVE AddAll(l, Of(k)) \in V
    OBVIOUS
  <2>1. layers[k] \in K
    OBVIOUS
  <2>2. Of(k) \in Seq(A)
    BY <2>1 DEF AreFlavors
  <2>3. l \in Seq(A) /\ Distinct(l)
    OBVIOUS
  <2> HIDE DEF Of
  <2> QED
    BY <2>2, <2>3, AddAllExtends DEF Extends
<1> HIDE DEF V
<1>4. f \in [V \X (1 .. n) -> V] /\ \A l \in V, k \in 1 .. n : f[<<l, k>>] = AddAll(l, Of(k))
  <2> HIDE DEF Of
  <2> QED
    BY <1>3
<1> HIDE DEF f
<1>5. PICK g : FoldsOver(g, V, <<>>, f, n)
  BY <1>2, <1>4, FoldExists
<1>6. g = E(g)
  <2>1. ASSUME NEW ks \in SUBSET (1 .. n), ks # {}
        PROVE  f[<<g[ks \ {Max(ks)}], Max(ks)>>] = AddAll(g[ks \ {Max(ks)}], Of(Max(ks)))
    <3>1. Max(ks) \in 1 .. n
      BY <1>2, <2>1, MaxOf
    <3>2. g[ks \ {Max(ks)}] \in V
      BY <1>5 DEF FoldsOver
    <3> HIDE DEF Of
    <3> QED
      BY <1>4, <3>1, <3>2
  <2> QED
    BY <1>2, <1>5, <2>1 DEF FoldsOver
<1>7. M = E(M)
  <2> HIDE DEF E
  <2> QED
    BY <1>6
<1>8. /\ M[{}] = <<>>
      /\ \A ks \in SUBSET (1 .. n) :
           (ks # {} /\ M[ks \ {Max(ks)}] \in V) => M[ks] = f[<<M[ks \ {Max(ks)}], Max(ks)>>]
  <2> HIDE DEF M
  <2>1. \A ks \in SUBSET (1 .. n) :
          M[ks] = IF ks = {} THEN <<>> ELSE AddAll(M[ks \ {Max(ks)}], Of(Max(ks)))
    BY <1>2, <1>7
  <2>2. \A ks \in SUBSET (1 .. n) : ks # {} => Max(ks) \in 1 .. n
    BY <1>2, MaxOf
  <2> HIDE DEF Of
  <2> QED
    BY <1>4, <2>1, <2>2
<1>9. PICK h \in [0 .. n -> V] :
        /\ h[0] = <<>> /\ h[n] = M[1 .. n]
        /\ \A k \in 0 .. n - 1 : h[k + 1] = f[<<h[k], k + 1>>]
  <2> HIDE DEF M
  <2>1. Iterates(M, V, <<>>, f, n)
    BY <1>2, <1>4, <1>8 DEF Iterates
  <2> QED
    BY <2>1, FoldSteps
<1>10. \A k \in 0 .. n - 1 : h[k + 1] = AddAll(h[k], Of(k + 1))
  <2> SUFFICES ASSUME NEW k \in 0 .. n - 1 PROVE h[k + 1] = AddAll(h[k], Of(k + 1))
    OBVIOUS
  <2>1. k \in 0 .. n /\ k + 1 \in 1 .. n
    BY <1>2
  <2> HIDE DEF Of
  <2> QED
    BY <1>4, <1>9, <2>1
<1> HIDE DEF M
<1> QED
  BY <1>1, <1>2, <1>9, <1>10 DEF LayersUp, V

(* All assets of the layers, each once.                                    *)
LEMMA AssetsOfLayers ==
  ASSUME NEW c, NEW K, NEW A, AreFlavors(c, K, A), NEW layers \in Seq(K)
  PROVE  /\ OfLayers(c, layers) \in Seq(A) /\ Distinct(OfLayers(c, layers))
         /\ ToSet(OfLayers(c, layers))
              = UNION {ToSet(Flavor(c, m).assets) : m \in ToSet(layers)}
<1> DEFINE n == Len(layers)
           Upto(k) == UNION {ToSet(Flavor(c, layers[i]).assets) : i \in 1 .. k}
<1>1. PICK h : LayersUp(h, c, layers, A)
  BY AddsEachLayer
<1> DEFINE G == {k \in 0 .. n : ToSet(h[k]) = Upto(k)}
<1>2. n \in Nat /\ 0 \in 0 .. n /\ n \in 0 .. n /\ DOMAIN layers = 1 .. n
  OBVIOUS
<1>3. \A k \in 0 .. n : h[k] \in Seq(A) /\ Distinct(h[k])
  BY <1>1 DEF LayersUp
<1>4. 0 \in G
  <2>1. Upto(0) = {} /\ h[0] = <<>> /\ ToSet(<<>>) = {}
    BY <1>1 DEF LayersUp, ToSet
  <2> HIDE DEF Upto
  <2> QED
    BY <1>2, <2>1
<1>5. ASSUME NEW k \in 0 .. n, k + 1 <= n, k \in G
      PROVE  k + 1 \in G
  <2>1. k \in 0 .. n - 1 /\ k + 1 \in 0 .. n /\ k + 1 \in 1 .. n
    BY <1>2, <1>5
  <2>2. layers[k + 1] \in K
    BY <2>1
  <2>3. PICK s \in Seq(A), list \in Seq(A) :
          s = h[k] /\ list = Flavor(c, layers[k + 1]).assets
    BY <1>3, <2>2 DEF AreFlavors
  <2>4. h[k + 1] = AddAll(s, list) /\ Distinct(s)
    BY <1>1, <1>3, <2>1, <2>3 DEF LayersUp
  <2>5. ToSet(AddAll(s, list)) = ToSet(s) \cup ToSet(list)
    BY <2>4, AddAllExtends DEF Extends
  <2>6. Upto(k + 1) = Upto(k) \cup ToSet(list)
    <3>1. 1 .. k + 1 = (1 .. k) \cup {k + 1}
      BY <2>1
    <3> QED
      BY <2>3, <3>1
  <2> HIDE DEF Upto
  <2> QED
    BY <1>5, <2>1, <2>3, <2>4, <2>5, <2>6
<1>6. n \in G
  <2> HIDE DEF G
  <2> QED
    BY <1>2, <1>4, <1>5, UpTo
<1>7. h[n] = OfLayers(c, layers)
  BY <1>1 DEF LayersUp
<1>8. Upto(n) = UNION {ToSet(Flavor(c, m).assets) : m \in ToSet(layers)}
  <2>1. ToSet(layers) = {layers[i] : i \in 1 .. n}
    BY <1>2 DEF ToSet
  <2> QED
    BY <2>1
<1>9. ToSet(h[n]) = Upto(n)
  <2> HIDE DEF Upto
  <2> QED
    BY <1>6
<1> HIDE DEF Upto, n
<1> QED
  BY <1>2, <1>3, <1>7, <1>8, <1>9

(* One more layer adds its assets to those of the layers before.           *)
LEMMA AddsLayer ==
  ASSUME NEW c, NEW K, NEW A, AreFlavors(c, K, A), NEW layers \in Seq(K), NEW m \in K
  PROVE  OfLayers(c, layers \o <<m>>) = AddAll(OfLayers(c, layers), Flavor(c, m).assets)
<1> DEFINE n == Len(layers)
           more == layers \o <<m>>
<1>1. n \in Nat /\ more \in Seq(K) /\ Len(more) = n + 1 /\ more[n + 1] = m
      /\ \A i \in 1 .. n : more[i] = layers[i]
  <2>1. more = Append(layers, m)
    BY AppendIsConcat
  <2> HIDE DEF more
  <2> QED
    BY <2>1, AppendProperties
<1> HIDE DEF more
<1>2. PICK h : LayersUp(h, c, layers, A)
  BY AddsEachLayer
<1>3. PICK g : LayersUp(g, c, more, A)
  BY <1>1, AddsEachLayer
<1> DEFINE G == {k \in 0 .. n : g[k] = h[k]}
<1>4. 0 \in G
  BY <1>1, <1>2, <1>3 DEF LayersUp
<1>5. ASSUME NEW k \in 0 .. n, k + 1 <= n, k \in G
      PROVE  k + 1 \in G
  <2>1. k \in 0 .. n - 1 /\ k + 1 \in 0 .. n /\ k + 1 \in 1 .. n /\ k \in 0 .. (n + 1) - 1
    BY <1>1, <1>5
  <2>2. g[k] = h[k] /\ more[k + 1] = layers[k + 1]
    BY <1>1, <1>5, <2>1
  <2>3. g[k + 1] = AddAll(g[k], Flavor(c, more[k + 1]).assets)
    BY <1>1, <1>3, <2>1 DEF LayersUp
  <2>4. h[k + 1] = AddAll(h[k], Flavor(c, layers[k + 1]).assets)
    BY <1>2, <2>1 DEF LayersUp
  <2> QED
    BY <2>1, <2>2, <2>3, <2>4
<1>6. n \in G
  <2>1. n \in 0 .. n
    BY <1>1
  <2> HIDE DEF G
  <2> QED
    BY <1>1, <1>4, <1>5, <2>1, UpTo
<1>7. g[n + 1] = AddAll(g[n], Flavor(c, more[n + 1]).assets)
  <2>1. n \in 0 .. (n + 1) - 1
    BY <1>1
  <2> QED
    BY <1>1, <1>3, <2>1 DEF LayersUp
<1>8. g[n + 1] = OfLayers(c, more) /\ h[n] = OfLayers(c, layers)
  BY <1>1, <1>2, <1>3 DEF LayersUp
<1>9. g[n] = h[n] /\ more[n + 1] = m
  BY <1>1, <1>6
<1>10. OfLayers(c, more) = AddAll(OfLayers(c, layers), Flavor(c, m).assets)
  <2> HIDE DEF n
  <2> QED
    BY <1>7, <1>8, <1>9
<1> QED
  BY <1>10 DEF more

-----------------------------------------------------------------------------
(* All that tables may name as an asset.                                   *)
Assets == UNION {ToSet(list) : list \in AssetLists}

LEMMA FlavorAssets ==
  ASSUME NEW c \in Seq(Tables), NEW K, \A m \in K : IsFlavor(c, m)
  PROVE  AreFlavors(c, K, Assets)
<1>1. ASSUME NEW m, IsFlavor(c, m) PROVE Flavor(c, m).assets \in Seq(Assets)
  <2>1. Flavor(c, m).assets \in AssetLists
    BY <1>1, FlavorIs DEF Tables
  <2>2. PICK list \in AssetLists : list = Flavor(c, m).assets
    BY <2>1
  <2>3. list \in Seq(ToSet(list)) /\ ToSet(list) \subseteq Assets
    BY ListAssumption DEF Assets
  <2>4. list \in Seq(Assets)
    BY <2>3, SeqMonotonic
  <2> QED
    BY <2>2, <2>4
<1> QED
  BY <1>1 DEF AreFlavors

(* flavor_asset_names (config.rs) gives the assets of the flavors reached  *)
(* through `extends`, those and no other, each once, in every              *)
(* configuration: tables of one name, bases that do not exist, chains that *)
(* do not end.                                                             *)
THEOREM FlavorHasItsAssets ==
  ASSUME NEW c \in Seq(Tables), NEW n
  PROVE  /\ ToSet(AssetNames(c, n)) = UNION {ToSet(Flavor(c, m).assets) :
                                       m \in {k \in Reached(c, n) : IsFlavor(c, k)}}
         /\ Cardinality(ToSet(AssetNames(c, n))) = Len(AssetNames(c, n))
<1> DEFINE K == {m \in Reached(c, n) : IsFlavor(c, m)}
           names == AssetNames(c, n)
<1>1. AreFlavors(c, K, Assets) /\ Layers(c, n) \in Seq(K) /\ ToSet(Layers(c, n)) = K
  BY FlavorAssets, LayersReached
<1>2. names = OfLayers(c, Layers(c, n))
  BY NamesOfLayers
<1> HIDE DEF K, names
<1>3. /\ names \in Seq(Assets) /\ Distinct(names)
      /\ ToSet(names) = UNION {ToSet(Flavor(c, m).assets) : m \in ToSet(Layers(c, n))}
  BY <1>1, <1>2, AssetsOfLayers
<1>4. Cardinality(ToSet(names)) = Len(names)
  BY <1>3, DistinctIsCounted
<1> QED
  BY <1>1, <1>3, <1>4 DEF K, names

(* What a flavor outside a cycle adds comes after all there is in the      *)
(* flavor it extends.                                                      *)
THEOREM FlavorComesAfterBase ==
  ASSUME NEW c \in Seq(Tables), NEW n, IsFlavor(c, n), n \notin Reached(c, Base(c, n))
  PROVE  IsPrefix(AssetNames(c, Base(c, n)), AssetNames(c, n))
<1> DEFINE b == Base(c, n)
           K == {m \in NamesIn(c) : IsFlavor(c, m)}
           below == OfLayers(c, Layers(c, b))
           own == Flavor(c, n).assets
<1>1. AreFlavors(c, K, Assets) /\ n \in K /\ own \in Seq(Assets)
  BY FlavorAssets, FlavorIs DEF AreFlavors
<1>2. Layers(c, b) \in Seq(K)
  <2>1. Layers(c, b) \in Seq({m \in Reached(c, b) : IsFlavor(c, m)})
    BY LayersReached
  <2>2. {m \in Reached(c, b) : IsFlavor(c, m)} \subseteq K
    BY FlavorIs
  <2> QED
    BY <2>1, <2>2, SeqMonotonic
<1>3. Layers(c, n) = Layers(c, b) \o <<n>>
  BY LayersOfBase
<1> HIDE DEF K
<1>4. OfLayers(c, Layers(c, n)) = AddAll(below, own)
  BY <1>1, <1>2, <1>3, AddsLayer
<1>5. below \in Seq(Assets) /\ Distinct(below)
  BY <1>1, <1>2, AssetsOfLayers
<1> HIDE DEF below, own
<1>6. IsPrefix(below, AddAll(below, own))
  BY <1>1, <1>5, AddAllExtends DEF Extends
<1>7. AssetNames(c, n) = AddAll(below, own) /\ AssetNames(c, b) = below
  BY <1>4, NamesOfLayers DEF below
<1> QED
  BY <1>6, <1>7

-----------------------------------------------------------------------------
(* The inputs.                                                             *)

InputOK ==
  /\ cfg \in Seq(Tables)
  /\ pattern \in Seq(Letters \cup {Star}) /\ text \in Seq(Letters)
  /\ recipe \in Tags /\ IsHarvest(harvest)
  /\ \/ lastOf = <<>> /\ last = NoManifest
     \/ /\ DOMAIN lastOf = {1, 2} /\ lastOf[1] \in Tags /\ IsHarvest(lastOf[2])
        /\ last = ManifestOf(lastOf[1], lastOf[2])

LEMMA InputType == Spec => []InputOK
<1>1. Init => InputOK
  <2> SUFFICES ASSUME Init PROVE InputOK
    OBVIOUS
  <2>1. DOMAIN <<>> = {} /\ IsFiniteSet({})
    BY FS_EmptySet
  <2>2. IsHarvest(<<>>)
    BY <2>1 DEF IsHarvest
  <2> QED
    BY <2>2, TagAssumption DEF Init, InputOK
<1>2. InputOK /\ [Next]_vars => InputOK'
  <2> SUFFICES ASSUME InputOK, [Next]_vars
               PROVE  InputOK'
    OBVIOUS
  <2>1. ASSUME NEW n \in FlavorNames, NEW b \in FlavorNames \cup {NoFlavor},
               NEW as \in AssetLists, AddTable(n, b, as)
        PROVE  InputOK'
    <3>1. [name |-> n, extends |-> b, assets |-> as] \in Tables
      BY DEF Tables
    <3>2. cfg' \in Seq(Tables)
      BY <2>1, <3>1 DEF InputOK, AddTable
    <3> QED
      BY <2>1, <3>2 DEF InputOK, AddTable, glob, harvests
  <2>2. ASSUME NEW c \in Letters \cup {Star}, AddToPattern(c) PROVE InputOK'
    <3>1. pattern' \in Seq(Letters \cup {Star})
      BY <2>2 DEF InputOK, AddToPattern
    <3> QED
      BY <2>2, <3>1 DEF InputOK, AddToPattern, harvests
  <2>3. ASSUME NEW c \in Letters, AddToText(c) PROVE InputOK'
    <3>1. text' \in Seq(Letters)
      BY <2>3 DEF InputOK, AddToText
    <3> QED
      BY <2>3, <3>1 DEF InputOK, AddToText, harvests
  <2>4. ASSUME NEW r \in Repos, NEW t \in Tags, NEW fb \in BOOLEAN, Harvest(r, t, fb)
        PROVE  InputOK'
    <3>1. IsHarvest(harvest) /\ harvest' = [q \in DOMAIN harvest \cup {r} |->
            IF q = r THEN [tag |-> t, fallback |-> fb] ELSE harvest[q]]
      BY <2>4 DEF InputOK, Harvest
    <3>2. DOMAIN harvest' = DOMAIN harvest \cup {r}
      BY <3>1
    <3>3. IsFiniteSet(DOMAIN harvest')
      BY <3>1, <3>2, FS_AddElement DEF IsHarvest
    <3>4. \A q \in DOMAIN harvest' : harvest'[q] \in [tag : Tags, fallback : BOOLEAN]
      BY <3>1, <3>2 DEF IsHarvest
    <3>5. IsHarvest(harvest')
      BY <3>1, <3>2, <3>3, <3>4 DEF IsHarvest
    <3> QED
      BY <2>4, <3>5 DEF InputOK, Harvest, glob
  <2>5. ASSUME NEW t \in Tags, CommitRecipe(t) PROVE InputOK'
    <3>1. recipe' \in Tags
      BY <2>5 DEF CommitRecipe
    <3> QED
      BY <2>5, <3>1 DEF InputOK, CommitRecipe, glob
  <2>6. CASE Build
    <3>1. /\ DOMAIN lastOf' = {1, 2} /\ lastOf'[1] = recipe /\ lastOf'[2] = harvest
          /\ last' = ManifestOf(recipe, harvest)
      BY <2>6 DEF Build
    <3> QED
      BY <2>6, <3>1 DEF InputOK, Build, glob
  <2>7. CASE UNCHANGED vars
    BY <2>7 DEF InputOK, vars, glob, harvests
  <2> QED
    BY <2>1, <2>2, <2>3, <2>4, <2>5, <2>6, <2>7 DEF Next
<1> QED
  BY <1>1, <1>2, PTL DEF Spec

(* What the reconciler compares (reconcile.rs:66, 78) never builds the same *)
(* recipe, repositories and tags again, and builds any change of them      *)
(* among tags without a ';', whatever the names, the tags and the order.   *)
THEOREM BuildsExactlyOnChange == Spec => []BuildsOnChange
<1>1. InputOK => BuildsOnChange
  <2> SUFFICES ASSUME InputOK PROVE BuildsOnChange
    OBVIOUS
  <2>1. IsHarvest(harvest) /\ recipe \in Tags
    BY DEF InputOK
  <2>2. CASE lastOf = <<>>
    <3>1. last = NoManifest
      <4>1. DOMAIN lastOf = {} /\ {} # {1, 2}
        BY <2>2
      <4> QED
        BY <4>1 DEF InputOK
    <3> QED
      BY <2>2, <3>1 DEF BuildsOnChange, ChangedFrom
  <2>3. CASE lastOf # <<>>
    <3>1. /\ lastOf[1] \in Tags /\ IsHarvest(lastOf[2])
          /\ last = ManifestOf(lastOf[1], lastOf[2])
      BY <2>3 DEF InputOK
    <3>2. PICK t, h : /\ t = lastOf[1] /\ h = lastOf[2] /\ t \in Tags /\ IsHarvest(h)
                      /\ last = ManifestOf(t, h)
      BY <3>1
    <3>3. last # NoManifest
      <4>1. PICK rows \in Seq(Row) :
              /\ ManifestOf(t, h) = [recipe |-> Version(RecipeRepo, t, FALSE),
                                     components |-> rows]
              /\ Version(RecipeRepo, t, FALSE) \in Row
        BY <3>2, ManifestRows
      <4>2. PICK v \in Row : last = [recipe |-> v, components |-> rows]
        BY <3>2, <4>1
      <4>3. last \in [recipe : Row, components : Seq(Row)]
        BY <4>2
      <4> QED
        BY <4>3, NoneAssumption DEF Row
    <3>4. LET same == recipe = t /\ TagsOf(harvest) = TagsOf(h)
              equal == Identity(ManifestOf(recipe, harvest)) = Identity(ManifestOf(t, h))
          IN /\ same => equal
             /\ equal /\ Plain(recipe, harvest) /\ Plain(t, h) => same
      BY <2>1, <3>2, IdentityTells
    <3> QED
      BY <2>3, <3>2, <3>3, <3>4 DEF BuildsOnChange, ChangedFrom
  <2> QED
    BY <2>2, <2>3
<1> QED
  BY <1>1, InputType, PTL

(* The scan accepts the names some choice of runs for the stars accepts,   *)
(* whatever is made the pattern and the name.                              *)
THEOREM ScansExactly == Spec => []GlobExact
<1>1. InputOK => GlobExact
  <2> SUFFICES ASSUME InputOK PROVE GlobExact
    OBVIOUS
  <2>1. pattern \in Seq(Letters \cup {Star}) /\ text \in Seq(Letters \cup {Star})
    BY SeqMonotonic DEF InputOK
  <2> QED
    BY <2>1, NoneAssumption, GlobMatchesExactly DEF GlobExact
<1> QED
  BY <1>1, InputType, PTL

(* What TLC asks of every small configuration, of all of them.             *)
THEOREM FlavorsResolve == Spec => []ResolvesAll
<1>1. InputOK => ResolvesAll
  <2> SUFFICES ASSUME InputOK PROVE ResolvesAll
    OBVIOUS
  <2>1. cfg \in Seq(Tables)
    BY DEF InputOK
  <2> QED
    BY <2>1, FlavorHasItsAssets DEF ResolvesAll
<1> QED
  BY <1>1, InputType, PTL

(* Flavors compose upward, in every configuration the steps can make.      *)
THEOREM FlavorsCompose == Spec => []ComposesUpward
<1>1. InputOK => ComposesUpward
  <2> SUFFICES ASSUME InputOK PROVE ComposesUpward
    OBVIOUS
  <2>1. cfg \in Seq(Tables)
    BY DEF InputOK
  <2> QED
    BY <2>1, FlavorComesAfterBase DEF ComposesUpward
<1> QED
  BY <1>1, InputType, PTL

=============================================================================
