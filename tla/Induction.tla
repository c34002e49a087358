----------------------------- MODULE Induction -----------------------------
(***************************************************************************)
(* Induction on natural numbers in a form that takes a set, not an         *)
(* operator, and what follows from it of maxima and of left folds.         *)
(***************************************************************************)
EXTENDS SequencesExt, WellFoundedInduction, TLAPS

(* Numbers of which some are in a set have a least one in it: whatever     *)
(* holds of a number once it holds of all smaller ones holds of all.       *)
LEMMA LeastNat ==
  ASSUME NEW T, T \subseteq Nat, T # {}
  PROVE  \E n \in T : \A m \in T : n <= m
<1>1. PICK R : R = OpToRel(<, Nat)
  OBVIOUS
<1>2. IsWellFoundedOn(R, Nat)
  BY <1>1, NatLessThanWellFounded
<1>3. PICK n \in T : \A m \in T : ~(<<m, n>> \in R)
  BY <1>2, WFMin
<1>4. \A m \in T : ~(m < n)
  BY <1>1, <1>3 DEF OpToRel
<1> QED
  BY <1>4

(* Induction, up to a bound: what is said of each number is a set.         *)
LEMMA UpTo ==
  ASSUME NEW n \in Nat, NEW G, 0 \in G,
         \A k \in 0 .. n : (k + 1 <= n /\ k \in G) => k + 1 \in G
  PROVE  \A k \in 0 .. n : k \in G
<1> DEFINE T == (0 .. n) \ G
<1>1. SUFFICES ASSUME T # {} PROVE FALSE
  OBVIOUS
<1>2. PICK k \in T : \A l \in T : k <= l
  <2>1. T \subseteq Nat
    OBVIOUS
  <2> QED
    BY <1>1, <2>1, LeastNat
<1>3. k # 0 /\ k \in 0 .. n /\ k - 1 \in 0 .. n /\ (k - 1) + 1 = k
  OBVIOUS
<1>4. k - 1 \in G
  BY <1>2, <1>3
<1>5. k \in G
  BY <1>3, <1>4
<1> QED
  BY <1>5

LEMMA MaxOf ==
  ASSUME NEW n \in Nat, NEW S, S \subseteq 1 .. n, S # {}
  PROVE  Max(S) \in S /\ \A x \in S : x <= Max(S)
<1> DEFINE T == {n - x : x \in S}
<1>1. T \subseteq Nat /\ T # {}
  <2>1. \A x \in S : x \in 1 .. n /\ n - x \in Nat
    OBVIOUS
  <2> QED
    BY <2>1
<1>2. PICK d \in T : \A e \in T : d <= e
  BY <1>1, LeastNat
<1>3. PICK x \in S : d = n - x
  OBVIOUS
<1>4. \A y \in S : x >= y
  <2> SUFFICES ASSUME NEW y \in S PROVE x >= y
    OBVIOUS
  <2>1. n - x <= n - y
    BY <1>2, <1>3
  <2> QED
    BY <2>1
<1> QED
  BY <1>4 DEF Max

LEMMA MinOf ==
  ASSUME NEW S, S \subseteq Nat, S # {}
  PROVE  Min(S) \in S /\ \A x \in S : Min(S) <= x
BY LeastNat DEF Min

LEMMA MaxOfInterval ==
  ASSUME NEW n \in Nat, n # 0
  PROVE  Max(1 .. n) = n /\ (1 .. n) \ {n} = 1 .. n - 1
<1>1. Max(1 .. n) \in 1 .. n /\ n <= Max(1 .. n)
  <2>1. n \in 1 .. n
    OBVIOUS
  <2> QED
    BY <2>1, MaxOf
<1> QED
  BY <1>1

(* A function whose value at a set is made of that at the set without its  *)
(* greatest number, as the iteration in a fold over a sequence is.         *)
FoldsOver(g, V, base, f, n) ==
  /\ g \in [SUBSET (1 .. n) -> V]
  /\ \A s \in SUBSET (1 .. n) :
       g[s] = IF s = {} THEN base ELSE f[<<g[s \ {Max(s)}], Max(s)>>]

LEMMA FoldExists ==
  ASSUME NEW V, NEW base \in V, NEW n \in Nat, NEW f \in [V \X (1 .. n) -> V]
  PROVE  \E g : FoldsOver(g, V, base, f, n)
<1> DEFINE T == {k \in 0 .. n : ~\E g : FoldsOver(g, V, base, f, k)}
<1>1. SUFFICES ASSUME T # {} PROVE FALSE
  OBVIOUS
<1>2. PICK k \in T : \A m \in T : k <= m
  <2>1. T \subseteq Nat
    OBVIOUS
  <2> QED
    BY <1>1, <2>1, LeastNat
<1>3. k # 0
  <2>1. FoldsOver([s \in SUBSET (1 .. 0) |-> base], V, base, f, 0)
    BY DEF FoldsOver
  <2> QED
    BY <2>1
<1>4. PICK h : FoldsOver(h, V, base, f, k - 1)
  <2>1. k - 1 \in 0 .. n /\ k - 1 \notin T
    BY <1>2, <1>3
  <2> QED
    BY <2>1
<1> DEFINE g == [s \in SUBSET (1 .. k) |->
                   IF k \in s THEN f[<<h[s \ {k}], k>>] ELSE h[s]]
<1>5. \A s \in SUBSET (1 .. k) :
        /\ s \ {k} \in SUBSET (1 .. k - 1)
        /\ k \notin s => s \in SUBSET (1 .. k - 1)
  OBVIOUS
<1>6. g \in [SUBSET (1 .. k) -> V]
  BY <1>4, <1>5 DEF FoldsOver
<1>7. ASSUME NEW s \in SUBSET (1 .. k)
      PROVE  g[s] = IF s = {} THEN base ELSE f[<<g[s \ {Max(s)}], Max(s)>>]
  <2>1. CASE k \in s
    <3>1. Max(s) = k
      <4>1. k \in Nat /\ s \subseteq 1 .. k /\ s # {}
        BY <2>1
      <4>2. Max(s) \in s /\ k <= Max(s)
        BY <2>1, <4>1, MaxOf
      <4>3. Max(s) \in 1 .. k
        BY <4>1, <4>2
      <4> QED
        BY <4>2, <4>3
    <3>2. s \ {k} \in SUBSET (1 .. k) /\ k \notin s \ {k}
      OBVIOUS
    <3>3. g[s \ {k}] = h[s \ {k}]
      BY <3>2
    <3>4. g[s] = f[<<h[s \ {k}], k>>]
      BY <2>1
    <3> HIDE DEF g
    <3> QED
      BY <2>1, <3>1, <3>3, <3>4
  <2>2. CASE k \notin s
    <3>1. s \in SUBSET (1 .. k - 1) /\ g[s] = h[s]
      BY <1>5, <2>2
    <3>2. g[s \ {Max(s)}] = h[s \ {Max(s)}]
      BY <2>2
    <3> QED
      BY <1>4, <3>1, <3>2 DEF FoldsOver
  <2> QED
    BY <2>1, <2>2
<1>8. FoldsOver(g, V, base, f, k)
  BY <1>6, <1>7 DEF FoldsOver
<1> QED
  BY <1>8

(* The values of a fold, one element after the other, from its iteration   *)
(* M over sets: f need be the step only of what the fold comes to.         *)
Iterates(M, V, base, f, n) ==
  /\ base \in V /\ n \in Nat /\ f \in [V \X (1 .. n) -> V]
  /\ M[{}] = base
  /\ \A s \in SUBSET (1 .. n) :
       (s # {} /\ M[s \ {Max(s)}] \in V) => M[s] = f[<<M[s \ {Max(s)}], Max(s)>>]

LEMMA FoldSteps ==
  ASSUME NEW M, NEW V, NEW base, NEW f, NEW n, Iterates(M, V, base, f, n)
  PROVE  \E h \in [0 .. n -> V] :
           /\ h[0] = base /\ h[n] = M[1 .. n]
           /\ \A k \in 0 .. n - 1 : h[k + 1] = f[<<h[k], k + 1>>]
<1> USE DEF Iterates
<1> DEFINE h == [k \in 0 .. n |-> M[1 .. k]]
           G == {k \in 0 .. n : h[k] \in V}
<1>1. h[0] = base /\ h[n] = M[1 .. n] /\ 0 \in 0 .. n
  <2>1. 1 .. 0 = {} /\ 0 \in 0 .. n /\ n \in 0 .. n
    OBVIOUS
  <2> QED
    BY <2>1
<1>2. ASSUME NEW k \in 0 .. n - 1, h[k] \in V
      PROVE  h[k + 1] = f[<<h[k], k + 1>>]
  <2>1. /\ k \in Nat /\ k + 1 \in Nat /\ k + 1 # 0 /\ (k + 1) - 1 = k
        /\ k \in 0 .. n /\ k + 1 \in 0 .. n /\ k + 1 \in 1 .. n
    OBVIOUS
  <2>2. Max(1 .. k + 1) = k + 1 /\ (1 .. k + 1) \ {k + 1} = 1 .. k
    BY <2>1, MaxOfInterval
  <2>3. 1 .. k + 1 \in SUBSET (1 .. n) /\ 1 .. k + 1 # {}
    <3>1. k + 1 \in 1 .. k + 1 /\ \A x \in 1 .. k + 1 : x \in 1 .. n
      BY <2>1
    <3> QED
      BY <3>1
  <2>4. h[k] = M[1 .. k] /\ h[k + 1] = M[1 .. k + 1]
    BY <2>1
  <2> HIDE DEF h
  <2> QED
    BY <1>2, <2>2, <2>3, <2>4
<1>3. \A k \in 0 .. n : k \in G
  <2> HIDE DEF h
  <2>1. 0 \in G
    BY <1>1
  <2>2. ASSUME NEW k \in 0 .. n, k + 1 <= n, k \in G
        PROVE  k + 1 \in G
    <3>1. k \in 0 .. n - 1 /\ k + 1 \in 1 .. n /\ k + 1 \in 0 .. n
      BY <2>2
    <3> QED
      BY <1>2, <2>2, <3>1
  <2> HIDE DEF G
  <2> QED
    BY <2>1, <2>2, UpTo
<1>4. h \in [0 .. n -> V]
  BY <1>3
<1>5. \A k \in 0 .. n - 1 : h[k] \in V
  BY <1>3
<1> HIDE DEF h
<1> QED
  BY <1>1, <1>2, <1>4, <1>5

(* Induction over what has a measure.                                      *)
LEMMA ByMeasure ==
  ASSUME NEW X, NEW N \in Nat, NEW m \in [X -> 0 .. N], NEW P,
         \A x \in X : (\A y \in X : m[y] < m[x] => y \in P) => x \in P
  PROVE  \A x \in X : x \in P
<1> DEFINE T == {m[x] : x \in X \ P}
<1>1. SUFFICES ASSUME X \ P # {} PROVE FALSE
  OBVIOUS
<1>2. PICK k \in T : \A l \in T : k <= l
  <2>1. T \subseteq Nat /\ T # {}
    BY <1>1
  <2> QED
    BY <2>1, LeastNat
<1>3. PICK x \in X \ P : k = m[x]
  OBVIOUS
<1>4. \A y \in X : m[y] < m[x] => y \in P
  <2> SUFFICES ASSUME NEW y \in X, m[y] < m[x], y \notin P PROVE FALSE
    OBVIOUS
  <2>1. m[x] <= m[y]
    BY <1>2, <1>3
  <2> QED
    BY <2>1
<1> QED
  BY <1>4

(* A function may be defined by what it is of smaller arguments.           *)
Recurs(F, X, V, m, N) ==
  /\ V # {} /\ N \in Nat /\ m \in [X -> 0 .. N]
  /\ F \in [[X -> V] \X X -> V]
  /\ \A u, w \in [X -> V], x \in X :
       (\A y \in X : m[y] < m[x] => u[y] = w[y]) => F[<<u, x>>] = F[<<w, x>>]

LEMMA RecursionExists ==
  ASSUME NEW F, NEW X, NEW V, NEW m, NEW N, Recurs(F, X, V, m, N)
  PROVE  \E w \in [X -> V] : \A x \in X : w[x] = F[<<w, x>>]
<1> USE DEF Recurs
<1> DEFINE Solves(w, k) == \A x \in X : m[x] < k => w[x] = F[<<w, x>>]
           G == {k \in 0 .. N + 1 : \E w \in [X -> V] : Solves(w, k)}
<1>1. 0 \in G
  <2>1. PICK v \in V : TRUE
    OBVIOUS
  <2>2. [x \in X |-> v] \in [X -> V] /\ \A x \in X : ~(m[x] < 0)
    OBVIOUS
  <2>3. 0 \in 0 .. N + 1
    OBVIOUS
  <2> QED
    BY <2>2, <2>3
<1>2. ASSUME NEW k \in 0 .. N + 1, k + 1 <= N + 1, k \in G
      PROVE  k + 1 \in G
  <2>1. PICK w \in [X -> V] : Solves(w, k)
    BY <1>2
  <2> DEFINE u == [x \in X |-> IF m[x] < k THEN w[x] ELSE F[<<w, x>>]]
  <2>2. u \in [X -> V]
    OBVIOUS
  <2>3. ASSUME NEW x \in X, m[x] < k + 1
        PROVE  u[x] = F[<<u, x>>]
    <3>1. \A y \in X : m[y] < m[x] => u[y] = w[y]
      <4>1. \A y \in X : m[y] \in Nat /\ m[x] \in Nat
        OBVIOUS
      <4>2. \A a, b \in Nat : a < b /\ b < k + 1 => a < k
        OBVIOUS
      <4> QED
        BY <2>3, <4>1, <4>2
    <3> HIDE DEF u
    <3>2. F[<<u, x>>] = F[<<w, x>>]
      BY <2>2, <3>1
    <3>3. u[x] = F[<<w, x>>]
      <4>1. u[x] = IF m[x] < k THEN w[x] ELSE F[<<w, x>>]
        BY DEF u
      <4> QED
        BY <2>1, <4>1
    <3> QED
      BY <3>2, <3>3
  <2> HIDE DEF u
  <2>4. Solves(u, k + 1)
    BY <2>3
  <2>5. k + 1 \in 0 .. N + 1
    BY <1>2
  <2> HIDE DEF Solves
  <2> QED
    BY <2>2, <2>4, <2>5
<1>3. N + 1 \in G
  <2> HIDE DEF G
  <2>1. N + 1 \in Nat /\ N + 1 \in 0 .. N + 1
    OBVIOUS
  <2> QED
    BY <1>1, <1>2, <2>1, UpTo
<1>4. PICK w \in [X -> V] : Solves(w, N + 1)
  BY <1>3
<1>5. \A x \in X : m[x] < N + 1
  OBVIOUS
<1> QED
  BY <1>4, <1>5

=============================================================================
