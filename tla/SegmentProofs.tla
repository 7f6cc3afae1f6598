---------------------------- MODULE SegmentProofs ----------------------------
(***************************************************************************)
(* Lemmas about the blocks of module Segments: addresses, chains of links, *)
(* and what each routine does to a sound store.                            *)
(***************************************************************************)
EXTENDS Segments, FiniteSetTheorems, WellFoundedInduction, TLAPS

----------------------------------------------------------------------------
(* Induction and iteration.                                                *)

(* A set of naturals has a least member.                                   *)
LEMMA LeastNatural ==
  ASSUME NEW S \in SUBSET Nat, S # {}
  PROVE  \E n \in S : \A m \in S : n <= m
<1>1. PICK R : R = {ss \in Nat \X Nat : ss[1] < ss[2]}
  OBVIOUS
<1>2. IsWellFoundedOn(R, Nat)
  BY <1>1, NatLessThanWellFounded DEF OpToRel
<1>3. PICK n \in S : \A m \in S : <<m, n>> \notin R
  BY <1>2, WFMin
<1>4. ASSUME NEW m \in S, m < n PROVE <<m, n>> \in R
  BY <1>1, <1>4
<1>5. n \in Nat /\ \A m \in S : m \in Nat /\ ~(m < n)
  BY <1>3, <1>4
<1>6. \A m \in S : n <= m
  BY <1>5
<1> QED  BY <1>6

(* Induction over the members of a set.                                    *)
LEMMA SetInduction ==
  ASSUME NEW S, 0 \in S, \A n \in Nat : n \in S => n + 1 \in S
  PROVE  Nat \subseteq S
<1> SUFFICES ASSUME Nat \ S # {} PROVE FALSE
  OBVIOUS
<1>1. PICK n \in Nat \ S : \A m \in Nat \ S : n <= m
  BY LeastNatural
<1>2. n # 0 /\ n - 1 \in Nat /\ n - 1 \in S
  BY <1>1
<1> QED  BY <1>1, <1>2

(* f iterates g from s, up to N.                                           *)
Iterates(f, g, s, N) ==
  f[0] = s /\ \A d \in 1 .. N : f[d] = g[f[d - 1]]

(* Iteration is well defined, up to any N.                                 *)
LEMMA IterationExists ==
  ASSUME NEW S, NEW s \in S, NEW g \in [S -> S], NEW N \in Nat
  PROVE  \E f \in [0 .. N -> S] : Iterates(f, g, s, N)
<1> DEFINE D == {n \in Nat : \E f \in [0 .. n -> S] : Iterates(f, g, s, n)}
<1>1. 0 \in D
  <2>1. PICK f : f = [d \in 0 .. 0 |-> s]
    OBVIOUS
  <2>2. f \in [0 .. 0 -> S] /\ Iterates(f, g, s, 0)
    BY <2>1 DEF Iterates
  <2> QED  BY <2>2
<1>2. ASSUME NEW n \in Nat, n \in D PROVE n + 1 \in D
  <2>1. PICK f \in [0 .. n -> S] : Iterates(f, g, s, n)
    BY <1>2
  <2>2. PICK e : e = [d \in 0 .. n + 1 |-> IF d = n + 1 THEN g[f[n]] ELSE f[d]]
    OBVIOUS
  <2>3. e \in [0 .. n + 1 -> S]
    BY <2>1, <2>2
  <2>4. Iterates(e, g, s, n + 1)
    BY <2>1, <2>2 DEF Iterates
  <2> QED  BY <2>3, <2>4
<1> HIDE DEF D
<1>3. Nat \subseteq D
  BY <1>1, <1>2, SetInduction
<1> QED  BY <1>3 DEF D

----------------------------------------------------------------------------
(* Addresses.                                                              *)

(* Quotient and remainder.                                                 *)
LEMMA DivMod ==
  ASSUME NEW a \in Int, NEW z \in Nat \ {0}
  PROVE  /\ a \div z \in Int /\ a % z \in 0 .. z - 1
         /\ a = z * (a \div z) + (a % z)
OBVIOUS

(* They are unique.                                                        *)
LEMMA DivModUnique ==
  ASSUME NEW q \in Int, NEW b \in Int, NEW z \in Nat \ {0},
         NEW r \in 0 .. z - 1, NEW o \in 0 .. z - 1, z * q + r = z * b + o
  PROVE  q = b /\ r = o
<1>1. z * (q - b) = o - r
  OBVIOUS
<1>2. q - b >= 1 => z * (q - b) >= z
  OBVIOUS
<1>3. q - b <= -1 => z * (q - b) <= -z
  OBVIOUS
<1> QED  BY <1>1, <1>2, <1>3

(* mkdraddr, BlkOf and OffOf are inverse to each other.                    *)
LEMMA AddrOfParts ==
  ASSUME NEW b \in Blk, NEW o \in Offset
  PROVE  BlkOf(mkdraddr(b, o)) = b /\ OffOf(mkdraddr(b, o)) = o
<1>1. PICK z \in Nat \ {0} : z = ZBLKSZ
  BY SegmentConstants
<1>2. b \in Int /\ o \in 0 .. z - 1
  BY <1>1, SegmentConstants DEF Blk, Offset
<1> DEFINE a == b * z + o
<1>3. a \in Int /\ a = z * b + o
  BY <1>2
<1>4. /\ a \div z \in Int /\ a % z \in 0 .. z - 1
      /\ a = z * (a \div z) + (a % z)
  BY <1>3, DivMod
<1> HIDE DEF a
<1>5. a \div z = b /\ a % z = o
  BY <1>2, <1>3, <1>4, DivModUnique
<1> QED  BY <1>1, <1>5 DEF a, BlkOf, OffOf, mkdraddr

(* An address is the one of its block and offset; none is 0 or ZNULL.      *)
LEMMA AddrParts ==
  ASSUME NEW a \in Addr
  PROVE  /\ BlkOf(a) \in Blk /\ OffOf(a) \in Offset
         /\ a = mkdraddr(BlkOf(a), OffOf(a))
         /\ a \in Nat \ {0} /\ a # ZNULL
<1>1. PICK b \in Blk, o \in Offset : a = mkdraddr(b, o)
  BY DEF Addr
<1>2. BlkOf(a) = b /\ OffOf(a) = o
  BY <1>1, AddrOfParts
<1>3. PICK z \in Nat \ {0} : z = ZBLKSZ
  BY SegmentConstants
<1>4. b \in Nat \ {0} /\ o \in Nat
  BY SegmentConstants DEF Blk, Offset
<1>5. b * z \in Nat /\ b * z > 0
  BY <1>3, <1>4
<1>6. a \in Nat \ {0}
  BY <1>1, <1>3, <1>4, <1>5 DEF mkdraddr
<1> QED  BY <1>1, <1>2, <1>6 DEF ZNULL

(* Two addresses in one block are at different offsets.                    *)
LEMMA AddrUnique ==
  ASSUME NEW a \in Addr, NEW c \in Addr, BlkOf(a) = BlkOf(c),
         OffOf(a) = OffOf(c)
  PROVE  a = c
BY AddrParts

(* There are finitely many blocks and addresses.                           *)
LEMMA FinitePlaces == IsFiniteSet(Blk) /\ IsFiniteSet(Addr)
<1>1. IsFiniteSet(Blk) /\ IsFiniteSet(Offset)
  BY FS_Interval, SegmentConstants DEF Blk, Offset
<1>2. IsFiniteSet(Blk \X Offset)
  BY <1>1, FS_Product
<1> DEFINE f == [x \in Blk \X Offset |-> mkdraddr(x[1], x[2])]
<1>3. f \in Surjection(Blk \X Offset, Addr)
  <2>1. \A x \in Blk \X Offset : f[x] \in Addr
    BY DEF Addr
  <2>2. ASSUME NEW a \in Addr PROVE \E x \in Blk \X Offset : f[x] = a
    <3>1. PICK b \in Blk, o \in Offset : a = mkdraddr(b, o)
      BY DEF Addr
    <3>2. <<b, o>> \in Blk \X Offset /\ f[<<b, o>>] = a
      BY <3>1
    <3> QED  BY <3>2
  <2> QED  BY <2>1, <2>2 DEF Surjection
<1> QED  BY <1>1, <1>2, <1>3, FS_Surjection

----------------------------------------------------------------------------
(* Trails.                                                                 *)

(* F[n][p] is what the trail from p has after n places.                    *)
IsTrail(F, D, nx, N) ==
  /\ F \in [0 .. N -> [Int -> SUBSET D]]
  /\ \A p \in Int : F[0][p] = {}
  /\ \A n \in 1 .. N : \A p \in Int :
       F[n][p] = IF p \notin D THEN {} ELSE {p} \cup F[n - 1][nx[p]]

(* The recursion of Trail.                                                 *)
LEMMA TrailExists ==
  ASSUME NEW D \in SUBSET Int, IsFiniteSet(D), NEW nx \in [D -> Int]
  PROVE  \E F : IsTrail(F, D, nx, Cardinality(D)) /\
                \A p \in Int : Trail(nx, p) = F[Cardinality(D)][p]
<1> DEFINE N == Cardinality(D)
           S == [Int -> SUBSET D]
           g == [h \in S |-> [p \in Int |->
                   IF p \notin D THEN {} ELSE {p} \cup h[nx[p]]]]
           s == [p \in Int |-> {}]
           E(f) == [n \in 0 .. N |-> [q \in Int |->
                      IF n = 0 \/ q \notin D THEN {}
                      ELSE {q} \cup f[n - 1][nx[q]]]]
           L == CHOOSE f : f = E(f)
<1>1. N \in Nat
  BY FS_CardinalityType
<1>2. s \in S
  OBVIOUS
<1>3. g \in [S -> S]
  <2>1. ASSUME NEW h \in S
        PROVE  [p \in Int |-> IF p \notin D THEN {} ELSE {p} \cup h[nx[p]]] \in S
    OBVIOUS
  <2> QED  BY <2>1
<1> HIDE DEF N, s, g
<1>4. PICK f \in [0 .. N -> S] : Iterates(f, g, s, N)
  BY <1>1, <1>2, <1>3, IterationExists
<1>5. ASSUME NEW n \in 0 .. N
      PROVE  f[n] = [q \in Int |-> IF n = 0 \/ q \notin D THEN {}
                                   ELSE {q} \cup f[n - 1][nx[q]]]
  <2>1. CASE n = 0
    BY <1>4, <2>1 DEF Iterates, s
  <2>2. CASE n # 0
    <3>1. n \in 1 .. N /\ n - 1 \in 0 .. N
      BY <1>1, <2>2
    <3>2. f[n] = g[f[n - 1]] /\ f[n - 1] \in S
      BY <1>4, <3>1 DEF Iterates
    <3> QED  BY <2>2, <3>2 DEF g
  <2> QED  BY <2>1, <2>2
<1>6. f = E(f)
  BY <1>4, <1>5
<1> HIDE DEF E
<1>7. L = E(L)
  BY <1>6
<1>8. \A p \in Int : Trail(nx, p) = L[N][p]
  <2>1. DOMAIN nx = D
    OBVIOUS
  <2> QED  BY <2>1 DEF Trail, E, N
<1> HIDE DEF L
<1>9. /\ DOMAIN L = 0 .. N
      /\ \A n \in 0 .. N :
           L[n] = [q \in Int |-> IF n = 0 \/ q \notin D THEN {}
                                 ELSE {q} \cup L[n - 1][nx[q]]]
  BY <1>7 DEF E
<1>10. \A p \in Int : L[0][p] = {}
  BY <1>1, <1>9
<1>11. \A n \in 1 .. N : \A p \in Int :
         L[n][p] = IF p \notin D THEN {} ELSE {p} \cup L[n - 1][nx[p]]
  <2> TAKE n \in 1 .. N, p \in Int
  <2>1. n \in 0 .. N /\ n # 0
    BY <1>1
  <2> QED  BY <1>9, <2>1
<1> DEFINE Q == {n \in Nat : n <= N => L[n] \in S}
<1>12. 0 \in Q
  <2>1. 0 \in 0 .. N
    BY <1>1
  <2>2. L[0] = [q \in Int |-> IF 0 = 0 \/ q \notin D THEN {}
                              ELSE {q} \cup L[0 - 1][nx[q]]]
    BY <1>9, <2>1
  <2>3. L[0] \in S
    BY <2>2
  <2> QED  BY <2>3
<1>13. ASSUME NEW n \in Nat, n \in Q PROVE n + 1 \in Q
  <2> SUFFICES ASSUME n + 1 <= N PROVE L[n + 1] \in S
    OBVIOUS
  <2>1. PICK m \in 0 .. N : m = n + 1
    BY <1>1
  <2>2. L[m] = [q \in Int |-> IF m = 0 \/ q \notin D THEN {}
                              ELSE {q} \cup L[m - 1][nx[q]]]
    BY <1>9
  <2>3. L[m - 1] \in S
    <3>1. m - 1 = n /\ n <= N
      BY <1>1, <2>1
    <3> HIDE DEF S, L
    <3> QED  BY <1>13, <3>1
  <2>4. \A q \in Int : (IF m = 0 \/ q \notin D THEN {}
                        ELSE {q} \cup L[m - 1][nx[q]]) \in SUBSET D
    BY <2>3
  <2>5. L[m] \in S
    BY <2>2, <2>4
  <2> QED  BY <2>1, <2>5
<1> HIDE DEF Q
<1>14. Nat \subseteq Q
  BY <1>12, <1>13, SetInduction
<1>15. L \in [0 .. N -> S]
  <2>1. \A n \in 0 .. N : L[n] \in S
    BY <1>1, <1>14 DEF Q
  <2>2. L = [n \in 0 .. N |-> L[n]]
    BY <1>7 DEF E
  <2> HIDE DEF S, L
  <2> QED  BY <2>1, <2>2
<1>16. IsTrail(L, D, nx, N)
  BY <1>10, <1>11, <1>15 DEF IsTrail
<1> QED  BY <1>8, <1>16 DEF N

(* One place more is one link more.                                        *)
Grown(X, Y, D, nx, p) ==
  /\ X \subseteq D
  /\ \A q \in D : q \in X <=> \/ q = p \/ q \in Y \/ \E r \in Y : q = nx[r]

LEMMA TrailGrows ==
  ASSUME NEW D \in SUBSET Int, NEW nx \in [D -> Int], NEW F, NEW N \in Nat,
         IsTrail(F, D, nx, N), NEW n \in Nat, n < N, NEW p \in D
  PROVE  Grown(F[n + 1][p], F[n][p], D, nx, p)
<1> DEFINE R(k, t) == {q \in D : \/ q = t \/ q \in F[k][t]
                                 \/ \E r \in F[k][t] : q = nx[r]}
           Q == {k \in Nat : k < N => \A t \in D : F[k + 1][t] = R(k, t)}
<1>1. ASSUME NEW k \in Nat, k < N, NEW t \in D
      PROVE  /\ F[k + 1][t] = {t} \cup F[k][nx[t]]
             /\ F[k][t] \subseteq D /\ F[k][nx[t]] \subseteq D
  <2>1. PICK m \in 1 .. N : m = k + 1
    BY <1>1
  <2>2. F[m][t] = {t} \cup F[m - 1][nx[t]]
    BY <1>1 DEF IsTrail
  <2>3. k \in 0 .. N /\ m - 1 = k
    BY <1>1, <2>1
  <2> QED  BY <1>1, <2>1, <2>2, <2>3 DEF IsTrail
<1>2. 0 \in Q
  <2> SUFFICES ASSUME 0 < N, NEW t \in D PROVE F[0 + 1][t] = R(0, t)
    OBVIOUS
  <2>1. F[0 + 1][t] = {t} \cup F[0][nx[t]]
    BY <1>1
  <2>2. F[0][nx[t]] = {} /\ F[0][t] = {}
    BY DEF IsTrail
  <2>3. R(0, t) = {t}
    BY <2>2
  <2> QED  BY <2>1, <2>2, <2>3
<1>3. ASSUME NEW k \in Nat, k \in Q PROVE k + 1 \in Q
  <2> SUFFICES ASSUME k + 1 < N, NEW t \in D
               PROVE  F[k + 1 + 1][t] = R(k + 1, t)
    OBVIOUS
  <2>1. F[k + 1 + 1][t] = {t} \cup F[k + 1][nx[t]] /\ F[k + 1][nx[t]] \subseteq D
    BY <1>1
  <2>2. F[k + 1][t] = {t} \cup F[k][nx[t]] /\ F[k][nx[t]] \subseteq D
    <3>1. k < N
      OBVIOUS
    <3> HIDE DEF Q, R
    <3> QED  BY <1>1, <3>1
  <2>3. CASE nx[t] \in D
    <3>1. F[k + 1][nx[t]] = R(k, nx[t])
      <4>1. k < N
        OBVIOUS
      <4>2. \A r \in D : F[k + 1][r] = R(k, r)
        BY <1>3, <4>1
      <4> HIDE DEF R
      <4> QED  BY <2>3, <4>2
    <3> HIDE DEF Q
    <3>2. ASSUME NEW q \in D
          PROVE  q \in R(k + 1, t) <=> q \in {t} \cup F[k + 1][nx[t]]
      BY <2>2, <2>3, <3>1
    <3> QED  BY <2>1, <3>2
  <2>4. CASE nx[t] \notin D
    <3>1. F[k + 1][nx[t]] = {} /\ F[k][nx[t]] = {}
      <4> HIDE DEF Q, R
      <4>1. k + 1 \in 1 .. N /\ k \in 0 .. N /\ nx[t] \in Int
        OBVIOUS
      <4>2. F[k + 1][nx[t]] = {}
        BY <2>4, <4>1 DEF IsTrail
      <4>3. CASE k = 0
        BY <4>1, <4>2, <4>3 DEF IsTrail
      <4>4. CASE k # 0
        <5>1. k \in 1 .. N
          BY <4>1, <4>4
        <5> QED  BY <2>4, <4>1, <4>2, <5>1 DEF IsTrail
      <4> QED  BY <4>3, <4>4
    <3> HIDE DEF Q
    <3>2. ASSUME NEW q \in D
          PROVE  q \in R(k + 1, t) <=> q \in {t} \cup F[k + 1][nx[t]]
      BY <2>2, <2>4, <3>1
    <3> QED  BY <2>1, <3>2
  <2> QED  BY <2>3, <2>4
<1> HIDE DEF Q
<1>4. Nat \subseteq Q
  BY <1>2, <1>3, SetInduction
<1>5. F[n + 1][p] = R(n, p)
  BY <1>4 DEF Q
<1> QED  BY <1>5 DEF Grown

(* A trail has its first place, ends only where a link leads out of the    *)
(* places there are, and has no place it need not have.                    *)
Closed(X, D, nx) == \A q \in X : nx[q] \in D => nx[q] \in X

LEMMA TrailClosed ==
  ASSUME NEW D \in SUBSET Int, IsFiniteSet(D), NEW nx \in [D -> Int],
         NEW p \in Int
  PROVE  /\ Trail(nx, p) \subseteq D
         /\ p \in D => p \in Trail(nx, p)
         /\ p \notin D => Trail(nx, p) = {}
         /\ Closed(Trail(nx, p), D, nx)
<1> DEFINE N == Cardinality(D)
<1>1. PICK F : IsTrail(F, D, nx, N) /\ \A q \in Int : Trail(nx, q) = F[N][q]
  BY TrailExists
<1>2. N \in Nat
  BY FS_CardinalityType
<1>3. CASE p \notin D
  <2>1. F[N][p] = {}
    <3>1. CASE N = 0
      BY <1>1, <3>1 DEF IsTrail
    <3>2. CASE N # 0
      <4>1. N \in 1 .. N
        BY <1>2, <3>2
      <4> HIDE DEF N
      <4> QED  BY <1>1, <1>3, <4>1 DEF IsTrail
    <3> QED  BY <3>1, <3>2
  <2> QED  BY <1>1, <1>3, <2>1 DEF Closed
<1>4. CASE p \in D
  <2> HIDE DEF N
  <2> DEFINE Q == {n \in Nat : n + 1 <= N =>
                     /\ p \in F[n + 1][p] /\ F[n + 1][p] \subseteq D
                     /\ Closed(F[n + 1][p], D, nx) \/
                          Cardinality(F[n + 1][p]) >= n + 1}
  <2>1. ASSUME NEW n \in Nat, n < N
        PROVE  /\ F[n + 1][p] \subseteq D
               /\ \A q \in D : q \in F[n + 1][p] <=>
                    \/ q = p \/ q \in F[n][p]
                    \/ \E r \in F[n][p] : q = nx[r]
    <3>1. IsTrail(F, D, nx, N) /\ p \in D
      BY <1>1, <1>4
    <3> HIDE DEF Q
    <3>2. Grown(F[n + 1][p], F[n][p], D, nx, p)
      BY <1>2, <2>1, <3>1, TrailGrows
    <3> QED  BY <3>2 DEF Grown
  <2>2. 0 \in Q
    <3> SUFFICES ASSUME 0 + 1 <= N
                 PROVE  /\ p \in F[0 + 1][p] /\ F[0 + 1][p] \subseteq D
                        /\ Cardinality(F[0 + 1][p]) >= 0 + 1
      OBVIOUS
    <3>1. 0 \in 0 .. N /\ 0 < N /\ F[0][p] = {}
      BY <1>1, <1>2 DEF IsTrail
    <3>2. F[0 + 1][p] = {p}
      BY <1>4, <2>1, <3>1
    <3>3. Cardinality({p}) = 1
      BY FS_Singleton
    <3> QED  BY <1>4, <3>2, <3>3
  <2>3. ASSUME NEW n \in Nat, n \in Q PROVE n + 1 \in Q
    <3> SUFFICES ASSUME n + 1 + 1 <= N
                 PROVE  /\ p \in F[n + 1 + 1][p] /\ F[n + 1 + 1][p] \subseteq D
                        /\ Closed(F[n + 1 + 1][p], D, nx) \/
                             Cardinality(F[n + 1 + 1][p]) >= n + 1 + 1
      OBVIOUS
    <3>1. PICK m \in 1 .. N : m = n + 1
      BY <1>2
    <3>2. /\ p \in F[m][p] /\ F[m][p] \subseteq D
          /\ Closed(F[m][p], D, nx) \/ Cardinality(F[m][p]) >= m
      BY <2>3, <3>1
    <3>3. /\ F[m + 1][p] \subseteq D
          /\ \A q \in D : q \in F[m + 1][p] <=>
               \/ q = p \/ q \in F[m][p]
               \/ \E r \in F[m][p] : q = nx[r]
      <4>1. m \in Nat /\ m < N
        BY <1>2, <3>1
      <4> QED  BY <2>1, <4>1
    <3>4. p \in F[m + 1][p] /\ F[m + 1][p] \subseteq D /\ F[m][p] \subseteq F[m + 1][p]
      BY <1>4, <3>2, <3>3
    <3>5. CASE Closed(F[m][p], D, nx)
      <4>1. ASSUME NEW q \in F[m + 1][p] PROVE q \in F[m][p]
        <5>1. q \in D
          BY <3>3
        <5> QED  BY <3>2, <3>3, <3>5, <5>1 DEF Closed
      <4>2. F[m + 1][p] = F[m][p]
        BY <3>4, <4>1
      <4> QED  BY <3>1, <3>4, <3>5, <4>2
    <3>6. CASE ~Closed(F[m][p], D, nx)
      <4>1. PICK r \in F[m][p] : nx[r] \in D /\ nx[r] \notin F[m][p]
        BY <3>6 DEF Closed
      <4>2. F[m][p] \cup {nx[r]} \subseteq F[m + 1][p]
        BY <3>3, <3>4, <4>1
      <4>3. IsFiniteSet(F[m][p]) /\ IsFiniteSet(F[m + 1][p])
        BY <3>2, <3>4, FS_Subset
      <4>4. Cardinality(F[m][p] \cup {nx[r]}) = Cardinality(F[m][p]) + 1
        <5>1. PICK S, x : S = F[m][p] /\ x = nx[r]
          OBVIOUS
        <5>2. Cardinality(S \cup {x}) = Cardinality(S) + 1
          <6>1. IsFiniteSet(S) /\ x \notin S
            BY <4>1, <4>3, <5>1
          <6> QED  BY <6>1, FS_AddElement, Zenon
        <5> QED  BY <5>1, <5>2
      <4>5. Cardinality(F[m][p] \cup {nx[r]}) <= Cardinality(F[m + 1][p])
        BY <4>2, <4>3, FS_Subset
      <4>6. /\ Cardinality(F[m][p]) \in Nat
            /\ Cardinality(F[m + 1][p]) \in Nat
        BY <4>3, FS_CardinalityType
      <4>7. Cardinality(F[m + 1][p]) >= m + 1
        BY <3>2, <3>6, <4>4, <4>5, <4>6
      <4> QED  BY <3>1, <3>4, <4>7
    <3> QED  BY <3>5, <3>6
  <2> HIDE DEF Q
  <2>4. Nat \subseteq Q
    BY <2>2, <2>3, SetInduction
  <2>5. N # 0
    BY <1>4, FS_EmptySet DEF N
  <2>6. /\ p \in F[N][p] /\ F[N][p] \subseteq D
        /\ Closed(F[N][p], D, nx) \/ Cardinality(F[N][p]) >= N
    <3>1. PICK n \in Nat : n + 1 = N
      BY <1>2, <2>5
    <3> QED  BY <2>4, <3>1 DEF Q
  <2>7. ASSUME Cardinality(F[N][p]) >= N PROVE Closed(F[N][p], D, nx)
    <3>1. IsFiniteSet(F[N][p]) /\ Cardinality(F[N][p]) <= N
      BY <2>6, FS_Subset DEF N
    <3>2. Cardinality(F[N][p]) = N
      BY <1>2, <2>7, <3>1, FS_CardinalityType
    <3>3. F[N][p] = D
      BY <2>6, <3>2, FS_Subset DEF N
    <3> QED  BY <3>3 DEF Closed
  <2> QED  BY <1>1, <1>4, <2>6, <2>7
<1> QED  BY <1>3, <1>4

LEMMA TrailLeast ==
  ASSUME NEW D \in SUBSET Int, IsFiniteSet(D), NEW nx \in [D -> Int],
         NEW p \in Int, NEW X, p \in D => p \in X, Closed(X \cap D, D, nx)
  PROVE  Trail(nx, p) \subseteq X
<1> DEFINE N == Cardinality(D)
<1>1. PICK F : IsTrail(F, D, nx, N) /\ \A q \in Int : Trail(nx, q) = F[N][q]
  BY TrailExists
<1>2. N \in Nat
  BY FS_CardinalityType
<1> HIDE DEF N
<1> DEFINE Q == {n \in Nat : n <= N =>
                   \A q \in Int : (q \in D => q \in X) => F[n][q] \subseteq X}
<1>3. 0 \in Q
  BY <1>1 DEF IsTrail
<1>4. ASSUME NEW n \in Nat, n \in Q PROVE n + 1 \in Q
  <2> SUFFICES ASSUME n + 1 <= N, NEW q \in Int, q \in D => q \in X
               PROVE  F[n + 1][q] \subseteq X
    OBVIOUS
  <2>1. PICK m \in 1 .. N : m = n + 1 /\ m - 1 = n
    BY <1>2
  <2>2. F[m][q] = IF q \notin D THEN {} ELSE {q} \cup F[m - 1][nx[q]]
    BY <1>1 DEF IsTrail
  <2>3. q \in D => F[n][nx[q]] \subseteq X
    <3> SUFFICES ASSUME q \in D PROVE F[n][nx[q]] \subseteq X
      OBVIOUS
    <3>1. nx[q] \in Int /\ (nx[q] \in D => nx[q] \in X)
      BY DEF Closed
    <3>2. n <= N
      BY <1>2
    <3> QED  BY <1>4, <3>1, <3>2
  <2> QED  BY <2>1, <2>2, <2>3
<1> HIDE DEF Q
<1>5. Nat \subseteq Q
  BY <1>3, <1>4, SetInduction
<1>6. F[N][p] \subseteq X
  BY <1>2, <1>5 DEF Q
<1> QED  BY <1>1, <1>6

(* A trail is its first place and the trail from the second.               *)
LEMMA TrailStep ==
  ASSUME NEW D \in SUBSET Int, IsFiniteSet(D), NEW nx \in [D -> Int],
         NEW p \in D
  PROVE  Trail(nx, p) = {p} \cup Trail(nx, nx[p])
<1>1. nx[p] \in Int /\ p \in Int
  OBVIOUS
<1>2. /\ Trail(nx, p) \subseteq D /\ p \in Trail(nx, p)
      /\ Closed(Trail(nx, p), D, nx)
  BY <1>1, TrailClosed
<1>3. /\ Trail(nx, nx[p]) \subseteq D
      /\ (nx[p] \in D => nx[p] \in Trail(nx, nx[p]))
      /\ Closed(Trail(nx, nx[p]), D, nx)
  BY <1>1, TrailClosed
<1>4. Trail(nx, nx[p]) \subseteq Trail(nx, p)
  <2>1. nx[p] \in D => nx[p] \in Trail(nx, p)
    BY <1>2 DEF Closed
  <2>2. Closed(Trail(nx, p) \cap D, D, nx)
    BY <1>2 DEF Closed
  <2> QED  BY <1>1, <2>1, <2>2, TrailLeast
<1>5. Trail(nx, p) \subseteq {p} \cup Trail(nx, nx[p])
  <2>1. Closed(({p} \cup Trail(nx, nx[p])) \cap D, D, nx)
    BY <1>3 DEF Closed
  <2> QED  BY <1>1, <2>1, TrailLeast
<1> QED  BY <1>2, <1>4, <1>5

(* From a place of a trail on.                                             *)
LEMMA TrailSub ==
  ASSUME NEW D \in SUBSET Int, IsFiniteSet(D), NEW nx \in [D -> Int],
         NEW p \in Int, NEW q \in Trail(nx, p)
  PROVE  q \in D /\ Trail(nx, q) \subseteq Trail(nx, p)
<1>1. Trail(nx, p) \subseteq D /\ Closed(Trail(nx, p), D, nx)
  BY TrailClosed
<1>2. q \in Int /\ Closed(Trail(nx, p) \cap D, D, nx)
  BY <1>1 DEF Closed
<1> QED  BY <1>1, <1>2, TrailLeast

(* From behind a place of a trail on.                                      *)
LEMMA TrailNext ==
  ASSUME NEW D \in SUBSET Int, IsFiniteSet(D), NEW nx \in [D -> Int],
         NEW p \in Int, NEW q \in Trail(nx, p)
  PROVE  nx[q] \in Int /\ Trail(nx, nx[q]) \subseteq Trail(nx, p)
<1>1. q \in D /\ Trail(nx, q) \subseteq Trail(nx, p)
  BY TrailSub
<1>2. Trail(nx, q) = {q} \cup Trail(nx, nx[q])
  BY <1>1, TrailStep
<1> QED  BY <1>1, <1>2

(* Links that are not on the trail do not matter.                          *)
LEMMA TrailFrame ==
  ASSUME NEW D \in SUBSET Int, IsFiniteSet(D), NEW nx \in [D -> Int],
         NEW ny \in [D -> Int], NEW p \in Int,
         \A q \in Trail(nx, p) : ny[q] = nx[q]
  PROVE  Trail(ny, p) = Trail(nx, p)
<1>1. /\ Trail(nx, p) \subseteq D /\ (p \in D => p \in Trail(nx, p))
      /\ Closed(Trail(nx, p), D, nx)
  BY TrailClosed
<1>2. /\ Trail(ny, p) \subseteq D /\ (p \in D => p \in Trail(ny, p))
      /\ Closed(Trail(ny, p), D, ny)
  BY TrailClosed
<1>3. Trail(ny, p) \subseteq Trail(nx, p)
  <2>1. Closed(Trail(nx, p) \cap D, D, ny)
    BY <1>1 DEF Closed
  <2> QED  BY <1>1, <2>1, TrailLeast
<1>4. Trail(nx, p) \subseteq Trail(ny, p)
  <2>1. Closed(Trail(ny, p) \cap D, D, nx)
    BY <1>2, <1>3 DEF Closed
  <2> QED  BY <1>2, <2>1, TrailLeast
<1> QED  BY <1>3, <1>4

(* Of two places of a trail one comes first.                               *)
LEMMA TrailLinear ==
  ASSUME NEW D \in SUBSET Int, IsFiniteSet(D), NEW nx \in [D -> Int],
         NEW p \in Int, NEW q \in Trail(nx, p), NEW r \in Trail(nx, p)
  PROVE  q \in Trail(nx, r) \/ r \in Trail(nx, q)
<1> DEFINE X == {x \in D : x \in Trail(nx, r) \/ r \in Trail(nx, x)}
<1>1. /\ Trail(nx, p) \subseteq D /\ (p \in D => p \in Trail(nx, p))
      /\ (p \notin D => Trail(nx, p) = {})
  BY TrailClosed
<1>2. r \in D /\ q \in D /\ r \in Int
  BY <1>1
<1>3. r \in Trail(nx, r) /\ Closed(Trail(nx, r), D, nx)
  BY <1>2, TrailClosed
<1>4. p \in D => p \in X
  OBVIOUS
<1>5. ASSUME NEW x \in X, nx[x] \in D PROVE nx[x] \in X
  <2>1. CASE x \in Trail(nx, r)
    BY <1>3, <1>5, <2>1 DEF Closed
  <2>2. CASE r \in Trail(nx, x)
    <3>1. Trail(nx, x) = {x} \cup Trail(nx, nx[x])
      BY TrailStep
    <3>2. CASE r = x
      BY <1>3, <1>5, <3>2 DEF Closed
    <3>3. CASE r # x
      BY <1>5, <2>2, <3>1, <3>3
    <3> QED  BY <3>2, <3>3
  <2> QED  BY <2>1, <2>2
<1>6. Closed(X \cap D, D, nx)
  BY <1>5 DEF Closed
<1> HIDE DEF X
<1>7. Trail(nx, p) \subseteq X
  BY <1>4, <1>6, TrailLeast
<1> QED  BY <1>7 DEF X

(* A trail cut behind t: the places up to t, and the rest.                 *)
LEMMA TrailCut ==
  ASSUME NEW D \in SUBSET Int, IsFiniteSet(D), NEW nx \in [D -> Int],
         NEW ny \in [D -> Int], NEW p \in Int, NEW t \in Trail(nx, p),
         t \notin Trail(nx, nx[t]), ny[t] \notin D,
         \A q \in Trail(nx, p) \ {t} : ny[q] = nx[q]
  PROVE  /\ Trail(ny, p) = Trail(nx, p) \ Trail(nx, nx[t])
         /\ Trail(ny, nx[t]) = Trail(nx, nx[t])
         /\ t \in Trail(ny, p)
<1> DEFINE T == Trail(nx, p)  R == Trail(nx, nx[t])
<1>1. /\ T \subseteq D /\ (p \in D => p \in T) /\ (p \notin D => T = {})
      /\ Closed(T, D, nx)
  BY TrailClosed
<1>2. t \in D /\ p \in D /\ t \in Int /\ nx[t] \in Int
  BY <1>1
<1>3. /\ R \subseteq D /\ (nx[t] \in D => nx[t] \in R) /\ Closed(R, D, nx)
  BY <1>2, TrailClosed
<1>4. Trail(nx, t) = {t} \cup R /\ Trail(nx, t) \subseteq T
  BY <1>2, TrailStep, TrailSub
<1>5. Trail(ny, nx[t]) = R
  BY <1>2, <1>4, TrailFrame
<1>6. ASSUME NEW x \in T, x \notin R PROVE t \in Trail(nx, x) /\ x \in D
  <2>1. x \in D /\ x \in Int
    BY <1>1
  <2>2. x \in Trail(nx, t) \/ t \in Trail(nx, x)
    BY TrailLinear
  <2>3. x \in Trail(nx, x)
    BY <2>1, TrailClosed
  <2> QED  BY <1>4, <1>6, <2>1, <2>2, <2>3
<1>7. p \notin R
  <2> SUFFICES ASSUME p \in R PROVE FALSE
    OBVIOUS
  <2>1. T \subseteq R
    BY <1>2, TrailSub
  <2> QED  BY <2>1
<1>8. Trail(ny, p) \subseteq T \ R
  <2>1. ASSUME NEW x \in T \ R, ny[x] \in D PROVE ny[x] \in T \ R
    <3>1. x # t /\ ny[x] = nx[x]
      BY <2>1
    <3>2. nx[x] \in T
      BY <1>1, <2>1, <3>1 DEF Closed
    <3>3. t \in Trail(nx, x) /\ Trail(nx, x) = {x} \cup Trail(nx, nx[x])
      <4>1. x \in D /\ t \in Trail(nx, x)
        BY <1>6, <2>1
      <4>2. Trail(nx, x) = {x} \cup Trail(nx, nx[x])
        BY <4>1, TrailStep
      <4> QED  BY <4>1, <4>2
    <3>4. t \in Trail(nx, nx[x])
      BY <3>1, <3>3
    <3>5. nx[x] \in R => Trail(nx, nx[x]) \subseteq R
      BY <1>2, TrailSub
    <3> QED  BY <3>1, <3>2, <3>4, <3>5
  <2>2. Closed((T \ R) \cap D, D, ny)
    BY <2>1 DEF Closed
  <2>3. p \in T \ R
    BY <1>1, <1>2, <1>7
  <2> HIDE DEF T, R
  <2> QED  BY <2>2, <2>3, TrailLeast
<1>9. T \subseteq Trail(ny, p) \cup R
  <2>1. Trail(ny, p) \subseteq D /\ p \in Trail(ny, p) /\ Closed(Trail(ny, p), D, ny)
    BY <1>2, TrailClosed
  <2>2. ASSUME NEW x \in Trail(ny, p) \cup R, nx[x] \in D
        PROVE  nx[x] \in Trail(ny, p) \cup R
    <3>1. CASE x \in R
      BY <1>3, <2>2, <3>1 DEF Closed
    <3>2. CASE x = t
      BY <1>3, <2>2, <3>2
    <3>3. CASE x \in Trail(ny, p) /\ x # t
      <4>1. ny[x] = nx[x]
        BY <1>8, <3>3
      <4> QED  BY <2>1, <2>2, <3>3, <4>1 DEF Closed
    <3> QED  BY <3>1, <3>2, <3>3
  <2>3. Closed((Trail(ny, p) \cup R) \cap D, D, nx)
    BY <2>2 DEF Closed
  <2> HIDE DEF R
  <2> QED  BY <1>2, <2>1, <2>3, TrailLeast
<1> QED  BY <1>5, <1>8, <1>9

(* Two trails joined behind the end t of the first.                        *)
LEMMA TrailJoin ==
  ASSUME NEW D \in SUBSET Int, IsFiniteSet(D), NEW nx \in [D -> Int],
         NEW ny \in [D -> Int], NEW p \in Int, NEW t \in Trail(nx, p),
         nx[t] \notin D, t \notin Trail(nx, ny[t]),
         \A q \in D \ {t} : ny[q] = nx[q]
  PROVE  /\ Trail(ny, p) = Trail(nx, p) \cup Trail(nx, ny[t])
         /\ Trail(ny, ny[t]) = Trail(nx, ny[t])
         /\ \A x \in Int : Trail(ny, x) \subseteq Trail(nx, x) \cup Trail(nx, ny[t])
<1> DEFINE T == Trail(nx, p)  R == Trail(nx, ny[t])
<1>1. /\ T \subseteq D /\ (p \in D => p \in T) /\ (p \notin D => T = {})
      /\ Closed(T, D, nx)
  BY TrailClosed
<1>2. t \in D /\ p \in D /\ t \in Int /\ ny[t] \in Int
  BY <1>1
<1>3. /\ R \subseteq D /\ (ny[t] \in D => ny[t] \in R) /\ Closed(R, D, nx)
  BY <1>2, TrailClosed
<1>4. Trail(ny, ny[t]) = R
  <2>1. \A q \in Trail(nx, ny[t]) : ny[q] = nx[q]
    BY <1>3
  <2> QED  BY <1>2, <2>1, TrailFrame
<1>5. ASSUME NEW x \in Int PROVE Trail(ny, x) \subseteq Trail(nx, x) \cup R
  <2>1. /\ Trail(nx, x) \subseteq D /\ (x \in D => x \in Trail(nx, x))
        /\ Closed(Trail(nx, x), D, nx)
    BY TrailClosed
  <2>2. ASSUME NEW y \in Trail(nx, x) \cup R, ny[y] \in D
        PROVE  ny[y] \in Trail(nx, x) \cup R
    BY <1>3, <2>1, <2>2 DEF Closed
  <2>3. Closed((Trail(nx, x) \cup R) \cap D, D, ny)
    BY <2>2 DEF Closed
  <2> HIDE DEF R
  <2> QED  BY <2>1, <2>3, TrailLeast
<1>6. /\ Trail(ny, p) \subseteq D /\ p \in Trail(ny, p)
      /\ Closed(Trail(ny, p), D, ny)
  BY <1>2, TrailClosed
<1>7. T \subseteq Trail(ny, p)
  <2>1. ASSUME NEW x \in Trail(ny, p), nx[x] \in D PROVE nx[x] \in Trail(ny, p)
    BY <1>6, <2>1 DEF Closed
  <2>2. Closed(Trail(ny, p) \cap D, D, nx)
    BY <2>1 DEF Closed
  <2> QED  BY <1>6, <2>2, TrailLeast
<1>8. R \subseteq Trail(ny, p)
  <2>1. ny[t] \in D => ny[t] \in Trail(ny, p)
    BY <1>6, <1>7 DEF Closed
  <2>2. Closed(Trail(ny, p) \cap D, D, ny)
    BY <1>6 DEF Closed
  <2>3. Trail(ny, ny[t]) \subseteq Trail(ny, p)
    BY <1>2, <2>1, <2>2, TrailLeast
  <2> QED  BY <1>4, <2>3
<1> QED  BY <1>4, <1>5, <1>7, <1>8

----------------------------------------------------------------------------
(* The bytes of many segments.                                             *)

(* g sums the w of the members of each subset of S.                        *)
IsSum(g, S, w) ==
  /\ g \in [SUBSET S -> Nat] /\ g[{}] = 0
  /\ \A T \in SUBSET S : \A a \in T : g[T] = g[T \ {a}] + w[a]

(* There is such a function.                                               *)
LEMMA SumExists ==
  ASSUME NEW S, IsFiniteSet(S), NEW w \in [S -> Nat]
  PROVE  \E g : IsSum(g, S, w)
<1> DEFINE Q == {n \in Nat : \A T \in SUBSET S :
                   Cardinality(T) = n => \E g : IsSum(g, T, w)}
<1>1. \A T \in SUBSET S : IsFiniteSet(T) /\ Cardinality(T) \in Nat
  BY FS_Subset, FS_CardinalityType
<1>2. 0 \in Q
  <2> SUFFICES ASSUME NEW T \in SUBSET S, Cardinality(T) = 0
               PROVE  \E g : IsSum(g, T, w)
    OBVIOUS
  <2>1. T = {}
    BY <1>1, FS_EmptySet
  <2>2. PICK g : g = [U \in SUBSET T |-> 0]
    OBVIOUS
  <2>3. IsSum(g, T, w)
    BY <2>1, <2>2 DEF IsSum
  <2> QED  BY <2>3
<1>3. ASSUME NEW n \in Nat, n \in Q PROVE n + 1 \in Q
  <2> SUFFICES ASSUME NEW T \in SUBSET S, Cardinality(T) = n + 1
               PROVE  \E g : IsSum(g, T, w)
    OBVIOUS
  <2>1. T # {}
    BY FS_EmptySet
  <2>2. PICK x \in T : TRUE
    BY <2>1
  <2>3. PICK R \in SUBSET S : R = T \ {x}
    OBVIOUS
  <2>4. Cardinality(R) = n
    <3>1. IsFiniteSet(T) /\ x \in T
      BY <1>1, <2>2
    <3>2. Cardinality(T \ {x}) = Cardinality(T) - 1
      BY <3>1, FS_RemoveElement, Zenon
    <3> QED  BY <2>3, <3>2
  <2>5. PICK h : IsSum(h, R, w)
    BY <1>3, <2>4
  <2>6. w[x] \in Nat
    OBVIOUS
  <2>7. PICK g : g = [U \in SUBSET T |->
                        h[U \ {x}] + (IF x \in U THEN w[x] ELSE 0)]
    OBVIOUS
  <2>8. \A U \in SUBSET T : U \ {x} \in SUBSET R /\ h[U \ {x}] \in Nat
    BY <2>3, <2>5 DEF IsSum
  <2>9. g \in [SUBSET T -> Nat] /\ g[{}] = 0
    <3>1. {} \ {x} = {} /\ {} \in SUBSET T
      OBVIOUS
    <3>2. h[{}] = 0
      BY <2>5 DEF IsSum
    <3>3. g[{}] = 0
      BY <2>6, <2>7, <3>1, <3>2
    <3>4. \A U \in SUBSET T : h[U \ {x}] + (IF x \in U THEN w[x] ELSE 0) \in Nat
      BY <2>6, <2>8
    <3> QED  BY <2>7, <3>3, <3>4
  <2>10. ASSUME NEW U \in SUBSET T, NEW a \in U
         PROVE  g[U] = g[U \ {a}] + w[a]
    <3>1. U \ {a} \in SUBSET T
      OBVIOUS
    <3>2. CASE a = x
      <4>1. (U \ {a}) \ {x} = U \ {x} /\ x \in U /\ x \notin U \ {a}
        BY <3>2
      <4>2. g[U] = h[U \ {x}] + w[x]
        BY <2>7, <4>1
      <4>3. g[U \ {a}] = h[U \ {x}] + 0
        BY <2>7, <3>1, <4>1
      <4>4. h[U \ {x}] \in Nat
        BY <2>8
      <4> QED  BY <2>6, <3>2, <4>2, <4>3, <4>4
    <3>3. CASE a # x
      <4>1. (U \ {a}) \ {x} = (U \ {x}) \ {a} /\ a \in U \ {x}
        BY <3>3
      <4>2. h[U \ {x}] = h[(U \ {x}) \ {a}] + w[a]
        BY <2>5, <2>8, <4>1 DEF IsSum
      <4>3. w[a] \in Nat /\ h[(U \ {x}) \ {a}] \in Nat
        BY <2>8, <3>1, <4>1
      <4>4. g[U] = h[U \ {x}] + (IF x \in U THEN w[x] ELSE 0)
        BY <2>7
      <4>5. g[U \ {a}] = h[(U \ {x}) \ {a}] + (IF x \in U THEN w[x] ELSE 0)
        BY <2>7, <3>1, <3>3, <4>1
      <4> QED  BY <2>6, <4>2, <4>3, <4>4, <4>5
    <3> QED  BY <3>2, <3>3
  <2>11. IsSum(g, T, w)
    BY <2>9, <2>10 DEF IsSum
  <2> QED  BY <2>11
<1> HIDE DEF Q
<1>4. Nat \subseteq Q
  BY <1>2, <1>3, SetInduction
<1> QED  BY <1>1, <1>4 DEF Q

(* Filled is such a sum.                                                   *)
LEMMA FilledIs ==
  ASSUME NEW s, NEW S, IsFiniteSet(S), NEW w \in [S -> Nat], NEW g,
         IsSum(g, S, w),
         \A a \in S : w[a] = ZDOVRH + SegAt(s, a).size /\ SegAt(s, a).size \in Nat
  PROVE  Filled(s, S) = g[S]
<1> DEFINE E(f) == [T \in SUBSET S |->
                      IF T = {} THEN 0
                      ELSE f[T \ {CHOOSE x \in T : TRUE}] + ZDOVRH
                             + SegAt(s, CHOOSE x \in T : TRUE).size]
           L == CHOOSE f : f = E(f)
<1>1. ZDOVRH \in Nat
  BY SegmentConstants
<1>2. \A T \in SUBSET S : T # {} => (CHOOSE x \in T : TRUE) \in T
  OBVIOUS
<1>3. ASSUME NEW T \in SUBSET S
      PROVE  g[T] = IF T = {} THEN 0
                    ELSE g[T \ {CHOOSE x \in T : TRUE}] + ZDOVRH
                           + SegAt(s, CHOOSE x \in T : TRUE).size
  <2>1. CASE T = {}
    BY <2>1 DEF IsSum
  <2>2. CASE T # {}
    <3>1. PICK x \in T : x = CHOOSE y \in T : TRUE
      BY <1>2, <2>2
    <3>2. g[T] = g[T \ {x}] + w[x] /\ g[T \ {x}] \in Nat
      BY DEF IsSum
    <3>3. w[x] = ZDOVRH + SegAt(s, x).size /\ SegAt(s, x).size \in Nat
      OBVIOUS
    <3>4. g[T] = g[T \ {x}] + ZDOVRH + SegAt(s, x).size
      BY <1>1, <3>2, <3>3
    <3> QED  BY <2>2, <3>1, <3>4
  <2> QED  BY <2>1, <2>2
<1>4. g = E(g)
  BY <1>3 DEF IsSum
<1> HIDE DEF E
<1>5. L = E(L)
  BY <1>4
<1>6. Filled(s, S) = L[S]
  BY DEF Filled, FoldSet, MapThenFoldSet, L, E
<1> HIDE DEF L
<1>7. \A T \in SUBSET S :
        L[T] = IF T = {} THEN 0
               ELSE L[T \ {CHOOSE x \in T : TRUE}] + ZDOVRH
                      + SegAt(s, CHOOSE x \in T : TRUE).size
  BY <1>5 DEF E
<1> DEFINE Q == {n \in Nat : \A T \in SUBSET S :
                   Cardinality(T) = n => L[T] = g[T]}
<1>8. \A T \in SUBSET S : IsFiniteSet(T) /\ Cardinality(T) \in Nat
  BY FS_Subset, FS_CardinalityType
<1>9. 0 \in Q
  <2> SUFFICES ASSUME NEW T \in SUBSET S, Cardinality(T) = 0
               PROVE  L[T] = g[T]
    OBVIOUS
  <2>1. T = {}
    BY <1>8, FS_EmptySet
  <2> QED  BY <1>7, <2>1 DEF IsSum
<1>10. ASSUME NEW n \in Nat, n \in Q PROVE n + 1 \in Q
  <2> SUFFICES ASSUME NEW T \in SUBSET S, Cardinality(T) = n + 1
               PROVE  L[T] = g[T]
    OBVIOUS
  <2>1. T # {}
    BY FS_EmptySet
  <2>2. PICK x \in T : x = CHOOSE y \in T : TRUE
    BY <1>2, <2>1
  <2>3. PICK R \in SUBSET S : R = T \ {x}
    OBVIOUS
  <2>4. Cardinality(R) = n
    <3>1. IsFiniteSet(T) /\ x \in T
      BY <1>8, <2>2
    <3>2. Cardinality(T \ {x}) = Cardinality(T) - 1
      BY <3>1, FS_RemoveElement, Zenon
    <3> QED  BY <2>3, <3>2
  <2>5. L[R] = g[R]
    BY <1>10, <2>4
  <2>6. L[T] = L[R] + ZDOVRH + SegAt(s, x).size
    BY <1>7, <2>1, <2>2, <2>3
  <2>7. g[T] = g[R] + ZDOVRH + SegAt(s, x).size
    BY <1>3, <2>1, <2>2, <2>3
  <2> QED  BY <2>5, <2>6, <2>7
<1> HIDE DEF Q
<1>11. Nat \subseteq Q
  BY <1>9, <1>10, SetInduction
<1>12. L[S] = g[S]
  BY <1>8, <1>11 DEF Q
<1> QED  BY <1>6, <1>12

(* The segment at a adds its bytes and those in front of it.               *)
LEMMA FilledStep ==
  ASSUME NEW s, NEW S, IsFiniteSet(S), \A a \in S : SegAt(s, a).size \in Nat
  PROVE  /\ Filled(s, S) \in Nat /\ Filled(s, {}) = 0
         /\ \A a \in S : Filled(s, S) =
              Filled(s, S \ {a}) + ZDOVRH + SegAt(s, a).size
         /\ Filled(s, S) = 0 => S = {}
<1>1. ZDOVRH \in Nat /\ ZDOVRH > 0
  BY SegmentConstants
<1>2. PICK w : w = [a \in S |-> ZDOVRH + SegAt(s, a).size]
  OBVIOUS
<1>3. \A a \in S : /\ w[a] = ZDOVRH + SegAt(s, a).size /\ w[a] \in Nat
                   /\ SegAt(s, a).size \in Nat
  BY <1>1, <1>2
<1>4. w \in [S -> Nat]
  BY <1>2, <1>3
<1>5. PICK g : IsSum(g, S, w)
  BY <1>4, SumExists
<1>6. ASSUME NEW T \in SUBSET S PROVE Filled(s, T) = g[T]
  <2>1. PICK v : v = [a \in T |-> w[a]]
    OBVIOUS
  <2>2. v \in [T -> Nat]
    BY <1>3, <2>1
  <2>3. PICK h : h = [U \in SUBSET T |-> g[U]]
    OBVIOUS
  <2>4. IsSum(h, T, v)
    <3>1. \A U \in SUBSET T : h[U] = g[U] /\ g[U] \in Nat
      BY <1>5, <2>3 DEF IsSum
    <3>2. h \in [SUBSET T -> Nat] /\ h[{}] = 0
      BY <1>5, <2>3, <3>1 DEF IsSum
    <3>3. ASSUME NEW U \in SUBSET T, NEW a \in U
          PROVE  h[U] = h[U \ {a}] + v[a]
      <4>1. g[U] = g[U \ {a}] + w[a]
        BY <1>5 DEF IsSum
      <4> QED  BY <2>1, <3>1, <4>1
    <3> QED  BY <3>2, <3>3 DEF IsSum
  <2>5. IsFiniteSet(T)
    BY FS_Subset
  <2>6. \A a \in T : v[a] = ZDOVRH + SegAt(s, a).size /\ SegAt(s, a).size \in Nat
    BY <1>3, <2>1
  <2>7. Filled(s, T) = h[T]
    BY <2>2, <2>4, <2>5, <2>6, FilledIs
  <2> QED  BY <2>3, <2>7
<1>7. Filled(s, S) = g[S] /\ g[S] \in Nat
  BY <1>5, <1>6 DEF IsSum
<1>8. Filled(s, {}) = 0
  BY <1>5, <1>6 DEF IsSum
<1>9. ASSUME NEW a \in S
      PROVE  /\ Filled(s, S) = Filled(s, S \ {a}) + ZDOVRH + SegAt(s, a).size
             /\ Filled(s, S \ {a}) \in Nat
  <2>1. g[S] = g[S \ {a}] + w[a] /\ g[S \ {a}] \in Nat
    BY <1>5 DEF IsSum
  <2>2. Filled(s, S \ {a}) = g[S \ {a}]
    BY <1>6
  <2> QED  BY <1>1, <1>3, <1>7, <2>1, <2>2
<1>10. Filled(s, S) = 0 => S = {}
  <2> SUFFICES ASSUME NEW a \in S, Filled(s, S) = 0 PROVE FALSE
    OBVIOUS
  <2>1. PICK m, n : m = Filled(s, S \ {a}) /\ n = SegAt(s, a).size
    OBVIOUS
  <2>2. m \in Nat /\ n \in Nat /\ 0 = m + ZDOVRH + n
    BY <1>3, <1>9, <2>1
  <2> QED  BY <1>1, <2>2
<1> QED  BY <1>7, <1>8, <1>9, <1>10

(* It depends on the sizes only.                                           *)
LEMMA FilledSame ==
  ASSUME NEW s, NEW r, NEW S, IsFiniteSet(S),
         \A a \in S : /\ SegAt(s, a).size \in Nat
                      /\ SegAt(r, a).size = SegAt(s, a).size
  PROVE  Filled(r, S) = Filled(s, S)
<1>1. ZDOVRH \in Nat
  BY SegmentConstants
<1>2. PICK w : w = [a \in S |-> ZDOVRH + SegAt(s, a).size]
  OBVIOUS
<1>3. w \in [S -> Nat]
  BY <1>1, <1>2
<1>4. PICK g : IsSum(g, S, w)
  BY <1>3, SumExists
<1>5. Filled(s, S) = g[S]
  BY <1>2, <1>3, <1>4, FilledIs
<1>6. \A a \in S : w[a] = ZDOVRH + SegAt(r, a).size /\ SegAt(r, a).size \in Nat
  BY <1>2
<1>7. Filled(r, S) = g[S]
  BY <1>3, <1>4, <1>6, FilledIs
<1> QED  BY <1>5, <1>7

----------------------------------------------------------------------------
(* Stores.                                                                 *)

(* What a segment, a block and a store are made of; D is what segments     *)
(* hold.                                                                   *)
SegRec(D) == [size : 0 .. CAP, next : Addr \cup {0}, data : D]
BlkType == {"none", "free", "index", "data", "dup"}
BlkRec(D) ==
  [type : BlkType, free : 0 .. CAP, nxt : Blk \cup {ZNULL}, first : 0 .. CAP,
   prv : Blk \cup {ZNULL, 0}, seg : [Offset -> SegRec(D)]]
Store(D) ==
  [blk : [Blk -> BlkRec(D)], head : [Seg -> Blk \cup {ZNULL}],
   freep : Blk \cup {ZNULL}, nfree : Nat, blkmx : Nat, limit : Limits]

(* Where the blocks lead.                                                  *)
Nexts(s) == [p \in Blk |-> s.blk[p].nxt]

(* The free list has the free blocks, as many as are counted, and ends.    *)
FreeOK(s) ==
  /\ FreeList(s) = BlocksOf(s, "free")
  /\ Cardinality(FreeList(s)) = s.nfree
  /\ \A b \in FreeList(s) : b \notin Follow(s, s.blk[b].nxt)

(* The blocks of type t are linked both ways; the active one is in front.  *)
ListOK(s, t) ==
  /\ \A b \in BlocksOf(s, t) :
       /\ s.blk[b].nxt = ZNULL \/
            (s.blk[b].nxt \in BlocksOf(s, t) /\ s.blk[s.blk[b].nxt].prv = b)
       /\ s.blk[b].prv = ZNULL \/
            (s.blk[b].prv \in BlocksOf(s, t) /\ s.blk[s.blk[b].prv].nxt = b)
  /\ s.head[t] \in BlocksOf(s, t) \cup {ZNULL}
  /\ s.head[t] # ZNULL => s.blk[s.head[t]].prv = ZNULL

ListsOK(s) ==
  /\ FreeOK(s) /\ ListOK(s, "data") /\ ListOK(s, "dup")
  /\ s.blkmx \in 2 .. s.limit
  /\ \A b \in Blk : b >= s.blkmx => s.blk[b].type = "none"

(* Block numbers are no ZNULL; the file has no more than MAXBLK blocks.    *)
LEMMA BlkFacts ==
  /\ Blk \subseteq Nat /\ ZNULL \notin Blk /\ 0 \notin Blk /\ ZNULL \in Int
  /\ \A l \in Limits : l \in 2 .. MAXBLK
  /\ \A l \in Limits : \A b \in Int : 2 <= b /\ b < l => b \in Blk
  /\ CAP \in Nat /\ CAP > 0 /\ ZDOVRH \in Nat /\ ZDOVRH > 0
BY SegmentConstants DEF Blk, ZNULL

(* The fields of a store.                                                  *)
LEMMA StoreFields ==
  ASSUME NEW D, NEW s \in Store(D)
  PROVE  /\ s.blk \in [Blk -> BlkRec(D)]
         /\ s.head \in [Seg -> Blk \cup {ZNULL}]
         /\ s.freep \in Blk \cup {ZNULL} /\ s.nfree \in Nat
         /\ s.blkmx \in Nat /\ s.limit \in Limits
         /\ \A b \in Blk :
              /\ s.blk[b].type \in BlkType /\ s.blk[b].free \in 0 .. CAP
              /\ s.blk[b].nxt \in Blk \cup {ZNULL} /\ s.blk[b].nxt \in Int
              /\ s.blk[b].first \in 0 .. CAP
              /\ s.blk[b].prv \in Blk \cup {ZNULL, 0}
              /\ s.blk[b].seg \in [Offset -> SegRec(D)]
         /\ \A a \in Addr : SegAt(s, a) \in SegRec(D)
         /\ Nexts(s) \in [Blk -> Int] /\ s.freep \in Int
<1>1. /\ s.blk \in [Blk -> BlkRec(D)]
      /\ s.head \in [Seg -> Blk \cup {ZNULL}]
      /\ s.freep \in Blk \cup {ZNULL} /\ s.nfree \in Nat
      /\ s.blkmx \in Nat /\ s.limit \in Limits
  BY DEF Store
<1>2. \A b \in Blk :
        /\ s.blk[b].type \in BlkType /\ s.blk[b].free \in 0 .. CAP
        /\ s.blk[b].nxt \in Blk \cup {ZNULL}
        /\ s.blk[b].first \in 0 .. CAP
        /\ s.blk[b].prv \in Blk \cup {ZNULL, 0}
        /\ s.blk[b].seg \in [Offset -> SegRec(D)]
  BY <1>1 DEF BlkRec
<1>3. \A a \in Addr : SegAt(s, a) \in SegRec(D)
  BY <1>2, AddrParts DEF SegAt
<1>4. Blk \cup {ZNULL} \subseteq Int
  BY BlkFacts
<1>5. Nexts(s) \in [Blk -> Int]
  BY <1>2, <1>4 DEF Nexts
<1> QED  BY <1>1, <1>2, <1>3, <1>4, <1>5

(* The blocks that follow b are a trail.                                   *)
LEMMA FollowTrail ==
  ASSUME NEW s
  PROVE  /\ \A b : Follow(s, b) = Trail(Nexts(s), b)
         /\ FreeList(s) = Trail(Nexts(s), s.freep)
BY DEF Follow, FreeList, Nexts

(* The free list does not see other blocks.                                *)
LEMMA FreeFrame ==
  ASSUME NEW D, NEW s \in Store(D), NEW E, NEW r \in Store(E), FreeOK(s),
         r.freep = s.freep, r.nfree = s.nfree,
         \A b \in Blk : r.blk[b].type = "free" <=> s.blk[b].type = "free",
         \A b \in Blk : s.blk[b].type = "free" => r.blk[b].nxt = s.blk[b].nxt
  PROVE  FreeOK(r)
<1>1. /\ Nexts(s) \in [Blk -> Int] /\ Nexts(r) \in [Blk -> Int]
      /\ s.freep \in Int /\ IsFiniteSet(Blk) /\ Blk \in SUBSET Int
  BY StoreFields, FinitePlaces, BlkFacts
<1>2. \A b \in BlocksOf(s, "free") : Nexts(r)[b] = Nexts(s)[b] /\ b \in Blk
  BY DEF BlocksOf, Nexts
<1>3. BlocksOf(r, "free") = BlocksOf(s, "free")
  BY DEF BlocksOf
<1>4. FreeList(r) = FreeList(s)
  BY <1>1, <1>2, FollowTrail, TrailFrame DEF FreeOK
<1>5. ASSUME NEW b \in FreeList(s) PROVE b \notin Follow(r, r.blk[b].nxt)
  <2>1. b \in Blk /\ r.blk[b].nxt = s.blk[b].nxt /\ s.blk[b].nxt \in Int
    BY <1>2, StoreFields DEF FreeOK, Nexts
  <2>2. b \in Trail(Nexts(s), s.freep) /\ Nexts(s)[b] = s.blk[b].nxt
    BY <2>1, FollowTrail DEF Nexts
  <2>3. Follow(s, s.blk[b].nxt) \subseteq FreeList(s)
    BY <1>1, <2>2, FollowTrail, TrailNext
  <2>4. Follow(r, s.blk[b].nxt) = Follow(s, s.blk[b].nxt)
    <3>1. \A c \in Trail(Nexts(s), s.blk[b].nxt) : Nexts(r)[c] = Nexts(s)[c]
      BY <1>2, <2>3, FollowTrail DEF FreeOK
    <3> QED  BY <1>1, <2>1, <3>1, FollowTrail, TrailFrame
  <2> QED  BY <2>1, <2>4 DEF FreeOK
<1> QED  BY <1>3, <1>4, <1>5 DEF FreeOK

(* What is behind a free block: free blocks that come later.               *)
LEMMA FreeRest ==
  ASSUME NEW D, NEW s \in Store(D), FreeOK(s), NEW b \in FreeList(s)
  PROVE  /\ b \in Blk /\ s.blk[b].type = "free" /\ s.blk[b].nxt \in Int
         /\ Trail(Nexts(s), s.blk[b].nxt) \subseteq FreeList(s)
         /\ Trail(Nexts(s), b) = {b} \cup Trail(Nexts(s), s.blk[b].nxt)
         /\ b \notin Trail(Nexts(s), s.blk[b].nxt)
<1>1. /\ Nexts(s) \in [Blk -> Int] /\ s.freep \in Int
      /\ IsFiniteSet(Blk) /\ Blk \in SUBSET Int
  BY StoreFields, FinitePlaces, BlkFacts
<1>2. b \in Blk /\ s.blk[b].type = "free" /\ s.blk[b].nxt \in Int
  BY StoreFields DEF FreeOK, BlocksOf
<1>3. b \in Trail(Nexts(s), s.freep) /\ Nexts(s)[b] = s.blk[b].nxt
  BY <1>2, FollowTrail DEF Nexts
<1>4. Trail(Nexts(s), s.blk[b].nxt) \subseteq FreeList(s)
  BY <1>1, <1>3, FollowTrail, TrailNext
<1>5. Trail(Nexts(s), b) = {b} \cup Trail(Nexts(s), s.blk[b].nxt)
  BY <1>1, <1>2, <1>3, TrailStep
<1>6. b \notin Trail(Nexts(s), s.blk[b].nxt)
  BY FollowTrail DEF FreeOK
<1> QED  BY <1>2, <1>4, <1>5, <1>6

(* The first free block is taken from the list.                            *)
LEMMA FreePop ==
  ASSUME NEW D, NEW s \in Store(D), NEW E, NEW r \in Store(E), FreeOK(s),
         s.freep \in Blk, r.freep = s.blk[s.freep].nxt, r.nfree = s.nfree - 1,
         r.blk[s.freep].type # "free",
         \A b \in Blk \ {s.freep} :
           r.blk[b].type = "free" <=> s.blk[b].type = "free",
         \A b \in Blk \ {s.freep} :
           s.blk[b].type = "free" => r.blk[b].nxt = s.blk[b].nxt
  PROVE  FreeOK(r)
<1> DEFINE p == s.freep  R == Trail(Nexts(s), s.blk[p].nxt)
<1>1. /\ Nexts(s) \in [Blk -> Int] /\ Nexts(r) \in [Blk -> Int]
      /\ IsFiniteSet(Blk) /\ Blk \in SUBSET Int
  BY StoreFields, FinitePlaces, BlkFacts
<1>2. p \in FreeList(s) /\ FreeList(s) = Trail(Nexts(s), p)
  <2>1. FreeList(s) = Trail(Nexts(s), p) /\ p \in Int
    BY <1>1, FollowTrail
  <2>2. p \in Trail(Nexts(s), p)
    BY <1>1, <2>1, TrailClosed
  <2> QED  BY <2>1, <2>2
<1>3. /\ s.blk[p].nxt \in Int /\ p \notin R
      /\ FreeList(s) = {p} \cup R
  BY <1>2, FreeRest
<1>4. \A b \in R : b \in Blk /\ b # p /\ s.blk[b].type = "free"
  BY <1>3, FreeRest
<1>5. \A b \in R : Nexts(r)[b] = Nexts(s)[b]
  BY <1>4 DEF Nexts
<1> HIDE DEF R
<1>6. FreeList(r) = R
  <2>1. Trail(Nexts(r), s.blk[p].nxt) = Trail(Nexts(s), s.blk[p].nxt)
    BY <1>1, <1>3, <1>5, TrailFrame DEF R
  <2> QED  BY <2>1, FollowTrail DEF R
<1>7. BlocksOf(r, "free") = R
  <2>1. BlocksOf(s, "free") = {p} \cup R
    BY <1>3 DEF FreeOK
  <2> QED  BY <1>3, <2>1 DEF BlocksOf
<1>8. Cardinality(R) = r.nfree
  <2>1. IsFiniteSet(FreeList(s)) /\ R = FreeList(s) \ {p}
    BY <1>1, <1>3, <1>4, FS_Subset DEF FreeOK, BlocksOf
  <2>2. Cardinality(R) = Cardinality(FreeList(s)) - 1
    BY <1>2, <2>1, FS_RemoveElement
  <2> QED  BY <2>2 DEF FreeOK
<1>9. ASSUME NEW b \in R PROVE b \notin Follow(r, r.blk[b].nxt)
  <2>1. b \in FreeList(s) /\ b \in Blk /\ r.blk[b].nxt = s.blk[b].nxt
    BY <1>3, <1>4
  <2>2. /\ b \notin Trail(Nexts(s), s.blk[b].nxt)
        /\ s.blk[b].nxt \in Int /\ Nexts(s)[b] = s.blk[b].nxt
    BY <2>1, FreeRest DEF Nexts
  <2>3. Trail(Nexts(s), s.blk[b].nxt) \subseteq R
    BY <1>1, <1>3, <2>2, TrailNext DEF R
  <2>4. Trail(Nexts(r), s.blk[b].nxt) = Trail(Nexts(s), s.blk[b].nxt)
    BY <1>1, <1>5, <2>2, <2>3, TrailFrame
  <2> QED  BY <2>1, <2>2, <2>4, FollowTrail
<1> QED  BY <1>6, <1>7, <1>8, <1>9 DEF FreeOK

(* A block that is not free is put at its front.                           *)
LEMMA FreePush ==
  ASSUME NEW D, NEW s \in Store(D), NEW E, NEW r \in Store(E), FreeOK(s),
         NEW p \in Blk, s.blk[p].type # "free", r.blk[p].type = "free",
         r.freep = p, r.blk[p].nxt = s.freep, r.nfree = s.nfree + 1,
         \A b \in Blk \ {p} :
           r.blk[b].type = "free" <=> s.blk[b].type = "free",
         \A b \in Blk \ {p} :
           s.blk[b].type = "free" => r.blk[b].nxt = s.blk[b].nxt
  PROVE  FreeOK(r)
<1> DEFINE R == FreeList(s)
<1>1. /\ Nexts(s) \in [Blk -> Int] /\ Nexts(r) \in [Blk -> Int]
      /\ s.freep \in Int /\ IsFiniteSet(Blk) /\ Blk \in SUBSET Int
  BY StoreFields, FinitePlaces, BlkFacts
<1>2. \A b \in R : b \in Blk /\ b # p /\ s.blk[b].type = "free"
  BY FreeRest
<1>3. \A b \in R : Nexts(r)[b] = Nexts(s)[b]
  BY <1>2 DEF Nexts
<1>4. Trail(Nexts(r), s.freep) = R
  BY <1>1, <1>3, FollowTrail, TrailFrame
<1>5. Nexts(r)[p] = s.freep
  BY DEF Nexts
<1> HIDE DEF R
<1>6. FreeList(r) = {p} \cup R
  <2>1. Trail(Nexts(r), p) = {p} \cup Trail(Nexts(r), Nexts(r)[p])
    BY <1>1, TrailStep
  <2> QED  BY <1>4, <1>5, <2>1, FollowTrail
<1>7. BlocksOf(r, "free") = {p} \cup R
  <2>1. BlocksOf(s, "free") = R
    BY DEF FreeOK, R
  <2> QED  BY <2>1 DEF BlocksOf
<1>8. Cardinality({p} \cup R) = r.nfree
  <2>1. IsFiniteSet(R) /\ p \notin R
    BY <1>1, <1>2, FS_Subset DEF FreeOK, BlocksOf, R
  <2>2. Cardinality(R \cup {p}) = Cardinality(R) + 1
    BY <2>1, FS_AddElement, Zenon
  <2>3. R \cup {p} = {p} \cup R
    OBVIOUS
  <2> QED  BY <2>2, <2>3 DEF FreeOK, R
<1>9. ASSUME NEW b \in {p} \cup R PROVE b \notin Follow(r, r.blk[b].nxt)
  <2>1. CASE b = p
    BY <1>2, <1>4, <2>1, FollowTrail
  <2>2. CASE b # p
    <3>1. b \in FreeList(s) /\ b \in Blk /\ r.blk[b].nxt = s.blk[b].nxt
      BY <1>2, <2>2 DEF R
    <3>2. /\ b \notin Trail(Nexts(s), s.blk[b].nxt)
          /\ s.blk[b].nxt \in Int
          /\ Trail(Nexts(s), s.blk[b].nxt) \subseteq R
      BY <3>1, FreeRest DEF R
    <3>3. Trail(Nexts(r), s.blk[b].nxt) = Trail(Nexts(s), s.blk[b].nxt)
      BY <1>1, <1>3, <3>2, TrailFrame
    <3> QED  BY <3>1, <3>2, <3>3, FollowTrail
  <2> QED  BY <2>1, <2>2
<1> QED  BY <1>6, <1>7, <1>8, <1>9 DEF FreeOK

----------------------------------------------------------------------------
(* bgtfre.                                                                 *)

(* The block it returns.                                                   *)
LEMMA GetFreeBlock ==
  ASSUME NEW D, NEW s \in Store(D), ListsOK(s)
  PROVE  /\ GetFree(s) \in Blk \cup {ZNULL}
         /\ GetFree(s) # ZNULL =>
              /\ s.blk[GetFree(s)].type \in {"none", "free"}
              /\ \A b \in Blk : b >= s.blkmx => s.blk[b].type = "none"
              /\ s.freep # ZNULL => GetFree(s) = s.freep
              /\ s.freep = ZNULL => GetFree(s) = s.blkmx /\ s.blkmx < s.limit
         /\ GetFree(s) = ZNULL => s.freep = ZNULL /\ NoFree(s) = "QF2BIG"
<1>1. s.freep \in Blk \cup {ZNULL} /\ s.blkmx \in Nat /\ s.limit \in Limits
  BY StoreFields
<1>2. s.freep # ZNULL => s.freep \in Blk /\ s.blk[s.freep].type = "free"
  <2> SUFFICES ASSUME s.freep # ZNULL
               PROVE  s.freep \in Blk /\ s.blk[s.freep].type = "free"
    OBVIOUS
  <2>1. /\ Nexts(s) \in [Blk -> Int] /\ IsFiniteSet(Blk) /\ Blk \in SUBSET Int
        /\ s.freep \in Blk /\ s.freep \in Int
    BY <1>1, StoreFields, FinitePlaces, BlkFacts
  <2>2. s.freep \in Trail(Nexts(s), s.freep)
    BY <2>1, TrailClosed
  <2>3. s.freep \in FreeList(s)
    BY <2>2, FollowTrail
  <2> QED  BY <2>1, <2>3 DEF ListsOK, FreeOK, BlocksOf
<1>3. s.freep = ZNULL /\ s.blkmx < s.limit => s.blkmx \in Blk
  BY <1>1, BlkFacts DEF ListsOK
<1>4. /\ s.blkmx \in 2 .. s.limit
      /\ \A b \in Blk : b >= s.blkmx => s.blk[b].type = "none"
  BY DEF ListsOK
<1> QED  BY <1>1, <1>2, <1>3, <1>4, BlkFacts DEF GetFree, Type, NoFree

(* What it does to the free list, whatever the block is then used for.     *)
LEMMA TakenLists ==
  ASSUME NEW D, NEW s \in Store(D), NEW E, NEW r \in Store(E), ListsOK(s),
         NEW n, n = GetFree(s), n # ZNULL,
         r.freep = Taken(s).freep, r.nfree = Taken(s).nfree,
         r.blkmx = Taken(s).blkmx, r.limit = s.limit,
         r.blk[n].type \notin {"none", "free"},
         \A b \in Blk \ {n} : r.blk[b].type = s.blk[b].type,
         \A b \in Blk \ {n} :
           s.blk[b].type = "free" => r.blk[b].nxt = s.blk[b].nxt
  PROVE  /\ FreeOK(r) /\ r.blkmx \in 2 .. r.limit
         /\ \A b \in Blk : b >= r.blkmx => r.blk[b].type = "none"
<1>1. /\ s.freep \in Blk \cup {ZNULL} /\ s.blkmx \in Nat /\ s.limit \in Limits
      /\ s.nfree \in Nat /\ s.blkmx \in 2 .. s.limit /\ FreeOK(s)
      /\ \A b \in Blk : b >= s.blkmx => s.blk[b].type = "none"
  BY StoreFields DEF ListsOK
<1>2. n \in Blk /\ s.blk[n].type \in {"none", "free"}
  BY GetFreeBlock
<1>3. CASE s.freep # ZNULL
  <2>1. n = s.freep
    BY <1>3, GetFreeBlock
  <2>2. /\ r.freep = s.blk[s.freep].nxt /\ r.nfree = s.nfree - 1
        /\ r.blkmx = s.blkmx
    BY <1>3 DEF Taken
  <2>3. FreeOK(r)
    BY <1>1, <1>2, <2>1, <2>2, FreePop
  <2>4. s.blk[n].type = "free"
    <3>1. GetFree(s) # ZNULL => Type(s, s.freep) = "free"
      BY <1>3 DEF GetFree
    <3> QED  BY <1>2, <2>1, <3>1 DEF Type
  <2>5. n < s.blkmx
    BY <1>1, <1>2, <2>4, BlkFacts
  <2> QED  BY <1>1, <1>2, <2>2, <2>3, <2>5, BlkFacts
<1>4. CASE s.freep = ZNULL
  <2>1. n = s.blkmx /\ s.blkmx < s.limit
    BY <1>4, GetFreeBlock
  <2>2. /\ r.freep = s.freep /\ r.nfree = s.nfree /\ r.blkmx = s.blkmx + 1
    BY <1>4 DEF Taken
  <2>3. s.blk[n].type = "none"
    BY <1>1, <1>2, <2>1
  <2>4. FreeOK(r)
    <3>1. \A b \in Blk : r.blk[b].type = "free" <=> s.blk[b].type = "free"
      BY <1>2, <2>3
    <3>2. \A b \in Blk : s.blk[b].type = "free" => r.blk[b].nxt = s.blk[b].nxt
      BY <1>2, <2>3
    <3> QED  BY <1>1, <2>2, <3>1, <3>2, FreeFrame
  <2>5. r.blkmx \in 2 .. r.limit
    BY <1>1, <2>1, <2>2, BlkFacts
  <2>6. \A b \in Blk : b >= r.blkmx => r.blk[b].type = "none"
    BY <1>1, <1>2, <2>1, <2>2, BlkFacts
  <2> QED  BY <2>4, <2>5, <2>6
<1> QED  BY <1>3, <1>4

(* The store it leaves.                                                    *)
LEMMA TakenFields ==
  ASSUME NEW D, NEW s \in Store(D), ListsOK(s), GetFree(s) # ZNULL
  PROVE  /\ Taken(s) \in Store(D) /\ Taken(s).blk = s.blk
         /\ Taken(s).head = s.head /\ Taken(s).limit = s.limit
<1>1. CASE s.freep # ZNULL
  <2>1. s.freep \in Blk /\ s.nfree \in Nat
    BY <1>1, StoreFields
  <2>2. s.nfree > 0
    <3>1. /\ Nexts(s) \in [Blk -> Int] /\ IsFiniteSet(Blk)
          /\ Blk \in SUBSET Int /\ s.freep \in Int
      BY <2>1, StoreFields, FinitePlaces, BlkFacts
    <3>2. s.freep \in Trail(Nexts(s), s.freep)
      BY <2>1, <3>1, TrailClosed
    <3>3. s.freep \in FreeList(s)
      BY <3>2, FollowTrail
    <3>4. IsFiniteSet(FreeList(s))
      BY <3>1, FS_Subset DEF ListsOK, FreeOK, BlocksOf
    <3> QED  BY <2>1, <3>3, <3>4, FS_EmptySet DEF ListsOK, FreeOK
  <2>3. s.blk[s.freep].nxt \in Blk \cup {ZNULL} /\ s.nfree - 1 \in Nat
    BY <2>1, <2>2, StoreFields
  <2>4. Taken(s) = [s EXCEPT !.freep = s.blk[s.freep].nxt, !.nfree = s.nfree - 1]
    BY <1>1 DEF Taken
  <2> QED  BY <2>3, <2>4 DEF Store
<1>2. CASE s.freep = ZNULL
  <2>1. s.blkmx + 1 \in Nat
    BY StoreFields
  <2>2. Taken(s) = [s EXCEPT !.blkmx = s.blkmx + 1]
    BY <1>2 DEF Taken
  <2> QED  BY <2>1, <2>2 DEF Store
<1> QED  BY <1>1, <1>2

(* One block written, and one head.                                        *)
PutB(u, n, x) == [u EXCEPT !.blk[n] = x]
PutH(u, t, h) == [u EXCEPT !.head[t] = h]

(* What else the store has stays.                                          *)
LEMMA PutBlk ==
  ASSUME NEW D, NEW u \in Store(D), NEW n \in Blk, NEW x \in BlkRec(D)
  PROVE  /\ PutB(u, n, x) \in Store(D) /\ PutB(u, n, x).head = u.head
         /\ PutB(u, n, x).freep = u.freep /\ PutB(u, n, x).nfree = u.nfree
         /\ PutB(u, n, x).blkmx = u.blkmx /\ PutB(u, n, x).limit = u.limit
         /\ \A b \in Blk : PutB(u, n, x).blk[b] = IF b = n THEN x ELSE u.blk[b]
BY DEF Store, PutB

(* The same of a head.                                                     *)
LEMMA PutHead ==
  ASSUME NEW D, NEW u \in Store(D), NEW t \in Seg, NEW h \in Blk \cup {ZNULL}
  PROVE  /\ PutH(u, t, h) \in Store(D)
         /\ PutH(u, t, h).head = [u.head EXCEPT ![t] = h]
         /\ PutH(u, t, h).blk = u.blk
         /\ PutH(u, t, h).freep = u.freep /\ PutH(u, t, h).nfree = u.nfree
         /\ PutH(u, t, h).blkmx = u.blkmx /\ PutH(u, t, h).limit = u.limit
BY DEF Store, PutH

----------------------------------------------------------------------------
(* mkdblk: a new active block.                                             *)
NewHead(s, t) ==
  IF s.head[t] = ZNULL THEN FirstBlock(s, t) ELSE ChainBlock(s, t)

(* The fields it changes.                                                  *)
LEMMA NewHeadFields ==
  ASSUME NEW D, NEW s \in Store(D), ListsOK(s), NEW t \in Seg,
         NEW n, n = GetFree(s), n # ZNULL, NEW r, r = NewHead(s, t)
  PROVE  /\ r \in Store(D) /\ n \in Blk /\ n # s.head[t]
         /\ r.freep = Taken(s).freep /\ r.nfree = Taken(s).nfree
         /\ r.blkmx = Taken(s).blkmx /\ r.limit = s.limit
         /\ r.head = [s.head EXCEPT ![t] = n]
         /\ \A b \in Blk :
              /\ r.blk[b].type = IF b = n THEN t ELSE s.blk[b].type
              /\ r.blk[b].free = IF b = n THEN CAP ELSE s.blk[b].free
              /\ r.blk[b].first = IF b = n THEN 0 ELSE s.blk[b].first
              /\ r.blk[b].seg = s.blk[b].seg
              /\ r.blk[b].nxt = IF b = n THEN s.head[t] ELSE s.blk[b].nxt
              /\ r.blk[b].prv = IF b = n THEN ZNULL
                                ELSE IF b = s.head[t] THEN n
                                ELSE s.blk[b].prv
<1>1. PICK u : u = Taken(s)
  OBVIOUS
<1>2. /\ u \in Store(D) /\ u.blk = s.blk /\ u.head = s.head
      /\ u.limit = s.limit
  BY <1>1, TakenFields
<1>3. n \in Blk /\ s.blk[n].type \in {"none", "free"}
  BY GetFreeBlock
<1>4. PICK h : h = s.head[t]
  OBVIOUS
<1>5. h \in Blk \cup {ZNULL} /\ (h # ZNULL => s.blk[h].type = t) /\ h # n
  <2>1. h \in Blk \cup {ZNULL}
    BY <1>4, StoreFields
  <2>2. ListOK(s, t)
    BY DEF ListsOK, Seg
  <2>3. h # ZNULL => s.blk[h].type = t
    BY <1>4, <2>2 DEF ListOK, BlocksOf
  <2> QED  BY <1>3, <2>1, <2>3, BlkFacts DEF Seg
<1>6. PICK y : y = [type |-> t, free |-> CAP, first |-> 0, nxt |-> ZNULL,
                    prv |-> ZNULL, seg |-> u.blk[n].seg]
  OBVIOUS
<1>7. y \in BlkRec(D)
  BY <1>2, <1>3, <1>6, StoreFields, BlkFacts DEF BlkRec, BlkType, Seg
<1>8. PICK m : m = MakeBlock(s, t)
  OBVIOUS
<1>9. m = PutB(u, n, y)
  BY <1>1, <1>6, <1>8 DEF MakeBlock, PutB
<1>10. /\ m \in Store(D) /\ m.head = u.head /\ m.freep = u.freep
       /\ m.nfree = u.nfree /\ m.blkmx = u.blkmx /\ m.limit = u.limit
       /\ \A b \in Blk : m.blk[b] = IF b = n THEN y ELSE u.blk[b]
  BY <1>2, <1>3, <1>7, <1>9, PutBlk
<1>11. CASE h = ZNULL
  <2>1. r = [m EXCEPT !.head[t] = n]
    BY <1>4, <1>8, <1>11 DEF NewHead, FirstBlock
  <2>2. /\ r \in Store(D) /\ r.head = [m.head EXCEPT ![t] = n]
        /\ r.blk = m.blk /\ r.freep = m.freep
        /\ r.nfree = m.nfree /\ r.blkmx = m.blkmx /\ r.limit = m.limit
    BY <1>3, <1>10, <2>1 DEF Store
  <2> QED  BY <1>1, <1>2, <1>3, <1>4, <1>5, <1>6, <1>10, <1>11, <2>2, BlkFacts
<1>12. CASE h # ZNULL
  <2>1. h \in Blk
    BY <1>5, <1>12
  <2>2. r = [m EXCEPT !.blk[n].nxt = h, !.blk[h].prv = n, !.head[t] = n]
    BY <1>4, <1>8, <1>12 DEF NewHead, ChainBlock
  <2>3. PICK x, z : x = [m.blk[n] EXCEPT !.nxt = h] /\ z = [m.blk[h] EXCEPT !.prv = n]
    OBVIOUS
  <2>4. x \in BlkRec(D) /\ z \in BlkRec(D)
    <3>1. m.blk[n] \in BlkRec(D) /\ m.blk[h] \in BlkRec(D)
      BY <1>3, <1>10, <2>1, StoreFields
    <3> QED  BY <1>3, <2>1, <2>3, <3>1 DEF BlkRec
  <2>5. PICK v : v = PutB(m, n, x)
    OBVIOUS
  <2>6. /\ v \in Store(D) /\ v.head = m.head /\ v.freep = m.freep
        /\ v.nfree = m.nfree /\ v.blkmx = m.blkmx /\ v.limit = m.limit
        /\ \A b \in Blk : v.blk[b] = IF b = n THEN x ELSE m.blk[b]
    BY <1>3, <1>10, <2>4, <2>5, PutBlk, SMTT(30)
  <2>7. PICK w : w = PutB(v, h, z)
    OBVIOUS
  <2>8. /\ r \in Store(D) /\ r.head = [v.head EXCEPT ![t] = n]
        /\ r.freep = v.freep
        /\ r.nfree = v.nfree /\ r.blkmx = v.blkmx /\ r.limit = v.limit
        /\ \A b \in Blk : r.blk[b] = IF b = h THEN z ELSE v.blk[b]
    <3>1. /\ w \in Store(D) /\ w.head = v.head /\ w.freep = v.freep
          /\ w.nfree = v.nfree /\ w.blkmx = v.blkmx /\ w.limit = v.limit
          /\ \A b \in Blk : w.blk[b] = IF b = h THEN z ELSE v.blk[b]
      BY <2>1, <2>4, <2>6, <2>7, PutBlk
    <3>2. r = [w EXCEPT !.head[t] = n]
      BY <1>3, <1>5, <1>10, <2>1, <2>2, <2>3, <2>5, <2>7 DEF Store, PutB
    <3>3. r = PutH(w, t, n)
      BY <3>2 DEF PutH
    <3> QED  BY <1>3, <3>1, <3>3, PutHead
  <2>9. /\ x = [type |-> t, free |-> CAP, first |-> 0, nxt |-> h,
                prv |-> ZNULL, seg |-> u.blk[n].seg]
    BY <1>3, <1>6, <1>10, <2>3
  <2>10. /\ z.type = u.blk[h].type /\ z.free = u.blk[h].free
         /\ z.first = u.blk[h].first /\ z.nxt = u.blk[h].nxt /\ z.prv = n
         /\ z.seg = u.blk[h].seg
    <3>1. m.blk[h] = u.blk[h] /\ m.blk[h] \in BlkRec(D)
      BY <1>5, <1>10, <2>1, StoreFields
    <3> QED  BY <2>3, <3>1 DEF BlkRec
  <2> QED
    BY <1>1, <1>2, <1>3, <1>4, <1>5, <1>10, <2>1, <2>6, <2>8, <2>9, <2>10, SMTT(30)
<1> QED  BY <1>11, <1>12

(* The list of one type does not see blocks of other types.                *)
LEMMA ListFrame ==
  ASSUME NEW s, NEW r, NEW t, ListOK(s, t), r.head[t] = s.head[t],
         \A b \in Blk : r.blk[b].type = t <=> s.blk[b].type = t,
         \A b \in BlocksOf(s, t) : /\ r.blk[b].nxt = s.blk[b].nxt
                                   /\ r.blk[b].prv = s.blk[b].prv
  PROVE  ListOK(r, t)
<1>1. BlocksOf(r, t) = BlocksOf(s, t)
  BY DEF BlocksOf
<1>2. /\ s.head[t] \in BlocksOf(s, t) \cup {ZNULL}
      /\ s.head[t] # ZNULL => s.blk[s.head[t]].prv = ZNULL
      /\ \A b \in BlocksOf(s, t) :
           /\ s.blk[b].nxt = ZNULL \/
                (s.blk[b].nxt \in BlocksOf(s, t) /\ s.blk[s.blk[b].nxt].prv = b)
           /\ s.blk[b].prv = ZNULL \/
                (s.blk[b].prv \in BlocksOf(s, t) /\ s.blk[s.blk[b].prv].nxt = b)
  BY DEF ListOK
<1> QED  BY <1>1, <1>2 DEF ListOK

(* The new active block is in front of the list.                           *)
LEMMA NewHeadOK ==
  ASSUME NEW D, NEW s \in Store(D), ListsOK(s), NEW t \in Seg,
         GetFree(s) # ZNULL
  PROVE  ListsOK(NewHead(s, t))
<1>1. PICK n, r, h : n = GetFree(s) /\ r = NewHead(s, t) /\ h = s.head[t]
  OBVIOUS
<1>2. /\ r \in Store(D) /\ n \in Blk /\ n # h
      /\ r.freep = Taken(s).freep /\ r.nfree = Taken(s).nfree
      /\ r.blkmx = Taken(s).blkmx /\ r.limit = s.limit
      /\ r.head = [s.head EXCEPT ![t] = n]
      /\ \A b \in Blk :
           /\ r.blk[b].type = IF b = n THEN t ELSE s.blk[b].type
           /\ r.blk[b].nxt = IF b = n THEN h ELSE s.blk[b].nxt
           /\ r.blk[b].prv = IF b = n THEN ZNULL
                             ELSE IF b = h THEN n ELSE s.blk[b].prv
  BY <1>1, NewHeadFields
<1>3. s.blk[n].type \in {"none", "free"} /\ t \notin {"none", "free"}
  BY <1>1, GetFreeBlock DEF Seg
<1>4. ListOK(s, "data") /\ ListOK(s, "dup") /\ ListOK(s, t)
  BY DEF ListsOK, Seg
<1>5. /\ h \in BlocksOf(s, t) \cup {ZNULL}
      /\ h # ZNULL => s.blk[h].prv = ZNULL
      /\ \A b \in BlocksOf(s, t) :
           /\ s.blk[b].nxt = ZNULL \/
                (s.blk[b].nxt \in BlocksOf(s, t) /\ s.blk[s.blk[b].nxt].prv = b)
           /\ s.blk[b].prv = ZNULL \/
                (s.blk[b].prv \in BlocksOf(s, t) /\ s.blk[s.blk[b].prv].nxt = b)
  BY <1>1, <1>4 DEF ListOK
<1>6. FreeOK(r) /\ r.blkmx \in 2 .. r.limit
      /\ \A b \in Blk : b >= r.blkmx => r.blk[b].type = "none"
  <2>1. /\ r.blk[n].type \notin {"none", "free"} /\ n # ZNULL
        /\ \A b \in Blk \ {n} : r.blk[b].type = s.blk[b].type
        /\ \A b \in Blk \ {n} :
             s.blk[b].type = "free" => r.blk[b].nxt = s.blk[b].nxt
    BY <1>1, <1>2, <1>3
  <2> QED  BY <1>1, <1>2, <2>1, TakenLists
<1>7. ASSUME NEW u \in Seg, u # t PROVE ListOK(r, u)
  <2>1. ListOK(s, u)
    BY <1>4 DEF Seg
  <2>2. r.head[u] = s.head[u]
    BY <1>2, <1>7, StoreFields
  <2>3. \A b \in Blk : r.blk[b].type = u <=> s.blk[b].type = u
    BY <1>2, <1>3, <1>7 DEF Seg
  <2>4. \A b \in BlocksOf(s, u) : b # n /\ b # h /\ b \in Blk
    BY <1>3, <1>5, <1>7, BlkFacts DEF Seg, BlocksOf
  <2>5. \A b \in BlocksOf(s, u) : /\ r.blk[b].nxt = s.blk[b].nxt
                                  /\ r.blk[b].prv = s.blk[b].prv
    BY <1>2, <2>4
  <2> QED  BY <2>1, <2>2, <2>3, <2>5, ListFrame
<1>8. ListOK(r, t)
  <2>1. r.head[t] = n
    BY <1>2, StoreFields
  <2>2. /\ BlocksOf(r, t) = {n} \cup BlocksOf(s, t) /\ n \notin BlocksOf(s, t)
        /\ BlocksOf(s, t) \subseteq Blk
    BY <1>2, <1>3 DEF BlocksOf
  <2>3. ASSUME NEW b \in BlocksOf(r, t)
        PROVE  /\ r.blk[b].nxt = ZNULL \/ (r.blk[b].nxt \in BlocksOf(r, t)
                                             /\ r.blk[r.blk[b].nxt].prv = b)
               /\ r.blk[b].prv = ZNULL \/ (r.blk[b].prv \in BlocksOf(r, t)
                                             /\ r.blk[r.blk[b].prv].nxt = b)
    <3>1. CASE b = n
      BY <1>2, <1>5, <2>2, <3>1
    <3>2. CASE b # n
      <4>1. b \in BlocksOf(s, t) /\ b \in Blk
        BY <2>2, <3>2
      <4>2. r.blk[b].nxt = s.blk[b].nxt
        BY <1>2, <3>2, <4>1
      <4>3. s.blk[b].nxt # ZNULL => s.blk[b].nxt # h /\ s.blk[b].nxt # n
        BY <1>5, <2>2, <4>1, BlkFacts
      <4>4. s.blk[b].prv # n
        BY <1>2, <1>5, <2>2, <4>1, BlkFacts
      <4>5. s.blk[b].nxt = ZNULL \/
              (s.blk[b].nxt \in BlocksOf(s, t) /\ s.blk[s.blk[b].nxt].prv = b)
        BY <1>5, <4>1
      <4>6. s.blk[b].prv = ZNULL \/
              (s.blk[b].prv \in BlocksOf(s, t) /\ s.blk[s.blk[b].prv].nxt = b)
        BY <1>5, <4>1
      <4>7. r.blk[b].nxt = ZNULL \/ (r.blk[b].nxt \in BlocksOf(r, t)
                                       /\ r.blk[r.blk[b].nxt].prv = b)
        <5>1. CASE s.blk[b].nxt # ZNULL
          <6>1. PICK m : m = s.blk[b].nxt
            OBVIOUS
          <6>2. m \in Blk /\ m \in BlocksOf(s, t) /\ s.blk[m].prv = b
                /\ m # h /\ m # n
            BY <2>2, <4>3, <4>5, <5>1, <6>1
          <6>3. r.blk[m].prv = b
            BY <1>2, <6>2
          <6> QED  BY <2>2, <4>2, <6>1, <6>2, <6>3
        <5>2. CASE s.blk[b].nxt = ZNULL
          BY <4>2, <5>2
        <5> QED  BY <5>1, <5>2
      <4>8. r.blk[b].prv = ZNULL \/ (r.blk[b].prv \in BlocksOf(r, t)
                                       /\ r.blk[r.blk[b].prv].nxt = b)
        <5>1. CASE b = h
          BY <1>2, <2>2, <3>2, <4>1, <5>1
        <5>2. CASE b # h /\ s.blk[b].prv # ZNULL
          <6>1. PICK m : m = s.blk[b].prv
            OBVIOUS
          <6>2. m \in Blk /\ m \in BlocksOf(s, t) /\ s.blk[m].nxt = b
                /\ m # n /\ r.blk[b].prv = m
            BY <1>2, <2>2, <3>2, <4>1, <4>4, <4>6, <5>2, <6>1
          <6>3. r.blk[m].nxt = b
            BY <1>2, <6>2
          <6> QED  BY <2>2, <6>2, <6>3
        <5>3. CASE b # h /\ s.blk[b].prv = ZNULL
          BY <1>2, <3>2, <4>1, <5>3
        <5> QED  BY <5>1, <5>2, <5>3
      <4> QED  BY <4>7, <4>8
    <3> QED  BY <3>1, <3>2
  <2> QED  BY <1>2, <2>1, <2>2, <2>3 DEF ListOK
<1> QED  BY <1>1, <1>6, <1>7, <1>8 DEF ListsOK, Seg

(* The tree takes a block.                                                 *)
ForTree(s) == [Taken(s) EXCEPT !.blk[GetFree(s)].type = "index"]

(* It is no block of a list any more.                                      *)
LEMMA TreeTakesOK ==
  ASSUME NEW D, NEW s \in Store(D), ListsOK(s), NEW n, n = GetFree(s),
         n # ZNULL, NEW r, r = ForTree(s)
  PROVE  /\ r \in Store(D) /\ ListsOK(r) /\ n \in Blk
         /\ s.blk[n].type \in {"none", "free"} /\ r.head = s.head
         /\ \A b \in Blk :
              /\ r.blk[b].type = IF b = n THEN "index" ELSE s.blk[b].type
              /\ r.blk[b].free = s.blk[b].free
              /\ r.blk[b].first = s.blk[b].first
              /\ r.blk[b].seg = s.blk[b].seg /\ r.blk[b].nxt = s.blk[b].nxt
              /\ r.blk[b].prv = s.blk[b].prv
<1>1. PICK u : u = Taken(s)
  OBVIOUS
<1>2. /\ u \in Store(D) /\ u.blk = s.blk /\ u.head = s.head
      /\ u.limit = s.limit
  BY <1>1, TakenFields
<1>3. n \in Blk /\ s.blk[n].type \in {"none", "free"}
  BY GetFreeBlock
<1>4. PICK x : x = [u.blk[n] EXCEPT !.type = "index"]
  OBVIOUS
<1>5. u.blk[n] \in BlkRec(D)
  BY <1>2, <1>3, StoreFields
<1>6. x \in BlkRec(D) /\ x.type = "index" /\ x.free = s.blk[n].free
      /\ x.first = s.blk[n].first /\ x.seg = s.blk[n].seg
      /\ x.nxt = s.blk[n].nxt /\ x.prv = s.blk[n].prv
  BY <1>2, <1>4, <1>5 DEF BlkRec, BlkType
<1>7. r = PutB(u, n, x)
  BY <1>1, <1>4 DEF PutB, ForTree
<1>8. /\ r \in Store(D) /\ r.head = u.head /\ r.freep = u.freep
      /\ r.nfree = u.nfree /\ r.blkmx = u.blkmx /\ r.limit = u.limit
      /\ \A b \in Blk : r.blk[b] = IF b = n THEN x ELSE u.blk[b]
  BY <1>2, <1>3, <1>6, <1>7, PutBlk
<1>9. \A b \in Blk :
        /\ r.blk[b].type = IF b = n THEN "index" ELSE s.blk[b].type
        /\ r.blk[b].free = s.blk[b].free
        /\ r.blk[b].first = s.blk[b].first
        /\ r.blk[b].seg = s.blk[b].seg /\ r.blk[b].nxt = s.blk[b].nxt
        /\ r.blk[b].prv = s.blk[b].prv
  BY <1>2, <1>6, <1>8
<1>10. FreeOK(r) /\ r.blkmx \in 2 .. r.limit
       /\ \A b \in Blk : b >= r.blkmx => r.blk[b].type = "none"
  <2>1. /\ r.blk[n].type \notin {"none", "free"}
        /\ \A b \in Blk \ {n} : r.blk[b].type = s.blk[b].type
        /\ \A b \in Blk \ {n} :
             s.blk[b].type = "free" => r.blk[b].nxt = s.blk[b].nxt
    BY <1>3, <1>9
  <2> QED  BY <1>1, <1>2, <1>8, <2>1, TakenLists
<1>11. ASSUME NEW t \in Seg PROVE ListOK(r, t)
  <2>1. ListOK(s, t)
    BY DEF ListsOK, Seg
  <2>2. \A b \in Blk : r.blk[b].type = t <=> s.blk[b].type = t
    BY <1>3, <1>9 DEF Seg
  <2>3. r.head[t] = s.head[t]
    BY <1>2, <1>8
  <2>4. \A b \in BlocksOf(s, t) : b \in Blk
    BY DEF BlocksOf
  <2> QED  BY <1>9, <2>1, <2>2, <2>3, <2>4, ListFrame
<1> QED  BY <1>2, <1>3, <1>8, <1>9, <1>10, <1>11 DEF ListsOK, Seg

----------------------------------------------------------------------------
(* bmkfre and deldat.                                                      *)

(* The fields bmkfre changes.                                              *)
LEMMA MakeFreeFields ==
  ASSUME NEW D, NEW s \in Store(D), NEW b \in Blk, NEW r, r = MakeFree(s, b)
  PROVE  /\ r \in Store(D) /\ r.freep = b /\ r.nfree = s.nfree + 1
         /\ r.blkmx = s.blkmx /\ r.limit = s.limit
         /\ r.head = IF s.blk[b].type = "dup" /\ s.head["dup"] = b
                     THEN [s.head EXCEPT !["dup"] = ZNULL] ELSE s.head
         /\ \A c \in Blk :
              /\ r.blk[c].type = IF c = b THEN "free" ELSE s.blk[c].type
              /\ r.blk[c].free = IF c = b THEN 0 ELSE s.blk[c].free
              /\ r.blk[c].first = IF c = b THEN 0 ELSE s.blk[c].first
              /\ r.blk[c].seg = s.blk[c].seg
              /\ r.blk[c].nxt = IF c = b THEN s.freep ELSE s.blk[c].nxt
              /\ r.blk[c].prv = IF c = b THEN 0 ELSE s.blk[c].prv
<1>1. PICK x : x = [type |-> "free", free |-> 0, first |-> 0, nxt |-> s.freep,
                    prv |-> 0, seg |-> s.blk[b].seg]
  OBVIOUS
<1>2. x \in BlkRec(D)
  BY <1>1, StoreFields, BlkFacts DEF BlkRec, BlkType
<1>3. PICK u : u = PutB(s, b, x)
  OBVIOUS
<1>4. /\ u \in Store(D) /\ u.head = s.head /\ u.freep = s.freep
      /\ u.nfree = s.nfree /\ u.blkmx = s.blkmx /\ u.limit = s.limit
      /\ \A c \in Blk : u.blk[c] = IF c = b THEN x ELSE s.blk[c]
  BY <1>2, <1>3, PutBlk
<1>5. PICK h : h = IF s.blk[b].type = "dup" /\ s.head["dup"] = b THEN ZNULL
                   ELSE s.head["dup"]
  OBVIOUS
<1>6. h \in Blk \cup {ZNULL}
  BY <1>5, StoreFields DEF Seg
<1>7. PICK w : w = PutH(u, "dup", h)
  OBVIOUS
<1>8. /\ w \in Store(D) /\ w.head = [u.head EXCEPT !["dup"] = h]
      /\ w.blk = u.blk /\ w.freep = u.freep /\ w.nfree = u.nfree
      /\ w.blkmx = u.blkmx /\ w.limit = u.limit
  BY <1>4, <1>6, <1>7, PutHead DEF Seg
<1>9. r = [w EXCEPT !.freep = b, !.nfree = s.nfree + 1]
  <2>1. u = [s EXCEPT !.blk[b] = x]
    BY <1>3 DEF PutB
  <2>2. w = [u EXCEPT !.head["dup"] = h]
    BY <1>7 DEF PutH
  <2>3. r = [s EXCEPT !.blk[b] = x, !.head["dup"] = h, !.freep = b,
                      !.nfree = s.nfree + 1]
    BY <1>1, <1>5 DEF MakeFree, Type
  <2> QED  BY <2>1, <2>2, <2>3 DEF Store
<1>10. /\ r \in Store(D) /\ r.blk = w.blk /\ r.head = w.head /\ r.freep = b
       /\ r.nfree = s.nfree + 1 /\ r.blkmx = w.blkmx /\ r.limit = w.limit
  <2>1. s.nfree + 1 \in Nat
    BY StoreFields
  <2> QED  BY <1>8, <1>9, <2>1 DEF Store
<1>11. r.head = IF s.blk[b].type = "dup" /\ s.head["dup"] = b
                THEN [s.head EXCEPT !["dup"] = ZNULL] ELSE s.head
  BY <1>4, <1>5, <1>8, <1>10, StoreFields
<1> QED  BY <1>1, <1>4, <1>8, <1>10, <1>11

(* The tree gives back a block.                                            *)
LEMMA TreeGivesOK ==
  ASSUME NEW D, NEW s \in Store(D), ListsOK(s), NEW b \in BlocksOf(s, "index"),
         NEW r, r = MakeFree(s, b)
  PROVE  /\ r \in Store(D) /\ ListsOK(r) /\ b \in Blk /\ r.head = s.head
         /\ \A c \in Blk :
              /\ r.blk[c].type = IF c = b THEN "free" ELSE s.blk[c].type
              /\ r.blk[c].free = IF c = b THEN 0 ELSE s.blk[c].free
              /\ r.blk[c].first = IF c = b THEN 0 ELSE s.blk[c].first
              /\ r.blk[c].seg = s.blk[c].seg
              /\ c # b => r.blk[c].nxt = s.blk[c].nxt
<1>1. b \in Blk /\ s.blk[b].type = "index"
  BY DEF BlocksOf
<1>2. /\ r \in Store(D) /\ r.freep = b /\ r.nfree = s.nfree + 1
      /\ r.blkmx = s.blkmx /\ r.limit = s.limit /\ r.head = s.head
      /\ \A c \in Blk :
           /\ r.blk[c].type = IF c = b THEN "free" ELSE s.blk[c].type
           /\ r.blk[c].free = IF c = b THEN 0 ELSE s.blk[c].free
           /\ r.blk[c].first = IF c = b THEN 0 ELSE s.blk[c].first
           /\ r.blk[c].seg = s.blk[c].seg
           /\ r.blk[c].nxt = IF c = b THEN s.freep ELSE s.blk[c].nxt
           /\ r.blk[c].prv = IF c = b THEN 0 ELSE s.blk[c].prv
  <2>1. /\ r \in Store(D) /\ r.freep = b /\ r.nfree = s.nfree + 1
        /\ r.blkmx = s.blkmx /\ r.limit = s.limit
        /\ r.head = IF s.blk[b].type = "dup" /\ s.head["dup"] = b
                    THEN [s.head EXCEPT !["dup"] = ZNULL] ELSE s.head
        /\ \A c \in Blk :
             /\ r.blk[c].type = IF c = b THEN "free" ELSE s.blk[c].type
             /\ r.blk[c].free = IF c = b THEN 0 ELSE s.blk[c].free
             /\ r.blk[c].first = IF c = b THEN 0 ELSE s.blk[c].first
             /\ r.blk[c].seg = s.blk[c].seg
             /\ r.blk[c].nxt = IF c = b THEN s.freep ELSE s.blk[c].nxt
             /\ r.blk[c].prv = IF c = b THEN 0 ELSE s.blk[c].prv
    <3>1. s \in Store(D) /\ b \in Blk /\ r = MakeFree(s, b)
      BY <1>1
    <3> HIDE DEF Store
    <3> QED  BY <3>1, MakeFreeFields
  <2> QED  BY <1>1, <2>1
<1>3. FreeOK(r)
  <2>1. FreeOK(s) /\ s.blk[b].type # "free" /\ r.blk[b].type = "free"
        /\ r.blk[b].nxt = s.freep
    BY <1>1, <1>2 DEF ListsOK
  <2>2. \A c \in Blk \ {b} : r.blk[c].type = "free" <=> s.blk[c].type = "free"
    BY <1>2
  <2>3. \A c \in Blk \ {b} :
          s.blk[c].type = "free" => r.blk[c].nxt = s.blk[c].nxt
    BY <1>2
  <2> QED  BY <1>1, <1>2, <2>1, <2>2, <2>3, FreePush
<1>4. ASSUME NEW t \in Seg PROVE ListOK(r, t)
  <2>1. ListOK(s, t)
    BY DEF ListsOK, Seg
  <2>2. \A c \in Blk : r.blk[c].type = t <=> s.blk[c].type = t
    BY <1>1, <1>2 DEF Seg
  <2>3. \A c \in BlocksOf(s, t) : /\ r.blk[c].nxt = s.blk[c].nxt
                                  /\ r.blk[c].prv = s.blk[c].prv
    BY <1>1, <1>2 DEF Seg, BlocksOf
  <2> QED  BY <1>2, <2>1, <2>2, <2>3, ListFrame
<1>5. /\ r.blkmx \in 2 .. r.limit
      /\ \A c \in Blk : c >= r.blkmx => r.blk[c].type = "none"
  BY <1>1, <1>2 DEF ListsOK
<1> QED  BY <1>1, <1>2, <1>3, <1>4, <1>5 DEF ListsOK, Seg

(* The fields that change when the neighbours of b are linked.             *)
LEMMA UnlinkedFields ==
  ASSUME NEW D, NEW s \in Store(D), NEW b \in Blk, s.blk[b].prv # 0,
         NEW r, r = Unlinked(s, b)
  PROVE  /\ r \in Store(D) /\ r.freep = s.freep /\ r.nfree = s.nfree
         /\ r.blkmx = s.blkmx /\ r.limit = s.limit /\ r.head = s.head
         /\ \A c \in Blk :
              /\ r.blk[c].type = s.blk[c].type /\ r.blk[c].free = s.blk[c].free
              /\ r.blk[c].first = s.blk[c].first /\ r.blk[c].seg = s.blk[c].seg
              /\ r.blk[c].nxt = IF c = s.blk[b].prv THEN s.blk[b].nxt
                                ELSE s.blk[c].nxt
              /\ r.blk[c].prv = IF c = s.blk[b].nxt THEN s.blk[b].prv
                                ELSE s.blk[c].prv
<1>1. PICK n, p : n = s.blk[b].nxt /\ p = s.blk[b].prv
  OBVIOUS
<1>2. n \in Blk \cup {ZNULL} /\ p \in Blk \cup {ZNULL}
  BY <1>1, StoreFields
<1>3. PICK u : u = IF n # ZNULL THEN [s EXCEPT !.blk[n].prv = p] ELSE s
  OBVIOUS
<1>4. r = IF p # ZNULL THEN [u EXCEPT !.blk[p].nxt = n] ELSE u
  BY <1>1, <1>3, SMTT(30) DEF Unlinked
<1>5. /\ u \in Store(D) /\ u.freep = s.freep /\ u.nfree = s.nfree
      /\ u.blkmx = s.blkmx /\ u.limit = s.limit /\ u.head = s.head
      /\ \A c \in Blk :
           /\ u.blk[c].type = s.blk[c].type /\ u.blk[c].free = s.blk[c].free
           /\ u.blk[c].first = s.blk[c].first /\ u.blk[c].seg = s.blk[c].seg
           /\ u.blk[c].nxt = s.blk[c].nxt
           /\ u.blk[c].prv = IF c = n THEN p ELSE s.blk[c].prv
  <2>1. CASE n = ZNULL
    BY <1>3, <2>1, BlkFacts
  <2>2. CASE n # ZNULL
    <3>1. n \in Blk
      BY <1>2, <2>2
    <3>2. PICK x : x = [s.blk[n] EXCEPT !.prv = p]
      OBVIOUS
    <3>3. s.blk[n] \in BlkRec(D)
      BY <3>1, StoreFields
    <3>4. /\ x \in BlkRec(D) /\ x.type = s.blk[n].type /\ x.free = s.blk[n].free
          /\ x.first = s.blk[n].first /\ x.seg = s.blk[n].seg
          /\ x.nxt = s.blk[n].nxt /\ x.prv = p
      BY <1>2, <3>2, <3>3 DEF BlkRec
    <3>5. u = PutB(s, n, x)
      BY <1>3, <2>2, <3>2 DEF PutB
    <3>6. /\ u \in Store(D) /\ u.head = s.head /\ u.freep = s.freep
          /\ u.nfree = s.nfree /\ u.blkmx = s.blkmx /\ u.limit = s.limit
          /\ \A c \in Blk : u.blk[c] = IF c = n THEN x ELSE s.blk[c]
      BY <3>1, <3>4, <3>5, PutBlk
    <3> QED  BY <3>4, <3>6
  <2> QED  BY <2>1, <2>2
<1>6. CASE p = ZNULL
  BY <1>1, <1>4, <1>5, <1>6, BlkFacts
<1>7. CASE p # ZNULL
  <2>1. p \in Blk
    BY <1>2, <1>7
  <2>2. PICK x : x = [u.blk[p] EXCEPT !.nxt = n]
    OBVIOUS
  <2>3. u.blk[p] \in BlkRec(D)
    BY <1>5, <2>1, StoreFields
  <2>4. /\ x \in BlkRec(D) /\ x.type = u.blk[p].type /\ x.free = u.blk[p].free
        /\ x.first = u.blk[p].first /\ x.seg = u.blk[p].seg
        /\ x.prv = u.blk[p].prv /\ x.nxt = n
    BY <1>2, <2>2, <2>3 DEF BlkRec
  <2>5. r = PutB(u, p, x)
    BY <1>4, <1>7, <2>2 DEF PutB
  <2>6. /\ r \in Store(D) /\ r.head = u.head /\ r.freep = u.freep
        /\ r.nfree = u.nfree /\ r.blkmx = u.blkmx /\ r.limit = u.limit
        /\ \A c \in Blk : r.blk[c] = IF c = p THEN x ELSE u.blk[c]
    BY <1>5, <2>1, <2>4, <2>5, PutBlk
  <2> QED  BY <1>1, <1>5, <2>4, <2>6, SMTT(30)
<1> QED  BY <1>6, <1>7

(* A block that leaves its list for the free list.                         *)
LEMMA LeaveOK ==
  ASSUME NEW D, NEW s \in Store(D), NEW r \in Store(D), ListsOK(s),
         NEW t \in Seg, NEW b \in BlocksOf(s, t),
         r.freep = b, r.nfree = s.nfree + 1, r.blkmx = s.blkmx,
         r.limit = s.limit,
         \A u \in Seg : r.head[u] = IF u = t /\ s.head[u] = b THEN ZNULL
                                    ELSE s.head[u],
         r.blk[b].type = "free", r.blk[b].nxt = s.freep,
         \A c \in Blk \ {b} :
           /\ r.blk[c].type = s.blk[c].type
           /\ r.blk[c].nxt = IF c = s.blk[b].prv THEN s.blk[b].nxt
                             ELSE s.blk[c].nxt
           /\ r.blk[c].prv = IF c = s.blk[b].nxt THEN s.blk[b].prv
                             ELSE s.blk[c].prv
  PROVE  ListsOK(r)
<1>1. PICK n, p : n = s.blk[b].nxt /\ p = s.blk[b].prv
  OBVIOUS
<1>2. /\ b \in Blk /\ s.blk[b].type = t /\ t # "free" /\ t # "none"
      /\ FreeOK(s) /\ ListOK(s, t)
      /\ \A u \in Seg : ListOK(s, u)
  BY DEF BlocksOf, Seg, ListsOK
<1>3. \A c \in BlocksOf(s, t) :
        /\ s.blk[c].nxt = ZNULL \/
             (s.blk[c].nxt \in BlocksOf(s, t) /\ s.blk[s.blk[c].nxt].prv = c)
        /\ s.blk[c].prv = ZNULL \/
             (s.blk[c].prv \in BlocksOf(s, t) /\ s.blk[s.blk[c].prv].nxt = c)
        /\ c \in Blk
  BY <1>2 DEF ListOK, BlocksOf
<1>4. \A c \in BlocksOf(s, t) : s.blk[c].type = t /\ c # ZNULL
  BY <1>3, BlkFacts DEF BlocksOf
<1>5. /\ n = ZNULL \/ (n \in BlocksOf(s, t) /\ s.blk[n].prv = b)
      /\ p = ZNULL \/ (p \in BlocksOf(s, t) /\ s.blk[p].nxt = b)
  BY <1>1, <1>3
<1>6. FreeOK(r)
  <2>1. \A c \in Blk \ {b} : r.blk[c].type = "free" <=> s.blk[c].type = "free"
    OBVIOUS
  <2>2. \A c \in Blk \ {b} :
          s.blk[c].type = "free" => r.blk[c].nxt = s.blk[c].nxt
    BY <1>1, <1>2, <1>4, <1>5, BlkFacts
  <2> QED  BY <1>2, <2>1, <2>2, FreePush
<1>7. ASSUME NEW u \in Seg, u # t PROVE ListOK(r, u)
  <2>1. \A c \in BlocksOf(s, u) : c \in Blk /\ c # b /\ c # n /\ c # p
    BY <1>2, <1>4, <1>5, <1>7, BlkFacts DEF BlocksOf
  <2>2. \A c \in BlocksOf(s, u) : /\ r.blk[c].nxt = s.blk[c].nxt
                                  /\ r.blk[c].prv = s.blk[c].prv
    BY <1>1, <2>1
  <2>3. \A c \in Blk : r.blk[c].type = u <=> s.blk[c].type = u
    BY <1>2, <1>7 DEF Seg
  <2>4. r.head[u] = s.head[u]
    BY <1>7
  <2> QED  BY <1>2, <2>2, <2>3, <2>4, ListFrame
<1>8. ListOK(r, t)
  <2>1. BlocksOf(r, t) = BlocksOf(s, t) \ {b}
    BY <1>2 DEF BlocksOf
  <2>2. /\ s.head[t] \in BlocksOf(s, t) \cup {ZNULL}
        /\ s.head[t] # ZNULL => s.blk[s.head[t]].prv = ZNULL
    BY <1>2 DEF ListOK
  <2>3. /\ r.head[t] \in BlocksOf(r, t) \cup {ZNULL}
        /\ r.head[t] # ZNULL => r.blk[r.head[t]].prv = ZNULL
    <3>1. CASE s.head[t] = b
      BY <3>1
    <3>2. CASE s.head[t] # b
      <4>1. r.head[t] = s.head[t]
        BY <3>2
      <4>2. s.head[t] # ZNULL => s.head[t] # n /\ s.head[t] \in Blk \ {b}
        BY <1>2, <1>3, <1>4, <1>5, <2>2, <3>2, BlkFacts, ZenonT(40)
      <4> QED  BY <1>1, <2>1, <2>2, <3>2, <4>1, <4>2
    <3> QED  BY <3>1, <3>2
  <2>4. ASSUME NEW c \in BlocksOf(r, t)
        PROVE  r.blk[c].nxt = ZNULL \/ (r.blk[c].nxt \in BlocksOf(r, t)
                                         /\ r.blk[r.blk[c].nxt].prv = c)
    <3>1. c \in BlocksOf(s, t) /\ c \in Blk \ {b}
      BY <1>3, <2>1
    <3>2. CASE c = p
      <4>1. r.blk[c].nxt = n
        BY <1>1, <3>1, <3>2
      <4>2. n # ZNULL => n \in Blk \ {b} /\ n \in BlocksOf(s, t)
        BY <1>1, <1>3, <1>5, <3>1, <3>2
      <4>3. n # ZNULL => r.blk[n].prv = c
        BY <1>1, <3>2, <4>2
      <4> QED  BY <2>1, <4>1, <4>2, <4>3
    <3>3. CASE c # p
      <4>1. PICK m : m = s.blk[c].nxt
        OBVIOUS
      <4>2. r.blk[c].nxt = m
        BY <1>1, <3>1, <3>3, <4>1
      <4>3. m # ZNULL => m \in BlocksOf(s, t) /\ s.blk[m].prv = c /\ m \in Blk
        BY <1>3, <3>1, <4>1
      <4>4. m # ZNULL => m # b /\ m # n
        BY <1>1, <1>5, <3>1, <3>3, <4>3
      <4>5. m # ZNULL => r.blk[m].prv = c
        BY <1>1, <4>3, <4>4
      <4> QED  BY <2>1, <4>2, <4>3, <4>4, <4>5
    <3> QED  BY <3>2, <3>3
  <2>5. ASSUME NEW c \in BlocksOf(r, t)
        PROVE  r.blk[c].prv = ZNULL \/ (r.blk[c].prv \in BlocksOf(r, t)
                                         /\ r.blk[r.blk[c].prv].nxt = c)
    <3>1. c \in BlocksOf(s, t) /\ c \in Blk \ {b}
      BY <1>3, <2>1
    <3>2. CASE c = n
      <4>1. r.blk[c].prv = p
        BY <1>1, <3>1, <3>2
      <4>2. p # ZNULL => p \in Blk \ {b} /\ p \in BlocksOf(s, t)
        BY <1>1, <1>3, <1>5, <3>1, <3>2
      <4>3. p # ZNULL => r.blk[p].nxt = c
        BY <1>1, <3>2, <4>2
      <4> QED  BY <2>1, <4>1, <4>2, <4>3
    <3>3. CASE c # n
      <4>1. PICK m : m = s.blk[c].prv
        OBVIOUS
      <4>2. r.blk[c].prv = m
        BY <1>1, <3>1, <3>3, <4>1
      <4>3. m # ZNULL => m \in BlocksOf(s, t) /\ s.blk[m].nxt = c /\ m \in Blk
        BY <1>3, <3>1, <4>1
      <4>4. m # ZNULL => m # b /\ m # p
        BY <1>1, <1>5, <3>1, <3>3, <4>3
      <4>5. m # ZNULL => r.blk[m].nxt = c
        BY <1>1, <4>3, <4>4
      <4> QED  BY <2>1, <4>2, <4>3, <4>4, <4>5
    <3> QED  BY <3>2, <3>3
  <2> QED  BY <2>3, <2>4, <2>5 DEF ListOK
<1>9. /\ r.blkmx \in 2 .. r.limit
      /\ \A c \in Blk : c >= r.blkmx => r.blk[c].type = "none"
  <2>1. s.blkmx \in 2 .. s.limit /\ s.blkmx \in Nat
        /\ \A c \in Blk : c >= s.blkmx => s.blk[c].type = "none"
    BY StoreFields DEF ListsOK
  <2>2. b < s.blkmx
    BY <1>2, <2>1, BlkFacts
  <2> QED  BY <1>2, <2>1, <2>2
<1> QED  BY <1>6, <1>7, <1>8, <1>9 DEF ListsOK, Seg

----------------------------------------------------------------------------
(* Space.                                                                  *)

(* The addresses at which a segment is, and those of them in block b.      *)
Used(s) == {a \in Addr : SegAt(s, a) # NoSeg}
UsedIn(s, b) == {a \in Used(s) : BlkOf(a) = b}
EndOf(s, a) == OffOf(a) + ZDOVRH + SegAt(s, a).size

(* The free bytes of b are those its segments leave; its segments do not   *)
(* overlap and end before the first byte never used.                       *)
RoomOK(s, b) ==
  /\ s.blk[b].free = CAP - Filled(s, UsedIn(s, b))
  /\ s.blk[b].free + s.blk[b].first >= CAP
  /\ \A a \in UsedIn(s, b) : EndOf(s, a) <= s.blk[b].first
  /\ \A a, c \in UsedIn(s, b) : OffOf(a) < OffOf(c) => EndOf(s, a) <= OffOf(c)

(* Segments are in blocks of type t only.                                  *)
SpaceOK(s, t) ==
  /\ \A a \in Used(s) : s.blk[BlkOf(a)].type = t
  /\ \A b \in BlocksOf(s, t) : RoomOK(s, b)

(* What is known of the segments in a block.                               *)
LEMMA UsedFacts ==
  ASSUME NEW D, NEW s \in Store(D), NEW b
  PROVE  /\ UsedIn(s, b) \subseteq Used(s) /\ Used(s) \subseteq Addr
         /\ IsFiniteSet(UsedIn(s, b)) /\ IsFiniteSet(Used(s))
         /\ \A a \in Addr : SegAt(s, a).size \in 0 .. CAP /\ OffOf(a) \in Nat
         /\ Filled(s, UsedIn(s, b)) \in Nat
         /\ \A a \in UsedIn(s, b) : Filled(s, UsedIn(s, b)) =
              Filled(s, UsedIn(s, b) \ {a}) + ZDOVRH + SegAt(s, a).size
         /\ \A a \in UsedIn(s, b) : Filled(s, UsedIn(s, b) \ {a}) \in Nat
         /\ \A a \in UsedIn(s, b) : Filled(s, UsedIn(s, b) \ {a}) = 0 =>
              UsedIn(s, b) = {a}
<1>1. UsedIn(s, b) \subseteq Used(s) /\ Used(s) \subseteq Addr
  BY DEF UsedIn, Used
<1>2. IsFiniteSet(UsedIn(s, b)) /\ IsFiniteSet(Used(s))
  BY <1>1, FinitePlaces, FS_Subset
<1>3. \A a \in Addr : SegAt(s, a).size \in 0 .. CAP /\ OffOf(a) \in Nat
  <2> SUFFICES ASSUME NEW a \in Addr
               PROVE  SegAt(s, a).size \in 0 .. CAP /\ OffOf(a) \in Nat
    OBVIOUS
  <2>1. SegAt(s, a) \in SegRec(D) /\ OffOf(a) \in Offset
    BY StoreFields, AddrParts
  <2> QED  BY <2>1, BlkFacts DEF SegRec, Offset
<1> DEFINE S == UsedIn(s, b)
<1>4. \A a \in S : SegAt(s, a).size \in Nat
  BY <1>1, <1>3, BlkFacts
<1> HIDE DEF S
<1>5. /\ Filled(s, S) \in Nat
      /\ \A a \in S : Filled(s, S) =
           Filled(s, S \ {a}) + ZDOVRH + SegAt(s, a).size
  BY <1>2, <1>4, FilledStep DEF S
<1>6. \A a \in S : /\ Filled(s, S \ {a}) \in Nat
                   /\ Filled(s, S \ {a}) = 0 => S \ {a} = {}
  <2> SUFFICES ASSUME NEW a \in S
               PROVE  /\ Filled(s, S \ {a}) \in Nat
                      /\ Filled(s, S \ {a}) = 0 => S \ {a} = {}
    OBVIOUS
  <2>1. PICK R : R = S \ {a}
    OBVIOUS
  <2>2. IsFiniteSet(R)
    <3>1. R \subseteq S
      BY <2>1
    <3>2. IsFiniteSet(S)
      BY <1>2 DEF S
    <3> QED  BY <3>1, <3>2, FS_Subset
  <2>3. \A c \in R : SegAt(s, c).size \in Nat
    BY <1>4, <2>1
  <2>4. Filled(s, R) \in Nat /\ (Filled(s, R) = 0 => R = {})
    BY <2>2, <2>3, FilledStep
  <2> QED  BY <2>1, <2>4
<1> QED  BY <1>1, <1>2, <1>3, <1>5, <1>6 DEF S

(* The numbers of the space in blocks.                                     *)
LEMMA SpaceNats ==
  ASSUME NEW D, NEW s \in Store(D)
  PROVE  /\ CAP \in Nat /\ ZDOVRH \in Nat /\ ZDOVRH > 0
         /\ \A a \in Addr : /\ BlkOf(a) \in Blk /\ OffOf(a) \in Nat
                            /\ SegAt(s, a).size \in Nat
         /\ \A a \in Used(s) : a \in Addr
         /\ \A b : \A a \in UsedIn(s, b) : a \in Used(s) /\ BlkOf(a) = b
         /\ \A b \in Blk : s.blk[b].free \in Nat /\ s.blk[b].first \in Nat
                           /\ s.blk[b].free \in 0 .. CAP
         /\ \A b, t : b \in BlocksOf(s, t) => b \in Blk /\ s.blk[b].type = t
<1>1. CAP \in Nat /\ ZDOVRH \in Nat /\ ZDOVRH > 0
  BY BlkFacts
<1>2. \A a \in Addr : BlkOf(a) \in Blk /\ OffOf(a) \in Nat
  BY AddrParts DEF Offset
<1>3. \A a \in Addr : SegAt(s, a).size \in Nat
  <2> SUFFICES ASSUME NEW a \in Addr PROVE SegAt(s, a).size \in Nat
    OBVIOUS
  <2>1. SegAt(s, a) \in SegRec(D)
    BY StoreFields
  <2> QED  BY <1>1, <2>1 DEF SegRec
<1>4. \A b \in Blk : s.blk[b].free \in 0 .. CAP /\ s.blk[b].first \in 0 .. CAP
  BY StoreFields
<1> QED  BY <1>1, <1>2, <1>3, <1>4 DEF Used, UsedIn, BlocksOf

(* Blocks of which the segments, free and first stay.                      *)
LEMMA RoomFrame ==
  ASSUME NEW D, NEW s \in Store(D), NEW r \in Store(D), NEW b \in Blk,
         RoomOK(s, b), r.blk[b].free = s.blk[b].free,
         r.blk[b].first = s.blk[b].first,
         \A a \in Addr : BlkOf(a) = b => SegAt(r, a) = SegAt(s, a)
  PROVE  RoomOK(r, b) /\ UsedIn(r, b) = UsedIn(s, b)
<1>1. UsedIn(r, b) = UsedIn(s, b)
  BY DEF UsedIn, Used
<1>2. PICK S : S = UsedIn(s, b)
  OBVIOUS
<1>3. \A a \in S : a \in Addr /\ SegAt(r, a) = SegAt(s, a)
  BY <1>2 DEF UsedIn, Used
<1>4. Filled(r, S) = Filled(s, S)
  <2>1. IsFiniteSet(S) /\ \A a \in S : SegAt(s, a).size \in Nat
    BY <1>2, <1>3, UsedFacts, BlkFacts
  <2> QED  BY <1>3, <2>1, FilledSame
<1> QED  BY <1>1, <1>2, <1>3, <1>4 DEF RoomOK, EndOf

(* Blocks change their use, but no segment changes.                        *)
LEMMA SpaceSame ==
  ASSUME NEW D, NEW s \in Store(D), NEW r \in Store(D), NEW t, SpaceOK(s, t),
         \A b \in Blk : r.blk[b].seg = s.blk[b].seg,
         \A b \in BlocksOf(s, t) : /\ r.blk[b].type = t
                                   /\ r.blk[b].free = s.blk[b].free
                                   /\ r.blk[b].first = s.blk[b].first,
         \A b \in BlocksOf(r, t) \ BlocksOf(s, t) :
           r.blk[b].free = CAP /\ r.blk[b].first = 0
  PROVE  /\ SpaceOK(r, t) /\ Used(r) = Used(s)
         /\ \A a \in Addr : SegAt(r, a) = SegAt(s, a)
         /\ \A b : UsedIn(r, b) = UsedIn(s, b)
<1>1. \A a \in Addr : SegAt(r, a) = SegAt(s, a) /\ BlkOf(a) \in Blk
  BY AddrParts DEF SegAt
<1>2. Used(r) = Used(s) /\ \A b : UsedIn(r, b) = UsedIn(s, b)
  BY <1>1 DEF Used, UsedIn
<1>3. \A a \in Used(s) : a \in Addr /\ BlkOf(a) \in BlocksOf(s, t)
  BY <1>1 DEF Used, BlocksOf, SpaceOK
<1>4. ASSUME NEW b \in BlocksOf(r, t) PROVE RoomOK(r, b)
  <2>1. b \in Blk
    BY DEF BlocksOf
  <2>2. CASE b \in BlocksOf(s, t)
    <3>1. /\ RoomOK(s, b) /\ r.blk[b].free = s.blk[b].free
          /\ r.blk[b].first = s.blk[b].first
          /\ \A a \in Addr : BlkOf(a) = b => SegAt(r, a) = SegAt(s, a)
      BY <1>1, <2>2 DEF SpaceOK
    <3> QED  BY <2>1, <3>1, RoomFrame
  <2>3. CASE b \notin BlocksOf(s, t)
    <3>1. UsedIn(r, b) = {}
      BY <1>2, <1>3, <2>3 DEF UsedIn
    <3>2. Filled(r, {}) = 0
      BY FS_EmptySet, FilledStep
    <3> QED  BY <2>3, <3>1, <3>2, BlkFacts DEF RoomOK
  <2> QED  BY <2>2, <2>3
<1> QED  BY <1>1, <1>2, <1>3, <1>4 DEF SpaceOK, BlocksOf

(* A segment added behind the others of its block.                         *)
LEMMA AddRoom ==
  ASSUME NEW D, NEW s \in Store(D), NEW r \in Store(D), NEW t, SpaceOK(s, t),
         NEW b \in BlocksOf(s, t), NEW a \in Addr, BlkOf(a) = b,
         OffOf(a) = s.blk[b].first, SegAt(r, a) # NoSeg,
         \A c \in Addr \ {a} : SegAt(r, c) = SegAt(s, c),
         r.blk[b].first = EndOf(r, a),
         r.blk[b].free = s.blk[b].free - (ZDOVRH + SegAt(r, a).size),
         \A c \in Blk : r.blk[c].type = s.blk[c].type,
         \A c \in Blk \ {b} : /\ r.blk[c].free = s.blk[c].free
                              /\ r.blk[c].first = s.blk[c].first
  PROVE  /\ SpaceOK(r, t) /\ a \notin Used(s) /\ Used(r) = Used(s) \cup {a}
<1>1. PICK S : S = UsedIn(s, b)
  OBVIOUS
<1>2. PICK y, f : y = SegAt(r, a).size /\ f = s.blk[b].first
  OBVIOUS
<1>3. /\ y \in Nat /\ f \in Nat /\ ZDOVRH \in Nat /\ ZDOVRH > 0 /\ CAP \in Nat
      /\ s.blk[b].free \in Nat /\ b \in Blk /\ OffOf(a) = f
  BY <1>2, SpaceNats
<1>4. \A c \in S : /\ c \in Addr /\ BlkOf(c) = b /\ OffOf(c) \in Nat
                   /\ SegAt(s, c).size \in Nat
  BY <1>1, SpaceNats
<1>5. \A c \in S : EndOf(s, c) <= f
  BY <1>1, <1>2 DEF SpaceOK, RoomOK
<1>6. a \notin S
  BY <1>3, <1>4, <1>5 DEF EndOf
<1>7. a \notin Used(s)
  BY <1>1, <1>6 DEF UsedIn
<1>8. Used(r) = Used(s) \cup {a} /\ UsedIn(r, b) = S \cup {a}
  BY <1>1, <1>7 DEF Used, UsedIn
<1>9. Filled(r, S) = Filled(s, S) /\ Filled(s, S) \in Nat
  <2>1. IsFiniteSet(S) /\ Filled(s, S) \in Nat
    BY <1>1, UsedFacts
  <2>2. \A c \in S : SegAt(r, c).size = SegAt(s, c).size
    BY <1>4, <1>6
  <2> QED  BY <1>4, <2>1, <2>2, FilledSame
<1>10. Filled(r, UsedIn(r, b)) = Filled(s, S) + ZDOVRH + y
  <2>1. a \in UsedIn(r, b) /\ UsedIn(r, b) \ {a} = S
    BY <1>6, <1>8
  <2>2. Filled(r, UsedIn(r, b)) =
          Filled(r, UsedIn(r, b) \ {a}) + ZDOVRH + SegAt(r, a).size
    BY <2>1, UsedFacts
  <2> QED  BY <1>2, <1>9, <2>1, <2>2
<1>11. RoomOK(r, b)
  <2>1. /\ s.blk[b].free = CAP - Filled(s, S)
        /\ s.blk[b].free + f >= CAP
        /\ \A c, e \in S : OffOf(c) < OffOf(e) => EndOf(s, c) <= OffOf(e)
    BY <1>1, <1>2 DEF SpaceOK, RoomOK
  <2>2. \A c \in S : EndOf(r, c) = EndOf(s, c) /\ EndOf(s, c) \in Nat
    BY <1>3, <1>4, <1>6 DEF EndOf
  <2>3. EndOf(r, a) = f + ZDOVRH + y /\ r.blk[b].first = f + ZDOVRH + y
    BY <1>2, <1>3 DEF EndOf
  <2>4. r.blk[b].free = s.blk[b].free - (ZDOVRH + y)
    BY <1>2
  <2>5. PICK w, g : w = Filled(s, S) /\ g = s.blk[b].free
    OBVIOUS
  <2>6. /\ r.blk[b].free = CAP - Filled(r, UsedIn(r, b))
        /\ r.blk[b].free + r.blk[b].first >= CAP
    BY <1>3, <1>9, <1>10, <2>1, <2>3, <2>4, <2>5
  <2>7. \A c \in S \cup {a} : EndOf(r, c) <= f + ZDOVRH + y
    BY <1>3, <1>5, <2>2, <2>3
  <2>8. \A c, e \in S \cup {a} : OffOf(c) < OffOf(e) => EndOf(r, c) <= OffOf(e)
    <3> SUFFICES ASSUME NEW c \in S \cup {a}, NEW e \in S \cup {a},
                        OffOf(c) < OffOf(e)
                 PROVE  EndOf(r, c) <= OffOf(e)
      OBVIOUS
    <3>1. c # a
      <4>1. \A x \in S : OffOf(x) < f
        BY <1>3, <1>4, <1>5 DEF EndOf
      <4> QED  BY <1>3, <1>4, <4>1
    <3> QED  BY <1>3, <1>5, <2>1, <2>2, <3>1
  <2> QED  BY <1>8, <2>3, <2>6, <2>7, <2>8 DEF RoomOK
<1>12. ASSUME NEW c \in BlocksOf(r, t) PROVE RoomOK(r, c)
  <2>1. CASE c = b
    BY <1>11, <2>1
  <2>2. CASE c # b
    <3>1. /\ c \in Blk /\ RoomOK(s, c) /\ r.blk[c].free = s.blk[c].free
          /\ r.blk[c].first = s.blk[c].first
          /\ \A e \in Addr : BlkOf(e) = c => SegAt(r, e) = SegAt(s, e)
      BY <2>2 DEF SpaceOK, BlocksOf
    <3> QED  BY <3>1, RoomFrame
  <2> QED  BY <2>1, <2>2
<1>13. \A c \in Used(r) : r.blk[BlkOf(c)].type = t
  <2>1. \A c \in Used(s) : c \in Addr /\ BlkOf(c) \in Blk
                           /\ s.blk[BlkOf(c)].type = t
    BY AddrParts DEF Used, SpaceOK
  <2> QED  BY <1>3, <1>8, <2>1 DEF BlocksOf
<1> QED  BY <1>7, <1>8, <1>12, <1>13 DEF SpaceOK

(* A segment cut, or one of which only the link or the data changes.       *)
LEMMA CutRoom ==
  ASSUME NEW D, NEW s \in Store(D), NEW r \in Store(D), NEW t, SpaceOK(s, t),
         NEW a \in Used(s), SegAt(r, a) # NoSeg,
         SegAt(r, a).size <= SegAt(s, a).size,
         \A c \in Addr \ {a} : SegAt(r, c) = SegAt(s, c),
         r.blk[BlkOf(a)].free =
           s.blk[BlkOf(a)].free + SegAt(s, a).size - SegAt(r, a).size,
         \A c \in Blk : /\ r.blk[c].type = s.blk[c].type
                        /\ r.blk[c].first = s.blk[c].first,
         \A c \in Blk \ {BlkOf(a)} : r.blk[c].free = s.blk[c].free
  PROVE  SpaceOK(r, t) /\ Used(r) = Used(s)
<1>1. PICK b, y, z, S : /\ b = BlkOf(a) /\ y = SegAt(r, a).size
                        /\ z = SegAt(s, a).size /\ S = UsedIn(s, b)
  OBVIOUS
<1>2. /\ a \in Addr /\ b \in Blk /\ y \in Nat /\ z \in Nat /\ y <= z
      /\ ZDOVRH \in Nat /\ CAP \in Nat /\ s.blk[b].free \in Nat
      /\ s.blk[b].first \in Nat /\ s.blk[b].type = t /\ a \in S
      /\ \A c \in S : c \in Addr /\ SegAt(s, c).size \in Nat /\ OffOf(c) \in Nat
  BY <1>1, SpaceNats DEF UsedIn, SpaceOK
<1>3. Used(r) = Used(s)
  BY <1>2 DEF Used
<1>4. UsedIn(r, b) = S
  BY <1>1, <1>3 DEF UsedIn
<1>5. PICK w : w = Filled(s, S \ {a})
  OBVIOUS
<1>6. w \in Nat /\ Filled(s, S) = w + ZDOVRH + z
  BY <1>1, <1>2, <1>5, UsedFacts
<1>7. Filled(r, S \ {a}) = w
  <2>1. PICK R : R = S \ {a}
    OBVIOUS
  <2>2. IsFiniteSet(R)
    <3>1. R \subseteq S /\ IsFiniteSet(S)
      BY <1>1, <2>1, UsedFacts
    <3> QED  BY <3>1, FS_Subset
  <2>3. \A c \in R : /\ SegAt(s, c).size \in Nat
                     /\ SegAt(r, c).size = SegAt(s, c).size
    BY <1>2, <2>1
  <2>4. Filled(r, R) = Filled(s, R)
    BY <2>2, <2>3, FilledSame
  <2> QED  BY <1>5, <2>1, <2>4
<1>8. Filled(r, S) = w + ZDOVRH + y
  <2>1. a \in UsedIn(r, b)
    BY <1>2, <1>4
  <2>2. Filled(r, UsedIn(r, b)) =
          Filled(r, UsedIn(r, b) \ {a}) + ZDOVRH + SegAt(r, a).size
    BY <2>1, UsedFacts
  <2> QED  BY <1>1, <1>4, <1>7, <2>2
<1>9. RoomOK(r, b)
  <2>1. /\ s.blk[b].free = CAP - Filled(s, S)
        /\ s.blk[b].free + s.blk[b].first >= CAP
        /\ \A c \in S : EndOf(s, c) <= s.blk[b].first
        /\ \A c, e \in S : OffOf(c) < OffOf(e) => EndOf(s, c) <= OffOf(e)
    BY <1>1, <1>2 DEF SpaceOK, RoomOK, BlocksOf
  <2>2. \A c \in S : EndOf(r, c) <= EndOf(s, c) /\ EndOf(s, c) \in Nat
                     /\ EndOf(r, c) \in Nat
    <3> SUFFICES ASSUME NEW c \in S
                 PROVE  EndOf(r, c) <= EndOf(s, c) /\ EndOf(s, c) \in Nat
                        /\ EndOf(r, c) \in Nat
      OBVIOUS
    <3>1. CASE c = a
      BY <1>1, <1>2, <3>1 DEF EndOf
    <3>2. CASE c # a
      BY <1>2, <3>2 DEF EndOf
    <3> QED  BY <3>1, <3>2
  <2>3. r.blk[b].free = s.blk[b].free + z - y /\ r.blk[b].first = s.blk[b].first
    BY <1>1, <1>2
  <2>4. /\ r.blk[b].free = CAP - Filled(r, S)
        /\ r.blk[b].free + r.blk[b].first >= CAP
    BY <1>2, <1>6, <1>8, <2>1, <2>3
  <2>5. \A c \in S : EndOf(r, c) <= r.blk[b].first
    <3> SUFFICES ASSUME NEW c \in S PROVE EndOf(r, c) <= r.blk[b].first
      OBVIOUS
    <3>1. PICK u, v : u = EndOf(r, c) /\ v = EndOf(s, c)
      OBVIOUS
    <3> QED  BY <1>2, <2>1, <2>2, <2>3, <3>1
  <2>6. \A c, e \in S : OffOf(c) < OffOf(e) => EndOf(r, c) <= OffOf(e)
    <3> SUFFICES ASSUME NEW c \in S, NEW e \in S, OffOf(c) < OffOf(e)
                 PROVE  EndOf(r, c) <= OffOf(e)
      OBVIOUS
    <3>1. EndOf(s, c) <= OffOf(e)
      BY <2>1
    <3>2. PICK u, v : u = EndOf(r, c) /\ v = EndOf(s, c)
      OBVIOUS
    <3> QED  BY <1>2, <2>2, <3>1, <3>2
  <2> QED  BY <1>4, <2>4, <2>5, <2>6 DEF RoomOK
<1>10. ASSUME NEW c \in BlocksOf(r, t) PROVE RoomOK(r, c)
  <2>1. CASE c = b
    BY <1>9, <2>1
  <2>2. CASE c # b
    <3>1. /\ c \in Blk /\ RoomOK(s, c) /\ r.blk[c].free = s.blk[c].free
          /\ r.blk[c].first = s.blk[c].first
          /\ \A e \in Addr : BlkOf(e) = c => SegAt(r, e) = SegAt(s, e)
      BY <1>1, <2>2 DEF SpaceOK, BlocksOf
    <3> QED  BY <3>1, RoomFrame
  <2> QED  BY <2>1, <2>2
<1>11. \A c \in Used(s) : c \in Addr /\ BlkOf(c) \in Blk
                          /\ s.blk[BlkOf(c)].type = t
  BY AddrParts DEF Used, SpaceOK
<1> QED  BY <1>3, <1>10, <1>11 DEF SpaceOK

(* The bytes of the block of a segment once the segment is gone.           *)
LEMMA FreedIs ==
  ASSUME NEW D, NEW s \in Store(D), NEW t, SpaceOK(s, t), NEW a \in Used(s)
  PROVE  /\ FreedTo(s, a) = CAP - Filled(s, UsedIn(s, BlkOf(a)) \ {a})
         /\ FreedTo(s, a) \in 0 .. CAP
         /\ FreedTo(s, a) = s.blk[BlkOf(a)].free + SegAt(s, a).size + ZDOVRH
         /\ FreedTo(s, a) = CAP => UsedIn(s, BlkOf(a)) = {a}
         /\ BlkOf(a) \in BlocksOf(s, t)
         /\ FreedTo(s, a) # CAP => UsedIn(s, BlkOf(a)) # {a}
<1>1. PICK b, z, S : /\ b = BlkOf(a) /\ z = SegAt(s, a).size
                     /\ S = UsedIn(s, b)
  OBVIOUS
<1>2. /\ a \in Addr /\ b \in Blk /\ z \in Nat /\ b \in BlocksOf(s, t)
      /\ ZDOVRH \in Nat /\ CAP \in Nat /\ s.blk[b].free \in 0 .. CAP
      /\ a \in S /\ BlkOf(a) \in BlocksOf(s, t)
  <2>1. a \in Addr /\ b \in Blk /\ a \in S
    BY <1>1, SpaceNats DEF UsedIn
  <2>2. b \in BlocksOf(s, t)
    BY <1>1, <2>1 DEF SpaceOK, BlocksOf
  <2> QED  BY <1>1, <2>1, <2>2, SpaceNats
<1>3. PICK w : w = Filled(s, S \ {a})
  OBVIOUS
<1>4. w \in Nat /\ Filled(s, S) = w + ZDOVRH + z /\ (w = 0 => S = {a})
  BY <1>1, <1>2, <1>3, UsedFacts
<1>5. s.blk[b].free = CAP - Filled(s, S)
  BY <1>1, <1>2 DEF SpaceOK, RoomOK
<1>6. FreedTo(s, a) = s.blk[b].free + z + ZDOVRH
  BY <1>1 DEF FreedTo
<1>7. S = {a} => w = 0
  <2>1. Filled(s, {}) = 0
    BY FS_EmptySet, FilledStep
  <2> QED  BY <1>3, <2>1
<1> QED  BY <1>1, <1>2, <1>3, <1>4, <1>5, <1>6, <1>7

(* A segment deleted; its block may leave with it.                         *)
LEMMA DropRoom ==
  ASSUME NEW D, NEW s \in Store(D), NEW r \in Store(D), NEW t, SpaceOK(s, t),
         NEW a \in Used(s), SegAt(r, a) = NoSeg,
         \A c \in Addr \ {a} : SegAt(r, c) = SegAt(s, c),
         \/ FreedTo(s, a) = CAP /\ r.blk[BlkOf(a)].type # t
         \/ /\ r.blk[BlkOf(a)].free = FreedTo(s, a)
            /\ r.blk[BlkOf(a)].first = s.blk[BlkOf(a)].first
            /\ r.blk[BlkOf(a)].type = s.blk[BlkOf(a)].type,
         \A c \in Blk \ {BlkOf(a)} : /\ r.blk[c].type = s.blk[c].type
                                     /\ r.blk[c].free = s.blk[c].free
                                     /\ r.blk[c].first = s.blk[c].first
  PROVE  SpaceOK(r, t) /\ Used(r) = Used(s) \ {a}
<1>1. PICK b, S : b = BlkOf(a) /\ S = UsedIn(s, b)
  OBVIOUS
<1>2. /\ a \in Addr /\ b \in BlocksOf(s, t) /\ a \in S /\ b \in Blk
      /\ s.blk[b].free \in Nat /\ s.blk[b].first \in Nat /\ CAP \in Nat
      /\ ZDOVRH \in Nat /\ SegAt(s, a).size \in Nat
      /\ \A c \in S : c \in Addr /\ SegAt(s, c).size \in Nat /\ OffOf(c) \in Nat
  <2>1. a \in Addr /\ a \in S
    BY <1>1, SpaceNats DEF UsedIn
  <2>2. b \in BlocksOf(s, t)
    BY <1>1, FreedIs
  <2> QED  BY <1>1, <2>1, <2>2, SpaceNats
<1>3. Used(r) = Used(s) \ {a}
  BY <1>2 DEF Used
<1>4. UsedIn(r, b) = S \ {a}
  BY <1>1, <1>3 DEF UsedIn
<1>5. ASSUME r.blk[b].type = t PROVE RoomOK(r, b)
  <2>1. /\ r.blk[b].free = FreedTo(s, a) /\ r.blk[b].first = s.blk[b].first
    BY <1>1, <1>5
  <2>2. FreedTo(s, a) = CAP - Filled(s, S \ {a})
    BY <1>1, FreedIs
  <2>3. Filled(r, S \ {a}) = Filled(s, S \ {a})
    <3>1. PICK R : R = S \ {a}
      OBVIOUS
    <3>2. IsFiniteSet(R)
      <4>1. R \subseteq S /\ IsFiniteSet(S)
        BY <1>1, <3>1, UsedFacts
      <4> QED  BY <4>1, FS_Subset
    <3>3. \A c \in R : /\ SegAt(s, c).size \in Nat
                       /\ SegAt(r, c).size = SegAt(s, c).size
      BY <1>2, <3>1
    <3>4. Filled(r, R) = Filled(s, R)
      BY <3>2, <3>3, FilledSame
    <3> QED  BY <3>1, <3>4
  <2>4. /\ s.blk[b].free + s.blk[b].first >= CAP
        /\ \A c \in S : EndOf(s, c) <= s.blk[b].first
        /\ \A c, e \in S : OffOf(c) < OffOf(e) => EndOf(s, c) <= OffOf(e)
    BY <1>1, <1>2 DEF SpaceOK, RoomOK
  <2>5. \A c \in S \ {a} : EndOf(r, c) = EndOf(s, c)
    BY <1>2 DEF EndOf
  <2>6. FreedTo(s, a) >= s.blk[b].free /\ FreedTo(s, a) \in Nat
    <3>1. PICK f, z, g : /\ f = FreedTo(s, a) /\ z = SegAt(s, a).size
                         /\ g = s.blk[b].free
      OBVIOUS
    <3>2. f = g + z + ZDOVRH
      BY <1>1, <3>1, FreedIs
    <3> QED  BY <1>2, <3>1, <3>2
  <2>7. r.blk[b].free + r.blk[b].first >= CAP
    BY <1>2, <2>1, <2>4, <2>6
  <2> QED  BY <1>4, <2>1, <2>2, <2>3, <2>4, <2>5, <2>7 DEF RoomOK
<1>6. ASSUME NEW c \in BlocksOf(r, t) PROVE RoomOK(r, c)
  <2>1. CASE c = b
    BY <1>5, <2>1 DEF BlocksOf
  <2>2. CASE c # b
    <3>1. /\ c \in Blk /\ RoomOK(s, c) /\ r.blk[c].free = s.blk[c].free
          /\ r.blk[c].first = s.blk[c].first
          /\ \A e \in Addr : BlkOf(e) = c => SegAt(r, e) = SegAt(s, e)
      BY <1>1, <2>2 DEF SpaceOK, BlocksOf
    <3> QED  BY <3>1, RoomFrame
  <2> QED  BY <2>1, <2>2
<1>7. ASSUME NEW c \in Used(r) PROVE r.blk[BlkOf(c)].type = t
  <2>1. /\ c \in Used(s) /\ c # a /\ c \in Addr /\ BlkOf(c) \in Blk
        /\ s.blk[BlkOf(c)].type = t
    BY <1>3, AddrParts DEF Used, SpaceOK
  <2>2. BlkOf(c) = b => r.blk[b].type = s.blk[b].type
    <3> SUFFICES ASSUME BlkOf(c) = b, FreedTo(s, a) = CAP PROVE FALSE
      BY <1>1
    <3>1. S = {a}
      <4>1. s \in Store(D) /\ SpaceOK(s, t) /\ a \in Used(s)
        OBVIOUS
      <4>2. FreedTo(s, a) = CAP => UsedIn(s, BlkOf(a)) = {a}
        BY <4>1, FreedIs, Zenon
      <4> QED  BY <1>1, <4>2
    <3> QED  BY <1>1, <2>1, <3>1 DEF UsedIn
  <2> QED  BY <1>1, <2>1, <2>2
<1> QED  BY <1>3, <1>6, <1>7 DEF SpaceOK

----------------------------------------------------------------------------
(* insdat, deldat and the changes of one segment.                          *)

(* What the lists see stays.                                               *)
SameLists(s, r) ==
  /\ r.freep = s.freep /\ r.nfree = s.nfree /\ r.blkmx = s.blkmx
  /\ r.limit = s.limit /\ r.head = s.head
  /\ \A c \in Blk : /\ r.blk[c].type = s.blk[c].type
                    /\ r.blk[c].nxt = s.blk[c].nxt
                    /\ r.blk[c].prv = s.blk[c].prv

(* The lists are sound as they were.                                       *)
LEMMA ListsFrame ==
  ASSUME NEW D, NEW s \in Store(D), NEW r \in Store(D), ListsOK(s),
         SameLists(s, r)
  PROVE  ListsOK(r)
<1>1. FreeOK(r)
  <2>1. /\ FreeOK(s) /\ r.freep = s.freep /\ r.nfree = s.nfree
        /\ \A b \in Blk : r.blk[b].type = "free" <=> s.blk[b].type = "free"
        /\ \A b \in Blk : s.blk[b].type = "free" => r.blk[b].nxt = s.blk[b].nxt
    BY DEF SameLists, ListsOK
  <2> QED  BY <2>1, FreeFrame
<1>2. ASSUME NEW t \in Seg PROVE ListOK(r, t)
  <2>1. /\ ListOK(s, t) /\ r.head[t] = s.head[t]
        /\ \A b \in Blk : r.blk[b].type = t <=> s.blk[b].type = t
        /\ \A b \in BlocksOf(s, t) : /\ r.blk[b].nxt = s.blk[b].nxt
                                     /\ r.blk[b].prv = s.blk[b].prv
    BY DEF SameLists, ListsOK, Seg, BlocksOf
  <2> QED  BY <2>1, ListFrame
<1>3. /\ r.blkmx \in 2 .. r.limit
      /\ \A b \in Blk : b >= r.blkmx => r.blk[b].type = "none"
  BY DEF SameLists, ListsOK
<1> QED  BY <1>1, <1>2, <1>3 DEF ListsOK, Seg

(* The fields insdat changes.                                              *)
LEMMA InsDatFields ==
  ASSUME NEW D, NEW s \in Store(D), NEW t \in Seg, s.head[t] \in Blk,
         NEW size \in Nat, NEW data \in D, NEW next \in Addr \cup {0},
         s.blk[s.head[t]].first + ZDOVRH + size <= CAP,
         s.blk[s.head[t]].free >= ZDOVRH + size,
         NEW r, r = InsDat(s, t, size, data, next)
  PROVE  /\ r \in Store(D) /\ SameLists(s, r)
         /\ \A c \in Blk \ {s.head[t]} : r.blk[c] = s.blk[c]
         /\ InsAddr(s, t) \in Addr /\ BlkOf(InsAddr(s, t)) = s.head[t]
         /\ OffOf(InsAddr(s, t)) = s.blk[s.head[t]].first
         /\ SegAt(r, InsAddr(s, t)) = [size |-> size, next |-> next, data |-> data]
         /\ \A a \in Addr \ {InsAddr(s, t)} : SegAt(r, a) = SegAt(s, a)
         /\ r.blk[s.head[t]].first = s.blk[s.head[t]].first + ZDOVRH + size
         /\ r.blk[s.head[t]].free = s.blk[s.head[t]].free - (ZDOVRH + size)
<1>1. PICK b, o, x : /\ b = s.head[t] /\ o = s.blk[b].first
                     /\ x = [size |-> size, next |-> next, data |-> data]
  OBVIOUS
<1>2. /\ b \in Blk /\ s.blk[b] \in BlkRec(D) /\ CAP \in Nat /\ ZDOVRH \in Nat
      /\ ZDOVRH > 0 /\ o \in 0 .. CAP /\ s.blk[b].free \in 0 .. CAP
      /\ s.blk[b].seg \in [Offset -> SegRec(D)]
  <2>1. b \in Blk
    BY <1>1
  <2> QED  BY <1>1, <2>1, StoreFields, BlkFacts
<1>3. /\ o \in Offset /\ size \in 0 .. CAP /\ o + ZDOVRH + size \in 0 .. CAP
      /\ s.blk[b].free - (ZDOVRH + size) \in 0 .. CAP
  <2>1. PICK g : g = s.blk[b].free
    OBVIOUS
  <2>2. o + ZDOVRH + size <= CAP /\ g >= ZDOVRH + size
    BY <1>1, <2>1
  <2> QED  BY <1>2, <2>1, <2>2 DEF Offset
<1>4. x \in SegRec(D)
  BY <1>1, <1>3 DEF SegRec
<1>5. PICK y : y = [s.blk[b] EXCEPT !.seg[o] = x, !.first = o + ZDOVRH + size,
                      !.free = s.blk[b].free - (ZDOVRH + size)]
  OBVIOUS
<1>6. /\ y \in BlkRec(D) /\ y.type = s.blk[b].type /\ y.nxt = s.blk[b].nxt
      /\ y.prv = s.blk[b].prv /\ y.first = o + ZDOVRH + size
      /\ y.free = s.blk[b].free - (ZDOVRH + size)
      /\ y.seg = [s.blk[b].seg EXCEPT ![o] = x]
  BY <1>2, <1>3, <1>4, <1>5 DEF BlkRec
<1>7. r = PutB(s, b, y)
  <2>1. r = [s EXCEPT !.blk[b] = y]
    BY <1>1, <1>5 DEF InsDat
  <2> QED  BY <2>1 DEF PutB
<1>8. /\ r \in Store(D) /\ r.head = s.head /\ r.freep = s.freep
      /\ r.nfree = s.nfree /\ r.blkmx = s.blkmx /\ r.limit = s.limit
      /\ \A c \in Blk : r.blk[c] = IF c = b THEN y ELSE s.blk[c]
  <2>1. s \in Store(D) /\ b \in Blk /\ y \in BlkRec(D) /\ r = PutB(s, b, y)
    BY <1>2, <1>6, <1>7
  <2> QED  BY <2>1, PutBlk
<1>9. SameLists(s, r)
  BY <1>6, <1>8 DEF SameLists
<1>10. PICK a : a = InsAddr(s, t)
  OBVIOUS
<1>11. a \in Addr /\ BlkOf(a) = b /\ OffOf(a) = o
  BY <1>1, <1>2, <1>3, <1>10, AddrOfParts, SMTT(30) DEF InsAddr, Addr
<1>12. SegAt(r, a) = x
  BY <1>2, <1>3, <1>6, <1>8, <1>11 DEF SegAt
<1>13. ASSUME NEW c \in Addr \ {a} PROVE SegAt(r, c) = SegAt(s, c)
  <2>1. BlkOf(c) \in Blk /\ OffOf(c) \in Offset
    BY AddrParts
  <2>2. BlkOf(c) # b \/ OffOf(c) # o
    BY <1>11, AddrUnique
  <2>3. CASE BlkOf(c) = b
    BY <1>2, <1>3, <1>6, <1>8, <2>1, <2>2, <2>3 DEF SegAt
  <2>4. CASE BlkOf(c) # b
    BY <1>8, <2>1, <2>4 DEF SegAt
  <2> QED  BY <2>3, <2>4
<1> QED  BY <1>1, <1>6, <1>8, <1>9, <1>10, <1>11, <1>12, <1>13

(* One segment and nothing else.                                           *)
LEMMA SetSegFields ==
  ASSUME NEW D, NEW s \in Store(D), NEW a \in Addr, NEW x \in SegRec(D),
         NEW r, r = SetSeg(s, a, x)
  PROVE  /\ r \in Store(D) /\ SameLists(s, r)
         /\ \A c \in Blk : /\ r.blk[c].free = s.blk[c].free
                           /\ r.blk[c].first = s.blk[c].first
         /\ SegAt(r, a) = x
         /\ \A c \in Addr \ {a} : SegAt(r, c) = SegAt(s, c)
<1>1. PICK b, o : b = BlkOf(a) /\ o = OffOf(a)
  OBVIOUS
<1>2. /\ b \in Blk /\ o \in Offset /\ s.blk[b] \in BlkRec(D)
      /\ s.blk[b].seg \in [Offset -> SegRec(D)]
  BY <1>1, AddrParts, StoreFields
<1>3. PICK y : y = [s.blk[b] EXCEPT !.seg[o] = x]
  OBVIOUS
<1>4. /\ y \in BlkRec(D) /\ y.type = s.blk[b].type /\ y.nxt = s.blk[b].nxt
      /\ y.prv = s.blk[b].prv /\ y.first = s.blk[b].first
      /\ y.free = s.blk[b].free /\ y.seg = [s.blk[b].seg EXCEPT ![o] = x]
  BY <1>2, <1>3 DEF BlkRec
<1>5. r = PutB(s, b, y)
  BY <1>1, <1>3 DEF SetSeg, PutB
<1>6. /\ r \in Store(D) /\ r.head = s.head /\ r.freep = s.freep
      /\ r.nfree = s.nfree /\ r.blkmx = s.blkmx /\ r.limit = s.limit
      /\ \A c \in Blk : r.blk[c] = IF c = b THEN y ELSE s.blk[c]
  BY <1>2, <1>4, <1>5, PutBlk
<1>7. SameLists(s, r)
  BY <1>4, <1>6 DEF SameLists
<1>8. SegAt(r, a) = x
  BY <1>1, <1>2, <1>4, <1>6 DEF SegAt
<1>9. ASSUME NEW c \in Addr \ {a} PROVE SegAt(r, c) = SegAt(s, c)
  <2>1. BlkOf(c) \in Blk /\ OffOf(c) \in Offset
    BY AddrParts
  <2>2. BlkOf(c) # b \/ OffOf(c) # o
    BY <1>1, AddrUnique
  <2>3. CASE BlkOf(c) = b
    BY <1>2, <1>4, <1>6, <2>1, <2>2, <2>3 DEF SegAt
  <2>4. CASE BlkOf(c) # b
    BY <1>6, <2>1, <2>4 DEF SegAt
  <2> QED  BY <2>3, <2>4
<1> QED  BY <1>4, <1>6, <1>7, <1>8, <1>9

(* The count of free bytes and nothing else.                               *)
SetFree(s, b, f) == [s EXCEPT !.blk[b].free = f]

LEMMA SetFreeFields ==
  ASSUME NEW D, NEW s \in Store(D), NEW b \in Blk, NEW f \in 0 .. CAP
  PROVE  /\ SetFree(s, b, f) \in Store(D) /\ SameLists(s, SetFree(s, b, f))
         /\ \A c \in Blk :
              /\ SetFree(s, b, f).blk[c].free = IF c = b THEN f
                                                ELSE s.blk[c].free
              /\ SetFree(s, b, f).blk[c].first = s.blk[c].first
              /\ SetFree(s, b, f).blk[c].seg = s.blk[c].seg
         /\ \A a \in Addr : SegAt(SetFree(s, b, f), a) = SegAt(s, a)
<1>1. PICK r, y : r = SetFree(s, b, f) /\ y = [s.blk[b] EXCEPT !.free = f]
  OBVIOUS
<1>2. s.blk[b] \in BlkRec(D)
  BY StoreFields
<1>3. /\ y \in BlkRec(D) /\ y.type = s.blk[b].type /\ y.nxt = s.blk[b].nxt
      /\ y.prv = s.blk[b].prv /\ y.first = s.blk[b].first /\ y.free = f
      /\ y.seg = s.blk[b].seg
  BY <1>1, <1>2 DEF BlkRec
<1>4. r = PutB(s, b, y)
  BY <1>1 DEF PutB, SetFree
<1>5. /\ r \in Store(D) /\ r.head = s.head /\ r.freep = s.freep
      /\ r.nfree = s.nfree /\ r.blkmx = s.blkmx /\ r.limit = s.limit
      /\ \A c \in Blk : r.blk[c] = IF c = b THEN y ELSE s.blk[c]
  BY <1>3, <1>4, PutBlk
<1>6. SameLists(s, r)
  BY <1>3, <1>5 DEF SameLists
<1>7. \A a \in Addr : SegAt(r, a) = SegAt(s, a)
  BY <1>3, <1>5, AddrParts DEF SegAt
<1> QED  BY <1>1, <1>3, <1>5, <1>6, <1>7

(* deldat of a segment of a sound store, and the segment forgotten.        *)
LEMMA DelDatOK ==
  ASSUME NEW D, NoSeg \in SegRec(D), NEW s \in Store(D), ListsOK(s),
         NEW t \in Seg, SpaceOK(s, t), NEW a \in Used(s),
         NEW r, r = SetSeg(DelDat(s, a), a, NoSeg),
         NEW b, b = BlkOf(a), NEW gone, gone = (FreedTo(s, a) = CAP)
  PROVE  /\ r \in Store(D) /\ ListsOK(r) /\ SpaceOK(r, t)
         /\ Used(r) = Used(s) \ {a} /\ DelDatErr(s, a) = "OK"
         /\ \A c \in Addr \ {a} : SegAt(r, c) = SegAt(s, c)
         /\ b \in BlocksOf(s, t) /\ gone \in BOOLEAN
         /\ gone => UsedIn(s, b) = {a}
         /\ ~gone => UsedIn(s, b) # {a}
         /\ \A u \in Seg : r.head[u] = IF gone /\ u = t /\ s.head[u] = b
                                       THEN ZNULL ELSE s.head[u]
         /\ \A c \in Blk :
              /\ r.blk[c].type = IF gone /\ c = b THEN "free" ELSE s.blk[c].type
              /\ c # b => r.blk[c].first = s.blk[c].first
              /\ c # b => r.blk[c].nxt = IF gone /\ c = s.blk[b].prv
                                         THEN s.blk[b].nxt ELSE s.blk[c].nxt
              /\ ~gone => r.blk[c].nxt = s.blk[c].nxt
<1>1. PICK f : f = FreedTo(s, a)
  OBVIOUS
<1>2. /\ f \in 0 .. CAP /\ b \in BlocksOf(s, t) /\ b \in Blk /\ a \in Addr
      /\ f = CAP => UsedIn(s, b) = {a}
      /\ f # CAP => UsedIn(s, b) # {a}
      /\ s.blk[b].type = t
  BY <1>1, FreedIs DEF Used, BlocksOf
<1>3. DelDatErr(s, a) = "OK"
  BY <1>1, <1>2 DEF DelDatErr
<1>4. PICK u : u = SetFree(s, b, f)
  OBVIOUS
<1>5. /\ u \in Store(D) /\ SameLists(s, u)
      /\ \A c \in Blk : /\ u.blk[c].free = IF c = b THEN f ELSE s.blk[c].free
                        /\ u.blk[c].first = s.blk[c].first
                        /\ u.blk[c].seg = s.blk[c].seg
      /\ \A c \in Addr : SegAt(u, c) = SegAt(s, c)
  BY <1>2, <1>4, SetFreeFields
<1>6. CASE ~gone
  <2>1. f # CAP
    BY <1>1, <1>6
  <2>2. DelDat(s, a) = u
    BY <1>1, <1>2, <1>4, <2>1 DEF DelDat, SetFree
  <2>3. r = SetSeg(u, a, NoSeg)
    BY <2>2
  <2>4. /\ r \in Store(D) /\ SameLists(u, r)
        /\ \A c \in Blk : /\ r.blk[c].free = u.blk[c].free
                          /\ r.blk[c].first = u.blk[c].first
        /\ SegAt(r, a) = NoSeg
        /\ \A c \in Addr \ {a} : SegAt(r, c) = SegAt(u, c)
    BY <1>2, <1>5, <2>3, SetSegFields
  <2>5. SameLists(s, r)
    BY <1>5, <2>4 DEF SameLists
  <2>6. ListsOK(r)
    BY <2>4, <2>5, ListsFrame
  <2>7. SpaceOK(r, t) /\ Used(r) = Used(s) \ {a}
    <3>1. /\ SegAt(r, a) = NoSeg
          /\ \A c \in Addr \ {a} : SegAt(r, c) = SegAt(s, c)
          /\ r.blk[BlkOf(a)].free = FreedTo(s, a)
          /\ r.blk[BlkOf(a)].first = s.blk[BlkOf(a)].first
          /\ r.blk[BlkOf(a)].type = s.blk[BlkOf(a)].type
          /\ \A c \in Blk \ {BlkOf(a)} : /\ r.blk[c].type = s.blk[c].type
                                         /\ r.blk[c].free = s.blk[c].free
                                         /\ r.blk[c].first = s.blk[c].first
      BY <1>1, <1>2, <1>5, <2>4, <2>5 DEF SameLists
    <3> QED  BY <2>4, <3>1, DropRoom
  <2> QED  BY <1>1, <1>2, <1>3, <1>5, <1>6, <2>4, <2>5, <2>6, <2>7, ZenonT(40) DEF SameLists
<1>7. CASE gone
  <2>1. f = CAP
    BY <1>1, <1>7
  <2>2. u.blk[b].prv # 0 /\ u.blk[b].prv = s.blk[b].prv
        /\ u.blk[b].nxt = s.blk[b].nxt
    <3>1. s.blk[b].prv \in BlocksOf(s, t) \cup {ZNULL}
      BY <1>2 DEF ListsOK, ListOK, Seg
    <3>2. s.blk[b].prv # 0
      BY <3>1, BlkFacts DEF BlocksOf, ZNULL
    <3> QED  BY <1>2, <1>5, <3>2 DEF SameLists
  <2>3. PICK v : v = Unlinked(u, b)
    OBVIOUS
  <2>4. /\ v \in Store(D) /\ v.freep = u.freep /\ v.nfree = u.nfree
        /\ v.blkmx = u.blkmx /\ v.limit = u.limit /\ v.head = u.head
        /\ \A c \in Blk :
             /\ v.blk[c].type = u.blk[c].type /\ v.blk[c].free = u.blk[c].free
             /\ v.blk[c].first = u.blk[c].first /\ v.blk[c].seg = u.blk[c].seg
             /\ v.blk[c].nxt = IF c = u.blk[b].prv THEN u.blk[b].nxt
                               ELSE u.blk[c].nxt
             /\ v.blk[c].prv = IF c = u.blk[b].nxt THEN u.blk[b].prv
                               ELSE u.blk[c].prv
    BY <1>2, <1>5, <2>2, <2>3, UnlinkedFields
  <2>5. PICK w : w = MakeFree(v, b)
    OBVIOUS
  <2>6. /\ w \in Store(D) /\ w.freep = b /\ w.nfree = v.nfree + 1
        /\ w.blkmx = v.blkmx /\ w.limit = v.limit
        /\ w.head = IF v.blk[b].type = "dup" /\ v.head["dup"] = b
                    THEN [v.head EXCEPT !["dup"] = ZNULL] ELSE v.head
        /\ \A c \in Blk :
             /\ w.blk[c].type = IF c = b THEN "free" ELSE v.blk[c].type
             /\ w.blk[c].free = IF c = b THEN 0 ELSE v.blk[c].free
             /\ w.blk[c].first = IF c = b THEN 0 ELSE v.blk[c].first
             /\ w.blk[c].seg = v.blk[c].seg
             /\ w.blk[c].nxt = IF c = b THEN v.freep ELSE v.blk[c].nxt
             /\ w.blk[c].prv = IF c = b THEN 0 ELSE v.blk[c].prv
    BY <1>2, <2>4, <2>5, MakeFreeFields
  <2>7. PICK h : h = IF w.head["data"] = b THEN ZNULL ELSE w.head["data"]
    OBVIOUS
  <2>8. h \in Blk \cup {ZNULL}
    BY <2>6, <2>7, StoreFields DEF Seg
  <2>9. PICK x : x = PutH(w, "data", h)
    OBVIOUS
  <2>10. DelDat(s, a) = x
    <3>1. u = [s EXCEPT !.blk[b].free = f]
      BY <1>4 DEF SetFree
    <3>2. DelDat(s, a) = [w EXCEPT !.head["data"] = IF @ = b THEN ZNULL ELSE @]
      BY <1>1, <2>1, <2>3, <2>5, <3>1 DEF DelDat
    <3> QED  BY <2>7, <2>9, <3>2 DEF PutH
  <2>11. /\ x \in Store(D) /\ x.head = [w.head EXCEPT !["data"] = h]
         /\ x.blk = w.blk /\ x.freep = w.freep /\ x.nfree = w.nfree
         /\ x.blkmx = w.blkmx /\ x.limit = w.limit
    BY <2>6, <2>8, <2>9, PutHead DEF Seg
  <2>12. r = SetSeg(x, a, NoSeg)
    BY <2>10
  <2>13. /\ r \in Store(D) /\ SameLists(x, r)
         /\ \A c \in Blk : /\ r.blk[c].free = x.blk[c].free
                           /\ r.blk[c].first = x.blk[c].first
         /\ SegAt(r, a) = NoSeg
         /\ \A c \in Addr \ {a} : SegAt(r, c) = SegAt(x, c)
    BY <1>2, <2>11, <2>12, SetSegFields
  <2>14. \A c \in Addr : SegAt(x, c) = SegAt(s, c)
    BY <1>5, <2>4, <2>6, <2>11, AddrParts DEF SegAt
  <2>15. \A c \in Blk :
           /\ r.blk[c].type = IF c = b THEN "free" ELSE s.blk[c].type
           /\ c # b => /\ r.blk[c].first = s.blk[c].first
                       /\ r.blk[c].free = s.blk[c].free
           /\ r.blk[c].nxt = IF c = b THEN s.freep
                             ELSE IF c = s.blk[b].prv THEN s.blk[b].nxt
                             ELSE s.blk[c].nxt
           /\ c # b => r.blk[c].prv = IF c = s.blk[b].nxt THEN s.blk[b].prv
                                      ELSE s.blk[c].prv
    <3> SUFFICES ASSUME NEW c \in Blk
        PROVE  /\ r.blk[c].type = IF c = b THEN "free" ELSE s.blk[c].type
               /\ c # b => /\ r.blk[c].first = s.blk[c].first
                           /\ r.blk[c].free = s.blk[c].free
               /\ r.blk[c].nxt = IF c = b THEN s.freep
                                 ELSE IF c = s.blk[b].prv THEN s.blk[b].nxt
                                 ELSE s.blk[c].nxt
               /\ c # b => r.blk[c].prv = IF c = s.blk[b].nxt THEN s.blk[b].prv
                                          ELSE s.blk[c].prv
      OBVIOUS
    <3>1. /\ r.blk[c].type = w.blk[c].type /\ r.blk[c].first = w.blk[c].first
          /\ r.blk[c].free = w.blk[c].free /\ r.blk[c].nxt = w.blk[c].nxt
          /\ r.blk[c].prv = w.blk[c].prv
      BY <2>11, <2>13 DEF SameLists
    <3>2. v.freep = s.freep
      BY <1>5, <2>4 DEF SameLists
    <3>3. /\ u.blk[c].type = s.blk[c].type /\ u.blk[c].nxt = s.blk[c].nxt
          /\ u.blk[c].prv = s.blk[c].prv
      BY <1>5 DEF SameLists
    <3> QED  BY <1>5, <2>2, <2>4, <2>6, <3>1, <3>2, <3>3, SMTT(30)
  <2>16. \A e \in Seg : r.head[e] = IF e = t /\ s.head[e] = b THEN ZNULL
                                    ELSE s.head[e]
    <3>1. v.head = s.head /\ v.blk[b].type = t
      BY <1>2, <1>5, <2>4 DEF SameLists
    <3>2. r.head = [w.head EXCEPT !["data"] = h]
      BY <2>11, <2>13 DEF SameLists
    <3>3. w.head \in [Seg -> Blk \cup {ZNULL}] /\ s.head \in [Seg -> Blk \cup {ZNULL}]
      BY <2>6, StoreFields
    <3>4. t = "dup" => s.head["data"] # b
      <4>1. s.head["data"] \in BlocksOf(s, "data") \cup {ZNULL}
        BY DEF ListsOK, ListOK
      <4> QED  BY <1>2, <4>1, BlkFacts DEF BlocksOf
    <3>5. r.head["data"] = h
      BY <3>2, <3>3 DEF Seg
    <3>6. r.head["dup"] = w.head["dup"]
      BY <3>2, <3>3 DEF Seg
    <3>7. w.head["dup"] = IF t = "dup" /\ s.head["dup"] = b THEN ZNULL
                          ELSE s.head["dup"]
      BY <2>6, <3>1, <3>3 DEF Seg
    <3>8. w.head["data"] = s.head["data"]
      BY <2>6, <3>1, <3>3 DEF Seg
    <3> QED  BY <2>7, <3>4, <3>5, <3>6, <3>7, <3>8 DEF Seg
  <2>17. ListsOK(r)
    <3>1. /\ r.freep = b /\ r.nfree = s.nfree + 1 /\ r.blkmx = s.blkmx
          /\ r.limit = s.limit
      BY <1>5, <2>4, <2>6, <2>11, <2>13, SMTT(30) DEF SameLists
    <3>2. r.blk[b].type = "free" /\ r.blk[b].nxt = s.freep
      BY <1>2, <2>15
    <3>3. \A c \in Blk \ {b} :
            /\ r.blk[c].type = s.blk[c].type
            /\ r.blk[c].nxt = IF c = s.blk[b].prv THEN s.blk[b].nxt
                              ELSE s.blk[c].nxt
            /\ r.blk[c].prv = IF c = s.blk[b].nxt THEN s.blk[b].prv
                              ELSE s.blk[c].prv
      BY <2>15
    <3> QED  BY <1>2, <2>13, <2>16, <3>1, <3>2, <3>3, LeaveOK
  <2>18. SpaceOK(r, t) /\ Used(r) = Used(s) \ {a}
    <3>1. /\ SegAt(r, a) = NoSeg
          /\ \A c \in Addr \ {a} : SegAt(r, c) = SegAt(s, c)
          /\ FreedTo(s, a) = CAP /\ r.blk[BlkOf(a)].type # t
          /\ \A c \in Blk \ {BlkOf(a)} : /\ r.blk[c].type = s.blk[c].type
                                         /\ r.blk[c].free = s.blk[c].free
                                         /\ r.blk[c].first = s.blk[c].first
      BY <1>2, <1>7, <2>13, <2>14, <2>15 DEF Seg
    <3> QED  BY <2>13, <3>1, DropRoom
  <2> QED  BY <1>1, <1>2, <1>3, <1>7, <2>13, <2>14, <2>15, <2>16, <2>17, <2>18
<1>8. gone \in BOOLEAN
  OBVIOUS
<1> QED  BY <1>6, <1>7, <1>8
=============================================================================
