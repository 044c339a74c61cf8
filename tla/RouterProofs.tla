----------------------------- MODULE RouterProofs -----------------------------
(***************************************************************************)
(* Proofs about Router: for every set of routes, added in every order, and   *)
(* for paths of every length, the search in the tree does what RouteTable    *)
(* promises.                                                               *)
(***************************************************************************)
EXTENDS Router, OperatorProofs

(* A recursion over a set whose elements have ranks from 1 to N, where g      *)
(* makes the value of an element of the values of those of a higher rank.    *)
SolvesRecursion(f, X, V, g) ==
  f \in [X -> V] /\ \A c \in X : f[c] = g[c][f]

LEMMA RankedRecursion ==
  ASSUME NEW X, NEW V, NEW v \in V, NEW N \in Nat, NEW rank \in [X -> 1 .. N], NEW g,
         \A c \in X : \A x \in [X -> V] : g[c][x] \in V,
         \A c \in X : \A x, y \in [X -> V] :
           (\A d \in X : rank[d] > rank[c] => x[d] = y[d]) => g[c][x] = g[c][y]
  PROVE  \E f : SolvesRecursion(f, X, V, g)
<1> DEFINE S == [X -> V]
           a == [c \in X |-> v]
           h == [n \in 1 .. N |->
                   [x \in S |-> [c \in X |-> IF rank[c] = N + 1 - n THEN g[c][x] ELSE x[c]]]]
<1>1. a \in S  OBVIOUS
<1>2. ASSUME NEW n \in 1 .. N, NEW x \in S
      PROVE  /\ h[n][x] \in S
             /\ \A c \in X : h[n][x][c] = IF rank[c] = N + 1 - n THEN g[c][x] ELSE x[c]
  OBVIOUS
<1> HIDE DEF h, a
<1>3. HasRun(S, a, N, h)
  <2> HIDE DEF S
  <2> QED  BY <1>1, <1>2, RecursionExists
<1>4. PICK r \in [0 .. N -> S] : \A n \in 1 .. N : r[n] = h[n][r[n - 1]]
  BY <1>3 DEF HasRun
<1> DEFINE T == {n \in Nat : n <= N => \A c \in X : rank[c] > N - n => r[n][c] = g[c][r[n]]}
<1>5. 0 \in T
  OBVIOUS
<1>6. ASSUME NEW n \in Nat, n \in T
      PROVE  n + 1 \in T
  <2> SUFFICES ASSUME n + 1 <= N, NEW c \in X, rank[c] > N - (n + 1)
               PROVE  r[n + 1][c] = g[c][r[n + 1]]
    OBVIOUS
  <2>1. /\ n \in 0 .. N /\ n + 1 \in 1 .. N /\ (n + 1) - 1 = n /\ n <= N
        /\ N + 1 - (n + 1) = N - n
    OBVIOUS
  <2>2. r[n] \in S /\ r[n + 1] \in S  BY <2>1
  <2>3. \A d \in X : r[n + 1][d] = IF rank[d] = N - n THEN g[d][r[n]] ELSE r[n][d]
    <3>1. r[n + 1] = h[n + 1][r[n]]  BY <1>4, <2>1
    <3> HIDE DEF S
    <3>2. \A d \in X : h[n + 1][r[n]][d] =
            IF rank[d] = N + 1 - (n + 1) THEN g[d][r[n]] ELSE r[n][d]
      BY <1>2, <2>1, <2>2
    <3> QED  BY <2>1, <3>1, <3>2
  <2>4. \A d \in X : rank[d] > rank[c] => r[n][d] = r[n + 1][d]
    BY <2>1, <2>3
  <2>5. g[c][r[n]] = g[c][r[n + 1]]
    BY <2>2, <2>4
  <2>6. CASE rank[c] = N - n
    BY <2>3, <2>5, <2>6
  <2>7. CASE rank[c] # N - n
    <3>1. rank[c] > N - n  BY <2>7
    <3>2. r[n][c] = g[c][r[n]]  BY <1>6, <2>1, <3>1
    <3> QED  BY <2>3, <2>5, <2>7, <3>2
  <2> QED  BY <2>6, <2>7
<1>7. N \in T
  <2> HIDE DEF T
  <2>1. Nat \subseteq T  BY <1>5, <1>6, Induction
  <2> QED  BY <2>1
<1>8. r[N] \in S /\ \A c \in X : r[N][c] = g[c][r[N]]
  BY <1>7
<1> QED  BY <1>8 DEF SolvesRecursion

-------------------------------------------------------------------------------
LEMMA FindType ==
  ASSUME NEW t \in Seq(Char), NEW c, NEW i \in 1 .. Len(t) + 1
  PROVE  Find_(t, c, i) \in i .. Len(t) + 1
<1> DEFINE at == {k \in i .. Len(t) : t[k] = c}
<1>1. at # {} => Min(at) \in at
  <2>1. at \in SUBSET Nat  OBVIOUS
  <2> HIDE DEF at
  <2> QED  BY <2>1, MinOf
<1>2. Find_(t, c, i) = IF at = {} THEN Len(t) + 1 ELSE Min(at)
  BY DEF Find_
<1>3. \A k \in at : k \in i .. Len(t) + 1  OBVIOUS
<1> HIDE DEF at
<1> QED  BY <1>1, <1>2, <1>3

(* A text falls into segments that are texts, whatever its last character is. *)
LEMMA SegmentsType ==
  ASSUME NEW t \in Seq(Char)
  PROVE  Segments(t) \subseteq Seq(Seq(Char))
<1> DEFINE N == Len(t) + 2
           X == 1 .. N
           V == Seq(Seq(Char))
           Piece(i) == SubSeq(t, i, Find_(t, "/", i) - 1)
           Val(i, x) == IF i > Len(t) THEN <<>>
                        ELSE IF t[i] = "/" THEN x[i + 1]
                        ELSE <<Piece(i)>> \o x[Find_(t, "/", i) + 1]
           rank == [i \in X |-> i]
           g == [i \in X |-> [x \in [X -> V] |-> Val(i, x)]]
           Eq(f) == f = [i \in 1 .. Len(t) + 2 |->
                          IF i > Len(t) THEN <<>>
                          ELSE IF t[i] = "/" THEN f[i + 1]
                          ELSE <<SubSeq(t, i, Find_(t, "/", i) - 1)>>
                                 \o f[Find_(t, "/", i) + 1]]
           from == CHOOSE f : Eq(f)
<1>1. N \in Nat /\ Len(t) \in Nat /\ rank \in [X -> 1 .. N] /\ <<>> \in V
  OBVIOUS
<1>2. ASSUME NEW i \in X, ~(i > Len(t))
      PROVE  /\ i \in 1 .. Len(t) /\ i + 1 \in X /\ i + 1 > i
             /\ Find_(t, "/", i) + 1 \in X /\ Find_(t, "/", i) + 1 > i
             /\ <<Piece(i)>> \in V
  <2>1. i \in 1 .. Len(t)  BY <1>2
  <2>2. Find_(t, "/", i) \in i .. Len(t) + 1  BY <2>1, FindType
  <2>3. Piece(i) \in Seq(Char)
    <3>1. Find_(t, "/", i) - 1 \in 0 .. Len(t)  BY <2>1, <2>2
    <3> QED  BY <2>1, <3>1, SubSeqProperties
  <2> QED  BY <2>1, <2>2, <2>3
<1>3. ASSUME NEW i \in X, NEW x, \A j \in X : j > i => x[j] \in V
      PROVE  Val(i, x) \in V
  <2>1. CASE i > Len(t)
    BY <1>1, <2>1
  <2>2. CASE ~(i > Len(t)) /\ t[i] = "/"
    BY <1>2, <1>3, <2>2
  <2>3. CASE ~(i > Len(t)) /\ t[i] # "/"
    <3>1. <<Piece(i)>> \in V /\ x[Find_(t, "/", i) + 1] \in V
      BY <1>2, <1>3, <2>3
    <3>2. Val(i, x) = <<Piece(i)>> \o x[Find_(t, "/", i) + 1]  BY <2>3
    <3> QED  BY <3>1, <3>2, ConcatProperties
  <2> QED  BY <2>1, <2>2, <2>3
<1>4. ASSUME NEW i \in X, NEW x, NEW y, \A j \in X : j > i => x[j] = y[j]
      PROVE  Val(i, x) = Val(i, y)
  BY <1>2, <1>4
<1>5. \E f : Eq(f)
  <2>1. \A i \in X : \A x \in [X -> V] : g[i][x] = Val(i, x)  OBVIOUS
  <2>2. \A i \in X : rank[i] = i  OBVIOUS
  <2> HIDE DEF g, rank, Val, X, V, N
  <2>3. \A i \in X : \A x \in [X -> V] : g[i][x] \in V
    BY <1>3, <2>1
  <2>4. \A i \in X : \A x, y \in [X -> V] :
          (\A d \in X : rank[d] > rank[i] => x[d] = y[d]) => g[i][x] = g[i][y]
    BY <1>4, <2>1, <2>2
  <2>5. \E f : SolvesRecursion(f, X, V, g)
    BY <1>1, <2>3, <2>4, RankedRecursion
  <2>6. PICK f \in [X -> V] : \A i \in X : f[i] = Val(i, f)
    BY <2>1, <2>5 DEF SolvesRecursion
  <2>7. f = [i \in X |-> Val(i, f)]  BY <2>6
  <2>8. Eq(f)  BY <2>7 DEF Val, X, N
  <2> QED  BY <2>8
<1>6. \A i \in X : from[i] = Val(i, from)
  <2>1. Eq(from)  BY <1>5
  <2> HIDE DEF from
  <2> QED  BY <2>1
<1>7. Segments(t) = {from[1] \o last : last \in AfterLastSlash(t)}
  BY DEF Segments
<1> DEFINE T == {n \in Nat : n < N => \A i \in X : i >= N - n => from[i] \in V}
<1> HIDE DEF from, Val, V
<1>8. 0 \in T
  <2>1. \A j \in X : ~(j > N)  OBVIOUS
  <2>2. N \in X  BY <1>1
  <2>3. from[N] \in V  BY <2>1, <2>2, <1>3, <1>6
  <2> QED  BY <2>1, <2>3
<1>9. ASSUME NEW n \in Nat, n \in T
      PROVE  n + 1 \in T
  <2> SUFFICES ASSUME n + 1 < N, NEW i \in X, i >= N - (n + 1)
               PROVE  from[i] \in V
    OBVIOUS
  <2>1. \A j \in X : j > i => from[j] \in V
    BY <1>1, <1>9
  <2> HIDE DEF X, N, T
  <2> QED  BY <2>1, <1>3, <1>6
<1>10. from[1] \in V
  <2>1. Nat \subseteq T
    <3> HIDE DEF T
    <3> QED  BY <1>8, <1>9, Induction
  <2>2. N - 1 \in T /\ 1 \in X  BY <1>1, <2>1
  <2> QED  BY <1>1, <2>2
<1>11. AfterLastSlash(t) \subseteq V
  <2>1. <<<<>>>> \in Seq(Seq(Char)) /\ <<>> \in Seq(Seq(Char))  OBVIOUS
  <2> QED  BY <2>1 DEF AfterLastSlash, V
<1>12. \A last \in V : from[1] \o last \in V
  BY <1>10, ConcatProperties DEF V
<1> QED  BY <1>7, <1>11, <1>12 DEF V

-------------------------------------------------------------------------------
(* What the nodes on the way are named by.                                   *)
Names_ == Seq(Char) \cup {Param, Wild}

Literals(p, i) == IF Literal(p[i]) THEN 1 ELSE 0

(* The k-th child that is tried. *)
Try(n, p, i, k) ==
  IF k <= Literals(p, i) THEN <<Append(n, p[i]), i + 1>>
  ELSE IF k = Literals(p, i) + 1 THEN <<Append(n, Param), i + 1>>
  ELSE <<Append(n, Wild), i + (k - (Literals(p, i) + 1))>>

LEMMA PairIn ==
  ASSUME NEW S, NEW T, NEW a \in S, NEW b \in T
  PROVE  <<a, b>> \in S \X T
OBVIOUS

LEMMA ThreeParts ==
  ASSUME NEW S, NEW a \in Seq(S), NEW x \in S, NEW c \in Seq(S)
  PROVE  LET s == (a \o <<x>>) \o c IN
         /\ DOMAIN s = 1 .. Len(a) + 1 + Len(c)
         /\ \A k \in DOMAIN s :
              s[k] = IF k <= Len(a) THEN a[k]
                     ELSE IF k = Len(a) + 1 THEN x ELSE c[k - (Len(a) + 1)]
<1> DEFINE b == <<x>>
<1>1. b \in Seq(S) /\ Len(b) = 1 /\ b[1] = x  OBVIOUS
<1>2. Len(a) \in Nat /\ Len(c) \in Nat  OBVIOUS
<1> HIDE DEF b
<1>3. /\ a \o b \in Seq(S) /\ Len(a \o b) = Len(a) + 1
      /\ \A k \in 1 .. Len(a) + 1 : (a \o b)[k] = IF k <= Len(a) THEN a[k] ELSE b[k - Len(a)]
  BY <1>1, ConcatProperties
<1> DEFINE u == a \o b
           s == u \o c
<1> HIDE DEF u
<1>4. /\ s \in Seq(S) /\ Len(s) = Len(u) + Len(c)
      /\ \A k \in 1 .. Len(u) + Len(c) : s[k] = IF k <= Len(u) THEN u[k] ELSE c[k - Len(u)]
  <2>1. u \in Seq(S)  BY <1>3 DEF u
  <2> QED  BY <2>1, ConcatProperties
<1>5. DOMAIN s = 1 .. Len(a) + 1 + Len(c)
  <2>1. Len(s) = Len(a) + 1 + Len(c)  BY <1>3, <1>4 DEF u
  <2> HIDE DEF s
  <2> QED  BY <1>4, <2>1
<1>6. ASSUME NEW k \in 1 .. Len(a) + 1 + Len(c)
      PROVE  s[k] = IF k <= Len(a) THEN a[k]
                    ELSE IF k = Len(a) + 1 THEN x ELSE c[k - (Len(a) + 1)]
  <2>0. /\ Len(u) = Len(a) + 1
        /\ \A m \in 1 .. Len(a) + 1 : u[m] = IF m <= Len(a) THEN a[m] ELSE b[m - Len(a)]
    BY <1>3 DEF u
  <2>1. s[k] = IF k <= Len(a) + 1 THEN u[k] ELSE c[k - (Len(a) + 1)]
    BY <1>4, <2>0
  <2> HIDE DEF s
  <2>2. CASE k <= Len(a)
    BY <1>2, <2>0, <2>1, <2>2
  <2>3. CASE k = Len(a) + 1
    <3>1. k - Len(a) = 1 /\ ~(k <= Len(a)) /\ k \in 1 .. Len(a) + 1  BY <1>2, <2>3
    <3> QED  BY <1>1, <2>0, <2>1, <2>3, <3>1
  <2>4. CASE k > Len(a) + 1
    BY <1>2, <2>1, <2>4
  <2> QED  BY <1>2, <2>2, <2>3, <2>4
<1> QED  BY <1>5, <1>6 DEF b, u

LEMMA TriesAre ==
  ASSUME NEW n \in Seq(Names_), NEW p \in Seq(Seq(Char)), NEW i \in 1 .. Len(p)
  PROVE  /\ DOMAIN Tries(n, p, i) = 1 .. Literals(p, i) + 1 + (Len(p) - i + 1)
         /\ \A k \in DOMAIN Tries(n, p, i) :
              /\ Tries(n, p, i)[k] = Try(n, p, i, k)
              /\ Tries(n, p, i)[k] \in Seq(Names_) \X (i + 1 .. Len(p) + 1)
<1> DEFINE lit == <<Append(n, p[i]), i + 1>>
           x == <<Append(n, Param), i + 1>>
           wild(k) == <<Append(n, Wild), i + k>>
           a == IF Literal(p[i]) THEN <<lit>> ELSE <<>>
           M == Len(p) - i + 1
           c == [k \in 1 .. M |-> wild(k)]
           L == Literals(p, i)
           To_ == Seq(Names_) \X (i + 1 .. Len(p) + 1)
<1>1. /\ p[i] \in Names_ /\ Param \in Names_ /\ Wild \in Names_
      /\ L \in {0, 1} /\ M \in Nat /\ i \in Nat
      /\ i + 1 \in i + 1 .. Len(p) + 1
      /\ \A k \in 1 .. M : i + k \in i + 1 .. Len(p) + 1
  BY DEF Names_, Literals
<1>2. /\ Append(n, p[i]) \in Seq(Names_) /\ Append(n, Param) \in Seq(Names_)
      /\ Append(n, Wild) \in Seq(Names_)
  BY <1>1
<1>3. lit \in To_ /\ x \in To_ /\ \A k \in 1 .. M : wild(k) \in To_
  <2>1. lit \in To_  BY <1>1, <1>2, PairIn
  <2>2. x \in To_  BY <1>1, <1>2, PairIn
  <2>3. ASSUME NEW k \in 1 .. M PROVE wild(k) \in To_
    <3>1. i + k \in i + 1 .. Len(p) + 1  BY <1>1, <2>3
    <3> QED  BY <3>1, <1>2, PairIn
  <2> QED  BY <2>1, <2>2, <2>3
<1>4. Tries(n, p, i) = (a \o <<x>>) \o c
  BY DEF Tries
<1> HIDE DEF lit, x, wild, L, M, To_
<1>5. /\ a \in Seq(To_) /\ Len(a) = L
      /\ \A k \in 1 .. L : a[k] = lit
  <2>1. CASE Literal(p[i])
    <3>1. a = <<lit>> /\ L = 1  BY <2>1 DEF Literals, L
    <3> HIDE DEF a
    <3> QED  BY <1>3, <3>1
  <2>2. CASE ~Literal(p[i])
    <3>1. a = <<>> /\ L = 0  BY <2>2 DEF Literals, L
    <3> HIDE DEF a
    <3> QED  BY <3>1
  <2> QED  BY <2>1, <2>2
<1>6. c \in Seq(To_) /\ Len(c) = M /\ \A k \in 1 .. M : c[k] = wild(k)
  <2>1. c \in [1 .. M -> To_]  BY <1>3
  <2>2. \A k \in 1 .. M : c[k] = wild(k)  OBVIOUS
  <2>3. DOMAIN c = 1 .. M  OBVIOUS
  <2> HIDE DEF c
  <2>4. c \in Seq(To_)  BY <1>1, <2>1
  <2>5. Len(c) = M  BY <1>1, <2>3, <2>4
  <2> QED  BY <2>2, <2>4, <2>5
<1> DEFINE t == (a \o <<x>>) \o c
<1> HIDE DEF a, c
<1>7. /\ DOMAIN t = 1 .. Len(a) + 1 + Len(c)
      /\ \A k \in DOMAIN t :
           t[k] = IF k <= Len(a) THEN a[k]
                  ELSE IF k = Len(a) + 1 THEN x ELSE c[k - (Len(a) + 1)]
  <2>1. a \in Seq(To_) /\ x \in To_ /\ c \in Seq(To_)  BY <1>3, <1>5, <1>6
  <2> QED  BY <2>1, ThreeParts
<1> HIDE DEF t
<1>8. /\ DOMAIN t = 1 .. L + 1 + M
      /\ \A k \in 1 .. L + 1 + M :
           t[k] = IF k <= L THEN a[k] ELSE IF k = L + 1 THEN x ELSE c[k - (L + 1)]
  BY <1>5, <1>6, <1>7
<1>9. ASSUME NEW k \in 1 .. L + 1 + M
      PROVE  /\ t[k] = IF k <= L THEN lit ELSE IF k = L + 1 THEN x ELSE wild(k - (L + 1))
             /\ t[k] \in To_
  <2>1. CASE k <= L
    <3>1. k \in 1 .. L  BY <1>1, <2>1
    <3>2. t[k] = lit  BY <1>5, <1>8, <2>1, <3>1
    <3> QED  BY <1>3, <2>1, <3>2
  <2>2. CASE k = L + 1
    <3>1. ~(k <= L)  BY <1>1, <2>2
    <3>2. t[k] = x  BY <1>8, <2>2, <3>1
    <3> QED  BY <1>3, <2>2, <3>1, <3>2
  <2>3. CASE k > L + 1
    <3>1. ~(k <= L) /\ k # L + 1 /\ k - (L + 1) \in 1 .. M  BY <1>1, <2>3
    <3>2. t[k] = wild(k - (L + 1))  BY <1>6, <1>8, <3>1
    <3> QED  BY <1>3, <3>1, <3>2
  <2> QED  BY <1>1, <2>1, <2>2, <2>3
<1>10. t = Tries(n, p, i)  BY <1>4 DEF t
<1>11. /\ DOMAIN Tries(n, p, i) = 1 .. L + 1 + M
       /\ \A k \in 1 .. L + 1 + M :
            /\ Tries(n, p, i)[k] =
                 IF k <= L THEN lit ELSE IF k = L + 1 THEN x ELSE wild(k - (L + 1))
            /\ Tries(n, p, i)[k] \in To_
  BY <1>8, <1>9, <1>10
<1> QED  BY <1>11 DEF L, M, lit, x, wild, To_, Try

-------------------------------------------------------------------------------
(* The recursion of find_ in a tree, and what it says of one node.           *)
Hits(f, root, tries) ==
  {k \in DOMAIN tries : tries[k][1] \in DOMAIN root /\ f[tries[k]] # {}}
SearchAt(f, root, p, c) ==
  IF c[2] > Len(p) THEN (IF root[c[1]] # Nobody THEN {c[1]} ELSE {})
  ELSE IF Hits(f, root, Tries(c[1], p, c[2])) = {} THEN {}
  ELSE f[Tries(c[1], p, c[2])[Min(Hits(f, root, Tries(c[1], p, c[2])))]]

IsSearch(f, root, p) ==
  f = [c \in (DOMAIN root) \X (1 .. Len(p) + 1) |-> SearchAt(f, root, p, c)]

LEMMA HitsAre ==
  ASSUME NEW root, DOMAIN root \in SUBSET Seq(Names_), NEW p \in Seq(Seq(Char)),
         NEW n \in DOMAIN root, NEW i \in 1 .. Len(p), NEW f
  PROVE  LET t == Tries(n, p, i)
             hits == Hits(f, root, t) IN
         /\ \A k \in DOMAIN t : t[k][1] \in DOMAIN root =>
              t[k] \in (DOMAIN root) \X (i + 1 .. Len(p) + 1)
         /\ hits # {} => Min(hits) \in hits /\ \A k \in hits : Min(hits) <= k
<1> DEFINE t == Tries(n, p, i)
           hits == Hits(f, root, t)
<1>1. n \in Seq(Names_)  OBVIOUS
<1>2. /\ DOMAIN t = 1 .. Literals(p, i) + 1 + (Len(p) - i + 1)
      /\ \A k \in DOMAIN t : t[k] \in Seq(Names_) \X (i + 1 .. Len(p) + 1)
  BY <1>1, TriesAre
<1>3. \A k \in DOMAIN t : t[k][1] \in DOMAIN root =>
        t[k] \in (DOMAIN root) \X (i + 1 .. Len(p) + 1)
  <2> HIDE DEF t
  <2> QED  BY <1>2
<1>4. hits \in SUBSET Nat
  <2>1. Literals(p, i) + 1 + (Len(p) - i + 1) \in Nat  BY DEF Literals
  <2>2. hits \subseteq DOMAIN t  BY DEF Hits
  <2> HIDE DEF hits, t
  <2> QED  BY <1>2, <2>1, <2>2
<1>5. hits # {} => Min(hits) \in hits /\ \A k \in hits : Min(hits) <= k
  <2> HIDE DEF hits
  <2> QED  BY <1>4, MinOf
<1> QED  BY <1>3, <1>5

LEMMA SearchExists ==
  ASSUME NEW root, DOMAIN root \in SUBSET Seq(Names_), NEW p \in Seq(Seq(Char))
  PROVE  \E f : IsSearch(f, root, p)
<1> DEFINE X == (DOMAIN root) \X (1 .. Len(p) + 1)
           V == SUBSET DOMAIN root
           N == Len(p) + 1
           rank == [c \in X |-> c[2]]
           g == [c \in X |-> [x \in [X -> V] |-> SearchAt(x, root, p, c)]]
<1>1. N \in Nat /\ {} \in V /\ rank \in [X -> 1 .. N]
  OBVIOUS
<1>2. \A c \in X : \A x \in [X -> V] : g[c][x] = SearchAt(x, root, p, c)
  OBVIOUS
<1>3. \A c \in X : rank[c] = c[2] /\ c[1] \in DOMAIN root /\ c[2] \in 1 .. N
  OBVIOUS
<1>4. ASSUME NEW c \in X, NEW x \in [X -> V]
      PROVE  SearchAt(x, root, p, c) \in V
  <2> DEFINE t == Tries(c[1], p, c[2])
             hits == Hits(x, root, t)
  <2>1. CASE c[2] > Len(p)
    BY <1>3, <2>1 DEF SearchAt
  <2>2. CASE ~(c[2] > Len(p))
    <3>1. c[1] \in DOMAIN root /\ c[2] \in 1 .. Len(p)  BY <1>3, <2>2
    <3>2. SearchAt(x, root, p, c) = IF hits = {} THEN {} ELSE x[t[Min(hits)]]
      BY <2>2 DEF SearchAt
    <3>3. /\ \A k \in DOMAIN t : t[k][1] \in DOMAIN root =>
               t[k] \in (DOMAIN root) \X (c[2] + 1 .. Len(p) + 1)
          /\ hits # {} => Min(hits) \in hits
      BY <3>1, HitsAre
    <3>4. \A k \in hits : k \in DOMAIN t /\ t[k][1] \in DOMAIN root
      BY DEF Hits
    <3> HIDE DEF t, hits
    <3>5. hits # {} => t[Min(hits)] \in X
      BY <3>1, <3>3, <3>4
    <3> QED  BY <3>2, <3>5
  <2> QED  BY <2>1, <2>2
<1>5. ASSUME NEW c \in X, NEW x \in [X -> V], NEW y \in [X -> V],
             \A d \in X : d[2] > c[2] => x[d] = y[d]
      PROVE  SearchAt(x, root, p, c) = SearchAt(y, root, p, c)
  <2> DEFINE t == Tries(c[1], p, c[2])
  <2>1. CASE c[2] > Len(p)
    BY <2>1 DEF SearchAt
  <2>2. CASE ~(c[2] > Len(p))
    <3>1. c[1] \in DOMAIN root /\ c[2] \in 1 .. Len(p)  BY <1>3, <2>2
    <3>2. \A k \in DOMAIN t : t[k][1] \in DOMAIN root =>
            t[k] \in (DOMAIN root) \X (c[2] + 1 .. Len(p) + 1)
      BY <3>1, HitsAre
    <3>3. \A k \in DOMAIN t : t[k][1] \in DOMAIN root => x[t[k]] = y[t[k]]
      <4> SUFFICES ASSUME NEW k \in DOMAIN t, t[k][1] \in DOMAIN root
                   PROVE  x[t[k]] = y[t[k]]
        OBVIOUS
      <4>1. t[k] \in (DOMAIN root) \X (c[2] + 1 .. Len(p) + 1)  BY <3>2
      <4> HIDE DEF t
      <4>2. t[k] \in X /\ t[k][2] > c[2]  BY <3>1, <4>1
      <4> QED  BY <1>5, <4>2
    <3>4. Hits(x, root, t) = Hits(y, root, t)
      <4> HIDE DEF t
      <4> QED  BY <3>3 DEF Hits
    <3>5. Hits(x, root, t) # {} =>
            x[t[Min(Hits(x, root, t))]] = y[t[Min(Hits(x, root, t))]]
      <4>1. Hits(x, root, t) # {} => Min(Hits(x, root, t)) \in Hits(x, root, t)
        BY <3>1, HitsAre
      <4> HIDE DEF t
      <4>2. \A k \in Hits(x, root, t) : k \in DOMAIN t /\ t[k][1] \in DOMAIN root
        BY DEF Hits
      <4> QED  BY <3>3, <4>1, <4>2
    <3> HIDE DEF t
    <3>6. /\ SearchAt(x, root, p, c) =
               IF Hits(x, root, t) = {} THEN {} ELSE x[t[Min(Hits(x, root, t))]]
          /\ SearchAt(y, root, p, c) =
               IF Hits(y, root, t) = {} THEN {} ELSE y[t[Min(Hits(y, root, t))]]
      BY <2>2 DEF SearchAt, t
    <3> QED  BY <3>4, <3>5, <3>6
  <2> QED  BY <2>1, <2>2
<1> HIDE DEF X, V, g, rank
<1>6. \A c \in X : \A x \in [X -> V] : g[c][x] \in V
  BY <1>2, <1>4
<1>7. \A c \in X : \A x, y \in [X -> V] :
        (\A d \in X : rank[d] > rank[c] => x[d] = y[d]) => g[c][x] = g[c][y]
  <2> SUFFICES ASSUME NEW c \in X, NEW x \in [X -> V], NEW y \in [X -> V],
                      \A d \in X : rank[d] > rank[c] => x[d] = y[d]
               PROVE  g[c][x] = g[c][y]
    OBVIOUS
  <2>1. \A d \in X : d[2] > c[2] => x[d] = y[d]  BY <1>3
  <2>2. SearchAt(x, root, p, c) = SearchAt(y, root, p, c)  BY <1>5, <2>1
  <2> QED  BY <1>2, <2>2
<1>8. \E f : SolvesRecursion(f, X, V, g)
  BY <1>1, <1>6, <1>7, RankedRecursion
<1>9. PICK f \in [X -> V] : \A c \in X : f[c] = SearchAt(f, root, p, c)
  BY <1>2, <1>8 DEF SolvesRecursion
<1>10. f = [c \in X |-> SearchAt(f, root, p, c)]  BY <1>9
<1> QED  BY <1>10 DEF IsSearch, X

LEMMA FindIsSearch ==
  ASSUME NEW root, DOMAIN root \in SUBSET Seq(Names_), NEW p \in Seq(Seq(Char))
  PROVE  \E f : IsSearch(f, root, p) /\ FindIn(root, p) = f[<<<<>>, 1>>]
<1> DEFINE f == CHOOSE q : IsSearch(q, root, p)
<1>1. \E q : IsSearch(q, root, p)  BY SearchExists
<1>2. IsSearch(f, root, p)  BY <1>1
<1>3. FindIn(root, p) = f[<<<<>>, 1>>]
  BY DEF FindIn, IsSearch, SearchAt, Hits
<1> QED  BY <1>2, <1>3

(* The search at a node: its handler where the path ends, else what is found  *)
(* at the first child at which anything is found.                           *)
Searched(f, root, p, n, i, t) ==
  /\ i = Len(p) + 1 => f[<<n, i>>] = IF root[n] # Nobody THEN {n} ELSE {}
  /\ i # Len(p) + 1 =>
       \/ /\ f[<<n, i>>] = {}
          /\ \A k \in DOMAIN t : t[k][1] \in DOMAIN root => f[t[k]] = {}
       \/ \E k \in DOMAIN t :
            /\ t[k][1] \in DOMAIN root /\ f[t[k]] # {}
            /\ f[<<n, i>>] = f[t[k]]
            /\ \A j \in DOMAIN t : j < k /\ t[j][1] \in DOMAIN root => f[t[j]] = {}

LEMMA SearchStep ==
  ASSUME NEW root, DOMAIN root \in SUBSET Seq(Names_), NEW p \in Seq(Seq(Char)),
         NEW f, IsSearch(f, root, p), NEW n \in DOMAIN root, NEW i \in 1 .. Len(p) + 1
  PROVE  Searched(f, root, p, n, i, Tries(n, p, i))
<1> DEFINE t == Tries(n, p, i)
           hits == Hits(f, root, t)
<1>1. f[<<n, i>>] = SearchAt(f, root, p, <<n, i>>)
  <2>1. <<n, i>> \in (DOMAIN root) \X (1 .. Len(p) + 1)  OBVIOUS
  <2> QED  BY <2>1 DEF IsSearch
<1>2. CASE i = Len(p) + 1
  BY <1>1, <1>2 DEF SearchAt, Searched
<1>3. CASE i # Len(p) + 1
  <2>1. i \in 1 .. Len(p) /\ ~(i > Len(p))  BY <1>3
  <2>2. f[<<n, i>>] = IF hits = {} THEN {} ELSE f[t[Min(hits)]]
    BY <1>1, <2>1 DEF SearchAt
  <2>3. hits # {} => Min(hits) \in hits /\ \A k \in hits : Min(hits) <= k
    BY <2>1, HitsAre
  <2>4. \A k : k \in hits <=>
          k \in DOMAIN t /\ t[k][1] \in DOMAIN root /\ f[t[k]] # {}
    BY DEF Hits
  <2>5. \A k \in DOMAIN t : k \in Int
    <3>1. n \in Seq(Names_)  OBVIOUS
    <3>2. DOMAIN t = 1 .. Literals(p, i) + 1 + (Len(p) - i + 1)  BY <2>1, <3>1, TriesAre
    <3> HIDE DEF t
    <3> QED  BY <3>2
  <2> HIDE DEF t, hits
  <2>6. CASE hits = {}
    <3>1. \A k \in DOMAIN t : t[k][1] \in DOMAIN root => f[t[k]] = {}  BY <2>4, <2>6
    <3> QED  BY <1>3, <2>2, <2>6, <3>1 DEF t, Searched
  <2>7. CASE hits # {}
    <3> DEFINE k == Min(hits)
    <3>1. k \in DOMAIN t /\ t[k][1] \in DOMAIN root /\ f[t[k]] # {}
      BY <2>3, <2>4, <2>7
    <3>2. f[<<n, i>>] = f[t[k]]  BY <2>2, <2>7
    <3>3. \A j \in DOMAIN t : j < k /\ t[j][1] \in DOMAIN root => f[t[j]] = {}
      <4>1. \A j \in hits : k <= j  BY <2>3, <2>7
      <4> HIDE DEF k
      <4> SUFFICES ASSUME NEW j \in DOMAIN t, j < k, t[j][1] \in DOMAIN root, f[t[j]] # {}
                   PROVE  FALSE
        OBVIOUS
      <4>2. j \in hits  BY <2>4
      <4>3. k <= j /\ j \in Int /\ k \in Int  BY <2>5, <3>1, <4>1, <4>2
      <4> QED  BY <4>3
    <3> HIDE DEF k
    <3> QED  BY <1>3, <3>1, <3>2, <3>3 DEF t, Searched
  <2> QED  BY <2>6, <2>7
<1> QED  BY <1>2, <1>3

-------------------------------------------------------------------------------
(* What holds of every number up to N for which it holds of all above.       *)
LEMMA DownwardInduction ==
  ASSUME NEW N \in Nat, NEW S, \A i \in 1 .. N : (\A j \in i + 1 .. N : j \in S) => i \in S
  PROVE  \A i \in 1 .. N : i \in S
<1> DEFINE T == {n \in Nat : \A i \in 1 .. N : i > N - n => i \in S}
<1>1. 0 \in T
  OBVIOUS
<1>2. ASSUME NEW n \in Nat, n \in T
      PROVE  n + 1 \in T
  <2> SUFFICES ASSUME NEW i \in 1 .. N, i > N - (n + 1)
               PROVE  i \in S
    OBVIOUS
  <2>1. \A j \in i + 1 .. N : j \in 1 .. N /\ j > N - n  OBVIOUS
  <2>2. \A j \in i + 1 .. N : j \in S  BY <1>2, <2>1
  <2> QED  BY <2>2
<1>3. Nat \subseteq T
  <2> HIDE DEF T
  <2> QED  BY <1>1, <1>2, Induction
<1>4. N \in T  BY <1>3
<1> QED  BY <1>4

(* The tree: every node has its parent, and is named by keys.                *)
IsKey(s) == s = Param \/ s = Wild \/ Literal(s)

Tree(tr) ==
  /\ DOMAIN tr \in SUBSET Seq(Names_) /\ <<>> \in DOMAIN tr
  /\ tr = [n \in DOMAIN tr |-> tr[n]]
  /\ \A n \in DOMAIN tr :
       /\ tr[n] \in Handler \cup {Nobody}
       /\ \A k \in 0 .. Len(n) : SubSeq(n, 1, k) \in DOMAIN tr
       /\ \A k \in 1 .. Len(n) : IsKey(n[k])

WithRoute(tr, n, h) ==
  [m \in DOMAIN tr \cup Walk(n) |->
     IF m = n THEN h ELSE IF m \in DOMAIN tr THEN tr[m] ELSE Nobody]

IsRoute(n) == n \in Seq(Names_) /\ \A k \in 1 .. Len(n) : IsKey(n[k])

LEMMA KeysType ==
  ASSUME NEW t \in Seq(Char), NEW s \in Segments(t)
  PROVE  IsRoute(Keys(s))
<1>1. s \in Seq(Seq(Char))  BY SegmentsType
<1>2. DOMAIN s = 1 .. Len(s) /\ Len(s) \in Nat /\ \A k \in 1 .. Len(s) : s[k] \in Seq(Char)
  BY <1>1
<1>3. \A x \in Seq(Char) : Key(x) \in Names_ /\ IsKey(Key(x))
  BY DEF Key, Names_, IsKey, Literal, Param, Wild
<1> DEFINE q == [k \in 1 .. Len(s) |-> Key(s[k])]
<1>4. q \in [1 .. Len(s) -> Names_] /\ \A k \in 1 .. Len(s) : IsKey(q[k])
  BY <1>2, <1>3
<1>5. Keys(s) = q  BY <1>2 DEF Keys
<1> HIDE DEF q
<1>6. q \in Seq(Names_) /\ Len(q) = Len(s)  BY <1>2, <1>4
<1> QED  BY <1>4, <1>5, <1>6 DEF IsRoute

LEMMA PrefixOf ==
  ASSUME NEW S, NEW n \in Seq(S), NEW k \in 0 .. Len(n)
  PROVE  /\ SubSeq(n, 1, k) \in Seq(S) /\ Len(SubSeq(n, 1, k)) = k
         /\ \A j \in 1 .. k : SubSeq(n, 1, k)[j] = n[j]
OBVIOUS

LEMMA PrefixOfPrefix ==
  ASSUME NEW S, NEW n \in Seq(S), NEW k \in 0 .. Len(n), NEW j \in 0 .. k
  PROVE  SubSeq(SubSeq(n, 1, k), 1, j) = SubSeq(n, 1, j)
<1> DEFINE m == SubSeq(n, 1, k)
<1>1. m \in Seq(S) /\ Len(m) = k /\ \A i \in 1 .. k : m[i] = n[i]
  BY PrefixOf
<1> HIDE DEF m
<1>2. /\ SubSeq(m, 1, j) \in Seq(S) /\ Len(SubSeq(m, 1, j)) = j
      /\ \A i \in 1 .. j : SubSeq(m, 1, j)[i] = m[i]
  <2>1. j \in 0 .. Len(m)  BY <1>1
  <2> QED  BY <1>1, <2>1, PrefixOf
<1>3. /\ SubSeq(n, 1, j) \in Seq(S) /\ Len(SubSeq(n, 1, j)) = j
      /\ \A i \in 1 .. j : SubSeq(n, 1, j)[i] = n[i]
  <2>1. j \in 0 .. Len(n)  OBVIOUS
  <2> QED  BY <2>1, PrefixOf
<1>4. \A i \in 1 .. j : SubSeq(m, 1, j)[i] = SubSeq(n, 1, j)[i]
  <2>1. \A i \in 1 .. j : i \in 1 .. k  OBVIOUS
  <2> QED  BY <1>1, <1>2, <1>3, <2>1
<1>5. SubSeq(m, 1, j) = SubSeq(n, 1, j)
  <2> DEFINE a == SubSeq(m, 1, j)
             b == SubSeq(n, 1, j)
  <2>1. a \in Seq(S) /\ b \in Seq(S) /\ Len(a) = Len(b) /\ \A i \in 1 .. Len(a) : a[i] = b[i]
    BY <1>2, <1>3, <1>4
  <2> HIDE DEF a, b
  <2> QED  BY <2>1, SeqEqual DEF a, b
<1> QED  BY <1>5 DEF m

LEMMA AppendPrefix ==
  ASSUME NEW S, NEW n \in Seq(S), NEW s \in S
  PROVE  /\ Append(n, s) \in Seq(S) /\ Len(Append(n, s)) = Len(n) + 1
         /\ SubSeq(Append(n, s), 1, Len(n)) = n /\ Append(n, s)[Len(n) + 1] = s
<1> DEFINE m == Append(n, s)
           a == SubSeq(m, 1, Len(n))
<1>1. /\ m \in Seq(S) /\ Len(m) = Len(n) + 1 /\ m[Len(n) + 1] = s
      /\ \A i \in 1 .. Len(n) : m[i] = n[i]
  OBVIOUS
<1> HIDE DEF m
<1>2. a \in Seq(S) /\ Len(a) = Len(n) /\ \A i \in 1 .. Len(n) : a[i] = m[i]
  <2>1. Len(n) \in 0 .. Len(m)  BY <1>1
  <2> QED  BY <1>1, <2>1, PrefixOf
<1> HIDE DEF a
<1>3. \A i \in 1 .. Len(a) : a[i] = n[i]  BY <1>1, <1>2
<1>4. a = n  BY <1>2, <1>3, SeqEqual
<1> QED  BY <1>1, <1>4 DEF m, a

LEMMA ParentIn ==
  ASSUME NEW tr, Tree(tr), NEW n \in Seq(Names_), NEW s \in Names_, Append(n, s) \in DOMAIN tr
  PROVE  n \in DOMAIN tr
<1>1. Len(Append(n, s)) = Len(n) + 1 /\ SubSeq(Append(n, s), 1, Len(n)) = n
  BY AppendPrefix
<1>2. Len(n) \in 0 .. Len(Append(n, s))  BY <1>1
<1>3. SubSeq(Append(n, s), 1, Len(n)) \in DOMAIN tr  BY <1>2 DEF Tree
<1> QED  BY <1>1, <1>3

LEMMA WalkIs ==
  ASSUME NEW n, IsRoute(n)
  PROVE  /\ n \in Walk(n)
         /\ \A m \in Walk(n) : \E k \in 0 .. Len(n) :
              /\ m = SubSeq(n, 1, k) /\ IsRoute(m) /\ Len(m) = k
              /\ \A j \in 0 .. k : SubSeq(m, 1, j) \in Walk(n)
<1>0. n \in Seq(Names_) /\ Len(n) \in Nat  BY DEF IsRoute
<1>1. n \in Walk(n)
  <2>1. SubSeq(n, 1, Len(n)) = n  BY <1>0, SubSeqFull
  <2>2. Len(n) \in 0 .. Len(n)  BY <1>0
  <2> QED  BY <2>1, <2>2 DEF Walk
<1>2. ASSUME NEW k \in 0 .. Len(n)
      PROVE  LET m == SubSeq(n, 1, k) IN
             /\ IsRoute(m) /\ Len(m) = k
             /\ \A j \in 0 .. k : SubSeq(m, 1, j) \in Walk(n)
  <2> DEFINE m == SubSeq(n, 1, k)
  <2>1. m \in Seq(Names_) /\ Len(m) = k /\ \A j \in 1 .. k : m[j] = n[j]
    BY <1>0, PrefixOf
  <2>2. \A j \in 0 .. k : SubSeq(m, 1, j) = SubSeq(n, 1, j)
    BY <1>0, PrefixOfPrefix
  <2> HIDE DEF m
  <2>3. IsRoute(m)
    <3>1. \A j \in 1 .. k : j \in 1 .. Len(n)  BY <1>0
    <3> QED  BY <2>1, <3>1 DEF IsRoute
  <2>4. \A j \in 0 .. k : SubSeq(m, 1, j) \in Walk(n)
    <3>1. \A j \in 0 .. k : j \in 0 .. Len(n)  BY <1>0
    <3> QED  BY <2>2, <3>1 DEF Walk
  <2> QED  BY <2>1, <2>3, <2>4 DEF m
<1> QED  BY <1>1, <1>2 DEF Walk

(* Adding a route leaves a tree.                                            *)
LEMMA AddKeepsTree ==
  ASSUME NEW tr, Tree(tr), NEW n, IsRoute(n), NEW h \in Handler
  PROVE  Tree(WithRoute(tr, n, h))
<1> DEFINE u == WithRoute(tr, n, h)
<1>1. /\ DOMAIN u = DOMAIN tr \cup Walk(n) /\ u = [m \in DOMAIN u |-> u[m]]
      /\ \A m \in DOMAIN u :
           u[m] = IF m = n THEN h ELSE IF m \in DOMAIN tr THEN tr[m] ELSE Nobody
  BY DEF WithRoute
<1> HIDE DEF u
<1>2. \A m \in Walk(n) :
        /\ IsRoute(m)
        /\ \A k \in 0 .. Len(m) : SubSeq(m, 1, k) \in Walk(n)
  BY WalkIs
<1>3. DOMAIN u \in SUBSET Seq(Names_) /\ <<>> \in DOMAIN u
  BY <1>1, <1>2 DEF Tree, IsRoute
<1>4. ASSUME NEW m \in DOMAIN u
      PROVE  /\ u[m] \in Handler \cup {Nobody}
             /\ \A k \in 0 .. Len(m) : SubSeq(m, 1, k) \in DOMAIN u
             /\ \A k \in 1 .. Len(m) : IsKey(m[k])
  <2>1. u[m] \in Handler \cup {Nobody}  BY <1>1 DEF Tree
  <2>2. CASE m \in DOMAIN tr
    BY <1>1, <2>1, <2>2 DEF Tree
  <2>3. CASE m \in Walk(n)
    BY <1>1, <1>2, <2>1, <2>3 DEF IsRoute
  <2> QED  BY <1>1, <2>2, <2>3
<1> QED  BY <1>1, <1>3, <1>4 DEF Tree, u

(* What a search finds where a route was added: what it found before, or the *)
(* node of the route if it had no handler.                                  *)
LEMMA SearchAfterAdd ==
  ASSUME NEW tr, Tree(tr), NEW r, IsRoute(r), NEW h \in Handler, NEW p \in Seq(Seq(Char)),
         NEW f, IsSearch(f, tr, p), NEW f2, IsSearch(f2, WithRoute(tr, r, h), p),
         NEW i \in 1 .. Len(p) + 1, NEW n \in DOMAIN WithRoute(tr, r, h)
  PROVE  \/ f2[<<n, i>>] = IF n \in DOMAIN tr THEN f[<<n, i>>] ELSE {}
         \/ f2[<<n, i>>] = {r} /\ (r \in DOMAIN tr => tr[r] = Nobody)
<1> DEFINE u == WithRoute(tr, r, h)
           N == Len(p) + 1
           New == r \in DOMAIN tr => tr[r] = Nobody
           Before(m, j) == IF m \in DOMAIN tr THEN f[<<m, j>>] ELSE {}
           S == {j \in 1 .. N : \A m \in DOMAIN u :
                   f2[<<m, j>>] = Before(m, j) \/ (f2[<<m, j>>] = {r} /\ New)}
<1>1. /\ DOMAIN u = DOMAIN tr \cup Walk(r)
      /\ \A m \in DOMAIN u :
           u[m] = IF m = r THEN h ELSE IF m \in DOMAIN tr THEN tr[m] ELSE Nobody
  BY DEF WithRoute
<1>2. Tree(u) /\ IsSearch(f2, u, p)  BY AddKeepsTree
<1>3. r \in DOMAIN u /\ h # Nobody /\ N \in Nat
  BY <1>1, WalkIs, RouterAssumption
<1> HIDE DEF u
<1>4. DOMAIN tr \in SUBSET Seq(Names_) /\ DOMAIN u \in SUBSET Seq(Names_)
  BY <1>2 DEF Tree
<1>5. ASSUME NEW j \in 1 .. N, \A k \in j + 1 .. N : k \in S
      PROVE  j \in S
  <2> SUFFICES ASSUME NEW m \in DOMAIN u
               PROVE  f2[<<m, j>>] = Before(m, j) \/ (f2[<<m, j>>] = {r} /\ New)
    OBVIOUS
  <2>a. /\ DOMAIN u \in SUBSET Seq(Names_) /\ IsSearch(f2, u, p)
        /\ m \in DOMAIN u /\ j \in 1 .. Len(p) + 1
    BY <1>2, <1>4
  <2>b. DOMAIN tr \in SUBSET Seq(Names_) /\ IsSearch(f, tr, p) /\ j \in 1 .. Len(p) + 1
    BY <1>4
  <2>c. Searched(f2, u, p, m, j, Tries(m, p, j))  BY <2>a, SearchStep
  <2>d. m \in DOMAIN tr => Searched(f, tr, p, m, j, Tries(m, p, j))  BY <2>b, SearchStep
  <2>1. CASE j = N
    <3>0. j = Len(p) + 1  BY <2>1
    <3>1. f2[<<m, j>>] = IF u[m] # Nobody THEN {m} ELSE {}
      BY <2>c, <3>0 DEF Searched
    <3>2. m \in DOMAIN tr => f[<<m, j>>] = IF tr[m] # Nobody THEN {m} ELSE {}
      BY <2>d, <3>0 DEF Searched
    <3> QED  BY <1>1, <1>3, <3>1, <3>2
  <2>2. CASE j # N
    <3> DEFINE t == Tries(m, p, j)
    <3>0. j # Len(p) + 1  BY <2>2
    <3>1. j \in 1 .. Len(p) /\ m \in Seq(Names_)  BY <1>4, <2>2
    <3>2. ASSUME NEW k \in DOMAIN t
          PROVE  /\ t[k][2] \in j + 1 .. N /\ t[k] = <<t[k][1], t[k][2]>> /\ k \in Int
                 /\ \E s \in Names_ : t[k][1] = Append(m, s)
      <4>1. /\ DOMAIN t = 1 .. Literals(p, j) + 1 + (Len(p) - j + 1)
            /\ t[k] = Try(m, p, j, k) /\ t[k] \in Seq(Names_) \X (j + 1 .. Len(p) + 1)
        BY <3>1, TriesAre
      <4>2. p[j] \in Names_ /\ Param \in Names_ /\ Wild \in Names_
        BY <3>1 DEF Names_
      <4>3. \E s \in Names_ : Try(m, p, j, k)[1] = Append(m, s)
        BY <4>2 DEF Try
      <4> HIDE DEF t
      <4>4. k \in Int  BY <4>1
      <4> QED  BY <4>1, <4>3, <4>4
    <3>3. /\ \/ /\ f2[<<m, j>>] = {}
                /\ \A k \in DOMAIN t : t[k][1] \in DOMAIN u => f2[t[k]] = {}
             \/ \E k \in DOMAIN t :
                  /\ t[k][1] \in DOMAIN u /\ f2[t[k]] # {}
                  /\ f2[<<m, j>>] = f2[t[k]]
                  /\ \A l \in DOMAIN t : l < k /\ t[l][1] \in DOMAIN u => f2[t[l]] = {}
      BY <2>c, <3>0 DEF Searched
    <3>4. m \in DOMAIN tr =>
            \/ /\ f[<<m, j>>] = {}
               /\ \A k \in DOMAIN t : t[k][1] \in DOMAIN tr => f[t[k]] = {}
            \/ \E k \in DOMAIN t :
                 /\ t[k][1] \in DOMAIN tr /\ f[t[k]] # {}
                 /\ f[<<m, j>>] = f[t[k]]
                 /\ \A l \in DOMAIN t : l < k /\ t[l][1] \in DOMAIN tr => f[t[l]] = {}
      BY <2>d, <3>0 DEF Searched
    <3> HIDE DEF t
    <3>5. ASSUME NEW k \in DOMAIN t, t[k][1] \in DOMAIN u
          PROVE  \/ f2[t[k]] = IF t[k][1] \in DOMAIN tr THEN f[t[k]] ELSE {}
                 \/ f2[t[k]] = {r} /\ New
      <4>1. t[k][2] \in S /\ t[k] = <<t[k][1], t[k][2]>>  BY <1>5, <3>2
      <4> HIDE DEF New
      <4> QED  BY <3>5, <4>1
    <3>6. \A k \in DOMAIN t : t[k][1] \in DOMAIN tr => t[k][1] \in DOMAIN u /\ m \in DOMAIN tr
      <4> SUFFICES ASSUME NEW k \in DOMAIN t, t[k][1] \in DOMAIN tr
                   PROVE  t[k][1] \in DOMAIN u /\ m \in DOMAIN tr
        OBVIOUS
      <4>1. PICK s \in Names_ : t[k][1] = Append(m, s)  BY <3>2
      <4>2. m \in Seq(Names_) /\ Append(m, s) \in DOMAIN tr  BY <3>1, <4>1
      <4>3. m \in DOMAIN tr  BY <4>2, ParentIn
      <4> QED  BY <1>1, <4>3
    <3> HIDE DEF New, S
    <3>7. CASE /\ f2[<<m, j>>] = {}
               /\ \A k \in DOMAIN t : t[k][1] \in DOMAIN u => f2[t[k]] = {}
      <4>1. \A k \in DOMAIN t : t[k][1] \in DOMAIN tr => f[t[k]] = {}
        <5> SUFFICES ASSUME NEW k \in DOMAIN t, t[k][1] \in DOMAIN tr
                     PROVE  f[t[k]] = {}
          OBVIOUS
        <5>1. t[k][1] \in DOMAIN u  BY <3>6
        <5>2. f2[t[k]] = {}  BY <3>7, <5>1
        <5>3. {r} # {}  OBVIOUS
        <5> QED  BY <3>5, <5>1, <5>2, <5>3
      <4>2. m \in DOMAIN tr => f[<<m, j>>] = {}  BY <3>4, <4>1
      <4> QED  BY <3>7, <4>2
    <3>8. ASSUME NEW k \in DOMAIN t, t[k][1] \in DOMAIN u, f2[t[k]] # {},
                 f2[<<m, j>>] = f2[t[k]],
                 \A l \in DOMAIN t : l < k /\ t[l][1] \in DOMAIN u => f2[t[l]] = {}
          PROVE  f2[<<m, j>>] = Before(m, j) \/ (f2[<<m, j>>] = {r} /\ New)
      <4>1. CASE f2[t[k]] = {r} /\ New
        BY <3>8, <4>1
      <4>2. CASE ~(f2[t[k]] = {r} /\ New)
        <5>1. t[k][1] \in DOMAIN tr /\ f2[t[k]] = f[t[k]]
          BY <3>5, <3>8, <4>2
        <5>2. m \in DOMAIN tr  BY <3>6, <5>1
        <5>3. PICK l \in DOMAIN t :
                /\ t[l][1] \in DOMAIN tr /\ f[t[l]] # {}
                /\ f[<<m, j>>] = f[t[l]]
                /\ \A x \in DOMAIN t : x < l /\ t[x][1] \in DOMAIN tr => f[t[x]] = {}
          BY <3>4, <3>8, <5>1, <5>2
        <5>4. ~(k < l)  BY <3>8, <5>1, <5>3
        <5>5. ~(l < k)
          <6> SUFFICES ASSUME l < k PROVE FALSE
            OBVIOUS
          <6>1. t[l][1] \in DOMAIN u  BY <3>6, <5>3
          <6>2. f2[t[l]] = {}  BY <3>8, <6>1
          <6>3. {r} # {}  OBVIOUS
          <6> QED  BY <3>5, <5>3, <6>1, <6>2, <6>3
        <5>6. k = l  BY <3>2, <5>4, <5>5
        <5> QED  BY <3>8, <5>1, <5>2, <5>3, <5>6
      <4> QED  BY <4>1, <4>2
    <3> QED  BY <3>3, <3>7, <3>8
  <2> QED  BY <2>1, <2>2
<1>6. \A j \in 1 .. N : j \in S
  <2> HIDE DEF S
  <2> QED  BY <1>3, <1>5, DownwardInduction
<1>7. n \in DOMAIN u /\ i \in S  BY <1>6 DEF u
<1> QED  BY <1>7

-------------------------------------------------------------------------------
(* The inductive invariant: whatever was added, in whatever order, the nodes  *)
(* make a tree.                                                             *)
TreeInv == Tree(tree) /\ notFoundHandler \in {Nobody, NotFound}

LEMMA PathsType == Paths \subseteq Seq(Seq(Char))
<1> SUFFICES ASSUME NEW t \in Target
             PROVE  Segments(PathPart(t)) \subseteq Seq(Seq(Char))
  BY DEF Paths
<1>1. t \in Seq(Char)  BY RouterAssumption
<1>2. Find_(t, "?", 1) \in 1 .. Len(t) + 1
  <2>1. 1 \in 1 .. Len(t) + 1  BY <1>1
  <2> QED  BY <1>1, <2>1, FindType
<1>3. PathPart(t) \in Seq(Char)
  <2>1. Find_(t, "?", 1) - 1 \in 0 .. Len(t)  BY <1>1, <1>2
  <2>2. SubSeq(t, 1, Find_(t, "?", 1) - 1) \in Seq(Char)  BY <1>1, <2>1, PrefixOf
  <2> QED  BY <2>2 DEF PathPart
<1> QED  BY <1>3, SegmentsType

LEMMA AddIs ==
  ASSUME NEW t \in Text, NEW h \in Handler, Add(t, h)
  PROVE  \E r \in Routes :
           /\ IsRoute(r) /\ tree' = WithRoute(tree, r, h)
           /\ UNCHANGED <<notFoundHandler, asked, answer>>
<1>1. PICK s \in Segments(t) : AddRoute(Keys(s), h)  BY DEF Add
<1>2. t \in Seq(Char)  BY RouterAssumption
<1>3. IsRoute(Keys(s))  BY <1>2, KeysType
<1>4. tree' = WithRoute(tree, Keys(s), h)  BY <1>1 DEF AddRoute, Kept, WithRoute
<1>5. Keys(s) \in Routes  BY DEF Routes
<1> QED  BY <1>1, <1>3, <1>4, <1>5 DEF AddRoute

LEMMA InitHolds == Init => TreeInv
<1> SUFFICES ASSUME Init PROVE TreeInv
  OBVIOUS
<1>1. /\ DOMAIN tree = {<<>>} /\ tree[<<>>] = Nobody /\ tree = [n \in DOMAIN tree |-> tree[n]]
  BY DEF Init
<1>2. /\ <<>> \in Seq(Names_) /\ Len(<<>>) = 0
      /\ \A k \in 0 .. 0 : SubSeq(<<>>, 1, k) = <<>>
  OBVIOUS
<1>3. Tree(tree)
  BY <1>1, <1>2 DEF Tree
<1> QED  BY <1>3 DEF TreeInv, Init

LEMMA NextKeeps == TreeInv /\ [Next]_vars => TreeInv'
<1> SUFFICES ASSUME TreeInv, [Next]_vars PROVE TreeInv'
  OBVIOUS
<1>1. ASSUME NEW t \in Text, NEW h \in Handler, Add(t, h)
      PROVE  TreeInv'
  <2>1. PICK r \in Routes :
          IsRoute(r) /\ tree' = WithRoute(tree, r, h) /\ UNCHANGED notFoundHandler
    BY <1>1, AddIs
  <2>2. Tree(WithRoute(tree, r, h))
    <3>1. Tree(tree) /\ IsRoute(r)  BY <2>1 DEF TreeInv
    <3> QED  BY <3>1, AddKeepsTree
  <2>3. Tree(tree')  BY <2>1, <2>2
  <2>4. Tree(tree)'  BY <2>3 DEF Tree
  <2> QED  BY <2>1, <2>4 DEF TreeInv
<1>2. CASE UNCHANGED tree /\ notFoundHandler' \in {Nobody, NotFound}
  BY <1>2 DEF TreeInv, Tree
<1>3. CASE SetNotFound
  BY <1>2, <1>3 DEF SetNotFound
<1>4. ASSUME NEW t \in Target, Handle(t)
      PROVE  TreeInv'
  BY <1>2, <1>4 DEF Handle, HandlePath, TreeInv
<1>5. CASE UNCHANGED vars
  BY <1>2, <1>5 DEF vars, TreeInv
<1> QED  BY <1>1, <1>3, <1>4, <1>5 DEF Next

LEMMA TreeHolds == Spec => []TreeInv
BY InitHolds, NextKeeps, PTL DEF Spec

(* Router::add shares the nodes of routes with a common beginning and        *)
(* replaces none: for every set of routes, added in every order, no path     *)
(* loses its handler, and none gets another but the one just added.          *)
THEOREM AddingLosesNothing == Spec => AddLosesNothing
<1>1. ASSUME TreeInv, Next, tree' # tree, NEW p \in Paths
      PROVE  LET before == Find(p)
                 after == FindIn(tree', p)
             IN after # before =>
                  /\ after # {}
                  /\ \A n \in after : n \in DOMAIN tree => tree[n] = Nobody
  <2>1. PICK t \in Text, h \in Handler : Add(t, h)
    BY <1>1 DEF Next, SetNotFound, Handle, HandlePath
  <2>a. PICK r \in Routes : IsRoute(r) /\ tree' = WithRoute(tree, r, h)
    BY <2>1, AddIs
  <2> DEFINE u == WithRoute(tree, r, h)
  <2>2. tree' = u /\ IsRoute(r)  BY <2>a
  <2>3. Tree(tree) /\ Tree(u)
    <3>1. Tree(tree)  BY <1>1 DEF TreeInv
    <3> QED  BY <2>2, <3>1, AddKeepsTree
  <2>4. /\ DOMAIN tree \in SUBSET Seq(Names_) /\ DOMAIN u \in SUBSET Seq(Names_)
        /\ <<>> \in DOMAIN tree /\ <<>> \in DOMAIN u
    BY <2>3 DEF Tree
  <2>5. p \in Seq(Seq(Char)) /\ 1 \in 1 .. Len(p) + 1  BY PathsType
  <2> HIDE DEF u
  <2>6. PICK f : IsSearch(f, tree, p) /\ FindIn(tree, p) = f[<<<<>>, 1>>]
    BY <2>4, <2>5, FindIsSearch
  <2>7. PICK f2 : IsSearch(f2, u, p) /\ FindIn(u, p) = f2[<<<<>>, 1>>]
    BY <2>4, <2>5, FindIsSearch
  <2>8. \/ f2[<<<<>>, 1>>] = IF <<>> \in DOMAIN tree THEN f[<<<<>>, 1>>] ELSE {}
        \/ f2[<<<<>>, 1>>] = {r} /\ (r \in DOMAIN tree => tree[r] = Nobody)
    <3>1. IsSearch(f2, WithRoute(tree, r, h), p) /\ <<>> \in DOMAIN WithRoute(tree, r, h)
      BY <2>4, <2>7 DEF u
    <3> QED  BY <2>2, <2>3, <2>5, <2>6, <3>1, SearchAfterAdd
  <2>9. Find(p) = f[<<<<>>, 1>>] /\ FindIn(tree', p) = f2[<<<<>>, 1>>]
    BY <2>2, <2>6, <2>7 DEF Find
  <2>10. {r} # {}  OBVIOUS
  <2> QED  BY <2>4, <2>8, <2>9, <2>10
<1> DEFINE Lost == tree' # tree =>
                     \A p \in Paths :
                       LET before == Find(p)
                           after == FindIn(tree', p)
                       IN after # before =>
                            /\ after # {}
                            /\ \A n \in after : n \in DOMAIN tree => tree[n] = Nobody
<1>2. TreeInv /\ [Next]_vars => [Lost]_vars
  <2>1. TreeInv /\ Next => Lost  BY <1>1
  <2> HIDE DEF Lost
  <2> QED  BY <2>1
<1>3. Spec => [][Lost]_vars
  <2> HIDE DEF Lost
  <2> QED  BY <1>2, TreeHolds, PTL DEF Spec
<1> QED  BY <1>3 DEF AddLosesNothing

-------------------------------------------------------------------------------
(* How a node's route can be followed from one of its ancestors on: w says    *)
(* where in the path each step ends, from the i-th segment on, that the steps *)
(* behind the d-th take.  The names are those of RouteTable.                 *)
EndAt(w, k, d, i) == IF k = d THEN i - 1 ELSE w[k]

StepFits(w, m, k, d, i, p) ==
  /\ w[k] \in 1 .. Len(p) /\ EndAt(w, k - 1, d, i) < w[k]
  /\ m[k] # Wild => w[k] = EndAt(w, k - 1, d, i) + 1
  /\ Literal(m[k]) => p[w[k]] = m[k]

Leads(tr, p, n, i, m, w) ==
  /\ m \in DOMAIN tr /\ tr[m] # Nobody
  /\ Len(n) <= Len(m) /\ SubSeq(m, 1, Len(n)) = n
  /\ w = [k \in 1 .. Len(m) |-> w[k]]
  /\ EndAt(w, Len(m), Len(n), i) = Len(p)
  /\ \A k \in Len(n) + 1 .. Len(m) : StepFits(w, m, k, Len(n), i, p)

StepCost(w, m, k, d, i) ==
  IF m[k] = Wild THEN 1 + w[k] - EndAt(w, k - 1, d, i) ELSE IF m[k] = Param THEN 1 ELSE 0

Ahead(m, w, m2, w2, d, i) ==
  \E k \in d + 1 .. Len(m) :
    /\ k <= Len(m2) /\ StepCost(w, m, k, d, i) < StepCost(w2, m2, k, d, i)
    /\ \A j \in d + 1 .. k - 1 : StepCost(w, m, j, d, i) = StepCost(w2, m2, j, d, i)

Same(m, w, m2, w2, d) == m = m2 /\ \A k \in d + 1 .. Len(m) : w[k] = w2[k]

(* What find_ is to return from n on: the best way on.                       *)
BestWay(tr, p, n, i, m, w) ==
  /\ Leads(tr, p, n, i, m, w)
  /\ \A m2, w2 : Leads(tr, p, n, i, m2, w2) =>
       Same(m, w, m2, w2, Len(n)) \/ Ahead(m, w, m2, w2, Len(n), i)
FindsBest(tr, p, f, n, i) ==
  \/ f[<<n, i>>] = {} /\ \A m, w : ~Leads(tr, p, n, i, m, w)
  \/ \E m, w : f[<<n, i>>] = {m} /\ BestWay(tr, p, n, i, m, w)

-------------------------------------------------------------------------------
(* Every way on begins with one of the children that are tried, of which     *)
(* those tried first cost least.                                            *)
FirstTry(tr, p, n, i, m, w, k) ==
  LET t == Tries(n, p, i) IN
  /\ k \in DOMAIN t /\ t[k][1] \in DOMAIN tr
  /\ t[k] = <<SubSeq(m, 1, Len(n) + 1), w[Len(n) + 1] + 1>>
  /\ Len(n) + 1 \in 1 .. Len(m)
  /\ StepCost(w, m, Len(n) + 1, Len(n), i) = k - Literals(p, i)

LEMMA WayBegins ==
  ASSUME NEW tr, Tree(tr), NEW p \in Seq(Seq(Char)), NEW n \in DOMAIN tr,
         NEW i \in 1 .. Len(p), NEW m, NEW w, Leads(tr, p, n, i, m, w)
  PROVE  \E k : FirstTry(tr, p, n, i, m, w, k)
<1> DEFINE d == Len(n)
           t == Tries(n, p, i)
           L == Literals(p, i)
           s == m[d + 1]
           e == w[d + 1]
<1>1. /\ n \in Seq(Names_) /\ m \in Seq(Names_) /\ m \in DOMAIN tr
      /\ d \in Nat /\ Len(m) \in Nat /\ Len(p) \in Nat /\ i \in Nat /\ i <= Len(p)
  BY DEF Tree, Leads
<1>2. d <= Len(m) /\ SubSeq(m, 1, d) = n /\ EndAt(w, Len(m), d, i) = Len(p)
  BY DEF Leads
<1>3. d < Len(m)
  <2>1. Len(m) # d  BY <1>1, <1>2 DEF EndAt
  <2> HIDE DEF d
  <2> QED  BY <1>1, <1>2, <2>1
<1>4. StepFits(w, m, d + 1, d, i, p)
  <2>1. d + 1 \in d + 1 .. Len(m)  BY <1>1, <1>3
  <2> QED  BY <2>1 DEF Leads
<1>5. EndAt(w, (d + 1) - 1, d, i) = i - 1
  BY <1>1 DEF EndAt
<1>6. /\ e \in 1 .. Len(p) /\ i - 1 < e
      /\ s # Wild => e = i
      /\ Literal(s) => p[e] = s
  <2> HIDE DEF d
  <2> QED  BY <1>1, <1>4, <1>5 DEF StepFits
<1>7. d + 1 \in 1 .. Len(m) /\ IsKey(s)
  <2>1. d + 1 \in 1 .. Len(m)  BY <1>1, <1>3
  <2> HIDE DEF d
  <2> QED  BY <1>1, <2>1 DEF Tree
<1>8. SubSeq(m, 1, d + 1) = Append(n, s) /\ SubSeq(m, 1, d + 1) \in DOMAIN tr
  <2>1. SubSeq(m, 1, d + 1) = Append(n, s)
    <3> HIDE DEF d
    <3>1. m \in Seq(Names_) /\ d \in Nat /\ d + 1 <= Len(m)  BY <1>1, <1>3
    <3>2. SubSeq(m, 1, d + 1) = Append(SubSeq(m, 1, d), m[d + 1])
      BY <3>1, OneMore
    <3> QED  BY <1>2, <3>2
  <2>2. d + 1 \in 0 .. Len(m)  BY <1>7
  <2> HIDE DEF d
  <2> QED  BY <1>1, <2>1, <2>2 DEF Tree
<1>9. /\ DOMAIN t = 1 .. L + 1 + (Len(p) - i + 1)
      /\ \A k \in DOMAIN t : t[k] = Try(n, p, i, k)
  BY <1>1, TriesAre
<1>10. L \in {0, 1}  BY DEF Literals
<1>11. StepCost(w, m, d + 1, d, i) =
         IF s = Wild THEN 1 + e - (i - 1) ELSE IF s = Param THEN 1 ELSE 0
  BY <1>5 DEF StepCost
<1>12. Param # Wild
  BY DEF Param, Wild
<1> SUFFICES \E k \in DOMAIN t : /\ t[k] = <<Append(n, s), e + 1>>
                                 /\ StepCost(w, m, d + 1, d, i) = k - L
  <2> HIDE DEF t, d, L, s, e
  <2>1. ASSUME NEW k \in DOMAIN t, t[k] = <<Append(n, s), e + 1>>,
               StepCost(w, m, d + 1, d, i) = k - L
        PROVE  FirstTry(tr, p, n, i, m, w, k)
    <3>1. t[k][1] = Append(n, s)  BY <2>1
    <3>2. t[k][1] \in DOMAIN tr  BY <1>8, <3>1
    <3> QED  BY <1>7, <1>8, <2>1, <3>2 DEF FirstTry, t, d, L, e
  <2> QED  BY <2>1
<1>13. CASE s = Wild
  <2> DEFINE k == L + 1 + (e - (i - 1))
  <2> HIDE DEF e, t, L
  <2>0. /\ i \in Nat /\ Len(p) \in Nat /\ e \in Nat /\ e <= Len(p) /\ i <= e /\ i >= 1
        /\ L \in Nat
    BY <1>1, <1>6, <1>10
  <2>1. k \in DOMAIN t
    <3>1. k \in 1 .. L + 1 + (Len(p) - i + 1)  BY <2>0
    <3> QED  BY <1>9, <3>1
  <2>2. ~(k <= L) /\ k # L + 1 /\ i + (k - (L + 1)) = e + 1
    BY <2>0
  <2>3. t[k] = <<Append(n, s), e + 1>>
    <3>1. t[k] = Try(n, p, i, k)  BY <1>9, <2>1
    <3> HIDE DEF k, s
    <3> QED  BY <1>13, <2>2, <3>1 DEF Try, L
  <2>4. StepCost(w, m, d + 1, d, i) = k - L
    <3> HIDE DEF s
    <3> QED  BY <2>0, <1>11, <1>13
  <2> HIDE DEF k
  <2> QED  BY <2>1, <2>3, <2>4
<1>14. CASE s = Param
  <2> DEFINE k == L + 1
  <2> HIDE DEF e, t
  <2>1. k \in DOMAIN t  BY <1>1, <1>9, <1>10
  <2>2. ~(k <= L) /\ k - L = 1  BY <1>10
  <2>3. e = i  BY <1>6, <1>12, <1>14
  <2>4. t[k] = <<Append(n, s), e + 1>>
    <3>1. t[k] = Try(n, p, i, k)  BY <1>9, <2>1
    <3> HIDE DEF s, k
    <3> QED  BY <1>14, <2>2, <2>3, <3>1 DEF Try, k
  <2>5. StepCost(w, m, d + 1, d, i) = k - L
    <3> HIDE DEF s
    <3> QED  BY <1>11, <1>12, <1>14, <2>2
  <2> HIDE DEF k
  <2> QED  BY <2>1, <2>4, <2>5
<1>15. CASE Literal(s)
  <2> HIDE DEF e, t, s
  <2>1. s # Wild /\ s # Param
    BY <1>15 DEF Literal, Key, Param
  <2>2. e = i /\ p[i] = s  BY <1>6, <1>15, <2>1
  <2>3. L = 1  BY <1>15, <2>2 DEF Literals
  <2>4. 1 \in DOMAIN t  BY <1>1, <1>9, <2>3
  <2>5. t[1] = <<Append(n, s), e + 1>>
    <3>1. t[1] = Try(n, p, i, 1)  BY <1>9, <2>4
    <3> QED  BY <2>2, <2>3, <3>1 DEF Try
  <2>6. StepCost(w, m, d + 1, d, i) = 1 - L
    BY <1>11, <2>1, <2>3
  <2> QED  BY <2>4, <2>5, <2>6
<1> QED  BY <1>7, <1>13, <1>14, <1>15 DEF IsKey

(* Behind its first step, a way is one from the child on. *)
LEMMA WayGoesOn ==
  ASSUME NEW tr, Tree(tr), NEW p \in Seq(Seq(Char)), NEW n \in DOMAIN tr,
         NEW i \in 1 .. Len(p), NEW m, NEW w, Leads(tr, p, n, i, m, w),
         NEW k, FirstTry(tr, p, n, i, m, w, k)
  PROVE  /\ Leads(tr, p, Tries(n, p, i)[k][1], Tries(n, p, i)[k][2], m, w)
         /\ Len(Tries(n, p, i)[k][1]) = Len(n) + 1
         /\ \A j \in Len(n) + 2 .. Len(m) :
              StepCost(w, m, j, Len(n) + 1, Tries(n, p, i)[k][2])
                = StepCost(w, m, j, Len(n), i)
<1> DEFINE d == Len(n)
           a == Tries(n, p, i)[k][1]
           i2 == Tries(n, p, i)[k][2]
<1>1. /\ m \in Seq(Names_) /\ d \in Nat /\ Len(m) \in Nat /\ d + 1 \in 1 .. Len(m)
      /\ a = SubSeq(m, 1, d + 1) /\ i2 = w[d + 1] + 1
  <2>1. m \in Seq(Names_) /\ d \in Nat /\ Len(m) \in Nat  BY DEF Tree, Leads
  <2>2. /\ Tries(n, p, i)[k] = <<SubSeq(m, 1, d + 1), w[d + 1] + 1>>
        /\ d + 1 \in 1 .. Len(m)
    BY DEF FirstTry
  <2> QED  BY <2>1, <2>2
<1>2. Len(a) = d + 1
  <2>1. d + 1 \in 0 .. Len(m)  BY <1>1
  <2>2. Len(SubSeq(m, 1, d + 1)) = d + 1  BY <1>1, <2>1, PrefixOf
  <2> QED  BY <1>1, <2>2
<1>3. /\ m \in DOMAIN tr /\ tr[m] # Nobody /\ w = [x \in 1 .. Len(m) |-> w[x]]
      /\ EndAt(w, Len(m), d, i) = Len(p)
      /\ \A x \in d + 1 .. Len(m) : StepFits(w, m, x, d, i, p)
  BY DEF Leads
<1> HIDE DEF d, a, i2
<1>4. w[d + 1] \in Int
  <2>1. d + 1 \in d + 1 .. Len(m)  BY <1>1
  <2>2. StepFits(w, m, d + 1, d, i, p)  BY <1>3, <2>1
  <2>3. w[d + 1] \in 1 .. Len(p)  BY <2>2 DEF StepFits
  <2> QED  BY <2>3
<1>5. \A x \in Int : x >= d + 1 => EndAt(w, x, d, i) = w[x] /\ EndAt(w, x, d + 1, i2) = w[x]
  BY <1>1, <1>4 DEF EndAt
<1>6. EndAt(w, Len(m), d + 1, i2) = Len(p)
  BY <1>1, <1>3, <1>5
<1>7. ASSUME NEW x \in d + 2 .. Len(m)
      PROVE  EndAt(w, x - 1, d + 1, i2) = EndAt(w, x - 1, d, i)
  <2>1. x - 1 \in Int /\ x - 1 >= d + 1  BY <1>1
  <2> QED  BY <1>5, <2>1
<1>8. ASSUME NEW x \in (d + 1) + 1 .. Len(m)
      PROVE  StepFits(w, m, x, d + 1, i2, p)
  <2>1. x \in d + 2 .. Len(m) /\ x \in d + 1 .. Len(m)  BY <1>1
  <2>2. StepFits(w, m, x, d, i, p)  BY <1>3, <2>1
  <2>3. EndAt(w, x - 1, d + 1, i2) = EndAt(w, x - 1, d, i)  BY <1>7, <2>1
  <2> QED  BY <2>2, <2>3 DEF StepFits
<1>9. \A j \in d + 2 .. Len(m) : StepCost(w, m, j, d + 1, i2) = StepCost(w, m, j, d, i)
  BY <1>7 DEF StepCost
<1>10. Leads(tr, p, a, i2, m, w)
  <2>1. d + 1 <= Len(m)  BY <1>1
  <2> QED  BY <1>1, <1>2, <1>3, <1>6, <1>8, <2>1 DEF Leads
<1> QED  BY <1>2, <1>9, <1>10 DEF d, a, i2

(* A way on from a child is one from the node on, with that child first.     *)
Lengthened(tr, p, n, i, m, w, k) ==
  \E v : /\ Leads(tr, p, n, i, m, v) /\ FirstTry(tr, p, n, i, m, v, k)
         /\ \A j \in Len(n) + 2 .. Len(m) :
              /\ v[j] = w[j]
              /\ StepCost(v, m, j, Len(n), i)
                   = StepCost(w, m, j, Len(n) + 1, Tries(n, p, i)[k][2])

LEMMA WayBack ==
  ASSUME NEW tr, Tree(tr), NEW p \in Seq(Seq(Char)), NEW n \in DOMAIN tr,
         NEW i \in 1 .. Len(p), NEW k \in DOMAIN Tries(n, p, i),
         Tries(n, p, i)[k][1] \in DOMAIN tr, NEW m, NEW w,
         Leads(tr, p, Tries(n, p, i)[k][1], Tries(n, p, i)[k][2], m, w)
  PROVE  Lengthened(tr, p, n, i, m, w, k)
<1> DEFINE d == Len(n)
           t == Tries(n, p, i)
           a == t[k][1]
           i2 == t[k][2]
           L == Literals(p, i)
           v == [x \in 1 .. Len(m) |-> IF x = d + 1 THEN i2 - 1 ELSE w[x]]
<1>1. /\ n \in Seq(Names_) /\ m \in Seq(Names_) /\ m \in DOMAIN tr /\ tr[m] # Nobody
      /\ d \in Nat /\ Len(m) \in Nat /\ Len(p) \in Nat /\ i \in Nat /\ i <= Len(p) /\ 1 <= i
  BY DEF Tree, Leads
<1>2. /\ DOMAIN t = 1 .. L + 1 + (Len(p) - i + 1)
      /\ t[k] = Try(n, p, i, k)
      /\ t[k] \in Seq(Names_) \X (i + 1 .. Len(p) + 1)
  BY <1>1, TriesAre
<1>3. L \in {0, 1} /\ k \in 1 .. L + 1 + (Len(p) - i + 1)
  <2>1. L \in {0, 1}  BY DEF Literals
  <2>2. k \in DOMAIN t  OBVIOUS
  <2>3. k \in 1 .. L + 1 + (Len(p) - i + 1)  BY <1>2, <2>2
  <2> QED  BY <2>1, <2>3
<1> DEFINE s == IF k <= L THEN p[i] ELSE IF k = L + 1 THEN Param ELSE Wild
<1>4. /\ a = Append(n, s) /\ i2 = IF k <= L + 1 THEN i + 1 ELSE i + (k - (L + 1))
      /\ s \in Names_ /\ i2 \in i + 1 .. Len(p) + 1 /\ t[k] = <<a, i2>>
  <2>1. p[i] \in Names_ /\ Param \in Names_ /\ Wild \in Names_  BY DEF Names_
  <2>2. Try(n, p, i, k) =
          <<Append(n, s), IF k <= L + 1 THEN i + 1 ELSE i + (k - (L + 1))>>
    <3>1. k \in Int /\ L \in Int /\ (k <= L => k <= L + 1) /\ (k = L + 1 => k <= L + 1)
      BY <1>3
    <3>2. ~(k <= L) /\ k # L + 1 => ~(k <= L + 1)
      <4> HIDE DEF L
      <4> QED  BY <1>3
    <3>3. CASE k <= L
      BY <3>1, <3>3 DEF Try
    <3>4. CASE ~(k <= L) /\ k = L + 1
      BY <3>1, <3>4 DEF Try
    <3>5. CASE ~(k <= L) /\ k # L + 1
      BY <3>2, <3>5 DEF Try
    <3> QED  BY <3>3, <3>4, <3>5
  <2>3. i2 \in i + 1 .. Len(p) + 1  BY <1>2
  <2> HIDE DEF t, L
  <2> QED  BY <1>2, <2>1, <2>2, <2>3
<1>5. /\ Len(a) <= Len(m) /\ SubSeq(m, 1, Len(a)) = a
      /\ EndAt(w, Len(m), Len(a), i2) = Len(p)
      /\ \A x \in Len(a) + 1 .. Len(m) : StepFits(w, m, x, Len(a), i2, p)
  BY DEF Leads
<1>6. Literal(p[i]) <=> L = 1
  BY DEF Literals
<1>7. Len(a) = d + 1 /\ a[d + 1] = s /\ SubSeq(a, 1, d) = n
  <2> HIDE DEF s, a
  <2> QED  BY <1>1, <1>4, AppendPrefix
<1> HIDE DEF t, a, i2, L, s
<1>8. d + 1 \in 1 .. Len(m) /\ m[d + 1] = s /\ SubSeq(m, 1, d) = n
  <2>1. d + 1 \in 1 .. Len(m) /\ d + 1 \in 0 .. Len(m) /\ d \in 0 .. d + 1
    BY <1>1, <1>5, <1>7
  <2>2. SubSeq(m, 1, d + 1) = a  BY <1>5, <1>7
  <2>3. SubSeq(SubSeq(m, 1, d + 1), 1, d) = SubSeq(m, 1, d)
    <3> HIDE DEF d
    <3> QED  BY <1>1, <2>1, PrefixOfPrefix
  <2>4. SubSeq(m, 1, d + 1)[d + 1] = m[d + 1]
    <3>1. d + 1 \in 1 .. d + 1  BY <1>1
    <3> HIDE DEF d
    <3> QED  BY <1>1, <2>1, <3>1, PrefixOf
  <2> QED  BY <1>7, <2>1, <2>2, <2>3, <2>4
<1>9. /\ v = [x \in 1 .. Len(m) |-> v[x]] /\ v[d + 1] = i2 - 1
      /\ \A x \in 1 .. Len(m) : x # d + 1 => v[x] = w[x]
  <2>1. d + 1 \in 1 .. Len(m)  BY <1>8
  <2> HIDE DEF d
  <2> QED  BY <2>1
<1> HIDE DEF v, d
<1>10. \A x \in 1 .. Len(m) : x >= d + 1 => EndAt(v, x, d, i) = EndAt(w, x, d + 1, i2)
  <2> SUFFICES ASSUME NEW x \in 1 .. Len(m), x >= d + 1
               PROVE  EndAt(v, x, d, i) = EndAt(w, x, d + 1, i2)
    OBVIOUS
  <2>1. x # d  BY <1>1
  <2>2. CASE x = d + 1
    BY <1>9, <2>1, <2>2 DEF EndAt
  <2>3. CASE x # d + 1
    BY <1>9, <2>1, <2>3 DEF EndAt
  <2> QED  BY <2>2, <2>3
<1>11. EndAt(v, Len(m), d, i) = Len(p)
  <2>1. Len(m) \in 1 .. Len(m) /\ Len(m) >= d + 1  BY <1>1, <1>8
  <2> QED  BY <1>5, <1>7, <1>10, <2>1
<1>12. /\ EndAt(v, (d + 1) - 1, d, i) = i - 1
       /\ StepCost(v, m, d + 1, d, i)
            = IF s = Wild THEN 1 + (i2 - 1) - (i - 1) ELSE IF s = Param THEN 1 ELSE 0
  <2>1. EndAt(v, (d + 1) - 1, d, i) = i - 1  BY <1>1 DEF EndAt
  <2> QED  BY <1>8, <1>9, <2>1 DEF StepCost
<1>13. /\ s # Wild => i2 - 1 = i
       /\ Literal(s) => i2 - 1 = i /\ p[i] = s
       /\ (IF s = Wild THEN 1 + (i2 - 1) - (i - 1) ELSE IF s = Param THEN 1 ELSE 0) = k - L
  <2>0. Param # Wild /\ ~Literal(Param) /\ ~Literal(Wild)
    BY DEF Literal, Key, Param, Wild
  <2>1. CASE k <= L
    <3>1. k = 1 /\ L = 1 /\ k <= L + 1  BY <1>3, <2>1
    <3>2. s = p[i] /\ Literal(p[i])  BY <1>6, <2>1, <3>1 DEF s
    <3>3. s # Wild /\ s # Param  BY <2>0, <3>2
    <3> QED  BY <1>1, <1>4, <3>1, <3>2, <3>3
  <2>2. CASE k = L + 1
    <3>1. ~(k <= L) /\ k <= L + 1 /\ k - L = 1  BY <1>3, <2>2
    <3>2. s = Param  BY <2>2, <3>1 DEF s
    <3> QED  BY <1>1, <1>4, <2>0, <3>1, <3>2
  <2>3. CASE k > L + 1
    <3>1. ~(k <= L) /\ ~(k <= L + 1) /\ k # L + 1  BY <1>3, <2>3
    <3>2. s = Wild  BY <3>1 DEF s
    <3>3. i2 = i + (k - (L + 1))  BY <1>4, <3>1
    <3>4. 1 + (i2 - 1) - (i - 1) = k - L
      <4>1. i \in Int /\ k \in Int /\ L \in Int  BY <1>1, <1>3
      <4> QED  BY <3>3, <4>1
    <3> QED  BY <2>0, <3>2, <3>4
  <2>4. k <= L \/ k = L + 1 \/ k > L + 1  BY <1>3
  <2> QED  BY <2>1, <2>2, <2>3, <2>4
<1>14. StepFits(v, m, d + 1, d, i, p)
  <2>1. i2 - 1 \in 1 .. Len(p) /\ i - 1 < i2 - 1
    <3>1. i2 \in i + 1 .. Len(p) + 1  BY <1>4
    <3>2. i \in Nat /\ 1 <= i /\ Len(p) \in Nat  BY <1>1
    <3> QED  BY <3>1, <3>2
  <2>2. m[d + 1] # Wild => v[d + 1] = (i - 1) + 1
    BY <1>1, <1>8, <1>9, <1>13
  <2>3. Literal(m[d + 1]) => p[v[d + 1]] = m[d + 1]
    BY <1>8, <1>9, <1>13
  <2> QED  BY <1>9, <1>12, <2>1, <2>2, <2>3 DEF StepFits
<1>15. ASSUME NEW x \in d + 1 .. Len(m)
       PROVE  StepFits(v, m, x, d, i, p)
  <2>1. CASE x = d + 1
    BY <1>14, <2>1
  <2>2. CASE x # d + 1
    <3>1. x \in Len(a) + 1 .. Len(m) /\ x \in 1 .. Len(m) /\ x - 1 \in 1 .. Len(m) /\ x - 1 >= d + 1
      BY <1>1, <1>7, <2>2
    <3>2. StepFits(w, m, x, d + 1, i2, p)  BY <1>5, <1>7, <3>1
    <3>3. v[x] = w[x] /\ EndAt(v, x - 1, d, i) = EndAt(w, x - 1, d + 1, i2)
      BY <1>9, <1>10, <2>2, <3>1
    <3> QED  BY <3>2, <3>3 DEF StepFits
  <2> QED  BY <2>1, <2>2
<1>16. Leads(tr, p, n, i, m, v)
  <2>1. d <= Len(m)  BY <1>1, <1>8
  <2> QED  BY <1>1, <1>8, <1>9, <1>11, <1>15, <2>1 DEF Leads, d
<1>17. FirstTry(tr, p, n, i, m, v, k)
  <2>1. t[k] = <<SubSeq(m, 1, d + 1), v[d + 1] + 1>>
    <3>1. v[d + 1] + 1 = i2  BY <1>1, <1>4, <1>9
    <3> QED  BY <1>4, <1>5, <1>7, <3>1
  <2>2. StepCost(v, m, d + 1, d, i) = k - L  BY <1>12, <1>13
  <2> QED  BY <1>8, <2>1, <2>2 DEF FirstTry, d, t, L
<1>18. ASSUME NEW j \in d + 2 .. Len(m)
       PROVE  v[j] = w[j] /\ StepCost(v, m, j, d, i) = StepCost(w, m, j, d + 1, i2)
  <2>1. j \in 1 .. Len(m) /\ j # d + 1 /\ j - 1 \in 1 .. Len(m) /\ j - 1 >= d + 1
    BY <1>1
  <2>2. v[j] = w[j] /\ EndAt(v, j - 1, d, i) = EndAt(w, j - 1, d + 1, i2)
    BY <1>9, <1>10, <2>1
  <2> QED  BY <2>2 DEF StepCost
<1> QED  BY <1>16, <1>17, <1>18 DEF d, t, i2, Lengthened


-------------------------------------------------------------------------------
(* Where the path ends, the only way on is to stay. *)
LEMMA BestAtTheEnd ==
  ASSUME NEW tr, Tree(tr), NEW p \in Seq(Seq(Char)), NEW f, IsSearch(f, tr, p),
         NEW n \in DOMAIN tr
  PROVE  FindsBest(tr, p, f, n, Len(p) + 1)
<1> DEFINE i == Len(p) + 1
           d == Len(n)
           w == [k \in 1 .. Len(n) |-> k]
<1>1. /\ n \in Seq(Names_) /\ DOMAIN tr \in SUBSET Seq(Names_)
      /\ d \in Nat /\ Len(p) \in Nat /\ i \in 1 .. Len(p) + 1
  BY DEF Tree
<1>2. f[<<n, i>>] = IF tr[n] # Nobody THEN {n} ELSE {}
  <2>1. Searched(f, tr, p, n, i, Tries(n, p, i))  BY <1>1, SearchStep
  <2> QED  BY <2>1 DEF Searched
<1>3. ASSUME NEW m, NEW w2, Leads(tr, p, n, i, m, w2)
      PROVE  m = n /\ tr[n] # Nobody
  <2>1. /\ m \in Seq(Names_) /\ m \in DOMAIN tr /\ tr[m] # Nobody /\ Len(m) \in Nat
        /\ d <= Len(m) /\ SubSeq(m, 1, d) = n
        /\ \A k \in d + 1 .. Len(m) : StepFits(w2, m, k, d, i, p)
    BY <1>3 DEF Tree, Leads
  <2>2. Len(m) = d
    <3> SUFFICES ASSUME d < Len(m) PROVE FALSE
      BY <1>1, <2>1
    <3>1. StepFits(w2, m, d + 1, d, i, p)
      <4>1. d + 1 \in d + 1 .. Len(m)  BY <1>1, <2>1
      <4> QED  BY <2>1, <4>1
    <3>2. w2[d + 1] \in 1 .. Len(p) /\ EndAt(w2, (d + 1) - 1, d, i) < w2[d + 1]
      BY <3>1 DEF StepFits
    <3>3. EndAt(w2, (d + 1) - 1, d, i) = i - 1  BY <1>1 DEF EndAt
    <3> QED  BY <1>1, <3>2, <3>3
  <2>3. m = n
    <3>1. d \in 0 .. Len(m)  BY <1>1, <2>1
    <3>2. n \in Seq(Names_) /\ Len(n) = Len(m) /\ \A k \in 1 .. Len(m) : n[k] = m[k]
      BY <1>1, <2>1, <2>2, <3>1, PrefixOf
    <3> QED  BY <2>1, <3>2, SeqEqual
  <2> QED  BY <2>1, <2>3
<1>4. CASE tr[n] = Nobody
  <2>1. \A m, w2 : ~Leads(tr, p, n, i, m, w2)  BY <1>3, <1>4
  <2> QED  BY <1>2, <1>4, <2>1 DEF FindsBest
<1>5. CASE tr[n] # Nobody
  <2>1. /\ w = [k \in 1 .. Len(n) |-> w[k]]
        /\ d <= Len(n) /\ SubSeq(n, 1, d) = n
        /\ EndAt(w, Len(n), d, i) = Len(p)
        /\ \A k \in d + 1 .. Len(n) : StepFits(w, n, k, d, i, p)
    <3>1. SubSeq(n, 1, d) = n
      <4>1. d \in 0 .. Len(n)  BY <1>1
      <4>2. /\ SubSeq(n, 1, d) \in Seq(Names_) /\ Len(SubSeq(n, 1, d)) = d
            /\ \A k \in 1 .. d : SubSeq(n, 1, d)[k] = n[k]
        BY <1>1, <4>1, PrefixOf
      <4> QED  BY <1>1, <4>2, SeqEqual
    <3>2. EndAt(w, Len(n), d, i) = Len(p)  BY <1>1 DEF EndAt
    <3> QED  BY <1>1, <3>1, <3>2
  <2> HIDE DEF w
  <2>2. Leads(tr, p, n, i, n, w)  BY <1>5, <2>1 DEF Leads
  <2>3. ASSUME NEW m2, NEW w2, Leads(tr, p, n, i, m2, w2)
        PROVE  Same(n, w, m2, w2, d)
    <3>1. m2 = n  BY <1>3, <2>3
    <3> QED  BY <1>1, <3>1 DEF Same
  <2>4. BestWay(tr, p, n, i, n, w)  BY <2>2, <2>3 DEF BestWay
  <2> QED  BY <1>2, <1>5, <2>4 DEF FindsBest
<1> QED  BY <1>4, <1>5

(* A child that is tried without success begins no way on. *)
LEMMA NoWayThere ==
  ASSUME NEW tr, Tree(tr), NEW p \in Seq(Seq(Char)), NEW f, NEW n \in DOMAIN tr,
         NEW i \in 1 .. Len(p), NEW m, NEW w, Leads(tr, p, n, i, m, w),
         NEW k, FirstTry(tr, p, n, i, m, w, k),
         FindsBest(tr, p, f, Tries(n, p, i)[k][1], Tries(n, p, i)[k][2])
  PROVE  f[Tries(n, p, i)[k]] # {}
<1> DEFINE t == Tries(n, p, i)
<1>1. Leads(tr, p, t[k][1], t[k][2], m, w)  BY WayGoesOn
<1>2. t[k] = <<t[k][1], t[k][2]>>  BY DEF FirstTry
<1> HIDE DEF t
<1>3. FindsBest(tr, p, f, t[k][1], t[k][2])  BY DEF t
<1>4. ASSUME NEW x, f[<<t[k][1], t[k][2]>>] = {x} PROVE f[t[k]] # {}
  <2>1. {x} # {}  OBVIOUS
  <2> QED  BY <1>2, <1>4, <2>1
<1>5. f[t[k]] # {}  BY <1>1, <1>3, <1>4 DEF FindsBest
<1> QED  BY <1>5 DEF t

(* Of two ways on, that by the child tried first is ahead, and of two by the *)
(* same child that which is ahead behind it.                                *)
LEMMA FirstIsAhead ==
  ASSUME NEW tr, NEW p \in Seq(Seq(Char)), NEW n \in Seq(Names_), NEW i \in Nat,
         NEW m, NEW w, NEW k, FirstTry(tr, p, n, i, m, w, k),
         NEW m2 \in Seq(Names_), NEW w2, NEW k2, FirstTry(tr, p, n, i, m2, w2, k2),
         k \in Nat, k2 \in Nat, k < k2
  PROVE  Ahead(m, w, m2, w2, Len(n), i)
<1> DEFINE d == Len(n)
           L == Literals(p, i)
<1>1. /\ StepCost(w, m, d + 1, d, i) = k - L /\ StepCost(w2, m2, d + 1, d, i) = k2 - L
      /\ d + 1 \in 1 .. Len(m) /\ d + 1 \in 1 .. Len(m2) /\ d \in Nat
  BY DEF FirstTry
<1>2. L \in {0, 1}  BY DEF Literals
<1> HIDE DEF d, L
<1>3. k - L < k2 - L  BY <1>2
<1>4. d + 1 <= Len(m) /\ d + 1 <= Len(m2) /\ d + 1 \in d + 1 .. Len(m)
  <2>1. d + 1 <= Len(m) /\ d + 1 <= Len(m2)  BY <1>1
  <2> QED  BY <1>1
<1>5. \A j \in d + 1 .. (d + 1) - 1 : FALSE  BY <1>1
<1> QED  BY <1>1, <1>3, <1>4, <1>5 DEF Ahead, d

LEMMA SameFirstStep ==
  ASSUME NEW tr, Tree(tr), NEW p \in Seq(Seq(Char)), NEW n \in DOMAIN tr,
         NEW i \in 1 .. Len(p), NEW k \in DOMAIN Tries(n, p, i),
         NEW m, NEW w, NEW v, Leads(tr, p, n, i, m, v), FirstTry(tr, p, n, i, m, v, k),
         \A j \in Len(n) + 2 .. Len(m) :
           /\ v[j] = w[j]
           /\ StepCost(v, m, j, Len(n), i)
                = StepCost(w, m, j, Len(n) + 1, Tries(n, p, i)[k][2]),
         NEW m2, NEW w2, Leads(tr, p, n, i, m2, w2), FirstTry(tr, p, n, i, m2, w2, k),
         \/ Same(m, w, m2, w2, Len(n) + 1)
         \/ Ahead(m, w, m2, w2, Len(n) + 1, Tries(n, p, i)[k][2])
  PROVE  Same(m, v, m2, w2, Len(n)) \/ Ahead(m, v, m2, w2, Len(n), i)
<1> DEFINE d == Len(n)
           i2 == Tries(n, p, i)[k][2]
<1>1. /\ m \in Seq(Names_) /\ m2 \in Seq(Names_) /\ Len(m) \in Nat /\ Len(m2) \in Nat
      /\ d \in Nat
  BY DEF Tree, Leads
<1>2. /\ i2 = v[d + 1] + 1 /\ i2 = w2[d + 1] + 1
      /\ StepCost(v, m, d + 1, d, i) = StepCost(w2, m2, d + 1, d, i)
      /\ d + 1 <= Len(m) /\ d + 1 <= Len(m2)
  <2>1. /\ i2 = v[d + 1] + 1 /\ i2 = w2[d + 1] + 1
        /\ StepCost(v, m, d + 1, d, i) = StepCost(w2, m2, d + 1, d, i)
        /\ d + 1 \in 1 .. Len(m) /\ d + 1 \in 1 .. Len(m2)
    BY DEF FirstTry
  <2> QED  BY <1>1, <2>1
<1>3. v[d + 1] \in Int /\ w2[d + 1] \in Int
  <2>1. d + 1 \in d + 1 .. Len(m) /\ d + 1 \in d + 1 .. Len(m2)  BY <1>1, <1>2
  <2>2. StepFits(v, m, d + 1, d, i, p)  BY <2>1 DEF Leads
  <2>3. StepFits(w2, m2, d + 1, d, i, p)  BY <2>1 DEF Leads
  <2>4. v[d + 1] \in 1 .. Len(p) /\ w2[d + 1] \in 1 .. Len(p)  BY <2>2, <2>3 DEF StepFits
  <2> QED  BY <2>4
<1>4. \A j \in d + 2 .. Len(m2) : StepCost(w2, m2, j, d + 1, i2) = StepCost(w2, m2, j, d, i)
  BY WayGoesOn
<1>5. \A j \in d + 2 .. Len(m) : v[j] = w[j] /\ StepCost(v, m, j, d, i) = StepCost(w, m, j, d + 1, i2)
  OBVIOUS
<1>6. CASE Same(m, w, m2, w2, d + 1)
  <2>1. m = m2 /\ \A j \in (d + 1) + 1 .. Len(m) : w[j] = w2[j]  BY <1>6 DEF Same
  <2> HIDE DEF d, i2
  <2>2. ASSUME NEW j \in d + 1 .. Len(m) PROVE v[j] = w2[j]
    <3>1. CASE j = d + 1
      <4>1. v[d + 1] + 1 = w2[d + 1] + 1  BY <1>2
      <4>2. v[d + 1] = w2[d + 1]  BY <1>3, <4>1
      <4> QED  BY <3>1, <4>2
    <3>2. CASE j # d + 1
      <4>1. j \in d + 2 .. Len(m) /\ j \in (d + 1) + 1 .. Len(m)  BY <1>1, <3>2
      <4> QED  BY <1>5, <2>1, <4>1
    <3> QED  BY <3>1, <3>2
  <2>3. Same(m, v, m2, w2, d)  BY <2>1, <2>2 DEF Same
  <2> QED  BY <2>3 DEF d
<1>7. CASE Ahead(m, w, m2, w2, d + 1, i2)
  <2>1. PICK j \in (d + 1) + 1 .. Len(m) :
          /\ j <= Len(m2) /\ StepCost(w, m, j, d + 1, i2) < StepCost(w2, m2, j, d + 1, i2)
          /\ \A x \in (d + 1) + 1 .. j - 1 :
               StepCost(w, m, x, d + 1, i2) = StepCost(w2, m2, x, d + 1, i2)
    BY <1>7 DEF Ahead
  <2> HIDE DEF d, i2
  <2>2. j \in d + 2 .. Len(m) /\ j \in d + 2 .. Len(m2) /\ j \in d + 1 .. Len(m)
    BY <1>1, <2>1
  <2>3. StepCost(v, m, j, d, i) < StepCost(w2, m2, j, d, i)
    <3>1. StepCost(v, m, j, d, i) = StepCost(w, m, j, d + 1, i2)  BY <1>5, <2>2
    <3>2. StepCost(w2, m2, j, d, i) = StepCost(w2, m2, j, d + 1, i2)  BY <1>4, <2>2
    <3> QED  BY <2>1, <3>1, <3>2
  <2>4. ASSUME NEW x \in d + 1 .. j - 1
        PROVE  StepCost(v, m, x, d, i) = StepCost(w2, m2, x, d, i)
    <3>1. CASE x = d + 1
      BY <1>2, <3>1
    <3>2. CASE x # d + 1
      <4>1. x \in d + 2 .. Len(m) /\ x \in d + 2 .. Len(m2) /\ x \in (d + 1) + 1 .. j - 1
        <5>1. d \in Nat /\ Len(m) \in Nat /\ Len(m2) \in Nat  BY <1>1
        <5>2. j \in Int /\ j <= Len(m) /\ j <= Len(m2)  BY <2>2
        <5>3. x \in Int /\ d + 1 <= x /\ x <= j - 1  OBVIOUS
        <5> HIDE DEF d
        <5> QED  BY <3>2, <5>1, <5>2, <5>3
      <4>2. StepCost(v, m, x, d, i) = StepCost(w, m, x, d + 1, i2)  BY <1>5, <4>1
      <4>3. StepCost(w2, m2, x, d, i) = StepCost(w2, m2, x, d + 1, i2)  BY <1>4, <4>1
      <4>4. StepCost(w, m, x, d + 1, i2) = StepCost(w2, m2, x, d + 1, i2)  BY <2>1, <4>1
      <4> QED  BY <4>2, <4>3, <4>4
    <3> QED  BY <3>1, <3>2
  <2>5. j <= Len(m2)  BY <2>1
  <2>6. Ahead(m, v, m2, w2, d, i)  BY <2>2, <2>3, <2>4, <2>5 DEF Ahead
  <2> QED  BY <2>6 DEF d
<1> QED  BY <1>6, <1>7

LEMMA BestOnTheWay ==
  ASSUME NEW tr, Tree(tr), NEW p \in Seq(Seq(Char)), NEW f, IsSearch(f, tr, p),
         NEW n \in DOMAIN tr, NEW i \in 1 .. Len(p),
         \A a \in DOMAIN tr : \A j \in i + 1 .. Len(p) + 1 : FindsBest(tr, p, f, a, j)
  PROVE  FindsBest(tr, p, f, n, i)
<1> DEFINE t == Tries(n, p, i)
           d == Len(n)
<1>1. /\ n \in Seq(Names_) /\ DOMAIN tr \in SUBSET Seq(Names_)
      /\ i \in 1 .. Len(p) + 1 /\ i # Len(p) + 1 /\ i \in Nat
  BY DEF Tree
<1>2. /\ DOMAIN t = 1 .. Literals(p, i) + 1 + (Len(p) - i + 1)
      /\ \A k \in DOMAIN t : t[k] \in Seq(Names_) \X (i + 1 .. Len(p) + 1)
  BY <1>1, TriesAre
<1>3. Searched(f, tr, p, n, i, t)  BY <1>1, SearchStep
<1>4. \A m, w : Leads(tr, p, n, i, m, w) => \E k : FirstTry(tr, p, n, i, m, w, k)
  BY WayBegins
<1>5. \A k \in DOMAIN t : t[k][1] \in DOMAIN tr => FindsBest(tr, p, f, t[k][1], t[k][2])
  <2> HIDE DEF t
  <2> SUFFICES ASSUME NEW k \in DOMAIN t, t[k][1] \in DOMAIN tr
               PROVE  FindsBest(tr, p, f, t[k][1], t[k][2])
    OBVIOUS
  <2>1. t[k][2] \in i + 1 .. Len(p) + 1  BY <1>2
  <2> QED  BY <2>1
<1>6. ASSUME NEW m, NEW w, Leads(tr, p, n, i, m, w), NEW k, FirstTry(tr, p, n, i, m, w, k)
      PROVE  k \in DOMAIN t /\ t[k][1] \in DOMAIN tr /\ f[t[k]] # {}
  <2>1. k \in DOMAIN t /\ t[k][1] \in DOMAIN tr  BY <1>6 DEF FirstTry
  <2>2. FindsBest(tr, p, f, t[k][1], t[k][2])  BY <1>5, <2>1
  <2>3. f[t[k]] # {}  BY <1>6, <2>2, NoWayThere
  <2> QED  BY <2>1, <2>3
<1>7. ASSUME f[<<n, i>>] = {}, \A k \in DOMAIN t : t[k][1] \in DOMAIN tr => f[t[k]] = {}
      PROVE  FindsBest(tr, p, f, n, i)
  <2> HIDE DEF t
  <2>1. \A m, w : ~Leads(tr, p, n, i, m, w)  BY <1>4, <1>6, <1>7
  <2> QED  BY <1>7, <2>1 DEF FindsBest
<1>8. ASSUME NEW k \in DOMAIN t, t[k][1] \in DOMAIN tr, f[t[k]] # {}, f[<<n, i>>] = f[t[k]],
             \A j \in DOMAIN t : j < k /\ t[j][1] \in DOMAIN tr => f[t[j]] = {}
      PROVE  FindsBest(tr, p, f, n, i)
  <2>0. t[k] = <<t[k][1], t[k][2]>>
    <3> HIDE DEF t
    <3> QED  BY <1>2, <1>8
  <2>1. PICK m, w : f[t[k]] = {m} /\ BestWay(tr, p, t[k][1], t[k][2], m, w)
    <3> HIDE DEF t
    <3>1. FindsBest(tr, p, f, t[k][1], t[k][2])  BY <1>5, <1>8
    <3> QED  BY <1>8, <2>0, <3>1 DEF FindsBest
  <2>2. Leads(tr, p, t[k][1], t[k][2], m, w)  BY <2>1 DEF BestWay
  <2>3. PICK v : /\ Leads(tr, p, n, i, m, v) /\ FirstTry(tr, p, n, i, m, v, k)
                 /\ \A j \in d + 2 .. Len(m) :
                      /\ v[j] = w[j]
                      /\ StepCost(v, m, j, d, i) = StepCost(w, m, j, d + 1, t[k][2])
    <3>1. /\ k \in DOMAIN Tries(n, p, i) /\ Tries(n, p, i)[k][1] \in DOMAIN tr
          /\ Leads(tr, p, Tries(n, p, i)[k][1], Tries(n, p, i)[k][2], m, w)
      BY <1>8, <2>2
    <3>2. Lengthened(tr, p, n, i, m, w, k)  BY <3>1, WayBack
    <3> QED  BY <3>2 DEF Lengthened
  <2>4. ASSUME NEW m2, NEW w2, Leads(tr, p, n, i, m2, w2)
        PROVE  Same(m, v, m2, w2, d) \/ Ahead(m, v, m2, w2, d, i)
    <3>1. PICK k2 : FirstTry(tr, p, n, i, m2, w2, k2)  BY <1>4, <2>4
    <3>2. k2 \in DOMAIN t /\ t[k2][1] \in DOMAIN tr /\ f[t[k2]] # {}  BY <1>6, <2>4, <3>1
    <3>3. k \in Nat /\ k2 \in Nat
      <4>1. Literals(p, i) \in {0, 1}  BY DEF Literals
      <4> HIDE DEF t
      <4> QED  BY <1>2, <1>8, <3>2, <4>1
    <3>4. ~(k2 < k)
      <4> HIDE DEF t
      <4> QED  BY <1>8, <3>2
    <3>5. CASE k < k2
      <4>1. m2 \in Seq(Names_)  BY <2>4 DEF Leads, Tree
      <4>2. Ahead(m, v, m2, w2, Len(n), i)
        BY <1>1, <2>3, <3>1, <3>3, <3>5, <4>1, FirstIsAhead
      <4> QED  BY <4>2
    <3>6. CASE k = k2
      <4>1. FirstTry(tr, p, n, i, m2, w2, k)  BY <3>1, <3>6
      <4>2. Leads(tr, p, t[k][1], t[k][2], m2, w2) /\ Len(t[k][1]) = d + 1
        BY <2>4, <4>1, WayGoesOn
      <4>3. \/ Same(m, w, m2, w2, d + 1)
            \/ Ahead(m, w, m2, w2, d + 1, t[k][2])
        <5> HIDE DEF t, d
        <5> QED  BY <2>1, <4>2 DEF BestWay
      <4> QED  BY <1>8, <2>3, <2>4, <4>1, <4>3, SameFirstStep
    <3>7. k < k2 \/ k = k2  BY <3>3, <3>4
    <3> QED  BY <3>5, <3>6, <3>7
  <2>5. BestWay(tr, p, n, i, m, v)
    BY <2>3, <2>4 DEF BestWay
  <2>6. f[<<n, i>>] = {m}  BY <1>8, <2>1
  <2> QED  BY <2>5, <2>6 DEF FindsBest
<1> HIDE DEF t
<1> QED  BY <1>1, <1>3, <1>7, <1>8 DEF Searched

LEMMA SearchFindsBest ==
  ASSUME NEW tr, Tree(tr), NEW p \in Seq(Seq(Char)), NEW f, IsSearch(f, tr, p)
  PROVE  \A i \in 1 .. Len(p) + 1 : \A n \in DOMAIN tr : FindsBest(tr, p, f, n, i)
<1> DEFINE N == Len(p) + 1
           S == {i \in 1 .. N : \A n \in DOMAIN tr : FindsBest(tr, p, f, n, i)}
<1>1. N \in Nat  OBVIOUS
<1>2. ASSUME NEW i \in 1 .. N, \A j \in i + 1 .. N : j \in S
      PROVE  i \in S
  <2>1. \A a \in DOMAIN tr : \A j \in i + 1 .. Len(p) + 1 : FindsBest(tr, p, f, a, j)
    BY <1>2
  <2>2. CASE i = Len(p) + 1
    <3>1. \A n \in DOMAIN tr : FindsBest(tr, p, f, n, i)  BY <2>2, BestAtTheEnd
    <3> QED  BY <3>1
  <2>3. CASE i # Len(p) + 1
    <3>1. i \in 1 .. Len(p)  BY <2>3
    <3>2. \A n \in DOMAIN tr : FindsBest(tr, p, f, n, i)  BY <2>1, <3>1, BestOnTheWay
    <3> QED  BY <3>2
  <2> QED  BY <2>2, <2>3
<1>3. \A i \in 1 .. N : i \in S
  <2> HIDE DEF S, N
  <2> QED  BY <1>1, <1>2, DownwardInduction
<1> QED  BY <1>3


-------------------------------------------------------------------------------
(* What the table of RouteTable holds, and the ways of its routes to fit a    *)
(* path, are the ways on from the root.                                     *)
Held(tr) == {m \in DOMAIN tr : tr[m] # Nobody}
HeldWays(tr, p) == UNION {{r} \X Table!Ways(r, p) : r \in Held(tr)}

LEMMA TableLiteral ==
  ASSUME NEW s \in Names_
  PROVE  Table!IsLiteral(s) <=> Literal(s)
<1>1. Param # <<>> /\ Param[1] = ":" /\ Wild # <<>>  BY DEF Param, Wild
<1>2. Table!Wild = Wild  BY DEF Table!Wild, Wild
<1>3. Literal(s) <=> s # Wild /\ ~(s # <<>> /\ s[1] = ":")
  <2>1. CASE s # <<>> /\ s[1] = ":"
    BY <2>1 DEF Literal, Key
  <2>2. CASE ~(s # <<>> /\ s[1] = ":")
    <3>1. s # Param  BY <1>1, <2>2
    <3> QED  BY <2>2, <3>1 DEF Literal, Key
  <2> QED  BY <2>1, <2>2
<1> QED  BY <1>2, <1>3 DEF Table!IsLiteral

LEMMA TableEnds ==
  ASSUME NEW w, NEW k
  PROVE  Table!End(w, k) = EndAt(w, k, 0, 1)
BY DEF Table!End, EndAt

LEMMA WaysAreHeld ==
  ASSUME NEW tr, Tree(tr), NEW p \in Seq(Seq(Char)), NEW r, NEW w
  PROVE  <<r, w>> \in HeldWays(tr, p) <=> Leads(tr, p, <<>>, 1, r, w)
<1>1. <<r, w>> \in HeldWays(tr, p) <=> r \in Held(tr) /\ w \in Table!Ways(r, p)
  BY DEF HeldWays
<1>2. SUFFICES ASSUME r \in Held(tr)
               PROVE  w \in Table!Ways(r, p) <=> Leads(tr, p, <<>>, 1, r, w)
  BY <1>1 DEF Held, Leads
<1>3. r \in DOMAIN tr /\ tr[r] # Nobody /\ r \in Seq(Names_) /\ Len(r) \in Nat
  BY <1>2 DEF Held, Tree
<1>4. Len(<<>>) = 0 /\ Len(<<>>) <= Len(r) /\ SubSeq(r, 1, Len(<<>>)) = <<>> /\ 0 + 1 = 1
  <2>1. Len(<<>>) = 0  OBVIOUS
  <2>2. SubSeq(r, 1, 0) = <<>>
    <3>1. SubSeq(r, 1, 0) \in Seq(Names_) /\ Len(SubSeq(r, 1, 0)) = 0
      <4>1. 0 \in 0 .. Len(r)  BY <1>3
      <4> QED  BY <1>3, <4>1, PrefixOf
    <3> QED  BY <3>1, EmptySeq
  <2> QED  BY <1>3, <2>1, <2>2
<1>5. Leads(tr, p, <<>>, 1, r, w) <=>
        /\ w = [k \in 1 .. Len(r) |-> w[k]]
        /\ EndAt(w, Len(r), 0, 1) = Len(p)
        /\ \A k \in 1 .. Len(r) : StepFits(w, r, k, 0, 1, p)
  BY <1>3, <1>4 DEF Leads
<1>6. w \in Table!Ways(r, p) <=>
        /\ w = [k \in 1 .. Len(r) |-> w[k]] /\ \A k \in 1 .. Len(r) : w[k] \in 1 .. Len(p)
        /\ Table!Fits(r, p, w)
  BY DEF Table!Ways
<1>7. Table!Fits(r, p, w) <=>
        /\ EndAt(w, Len(r), 0, 1) = Len(p)
        /\ \A k \in 1 .. Len(r) :
             /\ EndAt(w, k - 1, 0, 1) < w[k]
             /\ r[k] # Wild => w[k] = EndAt(w, k - 1, 0, 1) + 1
             /\ Literal(r[k]) => p[w[k]] = r[k]
  <2>1. \A k \in 1 .. Len(r) : Table!IsLiteral(r[k]) <=> Literal(r[k])
    BY <1>3, TableLiteral
  <2>2. Table!Wild = Wild  BY DEF Table!Wild, Wild
  <2> QED  BY <2>1, <2>2, TableEnds DEF Table!Fits
<1>8. \A k \in 1 .. Len(r) :
        StepFits(w, r, k, 0, 1, p) <=>
          /\ w[k] \in 1 .. Len(p)
          /\ EndAt(w, k - 1, 0, 1) < w[k]
          /\ r[k] # Wild => w[k] = EndAt(w, k - 1, 0, 1) + 1
          /\ Literal(r[k]) => p[w[k]] = r[k]
  BY DEF StepFits
<1> QED  BY <1>5, <1>6, <1>7, <1>8

LEMMA BetterIsAhead ==
  ASSUME NEW m \in Seq(Names_), NEW w, NEW m2 \in Seq(Names_), NEW w2
  PROVE  Table!Better(Table!Cost(m, w), Table!Cost(m2, w2)) <=> Ahead(m, w, m2, w2, 0, 1)
<1> DEFINE c == Table!Cost(m, w)
           c2 == Table!Cost(m2, w2)
<1>1. Table!Wild = Wild /\ Table!Param = Param
  BY DEF Table!Wild, Wild, Table!Param, Param
<1>2. DOMAIN c = 1 .. Len(m) /\ \A k \in 1 .. Len(m) : c[k] = StepCost(w, m, k, 0, 1)
  BY <1>1, TableEnds DEF Table!Cost, StepCost
<1>3. DOMAIN c2 = 1 .. Len(m2) /\ \A k \in 1 .. Len(m2) : c2[k] = StepCost(w2, m2, k, 0, 1)
  BY <1>1, TableEnds DEF Table!Cost, StepCost
<1>4. Table!Better(c, c2) <=>
        \E k \in DOMAIN c \cap DOMAIN c2 : c[k] < c2[k] /\ \A j \in 1 .. k - 1 : c[j] = c2[j]
  BY DEF Table!Better
<1> HIDE DEF c, c2
<1>5. Len(m) \in Nat /\ Len(m2) \in Nat  OBVIOUS
<1>6. ASSUME NEW k, k \in 1 .. Len(m), k \in 1 .. Len(m2)
      PROVE  (c[k] < c2[k] /\ \A j \in 1 .. k - 1 : c[j] = c2[j]) <=>
             /\ StepCost(w, m, k, 0, 1) < StepCost(w2, m2, k, 0, 1)
             /\ \A j \in 1 .. k - 1 : StepCost(w, m, j, 0, 1) = StepCost(w2, m2, j, 0, 1)
  <2>1. \A j \in 1 .. k - 1 : j \in 1 .. Len(m) /\ j \in 1 .. Len(m2)  BY <1>5, <1>6
  <2> QED  BY <1>2, <1>3, <1>6, <2>1
<1>7. Ahead(m, w, m2, w2, 0, 1) <=>
        \E k \in 1 .. Len(m) :
          /\ k <= Len(m2) /\ StepCost(w, m, k, 0, 1) < StepCost(w2, m2, k, 0, 1)
          /\ \A j \in 1 .. k - 1 : StepCost(w, m, j, 0, 1) = StepCost(w2, m2, j, 0, 1)
  <2>1. 0 + 1 = 1  OBVIOUS
  <2> QED  BY <2>1 DEF Ahead
<1>8. \A k : k \in DOMAIN c \cap DOMAIN c2 <=> k \in 1 .. Len(m) /\ k \in 1 .. Len(m2)
  BY <1>2, <1>3
<1>9. \A k \in 1 .. Len(m) : k <= Len(m2) <=> k \in 1 .. Len(m2)  BY <1>5
<1>10. Table!Better(c, c2) <=> Ahead(m, w, m2, w2, 0, 1)
  BY <1>4, <1>6, <1>7, <1>8, <1>9
<1> QED  BY <1>10 DEF c, c2

LEMMA CostsAreNumbers ==
  ASSUME NEW tr, NEW p \in Seq(Seq(Char)), NEW m, NEW w, Leads(tr, p, <<>>, 1, m, w)
  PROVE  \A k \in 1 .. Len(m) : StepCost(w, m, k, 0, 1) \in Int
<1>1. \A k \in 1 .. Len(m) : StepFits(w, m, k, 0, 1, p)
  <2>1. Len(<<>>) = 0 /\ 0 + 1 = 1  OBVIOUS
  <2> QED  BY <2>1 DEF Leads
<1> SUFFICES ASSUME NEW k \in 1 .. Len(m)
             PROVE  StepCost(w, m, k, 0, 1) \in Int
  OBVIOUS
<1>2. w[k] \in Int
  <2>1. w[k] \in 1 .. Len(p)  BY <1>1 DEF StepFits
  <2> QED  BY <2>1
<1>3. EndAt(w, k - 1, 0, 1) \in Int
  <2>1. CASE k - 1 = 0
    BY <2>1 DEF EndAt
  <2>2. CASE k - 1 # 0
    <3>1. k - 1 \in 1 .. Len(m)  BY <2>2
    <3>2. w[k - 1] \in 1 .. Len(p)  BY <1>1, <3>1 DEF StepFits
    <3>3. w[k - 1] \in Int  BY <3>2
    <3> QED  BY <2>2, <3>3 DEF EndAt
  <2> QED  BY <2>1, <2>2
<1> QED  BY <1>2, <1>3 DEF StepCost

LEMMA AheadOneWay ==
  ASSUME NEW tr, Tree(tr), NEW p \in Seq(Seq(Char)), NEW m, NEW w, NEW m2, NEW w2,
         Leads(tr, p, <<>>, 1, m, w), Leads(tr, p, <<>>, 1, m2, w2),
         Ahead(m, w, m2, w2, 0, 1), Ahead(m2, w2, m, w, 0, 1)
  PROVE  FALSE
<1> DEFINE a(k) == StepCost(w, m, k, 0, 1)
           b(k) == StepCost(w2, m2, k, 0, 1)
<1>1. Len(m) \in Nat /\ Len(m2) \in Nat
  BY DEF Leads, Tree
<1>2. \A k \in 1 .. Len(m) : a(k) \in Int
  BY CostsAreNumbers
<1>3. \A k \in 1 .. Len(m2) : b(k) \in Int
  BY CostsAreNumbers
<1>4. PICK k \in 0 + 1 .. Len(m) : k <= Len(m2) /\ a(k) < b(k) /\ \A j \in 0 + 1 .. k - 1 : a(j) = b(j)
  BY DEF Ahead
<1>5. PICK l \in 0 + 1 .. Len(m2) : l <= Len(m) /\ b(l) < a(l) /\ \A j \in 0 + 1 .. l - 1 : b(j) = a(j)
  BY DEF Ahead
<1>6. /\ k \in 1 .. Len(m) /\ k \in 1 .. Len(m2) /\ l \in 1 .. Len(m) /\ l \in 1 .. Len(m2)
  BY <1>1, <1>4, <1>5
<1>7. a(k) \in Int /\ b(k) \in Int /\ a(l) \in Int /\ b(l) \in Int
  BY <1>2, <1>3, <1>6
<1>8. a(k) < b(k) /\ b(l) < a(l)
  BY <1>4, <1>5
<1>9. k < l => a(k) = b(k)
  <2>1. k < l => k \in 0 + 1 .. l - 1  BY <1>6
  <2> QED  BY <1>5, <2>1
<1>10. l < k => a(l) = b(l)
  <2>1. l < k => l \in 0 + 1 .. k - 1  BY <1>6
  <2> QED  BY <1>4, <2>1
<1> HIDE DEF a, b
<1>11. k < l \/ l < k \/ k = l  BY <1>6
<1> QED  BY <1>7, <1>8, <1>9, <1>10, <1>11


(* The answer of the tree is that of the table: the handler of the best of    *)
(* the routes that fit the path, of which there is one.                     *)
LEMMA BestIs ==
  ASSUME NEW tr, Tree(tr), NEW p \in Seq(Seq(Char)), NEW m, NEW w,
         BestWay(tr, p, <<>>, 1, m, w)
  PROVE  (CHOOSE c \in HeldWays(tr, p) :
            \A d \in HeldWays(tr, p) \ {c} :
              Table!Better(Table!Cost(c[1], c[2]), Table!Cost(d[1], d[2]))) = <<m, w>>
<1> DEFINE cs == HeldWays(tr, p)
           IsBest(c) == \A d \in cs \ {c} :
                          Table!Better(Table!Cost(c[1], c[2]), Table!Cost(d[1], d[2]))
<1>1. \A c \in cs : c = <<c[1], c[2]>>
  BY DEF HeldWays
<1>2. \A c \in cs : Leads(tr, p, <<>>, 1, c[1], c[2])
  <2> SUFFICES ASSUME NEW c \in cs
               PROVE  Leads(tr, p, <<>>, 1, c[1], c[2])
    OBVIOUS
  <2>1. <<c[1], c[2]>> \in HeldWays(tr, p)  BY <1>1
  <2> QED  BY <2>1, WaysAreHeld
<1>3. \A a, b : Leads(tr, p, <<>>, 1, a, b) => a \in Seq(Names_)
  BY DEF Leads, Tree
<1>4. Leads(tr, p, <<>>, 1, m, w) /\ m \in Seq(Names_)
  BY <1>3 DEF BestWay
<1>5. <<m, w>> \in cs
  BY <1>4, WaysAreHeld
<1>6. ASSUME NEW m2, NEW w2, Leads(tr, p, <<>>, 1, m2, w2)
      PROVE  (m = m2 /\ w = w2) \/ Ahead(m, w, m2, w2, 0, 1)
  <2>1. Len(<<>>) = 0 /\ 0 + 1 = 1  OBVIOUS
  <2>2. Same(m, w, m2, w2, 0) \/ Ahead(m, w, m2, w2, 0, 1)
    BY <1>6, <2>1 DEF BestWay
  <2>3. ASSUME Same(m, w, m2, w2, 0) PROVE m = m2 /\ w = w2
    <3>1. m = m2 /\ \A k \in 1 .. Len(m) : w[k] = w2[k]  BY <2>1, <2>3 DEF Same
    <3>2. w = [k \in 1 .. Len(m) |-> w[k]] /\ w2 = [k \in 1 .. Len(m2) |-> w2[k]]
      BY <1>4, <1>6 DEF Leads
    <3> QED  BY <3>1, <3>2
  <2> QED  BY <2>2, <2>3
<1> HIDE DEF cs
<1>7. IsBest(<<m, w>>)
  <2> SUFFICES ASSUME NEW d \in cs, d # <<m, w>>
               PROVE  Table!Better(Table!Cost(m, w), Table!Cost(d[1], d[2]))
    OBVIOUS
  <2>1. d = <<d[1], d[2]>> /\ Leads(tr, p, <<>>, 1, d[1], d[2])  BY <1>1, <1>2
  <2>2. ~(m = d[1] /\ w = d[2])  BY <2>1
  <2>3. Ahead(m, w, d[1], d[2], 0, 1)  BY <1>6, <2>1, <2>2
  <2>4. d[1] \in Seq(Names_)  BY <1>3, <2>1
  <2> QED  BY <1>4, <2>3, <2>4, BetterIsAhead
<1>8. ASSUME NEW c \in cs, IsBest(c)
      PROVE  c = <<m, w>>
  <2> SUFFICES ASSUME c # <<m, w>> PROVE FALSE
    OBVIOUS
  <2>1. c = <<c[1], c[2]>> /\ Leads(tr, p, <<>>, 1, c[1], c[2]) /\ c[1] \in Seq(Names_)
    BY <1>1, <1>2, <1>3
  <2>2. ~(m = c[1] /\ w = c[2])  BY <2>1
  <2>3. Ahead(m, w, c[1], c[2], 0, 1)  BY <1>6, <2>1, <2>2
  <2>4. Table!Better(Table!Cost(c[1], c[2]), Table!Cost(m, w))
    <3>1. <<m, w>> \in cs \ {c}  BY <1>5
    <3>2. <<m, w>>[1] = m /\ <<m, w>>[2] = w  OBVIOUS
    <3>3. Table!Better(Table!Cost(c[1], c[2]), Table!Cost(<<m, w>>[1], <<m, w>>[2]))
      BY <1>8, <3>1
    <3> QED  BY <3>2, <3>3
  <2>5. Ahead(c[1], c[2], m, w, 0, 1)  BY <1>4, <2>1, <2>4, BetterIsAhead
  <2> QED  BY <1>4, <2>1, <2>3, <2>5, AheadOneWay
<1>9. (CHOOSE c \in cs : IsBest(c)) = <<m, w>>
  <2> HIDE DEF IsBest
  <2> QED  BY <1>5, <1>7, <1>8
<1> QED  BY <1>9 DEF cs

LEMMA TableBest ==
  ASSUME Tree(tree), NEW p \in Seq(Seq(Char))
  PROVE  \/ Find(p) = {} /\ Table!Best(p) = Nobody
         \/ \E m \in Held(tree) : Find(p) = {m} /\ Table!Best(p) = tree[m]
<1> DEFINE cs == HeldWays(tree, p)
           best == CHOOSE c \in cs :
                     \A d \in cs \ {c} :
                       Table!Better(Table!Cost(c[1], c[2]), Table!Cost(d[1], d[2]))
<1>1. Table!Best(p) =
        IF cs = {} THEN Nobody ELSE [n \in Held(tree) |-> tree[n]][best[1]]
  <2>1. Table!Candidates(p) = cs
    BY DEF Table!Candidates, HeldWays, Held
  <2> HIDE DEF cs
  <2>2. best = CHOOSE c \in cs :
                 \A d \in cs \ {c} :
                   Table!Better(Table!Cost(c[1], c[2]), Table!Cost(d[1], d[2]))
    OBVIOUS
  <2> HIDE DEF best
  <2> QED  BY <2>1, <2>2 DEF Table!Best, Held
<1> HIDE DEF best
<1>2. /\ DOMAIN tree \in SUBSET Seq(Names_) /\ <<>> \in DOMAIN tree
      /\ 1 \in 1 .. Len(p) + 1
  BY DEF Tree
<1>3. PICK f : IsSearch(f, tree, p) /\ FindIn(tree, p) = f[<<<<>>, 1>>]
  BY <1>2, FindIsSearch
<1>4. FindsBest(tree, p, f, <<>>, 1)
  BY <1>2, <1>3, SearchFindsBest
<1>5. Find(p) = f[<<<<>>, 1>>]
  BY <1>3 DEF Find
<1>6. CASE Find(p) = {} /\ \A m, w : ~Leads(tree, p, <<>>, 1, m, w)
  <2>1. ASSUME NEW c \in cs PROVE FALSE
    <3>1. c = <<c[1], c[2]>>  BY <2>1 DEF HeldWays
    <3>2. <<c[1], c[2]>> \in HeldWays(tree, p)  BY <2>1, <3>1
    <3>3. Leads(tree, p, <<>>, 1, c[1], c[2])  BY <3>2, WaysAreHeld
    <3> QED  BY <1>6, <3>3
  <2>2. cs = {}  BY <2>1
  <2> QED  BY <1>1, <1>6, <2>2
<1>7. ASSUME NEW m, NEW w, Find(p) = {m}, BestWay(tree, p, <<>>, 1, m, w)
      PROVE  m \in Held(tree) /\ Table!Best(p) = tree[m]
  <2>1. best = <<m, w>>  BY <1>7, BestIs DEF best
  <2>2. Leads(tree, p, <<>>, 1, m, w)  BY <1>7 DEF BestWay
  <2>3. <<m, w>> \in cs  BY <2>2, WaysAreHeld
  <2>4. m \in Held(tree)  BY <2>2 DEF Leads, Held
  <2> HIDE DEF cs
  <2>5. cs # {} /\ best[1] = m  BY <2>1, <2>3
  <2> QED  BY <1>1, <2>4, <2>5
<1>8. \/ Find(p) = {} /\ \A m, w : ~Leads(tree, p, <<>>, 1, m, w)
      \/ \E m, w : Find(p) = {m} /\ BestWay(tree, p, <<>>, 1, m, w)
  BY <1>4, <1>5 DEF FindsBest
<1>9. CASE \E m, w : Find(p) = {m} /\ BestWay(tree, p, <<>>, 1, m, w)
  <2>1. PICK m, w : Find(p) = {m} /\ BestWay(tree, p, <<>>, 1, m, w)  BY <1>9
  <2>2. m \in Held(tree) /\ Table!Best(p) = tree[m]  BY <1>7, <2>1
  <2> QED  BY <2>1, <2>2
<1> QED  BY <1>6, <1>8, <1>9

(* The tree and the search of Router::find_ implement the table: for every    *)
(* set of routes, added in every order, and paths of every length, handle     *)
(* answers by the route that fits the path best (literal before parameter     *)
(* before wildcard, shorter wildcard before longer, from the left), and by    *)
(* nobody's only where no route fits.                                       *)
THEOREM ImplementsTable == Spec => TableSpec
<1> DEFINE Said(a) == IF a = NotFound THEN Nobody ELSE a
<1>1. Init => Table!Init
  <2> SUFFICES ASSUME Init PROVE Table!Init
    OBVIOUS
  <2>1. /\ DOMAIN tree = {<<>>} /\ tree[<<>>] = Nobody /\ asked = <<>> /\ answer = Nobody
    BY DEF Init
  <2>2. {m \in DOMAIN tree : tree[m] # Nobody} = {}  BY <2>1
  <2>3. \A S : S = {} => [n \in S |-> tree[n]] = <<>>  OBVIOUS
  <2>4. [n \in {m \in DOMAIN tree : tree[m] # Nobody} |-> tree[n]] = <<>>  BY <2>2, <2>3
  <2>5. (IF answer = NotFound THEN Nobody ELSE answer) = Nobody  BY <2>1
  <2> QED  BY <2>1, <2>4, <2>5 DEF Table!Init
<1>2. TreeInv /\ [Next]_vars => [Table!Next]_(Table!vars)
  <2> SUFFICES ASSUME TreeInv, [Next]_vars
               PROVE  [Table!Next]_(Table!vars)
    OBVIOUS
  <2>0. Tree(tree) /\ notFoundHandler \in {Nobody, NotFound}  BY DEF TreeInv
  <2>1. ASSUME NEW t \in Text, NEW h \in Handler, Add(t, h)
        PROVE  [Table!Next]_(Table!vars)
    <3>1. PICK r \in Routes :
            IsRoute(r) /\ tree' = WithRoute(tree, r, h) /\ UNCHANGED <<asked, answer>>
      BY <2>1, AddIs
    <3> DEFINE had == {m \in DOMAIN tree : tree[m] # Nobody}
               has == {m \in DOMAIN tree' : tree'[m] # Nobody}
    <3>2. r \in Walk(r)
      <4>1. IsRoute(r)  BY <3>1
      <4> QED  BY <4>1, WalkIs
    <3>4. /\ DOMAIN tree' = DOMAIN tree \cup Walk(r)
          /\ \A m \in DOMAIN tree' :
               tree'[m] = IF m = r THEN h ELSE IF m \in DOMAIN tree THEN tree[m] ELSE Nobody
      BY <3>1 DEF WithRoute
    <3>5. h # Nobody  BY RouterAssumption
    <3>6. has = had \cup {r}  BY <3>2, <3>4, <3>5
    <3>7. \A m \in has : tree'[m] = IF m = r THEN h ELSE [n \in had |-> tree[n]][m]
      <4>1. \A m \in had : m \in DOMAIN tree /\ m \in DOMAIN tree'  BY <3>4
      <4>2. \A m \in has : m \in DOMAIN tree'  OBVIOUS
      <4>3. \A m \in has : m # r => m \in had  BY <3>6
      <4> HIDE DEF has
      <4> SUFFICES ASSUME NEW m \in has
                   PROVE  tree'[m] = IF m = r THEN h ELSE [n \in had |-> tree[n]][m]
        OBVIOUS
      <4>4. CASE m = r
        BY <3>4, <4>2, <4>4
      <4>5. CASE m # r
        <5>1. m \in had /\ m \in DOMAIN tree /\ m \in DOMAIN tree'  BY <4>1, <4>2, <4>3, <4>5
        <5>2. tree'[m] = tree[m]  BY <3>4, <4>5, <5>1
        <5> HIDE DEF had
        <5> QED  BY <4>5, <5>1, <5>2
      <4> QED  BY <4>4, <4>5
    <3>8. [n \in has |-> tree'[n]] =
            [s \in had \cup {r} |-> IF s = r THEN h ELSE [n \in had |-> tree[n]][s]]
      <4> HIDE DEF had, has
      <4> QED  BY <3>6, <3>7
    <3>9. DOMAIN [n \in had |-> tree[n]] = had  OBVIOUS
    <3>10. Table!Add(r, h)
      BY <3>1, <3>8, <3>9 DEF Table!Add
    <3> QED  BY <3>10 DEF Table!Next
  <2>2. CASE UNCHANGED <<tree, asked, answer>>
    BY <2>2 DEF Table!vars
  <2>3. CASE SetNotFound
    BY <2>2, <2>3 DEF SetNotFound
  <2>4. ASSUME NEW t \in Target, Handle(t)
        PROVE  [Table!Next]_(Table!vars)
    <3>a. PICK p \in Segments(PathPart(t)) : HandlePath(p)  BY <2>4 DEF Handle
    <3>1. p \in Paths /\ p \in Seq(Seq(Char))  BY PathsType DEF Paths
    <3>2. asked' = p /\ answer' = Answer(p) /\ UNCHANGED tree  BY <3>a DEF HandlePath
    <3>3. \/ Find(p) = {} /\ Table!Best(p) = Nobody
          \/ \E m \in Held(tree) : Find(p) = {m} /\ Table!Best(p) = tree[m]
      BY <2>0, <3>1, TableBest
    <3>4. Said(Answer(p)) = Table!Best(p)
      <4>1. CASE Find(p) = {} /\ Table!Best(p) = Nobody
        <5>1. Answer(p) \in {Nobody, NotFound}  BY <2>0, <4>1 DEF Answer
        <5> QED  BY <4>1, <5>1
      <4>2. ASSUME NEW m \in Held(tree), Find(p) = {m}, Table!Best(p) = tree[m]
            PROVE  Said(Answer(p)) = Table!Best(p)
        <5>1. (CHOOSE n \in Find(p) : TRUE) = m /\ Find(p) # {}  BY <4>2
        <5>2. Answer(p) = tree[m]  BY <5>1 DEF Answer
        <5>3. tree[m] \in Handler  BY <2>0, <4>2 DEF Held, Tree
        <5>4. tree[m] # NotFound  BY <5>3, RouterAssumption
        <5> QED  BY <4>2, <5>2, <5>4
      <4> QED  BY <3>3, <4>1, <4>2
    <3>5. (IF answer' = NotFound THEN Nobody ELSE answer') = Table!Best(p)
      BY <3>2, <3>4
    <3>6. Table!Ask(p)
      BY <3>2, <3>5 DEF Table!Ask
    <3> QED  BY <3>1, <3>6 DEF Table!Next
  <2>5. CASE UNCHANGED vars
    BY <2>2, <2>5 DEF vars
  <2> QED  BY <2>1, <2>3, <2>4, <2>5 DEF Next
<1> QED  BY <1>1, <1>2, TreeHolds, PTL DEF Spec, TableSpec, Table!Spec
===============================================================================
