----------------------------- MODULE FiniteSums -----------------------------
(***************************************************************************)
(* Facts about the sums over finite sets that the money of a company is    *)
(* stated with (MapThenSumSet of FiniteSetsExt): what they are when every  *)
(* term is zero, how they change with one term, and that only the terms    *)
(* matter.  The fold picks the members of a set in a fixed order, so these *)
(* are proved by taking a smallest set for which they would fail.          *)
(***************************************************************************)
EXTENDS FiniteSetsExt, FiniteSetTheorems, TLAPS

\* The member the fold takes first.
Pick(s) == CHOOSE x \in s : TRUE

\* h adds up the terms g over every subset of S.
Adds(h, g, S) ==
  h = [s \in SUBSET S |-> IF s = {} THEN 0 ELSE g[Pick(s)] + h[s \ {Pick(s)}]]

\* The sum of the terms g over S.
SumOver(g, S) == MapThenSumSet(LAMBDA x : g[x], S)

\* What holds of some subset of a finite set holds of a smallest one.
LEMMA SmallestSet ==
  ASSUME NEW S, IsFiniteSet(S), NEW T, T \subseteq SUBSET S, T # {}
  PROVE  \E s \in T : \A u \in T : u \subseteq s => u = s
<1>1. IsWellFoundedOn(StrictSubsetOrdering(S), SUBSET S)
  BY FS_StrictSubsetOrderingWellFounded, FS_FiniteSubsetsOfFinite
<1>2. PICK s \in T : \A u \in T : <<u, s>> \notin StrictSubsetOrdering(S)
  BY <1>1, WFMin
<1>3. \A u \in T : u \subseteq s => u = s
  BY <1>2 DEF StrictSubsetOrdering
<1> QED  BY <1>3

LEMMA PickIsMember == \A s : s # {} => Pick(s) \in s
BY DEF Pick

LEMMA AddsUp ==
  ASSUME NEW S, NEW g, NEW h, Adds(h, g, S)
  PROVE  /\ h[{}] = 0
         /\ \A s \in SUBSET S : s # {} => h[s] = g[Pick(s)] + h[s \ {Pick(s)}]
<1>1. {} \in SUBSET S  OBVIOUS
<1> QED  BY <1>1 DEF Adds

\* Only the terms of a set matter to its sum.
LEMMA SameSum ==
  ASSUME NEW S, NEW R, IsFiniteSet(S), NEW g, NEW f, NEW h, NEW k,
         Adds(h, g, S), Adds(k, f, R), \A x \in S \cap R : g[x] = f[x]
  PROVE  \A s \in SUBSET S : s \subseteq R => h[s] = k[s]
<1> DEFINE T == {s \in SUBSET S : s \subseteq R /\ h[s] # k[s]}
<1> SUFFICES ASSUME T # {} PROVE FALSE
  OBVIOUS
<1>1. PICK s \in T : \A u \in T : u \subseteq s => u = s
  <2>1. T \subseteq SUBSET S  OBVIOUS
  <2> HIDE DEF T
  <2> QED  BY <2>1, SmallestSet
<1>2. s # {}  BY <1>1, AddsUp
<1> DEFINE x == Pick(s)
<1>3. x \in s  BY <1>2, PickIsMember
<1> HIDE DEF x
<1>4. h[s \ {x}] = k[s \ {x}]  BY <1>1, <1>3
<1>5. h[s] = g[x] + h[s \ {x}] /\ k[s] = f[x] + k[s \ {x}]
  <2>1. s \in SUBSET S /\ s \in SUBSET R  BY <1>1
  <2>2. \A u \in SUBSET S : u # {} => h[u] = g[Pick(u)] + h[u \ {Pick(u)}]
    BY AddsUp
  <2>3. \A u \in SUBSET R : u # {} => k[u] = f[Pick(u)] + k[u \ {Pick(u)}]
    BY AddsUp
  <2> QED  BY <1>2, <2>1, <2>2, <2>3 DEF x
<1>6. g[x] = f[x]  BY <1>1, <1>3
<1> QED  BY <1>1, <1>4, <1>5, <1>6

\* There is such a function for every finite set.
LEMMA SumExists ==
  ASSUME NEW S, IsFiniteSet(S), NEW g
  PROVE  \E h : Adds(h, g, S)
<1> DEFINE T == {s \in SUBSET S : ~ \E h : Adds(h, g, s)}
<1> SUFFICES ASSUME T # {} PROVE FALSE
  OBVIOUS
<1>1. PICK s \in T : \A u \in T : u \subseteq s => u = s
  <2>1. T \subseteq SUBSET S  OBVIOUS
  <2> HIDE DEF T
  <2> QED  BY <2>1, SmallestSet
<1> DEFINE F(u) == CHOOSE h : Adds(h, g, u)
<1>2. \A u \in SUBSET s : u # s => Adds(F(u), g, u)
  <2> SUFFICES ASSUME NEW u \in SUBSET s, u # s PROVE Adds(F(u), g, u)
    OBVIOUS
  <2>1. \E h : Adds(h, g, u)  BY <1>1
  <2> QED  BY <2>1
<1> HIDE DEF F
<1> DEFINE H == [u \in SUBSET s |-> IF u = {} THEN 0
                                    ELSE g[Pick(u)] + F(u \ {Pick(u)})[u \ {Pick(u)}]]
<1>3. ASSUME NEW v \in SUBSET s, v # s PROVE H[v] = F(v)[v]
  <2>1. Adds(F(v), g, v)  BY <1>2, <1>3
  <2>2. CASE v = {}  BY <2>1, <2>2, AddsUp
  <2>3. CASE v # {}
    <3> DEFINE w == v \ {Pick(v)}
    <3>1. w \in SUBSET s /\ w # s /\ w \subseteq v /\ v \in SUBSET v
      BY <1>3, <2>3, PickIsMember
    <3>2. F(v)[v] = g[Pick(v)] + F(v)[w]
      <4>1. \A u \in SUBSET v : u # {} => F(v)[u] = g[Pick(u)] + F(v)[u \ {Pick(u)}]
        BY <2>1, AddsUp
      <4> QED  BY <2>3, <3>1, <4>1
    <3>3. H[v] = g[Pick(v)] + F(w)[w]  BY <2>3
    <3>4. Adds(F(w), g, w)  BY <1>2, <3>1
    <3>5. IsFiniteSet(w)  BY <1>1, <3>1, FS_Subset
    <3>6. F(w)[w] = F(v)[w]
      <4> HIDE DEF w
      <4> QED  BY <2>1, <3>1, <3>4, <3>5, SameSum
    <3> QED  BY <3>2, <3>3, <3>6
  <2> QED  BY <2>2, <2>3
<1>4. \A u \in SUBSET s : u # {} => u \ {Pick(u)} \in SUBSET s /\ u \ {Pick(u)} # s
  BY PickIsMember
<1>5. \A u \in SUBSET s : u # {} => F(u \ {Pick(u)})[u \ {Pick(u)}] = H[u \ {Pick(u)}]
  <2> HIDE DEF H
  <2> QED  BY <1>3, <1>4
<1>6. H = [u \in SUBSET s |-> IF u = {} THEN 0 ELSE g[Pick(u)] + H[u \ {Pick(u)}]]
  <2> DEFINE L(u) == IF u = {} THEN 0 ELSE g[Pick(u)] + F(u \ {Pick(u)})[u \ {Pick(u)}]
             M(u) == IF u = {} THEN 0 ELSE g[Pick(u)] + H[u \ {Pick(u)}]
  <2>1. \A u \in SUBSET s : L(u) = M(u)
    <3> HIDE DEF H
    <3> QED  BY <1>5
  <2>2. H = [u \in SUBSET s |-> L(u)]  OBVIOUS
  <2> HIDE DEF L, M, H
  <2>3. H = [u \in SUBSET s |-> M(u)]  BY <2>1, <2>2
  <2> QED  BY <2>3 DEF M
<1>7. Adds(H, g, s)
  <2> HIDE DEF H
  <2> QED  BY <1>6 DEF Adds
<1> QED  BY <1>1, <1>7

\* The sum over S is what such a function has for S.
LEMMA SumAdds ==
  ASSUME NEW S, IsFiniteSet(S), NEW g
  PROVE  \E h : Adds(h, g, S) /\ SumOver(g, S) = h[S]
<1> DEFINE it == CHOOSE it : it = [s \in SUBSET S |-> IF s = {} THEN 0
                                     ELSE g[CHOOSE x \in s : TRUE] + it[s \ {CHOOSE x \in s : TRUE}]]
<1>1. \E h : h = [s \in SUBSET S |-> IF s = {} THEN 0
                                     ELSE g[CHOOSE x \in s : TRUE] + h[s \ {CHOOSE x \in s : TRUE}]]
  <2>1. \E h : Adds(h, g, S)  BY SumExists
  <2> QED  BY <2>1 DEF Adds, Pick
<1>2. it = [s \in SUBSET S |-> IF s = {} THEN 0
                                     ELSE g[CHOOSE x \in s : TRUE] + it[s \ {CHOOSE x \in s : TRUE}]]
  BY <1>1
<1>3. SumOver(g, S) = it[S]  BY DEF SumOver, MapThenSumSet, MapThenFoldSet
<1> HIDE DEF it
<1> QED  BY <1>2, <1>3 DEF Adds, Pick

\* A sum of integers is one, and it moves by what one of its terms moves.
LEMMA SumMoves ==
  ASSUME NEW S, IsFiniteSet(S), NEW g \in [S -> Int], NEW f \in [S -> Int],
         NEW t \in S, NEW d \in Int, f[t] = g[t] + d,
         \A x \in S : x # t => f[x] = g[x]
  PROVE  SumOver(g, S) \in Int /\ SumOver(f, S) = SumOver(g, S) + d
<1>1. PICK h : Adds(h, g, S) /\ SumOver(g, S) = h[S]  BY SumAdds
<1>2. PICK k : Adds(k, f, S) /\ SumOver(f, S) = k[S]  BY SumAdds
<1> DEFINE Moved(s) == h[s] \in Int /\ k[s] = IF t \in s THEN h[s] + d ELSE h[s]
           T == {s \in SUBSET S : ~Moved(s)}
<1>3. T = {}
  <2> SUFFICES ASSUME T # {} PROVE FALSE
    OBVIOUS
  <2>1. PICK s \in T : \A u \in T : u \subseteq s => u = s
    <3>1. T \subseteq SUBSET S  OBVIOUS
    <3> HIDE DEF T
    <3> QED  BY <3>1, SmallestSet
  <2>2. s \in SUBSET S /\ ~Moved(s)  BY <2>1
  <2>3. s # {}
    <3>1. h[{}] = 0 /\ k[{}] = 0  BY <1>1, <1>2, AddsUp
    <3>2. Moved({})  BY <3>1
    <3> HIDE DEF Moved
    <3> QED  BY <2>2, <3>2
  <2> DEFINE x == Pick(s)
             u == s \ {x}
  <2>4. x \in s  BY <2>3, PickIsMember
  <2>5. h[s] = g[x] + h[u]
    <3>1. \A v \in SUBSET S : v # {} => h[v] = g[Pick(v)] + h[v \ {Pick(v)}]
      BY <1>1, AddsUp
    <3> QED  BY <2>2, <2>3, <3>1
  <2>6. k[s] = f[x] + k[u]
    <3>1. \A v \in SUBSET S : v # {} => k[v] = f[Pick(v)] + k[v \ {Pick(v)}]
      BY <1>2, AddsUp
    <3> QED  BY <2>2, <2>3, <3>1
  <2> HIDE DEF x
  <2>7. u \in SUBSET S /\ u \subseteq s /\ u # s  BY <2>2, <2>4
  <2>8. Moved(u)
    <3> HIDE DEF Moved, u
    <3> QED  BY <2>1, <2>7
  <2>9. g[x] \in Int /\ f[x] = IF x = t THEN g[x] + d ELSE g[x]
    BY <2>2, <2>4
  <2>10. t \in s <=> t \in u \/ t = x  BY <2>4
  <2>11. t = x => t \notin u  OBVIOUS
  <2>12. Moved(s)
    <3> HIDE DEF u
    <3> QED  BY <2>5, <2>6, <2>8, <2>9, <2>10, <2>11
  <2> HIDE DEF Moved
  <2> QED  BY <2>2, <2>12
<1>4. Moved(S)
  <2>1. S \in SUBSET S  OBVIOUS
  <2> HIDE DEF Moved
  <2> QED  BY <1>3, <2>1
<1> QED  BY <1>1, <1>2, <1>4

\* A sum of zeros is zero.
LEMMA SumOfZeros ==
  ASSUME NEW S, IsFiniteSet(S), NEW g, \A x \in S : g[x] = 0
  PROVE  SumOver(g, S) = 0
<1>1. PICK h : Adds(h, g, S) /\ SumOver(g, S) = h[S]  BY SumAdds
<1> DEFINE T == {s \in SUBSET S : h[s] # 0}
<1>2. T = {}
  <2> SUFFICES ASSUME T # {} PROVE FALSE
    OBVIOUS
  <2>1. PICK s \in T : \A u \in T : u \subseteq s => u = s
    <3>1. T \subseteq SUBSET S  OBVIOUS
    <3> HIDE DEF T
    <3> QED  BY <3>1, SmallestSet
  <2>2. s \in SUBSET S /\ h[s] # 0  BY <2>1
  <2>3. s # {}  BY <1>1, <2>2, AddsUp
  <2> DEFINE x == Pick(s)
  <2>4. x \in s  BY <2>3, PickIsMember
  <2>5. h[s] = g[x] + h[s \ {x}]
    <3>1. \A v \in SUBSET S : v # {} => h[v] = g[Pick(v)] + h[v \ {Pick(v)}]
      BY <1>1, AddsUp
    <3> QED  BY <2>2, <2>3, <3>1
  <2> HIDE DEF x
  <2>6. h[s \ {x}] = 0  BY <2>1, <2>4
  <2> QED  BY <2>2, <2>4, <2>5, <2>6
<1> QED  BY <1>1, <1>2

LEMMA SumIsInteger ==
  ASSUME NEW S, IsFiniteSet(S), NEW g \in [S -> Int]
  PROVE  SumOver(g, S) \in Int
<1>1. CASE S = {}
  <2>1. \A x \in S : g[x] = 0  BY <1>1
  <2> QED  BY <2>1, SumOfZeros
<1>2. ASSUME NEW t \in S PROVE SumOver(g, S) \in Int
  <2>1. g[t] = g[t] + 0  OBVIOUS
  <2> QED  BY <2>1, SumMoves
<1> QED  BY <1>1, <1>2

\* Of the members of a finite set some has none above it.
LEMMA TopMember ==
  ASSUME NEW S, IsFiniteSet(S), S # {}, NEW above \in [S -> SUBSET S],
         \A x \in S : \A y \in above[x] : above[y] \subseteq above[x] /\ y \notin above[y]
  PROVE  \E x \in S : above[x] = {}
<1> DEFINE T == {above[x] : x \in S}
<1>1. T \subseteq SUBSET S /\ T # {}  OBVIOUS
<1>2. \A x \in S : above[x] \in T  OBVIOUS
<1>3. \A s \in T : \E x \in S : s = above[x]  OBVIOUS
<1> HIDE DEF T
<1>4. PICK s \in T : \A u \in T : u \subseteq s => u = s
  BY <1>1, SmallestSet
<1> QED  BY <1>2, <1>3, <1>4
=============================================================================
