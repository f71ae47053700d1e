------------------------- MODULE ShortestPathProofs -------------------------
(***************************************************************************)
(* Theorems about ShortestPath, for any database.                          *)
(*                                                                         *)
(* First, what Distance is: IsDistance collects the facts that are needed  *)
(* of it, and says nothing of the recursion that computes it.  Then what   *)
(* calc does to the two maps whatever the links are (Base), and what it does *)
(* without a stray link (PlainRelaxed, for any number of links), where the *)
(* walk of getNextHop ends at once.  Then the invariant: Base, and until a *)
(* stray link comes within reach the invariant of Dijkstra's algorithm, for *)
(* as long as no zeros are among the candidates (PlainInv).                *)
(***************************************************************************)
EXTENDS ShortestPath, FiniteSetTheorems, WellFoundedInduction, TLAPS

\* Induction over a set of numbers, and functions defined by recursion.
W == INSTANCE WireProofs

-----------------------------------------------------------------------------
(* Numbers. *)

\* A set of natural numbers has a least one.
LEMMA Smallest ==
  ASSUME NEW S, S \subseteq Nat, S # {}
  PROVE  \E x \in S : \A y \in S : x <= y
<1>. DEFINE R == {ss \in Nat \X Nat : ss[1] < ss[2]}
<1>1. PICK x \in S : \A y \in S : <<y, x>> \notin R
  <2>1. IsWellFoundedOn(R, Nat)
    BY NatLessThanWellFounded, Zenon DEF OpToRel
  <2>. HIDE DEF R
  <2>. QED
    BY <2>1, WFMin, Zenon
<1>2. ASSUME NEW y \in S PROVE x <= y
  <2>1. x \in Nat /\ y \in Nat /\ <<y, x>> \notin R
    BY <1>1
  <2>2. ~(y < x)
    BY <2>1
  <2>. QED
    BY <2>1, <2>2
<1>. QED
  BY <1>2

\* A finite one has a greatest.
LEMMA Largest ==
  ASSUME NEW S, S \subseteq Nat, S # {}, IsFiniteSet(S)
  PROVE  \E x \in S : \A y \in S : y <= x
<1>. DEFINE Has(D) == \E x \in D : \A y \in D : y <= x
            T == {n \in Nat : \A D \in SUBSET Nat :
                    IsFiniteSet(D) /\ D # {} /\ Cardinality(D) = n => Has(D)}
<1>1. 0 \in T
  BY FS_EmptySet
<1>2. ASSUME NEW n \in Nat, n \in T PROVE n + 1 \in T
  <2>. SUFFICES ASSUME NEW D \in SUBSET Nat, IsFiniteSet(D), D # {}, Cardinality(D) = n + 1
                PROVE  Has(D)
    OBVIOUS
  <2>1. PICK x : x \in D
    OBVIOUS
  <2>. DEFINE E == D \ {x}
  <2>2. IsFiniteSet(E) /\ Cardinality(E) = n /\ E \in SUBSET Nat
    <3>1. IsFiniteSet(E) /\ Cardinality(E) = Cardinality(D) - 1
      BY <2>1, FS_RemoveElement
    <3>2. E \in SUBSET Nat
      BY Zenon
    <3>. HIDE DEF E, T
    <3>. QED
      BY <3>1, <3>2
  <2>3. CASE E = {}
    <3>1. \A y \in D : y = x /\ y \in Nat
      BY <2>3
    <3>2. \A y \in D : y <= x
      BY <3>1
    <3>. QED
      BY <2>1, <3>2
  <2>4. CASE E # {}
    <3>1. PICK z \in E : \A y \in E : y <= z
      BY <1>2, <2>2, <2>4
    <3>2. CASE z <= x
      <4>1. \A y \in D : y = x \/ y \in E
        OBVIOUS
      <4>2. ASSUME NEW y \in D PROVE y <= x
        <5>1. y \in Nat /\ x \in Nat /\ z \in Nat
          BY <2>1
        <5>2. y = x \/ y <= z
          BY <3>1
        <5>. QED
          BY <3>2, <5>1, <5>2
      <4>. QED
        BY <2>1, <4>2
    <3>3. CASE x <= z
      <4>1. ASSUME NEW y \in D PROVE y <= z
        BY <3>1, <3>3
      <4>. QED
        BY <4>1
    <3>4. x \in Nat /\ z \in Nat
      BY <2>1
    <3>. QED
      BY <3>2, <3>3, <3>4
  <2>. QED
    BY <2>3, <2>4
<1>3. \A n \in Nat : n \in T
  <2>. HIDE DEF T
  <2>. QED
    BY <1>1, <1>2, W!Induction
<1>4. Cardinality(S) \in T
  BY <1>3, FS_CardinalityType
<1>. QED
  BY <1>4

-----------------------------------------------------------------------------
(* Paths. *)

\* The links of a router, as numbers.
LEMMA CostsOf ==
  ASSUME IsDatabase(lsdb), NEW u \in Routers, NEW v
  PROVE  /\ \A m : m \in Costs(u, v) <=>
              \E k \in 1..Len(lsdb.routers[u]) :
                /\ Usable(lsdb.routers[u][k])
                /\ lsdb.routers[u][k].linkId = v /\ lsdb.routers[u][k].metric = m
         /\ Costs(u, v) \subseteq Nat
         /\ Costs(u, v) # {} => v \in Routers
<1>. DEFINE r == lsdb.routers[u]
<1>1. \A m : m \in Costs(u, v) <=>
        \E k \in 1..Len(r) : Usable(r[k]) /\ r[k].linkId = v /\ r[k].metric = m
  BY Zenon DEF Costs
<1>2. r \in Seq(LinkSet)
  BY Zenon DEF IsDatabase, Routers
<1>3. ASSUME NEW k \in 1..Len(r) PROVE r[k].metric \in Nat
  <2>1. r[k] \in LinkSet
    <3>. HIDE DEF r
    <3>. QED
      BY <1>2
  <2>2. r[k].metric \in Metric
    BY <2>1 DEF LinkSet
  <2>. QED
    BY <2>2, Zenon DEF Metric
<1>4. \A k \in 1..Len(r) : Usable(r[k]) => r[k].linkId \in Routers
  BY Zenon DEF Usable, Routers
<1>. HIDE DEF r
<1>5. Costs(u, v) \subseteq Nat
  BY <1>1, <1>3
<1>6. Costs(u, v) # {} => v \in Routers
  BY <1>1, <1>4
<1>. QED
  BY <1>1, <1>5, <1>6, Zenon DEF r

\* There are finitely many routers and vertices, at most one more of these.
LEMMA RoutersFinite ==
  ASSUME IsDatabase(lsdb)
  PROVE  /\ IsFiniteSet(Routers) /\ Cardinality(Routers) \in Nat /\ Routers \subseteq Nat \ {0}
         /\ IsFiniteSet(Vertices) /\ Cardinality(Vertices) <= Cardinality(Routers) + 1
<1>1. IsFiniteSet(Routers) /\ Routers \subseteq Nat \ {0}
  BY Zenon DEF IsDatabase, Routers
<1>2. Cardinality(Routers) \in Nat
  BY <1>1, FS_CardinalityType
<1>3. IsFiniteSet(Vertices) /\ Cardinality(Vertices) <= Cardinality(Routers) + 1
  BY <1>1, <1>2, FS_AddElement DEF Vertices
<1>. QED
  BY <1>1, <1>2, <1>3

\* The costs that are reached with one link more.
LEMMA FurtherBy ==
  ASSUME IsDatabase(lsdb), NEW r \in [Vertices -> SUBSET Nat]
  PROVE  /\ Further(r) \in [Vertices -> SUBSET Nat]
         /\ \A v \in Vertices : \A c :
              c \in Further(r)[v] <=>
                c \in r[v] \/ \E u \in Routers : \E a \in r[u] : \E m \in Costs(u, v) : c = a + m
<1>. DEFINE Next1(v) == r[v] \cup UNION {{c + m : c \in r[u], m \in Costs(u, v)} : u \in Routers}
<1>0. Further(r) = [v \in Vertices |-> Next1(v)]
  BY DEF Further
<1>1. ASSUME NEW v \in Vertices, NEW c
      PROVE  c \in Next1(v) <=>
               c \in r[v] \/ \E u \in Routers : \E a \in r[u] : \E m \in Costs(u, v) : c = a + m
  OBVIOUS
<1>2. ASSUME NEW v \in Vertices PROVE Next1(v) \in SUBSET Nat
  <2>1. ASSUME NEW u \in Routers, NEW a \in r[u], NEW m \in Costs(u, v) PROVE a + m \in Nat
    <3>1. m \in Nat
      BY CostsOf
    <3>2. a \in Nat
      BY DEF Vertices
    <3>. QED
      BY <3>1, <3>2
  <2>2. r[v] \in SUBSET Nat
    OBVIOUS
  <2>3. ASSUME NEW c \in Next1(v) PROVE c \in Nat
    <3>. HIDE DEF Next1
    <3>. QED
      BY <1>1, <2>1, <2>2
  <2>. HIDE DEF Next1
  <2>. QED
    BY <2>3
<1>. HIDE DEF Next1
<1>3. Further(r) \in [Vertices -> SUBSET Nat]
  BY <1>0, <1>2
<1>4. \A v \in Vertices : Further(r)[v] = Next1(v)
  BY <1>0
<1>5. ASSUME NEW v \in Vertices, NEW c
      PROVE  c \in Further(r)[v] <=>
               c \in r[v] \/ \E u \in Routers : \E a \in r[u] : \E m \in Costs(u, v) : c = a + m
  BY <1>1, <1>4
<1>. QED
  BY <1>3, <1>5

Links == Cardinality(Routers)

\* The costs of the paths of at most k links.
IsOver(f) ==
  /\ f \in [0..Links -> [Vertices -> SUBSET Nat]]
  /\ f[0] = [v \in Vertices |-> IF v = Root THEN {0} ELSE {}]
  /\ \A k \in 1..Links : f[k] = Further(f[k - 1])

\* Reached is what its definition says.
LEMMA ReachedOver ==
  ASSUME IsDatabase(lsdb)
  PROVE  \E f : IsOver(f) /\ Reached = f[Links]
<1>. DEFINE n == Links
            S == [Vertices -> SUBSET Nat]
            base == [v \in Vertices |-> IF v = Root THEN {0} ELSE {}]
            Rule(f) == [k \in 0..n |-> IF k = 0 THEN base ELSE Further(f[k - 1])]
            c == CHOOSE f : f = Rule(f)
            step == [x \in S \X (1..n) |-> Further(x[1])]
<1>1. n \in Nat
  BY RoutersFinite DEF Links
<1>2. \A r \in S : Further(r) \in S
  BY FurtherBy
<1>3. base \in S
  OBVIOUS
<1>4. PICK f \in [0..n -> S] : f[0] = base /\ \A k \in 1..n : f[k] = step[<<f[k - 1], k>>]
  <2>1. step \in [S \X (1..n) -> S]
    <3>. HIDE DEF S
    <3>. QED
      BY <1>2
  <2>. HIDE DEF step, n, base, S
  <2>2. \E f : W!Follows(f, S, n, base, step)
    BY <1>1, <1>3, <2>1, W!Recursion, Zenon
  <2>. QED
    BY <2>2 DEF W!Follows
<1>. HIDE DEF S, base
<1>5. f = Rule(f)
  <2>1. ASSUME NEW k \in 1..n PROVE f[k] = Further(f[k - 1])
    <3>1. f[k - 1] \in S
      BY <1>1, <1>4
    <3>. QED
      BY <1>4, <3>1
  <2>2. DOMAIN f = 0..n /\ f[0] = base
    BY <1>4
  <2>. QED
    BY <1>1, <1>4, <2>1, <2>2
<1>6. c = Rule(c)
  <2>. HIDE DEF Rule
  <2>. QED
    BY <1>5
<1>7. c[0] = base /\ \A k \in 1..n : c[k] = Further(c[k - 1])
  <2>. HIDE DEF c
  <2>1. \A k \in 0..n : c[k] = IF k = 0 THEN base ELSE Further(c[k - 1])
    BY <1>6
  <2>2. 0 \in 0..n /\ \A k \in 1..n : k \in 0..n /\ k # 0
    BY <1>1
  <2>. HIDE DEF n
  <2>. QED
    BY <2>1, <2>2
<1>. DEFINE T == {k \in Nat : k <= n => c[k] \in S}
<1>8. \A k \in Nat : k \in T
  <2>. HIDE DEF c, n
  <2>1. 0 \in T
    BY <1>3, <1>7
  <2>2. ASSUME NEW k \in Nat, k \in T PROVE k + 1 \in T
    <3>. SUFFICES ASSUME k + 1 <= n PROVE c[k + 1] \in S
      OBVIOUS
    <3>1. k + 1 \in 1..n /\ k + 1 - 1 = k /\ c[k] \in S
      BY <1>1, <2>2
    <3>. QED
      BY <1>2, <1>7, <3>1
  <2>. HIDE DEF T
  <2>. QED
    BY <2>1, <2>2, W!Induction
<1>9. c \in [0..n -> S]
  <2>. HIDE DEF c, n
  <2>1. \A k \in 0..n : c[k] \in S
    BY <1>1, <1>8
  <2>. QED
    BY <1>6, <2>1
<1>10. IsOver(c)
  BY <1>7, <1>9, Zenon DEF IsOver, S, base
<1>11. Reached = c[n]
  BY DEF Reached, Links, base
<1>. QED
  BY <1>10, <1>11

\* Over no link only the root is reached, at no cost.
LEMMA OverStart ==
  ASSUME NEW f, IsOver(f), NEW v \in Vertices, NEW c
  PROVE  c \in f[0][v] <=> v = Root /\ c = 0
  BY DEF IsOver

\* c is the cost of a path of k links and one to v.
ByLink(f, k, v, c) == \E u \in Routers : \E a \in f[k][u] : \E m \in Costs(u, v) : c = a + m

\* Over one more link: as before, or by a link from a router that was reached.
LEMMA OverNext ==
  ASSUME IsDatabase(lsdb), NEW f, IsOver(f), NEW k \in Nat, k + 1 <= Links, NEW v \in Vertices, NEW c
  PROVE  c \in f[k + 1][v] <=> c \in f[k][v] \/ ByLink(f, k, v, c)
<1>0. Links \in Nat
  BY RoutersFinite DEF Links
<1>1. k + 1 \in 1..Links /\ k \in 0..Links /\ k + 1 - 1 = k
  BY <1>0
<1>2. f[k + 1] = Further(f[k]) /\ f[k] \in [Vertices -> SUBSET Nat]
  BY <1>1 DEF IsOver
<1>. DEFINE r == f[k]
<1>21. r \in [Vertices -> SUBSET Nat]
  BY <1>2
<1>. HIDE DEF r
<1>3. c \in Further(r)[v] <=>
        c \in r[v] \/ \E u \in Routers : \E a \in r[u] : \E m \in Costs(u, v) : c = a + m
  BY <1>21, FurtherBy
<1>. QED
  BY <1>2, <1>3, Zenon DEF r, ByLink

\* What is reached over k links is reached over more.
LEMMA OverMonotone ==
  ASSUME IsDatabase(lsdb), NEW f, IsOver(f), NEW v \in Vertices, NEW c, NEW k \in Nat, k <= Links,
         c \in f[k][v]
  PROVE  c \in f[Links][v]
<1>. DEFINE S == {j \in Nat : k + j <= Links => c \in f[k + j][v]}
<1>0. Links \in Nat
  BY RoutersFinite DEF Links
<1>1. 0 \in S
  BY <1>0
<1>2. ASSUME NEW j \in Nat, j \in S PROVE j + 1 \in S
  <2>. SUFFICES ASSUME k + (j + 1) <= Links PROVE c \in f[k + (j + 1)][v]
    OBVIOUS
  <2>1. k + j \in Nat /\ k + j <= Links /\ k + j + 1 = k + (j + 1)
    BY <1>0
  <2>2. c \in f[k + j][v]
    BY <1>2, <2>1
  <2>3. c \in f[k + j + 1][v]
    BY <2>1, <2>2, OverNext
  <2>. QED
    BY <2>1, <2>3
<1>3. Links - k \in S
  <2>. HIDE DEF S
  <2>1. \A j \in Nat : j \in S
    BY <1>1, <1>2, W!Induction
  <2>. QED
    BY <1>0, <2>1
<1>. QED
  BY <1>0, <1>3

\* Vertices that have been settled in the order of their distances.
Settled(T, D) ==
  /\ T \subseteq Vertices /\ Root \in T /\ D \in [T -> Nat] /\ D[Root] = 0
  /\ \A u \in T \cap Routers : \A w \in Routers : \A m \in Costs(u, w) :
       IF w \in T THEN D[w] <= D[u] + m ELSE \A x \in T : D[x] <= D[u] + m

Within(f, k, T, D) == \A v \in T : D[v] \in f[k][v]

\* No link leaves T.
Closed(T) == \A u \in T \cap Routers : \A w \in Routers : Costs(u, w) # {} => w \in T

\* A vertex at the end of the best link that leaves T is settled next.
LEMMA SettleOne ==
  ASSUME IsDatabase(lsdb), NEW T, NEW D, Settled(T, D), ~Closed(T)
  PROVE  \E u \in T \cap Routers : \E w \in Routers \ T : \E m \in Costs(u, w) :
           Settled(T \cup {w}, [x \in T \cup {w} |-> IF x = w THEN D[u] + m ELSE D[x]])
<1>. DEFINE Out == {c \in Nat : \E u \in T \cap Routers : \E w \in Routers \ T : \E m \in Costs(u, w) : c = D[u] + m}
<1>0. \A u \in T \cap Routers : D[u] \in Nat /\ \A w : Costs(u, w) \subseteq Nat
  BY CostsOf DEF Settled
<1>1. Out # {}
  <2>1. PICK u \in T \cap Routers, w \in Routers \ T : Costs(u, w) # {}
    BY DEF Closed
  <2>2. PICK m \in Costs(u, w) : TRUE
    BY <2>1
  <2>3. D[u] + m \in Nat
    BY <1>0, <2>2
  <2>. QED
    BY <2>2, <2>3
<1>2. PICK c \in Out : \A b \in Out : c <= b
  <2>. HIDE DEF Out
  <2>1. Out \subseteq Nat
    BY DEF Out
  <2>. QED
    BY <1>1, <2>1, Smallest, Zenon
<1>31. PICK u \in T \cap Routers, w \in Routers \ T : \E m \in Costs(u, w) : c = D[u] + m
  BY <1>2
<1>3. PICK m \in Costs(u, w) : c = D[u] + m
  BY <1>31
<1>4. ASSUME NEW u2 \in T \cap Routers, NEW w2 \in Routers \ T, NEW m2 \in Costs(u2, w2)
      PROVE  c <= D[u2] + m2
  <2>1. D[u2] + m2 \in Nat
    BY <1>0
  <2>2. D[u2] + m2 \in Out
    BY <2>1
  <2>. QED
    BY <1>2, <2>2
<1>5. c \in Nat
  BY <1>2
<1>. HIDE DEF Out
<1>. DEFINE T2 == T \cup {w}
            D2 == [x \in T2 |-> IF x = w THEN c ELSE D[x]]
<1>6. T2 \subseteq Vertices /\ Root \in T2 /\ D2 \in [T2 -> Nat] /\ D2[Root] = 0
  BY <1>5 DEF Settled, Vertices
<1>7. D2[w] = c /\ \A x \in T : D2[x] = D[x] /\ D[x] \in Nat
  BY DEF Settled
<1>71. \A x \in T : D2[x] <= c
  <2>1. \A x \in T : D[x] <= D[u] + m
    BY DEF Settled
  <2>. QED
    BY <1>3, <1>7, <2>1
<1>8. ASSUME NEW p \in T2 \cap Routers, NEW q \in Routers, NEW k \in Costs(p, q)
      PROVE  IF q \in T2 THEN D2[q] <= D2[p] + k ELSE \A x \in T2 : D2[x] <= D2[p] + k
  <2>0. k \in Nat
    BY CostsOf
  <2>1. CASE p \in T /\ q \in T
    <3>1. D[q] <= D[p] + k
      BY <2>1 DEF Settled
    <3>. HIDE DEF D2
    <3>. QED
      BY <1>7, <2>1, <3>1
  <2>2. CASE p \in T /\ q \notin T
    <3>1. c <= D[p] + k
      BY <1>4, <2>2
    <3>2. \A x \in T : D[x] <= D[p] + k
      BY <2>2 DEF Settled
    <3>. HIDE DEF D2
    <3>. QED
      BY <1>7, <2>2, <3>1, <3>2
  <2>3. CASE p = w
    <3>. HIDE DEF D2
    <3>1. \A x \in T2 : D2[x] \in Nat /\ D2[x] <= c
      BY <1>5, <1>7, <1>71
    <3>2. \A x \in T2 : D2[x] <= c + k
      BY <1>5, <2>0, <3>1
    <3>. QED
      BY <1>7, <2>3, <3>2
  <2>. QED
    BY <2>1, <2>2, <2>3
<1>9. Settled(T2, D2)
  <2>. HIDE DEF D2, T2
  <2>. QED
    BY <1>6, <1>8, Zenon DEF Settled
<1>. QED
  BY <1>3, <1>9

Grown(f, k, T, D) == Settled(T, D) /\ Within(f, k, T, D) /\ (Closed(T) \/ Cardinality(T) = k + 1)

\* One more link settles one more vertex, unless all that can be reached is settled.
LEMMA GrowOne ==
  ASSUME IsDatabase(lsdb), NEW f, IsOver(f), NEW k \in Nat, k + 1 <= Links,
         NEW T, NEW D, Grown(f, k, T, D)
  PROVE  \E T2, D2 : Grown(f, k + 1, T2, D2)
<1>1. Settled(T, D) /\ T \subseteq Vertices /\ D \in [T -> Nat]
  BY DEF Grown, Settled
<1>2. ASSUME NEW v \in T PROVE D[v] \in f[k + 1][v]
  <2>1. v \in Vertices /\ D[v] \in f[k][v]
    BY <1>1 DEF Grown, Within
  <2>. QED
    BY <2>1, OverNext
<1>3. CASE Closed(T)
  <2>1. Grown(f, k + 1, T, D)
    BY <1>1, <1>2, <1>3 DEF Grown, Within
  <2>. QED
    BY <2>1
<1>4. CASE ~Closed(T)
  <2>1. PICK u \in T \cap Routers, w \in Routers \ T : \E m \in Costs(u, w) :
          Settled(T \cup {w}, [x \in T \cup {w} |-> IF x = w THEN D[u] + m ELSE D[x]])
    BY <1>1, <1>4, SettleOne
  <2>2. PICK m \in Costs(u, w) :
          Settled(T \cup {w}, [x \in T \cup {w} |-> IF x = w THEN D[u] + m ELSE D[x]])
    BY <2>1
  <2>. DEFINE T2 == T \cup {w}
              D2 == [x \in T2 |-> IF x = w THEN D[u] + m ELSE D[x]]
  <2>3. D2[w] = D[u] + m /\ \A v \in T : D2[v] = D[v]
    OBVIOUS
  <2>4. D[u] + m \in f[k + 1][w]
    <3>1. w \in Vertices /\ D[u] \in f[k][u]
      BY DEF Grown, Within, Vertices
    <3>2. ByLink(f, k, w, D[u] + m)
      BY <3>1 DEF ByLink
    <3>. QED
      BY <3>1, <3>2, OverNext
  <2>5. Within(f, k + 1, T2, D2)
    <3>. HIDE DEF D2
    <3>. QED
      BY <1>2, <2>3, <2>4 DEF Within
  <2>6. Cardinality(T2) = k + 1 + 1
    <3>1. Cardinality(T) = k + 1
      BY <1>4 DEF Grown
    <3>2. IsFiniteSet(T)
      BY <1>1, RoutersFinite, FS_Subset
    <3>3. Cardinality(T2) = Cardinality(T) + 1
      BY <3>2, FS_AddElement
    <3>. QED
      BY <3>1, <3>3
  <2>7. Grown(f, k + 1, T2, D2)
    BY <2>2, <2>5, <2>6, Zenon DEF Grown
  <2>. QED
    BY <2>7
<1>. QED
  BY <1>3, <1>4

\* Over as many links as there are routers every distance is reached.
LEMMA AllSettled ==
  ASSUME IsDatabase(lsdb), NEW f, IsOver(f)
  PROVE  \E T, D : Settled(T, D) /\ Within(f, Links, T, D) /\ Closed(T)
<1>. DEFINE S == {k \in Nat : k <= Links => \E T, D : Grown(f, k, T, D)}
<1>0. Links \in Nat
  BY RoutersFinite DEF Links
<1>1. 0 \in S
  <2>. DEFINE T == {Root}
              D == [x \in T |-> 0]
  <2>1. Settled(T, D)
    <3>1. T \subseteq Vertices /\ Root \in T /\ D \in [T -> Nat] /\ D[Root] = 0
      BY DEF Vertices
    <3>2. ASSUME NEW u \in T \cap Routers, NEW w \in Routers, NEW m \in Costs(u, w)
          PROVE  IF w \in T THEN D[w] <= D[u] + m ELSE \A x \in T : D[x] <= D[u] + m
      <4>1. m \in Nat
        BY CostsOf
      <4>. QED
        BY <4>1
    <3>. HIDE DEF D, T
    <3>. QED
      BY <3>1, <3>2, Zenon DEF Settled
  <2>2. Within(f, 0, T, D)
    BY OverStart DEF Within, Vertices
  <2>3. Cardinality(T) = 0 + 1
    <3>1. Cardinality({Root}) = 1
      BY FS_Singleton, Zenon
    <3>. QED
      BY <3>1
  <2>4. Grown(f, 0, T, D)
    BY <2>1, <2>2, <2>3, Zenon DEF Grown
  <2>. QED
    BY <2>4
<1>2. ASSUME NEW k \in Nat, k \in S PROVE k + 1 \in S
  <2>. SUFFICES ASSUME k + 1 <= Links PROVE \E T, D : Grown(f, k + 1, T, D)
    OBVIOUS
  <2>1. PICK T, D : Grown(f, k, T, D)
    BY <1>0, <1>2
  <2>. QED
    BY <2>1, GrowOne
<1>3. PICK T, D : Grown(f, Links, T, D)
  <2>. HIDE DEF S
  <2>1. \A k \in Nat : k \in S
    BY <1>1, <1>2, W!Induction
  <2>. QED
    BY <1>0, <2>1 DEF S
<1>4. Closed(T)
  <2>. SUFFICES ASSUME Cardinality(T) = Links + 1 PROVE Closed(T)
    BY <1>3 DEF Grown
  <2>1. T \in SUBSET Vertices
    BY <1>3 DEF Grown, Settled
  <2>2. IsFiniteSet(Vertices) /\ Cardinality(Vertices) <= Links + 1
    BY RoutersFinite DEF Links
  <2>3. Cardinality(T) <= Cardinality(Vertices) /\ Cardinality(Vertices) \in Nat
    BY <2>1, <2>2, FS_Subset, FS_CardinalityType
  <2>4. Cardinality(Vertices) = Cardinality(T)
    BY <1>0, <2>2, <2>3
  <2>5. Vertices = T
    BY <2>1, <2>2, <2>4, FS_Subset
  <2>. QED
    BY <2>5 DEF Closed, Vertices
<1>. QED
  BY <1>3, <1>4 DEF Grown

\* No path is shorter than what has been settled.
LEMMA NoPathShorter ==
  ASSUME IsDatabase(lsdb), NEW f, IsOver(f), NEW T, NEW D, Settled(T, D), Closed(T),
         NEW n \in Nat, n <= Links, NEW x \in Vertices, NEW e \in f[n][x]
  PROVE  x \in T /\ D[x] <= e /\ e \in Nat
<1>. DEFINE S == {k \in Nat : k <= Links => \A v \in Vertices : \A c \in f[k][v] : v \in T /\ D[v] <= c /\ c \in Nat}
<1>0. Links \in Nat
  BY RoutersFinite DEF Links
<1>1. 0 \in S
  BY OverStart DEF Settled
<1>2. ASSUME NEW k \in Nat, k \in S PROVE k + 1 \in S
  <2>. SUFFICES ASSUME k + 1 <= Links, NEW v \in Vertices, NEW c \in f[k + 1][v]
                PROVE  v \in T /\ D[v] <= c /\ c \in Nat
    OBVIOUS
  <2>1. \A p \in Vertices : \A a \in f[k][p] : p \in T /\ D[p] <= a /\ a \in Nat
    BY <1>0, <1>2
  <2>. HIDE DEF S
  <2>2. c \in f[k][v] \/ ByLink(f, k, v, c)
    BY OverNext
  <2>3. CASE c \in f[k][v]
    BY <2>1, <2>3
  <2>4. CASE ByLink(f, k, v, c)
    <3>0. PICK u \in Routers : \E a \in f[k][u] : \E m \in Costs(u, v) : c = a + m
      BY <2>4 DEF ByLink
    <3>1. PICK a \in f[k][u] : \E m \in Costs(u, v) : c = a + m
      BY <3>0
    <3>2. PICK m \in Costs(u, v) : c = a + m
      BY <3>1
    <3>3. u \in T /\ D[u] <= a /\ a \in Nat
      BY <2>1 DEF Vertices
    <3>4. v \in Routers /\ m \in Nat
      BY CostsOf
    <3>5. v \in T
      BY <3>3, <3>4 DEF Closed
    <3>6. D[v] <= D[u] + m /\ D[v] \in Nat /\ D[u] \in Nat
      BY <3>3, <3>4, <3>5 DEF Settled
    <3>. QED
      BY <3>2, <3>3, <3>4, <3>5, <3>6
  <2>. QED
    BY <2>2, <2>3, <2>4
<1>3. n \in S
  <2>. HIDE DEF S
  <2>. QED
    BY <1>1, <1>2, W!Induction
<1>. QED
  BY <1>3

\* What is used of the distances.  The second line: no path is shorter; the third:
\* the last link of a shortest path comes from one; the fourth: a shortest path
\* out of a set crosses its border.
IsDistance(d) ==
  /\ DOMAIN d \subseteq Vertices /\ Root \in DOMAIN d /\ d[Root] = 0 /\ \A v \in DOMAIN d : d[v] \in Nat
  /\ \A u \in DOMAIN d \cap Routers : \A w \in Routers : \A m \in Costs(u, w) :
       w \in DOMAIN d /\ d[w] <= d[u] + m
  /\ \A v \in DOMAIN d \ {Root} : \E u \in DOMAIN d \cap Routers : \E m \in Costs(u, v) : d[v] = d[u] + m
  /\ \A A : Root \in A => \A v \in DOMAIN d \ A :
       \E u \in A \cap DOMAIN d \cap Routers : \E w \in Routers \ A : \E m \in Costs(u, w) : d[u] + m <= d[v]

\* The last link.
LEMMA LastLink ==
  ASSUME IsDatabase(lsdb), NEW f, IsOver(f), NEW T, NEW D, Settled(T, D), Closed(T),
         NEW n \in Nat, n <= Links, NEW x \in T \ {Root}, D[x] \in f[n][x]
  PROVE  \E u \in T \cap Routers : \E m \in Costs(u, x) : D[x] = D[u] + m
<1>. DEFINE Ends == \E u \in T \cap Routers : \E m \in Costs(u, x) : D[x] = D[u] + m
            S == {k \in Nat : k <= Links /\ D[x] \in f[k][x] => Ends}
<1>0. Links \in Nat /\ x \in Vertices /\ D[x] \in Nat /\ \A u \in T : D[u] \in Nat
  BY RoutersFinite DEF Links, Settled
<1>1. 0 \in S
  BY <1>0, OverStart
<1>2. ASSUME NEW k \in Nat, k \in S PROVE k + 1 \in S
  <2>. SUFFICES ASSUME k + 1 <= Links, D[x] \in f[k + 1][x] PROVE Ends
    OBVIOUS
  <2>1. D[x] \in f[k][x] \/ ByLink(f, k, x, D[x])
    BY <1>0, OverNext
  <2>2. CASE D[x] \in f[k][x]
    BY <1>0, <1>2, <2>2
  <2>3. CASE ByLink(f, k, x, D[x])
    <3>0. PICK u \in Routers : \E a \in f[k][u] : \E m \in Costs(u, x) : D[x] = a + m
      BY <2>3 DEF ByLink
    <3>1. PICK a \in f[k][u] : \E m \in Costs(u, x) : D[x] = a + m
      BY <3>0
    <3>2. PICK m \in Costs(u, x) : D[x] = a + m
      BY <3>1
    <3>3. u \in T /\ D[u] <= a /\ a \in Nat
      BY <1>0, NoPathShorter DEF Vertices
    <3>4. x \in Routers /\ m \in Nat
      BY CostsOf
    <3>5. D[x] <= D[u] + m
      BY <3>3, <3>4 DEF Settled
    <3>6. D[x] = D[u] + m
      BY <1>0, <3>2, <3>3, <3>4, <3>5
    <3>. QED
      BY <3>3, <3>6
  <2>. QED
    BY <2>1, <2>2, <2>3
<1>3. n \in S
  <2>. HIDE DEF S
  <2>. QED
    BY <1>1, <1>2, W!Induction
<1>. QED
  BY <1>3

\* The border that a path crosses.
LEMMA Crossing ==
  ASSUME IsDatabase(lsdb), NEW f, IsOver(f), NEW T, NEW D, Settled(T, D), Closed(T),
         NEW A, Root \in A, NEW n \in Nat, n <= Links, NEW x \in Vertices \ A, NEW e \in f[n][x]
  PROVE  \E u \in A \cap T \cap Routers : \E w \in Routers \ A : \E m \in Costs(u, w) : D[u] + m <= e
<1>. DEFINE Crosses(c) == \E u \in A \cap T \cap Routers : \E w \in Routers \ A : \E m \in Costs(u, w) : D[u] + m <= c
            S == {k \in Nat : k <= Links => \A v \in Vertices \ A : \A c \in f[k][v] : Crosses(c)}
<1>0. Links \in Nat /\ \A u \in T : D[u] \in Nat
  BY RoutersFinite DEF Links, Settled
<1>1. 0 \in S
  BY OverStart
<1>2. ASSUME NEW k \in Nat, k \in S PROVE k + 1 \in S
  <2>. SUFFICES ASSUME k + 1 <= Links, NEW v \in Vertices \ A, NEW c \in f[k + 1][v] PROVE Crosses(c)
    OBVIOUS
  <2>0. \A p \in Vertices \ A : \A a \in f[k][p] : Crosses(a)
    BY <1>0, <1>2
  <2>1. c \in f[k][v] \/ ByLink(f, k, v, c)
    BY OverNext
  <2>2. CASE c \in f[k][v]
    BY <2>0, <2>2
  <2>3. CASE ByLink(f, k, v, c)
    <3>0. PICK u \in Routers : \E a \in f[k][u] : \E m \in Costs(u, v) : c = a + m
      BY <2>3 DEF ByLink
    <3>1. PICK a \in f[k][u] : \E m \in Costs(u, v) : c = a + m
      BY <3>0
    <3>2. PICK m \in Costs(u, v) : c = a + m
      BY <3>1
    <3>3. u \in T /\ D[u] <= a /\ a \in Nat
      BY <1>0, NoPathShorter DEF Vertices
    <3>4. v \in Routers /\ m \in Nat
      BY CostsOf
    <3>5. CASE u \in A
      <4>1. D[u] + m <= c
        BY <1>0, <3>2, <3>3, <3>4
      <4>. QED
        BY <3>3, <3>4, <3>5, <4>1
    <3>6. CASE u \notin A
      <4>1. Crosses(a)
        BY <2>0, <3>6 DEF Vertices
      <4>2. PICK p \in A \cap T \cap Routers, w \in Routers \ A : \E j \in Costs(p, w) : D[p] + j <= a
        BY <4>1
      <4>3. PICK j \in Costs(p, w) : D[p] + j <= a
        BY <4>2
      <4>4. j \in Nat /\ D[p] \in Nat
        BY <1>0, CostsOf
      <4>5. D[p] + j <= c
        BY <3>2, <3>3, <3>4, <4>3, <4>4
      <4>. QED
        BY <4>5
    <3>. QED
      BY <3>5, <3>6
  <2>. QED
    BY <2>1, <2>2, <2>3
<1>3. n \in S
  <2>. HIDE DEF S
  <2>. QED
    BY <1>1, <1>2, W!Induction
<1>. QED
  BY <1>3

\* Distance is one.
LEMMA Distances ==
  ASSUME IsDatabase(lsdb)
  PROVE  IsDistance(Distance)
<1>0. Links \in Nat
  BY RoutersFinite DEF Links
<1>1. PICK f : IsOver(f) /\ Reached = f[Links]
  BY ReachedOver
<1>2. PICK T, D : Settled(T, D) /\ Within(f, Links, T, D) /\ Closed(T)
  BY <1>1, AllSettled
<1>3. T \subseteq Vertices /\ D \in [T -> Nat]
  BY <1>2 DEF Settled
<1>4. DOMAIN Reached = Vertices
  BY <1>0, <1>1 DEF IsOver
<1>5. \A v \in Vertices : \A c \in Reached[v] : v \in T /\ D[v] <= c /\ c \in Nat
  BY <1>0, <1>1, <1>2, NoPathShorter
<1>6. \A v \in T : D[v] \in Reached[v]
  BY <1>1, <1>2 DEF Within
<1>7. {v \in DOMAIN Reached : Reached[v] # {}} = T
  BY <1>3, <1>4, <1>5, <1>6
<1>8. ASSUME NEW v \in T
      PROVE  D[v] = CHOOSE c \in Reached[v] : \A b \in Reached[v] : c <= b
  <2>. DEFINE R == Reached[v]
              P(c) == c \in R /\ \A b \in R : c <= b
  <2>1. P(D[v]) /\ \A c \in R : c \in Nat
    BY <1>3, <1>5, <1>6
  <2>2. ASSUME NEW c, P(c) PROVE c = D[v]
    <3>1. c <= D[v] /\ D[v] <= c /\ c \in Nat /\ D[v] \in Nat
      BY <2>1, <2>2
    <3>. QED
      BY <3>1
  <2>. HIDE DEF R
  <2>3. (CHOOSE c \in R : \A b \in R : c <= b) = D[v]
    BY <2>1, <2>2
  <2>. QED
    BY <2>3 DEF R
<1>9. Distance = D
  <2>1. Distance = [v \in T |-> CHOOSE c \in Reached[v] : \A b \in Reached[v] : c <= b]
    BY <1>7 DEF Distance
  <2>. QED
    BY <1>3, <1>8, <2>1
<1>10. DOMAIN D \subseteq Vertices /\ Root \in DOMAIN D /\ D[Root] = 0 /\ \A v \in DOMAIN D : D[v] \in Nat
  BY <1>2 DEF Settled
<1>11. ASSUME NEW u \in DOMAIN D \cap Routers, NEW w \in Routers, NEW m \in Costs(u, w)
       PROVE  w \in DOMAIN D /\ D[w] <= D[u] + m
  <2>1. u \in T /\ w \in T
    BY <1>2, <1>3 DEF Closed
  <2>. QED
    BY <1>2, <1>3, <2>1 DEF Settled
<1>12. ASSUME NEW v \in DOMAIN D \ {Root}
       PROVE  \E u \in DOMAIN D \cap Routers : \E m \in Costs(u, v) : D[v] = D[u] + m
  <2>1. v \in T \ {Root} /\ D[v] \in f[Links][v] /\ Links <= Links
    BY <1>0, <1>1, <1>3, <1>6
  <2>2. \E u \in T \cap Routers : \E m \in Costs(u, v) : D[v] = D[u] + m
    BY <1>0, <1>1, <1>2, <2>1, LastLink
  <2>. QED
    BY <1>3, <2>2
<1>13. ASSUME NEW A, Root \in A, NEW v \in DOMAIN D \ A
       PROVE  \E u \in A \cap DOMAIN D \cap Routers : \E w \in Routers \ A : \E m \in Costs(u, w) : D[u] + m <= D[v]
  <2>1. v \in Vertices \ A /\ D[v] \in f[Links][v] /\ Links <= Links /\ DOMAIN D = T
    BY <1>0, <1>1, <1>3, <1>6
  <2>2. \E u \in A \cap T \cap Routers : \E w \in Routers \ A : \E m \in Costs(u, w) : D[u] + m <= D[v]
    BY <1>0, <1>1, <1>2, <1>13, <2>1, Crossing
  <2>. QED
    BY <2>1, <2>2
<1>14. IsDistance(D)
  BY <1>10, <1>11, <1>12, <1>13, Zenon DEF IsDistance
<1>. QED
  BY <1>9, <1>14

-----------------------------------------------------------------------------
(* The two maps. *)

Entry == {Zero} \cup [id : Nat, pid : Nat, type : {1}, cost : Nat]

Maps == UNION {[D -> Entry] : D \in SUBSET Nat}

\* A map is a function from numbers to vertices.
LEMMA MapsAre ==
  ASSUME NEW m
  PROVE  m \in Maps <=> DOMAIN m \subseteq Nat /\ m \in [DOMAIN m -> Entry]
<1>1. ASSUME m \in Maps PROVE DOMAIN m \subseteq Nat /\ m \in [DOMAIN m -> Entry]
  <2>1. PICK D \in SUBSET Nat : m \in [D -> Entry]
    BY <1>1 DEF Maps
  <2>. QED
    BY <2>1
<1>2. ASSUME DOMAIN m \subseteq Nat, m \in [DOMAIN m -> Entry] PROVE m \in Maps
  <2>1. DOMAIN m \in SUBSET Nat
    BY <1>2
  <2>. QED
    BY <1>2, <2>1 DEF Maps
<1>. QED
  BY <1>1, <1>2

\* The fields of a vertex.
LEMMA EntryAre ==
  ASSUME NEW e \in Entry
  PROVE  /\ e.id \in Nat /\ e.pid \in Nat /\ e.cost \in Nat
         /\ e = Zero \/ e.type = 1
         /\ e = Zero => e.type = 0 /\ e.cost = 0
  BY DEF Entry, Zero

\* What a map holds.
LEMMA EntryOf ==
  ASSUME NEW m \in Maps, NEW v \in DOMAIN m
  PROVE  v \in Nat /\ m[v] \in Entry
  BY MapsAre

\* n is m with e at key.
IsPut(n, m, key, e) ==
  /\ n \in Maps /\ DOMAIN n = DOMAIN m \cup {key} /\ n[key] = e
  /\ \A v \in DOMAIN m \ {key} : n[v] = m[v]

\* Put changes its key alone.
LEMMA PutIs ==
  ASSUME NEW m \in Maps, NEW key \in Nat, NEW e \in Entry
  PROVE  IsPut(Put(m, key, e), m, key, e)
<1>. DEFINE n == Put(m, key, e)
<1>1. n = [v \in DOMAIN m \cup {key} |-> IF v = key THEN e ELSE m[v]]
  BY DEF Put
<1>2. DOMAIN m \subseteq Nat /\ m \in [DOMAIN m -> Entry]
  BY MapsAre
<1>3. DOMAIN n = DOMAIN m \cup {key} /\ n[key] = e /\ \A v \in DOMAIN m \ {key} : n[v] = m[v]
  BY <1>1
<1>4. n \in [DOMAIN n -> Entry]
  BY <1>1, <1>2
<1>. HIDE DEF n
<1>5. n \in Maps
  BY <1>2, <1>3, <1>4, MapsAre
<1>. QED
  BY <1>3, <1>5 DEF IsPut, n

\* What operator[] leaves.
LEMMA TouchedIs ==
  ASSUME NEW m \in Maps, NEW key \in Nat
  PROVE  IF key \in DOMAIN m THEN Touched(m, key) = m ELSE IsPut(Touched(m, key), m, key, Zero)
<1>1. CASE key \in DOMAIN m
  BY <1>1 DEF Touched
<1>2. CASE key \notin DOMAIN m
  <2>1. Zero \in Entry
    BY DEF Entry
  <2>. QED
    BY <1>2, <2>1, PutIs DEF Touched
<1>. QED
  BY <1>1, <1>2

\* What erase leaves.
LEMMA WithoutIs ==
  ASSUME NEW m \in Maps, NEW key
  PROVE  /\ Without(m, key) \in Maps /\ DOMAIN Without(m, key) = DOMAIN m \ {key}
         /\ \A v \in DOMAIN m \ {key} : Without(m, key)[v] = m[v]
<1>. DEFINE n == Without(m, key)
<1>1. n = [v \in DOMAIN m \ {key} |-> m[v]]
  BY DEF Without, Restrict
<1>2. DOMAIN m \subseteq Nat /\ m \in [DOMAIN m -> Entry]
  BY MapsAre
<1>3. n \in [DOMAIN n -> Entry] /\ DOMAIN n \subseteq Nat
  BY <1>1, <1>2
<1>4. DOMAIN n = DOMAIN m \ {key} /\ \A v \in DOMAIN m \ {key} : n[v] = m[v]
  BY <1>1
<1>. HIDE DEF n
<1>5. n \in Maps
  BY <1>3, MapsAre
<1>. QED
  BY <1>4, <1>5 DEF n

\* LargestOf finds the greatest element.
LEMMA LargestIs ==
  ASSUME NEW S, S \subseteq Nat, S # {}, IsFiniteSet(S)
  PROVE  LargestOf(S) \in S
<1>1. \E x \in S : \A y \in S : y <= x
  BY Largest, Zenon
<1>. QED
  BY <1>1 DEF LargestOf

\* The candidate that is chosen, if there is any beside the one with the id 0.
LEMMA NearestIs ==
  ASSUME NEW m, DOMAIN m \subseteq Nat, IsFiniteSet(DOMAIN m), \A v \in DOMAIN m : m[v].cost \in Nat
  PROVE  /\ Nearest(m) # 0 =>
              Nearest(m) \in DOMAIN m /\ \A v \in DOMAIN m : m[Nearest(m)].cost <= m[v].cost
         /\ 0 \notin DOMAIN m /\ DOMAIN m # {} => Nearest(m) # 0
<1>. DEFINE near == {k \in DOMAIN m \ {0} : \A j \in DOMAIN m : m[k].cost <= m[j].cost}
            networks == {k \in near : m[k].type # 1}
            C == {m[v].cost : v \in DOMAIN m}
<1>1. near \subseteq Nat /\ IsFiniteSet(near) /\ networks \subseteq Nat /\ IsFiniteSet(networks)
  <2>1. near \in SUBSET DOMAIN m /\ networks \in SUBSET DOMAIN m
    OBVIOUS
  <2>. HIDE DEF near, networks
  <2>. QED
    BY <2>1, FS_Subset
<1>2. near # {} => LargestOf(near) \in near
  <2>. HIDE DEF near
  <2>. QED
    BY <1>1, LargestIs
<1>3. networks # {} => LargestOf(networks) \in near
  <2>1. networks # {} => LargestOf(networks) \in networks
    <3>. HIDE DEF networks
    <3>. QED
      BY <1>1, LargestIs
  <2>. QED
    BY <2>1
<1>4. IF near = {} THEN Nearest(m) = 0 ELSE Nearest(m) \in near
  <2>1. Nearest(m) = IF near = {} THEN 0
                     ELSE IF networks # {} /\ m[LargestOf(networks)].type = 2 THEN LargestOf(networks)
                     ELSE LargestOf(near)
    BY DEF Nearest
  <2>. HIDE DEF near, networks
  <2>. QED
    BY <1>2, <1>3, <2>1
<1>5. ASSUME 0 \notin DOMAIN m, DOMAIN m # {} PROVE near # {}
  <2>1. C \subseteq Nat /\ C # {}
    BY <1>5
  <2>2. PICK c \in C : \A b \in C : c <= b
    <3>. HIDE DEF C
    <3>. QED
      BY <2>1, Smallest, Zenon
  <2>3. PICK k \in DOMAIN m : m[k].cost = c
    BY <2>2
  <2>4. k \in near
    BY <1>5, <2>2, <2>3
  <2>. QED
    BY <2>4
<1>6. 0 \notin near
  OBVIOUS
<1>7. \A k \in near : k \in DOMAIN m /\ \A v \in DOMAIN m : m[k].cost <= m[v].cost
  OBVIOUS
<1>. HIDE DEF near, networks
<1>. QED
  BY <1>4, <1>5, <1>6, <1>7

-----------------------------------------------------------------------------
(* Maps and walks whatever the links are. *)

AnyVertex == {Zero} \cup [id : Nat, pid : Nat, type : {1} \cup Types, cost : Nat]

AnyMaps == UNION {[D -> AnyVertex] : D \in SUBSET Nat}

\* A finite map of vertices, each at its own id.
Good(m) ==
  /\ m \in AnyMaps /\ IsFiniteSet(DOMAIN m)
  /\ \A v \in DOMAIN m : m[v] = Zero \/ m[v].id = v

\* What such a map holds.
LEMMA GoodIs ==
  ASSUME NEW m, Good(m)
  PROVE  /\ DOMAIN m \subseteq Nat /\ m \in [DOMAIN m -> AnyVertex]
         /\ \A v \in DOMAIN m :
              /\ m[v] \in AnyVertex
              /\ m[v].id \in Nat /\ m[v].pid \in Nat /\ m[v].cost \in Nat
<1>1. PICK D \in SUBSET Nat : m \in [D -> AnyVertex]
  BY DEF Good, AnyMaps
<1>2. \A v \in DOMAIN m : m[v] \in AnyVertex
  BY <1>1
<1>3. \A e \in AnyVertex : e.id \in Nat /\ e.pid \in Nat /\ e.cost \in Nat
  BY DEF AnyVertex, Zero
<1>. QED
  BY <1>1, <1>2, <1>3

\* Put changes its key alone.
LEMMA GoodPut ==
  ASSUME NEW m, Good(m), NEW key \in Nat, NEW e \in AnyVertex, e = Zero \/ e.id = key
  PROVE  Good(Put(m, key, e)) /\ DOMAIN Put(m, key, e) = DOMAIN m \cup {key}
<1>. DEFINE n == Put(m, key, e)
            D == DOMAIN m \cup {key}
<1>1. n = [v \in D |-> IF v = key THEN e ELSE m[v]]
  BY DEF Put
<1>2. D \in SUBSET Nat /\ m \in [DOMAIN m -> AnyVertex]
  BY GoodIs
<1>3. n \in [D -> AnyVertex]
  BY <1>1, <1>2
<1>4. IsFiniteSet(D)
  BY FS_AddElement DEF Good
<1>5. \A v \in D : n[v] = Zero \/ n[v].id = v
  BY <1>1 DEF Good
<1>. HIDE DEF n, D
<1>6. n \in AnyMaps
  BY <1>2, <1>3 DEF AnyMaps
<1>7. DOMAIN n = D
  BY <1>3
<1>. QED
  BY <1>4, <1>5, <1>6, <1>7 DEF Good, n, D

\* So does operator[].
LEMMA GoodTouched ==
  ASSUME NEW m, Good(m), NEW key \in Nat
  PROVE  Good(Touched(m, key)) /\ DOMAIN m \subseteq DOMAIN Touched(m, key)
<1>1. Zero \in AnyVertex
  BY DEF AnyVertex
<1>2. Good(Put(m, key, Zero)) /\ DOMAIN Put(m, key, Zero) = DOMAIN m \cup {key}
  BY <1>1, GoodPut
<1>. QED
  BY <1>2 DEF Touched

\* erase leaves the others.
LEMMA GoodWithout ==
  ASSUME NEW m, Good(m), NEW key
  PROVE  Good(Without(m, key))
<1>. DEFINE n == Without(m, key)
            D == DOMAIN m \ {key}
<1>1. n = [v \in D |-> m[v]]
  BY DEF Without, Restrict
<1>2. D \in SUBSET Nat /\ m \in [DOMAIN m -> AnyVertex]
  BY GoodIs
<1>3. n \in [D -> AnyVertex] /\ \A v \in D : n[v] = Zero \/ n[v].id = v
  BY <1>1, <1>2 DEF Good
<1>4. IsFiniteSet(D)
  BY FS_RemoveElement DEF Good
<1>. HIDE DEF n, D
<1>5. n \in AnyMaps /\ DOMAIN n = D
  BY <1>2, <1>3 DEF AnyMaps
<1>. QED
  BY <1>3, <1>4, <1>5 DEF Good, n

\* f is the walk of t from ptr, step by step.
IsWalk(f, t, ptr) ==
  /\ f[0] = {ptr}
  /\ \A k \in 1..Cardinality(DOMAIN t) : f[k] = f[k - 1] \cup {t[v].pid : v \in f[k - 1] \cap Passed(t)}
  /\ \A k \in 0..Cardinality(DOMAIN t) : f[k] \subseteq Nat

\* Walk is what its definition says.
LEMMA WalkOver ==
  ASSUME NEW t, Good(t), NEW ptr \in Nat
  PROVE  /\ Cardinality(DOMAIN t) \in Nat
         /\ \E f : IsWalk(f, t, ptr) /\ Walk(t, ptr) = f[Cardinality(DOMAIN t)]
<1>. DEFINE n == Cardinality(DOMAIN t)
            S == SUBSET Nat
            base == {ptr}
            Onward(on) == on \cup {t[v].pid : v \in on \cap Passed(t)}
            Rule(f) == [k \in 0..n |-> IF k = 0 THEN base ELSE Onward(f[k - 1])]
            c == CHOOSE f : f = Rule(f)
            step == [x \in S \X (1..n) |-> Onward(x[1])]
<1>1. n \in Nat
  BY FS_CardinalityType DEF Good
<1>2. \A on \in S : Onward(on) \in S
  BY GoodIs DEF Passed
<1>3. base \in S
  OBVIOUS
<1>4. PICK f \in [0..n -> S] : f[0] = base /\ \A k \in 1..n : f[k] = step[<<f[k - 1], k>>]
  <2>1. step \in [S \X (1..n) -> S]
    <3>. HIDE DEF S, Onward
    <3>. QED
      BY <1>2
  <2>. HIDE DEF step, n, base, S
  <2>2. \E f : W!Follows(f, S, n, base, step)
    BY <1>1, <1>3, <2>1, W!Recursion, Zenon
  <2>. QED
    BY <2>2 DEF W!Follows
<1>. HIDE DEF S, base, Onward, n
<1>5. f = Rule(f)
  <2>1. ASSUME NEW k \in 1..n PROVE f[k] = Onward(f[k - 1])
    <3>1. f[k - 1] \in S
      BY <1>1, <1>4
    <3>. QED
      BY <1>4, <3>1
  <2>2. DOMAIN f = 0..n /\ f[0] = base
    BY <1>4
  <2>. QED
    BY <1>1, <1>4, <2>1, <2>2
<1>6. c = Rule(c)
  <2>. HIDE DEF Rule
  <2>. QED
    BY <1>5
<1>7. c[0] = base /\ \A k \in 1..n : c[k] = Onward(c[k - 1])
  <2>. HIDE DEF c
  <2>1. \A k \in 0..n : c[k] = IF k = 0 THEN base ELSE Onward(c[k - 1])
    BY <1>6
  <2>2. 0 \in 0..n /\ \A k \in 1..n : k \in 0..n /\ k # 0
    BY <1>1
  <2>. QED
    BY <2>1, <2>2
<1>. DEFINE T == {k \in Nat : k <= n => c[k] \in S}
<1>8. \A k \in Nat : k \in T
  <2>. HIDE DEF c
  <2>1. 0 \in T
    BY <1>3, <1>7
  <2>2. ASSUME NEW k \in Nat, k \in T PROVE k + 1 \in T
    <3>. SUFFICES ASSUME k + 1 <= n PROVE c[k + 1] \in S
      OBVIOUS
    <3>1. k + 1 \in 1..n /\ k + 1 - 1 = k /\ c[k] \in S
      BY <1>1, <2>2
    <3>. QED
      BY <1>2, <1>7, <3>1
  <2>. HIDE DEF T
  <2>. QED
    BY <2>1, <2>2, W!Induction
<1>9. \A k \in 0..n : c[k] \subseteq Nat
  <2>. HIDE DEF c
  <2>. QED
    BY <1>1, <1>8 DEF S
<1>10. Walk(t, ptr) = c[n]
  BY Zenon DEF Walk, n, base, Onward
<1>. HIDE DEF c
<1>11. IsWalk(c, t, ptr)
  BY <1>7, <1>9, Zenon DEF IsWalk, Onward, base, n
<1>. QED
  BY <1>1, <1>10, <1>11, Zenon DEF n

\* It comes to numbers only.
LEMMA WalkIs ==
  ASSUME NEW t, Good(t), NEW ptr \in Nat
  PROVE  Walk(t, ptr) \subseteq Nat
<1>1. PICK f : IsWalk(f, t, ptr) /\ Walk(t, ptr) = f[Cardinality(DOMAIN t)]
  BY WalkOver
<1>2. Cardinality(DOMAIN t) \in 0..Cardinality(DOMAIN t)
  BY WalkOver
<1>. QED
  BY <1>1, <1>2 DEF IsWalk

\* A map of routers and zeros.
IsPlain(t) == 0 \notin DOMAIN t /\ \A v \in DOMAIN t : t[v] = Zero \/ t[v].type = 1

\* Where there are only routers and zeros, the walk passes zeros at most, and ends
\* behind them.
LEMMA PlainWalk ==
  ASSUME NEW t, Good(t), DOMAIN t # {}, IsPlain(t), NEW ptr \in Nat
  PROVE  Walk(t, ptr) \ Passed(t) = IF ptr \in Passed(t) THEN {0} ELSE {ptr}
<1>. DEFINE n == Cardinality(DOMAIN t)
            end == IF ptr \in Passed(t) THEN {ptr, 0} ELSE {ptr}
<1>1. PICK f : IsWalk(f, t, ptr) /\ Walk(t, ptr) = f[n]
  BY WalkOver
<1>2. n \in Nat /\ n # 0
  BY WalkOver, FS_EmptySet DEF Good
<1>3. /\ 0 \notin Passed(t)
      /\ \A v \in Passed(t) : t[v].pid = 0
  BY DEF IsPlain, Passed, Zero
<1>. DEFINE T == {k \in Nat : k < n => f[k + 1] = end}
<1>4. 0 \in T
  <2>1. f[1] = {ptr} \cup {t[v].pid : v \in {ptr} \cap Passed(t)}
    BY <1>1, <1>2 DEF IsWalk
  <2>2. f[1] = end
    BY <1>3, <2>1
  <2>. HIDE DEF end
  <2>. QED
    BY <2>2
<1>5. ASSUME NEW k \in Nat, k \in T PROVE k + 1 \in T
  <2>. SUFFICES ASSUME k + 1 < n PROVE f[k + 2] = end
    OBVIOUS
  <2>1. k + 2 \in 1..n /\ k + 2 - 1 = k + 1 /\ f[k + 1] = end
    BY <1>2, <1>5
  <2>2. f[k + 2] = end \cup {t[v].pid : v \in end \cap Passed(t)}
    BY <1>1, <2>1 DEF IsWalk
  <2>. QED
    BY <1>3, <2>2
<1>6. \A k \in Nat : k \in T
  <2>. HIDE DEF T
  <2>. QED
    BY <1>4, <1>5, W!Induction
<1>7. f[n] = end
  <2>1. n - 1 \in Nat /\ n - 1 < n /\ n - 1 + 1 = n
    BY <1>2
  <2>2. n - 1 \in T
    BY <1>6, <2>1
  <2>. QED
    BY <2>1, <2>2
<1>. QED
  BY <1>1, <1>3, <1>7

-----------------------------------------------------------------------------
(* What calc does with the LSA of newNode, link by link, if none is stray: *)
(* the walk of getNextHop ends at once, and nothing is left to chance.     *)

\* getNextHop where everything is a router or zeros.
PlainHop(s, pid) ==
  LET ptr == s.tree[pid].pid IN
    IF ptr \in DOMAIN s.tree /\ s.tree[ptr].type = 1 THEN [s EXCEPT !.clist = Touched(@, pid)]
    ELSE IF ptr # 0 THEN [s EXCEPT !.tree = Touched(@, ptr)]
    ELSE s

\* A link to a router.
PlainRelax(s, link) ==
  LET node == [id |-> link.linkId, pid |-> newNode, type |-> 1, cost |-> s.tree[newNode].cost + link.metric]
      seen == PlainHop(s, newNode)
  IN
    IF ~Usable(link) \/ link.linkId \in DOMAIN s.tree THEN s
    ELSE IF Improves(s, node) THEN [seen EXCEPT !.clist = Put(@, node.id, node)]
    ELSE IF s.clist[node.id].cost = node.cost THEN seen
    ELSE s

\* All the links of a router.
PlainRelaxed ==
  LET links == lsdb.routers[newNode]
      s[k \in 0..Len(links)] ==
        IF k = 0 THEN [tree |-> tree, clist |-> clist] ELSE PlainRelax(s[k - 1], links[k])
  IN  s[Len(links)]

\* calc is about to read the LSA of newNode.
Ready ==
  /\ IsDatabase(lsdb)
  /\ tree \in Maps /\ clist \in Maps /\ IsFiniteSet(DOMAIN clist)
  /\ newNode \in DOMAIN tree /\ newNode \in Routers /\ tree[newNode].type = 1

Parent == tree[newNode].pid

\* getNextHop finds a router above newNode.
Up == Parent \in DOMAIN tree /\ tree[Parent].type = 1

\* A link of newNode is as good as what is known about its end.
Slack ==
  \E x \in Routers \ DOMAIN tree : \E m \in Costs(newNode, x) :
    x \in DOMAIN clist => tree[newNode].cost + m <= clist[x].cost

\* The candidates of s: from before, by a link of newNode, or zeros.
IsOld(s, w) == w \in DOMAIN clist /\ s.clist[w] = clist[w]
IsNew(s, w) ==
  /\ w \in Routers \ DOMAIN tree
  /\ Up => newNode \in DOMAIN s.clist
  /\ \E m \in Costs(newNode, w) :
       s.clist[w] = [id |-> w, pid |-> newNode, type |-> 1, cost |-> tree[newNode].cost + m]
IsZeros(s, w) == w = newNode /\ Up /\ Slack /\ s.clist[w] = Zero

\* s is between the links.
Underway(s) ==
  /\ s \in [tree : Maps, clist : Maps] /\ IsFiniteSet(DOMAIN s.clist)
  /\ s.tree = tree \/ (~Up /\ Parent # 0 /\ s.tree = Touched(tree, Parent))
  /\ \A w \in DOMAIN clist : w \in DOMAIN s.clist /\ s.clist[w].cost <= clist[w].cost
  /\ \A w \in DOMAIN s.clist : IsOld(s, w) \/ IsNew(s, w) \/ IsZeros(s, w)

\* Nothing is lost, and no cost rises.
Later(s, t) ==
  /\ DOMAIN s.tree \subseteq DOMAIN t.tree
  /\ \A w \in DOMAIN s.clist : w \in DOMAIN t.clist /\ t.clist[w].cost <= s.clist[w].cost

\* The link to w has been followed.
RelaxedTo(s, w, m) ==
  w \in DOMAIN s.tree \/ (w \in DOMAIN s.clist /\ s.clist[w].cost <= tree[newNode].cost + m)

\* What newNode is, and what is above it, does not change.
LEMMA SameTree ==
  ASSUME Ready, NEW s, Underway(s)
  PROVE  /\ DOMAIN tree \subseteq DOMAIN s.tree /\ \A v \in DOMAIN tree : s.tree[v] = tree[v]
         /\ \A v \in DOMAIN s.tree \ DOMAIN tree : v = Parent /\ s.tree[v] = Zero
         /\ Parent \in DOMAIN s.tree /\ s.tree[Parent].type = 1 <=> Up
         /\ Parent \in Nat /\ tree[newNode].cost \in Nat
<1>1. Parent \in Nat /\ tree[newNode].cost \in Nat
  BY EntryOf, EntryAre DEF Ready, Parent
<1>2. CASE s.tree = tree
  BY <1>1, <1>2 DEF Up
<1>3. CASE s.tree # tree
  <2>1. ~Up /\ s.tree = Touched(tree, Parent)
    BY <1>3 DEF Underway
  <2>2. Parent \notin DOMAIN tree
    BY <1>3, <2>1 DEF Touched
  <2>3. IsPut(s.tree, tree, Parent, Zero)
    BY <1>1, <2>1, <2>2, TouchedIs DEF Ready
  <2>4. s.tree[Parent].type # 1
    BY <2>3 DEF IsPut, Zero
  <2>. QED
    BY <1>1, <2>1, <2>2, <2>3, <2>4 DEF IsPut
<1>. QED
  BY <1>2, <1>3

\* getNextHop, called for a link that is good enough.
LEMMA SeenIs ==
  ASSUME Ready, NEW s, Underway(s), Slack
  PROVE  /\ Underway(PlainHop(s, newNode)) /\ Later(s, PlainHop(s, newNode))
         /\ Up => newNode \in DOMAIN PlainHop(s, newNode).clist
         /\ \A w \in DOMAIN PlainHop(s, newNode).clist \ {newNode} :
              w \in DOMAIN s.clist /\ PlainHop(s, newNode).clist[w] = s.clist[w]
         /\ DOMAIN tree \subseteq DOMAIN PlainHop(s, newNode).tree
<1>. DEFINE t == PlainHop(s, newNode)
<1>1. /\ s.tree[newNode].pid = Parent /\ Parent \in Nat /\ newNode \in Nat
      /\ Parent \in DOMAIN s.tree /\ s.tree[Parent].type = 1 <=> Up
      /\ s.tree \in Maps /\ s.clist \in Maps /\ s \in [tree : Maps, clist : Maps]
  <2>1. newNode \in Nat
    BY EntryOf DEF Ready
  <2>. QED
    BY <2>1, SameTree DEF Ready, Underway, Parent
<1>2. CASE Up
  <2>. DEFINE n == Touched(s.clist, newNode)
  <2>1. t = [s EXCEPT !.clist = n]
    BY <1>1, <1>2 DEF PlainHop
  <2>2. n \in Maps /\ IsFiniteSet(DOMAIN n) /\ DOMAIN n = DOMAIN s.clist \cup {newNode}
        /\ (\A w \in DOMAIN s.clist : n[w] = s.clist[w])
        /\ (newNode \notin DOMAIN s.clist => n[newNode] = Zero)
    <3>1. CASE newNode \in DOMAIN s.clist
      <4>1. n = s.clist
        BY <1>1, <3>1, TouchedIs
      <4>. QED
        BY <1>1, <3>1, <4>1 DEF Underway
    <3>2. CASE newNode \notin DOMAIN s.clist
      <4>1. IsPut(n, s.clist, newNode, Zero)
        BY <1>1, <3>2, TouchedIs
      <4>2. IsFiniteSet(DOMAIN s.clist \cup {newNode})
        BY FS_AddElement DEF Underway
      <4>. HIDE DEF n
      <4>. QED
        BY <3>2, <4>1, <4>2 DEF IsPut
    <3>. QED
      BY <3>1, <3>2
  <2>. HIDE DEF n
  <2>3. t \in [tree : Maps, clist : Maps] /\ t.tree = s.tree /\ t.clist = n
    BY <1>1, <2>1, <2>2
  <2>. HIDE DEF t
  <2>4. \A w \in DOMAIN clist : w \in DOMAIN n /\ n[w].cost <= clist[w].cost
    BY <2>2 DEF Underway
  <2>5. ASSUME NEW w \in DOMAIN n PROVE IsOld(t, w) \/ IsNew(t, w) \/ IsZeros(t, w)
    <3>1. CASE w \in DOMAIN s.clist
      <4>1. IsOld(s, w) \/ IsNew(s, w) \/ IsZeros(s, w)
        BY <3>1 DEF Underway
      <4>2. t.clist[w] = s.clist[w] /\ newNode \in DOMAIN t.clist
        BY <2>2, <2>3, <3>1
      <4>. QED
        BY <4>1, <4>2, Zenon DEF IsOld, IsNew, IsZeros
    <3>2. CASE w \notin DOMAIN s.clist
      BY <1>2, <2>2, <2>3, <3>2 DEF IsZeros
    <3>. QED
      BY <3>1, <3>2
  <2>6. Underway(t)
    BY <2>2, <2>3, <2>4, <2>5 DEF Underway
  <2>7. \A w \in DOMAIN s.clist : s.clist[w].cost \in Nat
    BY <1>1, EntryOf, EntryAre
  <2>8. Later(s, t)
    BY <2>2, <2>3, <2>7 DEF Later
  <2>9. DOMAIN tree \subseteq DOMAIN t.tree
    BY <2>3, SameTree
  <2>. QED
    BY <2>2, <2>3, <2>6, <2>8, <2>9 DEF t
<1>3. CASE ~Up /\ Parent # 0
  <2>. DEFINE n == Touched(s.tree, Parent)
  <2>1. t = [s EXCEPT !.tree = n]
    BY <1>1, <1>3 DEF PlainHop
  <2>2. n = Touched(tree, Parent)
    <3>1. CASE s.tree = tree
      BY <3>1
    <3>2. CASE s.tree = Touched(tree, Parent)
      BY <3>2 DEF Touched, Put
    <3>. QED
      BY <3>1, <3>2 DEF Underway
  <2>3. n \in Maps /\ DOMAIN s.tree \subseteq DOMAIN n
    <3>1. CASE Parent \in DOMAIN s.tree
      BY <1>1, <3>1, TouchedIs
    <3>2. CASE Parent \notin DOMAIN s.tree
      <4>1. IsPut(n, s.tree, Parent, Zero)
        BY <1>1, <3>2, TouchedIs
      <4>. HIDE DEF n
      <4>. QED
        BY <4>1 DEF IsPut
    <3>. QED
      BY <3>1, <3>2
  <2>. HIDE DEF n
  <2>4. t \in [tree : Maps, clist : Maps] /\ t.tree = n /\ t.clist = s.clist
    BY <1>1, <2>1, <2>3
  <2>. HIDE DEF t
  <2>5. ASSUME NEW w \in DOMAIN t.clist PROVE IsOld(t, w) \/ IsNew(t, w) \/ IsZeros(t, w)
    <3>1. IsOld(s, w) \/ IsNew(s, w) \/ IsZeros(s, w)
      BY <2>4 DEF Underway
    <3>. QED
      BY <2>4, <3>1, Zenon DEF IsOld, IsNew, IsZeros
  <2>6. Underway(t)
    BY <1>3, <2>2, <2>4, <2>5 DEF Underway
  <2>7. \A w \in DOMAIN s.clist : s.clist[w].cost \in Nat
    BY <1>1, EntryOf, EntryAre
  <2>8. Later(s, t)
    BY <2>3, <2>4, <2>7 DEF Later
  <2>9. DOMAIN tree \subseteq DOMAIN t.tree
    BY <2>3, <2>4, SameTree
  <2>. QED
    BY <1>3, <2>4, <2>6, <2>8, <2>9 DEF t
<1>4. CASE ~Up /\ Parent = 0
  <2>1. t = s
    BY <1>1, <1>4 DEF PlainHop
  <2>2. \A w \in DOMAIN s.clist : s.clist[w].cost \in Nat
    BY <1>1, EntryOf, EntryAre
  <2>3. Later(s, s)
    BY <2>2 DEF Later
  <2>4. DOMAIN tree \subseteq DOMAIN s.tree
    BY SameTree
  <2>. HIDE DEF t
  <2>. QED
    BY <1>4, <2>1, <2>3, <2>4 DEF t
<1>. QED
  BY <1>2, <1>3, <1>4

\* One link.
LEMMA RelaxIs ==
  ASSUME Ready, NEW s, Underway(s), NEW k \in 1..Len(lsdb.routers[newNode])
  PROVE  LET link == lsdb.routers[newNode][k]
             t == PlainRelax(s, link)
         IN  /\ Underway(t) /\ Later(s, t)
             /\ Usable(link) => RelaxedTo(t, link.linkId, link.metric)
<1>. DEFINE link == lsdb.routers[newNode][k]
            t == PlainRelax(s, link)
            w == link.linkId
            cost == tree[newNode].cost + link.metric
            node == [id |-> w, pid |-> newNode, type |-> 1, cost |-> cost]
            seen == PlainHop(s, newNode)
<1>1. w \in Nat /\ link.metric \in Nat /\ (Usable(link) => w \in Routers)
  <2>1. lsdb.routers[newNode] \in Seq(LinkSet)
    BY Zenon DEF Ready, IsDatabase, Routers
  <2>2. link \in LinkSet
    BY <2>1
  <2>. HIDE DEF link
  <2>3. w \in Nat /\ link.metric \in Metric
    BY <2>2 DEF LinkSet
  <2>4. link.metric \in Nat
    BY <2>3, Zenon DEF Metric
  <2>5. Usable(link) => w \in Routers
    BY Zenon DEF Usable, Routers
  <2>. QED
    BY <2>3, <2>4, <2>5
<1>2. s.tree[newNode].cost = tree[newNode].cost /\ tree[newNode].cost \in Nat /\ newNode \in Nat
      /\ DOMAIN tree \subseteq DOMAIN s.tree
  BY SameTree, EntryOf DEF Ready
<1>3. Usable(link) => link.metric \in Costs(newNode, w)
  BY CostsOf DEF Ready
<1>. HIDE DEF link
<1>4. \A v \in DOMAIN s.clist : s.clist[v].cost \in Nat
  BY EntryOf, EntryAre DEF Underway
<1>5. \A v \in DOMAIN clist : clist[v].cost \in Nat
  BY EntryOf, EntryAre DEF Ready
<1>6. cost \in Nat /\ node \in Entry
  BY <1>1, <1>2 DEF Entry
<1>7. CASE ~Usable(link) \/ w \in DOMAIN s.tree
  <2>1. t = s
    BY <1>7, Zenon DEF PlainRelax
  <2>2. Later(s, s)
    BY <1>4 DEF Later
  <2>3. Usable(link) => RelaxedTo(s, w, link.metric)
    BY <1>7 DEF RelaxedTo
  <2>. HIDE DEF t
  <2>. QED
    BY <2>1, <2>2, <2>3 DEF t, link
<1>8. CASE Usable(link) /\ w \notin DOMAIN s.tree /\ ~Improves(s, node) /\ s.clist[w].cost # cost
  <2>1. t = s
    BY <1>2, <1>8, Zenon DEF PlainRelax
  <2>2. Later(s, s)
    BY <1>4 DEF Later
  <2>3. w \in DOMAIN s.clist /\ ~(cost < s.clist[w].cost)
    BY <1>8 DEF Improves
  <2>4. RelaxedTo(s, w, link.metric)
    BY <1>4, <1>6, <2>3 DEF RelaxedTo
  <2>. HIDE DEF t
  <2>. QED
    BY <2>1, <2>2, <2>4 DEF t, link
<1>9. ASSUME Usable(link), w \notin DOMAIN s.tree, Improves(s, node) \/ s.clist[w].cost = cost
      PROVE  /\ Underway(seen) /\ Later(s, seen) /\ (Up => newNode \in DOMAIN seen.clist)
             /\ (\A v \in DOMAIN seen.clist \ {newNode} : v \in DOMAIN s.clist /\ seen.clist[v] = s.clist[v])
             /\ DOMAIN tree \subseteq DOMAIN seen.tree
  <2>1. w \in DOMAIN s.clist => cost <= s.clist[w].cost
    BY <1>4, <1>6, <1>9 DEF Improves
  <2>2. w \in DOMAIN clist => cost <= clist[w].cost
    <3>1. w \in DOMAIN clist => w \in DOMAIN s.clist /\ s.clist[w].cost <= clist[w].cost
      BY DEF Underway
    <3>. HIDE DEF cost
    <3>. QED
      BY <1>4, <1>5, <1>6, <2>1, <3>1
  <2>3. Slack
    BY <1>1, <1>2, <1>3, <1>9, <2>2 DEF Slack
  <2>. QED
    BY <2>3, SeenIs
<1>10. CASE Usable(link) /\ w \notin DOMAIN s.tree /\ Improves(s, node)
  <2>. DEFINE n == Put(seen.clist, w, node)
  <2>1. t = [seen EXCEPT !.clist = n]
    BY <1>2, <1>10 DEF PlainRelax
  <2>2. /\ Underway(seen) /\ Later(s, seen) /\ (Up => newNode \in DOMAIN seen.clist)
        /\ (\A v \in DOMAIN seen.clist \ {newNode} : v \in DOMAIN s.clist /\ seen.clist[v] = s.clist[v])
        /\ DOMAIN tree \subseteq DOMAIN seen.tree
    BY <1>9, <1>10
  <2>. HIDE DEF seen, node
  <2>3. seen \in [tree : Maps, clist : Maps] /\ seen.clist \in Maps
    BY <2>2 DEF Underway
  <2>4. IsPut(n, seen.clist, w, node)
    BY <1>1, <1>6, <2>3, PutIs
  <2>. HIDE DEF n
  <2>5. t \in [tree : Maps, clist : Maps] /\ t.tree = seen.tree /\ t.clist = n
    BY <2>1, <2>3, <2>4 DEF IsPut
  <2>. HIDE DEF t
  <2>6. IsFiniteSet(DOMAIN n)
    BY <2>2, <2>4, FS_AddElement DEF Underway, IsPut
  <2>7. node.cost = cost /\ n[w] = node /\ w \in DOMAIN n
    BY <2>4 DEF IsPut, node
  <2>8. w # newNode /\ w \notin DOMAIN tree
    BY <1>2, <1>10 DEF Ready
  <2>9. w \in DOMAIN s.clist => cost <= s.clist[w].cost
    BY <1>4, <1>6, <1>10 DEF Improves, node
  <2>10. ASSUME NEW v \in DOMAIN clist PROVE v \in DOMAIN n /\ n[v].cost <= clist[v].cost
    <3>1. CASE v = w
      <4>1. v \in DOMAIN s.clist /\ s.clist[v].cost <= clist[v].cost
        BY DEF Underway
      <4>. HIDE DEF cost
      <4>. QED
        BY <1>4, <1>5, <1>6, <2>7, <2>9, <3>1, <4>1
    <3>2. CASE v # w
      <4>1. v \in DOMAIN seen.clist /\ seen.clist[v].cost <= clist[v].cost
        BY <2>2 DEF Underway
      <4>. QED
        BY <2>4, <3>2, <4>1 DEF IsPut
    <3>. QED
      BY <3>1, <3>2
  <2>11. ASSUME NEW v \in DOMAIN n PROVE IsOld(t, v) \/ IsNew(t, v) \/ IsZeros(t, v)
    <3>1. CASE v = w
      <4>1. w \in Routers \ DOMAIN tree /\ (Up => newNode \in DOMAIN n) /\ link.metric \in Costs(newNode, w)
        BY <1>1, <1>3, <1>10, <2>2, <2>4, <2>8 DEF IsPut
      <4>2. n[w] = [id |-> w, pid |-> newNode, type |-> 1, cost |-> tree[newNode].cost + link.metric]
        BY <2>7 DEF node
      <4>. QED
        BY <2>5, <3>1, <4>1, <4>2, Zenon DEF IsNew
    <3>2. CASE v # w
      <4>1. v \in DOMAIN seen.clist /\ n[v] = seen.clist[v] /\ DOMAIN seen.clist \subseteq DOMAIN n
        BY <2>4, <3>2 DEF IsPut
      <4>2. IsOld(seen, v) \/ IsNew(seen, v) \/ IsZeros(seen, v)
        BY <2>2, <4>1 DEF Underway
      <4>. QED
        BY <2>2, <2>5, <4>1, <4>2, Zenon DEF IsOld, IsNew, IsZeros
    <3>. QED
      BY <3>1, <3>2
  <2>12. Underway(t)
    BY <2>2, <2>5, <2>6, <2>10, <2>11 DEF Underway
  <2>13. Later(s, t)
    <3>1. DOMAIN s.tree \subseteq DOMAIN t.tree
      BY <2>2, <2>5 DEF Later
    <3>2. ASSUME NEW v \in DOMAIN s.clist PROVE v \in DOMAIN n /\ n[v].cost <= s.clist[v].cost
      <4>1. CASE v = w
        <5>. HIDE DEF cost
        <5>. QED
          BY <2>7, <2>9, <4>1
      <4>2. CASE v # w
        <5>1. v \in DOMAIN seen.clist /\ seen.clist[v].cost <= s.clist[v].cost
          BY <2>2 DEF Later
        <5>. QED
          BY <2>4, <4>2, <5>1 DEF IsPut
      <4>. QED
        BY <4>1, <4>2
    <3>. QED
      BY <2>5, <3>1, <3>2 DEF Later
  <2>14. RelaxedTo(t, w, link.metric)
    BY <1>6, <2>5, <2>7 DEF RelaxedTo
  <2>. QED
    BY <2>12, <2>13, <2>14 DEF t, link
<1>11. CASE Usable(link) /\ w \notin DOMAIN s.tree /\ ~Improves(s, node) /\ s.clist[w].cost = cost
  <2>1. t = seen
    BY <1>2, <1>11 DEF PlainRelax
  <2>2. Underway(seen) /\ Later(s, seen)
    BY <1>9, <1>11
  <2>3. w \in DOMAIN s.clist
    BY <1>11 DEF Improves
  <2>4. RelaxedTo(seen, w, link.metric)
    BY <1>4, <1>6, <1>11, <2>2, <2>3 DEF RelaxedTo, Later
  <2>. HIDE DEF t, seen
  <2>. QED
    BY <2>1, <2>2, <2>4 DEF t, link
<1>. QED
  BY <1>7, <1>8, <1>10, <1>11

\* Nothing has happened before the first link.
LEMMA UnderwayAtFirst ==
  ASSUME Ready
  PROVE  Underway([tree |-> tree, clist |-> clist])
<1>. DEFINE s == [tree |-> tree, clist |-> clist]
<1>1. s \in [tree : Maps, clist : Maps] /\ s.tree = tree /\ s.clist = clist
  BY DEF Ready
<1>2. \A w \in DOMAIN clist : clist[w].cost \in Nat
  BY EntryOf, EntryAre DEF Ready
<1>. HIDE DEF s
<1>3. \A w \in DOMAIN s.clist : IsOld(s, w)
  BY <1>1 DEF IsOld
<1>. QED
  BY <1>1, <1>2, <1>3 DEF Underway, Ready, s

\* PlainRelaxed is what its definition says.
LEMMA RelaxedOver ==
  ASSUME Ready
  PROVE  LET n == Len(lsdb.routers[newNode]) IN
           \E f : /\ f[0] = [tree |-> tree, clist |-> clist]
                  /\ \A k \in 0..n : Underway(f[k])
                  /\ \A k \in 1..n : f[k] = PlainRelax(f[k - 1], lsdb.routers[newNode][k])
                  /\ PlainRelaxed = f[n]
<1>. DEFINE links == lsdb.routers[newNode]
            n == Len(links)
            S == {s \in [tree : Maps, clist : Maps] : Underway(s)}
            base == [tree |-> tree, clist |-> clist]
            Rule(f) == [k \in 0..n |-> IF k = 0 THEN base ELSE PlainRelax(f[k - 1], links[k])]
            c == CHOOSE f : f = Rule(f)
            step == [x \in S \X (1..n) |-> PlainRelax(x[1], links[x[2]])]
<1>1. n \in Nat
  <2>1. links \in Seq(LinkSet)
    BY Zenon DEF Ready, IsDatabase, Routers
  <2>. HIDE DEF links
  <2>. QED
    BY <2>1
<1>2. ASSUME NEW s \in S, NEW k \in 1..n PROVE PlainRelax(s, links[k]) \in S
  <2>1. Underway(PlainRelax(s, links[k]))
    BY RelaxIs
  <2>. QED
    BY <2>1 DEF Underway
<1>3. base \in S
  BY UnderwayAtFirst DEF Ready
<1>4. PICK f \in [0..n -> S] : f[0] = base /\ \A k \in 1..n : f[k] = step[<<f[k - 1], k>>]
  <2>1. step \in [S \X (1..n) -> S]
    <3>. HIDE DEF S, n, links
    <3>. QED
      BY <1>2
  <2>. HIDE DEF step, n, base, S
  <2>2. \E f : W!Follows(f, S, n, base, step)
    BY <1>1, <1>3, <2>1, W!Recursion, Zenon
  <2>. QED
    BY <2>2 DEF W!Follows
<1>. HIDE DEF S, base, links, n
<1>5. f = Rule(f)
  <2>1. ASSUME NEW k \in 1..n PROVE f[k] = PlainRelax(f[k - 1], links[k])
    <3>1. f[k - 1] \in S
      BY <1>1, <1>4
    <3>. QED
      BY <1>4, <3>1
  <2>2. DOMAIN f = 0..n /\ f[0] = base
    BY <1>4
  <2>. QED
    BY <1>1, <1>4, <2>1, <2>2
<1>6. c = Rule(c)
  <2>. HIDE DEF Rule
  <2>. QED
    BY <1>5
<1>7. c[0] = base /\ \A k \in 1..n : c[k] = PlainRelax(c[k - 1], links[k])
  <2>. HIDE DEF c
  <2>1. \A k \in 0..n : c[k] = IF k = 0 THEN base ELSE PlainRelax(c[k - 1], links[k])
    BY <1>6
  <2>2. 0 \in 0..n /\ \A k \in 1..n : k \in 0..n /\ k # 0
    BY <1>1
  <2>. QED
    BY <2>1, <2>2
<1>. DEFINE T == {k \in Nat : k <= n => c[k] \in S}
<1>8. \A k \in Nat : k \in T
  <2>. HIDE DEF c
  <2>1. 0 \in T
    BY <1>3, <1>7
  <2>2. ASSUME NEW k \in Nat, k \in T PROVE k + 1 \in T
    <3>. SUFFICES ASSUME k + 1 <= n PROVE c[k + 1] \in S
      OBVIOUS
    <3>1. k + 1 \in 1..n /\ k + 1 - 1 = k /\ c[k] \in S
      BY <1>1, <2>2
    <3>. QED
      BY <1>2, <1>7, <3>1
  <2>. HIDE DEF T
  <2>. QED
    BY <2>1, <2>2, W!Induction
<1>9. \A k \in 0..n : Underway(c[k])
  <2>. HIDE DEF c
  <2>1. \A k \in 0..n : c[k] \in S
    BY <1>1, <1>8
  <2>. QED
    BY <2>1 DEF S
<1>10. PlainRelaxed = c[n]
  BY Zenon DEF PlainRelaxed, n, links, base
<1>. HIDE DEF c
<1>. QED
  BY <1>7, <1>9, <1>10, Zenon DEF n, links, base

\* All links of newNode have been followed.
LEMMA RelaxedIs ==
  ASSUME Ready
  PROVE  /\ Underway(PlainRelaxed)
         /\ \A w \in Routers : \A m \in Costs(newNode, w) : RelaxedTo(PlainRelaxed, w, m)
<1>. DEFINE links == lsdb.routers[newNode]
            n == Len(links)
<1>0. n \in Nat
  <2>1. links \in Seq(LinkSet)
    BY Zenon DEF Ready, IsDatabase, Routers
  <2>. HIDE DEF links
  <2>. QED
    BY <2>1
<1>1. PICK f : /\ \A k \in 0..n : Underway(f[k])
               /\ \A k \in 1..n : f[k] = PlainRelax(f[k - 1], links[k])
               /\ PlainRelaxed = f[n]
  BY RelaxedOver
<1>2. ASSUME NEW k \in 1..n
      PROVE  /\ Later(f[k - 1], f[k])
             /\ Usable(links[k]) => RelaxedTo(f[k], links[k].linkId, links[k].metric)
  <2>1. k - 1 \in 0..n /\ f[k] = PlainRelax(f[k - 1], links[k])
    BY <1>0, <1>1
  <2>2. Underway(f[k - 1])
    BY <1>1, <2>1
  <2>. DEFINE s == f[k - 1]
  <2>. HIDE DEF s
  <2>3. /\ Later(s, PlainRelax(s, links[k]))
        /\ Usable(links[k]) => RelaxedTo(PlainRelax(s, links[k]), links[k].linkId, links[k].metric)
    BY <2>2, RelaxIs DEF s
  <2>. QED
    BY <2>1, <2>3, Zenon DEF s
<1>. HIDE DEF n, links
<1>3. ASSUME NEW k \in 1..n, NEW w, NEW m \in Nat, RelaxedTo(f[k - 1], w, m) PROVE RelaxedTo(f[k], w, m)
  <2>. DEFINE s == f[k - 1]
              t == f[k]
  <2>1. k - 1 \in 0..n /\ k \in 0..n
    BY <1>0
  <2>2. Later(s, t) /\ RelaxedTo(s, w, m) /\ Underway(s) /\ Underway(t)
    BY <1>1, <1>2, <1>3, <2>1
  <2>. HIDE DEF s, t
  <2>3. \A v \in DOMAIN s.clist : s.clist[v].cost \in Nat
    BY <2>2, EntryOf, EntryAre DEF Underway
  <2>4. \A v \in DOMAIN t.clist : t.clist[v].cost \in Nat
    BY <2>2, EntryOf, EntryAre DEF Underway
  <2>5. tree[newNode].cost \in Nat
    BY EntryOf, EntryAre DEF Ready
  <2>6. RelaxedTo(t, w, m)
    BY <2>2, <2>3, <2>4, <2>5 DEF Later, RelaxedTo
  <2>. QED
    BY <2>6 DEF t
<1>4. ASSUME NEW i \in 1..n, Usable(links[i]), links[i].metric \in Nat
      PROVE  RelaxedTo(f[n], links[i].linkId, links[i].metric)
  <2>. DEFINE w == links[i].linkId
              m == links[i].metric
              S == {j \in Nat : i + j <= n => RelaxedTo(f[i + j], w, m)}
  <2>1. 0 \in S
    BY <1>2, <1>4
  <2>2. ASSUME NEW j \in Nat, j \in S PROVE j + 1 \in S
    <3>. SUFFICES ASSUME i + (j + 1) <= n PROVE RelaxedTo(f[i + (j + 1)], w, m)
      OBVIOUS
    <3>1. i + (j + 1) \in 1..n /\ i + (j + 1) - 1 = i + j /\ i + j <= n
      BY <1>0
    <3>2. RelaxedTo(f[i + j], w, m)
      BY <2>2, <3>1
    <3>. HIDE DEF w, m, S
    <3>3. m \in Nat
      BY <1>4 DEF m
    <3>. QED
      BY <1>3, <3>1, <3>2, <3>3
  <2>3. n - i \in S
    <3>. HIDE DEF S
    <3>1. \A j \in Nat : j \in S
      BY <2>1, <2>2, W!Induction
    <3>. QED
      BY <1>0, <3>1
  <2>4. i + (n - i) = n
    BY <1>0
  <2>. QED
    BY <1>0, <2>3, <2>4
<1>5. ASSUME NEW w \in Routers, NEW m \in Costs(newNode, w) PROVE RelaxedTo(PlainRelaxed, w, m)
  <2>1. m \in Nat
    BY CostsOf DEF Ready
  <2>2. PICK i \in 1..n : Usable(links[i]) /\ links[i].linkId = w /\ links[i].metric = m
    BY CostsOf DEF Ready, n, links
  <2>3. RelaxedTo(f[n], w, m)
    BY <1>4, <2>1, <2>2
  <2>. QED
    BY <1>1, <2>3
<1>6. Underway(PlainRelaxed)
  BY <1>0, <1>1
<1>. QED
  BY <1>5, <1>6

-----------------------------------------------------------------------------
(* What calc does whatever the links are. *)

\* What does not depend on the links.
Base ==
  /\ IsDatabase(lsdb)
  /\ Good(tree) /\ Good(clist)
  /\ newNode \in DOMAIN tree /\ Root \in DOMAIN tree
  /\ fault \in Faults

\* The maps between two links.
GoodStates ==
  {s \in [tree : AnyMaps, clist : AnyMaps, fault : Faults] :
     Good(s.tree) /\ Good(s.clist) /\ DOMAIN tree \subseteq DOMAIN s.tree}

\* The new vertex has an LSA.
HasLsa == tree[newNode].id \in IF tree[newNode].type = 1 THEN DOMAIN lsdb.routers ELSE DOMAIN lsdb.networks

\* The links of the new vertex.
LEMMA EdgesAre ==
  ASSUME Base, HasLsa
  PROVE  /\ Len(Edges) \in Nat
         /\ \A k \in 1..Len(Edges) : Edges[k].linkId \in Nat /\ Edges[k].metric \in Nat
         /\ tree[newNode].type # 1 => \A k \in 1..Len(Edges) : ~Stray(Edges[k])
<1>1. CASE tree[newNode].type = 1
  <2>1. Edges = lsdb.routers[tree[newNode].id]
    BY <1>1 DEF Edges
  <2>2. Edges \in Seq(LinkSet)
    BY <1>1, <2>1 DEF Base, HasLsa, IsDatabase
  <2>. HIDE DEF Edges
  <2>3. ASSUME NEW k \in 1..Len(Edges) PROVE Edges[k].linkId \in Nat /\ Edges[k].metric \in Nat
    <3>1. Edges[k] \in LinkSet
      BY <2>2
    <3>2. Edges[k].linkId \in Nat /\ Edges[k].metric \in Metric
      BY <3>1 DEF LinkSet
    <3>. QED
      BY <3>2, Zenon DEF Metric
  <2>. QED
    BY <1>1, <2>2, <2>3
<1>2. CASE tree[newNode].type # 1
  <2>. DEFINE routers == lsdb.networks[tree[newNode].id]
  <2>1. routers \in Seq(Nat)
    BY <1>2 DEF Base, HasLsa, IsDatabase
  <2>2. Edges = [k \in 1..Len(routers) |-> [linkId |-> routers[k], type |-> 1, metric |-> 0]]
    BY <1>2 DEF Edges
  <2>. HIDE DEF routers
  <2>3. \A k \in 1..Len(routers) : routers[k] \in Nat
    BY <2>1
  <2>4. Len(routers) \in Nat
    BY <2>1
  <2>5. Len(Edges) = Len(routers)
    BY <2>2, <2>4
  <2>. QED
    BY <2>2, <2>3, <2>4, <2>5 DEF Stray
<1>. QED
  BY <1>1, <1>2

\* getNextHop keeps the maps in order.
LEMMA HopGood ==
  ASSUME Base, NEW s \in GoodStates, NEW node, node.pid = newNode, NEW drKnown
  PROVE  getNextHop(s, node, drKnown) \in GoodStates
<1>. DEFINE W0 == Walk(s.tree, s.tree[node.pid].pid)
            ends == W0 \ Passed(s.tree)
            t == IF ends = {0} THEN s.tree ELSE Touched(s.tree, CHOOSE end \in ends : TRUE)
            f == IF node.type # 1 /\ ~drKnown THEN "null_dr" ELSE s.fault
            r == getNextHop(s, node, drKnown)
<1>1. /\ s \in [tree : AnyMaps, clist : AnyMaps, fault : Faults]
      /\ Good(s.tree) /\ Good(s.clist) /\ DOMAIN tree \subseteq DOMAIN s.tree
  BY DEF GoodStates
<1>2. newNode \in DOMAIN s.tree /\ newNode \in Nat /\ s.tree[newNode].pid \in Nat
  BY <1>1, GoodIs DEF Base
<1>3. W0 \subseteq Nat
  BY <1>1, <1>2, WalkIs
<1>4. r = IF ends = {} THEN [s EXCEPT !.fault = "endless_walk"]
          ELSE IF ends \subseteq DOMAIN s.tree THEN [s EXCEPT !.clist = Touched(s.clist, node.pid)]
          ELSE [s EXCEPT !.tree = t, !.fault = f]
  BY DEF getNextHop
<1>. HIDE DEF W0, r
<1>5. CASE ends = {}
  <2>1. r = [s EXCEPT !.fault = "endless_walk"]
    BY <1>4, <1>5
  <2>. QED
    BY <1>1, <2>1 DEF GoodStates, Faults, r
<1>6. CASE ends # {} /\ ends \subseteq DOMAIN s.tree
  <2>. DEFINE n == Touched(s.clist, newNode)
  <2>1. r = [s EXCEPT !.clist = n]
    BY <1>4, <1>6
  <2>2. Good(n) /\ n \in AnyMaps
    BY <1>1, <1>2, GoodTouched DEF Good
  <2>. HIDE DEF n
  <2>. QED
    BY <1>1, <2>1, <2>2 DEF GoodStates, r
<1>7. CASE ends # {} /\ ~(ends \subseteq DOMAIN s.tree)
  <2>1. r = [s EXCEPT !.tree = t, !.fault = f]
    BY <1>4, <1>7
  <2>2. (CHOOSE end \in ends : TRUE) \in Nat
    BY <1>3, <1>7
  <2>3. Good(t) /\ DOMAIN s.tree \subseteq DOMAIN t
    <3>1. CASE ends = {0}
      BY <1>1, <3>1
    <3>2. CASE ends # {0}
      <4>1. t = Touched(s.tree, CHOOSE end \in ends : TRUE)
        BY <3>2
      <4>. HIDE DEF t, ends
      <4>. QED
        BY <1>1, <2>2, <4>1, GoodTouched
    <3>. QED
      BY <3>1, <3>2
  <2>4. f \in Faults
    BY <1>1 DEF Faults
  <2>. HIDE DEF t, f, ends
  <2>5. t \in AnyMaps
    BY <2>3 DEF Good
  <2>. QED
    BY <1>1, <2>1, <2>3, <2>4, <2>5 DEF GoodStates, r
<1>. QED
  BY <1>5, <1>6, <1>7

\* So does a link.
LEMMA RelaxGood ==
  ASSUME Base, NEW s \in GoodStates, NEW link, link.linkId \in Nat, link.metric \in Nat,
         NEW type \in {1} \cup Types, NEW drKnown
  PROVE  Relax(s, link, type, drKnown) \in GoodStates
<1>. DEFINE node == [id |-> link.linkId, pid |-> newNode, type |-> type, cost |-> s.tree[newNode].cost + link.metric]
            seen == getNextHop(s, node, drKnown)
            n == Put(seen.clist, node.id, node)
            r == Relax(s, link, type, drKnown)
<1>1. Good(s.tree) /\ DOMAIN tree \subseteq DOMAIN s.tree
  BY DEF GoodStates
<1>2. newNode \in Nat /\ s.tree[newNode].cost \in Nat
  BY <1>1, GoodIs DEF Base
<1>3. node \in AnyVertex /\ node.id \in Nat
  BY <1>2 DEF AnyVertex
<1>4. seen \in GoodStates
  BY HopGood
<1>5. r = s \/ r = seen \/ r = [seen EXCEPT !.clist = n]
  BY DEF Relax
<1>. HIDE DEF node, seen, r
<1>6. Good(seen.clist) /\ (node = Zero \/ node.id = node.id)
  BY <1>4 DEF GoodStates
<1>7. Good(n)
  BY <1>3, <1>6, GoodPut
<1>. HIDE DEF n
<1>8. n \in AnyMaps
  BY <1>7 DEF Good
<1>9. [seen EXCEPT !.clist = n] \in GoodStates
  BY <1>4, <1>7, <1>8 DEF GoodStates
<1>. QED
  BY <1>4, <1>5, <1>9 DEF r

\* What the states on may become by link k.
Followed(on, k) ==
  {Relax(r, Edges[k], type, drKnown) :
     r \in on, type \in IF Stray(Edges[k]) THEN Types ELSE {1}, drKnown \in BOOLEAN}

\* Relaxed is what its definition says.
LEMMA RelaxedAny ==
  ASSUME Base, HasLsa
  PROVE  \E c : /\ c[0] = {[tree |-> tree, clist |-> clist, fault |-> "none"]}
                /\ \A k \in 1..Len(Edges) : c[k] = Followed(c[k - 1], k)
                /\ \A k \in 0..Len(Edges) : c[k] \subseteq GoodStates
                /\ Relaxed = c[Len(Edges)]
<1>. DEFINE n == Len(Edges)
            S == SUBSET GoodStates
            base == {[tree |-> tree, clist |-> clist, fault |-> "none"]}
            Rule(f) == [k \in 0..n |-> IF k = 0 THEN base ELSE Followed(f[k - 1], k)]
            c == CHOOSE f : f = Rule(f)
            step == [x \in S \X (1..n) |-> Followed(x[1], x[2])]
<1>1. n \in Nat
  BY EdgesAre
<1>2. ASSUME NEW on \in S, NEW k \in 1..n PROVE Followed(on, k) \in S
  <2>1. Edges[k].linkId \in Nat /\ Edges[k].metric \in Nat
    BY EdgesAre
  <2>2. ASSUME NEW r \in on, NEW type \in IF Stray(Edges[k]) THEN Types ELSE {1}, NEW drKnown \in BOOLEAN
        PROVE  Relax(r, Edges[k], type, drKnown) \in GoodStates
    <3>1. type \in {1} \cup Types
      OBVIOUS
    <3>. QED
      BY <2>1, <3>1, RelaxGood
  <2>. QED
    BY <2>2 DEF Followed
<1>3. base \in S
  BY DEF Base, GoodStates, Good, Faults
<1>4. PICK f \in [0..n -> S] : f[0] = base /\ \A k \in 1..n : f[k] = step[<<f[k - 1], k>>]
  <2>1. step \in [S \X (1..n) -> S]
    <3>. HIDE DEF S, n
    <3>. QED
      BY <1>2
  <2>. HIDE DEF step, n, base, S
  <2>2. \E f : W!Follows(f, S, n, base, step)
    BY <1>1, <1>3, <2>1, W!Recursion, Zenon
  <2>. QED
    BY <2>2 DEF W!Follows
<1>. HIDE DEF S, base, n
<1>5. f = Rule(f)
  <2>1. ASSUME NEW k \in 1..n PROVE f[k] = Followed(f[k - 1], k)
    <3>1. f[k - 1] \in S
      BY <1>1, <1>4
    <3>. QED
      BY <1>4, <3>1
  <2>2. DOMAIN f = 0..n /\ f[0] = base
    BY <1>4
  <2>. QED
    BY <1>1, <1>4, <2>1, <2>2
<1>6. c = Rule(c)
  <2>. HIDE DEF Rule
  <2>. QED
    BY <1>5
<1>7. c[0] = base /\ \A k \in 1..n : c[k] = Followed(c[k - 1], k)
  <2>. HIDE DEF c
  <2>1. \A k \in 0..n : c[k] = IF k = 0 THEN base ELSE Followed(c[k - 1], k)
    BY <1>6
  <2>2. 0 \in 0..n /\ \A k \in 1..n : k \in 0..n /\ k # 0
    BY <1>1
  <2>. QED
    BY <2>1, <2>2
<1>. DEFINE T == {k \in Nat : k <= n => c[k] \in S}
<1>8. \A k \in Nat : k \in T
  <2>. HIDE DEF c
  <2>1. 0 \in T
    BY <1>3, <1>7
  <2>2. ASSUME NEW k \in Nat, k \in T PROVE k + 1 \in T
    <3>. SUFFICES ASSUME k + 1 <= n PROVE c[k + 1] \in S
      OBVIOUS
    <3>1. k + 1 \in 1..n /\ k + 1 - 1 = k /\ c[k] \in S
      BY <1>1, <2>2
    <3>. QED
      BY <1>2, <1>7, <3>1
  <2>. HIDE DEF T
  <2>. QED
    BY <2>1, <2>2, W!Induction
<1>9. \A k \in 0..n : c[k] \subseteq GoodStates
  <2>. HIDE DEF c
  <2>. QED
    BY <1>1, <1>8 DEF S
<1>10. Relaxed = c[n]
  BY DEF Relaxed, Followed, n, base
<1>. HIDE DEF c
<1>. QED
  BY <1>7, <1>9, <1>10, Zenon DEF n, base

\* All outcomes are in order.
LEMMA RelaxedGood ==
  ASSUME Base, HasLsa
  PROVE  Relaxed \subseteq GoodStates
<1>1. PICK c : (\A k \in 0..Len(Edges) : c[k] \subseteq GoodStates) /\ Relaxed = c[Len(Edges)]
  BY RelaxedAny
<1>2. Len(Edges) \in 0..Len(Edges)
  BY EdgesAre
<1>. QED
  BY <1>1, <1>2

\* calc keeps what does not depend on the links, and the tree grows.
LEMMA CalcBase ==
  ASSUME Base, calc
  PROVE  Base' /\ DOMAIN tree \subseteq DOMAIN tree' /\ lsdb' = lsdb
<1>1. HasLsa /\ lsdb' = lsdb
  BY DEF calc, HasLsa
<1>2. PICK s \in Relaxed :
        /\ fault' = s.fault
        /\ IF s.fault # "none" \/ Nearest(s.clist) = 0
           THEN tree' = s.tree /\ clist' = s.clist /\ newNode' = newNode
           ELSE /\ tree' = Put(s.tree, Nearest(s.clist), s.clist[Nearest(s.clist)])
                /\ clist' = Without(s.clist, Nearest(s.clist))
                /\ newNode' = Nearest(s.clist)
  BY Zenon DEF calc
<1>3. s \in GoodStates
  BY <1>1, RelaxedGood
<1>4. /\ Good(s.tree) /\ Good(s.clist) /\ DOMAIN tree \subseteq DOMAIN s.tree /\ s.fault \in Faults
  BY <1>3 DEF GoodStates
<1>. DEFINE id == Nearest(s.clist)
<1>5. CASE s.fault # "none" \/ id = 0
  <2>1. tree' = s.tree /\ clist' = s.clist /\ newNode' = newNode /\ fault' = s.fault
    BY <1>2, <1>5
  <2>. HIDE DEF id
  <2>. QED
    BY <1>1, <1>4, <2>1 DEF Base
<1>6. CASE ~(s.fault # "none" \/ id = 0)
  <2>1. tree' = Put(s.tree, id, s.clist[id]) /\ clist' = Without(s.clist, id) /\ newNode' = id /\ fault' = s.fault
    BY <1>2, <1>6
  <2>2. DOMAIN s.clist \subseteq Nat /\ IsFiniteSet(DOMAIN s.clist) /\ \A v \in DOMAIN s.clist : s.clist[v].cost \in Nat
    BY <1>4, GoodIs DEF Good
  <2>3. id \in DOMAIN s.clist
    BY <1>6, <2>2, NearestIs
  <2>. HIDE DEF id
  <2>4. id \in Nat /\ s.clist[id] \in AnyVertex /\ (s.clist[id] = Zero \/ s.clist[id].id = id)
    BY <1>4, <2>3, GoodIs DEF Good
  <2>5. Good(tree') /\ DOMAIN tree' = DOMAIN s.tree \cup {id}
    BY <1>4, <2>1, <2>4, GoodPut
  <2>6. Good(clist')
    BY <1>4, <2>1, GoodWithout
  <2>. QED
    BY <1>1, <1>4, <2>1, <2>5, <2>6 DEF Base
<1>. QED
  BY <1>5, <1>6

-----------------------------------------------------------------------------
(* Where no link of newNode is stray, there is one outcome: PlainRelaxed.  *)

NoStray == \A k \in 1..Len(lsdb.routers[newNode]) : ~Stray(lsdb.routers[newNode][k])

\* Nothing has been read through NULL.
Unharmed(s) == [tree |-> s.tree, clist |-> s.clist, fault |-> "none"]

\* newNode is a router with its LSA, among routers and zeros.
PlainReady == Base /\ Ready /\ IsPlain(tree) /\ tree[newNode].id = newNode

\* The walk of getNextHop ends at once.
LEMMA PlainHopIs ==
  ASSUME PlainReady, NEW s, Underway(s), Unharmed(s) \in GoodStates,
         NEW node, node.pid = newNode, node.type = 1, NEW drKnown
  PROVE  getNextHop(Unharmed(s), node, drKnown) = Unharmed(PlainHop(s, newNode))
<1>. DEFINE u == Unharmed(s)
            ptr == u.tree[node.pid].pid
            end == IF ptr \in Passed(u.tree) THEN 0 ELSE ptr
            ends == Walk(u.tree, ptr) \ Passed(u.tree)
            touched == Touched(u.tree, end)
<1>1. s \in [tree : Maps, clist : Maps] /\ u.tree = s.tree /\ u.clist = s.clist /\ u.fault = "none"
  BY DEF Underway, Unharmed
<1>2. Good(u.tree) /\ newNode \in DOMAIN u.tree /\ ptr \in Nat
  <2>1. Good(u.tree) /\ DOMAIN tree \subseteq DOMAIN u.tree
    BY DEF GoodStates
  <2>2. newNode \in DOMAIN tree
    BY DEF PlainReady, Ready
  <2>. QED
    BY <2>1, <2>2, GoodIs
<1>3. IsPlain(u.tree)
  <2>1. u.tree = tree \/ (Parent # 0 /\ u.tree = Touched(tree, Parent))
    BY <1>1 DEF Underway
  <2>. QED
    BY <2>1 DEF PlainReady, IsPlain, Touched, Put
<1>4. ends = {end} /\ 0 \notin DOMAIN u.tree
  <2>1. DOMAIN u.tree # {} /\ 0 \notin DOMAIN u.tree
    BY <1>2, <1>3 DEF IsPlain
  <2>. HIDE DEF u, ptr
  <2>2. ends = IF ptr \in Passed(u.tree) THEN {0} ELSE {ptr}
    BY <1>2, <1>3, <2>1, PlainWalk
  <2>. QED
    BY <2>1, <2>2
<1>5. getNextHop(u, node, drKnown) =
        IF ends = {} THEN [u EXCEPT !.fault = "endless_walk"]
        ELSE IF ends \subseteq DOMAIN u.tree THEN [u EXCEPT !.clist = Touched(u.clist, node.pid)]
        ELSE [u EXCEPT !.tree = IF ends = {0} THEN u.tree ELSE Touched(u.tree, CHOOSE e \in ends : TRUE),
                       !.fault = IF node.type # 1 /\ ~drKnown THEN "null_dr" ELSE u.fault]
  BY DEF getNextHop
<1>6. PlainHop(s, newNode) =
        IF ptr \in DOMAIN s.tree /\ s.tree[ptr].type = 1 THEN [s EXCEPT !.clist = Touched(s.clist, newNode)]
        ELSE IF ptr # 0 THEN [s EXCEPT !.tree = Touched(s.tree, ptr)]
        ELSE s
  BY <1>1 DEF PlainHop
<1>7. u = [tree |-> s.tree, clist |-> s.clist, fault |-> "none"]
  BY DEF Unharmed
<1>8. Passed(u.tree) = {v \in DOMAIN s.tree : s.tree[v].type # 1}
  BY <1>1 DEF Passed
<1>9. (CHOOSE e \in {end} : TRUE) = end
  OBVIOUS
<1>10. ptr \in DOMAIN s.tree => Touched(s.tree, ptr) = s.tree
  BY DEF Touched
<1>. HIDE DEF u, ptr, ends
<1>11. CASE end \in DOMAIN u.tree
  <2>1. ptr = end /\ ptr \in DOMAIN s.tree /\ s.tree[ptr].type = 1
    BY <1>1, <1>4, <1>8, <1>11
  <2>2. getNextHop(u, node, drKnown) = [u EXCEPT !.clist = Touched(u.clist, node.pid)]
    BY <1>4, <1>5, <1>11
  <2>3. PlainHop(s, newNode) = [s EXCEPT !.clist = Touched(s.clist, newNode)]
    BY <1>6, <2>1
  <2>. QED
    BY <1>1, <1>7, <2>2, <2>3 DEF Unharmed, u
<1>12. CASE end \notin DOMAIN u.tree
  <2>1. ~(ptr \in DOMAIN s.tree /\ s.tree[ptr].type = 1)
    BY <1>1, <1>8, <1>12
  <2>2. getNextHop(u, node, drKnown) = [u EXCEPT !.tree = IF end = 0 THEN u.tree ELSE Touched(u.tree, end), !.fault = u.fault]
    BY <1>4, <1>5, <1>9, <1>12
  <2>3. PlainHop(s, newNode) = IF ptr # 0 THEN [s EXCEPT !.tree = Touched(s.tree, ptr)] ELSE s
    BY <1>6, <2>1
  <2>4. CASE ptr \in DOMAIN s.tree
    <3>1. end = 0 /\ PlainHop(s, newNode) = s
      BY <1>1, <1>8, <1>10, <2>1, <2>3, <2>4
    <3>. QED
      BY <1>1, <1>7, <2>2, <3>1 DEF Unharmed, u
  <2>5. CASE ptr \notin DOMAIN s.tree
    <3>1. end = ptr
      BY <1>1, <1>8, <2>5
    <3>. QED
      BY <1>1, <1>7, <2>2, <2>3, <3>1 DEF Unharmed, u
  <2>. QED
    BY <2>4, <2>5
<1>. QED
  BY <1>11, <1>12 DEF u

\* Nothing is left to chance.
LEMMA PlainRelaxIs ==
  ASSUME PlainReady, NEW s, Underway(s), Unharmed(s) \in GoodStates, NEW link, ~Stray(link), NEW drKnown
  PROVE  Relax(Unharmed(s), link, 1, drKnown) = Unharmed(PlainRelax(s, link))
<1>. DEFINE u == Unharmed(s)
            node == [id |-> link.linkId, pid |-> newNode, type |-> 1, cost |-> s.tree[newNode].cost + link.metric]
            seen == PlainHop(s, newNode)
<1>1. u.tree = s.tree /\ u.clist = s.clist /\ u.fault = "none"
  BY DEF Unharmed
<1>2. getNextHop(u, node, drKnown) = Unharmed(seen)
  BY PlainHopIs
<1>3. PlainRelax(s, link) =
        IF ~Usable(link) \/ link.linkId \in DOMAIN s.tree THEN s
        ELSE IF Improves(s, node) THEN [seen EXCEPT !.clist = Put(seen.clist, node.id, node)]
        ELSE IF s.clist[node.id].cost = node.cost THEN seen
        ELSE s
  BY DEF PlainRelax
<1>4. Relax(u, link, 1, drKnown) =
        IF ~Usable(link) \/ link.linkId \in DOMAIN s.tree THEN u
        ELSE IF Improves(s, node) THEN [Unharmed(seen) EXCEPT !.clist = Put(seen.clist, node.id, node)]
        ELSE IF s.clist[node.id].cost = node.cost THEN Unharmed(seen)
        ELSE u
  <2>1. Improves(u, node) = Improves(s, node)
    BY <1>1 DEF Improves
  <2>2. Unharmed(seen).fault = "none" /\ Unharmed(seen).clist = seen.clist
    BY DEF Unharmed
  <2>3. Relax(u, link, 1, drKnown) =
          IF u.fault # "none" \/ ~(Stray(link) \/ (Usable(link) /\ link.linkId \notin DOMAIN u.tree)) THEN u
          ELSE IF Improves(u, node)
               THEN IF getNextHop(u, node, drKnown).fault = "none"
                    THEN [getNextHop(u, node, drKnown) EXCEPT !.clist = Put(getNextHop(u, node, drKnown).clist, node.id, node)]
                    ELSE getNextHop(u, node, drKnown)
          ELSE IF u.clist[node.id].cost = node.cost THEN getNextHop(u, node, drKnown)
          ELSE u
    BY <1>1 DEF Relax
  <2>. HIDE DEF u, node, seen
  <2>. QED
    BY <1>1, <1>2, <2>1, <2>2, <2>3
<1>5. seen \in [tree : Maps, clist : Maps] \/ DOMAIN seen = {"tree", "clist"}
  BY DEF PlainHop, Underway
<1>. QED
  BY <1>3, <1>4, <1>5 DEF Unharmed

\* The outcome.
LEMMA PlainOutcome ==
  ASSUME PlainReady, NoStray
  PROVE  Relaxed = {Unharmed(PlainRelaxed)}
<1>. DEFINE links == lsdb.routers[newNode]
            n == Len(links)
<1>1. Edges = links /\ HasLsa /\ n \in Nat
  <2>1. Edges = links /\ HasLsa
    BY DEF PlainReady, Ready, Edges, HasLsa, Routers
  <2>2. links \in Seq(LinkSet)
    BY DEF PlainReady, Ready, IsDatabase, Routers
  <2>. QED
    BY <2>1, <2>2
<1>2. PICK f : /\ f[0] = [tree |-> tree, clist |-> clist]
               /\ \A k \in 0..n : Underway(f[k])
               /\ \A k \in 1..n : f[k] = PlainRelax(f[k - 1], links[k])
               /\ PlainRelaxed = f[n]
  BY RelaxedOver DEF PlainReady
<1>3. PICK c : /\ c[0] = {[tree |-> tree, clist |-> clist, fault |-> "none"]}
               /\ \A k \in 1..n : c[k] = Followed(c[k - 1], k)
               /\ \A k \in 0..n : c[k] \subseteq GoodStates
               /\ Relaxed = c[n]
  BY <1>1, RelaxedAny DEF PlainReady
<1>. HIDE DEF n
<1>. DEFINE T == {k \in Nat : k <= n => c[k] = {Unharmed(f[k])}}
<1>4. 0 \in T
  BY <1>1, <1>2, <1>3 DEF Unharmed
<1>5. ASSUME NEW k \in Nat, k \in T PROVE k + 1 \in T
  <2>. SUFFICES ASSUME k + 1 <= n PROVE c[k + 1] = {Unharmed(f[k + 1])}
    OBVIOUS
  <2>. DEFINE s == f[k]
              link == links[k + 1]
  <2>1. k + 1 \in 1..n /\ k + 1 - 1 = k /\ k \in 0..n /\ k <= n
    BY <1>1
  <2>2. Underway(s) /\ f[k + 1] = PlainRelax(s, link) /\ c[k] = {Unharmed(s)} /\ c[k] \subseteq GoodStates
    BY <1>2, <1>3, <1>5, <2>1
  <2>3. ~Stray(link) /\ Edges[k + 1] = link
    BY <1>1, <2>1 DEF NoStray, n
  <2>. HIDE DEF s, link
  <2>4. \A drKnown : Relax(Unharmed(s), link, 1, drKnown) = Unharmed(PlainRelax(s, link))
    BY <2>2, <2>3, PlainRelaxIs
  <2>5. c[k + 1] = Followed(c[k], k + 1)
    BY <1>3, <2>1
  <2>. DEFINE into == Unharmed(PlainRelax(s, link))
              on == c[k]
  <2>6. ASSUME NEW r \in on, NEW type \in IF Stray(Edges[k + 1]) THEN Types ELSE {1}, NEW drKnown \in BOOLEAN
        PROVE  Relax(r, Edges[k + 1], type, drKnown) = into
    <3>1. r = Unharmed(s) /\ type = 1
      BY <2>2, <2>3
    <3>. QED
      BY <2>3, <2>4, <3>1
  <2>7. Unharmed(s) \in on /\ 1 \in (IF Stray(Edges[k + 1]) THEN Types ELSE {1})
    BY <2>2, <2>3
  <2>. HIDE DEF into, on
  <2>8. Followed(on, k + 1) = {into}
    <3>1. \A r \in on : \A type \in IF Stray(Edges[k + 1]) THEN Types ELSE {1} : \A drKnown \in BOOLEAN :
            Relax(r, Edges[k + 1], type, drKnown) = into
      BY <2>6
    <3>2. \A x \in Followed(on, k + 1) : x = into
      BY <3>1 DEF Followed
    <3>. DEFINE types == IF Stray(Edges[k + 1]) THEN Types ELSE {1}
                to(r, type, drKnown) == Relax(r, Edges[k + 1], type, drKnown)
    <3>3. PICK known \in BOOLEAN : TRUE
      OBVIOUS
    <3>4. to(Unharmed(s), 1, known) \in Followed(on, k + 1)
      <4>1. Followed(on, k + 1) = {to(r, type, drKnown) : r \in on, type \in types, drKnown \in BOOLEAN}
        BY DEF Followed
      <4>2. Unharmed(s) \in on /\ 1 \in types
        BY <2>7
      <4>. HIDE DEF to, types
      <4>. QED
        BY <3>3, <4>1, <4>2
    <3>5. to(Unharmed(s), 1, known) = into
      BY <2>7, <3>1, <3>3
    <3>. QED
      BY <3>2, <3>4, <3>5
  <2>. QED
    BY <2>2, <2>5, <2>8, Zenon DEF into, on
<1>6. \A k \in Nat : k \in T
  <2>. HIDE DEF T
  <2>. QED
    BY <1>4, <1>5, W!Induction
<1>7. n \in T
  BY <1>1, <1>6
<1>. QED
  BY <1>2, <1>3, <1>7

-----------------------------------------------------------------------------
(* The database does not change, and neither do the paths. *)

\* Without a change of the database links and costs stay.
LEMMA SameCosts ==
  ASSUME lsdb' = lsdb
  PROVE  /\ Routers' = Routers /\ Vertices' = Vertices
         /\ \A u, v : Costs(u, v)' = Costs(u, v)
<1>1. Routers' = Routers /\ Vertices' = Vertices
  BY DEF Routers, Vertices
<1>2. \A link : Usable(link)' = Usable(link)
  BY DEF Usable
<1>3. ASSUME NEW u, NEW v PROVE Costs(u, v)' = Costs(u, v)
  BY <1>2 DEF Costs, Usable
<1>. QED
  BY <1>1, <1>3

\* And so do the distances.
LEMMA SameDistance ==
  ASSUME lsdb' = lsdb, NEW d
  PROVE  IsDistance(d)' <=> IsDistance(d)
  BY SameCosts DEF IsDistance

-----------------------------------------------------------------------------
(* The invariant. *)

HasZero == \E z \in DOMAIN clist : clist[z] = Zero

Typed ==
  /\ IsDatabase(lsdb)
  /\ tree \in Maps /\ clist \in Maps /\ IsFiniteSet(DOMAIN clist)
  /\ newNode \in DOMAIN tree /\ Root \in DOMAIN tree
  /\ fault \in Faults
  /\ 0 \notin DOMAIN tree
  /\ \A v \in DOMAIN tree : tree[v] = Zero \/ (tree[v].id = v /\ tree[v].type = 1)
  /\ \A v \in DOMAIN clist : clist[v] = Zero \/ (clist[v].id = v /\ clist[v].type = 1 /\ v \in Routers)
  /\ InTree \subseteq Vertices

\* A candidate is not in the tree, unless it is zeros.
Apart ==
  \A w \in DOMAIN clist : IF clist[w] = Zero THEN w \in DOMAIN tree ELSE w \notin InTree

\* The root is overwritten only by the zeros that end the calculation.
RootStays == tree[Root].type = 1 \/ newNode = Root

\* Whatever is below a vertex is below one of the tree.
Above ==
  tree[newNode].type = 1 =>
    /\ \A v \in InTree \ {Root} : tree[v].pid \in InTree
    /\ \A w \in DOMAIN clist : clist[w] # Zero => clist[w].pid \in InTree

\* Before the zeros everything is the root's neighbour, after them free of cost.
BelowRoot ==
  /\ \A v \in InTree \ {Root} : tree[v].pid # Root => tree[v].cost = 0
  /\ HasZero \/ tree[newNode].type # 1 \/
       /\ \A v \in InTree \ {Root} : tree[v].pid = Root
       /\ \A w \in DOMAIN clist : clist[w].pid = Root

\* Of the routers only those of the tree block a link.
Blocked == ~Garbled /\ tree[newNode].type = 1 => DOMAIN tree \cap Routers \subseteq InTree

\* Vertices of the tree are at their distances, candidates at least as far.
Near(d) ==
  ~Garbled =>
    /\ \A v \in InTree : v \in DOMAIN d /\ tree[v].cost = d[v]
    /\ \A w \in DOMAIN clist : clist[w] # Zero => w \in DOMAIN d /\ d[w] <= clist[w].cost

\* Behind every link that leaves the tree is a candidate as near as that.
Frontier(d) ==
  ~Garbled /\ tree[newNode].type = 1 /\ ~HasZero =>
    \A u \in (InTree \cap Routers) \ {newNode} : \A w \in Routers \ InTree : \A m \in Costs(u, w) :
      w \in DOMAIN clist /\ clist[w].cost <= d[u] + m

\* A shortest path may lead over another router.
Bypass(d) == \E v \in DOMAIN d \ {Root} : \E u \in DOMAIN d \ {Root} : \E m \in Costs(u, v) : d[u] + m = d[v]

Indirect(d) == ~Garbled /\ (HasZero \/ tree[newNode].type # 1) => Bypass(d)

ByDistance == \A d : IsDistance(d) => Near(d) /\ Frontier(d) /\ Indirect(d)

\* The crashes that are left.
Ended ==
  \/ fault = "none"
  \/ fault = "null_router_lsa" /\ Root \notin Routers
  \/ fault = "null_network_lsa" /\ tree[newNode].type # 1

PlainInv == Typed /\ Apart /\ RootStays /\ Above /\ BelowRoot /\ Blocked /\ ByDistance /\ Ended

\* A call of calc finds no candidate, or takes the nearest one.
Idle ==
  DOMAIN PlainRelaxed.clist = {} /\ tree' = PlainRelaxed.tree /\ clist' = PlainRelaxed.clist /\ newNode' = newNode

Chosen(id) ==
  /\ id \in DOMAIN PlainRelaxed.clist
  /\ \A v \in DOMAIN PlainRelaxed.clist : PlainRelaxed.clist[id].cost <= PlainRelaxed.clist[v].cost
  /\ IsPut(tree', PlainRelaxed.tree, id, PlainRelaxed.clist[id])
  /\ clist' \in Maps /\ DOMAIN clist' = DOMAIN PlainRelaxed.clist \ {id}
  /\ \A v \in DOMAIN clist' : clist'[v] = PlainRelaxed.clist[v]
  /\ newNode' = id

SomeZero == \E z \in DOMAIN PlainRelaxed.clist : PlainRelaxed.clist[z] = Zero

\* Above newNode is a router, unless it is the root.
LEMMA UpOrRoot ==
  ASSUME PlainInv, Ready
  PROVE  /\ newNode # Root => Up
         /\ newNode = Root /\ ~Garbled => ~Up
<1>1. newNode \in InTree /\ InTree \subseteq Vertices
  BY DEF Ready, InTree, PlainInv, Typed
<1>2. newNode # Root => Parent \in InTree
  BY <1>1 DEF PlainInv, Above, Ready, Parent
<1>3. newNode = Root /\ ~Garbled => Parent \notin Routers /\ Root \in Routers
  BY DEF Garbled, Parent, Ready
<1>. QED
  BY <1>1, <1>2, <1>3 DEF Up, InTree, Vertices

\* What the candidates are after the links of newNode.
LEMMA CandidatesAre ==
  ASSUME PlainInv, Ready
  PROVE  /\ \A w \in DOMAIN PlainRelaxed.clist :
              IF PlainRelaxed.clist[w] = Zero THEN w \in DOMAIN tree
              ELSE /\ PlainRelaxed.clist[w].id = w /\ PlainRelaxed.clist[w].type = 1
                   /\ w \in Routers \ InTree /\ PlainRelaxed.clist[w].pid \in InTree
         /\ HasZero => SomeZero
         /\ SomeZero /\ ~HasZero => Up /\ Slack
         /\ SomeZero \/ \A w \in DOMAIN PlainRelaxed.clist : PlainRelaxed.clist[w].pid = Root
<1>. DEFINE s == PlainRelaxed
<1>0. Underway(s)
  BY RelaxedIs
<1>1. newNode \in InTree /\ newNode \in DOMAIN tree
  BY DEF Ready, InTree
<1>. HIDE DEF s
<1>2. ASSUME NEW w \in DOMAIN s.clist
      PROVE  IF s.clist[w] = Zero THEN w \in DOMAIN tree
             ELSE /\ s.clist[w].id = w /\ s.clist[w].type = 1
                  /\ w \in Routers \ InTree /\ s.clist[w].pid \in InTree
  <2>1. CASE IsOld(s, w)
    <3>1. w \in DOMAIN clist /\ s.clist[w] = clist[w]
      BY <2>1 DEF IsOld
    <3>2. clist[w] = Zero \/ (clist[w].id = w /\ clist[w].type = 1 /\ w \in Routers)
      BY <3>1 DEF PlainInv, Typed
    <3>3. IF clist[w] = Zero THEN w \in DOMAIN tree ELSE w \notin InTree
      BY <3>1 DEF PlainInv, Apart
    <3>4. clist[w] # Zero => clist[w].pid \in InTree
      BY <3>1 DEF PlainInv, Above, Ready
    <3>. QED
      BY <3>1, <3>2, <3>3, <3>4
  <2>2. CASE IsNew(s, w)
    <3>1. w \in Routers \ DOMAIN tree /\ s.clist[w].id = w /\ s.clist[w].type = 1 /\ s.clist[w].pid = newNode
      BY <2>2 DEF IsNew
    <3>2. s.clist[w] # Zero /\ w \notin InTree
      BY <3>1 DEF Zero, InTree
    <3>. QED
      BY <1>1, <3>1, <3>2
  <2>3. CASE IsZeros(s, w)
    BY <1>1, <2>3 DEF IsZeros
  <2>. QED
    BY <1>0, <2>1, <2>2, <2>3 DEF Underway
<1>3. ASSUME NEW z \in DOMAIN tree \cap DOMAIN s.clist, z \in DOMAIN clist => clist[z] = Zero
      PROVE  s.clist[z] = Zero
  <2>1. IsOld(s, z) \/ IsNew(s, z) \/ IsZeros(s, z)
    BY <1>0 DEF Underway
  <2>. QED
    BY <1>3, <2>1 DEF IsOld, IsNew, IsZeros
<1>4. HasZero => SomeZero
  <2>. SUFFICES ASSUME NEW z \in DOMAIN clist, clist[z] = Zero PROVE SomeZero
    BY DEF HasZero
  <2>1. z \in DOMAIN tree
    BY DEF PlainInv, Apart
  <2>2. z \in DOMAIN s.clist
    BY <1>0 DEF Underway
  <2>. QED
    BY <1>3, <2>1, <2>2 DEF SomeZero, s
<1>5. SomeZero /\ ~HasZero => Up /\ Slack
  <2>. SUFFICES ASSUME NEW z \in DOMAIN s.clist, s.clist[z] = Zero, ~HasZero PROVE Up /\ Slack
    BY DEF SomeZero, s
  <2>1. ~IsOld(s, z)
    BY DEF IsOld, HasZero
  <2>2. ~IsNew(s, z)
    <3>. SUFFICES ASSUME IsNew(s, z) PROVE FALSE
      OBVIOUS
    <3>1. s.clist[z].type = 1
      BY DEF IsNew
    <3>. QED
      BY <3>1 DEF Zero
  <2>. QED
    BY <1>0, <2>1, <2>2 DEF Underway, IsZeros
<1>6. SomeZero \/ \A w \in DOMAIN s.clist : s.clist[w].pid = Root
  <2>. SUFFICES ASSUME ~SomeZero, NEW w \in DOMAIN s.clist PROVE s.clist[w].pid = Root
    OBVIOUS
  <2>1. \A v \in DOMAIN clist : clist[v].pid = Root
    BY <1>4 DEF PlainInv, BelowRoot, Ready
  <2>2. ~IsZeros(s, w)
    BY DEF IsZeros, SomeZero, s
  <2>3. CASE IsNew(s, w) /\ newNode # Root
    <3>1. newNode \in DOMAIN s.clist
      BY <2>3, UpOrRoot DEF IsNew
    <3>2. newNode \in DOMAIN clist => clist[newNode] = Zero
      BY <1>1 DEF PlainInv, Apart
    <3>3. s.clist[newNode] = Zero
      BY <1>1, <1>3, <3>1, <3>2
    <3>. QED
      BY <3>1, <3>3 DEF SomeZero, s
  <2>4. CASE IsNew(s, w) /\ newNode = Root
    BY <2>4 DEF IsNew
  <2>5. CASE IsOld(s, w)
    BY <2>1, <2>5 DEF IsOld
  <2>. QED
    BY <1>0, <2>2, <2>3, <2>4, <2>5 DEF Underway
<1>. QED
  BY <1>2, <1>4, <1>5, <1>6 DEF s

\* A call of calc without a stray link, in terms of Idle and Chosen.
LEMMA CalcIs ==
  ASSUME PlainInv, Base, ~Strayed, calc
  PROVE  /\ Ready /\ Underway(PlainRelaxed) /\ lsdb' = lsdb /\ fault' = fault
         /\ Idle \/ \E id \in Nat : Chosen(id)
<1>1. PlainReady /\ NoStray /\ 0 \notin DOMAIN tree
  <2>1. tree[newNode].id \in IF tree[newNode].type = 1 THEN DOMAIN lsdb.routers ELSE DOMAIN lsdb.networks
    BY DEF calc
  <2>2. tree[newNode] = Zero \/ (tree[newNode].id = newNode /\ tree[newNode].type = 1)
    BY DEF PlainInv, Typed
  <2>3. 0 \notin DOMAIN lsdb.networks
    BY DEF PlainInv, Typed, IsDatabase
  <2>4. tree[newNode].type = 1 /\ tree[newNode].id = newNode /\ newNode \in Routers
    BY <2>1, <2>2, <2>3 DEF Zero, Routers
  <2>5. Ready /\ IsPlain(tree) /\ 0 \notin DOMAIN tree
    BY <2>4 DEF PlainInv, Typed, Ready, IsPlain
  <2>6. NoStray
    BY <2>4, <2>5 DEF Strayed, NoStray, Ready
  <2>. QED
    BY <2>4, <2>5, <2>6 DEF PlainReady
<1>2. Ready /\ Underway(PlainRelaxed)
  BY <1>1, RelaxedIs DEF PlainReady
<1>. DEFINE s == PlainRelaxed
            id == Nearest(s.clist)
<1>3. /\ lsdb' = lsdb /\ fault' = "none" /\ fault = "none"
      /\ IF id = 0 THEN tree' = s.tree /\ clist' = s.clist /\ newNode' = newNode
         ELSE tree' = Put(s.tree, id, s.clist[id]) /\ clist' = Without(s.clist, id) /\ newNode' = id
  <2>1. PICK r \in Relaxed :
          /\ fault' = r.fault
          /\ IF r.fault # "none" \/ Nearest(r.clist) = 0
             THEN tree' = r.tree /\ clist' = r.clist /\ newNode' = newNode
             ELSE /\ tree' = Put(r.tree, Nearest(r.clist), r.clist[Nearest(r.clist)])
                  /\ clist' = Without(r.clist, Nearest(r.clist))
                  /\ newNode' = Nearest(r.clist)
    BY Zenon DEF calc
  <2>2. r = Unharmed(s)
    BY <1>1, <2>1, PlainOutcome
  <2>3. r.tree = s.tree /\ r.clist = s.clist /\ r.fault = "none"
    BY <2>2 DEF Unharmed
  <2>4. lsdb' = lsdb /\ fault = "none"
    BY DEF calc
  <2>. HIDE DEF s
  <2>. QED
    BY <2>1, <2>3, <2>4
<1>4. s \in [tree : Maps, clist : Maps] /\ IsFiniteSet(DOMAIN s.clist) /\ s.tree \in Maps /\ s.clist \in Maps
  BY <1>2 DEF Underway
<1>5. /\ DOMAIN s.clist \subseteq Nat /\ 0 \notin DOMAIN s.clist
      /\ \A v \in DOMAIN s.clist : s.clist[v].cost \in Nat
  <2>1. DOMAIN s.clist \subseteq Nat /\ \A v \in DOMAIN s.clist : s.clist[v].cost \in Nat
    <3>. HIDE DEF s
    <3>. QED
      BY <1>4, EntryOf, EntryAre
  <2>2. 0 \in DOMAIN s.clist => 0 \in DOMAIN tree \/ 0 \in Routers
    BY <1>2, CandidatesAre
  <2>3. 0 \notin Routers
    BY DEF PlainInv, Typed, IsDatabase, Routers
  <2>. QED
    BY <1>1, <2>1, <2>2, <2>3
<1>6. /\ id # 0 => id \in DOMAIN s.clist /\ \A v \in DOMAIN s.clist : s.clist[id].cost <= s.clist[v].cost
      /\ DOMAIN s.clist # {} => id # 0
  <2>. HIDE DEF s
  <2>. QED
    BY <1>4, <1>5, NearestIs
<1>7. CASE id = 0
  <2>1. Idle
    BY <1>3, <1>6, <1>7, Zenon DEF Idle
  <2>. QED
    BY <1>2, <1>3, <2>1
<1>8. CASE id # 0
  <2>. HIDE DEF s
  <2>1. id \in DOMAIN s.clist /\ \A v \in DOMAIN s.clist : s.clist[id].cost <= s.clist[v].cost
    BY <1>6, <1>8
  <2>2. tree' = Put(s.tree, id, s.clist[id]) /\ clist' = Without(s.clist, id) /\ newNode' = id
    BY <1>3, <1>8
  <2>. HIDE DEF id
  <2>3. id \in Nat /\ s.clist[id] \in Entry
    BY <1>4, <2>1, EntryOf
  <2>4. IsPut(tree', s.tree, id, s.clist[id])
    BY <1>4, <2>2, <2>3, PutIs
  <2>5. /\ clist' \in Maps /\ DOMAIN clist' = DOMAIN s.clist \ {id}
        /\ \A v \in DOMAIN clist' : clist'[v] = s.clist[v]
    BY <1>4, <2>2, WithoutIs
  <2>6. Chosen(id)
    BY <2>1, <2>2, <2>4, <2>5, Zenon DEF Chosen, s
  <2>. QED
    BY <1>2, <1>3, <2>3, <2>6
<1>. QED
  BY <1>7, <1>8

\* The tree after a call of calc.
LEMMA TreeAfter ==
  ASSUME PlainInv, Ready, Underway(PlainRelaxed)
  PROVE  /\ Idle => /\ InTree' = InTree /\ DOMAIN tree \subseteq DOMAIN tree'
                    /\ \A v \in DOMAIN tree : tree'[v] = tree[v]
                    /\ \A v \in DOMAIN tree' \ DOMAIN tree : v = Parent /\ tree'[v] = Zero
         /\ \A id \in Nat : Chosen(id) =>
              /\ DOMAIN tree' = DOMAIN PlainRelaxed.tree \cup {id} /\ DOMAIN tree \subseteq DOMAIN tree'
              /\ tree'[id] = PlainRelaxed.clist[id] /\ tree'[newNode'] = PlainRelaxed.clist[id]
              /\ \A v \in DOMAIN tree \ {id} : tree'[v] = tree[v]
              /\ \A v \in (DOMAIN tree' \ DOMAIN tree) \ {id} : v = Parent /\ tree'[v] = Zero
              /\ PlainRelaxed.clist[id] = Zero => InTree' = InTree \ {id}
              /\ PlainRelaxed.clist[id] # Zero => PlainRelaxed.clist[id].type = 1 /\ InTree' = InTree \cup {id}
<1>. DEFINE s == PlainRelaxed
<1>1. /\ DOMAIN tree \subseteq DOMAIN s.tree /\ \A v \in DOMAIN tree : s.tree[v] = tree[v]
      /\ \A v \in DOMAIN s.tree \ DOMAIN tree : v = Parent /\ s.tree[v] = Zero
  BY SameTree
<1>2. InTree' = {v \in DOMAIN tree' : tree'[v].type = 1} /\ InTree = {v \in DOMAIN tree : tree[v].type = 1}
  BY DEF InTree
<1>3. ASSUME Idle
      PROVE  /\ InTree' = InTree /\ DOMAIN tree \subseteq DOMAIN tree'
             /\ \A v \in DOMAIN tree : tree'[v] = tree[v]
             /\ \A v \in DOMAIN tree' \ DOMAIN tree : v = Parent /\ tree'[v] = Zero
  <2>1. tree' = s.tree
    BY <1>3 DEF Idle
  <2>. HIDE DEF s
  <2>. QED
    BY <1>1, <1>2, <2>1 DEF Zero
<1>4. ASSUME NEW id \in Nat, Chosen(id)
      PROVE  /\ DOMAIN tree' = DOMAIN s.tree \cup {id} /\ DOMAIN tree \subseteq DOMAIN tree'
             /\ tree'[id] = s.clist[id] /\ tree'[newNode'] = s.clist[id]
             /\ \A v \in DOMAIN tree \ {id} : tree'[v] = tree[v]
             /\ \A v \in (DOMAIN tree' \ DOMAIN tree) \ {id} : v = Parent /\ tree'[v] = Zero
             /\ s.clist[id] = Zero => InTree' = InTree \ {id}
             /\ s.clist[id] # Zero => s.clist[id].type = 1 /\ InTree' = InTree \cup {id}
  <2>1. /\ id \in DOMAIN s.clist /\ newNode' = id
        /\ DOMAIN tree' = DOMAIN s.tree \cup {id} /\ tree'[id] = s.clist[id]
        /\ \A v \in DOMAIN s.tree \ {id} : tree'[v] = s.tree[v]
    BY <1>4 DEF Chosen, IsPut
  <2>2. s.clist[id] # Zero => s.clist[id].type = 1
    BY <2>1, CandidatesAre
  <2>. HIDE DEF s
  <2>3. \A v \in DOMAIN tree \ {id} : tree'[v] = tree[v]
    BY <1>1, <2>1
  <2>4. \A v \in (DOMAIN tree' \ DOMAIN tree) \ {id} : v = Parent /\ tree'[v] = Zero
    BY <1>1, <2>1
  <2>5. s.clist[id] = Zero => InTree' = InTree \ {id}
    BY <1>1, <1>2, <2>1, <2>3, <2>4 DEF Zero
  <2>6. s.clist[id] # Zero => InTree' = InTree \cup {id}
    BY <1>1, <1>2, <2>1, <2>2, <2>3, <2>4 DEF Zero
  <2>. QED
    BY <1>1, <2>1, <2>2, <2>3, <2>4, <2>5, <2>6
<1>. QED
  BY <1>3, <1>4

\* calc keeps the types.
LEMMA TypedStep ==
  ASSUME PlainInv, Ready, Underway(PlainRelaxed), lsdb' = lsdb, fault' = fault,
         Idle \/ \E id \in Nat : Chosen(id)
  PROVE  Typed'
<1>. DEFINE s == PlainRelaxed
<1>1. /\ DOMAIN tree \subseteq DOMAIN s.tree /\ \A v \in DOMAIN tree : s.tree[v] = tree[v]
      /\ \A v \in DOMAIN s.tree \ DOMAIN tree : v = Parent /\ s.tree[v] = Zero
      /\ s.tree \in Maps /\ s.clist \in Maps /\ IsFiniteSet(DOMAIN s.clist)
  BY SameTree DEF Underway
<1>2. \A v \in DOMAIN tree : tree[v] = Zero \/ (tree[v].id = v /\ tree[v].type = 1)
  BY DEF PlainInv, Typed
<1>3. InTree \subseteq Vertices /\ newNode \in DOMAIN tree /\ Root \in DOMAIN tree
  BY DEF PlainInv, Typed
<1>4. IsDatabase(lsdb)' /\ fault' \in Faults
      /\ Routers' = Routers /\ Vertices' = Vertices
  BY SameCosts DEF PlainInv, Typed
<1>5. \A w \in DOMAIN s.clist :
        s.clist[w] = Zero \/ (s.clist[w].id = w /\ s.clist[w].type = 1 /\ w \in Routers)
  BY CandidatesAre
<1>. DEFINE rooted == 0 \notin DOMAIN s.tree /\ 0 \notin DOMAIN s.clist
<1>6. rooted
  <2>1. 0 \notin DOMAIN tree /\ 0 \notin Routers
    BY DEF PlainInv, Typed, IsDatabase, Routers
  <2>2. s.tree = tree \/ (Parent # 0 /\ s.tree = Touched(tree, Parent))
    BY DEF Underway
  <2>3. 0 \notin DOMAIN s.tree
    BY <2>1, <2>2 DEF Touched, Put
  <2>4. 0 \notin DOMAIN s.clist
    BY <2>1, CandidatesAre
  <2>. QED
    BY <2>3, <2>4
<1>. HIDE DEF s
<1>7. CASE Idle
  <2>1. DOMAIN s.clist = {} /\ tree' = s.tree /\ clist' = s.clist /\ newNode' = newNode
    BY <1>7 DEF Idle, s
  <2>2. InTree' = InTree
    BY <1>7, TreeAfter
  <2>3. \A v \in DOMAIN tree' : tree'[v] = Zero \/ (tree'[v].id = v /\ tree'[v].type = 1)
    BY <1>1, <1>2, <2>1
  <2>. QED
    BY <1>1, <1>3, <1>4, <1>6, <2>1, <2>2, <2>3 DEF Typed
<1>8. ASSUME NEW id \in Nat, Chosen(id) PROVE Typed'
  <2>1. /\ id \in DOMAIN s.clist
        /\ tree' \in Maps /\ DOMAIN tree' = DOMAIN s.tree \cup {id} /\ tree'[id] = s.clist[id]
        /\ \A v \in DOMAIN s.tree \ {id} : tree'[v] = s.tree[v]
        /\ clist' \in Maps /\ DOMAIN clist' = DOMAIN s.clist \ {id}
        /\ \A v \in DOMAIN clist' : clist'[v] = s.clist[v]
        /\ newNode' = id
    BY <1>8 DEF Chosen, IsPut, s
  <2>2. \A v \in DOMAIN tree' : tree'[v] = Zero \/ (tree'[v].id = v /\ tree'[v].type = 1)
    BY <1>1, <1>2, <1>5, <2>1
  <2>3. \A w \in DOMAIN clist' :
          clist'[w] = Zero \/ (clist'[w].id = w /\ clist'[w].type = 1 /\ w \in Routers)
    BY <1>5, <2>1
  <2>4. InTree' \subseteq Vertices
    <3>1. InTree' = InTree \ {id} \/ (InTree' = InTree \cup {id} /\ s.clist[id] # Zero)
      BY <1>8, TreeAfter DEF s
    <3>2. s.clist[id] # Zero => id \in Vertices
      BY <1>5, <2>1 DEF Vertices
    <3>. QED
      BY <1>3, <3>1, <3>2
  <2>5. IsFiniteSet(DOMAIN clist')
    BY <1>1, <2>1, FS_RemoveElement
  <2>6. 0 \notin DOMAIN tree'
    BY <1>6, <2>1
  <2>. QED
    BY <1>1, <1>3, <1>4, <2>1, <2>2, <2>3, <2>4, <2>5, <2>6 DEF Typed
<1>. QED
  BY <1>7, <1>8

\* calc keeps candidates and tree apart.
LEMMA ApartStep ==
  ASSUME PlainInv, Ready, Underway(PlainRelaxed), Idle \/ \E id \in Nat : Chosen(id)
  PROVE  Apart'
<1>1. CASE Idle
  BY <1>1 DEF Idle, Apart
<1>2. ASSUME NEW id \in Nat, Chosen(id), NEW w \in DOMAIN clist'
      PROVE  IF clist'[w] = Zero THEN w \in DOMAIN tree' ELSE w \notin InTree'
  <2>1. w \in DOMAIN PlainRelaxed.clist /\ w # id /\ clist'[w] = PlainRelaxed.clist[w]
    BY <1>2 DEF Chosen
  <2>2. IF PlainRelaxed.clist[w] = Zero THEN w \in DOMAIN tree ELSE w \in Routers \ InTree
    BY <2>1, CandidatesAre
  <2>3. DOMAIN tree \subseteq DOMAIN tree' /\ InTree' \subseteq InTree \cup {id}
    BY <1>2, TreeAfter
  <2>. QED
    BY <2>1, <2>2, <2>3
<1>. QED
  BY <1>1, <1>2 DEF Apart

\* calc keeps the root's vertex, but for the zeros.
LEMMA RootStaysStep ==
  ASSUME PlainInv, Ready, Underway(PlainRelaxed), Idle \/ \E id \in Nat : Chosen(id)
  PROVE  RootStays' /\ tree[Root].type = 1
<1>1. Root \in DOMAIN tree /\ tree[Root].type = 1
  BY DEF PlainInv, Typed, RootStays, Ready
<1>2. CASE Idle
  BY <1>1, <1>2, TreeAfter DEF RootStays
<1>3. ASSUME NEW id \in Nat, Chosen(id) PROVE RootStays'
  <2>1. newNode' = id /\ (id # Root => tree'[Root] = tree[Root])
    BY <1>1, <1>3, TreeAfter DEF Chosen
  <2>. QED
    BY <1>1, <2>1 DEF RootStays
<1>. QED
  BY <1>1, <1>2, <1>3

\* calc puts below a vertex of the tree whatever it puts anywhere.
LEMMA AboveStep ==
  ASSUME PlainInv, Ready, Underway(PlainRelaxed), Idle \/ \E id \in Nat : Chosen(id)
  PROVE  Above'
<1>1. /\ \A v \in InTree \ {Root} : tree[v].pid \in InTree
      /\ InTree \subseteq DOMAIN tree
  BY DEF PlainInv, Above, Ready, InTree
<1>2. CASE Idle
  <2>1. InTree' = InTree /\ \A v \in DOMAIN tree : tree'[v] = tree[v]
    BY <1>2, TreeAfter
  <2>2. DOMAIN clist' = {}
    BY <1>2 DEF Idle
  <2>. QED
    BY <1>1, <2>1, <2>2 DEF Above
<1>3. ASSUME NEW id \in Nat, Chosen(id), tree'[newNode'].type = 1
      PROVE  /\ \A v \in InTree' \ {Root} : tree'[v].pid \in InTree'
             /\ \A w \in DOMAIN clist' : clist'[w] # Zero => clist'[w].pid \in InTree'
  <2>1. id \in DOMAIN PlainRelaxed.clist /\ tree'[id] = PlainRelaxed.clist[id] /\ tree'[newNode'] = PlainRelaxed.clist[id]
        /\ \A v \in DOMAIN tree \ {id} : tree'[v] = tree[v]
    BY <1>3, TreeAfter DEF Chosen
  <2>2. PlainRelaxed.clist[id] # Zero
    BY <1>3, <2>1 DEF Zero
  <2>3. InTree' = InTree \cup {id}
    BY <1>3, <2>2, TreeAfter
  <2>4. \A w \in DOMAIN PlainRelaxed.clist : PlainRelaxed.clist[w] # Zero => PlainRelaxed.clist[w].pid \in InTree
    BY CandidatesAre
  <2>5. \A w \in DOMAIN clist' : w \in DOMAIN PlainRelaxed.clist /\ clist'[w] = PlainRelaxed.clist[w]
    BY <1>3 DEF Chosen
  <2>. QED
    BY <1>1, <2>1, <2>2, <2>3, <2>4, <2>5
<1>. QED
  BY <1>2, <1>3 DEF Above

\* Once a vertex below a neighbour of the root is a candidate, so are the zeros.
LEMMA BelowRootStep ==
  ASSUME PlainInv, Ready, Underway(PlainRelaxed), Idle \/ \E id \in Nat : Chosen(id)
  PROVE  BelowRoot'
<1>1. \A v \in InTree \ {Root} : tree[v].pid # Root => tree[v].cost = 0
  BY DEF PlainInv, BelowRoot
<1>2. HasZero \/ /\ \A v \in InTree \ {Root} : tree[v].pid = Root
                 /\ \A w \in DOMAIN clist : clist[w].pid = Root
  BY DEF PlainInv, BelowRoot, Ready
<1>3. (HasZero => SomeZero) /\ (SomeZero \/ \A w \in DOMAIN PlainRelaxed.clist : PlainRelaxed.clist[w].pid = Root)
  BY CandidatesAre
<1>4. InTree \subseteq DOMAIN tree
  BY DEF InTree
<1>5. CASE Idle
  <2>1. InTree' = InTree /\ \A v \in DOMAIN tree : tree'[v] = tree[v]
    BY <1>5, TreeAfter
  <2>2. DOMAIN clist' = {} /\ ~SomeZero
    BY <1>5 DEF Idle, SomeZero
  <2>. QED
    BY <1>1, <1>2, <1>3, <1>4, <2>1, <2>2 DEF BelowRoot
<1>6. ASSUME NEW id \in Nat, Chosen(id) PROVE BelowRoot'
  <2>1. id \in DOMAIN PlainRelaxed.clist /\ tree'[id] = PlainRelaxed.clist[id] /\ tree'[newNode'] = PlainRelaxed.clist[id]
        /\ \A v \in DOMAIN tree \ {id} : tree'[v] = tree[v]
    BY <1>6, TreeAfter DEF Chosen
  <2>2. /\ DOMAIN clist' = DOMAIN PlainRelaxed.clist \ {id}
        /\ \A w \in DOMAIN clist' : clist'[w] = PlainRelaxed.clist[w]
    BY <1>6 DEF Chosen
  <2>3. CASE PlainRelaxed.clist[id] = Zero
    <3>1. InTree' = InTree \ {id}
      BY <1>6, <2>3, TreeAfter
    <3>2. tree'[newNode'].type # 1
      BY <2>1, <2>3 DEF Zero
    <3>. QED
      BY <1>1, <1>4, <2>1, <3>1, <3>2 DEF BelowRoot
  <2>4. CASE PlainRelaxed.clist[id] # Zero
    <3>1. InTree' = InTree \cup {id}
      BY <1>6, <2>4, TreeAfter
    <3>2. CASE SomeZero
      <4>1. PICK z \in DOMAIN PlainRelaxed.clist : PlainRelaxed.clist[z] = Zero
        BY <3>2 DEF SomeZero
      <4>2. HasZero'
        BY <2>2, <2>4, <4>1 DEF HasZero
      <4>3. PlainRelaxed.clist[id].cost = 0
        <5>1. PlainRelaxed.clist[id].cost <= PlainRelaxed.clist[z].cost /\ PlainRelaxed.clist[z].cost = 0
          BY <1>6, <4>1 DEF Chosen, Zero
        <5>2. PlainRelaxed.clist[id].cost \in Nat
          BY <2>1, EntryOf, EntryAre DEF Underway
        <5>. QED
          BY <5>1, <5>2
      <4>. QED
        BY <1>1, <1>4, <2>1, <3>1, <4>2, <4>3 DEF BelowRoot
    <3>3. CASE ~SomeZero
      <4>1. \A v \in InTree' \ {Root} : tree'[v].pid = Root
        BY <1>2, <1>3, <1>4, <2>1, <3>1, <3>3
      <4>2. \A w \in DOMAIN clist' : clist'[w].pid = Root
        BY <1>3, <2>2, <3>3
      <4>. QED
        BY <4>1, <4>2 DEF BelowRoot
    <3>. QED
      BY <3>2, <3>3
  <2>. QED
    BY <2>3, <2>4
<1>. QED
  BY <1>5, <1>6

\* A root whose pid is the id of a router stays one.
LEMMA GarbledStays ==
  ASSUME PlainInv, Ready, Underway(PlainRelaxed), lsdb' = lsdb, Idle \/ \E id \in Nat : Chosen(id), ~Garbled'
  PROVE  ~Garbled
<1>1. Root \in DOMAIN tree /\ tree[Root].type = 1 /\ Root \in InTree
  BY RootStaysStep DEF PlainInv, Typed, InTree
<1>2. Routers' = Routers
  BY SameCosts
<1>3. CASE Idle
  <2>1. tree'[Root] = tree[Root]
    BY <1>1, <1>3, TreeAfter
  <2>. QED
    BY <1>2, <2>1 DEF Garbled
<1>4. ASSUME NEW id \in Nat, Chosen(id) PROVE ~Garbled
  <2>1. id # Root
    <3>. SUFFICES ASSUME id = Root PROVE FALSE
      OBVIOUS
    <3>1. id \in DOMAIN PlainRelaxed.clist /\ tree'[Root] = PlainRelaxed.clist[id]
      BY <1>4, TreeAfter DEF Chosen
    <3>2. PlainRelaxed.clist[id] = Zero
      BY <1>1, <3>1, CandidatesAre
    <3>. QED
      BY <3>1, <3>2 DEF Garbled, Zero
  <2>2. tree'[Root] = tree[Root]
    BY <1>1, <1>4, <2>1, TreeAfter
  <2>. QED
    BY <1>2, <2>2 DEF Garbled
<1>. QED
  BY <1>3, <1>4

\* getNextHop inserts no router into the tree.
LEMMA ParentInTree ==
  ASSUME PlainInv, Ready, ~Garbled
  PROVE  Parent \in Routers => Parent \in InTree
<1>1. newNode = Root => Parent \notin Routers
  BY DEF Garbled, Parent
<1>2. Up => Parent \in InTree
  BY DEF Up, InTree
<1>. QED
  BY <1>1, <1>2, UpOrRoot

\* What getNextHop inserts into the tree is no router, unless the root's pid is one.
LEMMA BlockedStep ==
  ASSUME PlainInv, Ready, Underway(PlainRelaxed), lsdb' = lsdb, Idle \/ \E id \in Nat : Chosen(id)
  PROVE  Blocked'
<1>. SUFFICES ASSUME ~Garbled', tree'[newNode'].type = 1 PROVE DOMAIN tree' \cap Routers \subseteq InTree'
  BY SameCosts DEF Blocked
<1>1. DOMAIN tree \cap Routers \subseteq InTree /\ (Parent \in Routers => Parent \in InTree)
      /\ InTree \subseteq DOMAIN tree
  BY GarbledStays, ParentInTree DEF PlainInv, Blocked, Ready, InTree
<1>2. CASE Idle
  BY <1>1, <1>2, TreeAfter
<1>3. ASSUME NEW id \in Nat, Chosen(id) PROVE DOMAIN tree' \cap Routers \subseteq InTree'
  <2>1. tree'[newNode'] = PlainRelaxed.clist[id]
        /\ \A v \in (DOMAIN tree' \ DOMAIN tree) \ {id} : v = Parent
    BY <1>3, TreeAfter
  <2>2. PlainRelaxed.clist[id] # Zero
    BY <2>1 DEF Zero
  <2>3. InTree' = InTree \cup {id}
    BY <1>3, <2>2, TreeAfter
  <2>. QED
    BY <1>1, <2>1, <2>3
<1>. QED
  BY <1>2, <1>3

\* Behind every link that leaves the tree there is a candidate, newNode's included.
LEMMA FrontierFull ==
  ASSUME PlainInv, Ready, ~Garbled, ~HasZero, NEW d, IsDistance(d),
         NEW u \in InTree \cap Routers, NEW w \in Routers \ InTree, NEW m \in Costs(u, w)
  PROVE  w \in DOMAIN PlainRelaxed.clist /\ PlainRelaxed.clist[w].cost <= d[u] + m
<1>. DEFINE s == PlainRelaxed
<1>1. Underway(s) /\ \A x \in Routers : \A j \in Costs(newNode, x) : RelaxedTo(s, x, j)
  BY RelaxedIs
<1>2. /\ DOMAIN tree \subseteq DOMAIN s.tree
      /\ \A v \in DOMAIN s.tree \ DOMAIN tree : v = Parent
  BY <1>1, SameTree
<1>. HIDE DEF s
<1>3. CASE u = newNode
  <2>1. w \notin DOMAIN tree /\ (Parent \in Routers => Parent \in InTree)
    BY ParentInTree DEF PlainInv, Blocked, Ready
  <2>2. w \notin DOMAIN s.tree
    BY <1>2, <2>1
  <2>3. w \in DOMAIN s.clist /\ s.clist[w].cost <= tree[u].cost + m
    BY <1>1, <1>3, <2>2 DEF RelaxedTo
  <2>4. tree[u].cost = d[u]
    BY DEF PlainInv, ByDistance, Near
  <2>. QED
    BY <2>3, <2>4 DEF s
<1>4. CASE u # newNode
  <2>1. w \in DOMAIN clist /\ clist[w].cost <= d[u] + m
    BY <1>4 DEF PlainInv, ByDistance, Frontier, Ready
  <2>2. w \in DOMAIN s.clist /\ s.clist[w].cost <= clist[w].cost
    BY <1>1, <2>1 DEF Underway
  <2>3. clist[w].cost \in Nat /\ s.clist[w].cost \in Nat /\ m \in Nat
    BY <1>1, <2>1, <2>2, EntryOf, EntryAre, CostsOf DEF Underway, Ready
  <2>4. d[u] \in Nat
    <3>1. u \in DOMAIN d
      BY DEF PlainInv, ByDistance, Near
    <3>. QED
      BY <3>1 DEF IsDistance
  <2>. QED
    BY <2>1, <2>2, <2>3, <2>4 DEF s
<1>. QED
  BY <1>3, <1>4

\* No candidate is nearer than it can be.
LEMMA CandidatesNear ==
  ASSUME PlainInv, Ready, ~Garbled, NEW d, IsDistance(d), NEW w \in DOMAIN PlainRelaxed.clist, PlainRelaxed.clist[w] # Zero
  PROVE  w \in DOMAIN d /\ d[w] <= PlainRelaxed.clist[w].cost
<1>. DEFINE s == PlainRelaxed
<1>1. IsOld(s, w) \/ IsNew(s, w) \/ IsZeros(s, w)
  BY RelaxedIs DEF Underway
<1>. HIDE DEF s
<1>2. CASE IsOld(s, w)
  <2>1. w \in DOMAIN clist /\ s.clist[w] = clist[w] /\ clist[w] # Zero
    BY <1>2 DEF IsOld, s
  <2>2. w \in DOMAIN d /\ d[w] <= clist[w].cost
    BY <2>1 DEF PlainInv, ByDistance, Near
  <2>. QED
    BY <2>1, <2>2 DEF s
<1>3. CASE IsNew(s, w)
  <2>1. PICK m \in Costs(newNode, w) :
          s.clist[w] = [id |-> w, pid |-> newNode, type |-> 1, cost |-> tree[newNode].cost + m]
    BY <1>3 DEF IsNew
  <2>2. newNode \in InTree /\ newNode \in Routers /\ w \in Routers
    BY <1>3 DEF Ready, InTree, IsNew
  <2>3. newNode \in DOMAIN d /\ tree[newNode].cost = d[newNode]
    BY <2>2 DEF PlainInv, ByDistance, Near
  <2>4. w \in DOMAIN d /\ d[w] <= d[newNode] + m
    BY <2>2, <2>3 DEF IsDistance
  <2>5. s.clist[w].cost = d[newNode] + m
    BY <2>1, <2>3
  <2>. QED
    BY <2>4, <2>5 DEF s
<1>4. CASE IsZeros(s, w)
  BY <1>4 DEF IsZeros, s
<1>. QED
  BY <1>1, <1>2, <1>3, <1>4

\* The candidate that is chosen is as near as it can be.
LEMMA ChosenNear ==
  ASSUME PlainInv, Ready, Underway(PlainRelaxed), ~Garbled, NEW d, IsDistance(d), NEW id \in Nat, Chosen(id),
         PlainRelaxed.clist[id] # Zero
  PROVE  id \in DOMAIN d /\ PlainRelaxed.clist[id].cost = d[id]
<1>. DEFINE cost(v) == PlainRelaxed.clist[v].cost
<1>1. id \in DOMAIN PlainRelaxed.clist /\ \A v \in DOMAIN PlainRelaxed.clist : cost(id) <= cost(v)
  BY DEF Chosen
<1>2. id \in DOMAIN d /\ d[id] <= cost(id) /\ d[id] \in Nat
  <2>1. id \in DOMAIN d /\ d[id] <= cost(id)
    BY <1>1, CandidatesNear
  <2>. QED
    BY <2>1 DEF IsDistance
<1>3. \A v \in DOMAIN PlainRelaxed.clist : cost(v) \in Nat
  BY EntryOf, EntryAre DEF Underway
<1>. HIDE DEF cost
<1>4. CASE SomeZero
  <2>1. PICK z \in DOMAIN PlainRelaxed.clist : PlainRelaxed.clist[z] = Zero
    BY <1>4 DEF SomeZero
  <2>2. cost(z) = 0
    BY <2>1 DEF Zero, cost
  <2>3. cost(id) <= 0
    BY <1>1, <2>1, <2>2
  <2>4. cost(id) = d[id]
    BY <1>1, <1>2, <1>3, <2>3
  <2>. QED
    BY <1>2, <2>4 DEF cost
<1>5. CASE ~SomeZero
  <2>1. ~HasZero /\ id \notin InTree
    BY <1>1, <1>5, CandidatesAre
  <2>2. Root \in InTree
    <3>1. Root \in DOMAIN tree /\ tree[Root].type = 1
      BY DEF PlainInv, Typed, RootStays, Ready
    <3>. QED
      BY <3>1 DEF InTree
  <2>3. PICK u \in InTree \cap DOMAIN d \cap Routers, w \in Routers \ InTree :
          \E m \in Costs(u, w) : d[u] + m <= d[id]
    BY <1>2, <2>1, <2>2 DEF IsDistance
  <2>4. PICK m \in Costs(u, w) : d[u] + m <= d[id]
    BY <2>3
  <2>5. w \in DOMAIN PlainRelaxed.clist /\ cost(w) <= d[u] + m
    BY <2>1, FrontierFull DEF cost
  <2>6. d[u] \in Nat /\ m \in Nat
    BY CostsOf DEF IsDistance, Ready
  <2>7. cost(id) <= cost(w) /\ cost(id) \in Nat /\ cost(w) \in Nat
    BY <1>1, <1>3, <2>5
  <2>8. cost(id) = d[id]
    BY <1>2, <2>4, <2>5, <2>6, <2>7
  <2>. QED
    BY <1>2, <2>8 DEF cost
<1>. QED
  BY <1>4, <1>5

\* The nearest candidate is at its distance: a shorter path would leave the tree at a
\* candidate that is nearer (Crossing).
LEMMA NearStep ==
  ASSUME PlainInv, Ready, Underway(PlainRelaxed), lsdb' = lsdb, Idle \/ \E id \in Nat : Chosen(id),
         NEW d, IsDistance(d)
  PROVE  Near(d)'
<1>. SUFFICES ASSUME ~Garbled'
              PROVE  /\ \A v \in InTree' : v \in DOMAIN d /\ tree'[v].cost = d[v]
                     /\ \A w \in DOMAIN clist' : clist'[w] # Zero => w \in DOMAIN d /\ d[w] <= clist'[w].cost
  BY DEF Near
<1>1. ~Garbled
  BY GarbledStays
<1>2. \A v \in InTree : v \in DOMAIN tree /\ v \in DOMAIN d /\ tree[v].cost = d[v]
  BY <1>1 DEF PlainInv, ByDistance, Near, InTree
<1>3. \A w \in DOMAIN PlainRelaxed.clist :
        PlainRelaxed.clist[w] # Zero => w \in DOMAIN d /\ d[w] <= PlainRelaxed.clist[w].cost
  BY <1>1, CandidatesNear
<1>4. CASE Idle
  <2>1. InTree' = InTree /\ \A v \in DOMAIN tree : tree'[v] = tree[v]
    BY <1>4, TreeAfter
  <2>2. DOMAIN clist' = {}
    BY <1>4 DEF Idle
  <2>. QED
    BY <1>2, <2>1, <2>2
<1>5. ASSUME NEW id \in Nat, Chosen(id)
      PROVE  /\ \A v \in InTree' : v \in DOMAIN d /\ tree'[v].cost = d[v]
             /\ \A w \in DOMAIN clist' : clist'[w] # Zero => w \in DOMAIN d /\ d[w] <= clist'[w].cost
  <2>1. tree'[id] = PlainRelaxed.clist[id] /\ \A v \in DOMAIN tree \ {id} : tree'[v] = tree[v]
    BY <1>5, TreeAfter
  <2>2. \A w \in DOMAIN clist' : w \in DOMAIN PlainRelaxed.clist /\ clist'[w] = PlainRelaxed.clist[w]
    BY <1>5 DEF Chosen
  <2>3. CASE PlainRelaxed.clist[id] = Zero
    <3>1. InTree' = InTree \ {id}
      BY <1>5, <2>3, TreeAfter
    <3>. QED
      BY <1>2, <1>3, <2>1, <2>2, <3>1
  <2>4. CASE PlainRelaxed.clist[id] # Zero
    <3>1. InTree' = InTree \cup {id}
      BY <1>5, <2>4, TreeAfter
    <3>2. id \in DOMAIN d /\ PlainRelaxed.clist[id].cost = d[id]
      BY <1>1, <1>5, <2>4, ChosenNear
    <3>. QED
      BY <1>2, <1>3, <2>1, <2>2, <3>1, <3>2
  <2>. QED
    BY <2>3, <2>4
<1>. QED
  BY <1>4, <1>5

\* After calc every link that leaves the tree has a candidate at its end.
LEMMA FrontierStep ==
  ASSUME PlainInv, Ready, Underway(PlainRelaxed), lsdb' = lsdb, Idle \/ \E id \in Nat : Chosen(id),
         NEW d, IsDistance(d)
  PROVE  Frontier(d)'
<1>. SUFFICES ASSUME ~Garbled', tree'[newNode'].type = 1, ~HasZero',
                     NEW u \in (InTree' \cap Routers) \ {newNode'}, NEW w \in Routers \ InTree',
                     NEW m \in Costs(u, w)
              PROVE  w \in DOMAIN clist' /\ clist'[w].cost <= d[u] + m
  BY SameCosts DEF Frontier
<1>1. ~Garbled
  BY GarbledStays
<1>2. HasZero => SomeZero
  BY CandidatesAre
<1>3. CASE Idle
  <2>1. InTree' = InTree /\ clist' = PlainRelaxed.clist /\ ~SomeZero
    BY <1>3, TreeAfter DEF Idle, SomeZero
  <2>. QED
    BY <1>1, <1>2, <2>1, FrontierFull
<1>4. ASSUME NEW id \in Nat, Chosen(id) PROVE w \in DOMAIN clist' /\ clist'[w].cost <= d[u] + m
  <2>1. tree'[newNode'] = PlainRelaxed.clist[id] /\ newNode' = id
    BY <1>4, TreeAfter DEF Chosen
  <2>2. PlainRelaxed.clist[id] # Zero
    BY <2>1 DEF Zero
  <2>3. InTree' = InTree \cup {id}
    BY <1>4, <2>2, TreeAfter
  <2>4. /\ DOMAIN clist' = DOMAIN PlainRelaxed.clist \ {id}
        /\ \A v \in DOMAIN clist' : clist'[v] = PlainRelaxed.clist[v]
    BY <1>4 DEF Chosen
  <2>5. ~SomeZero
    BY <2>2, <2>4 DEF SomeZero, HasZero
  <2>6. u \in InTree \cap Routers /\ w \in Routers \ InTree /\ w # id
    BY <2>1, <2>3
  <2>7. w \in DOMAIN PlainRelaxed.clist /\ PlainRelaxed.clist[w].cost <= d[u] + m
    BY <1>1, <1>2, <2>5, <2>6, FrontierFull
  <2>. QED
    BY <2>4, <2>6, <2>7
<1>. QED
  BY <1>3, <1>4

\* The zeros come only where another router may be on a shortest path.
LEMMA ZeroMeansBypass ==
  ASSUME PlainInv, Ready, ~Garbled, NEW d, IsDistance(d), SomeZero
  PROVE  Bypass(d)
<1>1. CASE HasZero
  BY <1>1 DEF PlainInv, ByDistance, Indirect
<1>2. CASE ~HasZero
  <2>1. Up /\ Slack /\ newNode # Root
    BY <1>2, CandidatesAre, UpOrRoot
  <2>2. PICK x \in Routers \ DOMAIN tree : \E m \in Costs(newNode, x) :
          x \in DOMAIN clist => tree[newNode].cost + m <= clist[x].cost
    BY <2>1 DEF Slack
  <2>3. PICK m \in Costs(newNode, x) : x \in DOMAIN clist => tree[newNode].cost + m <= clist[x].cost
    BY <2>2
  <2>4. newNode \in InTree /\ newNode \in Routers /\ Root \in DOMAIN tree /\ Root \in InTree
    BY DEF Ready, InTree, PlainInv, Typed, RootStays
  <2>5. newNode \in DOMAIN d /\ tree[newNode].cost = d[newNode]
    BY <2>4 DEF PlainInv, ByDistance, Near
  <2>6. x \in DOMAIN d \ {Root} /\ d[x] <= d[newNode] + m
    BY <2>4, <2>5 DEF IsDistance
  <2>7. PICK u \in DOMAIN d \cap Routers : \E j \in Costs(u, x) : d[x] = d[u] + j
    BY <2>6 DEF IsDistance
  <2>8. PICK j \in Costs(u, x) : d[x] = d[u] + j
    BY <2>7
  <2>9. CASE u # Root
    BY <2>6, <2>8, <2>9 DEF Bypass
  <2>10. CASE u = Root
    <3>1. u \in (InTree \cap Routers) \ {newNode} /\ x \in Routers \ InTree
      BY <2>1, <2>4, <2>10 DEF InTree
    <3>2. x \in DOMAIN clist /\ clist[x].cost <= d[u] + j
      BY <1>2, <3>1 DEF PlainInv, ByDistance, Frontier, Ready
    <3>3. clist[x].cost \in Nat /\ d[x] \in Nat /\ d[newNode] \in Nat /\ m \in Nat
      BY <2>4, <2>5, <2>6, <3>2, EntryOf, EntryAre, CostsOf DEF IsDistance, Ready
    <3>4. d[newNode] + m = d[x]
      BY <2>3, <2>5, <2>6, <2>8, <3>2, <3>3
    <3>. QED
      BY <2>1, <2>5, <2>6, <3>4 DEF Bypass
  <2>. QED
    BY <2>9, <2>10
<1>. QED
  BY <1>1, <1>2

\* Zeros are inserted only for a link that is as good as what is known.
LEMMA IndirectStep ==
  ASSUME PlainInv, Ready, Underway(PlainRelaxed), lsdb' = lsdb, Idle \/ \E id \in Nat : Chosen(id),
         NEW d, IsDistance(d)
  PROVE  Indirect(d)'
<1>. SUFFICES ASSUME ~Garbled', HasZero' \/ tree'[newNode'].type # 1 PROVE Bypass(d)
  BY SameCosts DEF Indirect, Bypass
<1>1. ~Garbled
  BY GarbledStays
<1>2. SomeZero
  <2>1. CASE Idle
    <3>1. DOMAIN clist' = {} /\ newNode' = newNode /\ tree'[newNode] = tree[newNode]
      BY <2>1, TreeAfter DEF Idle, Ready
    <3>. QED
      BY <3>1 DEF HasZero, Ready
  <2>2. ASSUME NEW id \in Nat, Chosen(id) PROVE SomeZero
    <3>1. /\ id \in DOMAIN PlainRelaxed.clist /\ tree'[newNode'] = PlainRelaxed.clist[id]
          /\ (PlainRelaxed.clist[id] # Zero => PlainRelaxed.clist[id].type = 1)
      BY <2>2, TreeAfter DEF Chosen
    <3>2. \A w \in DOMAIN clist' : w \in DOMAIN PlainRelaxed.clist /\ clist'[w] = PlainRelaxed.clist[w]
      BY <2>2 DEF Chosen
    <3>. QED
      BY <3>1, <3>2 DEF SomeZero, HasZero
  <2>. QED
    BY <2>1, <2>2
<1>. QED
  BY <1>1, <1>2, ZeroMeansBypass

\* The root alone.
LEMMA PlainInit == Init => PlainInv
<1>. SUFFICES ASSUME Init PROVE PlainInv
  OBVIOUS
<1>. DEFINE r == tree[Root]
<1>1. IsDatabase(lsdb) /\ Root \in Nat /\ Root # 0
  BY DatabaseAssumption DEF Init
<1>2. PICK p \in Pids : tree = [v \in {Root} |-> [id |-> Root, pid |-> p, type |-> 1, cost |-> 0]]
  BY DEF Init
<1>3. DOMAIN tree = {Root} /\ r = [id |-> Root, pid |-> p, type |-> 1, cost |-> 0] /\ p \in Nat
  BY <1>2, DatabaseAssumption
<1>4. tree \in Maps
  <2>1. r \in Entry
    BY <1>1, <1>3 DEF Entry
  <2>2. tree \in [{Root} -> Entry] /\ {Root} \in SUBSET Nat
    BY <1>1, <1>2, <1>3, <2>1
  <2>. QED
    BY <2>2 DEF Maps
<1>5. DOMAIN clist = {} /\ clist \in Maps /\ IsFiniteSet(DOMAIN clist) /\ newNode = Root /\ fault = "none"
  <2>1. clist = [v \in {} |-> Zero] /\ newNode = Root /\ fault = "none"
    BY DEF Init
  <2>2. DOMAIN clist = {} /\ clist \in [{} -> Entry] /\ {} \in SUBSET Nat
    BY <2>1
  <2>. QED
    BY <2>1, <2>2, FS_EmptySet DEF Maps
<1>6. InTree = {Root} /\ tree[newNode].type = 1 /\ tree[Root].id = Root /\ tree[Root].cost = 0
  BY <1>3, <1>5 DEF InTree
<1>. HIDE DEF r
<1>7. Typed
  BY <1>1, <1>3, <1>4, <1>5, <1>6 DEF Typed, Vertices, Faults
<1>8. Apart /\ RootStays /\ Above /\ BelowRoot /\ Blocked /\ Ended
  BY <1>3, <1>5, <1>6 DEF Apart, RootStays, Above, BelowRoot, Blocked, Ended
<1>9. ASSUME NEW d, IsDistance(d) PROVE Near(d) /\ Frontier(d) /\ Indirect(d)
  <2>1. Root \in DOMAIN d /\ d[Root] = 0
    BY <1>9 DEF IsDistance
  <2>. QED
    BY <1>5, <1>6, <2>1 DEF Near, Frontier, Indirect, HasZero
<1>. QED
  BY <1>7, <1>8, <1>9 DEF PlainInv, ByDistance

\* A call of calc keeps the invariant.
LEMMA PlainCalc ==
  ASSUME PlainInv, Base, ~Strayed, calc
  PROVE  PlainInv'
<1>1. Ready /\ Underway(PlainRelaxed) /\ lsdb' = lsdb /\ fault' = fault
      /\ (Idle \/ \E id \in Nat : Chosen(id))
  BY CalcIs
<1>2. Typed'
  BY <1>1, TypedStep
<1>3. Apart' /\ RootStays' /\ Above'
  BY <1>1, ApartStep, RootStaysStep, AboveStep
<1>4. BelowRoot' /\ Blocked'
  BY <1>1, BelowRootStep, BlockedStep
<1>5. ASSUME NEW d, IsDistance(d)' PROVE Near(d)' /\ Frontier(d)' /\ Indirect(d)'
  <2>1. IsDistance(d)
    BY <1>1, <1>5, SameDistance
  <2>. QED
    BY <1>1, <2>1, NearStep, FrontierStep, IndirectStep
<1>6. Ended'
  <2>1. fault' = "none"
    BY <1>1 DEF calc
  <2>. QED
    BY <2>1 DEF Ended
<1>. QED
  BY <1>2, <1>3, <1>4, <1>5, <1>6 DEF PlainInv, ByDistance

\* A step that leaves the database and both maps alone.
LEMMA PlainSame ==
  ASSUME PlainInv, UNCHANGED <<lsdb, tree, clist, newNode>>,
         fault' \in Faults, Ended'
  PROVE  PlainInv'
<1>1. Routers' = Routers /\ Vertices' = Vertices /\ (\A u, v : Costs(u, v)' = Costs(u, v))
  BY SameCosts
<1>2. InTree' = InTree /\ Garbled' = Garbled /\ HasZero' = HasZero
  BY <1>1 DEF InTree, Garbled, HasZero
<1>3. Typed'
  BY <1>1, <1>2 DEF PlainInv, Typed
<1>4. Apart' /\ RootStays' /\ Above'
  BY <1>2 DEF PlainInv, Apart, RootStays, Above
<1>5. BelowRoot' /\ Blocked'
  BY <1>1, <1>2 DEF PlainInv, BelowRoot, Blocked
<1>6. ASSUME NEW d, IsDistance(d)' PROVE Near(d)' /\ Frontier(d)' /\ Indirect(d)'
  <2>1. Near(d) /\ Frontier(d) /\ Indirect(d)
    BY <1>6, SameDistance DEF PlainInv, ByDistance
  <2>2. Near(d)'
    BY <1>2, <2>1 DEF Near
  <2>3. Frontier(d)'
    BY <1>1, <1>2, <2>1 DEF Frontier
  <2>4. Indirect(d)'
    BY <1>1, <1>2, <2>1 DEF Indirect, Bypass
  <2>. QED
    BY <2>2, <2>3, <2>4
<1>. QED
  BY <1>3, <1>4, <1>5, <1>6 DEF PlainInv, ByDistance

\* Without a stray link, every step keeps the invariant.
LEMMA PlainNext ==
  ASSUME PlainInv, Base, ~Strayed, [Next]_vars
  PROVE  PlainInv'
<1>1. CASE calc
  BY <1>1, PlainCalc
<1>2. CASE noRouterLsa
  <2>1. UNCHANGED <<lsdb, tree, clist, newNode>> /\ fault' = "null_router_lsa"
        /\ tree[newNode].type = 1 /\ tree[newNode].id \notin Routers
    BY <1>2 DEF noRouterLsa, Routers
  <2>2. newNode \in InTree /\ InTree \subseteq Vertices /\ tree[newNode].id = newNode
    BY <2>1 DEF PlainInv, Typed, InTree, Zero
  <2>3. Root \notin Routers
    BY <2>1, <2>2 DEF Vertices
  <2>4. Ended' /\ fault' \in Faults
    BY <2>1, <2>3, SameCosts DEF Ended, Faults
  <2>. QED
    BY <2>1, <2>4, PlainSame
<1>3. CASE noNetworkLsa
  <2>1. UNCHANGED <<lsdb, tree, clist, newNode>> /\ fault' = "null_network_lsa" /\ tree[newNode].type # 1
    BY <1>3 DEF noNetworkLsa
  <2>2. Ended' /\ fault' \in Faults
    BY <2>1 DEF Ended, Faults
  <2>. QED
    BY <2>1, <2>2, PlainSame
<1>4. CASE UNCHANGED vars
  <2>1. UNCHANGED <<lsdb, tree, clist, newNode>> /\ fault' = fault
    BY <1>4 DEF vars
  <2>2. Ended' /\ fault' \in Faults
    BY <2>1, SameCosts DEF PlainInv, Typed, Ended
  <2>. QED
    BY <2>1, <2>2, PlainSame
<1>. QED
  BY <1>1, <1>2, <1>3, <1>4 DEF Next

-----------------------------------------------------------------------------
(* The invariant, with stray links or without. *)

IInv == Base /\ (Strayed \/ PlainInv)

\* It holds at first.
LEMMA InitIInv == Init => IInv
<1>. SUFFICES ASSUME Init PROVE IInv
  OBVIOUS
<1>1. PlainInv
  BY PlainInit
<1>2. PICK p \in Pids : tree = [v \in {Root} |-> [id |-> Root, pid |-> p, type |-> 1, cost |-> 0]]
  BY DEF Init
<1>3. Root \in Nat /\ p \in Nat
  BY DatabaseAssumption
<1>4. Good(tree)
  <2>1. DOMAIN tree = {Root} /\ tree[Root].id = Root /\ tree[Root] \in AnyVertex
    BY <1>2, <1>3 DEF AnyVertex
  <2>2. tree \in [{Root} -> AnyVertex] /\ {Root} \in SUBSET Nat /\ IsFiniteSet({Root})
    BY <1>2, <1>3, <2>1, FS_Singleton
  <2>. QED
    BY <2>1, <2>2 DEF Good, AnyMaps
<1>5. Good(clist)
  <2>1. clist = [v \in {} |-> Zero]
    BY DEF Init
  <2>2. DOMAIN clist = {} /\ clist \in [{} -> AnyVertex] /\ {} \in SUBSET Nat /\ IsFiniteSet({})
    BY <2>1, FS_EmptySet
  <2>. QED
    BY <2>2 DEF Good, AnyMaps
<1>6. Base
  BY <1>1, <1>4, <1>5 DEF Base, PlainInv, Typed
<1>. QED
  BY <1>1, <1>6 DEF IInv

\* Every step keeps it: the tree grows, so that a stray link stays within reach.
LEMMA NextIInv == IInv /\ [Next]_vars => IInv'
<1>. SUFFICES ASSUME IInv, [Next]_vars PROVE IInv'
  OBVIOUS
<1>1. Base' /\ DOMAIN tree \subseteq DOMAIN tree' /\ lsdb' = lsdb
  <2>1. CASE calc
    BY <2>1, CalcBase DEF IInv
  <2>2. CASE noRouterLsa \/ noNetworkLsa \/ UNCHANGED vars
    <3>1. UNCHANGED <<lsdb, tree, clist, newNode>>
          /\ fault' \in {"null_router_lsa", "null_network_lsa", fault}
      BY <2>2 DEF noRouterLsa, noNetworkLsa, vars
    <3>. QED
      BY <3>1 DEF IInv, Base, Faults
  <2>. QED
    BY <2>1, <2>2 DEF Next
<1>2. CASE Strayed
  <2>1. Routers' = Routers
    BY <1>1 DEF Routers
  <2>2. Strayed'
    BY <1>1, <1>2, <2>1 DEF Strayed, Stray
  <2>. QED
    BY <1>1, <2>2 DEF IInv
<1>3. CASE ~Strayed
  <2>1. PlainInv'
    BY <1>3, PlainNext DEF IInv
  <2>. QED
    BY <1>1, <2>1 DEF IInv
<1>. QED
  BY <1>2, <1>3

\* The invariant of calc, of which the other theorems are consequences.
THEOREM InvCorrect == Spec => []IInv
  BY InitIInv, NextIInv, PTL DEF Spec

\* The invariant of the types, for links of any type.
THEOREM TypeCorrect == Spec => []TypeOK
<1>1. IInv => TypeOK
  <2>. SUFFICES ASSUME IInv PROVE TypeOK
    OBVIOUS
  <2>1. ASSUME NEW m \in {tree, clist}, NEW v \in DOMAIN m
        PROVE  \/ m[v] = Zero
               \/ m[v].id = v /\ m[v].type \in {1} \cup Types /\ m[v].cost \in Nat
    <3>1. Good(m)
      BY <2>1 DEF IInv, Base
    <3>2. m[v] \in AnyVertex /\ (m[v] = Zero \/ m[v].id = v)
      BY <3>1, GoodIs DEF Good
    <3>. QED
      BY <3>2 DEF AnyVertex
  <2>2. Strayed \/ \A v \in DOMAIN clist : clist[v] # Zero => v \in Routers
    BY DEF IInv, PlainInv, Typed
  <2>. QED
    BY <2>1, <2>2 DEF IInv, Base, TypeOK
<1>. QED
  BY <1>1, InvCorrect, PTL

\* No vertex below the root's neighbours enters the tree, but at no cost or by way of
\* a stray link: the zeros that getNextHop inserts are chosen first
\* (RoutingTable.cpp:127, 100).
THEOREM NeighboursOnlyCorrect == Spec => []NeighboursOnly
<1>1. IInv => NeighboursOnly
  BY DEF IInv, PlainInv, BelowRoot, NeighboursOnly
<1>. QED
  BY <1>1, InvCorrect, PTL

\* Whatever calc puts into the tree is at its shortest distance, for every database,
\* unless the root's pid is the id of a router (RoutingTable.cpp:25) or a link whose
\* type is none of 1, 2 and 3 has come within reach (RoutingTable.cpp:54).
THEOREM ShortestSoFarCorrect == Spec => []ShortestSoFar
<1>1. IInv => ShortestSoFar
  <2>. SUFFICES ASSUME PlainInv, ~Garbled
                PROVE  \A v \in InTree : v \in DOMAIN Distance /\ tree[v].cost = Distance[v]
    BY DEF ShortestSoFar, IInv
  <2>1. IsDistance(Distance)
    BY Distances DEF PlainInv, Typed
  <2>2. Near(Distance)
    BY <2>1 DEF PlainInv, ByDistance
  <2>. QED
    BY <2>2 DEF Near
<1>. QED
  BY <1>1, InvCorrect, PTL

\* With the same two exceptions, calc crashes only without the root's own LSA, or where
\* a shortest path may lead over another router (RoutingTable.cpp:70, 74): for every
\* database, whatever the types of its links.
THEOREM CrashMeansIndirectCorrect == Spec => []CrashMeansIndirect
<1>1. IInv => CrashMeansIndirect
  <2>. SUFFICES ASSUME PlainInv, fault = "null_network_lsa", tree[newNode].type # 1, ~Garbled
                PROVE  \E v \in Reachable : MayBeIndirect(v)
    BY DEF CrashMeansIndirect, IInv, PlainInv, Ended
  <2>1. IsDistance(Distance)
    BY Distances DEF PlainInv, Typed
  <2>2. Bypass(Distance)
    BY <2>1 DEF PlainInv, ByDistance, Indirect
  <2>3. PICK v \in DOMAIN Distance \ {Root} :
          \E u \in DOMAIN Distance \ {Root} : \E m \in Costs(u, v) : Distance[u] + m = Distance[v]
    BY <2>2 DEF Bypass
  <2>4. MayBeIndirect(v)
    BY <2>3 DEF MayBeIndirect
  <2>. QED
    BY <2>3, <2>4 DEF Reachable
<1>. QED
  BY <1>1, InvCorrect, PTL

=============================================================================
