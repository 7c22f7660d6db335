-------------------------- MODULE TagSearchProofs --------------------------
(***************************************************************************)
(* The walks over the tag graph, for every graph: that each ends, and that *)
(* it finds what it is to find.                                            *)
(***************************************************************************)
EXTENDS MCMemory, MemoryStoreProofs, WellFoundedInduction, SequenceTheorems

-----------------------------------------------------------------------------
(* Induction: a set of numbers has a least one, and a loop that goes from  *)
(* state to state has all its states.                                      *)
LEMMA LeastNat ==
    ASSUME NEW T, T \subseteq Nat, T # {}
    PROVE  \E n \in T : \A m \in T : n <= m
<1> DEFINE R == OpToRel(<, Nat)
<1>1. IsWellFoundedOn(R, Nat)
  BY NatLessThanWellFounded
<1>2. \A a, b \in Nat : a < b => <<a, b>> \in R
  BY DEF OpToRel
<1> HIDE DEF R
<1>3. PICK n \in T : \A m \in T : ~(<<m, n>> \in R)
  BY <1>1, WFMin
<1>4. \A m \in T : n \in Nat /\ m \in Nat /\ ~(m < n)
  BY <1>2, <1>3
<1>5. \A m \in T : n <= m
  BY <1>4
<1> QED BY <1>5

\* A set of numbers that has 0 and, with a number, the next one, has all.
LEMMA AllNat ==
    ASSUME NEW T, 0 \in T, \A k \in Nat : k \in T => k + 1 \in T
    PROVE  Nat \subseteq T
<1> DEFINE X == Nat \ T
<1>1. SUFFICES ASSUME X # {} PROVE FALSE
  OBVIOUS
<1>2. PICK n \in X : \A m \in X : n <= m
  <2> HIDE DEF X
  <2>1. X \subseteq Nat
    BY DEF X
  <2> QED BY <1>1, <2>1, LeastNat
<1>3. n \in Nat /\ n # 0 /\ n \notin T
  BY <1>2
<1>4. n - 1 \in Nat /\ n - 1 < n /\ (n - 1) + 1 = n
  BY <1>3
<1>5. n - 1 \in T
  BY <1>2, <1>4
<1> QED BY <1>3, <1>4, <1>5

(* The first rounds of a loop.                                             *)
First(g, n, round, start) ==
    /\ DOMAIN g = 0 .. n
    /\ g[0] = start
    /\ \A k \in 1 .. n : g[k] = round[g[k - 1]]

\* A loop has its first rounds, however many.
LEMMA FirstExists ==
    ASSUME NEW round, NEW start
    PROVE  \A n \in Nat : \E g : First(g, n, round, start)
<1> DEFINE T == {n \in Nat : \E g : First(g, n, round, start)}
<1>1. 0 \in T
  <2> DEFINE g == [k \in 0 .. 0 |-> start]
  <2>1. First(g, 0, round, start)
    BY DEF First
  <2> QED BY <2>1
<1>2. ASSUME NEW n \in Nat, n \in T PROVE n + 1 \in T
  <2>1. PICK g : First(g, n, round, start)
    BY <1>2
  <2> DEFINE h == [k \in 0 .. n + 1 |-> IF k = n + 1 THEN round[g[n]] ELSE g[k]]
  <2>2. DOMAIN h = 0 .. n + 1 /\ h[0] = start
    BY <2>1 DEF First
  <2>3. ASSUME NEW k \in 1 .. n + 1 PROVE h[k] = round[h[k - 1]]
    <3>1. CASE k = n + 1
      BY <3>1
    <3>2. CASE k # n + 1
      <4>1. k \in 1 .. n /\ k \in 0 .. n + 1 /\ k - 1 \in 0 .. n + 1 /\ k - 1 # n + 1
        BY <3>2
      <4>2. h[k] = g[k] /\ h[k - 1] = g[k - 1]
        BY <3>2, <4>1
      <4>3. g[k] = round[g[k - 1]]
        BY <2>1, <4>1 DEF First
      <4> QED BY <4>2, <4>3
    <3> QED BY <3>1, <3>2
  <2>4. First(h, n + 1, round, start)
    BY <2>2, <2>3 DEF First
  <2> QED BY <2>4
<1>3. Nat \subseteq T
  <2> HIDE DEF T
  <2> QED BY <1>1, <1>2, AllNat
<1> QED BY <1>3

\* And only one way to go through them.
LEMMA FirstUnique ==
    ASSUME NEW round, NEW start, NEW n \in Nat, NEW m \in Nat, n <= m,
           NEW g, NEW h, First(g, n, round, start), First(h, m, round, start)
    PROVE  \A k \in 0 .. n : g[k] = h[k]
<1> DEFINE T == {k \in Nat : k <= n => g[k] = h[k]}
<1>1. 0 \in T
  BY DEF First
<1>2. ASSUME NEW k \in Nat, k \in T PROVE k + 1 \in T
  <2>1. SUFFICES ASSUME k + 1 <= n PROVE g[k + 1] = h[k + 1]
    OBVIOUS
  <2>2. k + 1 \in 1 .. n /\ k + 1 \in 1 .. m /\ (k + 1) - 1 = k /\ k <= n
    BY <2>1
  <2>3. g[k + 1] = round[g[k]] /\ h[k + 1] = round[h[k]]
    BY <2>2 DEF First
  <2> QED BY <1>2, <2>2, <2>3
<1>3. Nat \subseteq T
  <2> HIDE DEF T
  <2> QED BY <1>1, <1>2, AllNat
<1> QED BY <1>3

\* The states of a loop are what the recursive definition says.
LEMMA RoundsAre ==
    ASSUME NEW round, NEW start
    PROVE  /\ Rounds(round, start)[0] = start
           /\ \A k \in Nat : Rounds(round, start)[k + 1] = round[Rounds(round, start)[k]]
<1> DEFINE G(k) == CHOOSE g : First(g, k, round, start)
           F == [k \in Nat |-> G(k)[k]]
           run == Rounds(round, start)
<1>1. \A k \in Nat : First(G(k), k, round, start)
  BY FirstExists
<1>2. F[0] = start
  BY <1>1 DEF First
<1>3. ASSUME NEW k \in Nat, k # 0 PROVE F[k] = round[F[k - 1]]
  <2>1. k - 1 \in Nat /\ k - 1 <= k /\ k \in 1 .. k /\ k - 1 \in 0 .. k - 1
    BY <1>3
  <2>2. G(k)[k] = round[G(k)[k - 1]]
    BY <1>1, <2>1 DEF First
  <2>3. First(G(k), k, round, start) /\ First(G(k - 1), k - 1, round, start)
    BY <1>1, <2>1
  <2> HIDE DEF G
  <2>4. G(k - 1)[k - 1] = G(k)[k - 1]
    BY <2>1, <2>3, FirstUnique
  <2> QED BY <2>1, <2>2, <2>4
<1>4. F = [k \in Nat |-> IF k = 0 THEN start ELSE round[F[k - 1]]]
  <2> HIDE DEF F
  <2>1. F = [k \in Nat |-> F[k]]
    BY DEF F
  <2> QED BY <1>2, <1>3, <2>1
<1>5. run = [k \in Nat |-> IF k = 0 THEN start ELSE round[run[k - 1]]]
  <2> HIDE DEF F
  <2> QED BY <1>4 DEF Rounds
<1> HIDE DEF run
<1>6. run[0] = start /\ \A k \in Nat : run[k + 1] = round[run[k]]
  BY <1>5
<1> QED BY <1>6 DEF run

\* What a round keeps holds in every state of the loop.
LEMMA RoundsKeep ==
    ASSUME NEW round, NEW start, NEW I, start \in I, \A r \in I : round[r] \in I
    PROVE  \A k \in Nat : Rounds(round, start)[k] \in I
<1> DEFINE T == {k \in Nat : Rounds(round, start)[k] \in I}
<1>1. 0 \in T
  BY RoundsAre
<1>2. ASSUME NEW k \in Nat, k \in T PROVE k + 1 \in T
  BY <1>2, RoundsAre
<1>3. Nat \subseteq T
  <2> HIDE DEF T
  <2> QED BY <1>1, <1>2, AllNat
<1> QED BY <1>3

\* Arithmetic, out of the way of the rest.
LEMMA OneMore == \A a, b \in Nat : a <= b /\ a # b => a + 1 <= b
OBVIOUS

(* The loop of a walk over N: what a round keeps, how far the loop has     *)
(* come with a node, of K, and the states in which it has ended.           *)
Loop(N, K, round, start, I, p, D) ==
    /\ IsFiniteSet(N) /\ K \in Nat
    /\ start \in I /\ \A r \in I : round[r] \in I
    /\ p \in [I -> [N -> 0 .. K]]
    /\ D \subseteq I /\ \A r \in D : round[r] \in D
    /\ \A r \in I \ D : /\ \A n \in N : p[r][n] <= p[round[r]][n]
                        /\ \E n \in N : p[r][n] < p[round[r]][n]

\* A loop each of whose rounds gets further with a node, and goes back with none, is at
\* its end once every node can have come as far as it can.
LEMMA RoundsEnd ==
    ASSUME NEW N, NEW K, NEW round, NEW start, NEW I, NEW p, NEW D,
           Loop(N, K, round, start, I, p, D)
    PROVE  Rounds(round, start)[Cardinality(N) * K] \in D
<1> USE DEF Loop
<1> DEFINE Area(r) == {e \in N \X (1 .. K) : e[2] <= p[r][e[1]]}
           size(r) == Cardinality(Area(r))
           at(k) == Rounds(round, start)[k]
           B == Cardinality(N) * K
<1>1. IsFiniteSet(N \X (1 .. K)) /\ Cardinality(N \X (1 .. K)) = B /\ B \in Nat
  <2>1. IsFiniteSet(1 .. K) /\ Cardinality(1 .. K) = K
    BY FS_Interval
  <2>2. Cardinality(N) \in Nat
    BY FS_CardinalityType
  <2>3. B \in Nat
    BY <2>2
  <2> QED BY <2>1, <2>3, FS_Product
<1>2. ASSUME NEW r \in I
      PROVE  /\ IsFiniteSet(Area(r)) /\ size(r) \in Nat /\ size(r) <= B
  <2>1. Area(r) \in SUBSET (N \X (1 .. K))
    OBVIOUS
  <2>2. IsFiniteSet(Area(r))
    BY <1>1, <2>1, FS_Subset
  <2>3. size(r) <= Cardinality(N \X (1 .. K))
    BY <1>1, <2>1, FS_Subset
  <2>4. size(r) \in Nat
    BY <2>2, FS_CardinalityType
  <2> QED BY <1>1, <2>2, <2>3, <2>4
<1>3. ASSUME NEW r \in I \ D PROVE size(r) + 1 <= size(round[r])
  <2> DEFINE q == round[r]
  <2>1. r \in I /\ q \in I /\ p[r] \in [N -> 0 .. K] /\ p[q] \in [N -> 0 .. K]
    OBVIOUS
  <2>2. PICK n \in N : p[r][n] < p[q][n]
    OBVIOUS
  <2>3. \A m \in N : p[r][m] <= p[q][m]
    OBVIOUS
  <2> DEFINE e == <<n, p[r][n] + 1>>
  <2>4. p[r][n] \in 0 .. K /\ p[q][n] \in 0 .. K
    BY <2>1
  <2>5. p[r][n] + 1 \in 1 .. K /\ p[r][n] + 1 <= p[q][n] /\ ~(p[r][n] + 1 <= p[r][n])
    BY <2>2, <2>4
  <2> HIDE DEF q
  <2>6. e \in Area(q) /\ e \notin Area(r)
    BY <2>5
  <2>7. Area(r) \subseteq Area(q)
    <3>1. SUFFICES ASSUME NEW n1 \in N, NEW i \in 1 .. K, i <= p[r][n1] PROVE i <= p[q][n1]
      OBVIOUS
    <3>2. p[r][n1] \in 0 .. K /\ p[q][n1] \in 0 .. K /\ p[r][n1] <= p[q][n1]
      BY <2>1, <2>3
    <3> QED BY <3>1, <3>2
  <2>8. size(r) <= size(q) /\ size(r) # size(q)
    <3> HIDE DEF e, Area
    <3>1. IsFiniteSet(Area(q)) /\ Area(r) \in SUBSET Area(q)
      BY <1>2, <2>1, <2>7
    <3> QED BY <2>6, <3>1, FS_Subset
  <2>9. size(r) \in Nat /\ size(q) \in Nat
    BY <1>2, <2>1
  <2>10. size(r) + 1 <= size(q)
    <3> HIDE DEF size
    <3> QED BY ONLY <2>8, <2>9, OneMore
  <2> QED BY <2>10 DEF q
<1> HIDE DEF Area, size, B
<1>4. \A k \in Nat : at(k) \in I /\ at(k + 1) = round[at(k)]
  BY RoundsKeep, RoundsAre
<1>5. at(0) = start
  BY RoundsAre
<1> HIDE DEF at
<1> DEFINE T == {k \in Nat : at(k) \in D \/ k <= size(at(k))}
<1>6. 0 \in T
  <2>1. size(at(0)) \in Nat
    BY <1>2, <1>5
  <2> QED BY <2>1
<1>7. ASSUME NEW k \in Nat, k \in T PROVE k + 1 \in T
  <2>1. CASE at(k) \in D
    BY <1>4, <2>1, SMTT(30)
  <2>2. CASE at(k) \notin D
    <3>1. k <= size(at(k)) /\ at(k) \in I \ D /\ at(k + 1) \in I
      BY <1>4, <1>7, <2>2
    <3>2. size(at(k)) + 1 <= size(at(k + 1))
      BY <1>3, <1>4, <3>1
    <3>3. size(at(k)) \in Nat /\ size(at(k + 1)) \in Nat
      BY <1>2, <3>1
    <3>4. k + 1 <= size(at(k + 1))
      BY <3>1, <3>2, <3>3
    <3> QED BY <3>4
  <2> QED BY <2>1, <2>2
<1>8. Nat \subseteq T
  <2> HIDE DEF T
  <2> QED BY <1>6, <1>7, AllNat
<1>9. B \in T
  BY <1>1, <1>8
<1>10. at(B) \in D
  <2>1. SUFFICES ASSUME at(B) \notin D PROVE FALSE
    OBVIOUS
  <2>2. B <= size(at(B)) /\ at(B) \in I \ D /\ at(B + 1) \in I /\ at(B + 1) = round[at(B)]
    BY <1>1, <1>4, <1>9, <2>1
  <2>3. size(at(B)) + 1 <= size(at(B + 1)) /\ size(at(B + 1)) <= B
    BY <1>2, <1>3, <2>2
  <2>4. size(at(B)) \in Nat /\ size(at(B + 1)) \in Nat
    BY <1>2, <2>2
  <2> QED BY <1>1, <2>2, <2>3, <2>4
<1> QED BY <1>10 DEF at, B

-----------------------------------------------------------------------------
(* The rows that the queries return for each node, and a graph: no two     *)
(* rows of a node are the same.                                            *)
IsRows(G) ==
    /\ DOMAIN G \subseteq Nat
    /\ IsFiniteSet(DOMAIN G)
    /\ G \in [DOMAIN G -> Seq(DOMAIN G)]

IsGraph(G) ==
    /\ IsRows(G)
    /\ \A n \in DOMAIN G : \A i, j \in 1 .. Len(G[n]) : G[n][i] = G[n][j] => i = j

\* The rows of a node: they are nodes.
LEMMA RowsAre ==
    ASSUME NEW G, IsRows(G), NEW n \in DOMAIN G
    PROVE  /\ Len(G[n]) \in Nat
           /\ Cardinality(DOMAIN G) \in Nat
           /\ \A i \in 1 .. Len(G[n]) : G[n][i] \in DOMAIN G
           /\ DOMAIN G[n] = 1 .. Len(G[n])
<1> DEFINE N == DOMAIN G
           L == Len(G[n])
<1>1. G[n] \in Seq(N) /\ IsFiniteSet(N)
  BY DEF IsRows
<1>2. L \in Nat /\ G[n] \in [1 .. L -> N] /\ DOMAIN G[n] = 1 .. L
  BY <1>1, LenProperties
<1>3. Cardinality(N) \in Nat
  BY <1>1, FS_CardinalityType
<1> QED BY <1>2, <1>3

\* In a graph there are no more of them than nodes.
LEMMA GraphRows ==
    ASSUME NEW G, IsGraph(G), NEW n \in DOMAIN G
    PROVE  /\ Len(G[n]) \in Nat /\ Len(G[n]) <= Cardinality(DOMAIN G)
           /\ \A i \in 1 .. Len(G[n]) : G[n][i] \in DOMAIN G
<1> DEFINE N == DOMAIN G
           L == Len(G[n])
<1>1. G[n] \in Seq(N) /\ IsFiniteSet(N)
  BY DEF IsGraph, IsRows
<1>2. L \in Nat /\ G[n] \in [1 .. L -> N]
  BY <1>1, LenProperties
<1>3. G[n] \in Injection(1 .. L, N)
  <2>1. \A i, j \in 1 .. L : G[n][i] = G[n][j] => i = j
    BY DEF IsGraph
  <2> QED BY <1>2, <2>1 DEF Injection, IsInjective
<1>4. Cardinality(1 .. L) <= Cardinality(N)
  BY <1>1, <1>3, FS_Injection
<1>5. Cardinality(1 .. L) = L
  <2> HIDE DEF L
  <2>1. 1 \in Int /\ L \in Int
    BY <1>2
  <2>2. Cardinality(1 .. L) = IF 1 > L THEN 0 ELSE L - 1 + 1
    BY <2>1, FS_Interval, SMTT(30)
  <2> QED BY <1>2, <2>2
<1>6. \A i \in 1 .. L : G[n][i] \in N
  BY <1>2
<1> QED BY <1>2, <1>4, <1>5, <1>6

\* An edge is a row of its node.
LEMMA EdgesAre ==
    ASSUME NEW G, IsRows(G)
    PROVE  /\ Edges(G) \subseteq (DOMAIN G) \X (DOMAIN G)
           /\ \A a, b \in DOMAIN G :
                 <<a, b>> \in Edges(G) <=> \E i \in 1 .. Len(G[a]) : G[a][i] = b
<1>1. \A a \in DOMAIN G : DOMAIN G[a] = 1 .. Len(G[a])
  BY RowsAre
<1> QED BY <1>1 DEF Edges, ToSet

\* So it is in a graph.
LEMMA GraphEdges ==
    ASSUME NEW G, IsGraph(G)
    PROVE  /\ Edges(G) \subseteq (DOMAIN G) \X (DOMAIN G)
           /\ \A a, b \in DOMAIN G :
                 <<a, b>> \in Edges(G) <=> \E i \in 1 .. Len(G[a]) : G[a][i] = b
<1>1. IsRows(G)
  BY DEF IsGraph
<1> QED BY <1>1, EdgesAre

(* What can be reached.                                                    *)
LEMMA ReachFacts ==
    ASSUME NEW N, NEW E \in SUBSET (N \X N)
    PROVE  /\ \A n \in N : n \in Reach(E, N, n) /\ Reach(E, N, n) \subseteq N
           /\ \A n, m \in N, k \in N :
                 m \in Reach(E, N, n) /\ <<m, k>> \in E => k \in Reach(E, N, n)
           /\ \A n, m, k \in N :
                 m \in Reach(E, N, n) /\ k \in Reach(E, N, m) => k \in Reach(E, N, n)
<1>1. \A n \in N : n \in Reach(E, N, n) /\ Reach(E, N, n) \subseteq N
  BY DEF Reach
<1>2. ASSUME NEW n \in N, NEW m \in N, NEW k \in N, m \in Reach(E, N, n), <<m, k>> \in E
      PROVE  k \in Reach(E, N, n)
  <2>1. SUFFICES ASSUME NEW S \in SUBSET N, n \in S, \A e \in E : e[1] \in S => e[2] \in S
                 PROVE  k \in S
    BY DEF Reach
  <2>2. m \in S
    BY <1>2, <2>1 DEF Reach
  <2> QED BY <1>2, <2>1, <2>2
<1>3. ASSUME NEW n \in N, NEW m \in N, NEW k \in N,
             m \in Reach(E, N, n), k \in Reach(E, N, m)
      PROVE  k \in Reach(E, N, n)
  BY <1>3 DEF Reach
<1> QED BY <1>1, <1>2, <1>3

\* What is closed under the edges has all that can be reached.
LEMMA ReachLeast ==
    ASSUME NEW N, NEW E \in SUBSET (N \X N), NEW n \in N, NEW S \in SUBSET N, n \in S,
           \A a, b \in N : a \in S /\ <<a, b>> \in E => b \in S
    PROVE  Reach(E, N, n) \subseteq S
<1>1. \A e \in E : e[1] \in S => e[2] \in S
  <2>1. TAKE e \in E
  <2>2. e = <<e[1], e[2]>> /\ e[1] \in N /\ e[2] \in N
    OBVIOUS
  <2> QED BY <2>2
<1> QED BY <1>1 DEF Reach

\* A stack: what is pushed and what is popped.
LEMMA StackFacts ==
    ASSUME NEW N, NEW s \in Seq(N)
    PROVE  /\ Len(s) \in Nat /\ DOMAIN s = 1 .. Len(s)
           /\ \A i \in 1 .. Len(s) : s[i] \in N
           /\ ToSet(s) = {s[i] : i \in 1 .. Len(s)}
           /\ s = <<>> <=> Len(s) = 0
           /\ \A n \in N : /\ Append(s, n) \in Seq(N)
                           /\ Len(Append(s, n)) = Len(s) + 1
                           /\ \A i \in 1 .. Len(s) : Append(s, n)[i] = s[i]
                           /\ Append(s, n)[Len(s) + 1] = n
           /\ s # <<>> => /\ Last(s) = s[Len(s)]
                          /\ Front(s) \in Seq(N)
                          /\ Len(Front(s)) = Len(s) - 1
                          /\ \A i \in 1 .. Len(s) - 1 : Front(s)[i] = s[i]
<1>1. Len(s) \in Nat /\ s \in [1 .. Len(s) -> N] /\ DOMAIN s = 1 .. Len(s)
  BY LenProperties
<1>2. s = <<>> <=> Len(s) = 0
  BY EmptySeq
<1>3. ASSUME NEW n \in N
      PROVE  /\ Append(s, n) \in Seq(N)
             /\ Len(Append(s, n)) = Len(s) + 1
             /\ \A i \in 1 .. Len(s) : Append(s, n)[i] = s[i]
             /\ Append(s, n)[Len(s) + 1] = n
  BY AppendProperties
<1>4. ASSUME s # <<>>
      PROVE  /\ Last(s) = s[Len(s)]
             /\ Front(s) \in Seq(N)
             /\ Len(Front(s)) = Len(s) - 1
             /\ \A i \in 1 .. Len(s) - 1 : Front(s)[i] = s[i]
  <2> DEFINE k == Len(s) - 1
  <2>1. 1 \in Int /\ k \in Nat
    BY <1>1, <1>2, <1>4
  <2>2. \A i \in 1 .. k : s[i] \in N
    BY <1>1
  <2>3. /\ SubSeq(s, 1, k) \in Seq(N)
        /\ Len(SubSeq(s, 1, k)) = IF 1 <= k THEN k - 1 + 1 ELSE 0
        /\ \A i \in 1 .. k - 1 + 1 : SubSeq(s, 1, k)[i] = s[1 + i - 1]
    BY <2>1, <2>2, SubSeqProperties
  <2>4. Front(s) = SubSeq(s, 1, k) /\ Last(s) = s[Len(s)]
    BY DEF Front, Last
  <2> HIDE DEF k
  <2>5. k - 1 + 1 = k /\ (~(1 <= k) => k = 0) /\ \A i \in 1 .. k : 1 + i - 1 = i
    BY <2>1
  <2>6. /\ Front(s) \in Seq(N) /\ Len(Front(s)) = k
        /\ \A i \in 1 .. k : Front(s)[i] = s[i]
    BY <2>3, <2>4, <2>5
  <2> QED BY <2>4, <2>6 DEF k
<1>5. ToSet(s) = {s[i] : i \in 1 .. Len(s)}
  BY <1>1 DEF ToSet
<1> QED BY <1>1, <1>2, <1>3, <1>4, <1>5

-----------------------------------------------------------------------------
(* A walk with a stack, or a queue, of nodes still to come to: the nodes   *)
(* visited can be reached, and all rows of a node were read that does not  *)
(* wait and is not the one at hand.                                        *)
On(s, n) == \E i \in 1 .. Len(s) : s[i] = n

Below(G, root, at, stack, seen, visited) ==
    /\ root \in visited /\ at \in visited
    /\ visited \subseteq Reach(Edges(G), DOMAIN G, root)
    /\ \A i \in 1 .. Len(stack) : stack[i] \in visited /\ stack[i] # at
    /\ \A i, j \in 1 .. Len(stack) : stack[i] = stack[j] => i = j
    /\ \A n \in DOMAIN G :
          /\ seen[n] <= Len(G[n])
          /\ n \notin visited \/ On(stack, n) => seen[n] = 0
          /\ n \in visited /\ n # at /\ ~On(stack, n) => seen[n] = Len(G[n])
          /\ \A i \in 1 .. seen[n] : G[n][i] \in visited

(* How far the walk has come with each node, and that it gets further.     *)
Come(N, at, stack, seen, visited) ==
    [n \in N |-> IF n \notin visited \/ On(stack, n) THEN 0
                 ELSE IF n = at THEN seen[n] ELSE seen[n] + 1]

Ahead(N, f, g) == (\A n \in N : f[n] <= g[n]) /\ (\E n \in N : f[n] < g[n])

(* What holds once the next row is read.                                   *)
BelowAfter(G, root, at, stack, seen, visited) ==
    LET m      == G[at][seen[at] + 1]
        stack2 == IF m \in visited THEN stack ELSE Append(stack, m)
        seen2  == [seen EXCEPT ![at] = @ + 1]
        old    == Come(DOMAIN G, at, stack, seen, visited)
        new    == Come(DOMAIN G, at, stack2, seen2, visited \cup {m})
    IN  /\ m \in DOMAIN G /\ <<at, m>> \in Edges(G)
        /\ stack2 \in Seq(DOMAIN G) /\ seen2 \in [DOMAIN G -> Nat]
        /\ visited \cup {m} \in SUBSET DOMAIN G
        /\ Below(G, root, at, stack2, seen2, visited \cup {m})
        /\ Ahead(DOMAIN G, old, new)

(* One of the nodes that wait is taken.                                    *)
Taken(stack, t, s) ==
    \E k \in 1 .. Len(stack) :
       /\ t = stack[k] /\ Len(s) = Len(stack) - 1
       /\ \A i \in 1 .. Len(stack) - 1 : s[i] = stack[IF i < k THEN i ELSE i + 1]

BelowTaken(G, root, at, stack, seen, visited, t, s) ==
    /\ t \in visited /\ Below(G, root, t, s, seen, visited)
    /\ Ahead(DOMAIN G, Come(DOMAIN G, at, stack, seen, visited),
                       Come(DOMAIN G, t, s, seen, visited))

\* A row is read.
LEMMA BelowRead ==
    ASSUME NEW G, IsRows(G), NEW root \in DOMAIN G, NEW at \in DOMAIN G,
           NEW stack \in Seq(DOMAIN G), NEW seen \in [DOMAIN G -> Nat],
           NEW visited \in SUBSET DOMAIN G,
           Below(G, root, at, stack, seen, visited), seen[at] < Len(G[at])
    PROVE  BelowAfter(G, root, at, stack, seen, visited)
<1> SUFFICES ASSUME NEW m, m = G[at][seen[at] + 1],
                    NEW stack2, stack2 = IF m \in visited THEN stack ELSE Append(stack, m),
                    NEW seen2, seen2 = [seen EXCEPT ![at] = @ + 1]
             PROVE  /\ m \in DOMAIN G /\ <<at, m>> \in Edges(G)
                    /\ stack2 \in Seq(DOMAIN G) /\ seen2 \in [DOMAIN G -> Nat]
                    /\ visited \cup {m} \in SUBSET DOMAIN G
                    /\ Below(G, root, at, stack2, seen2, visited \cup {m})
                    /\ Ahead(DOMAIN G, Come(DOMAIN G, at, stack, seen, visited),
                                       Come(DOMAIN G, at, stack2, seen2, visited \cup {m}))
  BY DEF BelowAfter
<1> DEFINE N == DOMAIN G
           E == Edges(G)
<1>1. /\ \A n \in N : Len(G[n]) \in Nat
      /\ seen[at] \in Nat /\ seen[at] + 1 \in 1 .. Len(G[at])
      /\ m \in N
  <2>1. \A n \in N : Len(G[n]) \in Nat /\ \A i \in 1 .. Len(G[n]) : G[n][i] \in N
    BY RowsAre
  <2>2. seen[at] \in Nat /\ Len(G[at]) \in Nat
    BY <2>1
  <2>3. seen[at] + 1 \in 1 .. Len(G[at])
    BY <2>2
  <2> QED BY <2>1, <2>2, <2>3
<1>2. m \in Reach(E, N, root) /\ <<at, m>> \in E
  <2>1. <<at, m>> \in E
    BY <1>1, EdgesAre
  <2>2. at \in Reach(E, N, root) /\ E \in SUBSET (N \X N)
    BY EdgesAre DEF Below
  <2> QED BY <1>1, <2>1, <2>2, ReachFacts
<1>3. /\ Len(stack) \in Nat
      /\ Append(stack, m) \in Seq(N)
      /\ Len(Append(stack, m)) = Len(stack) + 1
      /\ \A i \in 1 .. Len(stack) : Append(stack, m)[i] = stack[i]
      /\ Append(stack, m)[Len(stack) + 1] = m
  BY <1>1, StackFacts
<1>4. ASSUME m \notin visited
      PROVE  /\ stack2 = Append(stack, m) /\ Len(stack2) = Len(stack) + 1
             /\ \A i \in 1 .. Len(stack2) : stack2[i] = IF i = Len(stack) + 1 THEN m ELSE stack[i]
  BY <1>3, <1>4
<1>5. m \notin visited => \A n \in N : On(stack2, n) <=> On(stack, n) \/ n = m
  <2>1. SUFFICES ASSUME m \notin visited, NEW n \in N
                 PROVE  On(stack2, n) <=> On(stack, n) \/ n = m
    OBVIOUS
  <2>2. ASSUME On(stack2, n) PROVE On(stack, n) \/ n = m
    BY <1>3, <1>4, <2>1, <2>2 DEF On
  <2>3. ASSUME On(stack, n) PROVE On(stack2, n)
    BY <1>3, <1>4, <2>1, <2>3 DEF On
  <2>4. On(stack2, m)
    <3>1. Len(stack) + 1 \in 1 .. Len(stack2)
      BY <1>3, <1>4, <2>1
    <3> QED BY <1>4, <2>1, <3>1 DEF On
  <2> QED BY <2>2, <2>3, <2>4
<1>6. stack2 \in Seq(N) /\ seen2 \in [N -> Nat] /\ visited \cup {m} \in SUBSET N
  <2>1. seen2 \in [N -> Nat]
    BY <1>1
  <2>2. stack2 \in Seq(N)
    BY <1>3
  <2> QED BY <1>1, <2>1, <2>2
<1>7. \A i \in 1 .. Len(stack2) : stack2[i] \in visited \cup {m} /\ stack2[i] # at
  <2>1. m \notin visited => m # at
    BY DEF Below
  <2>2. CASE m \in visited
    BY <2>2 DEF Below
  <2>3. CASE m \notin visited
    <3>1. TAKE i \in 1 .. Len(stack2)
    <3>2. i = Len(stack) + 1 \/ i \in 1 .. Len(stack)
      BY <1>3, <1>4, <2>3
    <3> QED BY <1>4, <2>1, <2>3, <3>2 DEF Below
  <2> QED BY <2>2, <2>3
<1>8. \A i, j \in 1 .. Len(stack2) : stack2[i] = stack2[j] => i = j
  <2>1. CASE m \in visited
    BY <2>1 DEF Below
  <2>2. CASE m \notin visited
    <3>1. TAKE i, j \in 1 .. Len(stack2)
    <3>2. /\ i = Len(stack) + 1 \/ i \in 1 .. Len(stack)
          /\ j = Len(stack) + 1 \/ j \in 1 .. Len(stack)
      BY <1>3, <1>4, <2>2, SMTT(30)
    <3>3. \A k \in 1 .. Len(stack) : stack[k] # m /\ k # Len(stack) + 1
      BY <1>3, <2>2 DEF Below
    <3> QED BY <1>4, <2>2, <3>2, <3>3, SMTT(30) DEF Below
  <2> QED BY <2>1, <2>2
<1>9. ASSUME NEW n \in N
      PROVE  /\ seen[n] \in Nat /\ seen[n] <= Len(G[n])
             /\ n \notin visited \/ On(stack, n) => seen[n] = 0
             /\ n \in visited /\ n # at /\ ~On(stack, n) => seen[n] = Len(G[n])
             /\ \A i \in 1 .. seen[n] : G[n][i] \in visited
  BY DEF Below
<1>10. at \in visited /\ ~On(stack, at)
  BY DEF Below, On
<1>11. \A n \in N : On(stack2, n) <=> On(stack, n) \/ (n = m /\ m \notin visited)
  BY <1>5
<1>12. ~On(stack2, at)
  BY <1>10, <1>11
<1>13. seen2[at] = seen[at] + 1 /\ \A n \in N : n # at => seen2[n] = seen[n]
  OBVIOUS
<1>14. ASSUME NEW n \in N
       PROVE  /\ seen2[n] <= Len(G[n])
              /\ n \notin visited \cup {m} \/ On(stack2, n) => seen2[n] = 0
              /\ n \in visited \cup {m} /\ n # at /\ ~On(stack2, n) => seen2[n] = Len(G[n])
              /\ \A i \in 1 .. seen2[n] : G[n][i] \in visited \cup {m}
  <2>1. CASE n = at
    <3>1. \A i \in 1 .. seen2[at] : i \in 1 .. seen[at] \/ i = seen[at] + 1
      BY <1>1, <1>13
    <3>2. \A i \in 1 .. seen2[at] : G[at][i] \in visited \cup {m}
      BY <1>9, <3>1
    <3>3. seen2[at] <= Len(G[at])
      BY <1>1, <1>13
    <3> QED BY <1>10, <1>12, <2>1, <3>2, <3>3
  <2>2. CASE n # at
    <3>1. seen2[n] = seen[n]
      BY <1>13, <2>2
    <3>2. n \notin visited \cup {m} \/ On(stack2, n) => n \notin visited \/ On(stack, n)
      BY <1>11
    <3>3. n \in visited \cup {m} /\ ~On(stack2, n) => n \in visited /\ ~On(stack, n)
      BY <1>11
    <3> QED BY <1>9, <2>2, <3>1, <3>2, <3>3
  <2> QED BY <2>1, <2>2
<1>15. Below(G, root, at, stack2, seen2, visited \cup {m})
  <2>1. root \in visited /\ at \in visited /\ visited \subseteq Reach(E, N, root)
    BY DEF Below
  <2> QED BY <1>2, <1>7, <1>8, <1>14, <2>1 DEF Below
<1> DEFINE f == Come(N, at, stack, seen, visited)
           g == Come(N, at, stack2, seen2, visited \cup {m})
<1>16. ASSUME NEW n \in N
       PROVE  /\ f[n] = IF n \notin visited \/ On(stack, n) THEN 0
                        ELSE IF n = at THEN seen[n] ELSE seen[n] + 1
              /\ g[n] = IF n \notin visited \cup {m} \/ On(stack2, n) THEN 0
                        ELSE IF n = at THEN seen2[n] ELSE seen2[n] + 1
  BY DEF Come
<1> HIDE DEF f, g
<1>17. f[at] = seen[at] /\ g[at] = seen[at] + 1
  BY <1>10, <1>12, <1>13, <1>16
<1>18. ASSUME NEW n \in N, n # at PROVE f[n] = g[n]
  <2>1. seen2[n] = seen[n] /\ (n \notin visited \cup {m} \/ On(stack2, n) <=> n \notin visited \/ On(stack, n))
    BY <1>11, <1>13, <1>18
  <2> QED BY <1>16, <1>18, <2>1
<1>19. f[at] < g[at]
  BY <1>1, <1>17
<1>20. ASSUME NEW n \in N PROVE f[n] <= g[n]
  <2>1. CASE n = at
    BY <1>1, <1>17, <2>1
  <2>2. CASE n # at
    <3>1. f[n] \in Nat
      <4>1. seen[n] + 1 \in Nat /\ seen[n] \in Nat
        BY <1>9
      <4>2. f[n] = 0 \/ f[n] = seen[n] \/ f[n] = seen[n] + 1
        BY <1>16
      <4> QED BY <4>1, <4>2
    <3> QED BY <1>18, <2>2, <3>1
  <2> QED BY <2>1, <2>2
<1>21. Ahead(N, f, g)
  BY <1>19, <1>20 DEF Ahead
<1> QED BY <1>1, <1>2, <1>6, <1>15, <1>21 DEF f, g

\* The next node is taken off those that wait.
LEMMA BelowNext ==
    ASSUME NEW G, IsRows(G), NEW root \in DOMAIN G, NEW at \in DOMAIN G,
           NEW stack \in Seq(DOMAIN G), NEW seen \in [DOMAIN G -> Nat],
           NEW visited \in SUBSET DOMAIN G,
           Below(G, root, at, stack, seen, visited), seen[at] = Len(G[at]),
           NEW t, NEW s, Taken(stack, t, s)
    PROVE  BelowTaken(G, root, at, stack, seen, visited, t, s)
<1> DEFINE N == DOMAIN G
           L == Len(stack)
<1>1. PICK k \in 1 .. L : /\ t = stack[k] /\ Len(s) = L - 1
                          /\ \A i \in 1 .. L - 1 : s[i] = stack[IF i < k THEN i ELSE i + 1]
  BY DEF Taken
<1>2. L \in Nat /\ \A i \in 1 .. L : stack[i] \in N
  BY StackFacts
<1>3. \A i \in 1 .. L : stack[i] \in visited /\ stack[i] # at
  BY DEF Below
<1>4. \A i, j \in 1 .. L : stack[i] = stack[j] => i = j
  BY DEF Below
<1> DEFINE x(i) == IF i < k THEN i ELSE i + 1
<1> HIDE DEF L
<1>5. \A i \in 1 .. L - 1 : x(i) \in 1 .. L /\ x(i) # k
  BY <1>2
<1>6. \A i, j \in 1 .. L - 1 : x(i) = x(j) => i = j
  BY <1>2
<1>7. \A j \in 1 .. L : j # k => \E i \in 1 .. L - 1 : x(i) = j
  <2>1. TAKE j \in 1 .. L
  <2>2. CASE j < k
    <3>1. j \in 1 .. L - 1 /\ x(j) = j
      BY <1>2, <2>2
    <3> QED BY <3>1
  <2>3. CASE j > k
    <3>1. j - 1 \in 1 .. L - 1 /\ x(j - 1) = j
      BY <1>2, <2>3
    <3> QED BY <3>1
  <2>4. j < k \/ j = k \/ j > k
    BY <1>2
  <2> QED BY <2>2, <2>3, <2>4
<1>8. \A i \in 1 .. L - 1 : s[i] = stack[x(i)]
  BY <1>1
<1> HIDE DEF x
<1>9. \A n : On(stack, n) <=> On(s, n) \/ n = t
  <2>1. TAKE n
  <2>2. On(s, n) => On(stack, n)
    BY <1>1, <1>5, <1>8 DEF On, L
  <2>3. On(stack, t)
    BY <1>1 DEF On, L
  <2>4. ASSUME On(stack, n), n # t PROVE On(s, n)
    <3>1. PICK j \in 1 .. L : stack[j] = n
      BY <2>4 DEF On, L
    <3>2. PICK i \in 1 .. L - 1 : x(i) = j
      BY <1>1, <1>7, <2>4, <3>1
    <3>3. s[i] = n
      BY <1>8, <3>1, <3>2
    <3> QED BY <1>1, <3>3 DEF On
  <2> QED BY <2>2, <2>3, <2>4
<1>10. ~On(s, t) /\ ~On(stack, at) /\ t # at /\ t \in visited /\ at \in visited
  <2>1. ~On(s, t)
    BY <1>1, <1>4, <1>5, <1>8 DEF On
  <2>2. ~On(stack, at)
    BY <1>3 DEF On, L
  <2> QED BY <1>1, <1>3, <2>1, <2>2 DEF Below
<1>11. ASSUME NEW n \in N
       PROVE  /\ seen[n] \in Nat /\ seen[n] <= Len(G[n])
              /\ n \notin visited \/ On(stack, n) => seen[n] = 0
              /\ n \in visited /\ n # at /\ ~On(stack, n) => seen[n] = Len(G[n])
              /\ \A i \in 1 .. seen[n] : G[n][i] \in visited
  BY DEF Below
<1>12. Below(G, root, t, s, seen, visited)
  <2>1. \A i \in 1 .. Len(s) : s[i] \in visited /\ s[i] # t
    BY <1>1, <1>3, <1>4, <1>5, <1>8
  <2>2. \A i, j \in 1 .. Len(s) : s[i] = s[j] => i = j
    <3>1. \A i, j \in 1 .. L - 1 : stack[x(i)] = stack[x(j)] => i = j
      BY <1>4, <1>5, <1>6
    <3>2. TAKE i, j \in 1 .. Len(s)
    <3>3. i \in 1 .. L - 1 /\ j \in 1 .. L - 1
      BY <1>1
    <3>4. s[i] = stack[x(i)] /\ s[j] = stack[x(j)]
      BY <1>8, <3>3
    <3> QED BY <3>1, <3>3, <3>4
  <2>3. root \in visited /\ visited \subseteq Reach(Edges(G), N, root)
    BY DEF Below
  <2>4. ASSUME NEW n \in N
        PROVE  /\ seen[n] <= Len(G[n])
               /\ n \notin visited \/ On(s, n) => seen[n] = 0
               /\ n \in visited /\ n # t /\ ~On(s, n) => seen[n] = Len(G[n])
               /\ \A i \in 1 .. seen[n] : G[n][i] \in visited
    BY <1>9, <1>11
  <2> QED BY <1>10, <2>1, <2>2, <2>3, <2>4 DEF Below
<1> DEFINE f == Come(N, at, stack, seen, visited)
           g == Come(N, t, s, seen, visited)
<1>13. ASSUME NEW n \in N
       PROVE  /\ f[n] = IF n \notin visited \/ On(stack, n) THEN 0
                        ELSE IF n = at THEN seen[n] ELSE seen[n] + 1
              /\ g[n] = IF n \notin visited \/ On(s, n) THEN 0
                        ELSE IF n = t THEN seen[n] ELSE seen[n] + 1
  BY DEF Come
<1> HIDE DEF f, g
<1>14. ~On(s, at)
  BY <1>9, <1>10
<1>15. f[at] = seen[at] /\ g[at] = seen[at] + 1
  BY <1>10, <1>13, <1>14
<1>16. f[t] = 0 /\ g[t] = seen[t] /\ t \in N
  <2>1. t \in N /\ On(stack, t)
    BY <1>9, <1>10
  <2> QED BY <1>10, <1>13, <2>1
<1>17. ASSUME NEW n \in N, n # at, n # t PROVE f[n] = g[n] /\ f[n] \in Nat
  <2>1. On(stack, n) <=> On(s, n)
    BY <1>9, <1>17
  <2>2. seen[n] + 1 \in Nat
    BY <1>11
  <2> QED BY <1>13, <1>17, <2>1, <2>2
<1>18. f[at] < g[at]
  BY <1>11, <1>15
<1>19. \A n \in N : f[n] <= g[n]
  <2>1. f[at] <= g[at] /\ f[t] <= g[t]
    BY <1>11, <1>15, <1>16
  <2>2. \A n \in N : n # at /\ n # t => f[n] <= g[n]
    BY <1>17
  <2> QED BY <2>1, <2>2
<1>20. Ahead(N, f, g)
  BY <1>18, <1>19 DEF Ahead
<1> QED BY <1>10, <1>12, <1>20 DEF BelowTaken, f, g

-----------------------------------------------------------------------------
(* findByTag(): the tags that wait are a stack.  When the limit is reached *)
(* with nothing left to do, it was not: the last tag visited still waits.  *)
BelowOK(G, limit, root, r) ==
    /\ r \in Descent(DOMAIN G)
    /\ Below(G, root, r.at, r.stack, r.seen, r.visited)
    /\ Full(r.visited, limit) => r.stack # <<>>

Descended(r) == Come(DOMAIN r.seen, r.at, r.stack, r.seen, r.visited)

DescentEnded(G, limit, r) ==
    r.seen[r.at] = Len(G[r.at]) /\ (r.stack = <<>> \/ Full(r.visited, limit))

\* The last tag is the one that is popped.
LEMMA LastTaken ==
    ASSUME NEW N, NEW s \in Seq(N), s # <<>>
    PROVE  Last(s) \in N /\ Front(s) \in Seq(N) /\ Taken(s, Last(s), Front(s))
<1>1. /\ Len(s) \in Nat /\ Len(s) # 0 /\ \A i \in 1 .. Len(s) : s[i] \in N
      /\ Last(s) = s[Len(s)] /\ Front(s) \in Seq(N) /\ Len(Front(s)) = Len(s) - 1
      /\ \A i \in 1 .. Len(s) - 1 : Front(s)[i] = s[i]
  BY StackFacts
<1>2. Len(s) \in 1 .. Len(s)
  BY <1>1
<1>3. \A i \in 1 .. Len(s) - 1 : (IF i < Len(s) THEN i ELSE i + 1) = i
  BY <1>1
<1> QED BY <1>1, <1>2, <1>3 DEF Taken

\* A round of the loop, by the fields of its state.
LEMMA BelowRound ==
    ASSUME NEW G, IsRows(G), NEW limit, NEW root \in DOMAIN G, NEW r,
           BelowOK(G, limit, root, r)
    PROVE  /\ BelowOK(G, limit, root, DescentRound(G, limit, r))
           /\ DescentEnded(G, limit, r) => DescentRound(G, limit, r) = r
           /\ ~DescentEnded(G, limit, r)
                 => Ahead(DOMAIN G, Descended(r), Descended(DescentRound(G, limit, r)))
<1> DEFINE N == DOMAIN G
           q == DescentRound(G, limit, r)
           at == r.at
           stack == r.stack
           seen == r.seen
           visited == r.visited
<1>1. /\ r = [at |-> at, stack |-> stack, seen |-> seen, visited |-> visited]
      /\ at \in N /\ stack \in Seq(N) /\ seen \in [N -> Nat] /\ visited \in SUBSET N
      /\ Below(G, root, at, stack, seen, visited)
      /\ Full(visited, limit) => stack # <<>>
  BY DEF BelowOK, Descent
<1>2. seen[at] \in Nat /\ Len(G[at]) \in Nat /\ seen[at] <= Len(G[at])
  BY <1>1, RowsAre DEF Below
<1>3. DescentEnded(G, limit, r) => q = r
  BY <1>2 DEF DescentEnded, DescentRound
<1>4. Descended(r) = Come(N, at, stack, seen, visited)
  BY <1>1 DEF Descended
<1>5. CASE seen[at] < Len(G[at])
  <2> DEFINE m == G[at][seen[at] + 1]
             stack2 == IF m \in visited THEN stack ELSE Append(stack, m)
             seen2 == [seen EXCEPT ![at] = @ + 1]
  <2>1. q = [at |-> at, stack |-> stack2, seen |-> seen2, visited |-> visited \cup {m}]
    <3>1. CASE m \in visited
      <4>1. q = [r EXCEPT !.seen = seen2] /\ visited \cup {m} = visited /\ stack2 = stack
        BY <1>5, <3>1 DEF DescentRound
      <4> HIDE DEF m, stack2, seen2, q, at, stack, seen, visited
      <4> QED BY <1>1, <4>1
    <3>2. CASE m \notin visited
      <4>1. /\ q = [r EXCEPT !.seen = seen2, !.visited = visited \cup {m}, !.stack = stack2]
            /\ stack2 = Append(stack, m)
        BY <1>5, <3>2 DEF DescentRound
      <4> HIDE DEF m, stack2, seen2, q, at, stack, seen, visited
      <4> QED BY <1>1, <4>1
    <3> QED BY <3>1, <3>2
  <2> HIDE DEF q, at, stack, seen, visited
  <2>2. /\ m \in N /\ stack2 \in Seq(N) /\ seen2 \in [N -> Nat]
        /\ visited \cup {m} \in SUBSET N
        /\ Below(G, root, at, stack2, seen2, visited \cup {m})
        /\ Ahead(N, Come(N, at, stack, seen, visited),
                    Come(N, at, stack2, seen2, visited \cup {m}))
    <3>1. BelowAfter(G, root, at, stack, seen, visited)
      <4> HIDE DEF m, stack2, seen2
      <4> QED BY <1>1, <1>5, BelowRead
    <3> QED BY <3>1 DEF BelowAfter
  <2>3. Full(visited \cup {m}, limit) => stack2 # <<>>
    <3>1. CASE m \in visited
      <4>1. visited \cup {m} = visited /\ stack2 = stack
        BY <3>1
      <4> HIDE DEF m, stack2, seen2
      <4> QED BY <1>1, <4>1
    <3>2. CASE m \notin visited
      <4>1. stack2 = Append(stack, m)
        BY <3>2
      <4> HIDE DEF m, stack2, seen2
      <4>2. Len(Append(stack, m)) = Len(stack) + 1 /\ Len(stack) \in Nat
        BY <1>1, <2>2, StackFacts
      <4> QED BY <4>1, <4>2, EmptySeq
    <3> QED BY <3>1, <3>2
  <2> HIDE DEF m, stack2, seen2
  <2>4. BelowOK(G, limit, root, q)
    BY <1>1, <2>1, <2>2, <2>3 DEF BelowOK, Descent
  <2>5. Descended(q) = Come(N, at, stack2, seen2, visited \cup {m})
    BY <2>1, <2>2 DEF Descended
  <2>6. ~DescentEnded(G, limit, r)
    BY <1>2, <1>5, <1>1 DEF DescentEnded, at, seen
  <2> QED BY <1>4, <2>2, <2>4, <2>5, <2>6 DEF q
<1>6. CASE seen[at] = Len(G[at]) /\ stack # <<>> /\ ~Full(visited, limit)
  <2> DEFINE t == Last(stack)
             s == Front(stack)
  <2>1. q = [at |-> t, stack |-> s, seen |-> seen, visited |-> visited]
    <3>1. q = [r EXCEPT !.at = t, !.stack = s]
      BY <1>2, <1>6, <1>1 DEF DescentRound
    <3> HIDE DEF t, s, q, at, stack, seen, visited
    <3> QED BY <1>1, <3>1
  <2> HIDE DEF q, at, stack, seen, visited
  <2>2. t \in N /\ s \in Seq(N) /\ Taken(stack, t, s)
    BY <1>1, <1>6, LastTaken
  <2> HIDE DEF t, s
  <2>3. BelowTaken(G, root, at, stack, seen, visited, t, s)
    BY <1>1, <1>6, <2>2, BelowNext
  <2>4. BelowOK(G, limit, root, q)
    BY <1>1, <1>6, <2>1, <2>2, <2>3 DEF BelowOK, Descent, BelowTaken
  <2>5. Descended(q) = Come(N, t, s, seen, visited)
    BY <1>1, <2>1 DEF Descended
  <2>6. ~DescentEnded(G, limit, r)
    BY <1>6 DEF DescentEnded, stack, visited
  <2> QED BY <1>4, <2>3, <2>4, <2>5, <2>6 DEF q, BelowTaken
<1>7. CASE seen[at] = Len(G[at]) /\ (stack = <<>> \/ Full(visited, limit))
  <2>1. DescentEnded(G, limit, r)
    BY <1>7 DEF DescentEnded
  <2> QED BY <1>3, <2>1
<1> HIDE DEF at, stack, seen, visited, q
<1>8. seen[at] < Len(G[at]) \/ seen[at] = Len(G[at])
  BY <1>2
<1> QED BY <1>5, <1>6, <1>7, <1>8 DEF q

\* When no node waits and all rows of the one at hand are read, all that can be reached
\* was visited.
LEMMA BelowEnded ==
    ASSUME NEW G, IsRows(G), NEW root \in DOMAIN G, NEW at \in DOMAIN G,
           NEW seen \in [DOMAIN G -> Nat], NEW visited \in SUBSET DOMAIN G,
           Below(G, root, at, <<>>, seen, visited), seen[at] = Len(G[at])
    PROVE  /\ visited = Reach(Edges(G), DOMAIN G, root)
           /\ \A a, b \in DOMAIN G : a \in visited /\ <<a, b>> \in Edges(G) => b \in visited
<1> DEFINE N == DOMAIN G
           E == Edges(G)
<1>1. \A a, b \in N : a \in visited /\ <<a, b>> \in E => b \in visited
  <2>1. TAKE a, b \in N
  <2>2. SUFFICES ASSUME a \in visited, <<a, b>> \in E PROVE b \in visited
    OBVIOUS
  <2>3. PICK i \in 1 .. Len(G[a]) : G[a][i] = b
    BY <2>2, EdgesAre
  <2>4. ~On(<<>>, a)
    BY EmptySeq DEF On
  <2>5. seen[a] = Len(G[a])
    BY <2>2, <2>4 DEF Below
  <2> QED BY <2>3, <2>5 DEF Below
<1>2. root \in visited /\ E \in SUBSET (N \X N) /\ visited \subseteq Reach(E, N, root)
  BY EdgesAre DEF Below
<1>3. Reach(E, N, root) \subseteq visited
  BY <1>1, <1>2, ReachLeast
<1> QED BY <1>1, <1>2, <1>3

\* At the start the root is at hand and visited, and nothing waits.
LEMMA BelowStart ==
    ASSUME NEW G, IsRows(G), NEW root \in DOMAIN G
    PROVE  Below(G, root, root, <<>>, [n \in DOMAIN G |-> 0], {root})
<1>1. \A n \in DOMAIN G : Len(G[n]) \in Nat
  BY RowsAre
<1>2. root \in Reach(Edges(G), DOMAIN G, root)
  BY EdgesAre, ReachFacts
<1>3. \A i \in 1 .. Len(<<>>) : FALSE
  BY EmptySeq
<1> QED BY <1>1, <1>2, <1>3 DEF Below, On

\* The root alone does not reach the limit.
LEMMA NotFull ==
    ASSUME NEW limit \in Nat, limit >= 2, NEW root
    PROVE  ~Full({root}, limit)
<1>1. Cardinality({root}) = 1
  BY FS_Singleton
<1> QED BY <1>1 DEF Full

\* How far it has come with a node is bounded by the rows of a node.
LEMMA ComeBounded ==
    ASSUME NEW G, IsRows(G), NEW root, NEW at, NEW stack, NEW seen \in [DOMAIN G -> Nat],
           NEW visited, Below(G, root, at, stack, seen, visited),
           NEW most \in Nat, \A n \in DOMAIN G : Len(G[n]) <= most
    PROVE  Come(DOMAIN G, at, stack, seen, visited) \in [DOMAIN G -> 0 .. most + 2]
<1>1. \A n \in DOMAIN G : seen[n] \in Nat /\ seen[n] <= Len(G[n]) /\ Len(G[n]) \in Nat
  BY RowsAre DEF Below
<1>2. \A n \in DOMAIN G : seen[n] \in 0 .. most + 2 /\ seen[n] + 1 \in 0 .. most + 2
                          /\ 0 \in 0 .. most + 2
  BY <1>1
<1> QED BY <1>2 DEF Come

\* findByTag() ends.  Then it has visited just the tags below, or has thrown, which it
\* does if and only if they are as many as the limit.
THEOREM TagsBelowReached ==
    ASSUME NEW G, IsGraph(G), NEW root \in DOMAIN G, NEW limit \in Nat, limit >= 2
    PROVE  TagsBelow(G, limit, root)
              = IF Cardinality(Reach(Edges(G), DOMAIN G, root)) < limit
                THEN Reach(Edges(G), DOMAIN G, root) ELSE Thrown
<1> DEFINE N == DOMAIN G
           E == Edges(G)
           I == {q \in Descent(N) : BelowOK(G, limit, root, q)}
           D == {q \in I : DescentEnded(G, limit, q)}
           round == [q \in Descent(N) |-> DescentRound(G, limit, q)]
           start == DescentStart(N, root)
           most == Cardinality(N)
           p == [q \in I |-> Descended(q)]
<1>1. IsRows(G) /\ IsFiniteSet(N) /\ most \in Nat /\ most + 2 \in Nat
  BY FS_CardinalityType DEF IsGraph, IsRows
<1>2. start \in I
  <2>1. start \in Descent(N)
    <3>1. <<>> \in Seq(N)
      BY EmptySeq
    <3> QED BY <3>1 DEF DescentStart, Descent
  <2>2. /\ start.at = root /\ start.stack = <<>> /\ start.visited = {root}
        /\ start.seen = [n \in N |-> 0]
    BY DEF DescentStart
  <2>3. Below(G, root, root, <<>>, [n \in N |-> 0], {root}) /\ ~Full({root}, limit)
    BY <1>1, BelowStart, NotFull
  <2> QED BY <2>1, <2>2, <2>3 DEF BelowOK
<1>3. \A q \in I : round[q] = DescentRound(G, limit, q)
  OBVIOUS
<1>4. \A q \in I : round[q] \in I
  <2>1. TAKE q \in I
  <2>2. BelowOK(G, limit, root, DescentRound(G, limit, q))
    BY <1>1, BelowRound
  <2>3. DescentRound(G, limit, q) \in Descent(N)
    BY <2>2 DEF BelowOK
  <2> QED BY <1>3, <2>2, <2>3
<1>5. \A q \in D : round[q] \in D
  <2>1. TAKE q \in D
  <2>2. DescentRound(G, limit, q) = q
    BY <1>1, BelowRound
  <2> QED BY <1>3, <2>2
<1>6. p \in [I -> [N -> 0 .. most + 2]]
  <2>1. SUFFICES ASSUME NEW q \in I PROVE Descended(q) \in [N -> 0 .. most + 2]
    OBVIOUS
  <2>2. q.seen \in [N -> Nat] /\ Below(G, root, q.at, q.stack, q.seen, q.visited)
    BY <2>1 DEF BelowOK, Descent
  <2>3. Come(N, q.at, q.stack, q.seen, q.visited) \in [N -> 0 .. most + 2]
    <3>1. \A n \in N : Len(G[n]) <= most
      BY GraphRows
    <3> HIDE DEF most
    <3> QED BY <1>1, <2>2, <3>1, ComeBounded
  <2> QED BY <2>2, <2>3 DEF Descended
<1>7. \A q \in I \ D : /\ \A n \in N : p[q][n] <= p[round[q]][n]
                       /\ \E n \in N : p[q][n] < p[round[q]][n]
  <2>1. TAKE q \in I \ D
  <2>2. p[q] = Descended(q) /\ p[round[q]] = Descended(DescentRound(G, limit, q))
    BY <1>3, <1>4
  <2>3. BelowOK(G, limit, root, q) /\ ~DescentEnded(G, limit, q)
    OBVIOUS
  <2> HIDE DEF p, round
  <2> QED BY <1>1, <2>2, <2>3, BelowRound DEF Ahead
<1>8. D \in SUBSET I
  OBVIOUS
<1> DEFINE r == Rounds(round, start)[Cardinality(N) * (most + 2)]
<1>9. r \in D
  <2> HIDE DEF D, I, p, round, start, most, N
  <2>1. Loop(N, most + 2, round, start, I, p, D)
    BY <1>1, <1>2, <1>4, <1>5, <1>6, <1>7, <1>8 DEF Loop
  <2> QED BY <2>1, RoundsEnd
<1>10. TagsBelow(G, limit, root) = IF r.stack = <<>> THEN r.visited ELSE Thrown
  BY DEF TagsBelow, Enough
<1> HIDE DEF r
<1>11. /\ Below(G, root, r.at, r.stack, r.seen, r.visited)
       /\ Full(r.visited, limit) => r.stack # <<>>
       /\ r.at \in N /\ r.seen \in [N -> Nat] /\ r.visited \in SUBSET N
       /\ r.seen[r.at] = Len(G[r.at]) /\ (r.stack = <<>> \/ Full(r.visited, limit))
  BY <1>9 DEF BelowOK, DescentEnded, Descent
<1> DEFINE V == r.visited
           R == Reach(E, N, root)
<1>12. /\ V \subseteq R /\ IsFiniteSet(R) /\ IsFiniteSet(V)
       /\ Cardinality(V) \in Nat /\ Cardinality(R) \in Nat /\ Cardinality(V) <= Cardinality(R)
  <2>1. V \subseteq R /\ R \subseteq N
    BY <1>1, <1>11, EdgesAre, ReachFacts DEF Below
  <2>2. IsFiniteSet(R) /\ IsFiniteSet(V)
    BY <1>1, <2>1, FS_Subset
  <2> HIDE DEF R, V
  <2> QED BY <2>1, <2>2, FS_Subset, FS_CardinalityType
<1>13. CASE r.stack = <<>>
  <2>1. V = R
    BY <1>1, <1>11, <1>13, BelowEnded
  <2>2. ~(Cardinality(V) >= limit)
    BY <1>11, <1>13 DEF Full
  <2> HIDE DEF R, V
  <2>3. Cardinality(R) < limit
    BY <1>12, <2>1, <2>2
  <2> QED BY <1>10, <1>13, <2>1, <2>3 DEF R, V
<1>14. CASE r.stack # <<>>
  <2>1. Cardinality(V) >= limit
    BY <1>11, <1>14 DEF Full
  <2> HIDE DEF R, V
  <2>2. ~(Cardinality(R) < limit)
    BY <1>12, <2>1
  <2> QED BY <1>10, <1>14, <2>2 DEF R
<1> QED BY <1>13, <1>14

-----------------------------------------------------------------------------
(* What is within a distance: one more edge leads from what is within a    *)
(* distance to what is within the next.                                    *)
LEMMA WithinMember ==
    ASSUME NEW E, NEW N, NEW n, NEW d, NEW m
    PROVE  m \in Within(E, N, n, d) <=> \E j \in 0 .. d : \E p \in Paths(E, N, n, j) : p[j] = m
BY DEF Within

\* Within no distance there is the node alone.
LEMMA WithinStart ==
    ASSUME NEW E, NEW N, NEW n \in N
    PROVE  Within(E, N, n, 0) = {n}
<1>1. [i \in 0 .. 0 |-> n] \in Paths(E, N, n, 0)
  BY DEF Paths
<1>2. n \in Within(E, N, n, 0)
  <2>1. 0 \in 0 .. 0 /\ [i \in 0 .. 0 |-> n][0] = n
    OBVIOUS
  <2> QED BY <1>1, <2>1, WithinMember
<1>3. ASSUME NEW m \in Within(E, N, n, 0) PROVE m = n
  <2>1. PICK j \in 0 .. 0 : \E p \in Paths(E, N, n, j) : p[j] = m
    BY WithinMember
  <2>2. j = 0
    BY <2>1
  <2> QED BY <2>1, <2>2 DEF Paths
<1> QED BY <1>2, <1>3

\* One hop further there are the successors too.
LEMMA WithinNext ==
    ASSUME NEW N, NEW E \in SUBSET (N \X N), NEW n \in N, NEW d \in Nat
    PROVE  /\ Within(E, N, n, d) \subseteq N
           /\ Within(E, N, n, d) \subseteq Within(E, N, n, d + 1)
           /\ \A m, k \in N : m \in Within(E, N, n, d) /\ <<m, k>> \in E
                                 => k \in Within(E, N, n, d + 1)
<1>1. Within(E, N, n, d) \subseteq N
  <2>1. SUFFICES ASSUME NEW m \in Within(E, N, n, d) PROVE m \in N
    OBVIOUS
  <2>2. PICK j \in 0 .. d : \E p \in Paths(E, N, n, j) : p[j] = m
    BY WithinMember
  <2>3. PICK p \in [0 .. j -> N] : p[j] = m
    BY <2>2 DEF Paths
  <2>4. j \in 0 .. j
    BY <2>2
  <2> QED BY <2>3, <2>4
<1>2. Within(E, N, n, d) \subseteq Within(E, N, n, d + 1)
  <2>1. \A j \in 0 .. d : j \in 0 .. d + 1
    OBVIOUS
  <2> QED BY <2>1, WithinMember
<1>3. ASSUME NEW m \in N, NEW k \in N, m \in Within(E, N, n, d), <<m, k>> \in E
      PROVE  k \in Within(E, N, n, d + 1)
  <2>1. PICK j \in 0 .. d : \E p \in Paths(E, N, n, j) : p[j] = m
    BY <1>3, WithinMember
  <2>2. PICK p \in Paths(E, N, n, j) : p[j] = m
    BY <2>1
  <2>3. /\ p \in [0 .. j -> N] /\ p[0] = n
        /\ \A i \in 1 .. j : <<p[i - 1], p[i]>> \in E
    BY DEF Paths
  <2> DEFINE q == [i \in 0 .. j + 1 |-> IF i = j + 1 THEN k ELSE p[i]]
  <2>4. q \in [0 .. j + 1 -> N] /\ q[0] = n /\ q[j + 1] = k
    <3>1. \A i \in 0 .. j + 1 : i # j + 1 => i \in 0 .. j
      OBVIOUS
    <3> QED BY <2>3, <3>1
  <2>5. ASSUME NEW i \in 1 .. j + 1 PROVE <<q[i - 1], q[i]>> \in E
    <3>1. CASE i = j + 1
      <4>1. q[i] = k /\ q[i - 1] = p[j]
        BY <3>1
      <4> QED BY <1>3, <2>2, <4>1
    <3>2. CASE i # j + 1
      <4>1. i \in 1 .. j /\ i - 1 \in 0 .. j + 1 /\ i - 1 # j + 1 /\ i \in 0 .. j + 1
        BY <3>2
      <4>2. q[i] = p[i] /\ q[i - 1] = p[i - 1]
        BY <3>2, <4>1
      <4> QED BY <2>3, <4>1, <4>2
    <3> QED BY <3>1, <3>2
  <2>6. q \in Paths(E, N, n, j + 1)
    BY <2>4, <2>5 DEF Paths
  <2>7. j + 1 \in 0 .. d + 1
    BY <2>1
  <2> QED BY <2>4, <2>6, <2>7, WithinMember
<1> QED BY <1>1, <1>2, <1>3

\* What is one hop further was there, or is the successor of what was.
LEMMA WithinLast ==
    ASSUME NEW N, NEW E \in SUBSET (N \X N), NEW n \in N, NEW d \in Nat,
           NEW k \in Within(E, N, n, d + 1)
    PROVE  k \in Within(E, N, n, d) \/ \E m \in Within(E, N, n, d) : <<m, k>> \in E
<1>1. PICK j \in 0 .. d + 1 : \E p \in Paths(E, N, n, j) : p[j] = k
  BY WithinMember
<1>2. PICK p \in Paths(E, N, n, j) : p[j] = k
  BY <1>1
<1>3. CASE j \in 0 .. d
  BY <1>2, <1>3, WithinMember
<1>4. CASE j = d + 1
  <2>1. /\ p \in [0 .. d + 1 -> N] /\ p[0] = n
        /\ \A i \in 1 .. d + 1 : <<p[i - 1], p[i]>> \in E
    BY <1>4 DEF Paths
  <2> DEFINE q == [i \in 0 .. d |-> p[i]]
  <2>2. q \in Paths(E, N, n, d)
    <3>1. \A i \in 0 .. d : i \in 0 .. d + 1
      OBVIOUS
    <3>2. \A i \in 1 .. d : i \in 1 .. d + 1 /\ i \in 0 .. d /\ i - 1 \in 0 .. d
      OBVIOUS
    <3>3. q \in [0 .. d -> N] /\ q[0] = n
      BY <2>1, <3>1
    <3>4. \A i \in 1 .. d : <<q[i - 1], q[i]>> \in E
      BY <2>1, <3>2
    <3> QED BY <3>3, <3>4 DEF Paths
  <2>3. d \in 0 .. d /\ q[d] = p[d] /\ d + 1 \in 1 .. d + 1 /\ (d + 1) - 1 = d
    OBVIOUS
  <2>4. q[d] \in Within(E, N, n, d)
    BY <2>2, <2>3, WithinMember
  <2>5. <<p[d], p[d + 1]>> \in E
    BY <2>1, <2>3
  <2> QED BY <1>2, <1>4, <2>3, <2>4, <2>5
<1>5. j \in 0 .. d \/ j = d + 1
  BY <1>1
<1> QED BY <1>3, <1>4, <1>5

-----------------------------------------------------------------------------
(* findRelated(): the tags that wait are a queue, those of the frontier    *)
(* before those of the next.  The frontier is within the hops done, what   *)
(* the next one has is not, and all within one hop more is visited once    *)
(* all tags within the hops done are read.                                 *)
Spreading(R, root, depth, at, frontier, next, hop, seen, visited) ==
    /\ Below(R, root, at, frontier \o next, seen, visited)
    /\ hop + 1 <= depth
    /\ at \in Within(Edges(R), DOMAIN R, root, hop)
    /\ \A i \in 1 .. Len(frontier) : frontier[i] \in Within(Edges(R), DOMAIN R, root, hop)
    /\ \A i \in 1 .. Len(next) : next[i] \notin Within(Edges(R), DOMAIN R, root, hop)
    /\ Within(Edges(R), DOMAIN R, root, hop) \subseteq visited
    /\ visited \subseteq Within(Edges(R), DOMAIN R, root, hop + 1)

SpreadOK(R, root, depth, r) ==
    /\ r \in Spread(DOMAIN R)
    /\ Spreading(R, root, depth, r.at, r.frontier, r.next, r.hop, r.seen, r.visited)

SpreadFar(r) == Come(DOMAIN r.seen, r.at, r.frontier \o r.next, r.seen, r.visited)

SpreadEnded(R, limit, depth, r) ==
    r.seen[r.at] = Len(R[r.at]) /\ (~MoreTags(depth, r) \/ Full(r.visited, limit))

\* A queue of two parts: what is put behind it and what is taken from its front.
LEMMA QueueFacts ==
    ASSUME NEW N, NEW a \in Seq(N), NEW b \in Seq(N)
    PROVE  /\ a \o b \in Seq(N)
           /\ \A m \in N : a \o Append(b, m) = Append(a \o b, m)
           /\ a \o <<>> = a /\ <<>> \o a = a
           /\ \A n : On(a \o b, n) <=> On(a, n) \/ On(b, n)
           /\ a # <<>> => /\ Head(a) \in N /\ Tail(a) \in Seq(N)
                          /\ Taken(a \o b, Head(a), Tail(a) \o b)
                          /\ On(a, Head(a)) /\ \A n : On(Tail(a), n) => On(a, n)
<1>1. Len(a) \in Nat /\ Len(b) \in Nat
  BY LenProperties
<1>2. /\ a \o b \in Seq(N) /\ Len(a \o b) = Len(a) + Len(b)
      /\ \A i \in 1 .. Len(a) + Len(b) :
            (a \o b)[i] = IF i <= Len(a) THEN a[i] ELSE b[i - Len(a)]
  BY ConcatProperties
<1>3. a \o <<>> = a /\ <<>> \o a = a
  BY ConcatEmptySeq
<1>4. ASSUME NEW m \in N PROVE a \o Append(b, m) = Append(a \o b, m)
  <2>1. <<m>> \in Seq(N)
    OBVIOUS
  <2>2. Append(b, m) = b \o <<m>> /\ Append(a \o b, m) = (a \o b) \o <<m>>
    BY <1>2, AppendIsConcat
  <2>3. (a \o b) \o <<m>> = a \o (b \o <<m>>)
    BY <2>1, ConcatAssociative
  <2> QED BY <2>2, <2>3
<1>5. ASSUME NEW n PROVE On(a \o b, n) <=> On(a, n) \/ On(b, n)
  <2>1. ASSUME On(a \o b, n) PROVE On(a, n) \/ On(b, n)
    <3>1. PICK i \in 1 .. Len(a) + Len(b) : (a \o b)[i] = n
      BY <1>2, <2>1 DEF On
    <3>2. CASE i <= Len(a)
      <4>1. i \in 1 .. Len(a) /\ a[i] = n
        BY <1>1, <1>2, <3>1, <3>2
      <4> QED BY <4>1 DEF On
    <3>3. CASE ~(i <= Len(a))
      <4>1. i - Len(a) \in 1 .. Len(b) /\ b[i - Len(a)] = n
        BY <1>1, <1>2, <3>1, <3>3
      <4> QED BY <4>1 DEF On
    <3> QED BY <3>2, <3>3
  <2>2. ASSUME On(a, n) PROVE On(a \o b, n)
    <3>1. PICK i \in 1 .. Len(a) : a[i] = n
      BY <2>2 DEF On
    <3>2. i \in 1 .. Len(a) + Len(b) /\ i <= Len(a)
      BY <1>1
    <3> QED BY <1>2, <3>1, <3>2 DEF On
  <2>3. ASSUME On(b, n) PROVE On(a \o b, n)
    <3>1. PICK i \in 1 .. Len(b) : b[i] = n
      BY <2>3 DEF On
    <3>2. /\ i + Len(a) \in 1 .. Len(a) + Len(b) /\ ~(i + Len(a) <= Len(a))
          /\ (i + Len(a)) - Len(a) = i
      BY <1>1
    <3>3. (a \o b)[i + Len(a)] = n
      BY <1>2, <3>1, <3>2
    <3> QED BY <1>2, <3>2, <3>3 DEF On
  <2> QED BY <2>1, <2>2, <2>3
<1>6. ASSUME a # <<>>
      PROVE  /\ Head(a) \in N /\ Tail(a) \in Seq(N)
             /\ Taken(a \o b, Head(a), Tail(a) \o b)
             /\ On(a, Head(a)) /\ \A n : On(Tail(a), n) => On(a, n)
  <2> DEFINE t == Tail(a)
             L == Len(a) - 1
  <2>1. /\ Head(a) \in N /\ t \in Seq(N) /\ Len(t) = L
        /\ \A i \in 1 .. Len(t) : t[i] = a[i + 1]
    BY <1>6, HeadTailProperties
  <2>2. Len(a) # 0 /\ Head(a) = a[1]
    BY <1>6, EmptySeq
  <2>3. L \in Nat /\ Len(a) = L + 1
    BY <1>1, <2>2
  <2>4. /\ Len(t \o b) = L + Len(b)
        /\ \A i \in 1 .. L + Len(b) : (t \o b)[i] = IF i <= L THEN t[i] ELSE b[i - L]
    BY <2>1, ConcatProperties
  <2> HIDE DEF t, L
  <2> DEFINE M == Len(a \o b)
  <2>5. M \in Nat /\ M = Len(a) + Len(b) /\ M - 1 = L + Len(b) /\ 1 \in 1 .. M
    BY <1>1, <1>2, <2>3
  <2> HIDE DEF M
  <2>6. Taken(a \o b, Head(a), t \o b)
    <3>1. ASSUME NEW i \in 1 .. M - 1
          PROVE  (t \o b)[i] = (a \o b)[IF i < 1 THEN i ELSE i + 1]
      <4>1. i \in 1 .. L + Len(b) /\ i + 1 \in 1 .. Len(a) + Len(b) /\ ~(i < 1)
        BY <2>5
      <4>2. CASE i <= L
        <5>1. i + 1 <= Len(a) /\ i \in 1 .. Len(t)
          BY <1>1, <2>1, <2>3, <4>1, <4>2
        <5> QED BY <1>2, <2>1, <2>4, <4>1, <4>2, <5>1
      <4>3. CASE ~(i <= L)
        <5>1. ~(i + 1 <= Len(a)) /\ (i + 1) - Len(a) = i - L
          BY <1>1, <2>3, <4>1, <4>3
        <5> QED BY <1>2, <2>4, <4>1, <4>3, <5>1
      <4> QED BY <4>2, <4>3
    <3>2. Head(a) = (a \o b)[1]
      <4>1. 1 <= Len(a) /\ 1 \in 1 .. Len(a) + Len(b)
        BY <1>1, <2>3
      <4> QED BY <1>2, <2>2, <4>1
    <3>3. Len(t \o b) = M - 1
      BY <2>4, <2>5
    <3> QED BY <2>5, <3>1, <3>2, <3>3 DEF Taken, M
  <2>7. On(a, Head(a))
    <3>1. 1 \in 1 .. Len(a)
      BY <2>3
    <3> QED BY <2>2, <3>1 DEF On
  <2>8. \A n : On(t, n) => On(a, n)
    <3>1. \A i \in 1 .. Len(t) : i + 1 \in 1 .. Len(a)
      BY <2>1, <2>3
    <3> QED BY <2>1, <3>1 DEF On
  <2> QED BY <2>1, <2>6, <2>7, <2>8 DEF t
<1> QED BY <1>2, <1>3, <1>4, <1>5, <1>6

\* One hop further there are the ends of the rows too.
LEMMA RowsWithin ==
    ASSUME NEW R, IsRows(R), NEW root \in DOMAIN R, NEW h \in Nat
    PROVE  /\ Within(Edges(R), DOMAIN R, root, h) \subseteq DOMAIN R
           /\ Within(Edges(R), DOMAIN R, root, h) \subseteq Within(Edges(R), DOMAIN R, root, h + 1)
           /\ \A m, k \in DOMAIN R :
                 m \in Within(Edges(R), DOMAIN R, root, h) /\ <<m, k>> \in Edges(R)
                    => k \in Within(Edges(R), DOMAIN R, root, h + 1)
           /\ \A k \in Within(Edges(R), DOMAIN R, root, h + 1) :
                 \/ k \in Within(Edges(R), DOMAIN R, root, h)
                 \/ \E m \in Within(Edges(R), DOMAIN R, root, h) : <<m, k>> \in Edges(R)
<1>1. PICK N, E : N = DOMAIN R /\ E = Edges(R)
  OBVIOUS
<1>2. E \in SUBSET (N \X N) /\ root \in N
  BY <1>1, EdgesAre
<1>3. Within(E, N, root, h) \subseteq N
  BY <1>2, WithinNext
<1>4. Within(E, N, root, h) \subseteq Within(E, N, root, h + 1)
  BY <1>2, WithinNext
<1>5. \A m, k \in N : m \in Within(E, N, root, h) /\ <<m, k>> \in E
                         => k \in Within(E, N, root, h + 1)
  BY <1>2, WithinNext
<1>6. \A k \in Within(E, N, root, h + 1) :
         k \in Within(E, N, root, h) \/ \E m \in Within(E, N, root, h) : <<m, k>> \in E
  <2>1. TAKE k \in Within(E, N, root, h + 1)
  <2> QED BY <1>2, WithinLast
<1> QED BY <1>1, <1>3, <1>4, <1>5, <1>6

\* Once all tags of the frontier are read, all that is within one hop more is visited.
LEMMA HopRead ==
    ASSUME NEW R, IsRows(R), NEW root \in DOMAIN R, NEW depth, NEW at \in DOMAIN R,
           NEW next \in Seq(DOMAIN R), NEW hop \in Nat, NEW seen \in [DOMAIN R -> Nat],
           NEW visited \in SUBSET DOMAIN R, NEW none, none = <<>>,
           Spreading(R, root, depth, at, none, next, hop, seen, visited),
           seen[at] = Len(R[at])
    PROVE  visited = Within(Edges(R), DOMAIN R, root, hop + 1)
<1> DEFINE N == DOMAIN R
           E == Edges(R)
           W(h) == Within(E, N, root, h)
<1>1. /\ Below(R, root, at, next, seen, visited)
      /\ \A i \in 1 .. Len(next) : next[i] \notin W(hop)
      /\ W(hop) \subseteq visited /\ visited \subseteq W(hop + 1)
  <2>1. none \o next = next
    BY QueueFacts
  <2> QED BY <2>1 DEF Spreading
<1>2. E \in SUBSET (N \X N)
  BY EdgesAre
<1>3. /\ W(hop) \subseteq N /\ W(hop + 1) \subseteq N
      /\ \A k \in W(hop + 1) : k \in W(hop) \/ \E m \in W(hop) : <<m, k>> \in E
  <2>1. hop + 1 \in Nat
    OBVIOUS
  <2> QED BY <2>1, RowsWithin
<1> HIDE DEF W
<1>4. ASSUME NEW m \in W(hop), NEW k \in N, <<m, k>> \in E PROVE k \in visited
  <2>1. m \in N /\ m \in visited
    BY <1>1, <1>3
  <2>2. ~On(next, m)
    BY <1>1 DEF On
  <2>3. seen[m] = Len(R[m])
    BY <1>1, <2>1, <2>2 DEF Below
  <2>4. PICK i \in 1 .. Len(R[m]) : R[m][i] = k
    BY <1>4, <2>1, EdgesAre
  <2> QED BY <1>1, <2>1, <2>3, <2>4 DEF Below
<1>5. W(hop + 1) \subseteq visited
  <2>1. SUFFICES ASSUME NEW k \in W(hop + 1) PROVE k \in visited
    OBVIOUS
  <2>2. k \in N /\ (k \in W(hop) \/ \E m \in W(hop) : <<m, k>> \in E)
    BY <1>3
  <2> QED BY <1>1, <1>4, <2>2
<1> QED BY <1>1, <1>5 DEF W

(* What holds once the next row is read.                                   *)
SpreadAfter(R, root, depth, at, frontier, next, hop, seen, visited) ==
    LET m     == R[at][seen[at] + 1]
        next2 == IF m \in visited THEN next ELSE Append(next, m)
        seen2 == [seen EXCEPT ![at] = @ + 1]
    IN  /\ next2 \in Seq(DOMAIN R) /\ seen2 \in [DOMAIN R -> Nat]
        /\ visited \cup {m} \in SUBSET DOMAIN R
        /\ Spreading(R, root, depth, at, frontier, next2, hop, seen2, visited \cup {m})
        /\ Ahead(DOMAIN R, Come(DOMAIN R, at, frontier \o next, seen, visited),
                           Come(DOMAIN R, at, frontier \o next2, seen2, visited \cup {m}))

\* A row is read.
LEMMA SpreadRead ==
    ASSUME NEW R, IsRows(R), NEW root \in DOMAIN R, NEW depth, NEW at \in DOMAIN R,
           NEW frontier \in Seq(DOMAIN R), NEW next \in Seq(DOMAIN R), NEW hop \in Nat,
           NEW seen \in [DOMAIN R -> Nat], NEW visited \in SUBSET DOMAIN R,
           Spreading(R, root, depth, at, frontier, next, hop, seen, visited),
           seen[at] < Len(R[at])
    PROVE  SpreadAfter(R, root, depth, at, frontier, next, hop, seen, visited)
<1> DEFINE N == DOMAIN R
           E == Edges(R)
           W(h) == Within(E, N, root, h)
<1> SUFFICES ASSUME NEW m, m = R[at][seen[at] + 1],
                    NEW next2, next2 = IF m \in visited THEN next ELSE Append(next, m),
                    NEW seen2, seen2 = [seen EXCEPT ![at] = @ + 1]
             PROVE  /\ next2 \in Seq(N) /\ seen2 \in [N -> Nat]
                    /\ visited \cup {m} \in SUBSET N
                    /\ Spreading(R, root, depth, at, frontier, next2, hop, seen2, visited \cup {m})
                    /\ Ahead(N, Come(N, at, frontier \o next, seen, visited),
                                Come(N, at, frontier \o next2, seen2, visited \cup {m}))
  BY DEF SpreadAfter
<1> DEFINE stack == frontier \o next
           stack2 == IF m \in visited THEN stack ELSE Append(stack, m)
<1>1. /\ Below(R, root, at, stack, seen, visited)
      /\ hop + 1 <= depth
      /\ at \in W(hop)
      /\ \A i \in 1 .. Len(frontier) : frontier[i] \in W(hop)
      /\ \A i \in 1 .. Len(next) : next[i] \notin W(hop)
      /\ W(hop) \subseteq visited
      /\ visited \subseteq W(hop + 1)
  BY DEF Spreading
<1>2. stack \in Seq(N)
  BY QueueFacts
<1>3. /\ m \in N /\ <<at, m>> \in E
      /\ seen2 \in [N -> Nat] /\ visited \cup {m} \in SUBSET N
      /\ Below(R, root, at, stack2, seen2, visited \cup {m})
      /\ Ahead(N, Come(N, at, stack, seen, visited), Come(N, at, stack2, seen2, visited \cup {m}))
  <2> HIDE DEF stack
  <2>1. BelowAfter(R, root, at, stack, seen, visited)
    BY <1>1, <1>2, BelowRead
  <2> QED BY <2>1 DEF BelowAfter
<1>4. stack2 = frontier \o next2
  <2>1. m \in N /\ frontier \in Seq(N) /\ next \in Seq(N)
    BY <1>3
  <2> HIDE DEF N
  <2>2. frontier \o Append(next, m) = Append(stack, m)
    BY ONLY <2>1, QueueFacts
  <2> QED BY <2>2
<1>5. next2 \in Seq(N)
  <2>1. Append(next, m) \in Seq(N)
    BY <1>3, StackFacts
  <2> QED BY <2>1
<1>6. m \in W(hop + 1)
  <2>1. \A a, b \in N : a \in W(hop) /\ <<a, b>> \in E => b \in W(hop + 1)
    BY RowsWithin
  <2> QED BY <1>1, <1>3, <2>1
<1> HIDE DEF W, stack, stack2
<1>7. \A i \in 1 .. Len(next2) : next2[i] \notin W(hop)
  <2>1. CASE m \in visited
    BY <1>1, <2>1
  <2>2. CASE m \notin visited
    <3>1. /\ next2 = Append(next, m) /\ Len(next2) = Len(next) + 1 /\ Len(next) \in Nat
          /\ \A i \in 1 .. Len(next) : next2[i] = next[i]
          /\ next2[Len(next) + 1] = m
      BY <1>3, <2>2, StackFacts
    <3>2. TAKE i \in 1 .. Len(next2)
    <3>3. Len(next2) = Len(next) + 1 /\ Len(next) \in Nat
      BY <3>1
    <3>4. i \in 1 .. Len(next) \/ i = Len(next) + 1
      BY <3>3
    <3> QED BY <1>1, <2>2, <3>1, <3>4
  <2> QED BY <2>1, <2>2
<1>8. Spreading(R, root, depth, at, frontier, next2, hop, seen2, visited \cup {m})
  <2>1. W(hop) \subseteq visited \cup {m} /\ visited \cup {m} \subseteq W(hop + 1)
    BY <1>1, <1>6
  <2> QED BY <1>1, <1>3, <1>4, <1>7, <2>1 DEF Spreading, W
<1> QED BY <1>3, <1>4, <1>5, <1>8 DEF stack

(* The next tag is at hand: of the frontier, or of the next one.           *)
SpreadTo(R, root, depth, old, at, frontier, next, hop, seen, visited) ==
    /\ at \in DOMAIN R /\ frontier \in Seq(DOMAIN R) /\ next \in Seq(DOMAIN R) /\ hop \in Nat
    /\ Spreading(R, root, depth, at, frontier, next, hop, seen, visited)
    /\ Ahead(DOMAIN R, old, Come(DOMAIN R, at, frontier \o next, seen, visited))

\* The first of the frontier is taken.
LEMMA SpreadNext ==
    ASSUME NEW R, IsRows(R), NEW root \in DOMAIN R, NEW depth, NEW at \in DOMAIN R,
           NEW frontier \in Seq(DOMAIN R), NEW next \in Seq(DOMAIN R), NEW hop \in Nat,
           NEW seen \in [DOMAIN R -> Nat], NEW visited \in SUBSET DOMAIN R,
           Spreading(R, root, depth, at, frontier, next, hop, seen, visited),
           seen[at] = Len(R[at]), frontier # <<>>
    PROVE  SpreadTo(R, root, depth, Come(DOMAIN R, at, frontier \o next, seen, visited),
                    Head(frontier), Tail(frontier), next, hop, seen, visited)
<1> DEFINE N == DOMAIN R
           W(h) == Within(Edges(R), N, root, h)
           t == Head(frontier)
           s == Tail(frontier)
<1>1. /\ frontier \o next \in Seq(N) /\ t \in N /\ s \in Seq(N)
      /\ Taken(frontier \o next, t, s \o next)
      /\ On(frontier, t) /\ \A n : On(s, n) => On(frontier, n)
  BY QueueFacts
<1>2. BelowTaken(R, root, at, frontier \o next, seen, visited, t, s \o next)
  <2>1. Below(R, root, at, frontier \o next, seen, visited)
    BY DEF Spreading
  <2> HIDE DEF t, s
  <2> QED BY <1>1, <2>1, BelowNext
<1>3. t \in W(hop) /\ \A i \in 1 .. Len(s) : s[i] \in W(hop)
  <2>1. \A i \in 1 .. Len(frontier) : frontier[i] \in W(hop)
    BY DEF Spreading
  <2> HIDE DEF W, t, s
  <2>2. \A n : On(frontier, n) => n \in W(hop)
    BY <2>1 DEF On
  <2>3. \A i \in 1 .. Len(s) : On(s, s[i])
    BY DEF On
  <2> QED BY <1>1, <2>2, <2>3
<1>4. Spreading(R, root, depth, t, s, next, hop, seen, visited)
  <2> HIDE DEF t, s
  <2> QED BY <1>2, <1>3 DEF Spreading, BelowTaken
<1> HIDE DEF t, s
<1>5. SpreadTo(R, root, depth, Come(N, at, frontier \o next, seen, visited),
               t, s, next, hop, seen, visited)
  BY <1>1, <1>2, <1>4 DEF SpreadTo, BelowTaken
<1> QED BY <1>5 DEF t, s

\* The hop is done: the first of the next frontier is taken.
LEMMA SpreadHop ==
    ASSUME NEW R, IsRows(R), NEW root \in DOMAIN R, NEW depth \in Nat, NEW at \in DOMAIN R,
           NEW next \in Seq(DOMAIN R), NEW hop \in Nat, NEW seen \in [DOMAIN R -> Nat],
           NEW visited \in SUBSET DOMAIN R, NEW none, none = <<>>,
           Spreading(R, root, depth, at, none, next, hop, seen, visited),
           seen[at] = Len(R[at]), next # <<>>, hop + 1 < depth
    PROVE  SpreadTo(R, root, depth, Come(DOMAIN R, at, none \o next, seen, visited),
                    Head(next), Tail(next), none, hop + 1, seen, visited)
<1> DEFINE N == DOMAIN R
           E == Edges(R)
           W(h) == Within(E, N, root, h)
           t == Head(next)
           s == Tail(next)
<1>1. /\ next \o none = next /\ none \o next = next /\ t \in N /\ s \in Seq(N)
      /\ Taken(next \o none, t, s \o none)
      /\ On(next, t) /\ \A n : On(s, n) => On(next, n)
  <2>1. none \in Seq(N)
    BY EmptySeq
  <2> QED BY <2>1, QueueFacts
<1>2. none \in Seq(N) /\ \A i \in 1 .. Len(none) : FALSE
  BY EmptySeq
<1>3. Below(R, root, at, next, seen, visited)
  BY <1>1 DEF Spreading
<1>4. BelowTaken(R, root, at, next, seen, visited, t, s \o none)
  <2> HIDE DEF t, s
  <2> QED BY <1>1, <1>3, BelowNext
<1>5. visited = W(hop + 1)
  BY HopRead
<1>6. W(hop + 1) \subseteq W((hop + 1) + 1)
  <2>1. hop + 1 \in Nat
    OBVIOUS
  <2> QED BY <2>1, RowsWithin
<1>7. t \in W(hop + 1) /\ \A i \in 1 .. Len(s) : s[i] \in W(hop + 1)
  <2>1. \A n : On(next, n) => n \in visited
    BY <1>3 DEF Below, On
  <2> HIDE DEF W, t, s
  <2>2. \A i \in 1 .. Len(s) : On(s, s[i])
    BY DEF On
  <2> QED BY <1>1, <1>5, <2>1, <2>2
<1>8. (hop + 1) + 1 <= depth /\ hop + 1 \in Nat
  OBVIOUS
<1>9. Spreading(R, root, depth, t, s, none, hop + 1, seen, visited)
  <2> HIDE DEF t, s
  <2> QED BY <1>2, <1>4, <1>5, <1>6, <1>7, <1>8 DEF Spreading, BelowTaken
<1> HIDE DEF t, s
<1>10. SpreadTo(R, root, depth, Come(N, at, none \o next, seen, visited),
                t, s, none, hop + 1, seen, visited)
  BY <1>1, <1>2, <1>4, <1>8, <1>9 DEF SpreadTo, BelowTaken
<1> QED BY <1>10 DEF t, s

\* A round of the loop, by the fields of its state.
LEMMA SpreadRoundIs ==
    ASSUME NEW R, IsRows(R), NEW limit, NEW root \in DOMAIN R, NEW depth \in Nat, NEW r,
           SpreadOK(R, root, depth, r)
    PROVE  /\ SpreadOK(R, root, depth, SpreadRound(R, limit, depth, r))
           /\ SpreadEnded(R, limit, depth, r) => SpreadRound(R, limit, depth, r) = r
           /\ ~SpreadEnded(R, limit, depth, r)
                 => Ahead(DOMAIN R, SpreadFar(r), SpreadFar(SpreadRound(R, limit, depth, r)))
<1> DEFINE N == DOMAIN R
           q == SpreadRound(R, limit, depth, r)
           at == r.at
           frontier == r.frontier
           next == r.next
           hop == r.hop
           seen == r.seen
           visited == r.visited
           more == frontier # <<>> \/ (next # <<>> /\ hop + 1 < depth)
<1>1. /\ r = [at |-> at, frontier |-> frontier, next |-> next, hop |-> hop, seen |-> seen,
              visited |-> visited]
      /\ at \in N /\ frontier \in Seq(N) /\ next \in Seq(N) /\ hop \in Nat
      /\ seen \in [N -> Nat] /\ visited \in SUBSET N
      /\ Spreading(R, root, depth, at, frontier, next, hop, seen, visited)
  BY DEF SpreadOK, Spread
<1>2. seen[at] \in Nat /\ Len(R[at]) \in Nat /\ seen[at] <= Len(R[at])
  BY <1>1, RowsAre DEF Spreading, Below
<1>3. SpreadEnded(R, limit, depth, r) => q = r
  BY <1>2 DEF SpreadEnded, SpreadRound
<1>4. SpreadFar(r) = Come(N, at, frontier \o next, seen, visited)
  BY <1>1 DEF SpreadFar
<1>5. MoreTags(depth, r) <=> more
  BY DEF MoreTags
<1>6. CASE seen[at] < Len(R[at])
  <2> DEFINE m == R[at][seen[at] + 1]
             next2 == IF m \in visited THEN next ELSE Append(next, m)
             seen2 == [seen EXCEPT ![at] = @ + 1]
  <2>1. q = [at |-> at, frontier |-> frontier, next |-> next2, hop |-> hop, seen |-> seen2,
             visited |-> visited \cup {m}]
    <3>1. CASE m \in visited
      <4>1. q = [r EXCEPT !.seen = seen2] /\ visited \cup {m} = visited /\ next2 = next
        BY <1>6, <3>1 DEF SpreadRound
      <4> HIDE DEF m, next2, seen2, q, at, frontier, next, hop, seen, visited
      <4> QED BY <1>1, <4>1
    <3>2. CASE m \notin visited
      <4>1. /\ q = [r EXCEPT !.seen = seen2, !.visited = visited \cup {m}, !.next = next2]
            /\ next2 = Append(next, m)
        BY <1>6, <3>2 DEF SpreadRound
      <4> HIDE DEF m, next2, seen2, q, at, frontier, next, hop, seen, visited
      <4> QED BY <1>1, <4>1
    <3> QED BY <3>1, <3>2
  <2> HIDE DEF q, at, frontier, next, hop, seen, visited
  <2>2. /\ next2 \in Seq(N) /\ seen2 \in [N -> Nat] /\ visited \cup {m} \in SUBSET N
        /\ Spreading(R, root, depth, at, frontier, next2, hop, seen2, visited \cup {m})
        /\ Ahead(N, Come(N, at, frontier \o next, seen, visited),
                    Come(N, at, frontier \o next2, seen2, visited \cup {m}))
    <3>1. SpreadAfter(R, root, depth, at, frontier, next, hop, seen, visited)
      <4> HIDE DEF m, next2, seen2
      <4> QED BY <1>1, <1>6, SpreadRead
    <3> QED BY <3>1 DEF SpreadAfter
  <2> HIDE DEF m, next2, seen2
  <2>3. SpreadOK(R, root, depth, q)
    BY <1>1, <2>1, <2>2 DEF SpreadOK, Spread
  <2>4. SpreadFar(q) = Come(N, at, frontier \o next2, seen2, visited \cup {m})
    BY <2>1, <2>2 DEF SpreadFar
  <2>5. ~SpreadEnded(R, limit, depth, r)
    BY <1>2, <1>6, <1>1 DEF SpreadEnded, at, seen
  <2> QED BY <1>4, <2>2, <2>3, <2>4, <2>5 DEF q
<1>7. CASE seen[at] = Len(R[at]) /\ frontier # <<>> /\ ~Full(visited, limit)
  <2> DEFINE t == Head(frontier)
             s == Tail(frontier)
  <2>1. q = [at |-> t, frontier |-> s, next |-> next, hop |-> hop, seen |-> seen,
             visited |-> visited]
    <3>1. q = [r EXCEPT !.at = t, !.frontier = s]
      BY <1>2, <1>5, <1>7 DEF SpreadRound
    <3> HIDE DEF t, s, q, at, frontier, next, hop, seen, visited
    <3> QED BY <1>1, <3>1
  <2>2. ~SpreadEnded(R, limit, depth, r)
    BY <1>5, <1>7 DEF SpreadEnded
  <2> HIDE DEF q, at, frontier, next, hop, seen, visited
  <2>3. SpreadTo(R, root, depth, Come(N, at, frontier \o next, seen, visited),
                 t, s, next, hop, seen, visited)
    BY <1>1, <1>7, SpreadNext
  <2> HIDE DEF t, s
  <2>4. SpreadOK(R, root, depth, q)
    BY <1>1, <2>1, <2>3 DEF SpreadOK, Spread, SpreadTo
  <2>5. SpreadFar(q) = Come(N, t, s \o next, seen, visited)
    BY <1>1, <2>1 DEF SpreadFar
  <2> QED BY <1>4, <2>2, <2>3, <2>4, <2>5 DEF q, SpreadTo
<1>8. CASE /\ seen[at] = Len(R[at]) /\ frontier = <<>> /\ ~Full(visited, limit)
           /\ next # <<>> /\ hop + 1 < depth
  <2> DEFINE t == Head(next)
             s == Tail(next)
             none == <<>>
  <2>1. q = [at |-> t, frontier |-> s, next |-> none, hop |-> hop + 1, seen |-> seen,
             visited |-> visited]
    <3>1. q = [r EXCEPT !.at = t, !.frontier = s, !.next = none, !.hop = hop + 1]
      BY <1>2, <1>5, <1>8 DEF SpreadRound
    <3> HIDE DEF t, s, none, q, at, frontier, next, hop, seen, visited
    <3> QED BY <1>1, <3>1
  <2>2. ~SpreadEnded(R, limit, depth, r)
    BY <1>5, <1>8 DEF SpreadEnded
  <2> HIDE DEF q, at, frontier, next, hop, seen, visited
  <2>3. frontier = none
    BY <1>8
  <2>4. SpreadTo(R, root, depth, Come(N, at, frontier \o next, seen, visited),
                 t, s, none, hop + 1, seen, visited)
    <3>1. SpreadTo(R, root, depth, Come(N, at, frontier \o next, seen, visited),
                   t, s, frontier, hop + 1, seen, visited)
      <4> HIDE DEF none
      <4> QED BY <1>1, <1>8, SpreadHop
    <3> HIDE DEF none, t, s
    <3> QED BY <2>3, <3>1
  <2> HIDE DEF t, s, none
  <2>5. SpreadOK(R, root, depth, q)
    BY <1>1, <2>1, <2>4 DEF SpreadOK, Spread, SpreadTo
  <2>6. SpreadFar(q) = Come(N, t, s \o none, seen, visited)
    BY <1>1, <2>1 DEF SpreadFar
  <2> QED BY <1>4, <2>2, <2>4, <2>5, <2>6 DEF q, SpreadTo
<1>9. CASE seen[at] = Len(R[at]) /\ (~more \/ Full(visited, limit))
  <2>1. SpreadEnded(R, limit, depth, r)
    BY <1>5, <1>9 DEF SpreadEnded
  <2> QED BY <1>3, <2>1
<1>10. seen[at] < Len(R[at]) \/ seen[at] = Len(R[at])
  BY <1>2
<1> HIDE DEF at, frontier, next, hop, seen, visited, q
<1> QED BY <1>6, <1>7, <1>8, <1>9, <1>10 DEF q

\* A finite set as a sequence: each member stands in one place.
LEMMA SeqOfSet ==
    ASSUME NEW S, IsFiniteSet(S), NEW s, s = SetToSeq(S)
    PROVE  /\ Cardinality(S) \in Nat
           /\ s \in [1 .. Cardinality(S) -> S]
           /\ \A i, j \in 1 .. Cardinality(S) : s[i] = s[j] => i = j
           /\ \A x \in S : \E i \in 1 .. Cardinality(S) : s[i] = x
<1> DEFINE K == Cardinality(S)
<1>1. K \in Nat /\ ExistsBijection(1 .. K, S)
  BY FS_CardinalityType
<1>2. PICK f \in Bijection(1 .. K, S) : TRUE
  BY <1>1 DEF ExistsBijection
<1>3. f \in [1 .. K -> S] /\ IsInjective(f)
  BY <1>2 DEF Bijection, Injection
<1>4. s \in [1 .. K -> S] /\ IsInjective(s)
  BY <1>3 DEF SetToSeq
<1>5. s \in Injection(1 .. K, S)
  BY <1>4 DEF Injection
<1>6. IsFiniteSet(1 .. K) /\ Cardinality(1 .. K) = K
  <2> HIDE DEF K
  <2>1. Cardinality(1 .. K) = (IF 1 > K THEN 0 ELSE K - 1 + 1) /\ IsFiniteSet(1 .. K)
    BY <1>1, FS_Interval
  <2> QED BY <1>1, <2>1
<1>7. s \in Surjection(1 .. K, S)
  BY <1>5, <1>6, FS_Injection
<1>8. \A x \in S : \E i \in 1 .. K : s[i] = x
  BY <1>7 DEF Surjection
<1>9. \A i, j \in 1 .. K : s[i] = s[j] => i = j
  BY <1>4 DEF IsInjective
<1> QED BY <1>1, <1>4, <1>8, <1>9

\* An edge, by the rows.
LEMMA EdgeOn ==
    ASSUME NEW R, IsRows(R), NEW a \in DOMAIN R, NEW b \in DOMAIN R
    PROVE  <<a, b>> \in Edges(R) <=> On(R[a], b)
BY EdgesAre DEF On

\* The rows that findRelated() reads are those of the edges in both directions.
LEMMA BothWaysAre ==
    ASSUME NEW G, IsGraph(G), NEW R, R = BothWays(G)
    PROVE  /\ IsRows(R) /\ DOMAIN R = DOMAIN G
           /\ \A n \in DOMAIN G : Len(R[n]) <= 2 * Cardinality(DOMAIN G)
           /\ Edges(R) = Edges(G) \cup {<<e[2], e[1]>> : e \in Edges(G)}
<1> DEFINE N == DOMAIN G
           into(n) == {m \in N : n \in ToSet(G[m])}
<1>1. IsRows(G) /\ IsFiniteSet(N) /\ Cardinality(N) \in Nat
  BY FS_CardinalityType DEF IsGraph, IsRows
<1>2. ASSUME NEW n \in N
      PROVE  /\ R[n] = G[n] \o SetToSeq(into(n)) /\ R[n] \in Seq(N)
             /\ Len(R[n]) <= 2 * Cardinality(N)
             /\ \A m : On(R[n], m) <=> On(G[n], m) \/ m \in into(n)
  <2>1. PICK s : s = SetToSeq(into(n))
    OBVIOUS
  <2> DEFINE k == Cardinality(into(n))
  <2>2. IsFiniteSet(into(n)) /\ into(n) \subseteq N /\ k <= Cardinality(N)
    BY <1>1, FS_Subset
  <2>3. /\ k \in Nat /\ s \in [1 .. k -> into(n)]
        /\ \A x \in into(n) : \E i \in 1 .. k : s[i] = x
    <3> HIDE DEF into
    <3> QED BY <2>1, <2>2, SeqOfSet
  <2> HIDE DEF into, k
  <2>4. s \in Seq(N) /\ Len(s) = k
    <3>1. s \in [1 .. k -> N]
      BY <2>2, <2>3
    <3> HIDE DEF N
    <3>2. s \in Seq(N)
      BY <2>3, <3>1, SeqDef
    <3>3. DOMAIN s = 1 .. k
      BY <3>1
    <3>4. Len(s) = k
      BY <2>3, <3>2, <3>3, LenProperties
    <3> QED BY <3>2, <3>4
  <2>5. \A m : On(s, m) <=> m \in into(n)
    BY <2>3, <2>4 DEF On
  <2>6. R[n] = G[n] \o s
    BY <2>1 DEF BothWays, into
  <2>7. G[n] \in Seq(N) /\ Len(G[n]) \in Nat /\ Len(G[n]) <= Cardinality(N)
    BY <1>1, RowsAre, GraphRows DEF IsRows
  <2>8. R[n] \in Seq(N) /\ Len(R[n]) = Len(G[n]) + k
    BY <2>4, <2>6, <2>7, ConcatProperties
  <2>9. \A m : On(R[n], m) <=> On(G[n], m) \/ On(s, m)
    BY <2>4, <2>6, <2>7, QueueFacts
  <2>10. Len(R[n]) <= 2 * Cardinality(N)
    BY <1>1, <2>2, <2>3, <2>7, <2>8
  <2> QED BY <2>1, <2>5, <2>6, <2>8, <2>9, <2>10
<1>3. DOMAIN R = N
  BY DEF BothWays
<1>4. R \in [N -> Seq(N)]
  <2> HIDE DEF N
  <2>1. R = [n \in N |-> R[n]]
    BY DEF BothWays, N
  <2> QED BY <1>2, <2>1
<1>5. IsRows(R)
  BY <1>1, <1>3, <1>4 DEF IsRows
<1>6. \A a, b \in N : <<a, b>> \in Edges(G) <=> On(G[a], b)
  BY <1>1, EdgeOn
<1>7. \A a, b \in N : <<a, b>> \in Edges(R) <=> On(R[a], b)
  <2>1. \A a, b \in DOMAIN R : <<a, b>> \in Edges(R) <=> On(R[a], b)
    BY <1>5, EdgeOn
  <2> QED BY <1>3, <2>1
<1>8. \A a, b \in N : b \in into(a) <=> <<b, a>> \in Edges(G)
  BY DEF Edges
<1>9. Edges(G) \subseteq N \X N /\ Edges(R) \subseteq N \X N
  BY <1>1, <1>3, <1>5, EdgesAre
<1> HIDE DEF into, N
<1>10. \A a, b \in N : <<a, b>> \in Edges(R) <=> <<a, b>> \in Edges(G) \/ <<b, a>> \in Edges(G)
  BY <1>2, <1>6, <1>7, <1>8
<1>11. Edges(R) = Edges(G) \cup {<<e[2], e[1]>> : e \in Edges(G)}
  <2>1. ASSUME NEW f \in Edges(R)
        PROVE  f \in Edges(G) \/ \E e \in Edges(G) : f = <<e[2], e[1]>>
    <3>1. PICK a \in N, b \in N : f = <<a, b>>
      BY <1>9, <2>1
    <3>2. CASE <<b, a>> \in Edges(G)
      <4>1. f = << <<b, a>>[2], <<b, a>>[1] >>
        BY <3>1
      <4> QED BY <3>2, <4>1
    <3> QED BY <1>10, <2>1, <3>1, <3>2
  <2>2. ASSUME NEW e \in Edges(G) PROVE e \in Edges(R) /\ <<e[2], e[1]>> \in Edges(R)
    <3>1. PICK a \in N, b \in N : e = <<a, b>>
      BY <1>9, <2>2
    <3>2. e[1] = a /\ e[2] = b
      BY <3>1
    <3> QED BY <1>10, <2>2, <3>1, <3>2
  <2> QED BY <2>1, <2>2
<1> QED BY <1>2, <1>3, <1>5, <1>11 DEF N

\* What is closed under the rows has all that is within any distance.
LEMMA ClosedWithin ==
    ASSUME NEW R, IsRows(R), NEW root \in DOMAIN R, NEW V, root \in V,
           \A a, b \in DOMAIN R : a \in V /\ <<a, b>> \in Edges(R) => b \in V,
           NEW d \in Nat
    PROVE  Within(Edges(R), DOMAIN R, root, d) \subseteq V
<1> DEFINE W(h) == Within(Edges(R), DOMAIN R, root, h)
           T == {h \in Nat : W(h) \subseteq V}
<1>1. 0 \in T
  BY WithinStart
<1>2. ASSUME NEW h \in Nat, h \in T PROVE h + 1 \in T
  <2>1. W(h) \subseteq DOMAIN R
    BY RowsWithin
  <2>2. \A k \in W(h + 1) : k \in W(h) \/ \E m \in W(h) : <<m, k>> \in Edges(R)
    BY RowsWithin
  <2>3. W(h + 1) \subseteq DOMAIN R
    <3>1. h + 1 \in Nat
      OBVIOUS
    <3> QED BY <3>1, RowsWithin
  <2>4. W(h) \subseteq V
    BY <1>2
  <2> HIDE DEF W
  <2>5. W(h + 1) \subseteq V
    BY <2>1, <2>2, <2>3, <2>4
  <2> QED BY <2>5
<1>3. Nat \subseteq T
  <2> HIDE DEF T
  <2> QED BY <1>1, <1>2, AllNat
<1> QED BY <1>3

\* findRelated() ends.  Then it has visited just the tags within the distance, along
\* edges of both directions, or it has thrown, and then they are as many as the limit.
THEOREM RelatedWithin ==
    ASSUME NEW G, IsGraph(G), NEW root \in DOMAIN G, NEW limit \in Nat, limit >= 2,
           NEW depth \in Nat
    PROVE  Whole(RelatedTags(G, limit, root, depth), limit,
                 Within(Edges(G) \cup {<<e[2], e[1]>> : e \in Edges(G)}, DOMAIN G, root, depth))
<1>1. PICK R : R = BothWays(G)
  OBVIOUS
<1>2. /\ IsRows(R) /\ DOMAIN R = DOMAIN G
      /\ \A n \in DOMAIN G : Len(R[n]) <= 2 * Cardinality(DOMAIN G)
      /\ Edges(R) = Edges(G) \cup {<<e[2], e[1]>> : e \in Edges(G)}
  BY <1>1, BothWaysAre
<1> DEFINE N == DOMAIN R
           W(h) == Within(Edges(R), N, root, h)
           I == {q \in Spread(N) : SpreadOK(R, root, depth, q)}
           D == {q \in I : SpreadEnded(R, limit, depth, q)}
           round == [q \in Spread(N) |-> SpreadRound(R, limit, depth, q)]
           start == SpreadStart(N, root)
           most == 2 * Cardinality(N)
           p == [q \in I |-> SpreadFar(q)]
           r == Rounds(round, start)[Cardinality(N) * (most + 2)]
<1>3. IsFiniteSet(N) /\ Cardinality(N) \in Nat /\ most \in Nat /\ most + 2 \in Nat /\ root \in N
  BY <1>2, FS_CardinalityType DEF IsRows
<1>4. RelatedTags(G, limit, root, depth) =
         IF depth = 0 THEN {root} ELSE IF MoreTags(depth, r) THEN Thrown ELSE r.visited
  BY <1>1, <1>2 DEF RelatedTags, Enough
<1>5. CASE depth = 0
  <2>1. W(0) = {root}
    BY <1>3, WithinStart
  <2> HIDE DEF r, N
  <2> QED BY <1>2, <1>4, <1>5, <2>1 DEF Whole, N
<1>6. ASSUME depth # 0 PROVE start \in I
  <2>1. start \in Spread(N)
    <3>1. <<>> \in Seq(N)
      BY EmptySeq
    <3> QED BY <1>3, <3>1 DEF SpreadStart, Spread
  <2>2. /\ start.at = root /\ start.frontier = <<>> /\ start.next = <<>> /\ start.hop = 0
        /\ start.visited = {root} /\ start.seen = [n \in N |-> 0]
    BY DEF SpreadStart
  <2>3. Below(R, root, root, <<>>, [n \in N |-> 0], {root})
    BY <1>2, <1>3, BelowStart
  <2>4. W(0) = {root} /\ W(0) \subseteq W(0 + 1)
    <3>1. 0 \in Nat
      OBVIOUS
    <3> QED BY <1>2, <1>3, <3>1, WithinStart, RowsWithin
  <2> DEFINE none == <<>>
  <2>5. none \o none = none /\ \A i \in 1 .. Len(none) : FALSE
    <3>1. none \in Seq(N)
      BY EmptySeq
    <3> QED BY <3>1, ConcatEmptySeq, EmptySeq
  <2>6. 0 + 1 <= depth
    BY <1>6
  <2> HIDE DEF none, start
  <2>7. Spreading(R, root, depth, root, none, none, 0, [n \in N |-> 0], {root})
    BY <2>3, <2>4, <2>5, <2>6 DEF Spreading, none
  <2> QED BY <2>1, <2>2, <2>7 DEF SpreadOK, none
<1>7. \A q \in I : round[q] = SpreadRound(R, limit, depth, q)
  OBVIOUS
<1>8. \A q \in I : round[q] \in I
  <2>1. TAKE q \in I
  <2>2. SpreadOK(R, root, depth, SpreadRound(R, limit, depth, q))
    BY <1>2, <1>3, SpreadRoundIs
  <2>3. SpreadRound(R, limit, depth, q) \in Spread(N)
    BY <2>2 DEF SpreadOK
  <2> QED BY <1>7, <2>2, <2>3
<1>9. \A q \in D : round[q] \in D
  <2>1. TAKE q \in D
  <2>2. SpreadRound(R, limit, depth, q) = q
    BY <1>2, <1>3, SpreadRoundIs
  <2> QED BY <1>7, <2>2
<1>10. p \in [I -> [N -> 0 .. most + 2]]
  <2>1. SUFFICES ASSUME NEW q \in I PROVE SpreadFar(q) \in [N -> 0 .. most + 2]
    OBVIOUS
  <2>2. q.seen \in [N -> Nat] /\ Below(R, root, q.at, q.frontier \o q.next, q.seen, q.visited)
    BY <2>1 DEF SpreadOK, Spread, Spreading
  <2>3. Come(N, q.at, q.frontier \o q.next, q.seen, q.visited) \in [N -> 0 .. most + 2]
    <3>1. \A n \in N : Len(R[n]) <= most
      BY <1>2
    <3> HIDE DEF most
    <3> QED BY <1>2, <1>3, <2>2, <3>1, ComeBounded
  <2> QED BY <2>2, <2>3 DEF SpreadFar
<1>11. \A q \in I \ D : /\ \A n \in N : p[q][n] <= p[round[q]][n]
                        /\ \E n \in N : p[q][n] < p[round[q]][n]
  <2>1. TAKE q \in I \ D
  <2>2. p[q] = SpreadFar(q) /\ p[round[q]] = SpreadFar(SpreadRound(R, limit, depth, q))
    BY <1>7, <1>8
  <2>3. SpreadOK(R, root, depth, q) /\ ~SpreadEnded(R, limit, depth, q)
    OBVIOUS
  <2>4. Ahead(N, SpreadFar(q), SpreadFar(SpreadRound(R, limit, depth, q)))
    BY <1>2, <1>3, <2>3, SpreadRoundIs
  <2> HIDE DEF p, round, N
  <2> QED BY <2>2, <2>4 DEF Ahead
<1>12. D \in SUBSET I
  OBVIOUS
<1>13. ASSUME depth # 0 PROVE r \in D
  <2> HIDE DEF D, I, p, round, start, most, N
  <2>1. Loop(N, most + 2, round, start, I, p, D)
    BY <1>3, <1>6, <1>8, <1>9, <1>10, <1>11, <1>12, <1>13 DEF Loop
  <2> QED BY <2>1, RoundsEnd
<1> HIDE DEF r
<1>14. CASE depth # 0
  <2>1. /\ r \in Spread(N) /\ SpreadEnded(R, limit, depth, r)
        /\ Spreading(R, root, depth, r.at, r.frontier, r.next, r.hop, r.seen, r.visited)
    BY <1>13, <1>14 DEF SpreadOK
  <2> DEFINE at == r.at
             frontier == r.frontier
             next == r.next
             hop == r.hop
             seen == r.seen
             visited == r.visited
  <2>2. /\ at \in N /\ frontier \in Seq(N) /\ next \in Seq(N) /\ hop \in Nat
        /\ seen \in [N -> Nat] /\ visited \in SUBSET N
        /\ Spreading(R, root, depth, at, frontier, next, hop, seen, visited)
        /\ seen[at] = Len(R[at]) /\ (~MoreTags(depth, r) \/ Full(visited, limit))
    BY <2>1 DEF Spread, SpreadEnded
  <2>3. MoreTags(depth, r) <=> frontier # <<>> \/ (next # <<>> /\ hop + 1 < depth)
    BY DEF MoreTags
  <2> HIDE DEF at, frontier, next, hop, seen
  <2>4. hop + 1 <= depth /\ visited \subseteq W(hop + 1)
        /\ Below(R, root, at, frontier \o next, seen, visited)
    BY <2>2 DEF Spreading
  <2>5. visited \subseteq W(depth)
    <3>1. \A j \in 0 .. hop + 1 : j \in 0 .. depth
      BY <2>2, <2>4
    <3>2. W(hop + 1) \subseteq W(depth)
      BY <3>1, WithinMember
    <3> QED BY <2>4, <3>2
  <2>6. CASE MoreTags(depth, r)
    <3>1. Cardinality(visited) >= limit
      BY <2>2, <2>6 DEF Full
    <3>2. W(depth) \subseteq N
      BY <1>2, <1>3, RowsWithin
    <3> HIDE DEF W, visited
    <3>3. IsFiniteSet(W(depth)) /\ IsFiniteSet(visited)
      BY <1>3, <2>2, <3>2, FS_Subset
    <3>4. /\ Cardinality(visited) <= Cardinality(W(depth))
          /\ Cardinality(visited) \in Nat /\ Cardinality(W(depth)) \in Nat
      BY <2>5, <3>3, FS_Subset, FS_CardinalityType
    <3>5. Cardinality(W(depth)) >= limit
      BY <3>1, <3>4
    <3>6. RelatedTags(G, limit, root, depth) = Thrown
      BY <1>4, <1>14, <2>6
    <3> QED BY <1>2, <3>5, <3>6 DEF Whole, W
  <2>7. CASE ~MoreTags(depth, r)
    <3>1. frontier = <<>> /\ (next = <<>> \/ ~(hop + 1 < depth))
      BY <2>3, <2>7
    <3>2. W(depth) \subseteq visited
      <4>1. CASE next = <<>>
        <5> DEFINE none == <<>>
        <5>1. none \in Seq(N) /\ frontier = none /\ next = none /\ none \o none = none
          <6>1. none \in Seq(N) /\ frontier = none /\ next = none
            BY <3>1, <4>1, EmptySeq
          <6>2. none \o <<>> = none
            BY <6>1, QueueFacts
          <6> QED BY <6>1, <6>2
        <5>2. Below(R, root, at, none, seen, visited)
          BY <2>4, <5>1
        <5>3. \A a, b \in N : a \in visited /\ <<a, b>> \in Edges(R) => b \in visited
          BY <1>2, <1>3, <2>2, <5>2, BelowEnded
        <5>4. root \in visited
          BY <2>4 DEF Below
        <5> HIDE DEF N
        <5> QED BY <1>2, <1>3, <5>3, <5>4, ClosedWithin DEF N
      <4>2. CASE ~(hop + 1 < depth)
        <5>1. hop + 1 = depth
          BY <2>2, <2>4, <4>2
        <5>2. visited = W(hop + 1)
          BY <1>2, <1>3, <2>2, <3>1, HopRead
        <5> QED BY <5>1, <5>2
      <4> QED BY <3>1, <4>1, <4>2
    <3>3. RelatedTags(G, limit, root, depth) = W(depth)
      BY <1>4, <1>14, <2>5, <2>7, <3>2
    <3> QED BY <1>2, <3>3 DEF Whole
  <2> QED BY <2>6, <2>7
<1> QED BY <1>5, <1>14

-----------------------------------------------------------------------------
(* getTagTree(): the calls of buildNode() are a path from the root, and    *)
(* the tag at a place on it is no further from the root than the place.    *)
\* A stack with no node twice is no longer than there are nodes, and has all when it
\* is as long.
LEMMA FullStack ==
    ASSUME NEW N, IsFiniteSet(N), NEW s \in Seq(N),
           \A i, j \in 1 .. Len(s) : s[i] = s[j] => i = j
    PROVE  /\ Cardinality(N) \in Nat /\ Len(s) <= Cardinality(N)
           /\ Len(s) >= Cardinality(N) => \A n \in N : On(s, n)
<1> DEFINE L == Len(s)
<1>1. L \in Nat /\ s \in [1 .. L -> N]
  BY LenProperties
<1>2. Cardinality(N) \in Nat
  BY FS_CardinalityType
<1>3. s \in Injection(1 .. L, N)
  BY <1>1 DEF Injection, IsInjective
<1>4. Cardinality(1 .. L) = L
  <2> HIDE DEF L
  <2>1. Cardinality(1 .. L) = IF 1 > L THEN 0 ELSE L - 1 + 1
    BY <1>1, FS_Interval, SMTT(30)
  <2> QED BY <1>1, <2>1
<1>5. /\ Cardinality(1 .. L) <= Cardinality(N)
      /\ Cardinality(1 .. L) = Cardinality(N) => s \in Surjection(1 .. L, N)
  BY <1>3, FS_Injection
<1>6. ASSUME L >= Cardinality(N), NEW n \in N PROVE On(s, n)
  <2>1. L = Cardinality(N)
    BY <1>1, <1>2, <1>4, <1>5, <1>6
  <2>2. \E i \in 1 .. L : s[i] = n
    BY <1>4, <1>5, <2>1 DEF Surjection
  <2> QED BY <2>2 DEF On
<1> QED BY <1>1, <1>2, <1>4, <1>5, <1>6

Grown(G, root, d, path, seen, visited) ==
    /\ root \in visited
    /\ visited \subseteq Within(Edges(G), DOMAIN G, root, d)
    /\ visited \subseteq Reach(Edges(G), DOMAIN G, root)
    /\ Len(path) <= d + 1
    /\ \A i \in 1 .. Len(path) : /\ path[i] \in visited
                                 /\ path[i] \in Within(Edges(G), DOMAIN G, root, i - 1)
    /\ \A i, j \in 1 .. Len(path) : path[i] = path[j] => i = j
    /\ \A n \in DOMAIN G :
          /\ seen[n] <= Len(G[n])
          /\ n \notin visited => seen[n] = 0
          /\ \A i \in 1 .. seen[n] : G[n][i] \in visited
          /\ d + 1 >= Cardinality(DOMAIN G) /\ n \in visited /\ ~On(path, n)
                => \A i \in 1 .. Len(G[n]) : G[n][i] \in visited

GrownOK(G, root, d, r) ==
    r \in Building(DOMAIN G) /\ Grown(G, root, d, r.path, r.seen, r.visited)

(* What holds once the next child is read.                                 *)
GrownAfter(G, root, d, n, path, seen, visited) ==
    LET m     == G[n][seen[n] + 1]
        path2 == IF m \in visited THEN path ELSE Append(path, m)
        seen2 == [seen EXCEPT ![n] = @ + 1]
    IN  /\ path2 \in Seq(DOMAIN G) /\ seen2 \in [DOMAIN G -> Nat]
        /\ visited \cup {m} \in SUBSET DOMAIN G
        /\ Grown(G, root, d, path2, seen2, visited \cup {m})
        /\ \A k \in DOMAIN G : On(path2, k) <=> On(path, k) \/ (k = m /\ m \notin visited)

\* A child is read.
LEMMA GrownRead ==
    ASSUME NEW G, IsGraph(G), NEW root \in DOMAIN G, NEW d \in Nat,
           NEW path \in Seq(DOMAIN G), NEW seen \in [DOMAIN G -> Nat],
           NEW visited \in SUBSET DOMAIN G,
           Grown(G, root, d, path, seen, visited), path # <<>>, Len(path) <= d,
           NEW n, n = Last(path), seen[n] < Len(G[n])
    PROVE  GrownAfter(G, root, d, n, path, seen, visited)
<1> DEFINE m == G[n][seen[n] + 1]
           path2 == IF m \in visited THEN path ELSE Append(path, m)
           seen2 == [seen EXCEPT ![n] = @ + 1]
           N == DOMAIN G
           E == Edges(G)
           L == Len(path)
           W(i) == Within(E, N, root, i)
<1>1. /\ m = G[n][seen[n] + 1] /\ seen2 = [seen EXCEPT ![n] = @ + 1]
      /\ path2 = IF m \in visited THEN path ELSE Append(path, m)
  OBVIOUS
<1> HIDE DEF m, path2, seen2
<1> USE <1>1
<1>2. L \in Nat /\ L # 0 /\ L \in 1 .. L /\ path[L] = n /\ n \in N
  <2>1. L \in Nat /\ L # 0 /\ \A i \in 1 .. L : path[i] \in N
    BY StackFacts
  <2>2. path[L] = n
    BY StackFacts
  <2>3. L \in 1 .. L
    BY <2>1
  <2> QED BY <2>1, <2>2, <2>3
<1>3. /\ \A k \in N : Len(G[k]) \in Nat
      /\ seen[n] \in Nat /\ seen[n] + 1 \in 1 .. Len(G[n])
      /\ m \in N
  <2>1. \A k \in N : Len(G[k]) \in Nat /\ \A i \in 1 .. Len(G[k]) : G[k][i] \in N
    BY RowsAre DEF IsGraph
  <2>2. seen[n] \in Nat /\ Len(G[n]) \in Nat
    BY <1>2, <2>1
  <2>3. seen[n] + 1 \in 1 .. Len(G[n])
    BY <2>2
  <2> QED BY <1>2, <2>1, <2>2, <2>3
<1>4. <<n, m>> \in E /\ E \in SUBSET (N \X N)
  <2>1. IsRows(G)
    BY DEF IsGraph
  <2>2. E \subseteq N \X N /\ (<<n, m>> \in E <=> \E i \in 1 .. Len(G[n]) : G[n][i] = m)
    BY <1>2, <1>3, <2>1, EdgesAre
  <2> QED BY <1>3, <2>2
<1>5. m \in Reach(E, N, root)
  <2>1. n \in Reach(E, N, root)
    BY <1>2 DEF Grown
  <2> HIDE DEF N, E
  <2> QED BY <1>2, <1>3, <1>4, <2>1, ReachFacts, SMTT(30) DEF N
<1>6. m \in W(L) /\ W(L) \subseteq W(d)
  <2> DEFINE j == L - 1
  <2>1. j \in Nat /\ j + 1 = L
    BY <1>2
  <2>2. n \in Within(E, N, root, j)
    BY <1>2 DEF Grown
  <2>3. m \in W(L)
    <3> HIDE DEF j
    <3> HIDE DEF N, E
    <3>1. \A a, b \in N : a \in Within(E, N, root, j) /\ <<a, b>> \in E
                              => b \in Within(E, N, root, j + 1)
      BY <1>4, <2>1, WithinNext DEF N
    <3>2. m \in Within(E, N, root, j + 1)
      BY <1>2, <1>3, <1>4, <2>2, <3>1
    <3> QED BY <2>1, <3>2 DEF E, N
  <2>4. \A i \in 0 .. L : i \in 0 .. d
    BY <1>2
  <2>5. W(L) \subseteq W(d)
    BY <2>4, WithinMember, SMTT(30)
  <2> QED BY <2>3, <2>5
<1>7. /\ Append(path, m) \in Seq(N)
      /\ Len(Append(path, m)) = L + 1
      /\ \A i \in 1 .. L : Append(path, m)[i] = path[i]
      /\ Append(path, m)[L + 1] = m
  BY <1>3, StackFacts
<1>8. ASSUME m \notin visited
      PROVE  /\ path2 = Append(path, m) /\ Len(path2) = L + 1
             /\ \A i \in 1 .. Len(path2) : path2[i] = IF i = L + 1 THEN m ELSE path[i]
  BY <1>2, <1>7, <1>8
<1>9. \A k \in N : On(path2, k) <=> On(path, k) \/ (k = m /\ m \notin visited)
  <2>1. SUFFICES ASSUME m \notin visited, NEW k \in N
                 PROVE  On(path2, k) <=> On(path, k) \/ k = m
    OBVIOUS
  <2>2. ASSUME On(path2, k) PROVE On(path, k) \/ k = m
    BY <1>2, <1>8, <2>1, <2>2 DEF On
  <2>3. ASSUME On(path, k) PROVE On(path2, k)
    BY <1>2, <1>8, <2>1, <2>3 DEF On
  <2>4. On(path2, m)
    <3>1. L + 1 \in 1 .. Len(path2)
      BY <1>2, <1>8, <2>1
    <3> QED BY <1>8, <2>1, <3>1 DEF On
  <2> QED BY <2>2, <2>3, <2>4
<1>10. path2 \in Seq(N) /\ seen2 \in [N -> Nat] /\ visited \cup {m} \in SUBSET N
  <2>1. seen2 \in [N -> Nat]
    BY <1>2, <1>3
  <2>2. path2 \in Seq(N)
    BY <1>7
  <2> QED BY <1>3, <2>1, <2>2
<1>11. Len(path2) <= d + 1
  <2>1. Len(path2) = L \/ Len(path2) = L + 1
    BY <1>7
  <2> QED BY <1>2, <2>1
<1>12. \A i \in 1 .. L : path[i] \in visited /\ path[i] \in W(i - 1)
  BY DEF Grown
<1> HIDE DEF W
<1>13. \A i \in 1 .. Len(path2) : path2[i] \in visited \cup {m} /\ path2[i] \in W(i - 1)
  <2>1. CASE m \in visited
    BY <1>12, <2>1
  <2>2. CASE m \notin visited
    <3>1. TAKE i \in 1 .. Len(path2)
    <3>2. (i = L + 1 /\ i - 1 = L) \/ (i \in 1 .. L /\ i # L + 1)
      BY <1>2, <1>8, <2>2
    <3> QED BY <1>6, <1>8, <1>12, <2>2, <3>2
  <2> QED BY <2>1, <2>2
<1>14. \A i, j \in 1 .. Len(path2) : path2[i] = path2[j] => i = j
  <2>1. CASE m \in visited
    BY <2>1 DEF Grown
  <2>2. CASE m \notin visited
    <3>1. TAKE i, j \in 1 .. Len(path2)
    <3>2. /\ i = L + 1 \/ i \in 1 .. L
          /\ j = L + 1 \/ j \in 1 .. L
      BY <1>2, <1>8, <2>2
    <3>3. \A k \in 1 .. L : path[k] # m /\ k # L + 1
      <4>1. \A k \in 1 .. L : k # L + 1
        BY <1>2
      <4> QED BY <1>12, <2>2, <4>1
    <3> QED BY <1>8, <2>2, <3>2, <3>3 DEF Grown
  <2> QED BY <2>1, <2>2
<1>15. ASSUME NEW k \in N
       PROVE  /\ seen2[k] <= Len(G[k])
              /\ k \notin visited \cup {m} => seen2[k] = 0
              /\ \A i \in 1 .. seen2[k] : G[k][i] \in visited \cup {m}
              /\ d + 1 >= Cardinality(N) /\ k \in visited \cup {m} /\ ~On(path2, k)
                    => \A i \in 1 .. Len(G[k]) : G[k][i] \in visited \cup {m}
  <2>1. /\ seen[k] <= Len(G[k])
        /\ k \notin visited => seen[k] = 0
        /\ \A i \in 1 .. seen[k] : G[k][i] \in visited
        /\ d + 1 >= Cardinality(N) /\ k \in visited /\ ~On(path, k)
              => \A i \in 1 .. Len(G[k]) : G[k][i] \in visited
    BY DEF Grown
  <2>2. /\ d + 1 >= Cardinality(N) /\ k \in visited \cup {m} /\ ~On(path2, k)
              => \A i \in 1 .. Len(G[k]) : G[k][i] \in visited \cup {m}
    BY <1>9, <2>1
  <2>3. CASE k = n
    <3>1. seen2[k] = seen[n] + 1 /\ seen[k] \in Nat /\ n \in visited
      BY <1>2, <1>3, <1>12, <2>3
    <3>2. \A i \in 1 .. seen2[k] : i \in 1 .. seen[k] \/ i = seen[n] + 1
      BY <2>3, <3>1
    <3>3. \A i \in 1 .. seen2[k] : G[k][i] \in visited \cup {m}
      BY <2>1, <2>3, <3>2
    <3>4. seen2[k] <= Len(G[k]) /\ k \in visited
      BY <1>3, <2>3, <3>1
    <3> QED BY <2>2, <3>3, <3>4
  <2>4. CASE k # n
    <3>1. seen2[k] = seen[k]
      BY <2>4
    <3> QED BY <2>1, <2>2, <3>1
  <2> QED BY <2>3, <2>4
<1>16. Grown(G, root, d, path2, seen2, visited \cup {m})
  <2>1. /\ root \in visited /\ visited \subseteq Reach(E, N, root)
        /\ visited \subseteq Within(E, N, root, d)
    BY DEF Grown
  <2>2. m \in Within(E, N, root, d)
    BY <1>6 DEF W
  <2>3. \A i \in 1 .. Len(path2) :
           path2[i] \in visited \cup {m} /\ path2[i] \in Within(E, N, root, i - 1)
    BY <1>13 DEF W
  <2> HIDE DEF N, E
  <2>4. /\ root \in visited \cup {m} /\ visited \cup {m} \subseteq Reach(E, N, root)
        /\ visited \cup {m} \subseteq Within(E, N, root, d)
    BY <1>5, <2>1, <2>2
  <2> QED BY <1>11, <1>14, <1>15, <2>3, <2>4, ZenonT(40) DEF Grown, N, E
<1> QED BY <1>9, <1>10, <1>16 DEF GrownAfter, m, path2, seen2

\* A call returns: with all children read, or at the greatest depth.
LEMMA GrownPopped ==
    ASSUME NEW G, IsGraph(G), NEW root \in DOMAIN G, NEW d \in Nat,
           NEW path \in Seq(DOMAIN G), NEW seen \in [DOMAIN G -> Nat],
           NEW visited \in SUBSET DOMAIN G,
           Grown(G, root, d, path, seen, visited), path # <<>>,
           Len(path) > d \/ seen[Last(path)] = Len(G[Last(path)])
    PROVE  /\ Front(path) \in Seq(DOMAIN G) /\ Last(path) \in visited
           /\ Grown(G, root, d, Front(path), seen, visited)
           /\ \A n \in DOMAIN G : On(path, n) <=> On(Front(path), n) \/ n = Last(path)
           /\ ~On(Front(path), Last(path))
<1> DEFINE N == DOMAIN G
           t == Last(path)
           s == Front(path)
           k == Len(path)
<1>1. /\ k \in Nat /\ k # 0 /\ t = path[k] /\ t \in N
      /\ s \in Seq(N) /\ Len(s) = k - 1
      /\ \A i \in 1 .. k - 1 : s[i] = path[i]
  <2>1. k \in Nat /\ k # 0 /\ \A i \in 1 .. k : path[i] \in N
    BY StackFacts
  <2>2. /\ t = path[k] /\ s \in Seq(N) /\ Len(s) = k - 1
        /\ \A i \in 1 .. k - 1 : s[i] = path[i]
    BY StackFacts
  <2> HIDE DEF t, s, k
  <2>3. k \in 1 .. k
    BY <2>1
  <2> QED BY <2>1, <2>2, <2>3
<1>2. \A i \in 1 .. k : path[i] \in visited /\ path[i] \in Within(Edges(G), N, root, i - 1)
  BY DEF Grown
<1>3. \A i, j \in 1 .. k : path[i] = path[j] => i = j
  BY DEF Grown
<1>4. k > d \/ seen[t] = Len(G[t])
  OBVIOUS
<1>5. d + 1 >= Cardinality(N) /\ k > d => \A n \in N : On(path, n)
  <2>1. IsFiniteSet(N) /\ Cardinality(N) \in Nat
    BY FS_CardinalityType DEF IsGraph, IsRows
  <2>2. k >= Cardinality(N) => \A n \in N : On(path, n)
    BY <1>3, <2>1, FullStack
  <2> QED BY <1>1, <2>1, <2>2
<1>6. k <= d + 1
  BY DEF Grown
<1>7. \A i \in 1 .. Len(G[t]) : G[t][i] \in N
  BY <1>1, RowsAre DEF IsGraph
<1> HIDE DEF t, s
<1>8. \A i \in 1 .. k - 1 : i \in 1 .. k /\ i # k
  BY <1>1
<1>9. k \in 1 .. k /\ \A i \in 1 .. k : i = k \/ i \in 1 .. k - 1
  BY <1>1
<1>10. \A n \in N : On(path, n) <=> On(s, n) \/ n = t
  BY <1>1, <1>8, <1>9 DEF On
<1>11. ~On(s, t)
  BY <1>1, <1>3, <1>8, <1>9 DEF On
<1>12. t \in visited
  BY <1>1, <1>2, <1>9
<1>13. \A n \in N : On(path, n) => n \in visited
  BY <1>2 DEF On
<1>14. Grown(G, root, d, s, seen, visited)
  <2>1. \A i \in 1 .. Len(s) :
           s[i] \in visited /\ s[i] \in Within(Edges(G), N, root, i - 1)
    BY <1>1, <1>2, <1>8
  <2>2. \A i, j \in 1 .. Len(s) : s[i] = s[j] => i = j
    BY <1>1, <1>3, <1>8
  <2>3. Len(s) <= d + 1
    BY <1>1, <1>6
  <2>4. ASSUME NEW n \in N
        PROVE  /\ seen[n] <= Len(G[n])
               /\ n \notin visited => seen[n] = 0
               /\ \A i \in 1 .. seen[n] : G[n][i] \in visited
               /\ d + 1 >= Cardinality(N) /\ n \in visited /\ ~On(s, n)
                     => \A i \in 1 .. Len(G[n]) : G[n][i] \in visited
    <3>1. /\ seen[n] <= Len(G[n])
          /\ n \notin visited => seen[n] = 0
          /\ \A i \in 1 .. seen[n] : G[n][i] \in visited
          /\ d + 1 >= Cardinality(N) /\ n \in visited /\ ~On(path, n)
                => \A i \in 1 .. Len(G[n]) : G[n][i] \in visited
      BY DEF Grown
    <3>2. ASSUME d + 1 >= Cardinality(N), n = t, NEW i \in 1 .. Len(G[t])
          PROVE  G[t][i] \in visited
      <4>1. CASE seen[t] = Len(G[t])
        BY <3>1, <3>2, <4>1
      <4>2. CASE k > d
        BY <1>5, <1>7, <1>13, <3>2, <4>2
      <4> QED BY <1>4, <4>1, <4>2
    <3> QED BY <1>10, <3>1, <3>2
  <2>5. /\ root \in visited /\ visited \subseteq Reach(Edges(G), N, root)
        /\ visited \subseteq Within(Edges(G), N, root, d)
    BY DEF Grown
  <2> QED BY <2>1, <2>2, <2>3, <2>4, <2>5 DEF Grown
<1> QED BY <1>1, <1>10, <1>11, <1>12, <1>14 DEF t, s

(* How far the tree has come with a tag.                                   *)
Built(r) ==
    [n \in DOMAIN r.seen |-> IF n \notin r.visited THEN 0
                             ELSE IF On(r.path, n) THEN r.seen[n] + 1 ELSE r.seen[n] + 2]

(* It has ended: the first call has returned, or it is to throw.           *)
BuildEnded(G, limit, d, r) ==
    \/ r.path = <<>>
    \/ /\ ~(Len(r.path) > d) /\ r.seen[Last(r.path)] # Len(G[Last(r.path)])
       /\ Full(r.visited, limit)

\* A round of the loop, by the fields of its state.
LEMMA GrownRound ==
    ASSUME NEW G, IsGraph(G), NEW root \in DOMAIN G, NEW d \in Nat, NEW limit, NEW r,
           GrownOK(G, root, d, r)
    PROVE  /\ GrownOK(G, root, d, BuildRound(G, limit, d, r))
           /\ BuildEnded(G, limit, d, r) => BuildRound(G, limit, d, r) = r
           /\ ~BuildEnded(G, limit, d, r)
                 => Ahead(DOMAIN G, Built(r), Built(BuildRound(G, limit, d, r)))
<1> DEFINE N == DOMAIN G
           q == BuildRound(G, limit, d, r)
           path == r.path
           seen == r.seen
           visited == r.visited
           n == Last(path)
<1>1. /\ r = [path |-> path, seen |-> seen, visited |-> visited]
      /\ path \in Seq(N) /\ seen \in [N -> Nat] /\ visited \in SUBSET N
      /\ Grown(G, root, d, path, seen, visited)
  BY DEF GrownOK, Building
<1>2. \A k \in N : seen[k] \in Nat /\ Len(G[k]) \in Nat /\ seen[k] <= Len(G[k])
  BY <1>1, RowsAre DEF Grown, IsGraph
<1>3. BuildEnded(G, limit, d, r) => q = r
  BY DEF BuildRound, BuildEnded
<1>4. path # <<>> => n \in visited /\ n \in N /\ On(path, n)
  <2>1. SUFFICES ASSUME path # <<>> PROVE n \in visited /\ n \in N /\ On(path, n)
    OBVIOUS
  <2>2. Len(path) \in Nat /\ Len(path) # 0 /\ \A i \in 1 .. Len(path) : path[i] \in N
    BY <1>1, <2>1, StackFacts
  <2>3. n = path[Len(path)]
    BY <1>1, <2>1, StackFacts
  <2>4. Len(path) \in 1 .. Len(path)
    BY <2>2
  <2> QED BY <1>1, <2>2, <2>3, <2>4 DEF Grown, On
<1>5. \A k \in N : Built(r)[k] = IF k \notin visited THEN 0
                                 ELSE IF On(path, k) THEN seen[k] + 1 ELSE seen[k] + 2
  BY <1>1 DEF Built
<1>6. CASE path # <<>> /\ ~(Len(path) > d) /\ seen[n] < Len(G[n]) /\ ~Full(visited, limit)
  <2> DEFINE m == G[n][seen[n] + 1]
             path2 == IF m \in visited THEN path ELSE Append(path, m)
             seen2 == [seen EXCEPT ![n] = @ + 1]
  <2>1. q = [path |-> path2, seen |-> seen2, visited |-> visited \cup {m}]
    <3>1. ~(seen[n] = Len(G[n]))
      BY <1>2, <1>4, <1>6
    <3>2. CASE m \in visited
      <4>1. q = [r EXCEPT !.seen = seen2] /\ visited \cup {m} = visited /\ path2 = path
        BY <1>6, <3>1, <3>2 DEF BuildRound
      <4> HIDE DEF m, path2, seen2, q, path, seen, visited
      <4> QED BY <1>1, <4>1
    <3>3. CASE m \notin visited
      <4>1. /\ q = [r EXCEPT !.seen = seen2, !.visited = visited \cup {m}, !.path = path2]
            /\ path2 = Append(path, m)
        BY <1>6, <3>1, <3>3 DEF BuildRound
      <4> HIDE DEF m, path2, seen2, q, path, seen, visited
      <4> QED BY <1>1, <4>1
    <3> QED BY <3>2, <3>3
  <2> HIDE DEF q, path, seen, visited
  <2>2. Len(path) \in Nat /\ Len(path) <= d
    BY <1>1, <1>6, StackFacts
  <2>3. GrownAfter(G, root, d, n, path, seen, visited)
    <3> HIDE DEF m, path2, seen2
    <3> QED BY <1>1, <1>6, <2>2, GrownRead
  <2>4. /\ path2 \in Seq(N) /\ seen2 \in [N -> Nat] /\ visited \cup {m} \in SUBSET N
        /\ Grown(G, root, d, path2, seen2, visited \cup {m})
        /\ \A k \in N : On(path2, k) <=> On(path, k) \/ (k = m /\ m \notin visited)
    BY <2>3, Zenon DEF GrownAfter
  <2>5. seen2[n] = seen[n] + 1 /\ \A k \in N : k # n => seen2[k] = seen[k]
    BY <1>1, <1>4, <1>6
  <2> HIDE DEF n, m, path2, seen2
  <2>6. GrownOK(G, root, d, q)
    BY <2>1, <2>4 DEF GrownOK, Building
  <2>7. \A k \in N : Built(q)[k] = IF k \notin visited \cup {m} THEN 0
                                   ELSE IF On(path2, k) THEN seen2[k] + 1 ELSE seen2[k] + 2
    BY <2>1, <2>4 DEF Built
  <2>8. Built(r)[n] < Built(q)[n]
    BY <1>2, <1>4, <1>5, <1>6, <2>4, <2>5, <2>7
  <2>9. ASSUME NEW k \in N PROVE Built(r)[k] <= Built(q)[k]
    <3>1. seen[k] \in Nat /\ seen2[k] \in Nat /\ seen[k] <= seen2[k]
      BY <1>2, <1>4, <2>5
    <3>2. CASE k \in visited
      <4>1. On(path2, k) <=> On(path, k)
        BY <2>4, <3>2
      <4> QED BY <1>5, <2>7, <3>1, <3>2, <4>1
    <3>3. CASE k \notin visited
      <4>1. Built(r)[k] = 0 /\ Built(q)[k] \in Nat
        BY <1>5, <2>7, <3>1, <3>3
      <4> QED BY <4>1
    <3> QED BY <3>2, <3>3
  <2>10. Ahead(N, Built(r), Built(q))
    BY <1>4, <1>6, <2>8, <2>9 DEF Ahead
  <2>11. ~BuildEnded(G, limit, d, r)
    BY <1>6 DEF BuildEnded, path, seen, visited, n
  <2> QED BY <2>6, <2>10, <2>11 DEF q
<1>7. CASE path # <<>> /\ (Len(path) > d \/ seen[n] = Len(G[n]))
  <2> DEFINE s == Front(path)
  <2>1. q = [path |-> s, seen |-> seen, visited |-> visited]
    <3>1. q = [r EXCEPT !.path = s]
      BY <1>7 DEF BuildRound
    <3> HIDE DEF s, q, path, seen, visited
    <3> QED BY <1>1, <3>1
  <2> HIDE DEF q, path, seen, visited
  <2>2. /\ s \in Seq(N)
        /\ Grown(G, root, d, s, seen, visited)
        /\ \A k \in N : On(path, k) <=> On(s, k) \/ k = n
        /\ ~On(s, n)
    BY <1>1, <1>7, GrownPopped
  <2> HIDE DEF s, n
  <2>3. GrownOK(G, root, d, q)
    BY <1>1, <2>1, <2>2 DEF GrownOK, Building
  <2>4. \A k \in N : Built(q)[k] = IF k \notin visited THEN 0
                                   ELSE IF On(s, k) THEN seen[k] + 1 ELSE seen[k] + 2
    BY <1>1, <2>1 DEF Built
  <2>5. Built(r)[n] < Built(q)[n]
    BY <1>2, <1>4, <1>5, <1>7, <2>2, <2>4
  <2>6. \A k \in N : Built(r)[k] <= Built(q)[k]
    BY <1>2, <1>4, <1>5, <1>7, <2>2, <2>4, SMTT(30)
  <2>7. Ahead(N, Built(r), Built(q))
    BY <1>4, <1>7, <2>5, <2>6 DEF Ahead
  <2>8. ~BuildEnded(G, limit, d, r)
    BY <1>7 DEF BuildEnded, path, seen, visited, n
  <2> QED BY <2>3, <2>7, <2>8 DEF q
<1>8. path # <<>> => seen[n] < Len(G[n]) \/ seen[n] = Len(G[n])
  BY <1>2, <1>4
<1>9. CASE BuildEnded(G, limit, d, r)
  BY <1>3, <1>9
<1>10. CASE ~BuildEnded(G, limit, d, r)
  <2>1. path # <<>> /\ (~(Len(path) > d) /\ seen[n] # Len(G[n]) => ~Full(visited, limit))
    BY <1>10 DEF BuildEnded
  <2> HIDE DEF path, seen, visited, n
  <2> QED BY <1>6, <1>7, <1>8, <2>1
<1> QED BY <1>9, <1>10

\* getTagTree() ends.  It has shown no tag that is further from the root than asked for,
\* and has thrown only where there are as many as the limit; when it may be as deep as
\* there are tags it has shown all below the root, or has thrown.
THEOREM TreeReached ==
    ASSUME NEW G, IsGraph(G), NEW root \in DOMAIN G, NEW limit \in Nat, NEW d \in Nat
    PROVE  /\ TagTree(G, limit, root, d) \subseteq Within(Edges(G), DOMAIN G, root, d)
           /\ \/ TagTree(G, limit, root, d) # Thrown
              \/ Cardinality(Within(Edges(G), DOMAIN G, root, d)) >= limit
           /\ d + 1 >= Cardinality(DOMAIN G)
                 => Whole(TagTree(G, limit, root, d), limit, Reach(Edges(G), DOMAIN G, root))
<1> DEFINE N == DOMAIN G
           E == Edges(G)
           I == {r \in Building(N) : GrownOK(G, root, d, r)}
           D == {r \in I : BuildEnded(G, limit, d, r)}
           round == [r \in Building(N) |-> BuildRound(G, limit, d, r)]
           start == BuildStart(N, root)
           K == Cardinality(N) + 2
           p == [r \in I |-> Built(r)]
<1>1. IsFiniteSet(N) /\ Cardinality(N) \in Nat /\ K \in Nat /\ IsRows(G)
  BY FS_CardinalityType DEF IsGraph, IsRows
<1>2. start \in I
  <2>1. /\ <<root>> \in Seq(N) /\ Len(<<root>>) = 1 /\ <<root>>[1] = root
    OBVIOUS
  <2>2. start \in Building(N)
    BY <2>1 DEF BuildStart, Building
  <2>3. start.path = <<root>> /\ start.visited = {root} /\ start.seen = [n \in N |-> 0]
    BY DEF BuildStart
  <2>4. \A n \in N : Len(G[n]) \in Nat
    BY <1>1, RowsAre
  <2>5. root \in Reach(E, N, root)
    BY <1>1, EdgesAre, ReachFacts
  <2>6. root \in Within(E, N, root, d) /\ root \in Within(E, N, root, 0)
    <3>1. root \in Within(E, N, root, 0)
      BY WithinStart
    <3>2. PICK j \in 0 .. 0 : \E f \in Paths(E, N, root, j) : f[j] = root
      BY <3>1, WithinMember
    <3>3. j \in 0 .. d
      OBVIOUS
    <3> QED BY <3>1, <3>2, <3>3, WithinMember
  <2>7. \A i \in 1 .. Len(<<root>>) : i = 1 /\ i - 1 = 0
    BY <2>1
  <2>8. \A n \in N : ~On(<<root>>, n) => n # root
    BY <2>1 DEF On
  <2> DEFINE s == <<root>>
  <2>9. s[1] = root /\ Len(s) <= d + 1
    BY <2>1
  <2>10. ASSUME NEW n \in N
         PROVE  /\ [k \in N |-> 0][n] <= Len(G[n])
                /\ n \notin {root} => [k \in N |-> 0][n] = 0
                /\ \A i \in 1 .. [k \in N |-> 0][n] : G[n][i] \in {root}
                /\ d + 1 >= Cardinality(N) /\ n \in {root} /\ ~On(s, n)
                      => \A i \in 1 .. Len(G[n]) : G[n][i] \in {root}
    BY <2>4, <2>8
  <2> HIDE DEF s
  <2>11. Grown(G, root, d, s, [n \in N |-> 0], {root})
    BY <2>5, <2>6, <2>7, <2>9, <2>10 DEF Grown, s
  <2> QED BY <2>2, <2>3, <2>11 DEF GrownOK, s
<1>3. \A r \in I : round[r] = BuildRound(G, limit, d, r)
  OBVIOUS
<1>4. \A r \in I : round[r] \in I
  <2>1. TAKE r \in I
  <2>2. GrownOK(G, root, d, BuildRound(G, limit, d, r))
    BY GrownRound
  <2>3. BuildRound(G, limit, d, r) \in Building(N)
    BY <2>2 DEF GrownOK
  <2> QED BY <1>3, <2>2, <2>3
<1>5. \A r \in D : round[r] \in D
  BY <1>3, GrownRound
<1>6. p \in [I -> [N -> 0 .. K]]
  <2>1. SUFFICES ASSUME NEW r \in I PROVE Built(r) \in [N -> 0 .. K]
    OBVIOUS
  <2>2. r.seen \in [N -> Nat] /\ Grown(G, root, d, r.path, r.seen, r.visited)
    BY <2>1 DEF GrownOK, Building
  <2>3. \A n \in N : r.seen[n] + 1 \in 0 .. K /\ r.seen[n] + 2 \in 0 .. K /\ 0 \in 0 .. K
    <3>1. TAKE n \in N
    <3>2. /\ r.seen[n] \in Nat /\ r.seen[n] <= Len(G[n])
          /\ Len(G[n]) \in Nat /\ Len(G[n]) <= Cardinality(N)
      BY <1>1, <2>2, RowsAre, GraphRows DEF Grown
    <3> QED BY <1>1, <3>2
  <2> HIDE DEF K
  <2> QED BY <2>2, <2>3 DEF Built
<1>7. \A r \in I \ D : /\ \A n \in N : p[r][n] <= p[round[r]][n]
                       /\ \E n \in N : p[r][n] < p[round[r]][n]
  <2>1. TAKE r \in I \ D
  <2>2. p[r] = Built(r) /\ p[round[r]] = Built(BuildRound(G, limit, d, r))
    BY <1>3, <1>4
  <2>3. GrownOK(G, root, d, r) /\ ~BuildEnded(G, limit, d, r)
    OBVIOUS
  <2>4. Ahead(N, Built(r), Built(BuildRound(G, limit, d, r)))
    BY <2>3, GrownRound
  <2> HIDE DEF p, round, N
  <2> QED BY <2>2, <2>4 DEF Ahead
<1>8. D \in SUBSET I
  OBVIOUS
<1> DEFINE r == Rounds(round, start)[Cardinality(N) * K]
<1>9. r \in D
  <2> HIDE DEF D, I, p, round, start, K, N
  <2>1. Loop(N, K, round, start, I, p, D)
    BY <1>1, <1>2, <1>4, <1>5, <1>6, <1>7, <1>8 DEF Loop
  <2> QED BY <2>1, RoundsEnd
<1>10. TagTree(G, limit, root, d) = IF r.path = <<>> THEN r.visited ELSE Thrown
  BY DEF TagTree, Enough
<1> HIDE DEF r
<1>11. /\ Grown(G, root, d, r.path, r.seen, r.visited) /\ r.visited \in SUBSET N
       /\ r.path = <<>> \/ Full(r.visited, limit)
  BY <1>9 DEF GrownOK, Building, BuildEnded
<1>12. E \in SUBSET (N \X N)
  BY <1>1, EdgesAre
<1>13. ASSUME d + 1 >= Cardinality(N), r.path = <<>> PROVE Reach(E, N, root) \subseteq r.visited
  <2>1. \A a, b \in N : a \in r.visited /\ <<a, b>> \in E => b \in r.visited
    <3>1. TAKE a, b \in N
    <3>2. SUFFICES ASSUME a \in r.visited, <<a, b>> \in E PROVE b \in r.visited
      OBVIOUS
    <3>3. PICK i \in 1 .. Len(G[a]) : G[a][i] = b
      BY <1>1, <3>2, EdgesAre
    <3>4. ~On(r.path, a)
      BY <1>13, EmptySeq DEF On
    <3> QED BY <1>11, <1>13, <3>2, <3>3, <3>4 DEF Grown
  <2>2. root \in r.visited
    BY <1>11 DEF Grown
  <2> HIDE DEF N, E
  <2> QED BY <1>11, <1>12, <2>1, <2>2, ReachLeast DEF N
<1> DEFINE near == Within(E, N, root, d)
           all == Reach(E, N, root)
<1>14. root \in r.visited /\ r.visited \subseteq near /\ r.visited \subseteq all
  BY <1>11 DEF Grown
<1>15. CASE r.path = <<>>
  <2>1. TagTree(G, limit, root, d) = r.visited
    BY <1>10, <1>15
  <2>2. r.visited # Thrown
    BY <1>14 DEF Thrown
  <2>3. d + 1 >= Cardinality(N) => r.visited = all
    BY <1>13, <1>14, <1>15
  <2> HIDE DEF near, all, N
  <2>4. d + 1 >= Cardinality(N) => Whole(TagTree(G, limit, root, d), limit, all)
    BY <2>1, <2>3 DEF Whole
  <2> QED BY <1>14, <2>1, <2>2, <2>4 DEF near, all, N
<1>16. CASE r.path # <<>>
  <2>1. TagTree(G, limit, root, d) = Thrown /\ Cardinality(r.visited) >= limit
    BY <1>10, <1>11, <1>16 DEF Full
  <2>2. near \subseteq N /\ all \subseteq N
    BY <1>12, WithinNext, ReachFacts
  <2> HIDE DEF near, all
  <2>3. /\ IsFiniteSet(near) /\ Cardinality(r.visited) <= Cardinality(near)
        /\ IsFiniteSet(all) /\ Cardinality(r.visited) <= Cardinality(all)
    BY <1>1, <1>14, <2>2, FS_Subset
  <2>4. IsFiniteSet(r.visited)
    BY <1>1, <1>11, FS_Subset
  <2>5. /\ Cardinality(r.visited) \in Nat /\ Cardinality(near) \in Nat
        /\ Cardinality(all) \in Nat
    BY <2>3, <2>4, FS_CardinalityType
  <2>6. Cardinality(near) >= limit /\ Cardinality(all) >= limit
    BY <2>1, <2>3, <2>5
  <2>7. Whole(TagTree(G, limit, root, d), limit, all)
    BY <2>1, <2>6 DEF Whole
  <2>8. TagTree(G, limit, root, d) \subseteq near
    BY <2>1 DEF Thrown
  <2> QED BY <2>6, <2>7, <2>8 DEF near, all
<1> QED BY <1>15, <1>16

-----------------------------------------------------------------------------
(* tarjanSCC(), by the sets of its nodes: num and low are the numbers and  *)
(* the low links, S the nodes on the stack, P those on the call stack, F   *)
(* the edges followed.  The nodes that are numbered and off the stack are  *)
(* done.                                                                   *)
Component(E, N, n) == {m \in Reach(E, N, n) : n \in Reach(E, N, m)}

Done(num, S, n) == num[n] # 0 /\ n \notin S

(* Numbered are the nodes that were come to; a node that is off the call   *)
(* stack has had all its edges followed.                                   *)
Numbered(N, E, num, S, P, F) ==
    /\ P \subseteq S /\ S \subseteq N /\ F \subseteq E
    /\ \A n \in S : num[n] # 0
    /\ \A a, b \in S : num[a] = num[b] => a = b
    /\ \A a, b \in N : <<a, b>> \in F => num[a] # 0 /\ num[b] # 0
    /\ \A a, b \in N : <<a, b>> \in E /\ num[a] # 0 /\ a \notin P => <<a, b>> \in F

(* No edge leads out of what is done, and its components are those found.  *)
Complete(N, E, num, S, found) ==
    /\ \A a, b \in N : <<a, b>> \in E /\ Done(num, S, a) => Done(num, S, b)
    /\ found = {Component(E, N, n) : n \in {c \in N : Done(num, S, c)}} \ {{n} : n \in N}

(* A node on the stack reaches one on the call stack that is not above it, *)
(* and is reached from all of those.                                       *)
Tied(N, E, num, S, P) ==
    /\ \A y \in S : \E x \in P : num[x] <= num[y] /\ x \in Reach(E, N, y)
    /\ \A x \in P, y \in S : num[x] <= num[y] => y \in Reach(E, N, x)

(* The nodes that were come to through x and no later call.                *)
Own(num, P, x, y) == num[x] <= num[y] /\ \A w \in P : num[x] < num[w] => num[y] < num[w]

(* The low link of a call is the number of a node on the stack that it     *)
(* reaches, and no edge from its own nodes leads to one that is lower.     *)
Linked(N, E, num, low, S, P, F) ==
    /\ \A x \in P : low[x] <= num[x] /\ \E y \in S : low[x] = num[y] /\ y \in Reach(E, N, x)
    /\ \A x \in P, y \in S, z \in S :
          Own(num, P, x, y) /\ <<y, z>> \in F => low[x] <= num[z]

Searching(N, E, num, low, S, P, F, found) ==
    /\ Numbered(N, E, num, S, P, F)
    /\ Complete(N, E, num, S, found)
    /\ Tied(N, E, num, S, P)
    /\ Linked(N, E, num, low, S, P, F)

(* The call at hand.                                                       *)
Top(num, P, n) == n \in P /\ \A x \in P : num[x] <= num[n]

\* A call for a node that has no number.
LEMMA SearchPushed ==
    ASSUME NEW N, NEW E \in SUBSET (N \X N), NEW num \in [N -> Nat], NEW low \in [N -> Nat],
           NEW S, NEW P, NEW F, NEW found, Searching(N, E, num, low, S, P, F, found),
           NEW m \in N, num[m] = 0, NEW k \in Nat, k # 0, \A y \in S : num[y] < k,
           NEW F2, \/ P = {} /\ F2 = F
                   \/ \E n \in P : Top(num, P, n) /\ <<n, m>> \in E /\ F2 = F \cup {<<n, m>>}
    PROVE  Searching(N, E, [num EXCEPT ![m] = k], [low EXCEPT ![m] = k],
                     S \cup {m}, P \cup {m}, F2, found)
<1> DEFINE num2 == [num EXCEPT ![m] = k]
           low2 == [low EXCEPT ![m] = k]
           S2 == S \cup {m}
           P2 == P \cup {m}
<1>1. /\ num2[m] = k /\ \A n \in N : n # m => num2[n] = num[n]
      /\ low2[m] = k /\ \A n \in N : n # m => low2[n] = low[n]
  OBVIOUS
<1>2. /\ \A n \in N : n \in Reach(E, N, n)
      /\ \A a, b, c \in N : b \in Reach(E, N, a) /\ <<b, c>> \in E => c \in Reach(E, N, a)
  BY ReachFacts
<1>3. P \subseteq S /\ S \subseteq N /\ m \notin S /\ \A y \in S : num[y] \in Nat /\ low[y] \in Nat
  BY DEF Searching, Numbered
<1>4. \A a, b \in N : <<a, b>> \in F => <<a, b>> \in E /\ num[a] # 0 /\ num[b] # 0
  BY DEF Searching, Numbered
<1>5. \A a, b \in N : <<a, b>> \in F2 =>
         \/ <<a, b>> \in F
         \/ b = m /\ Top(num, P, a) /\ <<a, b>> \in E
  <2>1. SUFFICES ASSUME NEW a \in N, NEW b \in N, <<a, b>> \in F2, <<a, b>> \notin F
                 PROVE  b = m /\ Top(num, P, a) /\ <<a, b>> \in E
    OBVIOUS
  <2>2. PICK n \in P : Top(num, P, n) /\ <<n, m>> \in E /\ F2 = F \cup {<<n, m>>}
    BY <2>1
  <2>3. <<a, b>> = <<n, m>>
    BY <2>1, <2>2
  <2> QED BY <2>2, <2>3
<1>6. F \subseteq F2 /\ F2 \subseteq E
  BY DEF Searching, Numbered
<1> HIDE DEF num2, low2
<1>7. \A y \in S : y # m /\ num2[y] = num[y] /\ low2[y] = low[y] /\ num2[y] < num2[m]
  BY <1>1, <1>3
<1>8. Numbered(N, E, num2, S2, P2, F2)
  <2>1. P2 \subseteq S2 /\ S2 \subseteq N
    BY <1>3
  <2>2. \A n \in S2 : num2[n] # 0
    BY <1>1, <1>7 DEF Searching, Numbered
  <2>3. \A a, b \in S2 : num2[a] = num2[b] => a = b
    <3>1. \A a, b \in S : num[a] = num[b] => a = b
      BY DEF Searching, Numbered
    <3> QED BY <1>1, <1>3, <1>7, <3>1
  <2>4. \A a, b \in N : <<a, b>> \in F2 => num2[a] # 0 /\ num2[b] # 0
    <3>1. \A n \in N : num[n] # 0 => num2[n] # 0
      BY <1>1
    <3>2. \A n \in P : num2[n] # 0
      BY <1>3, <2>2
    <3> QED BY <1>1, <1>4, <1>5, <3>1, <3>2 DEF Top
  <2>5. \A a, b \in N : <<a, b>> \in E /\ num2[a] # 0 /\ a \notin P2 => <<a, b>> \in F2
    BY <1>1, <1>6 DEF Searching, Numbered
  <2> QED BY <1>6, <2>1, <2>2, <2>3, <2>4, <2>5 DEF Numbered
<1>9. Complete(N, E, num2, S2, found)
  <2>1. \A n \in N : Done(num2, S2, n) <=> Done(num, S, n)
    BY <1>1, <1>3 DEF Done
  <2>2. {c \in N : Done(num2, S2, c)} = {c \in N : Done(num, S, c)}
    BY <2>1
  <2> QED BY <2>1, <2>2 DEF Searching, Complete
<1>10. Tied(N, E, num2, S2, P2)
  <2>1. ASSUME NEW y \in S2 PROVE \E x \in P2 : num2[x] <= num2[y] /\ x \in Reach(E, N, y)
    <3>1. CASE y = m
      BY <1>1, <1>2, <3>1
    <3>2. CASE y \in S
      <4>1. PICK x \in P : num[x] <= num[y] /\ x \in Reach(E, N, y)
        BY <3>2 DEF Searching, Tied
      <4> QED BY <1>3, <1>7, <3>2, <4>1
    <3> QED BY <3>1, <3>2
  <2>2. ASSUME NEW x \in P2, NEW y \in S2, num2[x] <= num2[y] PROVE y \in Reach(E, N, x)
    <3>1. CASE x = m
      <4>1. y = m
        BY <1>1, <1>3, <1>7, <2>2, <3>1
      <4> QED BY <1>2, <3>1, <4>1
    <3>2. CASE x \in P /\ y \in S
      BY <1>3, <1>7, <2>2, <3>2 DEF Searching, Tied
    <3>3. CASE x \in P /\ y = m
      <4>1. PICK n \in P : Top(num, P, n) /\ <<n, m>> \in E
        BY <3>3
      <4>2. num[x] <= num[n] /\ n \in S
        BY <1>3, <3>3, <4>1 DEF Top
      <4>3. n \in Reach(E, N, x)
        BY <3>3, <4>2 DEF Searching, Tied
      <4> QED BY <1>2, <1>3, <3>3, <4>1, <4>2, <4>3
    <3> QED BY <3>1, <3>2, <3>3
  <2> QED BY <2>1, <2>2 DEF Tied
<1>11. Linked(N, E, num2, low2, S2, P2, F2)
  <2>1. ASSUME NEW x \in P2
        PROVE  low2[x] <= num2[x] /\ \E y \in S2 : low2[x] = num2[y] /\ y \in Reach(E, N, x)
    <3>1. CASE x = m
      BY <1>1, <1>2, <3>1
    <3>2. CASE x \in P
      <4>1. low[x] <= num[x]
        BY <3>2 DEF Searching, Linked
      <4>2. PICK y \in S : low[x] = num[y] /\ y \in Reach(E, N, x)
        BY <3>2 DEF Searching, Linked
      <4> QED BY <1>3, <1>7, <3>2, <4>1, <4>2
    <3> QED BY <3>1, <3>2
  <2>2. ASSUME NEW x \in P2, NEW y \in S2, NEW z \in S2, Own(num2, P2, x, y), <<y, z>> \in F2
        PROVE  low2[x] <= num2[z]
    <3>1. y # m
      BY <1>3, <1>4, <1>5, <2>2 DEF Top
    <3>2. y \in S /\ x # m
      BY <1>1, <1>7, <2>2, <3>1, <1>3 DEF Own
    <3>3. x \in P /\ x \in S
      BY <1>3, <2>2, <3>2
    <3>4. low[x] <= num[x]
      BY <3>3 DEF Searching, Linked
    <3>5. CASE z = m
      BY <1>1, <1>3, <1>7, <3>3, <3>4, <3>5
    <3>6. CASE z \in S
      <4>1. <<y, z>> \in F
        BY <1>3, <1>5, <2>2, <3>2, <3>6
      <4>2. Own(num, P, x, y)
        BY <1>3, <1>7, <2>2, <3>2, <3>3 DEF Own
      <4>3. low[x] <= num[z]
        BY <3>2, <3>3, <3>6, <4>1, <4>2 DEF Searching, Linked
      <4> QED BY <1>7, <3>3, <3>6, <4>3
    <3> QED BY <3>5, <3>6
  <2> QED BY <2>1, <2>2 DEF Linked
<1> QED BY <1>8, <1>9, <1>10, <1>11 DEF Searching, num2, low2

\* An edge from the call at hand to a node that has a number: its link is lowered when
\* that node is on the stack.
LEMMA SearchFollowed ==
    ASSUME NEW N, NEW E \in SUBSET (N \X N), NEW num \in [N -> Nat], NEW low \in [N -> Nat],
           NEW S, NEW P, NEW F, NEW found, Searching(N, E, num, low, S, P, F, found),
           NEW n \in P, Top(num, P, n), NEW m \in N, <<n, m>> \in E, num[m] # 0,
           NEW low2, low2 = IF m \in S /\ num[m] < low[n] THEN [low EXCEPT ![n] = num[m]] ELSE low
    PROVE  Searching(N, E, num, low2, S, P, F \cup {<<n, m>>}, found)
<1> DEFINE F2 == F \cup {<<n, m>>}
<1>1. P \subseteq S /\ S \subseteq N /\ n \in S /\ n \in N
  BY DEF Searching, Numbered
<1>2. \A a, b, c \in N : b \in Reach(E, N, a) /\ <<b, c>> \in E => c \in Reach(E, N, a)
  BY ReachFacts
<1>3. n \in Reach(E, N, n)
  BY <1>1, ReachFacts
<1>4. /\ \A x \in N : low2[x] <= low[x] /\ low2[x] \in Nat /\ low[x] \in Nat /\ num[x] \in Nat
      /\ \A x \in N : low2[x] = low[x] \/ (x = n /\ m \in S /\ low2[x] = num[m])
      /\ m \in S => low2[n] <= num[m]
  BY <1>1
<1>5. \A a, b \in N : <<a, b>> \in F2 => <<a, b>> \in F \/ (a = n /\ b = m)
  OBVIOUS
<1>6. Numbered(N, E, num, S, P, F2)
  <2>1. F2 \subseteq E
    BY DEF Searching, Numbered
  <2>2. \A a, b \in N : <<a, b>> \in F2 => num[a] # 0 /\ num[b] # 0
    <3>1. \A a, b \in N : <<a, b>> \in F => num[a] # 0 /\ num[b] # 0
      BY DEF Searching, Numbered
    <3>2. num[n] # 0
      BY <1>1 DEF Searching, Numbered
    <3> QED BY <1>5, <3>1, <3>2
  <2>3. \A a, b \in N : <<a, b>> \in E /\ num[a] # 0 /\ a \notin P => <<a, b>> \in F2
    BY DEF Searching, Numbered
  <2> QED BY <2>1, <2>2, <2>3 DEF Searching, Numbered
<1> HIDE DEF F2
<1>7. Linked(N, E, num, low2, S, P, F2)
  <2>1. ASSUME NEW x \in P
        PROVE  low2[x] <= num[x] /\ \E y \in S : low2[x] = num[y] /\ y \in Reach(E, N, x)
    <3>1. low[x] <= num[x] /\ \E y \in S : low[x] = num[y] /\ y \in Reach(E, N, x)
      BY DEF Searching, Linked
    <3>2. x \in N
      BY <1>1
    <3>3. CASE low2[x] = low[x]
      BY <3>1, <3>3
    <3>4. CASE x = n /\ m \in S /\ low2[x] = num[m]
      <4>1. m \in Reach(E, N, x)
        BY <1>1, <1>2, <1>3, <3>4
      <4>2. low2[x] <= num[x]
        BY <1>4, <3>1, <3>2
      <4> QED BY <3>4, <4>1, <4>2
    <3> QED BY <1>4, <3>2, <3>3, <3>4
  <2>2. ASSUME NEW x \in P, NEW y \in S, NEW z \in S, Own(num, P, x, y), <<y, z>> \in F2
        PROVE  low2[x] <= num[z]
    <3>1. x \in N /\ y \in N /\ z \in N
      BY <1>1
    <3>2. CASE <<y, z>> \in F
      <4>1. low[x] <= num[z]
        BY <2>2, <3>2 DEF Searching, Linked
      <4> QED BY <1>4, <3>1, <4>1
    <3>3. CASE y = n /\ z = m
      <4>1. ~(num[x] < num[n])
        BY <1>1, <1>4, <2>2, <3>3 DEF Own
      <4>2. num[x] = num[n]
        BY <1>1, <1>4, <2>2, <3>1, <4>1 DEF Top
      <4>3. x = n
        BY <1>1, <4>2 DEF Searching, Numbered
      <4> QED BY <1>4, <3>3, <4>3
    <3> QED BY <1>5, <2>2, <3>1, <3>2, <3>3
  <2> QED BY <2>1, <2>2 DEF Linked
<1> QED BY <1>6, <1>7 DEF Searching, F2

(* The link of a call that returns goes down to the call before it.        *)
Passed(num, low, P, n, low2) ==
    \/ P = {n} /\ low2 = low
    \/ \E x \in P \ {n} : /\ Top(num, P \ {n}, x)
                          /\ low2 = IF low[n] < low[x] THEN [low EXCEPT ![x] = low[n]] ELSE low

\* A call returns that reaches a node below its own on the stack.
LEMMA SearchKept ==
    ASSUME NEW N, NEW E \in SUBSET (N \X N), NEW num \in [N -> Nat], NEW low \in [N -> Nat],
           NEW S, NEW P, NEW F, NEW found, Searching(N, E, num, low, S, P, F, found),
           NEW n \in P, Top(num, P, n), \A m \in N : <<n, m>> \in E => <<n, m>> \in F,
           NEW low2, Passed(num, low, P, n, low2), low[n] # num[n]
    PROVE  Searching(N, E, num, low2, S, P \ {n}, F, found)
<1> DEFINE P2 == P \ {n}
<1>1. P \subseteq S /\ S \subseteq N /\ n \in S /\ n \in N
  BY DEF Searching, Numbered
<1>2. \A a, b, c \in N : b \in Reach(E, N, a) /\ c \in Reach(E, N, b) => c \in Reach(E, N, a)
  BY ReachFacts
<1>3. \A x \in N : low[x] \in Nat /\ num[x] \in Nat
  OBVIOUS
<1>4. PICK y0 \in S : low[n] = num[y0] /\ y0 \in Reach(E, N, n) /\ num[y0] < num[n]
  <2>1. low[n] <= num[n] /\ \E y \in S : low[n] = num[y] /\ y \in Reach(E, N, n)
    BY DEF Searching, Linked
  <2> QED BY <1>1, <1>3, <2>1
<1>5. PICK x0 \in P : num[x0] <= num[y0] /\ x0 \in Reach(E, N, y0)
  BY DEF Searching, Tied
<1>6. x0 \in P2 /\ num[x0] <= num[n] /\ x0 \in Reach(E, N, n)
  BY <1>1, <1>2, <1>3, <1>4, <1>5
<1>7. PICK p \in P2 : /\ Top(num, P2, p)
                      /\ low2 = IF low[n] < low[p] THEN [low EXCEPT ![p] = low[n]] ELSE low
  BY <1>6 DEF Passed
<1>8. /\ \A x \in N : low2[x] <= low[x] /\ low2[x] \in Nat
      /\ \A x \in N : low2[x] = low[x] \/ (x = p /\ low2[x] = low[n])
      /\ low2[p] <= low[n]
  <2>1. p \in N
    BY <1>1
  <2> QED BY <1>1, <1>3, <1>7, <2>1
<1>9. Numbered(N, E, num, S, P2, F)
  BY DEF Searching, Numbered
<1>10. Tied(N, E, num, S, P2)
  <2>1. ASSUME NEW y \in S PROVE \E x \in P2 : num[x] <= num[y] /\ x \in Reach(E, N, y)
    <3>1. PICK x \in P : num[x] <= num[y] /\ x \in Reach(E, N, y)
      BY DEF Searching, Tied
    <3>2. CASE x = n
      <4>1. x0 \in Reach(E, N, y)
        BY <1>1, <1>2, <1>6, <3>1, <3>2
      <4>2. num[x0] <= num[y]
        BY <1>1, <1>3, <1>6, <3>1, <3>2
      <4> QED BY <1>6, <4>1, <4>2
    <3>3. CASE x # n
      BY <3>1, <3>3
    <3> QED BY <3>2, <3>3
  <2> QED BY <2>1 DEF Searching, Tied
<1>11. Linked(N, E, num, low2, S, P2, F)
  <2>1. ASSUME NEW x \in P2
        PROVE  low2[x] <= num[x] /\ \E y \in S : low2[x] = num[y] /\ y \in Reach(E, N, x)
    <3>1. low[x] <= num[x] /\ \E y \in S : low[x] = num[y] /\ y \in Reach(E, N, x)
      BY DEF Searching, Linked
    <3>2. x \in N /\ low2[x] <= num[x]
      BY <1>1, <1>3, <1>8, <3>1
    <3>3. CASE low2[x] = low[x]
      BY <3>1, <3>2, <3>3
    <3>4. CASE x = p /\ low2[x] = low[n]
      <4>1. n \in Reach(E, N, x)
        BY <1>1 DEF Top, Searching, Tied
      <4>2. y0 \in Reach(E, N, x)
        BY <1>1, <1>2, <1>4, <3>2, <4>1
      <4> QED BY <1>4, <3>2, <3>4, <4>2
    <3> QED BY <1>8, <3>2, <3>3, <3>4
  <2>2. ASSUME NEW x \in P2, NEW y \in S, NEW z \in S, Own(num, P2, x, y), <<y, z>> \in F
        PROVE  low2[x] <= num[z]
    <3>1. x \in N /\ y \in N /\ z \in N
      BY <1>1
    <3>2. CASE Own(num, P, x, y)
      <4>1. low[x] <= num[z]
        BY <2>2, <3>2 DEF Searching, Linked
      <4> QED BY <1>3, <1>8, <3>1, <4>1
    <3>3. CASE ~Own(num, P, x, y)
      <4>1. num[n] <= num[y]
        BY <1>1, <1>3, <2>2, <3>1, <3>3 DEF Own
      <4>2. Own(num, P, n, y)
        BY <1>1, <1>3, <4>1 DEF Own, Top
      <4>3. low[n] <= num[z]
        BY <2>2, <4>2 DEF Searching, Linked
      <4>4. ~(num[x] < num[p])
        <5>1. num[p] <= num[n] /\ p \in N
          BY <1>1 DEF Top
        <5>2. ~(num[y] < num[p])
          BY <1>1, <1>3, <3>1, <4>1, <5>1
        <5> QED BY <2>2, <5>2 DEF Own
      <4>5. x = p
        <5>1. num[x] <= num[p] /\ p \in N
          BY <1>1, <1>7 DEF Top
        <5>2. num[x] = num[p]
          BY <1>3, <3>1, <4>4, <5>1
        <5> QED BY <1>1, <5>2 DEF Searching, Numbered
      <4>6. low2[p] \in Nat /\ low[n] \in Nat /\ num[z] \in Nat
        BY <1>1, <1>3, <1>8, <3>1
      <4> QED BY <1>8, <4>3, <4>5, <4>6
    <3> QED BY <3>2, <3>3
  <2> QED BY <2>1, <2>2 DEF Linked
<1> QED BY <1>9, <1>10, <1>11 DEF Searching

\* A call returns that reaches none below its own on the stack: those are a component.
LEMMA SearchCollected ==
    ASSUME NEW N, NEW E \in SUBSET (N \X N), NEW num \in [N -> Nat], NEW low \in [N -> Nat],
           NEW S, NEW P, NEW F, NEW found, Searching(N, E, num, low, S, P, F, found),
           NEW n \in P, Top(num, P, n), \A m \in N : <<n, m>> \in E => <<n, m>> \in F,
           NEW low2, Passed(num, low, P, n, low2), low[n] = num[n],
           NEW K, K = {y \in S : num[n] <= num[y]}
    PROVE  Searching(N, E, num, low2, S \ K, P \ {n}, F,
                     found \cup ({K} \ {{m} : m \in N}))
<1> DEFINE P2 == P \ {n}
           S2 == S \ K
           C == {c \in N : Done(num, S, c)}
<1>1. P \subseteq S /\ S \subseteq N /\ n \in S /\ n \in N /\ n \in K /\ K \subseteq N
  BY DEF Searching, Numbered
<1>2. /\ \A a, b, c \in N : b \in Reach(E, N, a) /\ c \in Reach(E, N, b) => c \in Reach(E, N, a)
      /\ \A a \in N : a \in Reach(E, N, a) /\ Reach(E, N, a) \subseteq N
  BY ReachFacts
<1>3. \A x \in N : low[x] \in Nat /\ num[x] \in Nat
  OBVIOUS
<1>4. \A a, b \in S : num[a] = num[b] => a = b
  BY DEF Searching, Numbered
<1>5. \A x \in P : num[x] <= num[n]
  BY DEF Top
<1>6. \A x \in P2 : x \in S2 /\ num[x] < num[n]
  BY <1>1, <1>3, <1>4, <1>5
<1>7. \A y \in S2 : y \in S /\ num[y] < num[n]
  BY <1>1, <1>3
<1>8. \A y \in K : y \in S /\ num[n] <= num[y] /\ y \in Reach(E, N, n)
  BY DEF Searching, Tied
<1>9. \A c \in N : Done(num, S2, c) <=> c \in C \cup K
  <2>1. TAKE c \in N
  <2>2. \A y \in S : num[y] # 0
    BY DEF Searching, Numbered
  <2> QED BY <1>8, <2>2 DEF Done
<1>10. low2 = low
  <2>1. SUFFICES ASSUME NEW x \in P2, low[n] < low[x] PROVE FALSE
    BY DEF Passed
  <2>2. low[x] <= num[x] /\ x \in N
    BY <1>1, <2>1 DEF Searching, Linked
  <2>3. num[x] < num[n]
    BY <1>6, <2>1
  <2> QED BY <1>1, <1>3, <2>1, <2>2, <2>3
<1>11. ASSUME NEW a \in C \cup K, NEW b \in N, <<a, b>> \in E PROVE b \in C \cup K
  <2>1. CASE a \in C
    BY <1>1, <1>11, <2>1 DEF Searching, Complete
  <2>2. CASE a \in K
    <3>1. a \in S /\ a \in N /\ num[n] <= num[a] /\ num[a] # 0
      BY <1>1, <1>8, <2>2 DEF Searching, Numbered
    <3>2. a \in P => a = n
      BY <1>1, <1>3, <1>4, <1>5, <3>1
    <3>3. <<a, b>> \in F
      BY <1>11, <3>1, <3>2 DEF Searching, Numbered
    <3>4. num[b] # 0
      BY <3>1, <3>3 DEF Searching, Numbered
    <3>5. CASE b \in S
      <4>1. Own(num, P, n, a)
        BY <1>1, <1>3, <1>5, <3>1 DEF Own
      <4>2. low[n] <= num[b]
        BY <3>1, <3>3, <3>5, <4>1 DEF Searching, Linked
      <4> QED BY <3>5, <4>2
    <3>6. CASE b \notin S
      BY <3>4, <3>6 DEF Done
    <3> QED BY <3>5, <3>6
  <2> QED BY <2>1, <2>2
<1> HIDE DEF C
<1>12. C \subseteq N /\ C \cap S = {}
  BY DEF C, Done
<1>13. ASSUME NEW y \in K PROVE Reach(E, N, y) \subseteq C \cup K
  <2> DEFINE U == C \cup K
  <2>1. y \in N /\ y \in U /\ U \in SUBSET N
    BY <1>1, <1>12
  <2>2. \A a, b \in N : a \in U /\ <<a, b>> \in E => b \in U
    BY <1>11
  <2> HIDE DEF U
  <2>3. Reach(E, N, y) \subseteq U
    BY <2>1, <2>2, ReachLeast
  <2> QED BY <2>3 DEF U
<1>14. ASSUME NEW c \in C PROVE Reach(E, N, c) \subseteq C
  <2>1. \A a, b \in N : a \in C /\ <<a, b>> \in E => b \in C
    BY DEF C, Searching, Complete
  <2>2. C \in SUBSET N /\ c \in N
    BY <1>12
  <2> QED BY <2>1, <2>2, ReachLeast
<1>15. ASSUME NEW y \in K PROVE n \in Reach(E, N, y)
  <2>1. PICK x \in P : x \in Reach(E, N, y)
    BY <1>8 DEF Searching, Tied
  <2>2. x \in K
    BY <1>1, <1>12, <1>13, <2>1
  <2>3. x = n
    BY <1>1, <1>3, <1>4, <1>5, <1>8, <2>2
  <2> QED BY <2>1, <2>3
<1>16. ASSUME NEW y \in K PROVE Component(E, N, y) = K
  <2>1. ASSUME NEW m \in K PROVE m \in Component(E, N, y)
    <3>1. /\ m \in N /\ y \in N
          /\ n \in Reach(E, N, y) /\ m \in Reach(E, N, n)
          /\ n \in Reach(E, N, m) /\ y \in Reach(E, N, n)
      BY <1>1, <1>8, <1>15
    <3>2. m \in Reach(E, N, y) /\ y \in Reach(E, N, m)
      BY <1>1, <1>2, <3>1
    <3> QED BY <3>2 DEF Component
  <2>2. ASSUME NEW m \in Component(E, N, y) PROVE m \in K
    <3>1. m \in Reach(E, N, y) /\ y \in Reach(E, N, m)
      BY DEF Component
    <3>2. m \in C \cup K
      BY <1>13, <3>1
    <3>3. m \in C => y \in C
      BY <1>14, <3>1
    <3> QED BY <1>8, <1>12, <3>2, <3>3
  <2> QED BY <2>1, <2>2
<1>17. Numbered(N, E, num, S2, P2, F)
  <2>1. P2 \subseteq S2 /\ S2 \subseteq S
    BY <1>6
  <2> QED BY <2>1 DEF Searching, Numbered
<1>18. Complete(N, E, num, S2, found \cup ({K} \ {{m} : m \in N}))
  <2> DEFINE C2 == {c \in N : Done(num, S2, c)}
             One == {{m} : m \in N}
  <2>1. C2 = C \cup K
    BY <1>1, <1>9, <1>12
  <2>2. found = {Component(E, N, c) : c \in C} \ One
    BY DEF C, Searching, Complete
  <2>3. \A a, b \in N : <<a, b>> \in E /\ Done(num, S2, a) => Done(num, S2, b)
    BY <1>9, <1>11
  <2> HIDE DEF One, C2, S2
  <2>4. {Component(E, N, c) : c \in C \cup K} = {Component(E, N, c) : c \in C} \cup {K}
    BY <1>1, <1>16
  <2>5. found \cup ({K} \ One) = {Component(E, N, c) : c \in C2} \ One
    BY <2>1, <2>2, <2>4
  <2> QED BY <2>3, <2>5 DEF Complete, C2, One
<1>19. Tied(N, E, num, S2, P2)
  <2>1. ASSUME NEW y \in S2 PROVE \E x \in P2 : num[x] <= num[y] /\ x \in Reach(E, N, y)
    <3>1. PICK x \in P : num[x] <= num[y] /\ x \in Reach(E, N, y)
      BY <1>7 DEF Searching, Tied
    <3>2. x # n
      BY <1>1, <1>3, <1>7, <3>1
    <3> QED BY <3>1, <3>2
  <2>2. \A x \in P2, y \in S2 : num[x] <= num[y] => y \in Reach(E, N, x)
    BY <1>7 DEF Searching, Tied
  <2> QED BY <2>1, <2>2 DEF Tied
<1>20. Linked(N, E, num, low2, S2, P2, F)
  <2>1. ASSUME NEW x \in P2
        PROVE  low2[x] <= num[x] /\ \E y \in S2 : low2[x] = num[y] /\ y \in Reach(E, N, x)
    <3>1. low[x] <= num[x]
      BY DEF Searching, Linked
    <3>2. PICK y \in S : low[x] = num[y] /\ y \in Reach(E, N, x)
      BY DEF Searching, Linked
    <3>3. y \in S2
      BY <1>1, <1>3, <1>6, <3>1, <3>2
    <3> QED BY <1>10, <3>1, <3>2, <3>3
  <2>2. ASSUME NEW x \in P2, NEW y \in S2, NEW z \in S2, Own(num, P2, x, y), <<y, z>> \in F
        PROVE  low2[x] <= num[z]
    <3>1. Own(num, P, x, y)
      BY <1>6, <1>7, <2>2 DEF Own
    <3> QED BY <1>7, <1>10, <2>2, <3>1 DEF Searching, Linked
  <2> QED BY <2>1, <2>2 DEF Linked
<1> QED BY <1>17, <1>18, <1>19, <1>20 DEF Searching

-----------------------------------------------------------------------------
(* tarjanSCC(), by the loop.  Both stacks are in the order of the numbers. *)
Ordered(number, s) == \A i, j \in 1 .. Len(s) : i < j => number[s[i]] < number[s[j]]

\* The nodes on a stack.
LEMMA StackIs ==
    ASSUME NEW N, NEW s \in Seq(N)
    PROVE  /\ Len(s) \in Nat /\ DOMAIN s = 1 .. Len(s)
           /\ s # <<>> => Len(s) # 0
           /\ \A i \in 1 .. Len(s) : s[i] \in N /\ s[i] \in ToSet(s)
           /\ \A y \in ToSet(s) : \E i \in 1 .. Len(s) : y = s[i]
<1>1. /\ Len(s) \in Nat /\ DOMAIN s = 1 .. Len(s)
      /\ \A i \in 1 .. Len(s) : s[i] \in N
  BY StackFacts
<1>2. s = <<>> <=> Len(s) = 0
  BY StackFacts
<1>3. ToSet(s) = {s[i] : i \in 1 .. Len(s)}
  BY StackFacts
<1> QED BY <1>1, <1>2, <1>3

\* The nodes on a part of a stack.
LEMMA SliceIs ==
    ASSUME NEW N, NEW s \in Seq(N), NEW a \in Nat, NEW b \in Nat,
           1 <= a, a <= b + 1, b <= Len(s)
    PROVE  /\ SubSeq(s, a, b) \in Seq(N) /\ Len(SubSeq(s, a, b)) = b - a + 1
           /\ \A i \in 1 .. b - a + 1 : SubSeq(s, a, b)[i] = s[a + i - 1]
           /\ ToSet(SubSeq(s, a, b)) = {s[j] : j \in a .. b}
<1> DEFINE q == SubSeq(s, a, b)
<1>1. \A i \in a .. b : s[i] \in N
  <2>1. \A i \in a .. b : i \in 1 .. Len(s)
    BY StackIs
  <2> QED BY <2>1, StackIs
<1>2. /\ q \in Seq(N)
      /\ Len(q) = IF a <= b THEN b - a + 1 ELSE 0
      /\ \A i \in 1 .. b - a + 1 : q[i] = s[a + i - 1]
  <2>1. a \in Int /\ b \in Int
    OBVIOUS
  <2> QED BY <1>1, <2>1, SubSeqProperties
<1>3. Len(q) = b - a + 1
  <2>1. ~(a <= b) => b - a + 1 = 0
    OBVIOUS
  <2> HIDE DEF q
  <2> QED BY <1>2, <2>1
<1> HIDE DEF q
<1>4. ASSUME NEW y \in ToSet(q) PROVE y \in {s[j] : j \in a .. b}
  <2>1. PICK i \in 1 .. Len(q) : y = q[i]
    BY <1>2, StackIs
  <2>2. i \in 1 .. b - a + 1
    BY <1>3, <2>1
  <2>3. a + i - 1 \in a .. b
    BY <2>2
  <2>4. y = s[a + i - 1]
    BY <1>2, <2>1, <2>2
  <2> QED BY <2>3, <2>4
<1>5. ASSUME NEW j \in a .. b PROVE s[j] \in ToSet(q)
  <2> DEFINE i == j - a + 1
  <2>1. i \in 1 .. b - a + 1 /\ a + i - 1 = j
    OBVIOUS
  <2> HIDE DEF i
  <2>2. q[i] = s[j] /\ i \in 1 .. Len(q)
    BY <1>2, <1>3, <2>1
  <2> QED BY <1>2, <2>2, StackIs
<1>6. ToSet(q) = {s[j] : j \in a .. b}
  BY <1>4, <1>5
<1> QED BY <1>2, <1>3, <1>6 DEF q

\* The top of a stack in order, and the stack below it.
LEMMA OrderedPopped ==
    ASSUME NEW N, NEW number \in [N -> Nat], NEW s \in Seq(N), Ordered(number, s), s # <<>>
    PROVE  /\ Last(s) \in ToSet(s) /\ ToSet(s) \subseteq N
           /\ Top(number, ToSet(s), Last(s))
           /\ Front(s) \in Seq(N) /\ Ordered(number, Front(s))
           /\ ToSet(Front(s)) = ToSet(s) \ {Last(s)}
<1> DEFINE k == Len(s)
           t == Last(s)
           f == Front(s)
<1>1. /\ k \in Nat /\ k # 0 /\ \A i \in 1 .. k : s[i] \in N /\ s[i] \in ToSet(s)
      /\ \A y \in ToSet(s) : \E i \in 1 .. k : y = s[i]
  BY StackIs
<1>2. t = s[k] /\ f \in Seq(N) /\ Len(f) = k - 1 /\ \A i \in 1 .. k - 1 : f[i] = s[i]
  BY StackFacts
<1> HIDE DEF t, f
<1>3. /\ \A i \in 1 .. k - 1 : f[i] \in ToSet(f)
      /\ \A y \in ToSet(f) : \E i \in 1 .. k - 1 : y = f[i]
  BY <1>2, StackIs
<1>4. /\ k \in 1 .. k
      /\ \A i \in 1 .. k : i = k \/ (i \in 1 .. k - 1 /\ i < k)
      /\ \A i \in 1 .. k - 1 : i \in 1 .. k /\ i < k
  BY <1>1
<1>5. \A i \in 1 .. k - 1 : number[s[i]] < number[t] /\ s[i] # t
  <2>1. TAKE i \in 1 .. k - 1
  <2>2. number[s[i]] < number[s[k]]
    BY <1>4 DEF Ordered
  <2>3. number[s[k]] \in Nat
    BY <1>1, <1>4
  <2> QED BY <1>2, <2>2, <2>3
<1>6. number[t] \in Nat /\ \A y \in ToSet(s) : number[y] \in Nat
  BY <1>1, <1>2, <1>4
<1>7. Top(number, ToSet(s), t)
  <2>1. t \in ToSet(s)
    BY <1>1, <1>2, <1>4
  <2>2. \A i \in 1 .. k : number[s[i]] <= number[t]
    <3>1. TAKE i \in 1 .. k
    <3>2. s[i] = t \/ number[s[i]] < number[t]
      BY <1>2, <1>4, <1>5
    <3>3. number[s[i]] \in Nat
      BY <1>1, <1>6
    <3> QED BY <1>6, <3>2, <3>3
  <2> QED BY <1>1, <2>1, <2>2 DEF Top
<1>8. Ordered(number, f)
  <2>1. \A i, j \in 1 .. k - 1 : i < j => number[s[i]] < number[s[j]]
    BY <1>4 DEF Ordered
  <2>2. \A i, j \in 1 .. k - 1 : i < j => number[f[i]] < number[f[j]]
    BY <1>2, <2>1
  <2> QED BY <1>2, <2>2 DEF Ordered
<1>9. \A y \in ToSet(f) : \E i \in 1 .. k - 1 : y = s[i]
  BY <1>2, <1>3
<1>10. ToSet(f) = ToSet(s) \ {t}
  <2>1. ToSet(f) \subseteq ToSet(s) \ {t}
    BY <1>1, <1>4, <1>5, <1>9
  <2>2. ASSUME NEW y \in ToSet(s), y # t PROVE y \in ToSet(f)
    <3>1. PICK i \in 1 .. k : y = s[i]
      BY <1>1
    <3>2. i \in 1 .. k - 1
      BY <1>2, <1>4, <2>2, <3>1
    <3> QED BY <1>2, <1>3, <3>1, <3>2
  <2> QED BY <2>1, <2>2
<1>11. ToSet(s) \subseteq N
  BY <1>1
<1> QED BY <1>2, <1>7, <1>8, <1>10, <1>11 DEF t, f, Top

\* A node is pushed with a number above all on the stack.
LEMMA OrderedPushed ==
    ASSUME NEW N, NEW number \in [N -> Nat], NEW s \in Seq(N), Ordered(number, s),
           NEW m \in N, number[m] = 0, NEW k \in Nat,
           \A y \in ToSet(s) : number[y] # 0 /\ number[y] < k
    PROVE  /\ Append(s, m) \in Seq(N) /\ ToSet(Append(s, m)) = ToSet(s) \cup {m}
           /\ Ordered([number EXCEPT ![m] = k], Append(s, m))
<1> DEFINE L == Len(s)
           a == Append(s, m)
           number2 == [number EXCEPT ![m] = k]
<1>1. /\ L \in Nat /\ \A i \in 1 .. L : s[i] \in N /\ s[i] \in ToSet(s)
      /\ \A y \in ToSet(s) : \E i \in 1 .. L : y = s[i]
  BY StackIs
<1>2. /\ L \in Nat
      /\ a \in Seq(N) /\ Len(a) = L + 1
      /\ \A i \in 1 .. L : a[i] = s[i]
      /\ a[L + 1] = m
  BY StackFacts
<1> HIDE DEF a
<1>3. /\ \A i \in 1 .. L + 1 : a[i] \in ToSet(a)
      /\ \A y \in ToSet(a) : \E i \in 1 .. L + 1 : y = a[i]
  BY <1>2, StackIs
<1>4. /\ \A i \in 1 .. L + 1 : i = L + 1 \/ (i \in 1 .. L /\ i < L + 1)
      /\ \A i \in 1 .. L : i \in 1 .. L + 1
      /\ L + 1 \in 1 .. L + 1
  BY <1>2
<1>5. \A i \in 1 .. L : s[i] # m /\ number2[s[i]] = number[s[i]] /\ number2[s[i]] < k
  BY <1>1
<1>6. number2[m] = k
  OBVIOUS
<1> HIDE DEF number2
<1>7. ToSet(a) = ToSet(s) \cup {m}
  <2>1. \A y \in ToSet(a) : y \in ToSet(s) \/ y = m
    BY <1>1, <1>2, <1>3, <1>4
  <2>2. \A y \in ToSet(s) : y \in ToSet(a)
    BY <1>1, <1>2, <1>3, <1>4, SMTT(30)
  <2>3. m \in ToSet(a)
    BY <1>2, <1>3, <1>4
  <2> QED BY <2>1, <2>2, <2>3
<1>8. Ordered(number2, a)
  <2>1. SUFFICES ASSUME NEW i \in 1 .. L + 1, NEW j \in 1 .. L + 1, i < j
                 PROVE  number2[a[i]] < number2[a[j]]
    BY <1>2 DEF Ordered
  <2>2. i \in 1 .. L
    BY <1>2, <2>1
  <2>3. CASE j = L + 1
    BY <1>2, <1>5, <1>6, <2>2, <2>3
  <2>4. CASE j \in 1 .. L
    <3>1. number[s[i]] < number[s[j]]
      BY <2>1, <2>2, <2>4 DEF Ordered
    <3> QED BY <1>2, <1>5, <2>2, <2>4, <3>1
  <2> QED BY <1>4, <2>3, <2>4
<1> QED BY <1>2, <1>7, <1>8 DEF a, number2

CutAt(N, number, s, c, K) ==
    /\ SubSeq(s, 1, c - 1) \in Seq(N) /\ Ordered(number, SubSeq(s, 1, c - 1))
    /\ ToSet(SubSeq(s, 1, c - 1)) = ToSet(s) \ K
    /\ ToSet(SubSeq(s, c, Len(s))) = K
    /\ c = Len(s) <=> K \in {{m} : m \in N}

\* The stack is cut at a node: what is below it stays.
LEMMA OrderedCut ==
    ASSUME NEW N, NEW number \in [N -> Nat], NEW s \in Seq(N), Ordered(number, s),
           NEW n \in ToSet(s), NEW c, c \in DOMAIN s, s[c] = n,
           NEW K, K = {y \in ToSet(s) : number[n] <= number[y]}
    PROVE  CutAt(N, number, s, c, K)
<1> DEFINE L == Len(s)
<1>1. /\ L \in Nat /\ DOMAIN s = 1 .. L /\ \A i \in 1 .. L : s[i] \in N /\ s[i] \in ToSet(s)
      /\ \A y \in ToSet(s) : \E i \in 1 .. L : y = s[i]
  BY StackIs
<1>2. c \in 1 .. L /\ s[c] = n
  BY <1>1
<1>3. /\ c \in Nat /\ c - 1 \in Nat /\ 1 <= c /\ c <= L /\ L \in Nat
      /\ n \in N /\ number[n] \in Nat
  BY <1>1, <1>2
<1>4. /\ SubSeq(s, 1, c - 1) \in Seq(N) /\ Len(SubSeq(s, 1, c - 1)) = c - 1
      /\ \A i \in 1 .. c - 1 : SubSeq(s, 1, c - 1)[i] = s[i]
      /\ ToSet(SubSeq(s, 1, c - 1)) = {s[j] : j \in 1 .. c - 1}
  <2> DEFINE b == c - 1
  <2>1. b \in Nat /\ 1 \in Nat /\ 1 <= 1 /\ 1 <= b + 1 /\ b <= L
    BY <1>1, <1>3
  <2>2. b - 1 + 1 = b /\ \A i \in 1 .. b : 1 + i - 1 = i
    BY <1>3
  <2> HIDE DEF b
  <2>3. /\ SubSeq(s, 1, b) \in Seq(N) /\ Len(SubSeq(s, 1, b)) = b - 1 + 1
        /\ \A i \in 1 .. b - 1 + 1 : SubSeq(s, 1, b)[i] = s[1 + i - 1]
        /\ ToSet(SubSeq(s, 1, b)) = {s[j] : j \in 1 .. b}
    BY <2>1, SliceIs
  <2>4. \A i \in 1 .. b : SubSeq(s, 1, b)[i] = s[i]
    BY <2>2, <2>3
  <2> QED BY <2>2, <2>3, <2>4 DEF b
<1>5. ToSet(SubSeq(s, c, L)) = {s[j] : j \in c .. L}
  <2>1. c \in Nat /\ L \in Nat /\ 1 <= c /\ c <= L + 1 /\ L <= L
    BY <1>3
  <2> QED BY <2>1, SliceIs, SMTT(30)
<1>6. \A i \in 1 .. L : number[s[i]] \in Nat
  BY <1>1
<1>7. \A i \in 1 .. L : i < c => number[s[i]] < number[n]
  BY <1>1, <1>2 DEF Ordered
<1>8. \A i \in 1 .. L : c < i => number[n] < number[s[i]]
  BY <1>1, <1>2 DEF Ordered
<1> DEFINE low == SubSeq(s, 1, c - 1)
           high == SubSeq(s, c, L)
<1> HIDE DEF low, high, L
<1>9. \A i \in 1 .. L : s[i] \in K <=> c <= i
  <2>1. TAKE i \in 1 .. L
  <2>2. s[i] \in K <=> number[n] <= number[s[i]]
    BY <1>1
  <2>3. i = c => number[s[i]] = number[n]
    BY <1>2
  <2>4. i \in Nat /\ number[s[i]] \in Nat
    BY <1>1, <1>6
  <2>5. CASE i < c
    <3>1. number[s[i]] < number[n]
      BY <1>7, <2>5
    <3>2. ~(c <= i) /\ ~(number[n] <= number[s[i]])
      BY <1>3, <2>4, <2>5, <3>1
    <3> QED BY <2>2, <3>2
  <2>6. CASE i = c
    BY <1>3, <2>2, <2>3, <2>4, <2>6
  <2>7. CASE c < i
    <3>1. number[n] < number[s[i]]
      BY <1>8, <2>7
    <3>2. c <= i /\ number[n] <= number[s[i]]
      BY <1>3, <2>4, <2>7, <3>1
    <3> QED BY <2>2, <3>2
  <2> QED BY <1>3, <2>4, <2>5, <2>6, <2>7
<1>10. /\ \A i \in 1 .. c - 1 : i \in 1 .. L /\ ~(c <= i)
       /\ \A i \in 1 .. L : ~(c <= i) => i \in 1 .. c - 1
       /\ \A i \in c .. L : i \in 1 .. L /\ c <= i
       /\ \A i \in 1 .. L : c <= i => i \in c .. L
  BY <1>3
<1>11. ToSet(low) = ToSet(s) \ K
  <2>1. ASSUME NEW j \in 1 .. c - 1 PROVE s[j] \in ToSet(s) \ K
    BY <1>1, <1>9, <1>10
  <2>2. ASSUME NEW y \in ToSet(s) \ K PROVE \E j \in 1 .. c - 1 : y = s[j]
    BY <1>1, <1>9, <1>10
  <2>3. ToSet(low) = {s[j] : j \in 1 .. c - 1}
    BY <1>4 DEF low
  <2> QED BY <2>1, <2>2, <2>3
<1>12. ToSet(high) = K
  <2>1. ASSUME NEW j \in c .. L PROVE s[j] \in K
    BY <1>9, <1>10
  <2>2. ASSUME NEW y \in K PROVE \E j \in c .. L : y = s[j]
    BY <1>1, <1>9, <1>10
  <2>3. ToSet(high) = {s[j] : j \in c .. L}
    BY <1>5 DEF high
  <2> QED BY <2>1, <2>2, <2>3
<1>13. c = L <=> K \in {{m} : m \in N}
  <2>1. n \in K
    BY <1>2, <1>3, <1>9
  <2>2. ASSUME c = L PROVE K = {n}
    <3>1. \A i \in 1 .. L : c <= i => i = c
      BY <1>3, <2>2
    <3>2. ASSUME NEW y \in K PROVE y = n
      <4>1. PICK i \in 1 .. L : y = s[i]
        BY <1>1
      <4> QED BY <1>2, <1>9, <3>1, <4>1
    <3> QED BY <2>1, <3>2
  <2>3. ASSUME NEW m \in N, K = {m} PROVE c = L
    <3>1. L \in 1 .. L /\ c <= L
      BY <1>1, <1>3
    <3>2. s[L] \in K
      BY <1>9, <3>1
    <3>3. s[L] = n
      BY <2>1, <2>3, <3>2
    <3>4. c < L => number[n] < number[s[L]]
      BY <1>8, <3>1
    <3>5. ~(c < L)
      BY <1>3, <3>3, <3>4
    <3> QED BY <1>3, <3>5
  <2> QED BY <1>3, <2>2, <2>3
<1>14. Ordered(number, low)
  <2>1. \A i, j \in 1 .. c - 1 : i < j => number[s[i]] < number[s[j]]
    BY <1>10 DEF Ordered, L
  <2>2. \A i, j \in 1 .. c - 1 : i < j => number[low[i]] < number[low[j]]
    BY <1>4, <1>3, <2>1 DEF low
  <2> QED BY <1>4, <2>2 DEF Ordered, low
<1> QED BY <1>4, <1>11, <1>12, <1>13, <1>14 DEF CutAt, low, high, L

(* The edges followed, by the rows read.                                   *)
Followed(G, seen) == {e \in Edges(G) : \E i \in 1 .. seen[e[1]] : G[e[1]][i] = e[2]}

OneMoreEdge(G, seen, n, m, seen2) ==
    /\ m \in DOMAIN G /\ <<n, m>> \in Edges(G)
    /\ Followed(G, seen2) = Followed(G, seen) \cup {<<n, m>>}

\* One more row of a node is one more edge.
LEMMA FollowedNext ==
    ASSUME NEW G, IsGraph(G), NEW seen \in [DOMAIN G -> Nat], NEW n \in DOMAIN G,
           seen[n] < Len(G[n]), NEW m, m = G[n][seen[n] + 1],
           NEW seen2, seen2 = [seen EXCEPT ![n] = @ + 1]
    PROVE  OneMoreEdge(G, seen, n, m, seen2)
<1> DEFINE N == DOMAIN G
           E == Edges(G)
<1>1. /\ \A a, b \in N : <<a, b>> \in E <=> \E i \in 1 .. Len(G[a]) : G[a][i] = b
      /\ E \subseteq N \X N
  BY GraphEdges, ZenonT(40)
<1>2. Len(G[n]) \in Nat /\ \A i \in 1 .. Len(G[n]) : G[n][i] \in N
  BY GraphRows
<1>3. \A a, b \in N :
         /\ <<a, b>> \in Followed(G, seen) <=> <<a, b>> \in E /\ \E i \in 1 .. seen[a] : G[a][i] = b
         /\ <<a, b>> \in Followed(G, seen2) <=> <<a, b>> \in E /\ \E i \in 1 .. seen2[a] : G[a][i] = b
  BY DEF Followed
<1>4. seen[n] \in Nat /\ seen[n] + 1 \in 1 .. Len(G[n])
  BY <1>2
<1>5. m \in N /\ <<n, m>> \in E
  BY <1>1, <1>2, <1>4
<1>6. seen2[n] = seen[n] + 1 /\ \A a \in N : a # n => seen2[a] = seen[a]
  OBVIOUS
<1>7. /\ \A i \in 1 .. seen[n] + 1 : i = seen[n] + 1 \/ i \in 1 .. seen[n]
      /\ \A i \in 1 .. seen[n] : i \in 1 .. seen[n] + 1
      /\ seen[n] + 1 \in 1 .. seen[n] + 1
  BY <1>4
<1>8. ASSUME NEW a \in N, NEW b \in N
      PROVE  <<a, b>> \in Followed(G, seen2) <=> <<a, b>> \in Followed(G, seen) \cup {<<n, m>>}
  <2>1. CASE a # n
    <3>1. seen2[a] = seen[a] /\ <<a, b>> # <<n, m>>
      BY <1>6, <2>1
    <3> QED BY <1>3, <3>1
  <2>2. CASE a = n
    <3>1. (\E i \in 1 .. seen2[a] : G[a][i] = b)
             <=> (\E i \in 1 .. seen[a] : G[a][i] = b) \/ b = m
      BY <1>6, <1>7, <2>2
    <3>2. b = m => <<a, b>> \in E /\ <<a, b>> = <<n, m>>
      BY <1>5, <2>2
    <3>3. <<a, b>> = <<n, m>> => b = m
      OBVIOUS
    <3> QED BY <1>3, <3>1, <3>2, <3>3
  <2> QED BY <2>1, <2>2
<1>9. Followed(G, seen2) \subseteq N \X N /\ Followed(G, seen) \subseteq N \X N
  BY <1>1 DEF Followed
<1>10. Followed(G, seen2) = Followed(G, seen) \cup {<<n, m>>}
  <2>1. <<n, m>> \in N \X N
    BY <1>5
  <2>2. \A e \in N \X N : e \in Followed(G, seen2) <=> e \in Followed(G, seen) \cup {<<n, m>>}
    <3>1. TAKE e \in N \X N
    <3>2. e = <<e[1], e[2]>> /\ e[1] \in N /\ e[2] \in N
      OBVIOUS
    <3>3. <<e[1], e[2]>> \in Followed(G, seen2)
             <=> <<e[1], e[2]>> \in Followed(G, seen) \cup {<<n, m>>}
      BY <1>8, <3>2
    <3> QED BY <3>2, <3>3, Zenon
  <2> QED BY <1>9, <2>1, <2>2
<1> QED BY <1>5, <1>10 DEF OneMoreEdge

\* All rows of a node are all its edges.
LEMMA FollowedAll ==
    ASSUME NEW G, IsGraph(G), NEW seen \in [DOMAIN G -> Nat], NEW n \in DOMAIN G,
           seen[n] = Len(G[n]), NEW m \in DOMAIN G, <<n, m>> \in Edges(G)
    PROVE  <<n, m>> \in Followed(G, seen)
BY GraphEdges DEF Followed

Stacked(G, number, next, stack, path, seen) ==
    /\ Ordered(number, stack) /\ Ordered(number, path)
    /\ next # 0 /\ \A y \in ToSet(stack) : number[y] < next
    /\ \A n \in DOMAIN G : seen[n] <= Len(G[n]) /\ (number[n] = 0 => seen[n] = 0)

SearchOK(G, r) ==
    /\ r \in Search(DOMAIN G)
    /\ Stacked(G, r.number, r.next, r.stack, r.path, r.seen)
    /\ Searching(DOMAIN G, Edges(G), r.number, r.low, ToSet(r.stack), ToSet(r.path),
                 Followed(G, r.seen), r.found)

(* How far the search has come with a node, and that it has come further.  *)
Sought(r) ==
    [n \in DOMAIN r.seen |-> IF r.number[n] = 0 THEN 0
                             ELSE IF n \in ToSet(r.path) THEN r.seen[n] + 1 ELSE r.seen[n] + 2]

Further(G, r, q) ==
    /\ \A n \in DOMAIN G : Sought(r)[n] <= Sought(q)[n]
    /\ \E n \in DOMAIN G : Sought(r)[n] < Sought(q)[n]

(* What a call is for: a first node, or the next row of the call at hand.  *)
CalledFor(G, r, m, seen2) ==
    \/ r.path = <<>> /\ seen2 = r.seen
    \/ /\ r.path # <<>> /\ r.seen[Last(r.path)] < Len(G[Last(r.path)])
       /\ m = G[Last(r.path)][r.seen[Last(r.path)] + 1]
       /\ seen2 = [r.seen EXCEPT ![Last(r.path)] = @ + 1]

\* A round that calls for a node.
LEMMA PushRound ==
    ASSUME NEW G, IsGraph(G), NEW r, SearchOK(G, r), NEW m \in DOMAIN G, r.number[m] = 0,
           NEW seen2, CalledFor(G, r, m, seen2),
           NEW q, q = Push([r EXCEPT !.seen = seen2], m)
    PROVE  SearchOK(G, q) /\ Further(G, r, q)
<1> DEFINE N == DOMAIN G
           E == Edges(G)
           number == r.number
           low == r.low
           next == r.next
           stack == r.stack
           path == r.path
           seen == r.seen
           found == r.found
           n == Last(path)
           F == Followed(G, seen)
           F2 == Followed(G, seen2)
<1>1. r = [number |-> number, low |-> low, next |-> next, stack |-> stack,
           path |-> path, seen |-> seen, found |-> found]
  BY DEF SearchOK, Search
<1>2. /\ number \in [N -> Nat] /\ low \in [N -> Nat] /\ next \in Nat
      /\ stack \in Seq(N) /\ path \in Seq(N) /\ seen \in [N -> Nat] /\ found \in SUBSET SUBSET N
      /\ Stacked(G, number, next, stack, path, seen)
      /\ Searching(N, E, number, low, ToSet(stack), ToSet(path), F, found)
      /\ number[m] = 0
  BY DEF SearchOK, Search
<1>3. q = [number |-> [number EXCEPT ![m] = next], low |-> [low EXCEPT ![m] = next],
           next |-> next + 1, stack |-> Append(stack, m), path |-> Append(path, m),
           seen |-> seen2, found |-> found]
  <2>1. q = [r EXCEPT !.number = [number EXCEPT ![m] = next], !.low = [low EXCEPT ![m] = next],
                      !.next = next + 1, !.stack = Append(stack, m), !.path = Append(path, m),
                      !.seen = seen2]
    <3>1. [r EXCEPT !.seen = seen2] = [number |-> number, low |-> low, next |-> next,
              stack |-> stack, path |-> path, seen |-> seen2, found |-> found]
      <4> HIDE DEF number, low, next, stack, path, seen, found
      <4> QED BY <1>1
    <3> QED BY <3>1 DEF Push
  <2> HIDE DEF number, low, next, stack, path, seen, found
  <2> QED BY <1>1, <2>1
<1>4. \/ path = <<>> /\ seen2 = seen
      \/ /\ path # <<>> /\ seen[n] < Len(G[n]) /\ m = G[n][seen[n] + 1]
         /\ seen2 = [seen EXCEPT ![n] = @ + 1]
  BY DEF CalledFor
<1> HIDE DEF number, low, next, stack, path, seen, found, n, F, F2
<1>5. \A k \in N : seen[k] \in Nat /\ Len(G[k]) \in Nat /\ seen[k] <= Len(G[k])
  BY <1>2, GraphRows DEF Stacked
<1>6. path # <<>> => n \in ToSet(path) /\ n \in N /\ Top(number, ToSet(path), n)
  BY <1>2, OrderedPopped DEF Stacked, n
<1>7. path = <<>> => ToSet(path) = {}
  BY DEF ToSet
<1>8. path # <<>> => /\ <<n, m>> \in E /\ F2 = F \cup {<<n, m>>}
                     /\ seen2 \in [N -> Nat]
                     /\ seen2[n] = seen[n] + 1 /\ \A k \in N : k # n => seen2[k] = seen[k]
                     /\ seen2[n] <= Len(G[n])
  <2>1. SUFFICES ASSUME path # <<>>
                 PROVE  /\ <<n, m>> \in E /\ F2 = F \cup {<<n, m>>}
                        /\ seen2 \in [N -> Nat]
                        /\ seen2[n] = seen[n] + 1 /\ \A k \in N : k # n => seen2[k] = seen[k]
                        /\ seen2[n] <= Len(G[n])
    OBVIOUS
  <2>2. n \in N /\ seen[n] < Len(G[n]) /\ m = G[n][seen[n] + 1]
    BY <1>4, <1>6, <2>1
  <2>3. seen2 = [seen EXCEPT ![n] = @ + 1]
    BY <1>4, <2>1
  <2>4. <<n, m>> \in E /\ F2 = F \cup {<<n, m>>}
    <3>1. OneMoreEdge(G, seen, n, m, seen2)
      BY <1>2, <2>2, <2>3, FollowedNext
    <3> QED BY <3>1 DEF OneMoreEdge, F, F2
  <2>5. seen2[n] = seen[n] + 1 /\ \A k \in N : k # n => seen2[k] = seen[k]
    BY <1>2, <2>2, <2>3
  <2>6. seen2 \in [N -> Nat] /\ seen2[n] <= Len(G[n])
    BY <1>2, <1>5, <2>2, <2>3
  <2> QED BY <2>4, <2>5, <2>6
<1>9. path = <<>> => F2 = F /\ seen2 = seen
  BY <1>4 DEF F, F2
<1>10. /\ ToSet(path) \subseteq ToSet(stack) /\ ToSet(stack) \subseteq N
       /\ \A y \in ToSet(stack) : number[y] # 0 /\ number[y] < next
  BY <1>2 DEF Searching, Numbered, Stacked
<1> DEFINE number2 == [number EXCEPT ![m] = next]
           low2 == [low EXCEPT ![m] = next]
<1>11. Searching(N, E, number2, low2, ToSet(stack) \cup {m}, ToSet(path) \cup {m}, F2, found)
  <2>1. E \in SUBSET (N \X N) /\ next # 0
    BY <1>2, GraphEdges DEF Stacked
  <2>2. \/ ToSet(path) = {} /\ F2 = F
        \/ \E k \in ToSet(path) : /\ Top(number, ToSet(path), k) /\ <<k, m>> \in E
                                  /\ F2 = F \cup {<<k, m>>}
    BY <1>6, <1>7, <1>8, <1>9
  <2> QED BY <1>2, <1>10, <2>1, <2>2, SearchPushed
<1>12. /\ Append(stack, m) \in Seq(N) /\ ToSet(Append(stack, m)) = ToSet(stack) \cup {m}
       /\ Ordered(number2, Append(stack, m))
  BY <1>2, <1>10, OrderedPushed DEF Stacked
<1>13. /\ Append(path, m) \in Seq(N) /\ ToSet(Append(path, m)) = ToSet(path) \cup {m}
       /\ Ordered(number2, Append(path, m))
  BY <1>2, <1>10, OrderedPushed DEF Stacked
<1>14. /\ number2[m] = next /\ \A k \in N : k # m => number2[k] = number[k]
       /\ number2 \in [N -> Nat] /\ low2 \in [N -> Nat] /\ next + 1 \in Nat
       /\ next # 0
  BY <1>2 DEF Stacked
<1> HIDE DEF number2, low2
<1>15. m \notin ToSet(stack) /\ seen[m] = 0 /\ (path # <<>> => n # m)
  BY <1>2, <1>6, <1>10 DEF Stacked
<1>16. seen2 \in [N -> Nat] /\ \A k \in N : seen[k] <= seen2[k] /\ seen2[k] <= Len(G[k])
  <2>1. CASE path = <<>>
    BY <1>2, <1>5, <1>9, <2>1
  <2>2. CASE path # <<>>
    BY <1>5, <1>8, <2>2
  <2> QED BY <2>1, <2>2
<1>17. Stacked(G, number2, next + 1, Append(stack, m), Append(path, m), seen2)
  <2>1. \A y \in ToSet(stack) \cup {m} : number2[y] < next + 1
    BY <1>2, <1>10, <1>14, <1>15
  <2>2. ASSUME NEW k \in N, number2[k] = 0 PROVE seen2[k] = 0
    <3>1. k # m /\ number[k] = 0 /\ seen[k] = 0
      BY <1>2, <1>14, <2>2 DEF Stacked
    <3>2. path # <<>> => k # n
      BY <1>6, <1>10, <3>1
    <3> QED BY <1>8, <1>9, <3>1, <3>2
  <2> QED BY <1>2, <1>12, <1>13, <1>14, <1>16, <2>1, <2>2 DEF Stacked
<1>18. q = [number |-> number2, low |-> low2, next |-> next + 1, stack |-> Append(stack, m),
            path |-> Append(path, m), seen |-> seen2, found |-> found]
  BY <1>3 DEF number2, low2
<1>19. SearchOK(G, q)
  <2>1. q \in Search(N)
    BY ONLY <1>2, <1>12, <1>13, <1>14, <1>16, <1>18 DEF Search
  <2>2. /\ q.number = number2 /\ q.low = low2 /\ q.next = next + 1 /\ q.stack = Append(stack, m)
        /\ q.path = Append(path, m) /\ q.seen = seen2 /\ q.found = found
    BY ONLY <1>18
  <2>3. Searching(N, E, number2, low2, ToSet(Append(stack, m)), ToSet(Append(path, m)),
                  Followed(G, seen2), found)
    BY <1>11, <1>12, <1>13 DEF F2
  <2> QED BY <1>17, <2>1, <2>2, <2>3 DEF SearchOK
<1>20. DOMAIN seen = N /\ DOMAIN seen2 = N
  BY <1>2, <1>16
<1>21. \A k \in N :
         Sought(r)[k] = IF number[k] = 0 THEN 0
                        ELSE IF k \in ToSet(path) THEN seen[k] + 1 ELSE seen[k] + 2
  BY <1>1, <1>20 DEF Sought
<1>22. \A k \in N :
         Sought(q)[k] = IF number2[k] = 0 THEN 0
                        ELSE IF k \in ToSet(path) \cup {m} THEN seen2[k] + 1 ELSE seen2[k] + 2
  <2>1. Sought(q) = [k \in N |-> IF number2[k] = 0 THEN 0
                                 ELSE IF k \in ToSet(Append(path, m)) THEN seen2[k] + 1
                                 ELSE seen2[k] + 2]
    BY ONLY <1>18, <1>20 DEF Sought
  <2> QED BY <1>13, <2>1
<1>23. Sought(r)[m] < Sought(q)[m]
  <2>1. Sought(r)[m] = 0 /\ Sought(q)[m] = seen2[m] + 1 /\ seen2[m] \in Nat
    BY <1>2, <1>14, <1>16, <1>22, <1>21
  <2> QED BY <2>1
<1>24. ASSUME NEW k \in N PROVE Sought(r)[k] <= Sought(q)[k]
  <2>1. seen[k] \in Nat /\ seen2[k] \in Nat /\ seen[k] <= seen2[k]
    BY <1>5, <1>16
  <2>2. CASE k = m
    <3>1. Sought(r)[k] = 0 /\ Sought(q)[k] = seen2[k] + 1
      BY <1>2, <1>14, <1>22, <1>21, <2>2
    <3> QED BY <2>1, <3>1
  <2>3. CASE k # m
    BY <1>14, <1>22, <1>21, <2>1, <2>3
  <2> QED BY <2>2, <2>3
<1> QED BY <1>19, <1>23, <1>24 DEF Further

\* A round that follows an edge to a node with a number.
LEMMA FollowRound ==
    ASSUME NEW G, IsGraph(G), NEW r, SearchOK(G, r), r.path # <<>>,
           NEW n, n = Last(r.path), r.seen[n] < Len(G[n]),
           NEW m, m = G[n][r.seen[n] + 1], r.number[m] # 0,
           NEW q, q = Follow([r EXCEPT !.seen[n] = @ + 1], n, m)
    PROVE  SearchOK(G, q) /\ Further(G, r, q)
<1> DEFINE N == DOMAIN G
           E == Edges(G)
           number == r.number
           low == r.low
           next == r.next
           stack == r.stack
           path == r.path
           seen == r.seen
           found == r.found
           seen2 == [seen EXCEPT ![n] = @ + 1]
           lower == [low EXCEPT ![n] = IF number[m] < @ THEN number[m] ELSE @]
           low2 == IF m \in ToSet(stack) /\ number[m] < low[n]
                   THEN [low EXCEPT ![n] = number[m]] ELSE low
           F == Followed(G, seen)
           F2 == Followed(G, seen2)
<1>1. r = [number |-> number, low |-> low, next |-> next, stack |-> stack,
           path |-> path, seen |-> seen, found |-> found]
  BY DEF SearchOK, Search
<1>2. /\ number \in [N -> Nat] /\ low \in [N -> Nat] /\ next \in Nat
      /\ stack \in Seq(N) /\ path \in Seq(N) /\ seen \in [N -> Nat] /\ found \in SUBSET SUBSET N
      /\ Stacked(G, number, next, stack, path, seen)
      /\ Searching(N, E, number, low, ToSet(stack), ToSet(path), F, found)
      /\ number[m] # 0 /\ path # <<>> /\ seen[n] < Len(G[n]) /\ m = G[n][seen[n] + 1]
      /\ n = Last(path)
  BY DEF SearchOK, Search
<1>3. q = [number |-> number, low |-> IF m \in ToSet(stack) THEN lower ELSE low,
           next |-> next, stack |-> stack, path |-> path, seen |-> seen2, found |-> found]
  <2> DEFINE r1 == [r EXCEPT !.seen[n] = @ + 1]
  <2>1. r1 = [number |-> number, low |-> low, next |-> next, stack |-> stack,
              path |-> path, seen |-> seen2, found |-> found]
    <3> HIDE DEF number, low, next, stack, path, seen, found
    <3> QED BY <1>1
  <2>2. r1.number[m] # 0 /\ r1.stack = stack /\ r1.number = number
    BY <1>2, <2>1
  <2>3. q = IF m \in ToSet(stack) THEN Lower(r1, n, number[m]) ELSE r1
    BY <2>2 DEF Follow
  <2>4. Lower(r1, n, number[m])
           = [number |-> number, low |-> lower,
              next |-> next, stack |-> stack, path |-> path, seen |-> seen2, found |-> found]
    <3>1. r1.low = low
      BY <2>1
    <3>2. Lower(r1, n, number[m]) = [r1 EXCEPT !.low = lower]
      <4> HIDE DEF r1, number, low, next, stack, path, seen, found, seen2
      <4> QED BY <3>1 DEF Lower
    <3> HIDE DEF r1, number, low, next, stack, path, seen, found, seen2, lower
    <3> QED BY <2>1, <3>2
  <2> HIDE DEF r1, number, low, next, stack, path, seen, found, seen2, lower
  <2> QED BY <2>1, <2>3, <2>4
<1> HIDE DEF number, low, next, stack, path, seen, found
<1>4. n \in ToSet(path) /\ n \in N /\ Top(number, ToSet(path), n)
  <2>1. /\ Last(path) \in ToSet(path) /\ ToSet(path) \subseteq N
        /\ Top(number, ToSet(path), Last(path))
    <3>1. Ordered(number, path)
      BY <1>2 DEF Stacked
    <3> QED BY <1>2, <3>1, OrderedPopped
  <2> QED BY <1>2, <2>1
<1>5. q = [number |-> number, low |-> low2, next |-> next, stack |-> stack,
           path |-> path, seen |-> seen2, found |-> found]
  <2>1. m \in ToSet(stack) => lower = low2
    BY <1>2, <1>4
  <2>2. m \notin ToSet(stack) => low2 = low
    OBVIOUS
  <2> HIDE DEF low2, seen2, lower
  <2> QED BY <1>3, <2>1, <2>2
<1>6. OneMoreEdge(G, seen, n, m, seen2)
  <2> HIDE DEF seen2
  <2>1. seen2 = [seen EXCEPT ![n] = @ + 1]
    BY DEF seen2
  <2> QED BY <1>2, <1>4, <2>1, FollowedNext
<1>7. /\ seen2 \in [N -> Nat] /\ low2 \in [N -> Nat]
      /\ seen2[n] = seen[n] + 1 /\ \A k \in N : k # n => seen2[k] = seen[k]
      /\ \A k \in N : seen[k] \in Nat /\ seen2[k] \in Nat /\ seen[k] <= seen2[k]
  <2>1. m \in N
    BY <1>6 DEF OneMoreEdge
  <2>2. seen2 \in [N -> Nat] /\ low2 \in [N -> Nat]
    <3>1. seen2 \in [N -> Nat]
      BY <1>2, <1>4, SMTT(30)
    <3>2. number[m] \in Nat /\ [low EXCEPT ![n] = number[m]] \in [N -> Nat]
      BY <1>2, <1>4, <2>1
    <3>3. low2 \in [N -> Nat]
      BY <1>2, <3>2
    <3> QED BY <3>1, <3>3
  <2>3. seen2[n] = seen[n] + 1 /\ \A k \in N : k # n => seen2[k] = seen[k]
    BY <1>2, <1>4
  <2>4. \A k \in N : seen[k] \in Nat /\ seen2[k] \in Nat
    BY <1>2, <2>2
  <2> HIDE DEF seen2, low2
  <2>5. \A k \in N : seen[k] <= seen2[k]
    BY <2>3, <2>4
  <2> QED BY <2>2, <2>3, <2>4, <2>5
<1>8. seen2[n] <= Len(G[n])
  <2>1. Len(G[n]) \in Nat /\ seen[n] \in Nat
    BY <1>2, <1>4, GraphRows
  <2> QED BY <1>2, <1>7, <2>1
<1>9. number[n] # 0
  BY <1>2, <1>4 DEF Searching, Numbered
<1>10. Searching(N, E, number, low2, ToSet(stack), ToSet(path), F2, found)
  <2>1. m \in N /\ <<n, m>> \in E /\ F2 = F \cup {<<n, m>>} /\ E \in SUBSET (N \X N)
    BY <1>6, GraphEdges DEF OneMoreEdge
  <2>2. low2 = IF m \in ToSet(stack) /\ number[m] < low[n]
               THEN [low EXCEPT ![n] = number[m]] ELSE low
    OBVIOUS
  <2> HIDE DEF low2, F, F2, E
  <2> QED BY <1>2, <1>4, <2>1, <2>2, SearchFollowed
<1> HIDE DEF seen2, low2
<1>11. Stacked(G, number, next, stack, path, seen2)
  BY <1>2, <1>4, <1>7, <1>8, <1>9 DEF Stacked
<1>12. SearchOK(G, q)
  <2>1. q \in Search(N)
    BY ONLY <1>2, <1>5, <1>7 DEF Search
  <2>2. /\ q.number = number /\ q.low = low2 /\ q.next = next /\ q.stack = stack
        /\ q.path = path /\ q.seen = seen2 /\ q.found = found
    BY ONLY <1>5
  <2> QED BY <1>10, <1>11, <2>1, <2>2 DEF SearchOK
<1>13. DOMAIN seen = N /\ DOMAIN seen2 = N
  BY <1>2, <1>7
<1>14. \A k \in N : Sought(r)[k] = IF number[k] = 0 THEN 0
                                   ELSE IF k \in ToSet(path) THEN seen[k] + 1 ELSE seen[k] + 2
  <2>1. Sought(r) = [k \in N |-> IF number[k] = 0 THEN 0
                                 ELSE IF k \in ToSet(path) THEN seen[k] + 1 ELSE seen[k] + 2]
    BY ONLY <1>1, <1>13 DEF Sought
  <2> QED BY <2>1
<1>15. \A k \in N : Sought(q)[k] = IF number[k] = 0 THEN 0
                                   ELSE IF k \in ToSet(path) THEN seen2[k] + 1 ELSE seen2[k] + 2
  <2>1. Sought(q) = [k \in N |-> IF number[k] = 0 THEN 0
                                 ELSE IF k \in ToSet(path) THEN seen2[k] + 1 ELSE seen2[k] + 2]
    BY ONLY <1>5, <1>13 DEF Sought
  <2> QED BY <2>1
<1>16. Sought(r)[n] < Sought(q)[n]
  <2>1. Sought(r)[n] = seen[n] + 1 /\ Sought(q)[n] = seen[n] + 2 /\ seen[n] \in Nat
    <3>1. seen2[n] + 1 = seen[n] + 2 /\ seen[n] \in Nat
      BY <1>4, <1>7
    <3> QED BY <1>4, <1>9, <1>14, <1>15, <3>1
  <2> QED BY <2>1, SMTT(30)
<1>17. \A k \in N : Sought(r)[k] <= Sought(q)[k]
  <2>1. TAKE k \in N
  <2>2. seen[k] \in Nat /\ seen2[k] \in Nat /\ seen[k] <= seen2[k]
    BY <1>7
  <2>3. CASE number[k] = 0
    <3>1. Sought(r)[k] = 0 /\ Sought(q)[k] = 0
      BY <1>14, <1>15, <2>3, SMTT(30)
    <3> QED BY <3>1
  <2>4. CASE number[k] # 0 /\ k \in ToSet(path)
    <3>1. Sought(r)[k] = seen[k] + 1 /\ Sought(q)[k] = seen2[k] + 1
      BY <1>14, <1>15, <2>4
    <3> QED BY <2>2, <3>1, SMTT(30)
  <2>5. CASE number[k] # 0 /\ k \notin ToSet(path)
    <3>1. Sought(r)[k] = seen[k] + 2 /\ Sought(q)[k] = seen2[k] + 2
      BY <1>14, <1>15, <2>5
    <3> QED BY <2>2, <3>1, SMTT(30)
  <2> QED BY <2>3, <2>4, <2>5
<1> QED BY <1>12, <1>4, <1>16, <1>17 DEF Further

(* The links when a call has returned, and what is then off the stack.     *)
LowLeft(number, low, path, n) ==
    IF Front(path) = <<>> THEN low
    ELSE [low EXCEPT ![Last(Front(path))] = IF low[n] < @ THEN low[n] ELSE @]

Left(r, n) ==
    [number |-> r.number, low |-> LowLeft(r.number, r.low, r.path, n), next |-> r.next,
     stack |-> IF r.low[n] = r.number[n] THEN SubSeq(r.stack, 1, Place(r, n) - 1) ELSE r.stack,
     path |-> Front(r.path), seen |-> r.seen,
     found |-> IF r.low[n] = r.number[n] /\ Place(r, n) # Len(r.stack)
               THEN r.found \cup {ToSet(SubSeq(r.stack, Place(r, n), Len(r.stack)))} ELSE r.found]

\* The state when a call has returned, by its fields.
LEMMA LeaveIs ==
    ASSUME NEW N, NEW r \in Search(N), NEW n \in N, r.path # <<>>,
           Front(r.path) # <<>> => Last(Front(r.path)) # n
    PROVE  Leave(r, n) = Left(r, n)
<1> DEFINE number == r.number
           low == r.low
           next == r.next
           stack == r.stack
           path == r.path
           seen == r.seen
           found == r.found
           front == Front(path)
           popped == [r EXCEPT !.path = front]
           low2 == LowLeft(number, low, path, n)
           c == Place(r, n)
           passed == IF front = <<>> THEN popped ELSE Lower(popped, Last(front), low[n])
<1>1. r = [number |-> number, low |-> low, next |-> next, stack |-> stack,
           path |-> path, seen |-> seen, found |-> found]
  BY DEF Search
<1>2. popped = [number |-> number, low |-> low, next |-> next, stack |-> stack,
                path |-> front, seen |-> seen, found |-> found]
  <2> HIDE DEF front, number, low, next, stack, path, seen, found
  <2> QED BY <1>1
<1>3. low2 = IF front = <<>> THEN low
             ELSE [low EXCEPT ![Last(front)] = IF low[n] < @ THEN low[n] ELSE @]
  BY DEF LowLeft
<1> HIDE DEF low2, c
<1>4. passed = [number |-> number, low |-> low2, next |-> next, stack |-> stack,
                path |-> front, seen |-> seen, found |-> found]
  <2> HIDE DEF number, low, next, stack, path, seen, found, front, popped
  <2>1. CASE front = <<>>
    BY <1>2, <1>3, <2>1
  <2>2. CASE front # <<>>
    <3>1. popped.low = low
      BY <1>2
    <3>2. passed = [popped EXCEPT !.low = low2]
      BY <1>3, <2>2, <3>1 DEF Lower
    <3> QED BY ONLY <1>2, <3>2
  <2> QED BY <2>1, <2>2
<1>5. popped.path = front
  BY <1>2
<1>6. Leave(r, n) = IF passed.low[n] = passed.number[n] THEN Collect(passed, n) ELSE passed
  BY <1>5 DEF Leave
<1>7. low2[n] = low[n]
  <2>1. low \in [N -> Nat] /\ (front # <<>> => Last(front) # n)
    BY DEF Search
  <2> HIDE DEF number, low, next, stack, path, seen, found, front, popped, passed
  <2> QED BY <1>3, <2>1
<1>8. passed.low[n] = low[n] /\ passed.number[n] = number[n] /\ passed.stack = stack
  BY <1>4, <1>7
<1>9. Place(passed, n) = c
  BY <1>8 DEF Place, c
<1> HIDE DEF number, low, next, stack, path, seen, found, front, popped, passed
<1>10. Collect(passed, n) =
          [number |-> number, low |-> low2, next |-> next, stack |-> SubSeq(stack, 1, c - 1),
           path |-> front, seen |-> seen,
           found |-> IF c # Len(stack) THEN found \cup {ToSet(SubSeq(stack, c, Len(stack)))}
                     ELSE found]
  <2>1. passed.found = found
    BY <1>4
  <2> DEFINE stack2 == SubSeq(stack, 1, c - 1)
             found2 == IF c # Len(stack) THEN found \cup {ToSet(SubSeq(stack, c, Len(stack)))}
                       ELSE found
  <2>2. Collect(passed, n) = [passed EXCEPT !.stack = stack2, !.found = found2]
    BY <1>8, <1>9, <2>1 DEF Collect
  <2> HIDE DEF stack2, found2
  <2>3. Collect(passed, n) = [number |-> number, low |-> low2, next |-> next, stack |-> stack2,
                              path |-> front, seen |-> seen, found |-> found2]
    BY <1>4, <2>2
  <2> QED BY <2>3 DEF stack2, found2
<1>11. CASE low[n] = number[n]
  BY <1>6, <1>8, <1>10, <1>11 DEF Left, number, low, next, stack, path, seen, found, front, low2, c
<1>12. CASE low[n] # number[n]
  BY <1>4, <1>6, <1>8, <1>12 DEF Left, number, low, next, stack, path, seen, found, front, low2, c
<1> QED BY <1>11, <1>12

\* A round in which a call returns.
LEMMA LeaveRound ==
    ASSUME NEW G, IsGraph(G), NEW r, SearchOK(G, r), r.path # <<>>,
           NEW n, n = Last(r.path), r.seen[n] = Len(G[n]),
           NEW q, q = Leave(r, n)
    PROVE  SearchOK(G, q) /\ Further(G, r, q)
<1> DEFINE N == DOMAIN G
           E == Edges(G)
           number == r.number
           low == r.low
           next == r.next
           stack == r.stack
           path == r.path
           seen == r.seen
           found == r.found
           front == Front(path)
           S == ToSet(stack)
           P == ToSet(path)
           F == Followed(G, seen)
           low2 == LowLeft(number, low, path, n)
           K == {y \in S : number[n] <= number[y]}
           c == Place(r, n)
           stack2 == IF low[n] = number[n] THEN SubSeq(stack, 1, c - 1) ELSE stack
           found2 == IF low[n] = number[n] /\ c # Len(stack)
                     THEN found \cup {ToSet(SubSeq(stack, c, Len(stack)))} ELSE found
<1>1. r = [number |-> number, low |-> low, next |-> next, stack |-> stack,
           path |-> path, seen |-> seen, found |-> found]
  BY DEF SearchOK, Search
<1>2. /\ number \in [N -> Nat] /\ low \in [N -> Nat] /\ next \in Nat
      /\ stack \in Seq(N) /\ path \in Seq(N) /\ seen \in [N -> Nat] /\ found \in SUBSET SUBSET N
      /\ Stacked(G, number, next, stack, path, seen)
      /\ Searching(N, E, number, low, S, P, F, found)
      /\ path # <<>> /\ seen[n] = Len(G[n]) /\ n = Last(path) /\ r \in Search(N)
  BY DEF SearchOK, Search
<1> HIDE DEF number, low, next, stack, path, seen, found
<1>3. /\ Ordered(number, stack) /\ Ordered(number, path)
      /\ next # 0 /\ \A y \in S : number[y] < next
      /\ \A k \in N : seen[k] <= Len(G[k]) /\ (number[k] = 0 => seen[k] = 0)
  BY <1>2 DEF Stacked
<1>4. /\ n \in P /\ P \subseteq N /\ Top(number, P, n)
      /\ front \in Seq(N) /\ Ordered(number, front) /\ ToSet(front) = P \ {n}
  <2>1. /\ Last(path) \in P /\ P \subseteq N /\ Top(number, P, Last(path))
        /\ front \in Seq(N) /\ Ordered(number, front) /\ ToSet(front) = P \ {Last(path)}
    BY <1>2, <1>3, OrderedPopped
  <2> HIDE DEF front, P
  <2> QED BY <1>2, <2>1
<1>5. n \in N /\ n \in S /\ P \subseteq S /\ S \subseteq N /\ number[n] # 0
  BY <1>2, <1>4 DEF Searching, Numbered
<1>6. front # <<>> => /\ Last(front) \in P \ {n} /\ Top(number, P \ {n}, Last(front))
  <2>1. front # <<>> => Last(front) \in ToSet(front) /\ Top(number, ToSet(front), Last(front))
    <3> HIDE DEF front
    <3> QED BY <1>2, <1>4, OrderedPopped
  <2> QED BY <1>4, <2>1
<1>7. front = <<>> => P = {n}
  <2>1. front = <<>> => ToSet(front) = {}
    <3> HIDE DEF front
    <3> QED BY DEF ToSet
  <2> QED BY <1>4, <2>1
<1>8. low2 \in [N -> Nat] /\ Passed(number, low, P, n, low2)
  <2> HIDE DEF front, P
  <2>1. CASE front = <<>>
    BY <1>2, <1>7, <2>1 DEF LowLeft, Passed, front
  <2>2. CASE front # <<>>
    <3> DEFINE x == Last(front)
    <3>1. low2 = [low EXCEPT ![x] = IF low[n] < @ THEN low[n] ELSE @]
      BY <2>2 DEF LowLeft, front
    <3> HIDE DEF x, low2
    <3>2. x \in P \ {n} /\ Top(number, P \ {n}, x) /\ x \in N
      BY <1>4, <1>6, <2>2 DEF x
    <3>3. low2 = IF low[n] < low[x] THEN [low EXCEPT ![x] = low[n]] ELSE low
      BY <1>2, <3>1, <3>2
    <3>4. low[n] \in Nat /\ low2 \in [N -> Nat]
      BY <1>2, <1>5, <3>2, <3>3
    <3> QED BY <3>2, <3>3, <3>4 DEF Passed
  <2> QED BY <2>1, <2>2
<1>9. q = [number |-> number, low |-> low2, next |-> next, stack |-> stack2,
           path |-> front, seen |-> seen, found |-> found2]
  <2>1. front # <<>> => Last(front) # n
    BY <1>6
  <2>2. q = Left(r, n)
    BY <1>2, <1>5, <2>1, LeaveIs DEF path
  <2> QED BY <2>2 DEF Left, number, low, next, stack, path, seen, found
<1>10. c \in DOMAIN stack /\ stack[c] = n
  <2>1. \E i \in DOMAIN stack : stack[i] = n
    BY <1>2, <1>5, StackIs, ZenonT(40)
  <2> QED BY <2>1 DEF Place, stack
<1>11. \A m \in N : <<n, m>> \in E => <<n, m>> \in F
  BY <1>2, <1>5, FollowedAll
<1>12. E \in SUBSET (N \X N)
  BY GraphEdges
<1> HIDE DEF c, front, low2, F, E
<1>13. /\ SubSeq(stack, 1, c - 1) \in Seq(N) /\ Ordered(number, SubSeq(stack, 1, c - 1))
       /\ ToSet(SubSeq(stack, 1, c - 1)) = S \ K
       /\ ToSet(SubSeq(stack, c, Len(stack))) = K
       /\ c = Len(stack) <=> K \in {{m} : m \in N}
  <2>1. CutAt(N, number, stack, c, K)
    BY <1>2, <1>3, <1>5, <1>10, OrderedCut
  <2> QED BY <2>1 DEF CutAt
<1>14. /\ stack2 \in Seq(N) /\ Ordered(number, stack2) /\ ToSet(stack2) \subseteq S
       /\ found2 \in SUBSET SUBSET N
       /\ Searching(N, E, number, low2, ToSet(stack2), ToSet(front), F, found2)
  <2>1. CASE low[n] # number[n]
    <3>1. stack2 = stack /\ found2 = found
      BY <2>1
    <3>2. Searching(N, E, number, low2, S, P \ {n}, F, found)
      <4> HIDE DEF S, P, N
      <4> QED BY <1>2, <1>4, <1>8, <1>11, <1>12, <2>1, SearchKept
    <3> QED BY <1>2, <1>3, <1>4, <3>1, <3>2
  <2>2. CASE low[n] = number[n]
    <3>1. stack2 = SubSeq(stack, 1, c - 1)
      BY <2>2
    <3>2. found2 = found \cup ({K} \ {{m} : m \in N})
      BY <1>13, <2>2
    <3>3. Searching(N, E, number, low2, S \ K, P \ {n}, F, found \cup ({K} \ {{m} : m \in N}))
      <4>1. K = {y \in S : number[n] <= number[y]}
        OBVIOUS
      <4> HIDE DEF S, P, N, K
      <4> QED BY <1>2, <1>4, <1>8, <1>11, <1>12, <2>2, <4>1, SearchCollected
    <3>4. K \in SUBSET N
      BY <1>5
    <3>5. found2 \in SUBSET SUBSET N
      BY <1>2, <3>2, <3>4
    <3>6. ToSet(stack2) = S \ K
      BY <1>13, <3>1
    <3> HIDE DEF K, stack2, found2
    <3> QED BY <1>4, <1>13, <3>1, <3>2, <3>3, <3>5, <3>6
  <2> QED BY <2>1, <2>2
<1> HIDE DEF stack2, found2
<1>15. SearchOK(G, q)
  <2>1. q \in Search(N)
    BY ONLY <1>2, <1>4, <1>8, <1>9, <1>14 DEF Search
  <2>2. /\ q.number = number /\ q.low = low2 /\ q.next = next /\ q.stack = stack2
        /\ q.path = front /\ q.seen = seen /\ q.found = found2
    BY ONLY <1>9
  <2>3. Stacked(G, number, next, stack2, front, seen)
    BY <1>3, <1>4, <1>14 DEF Stacked
  <2> QED BY <1>14, <2>1, <2>2, <2>3 DEF SearchOK, E, F
<1>16. DOMAIN seen = N
  BY <1>2
<1>17. \A k \in N : Sought(r)[k] = IF number[k] = 0 THEN 0
                                   ELSE IF k \in P THEN seen[k] + 1 ELSE seen[k] + 2
  <2>1. Sought(r) = [k \in N |-> IF number[k] = 0 THEN 0
                                 ELSE IF k \in P THEN seen[k] + 1 ELSE seen[k] + 2]
    BY ONLY <1>1, <1>16 DEF Sought
  <2> QED BY <2>1
<1>18. \A k \in N : Sought(q)[k] = IF number[k] = 0 THEN 0
                                   ELSE IF k \in ToSet(front) THEN seen[k] + 1 ELSE seen[k] + 2
  <2>1. Sought(q) = [k \in N |-> IF number[k] = 0 THEN 0
                                 ELSE IF k \in ToSet(front) THEN seen[k] + 1 ELSE seen[k] + 2]
    BY ONLY <1>9, <1>16 DEF Sought
  <2> QED BY <2>1
<1>19. \A k \in N : seen[k] \in Nat
  BY <1>2
<1> HIDE DEF P
<1>20. Sought(r)[n] < Sought(q)[n]
  <2>1. Sought(r)[n] = seen[n] + 1 /\ Sought(q)[n] = seen[n] + 2 /\ seen[n] \in Nat
    BY <1>4, <1>5, <1>17, <1>18, <1>19
  <2> QED BY <2>1
<1>21. \A k \in N : Sought(r)[k] <= Sought(q)[k]
  <2>1. TAKE k \in N
  <2>2. CASE k = n
    BY <1>20, <2>2, <1>4, <1>5, <1>17, <1>18, <1>19
  <2>3. CASE k # n
    <3>1. Sought(r)[k] = Sought(q)[k] /\ Sought(r)[k] \in Nat
      BY <1>4, <1>17, <1>18, <1>19, <2>3
    <3> QED BY <3>1
  <2> QED BY <2>2, <2>3
<1> QED BY <1>5, <1>15, <1>20, <1>21 DEF Further

SearchEnded(G, r) == r.path = <<>> /\ \A n \in DOMAIN G : r.number[n] # 0

\* A round of the loop.
LEMMA SearchRoundIs ==
    ASSUME NEW G, IsGraph(G), NEW r, SearchOK(G, r)
    PROVE  /\ SearchEnded(G, r) => SearchRound(G, r) = r
           /\ ~SearchEnded(G, r) => SearchOK(G, SearchRound(G, r)) /\ Further(G, r, SearchRound(G, r))
<1> DEFINE N == DOMAIN G
           fresh == {n \in N : r.number[n] = 0}
<1>1. /\ r \in Search(N) /\ r.path \in Seq(N) /\ r.seen \in [N -> Nat]
      /\ Ordered(r.number, r.path) /\ r.number \in [N -> Nat]
      /\ \A n \in N : r.seen[n] <= Len(G[n])
  BY DEF SearchOK, Search, Stacked
<1>2. CASE r.path # <<>>
  <2> DEFINE n == Last(r.path)
  <2>1. n \in N
    BY <1>1, <1>2, OrderedPopped
  <2>2. r.seen[n] \in Nat /\ Len(G[n]) \in Nat /\ r.seen[n] <= Len(G[n])
    BY <1>1, <2>1, GraphRows
  <2>3. CASE r.seen[n] = Len(G[n])
    <3>1. SearchRound(G, r) = Leave(r, n)
      BY <1>2, <2>3 DEF SearchRound
    <3> QED BY <1>2, <2>3, <3>1, LeaveRound DEF SearchEnded
  <2>4. CASE r.seen[n] # Len(G[n])
    <3> DEFINE m == G[n][r.seen[n] + 1]
               seen2 == [r.seen EXCEPT ![n] = @ + 1]
               r1 == [r EXCEPT !.seen[n] = @ + 1]
    <3>1. r.seen[n] < Len(G[n])
      BY <2>2, <2>4
    <3>2. SearchRound(G, r) = Follow(r1, n, m)
      BY <1>2, <2>4 DEF SearchRound
    <3>3. r1.number = r.number /\ r1 = [r EXCEPT !.seen = seen2]
      <4>1. r = [number |-> r.number, low |-> r.low, next |-> r.next, stack |-> r.stack,
                 path |-> r.path, seen |-> r.seen, found |-> r.found]
        BY <1>1 DEF Search
      <4>2. r1 = [number |-> r.number, low |-> r.low, next |-> r.next, stack |-> r.stack,
                  path |-> r.path, seen |-> seen2, found |-> r.found]
        BY <4>1
      <4>3. [r EXCEPT !.seen = seen2]
               = [number |-> r.number, low |-> r.low, next |-> r.next, stack |-> r.stack,
                  path |-> r.path, seen |-> seen2, found |-> r.found]
        BY <4>1
      <4> HIDE DEF r1, seen2
      <4> QED BY <4>2, <4>3
    <3>4. CASE r.number[m] = 0
      <4>1. SearchRound(G, r) = Push(r1, m)
        BY <3>2, <3>3, <3>4 DEF Follow
      <4>2. m \in N
        <5>1. seen2 = [r.seen EXCEPT ![n] = @ + 1]
          OBVIOUS
        <5> HIDE DEF n, seen2
        <5>2. OneMoreEdge(G, r.seen, n, m, seen2)
          BY <1>1, <2>1, <3>1, <5>1, FollowedNext
        <5> QED BY <5>2 DEF OneMoreEdge
      <4>3. CalledFor(G, r, m, seen2)
        BY <1>2, <3>1 DEF CalledFor
      <4> HIDE DEF r1, m, seen2, n
      <4>4. SearchRound(G, r) = Push([r EXCEPT !.seen = seen2], m)
        BY <3>3, <4>1
      <4> QED BY <1>2, <3>4, <4>2, <4>3, <4>4, PushRound DEF SearchEnded
    <3>5. CASE r.number[m] # 0
      <4> HIDE DEF seen2
      <4> QED BY <1>2, <3>1, <3>2, <3>5, FollowRound DEF SearchEnded
    <3> QED BY <3>4, <3>5
  <2> QED BY <2>3, <2>4
<1>3. CASE r.path = <<>> /\ fresh # {}
  <2> DEFINE m == CHOOSE n \in fresh : \A k \in fresh : n <= k
  <2>1. \E n \in fresh : \A k \in fresh : n <= k
    <3>1. fresh \subseteq Nat
      BY DEF IsGraph, IsRows
    <3> HIDE DEF fresh
    <3> QED BY <1>3, <3>1, LeastNat
  <2>2. m \in fresh
    BY <2>1
  <2>3. SearchRound(G, r) = Push(r, m)
    BY <1>3 DEF SearchRound
  <2> HIDE DEF m
  <2>4. m \in N /\ r.number[m] = 0
    BY <2>2
  <2>5. r = [r EXCEPT !.seen = r.seen]
    <3>1. r = [number |-> r.number, low |-> r.low, next |-> r.next, stack |-> r.stack,
               path |-> r.path, seen |-> r.seen, found |-> r.found]
      BY <1>1 DEF Search
    <3> QED BY <3>1
  <2>6. CalledFor(G, r, m, r.seen)
    BY <1>3 DEF CalledFor
  <2>7. ~SearchEnded(G, r)
    BY <2>4 DEF SearchEnded
  <2> QED BY <2>3, <2>4, <2>5, <2>6, <2>7, PushRound
<1>4. CASE r.path = <<>> /\ fresh = {}
  <2>1. SearchRound(G, r) = r /\ SearchEnded(G, r)
    BY <1>4 DEF SearchRound, SearchEnded
  <2> QED BY <2>1
<1> QED BY <1>2, <1>3, <1>4

\* tarjanSCC() ends, and then it has found just the components of two nodes and more.
THEOREM TarjanCycles ==
    ASSUME NEW G, IsGraph(G)
    PROVE  TarjanSCC(G) = Cycles(Edges(G), DOMAIN G)
<1> DEFINE N == DOMAIN G
           E == Edges(G)
           I == {r \in Search(N) : SearchOK(G, r)}
           D == {r \in I : SearchEnded(G, r)}
           round == [r \in Search(N) |-> SearchRound(G, r)]
           start == SearchStart(N)
           K == Cardinality(N) + 2
           p == [r \in I |-> Sought(r)]
<1>1. IsFiniteSet(N) /\ Cardinality(N) \in Nat /\ K \in Nat
  BY FS_CardinalityType DEF IsGraph, IsRows
<1>2. start \in I
  <2> DEFINE zero == [n \in N |-> 0]
  <2>1. start = [number |-> zero, low |-> zero, next |-> 1, stack |-> <<>>,
                 path |-> <<>>, seen |-> zero, found |-> {}]
    BY DEF SearchStart
  <2>2. zero \in [N -> Nat] /\ <<>> \in Seq(N) /\ \A n \in N : zero[n] = 0
    BY EmptySeq
  <2> HIDE DEF zero, start
  <2>3. start \in Search(N)
    BY <2>1, <2>2 DEF Search
  <2>4. ToSet(<<>>) = {} /\ Ordered(zero, <<>>)
    BY EmptySeq DEF ToSet, Ordered
  <2>5. \A n \in N : Len(G[n]) \in Nat
    BY GraphRows
  <2>6. Stacked(G, zero, 1, <<>>, <<>>, zero)
    BY <2>2, <2>4, <2>5 DEF Stacked
  <2>7. Followed(G, zero) = {}
    <3>1. \A e \in E : e[1] \in N
      BY GraphEdges
    <3> QED BY <2>2, <3>1 DEF Followed
  <2>8. Searching(N, E, zero, zero, {}, {}, {}, {})
    BY <2>2 DEF Searching, Numbered, Complete, Done, Tied, Linked
  <2>9. SearchOK(G, start)
    BY <2>1, <2>3, <2>4, <2>6, <2>7, <2>8 DEF SearchOK
  <2> QED BY <2>3, <2>9
<1>3. \A r \in I : round[r] = SearchRound(G, r)
  OBVIOUS
<1>4. \A r \in I : round[r] \in I
  <2>1. TAKE r \in I
  <2>2. SearchOK(G, SearchRound(G, r))
    <3>1. CASE SearchEnded(G, r)
      BY <2>1, <3>1, SearchRoundIs
    <3>2. CASE ~SearchEnded(G, r)
      BY <2>1, <3>2, SearchRoundIs
    <3> QED BY <3>1, <3>2
  <2>3. SearchRound(G, r) \in Search(N)
    BY <2>2 DEF SearchOK
  <2> QED BY <1>3, <2>2, <2>3
<1>5. \A r \in D : round[r] \in D
  BY <1>3, SearchRoundIs
<1>6. p \in [I -> [N -> 0 .. K]]
  <2>1. SUFFICES ASSUME NEW r \in I PROVE Sought(r) \in [N -> 0 .. K]
    OBVIOUS
  <2>2. r.seen \in [N -> Nat] /\ \A n \in N : r.seen[n] <= Len(G[n])
    BY <2>1 DEF SearchOK, Search, Stacked
  <2>3. \A n \in N : r.seen[n] + 1 \in 0 .. K /\ r.seen[n] + 2 \in 0 .. K /\ 0 \in 0 .. K
    <3>1. TAKE n \in N
    <3>2. /\ r.seen[n] \in Nat /\ r.seen[n] <= Len(G[n])
          /\ Len(G[n]) \in Nat /\ Len(G[n]) <= Cardinality(N)
      BY <2>2, GraphRows
    <3> QED BY <1>1, <3>2
  <2> HIDE DEF K
  <2> QED BY <2>2, <2>3 DEF Sought
<1>7. \A r \in I \ D : /\ \A n \in N : p[r][n] <= p[round[r]][n]
                       /\ \E n \in N : p[r][n] < p[round[r]][n]
  <2>1. TAKE r \in I \ D
  <2>2. p[r] = Sought(r) /\ p[round[r]] = Sought(SearchRound(G, r))
    BY <1>3, <1>4
  <2>3. SearchOK(G, r) /\ ~SearchEnded(G, r)
    OBVIOUS
  <2>4. Further(G, r, SearchRound(G, r))
    BY <2>3, SearchRoundIs
  <2> HIDE DEF p, round
  <2> QED BY <2>2, <2>4 DEF Further
<1>8. D \in SUBSET I
  OBVIOUS
<1> DEFINE r == Rounds(round, start)[Cardinality(N) * K]
<1>9. r \in D
  <2> HIDE DEF D, I, p, round, start, K, N
  <2>1. Loop(N, K, round, start, I, p, D)
    BY <1>1, <1>2, <1>4, <1>5, <1>6, <1>7, <1>8 DEF Loop
  <2> QED BY <2>1, RoundsEnd
<1>10. TarjanSCC(G) = r.found
  BY DEF TarjanSCC, Enough
<1> HIDE DEF r
<1>11. /\ Searching(N, E, r.number, r.low, ToSet(r.stack), ToSet(r.path), Followed(G, r.seen), r.found)
       /\ r.path = <<>> /\ \A n \in N : r.number[n] # 0
  BY <1>9 DEF SearchOK, SearchEnded
<1>12. ToSet(r.stack) = {}
  <2>1. ToSet(r.path) = {}
    BY <1>11 DEF ToSet
  <2> QED BY <1>11, <2>1 DEF Searching, Tied
<1>13. {c \in N : Done(r.number, ToSet(r.stack), c)} = N
  BY <1>11, <1>12 DEF Done
<1>14. r.found = {Component(E, N, n) : n \in N} \ {{n} : n \in N}
  BY <1>11, <1>13 DEF Searching, Complete
<1>15. Cycles(E, N) = {Component(E, N, n) : n \in N} \ {{n} : n \in N}
  <2> DEFINE reach == [n \in N |-> Reach(E, N, n)]
  <2>1. \A n \in N : {m \in reach[n] : n \in reach[m]} = Component(E, N, n)
    <3>1. TAKE n \in N
    <3>2. \A m \in Reach(E, N, n) : m \in N
      BY DEF Reach
    <3> QED BY <3>2 DEF Component
  <2>2. Cycles(E, N) = {{m \in reach[n] : n \in reach[m]} : n \in N} \ {{n} : n \in N}
    BY DEF Cycles
  <2> HIDE DEF reach
  <2> QED BY <2>1, <2>2
<1> QED BY <1>10, <1>14, <1>15

-----------------------------------------------------------------------------
(* The walks from a tag agree with what they are to compute, on every graph *)
(* and for every limit that is more than the tag itself.                    *)
THEOREM WalksAgreeAlways ==
    ASSUME NEW G, IsGraph(G), NEW limit \in Nat, limit >= 2, NEW root \in DOMAIN G
    PROVE  WalksAgree(G, limit, root)
<1> DEFINE N == DOMAIN G
           E == Edges(G)
           both == E \cup {<<e[2], e[1]>> : e \in E}
           all == Reach(E, N, root)
           depth == Cardinality(N) - 1
<1>1. IsFiniteSet(N) /\ Cardinality(N) \in Nat /\ N # {}
  BY FS_CardinalityType DEF IsGraph, IsRows
<1>2. Cardinality(N) # 0
  BY <1>1, FS_EmptySet
<1>3. depth \in Nat /\ depth + 1 >= Cardinality(N)
  BY <1>1, <1>2
<1>4. \A d \in 0 .. depth : d \in Nat
  BY <1>3
<1>5. TagsBelow(G, limit, root) = IF Cardinality(all) < limit THEN all ELSE Thrown
  BY TagsBelowReached
<1>6. ASSUME NEW d \in 0 .. depth
      PROVE  /\ Whole(RelatedTags(G, limit, root, d), limit, Within(both, N, root, d))
             /\ TagTree(G, limit, root, d) \subseteq Within(E, N, root, d)
             /\ \/ TagTree(G, limit, root, d) # Thrown
                \/ Cardinality(Within(E, N, root, d)) >= limit
  <2>1. d \in Nat
    BY <1>4
  <2>2. Whole(RelatedTags(G, limit, root, d), limit, Within(both, N, root, d))
    BY <2>1, RelatedWithin
  <2>3. /\ TagTree(G, limit, root, d) \subseteq Within(E, N, root, d)
        /\ \/ TagTree(G, limit, root, d) # Thrown
           \/ Cardinality(Within(E, N, root, d)) >= limit
    BY <2>1, TreeReached
  <2> QED BY <2>2, <2>3
<1>7. Whole(TagTree(G, limit, root, depth), limit, all)
  <2> HIDE DEF depth
  <2> QED BY <1>3, TreeReached
<1> QED BY <1>5, <1>6, <1>7 DEF WalksAgree

\* The graphs that TLC goes through are such graphs.
LEMMA SmallGraphs ==
    ASSUME NEW k \in Nat, NEW G \in Graphs(k)
    PROVE  IsGraph(G) /\ DOMAIN G = 1 .. k
<1> DEFINE N == 1 .. k
<1>1. IsFiniteSet(N) /\ N \subseteq Nat
  BY FS_Interval
<1>2. G \in [N -> UNION {SetToSeqs(S) : S \in SUBSET N}]
  BY DEF Graphs
<1>3. ASSUME NEW n \in N
      PROVE  G[n] \in Seq(N) /\ \A i, j \in 1 .. Len(G[n]) : G[n][i] = G[n][j] => i = j
  <2>1. PICK S \in SUBSET N : G[n] \in SetToSeqs(S)
    BY <1>2
  <2>2. /\ G[n] \in [1 .. Cardinality(S) -> S]
        /\ \A i, j \in 1 .. Cardinality(S) : i # j => G[n][i] # G[n][j]
    BY <2>1 DEF SetToSeqs
  <2>3. Cardinality(S) \in Nat
    BY <1>1, FS_Subset, FS_CardinalityType
  <2>4. G[n] \in [1 .. Cardinality(S) -> N]
    BY <2>2
  <2>5. G[n] \in Seq(N) /\ Len(G[n]) = Cardinality(S)
    BY <2>3, <2>4
  <2> QED BY <2>2, <2>5
<1>4. DOMAIN G = N
  BY <1>2
<1>5. G \in [N -> Seq(N)]
  BY <1>2, <1>3, <1>4
<1> QED BY <1>1, <1>3, <1>4, <1>5 DEF IsGraph, IsRows

\* A component of two and more: every node of it has an edge to another one of it.
LEMMA InsideComponent ==
    ASSUME NEW N, NEW E \in SUBSET (N \X N), NEW n \in N,
           NEW t \in Component(E, N, n), NEW u \in Component(E, N, n), u # t
    PROVE  \E v \in Component(E, N, n) \ {t} : <<t, v>> \in E
<1> DEFINE C == Component(E, N, n)
           S == {t} \cup (Reach(E, N, t) \ C)
<1>1. SUFFICES ASSUME ~ \E v \in C \ {t} : <<t, v>> \in E PROVE FALSE
  OBVIOUS
<1>2. /\ t \in N /\ t \in Reach(E, N, n) /\ n \in Reach(E, N, t)
      /\ u \in N /\ u \in Reach(E, N, n)
  BY ReachFacts DEF Component
<1>3. u \in Reach(E, N, t)
  BY <1>2, ReachFacts
<1>4. S \in SUBSET N
  BY <1>2, ReachFacts
<1>5. ASSUME NEW a \in N, NEW b \in N, a \in S, <<a, b>> \in E PROVE b \in S
  <2>1. a \in Reach(E, N, t)
    BY <1>2, <1>5, ReachFacts
  <2>2. b \in Reach(E, N, t)
    BY <1>2, <1>5, <2>1, ReachFacts
  <2>3. SUFFICES ASSUME b \in C PROVE b = t
    BY <2>2
  <2>4. CASE a = t
    BY <1>1, <1>5, <2>3, <2>4
  <2>5. CASE a # t
    <3>1. a \notin C
      BY <1>5, <2>5
    <3>2. a \in Reach(E, N, n)
      BY <1>2, <2>1, ReachFacts
    <3>3. b \in Reach(E, N, a)
      BY <1>5, ReachFacts
    <3>4. n \in Reach(E, N, b)
      BY <2>3 DEF Component
    <3>5. n \in Reach(E, N, a)
      BY <1>5, <3>3, <3>4, <1>2, ReachFacts
    <3> QED BY <3>1, <3>2, <3>5 DEF Component
  <2> QED BY <2>4, <2>5
<1>6. Reach(E, N, t) \subseteq S
  <2> HIDE DEF S
  <2>1. t \in S
    BY DEF S
  <2>2. \A a, b \in N : a \in S /\ <<a, b>> \in E => b \in S
    BY <1>5
  <2> QED BY <1>2, <1>4, <2>1, <2>2, ReachLeast
<1> QED BY <1>3, <1>6

\* There are cycles if and only if there is a set of nodes each of which has an edge
\* to another one of the set.
LEMMA CyclesAreLoops ==
    ASSUME NEW N, IsFiniteSet(N), NEW E \in SUBSET (N \X N)
    PROVE  Cycles(E, N) # {} <=>
              \E S \in (SUBSET N) \ {{}} : \A t \in S : \E u \in S \ {t} : <<t, u>> \in E
<1>1. Cycles(E, N) = {Component(E, N, n) : n \in N} \ {{n} : n \in N}
  <2> DEFINE reach == [n \in N |-> Reach(E, N, n)]
  <2>1. \A n \in N : {m \in reach[n] : n \in reach[m]} = Component(E, N, n)
    <3>1. TAKE n \in N
    <3>2. \A m \in Reach(E, N, n) : m \in N
      BY DEF Reach
    <3> QED BY <3>2 DEF Component
  <2>2. Cycles(E, N) = {{m \in reach[n] : n \in reach[m]} : n \in N} \ {{n} : n \in N}
    BY DEF Cycles
  <2> HIDE DEF reach
  <2> QED BY <2>1, <2>2
<1>2. \A n \in N : n \in Component(E, N, n) /\ Component(E, N, n) \subseteq N
  BY ReachFacts DEF Component
<1>3. ASSUME Cycles(E, N) # {}
      PROVE  \E S \in (SUBSET N) \ {{}} : \A t \in S : \E u \in S \ {t} : <<t, u>> \in E
  <2>1. PICK n \in N : Component(E, N, n) \notin {{m} : m \in N}
    BY <1>1, <1>3
  <2> DEFINE C == Component(E, N, n)
  <2>2. C \in (SUBSET N) \ {{}}
    <3>1. n \in C /\ C \subseteq N
      BY <1>2
    <3> HIDE DEF C
    <3> QED BY <3>1
  <2>3. ASSUME NEW t \in C PROVE \E u \in C \ {t} : <<t, u>> \in E
    <3>1. PICK u \in C : u # t
      BY <1>2, <2>1
    <3> QED BY <3>1, InsideComponent
  <2> HIDE DEF C
  <2> QED BY <2>2, <2>3
<1>4. ASSUME NEW S \in (SUBSET N) \ {{}}, \A t \in S : \E u \in S \ {t} : <<t, u>> \in E
      PROVE  Cycles(E, N) # {}
  <2> DEFINE size(n) == Cardinality(Reach(E, N, n))
             T == {size(n) : n \in S}
  <2>1. \A n \in N : Reach(E, N, n) \in SUBSET N /\ IsFiniteSet(Reach(E, N, n)) /\ size(n) \in Nat
    BY ReachFacts, FS_Subset, FS_CardinalityType
  <2>2. PICK n \in S : \A m \in S : size(n) <= size(m)
    <3>1. T \subseteq Nat /\ T # {}
      <4>1. \A n \in S : size(n) \in Nat
        BY <2>1
      <4>2. \E n \in S : TRUE
        OBVIOUS
      <4> HIDE DEF size
      <4> QED BY <4>1, <4>2
    <3>2. PICK k \in T : \A j \in T : k <= j
      <4> HIDE DEF T
      <4> QED BY <3>1, LeastNat
    <3> QED BY <3>2
  <2>3. PICK u \in S \ {n} : <<n, u>> \in E
    BY <1>4
  <2>4. u \in N /\ n \in N /\ u \in Reach(E, N, n)
    BY <2>3, ReachFacts
  <2>5. Reach(E, N, u) \in SUBSET Reach(E, N, n)
    BY <2>1, <2>4, ReachFacts
  <2>6. size(u) <= size(n) /\ (size(n) = size(u) => Reach(E, N, n) = Reach(E, N, u))
    BY <2>1, <2>4, <2>5, FS_Subset
  <2>7. size(n) <= size(u) /\ size(n) \in Nat /\ size(u) \in Nat
    BY <2>1, <2>2, <2>3, <2>4
  <2>8. size(n) = size(u)
    <3> HIDE DEF size
    <3> QED BY <2>6, <2>7
  <2>9. n \in Reach(E, N, u)
    BY <2>4, <2>6, <2>8, ReachFacts
  <2>10. u \in Component(E, N, n) /\ n \in Component(E, N, n) /\ u # n
    BY <1>2, <2>3, <2>4, <2>9 DEF Component
  <2> QED BY <1>1, <2>4, <2>10
<1> QED BY <1>3, <1>4

\* The graph that the housekeeping searches has the parent_of edges of the store.
LEMMA TreeGraphIs ==
    ASSUME IsFiniteSet(tags), NEW name, name = SetToSeq(tags), NEW G, G = TreeGraph
    PROVE  /\ IsGraph(G) /\ DOMAIN G = 1 .. Cardinality(tags)
           /\ \A n, m \in DOMAIN G : <<n, m>> \in Edges(G) <=> <<name[n], name[m]>> \in tree
<1> DEFINE N == 1 .. Cardinality(tags)
           succ(n) == {m \in N : <<name[n], name[m]>> \in tree}
<1>1. Cardinality(tags) \in Nat /\ name \in [N -> tags]
  BY SeqOfSet
<1>2. IsFiniteSet(N) /\ N \subseteq Nat
  BY <1>1, FS_Interval
<1>3. DOMAIN name = N
  BY <1>1
<1>4. G = [n \in N |-> SetToSeq(succ(n))]
  BY <1>3 DEF TreeGraph
<1>5. ASSUME NEW n \in N
      PROVE  /\ G[n] \in Seq(N)
             /\ \A i, j \in 1 .. Len(G[n]) : G[n][i] = G[n][j] => i = j
             /\ \A m \in N : m \in succ(n) <=> \E i \in 1 .. Len(G[n]) : G[n][i] = m
  <2> DEFINE S == succ(n)
             K == Cardinality(S)
  <2>1. S \in SUBSET N /\ IsFiniteSet(S)
    BY <1>2, FS_Subset
  <2>2. G[n] = SetToSeq(S)
    BY <1>4
  <2> HIDE DEF S
  <2>3. /\ K \in Nat /\ G[n] \in [1 .. K -> S]
        /\ \A i, j \in 1 .. K : G[n][i] = G[n][j] => i = j
        /\ \A x \in S : \E i \in 1 .. K : G[n][i] = x
    BY <2>1, <2>2, SeqOfSet
  <2> HIDE DEF K
  <2>4. G[n] \in [1 .. K -> N]
    BY <2>1, <2>3
  <2>5. G[n] \in Seq(N) /\ Len(G[n]) = K
    <3> HIDE DEF N
    <3> QED BY <2>3, <2>4
  <2>6. \A m \in N : m \in S <=> \E i \in 1 .. K : G[n][i] = m
    BY <2>3
  <2> QED BY <2>3, <2>5, <2>6 DEF S
<1>6. DOMAIN G = N
  BY <1>4
<1>7. G \in [N -> Seq(N)]
  <2> HIDE DEF succ, N
  <2> QED BY <1>4, <1>5
<1>8. IsGraph(G)
  BY <1>2, <1>5, <1>6, <1>7 DEF IsGraph, IsRows
<1>9. ASSUME NEW n \in N, NEW m \in N
      PROVE  <<n, m>> \in Edges(G) <=> <<name[n], name[m]>> \in tree
  <2>1. <<n, m>> \in Edges(G) <=> \E i \in 1 .. Len(G[n]) : G[n][i] = m
    <3>1. n \in DOMAIN G /\ m \in DOMAIN G
      BY <1>6
    <3> HIDE DEF N, succ
    <3> QED BY <1>8, <3>1, GraphEdges
  <2>2. m \in succ(n) <=> <<name[n], name[m]>> \in tree
    OBVIOUS
  <2> QED BY <1>5, <2>1, <2>2
<1> QED BY <1>6, <1>8, <1>9

\* detectLoops() finds a cycle if and only if there are tags each of which is the parent
\* of another one of them.
LEMMA LoopsFound ==
    ASSUME IsFiniteSet(tags)
    PROVE  TarjanSCC(TreeGraph) # {} <=> Looped
<1> DEFINE K == Cardinality(tags)
<1>1. PICK name : name = SetToSeq(tags)
  OBVIOUS
<1>2. PICK G : G = TreeGraph
  OBVIOUS
<1>3. /\ IsGraph(G) /\ DOMAIN G = 1 .. K
      /\ \A n, m \in 1 .. K : <<n, m>> \in Edges(G) <=> <<name[n], name[m]>> \in tree
  BY <1>1, <1>2, TreeGraphIs
<1>4. /\ name \in [1 .. K -> tags]
      /\ \A i, j \in 1 .. K : name[i] = name[j] => i = j
      /\ \A x \in tags : \E i \in 1 .. K : name[i] = x
  BY <1>1, SeqOfSet
<1> DEFINE N == 1 .. K
<1> HIDE DEF K
<1>5. TarjanSCC(G) = Cycles(Edges(G), N) /\ Edges(G) \in SUBSET (N \X N) /\ IsFiniteSet(N)
  BY <1>3, TarjanCycles, GraphEdges DEF IsGraph, IsRows
<1>6. TarjanSCC(G) # {} <=>
         \E S \in (SUBSET N) \ {{}} : \A t \in S : \E u \in S \ {t} : <<t, u>> \in Edges(G)
  <2> HIDE DEF N
  <2> QED BY <1>5, CyclesAreLoops
<1> HIDE DEF N
<1>7. ASSUME NEW S \in (SUBSET N) \ {{}}, \A t \in S : \E u \in S \ {t} : <<t, u>> \in Edges(G)
      PROVE  Looped
  <2> DEFINE Q == {name[n] : n \in S}
  <2>1. Q \in (SUBSET tags) \ {{}}
    <3>1. \A n \in S : name[n] \in tags
      BY <1>4 DEF N
    <3>2. PICK n \in S : TRUE
      BY <1>7
    <3>3. name[n] \in Q
      BY <3>2
    <3> QED BY <3>1, <3>3
  <2>2. ASSUME NEW x \in Q PROVE \E y \in Q \ {x} : <<x, y>> \in tree
    <3>1. PICK n \in S : x = name[n]
      OBVIOUS
    <3>2. PICK m \in S \ {n} : <<n, m>> \in Edges(G)
      BY <1>7
    <3>3. n \in N /\ m \in N
      BY <3>1, <3>2, <1>7
    <3>4. name[m] # name[n] /\ <<name[n], name[m]>> \in tree
      BY <1>3, <1>4, <3>2, <3>3 DEF N
    <3> QED BY <3>1, <3>2, <3>4
  <2> HIDE DEF Q
  <2> QED BY <2>1, <2>2 DEF Looped
<1>8. ASSUME NEW Q \in (SUBSET tags) \ {{}}, \A x \in Q : \E y \in Q \ {x} : <<x, y>> \in tree
      PROVE  TarjanSCC(G) # {}
  <2> DEFINE S == {n \in N : name[n] \in Q}
  <2>1. S \in (SUBSET N) \ {{}}
    <3>1. PICK x \in Q : TRUE
      BY <1>8
    <3>2. PICK n \in N : name[n] = x
      BY <1>4, <3>1 DEF N
    <3> QED BY <3>1, <3>2
  <2>2. ASSUME NEW n \in S PROVE \E m \in S \ {n} : <<n, m>> \in Edges(G)
    <3>1. n \in N /\ name[n] \in Q
      OBVIOUS
    <3>2. PICK y \in Q \ {name[n]} : <<name[n], y>> \in tree
      BY <1>8, <3>1
    <3>3. PICK m \in N : name[m] = y
      BY <1>4, <1>8, <3>2 DEF N
    <3>4. m \in S /\ m # n
      BY <3>2, <3>3
    <3>5. <<n, m>> \in Edges(G)
      BY <1>3, <3>1, <3>2, <3>3 DEF N
    <3> QED BY <3>4, <3>5
  <2> HIDE DEF S
  <2> QED BY <1>6, <2>1, <2>2
<1> QED BY <1>2, <1>6, <1>7, <1>8 DEF Looped

\* Tags come with a memory that is written, finitely many at a time.
LEMMA TagsComeFinite ==
    ASSUME [Next]_vars
    PROVE  tags' \subseteq tags \/ \E T : IsFiniteSet(T) /\ tags' = tags \cup T
<1>1. CASE UNCHANGED vars \/ Open \/ Crash \/ StartTidying
  BY <1>1 DEF vars, contents, Open, Crash, StartTidying
<1>2. CASE \E t, u \in Tags : RelateTags(t, u)
  BY <1>2 DEF RelateTags
<1>3. CASE \E m \in Ids : Touch(m)
  BY <1>3 DEF Touch
<1>4. CASE Write
  BY <1>4 DEF Write, Create, Update, Forget
<1>5. CASE Ask \/ Skip \/ Answer \/ ModelFails \/ PromotionThrows \/ FallBackEnds \/ EndReply
  BY <1>5 DEF contents, Ask, Skip, Answer, ModelFails, PromotionThrows, FallBackEnds, EndReply
<1>6. CASE DetectLoops \/ \E d \in ContradictionLines : DecideContradiction(d)
  BY <1>6 DEF contents, DetectLoops, DecideContradiction
<1>7. CASE DropTag
  BY <1>7 DEF DropTag
<1>8. CASE \E m \in PromotionLines : DecidePromotion(m)
  BY <1>8 DEF DecidePromotion, Promote, contents
<1>9. CASE FallBackPromotes
  BY <1>9 DEF FallBackPromotes, Promote, contents
<1>10. CASE \E d \in DuplicateLines : DecideMerge(d)
  BY <1>10 DEF DecideMerge, Merge, contents
<1>11. CASE RemoveContradicted
  BY <1>11 DEF RemoveContradicted, Forget
<1>12. CASE \E d \in SkillLines : DecideSkill(d)
  BY <1>12 DEF DecideSkill, Create, Forget, contents
<1>13. CASE \E d \in CleanupLines : DecidePrune(d) \/ DecideTag(d)
  BY <1>13 DEF DecidePrune, DecideTag, Forget
<1>14. CASE PruneSpent
  BY <1>14 DEF PruneSpent, Forget, contents
<1> QED
  BY <1>1, <1>2, <1>3, <1>4, <1>5, <1>6, <1>7, <1>8, <1>9, <1>10, <1>11, <1>12, <1>13, <1>14
  DEF Next, Tidy

\* The tags of a store are finitely many, whatever names there are for them.
LEMMA TagsStayFinite == Spec => []IsFiniteSet(tags)
<1>1. Init => IsFiniteSet(tags)
  BY FS_EmptySet DEF Init
<1>2. IsFiniteSet(tags) /\ [Next]_vars => IsFiniteSet(tags)'
  <2> SUFFICES ASSUME IsFiniteSet(tags), [Next]_vars PROVE IsFiniteSet(tags')
    OBVIOUS
  <2>1. CASE tags' \subseteq tags
    <3>1. \A T \in SUBSET tags : IsFiniteSet(T)
      BY FS_Subset
    <3> QED BY <2>1, <3>1
  <2>2. CASE \E T : IsFiniteSet(T) /\ tags' = tags \cup T
    <3>1. PICK T : IsFiniteSet(T) /\ tags' = tags \cup T
      BY <2>2
    <3>2. IsFiniteSet(tags \cup T)
      BY <3>1, FS_Union
    <3> QED BY <3>1, <3>2
  <2> QED BY <2>1, <2>2, TagsComeFinite
<1> QED BY <1>1, <1>2, PTL DEF Spec

\* The tag walks compute what they are to compute: on every graph over three tags, and
\* for the cycle search on whatever parent_of edges the store has come to.
THEOREM SearchesMatchAlways == Spec => []SearchesMatch
<1>1. AllWalksAgree
  <2> SUFFICES ASSUME NEW G \in Graphs(3)
               PROVE  /\ TarjanSCC(G) = Cycles(Edges(G), DOMAIN G)
                      /\ \A limit \in 2 .. 4 : WalksAgree(G, limit, 1)
    BY DEF AllWalksAgree
  <2>1. IsGraph(G) /\ DOMAIN G = 1 .. 3
    BY SmallGraphs
  <2>2. 1 \in DOMAIN G
    BY <2>1
  <2>3. \A limit \in 2 .. 4 : limit \in Nat /\ limit >= 2
    OBVIOUS
  <2> QED BY <2>1, <2>2, <2>3, TarjanCycles, WalksAgreeAlways
<1>2. IsFiniteSet(tags) => SearchesMatch
  BY <1>1, LoopsFound DEF SearchesMatch
<1> QED BY <1>2, TagsStayFinite, PTL
=============================================================================
