----------------------------- MODULE TagSearch -----------------------------
(***************************************************************************)
(* The walks over the tag graph: the cycle search of detectLoops()         *)
(* (src/modules/thinkroid-memory/src/graph-utils.js) and the traversals of *)
(* findByTag(), findRelated() and getTagTree() (views.js), as they run,    *)
(* against what they are to compute.  A graph gives each node the sequence *)
(* of its successors, in the order in which the query returns the rows,    *)
(* which are unique.                                                       *)
(*                                                                         *)
(* Each walk is a loop: the state of its variables, and the function that  *)
(* is one round of it and leaves the state alone when the loop has ended.  *)
(***************************************************************************)
EXTENDS Naturals, Sequences, FiniteSets, SequencesExt

Edges(G) == {e \in (DOMAIN G) \X (DOMAIN G) : e[2] \in ToSet(G[e[1]])}

(* All graphs over 1..k, with their successors in every order.             *)
Graphs(k) == [1 .. k -> UNION {SetToSeqs(S) : S \in SUBSET (1 .. k)}]

(* The states of a loop, from the start on.                                *)
Rounds(round, start) ==
    LET run[k \in Nat] == IF k = 0 THEN start ELSE round[run[k - 1]]
    IN  run

(* The rounds that are enough for a walk over N: it comes to a node once,  *)
(* reads each of its rows once, so many at most, and leaves the node.      *)
Enough(N, most) == Cardinality(N) * (most + 2)

(* MAX_TRAVERSAL_NODES: a walk of views.js that has visited so many tags   *)
(* and has more to do throws.  Then it has found nothing; a result has at  *)
(* least the tag that the walk starts from.                                *)
Full(visited, limit) == Cardinality(visited) >= limit

Thrown == {}

-----------------------------------------------------------------------------
(* tarjanSCC().  The numbers given, 0 for a node without one, the low      *)
(* links, the node stack and the call stack (their tops are last), how     *)
(* many neighbours of a node were followed, and the components found.      *)
Search(N) ==
    [number : [N -> Nat], low : [N -> Nat], next : Nat, stack : Seq(N),
     path : Seq(N), seen : [N -> Nat], found : SUBSET SUBSET N]

Push(r, n) ==
    [r EXCEPT !.number[n] = r.next, !.low[n] = r.next, !.next = @ + 1,
              !.stack = Append(@, n), !.path = Append(@, n)]

Lower(r, n, v) == [r EXCEPT !.low[n] = IF v < @ THEN v ELSE @]

(* The next neighbour of n: a call for one not seen, a lower link for one  *)
(* on the stack.                                                           *)
Follow_AnySeen(r, n, m) ==
    IF r.number[m] = 0 THEN Push(r, m) ELSE Lower(r, n, r.number[m])
Follow(r, n, m) ==
    IF r.number[m] = 0 THEN Push(r, m)
    ELSE IF m \in ToSet(r.stack) THEN Lower(r, n, r.number[m]) ELSE r

(* Popping the stack down to n: a component, when there is more than n.    *)
Place(r, n) == CHOOSE i \in DOMAIN r.stack : r.stack[i] = n

Collect(r, n) ==
    [r EXCEPT !.stack = SubSeq(@, 1, Place(r, n) - 1),
              !.found = IF Place(r, n) = Len(r.stack) THEN @
                        ELSE @ \cup {ToSet(SubSeq(r.stack, Place(r, n), Len(r.stack)))}]

(* The node on top has no neighbour left: its link goes down to its parent *)
(* and, when it is a root, its component off the stack.                    *)
Leave(r, n) ==
    LET popped == [r EXCEPT !.path = Front(@)]
        passed == IF popped.path = <<>> THEN popped
                  ELSE Lower(popped, Last(popped.path), r.low[n])
    IN  IF passed.low[n] = passed.number[n] THEN Collect(passed, n) ELSE passed

SearchRound(G, r) ==
    IF r.path # <<>>
    THEN LET n == Last(r.path)
         IN  IF r.seen[n] = Len(G[n]) THEN Leave(r, n)
             ELSE Follow([r EXCEPT !.seen[n] = @ + 1], n, G[n][r.seen[n] + 1])
    ELSE LET fresh == {n \in DOMAIN G : r.number[n] = 0}
         IN  IF fresh = {} THEN r
             ELSE Push(r, CHOOSE n \in fresh : \A m \in fresh : n <= m)

SearchStart(N) ==
    [number |-> [n \in N |-> 0], low |-> [n \in N |-> 0], next |-> 1, stack |-> <<>>,
     path |-> <<>>, seen |-> [n \in N |-> 0], found |-> {}]

TarjanSCC(G) ==
    Rounds([r \in Search(DOMAIN G) |-> SearchRound(G, r)], SearchStart(DOMAIN G))
        [Enough(DOMAIN G, Cardinality(DOMAIN G))].found

-----------------------------------------------------------------------------
(* findByTag() with descendants: a stack of tags, the last one popped, and *)
(* how many rows of a tag were read.                                       *)
Descent(N) == [at : N, stack : Seq(N), seen : [N -> Nat], visited : SUBSET N]

DescentRound(G, limit, r) ==
    IF r.seen[r.at] < Len(G[r.at])
    THEN LET m    == G[r.at][r.seen[r.at] + 1]
             read == [r EXCEPT !.seen[r.at] = @ + 1]
         IN  IF m \in r.visited THEN read
             ELSE [read EXCEPT !.visited = @ \cup {m}, !.stack = Append(@, m)]
    ELSE IF r.stack = <<>> \/ Full(r.visited, limit) THEN r
    ELSE [r EXCEPT !.at = Last(r.stack), !.stack = Front(@)]

DescentStart(N, root) ==
    [at |-> root, stack |-> <<>>, seen |-> [n \in N |-> 0], visited |-> {root}]

TagsBelow(G, limit, root) ==
    LET N == DOMAIN G
        r == Rounds([q \in Descent(N) |-> DescentRound(G, limit, q)], DescentStart(N, root))
                 [Enough(N, Cardinality(N))]
    IN  IF r.stack = <<>> THEN r.visited ELSE Thrown

(* findRelated(): the rows of a tag are those of all its edges, the ones   *)
(* from it before the ones to it.                                          *)
BothWays(G) ==
    [n \in DOMAIN G |-> G[n] \o SetToSeq({m \in DOMAIN G : n \in ToSet(G[m])})]

(* The tag at hand, what is left of the frontier, the frontier of the next *)
(* hop and the hops that are done.                                         *)
Spread(N) ==
    [at : N, frontier : Seq(N), next : Seq(N), hop : Nat, seen : [N -> Nat],
     visited : SUBSET N]

MoreTags(depth, r) == r.frontier # <<>> \/ (r.next # <<>> /\ r.hop + 1 < depth)

SpreadRound(R, limit, depth, r) ==
    IF r.seen[r.at] < Len(R[r.at])
    THEN LET m    == R[r.at][r.seen[r.at] + 1]
             read == [r EXCEPT !.seen[r.at] = @ + 1]
         IN  IF m \in r.visited THEN read
             ELSE [read EXCEPT !.visited = @ \cup {m}, !.next = Append(@, m)]
    ELSE IF ~MoreTags(depth, r) \/ Full(r.visited, limit) THEN r
    ELSE IF r.frontier # <<>>
    THEN [r EXCEPT !.at = Head(r.frontier), !.frontier = Tail(r.frontier)]
    ELSE [r EXCEPT !.at = Head(r.next), !.frontier = Tail(r.next), !.next = <<>>, !.hop = @ + 1]

SpreadStart(N, root) ==
    [at |-> root, frontier |-> <<>>, next |-> <<>>, hop |-> 0, seen |-> [n \in N |-> 0],
     visited |-> {root}]

RelatedTags(G, limit, root, depth) ==
    LET N == DOMAIN G
        R == BothWays(G)
        r == Rounds([q \in Spread(N) |-> SpreadRound(R, limit, depth, q)], SpreadStart(N, root))
                 [Enough(N, 2 * Cardinality(N))]
    IN  IF depth = 0 THEN {root} ELSE IF MoreTags(depth, r) THEN Thrown ELSE r.visited

(* getTagTree(): the calls of buildNode(), each of which takes the         *)
(* children that are not in the tree yet; at maxDepth it returns without a *)
(* look at them.  The result is the tags in the tree.                      *)
Building(N) == [path : Seq(N), seen : [N -> Nat], visited : SUBSET N]

BuildRound(G, limit, maxDepth, r) ==
    IF r.path = <<>> THEN r
    ELSE LET n == Last(r.path)
         IN  IF Len(r.path) > maxDepth \/ r.seen[n] = Len(G[n])
             THEN [r EXCEPT !.path = Front(@)]
             ELSE IF Full(r.visited, limit) THEN r
             ELSE LET m    == G[n][r.seen[n] + 1]
                      read == [r EXCEPT !.seen[n] = @ + 1]
                  IN  IF m \in r.visited THEN read
                      ELSE [read EXCEPT !.visited = @ \cup {m}, !.path = Append(@, m)]

BuildStart(N, root) ==
    [path |-> <<root>>, seen |-> [n \in N |-> 0], visited |-> {root}]

TagTree(G, limit, root, maxDepth) ==
    LET N == DOMAIN G
        r == Rounds([q \in Building(N) |-> BuildRound(G, limit, maxDepth, q)],
                    BuildStart(N, root))[Enough(N, Cardinality(N))]
    IN  IF r.path = <<>> THEN r.visited ELSE Thrown

-----------------------------------------------------------------------------
(* What they are to compute: the nodes that are in every set that contains *)
(* n and is closed under E, the sets of two and more that reach each       *)
(* other, and the nodes at the end of a path that is short enough.         *)
Reach(E, N, n) ==
    {m \in N : \A S \in SUBSET N :
                  n \in S /\ (\A e \in E : e[1] \in S => e[2] \in S) => m \in S}

Cycles(E, N) ==
    LET reach == [n \in N |-> Reach(E, N, n)]
    IN  {{m \in reach[n] : n \in reach[m]} : n \in N} \ {{n} : n \in N}

Paths(E, N, n, d) ==
    {p \in [0 .. d -> N] : p[0] = n /\ \A i \in 1 .. d : <<p[i - 1], p[i]>> \in E}

Within(E, N, n, depth) == UNION {{p[d] : p \in Paths(E, N, n, d)} : d \in 0 .. depth}

(* A result is all there is, or the walk has thrown where there is as much *)
(* as the limit: it is never cut short.                                    *)
Whole(result, limit, all) ==
    result = all \/ (result = Thrown /\ Cardinality(all) >= limit)

(* The walks from a node of G agree with it: those below a tag are those   *)
(* that can be reached, findRelated() finds those within the distance, and *)
(* a tag tree shows none that is deeper than asked for, and all if it may  *)
(* be as deep as there are tags.                                           *)
WalksAgree(G, limit, root) ==
    LET N == DOMAIN G
        E == Edges(G)
        both == E \cup {<<e[2], e[1]>> : e \in E}
        all == Reach(E, N, root)
        depth == Cardinality(N) - 1
    IN  /\ TagsBelow(G, limit, root) = IF Cardinality(all) < limit THEN all ELSE Thrown
        /\ \A d \in 0 .. depth :
              /\ Whole(RelatedTags(G, limit, root, d), limit, Within(both, N, root, d))
              /\ TagTree(G, limit, root, d) \subseteq Within(E, N, root, d)
              /\ \/ TagTree(G, limit, root, d) # Thrown
                 \/ Cardinality(Within(E, N, root, d)) >= limit
        /\ Whole(TagTree(G, limit, root, depth), limit, all)

AllWalksAgree ==
    \A G \in Graphs(3) :
       /\ TarjanSCC(G) = Cycles(Edges(G), DOMAIN G)
       /\ \A limit \in 2 .. 4 : WalksAgree(G, limit, 1)

=============================================================================
