--------------------------- MODULE CascaderProofs ---------------------------
(***************************************************************************)
(* The open path of the cascader is a path of the tree, for every tree,    *)
(* of whatever depth, in whatever pages the source answers.                *)
(***************************************************************************)
EXTENDS Cascader, FiniteSetTheorems, WellFoundedInduction, TLAPS

-----------------------------------------------------------------------------
(* The invariant                                                           *)
(*                                                                         *)
(* While the path is a trail (crossed is FALSE), what the loader stored    *)
(* agrees with the source (Store), and the path and the branch that        *)
(* waits to be entered agree with the tree (Place).  Every handler is a    *)
(* chain of functions of the state, so Sound is stated of a state S and    *)
(* shown of each function; Became, the render and the effects, closes      *)
(* the argument.  In a tree view nothing is drilled into, and only what    *)
(* the reveal of a value needs is kept.                                    *)

(* The levels the loader can name to the source.                           *)
Named(S) == {CaRoot} \cup InBase \cup S.known
IsTrail(path) ==
    \A i \in DOMAIN path : CaParent[path[i]] = IF i = 1 THEN CaRoot ELSE path[i - 1]
Asks(S) == {r \in S.reqs : r.kind \notin {"search", "resolve"}}

(* What the store holds are nodes.                                         *)
Stored(S) ==
    /\ \A l \in DOMAIN S.pages : S.pages[l] \in Seq(CaNodes)
    /\ S.detached \subseteq CaNodes /\ S.known \subseteq CaNodes
    /\ \A r \in Asks(S) : r.node \in CaLevels
(* What a level fetched is listed there at the source, and who asks for    *)
(* a level knows its node: else the root would be asked for in its         *)
(* place.                                                                  *)
Fetched(S) ==
    /\ \A l \in DOMAIN S.pages : \A n \in ToSet(S.pages[l]) : CaParent[n] = l /\ n \in S.known
    /\ S.search.hits \subseteq S.detached /\ S.detached \subseteq S.known
    /\ DOMAIN S.states \subseteq Named(S)
    /\ S.warm \in {CaNone} \cup Named(S)
    /\ \A r \in Asks(S) : r.live => r.node = r.key /\ r.key \in Named(S)
Store(S) == Stored(S) /\ (caScene.mode # "tree" => Fetched(S))

(* A branch that waits was listed in the level it will be appended to.     *)
Waiting(S) ==
    S.held # CaIdle =>
      /\ S.held.value \in CaNodes /\ S.held.kind \in {"push", "at"}
      /\ S.held.depth \in 0 .. Len(S.path)
      /\ CaParent[S.held.value] = IF S.held.kind = "push" THEN Level(S)
                                  ELSE IF S.held.depth = 0 THEN CaRoot ELSE S.path[S.held.depth]
Place(S) ==
    /\ S.path \in Seq(CaNodes) /\ IsTrail(S.path)
    /\ IF caScene.mode = "tree" THEN S.held = CaIdle \/ S.held.kind = "expand"
       ELSE ToSet(S.path) \subseteq Named(S) /\ Waiting(S)

(* The fields of the state, of its search and of its requests.             *)
CaFields == {"pages", "states", "detached", "known", "attempted", "latch", "reqs", "search",
             "asked", "due", "sought", "warm", "open", "path", "expanded", "query", "held",
             "crossed", "said", "selected", "mark", "hover", "window", "acts", "fails"}
Fields(S) ==
    /\ DOMAIN S = CaFields /\ DOMAIN S.search = {"query", "hits", "loading", "error"}
    /\ \A r \in S.reqs : DOMAIN r = {"key", "node", "kind", "cursor", "live"}
Sound(S) == Fields(S) /\ (S.crossed \/ (Store(S) /\ Place(S)))
(* A row that may be drilled into: in the list of the level, or found.     *)
Listed(S, n) == n \in Indexed(S) /\ (~Searching(S) => CaParent[n] = Level(S))

-----------------------------------------------------------------------------
(* Sequences and chains                                                    *)

(* A set of naturals has a least one: the induction of what follows.       *)
LEMMA NatLeast ==
    ASSUME NEW T, T \subseteq Nat, T # {}
    PROVE  \E x \in T : \A y \in T : x <= y
<1>. DEFINE R == {ss \in Nat \X Nat : ss[1] < ss[2]}
<1>1. IsWellFoundedOn(R, Nat)
  BY NatLessThanWellFounded DEF OpToRel
<1>2. PICK x \in T : \A y \in T : ~ (<<y, x>> \in R)
  BY <1>1, WFMin, Zenon
<1>3. ASSUME NEW y \in T PROVE x <= y
  <2>1. ~ (<<y, x>> \in R)
     BY <1>2
  <2>2. <<y, x>> \in Nat \X Nat
     OBVIOUS
  <2>3. ~ (y < x)
     BY <2>1, <2>2
  <2>. QED BY <2>3
<1>. QED
  BY <1>3

(* Array.filter returns some of what it is given.                          *)
LEMMA OnlyPicks ==
    ASSUME NEW nodes \in Seq(CaNodes), NEW some
    PROVE  Only(nodes, some) \in Seq(ToSet(nodes) \cap some)
<1>. DEFINE B == ToSet(nodes) \cap some
            Last0 == Len(nodes)
            Step(g, i) == IF i = 0 THEN <<>>
                          ELSE g[i - 1] \o IF nodes[i] \in some THEN <<nodes[i]>> ELSE <<>>
            Upto0(k) == \E g \in [0 .. Last0 -> Seq(B)] : \A i \in 0 .. k : g[i] = Step(g, i)
<1>0. Last0 \in Nat /\ \A i \in 1 .. Last0 : nodes[i] \in some => nodes[i] \in B
  BY DEF ToSet
<1>. HIDE DEF B, Last0
<1>1. Upto0(Last0)
  <2>. SUFFICES ASSUME ~Upto0(Last0)
                PROVE  FALSE
    OBVIOUS
  <2>. DEFINE bad == {k \in 0 .. Last0 : ~Upto0(k)}
  <2>. HIDE DEF Upto0
  <2>0. bad \subseteq Nat /\ bad # {}
    BY <1>0
  <2>1. PICK k \in bad : \A j \in bad : k <= j
    BY <2>0, NatLeast, Zenon
  <2>2. CASE k = 0
    <3>. DEFINE g0 == [i \in 0 .. Last0 |-> <<>>]
    <3>1. g0 \in [0 .. Last0 -> Seq(B)] /\ \A i \in 0 .. k : g0[i] = Step(g0, i)
      BY <2>2, <1>0
    <3>2. Upto0(k)
      BY <3>1 DEF Upto0
    <3>. QED
      BY <3>2
  <2>3. CASE k # 0
    <3>1. k - 1 \in 0 .. Last0 /\ k \in 1 .. Last0
      BY <2>3, <1>0
    <3>2. Upto0(k - 1)
      BY <2>1, <3>1
    <3>3. PICK g \in [0 .. Last0 -> Seq(B)] : \A i \in 0 .. k - 1 : g[i] = Step(g, i)
      BY <3>2 DEF Upto0
    <3>. DEFINE h == [g EXCEPT ![k] = Step(g, k)]
    <3>4. Step(g, k) \in Seq(B)
      <4>1. g[k - 1] \in Seq(B)
        BY <3>1, <3>3
      <4>. QED
        BY <3>1, <4>1, <1>0
    <3>5. h \in [0 .. Last0 -> Seq(B)]
      BY <3>4
    <3>6. ASSUME NEW i \in 0 .. k
          PROVE  h[i] = Step(h, i)
      <4>. h[k] = Step(g, k) /\ \A j \in 0 .. k - 1 : h[j] = g[j]
        BY <3>1
      <4>1. i = k \/ i \in 0 .. k - 1
        BY <3>1
      <4>2. i = 0 \/ i - 1 \in 0 .. k - 1
        BY <3>1
      <4>. QED
        BY <4>1, <4>2, <3>3
    <3>7. Upto0(k)
      <4>. HIDE DEF Step, h
      <4>. QED
        BY <3>5, <3>6 DEF Upto0
    <3>. QED
      BY <3>7
  <2>. QED
    BY <2>2, <2>3
<1>2. PICK g \in [0 .. Last0 -> Seq(B)] : \A i \in 0 .. Last0 : g[i] = Step(g, i)
  BY <1>1
<1>. DEFINE only == CHOOSE f : f = [i \in 0 .. Last0 |-> Step(f, i)]
<1>3. only = [i \in 0 .. Last0 |-> Step(only, i)]
  <2>1. g = [i \in 0 .. Last0 |-> Step(g, i)]
    BY <1>2
  <2>. QED
    BY <2>1
<1>. HIDE DEF only
<1>4. \A i \in 0 .. Last0 : only[i] \in Seq(B)
  <2>. SUFFICES ASSUME NEW i0 \in 0 .. Last0, only[i0] \notin Seq(B)
                PROVE  FALSE
    OBVIOUS
  <2>. DEFINE bad == {k \in 0 .. Last0 : only[k] \notin Seq(B)}
  <2>0. bad \subseteq Nat /\ i0 \in bad
    BY <1>0
  <2>1. PICK k \in bad : \A j \in bad : k <= j
    BY <2>0, NatLeast, Zenon
  <2>2. CASE k = 0
    BY <2>2, <1>3, <1>0
  <2>3. CASE k # 0
    <3>1. k - 1 \in 0 .. Last0 /\ k \in 1 .. Last0
      BY <2>3, <1>0
    <3>2. only[k - 1] \in Seq(B)
      BY <2>1, <3>1
    <3>3. only[k] = only[k - 1] \o IF nodes[k] \in some THEN <<nodes[k]>> ELSE <<>>
      <4>1. k \in 0 .. Last0
        OBVIOUS
      <4>2. only[k] = Step(only, k)
        BY <4>1, <1>3
      <4>. QED
        BY <4>2, <2>3
    <3>4. (IF nodes[k] \in some THEN <<nodes[k]>> ELSE <<>>) \in Seq(B)
      BY <3>1, <1>0
    <3>5. only[k] \in Seq(B)
      BY <3>2, <3>3, <3>4
    <3>. QED
      BY <3>5
  <2>. QED
    BY <2>2, <2>3
<1>5. Only(nodes, some) = only[Last0]
  BY DEF Only, only, Last0
<1>. QED
  BY <1>0, <1>4, <1>5 DEF B

(* A chain down to n: nodes that are known, each below the one before.     *)
Linked(c, known, up, n) ==
    /\ c \in Seq(known) /\ c # <<>> /\ c[Len(c)] = n
    /\ \A i \in DOMAIN c : i = 1 \/ up[c[i]] = c[i - 1]

(* The recursive function of ChainOf exists, by the largest set of nodes   *)
(* that has one for its part of the tree, and its values are linked, by    *)
(* a lowest node where they would not be.                                  *)
LEMMA ChainIsLinked ==
    ASSUME NEW known \in SUBSET CaNodes, NEW up,
           \A n \in CaNodes : up[n] \in {CaParent[n], CaRoot},
           NEW node \in known
    PROVE  Linked(ChainOf(known, up, node), known, up, node)
<1>. DEFINE Step(g, n) == IF n \in known THEN Append(g[up[n]], n) ELSE <<>>
            Closed0(A) == \A n \in A : CaParent[n] \in A \cup {CaRoot}
            Solves(g, A) == \A n \in CaLevels : n \in A \/ n \notin CaNodes => g[n] = Step(g, n)
            Solved(A) == Closed0(A) /\ \E g \in [CaLevels -> Seq(CaNodes)] : Solves(g, A)
<1>0. CaRoot \notin CaNodes /\ IsFiniteSet(CaNodes) /\ CaRoot \in CaLevels
  BY CaAssumption DEF CaLevels
<1>1. Solved(CaNodes)
  <2>. DEFINE rest == {Cardinality(CaNodes \ A) : A \in {A \in SUBSET CaNodes : Solved(A)}}
  <2>1. Solved({})
    <3>1. [n \in CaLevels |-> <<>>] \in [CaLevels -> Seq(CaNodes)]
      OBVIOUS
    <3>. QED
      BY <3>1, <1>0
  <2>. HIDE DEF Solved
  <2>2. rest \subseteq Nat /\ rest # {}
    <3>1. \A A \in SUBSET CaNodes : Cardinality(CaNodes \ A) \in Nat
      BY <1>0, FS_Difference, FS_CardinalityType
    <3>. QED
      BY <3>1, <2>1
  <2>3. PICK least \in rest : \A y \in rest : least <= y
    BY <2>2, NatLeast, Zenon
  <2>4. PICK A \in SUBSET CaNodes : Solved(A) /\ least = Cardinality(CaNodes \ A)
    BY <2>3
  <2>5. CASE A = CaNodes
    BY <2>4, <2>5
  <2>6. CASE A # CaNodes
    <3>1. PICK n \in CaNodes \ A : CaParent[n] \notin CaNodes \ A
      BY <2>6, CaAssumption
    <3>2. CaParent[n] \in A \cup {CaRoot} /\ n \in CaLevels /\ CaParent[n] \in CaLevels
      BY <3>1, CaAssumption DEF CaLevels
    <3>3. PICK g \in [CaLevels -> Seq(CaNodes)] : Solves(g, A)
      BY <2>4 DEF Solved
    <3>. DEFINE h == [g EXCEPT ![n] = Step(g, n)]
    <3>4. h \in [CaLevels -> Seq(CaNodes)]
      <4>1. Step(g, n) \in Seq(CaNodes)
        BY <3>1, <3>2, <1>0
      <4>. QED
        BY <4>1
    <3>5. Solves(h, A \cup {n})
      <4>. SUFFICES ASSUME NEW m \in CaLevels, m \in A \cup {n} \/ m \notin CaNodes
                    PROVE  h[m] = Step(h, m)
        OBVIOUS
      <4>1. h[n] = Step(g, n) /\ \A k \in CaLevels \ {n} : h[k] = g[k]
        BY <3>2
      <4>2. m \in known => up[m] \in A \cup {CaRoot}
        BY <3>1, <3>2, <2>4 DEF Solved
      <4>3. up[m] \in A \cup {CaRoot} => h[up[m]] = g[up[m]]
        BY <4>1, <3>1, <1>0 DEF CaLevels
      <4>4. h[m] = Step(g, m)
        BY <4>1, <3>1, <3>3
      <4>. QED
        BY <4>2, <4>3, <4>4
    <3>6. Closed0(A \cup {n})
      BY <3>2, <2>4 DEF Solved
    <3>7. Solved(A \cup {n})
      <4>. HIDE DEF Closed0, Solves, h
      <4>. QED
        BY <3>4, <3>5, <3>6 DEF Solved
    <3>8. Cardinality(CaNodes \ (A \cup {n})) < Cardinality(CaNodes \ A)
      <4>1. IsFiniteSet(CaNodes \ A)
        BY <1>0, FS_Difference
      <4>. DEFINE B == CaNodes \ A
      <4>2. CaNodes \ (A \cup {n}) = B \ {n} /\ n \in B
        BY <3>1
      <4>. HIDE DEF B
      <4>3. Cardinality(B \ {n}) = Cardinality(B) - 1 /\ Cardinality(B) \in Nat
        BY <4>1, <4>2, FS_RemoveElement, FS_CardinalityType DEF B
      <4>4. Cardinality(CaNodes \ (A \cup {n})) = Cardinality(B \ {n})
        BY <4>2, Zenon
      <4>5. Cardinality(CaNodes \ (A \cup {n})) < Cardinality(B)
        BY <4>3, <4>4
      <4>. QED
        BY <4>5 DEF B
    <3>9. Cardinality(CaNodes \ (A \cup {n})) \in rest
      BY <3>1, <3>7
    <3>. QED
      <4>. DEFINE more == Cardinality(CaNodes \ (A \cup {n}))
      <4>1. more \in rest /\ more < least
        BY <2>4, <3>8, <3>9
      <4>. HIDE DEF more, rest
      <4>. QED
        BY <4>1, <2>2, <2>3
  <2>. QED
    BY <2>5, <2>6
<1>. DEFINE chain == CHOOSE f : f = [n \in CaLevels |-> Step(f, n)]
<1>2. chain = [n \in CaLevels |-> Step(chain, n)]
  <2>1. PICK g \in [CaLevels -> Seq(CaNodes)] : Solves(g, CaNodes)
    BY <1>1
  <2>2. g = [n \in CaLevels |-> Step(g, n)]
    BY <2>1
  <2>. QED
    BY <2>2
<1>3. ChainOf(known, up, node) = chain[node]
  BY DEF ChainOf
<1>. HIDE DEF chain
<1>. DEFINE bad == {n \in known : ~Linked(chain[n], known, up, n)}
<1>4. bad = {}
  <2>. SUFFICES ASSUME bad # {}
                PROVE  FALSE
    OBVIOUS
  <2>1. PICK n \in bad : CaParent[n] \notin bad
    <3>1. bad \in (SUBSET CaNodes) \ {{}}
      OBVIOUS
    <3>. QED
      BY <3>1, CaAssumption
  <2>2. n \in known /\ n \in CaLevels /\ up[n] \in CaLevels
    BY CaAssumption DEF CaLevels
  <2>3. chain[n] = Append(chain[up[n]], n)
    BY <2>2, <1>2
  <2>4. CASE up[n] \in known
    <3>1. Linked(chain[up[n]], known, up, up[n])
      BY <2>1, <2>2, <2>4, <1>0
    <3>. DEFINE c == chain[up[n]]
    <3>2. c \in Seq(known) /\ Len(c) \in Nat \ {0} /\ c[Len(c)] = up[n]
      BY <3>1 DEF Linked
    <3>3. \A i \in 2 .. Len(c) : up[c[i]] = c[i - 1]
      BY <3>1, <3>2 DEF Linked
    <3>. HIDE DEF c
    <3>4. Append(c, n) \in Seq(known) /\ Append(c, n) # <<>> /\ Append(c, n)[Len(Append(c, n))] = n
      BY <3>2, <2>2
    <3>5. \A i \in 2 .. Len(c) + 1 : up[Append(c, n)[i]] = Append(c, n)[i - 1]
      BY <3>2, <3>3, <2>2
    <3>6. Linked(Append(c, n), known, up, n)
      BY <3>2, <3>4, <3>5 DEF Linked
    <3>. QED
      BY <3>6, <2>1, <2>3 DEF c
  <2>5. CASE up[n] \notin known
    <3>1. chain[n] = <<n>>
      <4>1. chain[up[n]] = Step(chain, up[n])
        BY <2>2, <1>2
      <4>. QED
        BY <4>1, <2>2, <2>3, <2>5
    <3>2. Linked(<<n>>, known, up, n)
      BY <2>2 DEF Linked
    <3>. QED
      BY <3>1, <3>2, <2>1
  <2>. QED
    BY <2>4, <2>5
<1>. QED
  BY <1>3, <1>4

-----------------------------------------------------------------------------
(* The index and the path of a node                                        *)

(* The options sit where the source lists them.                            *)
LEMMA BaseIsNodes ==
    ASSUME caScene \in CaScenes
    PROVE  /\ InBase \subseteq CaNodes
           /\ \A l \in CaLevels : caScene.base[l] \in Seq(CaNodes)
           /\ \A l \in CaLevels : \A n \in ToSet(caScene.base[l]) : n \in CaNodes /\ CaParent[n] = l
<1>1. /\ caScene.base \in [CaLevels -> Seq(CaNodes)]
      /\ \A l \in CaLevels : \A n \in ToSet(caScene.base[l]) : CaParent[n] = l
  BY CaAssumption
<1>2. \A l \in CaLevels : \A n \in ToSet(caScene.base[l]) : n \in CaNodes
  BY <1>1 DEF ToSet
<1>. QED
  BY <1>1, <1>2 DEF InBase

(* The index holds nodes.                                                  *)
LEMMA IndexIsNodes ==
    ASSUME caScene \in CaScenes, NEW S, Stored(S)
    PROVE  /\ Indexed(S) \subseteq CaNodes
           /\ \A l : PageOf(S, l) \in Seq(CaNodes)
           /\ \A l \in CaLevels : KidSet(S, l) \subseteq Indexed(S)
<1>1. \A l : PageOf(S, l) \in Seq(CaNodes)
  BY DEF Stored, PageOf
<1>2. \A l : ToSet(PageOf(S, l)) \subseteq CaNodes
  BY <1>1 DEF ToSet
<1>. QED
  BY <1>1, <1>2, BaseIsNodes DEF Stored, Indexed, KidSet

(* While the store agrees with the source, what the index lists in a       *)
(* level is below it, and can be asked for.                                *)
LEMMA IndexIsNamed ==
    ASSUME caScene \in CaScenes, NEW S, Stored(S), Fetched(S)
    PROVE  /\ Indexed(S) \subseteq InBase \cup S.known
           /\ \A l \in CaLevels : \A n \in KidSet(S, l) : CaParent[n] = l
<1>1. \A l : \A n \in ToSet(PageOf(S, l)) : CaParent[n] = l /\ n \in S.known
  BY DEF Fetched, PageOf, ToSet
<1>. QED
  BY <1>1, BaseIsNodes DEF Fetched, Indexed, KidSet, InBase

(* getPath: a node of the index has a path down to it, and unless          *)
(* something above is missing it is a trail.                               *)
LEMMA PathIsLinked ==
    ASSUME caScene \in CaScenes, NEW S, Stored(S), NEW n
    PROVE  /\ n \notin Indexed(S) => PathOf(S, n) = <<>>
           /\ n \in Indexed(S) => /\ PathOf(S, n) \in Seq(Indexed(S)) /\ PathOf(S, n) # <<>>
                                  /\ PathOf(S, n)[Len(PathOf(S, n))] = n
                                  /\ Cut(PathOf(S, n)) \/ IsTrail(PathOf(S, n))
<1>. DEFINE up == [m \in CaNodes |-> Up(S, m)]
            known == Indexed(S)
            c == ChainOf(known, up, n)
<1>0. PathOf(S, n) = c
  BY DEF PathOf
<1>1. CASE n \notin known
  BY <1>0, <1>1 DEF ChainOf
<1>2. CASE n \in known
  <2>1. known \in SUBSET CaNodes /\ \A m \in CaNodes : up[m] \in {CaParent[m], CaRoot}
    BY IndexIsNodes DEF Up
  <2>. HIDE DEF known, up
  <2>2. Linked(c, known, up, n)
    BY <1>2, <2>1, ChainIsLinked
  <2>. HIDE DEF c
  <2>3. c \in Seq(known) /\ c # <<>> /\ c[Len(c)] = n
    BY <2>2 DEF Linked
  <2>4. ASSUME ~Cut(c), NEW i \in DOMAIN c
        PROVE  CaParent[c[i]] = IF i = 1 THEN CaRoot ELSE c[i - 1]
    <3>1. CASE i = 1
      BY <2>3, <2>4, <3>1 DEF Cut
    <3>2. CASE i # 1
      <4>1. up[c[i]] = c[i - 1] /\ c[i] \in CaNodes /\ c[i - 1] \in CaNodes
        BY <2>1, <2>2, <2>3, <3>2 DEF Linked
      <4>. QED
        BY <4>1, <2>1, <3>2, CaAssumption
    <3>. QED
      BY <3>1, <3>2
  <2>. QED
    BY <1>0, <1>2, <2>3, <2>4 DEF IsTrail, known
<1>. QED
  BY <1>1, <1>2

-----------------------------------------------------------------------------
(* The loader                                                              *)
(*                                                                         *)
(* Same: what a function of the loader leaves alone.  Keeps: it also       *)
(* leaves the store in agreement.                                          *)

Same(S, T) ==
    /\ Fields(T) /\ T.path = S.path /\ T.held = S.held /\ T.crossed = S.crossed
    /\ T.open = S.open /\ S.known \subseteq T.known
Keeps(S, T) == Fields(S) => Same(S, T) /\ (Store(S) => Store(T))

(* What leaves the path alone keeps the invariant if it keeps the store.   *)
LEMMA SameIsSound ==
    ASSUME NEW S, NEW T, Sound(S), Same(S, T), ~S.crossed /\ Store(S) => Store(T)
    PROVE  Sound(T)
<1>1. Named(S) \subseteq Named(T)
  BY DEF Same, Named
<1>2. Place(S) => Place(T)
  BY <1>1 DEF Same, Place, Waiting, Level
<1>. QED
  BY <1>2 DEF Sound, Same

LEMMA KeptIsSound ==
    ASSUME NEW S, NEW T, Sound(S), Keeps(S, T)
    PROVE  Sound(T) /\ Same(S, T)
BY SameIsSound DEF Sound, Keeps

(* abortKey only turns requests off.                                       *)
LEMMA AbortKeeps == ASSUME NEW S, NEW keys PROVE Keeps(S, AbortKey(S, keys))
<1>. SUFFICES ASSUME Fields(S)
              PROVE  Same(S, AbortKey(S, keys)) /\ (Store(S) => Store(AbortKey(S, keys)))
  BY DEF Keeps
<1>. DEFINE T == AbortKey(S, keys)
<1>1. \A r \in T.reqs : \E q \in S.reqs : /\ r.kind = q.kind /\ r.node = q.node /\ r.key = q.key
                                          /\ r.live => q.live
                                          /\ DOMAIN r = DOMAIN q
  <2>. SUFFICES ASSUME NEW q \in S.reqs
                PROVE  LET r == [q EXCEPT !.live = @ /\ q.key \notin keys]
                       IN  /\ r.kind = q.kind /\ r.node = q.node /\ r.key = q.key
                           /\ r.live => q.live
                           /\ DOMAIN r = DOMAIN q
    BY DEF AbortKey, Fields, CaFields
  <2>. QED
    BY DEF Fields
<1>2. /\ DOMAIN T = CaFields /\ T.path = S.path /\ T.held = S.held /\ T.crossed = S.crossed
      /\ T.open = S.open /\ T.known = S.known /\ T.search = S.search /\ T.pages = S.pages
      /\ T.detached = S.detached /\ T.states = S.states /\ T.warm = S.warm
  BY DEF AbortKey, Fields, CaFields
<1>. HIDE DEF T
<1>3. Same(S, T)
  BY <1>1, <1>2 DEF Same, Fields
<1>4. Named(T) = Named(S)
  BY <1>2 DEF Named
<1>5. Store(S) => Store(T)
  BY <1>1, <1>2, <1>4 DEF Store, Stored, Fetched, Asks
<1>. QED
  BY <1>3, <1>5 DEF T

(* A request the loader may make: a search, a resolve, or a named level.   *)
Asked(S, r) ==
    /\ DOMAIN r = {"key", "node", "kind", "cursor", "live"}
    /\ r.kind \notin {"search", "resolve"} =>
         /\ r.node \in CaLevels
         /\ caScene.mode # "tree" => r.node = r.key /\ r.key \in Named(S)

(* A request replaces the one under its key.                               *)
LEMMA AskStores ==
    ASSUME NEW S, Fields(S), NEW asks,
           \A r \in asks : DOMAIN r = {"key", "node", "kind", "cursor", "live"}
    PROVE  /\ Same(S, Ask(S, asks))
           /\ Store(S) /\ (\A r \in asks : Asked(S, r)) => Store(Ask(S, asks))
<1>. DEFINE A == AbortKey(S, {r.key : r \in asks})
            T == Ask(S, asks)
<1>1. Same(S, A) /\ (Store(S) => Store(A))
  BY AbortKeeps DEF Keeps
<1>. HIDE DEF A
<1>2. /\ DOMAIN T = CaFields /\ T.path = A.path /\ T.held = A.held /\ T.crossed = A.crossed
      /\ T.open = A.open /\ T.known = A.known /\ T.search = A.search /\ T.pages = A.pages
      /\ T.detached = A.detached /\ T.states = A.states /\ T.warm = A.warm
      /\ T.reqs = A.reqs \cup asks
  BY <1>1 DEF Ask, Same, Fields, CaFields, A
<1>. HIDE DEF T
<1>3. Same(S, T)
  BY <1>1, <1>2 DEF Same, Fields
<1>4. Named(T) = Named(A) /\ Named(S) \subseteq Named(A)
  BY <1>1, <1>2 DEF Named, Same
<1>5. Store(S) /\ (\A r \in asks : Asked(S, r)) => Store(T)
  BY <1>1, <1>2, <1>4 DEF Store, Stored, Fetched, Asks, Asked
<1>. QED
  BY <1>3, <1>5 DEF T

(* T differs from S in its states and its timer, in what the path does     *)
(* not depend on, and in what it forgets.                                  *)
Touched(S, T) ==
    /\ DOMAIN T = CaFields /\ T.path = S.path /\ T.held = S.held /\ T.crossed = S.crossed
    /\ T.open = S.open /\ T.known = S.known /\ T.pages = S.pages /\ T.detached = S.detached
    /\ T.reqs \subseteq S.reqs /\ DOMAIN T.search = DOMAIN S.search
    /\ T.search.hits \subseteq S.search.hits

LEMMA TouchStores ==
    ASSUME NEW S, NEW T, Fields(S), Touched(S, T)
    PROVE  /\ Same(S, T)
           /\ /\ Store(S)
              /\ caScene.mode # "tree" => /\ DOMAIN T.states \subseteq Named(S)
                                          /\ T.warm \in {CaNone} \cup Named(S)
              => Store(T)
<1>1. Same(S, T)
  BY DEF Same, Touched, Fields
<1>2. Named(S) = Named(T)
  BY DEF Named, Touched
<1>. QED
  BY <1>1, <1>2 DEF Store, Stored, Fetched, Asks, Touched

(* runLoad: a level is asked for under its own node.                       *)
LEMMA RunLoadsStores ==
    ASSUME caScene \in CaScenes, NEW S, Fields(S), NEW levels, NEW kind, NEW cursor
    PROVE  /\ Same(S, RunLoads(S, levels, kind, cursor))
           /\ Store(S) /\ (caScene.mode # "tree" => levels \subseteq Named(S))
                => Store(RunLoads(S, levels, kind, cursor))
<1>. DEFINE asks == {CaAsk(l, NodeOf(S, l), kind, cursor) : l \in levels}
            T == Ask(S, asks)
            U == RunLoads(S, levels, kind, cursor)
            Apt == caScene.mode # "tree" => levels \subseteq Named(S)
<1>1. Same(S, T) /\ (Store(S) /\ Apt => Store(T))
  <2>1. \A r \in asks : DOMAIN r = {"key", "node", "kind", "cursor", "live"}
    BY DEF CaAsk
  <2>2. ASSUME Store(S), Apt, NEW l \in levels
        PROVE  Asked(S, CaAsk(l, NodeOf(S, l), kind, cursor))
    <3>1. NodeOf(S, l) \in CaLevels
      BY <2>2, BaseIsNodes DEF NodeOf, Store, Stored, CaLevels
    <3>2. caScene.mode # "tree" => NodeOf(S, l) = l /\ l \in Named(S)
      BY <2>2 DEF NodeOf, Named
    <3>. QED
      BY <3>1, <3>2 DEF Asked, CaAsk
  <2>3. Store(S) /\ Apt => \A r \in asks : Asked(S, r)
    BY <2>2
  <2>. HIDE DEF asks
  <2>. QED
    BY <2>1, <2>3, AskStores
<1>2. /\ Touched(T, U) /\ U.warm = T.warm
      /\ U.states = [l \in levels \cup DOMAIN T.states |->
                       IF l \in levels THEN [StateOf(S, l) EXCEPT !.loading = TRUE, !.error = FALSE]
                       ELSE T.states[l]]
  <2>. HIDE DEF T
  <2>1. T = Ask(S, asks)
    BY DEF T
  <2>. QED
    BY <1>1, <2>1 DEF RunLoads, Touched, Fields, CaFields, Same
<1>. HIDE DEF T, U
<1>3. Same(T, U)
  BY <1>1, <1>2, TouchStores DEF Same
<1>4. Named(S) \subseteq Named(T)
  BY <1>1 DEF Same, Named
<1>5. Store(S) /\ Apt => Store(U)
  <2>. SUFFICES ASSUME Store(S), Apt
                PROVE  Store(U)
    OBVIOUS
  <2>1. caScene.mode # "tree" => /\ DOMAIN U.states \subseteq Named(T)
                                 /\ U.warm \in {CaNone} \cup Named(T)
    BY <1>1, <1>2, <1>4 DEF Store, Fetched
  <2>. QED
    BY <1>1, <1>2, <2>1, TouchStores DEF Same
<1>. QED
  BY <1>1, <1>3, <1>5 DEF Same, U

LEMMA EnsureStores ==
    ASSUME caScene \in CaScenes, NEW S, Fields(S), NEW levels
    PROVE  /\ Same(S, EnsureLevels(S, levels))
           /\ Store(S) /\ (caScene.mode # "tree" => levels \subseteq Named(S))
                => Store(EnsureLevels(S, levels))
<1>. DEFINE missing == {l \in levels : /\ caScene.loader
                                       /\ l \notin DOMAIN S.states /\ caScene.base[l] = <<>>}
<1>1. EnsureLevels(S, levels) = RunLoads(S, missing, "level", 0) /\ missing \subseteq levels
  BY DEF EnsureLevels
<1>. HIDE DEF missing
<1>. QED
  BY <1>1, RunLoadsStores

(* loadMore and retryLevel ask for levels that were asked for before.      *)
LEMMA LoadMoreKeeps ==
    ASSUME caScene \in CaScenes, NEW S, NEW l
    PROVE  Keeps(S, LoadMore(S, l))
<1>1. CASE l \notin DOMAIN S.states \/ S.states[l].loading \/ ~S.states[l].more \/ Latched(S, l)
  BY <1>1 DEF LoadMore, Keeps, Same
<1>2. CASE ~(l \notin DOMAIN S.states \/ S.states[l].loading \/ ~S.states[l].more \/ Latched(S, l))
  <2>. DEFINE T == [S EXCEPT !.latch = Put(@, l, Signature(S, l))]
              U == RunLoads(T, {l}, "more", S.states[l].cursor)
  <2>. SUFFICES ASSUME Fields(S)
                PROVE  Same(S, U) /\ (Store(S) => Store(U))
    BY <1>2 DEF Keeps, LoadMore, RunLoad
  <2>1. Touched(S, T) /\ T.states = S.states /\ T.warm = S.warm
    BY DEF Touched, Fields, CaFields
  <2>. HIDE DEF T
  <2>2. Same(S, T) /\ (Store(S) => Store(T))
    BY <2>1, TouchStores DEF Store, Fetched
  <2>3. Store(T) /\ caScene.mode # "tree" => {l} \subseteq Named(T)
    BY <1>2, <2>1 DEF Store, Fetched
  <2>. QED
    BY <2>2, <2>3, RunLoadsStores DEF Same
<1>. QED
  BY <1>1, <1>2

LEMMA RetryKeeps ==
    ASSUME caScene \in CaScenes, NEW S, NEW l
    PROVE  Keeps(S, RetryLevel(S, l))
<1>1. CASE ~StateOf(S, l).error
  BY <1>1 DEF RetryLevel, Keeps, Same
<1>2. CASE StateOf(S, l).error
  <2>. DEFINE T == [S EXCEPT !.latch = Without(@, {l})]
              U == RetryLevel(S, l)
  <2>. SUFFICES ASSUME Fields(S)
                PROVE  Same(S, U) /\ (Store(S) => Store(U))
    BY DEF Keeps
  <2>1. Touched(S, T) /\ T.states = S.states /\ T.warm = S.warm
    BY DEF Touched, Fields, CaFields
  <2>2. U = RunLoads(T, {l}, "level", 0) \/ U = RunLoads(T, {l}, "more", S.states[l].cursor)
    BY <1>2 DEF RetryLevel, RunLoad
  <2>. HIDE DEF T, U
  <2>3. Same(S, T) /\ (Store(S) => Store(T))
    BY <2>1, TouchStores DEF Store, Fetched
  <2>4. Store(T) /\ caScene.mode # "tree" => {l} \subseteq Named(T)
    BY <1>2, <2>1 DEF Store, Fetched, StateOf, CaQuiet
  <2>. QED
    BY <2>2, <2>3, <2>4, RunLoadsStores DEF Same
<1>. QED
  BY <1>1, <1>2

(* invalidateLevel forgets the pages of a level, not what they named.      *)
LEMMA InvalidateKeeps == ASSUME NEW S, NEW l PROVE Keeps(S, InvalidateLevel(S, l))
<1>. DEFINE A == AbortKey(S, {l})
            T == InvalidateLevel(S, l)
<1>. SUFFICES ASSUME Fields(S)
              PROVE  Same(S, T) /\ (Store(S) => Store(T))
  BY DEF Keeps
<1>1. Same(S, A) /\ (Store(S) => Store(A))
  BY AbortKeeps DEF Keeps
<1>. HIDE DEF A
<1>2. /\ DOMAIN T = CaFields /\ T.path = A.path /\ T.held = A.held /\ T.crossed = A.crossed
      /\ T.open = A.open /\ T.known = A.known /\ T.search = A.search
      /\ T.detached = A.detached /\ T.warm = A.warm /\ T.reqs = A.reqs
      /\ T.states = Without(A.states, {l}) /\ T.pages = Without(A.pages, {l})
  BY <1>1 DEF InvalidateLevel, Same, Fields, CaFields, A
<1>. HIDE DEF T
<1>3. Same(S, T)
  BY <1>1, <1>2 DEF Same, Fields
<1>4. Named(T) = Named(A)
  BY <1>2 DEF Named
<1>5. Store(A) => Store(T)
  BY <1>2, <1>4 DEF Store, Stored, Fetched, Asks, Without
<1>. QED
  BY <1>1, <1>3, <1>5

LEMMA WithStateStores ==
    ASSUME NEW S, NEW l, NEW state, Fields(S)
    PROVE  /\ Same(S, WithState(S, l, state))
           /\ Store(S) /\ (caScene.mode # "tree" => l \in Named(S)) => Store(WithState(S, l, state))
<1>. DEFINE T == WithState(S, l, state)
<1>1. Touched(S, T) /\ DOMAIN T.states = DOMAIN S.states \cup {l} /\ T.warm = S.warm
  BY DEF WithState, Put, Touched, Fields, CaFields
<1>. HIDE DEF T
<1>2. /\ Same(S, T)
      /\ Store(S) /\ (caScene.mode # "tree" => l \in Named(S)) => Store(T)
  BY <1>1, TouchStores DEF Store, Fetched
<1>. QED
  BY <1>2 DEF T

(* withPage files an answer under the level that asked.                    *)
LEMMA WithPageStores ==
    ASSUME caScene \in CaScenes, NEW S, Fields(S), NEW r, NEW items, NEW next
    PROVE  /\ Same(S, WithPage(S, r, items, next))
           /\ /\ Store(S) /\ items \in Seq(CaNodes)
              /\ caScene.mode # "tree" =>
                   r.key \in Named(S) /\ \A n \in ToSet(items) : CaParent[n] = r.key
              => Store(WithPage(S, r, items, next))
<1>. DEFINE before == IF r.kind = "more" THEN PageOf(S, r.key) ELSE <<>>
            page == before \o Only(items, CaNodes \ ToSet(before))
            T == [S EXCEPT !.pages = Put(@, r.key, page),
                           !.known = @ \cup ToSet(items),
                           !.latch = IF r.kind = "more" THEN @ ELSE Without(@, {r.key})]
            U == WithPage(S, r, items, next)
            state == [CaQuiet EXCEPT !.more = next # 0, !.cursor = next]
            Apt == caScene.mode # "tree" =>
                     r.key \in Named(S) /\ \A n \in ToSet(items) : CaParent[n] = r.key
<1>1. /\ DOMAIN T = CaFields /\ T.path = S.path /\ T.held = S.held /\ T.crossed = S.crossed
      /\ T.open = S.open /\ T.known = S.known \cup ToSet(items) /\ T.search = S.search
      /\ T.detached = S.detached /\ T.warm = S.warm /\ T.reqs = S.reqs
      /\ T.states = S.states /\ T.pages = Put(S.pages, r.key, page)
  BY DEF Fields, CaFields
<1>2. U = WithState(T, r.key, state)
  BY DEF WithPage
<1>3. Same(S, T)
  BY <1>1 DEF Same, Fields
<1>4. Named(S) \subseteq Named(T)
  BY <1>1 DEF Named
<1>5. Store(S) /\ items \in Seq(CaNodes) /\ Apt => Store(T)
  <2>. SUFFICES ASSUME Store(S), items \in Seq(CaNodes), Apt
                PROVE  Store(T)
    OBVIOUS
  <2>1. ToSet(items) \subseteq CaNodes
    BY DEF ToSet
  <2>2. before \in Seq(CaNodes)
    BY IndexIsNodes DEF Store
  <2>3. page \in Seq(CaNodes) /\ ToSet(page) \subseteq ToSet(before) \cup ToSet(items)
    <3>. DEFINE rest == Only(items, CaNodes \ ToSet(before))
    <3>1. rest \in Seq(ToSet(items) \cap (CaNodes \ ToSet(before)))
      BY OnlyPicks
    <3>2. rest \in Seq(CaNodes) /\ ToSet(rest) \subseteq ToSet(items)
      BY <3>1, <2>1 DEF ToSet
    <3>. HIDE DEF rest, before
    <3>3. ToSet(before \o rest) \subseteq ToSet(before) \cup ToSet(rest)
      BY <3>2, <2>2 DEF ToSet
    <3>4. page = before \o rest
      BY DEF rest
    <3>. HIDE DEF page
    <3>. QED
      BY <3>2, <3>3, <3>4, <2>2
  <2>4. \A l \in DOMAIN T.pages : T.pages[l] \in Seq(CaNodes)
    BY <1>1, <2>3 DEF Store, Stored, Put
  <2>5. Stored(T)
    BY <1>1, <2>1, <2>4 DEF Store, Stored, Asks
  <2>6. caScene.mode # "tree" =>
          \A l \in DOMAIN T.pages : \A n \in ToSet(T.pages[l]) : CaParent[n] = l /\ n \in T.known
    <3>. SUFFICES ASSUME caScene.mode # "tree", NEW l \in DOMAIN T.pages,
                         NEW n \in ToSet(T.pages[l])
                  PROVE  CaParent[n] = l /\ n \in T.known
      OBVIOUS
    <3>1. CASE l # r.key
      BY <1>1, <3>1 DEF Store, Fetched, Put
    <3>2. CASE l = r.key
      <4>1. T.pages[l] = page
        BY <1>1, <3>2 DEF Put
      <4>2. n \in ToSet(before) => n \in ToSet(PageOf(S, l)) /\ l \in DOMAIN S.pages
        BY <3>2 DEF PageOf, ToSet
      <4>3. n \in ToSet(before) => CaParent[n] = l /\ n \in S.known
        BY <4>2 DEF Store, Fetched, PageOf
      <4>. QED
        BY <1>1, <2>3, <3>2, <4>1, <4>3
    <3>. QED
      BY <3>1, <3>2
  <2>. HIDE DEF T
  <2>. QED
    BY <1>1, <1>4, <2>5, <2>6 DEF Store, Fetched, Asks
<1>. HIDE DEF T, U, state, page
<1>6. Same(T, U) /\ (Store(T) /\ (caScene.mode # "tree" => r.key \in Named(T)) => Store(U))
  BY <1>2, <1>3, WithStateStores DEF Same
<1>. QED
  BY <1>3, <1>4, <1>5, <1>6 DEF Same, U

(* A resolve is answered with the chain of the source.                     *)
LEMMA SourceChain ==
    ASSUME NEW n
    PROVE  ChainOf(CaNodes, CaParent, n) \in Seq(CaNodes)
<1>1. CASE n \in CaNodes
  BY <1>1, ChainIsLinked DEF Linked
<1>2. CASE n \notin CaNodes
  BY <1>2 DEF ChainOf
<1>. QED
  BY <1>1, <1>2

(* withChain files each node of a chain under its own parent.              *)
LEMMA WithChainKeeps ==
    ASSUME caScene \in CaScenes, NEW S, NEW chain \in Seq(CaNodes)
    PROVE  Keeps(S, WithChain(S, chain))
<1>. DEFINE T == WithChain(S, chain)
            Some(l) == {n \in CaNodes \ ToSet(PageOf(S, l)) : CaParent[n] = l}
            levels == DOMAIN S.pages \cup {CaParent[n] : n \in ToSet(chain)}
<1>. SUFFICES ASSUME Fields(S)
              PROVE  Same(S, T) /\ (Store(S) => Store(T))
  BY DEF Keeps
<1>1. /\ DOMAIN T = CaFields /\ T.path = S.path /\ T.held = S.held /\ T.crossed = S.crossed
      /\ T.open = S.open /\ T.known = S.known \cup ToSet(chain) /\ T.search = S.search
      /\ T.detached = S.detached \cup ToSet(chain) /\ T.warm = S.warm /\ T.reqs = S.reqs
      /\ T.states = S.states
      /\ T.pages = [l \in levels |-> PageOf(S, l) \o Only(chain, Some(l))]
  BY DEF WithChain, Fields, CaFields
<1>. HIDE DEF T, levels
<1>2. Same(S, T)
  BY <1>1 DEF Same, Fields
<1>3. Named(S) \subseteq Named(T)
  BY <1>1 DEF Named
<1>4. ToSet(chain) \subseteq CaNodes
  BY DEF ToSet
<1>5. ASSUME Store(S), NEW l \in levels
      PROVE  /\ T.pages[l] \in Seq(CaNodes)
             /\ \A n \in ToSet(T.pages[l]) : \/ n \in ToSet(PageOf(S, l))
                                             \/ n \in ToSet(chain) /\ CaParent[n] = l
  <2>. DEFINE page == PageOf(S, l)
              filed == Only(chain, Some(l))
  <2>1. filed \in Seq(ToSet(chain) \cap Some(l))
    BY OnlyPicks
  <2>2. filed \in Seq(CaNodes) /\ \A n \in ToSet(filed) : n \in ToSet(chain) /\ CaParent[n] = l
    BY <2>1 DEF ToSet
  <2>3. page \in Seq(CaNodes)
    BY <1>5, IndexIsNodes DEF Store
  <2>4. T.pages[l] = page \o filed
    BY <1>1, <1>5
  <2>. HIDE DEF page, filed
  <2>5. T.pages[l] \in Seq(CaNodes)
    BY <2>2, <2>3, <2>4
  <2>6. ToSet(page \o filed) \subseteq ToSet(page) \cup ToSet(filed)
    BY <2>2, <2>3 DEF ToSet
  <2>. QED
    BY <2>2, <2>4, <2>5, <2>6 DEF page
<1>6. ASSUME Store(S)
      PROVE  Store(T)
  <2>1. Stored(T)
    BY <1>1, <1>4, <1>5, <1>6 DEF Store, Stored, Asks
  <2>2. ASSUME caScene.mode # "tree", NEW l \in levels, NEW n \in ToSet(T.pages[l])
        PROVE  CaParent[n] = l /\ n \in T.known
    <3>1. CASE n \in ToSet(PageOf(S, l))
      BY <1>1, <1>6, <2>2, <3>1 DEF Store, Fetched, PageOf, ToSet
    <3>2. CASE n \notin ToSet(PageOf(S, l))
      BY <1>1, <1>5, <1>6, <2>2, <3>2
    <3>. QED
      BY <3>1, <3>2
  <2>. QED
    BY <1>1, <1>3, <1>6, <2>1, <2>2 DEF Store, Fetched, Asks
<1>. QED
  BY <1>2, <1>6

(* cancelAll drops requests and the levels they stood for.                 *)
LEMMA CancelKeeps == ASSUME NEW S PROVE Keeps(S, CancelAll(S))
<1>. DEFINE A == AbortKey(S, LiveKeys(S))
            T == CancelAll(S)
<1>. SUFFICES ASSUME Fields(S)
              PROVE  Same(S, T) /\ (Store(S) => Store(T))
  BY DEF Keeps
<1>1. Same(S, A) /\ (Store(S) => Store(A))
  BY AbortKeeps DEF Keeps
<1>. HIDE DEF A
<1>2. Touched(A, T) /\ DOMAIN T.states \subseteq DOMAIN A.states /\ T.warm = CaNone
  <2>1. A = AbortKey(S, LiveKeys(S))
    BY DEF A
  <2>. QED
    BY <1>1, <2>1 DEF CancelAll, Touched, Same, Fields, CaFields
<1>. HIDE DEF T
<1>3. Same(A, T) /\ (Store(A) => Store(T))
  BY <1>1, <1>2, TouchStores DEF Same, Store, Fetched
<1>. QED
  BY <1>1, <1>3 DEF Same

LEMMA CloseKeeps == ASSUME NEW S PROVE Keeps(S, CloseEffect(S))
BY CancelKeeps DEF CloseEffect, Keeps, Same

(* A search, and the effects of a query and of the selection, ask for no   *)
(* level.                                                                  *)
LEMMA RunSearchKeeps == ASSUME NEW S PROVE Keeps(S, RunSearch(S))
<1>. DEFINE A == Ask(S, {CaAsk("search", S.due, "search", 0)})
            T == RunSearch(S)
<1>. SUFFICES ASSUME Fields(S)
              PROVE  Same(S, T) /\ (Store(S) => Store(T))
  BY DEF Keeps
<1>1. \A r \in {CaAsk("search", S.due, "search", 0)} :
        DOMAIN r = {"key", "node", "kind", "cursor", "live"} /\ r.kind = "search"
  BY DEF CaAsk
<1>2. Same(S, A) /\ (Store(S) => Store(A))
  BY <1>1, AskStores DEF Asked
<1>. HIDE DEF A
<1>3. Touched(A, T) /\ T.states = A.states /\ T.warm = A.warm
  <2>1. A = Ask(S, {CaAsk("search", S.due, "search", 0)})
    BY DEF A
  <2>. QED
    BY <1>2, <2>1 DEF RunSearch, Touched, Same, Fields, CaFields
<1>. HIDE DEF T
<1>4. Same(A, T) /\ (Store(A) => Store(T))
  BY <1>2, <1>3, TouchStores DEF Same, Store, Fetched
<1>. QED
  BY <1>2, <1>4 DEF Same

LEMMA SearchEffectKeeps == ASSUME NEW S PROVE Keeps(S, SearchEffect(S))
<1>1. CASE ~caScene.server \/ caScene.mode = "tree" \/ SameQuery(S)
  BY <1>1 DEF SearchEffect, Keeps, Same
<1>2. CASE ~(~caScene.server \/ caScene.mode = "tree" \/ SameQuery(S))
  <2>. DEFINE A == AbortKey(S, {"search"})
              T == SearchEffect(S)
  <2>. SUFFICES ASSUME Fields(S)
                PROVE  Same(S, T) /\ (Store(S) => Store(T))
    BY DEF Keeps
  <2>1. Same(S, A) /\ (Store(S) => Store(A))
    BY AbortKeeps DEF Keeps
  <2>. HIDE DEF A
  <2>2. Touched(A, T) /\ T.states = A.states /\ T.warm = A.warm
    <3>1. A = AbortKey(S, {"search"})
      BY DEF A
    <3>. QED
      BY <1>2, <2>1, <3>1 DEF SearchEffect, NoSearch, Touched, Same, Fields, CaFields
  <2>. HIDE DEF T
  <2>3. Same(A, T) /\ (Store(A) => Store(T))
    BY <2>1, <2>2, TouchStores DEF Same, Store, Fetched
  <2>. QED
    BY <2>1, <2>3 DEF Same
<1>. QED
  BY <1>1, <1>2

LEMMA ResolveKeeps == ASSUME NEW S PROVE Keeps(S, ResolveEffect(S))
<1>. DEFINE missing == S.selected \ (S.attempted \cup InBase \cup S.known)
            asks == {CaAsk("resolve:" \o n, n, "resolve", 0) : n \in missing}
            A == Ask(S, asks)
            T == ResolveEffect(S)
<1>1. CASE ~S.open \/ ~caScene.resolver \/ S.sought = <<S.open, S.selected>>
  BY <1>1 DEF ResolveEffect, Keeps, Same
<1>2. CASE ~(~S.open \/ ~caScene.resolver \/ S.sought = <<S.open, S.selected>>)
  <2>. SUFFICES ASSUME Fields(S)
                PROVE  Same(S, T) /\ (Store(S) => Store(T))
    BY DEF Keeps
  <2>1. \A r \in asks : DOMAIN r = {"key", "node", "kind", "cursor", "live"} /\ r.kind = "resolve"
    BY DEF CaAsk
  <2>. HIDE DEF asks
  <2>2. Same(S, A) /\ (Store(S) => Store(A))
    BY <2>1, AskStores DEF Asked
  <2>3. T = [A EXCEPT !.attempted = @ \cup missing, !.sought = <<S.open, S.selected>>]
    BY <1>2 DEF ResolveEffect, asks
  <2>. HIDE DEF A, T, missing
  <2>4. Touched(A, T) /\ T.states = A.states /\ T.warm = A.warm
    BY <2>2, <2>3 DEF Touched, Same, Fields, CaFields
  <2>5. Same(A, T) /\ (Store(A) => Store(T))
    BY <2>2, <2>4, TouchStores DEF Same, Store, Fetched
  <2>. QED
    BY <2>2, <2>5 DEF Same
<1>. QED
  BY <1>1, <1>2

-----------------------------------------------------------------------------
(* Navigation                                                              *)

(* T differs from S in nothing the invariant speaks of.                    *)
Alike(S, T) ==
    /\ DOMAIN T = CaFields /\ T.path = S.path /\ T.held = S.held /\ T.crossed = S.crossed
    /\ T.known = S.known /\ T.pages = S.pages /\ T.detached = S.detached /\ T.reqs = S.reqs
    /\ T.search = S.search /\ T.states = S.states /\ T.warm = S.warm

LEMMA AlikeIsSound == ASSUME NEW S, NEW T, Sound(S), Alike(S, T) PROVE Sound(T)
<1>1. Named(T) = Named(S)
  BY DEF Alike, Named
<1>2. Fields(T)
  BY DEF Sound, Fields, Alike
<1>3. Store(S) => Store(T)
  BY <1>1 DEF Alike, Store, Stored, Fetched, Asks
<1>4. Place(S) => Place(T)
  BY <1>1 DEF Alike, Place, Waiting, Level
<1>. QED
  BY <1>2, <1>3, <1>4 DEF Sound, Alike

LEMMA EnsureIsSound ==
    ASSUME caScene \in CaScenes, NEW S, Sound(S), NEW levels,
           ~S.crossed /\ caScene.mode # "tree" => levels \subseteq Named(S)
    PROVE  Sound(EnsureLevels(S, levels)) /\ Same(S, EnsureLevels(S, levels))
<1>1. Fields(S)
  BY DEF Sound
<1>. QED
  BY <1>1, EnsureStores, SameIsSound

(* The levels on screen are those of the path: they can be asked for.      *)
LEMMA LevelIsSound ==
    ASSUME caScene \in CaScenes, NEW S, Sound(S)
    PROVE  Sound(LevelEffect(S)) /\ Same(S, LevelEffect(S))
<1>1. Same(S, S)
  BY DEF Same, Sound
<1>2. ASSUME ~S.crossed, caScene.mode # "tree"
      PROVE  OnScreen(S) \subseteq Named(S)
  <2>1. S.path \in Seq(CaNodes) /\ ToSet(S.path) \subseteq Named(S)
    BY <1>2 DEF Sound, Place
  <2>2. Level(S) \in Named(S)
    BY <2>1 DEF Level, Last, Named, ToSet
  <2>. QED
    BY <1>2, <2>1, <2>2 DEF OnScreen, Named
<1>. QED
  BY <1>1, <1>2, EnsureIsSound DEF LevelEffect

(* setPath moves to a trail, or crosses while a branch is held.            *)
LEMMA MovedIsSound ==
    ASSUME NEW S, Sound(S), NEW path,
           ~S.crossed => /\ path \in Seq(CaNodes) /\ IsTrail(path)
                         /\ caScene.mode # "tree" /\ ToSet(path) \subseteq Named(S)
    PROVE  Sound(Moved(S, path))
<1>. DEFINE T == Moved(S, path)
<1>1. /\ DOMAIN T = CaFields /\ T.path = path /\ T.held = S.held
      /\ T.crossed = (S.crossed \/ S.held # CaIdle)
      /\ T.known = S.known /\ T.pages = S.pages /\ T.detached = S.detached /\ T.reqs = S.reqs
      /\ T.search = S.search /\ T.states = S.states /\ T.warm = S.warm
  BY DEF Moved, Sound, Fields, CaFields
<1>. HIDE DEF T
<1>2. Named(T) = Named(S) /\ Fields(T)
  BY <1>1 DEF Named, Fields, Sound
<1>3. Store(S) => Store(T)
  BY <1>1, <1>2 DEF Store, Stored, Fetched, Asks
<1>4. ~T.crossed => Place(T)
  BY <1>1, <1>2 DEF Place, Waiting
<1>. QED
  BY <1>1, <1>2, <1>3, <1>4 DEF Sound, T

(* Where a held branch leads: below the path, or below some of it.         *)
Reaches(S, n, kind, depth) ==
    /\ n \in CaNodes /\ kind \in {"push", "at"} /\ depth \in 0 .. Len(S.path)
    /\ CaParent[n] = IF kind = "push" THEN Level(S)
                     ELSE IF depth = 0 THEN CaRoot ELSE S.path[depth]

(* requestChildren holds a branch that belongs where it will be            *)
(* appended.                                                               *)
LEMMA RequestIsSound ==
    ASSUME caScene \in CaScenes, NEW S, Sound(S), NEW n, NEW kind, NEW depth,
           ~S.crossed => IF caScene.mode = "tree" THEN kind = "expand"
                         ELSE n \in Named(S) /\ Reaches(S, n, kind, depth)
    PROVE  /\ Sound(RequestChildren(S, n, kind, depth))
           /\ RequestChildren(S, n, kind, depth).crossed = S.crossed
<1>. DEFINE T == [S EXCEPT !.held = [value |-> n, kind |-> kind, depth |-> depth], !.said = CaNone]
            U == RetryLevel(T, n)
            V == EnsureLevels(U, {n})
<1>1. /\ DOMAIN T = CaFields /\ T.path = S.path /\ T.crossed = S.crossed
      /\ T.held = [value |-> n, kind |-> kind, depth |-> depth]
      /\ T.known = S.known /\ T.pages = S.pages /\ T.detached = S.detached /\ T.reqs = S.reqs
      /\ T.search = S.search /\ T.states = S.states /\ T.warm = S.warm
  BY DEF Sound, Fields, CaFields
<1>. HIDE DEF T
<1>2. Named(T) = Named(S) /\ Fields(T)
  BY <1>1 DEF Named, Fields, Sound
<1>3. Store(S) => Store(T)
  BY <1>1, <1>2 DEF Store, Stored, Fetched, Asks
<1>4. ~T.crossed => Place(T)
  BY <1>1, <1>2 DEF Sound, Place, Waiting, Reaches, Level
<1>5. Sound(T)
  BY <1>1, <1>2, <1>3, <1>4 DEF Sound
<1>. HIDE DEF U
<1>6. Sound(U) /\ Same(T, U)
  BY <1>5, RetryKeeps, KeptIsSound DEF U
<1>7. ~U.crossed /\ caScene.mode # "tree" => {n} \subseteq Named(U)
  BY <1>1, <1>2, <1>6 DEF Same, Named
<1>. HIDE DEF V
<1>8. Sound(V) /\ Same(U, V)
  BY <1>6, <1>7, EnsureIsSound DEF V
<1>. QED
  BY <1>1, <1>6, <1>8 DEF RequestChildren, EnsureLevel, Same, T, U, V

(* A trail cut short, and a trail with a child of its last node, are       *)
(* trails.                                                                 *)
LEMMA UptoIsTrail ==
    ASSUME NEW path \in Seq(CaNodes), IsTrail(path), NEW depth \in Nat
    PROVE  /\ Upto(path, depth) \in Seq(CaNodes) /\ IsTrail(Upto(path, depth))
           /\ ToSet(Upto(path, depth)) \subseteq ToSet(path)
           /\ Len(Upto(path, depth)) <= depth
           /\ depth <= Len(path) => Len(Upto(path, depth)) = depth
           /\ \A i \in DOMAIN Upto(path, depth) : Upto(path, depth)[i] = path[i]
<1>. DEFINE some == Upto(path, depth)
<1>1. /\ some \in Seq(CaNodes) /\ Len(some) <= depth /\ Len(some) <= Len(path)
      /\ depth <= Len(path) => Len(some) = depth
      /\ \A i \in DOMAIN some : i \in DOMAIN path /\ some[i] = path[i]
  BY DEF Upto
<1>. HIDE DEF some
<1>2. IsTrail(some)
  BY <1>1 DEF IsTrail
<1>3. ToSet(some) \subseteq ToSet(path)
  BY <1>1 DEF ToSet
<1>. QED
  BY <1>1, <1>2, <1>3 DEF some

LEMMA AppendIsTrail ==
    ASSUME NEW path \in Seq(CaNodes), IsTrail(path), NEW n \in CaNodes,
           CaParent[n] = IF path = <<>> THEN CaRoot ELSE path[Len(path)]
    PROVE  /\ Append(path, n) \in Seq(CaNodes) /\ IsTrail(Append(path, n))
           /\ ToSet(Append(path, n)) = ToSet(path) \cup {n}
<1>. DEFINE longer == Append(path, n)
<1>1. /\ longer \in Seq(CaNodes) /\ Len(longer) = Len(path) + 1 /\ longer[Len(path) + 1] = n
      /\ \A i \in 1 .. Len(path) : longer[i] = path[i]
  OBVIOUS
<1>. HIDE DEF longer
<1>2. IsTrail(longer)
  <2>. SUFFICES ASSUME NEW i \in DOMAIN longer
                PROVE  CaParent[longer[i]] = IF i = 1 THEN CaRoot ELSE longer[i - 1]
    BY DEF IsTrail
  <2>1. CASE i = Len(path) + 1
    BY <1>1, <2>1
  <2>2. CASE i \in 1 .. Len(path)
    BY <1>1, <2>2 DEF IsTrail
  <2>. QED
    BY <1>1, <2>1, <2>2
<1>3. ToSet(longer) = ToSet(path) \cup {n}
  BY <1>1 DEF ToSet
<1>. QED
  BY <1>1, <1>2, <1>3 DEF longer

LEMMA RequestKeepsFields ==
    ASSUME caScene \in CaScenes, NEW S, Fields(S), NEW n, NEW kind, NEW depth
    PROVE  Fields(RequestChildren(S, n, kind, depth))
<1>. DEFINE T == [S EXCEPT !.held = [value |-> n, kind |-> kind, depth |-> depth], !.said = CaNone]
            U == RetryLevel(T, n)
<1>1. Fields(T)
  BY DEF Fields, CaFields
<1>. HIDE DEF T
<1>2. Fields(U)
  BY <1>1, RetryKeeps DEF Keeps, Same
<1>. HIDE DEF U
<1>3. Fields(EnsureLevels(U, {n}))
  BY <1>2, EnsureStores DEF Same
<1>. QED
  BY <1>3 DEF RequestChildren, EnsureLevel, T, U

(* A step that crosses the path where it must.                             *)
LEMMA CrossedIsSound ==
    ASSUME NEW S, Fields(S), NEW b \in BOOLEAN, b \/ Sound(S)
    PROVE  Sound([S EXCEPT !.crossed = @ \/ b])
<1>. DEFINE T == [S EXCEPT !.crossed = @ \/ b]
<1>1. /\ DOMAIN T = CaFields /\ T.path = S.path /\ T.held = S.held /\ T.crossed = (S.crossed \/ b)
      /\ T.known = S.known /\ T.pages = S.pages /\ T.detached = S.detached /\ T.reqs = S.reqs
      /\ T.search = S.search /\ T.states = S.states /\ T.warm = S.warm
  BY DEF Fields, CaFields
<1>. HIDE DEF T
<1>2. Fields(T) /\ Named(S) = Named(T)
  BY <1>1 DEF Fields, Named
<1>3. ~T.crossed => Store(T) /\ Place(T)
  BY <1>1, <1>2 DEF Sound, Store, Stored, Fetched, Asks, Place, Waiting, Level
<1>. QED
  BY <1>2, <1>3 DEF Sound, T

LEMMA ToggledIsSound ==
    ASSUME NEW S, Sound(S), NEW n
    PROVE  Sound(Toggled(S, n))
<1>. DEFINE T == Toggled(S, n)
<1>1. Alike(S, T)
  BY DEF Toggled, Alike, Sound, Fields, CaFields
<1>. QED
  BY <1>1, AlikeIsSound

(* navigate, from the list of a level or from the hits of a query: a hit   *)
(* is gone to along its own path, and a hit whose children are to be       *)
(* fetched waits only below the part of its path that is open.             *)
LEMMA NavigateIsSound ==
    ASSUME caScene \in CaScenes, NEW S, Sound(S), NEW n,
           ~S.crossed /\ caScene.mode # "tree" => Listed(S, n)
    PROVE  Sound(Navigate(S, n))
<1>0. Fields(S)
  BY DEF Sound
<1>1. CASE caScene.mode = "tree"
  <2>1. Sound(RequestChildren(S, n, "expand", 0))
    BY <1>1, RequestIsSound
  <2>. QED
    BY <1>1, <2>1, ToggledIsSound DEF Navigate
<1>2. ASSUME caScene.mode # "tree", ~S.crossed
      PROVE  /\ n \in Named(S) /\ n \in CaNodes /\ n \in Indexed(S)
             /\ S.path \in Seq(CaNodes) /\ IsTrail(S.path) /\ ToSet(S.path) \subseteq Named(S)
             /\ Stored(S) /\ Fetched(S) /\ (~Searching(S) => CaParent[n] = Level(S))
  <2>1. Store(S) /\ Place(S) /\ Stored(S) /\ Fetched(S)
    BY <1>2 DEF Sound, Store
  <2>2. n \in Indexed(S) /\ (~Searching(S) => CaParent[n] = Level(S))
    BY <1>2 DEF Listed
  <2>. QED
    BY <1>2, <2>1, <2>2, IndexIsNodes, IndexIsNamed DEF Place, Named
<1>3. CASE caScene.mode # "tree" /\ Searching(S)
  <2>. DEFINE path == PathOf(S, n)
              depth == IF path = <<>> THEN 0 ELSE Len(path) - 1
              T == IF NeedsChildren(S, n)
                   THEN [RequestChildren(S, n, "at", depth) EXCEPT
                           !.crossed = @ \/ Upto(S.path, depth) # Front(path)]
                   ELSE Moved(S, path)
  <2>1. ~S.crossed => /\ path \in Seq(CaNodes) /\ path # <<>> /\ path[Len(path)] = n
                      /\ ToSet(path) \subseteq Named(S)
                      /\ Cut(path) \/ IsTrail(path)
    <3>. SUFFICES ASSUME ~S.crossed
                  PROVE  /\ path \in Seq(CaNodes) /\ path # <<>> /\ path[Len(path)] = n
                         /\ ToSet(path) \subseteq Named(S)
                         /\ Cut(path) \/ IsTrail(path)
      OBVIOUS
    <3>1. /\ path \in Seq(Indexed(S)) /\ path # <<>> /\ path[Len(path)] = n
          /\ Cut(path) \/ IsTrail(path)
      BY <1>2, <1>3, PathIsLinked
    <3>2. Indexed(S) \subseteq CaNodes /\ Indexed(S) \subseteq Named(S)
      BY <1>2, <1>3, IndexIsNodes, IndexIsNamed DEF Named
    <3>. HIDE DEF path
    <3>. QED
      BY <3>1, <3>2 DEF ToSet
  <2>. HIDE DEF path
  <2>2. Cut(path) \in BOOLEAN
    BY DEF Cut
  <2>3. Fields(T) /\ (Cut(path) \/ Sound(T))
    <3>1. CASE NeedsChildren(S, n)
      <4>. DEFINE R == RequestChildren(S, n, "at", depth)
                  b == Upto(S.path, depth) # Front(path)
      <4>1. Fields(R)
        BY <1>0, RequestKeepsFields
      <4>2. ~Cut(path) /\ ~b /\ ~S.crossed => Reaches(S, n, "at", depth)
        <5>. SUFFICES ASSUME ~Cut(path), ~b, ~S.crossed
                      PROVE  Reaches(S, n, "at", depth)
          OBVIOUS
        <5>1. /\ path \in Seq(CaNodes) /\ path # <<>> /\ path[Len(path)] = n /\ IsTrail(path)
              /\ S.path \in Seq(CaNodes) /\ n \in CaNodes
          BY <1>2, <1>3, <2>1
        <5>2. depth = Len(path) - 1 /\ depth \in Nat
          BY <5>1
        <5>3. Front(path) = Upto(S.path, depth) /\ Len(Front(path)) = depth
              /\ \A i \in 1 .. depth : Front(path)[i] = path[i]
          BY <5>1, <5>2 DEF Front
        <5>4. /\ Len(Upto(S.path, depth)) <= Len(S.path)
              /\ \A i \in 1 .. Len(Upto(S.path, depth)) : Upto(S.path, depth)[i] = S.path[i]
          BY <5>1, <5>2 DEF Upto
        <5>5. CaParent[n] = IF depth = 0 THEN CaRoot ELSE path[depth]
          BY <5>1, <5>2 DEF IsTrail
        <5>. HIDE DEF depth
        <5>6. depth # 0 => path[depth] = S.path[depth]
          BY <5>2, <5>3, <5>4
        <5>. QED
          BY <5>1, <5>2, <5>3, <5>4, <5>5, <5>6 DEF Reaches
      <4>3. Cut(path) \/ b \/ Sound(R)
        <5>. HIDE DEF depth, b
        <5>. QED
          BY <1>2, <1>3, <4>2, RequestIsSound
      <4>. HIDE DEF R, b
      <4>4. Fields([R EXCEPT !.crossed = @ \/ b])
        BY <4>1 DEF Fields, CaFields
      <4>5. b \/ Sound(R) => Sound([R EXCEPT !.crossed = @ \/ b])
        BY <4>1, CrossedIsSound DEF b
      <4>. QED
        BY <3>1, <4>3, <4>4, <4>5 DEF R, b
    <3>2. CASE ~NeedsChildren(S, n)
      <4>1. Fields(Moved(S, path))
        BY <1>0 DEF Moved, Fields, CaFields
      <4>2. Cut(path) \/ Sound(Moved(S, path))
        BY <1>3, <2>1, MovedIsSound
      <4>. QED
        BY <3>2, <4>1, <4>2
    <3>. QED
      BY <3>1, <3>2
  <2>4. Navigate(S, n) = [T EXCEPT !.crossed = @ \/ Cut(path)]
    BY <1>3 DEF Navigate, path
  <2>. HIDE DEF T
  <2>. QED
    BY <2>2, <2>3, <2>4, CrossedIsSound
<1>4. CASE caScene.mode # "tree" /\ ~Searching(S)
  <2>1. ~S.crossed => n \in Named(S) /\ Reaches(S, n, "push", 0)
    BY <1>2, <1>4 DEF Reaches
  <2>2. Sound(RequestChildren(S, n, "push", 0))
    BY <1>4, <2>1, RequestIsSound
  <2>3. ~S.crossed => /\ Append(S.path, n) \in Seq(CaNodes) /\ IsTrail(Append(S.path, n))
                      /\ ToSet(Append(S.path, n)) \subseteq Named(S)
    BY <1>2, <1>4, AppendIsTrail DEF Level, Last
  <2>4. Sound(Moved(S, Append(S.path, n)))
    BY <1>4, <2>3, MovedIsSound
  <2>. QED
    BY <1>4, <2>2, <2>4 DEF Navigate
<1>. QED
  BY <1>1, <1>3, <1>4

(* goToLevelAt from a column: the row is listed below the column before    *)
(* it.                                                                     *)
LEMMA GoToLevelIsSound ==
    ASSUME NEW S, Sound(S), NEW n, NEW depth,
           ~S.crossed => caScene.mode # "tree" /\ n \in Named(S) /\ Reaches(S, n, "at", depth)
    PROVE  Sound(GoToLevelAt(S, n, depth))
<1>. DEFINE path == Append(Upto(S.path, depth), n)
<1>1. ASSUME ~S.crossed
      PROVE  path \in Seq(CaNodes) /\ IsTrail(path) /\ ToSet(path) \subseteq Named(S)
  <2>1. S.path \in Seq(CaNodes) /\ IsTrail(S.path) /\ ToSet(S.path) \subseteq Named(S)
    BY <1>1 DEF Sound, Place
  <2>2. /\ n \in CaNodes /\ depth \in Nat /\ depth <= Len(S.path)
        /\ CaParent[n] = IF depth = 0 THEN CaRoot ELSE S.path[depth]
    BY <1>1, <2>1 DEF Reaches
  <2>. DEFINE some == Upto(S.path, depth)
  <2>3. /\ some \in Seq(CaNodes) /\ IsTrail(some) /\ ToSet(some) \subseteq ToSet(S.path)
        /\ Len(some) = depth /\ \A i \in DOMAIN some : some[i] = S.path[i]
    BY <2>1, <2>2, UptoIsTrail
  <2>. HIDE DEF some
  <2>4. CaParent[n] = IF some = <<>> THEN CaRoot ELSE some[Len(some)]
    BY <2>2, <2>3
  <2>5. /\ Append(some, n) \in Seq(CaNodes) /\ IsTrail(Append(some, n))
        /\ ToSet(Append(some, n)) = ToSet(some) \cup {n}
    BY <2>2, <2>3, <2>4, AppendIsTrail
  <2>. QED
    BY <1>1, <2>1, <2>3, <2>5 DEF some
<1>. QED
  BY <1>1, MovedIsSound DEF GoToLevelAt

LEMMA NavigateAtIsSound ==
    ASSUME caScene \in CaScenes, NEW S, Sound(S), NEW n, NEW depth,
           ~S.crossed /\ caScene.mode # "tree" => n \in Named(S) /\ Reaches(S, n, "at", depth)
    PROVE  Sound(NavigateAt(S, n, depth))
<1>1. CASE caScene.mode = "tree"
  BY <1>1, ToggledIsSound DEF NavigateAt
<1>2. CASE caScene.mode # "tree"
  <2>1. Sound(RequestChildren(S, n, "at", depth))
    BY <1>2, RequestIsSound
  <2>2. Sound(GoToLevelAt(S, n, depth))
    BY <1>2, GoToLevelIsSound
  <2>. QED
    BY <1>2, <2>1, <2>2 DEF NavigateAt
<1>. QED
  BY <1>1, <1>2

(* A new path without a branch held.                                       *)
LEMMA PlacedIsSound ==
    ASSUME NEW S, Sound(S), NEW T,
           DOMAIN T = CaFields, T.held = CaIdle, S.crossed => T.crossed,
           T.known = S.known, T.pages = S.pages, T.detached = S.detached, T.reqs = S.reqs,
           T.search = S.search, T.states = S.states, T.warm = S.warm,
           ~T.crossed => /\ T.path \in Seq(CaNodes) /\ IsTrail(T.path)
                         /\ caScene.mode # "tree" => ToSet(T.path) \subseteq Named(S)
    PROVE  Sound(T)
<1>1. Named(T) = Named(S) /\ Fields(T)
  BY DEF Named, Fields, Sound
<1>2. Store(S) => Store(T)
  BY <1>1 DEF Store, Stored, Fetched, Asks
<1>3. ~T.crossed => Place(T)
  BY <1>1 DEF Sound, Place, Waiting
<1>. QED
  BY <1>1, <1>2, <1>3 DEF Sound

(* Going up lets the held branch go.                                       *)
LEMMA ShorterIsSound ==
    ASSUME NEW S, Sound(S), NEW T,
           DOMAIN T = CaFields, T.held = CaIdle, T.crossed = S.crossed,
           T.known = S.known, T.pages = S.pages, T.detached = S.detached, T.reqs = S.reqs,
           T.search = S.search, T.states = S.states, T.warm = S.warm,
           ~S.crossed => /\ T.path \in Seq(CaNodes) /\ IsTrail(T.path)
                         /\ ToSet(T.path) \subseteq ToSet(S.path)
    PROVE  Sound(T)
<1>1. ~S.crossed /\ caScene.mode # "tree" => ToSet(T.path) \subseteq Named(S)
  BY DEF Sound, Place
<1>. QED
  BY <1>1, PlacedIsSound

LEMMA FrontIsTrail ==
    ASSUME NEW path \in Seq(CaNodes), IsTrail(path), path # <<>>
    PROVE  /\ Front(path) \in Seq(CaNodes) /\ IsTrail(Front(path))
           /\ ToSet(Front(path)) \subseteq ToSet(path)
<1>1. Len(path) - 1 \in Nat /\ Len(path) - 1 <= Len(path)
  OBVIOUS
<1>2. Front(path) = Upto(path, Len(path) - 1)
  BY <1>1 DEF Front, Upto
<1>. QED
  BY <1>1, <1>2, UptoIsTrail

LEMMA PopIsSound == ASSUME NEW S, Sound(S) PROVE Sound(PopLevel(S))
<1>. DEFINE T == PopLevel(S)
<1>1. /\ DOMAIN T = CaFields /\ T.held = CaIdle /\ T.crossed = S.crossed
      /\ T.known = S.known /\ T.pages = S.pages /\ T.detached = S.detached /\ T.reqs = S.reqs
      /\ T.search = S.search /\ T.states = S.states /\ T.warm = S.warm
      /\ T.path = IF S.path = <<>> THEN S.path ELSE Front(S.path)
  BY DEF PopLevel, Sound, Fields, CaFields
<1>2. ~S.crossed => S.path \in Seq(CaNodes) /\ IsTrail(S.path)
  BY DEF Sound, Place
<1>. HIDE DEF T
<1>. QED
  BY <1>1, <1>2, FrontIsTrail, ShorterIsSound DEF T

LEMMA GoToDepthIsSound ==
    ASSUME NEW S, Sound(S), NEW depth, ~S.crossed => depth \in Nat
    PROVE  Sound(GoToDepth(S, depth))
<1>. DEFINE T == GoToDepth(S, depth)
<1>1. /\ DOMAIN T = CaFields /\ T.held = CaIdle /\ T.crossed = S.crossed
      /\ T.known = S.known /\ T.pages = S.pages /\ T.detached = S.detached /\ T.reqs = S.reqs
      /\ T.search = S.search /\ T.states = S.states /\ T.warm = S.warm
      /\ T.path = Upto(S.path, depth)
  BY DEF GoToDepth, Sound, Fields, CaFields
<1>2. ~S.crossed => S.path \in Seq(CaNodes) /\ IsTrail(S.path)
  BY DEF Sound, Place
<1>. HIDE DEF T
<1>3. ~S.crossed => /\ T.path \in Seq(CaNodes) /\ IsTrail(T.path)
                    /\ ToSet(T.path) \subseteq ToSet(S.path)
  BY <1>1, <1>2, UptoIsTrail
<1>4. Sound(T)
  BY <1>1, <1>3, ShorterIsSound
<1>. QED
  BY <1>4 DEF T

(* The fetch of the held branch settled, maybe after the path was          *)
(* shortened: the branch is appended where it belongs, or the path is      *)
(* crossed already.                                                        *)
LEMMA LandedIsSound ==
    ASSUME caScene \in CaScenes, NEW S, Sound(S)
    PROVE  Sound(Landed(S)) /\ Landed(S).open = S.open
<1>. DEFINE h == S.held
            T == [S EXCEPT !.held = CaIdle]
<1>0. Fields(S)
  BY DEF Sound
<1>1. /\ DOMAIN T = CaFields /\ T.held = CaIdle /\ T.crossed = S.crossed
      /\ T.known = S.known /\ T.pages = S.pages /\ T.detached = S.detached /\ T.reqs = S.reqs
      /\ T.search = S.search /\ T.states = S.states /\ T.warm = S.warm /\ T.path = S.path
      /\ T.open = S.open
  BY DEF Sound, Fields, CaFields
<1>. HIDE DEF T
<1>2. Sound(T)
  BY <1>1, ShorterIsSound DEF Sound, Place
<1>3. CASE h = CaIdle \/ h.value \notin DOMAIN S.states \/ S.states[h.value].loading
           \/ S.states[h.value].error
  BY <1>3 DEF Landed
<1>4. CASE ~(h = CaIdle \/ h.value \notin DOMAIN S.states \/ S.states[h.value].loading
             \/ S.states[h.value].error)
  <2>1. ASSUME ~T.crossed, caScene.mode # "tree"
        PROVE  /\ h.kind \in {"push", "at"} /\ h.value \in Named(T)
               /\ Reaches(T, h.value, h.kind, h.depth)
    <3>1. Fetched(S) /\ Waiting(S) /\ S.path \in Seq(CaNodes)
      BY <1>1, <2>1 DEF Sound, Store, Place
    <3>2. h.value \in Named(T)
      BY <1>1, <1>4, <3>1 DEF Fetched, Named
    <3>. QED
      BY <1>1, <1>4, <3>1, <3>2 DEF Waiting, Reaches, Level
  <2>2. ~T.crossed /\ caScene.mode = "tree" => h.kind = "expand"
    BY <1>1, <1>4 DEF Sound, Place
  <2>3. CASE h.kind = "expand"
    <3>1. Landed(S) = Toggled(T, h.value)
      BY <1>4, <2>3 DEF Landed, T
    <3>2. Sound(Toggled(T, h.value))
      BY <1>2, ToggledIsSound
    <3>3. Toggled(T, h.value).open = T.open
      BY <1>1 DEF Toggled, CaFields
    <3>. QED
      BY <1>1, <3>1, <3>2, <3>3
  <2>4. CASE h.kind = "at"
    <3>1. Landed(S) = GoToLevelAt(T, h.value, h.depth)
      BY <1>4, <2>4 DEF Landed, T
    <3>2. Sound(GoToLevelAt(T, h.value, h.depth))
      BY <1>2, <2>1, <2>2, <2>4, GoToLevelIsSound
    <3>. QED
      BY <1>1, <3>1, <3>2 DEF GoToLevelAt, Moved, CaFields
  <2>5. CASE h.kind # "expand" /\ h.kind # "at"
    <3>. DEFINE path == Append(T.path, h.value)
    <3>1. Landed(S) = Moved(T, path)
      BY <1>4, <2>5 DEF Landed, T
    <3>2. ~T.crossed => /\ path \in Seq(CaNodes) /\ IsTrail(path)
                        /\ caScene.mode # "tree" /\ ToSet(path) \subseteq Named(T)
      <4>. SUFFICES ASSUME ~T.crossed
                    PROVE  /\ path \in Seq(CaNodes) /\ IsTrail(path)
                           /\ caScene.mode # "tree" /\ ToSet(path) \subseteq Named(T)
        OBVIOUS
      <4>1. caScene.mode # "tree"
        BY <2>2, <2>5
      <4>2. T.path \in Seq(CaNodes) /\ IsTrail(T.path) /\ ToSet(T.path) \subseteq Named(T)
        BY <1>2, <4>1 DEF Sound, Place
      <4>3. h.value \in CaNodes /\ h.value \in Named(T) /\ CaParent[h.value] = Level(T)
        BY <2>1, <2>5, <4>1 DEF Reaches
      <4>4. CaParent[h.value] = IF T.path = <<>> THEN CaRoot ELSE T.path[Len(T.path)]
        BY <4>2, <4>3 DEF Level, Last
      <4>. QED
        BY <4>1, <4>2, <4>3, <4>4, AppendIsTrail
    <3>. HIDE DEF path
    <3>3. Sound(Moved(T, path))
      BY <1>2, <3>2, MovedIsSound
    <3>. QED
      BY <1>1, <3>1, <3>3 DEF Moved, CaFields
  <2>. QED
    BY <2>3, <2>4, <2>5
<1>. QED
  BY <1>3, <1>4

(* A closed cascader holds no branch.                                      *)
LEMMA DropIsSound ==
    ASSUME NEW S, Sound(S)
    PROVE  Sound(DropHeld(S)) /\ DropHeld(S).open = S.open
           /\ (S.open \/ DropHeld(S).held = CaIdle)
<1>. DEFINE T == DropHeld(S)
<1>1. CASE S.open
  BY <1>1 DEF DropHeld
<1>2. CASE ~S.open
  <2>1. /\ DOMAIN T = CaFields /\ T.held = CaIdle /\ T.crossed = S.crossed
        /\ T.known = S.known /\ T.pages = S.pages /\ T.detached = S.detached /\ T.reqs = S.reqs
        /\ T.search = S.search /\ T.states = S.states /\ T.warm = S.warm /\ T.path = S.path
        /\ T.open = S.open
    BY <1>2 DEF DropHeld, Sound, Fields, CaFields
  <2>. HIDE DEF T
  <2>2. Sound(T)
    BY <2>1, ShorterIsSound DEF Sound, Place
  <2>. QED
    BY <2>1, <2>2 DEF T
<1>. QED
  BY <1>1, <1>2

-----------------------------------------------------------------------------
(* The render and its effects                                              *)
(*                                                                         *)
(* Resting: the row a hover rests on is still listed; its timer drills     *)
(* into it later.                                                          *)

Resting(S) ==
    S.crossed \/ caScene.mode = "tree" \/ S.hover = CaNone \/ Listed(S, S.hover)
CaInv ==
    /\ caScene \in CaScenes
    /\ Sound(ca) /\ Resting(ca)
    /\ ca.open \/ ca.held = CaIdle

(* Every row of the list, hits included, may be drilled into.              *)
LEMMA RowsAreListed ==
    ASSUME caScene \in CaScenes, caScene.mode # "tree", NEW S, Sound(S), ~S.crossed,
           NEW n \in RowSet(S)
    PROVE  Listed(S, n) /\ n \in Named(S)
<1>1. Store(S) /\ Place(S) /\ Stored(S) /\ Fetched(S)
  BY DEF Sound, Store
<1>2. CASE Searching(S)
  <2>1. n \in SearchHits(S)
    BY <1>2 DEF RowSet
  <2>2. SearchHits(S) \subseteq Indexed(S)
    BY <1>1 DEF SearchHits, Fetched, Indexed
  <2>. QED
    BY <1>1, <1>2, <2>1, <2>2, IndexIsNamed DEF Listed, Named
<1>3. CASE ~Searching(S)
  <2>1. n \in KidSet(S, Level(S))
    BY <1>3 DEF RowSet
  <2>2. Level(S) \in CaLevels
    BY <1>1 DEF Place, Level, Last, CaLevels
  <2>3. n \in Indexed(S) /\ CaParent[n] = Level(S)
    BY <1>1, <2>1, <2>2, IndexIsNodes, IndexIsNamed
  <2>. QED
    BY <1>1, <1>3, <2>3, IndexIsNamed DEF Listed, Named
<1>. QED
  BY <1>2, <1>3

(* What holds of the state a commit leaves holds of the next state.        *)
LEMMA NextIsSound ==
    ASSUME caScene' = caScene, NEW W, ca' = W, Sound(W), Resting(W)
    PROVE  (Sound(ca) /\ Resting(ca))'
<1>1. /\ \A l : KidSet(ca, l)' = KidSet(W, l)
      /\ InBase' = InBase
  BY DEF KidSet, PageOf, InBase
<1>2. Stored(ca)' = Stored(W) /\ Level(ca)' = Level(W) /\ Fields(ca)' = Fields(W)
  BY DEF Stored, Asks, Level, Fields
<1>3. Named(ca)' = Named(W) /\ Indexed(ca)' = Indexed(W)
  BY <1>1 DEF Named, Indexed
<1>4. Fetched(ca)' = Fetched(W)
  BY <1>3 DEF Fetched, Asks
<1>5. Place(ca)' = Place(W)
  BY <1>2, <1>3 DEF Place, Waiting
<1>6. Listed(ca, ca.hover)' = Listed(W, W.hover)
  BY <1>2, <1>3 DEF Listed, Searching
<1>. QED
  BY <1>2, <1>4, <1>5, <1>6 DEF Sound, Store, Resting

(* The effects of a commit, each in the state the one before it left.      *)
LEMMA CommitIsSound ==
    ASSUME caScene \in CaScenes, NEW S, Sound(S), S.open \/ S.held = CaIdle, Commit(S)
    PROVE  CaInv'
<1>1. PICK s1 : s1 = CloseEffect(S) /\
        \E s2 \in {LevelEffect(s1)} : \E s3 \in {SearchEffect(s2)} : \E s4 \in {ResolveEffect(s3)} :
          \E W \in {[Swapped(s4) EXCEPT !.window = Windowed(s4)]} :
            ca' = W /\ caShown' = Shown(W) /\ UNCHANGED caScene
  BY Zenon DEF Commit
<1>2. PICK s2 : s2 = LevelEffect(s1) /\
        \E s3 \in {SearchEffect(s2)} : \E s4 \in {ResolveEffect(s3)} :
          \E W \in {[Swapped(s4) EXCEPT !.window = Windowed(s4)]} :
            ca' = W /\ caShown' = Shown(W) /\ UNCHANGED caScene
  BY <1>1, Zenon
<1>3. PICK s3 : s3 = SearchEffect(s2) /\
        \E s4 \in {ResolveEffect(s3)} : \E W \in {[Swapped(s4) EXCEPT !.window = Windowed(s4)]} :
          ca' = W /\ caShown' = Shown(W) /\ UNCHANGED caScene
  BY <1>2, Zenon
<1>4. PICK s4, W : s4 = ResolveEffect(s3) /\ W = [Swapped(s4) EXCEPT !.window = Windowed(s4)]
                   /\ ca' = W /\ UNCHANGED caScene
  BY <1>3, Zenon
<1>5. Sound(s1) /\ Same(S, s1)
  BY <1>1, CloseKeeps, KeptIsSound
<1>6. Sound(s2) /\ Same(s1, s2)
  BY <1>2, <1>5, LevelIsSound
<1>7. Sound(s3) /\ Same(s2, s3)
  BY <1>3, <1>6, SearchEffectKeeps, KeptIsSound
<1>8. Sound(s4) /\ Same(s3, s4)
  BY <1>4, <1>7, ResolveKeeps, KeptIsSound
<1>9. /\ Alike(s4, W) /\ W.open = s4.open /\ W.query = s4.query
      /\ W.hover = CaNone \/ W.hover \in RowSet(s4)
  BY <1>4, <1>8 DEF Alike, Swapped, Sound, Fields, CaFields
<1>10. Sound(W)
  BY <1>8, <1>9, AlikeIsSound
<1>11. Resting(W)
  <2>. SUFFICES ASSUME ~W.crossed, caScene.mode # "tree", W.hover \in RowSet(s4)
                PROVE  Listed(W, W.hover)
    BY <1>9 DEF Resting
  <2>1. Listed(s4, W.hover)
    BY <1>8, <1>9, RowsAreListed DEF Alike
  <2>2. Indexed(W) = Indexed(s4)
    BY <1>9 DEF Alike, Indexed, KidSet, PageOf
  <2>. QED
    BY <1>9, <2>1, <2>2 DEF Listed, Searching, Level, Alike
<1>12. W.open \/ W.held = CaIdle
  BY <1>5, <1>6, <1>7, <1>8, <1>9 DEF Same, Alike
<1>13. caScene' = caScene
  BY <1>4
<1>. QED
  BY <1>4, <1>10, <1>11, <1>12, <1>13, NextIsSound DEF CaInv

LEMMA BecameIsSound ==
    ASSUME caScene \in CaScenes, NEW S, Sound(S), Became(S)
    PROVE  CaInv'
<1>1. PICK s1 : s1 = CloseEffect(S) /\ \E s2 \in {LevelEffect(s1)} :
        \E s3 \in {Landed(SearchEffect(s2))} : Commit(DropHeld(s3))
  BY Zenon DEF Became
<1>2. PICK s2 : s2 = LevelEffect(s1) /\ \E s3 \in {Landed(SearchEffect(s2))} : Commit(DropHeld(s3))
  BY <1>1, Zenon
<1>3. Commit(DropHeld(Landed(SearchEffect(s2))))
  BY <1>2, Zenon
<1>4. Sound(s1)
  BY <1>1, CloseKeeps, KeptIsSound
<1>5. Sound(s2)
  BY <1>2, <1>4, LevelIsSound
<1>6. Sound(SearchEffect(s2))
  BY <1>5, SearchEffectKeeps, KeptIsSound
<1>7. Sound(Landed(SearchEffect(s2)))
  BY <1>6, LandedIsSound
<1>. DEFINE T == DropHeld(Landed(SearchEffect(s2)))
<1>8. Sound(T) /\ (T.open \/ T.held = CaIdle)
  BY <1>7, DropIsSound
<1>. QED
  BY <1>3, <1>8, CommitIsSound

-----------------------------------------------------------------------------
(* The handlers                                                            *)

(* Committing a value leaves the path alone.                               *)
LEMMA CommitRowIsSound ==
    ASSUME NEW S, Sound(S), NEW n
    PROVE  Sound(CommitRow(S, n))
<1>. DEFINE on == n \notin S.selected
            next == IF caScene.cascade THEN Cascaded(S, n, on)
                    ELSE IF on THEN S.selected \cup {n} ELSE S.selected \ {n}
<1>1. Sound(Closed([S EXCEPT !.selected = {n}]))
  <2>1. Alike(S, Closed([S EXCEPT !.selected = {n}]))
    BY DEF Closed, Alike, Sound, Fields, CaFields
  <2>. QED
    BY <2>1, AlikeIsSound
<1>2. Sound(Notice(S)) /\ Sound(Emit(S, next)) /\ Sound(Notice(Emit(S, next)))
  <2>. HIDE DEF next
  <2>1. Alike(S, Notice(S)) /\ Alike(S, Emit(S, next)) /\ Alike(S, Notice(Emit(S, next)))
    BY DEF Notice, Emit, Alike, Sound, Fields, CaFields
  <2>. QED
    BY <2>1, AlikeIsSound
<1>3. \/ CommitRow(S, n) = Closed([S EXCEPT !.selected = {n}])
      \/ CommitRow(S, n) \in {Notice(S), Emit(S, next), Notice(Emit(S, next))}
  BY DEF CommitRow
<1>. QED
  BY <1>1, <1>2, <1>3

(* An act counted: the rows are still those of the list.                   *)
LEMMA SpentIsSound ==
    ASSUME CaInv
    PROVE  /\ Sound(Spent) /\ Alike(ca, Spent) /\ Fields(ca)
           /\ Spent.open = ca.open /\ Spent.query = ca.query /\ Spent.expanded = ca.expanded
           /\ caScene.mode # "tree" /\ ~ca.crossed =>
                \A n \in RowSet(ca) : Listed(Spent, n) /\ n \in Named(Spent)
<1>1. Fields(ca) /\ Sound(ca)
  BY DEF CaInv, Sound
<1>2. /\ Alike(ca, Spent) /\ Spent.open = ca.open /\ Spent.query = ca.query
      /\ Spent.expanded = ca.expanded
  BY <1>1 DEF Spent, Alike, Fields, CaFields
<1>3. Indexed(Spent) = Indexed(ca) /\ Named(Spent) = Named(ca)
  BY <1>2 DEF Alike, Indexed, KidSet, PageOf, Named
<1>4. ASSUME caScene.mode # "tree", ~ca.crossed, NEW n \in RowSet(ca)
      PROVE  Listed(Spent, n) /\ n \in Named(Spent)
  <2>1. Listed(ca, n) /\ n \in Named(ca)
    BY <1>1, <1>4, RowsAreListed DEF CaInv
  <2>. QED
    BY <1>2, <1>3, <2>1 DEF Listed, Searching, Level, Alike
<1>. QED
  BY <1>1, <1>2, <1>4, AlikeIsSound

(* revealSelected opens at the level of a value, along what the index      *)
(* knows.                                                                  *)
LEMMA OpenIsSound == ASSUME CaInv, Open PROVE CaInv'
<1>1. PICK first \in IF ca.selected = {} THEN {CaNone} ELSE ca.selected :
        LET chain == IF first = CaNone THEN <<>> ELSE PathOf(ca, first)
        IN  Became([Spent EXCEPT !.open = TRUE, !.query = "",
                                 !.path = IF chain = <<>> THEN chain ELSE Front(chain),
                                 !.crossed = @ \/ Cut(chain)])
  BY DEF Open
<1>. DEFINE chain == IF first = CaNone THEN <<>> ELSE PathOf(ca, first)
            T == [Spent EXCEPT !.open = TRUE, !.query = "",
                               !.path = IF chain = <<>> THEN chain ELSE Front(chain),
                               !.crossed = @ \/ Cut(chain)]
<1>2. ca.held = CaIdle /\ Sound(ca) /\ caScene \in CaScenes
  BY DEF Open, CaInv
<1>3. ASSUME ~ca.crossed, ~Cut(chain), chain # <<>>
      PROVE  /\ chain \in Seq(CaNodes) /\ IsTrail(chain)
             /\ caScene.mode # "tree" => ToSet(chain) \subseteq Named(ca)
  <2>1. Stored(ca) /\ (caScene.mode # "tree" => Fetched(ca))
    BY <1>2, <1>3 DEF Sound, Store
  <2>2. chain \in Seq(Indexed(ca)) /\ IsTrail(chain)
    BY <1>2, <1>3, <2>1, PathIsLinked
  <2>. HIDE DEF chain
  <2>3. Indexed(ca) \subseteq CaNodes /\ (caScene.mode # "tree" => Indexed(ca) \subseteq Named(ca))
    BY <1>2, <2>1, IndexIsNodes, IndexIsNamed DEF Named
  <2>. QED
    BY <2>2, <2>3 DEF ToSet
<1>. HIDE DEF chain
<1>4. /\ DOMAIN T = CaFields /\ T.held = CaIdle /\ T.crossed = (ca.crossed \/ Cut(chain))
      /\ T.known = ca.known /\ T.pages = ca.pages /\ T.detached = ca.detached
      /\ T.reqs = ca.reqs /\ T.search = ca.search /\ T.states = ca.states /\ T.warm = ca.warm
      /\ T.path = IF chain = <<>> THEN chain ELSE Front(chain)
  BY <1>2, SpentIsSound DEF Alike, CaFields
<1>. HIDE DEF T
<1>5. ~T.crossed => /\ T.path \in Seq(CaNodes) /\ IsTrail(T.path)
                    /\ caScene.mode # "tree" => ToSet(T.path) \subseteq Named(ca)
  <2>1. CASE chain = <<>>
    BY <1>4, <2>1 DEF IsTrail, ToSet
  <2>2. CASE chain # <<>>
    BY <1>3, <1>4, <2>2, FrontIsTrail
  <2>. QED
    BY <2>1, <2>2
<1>6. Sound(T)
  BY <1>2, <1>4, <1>5, PlacedIsSound
<1>. QED
  BY <1>1, <1>2, <1>6, BecameIsSound DEF T, chain

LEMMA PressRowIsSound ==
    ASSUME CaInv, NEW n \in RowSet(ca)
    PROVE  Sound(PressRow(Spent, n)) /\ Sound(Navigate(Spent, n))
<1>1. Sound(Spent) /\ Spent.crossed = ca.crossed /\ caScene \in CaScenes
  BY SpentIsSound DEF Alike, CaInv
<1>2. Sound(Navigate(Spent, n))
  BY <1>1, SpentIsSound, NavigateIsSound
<1>3. Sound(CommitRow(Spent, n))
  BY <1>1, CommitRowIsSound
<1>. QED
  BY <1>1, <1>2, <1>3 DEF PressRow

(* A row of a column behind the active one.                                *)
LEMMA PressTrailIsSound == ASSUME CaInv, PressTrail PROVE CaInv'
<1>0. PICK i \in DOMAIN ca.path :
        \E n \in KidSet(ca, IF i = 1 THEN CaRoot ELSE ca.path[i - 1]) :
          Became(NavigateAt(Spent, n, i - 1)) \/ Became(CommitRow(Spent, n))
  BY DEF PressTrail
<1>1. PICK n \in KidSet(ca, IF i = 1 THEN CaRoot ELSE ca.path[i - 1]) :
        Became(NavigateAt(Spent, n, i - 1)) \/ Became(CommitRow(Spent, n))
  BY <1>0
<1>2. Sound(Spent) /\ Alike(ca, Spent) /\ caScene \in CaScenes
  BY SpentIsSound DEF CaInv
<1>3. ~Spent.crossed /\ caScene.mode # "tree"
         => n \in Named(Spent) /\ Reaches(Spent, n, "at", i - 1)
  <2>. SUFFICES ASSUME ~Spent.crossed, caScene.mode # "tree"
                PROVE  n \in Named(Spent) /\ Reaches(Spent, n, "at", i - 1)
    OBVIOUS
  <2>1. Stored(Spent) /\ Fetched(Spent) /\ Spent.path \in Seq(CaNodes)
    BY <1>2 DEF Sound, Store, Place
  <2>. DEFINE l == IF i = 1 THEN CaRoot ELSE ca.path[i - 1]
  <2>2. i \in 1 .. Len(Spent.path) /\ Spent.path = ca.path /\ l \in CaLevels
    BY <1>2, <2>1 DEF Alike, CaLevels
  <2>3. KidSet(ca, l) = KidSet(Spent, l)
    BY <1>2 DEF Alike, KidSet, PageOf
  <2>. HIDE DEF l
  <2>4. n \in Indexed(Spent) /\ CaParent[n] = l
    BY <1>1, <1>2, <2>1, <2>2, <2>3, IndexIsNodes, IndexIsNamed DEF l
  <2>5. n \in CaNodes /\ n \in Named(Spent)
    BY <1>2, <2>1, <2>4, IndexIsNodes, IndexIsNamed DEF Named
  <2>. QED
    BY <2>1, <2>2, <2>4, <2>5 DEF Reaches, l
<1>4. Sound(NavigateAt(Spent, n, i - 1)) /\ Sound(CommitRow(Spent, n))
  BY <1>2, <1>3, NavigateAtIsSound, CommitRowIsSound
<1>. QED
  BY <1>1, <1>2, <1>4, BecameIsSound

(* A highlight names the row it will warm.                                 *)
LEMMA HighlightIsSound == ASSUME CaInv, Highlight PROVE CaInv'
<1>1. PICK n \in RowSet(ca) \ {ca.mark} :
        LET T == [Spent EXCEPT !.mark = n]
        IN  Became(IF caScene.loader /\ n \in CaBranches \ DOMAIN ca.states
                   THEN [T EXCEPT !.warm = n] ELSE T)
  BY DEF Highlight
<1>. DEFINE T == [Spent EXCEPT !.mark = n]
            U == [T EXCEPT !.warm = n]
<1>2. Sound(Spent) /\ Alike(ca, Spent) /\ caScene \in CaScenes
  BY SpentIsSound DEF CaInv
<1>3. Sound(T) /\ Alike(Spent, T)
  <2>1. Alike(Spent, T)
    BY <1>2 DEF Alike, CaFields
  <2>. QED
    BY <1>2, <2>1, AlikeIsSound
<1>4. Sound(U)
  <2>. HIDE DEF T
  <2>1. Touched(T, U) /\ U.states = T.states /\ U.warm = n /\ Fields(T)
    BY <1>3 DEF Touched, Sound, Fields, CaFields
  <2>2. ~T.crossed /\ caScene.mode # "tree" => n \in Named(T)
    BY <1>2, <1>3, SpentIsSound DEF Alike, Named
  <2>. HIDE DEF U
  <2>3. Same(T, U) /\ (~T.crossed /\ Store(T) => Store(U))
    BY <2>1, <2>2, TouchStores DEF Store, Fetched
  <2>. QED
    BY <1>3, <2>3, SameIsSound
<1>. QED
  BY <1>1, <1>2, <1>3, <1>4, BecameIsSound

LEMMA PrefetchIsSound == ASSUME CaInv, PrefetchFires PROVE CaInv'
<1>. DEFINE T == [ca EXCEPT !.warm = CaNone]
<1>1. Sound(ca) /\ caScene \in CaScenes
  BY DEF CaInv
<1>2. Touched(ca, T) /\ T.states = ca.states /\ T.warm = CaNone /\ Fields(ca)
  BY <1>1 DEF Touched, Sound, Fields, CaFields
<1>. HIDE DEF T
<1>3. Sound(T) /\ Same(ca, T)
  BY <1>1, <1>2, TouchStores, SameIsSound DEF Store, Fetched
<1>4. ~T.crossed /\ caScene.mode # "tree" => {ca.warm} \subseteq Named(T)
  BY <1>1, <1>3 DEF PrefetchFires, Sound, Store, Fetched, Same, Named
<1>5. Sound(EnsureLevels(T, {ca.warm}))
  BY <1>1, <1>3, <1>4, EnsureIsSound
<1>. QED
  BY <1>1, <1>5, BecameIsSound DEF PrefetchFires, EnsureLevel, T

(* The hover timer drills into a row that is still listed.                 *)
LEMMA HoverFiresIsSound == ASSUME CaInv, HoverFires PROVE CaInv'
<1>. DEFINE T == [ca EXCEPT !.hover = CaNone]
<1>1. Sound(ca) /\ Resting(ca) /\ caScene \in CaScenes /\ ca.hover # CaNone
  BY DEF CaInv, HoverFires
<1>2. Alike(ca, T) /\ T.query = ca.query
  BY <1>1 DEF Alike, Sound, Fields, CaFields
<1>. HIDE DEF T
<1>3. Indexed(T) = Indexed(ca)
  BY <1>2 DEF Alike, Indexed, KidSet, PageOf
<1>4. ~T.crossed /\ caScene.mode # "tree" => Listed(T, ca.hover)
  BY <1>1, <1>2, <1>3 DEF Resting, Listed, Searching, Level, Alike
<1>5. Sound(Navigate(T, ca.hover))
  BY <1>1, <1>2, <1>4, AlikeIsSound, NavigateIsSound
<1>. QED
  BY <1>1, <1>5, BecameIsSound DEF HoverFires, T

LEMMA UserIsSound ==
    ASSUME CaInv,
           Close \/ Press \/ Chevron \/ Expander \/ Back \/ Breadcrumb \/ Type \/ Hover
           \/ KeyForward \/ KeyBack \/ RemoveChip
    PROVE  CaInv'
<1>1. /\ Sound(ca) /\ caScene \in CaScenes /\ Sound(Spent) /\ Alike(ca, Spent) /\ Fields(ca)
      /\ DOMAIN Spent = CaFields
  BY SpentIsSound DEF CaInv, Alike
<1>2. CASE Close
  <2>1. Alike(Spent, Closed(Spent))
    BY <1>1 DEF Alike, Closed, CaFields
  <2>. QED
    BY <1>1, <1>2, <2>1, AlikeIsSound, BecameIsSound DEF Close
<1>3. CASE Press
  BY <1>1, <1>3, PressRowIsSound, BecameIsSound DEF Press
<1>4. CASE Chevron
  BY <1>1, <1>4, PressRowIsSound, BecameIsSound DEF Chevron
<1>5. CASE Expander
  <2>1. PICK n \in RowSet(ca) : Became(Toggled(Spent, n)) \/ Became(Navigate(Spent, n))
    BY <1>5 DEF Expander
  <2>2. Sound(Toggled(Spent, n)) /\ Sound(Navigate(Spent, n))
    BY <1>1, ToggledIsSound, PressRowIsSound
  <2>. QED
    BY <1>1, <2>1, <2>2, BecameIsSound
<1>6. CASE Back
  BY <1>1, <1>6, PopIsSound, BecameIsSound DEF Back
<1>7. CASE Breadcrumb
  <2>1. PICK d \in 1 .. Len(ca.path) - 1 : Became(GoToDepth(Spent, d))
    BY <1>7 DEF Breadcrumb
  <2>2. ~Spent.crossed => d \in Nat
    BY <1>1, <2>1 DEF Sound, Place, Alike
  <2>3. Sound(GoToDepth(Spent, d))
    BY <1>1, <2>2, GoToDepthIsSound
  <2>. QED
    BY <1>1, <2>1, <2>3, BecameIsSound
<1>8. CASE Type
  <2>1. PICK q : Became([Spent EXCEPT !.query = q])
    BY <1>8 DEF Type
  <2>2. Alike(Spent, [Spent EXCEPT !.query = q])
    BY <1>1 DEF Alike, CaFields
  <2>. QED
    BY <1>1, <2>1, <2>2, AlikeIsSound, BecameIsSound
<1>9. CASE Hover
  <2>1. PICK n : Became([Spent EXCEPT !.hover = n])
    BY <1>9 DEF Hover
  <2>2. Alike(Spent, [Spent EXCEPT !.hover = n])
    BY <1>1 DEF Alike, CaFields
  <2>. QED
    BY <1>1, <2>1, <2>2, AlikeIsSound, BecameIsSound
<1>10. ASSUME NEW n
       PROVE  Sound([Spent EXCEPT !.mark = n])
  <2>1. Alike(Spent, [Spent EXCEPT !.mark = n])
    BY <1>1 DEF Alike, CaFields
  <2>. QED
    BY <1>1, <2>1, AlikeIsSound
<1>11. CASE KeyForward
  <2>1. CASE caScene.mode = "tree"
    <3>1. Became(TreeForward(Spent, ca.mark))
      BY <1>11, <2>1 DEF KeyForward
    <3>2. Sound(Navigate(Spent, ca.mark))
      BY <1>1, <2>1, NavigateIsSound
    <3>3. Sound(TreeForward(Spent, ca.mark))
      BY <1>1, <1>10, <3>2 DEF TreeForward
    <3>. QED
      BY <1>1, <3>1, <3>3, BecameIsSound
  <2>2. CASE caScene.mode # "tree"
    <3>1. Became(Navigate(Spent, ca.mark)) /\ ca.mark \in RowSet(ca)
      BY <1>11, <2>2 DEF KeyForward
    <3>. QED
      BY <1>1, <3>1, PressRowIsSound, BecameIsSound
  <2>. QED
    BY <2>1, <2>2
<1>12. CASE KeyBack
  <2>1. Became(TreeBack(Spent, ca.mark)) \/ Became(PopLevel(Spent))
    BY <1>12 DEF KeyBack
  <2>2. Sound(TreeBack(Spent, ca.mark))
    BY <1>1, <1>10, ToggledIsSound DEF TreeBack
  <2>. QED
    BY <1>1, <2>1, <2>2, PopIsSound, BecameIsSound
<1>13. CASE RemoveChip
  <2>1. PICK n : Became([Spent EXCEPT !.selected =
                           IF caScene.cascade THEN Cascaded(ca, n, FALSE) ELSE @ \ {n}])
    BY <1>13 DEF RemoveChip
  <2>. DEFINE T == [Spent EXCEPT !.selected =
                      IF caScene.cascade THEN Cascaded(ca, n, FALSE) ELSE @ \ {n}]
  <2>2. Alike(Spent, T)
    BY <1>1 DEF Alike, CaFields
  <2>. QED
    BY <1>1, <2>1, <2>2, AlikeIsSound, BecameIsSound
<1>. QED
  BY <1>2, <1>3, <1>4, <1>5, <1>6, <1>7, <1>8, <1>9, <1>11, <1>12, <1>13

(* A new loadKey drops every request; the path stands only if the          *)
(* options name all of it.                                                 *)
LEMMA LoadKeyIsSound == ASSUME CaInv, LoadKey PROVE CaInv'
<1>. DEFINE A == AbortKey(Spent, LiveKeys(ca))
            lost == ~(ToSet(ca.path) \subseteq InBase)
            T == [A EXCEPT !.pages = <<>>, !.states = <<>>, !.detached = {}, !.known = {},
                           !.attempted = {}, !.latch = <<>>, !.search = NoSearch,
                           !.warm = CaNone, !.asked.lost = LosesSearch(ca),
                           !.crossed = @ \/ lost]
<1>1. Became(T) /\ caScene \in CaScenes
  BY DEF LoadKey, CaInv
<1>2. Sound(Spent) /\ Alike(ca, Spent) /\ Fields(Spent)
  BY SpentIsSound DEF Sound
<1>3. Sound(A) /\ Same(Spent, A)
  BY <1>2, AbortKeeps, KeptIsSound
<1>4. \A r \in A.reqs : ~r.live
  <2>1. \A r \in Spent.reqs : r.live => r.key \in LiveKeys(ca)
    BY <1>2 DEF LiveKeys, Alike
  <2>2. A.reqs = {[r EXCEPT !.live = @ /\ r.key \notin LiveKeys(ca)] : r \in Spent.reqs}
    BY <1>2 DEF AbortKey, Fields, CaFields
  <2>. QED
    BY <1>2, <2>1, <2>2 DEF Fields
<1>. HIDE DEF A, lost
<1>5. /\ DOMAIN T = CaFields /\ T.path = A.path /\ T.held = A.held
      /\ T.crossed = (A.crossed \/ lost)
      /\ T.known = {} /\ T.pages = <<>> /\ T.detached = {} /\ T.reqs = A.reqs
      /\ T.search = NoSearch /\ T.states = <<>> /\ T.warm = CaNone
  BY <1>3 DEF Same, Fields, CaFields
<1>. HIDE DEF T
<1>6. Fields(T)
  BY <1>3, <1>5 DEF Same, Fields, NoSearch
<1>7. ~T.crossed => Store(T)
  <2>. SUFFICES ASSUME ~T.crossed
                PROVE  Store(T)
    OBVIOUS
  <2>0. DOMAIN <<>> = {}
    OBVIOUS
  <2>1. DOMAIN T.pages = {} /\ DOMAIN T.states = {} /\ T.search.hits = {}
    <3>1. T.pages = <<>> /\ T.states = <<>>
      BY <1>5
    <3>2. T.search.hits = {}
      <4>1. T.search = NoSearch
        BY <1>5
      <4>2. NoSearch.hits = {}
        BY DEF NoSearch
      <4>. QED
        BY <4>1, <4>2, Zenon
    <3>. QED
      BY <2>0, <3>1, <3>2, Zenon
  <2>2. Stored(T)
    BY <1>3, <1>5, <2>1 DEF Sound, Store, Stored, Asks
  <2>3. Fetched(T)
    BY <1>4, <1>5, <2>1 DEF Fetched, Asks
  <2>. QED
    BY <2>2, <2>3 DEF Store
<1>8. ~T.crossed => Place(T)
  <2>. SUFFICES ASSUME ~T.crossed
                PROVE  Place(T)
    OBVIOUS
  <2>1. ToSet(T.path) \subseteq InBase
    BY <1>2, <1>3, <1>5 DEF lost, Same, Alike
  <2>. QED
    BY <1>3, <1>5, <2>1 DEF Sound, Place, Waiting, Level, Named
<1>9. Sound(T)
  BY <1>6, <1>7, <1>8 DEF Sound
<1>. QED
  BY <1>1, <1>9, BecameIsSound

LEMMA LoadsAreSound ==
    ASSUME CaInv, PressMore \/ RetryBody \/ Invalidate \/ SearchFires
    PROVE  CaInv'
<1>1. Sound(ca) /\ caScene \in CaScenes /\ Sound(Spent)
  BY SpentIsSound DEF CaInv
<1>2. ASSUME NEW l
      PROVE  /\ Sound(RetryLevel(Spent, l)) /\ Sound(LoadMore(Spent, l))
             /\ Sound(InvalidateLevel(Spent, l))
  BY <1>1, RetryKeeps, LoadMoreKeeps, InvalidateKeeps, KeptIsSound
<1>3. CASE PressMore
  <2>1. PICK l : \/ Became(RetryLevel(Spent, l)) \/ Became(LoadMore(Spent, l)) \/ Became(Spent)
    BY <1>3 DEF PressMore
  <2>. QED
    BY <1>1, <1>2, <2>1, BecameIsSound
<1>4. CASE RetryBody
  BY <1>1, <1>2, <1>4, BecameIsSound DEF RetryBody
<1>5. CASE Invalidate
  BY <1>1, <1>2, <1>5, BecameIsSound DEF Invalidate
<1>6. CASE SearchFires
  <2>1. Sound(RunSearch(ca))
    BY <1>1, RunSearchKeeps, KeptIsSound
  <2>. QED
    BY <1>1, <1>6, <2>1, BecameIsSound DEF SearchFires
<1>. QED
  BY <1>3, <1>4, <1>5, <1>6

LEMMA HeardIsSound ==
    ASSUME CaInv, NEW r \in ca.reqs
    PROVE  /\ Sound(Heard(r)) /\ Touched(ca, Heard(r)) /\ Fields(Heard(r))
           /\ Heard(r).states = ca.states
           /\ Named(Heard(r)) = Named(ca)
<1>. DEFINE T == Heard(r)
<1>1. Sound(ca) /\ Fields(ca)
  BY DEF CaInv, Sound
<1>2. Touched(ca, T) /\ T.states = ca.states /\ T.warm = ca.warm
  BY <1>1 DEF Heard, Touched, Fields, CaFields
<1>. HIDE DEF T
<1>3. Sound(T) /\ Same(ca, T)
  BY <1>1, <1>2, TouchStores, SameIsSound DEF Store, Fetched
<1>4. Named(T) = Named(ca)
  BY <1>2 DEF Touched, Named
<1>. QED
  BY <1>2, <1>3, <1>4 DEF Sound, T

LEMMA SearchAnsweredIsSound ==
    ASSUME CaInv, NEW r \in ca.reqs
    PROVE  Sound(SearchAnswered(r))
<1>. DEFINE S == Heard(r)
            T == SearchAnswered(r)
<1>1. Sound(S) /\ Fields(S)
  BY HeardIsSound
<1>. HIDE DEF S
<1>2. /\ DOMAIN T = CaFields /\ T.path = S.path /\ T.held = S.held /\ T.crossed = S.crossed
      /\ T.open = S.open /\ T.known = S.known \cup Hits(r.node) /\ T.pages = S.pages
      /\ T.detached = S.detached \cup Hits(r.node) /\ T.reqs = S.reqs
      /\ T.search = [NoSearch EXCEPT !.query = r.node, !.hits = Hits(r.node)]
      /\ T.states = S.states /\ T.warm = S.warm
  BY <1>1 DEF SearchAnswered, Fields, CaFields, S
<1>. HIDE DEF T
<1>3. /\ T.search.hits = Hits(r.node) /\ Hits(r.node) \subseteq CaNodes
      /\ DOMAIN T.search = {"query", "hits", "loading", "error"}
  BY <1>2 DEF NoSearch, Hits
<1>4. Same(S, T)
  BY <1>1, <1>2, <1>3 DEF Same, Fields
<1>5. Named(S) \subseteq Named(T)
  BY <1>2 DEF Named
<1>6. Store(S) => Store(T)
  BY <1>2, <1>3, <1>5 DEF Store, Stored, Fetched, Asks
<1>. QED
  BY <1>1, <1>4, <1>6, SameIsSound DEF T

(* A page arrives for the level that asked for it.                         *)
LEMMA LevelAnsweredIsSound ==
    ASSUME CaInv, NEW r \in ca.reqs, r.live, r.kind \notin {"search", "resolve"}
    PROVE  Sound(LevelAnswered(r))
<1>. DEFINE S == Heard(r)
            next == IF r.cursor + 1 < Len(CaPages[r.node]) THEN r.cursor + 1 ELSE 0
            page == IF r.cursor + 1 \in DOMAIN CaPages[r.node]
                    THEN CaPages[r.node][r.cursor + 1] ELSE <<>>
            T == WithPage(S, r, page, next)
<1>1. /\ Sound(S) /\ Fields(S) /\ Named(S) = Named(ca)
      /\ caScene \in CaScenes /\ S.crossed = ca.crossed
  BY HeardIsSound DEF CaInv, Touched
<1>. HIDE DEF S, next
<1>2. ASSUME ~ca.crossed
      PROVE  /\ page \in Seq(CaNodes)
             /\ caScene.mode # "tree" =>
                  r.key \in Named(S) /\ \A n \in ToSet(page) : CaParent[n] = r.key
  <2>1. r \in Asks(ca) /\ Store(ca)
    BY <1>2 DEF CaInv, Sound, Asks
  <2>2. r.node \in CaLevels /\ (caScene.mode # "tree" => r.node = r.key /\ r.key \in Named(ca))
    BY <2>1 DEF Store, Stored, Fetched
  <2>3. page \in Seq(CaNodes) /\ \A n \in ToSet(page) : CaParent[n] = r.node
    <3>1. CASE r.cursor + 1 \in DOMAIN CaPages[r.node]
      BY <2>2, <3>1, CaAssumption
    <3>2. CASE r.cursor + 1 \notin DOMAIN CaPages[r.node]
      BY <3>2 DEF ToSet
    <3>. QED
      BY <3>1, <3>2
  <2>. QED
    BY <1>1, <2>2, <2>3
<1>. HIDE DEF page
<1>3. Same(S, T) /\ (~S.crossed /\ Store(S) => Store(T))
  BY <1>1, <1>2, WithPageStores
<1>4. Sound(T)
  BY <1>1, <1>3, SameIsSound
<1>. QED
  BY <1>4 DEF LevelAnswered, S, page, next

LEMMA AnswersAreSound == ASSUME CaInv, Answers PROVE CaInv'
<1>1. PICK r \in ca.reqs :
        \/ ~r.live /\ Became(Heard(r))
        \/ r.live /\ r.kind = "search" /\ Became(SearchAnswered(r))
        \/ /\ r.live /\ r.kind = "resolve"
           /\ Became(WithChain(Heard(r), ChainOf(CaNodes, CaParent, r.node)))
        \/ r.live /\ r.kind \notin {"search", "resolve"} /\ Became(LevelAnswered(r))
  BY Zenon DEF Answers
<1>2. Sound(Heard(r)) /\ caScene \in CaScenes
  BY HeardIsSound DEF CaInv
<1>. DEFINE chain == ChainOf(CaNodes, CaParent, r.node)
<1>3. chain \in Seq(CaNodes)
  BY SourceChain
<1>. HIDE DEF chain
<1>4. Sound(WithChain(Heard(r), chain))
  BY <1>2, <1>3, WithChainKeeps, KeptIsSound
<1>. QED
  BY <1>1, <1>2, <1>4, SearchAnsweredIsSound, LevelAnsweredIsSound, BecameIsSound DEF chain

LEMMA FailsIsSound == ASSUME CaInv, Fails PROVE CaInv'
<1>1. PICK r \in ca.reqs : \E S \in {[Heard(r) EXCEPT !.fails = @ - 1]} :
         \/ r.kind = "resolve" /\ Became([S EXCEPT !.attempted = @ \ {r.node}])
         \/ r.kind # "resolve" /\ ~r.live /\ Became(S)
         \/ /\ r.kind = "search" /\ r.live
            /\ Became([S EXCEPT !.search = [@ EXCEPT !.query = r.node, !.loading = FALSE,
                                                     !.error = TRUE]])
         \/ /\ r.kind \notin {"search", "resolve"} /\ r.live
            /\ Became(WithState(S, r.key, [StateOf(S, r.key) EXCEPT !.loading = FALSE,
                                                                    !.error = TRUE]))
  BY Zenon DEF Fails
<1>. DEFINE S == [Heard(r) EXCEPT !.fails = @ - 1]
            A == [S EXCEPT !.attempted = @ \ {r.node}]
            B == [S EXCEPT !.search = [@ EXCEPT !.query = r.node, !.loading = FALSE,
                                                !.error = TRUE]]
            C == WithState(S, r.key, [StateOf(S, r.key) EXCEPT !.loading = FALSE, !.error = TRUE])
<1>2. /\ Sound(Heard(r)) /\ Fields(Heard(r)) /\ Named(Heard(r)) = Named(ca) /\ caScene \in CaScenes
      /\ Heard(r).crossed = ca.crossed
  BY HeardIsSound DEF CaInv, Touched
<1>3. Alike(Heard(r), S)
  BY <1>2 DEF Alike, Fields, CaFields
<1>4. Sound(S) /\ Fields(S) /\ Named(S) = Named(ca) /\ S.crossed = ca.crossed
  BY <1>2, <1>3, AlikeIsSound DEF Sound, Alike, Named
<1>. HIDE DEF S
<1>5. Sound(A)
  <2>1. Alike(S, A)
    BY <1>4 DEF Alike, Fields, CaFields
  <2>. QED
    BY <1>4, <2>1, AlikeIsSound
<1>6. Sound(B)
  <2>1. Touched(S, B) /\ B.states = S.states /\ B.warm = S.warm
    BY <1>4 DEF Touched, Fields, CaFields
  <2>. HIDE DEF B
  <2>. QED
    BY <1>4, <2>1, TouchStores, SameIsSound DEF Store, Fetched
<1>7. ASSUME r.kind \notin {"search", "resolve"}, r.live
      PROVE  Sound(C)
  <2>1. ~S.crossed /\ caScene.mode # "tree" => r.key \in Named(S)
    BY <1>4, <1>7 DEF CaInv, Sound, Store, Fetched, Asks
  <2>2. Same(S, C) /\ (~S.crossed /\ Store(S) => Store(C))
    BY <1>4, <2>1, WithStateStores
  <2>. QED
    BY <1>4, <2>2, SameIsSound
<1>8. \/ Became(A) \/ Became(S) \/ Became(B)
      \/ r.kind \notin {"search", "resolve"} /\ r.live /\ Became(C)
  BY <1>1, Zenon DEF S
<1>. HIDE DEF A, B, C
<1>. QED
  BY <1>2, <1>4, <1>5, <1>6, <1>7, <1>8, BecameIsSound

(* The open path is a path of the tree (cascader.tsx: navigate,            *)
(* pushLevel, popLevel, goToLevelAt, requestChildren; cascader-            *)
(* async.tsx): for any tree, any pages of it, any options, hits,           *)
(* failures and order of the answers, each level of the path is in the     *)
(* one before, unless the path was crossed.                                *)
THEOREM OpenPathIsATrail == CaSpec => []PathIsTrail
<1>1. CaInit => CaInv
  <2>. SUFFICES ASSUME CaInit
                PROVE  CaInv
    OBVIOUS
  <2>1. Fields(ca) /\ ca.path = <<>> /\ ca.held = CaIdle /\ ca.hover = CaNone /\ ca.reqs = {}
        /\ ca.pages = <<>> /\ ca.states = <<>> /\ ca.detached = {} /\ ca.known = {}
        /\ ca.search.hits = {} /\ ca.warm = CaNone
    BY DEF CaInit, Fields, CaFields, NoSearch
  <2>2. Store(ca)
    BY <2>1 DEF Store, Stored, Fetched, Asks
  <2>3. Place(ca)
    BY <2>1 DEF Place, IsTrail, Waiting, ToSet
  <2>. QED
    BY <2>1, <2>2, <2>3 DEF CaInit, CaInv, Sound, Resting
<1>2. CaInv /\ [CaNext]_caVars => CaInv'
  <2>. SUFFICES ASSUME CaInv, [CaNext]_caVars
                PROVE  CaInv'
    OBVIOUS
  <2>1. CASE CaUser
    BY <2>1, OpenIsSound, PressTrailIsSound, HighlightIsSound, UserIsSound, LoadKeyIsSound,
       LoadsAreSound DEF CaUser
  <2>2. CASE CaSystem
    BY <2>2, PrefetchIsSound, HoverFiresIsSound, LoadsAreSound, AnswersAreSound DEF CaSystem
  <2>3. CASE Fails
    BY <2>3, FailsIsSound
  <2>4. CASE UNCHANGED caVars
    <3>1. ca' = ca /\ caScene' = caScene
      BY <2>4 DEF caVars
    <3>2. Sound(ca) /\ Resting(ca) /\ caScene \in CaScenes /\ (ca.open \/ ca.held = CaIdle)
      BY DEF CaInv
    <3>3. (Sound(ca) /\ Resting(ca))'
      BY <3>1, <3>2, NextIsSound
    <3>. QED
      BY <3>1, <3>2, <3>3 DEF CaInv
  <2>. QED
    BY <2>1, <2>2, <2>3, <2>4 DEF CaNext
<1>3. CaInv => PathIsTrail
  BY DEF CaInv, Sound, Place, IsTrail, PathIsTrail
<1>. QED
  BY <1>1, <1>2, <1>3, PTL DEF CaSpec
=============================================================================
