------------------------- MODULE CjsonTreeOpsProofs -------------------------
(***************************************************************************)
(* What the operators that cjson.c is modelled with compute: the items     *)
(* that steps lead to, the items of a list, what linking, unlinking and    *)
(* deleting do to a forest of doubly linked lists, and what sequence of    *)
(* items the pointers of a list spell.  The provers have                   *)
(* no induction over an operator, so every induction here is a set of      *)
(* numbers, or of items, and its least element.                            *)
(***************************************************************************)
EXTENDS CjsonTree, FiniteSetTheorems, SequenceTheorems, WellFoundedInduction, TLAPS

(* A set of numbers has a least one. *)
LEMMA LeastNat ==
  ASSUME NEW S \in SUBSET Nat, S # {}
  PROVE  \E m \in S : \A n \in S : m <= n
<1> DEFINE R == OpToRel(<, Nat)
<1>1. IsWellFoundedOn(R, Nat)
  BY NatLessThanWellFounded
<1>2. \A x, y \in Nat : <<y, x>> \in R <=> y < x
  BY DEF OpToRel
<1>3. \E x \in S : \A y \in S : ~ (<<y, x>> \in R)
  <2> HIDE DEF R
  <2> QED
    BY <1>1, WFMin
<1>4. PICK x \in S : \A y \in S : ~ (<<y, x>> \in R)
  BY <1>3
<1> HIDE DEF R
<1>5. \A y \in S : ~ (y < x)
  BY <1>2, <1>4
<1> QED
  BY <1>5

(* A step g can be taken any number of times, from b. *)
Iterated(f, N, T, b, g) ==
  f \in [0 .. N -> T] /\ f[0] = b /\ \A n \in 1 .. N : f[n] = g[f[n - 1]]

LEMMA Iterates ==
  ASSUME NEW N \in Nat, NEW T, NEW b \in T, NEW g \in [T -> T]
  PROVE  \E f : Iterated(f, N, T, b, g)
<1> SUFFICES \E f \in [0 .. N -> T] : f[0] = b /\ \A n \in 1 .. N : f[n] = g[f[n - 1]]
  BY DEF Iterated
<1> DEFINE Good(m, f) == f[0] = b /\ \A n \in 1 .. m : f[n] = g[f[n - 1]]
           Bad == {m \in Nat : ~ \E f \in [0 .. m -> T] : Good(m, f)}
<1>1. SUFFICES ASSUME Bad # {} PROVE FALSE
  OBVIOUS
<1>2. PICK m \in Bad : \A n \in Bad : m <= n
  <2>1. Bad \in SUBSET Nat
    OBVIOUS
  <2> HIDE DEF Bad
  <2> QED
    BY <1>1, <2>1, LeastNat
<1>3. m # 0
  <2>1. [n \in 0 .. 0 |-> b] \in [0 .. 0 -> T] /\ Good(0, [n \in 0 .. 0 |-> b])
    OBVIOUS
  <2> HIDE DEF Good
  <2> QED
    BY <2>1
<1>4. m - 1 \in Nat /\ m - 1 \notin Bad
  <2>1. m \in Nat
    OBVIOUS
  <2> HIDE DEF Bad
  <2> QED
    BY <1>2, <1>3, <2>1
<1>5. PICK f \in [0 .. m - 1 -> T] : Good(m - 1, f)
  BY <1>4
<1> DEFINE e == [n \in 0 .. m |-> IF n = m THEN g[f[m - 1]] ELSE f[n]]
<1>6. e \in [0 .. m -> T]
  <2>1. ASSUME NEW n \in 0 .. m PROVE e[n] \in T
    <3>1. f[m - 1] \in T
      BY <1>4
    <3>2. n # m => n \in 0 .. m - 1
      BY <1>4
    <3> QED
      BY <3>1, <3>2
  <2> QED
    BY <2>1
<1>7. Good(m, e)
  <2>1. e[0] = b
    BY <1>3, <1>4, <1>5
  <2>2. ASSUME NEW n \in 1 .. m PROVE e[n] = g[e[n - 1]]
    <3>1. CASE n = m
      BY <1>4, <3>1
    <3>2. CASE n # m
      BY <1>4, <1>5, <3>2
    <3> QED
      BY <3>1, <3>2
  <2> QED
    BY <2>1, <2>2
<1> QED
  BY <1>2, <1>6, <1>7

LEMMA ItemsFinite ==
  /\ IsFiniteSet(Item) /\ MaxItems \in Nat
  /\ \A S \in SUBSET Item : IsFiniteSet(S) /\ Cardinality(S) \in Nat /\ Cardinality(S) <= MaxItems
BY TreeAssumption, FS_CardinalityType, FS_Subset DEF MaxItems
-----------------------------------------------------------------------------
(* Reached is the least set that contains From and is closed under Step:   *)
(* an item that is new at one distance is one more, and there are only so  *)
(* many.                                                                   *)
Nearer(Step, S) == S \cup UNION {Step[k] : k \in S}

LEMMA ReachedIterates ==
  ASSUME NEW From \in SUBSET Item, NEW Step \in [Item -> SUBSET Item]
  PROVE  \E w \in [0 .. MaxItems -> SUBSET Item] :
           /\ w[0] = From /\ \A n \in 1 .. MaxItems : w[n] = Nearer(Step, w[n - 1])
           /\ Reached(From, Step) = w[MaxItems]
<1> DEFINE g == [S \in SUBSET Item |-> Nearer(Step, S)]
<1>1. g \in [SUBSET Item -> SUBSET Item]
  BY DEF Nearer
<1>2. PICK f \in [0 .. MaxItems -> SUBSET Item] :
        f[0] = From /\ \A n \in 1 .. MaxItems : f[n] = g[f[n - 1]]
  <2> DEFINE T == SUBSET Item
  <2>1. From \in T /\ g \in [T -> T] /\ MaxItems \in Nat
    BY <1>1, ItemsFinite
  <2> HIDE DEF g, T
  <2>2. \E f : Iterated(f, MaxItems, T, From, g)
    BY <2>1, Iterates
  <2> QED
    BY <2>2 DEF T, Iterated
<1>3. \A n \in 1 .. MaxItems : f[n] = Nearer(Step, f[n - 1])
  <2>1. \A S \in SUBSET Item : g[S] = Nearer(Step, S)
    OBVIOUS
  <2> HIDE DEF g
  <2>2. \A n \in 1 .. MaxItems : n - 1 \in 0 .. MaxItems
    BY ItemsFinite
  <2> QED
    BY <1>2, <2>1, <2>2
<1> DEFINE Is(h) == h = [n \in 0 .. MaxItems |->
                           IF n = 0 THEN From
                           ELSE LET nearer == h[n - 1]
                                IN  nearer \cup UNION {Step[k] : k \in nearer}]
<1>4. Is(f)
  <2>1. ASSUME NEW n \in 0 .. MaxItems
        PROVE  f[n] = IF n = 0 THEN From ELSE f[n - 1] \cup UNION {Step[k] : k \in f[n - 1]}
    BY <1>2, <1>3, ItemsFinite DEF Nearer
  <2> QED
    BY <1>2, <2>1
<1> DEFINE w == CHOOSE h : Is(h)
<1>5. Is(w)
  <2> HIDE DEF Is
  <2> QED
    BY <1>4
<1>6. Reached(From, Step) = w[MaxItems]
  BY DEF Reached
<1> HIDE DEF w
<1>7. /\ w[0] = From
      /\ \A n \in 1 .. MaxItems : w[n] = Nearer(Step, w[n - 1])
  <2>1. w[0] = From
    BY <1>5, ItemsFinite
  <2>2. ASSUME NEW n \in 1 .. MaxItems
        PROVE  w[n] = Nearer(Step, w[n - 1])
    <3>1. n \in 0 .. MaxItems /\ n # 0
      BY ItemsFinite
    <3> QED
      BY <1>5, <3>1 DEF Nearer
  <2> QED
    BY <2>1, <2>2
<1>8. w = f
  <2> DEFINE Diff == {n \in 0 .. MaxItems : w[n] # f[n]}
  <2>1. SUFFICES ASSUME Diff # {} PROVE FALSE
    <3>1. w = [n \in 0 .. MaxItems |-> w[n]]
      BY <1>5
    <3> QED
      BY <3>1
  <2>2. PICK m \in Diff : \A n \in Diff : m <= n
    <3>1. Diff \in SUBSET Nat
      BY ItemsFinite
    <3> HIDE DEF Diff
    <3> QED
      BY <2>1, <3>1, LeastNat
  <2>3. m # 0
    BY <1>2, <1>7, <2>2
  <2>4. m - 1 \in 0 .. MaxItems /\ m \in 1 .. MaxItems /\ m - 1 \notin Diff
    BY <2>2, <2>3, ItemsFinite
  <2>5. w[m - 1] = f[m - 1]
    BY <2>4
  <2> QED
    BY <1>3, <1>7, <2>2, <2>4, <2>5
<1> QED
  BY <1>6, <1>7, <1>8

Closed(Step, S) == \A x \in S : Step[x] \subseteq S

LEMMA ReachedLeast ==
  ASSUME NEW From \in SUBSET Item, NEW Step \in [Item -> SUBSET Item],
         NEW S, From \subseteq S, Closed(Step, S)
  PROVE  Reached(From, Step) \subseteq S
<1>1. PICK w \in [0 .. MaxItems -> SUBSET Item] :
        /\ w[0] = From /\ \A n \in 1 .. MaxItems : w[n] = Nearer(Step, w[n - 1])
        /\ Reached(From, Step) = w[MaxItems]
  BY ReachedIterates
<1> DEFINE Bad == {n \in 0 .. MaxItems : ~ (w[n] \subseteq S)}
<1>2. SUFFICES ASSUME Bad # {} PROVE FALSE
  BY <1>1, ItemsFinite
<1>3. PICK m \in Bad : \A n \in Bad : m <= n
  <2>1. Bad \in SUBSET Nat
    BY ItemsFinite
  <2> HIDE DEF Bad
  <2> QED
    BY <1>2, <2>1, LeastNat
<1>4. m \in 1 .. MaxItems /\ m - 1 \in 0 .. MaxItems
  BY <1>1, <1>3, ItemsFinite
<1>5. w[m - 1] \subseteq S
  <2>1. m - 1 \notin Bad
    <3> HIDE DEF Bad
    <3> QED
      BY <1>3, <1>4, ItemsFinite
  <2> QED
    BY <1>4, <2>1
<1>6. w[m] \subseteq S
  <2>1. w[m] = w[m - 1] \cup UNION {Step[k] : k \in w[m - 1]}
    BY <1>1, <1>4 DEF Nearer
  <2> QED
    BY <1>5, <2>1 DEF Closed
<1> QED
  BY <1>3, <1>6

LEMMA ReachedClosed ==
  ASSUME NEW From \in SUBSET Item, NEW Step \in [Item -> SUBSET Item]
  PROVE  /\ Reached(From, Step) \in SUBSET Item /\ From \subseteq Reached(From, Step)
         /\ Closed(Step, Reached(From, Step))
<1>1. PICK w \in [0 .. MaxItems -> SUBSET Item] :
        /\ w[0] = From /\ \A n \in 1 .. MaxItems : w[n] = Nearer(Step, w[n - 1])
        /\ Reached(From, Step) = w[MaxItems]
  BY ReachedIterates
<1> DEFINE P(n) == Closed(Step, w[n]) \/ n + 1 <= Cardinality(w[n])
           Bad == {n \in 0 .. MaxItems : ~ (From \subseteq w[n] /\ P(n))}
<1>2. \A n \in 0 .. MaxItems : w[n] \in SUBSET Item /\ IsFiniteSet(w[n]) /\ Cardinality(w[n]) \in Nat
  BY ItemsFinite
<1>3. Bad = {}
  <2> SUFFICES ASSUME Bad # {} PROVE FALSE
    OBVIOUS
  <2>1. PICK m \in Bad : \A n \in Bad : m <= n
    <3>1. Bad \in SUBSET Nat
      BY ItemsFinite
    <3> HIDE DEF Bad
    <3> QED
      BY <3>1, LeastNat
  <2>2. m \in 0 .. MaxItems /\ ~ (From \subseteq w[m] /\ P(m))
    BY <2>1
  <2>3. CASE m = 0
    <3>1. CASE From = {}
      <4>1. Closed(Step, w[0])
        BY <1>1, <3>1 DEF Closed
      <4> QED
        BY <1>1, <2>2, <2>3, <4>1
    <3>2. CASE From # {}
      <4>1. Cardinality(From) # 0 /\ Cardinality(From) \in Nat
        BY <3>2, ItemsFinite, FS_EmptySet
      <4> QED
        BY <1>1, <2>2, <2>3, <4>1
    <3> QED
      BY <3>1, <3>2
  <2>4. CASE m # 0
    <3>1. m \in 1 .. MaxItems /\ m - 1 \in 0 .. MaxItems
      BY <2>2, <2>4, ItemsFinite
    <3>2. m - 1 \notin Bad
      <4> HIDE DEF Bad
      <4> QED
        BY <2>1, <2>2, <3>1, ItemsFinite
    <3>3. From \subseteq w[m - 1] /\ P(m - 1)
      BY <3>1, <3>2
    <3>4. w[m] = w[m - 1] \cup UNION {Step[k] : k \in w[m - 1]}
      BY <1>1, <3>1 DEF Nearer
    <3>5. CASE Closed(Step, w[m - 1])
      <4>1. w[m] = w[m - 1]
        BY <3>4, <3>5 DEF Closed
      <4> QED
        BY <2>2, <3>3, <3>5, <4>1
    <3>6. CASE ~Closed(Step, w[m - 1])
      <4>1. PICK k \in w[m - 1] : ~ (Step[k] \subseteq w[m - 1])
        BY <3>6 DEF Closed
      <4>2. PICK x \in Step[k] : x \notin w[m - 1]
        BY <4>1
      <4>3. w[m - 1] \cup {x} \subseteq w[m]
        BY <3>4, <4>1, <4>2
      <4>4. Cardinality(w[m - 1] \cup {x}) = Cardinality(w[m - 1]) + 1
        <5> DEFINE W == w[m - 1]
        <5>1. IsFiniteSet(W) /\ x \notin W
          BY <1>2, <3>1, <4>2
        <5> HIDE DEF W
        <5>2. Cardinality(W \cup {x}) = Cardinality(W) + 1
          BY <5>1, FS_AddElement
        <5> QED
          BY <5>2 DEF W
      <4>5. Cardinality(w[m - 1] \cup {x}) <= Cardinality(w[m])
        BY <1>2, <2>2, <4>3, FS_Subset
      <4>6. (m - 1) + 1 <= Cardinality(w[m - 1])
        BY <3>3, <3>6
      <4>7. Cardinality(w[m - 1]) \in Nat /\ Cardinality(w[m]) \in Nat
        BY <1>2, <2>2, <3>1
      <4>8. m + 1 <= Cardinality(w[m])
        <5>1. m \in Nat
          BY <2>2, ItemsFinite
        <5> QED
          BY <4>4, <4>5, <4>6, <4>7, <5>1
      <4> QED
        BY <2>2, <3>3, <3>4, <4>8
    <3> QED
      BY <3>5, <3>6
  <2> QED
    BY <2>3, <2>4
<1>4. From \subseteq w[MaxItems] /\ P(MaxItems)
  BY <1>3, ItemsFinite
<1>5. Closed(Step, w[MaxItems])
  BY <1>2, <1>4, ItemsFinite
<1> QED
  BY <1>1, <1>2, <1>4, <1>5, ItemsFinite

(* What is reached and was not there from the start is a step away. *)
LEMMA ReachedFrom ==
  ASSUME NEW From \in SUBSET Item, NEW Step \in [Item -> SUBSET Item],
         NEW x \in Reached(From, Step), x \notin From
  PROVE  \E y \in Reached(From, Step) : x \in Step[y]
<1> DEFINE R == Reached(From, Step)
<1> SUFFICES ASSUME \A y \in R : x \notin Step[y] PROVE FALSE
  OBVIOUS
<1>1. R \in SUBSET Item /\ From \subseteq R /\ Closed(Step, R)
  BY ReachedClosed
<1>2. Closed(Step, R \ {x})
  <2> HIDE DEF R
  <2> QED
    BY <1>1 DEF Closed
<1>3. From \subseteq R \ {x}
  <2> HIDE DEF R
  <2> QED
    BY <1>1
<1>4. R \subseteq R \ {x}
  BY <1>2, <1>3, ReachedLeast
<1> QED
  BY <1>4

-----------------------------------------------------------------------------
(* The heap as a graph: N is the next item, P the one before, K the first  *)
(* member that is owned, R the items the application holds and up the      *)
(* owner of the list an item is in.  Par is where cJSON_Delete comes from. *)
Par(P, up, j) == IF P[j] # NULL THEN P[j] ELSE up[j]

Pointers == [Item -> Item \cup {NULL}]

Node(L, N, P, K, R, up, i) ==
  /\ N[i] # NULL => N[i] \in L /\ P[N[i]] = i /\ up[N[i]] = up[i]
  /\ P[i] # NULL => P[i] \in L /\ N[P[i]] = i
  /\ K[i] # NULL => K[i] \in L /\ P[K[i]] = NULL /\ up[K[i]] = i
  /\ i \in R => P[i] = NULL /\ up[i] = NULL
  /\ P[i] = NULL /\ i \notin R => up[i] \in L /\ K[up[i]] = i

(* No circle: of any items one comes from elsewhere. *)
Rooted(L, P, up) == \A X \in SUBSET L : X # {} => \E x \in X : Par(P, up, x) \notin X

Graph(L, N, P, K, R, up) ==
  /\ L \in SUBSET Item /\ R \in SUBSET L
  /\ N \in Pointers /\ P \in Pointers /\ K \in Pointers /\ up \in Pointers
  /\ \A i \in L : Node(L, N, P, K, R, up, i)
  /\ Rooted(L, P, up)

(* T is all that hangs from k, S is the list that starts at k. *)
Tree(N, P, K, up, k, T) ==
  /\ k \in T
  /\ \A x \in T : /\ N[x] # NULL => N[x] \in T
                  /\ K[x] # NULL => K[x] \in T
                  /\ x # k => Par(P, up, x) \in T

List(N, P, up, k, S) ==
  /\ k \in S
  /\ \A x \in S : /\ N[x] # NULL => N[x] \in S
                  /\ x # k => P[x] # NULL /\ P[x] \in S
                  /\ up[x] = up[k]

LEMMA NoItem == NULL \notin Item
BY TreeAssumption

(* Whatever comes from a tree is in it. *)
LEMMA TreeDown ==
  ASSUME NEW L, NEW N, NEW P, NEW K, NEW R, NEW up, Graph(L, N, P, K, R, up),
         NEW k, NEW T \in SUBSET L, Tree(N, P, K, up, k, T),
         NEW x \in L, Par(P, up, x) \in T
  PROVE  x \in T
<1>1. Node(L, N, P, K, R, up, x)
  BY DEF Graph
<1>2. NULL \notin L
  BY NoItem DEF Graph
<1>3. CASE P[x] # NULL
  BY <1>1, <1>2, <1>3 DEF Node, Par, Tree
<1>4. CASE P[x] = NULL
  BY <1>1, <1>2, <1>4 DEF Node, Par, Tree
<1> QED
  BY <1>3, <1>4

(* The owner of a list is live, and not empty. *)
LEMMA UpLive ==
  ASSUME NEW L, NEW N, NEW P, NEW K, NEW R, NEW up, Graph(L, N, P, K, R, up),
         NEW x \in L, up[x] # NULL
  PROVE  up[x] \in L /\ K[up[x]] # NULL
<1> DEFINE X == {y \in L : up[y] # NULL /\ ~ (up[y] \in L /\ K[up[y]] # NULL)}
<1> SUFFICES ASSUME X # {} PROVE FALSE
  OBVIOUS
<1>1. PICK y \in X : Par(P, up, y) \notin X
  <2>1. X \in SUBSET L
    OBVIOUS
  <2> HIDE DEF X
  <2> QED
    BY <2>1 DEF Graph, Rooted
<1>2. Node(L, N, P, K, R, up, y) /\ y \in L
  BY DEF Graph
<1>3. NULL \notin L
  BY NoItem DEF Graph
<1>4. CASE P[y] # NULL
  <2>1. P[y] \in L /\ N[P[y]] = y
    BY <1>2, <1>4 DEF Node
  <2>2. Node(L, N, P, K, R, up, P[y])
    BY <2>1 DEF Graph
  <2>3. up[P[y]] = up[y]
    BY <1>2, <1>3, <2>1, <2>2 DEF Node
  <2>4. Par(P, up, y) = P[y]
    BY <1>4 DEF Par
  <2> QED
    BY <1>1, <2>1, <2>3, <2>4
<1>5. CASE P[y] = NULL
  BY <1>2, <1>3, <1>5 DEF Node
<1> QED
  BY <1>4, <1>5

(* A list at the application has no owner's members outside it. *)
LEMMA ListOutside ==
  ASSUME NEW L, NEW N, NEW P, NEW K, NEW R, NEW up, Graph(L, N, P, K, R, up),
         NEW k, NEW T \in SUBSET L, Tree(N, P, K, up, k, T),
         NEW x \in L, up[x] \in T
  PROVE  x \in T
<1> DEFINE X == {y \in L : up[y] \in T /\ y \notin T}
<1> SUFFICES ASSUME X # {} PROVE FALSE
  OBVIOUS
<1>1. PICK y \in X : Par(P, up, y) \notin X
  <2>1. X \in SUBSET L
    OBVIOUS
  <2> HIDE DEF X
  <2> QED
    BY <2>1 DEF Graph, Rooted
<1>2. Node(L, N, P, K, R, up, y) /\ y \in L
  BY DEF Graph
<1>3. NULL \notin L
  BY NoItem DEF Graph
<1>4. CASE P[y] # NULL
  <2>1. P[y] \in L /\ N[P[y]] = y
    BY <1>2, <1>4 DEF Node
  <2>2. Node(L, N, P, K, R, up, P[y])
    BY <2>1 DEF Graph
  <2>3. up[P[y]] = up[y]
    BY <1>2, <1>3, <2>1, <2>2 DEF Node
  <2>4. Par(P, up, y) = P[y]
    BY <1>4 DEF Par
  <2>5. P[y] \in T
    BY <1>1, <2>1, <2>3, <2>4
  <2> QED
    BY <2>4, <2>5, TreeDown
<1>5. CASE P[y] = NULL
  <2>1. Par(P, up, y) \in T
    BY <1>5 DEF Par
  <2> QED
    BY <2>1, TreeDown
<1> QED
  BY <1>4, <1>5

(* Nor has a member inside it an owner outside.                            *)
LEMMA OwnerInside ==
  ASSUME NEW L, NEW N, NEW P, NEW K, NEW R, NEW up, Graph(L, N, P, K, R, up),
         NEW k \in R, NEW T \in SUBSET L, Tree(N, P, K, up, k, T),
         NEW x \in T, up[x] # NULL
  PROVE  up[x] \in T
<1> DEFINE X == {y \in T : up[y] = up[x]}
<1> SUFFICES ASSUME up[x] \notin T PROVE FALSE
  OBVIOUS
<1>1. PICK y \in X : Par(P, up, y) \notin X
  <2>1. X \in SUBSET L /\ X # {}
    OBVIOUS
  <2> HIDE DEF X
  <2> QED
    BY <2>1 DEF Graph, Rooted
<1>2. Node(L, N, P, K, R, up, y) /\ y \in L /\ Node(L, N, P, K, R, up, k) /\ k \in L
  BY DEF Graph
<1>3. NULL \notin L
  BY NoItem DEF Graph
<1>4. y # k
  BY <1>1, <1>2 DEF Node
<1>5. Par(P, up, y) \in T
  BY <1>1, <1>4 DEF Tree
<1>6. P[y] # NULL /\ Par(P, up, y) = P[y]
  BY <1>1, <1>5 DEF Par
<1>7. P[y] \in L /\ N[P[y]] = y
  BY <1>2, <1>6 DEF Node
<1>8. Node(L, N, P, K, R, up, P[y])
  BY <1>7 DEF Graph
<1>9. up[P[y]] = up[y]
  BY <1>2, <1>3, <1>7, <1>8 DEF Node
<1> QED
  BY <1>1, <1>5, <1>6, <1>9

(* When what hangs from k goes elsewhere, before an item or after one,     *)
(* there is still no circle, unless it goes to itself.                     *)
LEMMA Rerooted ==
  ASSUME NEW L \in SUBSET Item, NEW P, NEW up, Rooted(L, P, up),
         NEW P2, NEW up2, NEW T \in SUBSET L, NEW k \in T,
         \A x \in L \ T : /\ Par(P, up, x) \notin T
                          /\ \/ Par(P2, up2, x) = Par(P, up, x)
                             \/ Par(P2, up2, x) = k /\ Par(P, up, x) = Par(P2, up2, k),
         \A x \in T : x # k => Par(P2, up2, x) = Par(P, up, x),
         Par(P2, up2, k) \notin T
  PROVE  Rooted(L, P2, up2)
<1> SUFFICES ASSUME NEW X \in SUBSET L, X # {}, \A x \in X : Par(P2, up2, x) \in X PROVE FALSE
  BY DEF Rooted
<1>1. CASE X \ T = {}
  <2>1. \E x \in X : Par(P, up, x) \notin X
    BY DEF Rooted
  <2>2. PICK x \in X : Par(P, up, x) \notin X
    BY <2>1
  <2>3. x = k
    BY <1>1, <2>2
  <2> QED
    BY <1>1, <2>3
<1>2. CASE X \ T # {}
  <2> DEFINE Z == X \ T
  <2>1. PICK z \in Z : Par(P, up, z) \notin Z
    <3>1. Z \in SUBSET L /\ Z # {}
      BY <1>2
    <3> HIDE DEF Z
    <3> QED
      BY <3>1 DEF Rooted
  <2>2. z \in L \ T /\ z \in X
    OBVIOUS
  <2>3. Par(P2, up2, z) # Par(P, up, z)
    BY <2>1, <2>2
  <2>4. Par(P2, up2, z) = k /\ Par(P, up, z) = Par(P2, up2, k)
    BY <2>2, <2>3
  <2>5. k \in X
    BY <2>2, <2>4
  <2>6. Par(P, up, z) \in X
    BY <2>4, <2>5
  <2> QED
    BY <2>1, <2>2, <2>6
<1> QED
  BY <1>1, <1>2

(* The list that starts at k comes behind q, which had none behind it.     *)
LEMMA GraphAppend ==
  ASSUME NEW L, NEW N, NEW P, NEW K, NEW R, NEW up, Graph(L, N, P, K, R, up),
         NEW k \in R, NEW T \in SUBSET L, Tree(N, P, K, up, k, T),
         NEW S \in SUBSET T, List(N, P, up, k, S),
         NEW q \in L, N[q] = NULL, q \notin T,
         NEW N2 \in Pointers, \A j \in Item : N2[j] = IF j = q THEN k ELSE N[j],
         NEW P2 \in Pointers, \A j \in Item : P2[j] = IF j = k THEN q ELSE P[j],
         NEW up2 \in Pointers, \A j \in Item : up2[j] = IF j \in S THEN up[q] ELSE up[j]
  PROVE  Graph(L, N2, P2, K, R \ {k}, up2)
<1>1. L \in SUBSET Item /\ R \in SUBSET L /\ NULL \notin Item
  BY NoItem DEF Graph
<1>2. k \in L /\ k \in T /\ P[k] = NULL /\ up[k] = NULL /\ k # q
  BY <1>1 DEF Graph, Node, Tree
<1>3. Rooted(L, P2, up2)
  <2>1. ASSUME NEW x \in L \ T
        PROVE  Par(P, up, x) \notin T /\ Par(P2, up2, x) = Par(P, up, x)
    BY <1>1, <1>2, TreeDown DEF Par
  <2>2. ASSUME NEW x \in T, x # k PROVE Par(P2, up2, x) = Par(P, up, x)
    BY <1>1, <2>2 DEF Par, List
  <2>3. Par(P2, up2, k) \notin T
    BY <1>1, <1>2 DEF Par
  <2>4. Rooted(L, P, up)
    BY DEF Graph
  <2> QED
    BY <1>1, <1>2, <2>1, <2>2, <2>3, <2>4, Rerooted
<1>4. ASSUME NEW i \in L PROVE Node(L, N2, P2, K, R \ {k}, up2, i)
  <2>1. Node(L, N, P, K, R, up, i)
    BY DEF Graph
  <2>2. i \in Item
    BY <1>1
  <2>3. ASSUME N2[i] # NULL PROVE N2[i] \in L /\ P2[N2[i]] = i /\ up2[N2[i]] = up2[i]
    <3>1. CASE i = q
      BY <1>1, <1>2, <2>2, <3>1 DEF List
    <3>2. CASE i # q
      <4>1. N2[i] = N[i] /\ N[i] \in L /\ P[N[i]] = i /\ up[N[i]] = up[i]
        BY <2>1, <2>2, <2>3, <3>2 DEF Node
      <4>2. N[i] # k
        BY <1>1, <1>2, <4>1
      <4>3. N[i] \in S <=> i \in S
        BY <1>1, <2>2, <4>1, <4>2 DEF List
      <4> QED
        BY <1>1, <2>2, <4>1, <4>2, <4>3
    <3> QED
      BY <3>1, <3>2
  <2>4. ASSUME P2[i] # NULL PROVE P2[i] \in L /\ N2[P2[i]] = i
    BY <1>1, <1>2, <2>1, <2>2, <2>4 DEF Node
  <2>5. ASSUME K[i] # NULL PROVE K[i] \in L /\ P2[K[i]] = NULL /\ up2[K[i]] = i
    <3>1. K[i] \in L /\ P[K[i]] = NULL /\ up[K[i]] = i
      BY <2>1, <2>5 DEF Node
    <3>2. K[i] # k /\ K[i] \notin S
      BY <1>1, <1>2, <3>1 DEF List
    <3> QED
      BY <1>1, <3>1, <3>2
  <2>6. ASSUME i \in R \ {k} PROVE P2[i] = NULL /\ up2[i] = NULL
    <3>1. P[i] = NULL /\ up[i] = NULL /\ i \notin S
      BY <2>1, <2>6 DEF Node, List
    <3> QED
      BY <2>2, <2>6, <3>1
  <2>7. ASSUME P2[i] = NULL, i \notin R \ {k} PROVE up2[i] \in L /\ K[up2[i]] = i
    <3>1. i # k /\ P[i] = NULL
      BY <1>1, <1>2, <2>2, <2>7
    <3>2. i \notin S
      BY <3>1 DEF List
    <3> QED
      BY <2>1, <2>2, <2>7, <3>1, <3>2 DEF Node
  <2> QED
    BY <2>3, <2>4, <2>5, <2>6, <2>7 DEF Node
<1> QED
  BY <1>1, <1>3, <1>4 DEF Graph

(* The list that starts at k becomes that of p, which had none.            *)
LEMMA GraphAttach ==
  ASSUME NEW L, NEW N, NEW P, NEW K, NEW R, NEW up, Graph(L, N, P, K, R, up),
         NEW k \in R, NEW T \in SUBSET L, Tree(N, P, K, up, k, T),
         NEW S \in SUBSET T, List(N, P, up, k, S),
         NEW p \in L, K[p] = NULL, p \notin T,
         NEW K2 \in Pointers, \A j \in Item : K2[j] = IF j = p THEN k ELSE K[j],
         NEW up2 \in Pointers, \A j \in Item : up2[j] = IF j \in S THEN p ELSE up[j]
  PROVE  Graph(L, N, P, K2, R \ {k}, up2)
<1>1. L \in SUBSET Item /\ R \in SUBSET L /\ NULL \notin Item
  BY NoItem DEF Graph
<1>2. k \in L /\ k \in T /\ P[k] = NULL /\ up[k] = NULL /\ k # p /\ k \in S
  BY <1>1 DEF Graph, Node, Tree, List
<1>3. Rooted(L, P, up2)
  <2>1. ASSUME NEW x \in L \ T
        PROVE  Par(P, up, x) \notin T /\ Par(P, up2, x) = Par(P, up, x)
    BY <1>1, <1>2, TreeDown DEF Par
  <2>2. ASSUME NEW x \in T, x # k PROVE Par(P, up2, x) = Par(P, up, x)
    BY <1>1, <2>2 DEF Par, List
  <2>3. Par(P, up2, k) \notin T
    BY <1>1, <1>2 DEF Par
  <2>4. Rooted(L, P, up)
    BY DEF Graph
  <2> QED
    BY <1>1, <1>2, <2>1, <2>2, <2>3, <2>4, Rerooted
<1>4. ASSUME NEW i \in L PROVE Node(L, N, P, K2, R \ {k}, up2, i)
  <2>1. Node(L, N, P, K, R, up, i)
    BY DEF Graph
  <2>2. i \in Item
    BY <1>1
  <2>3. ASSUME N[i] # NULL PROVE N[i] \in L /\ P[N[i]] = i /\ up2[N[i]] = up2[i]
    <3>1. N[i] \in L /\ P[N[i]] = i /\ up[N[i]] = up[i]
      BY <2>1, <2>3 DEF Node
    <3>2. N[i] # k
      BY <1>1, <1>2, <3>1
    <3>3. N[i] \in S <=> i \in S
      BY <1>1, <2>2, <3>1, <3>2 DEF List
    <3> QED
      BY <1>1, <2>2, <3>1, <3>3
  <2>4. P[i] # NULL => P[i] \in L /\ N[P[i]] = i
    BY <2>1 DEF Node
  <2>5. ASSUME K2[i] # NULL PROVE K2[i] \in L /\ P[K2[i]] = NULL /\ up2[K2[i]] = i
    <3>1. CASE i = p
      BY <1>1, <1>2, <2>2, <3>1
    <3>2. CASE i # p
      <4>1. K2[i] = K[i] /\ K[i] \in L /\ P[K[i]] = NULL /\ up[K[i]] = i
        BY <2>1, <2>2, <2>5, <3>2 DEF Node
      <4>2. K[i] \notin S
        BY <1>1, <1>2, <2>2, <4>1 DEF List
      <4> QED
        BY <1>1, <4>1, <4>2
    <3> QED
      BY <3>1, <3>2
  <2>6. ASSUME i \in R \ {k} PROVE P[i] = NULL /\ up2[i] = NULL
    <3>1. P[i] = NULL /\ up[i] = NULL /\ i \notin S
      BY <2>1, <2>6 DEF Node, List
    <3> QED
      BY <2>2, <2>6, <3>1
  <2>7. ASSUME P[i] = NULL, i \notin R \ {k} PROVE up2[i] \in L /\ K2[up2[i]] = i
    <3>1. CASE i = k
      BY <1>1, <1>2, <3>1
    <3>2. CASE i # k
      <4>1. i \notin S
        BY <2>7, <3>2 DEF List
      <4>2. up2[i] = up[i] /\ up[i] \in L /\ K[up[i]] = i
        BY <2>1, <2>2, <2>7, <3>2, <4>1 DEF Node
      <4>3. up[i] # p
        BY <1>1, <4>2
      <4> QED
        BY <1>1, <4>2, <4>3
    <3> QED
      BY <3>1, <3>2
  <2> QED
    BY <2>3, <2>4, <2>5, <2>6, <2>7 DEF Node
<1> QED
  BY <1>1, <1>3, <1>4 DEF Graph

(* The item i comes right before a.                                        *)
LEMMA GraphInsert ==
  ASSUME NEW L, NEW N, NEW P, NEW K, NEW R, NEW up, Graph(L, N, P, K, R, up),
         NEW k \in R, N[k] = NULL, NEW T \in SUBSET L, Tree(N, P, K, up, k, T),
         NEW a \in L, a \notin T, a \notin R,
         NEW N2 \in Pointers,
         \A j \in Item : N2[j] = IF j = k THEN a ELSE IF j = P[a] THEN k ELSE N[j],
         NEW P2 \in Pointers,
         \A j \in Item : P2[j] = IF j = k THEN P[a] ELSE IF j = a THEN k ELSE P[j],
         NEW K2 \in Pointers,
         \A j \in Item : K2[j] = IF P[a] = NULL /\ j = up[a] THEN k ELSE K[j],
         NEW up2 \in Pointers, \A j \in Item : up2[j] = IF j = k THEN up[a] ELSE up[j]
  PROVE  Graph(L, N2, P2, K2, R \ {k}, up2)
<1>1. L \in SUBSET Item /\ R \in SUBSET L /\ NULL \notin Item
  BY NoItem DEF Graph
<1>2. k \in L /\ k \in T /\ P[k] = NULL /\ up[k] = NULL /\ k # a
  BY <1>1 DEF Graph, Node, Tree
<1>3. /\ P[a] # NULL => P[a] \in L /\ N[P[a]] = a
      /\ P[a] = NULL => up[a] \in L /\ K[up[a]] = a
      /\ N[a] # NULL => N[a] \in L /\ P[N[a]] = a /\ up[N[a]] = up[a]
  BY DEF Graph, Node
<1>4. P[a] # NULL => up[P[a]] = up[a] /\ P[a] # k /\ P[a] # a
  <2> SUFFICES ASSUME P[a] # NULL PROVE up[P[a]] = up[a] /\ P[a] # k /\ P[a] # a
    OBVIOUS
  <2>1. Node(L, N, P, K, R, up, P[a])
    BY <1>3 DEF Graph
  <2>2. up[P[a]] = up[a] /\ P[a] # k
    BY <1>1, <1>2, <1>3, <2>1 DEF Node
  <2>3. Rooted(L, P, up) /\ {a} \in SUBSET L
    BY DEF Graph
  <2>4. Par(P, up, a) \notin {a}
    BY <2>3 DEF Rooted
  <2> QED
    BY <2>2, <2>4 DEF Par
<1>5. Rooted(L, P2, up2)
  <2>1. ASSUME NEW x \in L \ T PROVE Par(P, up, x) \notin T
    BY <1>1, TreeDown
  <2>2. Par(P2, up2, k) = Par(P, up, a)
    BY <1>1, <1>2 DEF Par
  <2>3. Par(P2, up2, a) = k
    BY <1>1, <1>2 DEF Par
  <2>4. ASSUME NEW x \in L, x # k, x # a PROVE Par(P2, up2, x) = Par(P, up, x)
    BY <1>1, <2>4 DEF Par
  <2>5. Rooted(L, P, up)
    BY DEF Graph
  <2>6. \A x \in L \ T : /\ Par(P, up, x) \notin T
                         /\ \/ Par(P2, up2, x) = Par(P, up, x)
                            \/ Par(P2, up2, x) = k /\ Par(P, up, x) = Par(P2, up2, k)
    BY <1>2, <2>1, <2>2, <2>3, <2>4
  <2>7. \A x \in T : x # k => Par(P2, up2, x) = Par(P, up, x)
    BY <2>4
  <2>8. Par(P2, up2, k) \notin T
    BY <2>1, <2>2
  <2> QED
    BY <1>1, <1>2, <2>5, <2>6, <2>7, <2>8, Rerooted
<1>6. ASSUME NEW i \in L PROVE Node(L, N2, P2, K2, R \ {k}, up2, i)
  <2>1. Node(L, N, P, K, R, up, i)
    BY DEF Graph
  <2>2. i \in Item
    BY <1>1
  <2>3. ASSUME N2[i] # NULL PROVE N2[i] \in L /\ P2[N2[i]] = i /\ up2[N2[i]] = up2[i]
    <3>1. CASE i = k
      BY <1>1, <1>2, <2>2, <3>1
    <3>2. CASE i # k /\ i = P[a]
      BY <1>1, <1>2, <1>3, <1>4, <2>2, <3>2
    <3>3. CASE i # k /\ i # P[a]
      <4>1. N2[i] = N[i] /\ N[i] \in L /\ P[N[i]] = i /\ up[N[i]] = up[i]
        BY <2>1, <2>2, <2>3, <3>3 DEF Node
      <4>2. N[i] # k /\ N[i] # a
        BY <1>1, <1>2, <3>3, <4>1
      <4> QED
        BY <1>1, <2>2, <3>3, <4>1, <4>2
    <3> QED
      BY <3>1, <3>2, <3>3
  <2>4. ASSUME P2[i] # NULL PROVE P2[i] \in L /\ N2[P2[i]] = i
    <3>1. CASE i = k
      BY <1>1, <1>2, <1>3, <1>4, <2>2, <2>4, <3>1
    <3>2. CASE i = a
      BY <1>1, <1>2, <2>2, <3>2
    <3>3. CASE i # k /\ i # a
      <4>1. P2[i] = P[i] /\ P[i] \in L /\ N[P[i]] = i
        BY <2>1, <2>2, <2>4, <3>3 DEF Node
      <4>2. P[i] # k /\ P[i] # P[a]
        BY <1>1, <1>3, <3>3, <4>1
      <4> QED
        BY <1>1, <4>1, <4>2
    <3> QED
      BY <3>1, <3>2, <3>3
  <2>5. ASSUME K2[i] # NULL PROVE K2[i] \in L /\ P2[K2[i]] = NULL /\ up2[K2[i]] = i
    <3>1. CASE P[a] = NULL /\ i = up[a]
      BY <1>1, <1>2, <2>2, <3>1
    <3>2. CASE ~ (P[a] = NULL /\ i = up[a])
      <4>1. K2[i] = K[i] /\ K[i] \in L /\ P[K[i]] = NULL /\ up[K[i]] = i
        BY <2>1, <2>2, <2>5, <3>2 DEF Node
      <4>2. K[i] # k /\ K[i] # a
        BY <1>1, <1>2, <3>2, <4>1
      <4> QED
        BY <1>1, <4>1, <4>2
    <3> QED
      BY <3>1, <3>2
  <2>6. ASSUME i \in R \ {k} PROVE P2[i] = NULL /\ up2[i] = NULL
    BY <2>1, <2>2, <2>6 DEF Node
  <2>7. ASSUME P2[i] = NULL, i \notin R \ {k} PROVE up2[i] \in L /\ K2[up2[i]] = i
    <3>1. CASE i = k
      BY <1>1, <1>2, <1>3, <2>2, <2>7, <3>1
    <3>2. CASE i # k
      <4>1. i # a /\ P[i] = NULL
        BY <1>1, <1>2, <2>2, <2>7, <3>2
      <4>2. up2[i] = up[i] /\ up[i] \in L /\ K[up[i]] = i
        BY <2>1, <2>2, <2>7, <3>2, <4>1 DEF Node
      <4>3. ~ (P[a] = NULL /\ up[i] = up[a])
        BY <1>3, <4>1, <4>2
      <4> QED
        BY <1>1, <4>2, <4>3
    <3> QED
      BY <3>1, <3>2
  <2> QED
    BY <2>3, <2>4, <2>5, <2>6, <2>7 DEF Node
<1> QED
  BY <1>1, <1>5, <1>6 DEF Graph

(* The item k leaves its list and is held.                                 *)
LEMMA GraphUnlink ==
  ASSUME NEW L, NEW N, NEW P, NEW K, NEW R, NEW up, Graph(L, N, P, K, R, up),
         NEW k \in L, k \notin R,
         NEW N2 \in Pointers,
         \A j \in Item : N2[j] = IF j = k THEN NULL ELSE IF j = P[k] THEN N[k] ELSE N[j],
         NEW P2 \in Pointers,
         \A j \in Item : P2[j] = IF j = k THEN NULL ELSE IF j = N[k] THEN P[k] ELSE P[j],
         NEW K2 \in Pointers,
         \A j \in Item : K2[j] = IF P[k] = NULL /\ j = up[k] THEN N[k] ELSE K[j],
         NEW up2 \in Pointers, \A j \in Item : up2[j] = IF j = k THEN NULL ELSE up[j]
  PROVE  Graph(L, N2, P2, K2, R \cup {k}, up2)
<1>1. L \in SUBSET Item /\ R \in SUBSET L /\ NULL \notin Item
  BY NoItem DEF Graph
<1>2. /\ P[k] # NULL => P[k] \in L /\ N[P[k]] = k
      /\ P[k] = NULL => up[k] \in L /\ K[up[k]] = k
      /\ N[k] # NULL => N[k] \in L /\ P[N[k]] = k /\ up[N[k]] = up[k]
  BY DEF Graph, Node
<1>3. P[k] # NULL => up[P[k]] = up[k]
  <2> SUFFICES ASSUME P[k] # NULL PROVE up[P[k]] = up[k]
    OBVIOUS
  <2>1. Node(L, N, P, K, R, up, P[k])
    BY <1>2 DEF Graph
  <2> QED
    BY <1>1, <1>2, <2>1 DEF Node
<1>4. Rooted(L, P, up)
  BY DEF Graph
<1>5. Par(P, up, k) # k
  <2>1. {k} \in SUBSET L
    OBVIOUS
  <2>2. Par(P, up, k) \notin {k}
    BY <1>4, <2>1 DEF Rooted
  <2> QED
    BY <2>2
<1>6. P[k] # k /\ N[k] # k /\ (P[k] = NULL => up[k] # k)
  BY <1>1, <1>2, <1>5 DEF Par
<1>7. Rooted(L, P2, up2)
  <2> SUFFICES ASSUME NEW X \in SUBSET L, X # {}, \A x \in X : Par(P2, up2, x) \in X PROVE FALSE
    BY DEF Rooted
  <2>1. k \notin X
    <3>1. Par(P2, up2, k) = NULL
      BY <1>1 DEF Par
    <3> QED
      BY <1>1, <3>1
  <2>2. ASSUME NEW x \in L, x # k, x # N[k] PROVE Par(P2, up2, x) = Par(P, up, x)
    BY <1>1, <2>2 DEF Par
  <2>3. CASE N[k] \in X
    <3>1. N[k] # NULL
      BY <1>1, <2>3
    <3>2. Par(P2, up2, N[k]) = Par(P, up, k)
      BY <1>1, <1>2, <1>6, <3>1 DEF Par
    <3>3. Par(P, up, N[k]) = k
      BY <1>1, <1>2, <3>1 DEF Par
    <3> DEFINE Y == X \cup {k}
    <3>4. \A x \in Y : Par(P, up, x) \in Y
      BY <2>1, <2>2, <2>3, <3>2, <3>3
    <3>5. Y \in SUBSET L /\ Y # {}
      OBVIOUS
    <3> HIDE DEF Y
    <3> QED
      BY <1>4, <3>4, <3>5 DEF Rooted
  <2>4. CASE N[k] \notin X
    BY <1>4, <2>1, <2>2, <2>4 DEF Rooted
  <2> QED
    BY <2>3, <2>4
<1>8. ASSUME NEW i \in L PROVE Node(L, N2, P2, K2, R \cup {k}, up2, i)
  <2>1. Node(L, N, P, K, R, up, i)
    BY DEF Graph
  <2>2. i \in Item
    BY <1>1
  <2>3. ASSUME N2[i] # NULL PROVE N2[i] \in L /\ P2[N2[i]] = i /\ up2[N2[i]] = up2[i]
    <3>1. CASE i = k
      BY <1>1, <2>2, <2>3, <3>1
    <3>2. CASE i # k /\ i = P[k]
      BY <1>1, <1>2, <1>3, <1>6, <2>2, <2>3, <3>2
    <3>3. CASE i # k /\ i # P[k]
      <4>1. N2[i] = N[i] /\ N[i] \in L /\ P[N[i]] = i /\ up[N[i]] = up[i]
        BY <2>1, <2>2, <2>3, <3>3 DEF Node
      <4>2. N[i] # k /\ N[i] # N[k]
        BY <1>1, <1>2, <3>3, <4>1
      <4> QED
        BY <1>1, <2>2, <3>3, <4>1, <4>2
    <3> QED
      BY <3>1, <3>2, <3>3
  <2>4. ASSUME P2[i] # NULL PROVE P2[i] \in L /\ N2[P2[i]] = i
    <3>1. CASE i = k
      BY <1>1, <2>2, <2>4, <3>1
    <3>2. CASE i # k /\ i = N[k]
      BY <1>1, <1>2, <1>6, <2>2, <2>4, <3>2
    <3>3. CASE i # k /\ i # N[k]
      <4>1. P2[i] = P[i] /\ P[i] \in L /\ N[P[i]] = i
        BY <2>1, <2>2, <2>4, <3>3 DEF Node
      <4>2. P[i] # k /\ P[i] # P[k]
        BY <1>1, <1>2, <3>3, <4>1
      <4> QED
        BY <1>1, <4>1, <4>2
    <3> QED
      BY <3>1, <3>2, <3>3
  <2>5. ASSUME K2[i] # NULL PROVE K2[i] \in L /\ P2[K2[i]] = NULL /\ up2[K2[i]] = i
    <3>1. CASE P[k] = NULL /\ i = up[k]
      BY <1>1, <1>2, <1>6, <2>2, <2>5, <3>1
    <3>2. CASE ~ (P[k] = NULL /\ i = up[k])
      <4>1. K2[i] = K[i] /\ K[i] \in L /\ P[K[i]] = NULL /\ up[K[i]] = i
        BY <2>1, <2>2, <2>5, <3>2 DEF Node
      <4>2. K[i] # k /\ (N[k] # NULL => K[i] # N[k])
        BY <1>1, <1>2, <3>2, <4>1
      <4> QED
        BY <1>1, <4>1, <4>2
    <3> QED
      BY <3>1, <3>2
  <2>6. ASSUME i \in R \cup {k} PROVE P2[i] = NULL /\ up2[i] = NULL
    <3>1. CASE i = k
      BY <1>1, <2>2, <3>1
    <3>2. CASE i \in R /\ i # k
      BY <1>1, <1>2, <2>1, <2>2, <3>2 DEF Node
    <3> QED
      BY <2>6, <3>1, <3>2
  <2>7. ASSUME P2[i] = NULL, i \notin R \cup {k} PROVE up2[i] \in L /\ K2[up2[i]] = i
    <3>1. CASE i = N[k]
      BY <1>1, <1>2, <2>2, <2>7, <3>1
    <3>2. CASE i # N[k]
      <4>1. up2[i] = up[i] /\ up[i] \in L /\ K[up[i]] = i
        BY <2>1, <2>2, <2>7, <3>2 DEF Node
      <4>2. ~ (P[k] = NULL /\ up[i] = up[k])
        BY <1>2, <2>7, <4>1
      <4> QED
        BY <1>1, <4>1, <4>2
    <3> QED
      BY <3>1, <3>2
  <2> QED
    BY <2>3, <2>4, <2>5, <2>6, <2>7 DEF Node
<1> QED
  BY <1>1, <1>7, <1>8 DEF Graph

(* The held item r takes the place of i, which is held.                    *)
LEMMA GraphReplace ==
  ASSUME NEW L, NEW N, NEW P, NEW K, NEW R, NEW up, Graph(L, N, P, K, R, up),
         NEW i \in L, i \notin R, up[i] # NULL,
         NEW r \in R, N[r] = NULL, NEW T \in SUBSET L, Tree(N, P, K, up, r, T), up[i] \notin T,
         NEW a, a = N[i], NEW b, b = P[i], a \notin R, b \notin R,
         NEW N2 \in Pointers,
         \A j \in Item : N2[j] = IF j = i THEN NULL ELSE IF j = b THEN r
                               ELSE IF j = r THEN a ELSE N[j],
         NEW P2 \in Pointers,
         \A j \in Item : P2[j] = IF j = i THEN NULL ELSE IF j = a THEN r
                               ELSE IF j = r THEN b ELSE P[j],
         NEW K2 \in Pointers,
         \A j \in Item : K2[j] = IF b = NULL /\ j = up[i] THEN r ELSE K[j],
         NEW up2 \in Pointers,
         \A j \in Item : up2[j] = IF j = i THEN NULL ELSE IF j = r THEN up[i] ELSE up[j]
  PROVE  Graph(L, N2, P2, K2, (R \cup {i}) \ {r}, up2)
<1>1. L \in SUBSET Item /\ R \in SUBSET L /\ NULL \notin Item /\ i \in Item /\ r \in L /\ r \in Item
  BY NoItem DEF Graph
<1>2. P[r] = NULL /\ up[r] = NULL /\ i # r
  BY <1>1 DEF Graph, Node
<1>3. /\ b # NULL => b \in L /\ N[b] = i
      /\ b = NULL => up[i] \in L /\ K[up[i]] = i
      /\ a # NULL => a \in L /\ P[a] = i /\ up[a] = up[i]
  BY DEF Graph, Node
<1>4. b # NULL => up[b] = up[i]
  <2> SUFFICES ASSUME b # NULL PROVE up[b] = up[i]
    OBVIOUS
  <2>1. Node(L, N, P, K, R, up, b)
    BY <1>3 DEF Graph
  <2> QED
    BY <1>1, <1>3, <2>1 DEF Node
<1>5. Rooted(L, P, up)
  BY DEF Graph
<1>6. Par(P, up, i) # i
  <2>1. {i} \in SUBSET L
    OBVIOUS
  <2>2. Par(P, up, i) \notin {i}
    BY <1>5, <2>1 DEF Rooted
  <2> QED
    BY <2>2
<1>7. a # r /\ b # r /\ b # i /\ a # i /\ (b = NULL => up[i] # i)
  BY <1>1, <1>2, <1>3, <1>6 DEF Par
<1>8. i \notin T
  BY <1>1, <1>2, OwnerInside
<1>9. \A x \in L \ T : Par(P, up, x) \notin T
  BY TreeDown
<1>10. Par(P2, up2, r) = Par(P, up, i) /\ Par(P2, up2, i) = NULL /\ (a # NULL => Par(P2, up2, a) = r)
  BY <1>1, <1>2, <1>3, <1>7 DEF Par
<1>11. \A x \in L : x # i /\ x # r /\ x # a => Par(P2, up2, x) = Par(P, up, x)
  BY <1>1 DEF Par
<1>12. Rooted(L, P2, up2)
  <2> SUFFICES ASSUME NEW X \in SUBSET L, X # {}, \A x \in X : Par(P2, up2, x) \in X PROVE FALSE
    BY DEF Rooted
  <2>1. i \notin X
    BY <1>1, <1>10
  <2>2. CASE r \notin X
    <3>1. \A x \in X : Par(P, up, x) \in X
      BY <1>1, <1>10, <1>11, <2>1, <2>2
    <3> QED
      BY <1>5, <3>1 DEF Rooted
  <2>3. CASE r \in X
    <3> DEFINE Z == (X \ T) \cup {i}
    <3>1. Par(P, up, i) \in Z
      BY <1>8, <1>9, <1>10, <2>3
    <3>2. ASSUME NEW z \in X \ T PROVE Par(P, up, z) \in Z
      <4>1. z # i /\ z # r
        BY <2>1 DEF Tree
      <4>2. CASE z = a
        BY <1>1, <1>3, <4>2 DEF Par
      <4>3. CASE z # a
        <5>1. Par(P2, up2, z) = Par(P, up, z) /\ Par(P2, up2, z) \in X /\ Par(P, up, z) \notin T
          BY <1>9, <1>11, <4>1, <4>3
        <5> QED
          BY <5>1
      <4> QED
        BY <4>2, <4>3
    <3>3. \A z \in Z : Par(P, up, z) \in Z
      BY <3>1, <3>2
    <3>4. Z \in SUBSET L /\ Z # {}
      OBVIOUS
    <3> HIDE DEF Z
    <3> QED
      BY <1>5, <3>3, <3>4 DEF Rooted
  <2> QED
    BY <2>2, <2>3
<1>13. ASSUME NEW j \in L PROVE Node(L, N2, P2, K2, (R \cup {i}) \ {r}, up2, j)
  <2>1. Node(L, N, P, K, R, up, j) /\ j \in Item
    BY <1>1 DEF Graph
  <2>2. CASE j = i
    <3>1. N2[j] = NULL /\ P2[j] = NULL /\ up2[j] = NULL /\ j \in (R \cup {i}) \ {r}
      BY <1>2, <2>1, <2>2
    <3>2. K2[j] # NULL => K2[j] \in L /\ P2[K2[j]] = NULL /\ up2[K2[j]] = j
      <4>1. K2[j] = K[j]
        BY <1>7, <2>1, <2>2
      <4>2. K[j] # NULL => K[j] \in L /\ P[K[j]] = NULL /\ up[K[j]] = j
        BY <2>1 DEF Node
      <4>3. K[j] # NULL => K[j] # r /\ K[j] # i /\ K[j] # a
        BY <1>1, <1>2, <1>3, <1>7, <2>1, <2>2, <4>2 DEF Node
      <4> QED
        BY <1>1, <4>1, <4>2, <4>3
    <3> QED
      BY <3>1, <3>2 DEF Node
  <2>3. CASE j = r
    <3>1. N2[j] = a /\ P2[j] = b /\ up2[j] = up[i] /\ j \notin (R \cup {i}) \ {r}
      BY <1>2, <1>7, <2>1, <2>3
    <3>2. a # NULL => a \in L /\ P2[a] = j /\ up2[a] = up2[j]
      BY <1>1, <1>2, <1>3, <1>7, <2>3, <3>1
    <3>3. b # NULL => b \in L /\ N2[b] = j
      BY <1>1, <1>3, <1>7, <2>3
    <3>4. K2[j] # NULL => K2[j] \in L /\ P2[K2[j]] = NULL /\ up2[K2[j]] = j
      <4>1. r \in T
        BY DEF Tree
      <4>2. K2[j] = K[j]
        BY <2>1, <2>3, <4>1
      <4>3. K[j] # NULL => K[j] \in L /\ P[K[j]] = NULL /\ up[K[j]] = j
        BY <2>1 DEF Node
      <4>4. K[j] # NULL => K[j] # r /\ K[j] # i /\ K[j] # a
        BY <1>1, <1>2, <1>3, <2>3, <4>1, <4>3
      <4> QED
        BY <1>1, <4>2, <4>3, <4>4
    <3>5. b = NULL => up2[j] \in L /\ K2[up2[j]] = j
      BY <1>1, <1>3, <2>3, <3>1
    <3> QED
      BY <3>1, <3>2, <3>3, <3>4, <3>5 DEF Node
  <2>4. CASE j # i /\ j # r
    <3>1. up2[j] = up[j] /\ (j \in (R \cup {i}) \ {r} <=> j \in R)
      BY <2>1, <2>4
    <3>2. N2[j] # NULL => N2[j] \in L /\ P2[N2[j]] = j /\ up2[N2[j]] = up2[j]
      <4>1. CASE j = b
        <5>1. N2[j] = r /\ P2[r] = b /\ up2[r] = up[i]
          BY <1>1, <1>2, <1>7, <2>1, <2>4, <4>1
        <5> QED
          BY <1>1, <1>4, <2>1, <3>1, <4>1, <5>1
      <4>2. CASE j # b
        <5>1. N2[j] = N[j]
          BY <2>1, <2>4, <4>2
        <5>2. N[j] # NULL => N[j] \in L /\ P[N[j]] = j /\ up[N[j]] = up[j]
          BY <2>1 DEF Node
        <5>3. N[j] # NULL => N[j] # i /\ N[j] # r /\ N[j] # a
          BY <1>1, <1>2, <1>3, <2>1, <2>4, <4>2, <5>2
        <5> QED
          BY <1>1, <3>1, <5>1, <5>2, <5>3
      <4> QED
        BY <4>1, <4>2
    <3>3. P2[j] # NULL => P2[j] \in L /\ N2[P2[j]] = j
      <4>1. CASE j = a
        BY <1>1, <1>2, <1>7, <2>1, <2>4, <4>1
      <4>2. CASE j # a
        <5>1. P2[j] = P[j]
          BY <2>1, <2>4, <4>2
        <5>2. P[j] # NULL => P[j] \in L /\ N[P[j]] = j
          BY <2>1 DEF Node
        <5>3. P[j] # NULL => P[j] # i /\ P[j] # r /\ P[j] # b
          BY <1>1, <1>3, <2>1, <2>4, <4>2, <5>2
        <5> QED
          BY <1>1, <5>1, <5>2, <5>3
      <4> QED
        BY <4>1, <4>2
    <3>4. K2[j] # NULL => K2[j] \in L /\ P2[K2[j]] = NULL /\ up2[K2[j]] = j
      <4>1. CASE b = NULL /\ j = up[i]
        <5>1. K2[j] = r /\ P2[r] = b /\ up2[r] = up[i]
          BY <1>1, <1>2, <1>7, <2>1, <4>1
        <5> QED
          BY <1>1, <4>1, <5>1
      <4>2. CASE ~ (b = NULL /\ j = up[i])
        <5>1. K2[j] = K[j]
          BY <2>1, <4>2
        <5>2. K[j] # NULL => K[j] \in L /\ P[K[j]] = NULL /\ up[K[j]] = j
          BY <2>1 DEF Node
        <5>3. K[j] # NULL => K[j] # i /\ K[j] # r /\ K[j] # a
          BY <1>1, <1>2, <1>3, <2>1, <2>4, <4>2, <5>2
        <5> QED
          BY <1>1, <5>1, <5>2, <5>3
      <4> QED
        BY <4>1, <4>2
    <3>5. j \in R => P2[j] = NULL /\ up[j] = NULL
      BY <2>1, <2>4 DEF Node
    <3>6. P2[j] = NULL /\ j \notin R => up[j] \in L /\ K2[up[j]] = j
      <4> SUFFICES ASSUME P2[j] = NULL, j \notin R PROVE up[j] \in L /\ K2[up[j]] = j
        OBVIOUS
      <4>1. P[j] = NULL /\ j # a
        BY <1>1, <2>1, <2>4
      <4>2. up[j] \in L /\ K[up[j]] = j
        BY <2>1, <4>1 DEF Node
      <4>3. ~ (b = NULL /\ up[j] = up[i])
        BY <1>3, <2>4, <4>2
      <4> QED
        BY <1>1, <4>2, <4>3
    <3> QED
      BY <3>1, <3>2, <3>3, <3>4, <3>5, <3>6 DEF Node
  <2> QED
    BY <2>2, <2>3, <2>4
<1> QED
  BY <1>1, <1>12, <1>13 DEF Graph

(* What hangs from a held item goes, and nothing else changes.             *)
LEMMA GraphDelete ==
  ASSUME NEW L, NEW N, NEW P, NEW K, NEW R, NEW up, Graph(L, N, P, K, R, up),
         NEW k \in R, NEW T \in SUBSET L, Tree(N, P, K, up, k, T),
         NEW N2 \in Pointers, \A j \in Item \ T : N2[j] = N[j],
         NEW P2 \in Pointers, \A j \in Item \ T : P2[j] = P[j],
         NEW K2 \in Pointers, \A j \in Item \ T : K2[j] = K[j]
  PROVE  Graph(L \ T, N2, P2, K2, R \ {k}, up)
<1>1. L \in SUBSET Item /\ R \in SUBSET L /\ NULL \notin Item
  BY NoItem DEF Graph
<1>2. k \in L /\ k \in T /\ P[k] = NULL /\ up[k] = NULL
  BY <1>1 DEF Graph, Node, Tree
<1>3. ASSUME NEW x \in R \ {k} PROVE x \notin T
  <2>1. Par(P, up, x) = NULL
    BY <1>1 DEF Par, Graph, Node
  <2> QED
    BY <1>1, <2>1 DEF Tree
<1>4. Rooted(L \ T, P2, up)
  <2>1. \A x \in L \ T : Par(P2, up, x) = Par(P, up, x)
    BY <1>1 DEF Par
  <2>2. Rooted(L, P, up)
    BY DEF Graph
  <2> QED
    BY <2>1, <2>2 DEF Rooted
<1>5. ASSUME NEW i \in L \ T PROVE Node(L \ T, N2, P2, K2, R \ {k}, up, i)
  <2>1. Node(L, N, P, K, R, up, i)
    BY DEF Graph
  <2>2. N2[i] = N[i] /\ P2[i] = P[i] /\ K2[i] = K[i]
    BY <1>1
  <2>3. Par(P, up, i) \notin T
    BY TreeDown
  <2>4. ASSUME N[i] # NULL PROVE N[i] \notin T
    <3>1. Par(P, up, N[i]) = i /\ N[i] # k
      BY <1>1, <1>2, <2>1, <2>4 DEF Node, Par
    <3> QED
      BY <3>1 DEF Tree
  <2>5. ASSUME K[i] # NULL PROVE K[i] \notin T
    <3>1. Par(P, up, K[i]) = i /\ K[i] # k
      BY <1>1, <1>2, <2>1, <2>5 DEF Node, Par
    <3> QED
      BY <3>1 DEF Tree
  <2>6. N[i] # NULL => N[i] \in L \ T /\ P2[N[i]] = i /\ up[N[i]] = up[i]
    BY <1>1, <2>1, <2>4 DEF Node
  <2>7. P[i] # NULL => P[i] \in L \ T /\ N2[P[i]] = i
    BY <1>1, <2>1, <2>3 DEF Node, Par
  <2>8. K[i] # NULL => K[i] \in L \ T /\ P2[K[i]] = NULL /\ up[K[i]] = i
    BY <1>1, <2>1, <2>5 DEF Node
  <2>9. i \in R \ {k} => P[i] = NULL /\ up[i] = NULL
    BY <2>1 DEF Node
  <2>10. P[i] = NULL /\ i \notin R \ {k} => up[i] \in L \ T /\ K2[up[i]] = i
    BY <1>1, <1>2, <2>1, <2>3 DEF Node, Par
  <2> QED
    BY <2>2, <2>6, <2>7, <2>8, <2>9, <2>10 DEF Node
<1>6. L \ T \in SUBSET Item /\ R \ {k} \in SUBSET (L \ T)
  BY <1>1, <1>3
<1>7. up \in Pointers
  BY DEF Graph
<1> QED
  BY <1>4, <1>5, <1>6, <1>7 DEF Graph

(* A new item is held.                                                     *)
LEMMA GraphNew ==
  ASSUME NEW L, NEW N, NEW P, NEW K, NEW R, NEW up, Graph(L, N, P, K, R, up),
         NEW n \in Item \ L,
         NEW N2 \in Pointers, \A j \in Item : N2[j] = IF j = n THEN NULL ELSE N[j],
         NEW P2 \in Pointers, \A j \in Item : P2[j] = IF j = n THEN NULL ELSE P[j],
         NEW K2 \in Pointers, \A j \in Item : K2[j] = IF j = n THEN NULL ELSE K[j],
         NEW up2 \in Pointers, \A j \in Item : up2[j] = IF j = n THEN NULL ELSE up[j]
  PROVE  Graph(L \cup {n}, N2, P2, K2, R \cup {n}, up2)
<1>1. L \in SUBSET Item /\ R \in SUBSET L /\ NULL \notin Item
  BY NoItem DEF Graph
<1>2. Rooted(L \cup {n}, P2, up2)
  <2> SUFFICES ASSUME NEW X \in SUBSET (L \cup {n}), X # {}, \A x \in X : Par(P2, up2, x) \in X
               PROVE  FALSE
    BY DEF Rooted
  <2>1. n \notin X
    <3>1. Par(P2, up2, n) = NULL
      BY DEF Par
    <3> QED
      BY <1>1, <3>1
  <2>2. \A x \in X : Par(P, up, x) = Par(P2, up2, x)
    BY <1>1, <2>1 DEF Par
  <2>3. Rooted(L, P, up) /\ X \in SUBSET L
    BY <2>1 DEF Graph
  <2> QED
    BY <2>2, <2>3 DEF Rooted
<1>3. ASSUME NEW i \in L \cup {n} PROVE Node(L \cup {n}, N2, P2, K2, R \cup {n}, up2, i)
  <2>1. CASE i = n
    BY <2>1 DEF Node
  <2>2. CASE i # n
    <3>1. Node(L, N, P, K, R, up, i) /\ i \in Item
      BY <1>1, <2>2 DEF Graph
    <3> QED
      BY <1>1, <2>2, <3>1 DEF Node
  <2> QED
    BY <2>1, <2>2
<1> QED
  BY <1>1, <1>2, <1>3 DEF Graph

-----------------------------------------------------------------------------
(* The graph of a heap: a reference owns no members.                       *)
Nx(h) == [j \in Item |-> h.cell[j].next]
Pv(h) == [j \in Item |-> h.cell[j].prev]
Cd(h) == [j \in Item |-> h.cell[j].child]
Kd(h) == [j \in Item |-> IF h.cell[j].isRef THEN NULL ELSE h.cell[j].child]

HeapGraph(h, R, up) == Graph(Live(h), Nx(h), Pv(h), Kd(h), R, up)

LEMMA HeapTypes ==
  ASSUME NEW h \in Heap
  PROVE  /\ Live(h) \in SUBSET Item
         /\ Nx(h) \in Pointers /\ Pv(h) \in Pointers /\ Cd(h) \in Pointers /\ Kd(h) \in Pointers
         /\ \A j \in Item : h.cell[j] \in Cell /\ After(h, j) \in SUBSET Item
         /\ \A j \in Item : /\ Nx(h)[j] = h.cell[j].next /\ Pv(h)[j] = h.cell[j].prev
                            /\ Cd(h)[j] = h.cell[j].child
         /\ \A j \in Item : OwnsChild(h.cell[j]) <=> Kd(h)[j] # NULL
         /\ \A j \in Item : OwnsChild(h.cell[j]) => Kd(h)[j] = h.cell[j].child
<1>1. \A j \in Item : h.cell[j] \in Cell
  BY DEF Heap
<1>2. \A j \in Item : /\ h.cell[j].next \in Item \cup {NULL} /\ h.cell[j].prev \in Item \cup {NULL}
                    /\ h.cell[j].child \in Item \cup {NULL} /\ h.cell[j].isRef \in BOOLEAN
  BY <1>1 DEF Cell
<1>3. \A j \in Item : After(h, j) \in SUBSET Item
  BY <1>2 DEF After, OwnsChild
<1> QED
  BY <1>1, <1>2, <1>3 DEF Live, Nx, Pv, Cd, Kd, Pointers, OwnsChild

(* What cJSON_Delete comes to from a held item is the tree that hangs from *)
(* it.                                                                     *)
LEMMA DoomedTree ==
  ASSUME NEW h \in Heap, NEW R, NEW up, HeapGraph(h, R, up), NEW k \in R
  PROVE  Doomed(h, k) \in SUBSET Live(h) /\ Tree(Nx(h), Pv(h), Kd(h), up, k, Doomed(h, k))
<1> DEFINE Step == [j \in Item |-> After(h, j)]
           L == Live(h)
           D == Doomed(h, k)
           N == Nx(h)
           P == Pv(h)
           K == Kd(h)
<1>1. Step \in [Item -> SUBSET Item] /\ \A j \in Item : Step[j] = After(h, j)
  BY HeapTypes
<1>2. \A i \in L : Node(L, N, P, K, R, up, i)
  BY DEF HeapGraph, Graph
<1>3. k \in L /\ k \in Item /\ L \in SUBSET Item /\ {k} \in SUBSET Item /\ NULL \notin Item
  BY NoItem DEF HeapGraph, Graph
<1>4. D = Reached({k}, Step)
  BY DEF Doomed
<1>5. \A j \in Item : \A x : x \in After(h, j) <=> x # NULL /\ (x = N[j] \/ x = K[j])
  BY HeapTypes DEF After
<1> HIDE DEF Step, N, P, K, L
<1>6. Closed(Step, L)
  BY <1>1, <1>2, <1>3, <1>5 DEF Closed, Node
<1>7. D \in SUBSET L
  <2>1. {k} \subseteq L
    BY <1>3
  <2>2. Reached({k}, Step) \subseteq L
    BY <1>1, <1>3, <1>6, <2>1, ReachedLeast
  <2> QED
    BY <1>4, <2>2
<1>8. k \in D /\ Closed(Step, D)
  BY <1>1, <1>3, <1>4, ReachedClosed
<1>9. ASSUME NEW x \in D, x # k PROVE Par(P, up, x) \in D
  <2>1. x \in Reached({k}, Step) /\ x \notin {k}
    BY <1>4, <1>9
  <2>2. PICK y \in Reached({k}, Step) : x \in Step[y]
    BY <1>1, <1>3, <2>1, ReachedFrom
  <2>3. y \in D /\ y \in L /\ x # NULL /\ (x = N[y] \/ x = K[y])
    BY <1>1, <1>3, <1>4, <1>5, <1>7, <2>2
  <2>4. Node(L, N, P, K, R, up, y) /\ y # NULL
    BY <1>2, <1>3, <2>3
  <2>5. Par(P, up, x) = y
    BY <2>3, <2>4 DEF Node, Par
  <2> QED
    BY <2>3, <2>5
<1>10. Tree(N, P, K, up, k, D)
  <2> HIDE DEF D
  <2> QED
    BY <1>1, <1>3, <1>5, <1>7, <1>8, <1>9 DEF Tree, Closed
<1> QED
  BY <1>7, <1>10 DEF L, N, P, K

(* A held item starts a list.                                              *)
LEMMA HeldList ==
  ASSUME NEW h \in Heap, NEW R, NEW up, HeapGraph(h, R, up), NEW k \in R
  PROVE  \E S \in SUBSET Doomed(h, k) : List(Nx(h), Pv(h), up, k, S)
<1> DEFINE Step == [j \in Item |-> {Nx(h)[j]} \ {NULL}]
           L == Live(h)
           D == Doomed(h, k)
           N == Nx(h)
           P == Pv(h)
           K == Kd(h)
           S == Reached({k}, Step)
<1>1. Step \in [Item -> SUBSET Item] /\ \A j \in Item : Step[j] = {N[j]} \ {NULL}
  BY HeapTypes DEF Pointers
<1>2. \A i \in L : Node(L, N, P, K, R, up, i)
  BY DEF HeapGraph, Graph
<1>3. k \in L /\ k \in Item /\ L \in SUBSET Item /\ {k} \in SUBSET Item /\ NULL \notin Item
  BY NoItem DEF HeapGraph, Graph
<1>4. D \in SUBSET L /\ Tree(N, P, K, up, k, D)
  BY DoomedTree
<1> HIDE DEF Step, N, P, K, L, D
<1>5. S \subseteq D
  <2>1. Closed(Step, D) /\ {k} \subseteq D
    BY <1>1, <1>3, <1>4 DEF Closed, Tree
  <2> QED
    BY <1>1, <1>3, <2>1, ReachedLeast
<1>6. k \in S /\ Closed(Step, S)
  BY <1>1, <1>3, ReachedClosed
<1>7. ASSUME NEW x \in S, x # k PROVE P[x] # NULL /\ P[x] \in S
  <2>1. x \notin {k}
    BY <1>7
  <2>2. PICK y \in S : x \in Step[y]
    BY <1>1, <1>3, <2>1, ReachedFrom
  <2>3. y \in L /\ y \in Item
    BY <1>3, <1>4, <1>5, <2>2
  <2>4. N[y] # NULL /\ x = N[y] /\ Node(L, N, P, K, R, up, y)
    BY <1>1, <1>2, <2>2, <2>3
  <2> QED
    BY <1>3, <2>2, <2>3, <2>4 DEF Node
<1>8. ASSUME NEW x \in S PROVE N[x] # NULL => N[x] \in S
  <2>1. x \in Item
    BY <1>3, <1>4, <1>5
  <2> HIDE DEF S
  <2> QED
    BY <1>1, <1>6, <2>1 DEF Closed
<1>9. ASSUME NEW x \in S PROVE up[x] = up[k]
  <2> DEFINE Same == {y \in S : up[y] = up[k]}
  <2>1. {k} \subseteq Same
    BY <1>6
  <2>2. Closed(Step, Same)
    <3> SUFFICES ASSUME NEW y \in Same, NEW z \in Step[y] PROVE z \in Same
      BY DEF Closed
    <3>1. y \in L /\ y \in S /\ y \in Item /\ up[y] = up[k]
      BY <1>3, <1>4, <1>5
    <3>2. z = N[y] /\ N[y] # NULL /\ z \in S
      BY <1>1, <1>8, <3>1
    <3>3. up[z] = up[y]
      BY <1>2, <3>1, <3>2 DEF Node
    <3> QED
      BY <3>1, <3>2, <3>3
  <2>3. S \subseteq Same
    <3> HIDE DEF Same
    <3> QED
      BY <1>1, <1>3, <2>1, <2>2, ReachedLeast
  <2> QED
    BY <2>3
<1>10. List(N, P, up, k, S)
  <2> HIDE DEF S
  <2> QED
    BY <1>6, <1>7, <1>8, <1>9 DEF List
<1> QED
  BY <1>5, <1>10 DEF N, P, D

-----------------------------------------------------------------------------
(* A walk goes from item to next item, and stays where a list ends.        *)
LEMMA WalkSteps ==
  ASSUME NEW h \in Heap, NEW i \in Item \cup {NULL}
  PROVE  /\ Walk(h, i) \in [0 .. MaxItems -> Item \cup {NULL}] /\ Walk(h, i)[0] = i
         /\ \A n \in 1 .. MaxItems :
              Walk(h, i)[n] = IF Walk(h, i)[n - 1] = NULL THEN NULL ELSE Nx(h)[Walk(h, i)[n - 1]]
<1> DEFINE T == Item \cup {NULL}
           g == [j \in T |-> IF j = NULL THEN NULL ELSE h.cell[j].next]
<1>1. g \in [T -> T]
  <2>1. \A j \in Item : h.cell[j].next \in T
    BY HeapTypes DEF Pointers
  <2> QED
    BY <2>1
<1>2. \A j \in T : g[j] = IF j = NULL THEN NULL ELSE h.cell[j].next
  OBVIOUS
<1>3. MaxItems \in Nat /\ i \in T
  BY ItemsFinite
<1>4. PICK f : Iterated(f, MaxItems, T, i, g)
  <2> HIDE DEF g, T
  <2> QED
    BY <1>1, <1>3, Iterates
<1> HIDE DEF g
<1> DEFINE Is(w) == w = [n \in 0 .. MaxItems |->
                           IF n = 0 THEN i
                           ELSE LET before == w[n - 1]
                                IN  IF before = NULL THEN NULL ELSE h.cell[before].next]
<1>5. Is(f)
  <2>1. f \in [0 .. MaxItems -> T] /\ f[0] = i /\ \A n \in 1 .. MaxItems : f[n] = g[f[n - 1]]
    BY <1>4 DEF Iterated
  <2>2. ASSUME NEW n \in 0 .. MaxItems
        PROVE  f[n] = IF n = 0 THEN i ELSE IF f[n - 1] = NULL THEN NULL ELSE h.cell[f[n - 1]].next
    <3>1. CASE n = 0
      BY <2>1, <3>1
    <3>2. CASE n # 0
      <4>1. n \in 1 .. MaxItems /\ n - 1 \in 0 .. MaxItems
        BY <1>3, <3>2
      <4> QED
        BY <1>2, <2>1, <3>2, <4>1
    <3> QED
      BY <3>1, <3>2
  <2> QED
    BY <2>1, <2>2
<1> DEFINE w == CHOOSE e : Is(e)
<1>6. Is(w)
  <2> HIDE DEF Is
  <2> QED
    BY <1>5
<1>7. Walk(h, i) = w
  BY DEF Walk
<1> HIDE DEF w
<1>8. w[0] = i
  BY <1>3, <1>6
<1>9. ASSUME NEW n \in 1 .. MaxItems
      PROVE  w[n] = IF w[n - 1] = NULL THEN NULL ELSE h.cell[w[n - 1]].next
  <2>1. n \in 0 .. MaxItems /\ n # 0
    BY <1>3
  <2> QED
    BY <1>6, <2>1
<1>10. \A n \in 0 .. MaxItems : w[n] \in T
  <2> DEFINE Bad == {n \in 0 .. MaxItems : w[n] \notin T}
  <2> SUFFICES ASSUME Bad # {} PROVE FALSE
    OBVIOUS
  <2>1. PICK m \in Bad : \A n \in Bad : m <= n
    <3>1. Bad \in SUBSET Nat
      BY <1>3
    <3> HIDE DEF Bad
    <3> QED
      BY <3>1, LeastNat
  <2>2. m \in 1 .. MaxItems /\ m - 1 \in 0 .. MaxItems
    BY <1>3, <1>8, <2>1
  <2>3. m - 1 \notin Bad
    <3>1. m \in Nat
      BY <1>3, <2>2
    <3> HIDE DEF Bad
    <3> QED
      BY <2>1, <3>1
  <2>4. w[m - 1] \in T
    BY <2>2, <2>3
  <2>5. w[m] = IF w[m - 1] = NULL THEN NULL ELSE h.cell[w[m - 1]].next
    BY <1>9, <2>2
  <2>6. w[m] \in T
    BY <2>4, <2>5, HeapTypes DEF Pointers
  <2> QED
    BY <2>1, <2>6
<1>11. \A n \in 1 .. MaxItems : w[n] = IF w[n - 1] = NULL THEN NULL ELSE Nx(h)[w[n - 1]]
  <2> SUFFICES ASSUME NEW n \in 1 .. MaxItems
               PROVE  w[n] = IF w[n - 1] = NULL THEN NULL ELSE Nx(h)[w[n - 1]]
    OBVIOUS
  <2>1. n - 1 \in 0 .. MaxItems
    BY <1>3
  <2>2. w[n - 1] \in T
    BY <1>10, <2>1
  <2>3. w[n - 1] # NULL => Nx(h)[w[n - 1]] = h.cell[w[n - 1]].next
    BY <2>2, HeapTypes
  <2> QED
    BY <1>9, <2>3
<1>12. w \in [0 .. MaxItems -> T]
  BY <1>6, <1>10
<1> QED
  BY <1>7, <1>8, <1>11, <1>12

(* The walk through the members of p meets only members of p, ends, and    *)
(* so has a last one.                                                      *)
LEMMA WalkMembers ==
  ASSUME NEW h \in Heap, NEW R, NEW up, HeapGraph(h, R, up),
         NEW p \in Live(h), ~h.cell[p].isRef,
         NEW k \in 0 .. MaxItems, Walk(h, h.cell[p].child)[k] # NULL
  PROVE  /\ Walk(h, h.cell[p].child)[k] \in Live(h)
         /\ up[Walk(h, h.cell[p].child)[k]] = p
<1> DEFINE w == Walk(h, h.cell[p].child)
           Bad == {n \in 0 .. MaxItems : w[n] # NULL /\ ~ (w[n] \in Live(h) /\ up[w[n]] = p)}
<1>1. p \in Item /\ h.cell[p].child \in Item \cup {NULL} /\ Kd(h)[p] = h.cell[p].child
  BY HeapTypes DEF Kd, Pointers
<1>2. /\ w \in [0 .. MaxItems -> Item \cup {NULL}] /\ w[0] = Kd(h)[p]
      /\ \A n \in 1 .. MaxItems : w[n] = IF w[n - 1] = NULL THEN NULL ELSE Nx(h)[w[n - 1]]
  BY <1>1, WalkSteps
<1>3. \A i \in Live(h) : Node(Live(h), Nx(h), Pv(h), Kd(h), R, up, i)
  BY DEF HeapGraph, Graph
<1> HIDE DEF w
<1>4. Bad = {}
  <2> SUFFICES ASSUME Bad # {} PROVE FALSE
    OBVIOUS
  <2>1. PICK m \in Bad : \A n \in Bad : m <= n
    <3>1. Bad \in SUBSET Nat
      BY ItemsFinite
    <3> HIDE DEF Bad
    <3> QED
      BY <3>1, LeastNat
  <2>2. m # 0
    BY <1>2, <1>3, <2>1 DEF Node
  <2>3. m \in 1 .. MaxItems /\ m - 1 \in 0 .. MaxItems
    BY <2>1, <2>2, ItemsFinite
  <2>4. m - 1 \notin Bad
    <3>1. m \in Nat
      BY <2>3, ItemsFinite
    <3> HIDE DEF Bad
    <3> QED
      BY <2>1, <3>1
  <2>5. w[m] = IF w[m - 1] = NULL THEN NULL ELSE Nx(h)[w[m - 1]]
    BY <1>2, <2>3
  <2>6. w[m] # NULL
    BY <2>1
  <2>7. w[m - 1] \in Live(h) /\ up[w[m - 1]] = p
    BY <2>3, <2>4, <2>5, <2>6
  <2>8. w[m] \in Live(h) /\ up[w[m]] = p
    BY <1>3, <2>5, <2>6, <2>7 DEF Node
  <2> QED
    BY <2>1, <2>8
<1> QED
  BY <1>4 DEF w

LEMMA WalkEnds ==
  ASSUME NEW h \in Heap, NEW R, NEW up, HeapGraph(h, R, up),
         NEW p \in Live(h), ~h.cell[p].isRef
  PROVE  \E k \in 0 .. MaxItems : Walk(h, h.cell[p].child)[k] = NULL
<1> DEFINE w == Walk(h, h.cell[p].child)
           M == 0 .. MaxItems
<1> SUFFICES ASSUME \A k \in M : w[k] # NULL PROVE FALSE
  OBVIOUS
<1>1. p \in Item /\ h.cell[p].child \in Item \cup {NULL} /\ Kd(h)[p] = h.cell[p].child
  BY HeapTypes DEF Kd, Pointers
<1>2. /\ w \in [M -> Item \cup {NULL}] /\ w[0] = Kd(h)[p]
      /\ \A n \in 1 .. MaxItems : w[n] = IF w[n - 1] = NULL THEN NULL ELSE Nx(h)[w[n - 1]]
  BY <1>1, WalkSteps
<1>3. \A k \in M : w[k] \in Live(h)
  BY WalkMembers
<1>4. \A i \in Live(h) : Node(Live(h), Nx(h), Pv(h), Kd(h), R, up, i)
  BY DEF HeapGraph, Graph
<1>5. MaxItems \in Nat /\ Live(h) \in SUBSET Item /\ NULL \notin Live(h)
  BY ItemsFinite, HeapTypes, NoItem
<1> HIDE DEF w
<1>6. \E a, b \in M : a # b /\ w[a] = w[b]
  <2>1. IsFiniteSet(M) /\ Cardinality(M) = MaxItems + 1
    BY <1>5, FS_Interval
  <2>2. IsFiniteSet(Item) /\ Cardinality(Item) < Cardinality(M)
    BY <1>5, <2>1, ItemsFinite DEF MaxItems
  <2>3. w \in [M -> Item]
    BY <1>2, <1>3, <1>5
  <2> HIDE DEF M
  <2> QED
    BY <2>1, <2>2, <2>3, FS_PigeonHole
<1> DEFINE Bad == {a \in M : \E b \in M : a < b /\ w[a] = w[b]}
<1>7. Bad # {}
  <2>1. PICK a, b \in M : a # b /\ w[a] = w[b]
    BY <1>6
  <2>2. a < b \/ b < a
    BY <1>5, <2>1
  <2> QED
    BY <2>1, <2>2
<1>8. PICK a \in Bad : \A n \in Bad : a <= n
  <2>1. Bad \in SUBSET Nat
    BY <1>5
  <2> HIDE DEF Bad
  <2> QED
    BY <1>7, <2>1, LeastNat
<1>9. PICK b \in M : a < b /\ w[a] = w[b]
  BY <1>8
<1>10. a \in M /\ b \in 1 .. MaxItems /\ b - 1 \in M
  BY <1>5, <1>8, <1>9
<1>11. w[b] = Nx(h)[w[b - 1]] /\ Pv(h)[w[b]] = w[b - 1]
  <2>1. w[b - 1] \in Live(h) /\ w[b] \in Live(h) /\ w[b - 1] # NULL /\ w[b] # NULL
    BY <1>3, <1>5, <1>10
  <2>2. w[b] = Nx(h)[w[b - 1]]
    BY <1>2, <1>10, <2>1
  <2> QED
    BY <1>4, <2>1, <2>2 DEF Node
<1>12. CASE a = 0
  <2>1. w[a] # NULL /\ w[a] = Kd(h)[p]
    BY <1>2, <1>10, <1>12
  <2>2. Pv(h)[w[a]] = NULL
    BY <1>4, <2>1 DEF Node
  <2>3. w[b - 1] # NULL
    BY <1>10
  <2> QED
    BY <1>9, <1>11, <2>2, <2>3
<1>13. CASE a # 0
  <2>1. a \in 1 .. MaxItems /\ a - 1 \in M
    BY <1>5, <1>10, <1>13
  <2>2. w[a] = Nx(h)[w[a - 1]] /\ Pv(h)[w[a]] = w[a - 1]
    <3>1. w[a - 1] \in Live(h) /\ w[a] \in Live(h) /\ w[a - 1] # NULL /\ w[a] # NULL
      BY <1>3, <1>5, <1>10, <2>1
    <3>2. w[a] = Nx(h)[w[a - 1]]
      BY <1>2, <2>1, <3>1
    <3> QED
      BY <1>4, <3>1, <3>2 DEF Node
  <2>3. w[a - 1] = w[b - 1]
    BY <1>9, <1>11, <2>2
  <2>4. a - 1 < b - 1
    BY <1>5, <1>9, <1>10
  <2>5. a - 1 \in Bad
    BY <1>10, <2>1, <2>3, <2>4
  <2>6. a \in Nat
    BY <1>5, <1>10
  <2> HIDE DEF Bad
  <2> QED
    BY <1>8, <2>5, <2>6
<1> QED
  BY <1>12, <1>13

LastOf(w) == CHOOSE k \in 0 .. MaxItems - 1 : w[k] # NULL /\ w[k + 1] = NULL

LEMMA LastMember ==
  ASSUME NEW h \in Heap, NEW R, NEW up, HeapGraph(h, R, up),
         NEW p \in Live(h), ~h.cell[p].isRef,
         NEW w, w = Walk(h, h.cell[p].child), w[0] # NULL
  PROVE  /\ w[LastOf(w)] \in Live(h) /\ up[w[LastOf(w)]] = p
         /\ Nx(h)[w[LastOf(w)]] = NULL
<1> DEFINE last == LastOf(w)
<1> DEFINE Ends == {k \in 0 .. MaxItems : w[k] = NULL}
<1>1. PICK m \in Ends : \A n \in Ends : m <= n
  <2>1. Ends \in SUBSET Nat /\ Ends # {}
    BY ItemsFinite, WalkEnds
  <2> HIDE DEF Ends
  <2> QED
    BY <2>1, LeastNat
<1>2. m \in Nat /\ m # 0 /\ m <= MaxItems /\ MaxItems \in Nat /\ w[m] = NULL
  BY <1>1, ItemsFinite
<1>3. m - 1 \in 0 .. MaxItems - 1 /\ (m - 1) + 1 = m /\ m - 1 \in 0 .. MaxItems
  BY <1>2
<1>4. m - 1 \notin Ends
  <2> HIDE DEF Ends
  <2> QED
    BY <1>1, <1>2
<1>5. w[m - 1] # NULL /\ w[(m - 1) + 1] = NULL
  BY <1>2, <1>3, <1>4
<1>6. last \in 0 .. MaxItems - 1 /\ w[last] # NULL /\ w[last + 1] = NULL
  BY <1>3, <1>5 DEF LastOf
<1> HIDE DEF last
<1>7. last \in 0 .. MaxItems /\ last + 1 \in 1 .. MaxItems /\ (last + 1) - 1 = last
  BY <1>2, <1>6
<1>8. w[last] \in Live(h) /\ up[w[last]] = p
  BY <1>6, <1>7, WalkMembers
<1>9. h.cell[p].child \in Item \cup {NULL}
  BY HeapTypes DEF Pointers
<1>10. w[last + 1] = IF w[(last + 1) - 1] = NULL THEN NULL ELSE Nx(h)[w[(last + 1) - 1]]
  BY <1>7, <1>9, WalkSteps
<1> QED
  BY <1>6, <1>7, <1>8, <1>10 DEF last

(* What an index or a name finds is a member.                              *)
LEMMA GetArrayItem ==
  ASSUME NEW h \in Heap, NEW R, NEW up, HeapGraph(h, R, up),
         NEW p \in Live(h), ~h.cell[p].isRef, NEW k \in 0 .. MaxItems,
         NEW i, i = get_array_item(h, p, k), i # NULL
  PROVE  i \in Live(h) /\ up[i] = p
BY WalkMembers DEF get_array_item

LEMMA GetObjectItem ==
  ASSUME NEW h \in Heap, NEW R, NEW up, HeapGraph(h, R, up),
         NEW p \in Live(h), ~h.cell[p].isRef, NEW n, NEW cs,
         NEW i, i = get_object_item(h, p, n, cs), i # NULL
  PROVE  /\ i \in Live(h) /\ up[i] = p
         /\ i \in {Walk(h, h.cell[p].child)[k] : k \in 0 .. MaxItems}
<1> DEFINE at == Walk(h, h.cell[p].child)
           Stops(k) == \/ at[k] = NULL
                       \/ LET s == h.cell[at[k]].string
                          IN  IF cs THEN s \in {n, NoCopy} ELSE case_insensitive_strcmp(s, n)
           All == {k \in 0 .. MaxItems : Stops(k)}
           First == CHOOSE k \in 0 .. MaxItems : Stops(k) /\ \A j \in 0 .. k - 1 : ~Stops(j)
<1>1. i = at[First]
  BY DEF get_object_item
<1>2. First \in 0 .. MaxItems
  <2>1. PICK m \in All : \A k \in All : m <= k
    <3>1. All # {}
      <4>1. PICK k \in 0 .. MaxItems : at[k] = NULL
        BY WalkEnds
      <4> QED
        BY <4>1
    <3>2. All \in SUBSET Nat
      BY ItemsFinite, SMTT(30)
    <3> HIDE DEF All
    <3> QED
      BY <3>1, <3>2, LeastNat
  <2>2. m \in 0 .. MaxItems /\ Stops(m) /\ MaxItems \in Nat
    BY <2>1, ItemsFinite
  <2> HIDE DEF Stops
  <2>3. \A j \in 0 .. m - 1 : ~Stops(j)
    <3> SUFFICES ASSUME NEW j \in 0 .. m - 1, Stops(j) PROVE FALSE
      OBVIOUS
    <3>1. j \in 0 .. MaxItems /\ ~ (m <= j)
      BY <2>2
    <3> QED
      BY <2>1, <3>1
  <2> QED
    BY <2>2, <2>3
<1> HIDE DEF First
<1> QED
  BY <1>1, <1>2, WalkMembers, SMTT(30)

-----------------------------------------------------------------------------
LEMMA JoinedItems ==
  ASSUME NEW s \in Seq(Item), NEW t \in Seq(Item)
  PROVE  /\ s \o t \in Seq(Item) /\ Len(s \o t) = Len(s) + Len(t)
         /\ \A i \in 1 .. Len(s) + Len(t) : (s \o t)[i] = IF i <= Len(s) THEN s[i] ELSE t[i - Len(s)]
         /\ Len(s) \in Nat /\ Len(t) \in Nat
BY ConcatProperties, LenProperties

LEMMA PartOfItems ==
  ASSUME NEW s \in Seq(Item), NEW m \in 1 .. Len(s) + 1, NEW n \in 0 .. Len(s), m <= n + 1
  PROVE  /\ SubSeq(s, m, n) \in Seq(Item) /\ Len(SubSeq(s, m, n)) = n - m + 1
         /\ \A i \in 1 .. n - m + 1 : SubSeq(s, m, n)[i] = s[m + i - 1]
<1>1. m \in Int /\ n \in Int /\ Len(s) \in Nat
  BY LenProperties
<1>2. \A i \in m .. n : s[i] \in Item
  BY <1>1, ElementOfSeq
<1>3. /\ SubSeq(s, m, n) \in Seq(Item)
      /\ Len(SubSeq(s, m, n)) = IF m <= n THEN n - m + 1 ELSE 0
      /\ \A i \in 1 .. n - m + 1 : SubSeq(s, m, n)[i] = s[m + i - 1]
  BY <1>1, <1>2, SubSeqProperties
<1>4. (IF m <= n THEN n - m + 1 ELSE 0) = n - m + 1
  BY <1>1
<1> QED
  BY <1>3, <1>4

LEMMA InsertedAt ==
  ASSUME NEW s \in Seq(Item), NEW k \in 1 .. Len(s) + 1, NEW e \in Item, NEW t, t = F!InsertAt(s, k, e)
  PROVE  /\ t \in Seq(Item) /\ Len(t) = Len(s) + 1
         /\ \A j \in 1 .. Len(t) : t[j] = IF j < k THEN s[j] ELSE IF j = k THEN e ELSE s[j - 1]
<1> DEFINE a == SubSeq(s, 1, k - 1)
           c == SubSeq(s, k, Len(s))
           b == a \o <<e>>
<1>1. Len(s) \in Nat /\ k \in Nat /\ k >= 1 /\ k <= Len(s) + 1 /\ t = b \o c
  BY LenProperties DEF F!InsertAt
<1>2. a \in Seq(Item) /\ Len(a) = k - 1 /\ \A i \in 1 .. k - 1 : a[i] = s[i]
  <2>1. /\ a \in Seq(Item) /\ Len(a) = k - 1 - 1 + 1
        /\ \A i \in 1 .. k - 1 - 1 + 1 : a[i] = s[1 + i - 1]
    <3>1. 1 \in 1 .. Len(s) + 1 /\ k - 1 \in 0 .. Len(s) /\ 1 <= k - 1 + 1
      BY <1>1
    <3> QED
      BY <3>1, PartOfItems
  <2> QED
    BY <1>1, <2>1
<1>3. c \in Seq(Item) /\ Len(c) = Len(s) - k + 1 /\ \A i \in 1 .. Len(s) - k + 1 : c[i] = s[k + i - 1]
  <2>1. Len(s) \in 0 .. Len(s) /\ k <= Len(s) + 1
    BY <1>1
  <2> QED
    BY <2>1, PartOfItems
<1>4. <<e>> \in Seq(Item) /\ Len(<<e>>) = 1 /\ <<e>>[1] = e
  OBVIOUS
<1> HIDE DEF a, c
<1>5. b \in Seq(Item) /\ Len(b) = k /\ \A i \in 1 .. k : b[i] = IF i < k THEN s[i] ELSE e
  <2>1. /\ b \in Seq(Item) /\ Len(b) = Len(a) + 1
        /\ \A i \in 1 .. Len(a) + 1 : b[i] = IF i <= Len(a) THEN a[i] ELSE <<e>>[i - Len(a)]
    BY <1>2, <1>4, JoinedItems
  <2> HIDE DEF b
  <2>2. ASSUME NEW i \in 1 .. k PROVE b[i] = IF i < k THEN s[i] ELSE e
    <3>1. CASE i < k
      BY <1>1, <1>2, <2>1, <3>1
    <3>2. CASE i = k
      <4>1. i - Len(a) = 1 /\ i \in 1 .. Len(a) + 1 /\ ~ (i <= Len(a))
        BY <1>1, <1>2, <3>2
      <4> QED
        BY <1>4, <2>1, <3>2, <4>1
    <3> QED
      BY <1>1, <3>1, <3>2
  <2> QED
    BY <1>1, <1>2, <2>1, <2>2
<1> HIDE DEF b
<1>6. /\ t \in Seq(Item) /\ Len(t) = Len(b) + Len(c)
      /\ \A i \in 1 .. Len(b) + Len(c) : t[i] = IF i <= Len(b) THEN b[i] ELSE c[i - Len(b)]
  <2>1. t = b \o c
    BY <1>1
  <2>2. b \in Seq(Item) /\ c \in Seq(Item)
    BY <1>3, <1>5
  <2> QED
    BY <2>1, <2>2, JoinedItems
<1>7. Len(t) = Len(s) + 1
  BY <1>1, <1>3, <1>5, <1>6
<1>8. ASSUME NEW j \in 1 .. Len(t) PROVE t[j] = IF j < k THEN s[j] ELSE IF j = k THEN e ELSE s[j - 1]
  <2>1. CASE j <= k
    BY <1>1, <1>3, <1>5, <1>6, <1>7, <2>1
  <2>2. CASE j > k
    <3>1. j - k \in 1 .. Len(s) - k + 1 /\ k + (j - k) - 1 = j - 1
      BY <1>1, <1>7, <2>2
    <3>2. c[j - k] = s[j - 1]
      BY <1>3, <3>1
    <3> QED
      BY <1>1, <1>3, <1>5, <1>6, <1>7, <2>2, <3>2
  <2> QED
    BY <1>1, <2>1, <2>2
<1> QED
  BY <1>6, <1>7, <1>8

LEMMA RemovedAt ==
  ASSUME NEW s \in Seq(Item), NEW k \in 1 .. Len(s), NEW t, t = F!RemoveAt(s, k)
  PROVE  /\ t \in Seq(Item) /\ Len(t) = Len(s) - 1
         /\ \A j \in 1 .. Len(t) : t[j] = IF j < k THEN s[j] ELSE s[j + 1]
<1> DEFINE a == SubSeq(s, 1, k - 1)
           c == SubSeq(s, k + 1, Len(s))
<1>1. Len(s) \in Nat /\ k \in Nat /\ k >= 1 /\ k <= Len(s) /\ t = a \o c
  BY LenProperties DEF F!RemoveAt
<1>2. a \in Seq(Item) /\ Len(a) = k - 1 /\ \A i \in 1 .. k - 1 : a[i] = s[i]
  <2>1. /\ a \in Seq(Item) /\ Len(a) = k - 1 - 1 + 1
        /\ \A i \in 1 .. k - 1 - 1 + 1 : a[i] = s[1 + i - 1]
    <3>1. 1 \in 1 .. Len(s) + 1 /\ k - 1 \in 0 .. Len(s) /\ 1 <= k - 1 + 1
      BY <1>1
    <3> QED
      BY <3>1, PartOfItems
  <2> QED
    BY <1>1, <2>1
<1>3. c \in Seq(Item) /\ Len(c) = Len(s) - k /\ \A i \in 1 .. Len(s) - k : c[i] = s[k + i]
  <2>1. k + 1 \in 1 .. Len(s) + 1 /\ Len(s) \in 0 .. Len(s) /\ k + 1 <= Len(s) + 1
    BY <1>1
  <2>2. /\ c \in Seq(Item) /\ Len(c) = Len(s) - (k + 1) + 1
        /\ \A i \in 1 .. Len(s) - (k + 1) + 1 : c[i] = s[(k + 1) + i - 1]
    BY <2>1, PartOfItems
  <2>3. Len(s) - (k + 1) + 1 = Len(s) - k /\ \A i \in 1 .. Len(s) - k : (k + 1) + i - 1 = k + i
    BY <1>1
  <2> HIDE DEF c
  <2> QED
    BY <2>2, <2>3
<1> HIDE DEF a, c
<1>6. /\ t \in Seq(Item) /\ Len(t) = Len(a) + Len(c)
      /\ \A i \in 1 .. Len(a) + Len(c) : t[i] = IF i <= Len(a) THEN a[i] ELSE c[i - Len(a)]
  <2>1. t = a \o c
    BY <1>1
  <2>2. a \in Seq(Item) /\ c \in Seq(Item)
    BY <1>2, <1>3
  <2> QED
    BY <2>1, <2>2, JoinedItems
<1>7. Len(t) = Len(s) - 1
  BY <1>1, <1>2, <1>3, <1>6
<1>8. ASSUME NEW j \in 1 .. Len(t) PROVE t[j] = IF j < k THEN s[j] ELSE s[j + 1]
  <2>1. CASE j < k
    BY <1>1, <1>2, <1>3, <1>6, <1>7, <2>1
  <2>2. CASE j >= k
    <3>1. j - (k - 1) \in 1 .. Len(s) - k /\ k + (j - (k - 1)) = j + 1
      BY <1>1, <1>7, <2>2
    <3>2. c[j - (k - 1)] = s[j + 1]
      BY <1>3, <3>1
    <3> QED
      BY <1>1, <1>2, <1>3, <1>6, <1>7, <2>2, <3>2, SMTT(30)
  <2> QED
    BY <1>1, <2>1, <2>2
<1> QED
  BY <1>6, <1>7, <1>8

-----------------------------------------------------------------------------
(* The items of s, and no others, follow each other from a on.             *)
Strung(N, a, s) ==
  /\ s \in Seq(Item)
  /\ a = IF Len(s) = 0 THEN NULL ELSE s[1]
  /\ \A k \in 1 .. Len(s) : N[s[k]] = IF k = Len(s) THEN NULL ELSE s[k + 1]

LEMMA StrungAhead ==
  ASSUME NEW N, NEW a, NEW s, NEW t, Strung(N, a, s), Strung(N, a, t)
  PROVE  Len(s) <= Len(t) /\ \A k \in 1 .. Len(s) : s[k] = t[k]
<1> DEFINE Bad == {k \in 1 .. Len(s) : ~ (k <= Len(t) /\ s[k] = t[k])}
<1>1. Len(s) \in Nat /\ Len(t) \in Nat /\ s \in Seq(Item) /\ t \in Seq(Item)
  BY LenProperties DEF Strung
<1>2. /\ \A k \in 1 .. Len(s) : s[k] # NULL
      /\ \A k \in 1 .. Len(t) : t[k] # NULL
  BY <1>1, NoItem, ElementOfSeq
<1>3. Bad = {}
  <2> SUFFICES ASSUME Bad # {} PROVE FALSE
    OBVIOUS
  <2>1. PICK m \in Bad : \A n \in Bad : m <= n
    <3>1. Bad \in SUBSET Nat
      BY <1>1
    <3> HIDE DEF Bad
    <3> QED
      BY <3>1, LeastNat
  <2>2. m \in 1 .. Len(s) /\ ~ (m <= Len(t) /\ s[m] = t[m])
    BY <2>1
  <2>3. m # 1
    <3> SUFFICES ASSUME m = 1 PROVE FALSE
      OBVIOUS
    <3>1. a = s[1] /\ a # NULL
      BY <1>1, <1>2, <2>2 DEF Strung
    <3>2. Len(t) # 0 /\ t[1] = a
      BY <3>1 DEF Strung
    <3> QED
      BY <1>1, <2>2, <3>1, <3>2
  <2>4. m - 1 \in 1 .. Len(s) /\ m - 1 # Len(s) /\ (m - 1) + 1 = m /\ ~ (m <= m - 1)
    BY <1>1, <2>2, <2>3
  <2>5. m - 1 <= Len(t) /\ s[m - 1] = t[m - 1]
    <3>1. m - 1 \notin Bad
      <4> HIDE DEF Bad
      <4> QED
        BY <2>1, <2>4
    <3> QED
      BY <2>4, <3>1
  <2>6. N[s[m - 1]] = s[m] /\ s[m] # NULL
    BY <1>2, <2>2, <2>4 DEF Strung
  <2>7. m - 1 \in 1 .. Len(t)
    BY <1>1, <2>4, <2>5
  <2>8. N[t[m - 1]] = IF m - 1 = Len(t) THEN NULL ELSE t[m]
    BY <2>4, <2>7 DEF Strung
  <2> QED
    BY <1>1, <2>2, <2>5, <2>6, <2>7, <2>8
<1>4. Len(s) <= Len(t)
  <2>1. CASE Len(s) = 0
    BY <1>1, <2>1
  <2>2. CASE Len(s) # 0
    <3>1. Len(s) \in 1 .. Len(s)
      BY <1>1, <2>2
    <3> QED
      BY <1>3, <3>1
  <2> QED
    BY <2>1, <2>2
<1> QED
  BY <1>3, <1>4

(* There is one such sequence. *)
LEMMA StrungOnly ==
  ASSUME NEW N, NEW a, NEW s, NEW t, Strung(N, a, s), Strung(N, a, t)
  PROVE  s = t
<1>1. Len(s) \in Nat /\ Len(t) \in Nat /\ s \in Seq(Item) /\ t \in Seq(Item)
  BY LenProperties DEF Strung
<1>2. Len(s) <= Len(t) /\ Len(t) <= Len(s) /\ \A k \in 1 .. Len(s) : s[k] = t[k]
  BY StrungAhead
<1>3. Len(s) = Len(t)
  BY <1>1, <1>2
<1> QED
  BY <1>1, <1>2, <1>3, SeqEqual

(* The members of an item are such a sequence. *)
LEMMA ChainIs ==
  ASSUME NEW h \in Heap, NEW R, NEW up, HeapGraph(h, R, up), NEW p \in Live(h), ~h.cell[p].isRef
  PROVE  Strung(Nx(h), Cd(h)[p], Chain(h, p))
<1> DEFINE w == Walk(h, h.cell[p].child)
           Ends == {k \in 0 .. MaxItems : w[k] = NULL}
           Dom == {n \in 1 .. MaxItems : w[n - 1] # NULL}
<1>1. PICK m \in Ends : \A n \in Ends : m <= n
  <2>1. Ends \in SUBSET Nat /\ Ends # {}
    BY ItemsFinite, WalkEnds
  <2> HIDE DEF Ends
  <2> QED
    BY <2>1, LeastNat
<1>2. m \in 0 .. MaxItems /\ MaxItems \in Nat /\ m \in Nat /\ w[m] = NULL
  BY <1>1, ItemsFinite
<1>3. p \in Item /\ h.cell[p].child \in Item \cup {NULL} /\ Cd(h)[p] = h.cell[p].child
  BY HeapTypes DEF Pointers
<1>4. /\ w \in [0 .. MaxItems -> Item \cup {NULL}] /\ w[0] = h.cell[p].child
      /\ \A n \in 1 .. MaxItems : w[n] = IF w[n - 1] = NULL THEN NULL ELSE Nx(h)[w[n - 1]]
  BY <1>3, WalkSteps
<1>5. Chain(h, p) = [k \in Dom |-> w[k - 1]]
  BY DEF Chain
<1> HIDE DEF w
<1>6. \A n \in 0 .. MaxItems : n < m => w[n] # NULL
  <2> SUFFICES ASSUME NEW n \in 0 .. MaxItems, n < m, w[n] = NULL PROVE FALSE
    OBVIOUS
  <2>1. n \in Ends /\ ~ (m <= n)
    BY <1>2
  <2> HIDE DEF Ends
  <2> QED
    BY <1>1, <2>1
<1>7. \A n \in 0 .. MaxItems : n >= m => w[n] = NULL
  <2> DEFINE Bad == {n \in 0 .. MaxItems : n >= m /\ w[n] # NULL}
  <2> SUFFICES ASSUME Bad # {} PROVE FALSE
    OBVIOUS
  <2>1. PICK l \in Bad : \A n \in Bad : l <= n
    <3>1. Bad \in SUBSET Nat
      BY <1>2
    <3> HIDE DEF Bad
    <3> QED
      BY <3>1, LeastNat
  <2>2. l \in 1 .. MaxItems /\ l - 1 \in 0 .. MaxItems /\ l - 1 >= m /\ w[l] # NULL /\ ~ (l <= l - 1)
    BY <1>2, <2>1
  <2>3. l - 1 \notin Bad
    <3> HIDE DEF Bad
    <3> QED
      BY <2>1, <2>2
  <2>4. w[l - 1] = NULL
    BY <2>2, <2>3
  <2> QED
    BY <1>4, <2>2, <2>4
<1>8. Dom = 1 .. m
  <2>1. ASSUME NEW n \in Dom PROVE n \in 1 .. m
    <3>1. n \in 1 .. MaxItems /\ n - 1 \in 0 .. MaxItems /\ ~ (n - 1 >= m)
      BY <1>2, <1>7
    <3> QED
      BY <1>2, <3>1
  <2>2. ASSUME NEW n \in 1 .. m PROVE n \in Dom
    <3>1. n \in 1 .. MaxItems /\ n - 1 \in 0 .. MaxItems /\ n - 1 < m
      BY <1>2
    <3> QED
      BY <1>6, <3>1
  <2> QED
    BY <2>1, <2>2
<1> DEFINE s == Chain(h, p)
<1>9. s = [k \in 1 .. m |-> w[k - 1]]
  BY <1>5, <1>8
<1> HIDE DEF s, Dom
<1>10. \A k \in 1 .. m : s[k] = w[k - 1] /\ s[k] \in Item
  <2> SUFFICES ASSUME NEW k \in 1 .. m PROVE s[k] = w[k - 1] /\ s[k] \in Item
    OBVIOUS
  <2>1. k - 1 \in 0 .. MaxItems /\ k - 1 < m
    BY <1>2
  <2>2. s[k] = w[k - 1]
    BY <1>9
  <2> QED
    BY <1>4, <1>6, <2>1, <2>2
<1>11. s \in Seq(Item) /\ Len(s) = m
  <2>1. s \in [1 .. m -> Item]
    BY <1>9, <1>10
  <2> QED
    BY <1>2, <2>1, LenProperties, SeqDef
<1>12. Cd(h)[p] = IF Len(s) = 0 THEN NULL ELSE s[1]
  <2>1. CASE m = 0
    BY <1>2, <1>3, <1>4, <1>11, <2>1
  <2>2. CASE m # 0
    <3>1. 1 \in 1 .. m
      BY <1>2, <2>2
    <3> QED
      BY <1>3, <1>4, <1>10, <1>11, <2>2, <3>1
  <2> QED
    BY <2>1, <2>2
<1>13. ASSUME NEW k \in 1 .. Len(s) PROVE Nx(h)[s[k]] = IF k = Len(s) THEN NULL ELSE s[k + 1]
  <2>1. k \in 1 .. m /\ k \in 1 .. MaxItems /\ k \in 0 .. MaxItems
    BY <1>2, <1>11
  <2>2. s[k] = w[k - 1] /\ w[k - 1] # NULL
    BY <1>10, <2>1, NoItem
  <2>3. w[k] = Nx(h)[s[k]]
    BY <1>4, <2>1, <2>2
  <2>4. CASE k = m
    BY <1>2, <1>11, <2>3, <2>4
  <2>5. CASE k # m
    <3>1. k + 1 \in 1 .. m /\ (k + 1) - 1 = k
      BY <1>2, <2>1, <2>5
    <3>2. s[k + 1] = w[k]
      BY <1>10, <3>1
    <3> QED
      BY <1>11, <2>3, <2>5, <3>2
  <2> QED
    BY <2>4, <2>5
<1>14. Strung(Nx(h), Cd(h)[p], s)
  BY <1>11, <1>12, <1>13 DEF Strung
<1> QED
  BY <1>14 DEF s

(* The members in the order of the list are all there are, each once.      *)
LEMMA ChainHolds ==
  ASSUME NEW h \in Heap, NEW R, NEW up, HeapGraph(h, R, up), NEW p \in Live(h), ~h.cell[p].isRef,
         NEW s, s = Chain(h, p)
  PROVE  /\ \A j : (\E k \in 1 .. Len(s) : s[k] = j) <=> j \in Live(h) /\ up[j] = p
         /\ \A a, b \in 1 .. Len(s) : s[a] = s[b] => a = b
         /\ \A k \in 1 .. Len(s) : Pv(h)[s[k]] = IF k = 1 THEN NULL ELSE s[k - 1]
<1> DEFINE L == Live(h)
           N == Nx(h)
           P == Pv(h)
           K == Kd(h)
<1>1. Strung(N, K[p], s)
  <2>1. p \in Item /\ Cd(h)[p] = K[p]
    BY HeapTypes DEF Cd, Kd
  <2> QED
    BY <2>1, ChainIs
<1>2. \A i \in L : Node(L, N, P, K, R, up, i)
  BY DEF HeapGraph, Graph
<1>3. L \in SUBSET Item /\ NULL \notin Item /\ Rooted(L, P, up) /\ p \in L
  BY NoItem DEF HeapGraph, Graph
<1> HIDE DEF L, N, P, K
<1>4. s \in Seq(Item) /\ Len(s) \in Nat /\ \A k \in 1 .. Len(s) : s[k] \in Item /\ s[k] # NULL
  <2>1. s \in Seq(Item)
    BY <1>1 DEF Strung
  <2> QED
    BY <1>3, <2>1, LenProperties, ElementOfSeq
<1>5. /\ Len(s) = 0 <=> K[p] = NULL
      /\ Len(s) # 0 => s[1] = K[p]
      /\ \A k \in 1 .. Len(s) : N[s[k]] = IF k = Len(s) THEN NULL ELSE s[k + 1]
  <2>1. Len(s) # 0 => 1 \in 1 .. Len(s)
    BY <1>4
  <2> QED
    BY <1>1, <1>4, <2>1 DEF Strung
<1> DEFINE Is(k) == s[k] \in L /\ up[s[k]] = p /\ P[s[k]] = IF k = 1 THEN NULL ELSE s[k - 1]
           Bad == {k \in 1 .. Len(s) : ~Is(k)}
<1>6. Bad = {}
  <2> SUFFICES ASSUME Bad # {} PROVE FALSE
    OBVIOUS
  <2>1. PICK m \in Bad : \A n \in Bad : m <= n
    <3>1. Bad \in SUBSET Nat
      BY <1>4
    <3> HIDE DEF Bad
    <3> QED
      BY <3>1, LeastNat
  <2>2. m \in 1 .. Len(s) /\ ~Is(m)
    BY <2>1
  <2>3. CASE m = 1
    <3>1. s[1] = K[p] /\ K[p] # NULL
      BY <1>4, <1>5, <2>2
    <3>2. Is(1)
      BY <1>2, <1>3, <3>1 DEF Node
    <3> QED
      BY <2>2, <2>3, <3>2
  <2>4. CASE m # 1
    <3>1. m - 1 \in 1 .. Len(s) /\ (m - 1) + 1 = m /\ m - 1 # Len(s) /\ ~ (m <= m - 1)
      BY <1>4, <2>2, <2>4
    <3>2. Is(m - 1)
      <4>1. m - 1 \notin Bad
        <5> HIDE DEF Bad
        <5> QED
          BY <2>1, <3>1
      <4> QED
        BY <3>1, <4>1
    <3>3. N[s[m - 1]] = s[m] /\ s[m] # NULL
      BY <1>4, <1>5, <2>2, <3>1
    <3>4. Is(m)
      BY <1>2, <2>4, <3>2, <3>3 DEF Node
    <3> QED
      BY <2>2, <3>4
  <2> QED
    BY <2>3, <2>4
<1>7. \A k \in 1 .. Len(s) : Is(k)
  BY <1>6
<1> HIDE DEF Bad
<1>8. ASSUME NEW j \in L, up[j] = p PROVE \E k \in 1 .. Len(s) : s[k] = j
  <2> DEFINE X == {i \in L : up[i] = p /\ ~ \E k \in 1 .. Len(s) : s[k] = i}
  <2> SUFFICES ASSUME X # {} PROVE FALSE
    BY <1>8
  <2>1. PICK x \in X : Par(P, up, x) \notin X
    <3>1. X \in SUBSET L
      OBVIOUS
    <3> HIDE DEF X
    <3> QED
      BY <1>3, <3>1 DEF Rooted
  <2>2. x \in L /\ up[x] = p /\ Node(L, N, P, K, R, up, x) /\ x # NULL
    BY <1>2, <1>3
  <2>3. CASE P[x] = NULL
    <3>1. x = K[p]
      BY <1>3, <2>2, <2>3 DEF Node
    <3>2. 1 \in 1 .. Len(s) /\ s[1] = x
      BY <1>4, <1>5, <2>2, <3>1
    <3> QED
      BY <3>2
  <2>4. CASE P[x] # NULL
    <3>1. P[x] \in L /\ N[P[x]] = x
      BY <2>2, <2>4 DEF Node
    <3>2. up[P[x]] = p
      BY <1>2, <2>2, <3>1 DEF Node
    <3>3. P[x] \notin X
      BY <2>1, <2>4 DEF Par
    <3>4. PICK k \in 1 .. Len(s) : s[k] = P[x]
      BY <3>1, <3>2, <3>3
    <3>5. k # Len(s) /\ s[k + 1] = x
      BY <1>5, <2>2, <3>1, <3>4
    <3>6. k + 1 \in 1 .. Len(s)
      BY <1>4, <3>5
    <3> QED
      BY <3>5, <3>6
  <2> QED
    BY <2>3, <2>4
<1>9. ASSUME NEW a \in 1 .. Len(s), NEW b \in 1 .. Len(s), s[a] = s[b], a < b PROVE FALSE
  <2> DEFINE Twice == {i \in 1 .. Len(s) : \E j \in 1 .. Len(s) : i < j /\ s[i] = s[j]}
  <2>1. PICK m \in Twice : \A n \in Twice : m <= n
    <3>1. Twice \in SUBSET Nat /\ Twice # {}
      BY <1>4, <1>9
    <3> HIDE DEF Twice
    <3> QED
      BY <3>1, LeastNat
  <2>2. PICK j \in 1 .. Len(s) : m < j /\ s[m] = s[j]
    BY <2>1
  <2>3. m \in 1 .. Len(s)
    BY <2>1
  <2>4. j # 1 /\ j - 1 \in 1 .. Len(s) /\ P[s[j]] = s[j - 1] /\ s[j - 1] # NULL
    BY <1>4, <1>7, <2>2, <2>3
  <2>5. m # 1 /\ P[s[m]] = s[m - 1]
    BY <1>7, <2>2, <2>3, <2>4, SMTT(30)
  <2>6. m - 1 \in 1 .. Len(s) /\ m - 1 < j - 1 /\ s[m - 1] = s[j - 1] /\ ~ (m <= m - 1)
    BY <1>4, <2>2, <2>3, <2>4, <2>5
  <2>7. m - 1 \in Twice
    BY <2>4, <2>6
  <2> HIDE DEF Twice
  <2> QED
    BY <2>1, <2>6, <2>7
<1>10. \A a, b \in 1 .. Len(s) : s[a] = s[b] => a = b
  <2> SUFFICES ASSUME NEW a \in 1 .. Len(s), NEW b \in 1 .. Len(s), s[a] = s[b], a # b PROVE FALSE
    OBVIOUS
  <2>1. a < b \/ b < a
    BY <1>4
  <2> QED
    BY <1>9, <2>1
<1> QED
  BY <1>7, <1>8, <1>10 DEF L, P

-----------------------------------------------------------------------------
(* A heap that is whole, with the strings it owns, and what each operator  *)
(* on pointers makes of it.                                                *)
Keys(h) == {i \in Live(h) : OwnsKey(h.cell[i])}
Values(h) == {i \in Live(h) : OwnsValue(h.cell[i])}

(* As StringsBalanced, of any heap. *)
Counted(h) == ~h.misused /\ h.blocks = Cardinality(Keys(h)) + Cardinality(Values(h))

Cleared(h) == \A i \in Item \ Live(h) : h.cell[i] = Zeroed

Named(h, up) ==
  \A i \in Live(h) : up[i] # NULL /\ h.cell[up[i]].type = "object" => h.cell[i].string # NoName

(* What a reference shows is a list that an item of its type owns.         *)
Shown(h, up, c) ==
  c.isRef /\ c.child # NULL =>
    c.child \in Live(h) /\ up[c.child] # NULL /\ h.cell[up[c.child]].type = c.type

Whole(h, R, up) ==
  /\ h \in Heap /\ Cleared(h) /\ Counted(h)
  /\ HeapGraph(h, R, up)
  /\ Named(h, up)
  /\ \A r \in Live(h) : Shown(h, up, h.cell[r])

(* Only pointers were written, and those of a reference to what it shows   *)
(* were not.                                                               *)
SameItem(c, d) ==
  /\ c.live = d.live /\ c.type = d.type /\ c.isRef = d.isRef /\ c.string = d.string
  /\ c.isConst = d.isConst /\ c.value = d.value

Rewired(h, g) ==
  /\ g \in Heap /\ g.blocks = h.blocks /\ g.misused = h.misused
  /\ \A j \in Item : SameItem(h.cell[j], g.cell[j])

LEMMA RewiredTwice ==
  ASSUME NEW h, NEW g, NEW e, Rewired(h, g), Rewired(g, e)
  PROVE  Rewired(h, e)
BY DEF Rewired, SameItem

LEMMA RewiredSelf == ASSUME NEW h \in Heap PROVE Rewired(h, h)
BY DEF Rewired, SameItem

LEMMA CellsOfHeap ==
  ASSUME NEW h \in Heap
  PROVE  \A j \in Item : h.cell[j] \in Cell
BY DEF Heap

LEMMA SetNextIs ==
  ASSUME NEW h \in Heap, NEW i \in Item \cup {NULL}, NEW v \in Item \cup {NULL},
         NEW g, g = SetNext(h, i, v)
  PROVE  /\ Rewired(h, g)
         /\ \A j \in Item : Nx(g)[j] = IF j = i THEN v ELSE Nx(h)[j]
         /\ Pv(g) = Pv(h) /\ Cd(g) = Cd(h)
<1>1. CASE i = NULL
  <2>1. g = h
    BY <1>1 DEF SetNext
  <2> QED
    BY <1>1, <2>1, NoItem, RewiredSelf
<1>2. CASE i # NULL
  <2>1. g = [h EXCEPT !.cell[i].next = v] /\ i \in Item
    BY <1>2 DEF SetNext
  <2>2. g.cell = [h.cell EXCEPT ![i] = [h.cell[i] EXCEPT !.next = v]]
    BY <2>1 DEF Heap
  <2>3. g.blocks = h.blocks /\ g.misused = h.misused
    BY <2>1 DEF Heap
  <2>4. g \in Heap
    BY <2>1 DEF Heap, Cell
  <2>5. \A j \in Item : SameItem(h.cell[j], g.cell[j])
    BY <2>2 DEF Heap, Cell, SameItem
  <2>6. \A j \in Item : g.cell[j].next = IF j = i THEN v ELSE h.cell[j].next
    BY <2>1, <2>2 DEF Heap, Cell
  <2>7. \A j \in Item : g.cell[j].prev = h.cell[j].prev /\ g.cell[j].child = h.cell[j].child
    BY <2>2 DEF Heap, Cell
  <2> QED
    BY <2>3, <2>4, <2>5, <2>6, <2>7 DEF Rewired, Nx, Pv, Cd
<1> QED
  BY <1>1, <1>2

LEMMA SetPrevIs ==
  ASSUME NEW h \in Heap, NEW i \in Item \cup {NULL}, NEW v \in Item \cup {NULL},
         NEW g, g = SetPrev(h, i, v)
  PROVE  /\ Rewired(h, g)
         /\ \A j \in Item : Pv(g)[j] = IF j = i THEN v ELSE Pv(h)[j]
         /\ Nx(g) = Nx(h) /\ Cd(g) = Cd(h)
<1>1. CASE i = NULL
  <2>1. g = h
    BY <1>1 DEF SetPrev
  <2> QED
    BY <1>1, <2>1, NoItem, RewiredSelf
<1>2. CASE i # NULL
  <2>1. g = [h EXCEPT !.cell[i].prev = v] /\ i \in Item
    BY <1>2 DEF SetPrev
  <2>2. g.cell = [h.cell EXCEPT ![i] = [h.cell[i] EXCEPT !.prev = v]]
    BY <2>1 DEF Heap
  <2>3. g.blocks = h.blocks /\ g.misused = h.misused
    BY <2>1 DEF Heap
  <2>4. g \in Heap
    BY <2>1 DEF Heap, Cell
  <2>5. \A j \in Item : SameItem(h.cell[j], g.cell[j])
    BY <2>2 DEF Heap, Cell, SameItem
  <2>6. \A j \in Item : g.cell[j].prev = IF j = i THEN v ELSE h.cell[j].prev
    BY <2>1, <2>2 DEF Heap, Cell
  <2>7. \A j \in Item : g.cell[j].next = h.cell[j].next /\ g.cell[j].child = h.cell[j].child
    BY <2>2 DEF Heap, Cell
  <2> QED
    BY <2>3, <2>4, <2>5, <2>6, <2>7 DEF Rewired, Nx, Pv, Cd
<1> QED
  BY <1>1, <1>2

LEMMA SetChildIs ==
  ASSUME NEW h \in Heap, NEW i \in Item, NEW v \in Item \cup {NULL},
         NEW g, g = SetChild(h, i, v)
  PROVE  /\ Rewired(h, g)
         /\ \A j \in Item : Cd(g)[j] = IF j = i THEN v ELSE Cd(h)[j]
         /\ Nx(g) = Nx(h) /\ Pv(g) = Pv(h)
<1>1. g = [h EXCEPT !.cell[i].child = v]
  BY DEF SetChild
<1>2. g.cell = [h.cell EXCEPT ![i] = [h.cell[i] EXCEPT !.child = v]]
  BY <1>1 DEF Heap
<1>3. g.blocks = h.blocks /\ g.misused = h.misused
  BY <1>1 DEF Heap
<1>4. g \in Heap
  BY <1>1 DEF Heap, Cell
<1>5. \A j \in Item : SameItem(h.cell[j], g.cell[j])
  BY <1>2 DEF Heap, Cell, SameItem
<1>6. \A j \in Item : g.cell[j].child = IF j = i THEN v ELSE h.cell[j].child
  BY <1>1, <1>2 DEF Heap, Cell
<1>7. \A j \in Item : g.cell[j].next = h.cell[j].next /\ g.cell[j].prev = h.cell[j].prev
  BY <1>2 DEF Heap, Cell
<1> QED
  BY <1>3, <1>4, <1>5, <1>6, <1>7 DEF Rewired, Nx, Pv, Cd

(* Pointers written in live items, and in no reference to what it shows,   *)
(* leave the heap whole if the lists are.                                  *)
LEMMA RewiredWhole ==
  ASSUME NEW h, NEW R, NEW up, Whole(h, R, up), NEW g, Rewired(h, g),
         \A j \in Item \ Live(h) : /\ Nx(g)[j] = Nx(h)[j] /\ Pv(g)[j] = Pv(h)[j]
                                   /\ Cd(g)[j] = Cd(h)[j],
         \A j \in Item : h.cell[j].isRef => Cd(g)[j] = Cd(h)[j],
         NEW R2, NEW up2, HeapGraph(g, R2, up2), Named(h, up2),
         \A r \in Live(h) : Shown(h, up2, h.cell[r])
  PROVE  Whole(g, R2, up2)
<1>1. h \in Heap /\ g \in Heap /\ g.blocks = h.blocks /\ g.misused = h.misused
  BY DEF Whole, Rewired
<1>2. \A j \in Item : SameItem(h.cell[j], g.cell[j])
  BY DEF Rewired
<1>3. Live(g) = Live(h)
  BY <1>2 DEF Live, SameItem
<1>4. \A j \in Item : h.cell[j] \in Cell /\ g.cell[j] \in Cell
  BY <1>1, CellsOfHeap
<1>5. \A j \in Item : (OwnsKey(h.cell[j]) <=> OwnsKey(g.cell[j])) /\ (OwnsValue(h.cell[j]) <=> OwnsValue(g.cell[j]))
  BY <1>2 DEF SameItem, OwnsKey, OwnsValue
<1>6. Live(h) \in SUBSET Item
  BY DEF Live
<1>7. Keys(g) = Keys(h) /\ Values(g) = Values(h)
  BY <1>3, <1>5, <1>6 DEF Keys, Values
<1>8. Counted(g)
  BY <1>1, <1>7 DEF Counted, Whole
<1>9. Cleared(g)
  <2> SUFFICES ASSUME NEW j \in Item \ Live(h) PROVE g.cell[j] = h.cell[j]
    BY <1>3 DEF Cleared, Whole
  <2>1. /\ g.cell[j].next = h.cell[j].next /\ g.cell[j].prev = h.cell[j].prev
        /\ g.cell[j].child = h.cell[j].child
    BY DEF Nx, Pv, Cd
  <2>2. g.cell[j] \in Cell /\ h.cell[j] \in Cell /\ SameItem(h.cell[j], g.cell[j])
    BY <1>2, <1>4
  <2> QED
    BY <2>1, <2>2 DEF Cell, SameItem
<1>10. Named(g, up2)
  <2> SUFFICES ASSUME NEW i \in Live(h), up2[i] # NULL, g.cell[up2[i]].type = "object"
               PROVE  g.cell[i].string # NoName
    BY <1>3 DEF Named
  <2>1. up2[i] \in Item
    BY <1>3, <1>6 DEF HeapGraph, Graph, Pointers
  <2>2. i \in Item
    BY <1>6
  <2> QED
    BY <1>2, <2>1, <2>2 DEF SameItem, Named
<1>11. ASSUME NEW r \in Live(g) PROVE Shown(g, up2, g.cell[r])
  <2>1. r \in Live(h) /\ r \in Item
    BY <1>3, <1>6
  <2> SUFFICES ASSUME g.cell[r].isRef, g.cell[r].child # NULL
               PROVE  LET c == g.cell[r].child
                      IN  c \in Live(g) /\ up2[c] # NULL /\ g.cell[up2[c]].type = g.cell[r].type
    BY DEF Shown
  <2>2. h.cell[r].isRef /\ g.cell[r].type = h.cell[r].type
    BY <1>2, <2>1 DEF SameItem
  <2>3. g.cell[r].child = h.cell[r].child
    BY <2>1, <2>2 DEF Cd
  <2> DEFINE c == h.cell[r].child
  <2>4. c \in Live(h) /\ up2[c] # NULL /\ h.cell[up2[c]].type = h.cell[r].type
    BY <2>1, <2>2, <2>3 DEF Shown
  <2>5. up2[c] \in Item
    BY <1>6, <2>4 DEF HeapGraph, Graph, Pointers
  <2>6. g.cell[up2[c]].type = h.cell[up2[c]].type
    BY <1>2, <2>5 DEF SameItem
  <2> QED
    BY <1>3, <2>2, <2>3, <2>4, <2>6
<1> QED
  BY <1>1, <1>8, <1>9, <1>10, <1>11 DEF Whole

LEMMA KdIs ==
  ASSUME NEW h \in Heap, NEW g, Rewired(h, g)
  PROVE  /\ Live(g) = Live(h)
         /\ \A j \in Item : Kd(h)[j] = IF h.cell[j].isRef THEN NULL ELSE Cd(h)[j]
         /\ \A j \in Item : Kd(g)[j] = IF h.cell[j].isRef THEN NULL ELSE Cd(g)[j]
BY DEF Rewired, SameItem, Kd, Cd, Live

LEMMA WholeParts ==
  ASSUME NEW h, NEW R, NEW up, Whole(h, R, up)
  PROVE  /\ h \in Heap /\ HeapGraph(h, R, up) /\ R \in SUBSET Live(h) /\ up \in Pointers
         /\ Live(h) \in SUBSET Item /\ NULL \notin Item
         /\ \A k \in R : Pv(h)[k] = NULL /\ up[k] = NULL
         /\ \A j \in Item \ Live(h) : Nx(h)[j] = NULL /\ Pv(h)[j] = NULL /\ Cd(h)[j] = NULL
                                     /\ Kd(h)[j] = NULL /\ ~h.cell[j].isRef
<1>1. h \in Heap /\ HeapGraph(h, R, up) /\ Cleared(h)
  BY DEF Whole
<1>2. R \in SUBSET Live(h) /\ up \in Pointers /\ Live(h) \in SUBSET Item
  BY <1>1 DEF HeapGraph, Graph
<1>3. \A k \in R : Pv(h)[k] = NULL /\ up[k] = NULL
  BY <1>1, <1>2 DEF HeapGraph, Graph, Node
<1>4. \A j \in Item \ Live(h) : h.cell[j] = Zeroed
  BY <1>1 DEF Cleared
<1>5. Zeroed.next = NULL /\ Zeroed.prev = NULL /\ Zeroed.child = NULL /\ Zeroed.isRef = FALSE
  BY DEF Zeroed
<1> HIDE DEF Zeroed
<1>6. \A j \in Item \ Live(h) : Nx(h)[j] = NULL /\ Pv(h)[j] = NULL /\ Cd(h)[j] = NULL
                               /\ Kd(h)[j] = NULL /\ ~h.cell[j].isRef
  BY <1>4, <1>5 DEF Nx, Pv, Cd, Kd
<1> QED
  BY <1>1, <1>2, <1>3, <1>6, NoItem

(* The held list of k gets the owner p: what it may be called is up to p.  *)
Suits(h, up, p, k) ==
  p # NULL /\ h.cell[p].type = "object" =>
    \A x \in Doomed(h, k) : up[x] = NULL => h.cell[x].string # NoName

Adopted(h, up, up2, p, k) ==
  \A x \in Item : up2[x] = up[x] \/ (x \in Doomed(h, k) /\ up[x] = NULL /\ up2[x] = p)

Appends(h, R, up, k, q, g) ==
  /\ Rewired(h, g)
  /\ \A j \in Item : Nx(g)[j] = IF j = q THEN k ELSE Nx(h)[j]
  /\ \A j \in Item : Pv(g)[j] = IF j = k THEN q ELSE Pv(h)[j]
  /\ Cd(g) = Cd(h)
  /\ \E up2 \in Pointers : Whole(g, R \ {k}, up2) /\ Adopted(h, up, up2, up[q], k)

LEMMA AppendWhole ==
  ASSUME NEW h, NEW R, NEW up, Whole(h, R, up), NEW k \in R,
         NEW q \in Live(h), Nx(h)[q] = NULL, q \notin Doomed(h, k), Suits(h, up, up[q], k),
         NEW g, g = suffix_object(h, q, k)
  PROVE  Appends(h, R, up, k, q, g)
<1>1. /\ h \in Heap /\ HeapGraph(h, R, up) /\ R \in SUBSET Live(h) /\ up \in Pointers
      /\ Live(h) \in SUBSET Item /\ NULL \notin Item /\ up[k] = NULL
      /\ q \in Item /\ k \in Item /\ k \in Live(h)
  BY WholeParts
<1> DEFINE e == SetNext(h, q, k)
<1>2. g = SetPrev(e, k, q)
  BY DEF suffix_object
<1>3. /\ Rewired(h, e) /\ \A j \in Item : Nx(e)[j] = IF j = q THEN k ELSE Nx(h)[j]
      /\ Pv(e) = Pv(h) /\ Cd(e) = Cd(h) /\ e \in Heap
  <2>1. e = SetNext(h, q, k)
    OBVIOUS
  <2> HIDE DEF e
  <2> QED
    <3>1. /\ Rewired(h, e) /\ \A j \in Item : Nx(e)[j] = IF j = q THEN k ELSE Nx(h)[j]
          /\ Pv(e) = Pv(h) /\ Cd(e) = Cd(h)
      BY <1>1, <2>1, SetNextIs
    <3>2. e \in Heap
      BY <3>1 DEF Rewired
    <3> QED
      BY <3>1, <3>2
<1> HIDE DEF e
<1>4. /\ Rewired(e, g) /\ \A j \in Item : Pv(g)[j] = IF j = k THEN q ELSE Pv(e)[j]
      /\ Nx(g) = Nx(e) /\ Cd(g) = Cd(e)
  BY <1>1, <1>2, <1>3, SetPrevIs
<1>5. Rewired(h, g)
  BY <1>3, <1>4, RewiredTwice
<1>6. /\ \A j \in Item : Nx(g)[j] = IF j = q THEN k ELSE Nx(h)[j]
      /\ \A j \in Item : Pv(g)[j] = IF j = k THEN q ELSE Pv(h)[j]
      /\ Cd(g) = Cd(h)
  BY <1>3, <1>4
<1>7. g \in Heap /\ Live(g) = Live(h) /\ Kd(g) = Kd(h)
  <2>1. g \in Heap /\ Live(g) = Live(h)
    BY <1>1, <1>5, KdIs DEF Rewired
  <2>2. \A j \in Item : Kd(g)[j] = Kd(h)[j]
    BY <1>1, <1>5, <1>6, KdIs
  <2> QED
    BY <2>1, <2>2 DEF Kd
<1> DEFINE T == Doomed(h, k)
<1>8. T \in SUBSET Live(h) /\ Tree(Nx(h), Pv(h), Kd(h), up, k, T)
  BY <1>1, DoomedTree
<1>9. PICK S \in SUBSET T : List(Nx(h), Pv(h), up, k, S)
  BY <1>1, HeldList
<1> HIDE DEF T
<1> DEFINE up2 == [x \in Item |-> IF x \in S THEN up[q] ELSE up[x]]
<1>10. up2 \in Pointers /\ \A x \in Item : up2[x] = IF x \in S THEN up[q] ELSE up[x]
  BY <1>1 DEF Pointers
<1> HIDE DEF up2
<1>11. \A x \in S : up[x] = NULL /\ x \in Item /\ x \in T
  BY <1>1, <1>8, <1>9 DEF List
<1>12. HeapGraph(g, R \ {k}, up2)
  <2>1. Nx(g) \in Pointers /\ Pv(g) \in Pointers
    BY <1>7, HeapTypes
  <2>2. Graph(Live(h), Nx(g), Pv(g), Kd(h), R \ {k}, up2)
    <3>1. Graph(Live(h), Nx(h), Pv(h), Kd(h), R, up) /\ q \notin T
      BY <1>1 DEF HeapGraph, T
    <3> QED
      BY <1>6, <1>8, <1>9, <1>10, <2>1, <3>1, GraphAppend
  <2> QED
    BY <1>7, <2>2 DEF HeapGraph
<1>13. Adopted(h, up, up2, up[q], k)
  BY <1>10, <1>11 DEF Adopted, T
<1>14. Named(h, up2)
  <2> SUFFICES ASSUME NEW x \in Live(h), up2[x] # NULL, h.cell[up2[x]].type = "object"
               PROVE  h.cell[x].string # NoName
    BY DEF Named
  <2>1. CASE x \in S
    BY <1>10, <1>11, <2>1 DEF Suits, T
  <2>2. CASE x \notin S
    BY <1>1, <1>10, <2>2 DEF Whole, Named
  <2> QED
    BY <2>1, <2>2
<1>15. ASSUME NEW r \in Live(h) PROVE Shown(h, up2, h.cell[r])
  <2>1. Shown(h, up, h.cell[r])
    BY DEF Whole
  <2>2. \A x \in Live(h) : up[x] # NULL => up2[x] = up[x]
    BY <1>1, <1>10, <1>11
  <2> QED
    BY <2>1, <2>2 DEF Shown
<1>16. \A j \in Item \ Live(h) : /\ Nx(g)[j] = Nx(h)[j] /\ Pv(g)[j] = Pv(h)[j]
                               /\ Cd(g)[j] = Cd(h)[j]
  BY <1>1, <1>6
<1>17. Whole(g, R \ {k}, up2)
  BY <1>5, <1>6, <1>12, <1>14, <1>15, <1>16, RewiredWhole
<1> QED
  BY <1>5, <1>6, <1>10, <1>13, <1>17 DEF Appends

Attaches(h, R, up, k, p, g) ==
  /\ Rewired(h, g) /\ Nx(g) = Nx(h) /\ Pv(g) = Pv(h)
  /\ \A j \in Item : Cd(g)[j] = IF j = p THEN k ELSE Cd(h)[j]
  /\ \E up2 \in Pointers : Whole(g, R \ {k}, up2) /\ Adopted(h, up, up2, p, k)

LEMMA AttachWhole ==
  ASSUME NEW h, NEW R, NEW up, Whole(h, R, up), NEW k \in R,
         NEW p \in Live(h), ~h.cell[p].isRef, Cd(h)[p] = NULL, p \notin Doomed(h, k),
         Suits(h, up, p, k),
         NEW g, g = SetChild(h, p, k)
  PROVE  Attaches(h, R, up, k, p, g)
<1>1. /\ h \in Heap /\ HeapGraph(h, R, up) /\ R \in SUBSET Live(h) /\ up \in Pointers
      /\ Live(h) \in SUBSET Item /\ NULL \notin Item /\ up[k] = NULL
      /\ p \in Item /\ k \in Item /\ k \in Live(h)
  BY WholeParts
<1>2. /\ Rewired(h, g) /\ Nx(g) = Nx(h) /\ Pv(g) = Pv(h)
      /\ \A j \in Item : Cd(g)[j] = IF j = p THEN k ELSE Cd(h)[j]
  BY <1>1, SetChildIs
<1>3. g \in Heap /\ Live(g) = Live(h)
  BY <1>1, <1>2, KdIs DEF Rewired
<1>4. Kd(h)[p] = NULL /\ \A j \in Item : Kd(g)[j] = IF j = p THEN k ELSE Kd(h)[j]
  BY <1>1, <1>2, KdIs
<1> DEFINE T == Doomed(h, k)
<1>5. T \in SUBSET Live(h) /\ Tree(Nx(h), Pv(h), Kd(h), up, k, T)
  BY <1>1, DoomedTree
<1>6. PICK S \in SUBSET T : List(Nx(h), Pv(h), up, k, S)
  BY <1>1, HeldList
<1> HIDE DEF T
<1> DEFINE up2 == [x \in Item |-> IF x \in S THEN p ELSE up[x]]
<1>7. up2 \in Pointers /\ \A x \in Item : up2[x] = IF x \in S THEN p ELSE up[x]
  BY <1>1 DEF Pointers
<1> HIDE DEF up2
<1>8. \A x \in S : up[x] = NULL /\ x \in Item /\ x \in T
  BY <1>1, <1>5, <1>6 DEF List
<1>9. HeapGraph(g, R \ {k}, up2)
  <2>1. Kd(g) \in Pointers
    BY <1>3, HeapTypes
  <2>2. Graph(Live(h), Nx(h), Pv(h), Kd(g), R \ {k}, up2)
    <3>1. Graph(Live(h), Nx(h), Pv(h), Kd(h), R, up) /\ p \notin T
      BY <1>1 DEF HeapGraph, T
    <3> QED
      BY <1>4, <1>5, <1>6, <1>7, <2>1, <3>1, GraphAttach
  <2> QED
    BY <1>2, <1>3, <2>2 DEF HeapGraph
<1>10. Adopted(h, up, up2, p, k)
  BY <1>7, <1>8 DEF Adopted, T
<1>11. Named(h, up2)
  <2> SUFFICES ASSUME NEW x \in Live(h), up2[x] # NULL, h.cell[up2[x]].type = "object"
               PROVE  h.cell[x].string # NoName
    BY DEF Named
  <2>1. CASE x \in S
    BY <1>7, <1>8, <2>1 DEF Suits, T
  <2>2. CASE x \notin S
    BY <1>1, <1>7, <2>2 DEF Whole, Named
  <2> QED
    BY <2>1, <2>2
<1>12. ASSUME NEW r \in Live(h) PROVE Shown(h, up2, h.cell[r])
  <2>1. Shown(h, up, h.cell[r])
    BY DEF Whole
  <2>2. \A x \in Live(h) : up[x] # NULL => up2[x] = up[x]
    BY <1>1, <1>7, <1>8
  <2> QED
    BY <2>1, <2>2 DEF Shown
<1>13. \A j \in Item \ Live(h) : /\ Nx(g)[j] = Nx(h)[j] /\ Pv(g)[j] = Pv(h)[j]
                               /\ Cd(g)[j] = Cd(h)[j]
  BY <1>1, <1>2
<1>14. \A j \in Item : h.cell[j].isRef => Cd(g)[j] = Cd(h)[j]
  BY <1>2
<1>15. Whole(g, R \ {k}, up2)
  BY <1>2, <1>9, <1>11, <1>12, <1>13, <1>14, RewiredWhole
<1> QED
  BY <1>2, <1>7, <1>10, <1>15 DEF Attaches

(* Below a held item with no sibling every item has an owner.              *)
LEMMA OneRoot ==
  ASSUME NEW h, NEW R, NEW up, Whole(h, R, up), NEW k \in R, Nx(h)[k] = NULL,
         NEW x \in Doomed(h, k), up[x] = NULL
  PROVE  x = k
<1>1. /\ h \in Heap /\ HeapGraph(h, R, up) /\ Live(h) \in SUBSET Item /\ NULL \notin Item
  BY WholeParts
<1> DEFINE T == Doomed(h, k)
           N == Nx(h)
           P == Pv(h)
           X == {y \in T : y # k /\ up[y] = NULL}
<1>2. T \in SUBSET Live(h) /\ Tree(N, P, Kd(h), up, k, T)
  BY <1>1, DoomedTree
<1>3. \A i \in Live(h) : Node(Live(h), N, P, Kd(h), R, up, i)
  BY <1>1 DEF HeapGraph, Graph
<1>4. Rooted(Live(h), P, up)
  BY <1>1 DEF HeapGraph, Graph
<1> HIDE DEF T, N, P
<1> SUFFICES ASSUME x # k PROVE FALSE
  OBVIOUS
<1>5. X # {}
  BY DEF T
<1>6. PICK y \in X : Par(P, up, y) \notin X
  <2>1. X \in SUBSET Live(h)
    BY <1>2
  <2> HIDE DEF X
  <2> QED
    BY <1>4, <1>5, <2>1 DEF Rooted
<1>7. y \in T /\ y # k /\ up[y] = NULL /\ y \in Live(h) /\ Par(P, up, y) \in T
  BY <1>2, <1>6 DEF Tree
<1>8. P[y] # NULL /\ Par(P, up, y) = P[y]
  BY <1>1, <1>2, <1>7 DEF Par
<1>9. P[y] \in T /\ N[P[y]] = y /\ P[y] \in Live(h)
  BY <1>2, <1>3, <1>7, <1>8 DEF Node
<1>10. up[P[y]] = up[y]
  BY <1>1, <1>3, <1>7, <1>9 DEF Node
<1>11. P[y] # k
  <2>1. N[k] = NULL
    BY DEF N
  <2> QED
    BY <1>1, <1>7, <1>9, <2>1
<1> QED
  BY <1>6, <1>7, <1>8, <1>9, <1>10, <1>11

(* What no call may lose: the application's items have no siblings.        *)
Alone(h, R) == \A k \in R : Nx(h)[k] = NULL

(* What is there before and after is a reference after if it was before.   *)
Kept(h, g) == \A j \in Live(h) \cap Live(g) : g.cell[j].isRef = h.cell[j].isRef

LEMMA RewiredKept ==
  ASSUME NEW h \in Heap, NEW g, Rewired(h, g)
  PROVE  Live(g) = Live(h) /\ Kept(h, g)
BY DEF Rewired, SameItem, Live, Kept

(* The item k goes to the end of the members of p.                         *)
LEMMA AddWhole ==
  ASSUME NEW h, NEW R, NEW up, Whole(h, R, up), Alone(h, R), NEW k \in R,
         NEW p \in Live(h), ~h.cell[p].isRef, p \notin Doomed(h, k),
         h.cell[p].type = "object" => h.cell[k].string # NoName,
         NEW g, g = add_item_to_array(h, p, k)
  PROVE  /\ (\E up2 : Whole(g, R \ {k}, up2)) /\ Alone(g, R \ {k})
         /\ Live(g) = Live(h) /\ Kept(h, g)
<1>1. /\ h \in Heap /\ HeapGraph(h, R, up) /\ R \in SUBSET Live(h) /\ up \in Pointers
      /\ Live(h) \in SUBSET Item /\ NULL \notin Item /\ p \in Item
      /\ \A i \in R : up[i] = NULL
  BY WholeParts
<1>2. Suits(h, up, p, k)
  <2>1. Nx(h)[k] = NULL
    BY DEF Alone
  <2> QED
    BY <2>1, OneRoot DEF Suits
<1> DEFINE w == Walk(h, h.cell[p].child)
<1>3. Cd(h)[p] \in Item \cup {NULL} /\ Cd(h)[p] = h.cell[p].child
  BY <1>1, HeapTypes DEF Pointers
<1>4. w[0] = Cd(h)[p]
  BY <1>1, <1>3, WalkSteps
<1>5. g = IF w[0] = NULL THEN SetChild(h, p, k) ELSE suffix_object(h, w[LastOf(w)], k)
  BY DEF add_item_to_array, LastOf
<1>6. w = Walk(h, h.cell[p].child)
  OBVIOUS
<1> HIDE DEF w
<1>7. CASE w[0] = NULL
  <2>1. g = SetChild(h, p, k) /\ Cd(h)[p] = NULL
    BY <1>4, <1>5, <1>7
  <2>3. /\ Rewired(h, g) /\ Nx(g) = Nx(h) /\ Pv(g) = Pv(h)
        /\ \A j \in Item : Cd(g)[j] = IF j = p THEN k ELSE Cd(h)[j]
        /\ \E up2 \in Pointers : Whole(g, R \ {k}, up2) /\ Adopted(h, up, up2, p, k)
    <3>1. Attaches(h, R, up, k, p, g)
      BY <1>2, <2>1, AttachWhole
    <3> QED
      BY <3>1 DEF Attaches
  <2>2. Nx(g) = Nx(h) /\ \E up2 \in Pointers : Whole(g, R \ {k}, up2)
    BY <2>3
  <2>4. Live(g) = Live(h) /\ Kept(h, g)
    BY <1>1, <2>3, RewiredKept
  <2> QED
    BY <2>2, <2>4 DEF Alone
<1>8. CASE w[0] # NULL
  <2> DEFINE q == w[LastOf(w)]
  <2>1. q \in Live(h) /\ up[q] = p /\ Nx(h)[q] = NULL
    BY <1>1, <1>6, <1>8, LastMember
  <2>2. g = suffix_object(h, q, k)
    BY <1>5, <1>8
  <2> HIDE DEF q
  <2>3. q \notin Doomed(h, k)
    <3> DEFINE T == Doomed(h, k)
    <3>1. T \in SUBSET Live(h) /\ Tree(Nx(h), Pv(h), Kd(h), up, k, T) /\ p \notin T
      BY <1>1, DoomedTree
    <3>2. Graph(Live(h), Nx(h), Pv(h), Kd(h), R, up) /\ p # NULL
      BY <1>1 DEF HeapGraph
    <3> HIDE DEF T
    <3>3. q \notin T
      BY <2>1, <3>1, <3>2, OwnerInside
    <3> QED
      BY <3>3 DEF T
  <2>4. /\ Rewired(h, g) /\ \A j \in Item : Nx(g)[j] = IF j = q THEN k ELSE Nx(h)[j]
        /\ \E up2 \in Pointers : Whole(g, R \ {k}, up2)
    <3>1. Appends(h, R, up, k, q, g)
      BY <1>2, <2>1, <2>2, <2>3, AppendWhole
    <3> QED
      BY <3>1 DEF Appends
  <2>5. q \notin R
    BY <1>1, <2>1
  <2>6. Alone(g, R \ {k})
    BY <1>1, <2>4, <2>5 DEF Alone
  <2>7. Live(g) = Live(h) /\ Kept(h, g)
    BY <1>1, <2>4, RewiredKept
  <2> QED
    BY <2>4, <2>6, <2>7
<1> QED
  BY <1>7, <1>8

(* The item k goes right before the member a of p.                         *)
LEMMA InsertIs ==
  ASSUME NEW h \in Heap, NEW k \in Item, NEW a \in Item, NEW p \in Item, k # a,
         Pv(h)[a] # k, h.cell[p].child = a <=> Pv(h)[a] = NULL,
         NEW linked,
         linked = SetPrev(SetPrev(SetNext(h, k, a), k, Pv(h)[a]), a, k),
         NEW g, g = IF h.cell[p].child = a THEN SetChild(linked, p, k)
                    ELSE SetNext(linked, Pv(h)[a], k)
  PROVE  /\ Rewired(h, g)
         /\ \A j \in Item : Nx(g)[j] = IF j = k THEN a ELSE IF j = Pv(h)[a] THEN k ELSE Nx(h)[j]
         /\ \A j \in Item : Pv(g)[j] = IF j = k THEN Pv(h)[a] ELSE IF j = a THEN k ELSE Pv(h)[j]
         /\ \A j \in Item : Cd(g)[j] = IF Pv(h)[a] = NULL /\ j = p THEN k ELSE Cd(h)[j]
<1> DEFINE b == Pv(h)[a]
           e == SetNext(h, k, a)
           f == SetPrev(e, k, b)
<1>1. b \in Item \cup {NULL} /\ a \in Item \cup {NULL} /\ k \in Item \cup {NULL}
  BY HeapTypes DEF Pointers
<1>2. e = SetNext(h, k, a) /\ f = SetPrev(e, k, b) /\ linked = SetPrev(f, a, k)
  OBVIOUS
<1>3. /\ b # k /\ (h.cell[p].child = a <=> b = NULL)
      /\ g = IF h.cell[p].child = a THEN SetChild(linked, p, k) ELSE SetNext(linked, b, k)
      /\ NULL \notin Item
  BY NoItem
<1> SUFFICES /\ Rewired(h, g)
             /\ \A j \in Item : Nx(g)[j] = IF j = k THEN a ELSE IF j = b THEN k ELSE Nx(h)[j]
             /\ \A j \in Item : Pv(g)[j] = IF j = k THEN b ELSE IF j = a THEN k ELSE Pv(h)[j]
             /\ \A j \in Item : Cd(g)[j] = IF b = NULL /\ j = p THEN k ELSE Cd(h)[j]
  OBVIOUS
<1> HIDE DEF b, e, f
<1>4. /\ Rewired(h, e) /\ \A j \in Item : Nx(e)[j] = IF j = k THEN a ELSE Nx(h)[j]
      /\ Pv(e) = Pv(h) /\ Cd(e) = Cd(h)
  BY <1>1, <1>2, SetNextIs
<1>5. e \in Heap
  BY <1>4 DEF Rewired
<1>6. /\ Rewired(e, f) /\ \A j \in Item : Pv(f)[j] = IF j = k THEN b ELSE Pv(e)[j]
      /\ Nx(f) = Nx(e) /\ Cd(f) = Cd(e)
  BY <1>1, <1>2, <1>5, SetPrevIs
<1>7. f \in Heap
  BY <1>6 DEF Rewired
<1>8. /\ Rewired(f, linked) /\ \A j \in Item : Pv(linked)[j] = IF j = a THEN k ELSE Pv(f)[j]
      /\ Nx(linked) = Nx(f) /\ Cd(linked) = Cd(f)
  BY <1>1, <1>2, <1>7, SetPrevIs
<1>9. linked \in Heap /\ Rewired(h, linked)
  BY <1>4, <1>6, <1>8, RewiredTwice DEF Rewired
<1>10. CASE h.cell[p].child = a
  <2>1. g = SetChild(linked, p, k) /\ b = NULL
    BY <1>3, <1>10
  <2>2. /\ Rewired(linked, g)
        /\ \A j \in Item : Cd(g)[j] = IF j = p THEN k ELSE Cd(linked)[j]
        /\ Nx(g) = Nx(linked) /\ Pv(g) = Pv(linked)
    BY <1>1, <1>9, <2>1, SetChildIs
  <2>3. Rewired(h, g)
    BY <1>9, <2>2, RewiredTwice
  <2> QED
    BY <1>3, <1>4, <1>6, <1>8, <2>1, <2>2, <2>3
<1>11. CASE h.cell[p].child # a
  <2>1. g = SetNext(linked, b, k) /\ b # NULL
    BY <1>3, <1>11
  <2>2. /\ Rewired(linked, g)
        /\ \A j \in Item : Nx(g)[j] = IF j = b THEN k ELSE Nx(linked)[j]
        /\ Pv(g) = Pv(linked) /\ Cd(g) = Cd(linked)
    BY <1>1, <1>9, <2>1, SetNextIs
  <2>3. Rewired(h, g)
    BY <1>9, <2>2, RewiredTwice
  <2> QED
    BY <1>3, <1>4, <1>6, <1>8, <2>1, <2>2, <2>3
<1> QED
  BY <1>10, <1>11

LEMMA InsertWhole ==
  ASSUME NEW h, NEW R, NEW up, Whole(h, R, up), Alone(h, R), NEW k \in R,
         NEW p \in Live(h), ~h.cell[p].isRef, p \notin Doomed(h, k),
         h.cell[p].type = "object" => h.cell[k].string # NoName,
         NEW n \in 0 .. MaxItems,
         NEW g, g = cJSON_InsertItemInArray(h, p, n, k)
  PROVE  (\E up2 : Whole(g, R \ {k}, up2)) /\ Alone(g, R \ {k}) /\ Kept(h, g)
<1>1. /\ h \in Heap /\ HeapGraph(h, R, up) /\ R \in SUBSET Live(h) /\ up \in Pointers
      /\ Live(h) \in SUBSET Item /\ NULL \notin Item /\ p \in Item /\ k \in Item
      /\ \A i \in R : up[i] = NULL /\ Pv(h)[i] = NULL
  BY WholeParts
<1> DEFINE a == get_array_item(h, p, n)
           linked == SetPrev(SetPrev(SetNext(h, k, a), k, h.cell[a].prev), a, k)
<1>2. g = IF a = NULL THEN add_item_to_array(h, p, k)
          ELSE IF a = h.cell[p].child THEN SetChild(linked, p, k)
          ELSE SetNext(linked, h.cell[a].prev, k)
  BY DEF cJSON_InsertItemInArray
<1>3. a # NULL => a \in Live(h) /\ up[a] = p
  BY <1>1, GetArrayItem
<1>4. linked = SetPrev(SetPrev(SetNext(h, k, a), k, h.cell[a].prev), a, k)
  OBVIOUS
<1> HIDE DEF a, linked
<1>5. CASE a = NULL
  <2>1. g = add_item_to_array(h, p, k)
    BY <1>2, <1>5
  <2> QED
    BY <2>1, AddWhole
<1>6. CASE a # NULL
  <2> DEFINE b == Pv(h)[a]
             T == Doomed(h, k)
  <2>1. a \in Live(h) /\ a \in Item /\ up[a] = p /\ b = h.cell[a].prev /\ a # k /\ a \notin R
    BY <1>1, <1>3, <1>6, HeapTypes
  <2>2. \A i \in Live(h) : Node(Live(h), Nx(h), Pv(h), Kd(h), R, up, i)
    BY <1>1 DEF HeapGraph, Graph
  <2>3. Nx(h)[k] = NULL
    BY DEF Alone
  <2>4. b # k
    BY <1>1, <2>1, <2>2, <2>3 DEF Node
  <2>5. Kd(h)[p] = h.cell[p].child
    BY <1>1 DEF Kd
  <2>6. h.cell[p].child = a <=> b = NULL
    BY <1>1, <2>1, <2>2, <2>5 DEF Node
  <2>7. b # NULL => up[b] = p /\ b \in Live(h)
    <3> SUFFICES ASSUME b # NULL PROVE up[b] = p /\ b \in Live(h)
      OBVIOUS
    <3>1. b \in Live(h) /\ Nx(h)[b] = a
      BY <2>1, <2>2 DEF Node
    <3> QED
      BY <1>1, <2>1, <2>2, <3>1 DEF Node
  <2>8. /\ Rewired(h, g)
        /\ \A j \in Item : Nx(g)[j] = IF j = k THEN a ELSE IF j = b THEN k ELSE Nx(h)[j]
        /\ \A j \in Item : Pv(g)[j] = IF j = k THEN b ELSE IF j = a THEN k ELSE Pv(h)[j]
        /\ \A j \in Item : Cd(g)[j] = IF b = NULL /\ j = p THEN k ELSE Cd(h)[j]
    <3>1. linked = SetPrev(SetPrev(SetNext(h, k, a), k, b), a, k)
      BY <1>4, <2>1
    <3>2. g = IF h.cell[p].child = a THEN SetChild(linked, p, k) ELSE SetNext(linked, b, k)
      BY <1>2, <1>6, <2>1
    <3> QED
      BY <1>1, <2>1, <2>4, <2>6, <3>1, <3>2, InsertIs
  <2>9. g \in Heap /\ Live(g) = Live(h)
    BY <1>1, <2>8, KdIs DEF Rewired
  <2>10. \A j \in Item : Kd(g)[j] = IF b = NULL /\ j = p THEN k ELSE Kd(h)[j]
    BY <1>1, <2>8, KdIs
  <2>11. T \in SUBSET Live(h) /\ Tree(Nx(h), Pv(h), Kd(h), up, k, T)
    BY <1>1, DoomedTree
  <2>12. Graph(Live(h), Nx(h), Pv(h), Kd(h), R, up)
    BY <1>1 DEF HeapGraph
  <2>13. a \notin T
    <3>1. p \notin T
      OBVIOUS
    <3> HIDE DEF T
    <3> QED
      BY <1>1, <2>1, <2>11, <2>12, <3>1, OwnerInside
  <2> HIDE DEF T
  <2> DEFINE up2 == [j \in Item |-> IF j = k THEN p ELSE up[j]]
  <2>14. up2 \in Pointers /\ \A j \in Item : up2[j] = IF j = k THEN up[a] ELSE up[j]
    BY <1>1, <2>1 DEF Pointers
  <2> HIDE DEF up2
  <2>15. HeapGraph(g, R \ {k}, up2)
    <3>1. Nx(g) \in Pointers /\ Pv(g) \in Pointers /\ Kd(g) \in Pointers
      BY <2>9, HeapTypes
    <3>2. \A j \in Item : Kd(g)[j] = IF Pv(h)[a] = NULL /\ j = up[a] THEN k ELSE Kd(h)[j]
      BY <2>1, <2>10
    <3>3. Graph(Live(h), Nx(g), Pv(g), Kd(g), R \ {k}, up2)
      BY <2>1, <2>3, <2>8, <2>11, <2>12, <2>13, <2>14, <3>1, <3>2, GraphInsert
    <3> QED
      BY <2>9, <3>3 DEF HeapGraph
  <2>16. Named(h, up2)
    <3> SUFFICES ASSUME NEW x \in Live(h), up2[x] # NULL, h.cell[up2[x]].type = "object"
                 PROVE  h.cell[x].string # NoName
      BY DEF Named
    <3>1. CASE x = k
      BY <1>1, <2>1, <2>14, <3>1
    <3>2. CASE x # k
      BY <1>1, <2>14, <3>2 DEF Whole, Named
    <3> QED
      BY <3>1, <3>2
  <2>17. ASSUME NEW r \in Live(h) PROVE Shown(h, up2, h.cell[r])
    <3>1. Shown(h, up, h.cell[r])
      BY DEF Whole
    <3>2. \A x \in Live(h) : up[x] # NULL => up2[x] = up[x]
      BY <1>1, <2>14
    <3> QED
      BY <3>1, <3>2 DEF Shown
  <2>18. \A j \in Item \ Live(h) : /\ Nx(g)[j] = Nx(h)[j] /\ Pv(g)[j] = Pv(h)[j]
                                 /\ Cd(g)[j] = Cd(h)[j]
    BY <1>1, <2>1, <2>7, <2>8
  <2>19. \A j \in Item : h.cell[j].isRef => Cd(g)[j] = Cd(h)[j]
    BY <2>8
  <2>20. Whole(g, R \ {k}, up2)
    BY <2>8, <2>15, <2>16, <2>17, <2>18, <2>19, RewiredWhole
  <2>21. Alone(g, R \ {k})
    <3> SUFFICES ASSUME NEW j \in R \ {k} PROVE Nx(g)[j] = NULL
      BY DEF Alone
    <3>1. j \in Item /\ j # k /\ j # b
      BY <1>1, <2>7
    <3> QED
      BY <2>8, <3>1 DEF Alone
  <2>22. Kept(h, g)
    BY <1>1, <2>8, RewiredKept
  <2> QED
    BY <2>20, <2>21, <2>22
<1> QED
  BY <1>5, <1>6

(* The member k leaves the list of p.                                      *)
LEMMA DetachIs ==
  ASSUME NEW h \in Heap, NEW k \in Item, NEW p \in Item,
         h.cell[p].child = k <=> Pv(h)[k] = NULL,
         NEW g, g = cJSON_DetachItemViaPointer(h, p, k)
  PROVE  /\ Rewired(h, g)
         /\ \A j \in Item : Nx(g)[j] = IF j = k THEN NULL ELSE IF j = Pv(h)[k] THEN Nx(h)[k] ELSE Nx(h)[j]
         /\ \A j \in Item : Pv(g)[j] = IF j = k THEN NULL ELSE IF j = Nx(h)[k] THEN Pv(h)[k] ELSE Pv(h)[j]
         /\ \A j \in Item : Cd(g)[j] = IF Pv(h)[k] = NULL /\ j = p THEN Nx(h)[k] ELSE Cd(h)[j]
<1> DEFINE a == Nx(h)[k]
           b == Pv(h)[k]
           d == SetNext(h, b, a)
           e == SetPrev(d, a, b)
           f == IF b = NULL THEN SetChild(e, p, a) ELSE e
           o == SetNext(f, k, NULL)
<1>1. a \in Item \cup {NULL} /\ b \in Item \cup {NULL} /\ NULL \notin Item
      /\ NULL \in Item \cup {NULL} /\ k \in Item \cup {NULL}
  BY HeapTypes, NoItem DEF Pointers
<1>2. h.cell[k].next = a /\ h.cell[k].prev = b
  BY HeapTypes
<1>3. h.cell[p].child = k <=> b = NULL
  OBVIOUS
<1>4. g = SetPrev(o, k, NULL)
  <2>1. k # NULL
    BY <1>1
  <2> HIDE DEF a, b
  <2> QED
    BY <1>2, <1>3, <2>1 DEF cJSON_DetachItemViaPointer
<1>5. d = SetNext(h, b, a) /\ e = SetPrev(d, a, b) /\ o = SetNext(f, k, NULL)
      /\ f = IF b = NULL THEN SetChild(e, p, a) ELSE e
  OBVIOUS
<1> SUFFICES /\ Rewired(h, g)
             /\ \A j \in Item : Nx(g)[j] = IF j = k THEN NULL ELSE IF j = b THEN a ELSE Nx(h)[j]
             /\ \A j \in Item : Pv(g)[j] = IF j = k THEN NULL ELSE IF j = a THEN b ELSE Pv(h)[j]
             /\ \A j \in Item : Cd(g)[j] = IF b = NULL /\ j = p THEN a ELSE Cd(h)[j]
  OBVIOUS
<1> HIDE DEF a, b, d, e, f, o
<1>6. /\ Rewired(h, d) /\ \A j \in Item : Nx(d)[j] = IF j = b THEN a ELSE Nx(h)[j]
      /\ Pv(d) = Pv(h) /\ Cd(d) = Cd(h)
  BY <1>1, <1>5, SetNextIs
<1>7. d \in Heap
  BY <1>6 DEF Rewired
<1>8. /\ Rewired(d, e) /\ \A j \in Item : Pv(e)[j] = IF j = a THEN b ELSE Pv(d)[j]
      /\ Nx(e) = Nx(d) /\ Cd(e) = Cd(d)
  BY <1>1, <1>5, <1>7, SetPrevIs
<1>9. e \in Heap /\ Rewired(h, e)
  BY <1>6, <1>8, RewiredTwice DEF Rewired
<1>10. /\ Rewired(e, f) /\ Nx(f) = Nx(e) /\ Pv(f) = Pv(e)
       /\ \A j \in Item : Cd(f)[j] = IF b = NULL /\ j = p THEN a ELSE Cd(e)[j]
  <2>1. CASE b = NULL
    <3>1. f = SetChild(e, p, a)
      BY <1>5, <2>1
    <3>2. /\ Rewired(e, f) /\ \A j \in Item : Cd(f)[j] = IF j = p THEN a ELSE Cd(e)[j]
          /\ Nx(f) = Nx(e) /\ Pv(f) = Pv(e)
      BY <1>1, <1>9, <3>1, SetChildIs
    <3> QED
      BY <2>1, <3>2
  <2>2. CASE b # NULL
    <3>1. f = e
      BY <1>5, <2>2
    <3> QED
      BY <1>9, <2>2, <3>1, RewiredSelf
  <2> QED
    BY <2>1, <2>2
<1>11. f \in Heap /\ Rewired(h, f)
  BY <1>9, <1>10, RewiredTwice DEF Rewired
<1>12. /\ Rewired(f, o) /\ \A j \in Item : Nx(o)[j] = IF j = k THEN NULL ELSE Nx(f)[j]
       /\ Pv(o) = Pv(f) /\ Cd(o) = Cd(f)
  BY <1>1, <1>5, <1>11, SetNextIs
<1>13. o \in Heap /\ Rewired(h, o)
  BY <1>11, <1>12, RewiredTwice DEF Rewired
<1>14. /\ Rewired(o, g) /\ \A j \in Item : Pv(g)[j] = IF j = k THEN NULL ELSE Pv(o)[j]
       /\ Nx(g) = Nx(o) /\ Cd(g) = Cd(o)
  BY <1>1, <1>4, <1>13, SetPrevIs
<1>15. Rewired(h, g)
  BY <1>13, <1>14, RewiredTwice
<1>16. \A j \in Item : Nx(g)[j] = IF j = k THEN NULL ELSE IF j = b THEN a ELSE Nx(h)[j]
  BY <1>6, <1>8, <1>10, <1>12, <1>14
<1>17. \A j \in Item : Pv(g)[j] = IF j = k THEN NULL ELSE IF j = a THEN b ELSE Pv(h)[j]
  BY <1>6, <1>8, <1>10, <1>12, <1>14
<1>18. \A j \in Item : Cd(g)[j] = IF b = NULL /\ j = p THEN a ELSE Cd(h)[j]
  BY <1>6, <1>8, <1>10, <1>12, <1>14
<1> QED
  BY <1>15, <1>16, <1>17, <1>18

(* A member that no reference shows.                                       *)
Member(h, up, p, k) ==
  /\ p \in Live(h) /\ ~h.cell[p].isRef
  /\ k \in Live(h) /\ up[k] = p
  /\ \A r \in Live(h) : h.cell[r].isRef => h.cell[r].child # k

LEMMA MemberFacts ==
  ASSUME NEW h, NEW R, NEW up, Whole(h, R, up), Alone(h, R),
         NEW p, NEW k, Member(h, up, p, k)
  PROVE  /\ k \in Item /\ p \in Item /\ k \in Live(h) /\ p \in Live(h) /\ k \notin R /\ up[k] = p
         /\ (h.cell[p].child = k <=> Pv(h)[k] = NULL)
         /\ Pv(h)[k] # NULL => Pv(h)[k] \in Live(h) \ R /\ up[Pv(h)[k]] = p
         /\ Nx(h)[k] # NULL => Nx(h)[k] \in Live(h) \ R /\ up[Nx(h)[k]] = p
         /\ Nx(h)[k] # k /\ Pv(h)[k] # k /\ p # k
<1>1. /\ h \in Heap /\ HeapGraph(h, R, up) /\ R \in SUBSET Live(h) /\ up \in Pointers
      /\ Live(h) \in SUBSET Item /\ NULL \notin Item
      /\ \A i \in R : up[i] = NULL /\ Pv(h)[i] = NULL
  BY WholeParts
<1>2. p \in Live(h) /\ ~h.cell[p].isRef /\ k \in Live(h) /\ up[k] = p
  BY DEF Member
<1>3. \A i \in Live(h) : Node(Live(h), Nx(h), Pv(h), Kd(h), R, up, i)
  BY <1>1 DEF HeapGraph, Graph
<1>4. k \in Item /\ p \in Item /\ k \notin R
  BY <1>1, <1>2
<1>5. Kd(h)[p] = h.cell[p].child
  BY <1>1, <1>2 DEF Kd
<1>6. h.cell[p].child = k <=> Pv(h)[k] = NULL
  BY <1>1, <1>2, <1>3, <1>4, <1>5 DEF Node
<1>7. Pv(h)[k] # NULL => Pv(h)[k] \in Live(h) \ R /\ up[Pv(h)[k]] = p
  <2> SUFFICES ASSUME Pv(h)[k] # NULL PROVE Pv(h)[k] \in Live(h) \ R /\ up[Pv(h)[k]] = p
    OBVIOUS
  <2>1. Pv(h)[k] \in Live(h) /\ Nx(h)[Pv(h)[k]] = k
    BY <1>2, <1>3 DEF Node
  <2>2. up[k] = up[Pv(h)[k]]
    BY <1>1, <1>2, <1>3, <2>1 DEF Node
  <2> QED
    BY <1>1, <1>2, <2>1, <2>2
<1>8. Nx(h)[k] # NULL => Nx(h)[k] \in Live(h) \ R /\ up[Nx(h)[k]] = p
  BY <1>1, <1>2, <1>3 DEF Node
<1>9. Rooted(Live(h), Pv(h), up)
  BY <1>1 DEF HeapGraph, Graph
<1>10. Par(Pv(h), up, k) # k
  <2>1. {k} \in SUBSET Live(h)
    BY <1>2
  <2>2. Par(Pv(h), up, k) \notin {k}
    BY <1>9, <2>1 DEF Rooted
  <2> QED
    BY <2>2
<1>11. Pv(h)[k] # k
  BY <1>1, <1>4, <1>10 DEF Par
<1>12. Nx(h)[k] # k
  BY <1>1, <1>2, <1>3, <1>11 DEF Node
<1>13. p # k
  <2> SUFFICES ASSUME p = k PROVE FALSE
    OBVIOUS
  <2> DEFINE X == {x \in Live(h) : up[x] = k}
  <2>1. PICK x \in X : Par(Pv(h), up, x) \notin X
    <3>1. X # {} /\ X \in SUBSET Live(h)
      BY <1>2
    <3> HIDE DEF X
    <3> QED
      BY <1>9, <3>1 DEF Rooted
  <2>2. x \in Live(h) /\ up[x] = k /\ x # NULL
    BY <1>1, <2>1
  <2>3. CASE Pv(h)[x] = NULL
    <3>1. Par(Pv(h), up, x) = k
      BY <2>2, <2>3 DEF Par
    <3> QED
      BY <1>2, <2>1, <3>1
  <2>4. CASE Pv(h)[x] # NULL
    <3>1. Pv(h)[x] \in Live(h) /\ Nx(h)[Pv(h)[x]] = x
      BY <1>3, <2>2, <2>4 DEF Node
    <3>2. up[Pv(h)[x]] = up[x]
      BY <1>3, <2>2, <3>1 DEF Node
    <3>3. Par(Pv(h), up, x) = Pv(h)[x]
      BY <2>4 DEF Par
    <3> QED
      BY <2>1, <2>2, <3>1, <3>2, <3>3
  <2> QED
    BY <2>3, <2>4
<1> QED
  BY <1>2, <1>4, <1>6, <1>7, <1>8, <1>11, <1>12, <1>13

Orphaned(up, up2, k) == \A j \in Item : up2[j] = IF j = k THEN NULL ELSE up[j]

LEMMA DetachWhole ==
  ASSUME NEW h, NEW R, NEW up, Whole(h, R, up), Alone(h, R),
         NEW p, NEW k, Member(h, up, p, k),
         NEW g, g = cJSON_DetachItemViaPointer(h, p, k)
  PROVE  /\ Rewired(h, g) /\ Alone(g, R \cup {k})
         /\ \E up2 \in Pointers : Whole(g, R \cup {k}, up2) /\ Orphaned(up, up2, k)
<1>1. /\ h \in Heap /\ HeapGraph(h, R, up) /\ R \in SUBSET Live(h) /\ up \in Pointers
      /\ Live(h) \in SUBSET Item /\ NULL \notin Item
  BY WholeParts
<1>2. /\ k \in Item /\ p \in Item /\ k \in Live(h) /\ p \in Live(h) /\ k \notin R /\ up[k] = p
      /\ (h.cell[p].child = k <=> Pv(h)[k] = NULL)
      /\ Pv(h)[k] # NULL => Pv(h)[k] \in Live(h) \ R /\ up[Pv(h)[k]] = p
      /\ Nx(h)[k] # NULL => Nx(h)[k] \in Live(h) \ R /\ up[Nx(h)[k]] = p
      /\ Nx(h)[k] # k /\ Pv(h)[k] # k /\ p # k
  BY MemberFacts
<1> DEFINE a == Nx(h)[k]
           b == Pv(h)[k]
<1>3. /\ Rewired(h, g)
      /\ \A j \in Item : Nx(g)[j] = IF j = k THEN NULL ELSE IF j = Pv(h)[k] THEN Nx(h)[k] ELSE Nx(h)[j]
      /\ \A j \in Item : Pv(g)[j] = IF j = k THEN NULL ELSE IF j = Nx(h)[k] THEN Pv(h)[k] ELSE Pv(h)[j]
      /\ \A j \in Item : Cd(g)[j] = IF Pv(h)[k] = NULL /\ j = p THEN Nx(h)[k] ELSE Cd(h)[j]
  BY <1>1, <1>2, DetachIs
<1>4. g \in Heap /\ Live(g) = Live(h)
  BY <1>1, <1>3, KdIs DEF Rewired
<1>5. ~h.cell[p].isRef
  BY DEF Member
<1>6. \A j \in Item : Kd(g)[j] = IF Pv(h)[k] = NULL /\ j = up[k] THEN Nx(h)[k] ELSE Kd(h)[j]
  BY <1>1, <1>2, <1>3, <1>5, KdIs
<1> DEFINE up2 == [j \in Item |-> IF j = k THEN NULL ELSE up[j]]
<1>7. up2 \in Pointers /\ \A j \in Item : up2[j] = IF j = k THEN NULL ELSE up[j]
  BY <1>1 DEF Pointers
<1> HIDE DEF up2
<1>8. HeapGraph(g, R \cup {k}, up2)
  <2>1. Nx(g) \in Pointers /\ Pv(g) \in Pointers /\ Kd(g) \in Pointers
    BY <1>4, HeapTypes
  <2>2. Graph(Live(h), Nx(h), Pv(h), Kd(h), R, up)
    BY <1>1 DEF HeapGraph
  <2>3. Graph(Live(h), Nx(g), Pv(g), Kd(g), R \cup {k}, up2)
    BY <1>2, <1>3, <1>6, <1>7, <2>1, <2>2, GraphUnlink
  <2> QED
    BY <1>4, <2>3 DEF HeapGraph
<1>9. Named(h, up2)
  BY <1>1, <1>7 DEF Whole, Named
<1>10. ASSUME NEW r \in Live(h) PROVE Shown(h, up2, h.cell[r])
  <2>1. Shown(h, up, h.cell[r]) /\ (h.cell[r].isRef => h.cell[r].child # k)
    BY DEF Whole, Member
  <2> QED
    BY <1>1, <1>7, <2>1 DEF Shown
<1>11. \A j \in Item \ Live(h) : /\ Nx(g)[j] = Nx(h)[j] /\ Pv(g)[j] = Pv(h)[j]
                               /\ Cd(g)[j] = Cd(h)[j]
  BY <1>1, <1>2, <1>3
<1>12. \A j \in Item : h.cell[j].isRef => Cd(g)[j] = Cd(h)[j]
  BY <1>3, <1>5
<1>13. Whole(g, R \cup {k}, up2)
  BY <1>3, <1>8, <1>9, <1>10, <1>11, <1>12, RewiredWhole
<1>14. Alone(g, R \cup {k})
  <2> SUFFICES ASSUME NEW j \in R \cup {k} PROVE Nx(g)[j] = NULL
    BY DEF Alone
  <2>1. j # Pv(h)[k] /\ j \in Item
    BY <1>1, <1>2
  <2> QED
    BY <1>3, <2>1 DEF Alone
<1> QED
  BY <1>3, <1>7, <1>13, <1>14 DEF Orphaned

LEMMA ImageCount ==
  ASSUME NEW A \in SUBSET Item, NEW f \in Pointers,
         \A i, j \in A : f[i] = f[j] => i = j,
         NEW B, B = {f[j] : j \in A}
  PROVE  Cardinality(B) = Cardinality(A) /\ IsFiniteSet(B)
<1> DEFINE e == [j \in A |-> f[j]]
<1>1. e \in Bijection(A, B)
  BY DEF Bijection, Injection, Surjection, IsInjective
<1>2. ExistsBijection(A, B)
  BY <1>1 DEF ExistsBijection
<1>3. IsFiniteSet(A)
  BY ItemsFinite
<1> QED
  BY <1>2, <1>3, FS_Bijection

(* cJSON_Delete comes to each item of a tree once: to a sibling from the   *)
(* one before it, to the first member from its owner.                      *)
LEMMA VisitedOnce ==
  ASSUME NEW h \in Heap, NEW R, NEW up, HeapGraph(h, R, up), NEW k \in R,
         NEW D, D = Doomed(h, k)
  PROVE  ~ (Visits(h, D) > Cardinality(D))
<1> DEFINE A == {j \in D : h.cell[j].next # NULL}
           B == {j \in D : OwnsChild(h.cell[j])}
           IA == {Nx(h)[j] : j \in A}
           IB == {Kd(h)[j] : j \in B}
           E == D \ {k}
<1>1. D \in SUBSET Live(h) /\ Tree(Nx(h), Pv(h), Kd(h), up, k, D)
  BY DoomedTree
<1>2. Live(h) \in SUBSET Item /\ Nx(h) \in Pointers /\ Kd(h) \in Pointers /\ NULL \notin Item
  BY HeapTypes, NoItem
<1>3. \A i \in Live(h) : Node(Live(h), Nx(h), Pv(h), Kd(h), R, up, i)
  BY DEF HeapGraph, Graph
<1>4. k \in Live(h) /\ Pv(h)[k] = NULL /\ up[k] = NULL /\ k \in D
  BY <1>1, <1>3 DEF HeapGraph, Graph, Node, Tree
<1>5. /\ \A j \in A : j \in D /\ j \in Live(h) /\ j \in Item /\ Nx(h)[j] # NULL
      /\ \A j \in B : j \in D /\ j \in Live(h) /\ j \in Item /\ Kd(h)[j] # NULL
  BY <1>1, <1>2, HeapTypes
<1>6. A \in SUBSET Item /\ B \in SUBSET Item
  BY <1>5
<1> HIDE DEF A, B
<1>7. ASSUME NEW j \in A PROVE Nx(h)[j] \in E /\ Pv(h)[Nx(h)[j]] = j
  <2>1. Nx(h)[j] \in D /\ Pv(h)[Nx(h)[j]] = j
    BY <1>1, <1>3, <1>5 DEF Tree, Node
  <2> QED
    BY <1>2, <1>4, <1>5, <2>1
<1>8. ASSUME NEW j \in B PROVE Kd(h)[j] \in E /\ Pv(h)[Kd(h)[j]] = NULL /\ up[Kd(h)[j]] = j
  <2>1. Kd(h)[j] \in D /\ Pv(h)[Kd(h)[j]] = NULL /\ up[Kd(h)[j]] = j
    BY <1>1, <1>3, <1>5 DEF Tree, Node
  <2> QED
    BY <1>2, <1>4, <1>5, <2>1
<1>9. Cardinality(IA) = Cardinality(A) /\ IsFiniteSet(IA)
  <2>1. \A i, j \in A : Nx(h)[i] = Nx(h)[j] => i = j
    BY <1>7
  <2>2. IA = {Nx(h)[j] : j \in A}
    OBVIOUS
  <2> HIDE DEF IA
  <2> QED
    BY <1>2, <1>6, <2>1, <2>2, ImageCount
<1>10. Cardinality(IB) = Cardinality(B) /\ IsFiniteSet(IB)
  <2>1. \A i, j \in B : Kd(h)[i] = Kd(h)[j] => i = j
    BY <1>8
  <2>2. IB = {Kd(h)[j] : j \in B}
    OBVIOUS
  <2> HIDE DEF IB
  <2> QED
    BY <1>2, <1>6, <2>1, <2>2, ImageCount
<1>11. IA \cap IB = {}
  <2> SUFFICES ASSUME NEW i \in A, NEW j \in B, Nx(h)[i] = Kd(h)[j] PROVE FALSE
    OBVIOUS
  <2> QED
    BY <1>2, <1>5, <1>7, <1>8
<1>12. IA \subseteq E /\ IB \subseteq E
  BY <1>7, <1>8
<1>13. IsFiniteSet(D) /\ Cardinality(D) \in Nat
  BY <1>1, <1>2, ItemsFinite
<1>14. IsFiniteSet(E) /\ Cardinality(E) = Cardinality(D) - 1
  BY <1>4, <1>13, FS_RemoveElement
<1> HIDE DEF IA, IB, E
<1>15. Cardinality(IA \cup IB) = Cardinality(IA) + Cardinality(IB)
  <2>1. Cardinality(IA \cup IB) = Cardinality(IA) + Cardinality(IB) - Cardinality(IA \cap IB)
    BY <1>9, <1>10, FS_Union
  <2>2. Cardinality(IA \cap IB) = 0
    BY <1>11, FS_EmptySet
  <2>3. Cardinality(IA) \in Nat /\ Cardinality(IB) \in Nat
    BY <1>9, <1>10, FS_CardinalityType
  <2> QED
    BY <2>1, <2>2, <2>3
<1>16. Cardinality(IA \cup IB) <= Cardinality(E)
  BY <1>12, <1>14, FS_Subset
<1>17. Cardinality(A) \in Nat /\ Cardinality(B) \in Nat
  BY <1>6, ItemsFinite
<1>18. Visits(h, D) = 1 + Cardinality(A) + Cardinality(B)
  BY DEF Visits, A, B
<1> QED
  BY <1>9, <1>10, <1>13, <1>14, <1>15, <1>16, <1>17, <1>18

(* The held item k is deleted: no reference that stays shows what goes.    *)
LEMMA DeleteWhole ==
  ASSUME NEW h, NEW R, NEW up, Whole(h, R, up), NEW k \in R,
         NEW D, D = Doomed(h, k),
         \A r \in Live(h) \ D : h.cell[r].isRef => h.cell[r].child \notin D,
         NEW g, g = cJSON_Delete(h, k)
  PROVE  /\ Whole(g, R \ {k}, up) /\ D \in SUBSET Live(h) /\ Live(g) = Live(h) \ D
         /\ \A j \in Item \ D : g.cell[j] = h.cell[j]
<1>1. /\ h \in Heap /\ HeapGraph(h, R, up) /\ R \in SUBSET Live(h) /\ up \in Pointers
      /\ Live(h) \in SUBSET Item /\ NULL \notin Item /\ k \in Item
  BY WholeParts
<1>2. D \in SUBSET Live(h) /\ Tree(Nx(h), Pv(h), Kd(h), up, k, D)
  BY <1>1, DoomedTree
<1>3. ~ (Visits(h, D) > Cardinality(D))
  BY <1>1, VisitedOnce
<1> DEFINE DK == {j \in D : OwnsKey(h.cell[j])}
           DV == {j \in D : OwnsValue(h.cell[j])}
<1>4. g = [cell |-> [j \in Item |-> IF j \in D THEN Zeroed ELSE h.cell[j]],
           blocks |-> h.blocks - Cardinality(DK) - Cardinality(DV),
           misused |-> h.misused \/ ~(D \subseteq Live(h)) \/ Visits(h, D) > Cardinality(D)]
  BY <1>1 DEF cJSON_Delete
<1>5. /\ \A j \in Item : g.cell[j] = IF j \in D THEN Zeroed ELSE h.cell[j]
      /\ g.blocks = h.blocks - Cardinality(DK) - Cardinality(DV)
      /\ g.misused = FALSE
  <2>1. h.misused = FALSE
    BY <1>1 DEF Whole, Counted, Heap
  <2> HIDE DEF DK, DV
  <2>2. \A j \in Item : g.cell[j] = IF j \in D THEN Zeroed ELSE h.cell[j]
    BY <1>4
  <2>3. g.blocks = h.blocks - Cardinality(DK) - Cardinality(DV)
    BY <1>4
  <2>4. g.misused = (h.misused \/ ~(D \subseteq Live(h)) \/ Visits(h, D) > Cardinality(D))
    BY <1>4
  <2>5. g.misused = FALSE
    BY <1>2, <1>3, <2>1, <2>4
  <2> QED
    BY <2>2, <2>3, <2>5
<1>6. Zeroed \in Cell /\ Zeroed.live = FALSE /\ Zeroed.isRef = FALSE
  BY DEF Zeroed, Cell
<1> HIDE DEF Zeroed
<1>7. Live(g) = Live(h) \ D
  BY <1>1, <1>5, <1>6 DEF Live
<1>8. Keys(g) = Keys(h) \ D /\ Values(g) = Values(h) \ D
  BY <1>1, <1>5, <1>7 DEF Keys, Values
<1>9. DK = Keys(h) \cap D /\ DV = Values(h) \cap D
  BY <1>2 DEF Keys, Values
<1>10. /\ IsFiniteSet(Keys(h)) /\ Cardinality(Keys(h)) \in Nat
       /\ IsFiniteSet(Values(h)) /\ Cardinality(Values(h)) \in Nat
  <2>1. Keys(h) \in SUBSET Item /\ Values(h) \in SUBSET Item
    BY <1>1 DEF Keys, Values
  <2> QED
    BY <2>1, ItemsFinite
<1>11. /\ Cardinality(Keys(h) \ D) = Cardinality(Keys(h)) - Cardinality(Keys(h) \cap D)
       /\ Cardinality(Values(h) \ D) = Cardinality(Values(h)) - Cardinality(Values(h) \cap D)
       /\ IsFiniteSet(Keys(h) \ D) /\ IsFiniteSet(Values(h) \ D)
  BY <1>10, FS_Difference
<1>12. /\ Cardinality(Keys(h) \ D) \in Nat /\ Cardinality(Values(h) \ D) \in Nat
       /\ Cardinality(DK) \in Nat /\ Cardinality(DV) \in Nat
  <2>1. Cardinality(Keys(h) \ D) \in Nat /\ Cardinality(Values(h) \ D) \in Nat
    BY <1>11, FS_CardinalityType
  <2>2. DK \in SUBSET Item /\ DV \in SUBSET Item
    BY <1>1, <1>2
  <2> HIDE DEF DK, DV
  <2> QED
    BY <2>1, <2>2, ItemsFinite
<1>13. h.blocks = Cardinality(Keys(h)) + Cardinality(Values(h))
  BY DEF Whole, Counted
<1>14. g.blocks = Cardinality(Keys(g)) + Cardinality(Values(g)) /\ g.blocks \in Nat
  <2>1. g.blocks = Cardinality(Keys(h) \ D) + Cardinality(Values(h) \ D)
    <3> HIDE DEF DK, DV
    <3> QED
      BY <1>5, <1>9, <1>10, <1>11, <1>12, <1>13
  <2> QED
    BY <1>8, <1>12, <2>1
<1> HIDE DEF DK, DV
<1>15. g \in Heap
  <2>1. [j \in Item |-> IF j \in D THEN Zeroed ELSE h.cell[j]] \in [Item -> Cell]
    BY <1>1, <1>6, CellsOfHeap
  <2>2. g.blocks \in Nat /\ g.misused \in BOOLEAN
    BY <1>5, <1>14
  <2>3. g.cell \in [Item -> Cell]
    BY <1>4, <2>1
  <2> QED
    BY <1>4, <2>2, <2>3 DEF Heap
<1>16. Counted(g)
  BY <1>5, <1>14 DEF Counted
<1>17. Cleared(g)
  BY <1>5, <1>7 DEF Cleared, Whole
<1>18. HeapGraph(g, R \ {k}, up)
  <2>1. Nx(g) \in Pointers /\ Pv(g) \in Pointers /\ Kd(g) \in Pointers
    BY <1>15, HeapTypes
  <2>2. /\ \A j \in Item \ D : Nx(g)[j] = Nx(h)[j]
        /\ \A j \in Item \ D : Pv(g)[j] = Pv(h)[j]
        /\ \A j \in Item \ D : Kd(g)[j] = Kd(h)[j]
    BY <1>5 DEF Nx, Pv, Kd
  <2>3. Graph(Live(h), Nx(h), Pv(h), Kd(h), R, up)
    BY <1>1 DEF HeapGraph
  <2>4. Graph(Live(h) \ D, Nx(g), Pv(g), Kd(g), R \ {k}, up)
    BY <1>2, <2>1, <2>2, <2>3, GraphDelete
  <2> QED
    BY <1>7, <2>4 DEF HeapGraph
<1>19. \A x \in Live(h) \ D : up[x] # NULL => up[x] \in Item \ D
  <2>1. Graph(Live(h), Nx(h), Pv(h), Kd(h), R, up)
    BY <1>1 DEF HeapGraph
  <2>2. \A x \in Live(h) \ D : up[x] \notin D
    BY <1>2, <2>1, ListOutside
  <2> QED
    BY <1>1, <2>2 DEF Pointers
<1>20. Named(g, up)
  <2>1. Named(h, up)
    BY DEF Whole
  <2> QED
    BY <1>1, <1>5, <1>7, <1>19, <2>1 DEF Named
<1>21. ASSUME NEW r \in Live(g) PROVE Shown(g, up, g.cell[r])
  <2>1. r \in Live(h) \ D /\ r \in Item /\ g.cell[r] = h.cell[r]
    BY <1>1, <1>5, <1>7
  <2>2. Shown(h, up, h.cell[r])
    BY <2>1 DEF Whole
  <2> DEFINE c == h.cell[r].child
  <2> SUFFICES ASSUME h.cell[r].isRef, c # NULL
               PROVE  c \in Live(g) /\ up[c] # NULL /\ g.cell[up[c]].type = h.cell[r].type
    BY <2>1 DEF Shown
  <2>3. c \in Live(h) /\ up[c] # NULL /\ h.cell[up[c]].type = h.cell[r].type
    BY <2>2 DEF Shown
  <2>4. c \in Live(h) \ D
    BY <2>1, <2>3
  <2>5. up[c] \in Item \ D
    BY <1>19, <2>3, <2>4
  <2> QED
    BY <1>5, <1>7, <2>3, <2>4, <2>5
<1>22. Whole(g, R \ {k}, up)
  BY <1>15, <1>16, <1>17, <1>18, <1>20, <1>21 DEF Whole
<1> QED
  BY <1>2, <1>5, <1>7, <1>22

(* The pointers alone say what cJSON_Delete comes to.                      *)
LEMMA AfterSame ==
  ASSUME NEW h \in Heap, NEW g \in Heap, NEW j \in Item, Nx(g)[j] = Nx(h)[j], Kd(g)[j] = Kd(h)[j]
  PROVE  After(g, j) = After(h, j)
<1>1. g.cell[j].next = h.cell[j].next
  BY HeapTypes
<1>2. OwnsChild(g.cell[j]) <=> OwnsChild(h.cell[j])
  BY HeapTypes
<1>3. OwnsChild(h.cell[j]) => g.cell[j].child = h.cell[j].child
  BY <1>2, HeapTypes
<1> QED
  BY <1>1, <1>2, <1>3 DEF After

LEMMA DoomedSame ==
  ASSUME NEW h \in Heap, NEW g \in Heap, Nx(g) = Nx(h), Kd(g) = Kd(h), NEW k
  PROVE  Doomed(g, k) = Doomed(h, k)
<1>1. \A j \in Item : After(g, j) = After(h, j)
  BY AfterSame
<1>2. [j \in Item |-> After(g, j)] = [j \in Item |-> After(h, j)]
  BY <1>1
<1> QED
  BY <1>2 DEF Doomed

(* The replacement r takes the place of i.                                 *)
Swapped(h, p, i, r) ==
  LET c == h.cell[i]
      linked == SetPrev(SetNext(h, r, c.next), r, c.prev)
      around == SetNext(SetPrev(linked, c.next, r), c.prev, r)
      first == IF h.cell[p].child = i THEN SetChild(around, p, r) ELSE around
  IN  SetPrev(SetNext(first, i, NULL), i, NULL)

LEMMA SwappedIs ==
  ASSUME NEW h \in Heap, NEW i \in Item, NEW p \in Item, NEW r \in Item,
         h.cell[p].child = i <=> Pv(h)[i] = NULL,
         NEW a, a = Nx(h)[i], NEW b, b = Pv(h)[i],
         NEW g, g = Swapped(h, p, i, r)
  PROVE  /\ Rewired(h, g)
         /\ \A j \in Item : Nx(g)[j] = IF j = i THEN NULL ELSE IF j = b THEN r
                                       ELSE IF j = r THEN a ELSE Nx(h)[j]
         /\ \A j \in Item : Pv(g)[j] = IF j = i THEN NULL ELSE IF j = a THEN r
                                       ELSE IF j = r THEN b ELSE Pv(h)[j]
         /\ \A j \in Item : Cd(g)[j] = IF b = NULL /\ j = p THEN r ELSE Cd(h)[j]
<1> DEFINE c == SetNext(h, r, a)
           d == SetPrev(c, r, b)
           e == SetPrev(d, a, r)
           f == SetNext(e, b, r)
           m == IF b = NULL THEN SetChild(f, p, r) ELSE f
           o == SetNext(m, i, NULL)
<1>1. a \in Item \cup {NULL} /\ b \in Item \cup {NULL} /\ NULL \notin Item
      /\ NULL \in Item \cup {NULL} /\ i \in Item \cup {NULL} /\ r \in Item \cup {NULL}
  BY HeapTypes, NoItem DEF Pointers
<1>2. h.cell[i].next = a /\ h.cell[i].prev = b /\ (h.cell[p].child = i <=> b = NULL)
  BY HeapTypes
<1>3. g = SetPrev(o, i, NULL)
  BY <1>2 DEF Swapped
<1>4. /\ c = SetNext(h, r, a) /\ d = SetPrev(c, r, b) /\ e = SetPrev(d, a, r)
      /\ f = SetNext(e, b, r) /\ o = SetNext(m, i, NULL)
      /\ m = IF b = NULL THEN SetChild(f, p, r) ELSE f
  OBVIOUS
<1> HIDE DEF c, d, e, f, m, o
<1>5. /\ Rewired(h, c) /\ \A j \in Item : Nx(c)[j] = IF j = r THEN a ELSE Nx(h)[j]
      /\ Pv(c) = Pv(h) /\ Cd(c) = Cd(h)
  BY <1>1, <1>4, SetNextIs
<1>6. c \in Heap
  BY <1>5 DEF Rewired
<1>7. /\ Rewired(c, d) /\ \A j \in Item : Pv(d)[j] = IF j = r THEN b ELSE Pv(c)[j]
      /\ Nx(d) = Nx(c) /\ Cd(d) = Cd(c)
  BY <1>1, <1>4, <1>6, SetPrevIs
<1>8. d \in Heap /\ Rewired(h, d)
  BY <1>5, <1>7, RewiredTwice DEF Rewired
<1>9. /\ Rewired(d, e) /\ \A j \in Item : Pv(e)[j] = IF j = a THEN r ELSE Pv(d)[j]
      /\ Nx(e) = Nx(d) /\ Cd(e) = Cd(d)
  BY <1>1, <1>4, <1>8, SetPrevIs
<1>10. e \in Heap /\ Rewired(h, e)
  BY <1>8, <1>9, RewiredTwice DEF Rewired
<1>11. /\ Rewired(e, f) /\ \A j \in Item : Nx(f)[j] = IF j = b THEN r ELSE Nx(e)[j]
       /\ Pv(f) = Pv(e) /\ Cd(f) = Cd(e)
  BY <1>1, <1>4, <1>10, SetNextIs
<1>12. f \in Heap /\ Rewired(h, f)
  BY <1>10, <1>11, RewiredTwice DEF Rewired
<1>13. /\ Rewired(f, m) /\ Nx(m) = Nx(f) /\ Pv(m) = Pv(f)
       /\ \A j \in Item : Cd(m)[j] = IF b = NULL /\ j = p THEN r ELSE Cd(f)[j]
  <2>1. CASE b = NULL
    <3>1. m = SetChild(f, p, r)
      BY <1>4, <2>1
    <3>2. /\ Rewired(f, m) /\ \A j \in Item : Cd(m)[j] = IF j = p THEN r ELSE Cd(f)[j]
          /\ Nx(m) = Nx(f) /\ Pv(m) = Pv(f)
      BY <1>1, <1>12, <3>1, SetChildIs
    <3> QED
      BY <2>1, <3>2
  <2>2. CASE b # NULL
    <3>1. m = f
      BY <1>4, <2>2
    <3> QED
      BY <1>12, <2>2, <3>1, RewiredSelf
  <2> QED
    BY <2>1, <2>2
<1>14. m \in Heap /\ Rewired(h, m)
  BY <1>12, <1>13, RewiredTwice DEF Rewired
<1>15. /\ Rewired(m, o) /\ \A j \in Item : Nx(o)[j] = IF j = i THEN NULL ELSE Nx(m)[j]
       /\ Pv(o) = Pv(m) /\ Cd(o) = Cd(m)
  BY <1>1, <1>4, <1>14, SetNextIs
<1>16. o \in Heap /\ Rewired(h, o)
  BY <1>14, <1>15, RewiredTwice DEF Rewired
<1>17. /\ Rewired(o, g) /\ \A j \in Item : Pv(g)[j] = IF j = i THEN NULL ELSE Pv(o)[j]
       /\ Nx(g) = Nx(o) /\ Cd(g) = Cd(o)
  BY <1>1, <1>3, <1>16, SetPrevIs
<1>18. Rewired(h, g)
  BY <1>16, <1>17, RewiredTwice
<1>19. \A j \in Item : Nx(g)[j] = IF j = i THEN NULL ELSE IF j = b THEN r
                                ELSE IF j = r THEN a ELSE Nx(h)[j]
  BY <1>5, <1>7, <1>9, <1>11, <1>13, <1>15, <1>17
<1>20. \A j \in Item : Pv(g)[j] = IF j = i THEN NULL ELSE IF j = a THEN r
                                ELSE IF j = r THEN b ELSE Pv(h)[j]
  BY <1>5, <1>7, <1>9, <1>11, <1>13, <1>15, <1>17
<1>21. \A j \in Item : Cd(g)[j] = IF b = NULL /\ j = p THEN r ELSE Cd(h)[j]
  BY <1>5, <1>7, <1>9, <1>11, <1>13, <1>15, <1>17
<1> QED
  BY <1>18, <1>19, <1>20, <1>21

(* A replacement that fits: held, with no sibling, and p is not in it.     *)
Addable(h, R, p, k) ==
  /\ k \in R /\ p \notin Doomed(h, k)
  /\ h.cell[p].type = "object" => h.cell[k].string # NoName

LEMMA SwapWhole ==
  ASSUME NEW h, NEW R, NEW up, Whole(h, R, up), Alone(h, R),
         NEW p, NEW i, Member(h, up, p, i), NEW r, Addable(h, R, p, r),
         NEW g, g = Swapped(h, p, i, r)
  PROVE  /\ \E up2 : Whole(g, (R \cup {i}) \ {r}, up2)
         /\ Alone(g, (R \cup {i}) \ {r})
<1>1. /\ h \in Heap /\ HeapGraph(h, R, up) /\ R \in SUBSET Live(h) /\ up \in Pointers
      /\ Live(h) \in SUBSET Item /\ NULL \notin Item
      /\ \A j \in R : up[j] = NULL
  BY WholeParts
<1>2. /\ i \in Item /\ p \in Item /\ i \in Live(h) /\ p \in Live(h) /\ i \notin R /\ up[i] = p
      /\ (h.cell[p].child = i <=> Pv(h)[i] = NULL)
      /\ Pv(h)[i] # NULL => Pv(h)[i] \in Live(h) \ R /\ up[Pv(h)[i]] = p
      /\ Nx(h)[i] # NULL => Nx(h)[i] \in Live(h) \ R /\ up[Nx(h)[i]] = p
      /\ Pv(h)[i] # i
  BY MemberFacts
<1>3. r \in R /\ r \in Item /\ p \notin Doomed(h, r) /\ Nx(h)[r] = NULL /\ r \in Live(h)
  BY <1>1 DEF Addable, Alone
<1> DEFINE a == Nx(h)[i]
           b == Pv(h)[i]
           T == Doomed(h, r)
<1>4. a = Nx(h)[i] /\ b = Pv(h)[i]
  OBVIOUS
<1> HIDE DEF a, b
<1>5. /\ Rewired(h, g)
      /\ \A j \in Item : Nx(g)[j] = IF j = i THEN NULL ELSE IF j = b THEN r
                                    ELSE IF j = r THEN a ELSE Nx(h)[j]
      /\ \A j \in Item : Pv(g)[j] = IF j = i THEN NULL ELSE IF j = a THEN r
                                    ELSE IF j = r THEN b ELSE Pv(h)[j]
      /\ \A j \in Item : Cd(g)[j] = IF b = NULL /\ j = p THEN r ELSE Cd(h)[j]
  BY <1>1, <1>2, <1>3, <1>4, SwappedIs
<1>6. g \in Heap /\ Live(g) = Live(h)
  BY <1>1, <1>5, KdIs DEF Rewired
<1>7. ~h.cell[p].isRef
  BY DEF Member
<1>8. \A j \in Item : Kd(g)[j] = IF b = NULL /\ j = up[i] THEN r ELSE Kd(h)[j]
  BY <1>1, <1>2, <1>3, <1>5, <1>7, KdIs
<1> DEFINE up2 == [j \in Item |-> IF j = i THEN NULL ELSE IF j = r THEN up[i] ELSE up[j]]
<1>9. up2 \in Pointers /\ \A j \in Item : up2[j] = IF j = i THEN NULL ELSE IF j = r THEN up[i] ELSE up[j]
  BY <1>1, <1>2 DEF Pointers
<1> HIDE DEF up2
<1>10. HeapGraph(g, (R \cup {i}) \ {r}, up2)
  <2>1. Nx(g) \in Pointers /\ Pv(g) \in Pointers /\ Kd(g) \in Pointers
    BY <1>6, HeapTypes
  <2>2. Graph(Live(h), Nx(h), Pv(h), Kd(h), R, up)
    BY <1>1 DEF HeapGraph
  <2>3. T \in SUBSET Live(h) /\ Tree(Nx(h), Pv(h), Kd(h), up, r, T)
    BY <1>1, <1>3, DoomedTree
  <2>4. up[i] \notin T /\ up[i] # NULL
    BY <1>1, <1>2, <1>3
  <2>5. a \notin R /\ b \notin R
    BY <1>1, <1>2, <1>4
  <2> HIDE DEF T
  <2>6. Graph(Live(h), Nx(g), Pv(g), Kd(g), (R \cup {i}) \ {r}, up2)
    BY <1>2, <1>3, <1>4, <1>5, <1>8, <1>9, <2>1, <2>2, <2>3, <2>4, <2>5, GraphReplace
  <2> QED
    BY <1>6, <2>6 DEF HeapGraph
<1>11. Named(h, up2)
  <2> SUFFICES ASSUME NEW x \in Live(h), up2[x] # NULL, h.cell[up2[x]].type = "object"
               PROVE  h.cell[x].string # NoName
    BY DEF Named
  <2>1. CASE x = r
    BY <1>1, <1>2, <1>9, <2>1 DEF Addable
  <2>2. CASE x # r
    BY <1>1, <1>9, <2>2 DEF Whole, Named
  <2> QED
    BY <2>1, <2>2
<1>12. ASSUME NEW x \in Live(h) PROVE Shown(h, up2, h.cell[x])
  <2>1. Shown(h, up, h.cell[x]) /\ (h.cell[x].isRef => h.cell[x].child # i)
    BY DEF Whole, Member
  <2>2. \A y \in Live(h) : up[y] # NULL /\ y # i => up2[y] = up[y]
    BY <1>1, <1>3, <1>9
  <2> QED
    BY <2>1, <2>2 DEF Shown
<1>13. \A j \in Item \ Live(h) : /\ Nx(g)[j] = Nx(h)[j] /\ Pv(g)[j] = Pv(h)[j]
                               /\ Cd(g)[j] = Cd(h)[j]
  BY <1>1, <1>2, <1>3, <1>4, <1>5
<1>14. \A j \in Item : h.cell[j].isRef => Cd(g)[j] = Cd(h)[j]
  BY <1>5, <1>7
<1>15. Whole(g, (R \cup {i}) \ {r}, up2)
  BY <1>5, <1>10, <1>11, <1>12, <1>13, <1>14, RewiredWhole
<1>16. Alone(g, (R \cup {i}) \ {r})
  <2> SUFFICES ASSUME NEW j \in (R \cup {i}) \ {r} PROVE Nx(g)[j] = NULL
    BY DEF Alone
  <2>1. j # b /\ j \in Item
    BY <1>1, <1>2, <1>4, <1>5
  <2> QED
    BY <1>5, <2>1 DEF Alone
<1> QED
  BY <1>15, <1>16

(* What goes with i goes whether r is there or not.                        *)
LEMMA SwapDoomed ==
  ASSUME NEW h, NEW R, NEW up, Whole(h, R, up), Alone(h, R),
         NEW p, NEW i, Member(h, up, p, i), NEW r, Addable(h, R, p, r),
         NEW g, g = Swapped(h, p, i, r),
         NEW e, e = cJSON_DetachItemViaPointer(h, p, i)
  PROVE  Doomed(g, i) = Doomed(e, i)
<1>1. /\ h \in Heap /\ HeapGraph(h, R, up) /\ R \in SUBSET Live(h) /\ up \in Pointers
      /\ Live(h) \in SUBSET Item /\ NULL \notin Item
      /\ \A j \in R : up[j] = NULL /\ Pv(h)[j] = NULL
  BY WholeParts
<1>2. /\ i \in Item /\ p \in Item /\ i \in Live(h) /\ p \in Live(h) /\ i \notin R /\ up[i] = p
      /\ (h.cell[p].child = i <=> Pv(h)[i] = NULL)
      /\ Pv(h)[i] # NULL => Pv(h)[i] \in Live(h) \ R /\ up[Pv(h)[i]] = p
      /\ Nx(h)[i] # NULL => Nx(h)[i] \in Live(h) \ R /\ up[Nx(h)[i]] = p
      /\ Nx(h)[i] # i /\ Pv(h)[i] # i /\ p # i
  BY MemberFacts
<1>3. r \in R /\ r \in Item /\ r \in Live(h)
  BY <1>1 DEF Addable
<1> DEFINE a == Nx(h)[i]
           b == Pv(h)[i]
<1>4. a = Nx(h)[i] /\ b = Pv(h)[i]
  OBVIOUS
<1> HIDE DEF a, b
<1>5. /\ Rewired(h, g)
      /\ \A j \in Item : Nx(g)[j] = IF j = i THEN NULL ELSE IF j = b THEN r
                                    ELSE IF j = r THEN a ELSE Nx(h)[j]
      /\ \A j \in Item : Pv(g)[j] = IF j = i THEN NULL ELSE IF j = a THEN r
                                    ELSE IF j = r THEN b ELSE Pv(h)[j]
      /\ \A j \in Item : Cd(g)[j] = IF b = NULL /\ j = p THEN r ELSE Cd(h)[j]
  BY <1>1, <1>2, <1>3, <1>4, SwappedIs
<1>6. /\ Rewired(h, e)
      /\ \A j \in Item : Nx(e)[j] = IF j = i THEN NULL ELSE IF j = b THEN a ELSE Nx(h)[j]
      /\ \A j \in Item : Pv(e)[j] = IF j = i THEN NULL ELSE IF j = a THEN b ELSE Pv(h)[j]
      /\ \A j \in Item : Cd(e)[j] = IF b = NULL /\ j = p THEN a ELSE Cd(h)[j]
  <2>1. /\ Rewired(h, e)
        /\ \A j \in Item : Nx(e)[j] = IF j = i THEN NULL ELSE IF j = Pv(h)[i] THEN Nx(h)[i] ELSE Nx(h)[j]
        /\ \A j \in Item : Pv(e)[j] = IF j = i THEN NULL ELSE IF j = Nx(h)[i] THEN Pv(h)[i] ELSE Pv(h)[j]
        /\ \A j \in Item : Cd(e)[j] = IF Pv(h)[i] = NULL /\ j = p THEN Nx(h)[i] ELSE Cd(h)[j]
    BY <1>1, <1>2, DetachIs
  <2> QED
    BY <1>4, <2>1
<1>7. g \in Heap /\ e \in Heap /\ Live(e) = Live(h) /\ i \in R \cup {i}
  BY <1>1, <1>5, <1>6, KdIs DEF Rewired
<1>8. PICK up2 \in Pointers : Whole(e, R \cup {i}, up2) /\ Orphaned(up, up2, i)
  <2>1. /\ Rewired(h, e) /\ Alone(e, R \cup {i})
        /\ \E up2 \in Pointers : Whole(e, R \cup {i}, up2) /\ Orphaned(up, up2, i)
    BY DetachWhole
  <2> QED
    BY <2>1
<1>9. HeapGraph(e, R \cup {i}, up2) /\ \A j \in R \cup {i} : Pv(e)[j] = NULL /\ up2[j] = NULL
  BY <1>8, WholeParts
<1> DEFINE D == Doomed(e, i)
           D2 == Doomed(g, i)
           after == [j \in Item |-> After(e, j)]
           later == [j \in Item |-> After(g, j)]
<1>10. D \in SUBSET Live(h) /\ Tree(Nx(e), Pv(e), Kd(e), up2, i, D)
  BY <1>7, <1>9, DoomedTree
<1>11. after \in [Item -> SUBSET Item] /\ later \in [Item -> SUBSET Item] /\ {i} \in SUBSET Item
  BY <1>2, <1>7, HeapTypes
<1>12. \A j \in Item : after[j] = After(e, j) /\ later[j] = After(g, j)
  OBVIOUS
<1>13. D = Reached({i}, after) /\ D2 = Reached({i}, later)
  BY DEF Doomed
<1> HIDE DEF D, D2, after, later
<1>14. r \notin D
  <2>1. Par(Pv(e), up2, r) = NULL /\ r # i
    BY <1>2, <1>3, <1>9 DEF Par
  <2> QED
    BY <1>1, <1>10, <2>1 DEF Tree
<1>15. p \notin D
  <2> SUFFICES ASSUME p \in D PROVE FALSE
    OBVIOUS
  <2> DEFINE X == D \cup {x \in Live(h) : up[x] = p}
  <2>1. \A x \in Live(h) : Node(Live(h), Nx(h), Pv(h), Kd(h), R, up, x)
    BY <1>1 DEF HeapGraph, Graph
  <2>2. ASSUME NEW x \in X PROVE Par(Pv(h), up, x) \in X
    <3>1. x \in Live(h) /\ x \in Item
      BY <1>1, <1>10
    <3>2. CASE up[x] = p
      <4>1. CASE Pv(h)[x] = NULL
        BY <3>2, <4>1 DEF Par
      <4>2. CASE Pv(h)[x] # NULL
        <5>1. Pv(h)[x] \in Live(h) /\ Nx(h)[Pv(h)[x]] = x /\ x # NULL
          BY <1>1, <2>1, <3>1, <4>2 DEF Node
        <5>2. up[Pv(h)[x]] = p
          BY <2>1, <3>2, <5>1 DEF Node
        <5>3. Par(Pv(h), up, x) = Pv(h)[x]
          BY <4>2 DEF Par
        <5> QED
          BY <5>1, <5>2, <5>3
      <4> QED
        BY <4>1, <4>2
    <3>3. CASE up[x] # p
      <4>1. x \in D /\ x # i /\ x # a
        BY <1>1, <1>2, <1>4, <3>1, <3>3
      <4>2. Par(Pv(e), up2, x) = Par(Pv(h), up, x)
        BY <1>6, <1>8, <3>1, <4>1 DEF Par, Orphaned
      <4>3. Par(Pv(e), up2, x) \in D
        BY <1>10, <4>1 DEF Tree
      <4> QED
        BY <4>2, <4>3
    <3> QED
      BY <3>2, <3>3
  <2>3. X \in SUBSET Live(h) /\ X # {}
    BY <1>2, <1>10
  <2>4. Rooted(Live(h), Pv(h), up)
    BY <1>1 DEF HeapGraph, Graph
  <2> HIDE DEF X
  <2> QED
    BY <2>2, <2>3, <2>4 DEF Rooted
<1>16. b \notin D
  <2> SUFFICES ASSUME b \in D PROVE FALSE
    OBVIOUS
  <2>1. b \in Item /\ b # NULL /\ b # i
    BY <1>1, <1>2, <1>4, <1>10
  <2>2. up2[b] = p /\ p # NULL
    BY <1>1, <1>2, <1>4, <1>8, <2>1 DEF Orphaned
  <2>3. Graph(Live(h), Nx(e), Pv(e), Kd(e), R \cup {i}, up2)
    BY <1>7, <1>9 DEF HeapGraph
  <2>4. up2[b] \in D
    BY <1>7, <1>10, <2>2, <2>3, OwnerInside
  <2> QED
    BY <1>15, <2>2, <2>4
<1>17. \A j \in D : j \in Item /\ later[j] = after[j]
  <2> SUFFICES ASSUME NEW j \in D PROVE j \in Item /\ After(g, j) = After(e, j)
    BY <1>12
  <2>1. j \in Item /\ j # p /\ j # b /\ j # r
    BY <1>1, <1>10, <1>14, <1>15, <1>16
  <2>2. Nx(g)[j] = Nx(e)[j] /\ Cd(g)[j] = Cd(e)[j]
    BY <1>5, <1>6, <2>1
  <2>3. Kd(g)[j] = Kd(e)[j]
    BY <1>1, <1>5, <1>6, <2>1, <2>2, KdIs
  <2> QED
    BY <1>7, <2>1, <2>2, <2>3, AfterSame
<1>18. D2 \subseteq D
  <2>1. {i} \subseteq D /\ Closed(after, D)
    BY <1>11, <1>13, ReachedClosed
  <2>2. Closed(later, D)
    BY <1>17, <2>1 DEF Closed
  <2> QED
    BY <1>11, <1>13, <2>1, <2>2, ReachedLeast
<1>19. D \subseteq D2
  <2>1. {i} \subseteq D2 /\ Closed(later, D2)
    BY <1>11, <1>13, ReachedClosed
  <2>2. Closed(after, D2)
    BY <1>17, <1>18, <2>1 DEF Closed
  <2> QED
    BY <1>11, <1>13, <2>1, <2>2, ReachedLeast
<1> QED
  BY <1>18, <1>19 DEF D, D2

LEMMA ReplaceWhole ==
  ASSUME NEW h, NEW R, NEW up, Whole(h, R, up), Alone(h, R),
         NEW p, NEW i, Member(h, up, p, i), NEW r, Addable(h, R, p, r),
         NEW D, D = Doomed(cJSON_DetachItemViaPointer(h, p, i), i),
         \A x \in Live(h) \ D : h.cell[x].isRef => h.cell[x].child \notin D,
         NEW g, g = cJSON_ReplaceItemViaPointer(h, p, i, r)
  PROVE  (\E up2 : Whole(g, R \ {r}, up2)) /\ Alone(g, R \ {r}) /\ Kept(h, g)
<1>1. /\ h \in Heap /\ R \in SUBSET Live(h) /\ Live(h) \in SUBSET Item /\ NULL \notin Item
  BY WholeParts
<1>2. /\ i \in Item /\ p \in Item /\ i \in Live(h) /\ i \notin R
      /\ (h.cell[p].child = i <=> Pv(h)[i] = NULL)
  BY MemberFacts
<1>3. r \in R /\ r \in Item /\ i # r /\ i # NULL
  BY <1>1, <1>2 DEF Addable
<1> DEFINE e == Swapped(h, p, i, r)
           S == (R \cup {i}) \ {r}
           d == cJSON_DetachItemViaPointer(h, p, i)
<1>4. e = Swapped(h, p, i, r) /\ d = cJSON_DetachItemViaPointer(h, p, i) /\ D = Doomed(d, i)
  OBVIOUS
<1>5. g = cJSON_Delete(e, i)
  BY <1>3 DEF cJSON_ReplaceItemViaPointer, Swapped
<1> HIDE DEF e, d
<1>6. PICK up2 : Whole(e, S, up2)
  BY <1>4, SwapWhole
<1>7. Alone(e, S)
  BY <1>4, SwapWhole
<1>8. D = Doomed(e, i)
  BY <1>4, SwapDoomed
<1>9. /\ Rewired(h, e) /\ e \in Heap /\ Live(e) = Live(h)
      /\ \A j \in Item : h.cell[j].isRef => Cd(e)[j] = Cd(h)[j]
  <2> DEFINE a == Nx(h)[i]
             b == Pv(h)[i]
  <2>1. a = Nx(h)[i] /\ b = Pv(h)[i]
    OBVIOUS
  <2> HIDE DEF a, b
  <2>2. /\ Rewired(h, e)
        /\ \A j \in Item : Nx(e)[j] = IF j = i THEN NULL ELSE IF j = b THEN r
                                      ELSE IF j = r THEN a ELSE Nx(h)[j]
        /\ \A j \in Item : Pv(e)[j] = IF j = i THEN NULL ELSE IF j = a THEN r
                                      ELSE IF j = r THEN b ELSE Pv(h)[j]
        /\ \A j \in Item : Cd(e)[j] = IF b = NULL /\ j = p THEN r ELSE Cd(h)[j]
    BY <1>1, <1>2, <1>3, <1>4, <2>1, SwappedIs
  <2>3. ~h.cell[p].isRef
    BY DEF Member
  <2> QED
    BY <1>1, <2>2, <2>3, KdIs DEF Rewired
<1>10. \A x \in Live(e) \ D : e.cell[x].isRef => e.cell[x].child \notin D
  <2> SUFFICES ASSUME NEW x \in Live(h) \ D, e.cell[x].isRef PROVE e.cell[x].child \notin D
    BY <1>9
  <2>1. x \in Item /\ h.cell[x].isRef
    BY <1>1, <1>9 DEF Rewired, SameItem
  <2>2. e.cell[x].child = h.cell[x].child
    BY <1>9, <2>1 DEF Cd
  <2> QED
    BY <2>1, <2>2
<1>11. i \in S /\ S \ {i} = R \ {r}
  BY <1>2, <1>3
<1> HIDE DEF S
<1>12. /\ Whole(g, S \ {i}, up2) /\ D \in SUBSET Live(e) /\ Live(g) = Live(e) \ D
       /\ \A j \in Item \ D : g.cell[j] = e.cell[j]
  BY <1>5, <1>6, <1>8, <1>10, <1>11, DeleteWhole, SMTT(30)
<1>13. Whole(g, R \ {r}, up2)
  BY <1>11, <1>12
<1>14. Alone(g, R \ {r})
  <2> SUFFICES ASSUME NEW j \in R \ {r} PROVE Nx(g)[j] = NULL
    BY DEF Alone
  <2>1. j \in Live(g) /\ j \in Item
    BY <1>1, <1>13, WholeParts
  <2>2. j \notin D
    BY <1>12, <2>1
  <2>3. Nx(g)[j] = Nx(e)[j]
    BY <1>12, <2>1, <2>2 DEF Nx
  <2> QED
    BY <1>7, <1>11, <2>3 DEF Alone
<1>15. Kept(h, g)
  <2> SUFFICES ASSUME NEW j \in Live(h), j \in Live(g) PROVE g.cell[j].isRef = h.cell[j].isRef
    BY DEF Kept
  <2>1. j \in Item \ D /\ j \in Item
    BY <1>1, <1>12
  <2> QED
    BY <1>9, <1>12, <2>1 DEF Rewired, SameItem
<1> QED
  BY <1>13, <1>14, <1>15

LEMMA KeysFinite ==
  ASSUME NEW h
  PROVE  /\ Keys(h) \in SUBSET Item /\ Values(h) \in SUBSET Item
         /\ IsFiniteSet(Keys(h)) /\ Cardinality(Keys(h)) \in Nat
         /\ IsFiniteSet(Values(h)) /\ Cardinality(Values(h)) \in Nat
<1>1. Keys(h) \in SUBSET Item /\ Values(h) \in SUBSET Item
  BY DEF Keys, Values, Live
<1> QED
  BY <1>1, ItemsFinite

LEMMA OneMore ==
  ASSUME NEW S \in SUBSET Item, NEW i, i \notin S, NEW yes \in BOOLEAN,
         NEW T, T = IF yes THEN S \cup {i} ELSE S
  PROVE  Cardinality(T) = Cardinality(S) + (IF yes THEN 1 ELSE 0)
<1>1. IsFiniteSet(S) /\ Cardinality(S) \in Nat
  BY ItemsFinite
<1>2. Cardinality(S \cup {i}) = Cardinality(S) + 1
  BY <1>1, FS_AddElement
<1> QED
  BY <1>1, <1>2

(* A new item, whatever it is of, with nothing below it that it owns.      *)
NewCell(h, up, c) ==
  /\ c \in Cell /\ c.live /\ c.next = NULL /\ c.prev = NULL /\ ~OwnsChild(c)
  /\ Shown(h, up, c)

Added(h, g, n, c) ==
  /\ g \in Heap /\ g.misused = h.misused
  /\ \A j \in Item : g.cell[j] = IF j = n THEN c ELSE h.cell[j]
  /\ g.blocks = h.blocks + (IF OwnsKey(c) THEN 1 ELSE 0) + (IF OwnsValue(c) THEN 1 ELSE 0)

LEMMA NewWhole ==
  ASSUME NEW h, NEW R, NEW up, Whole(h, R, up), NEW n \in Item \ Live(h),
         NEW c, NewCell(h, up, c), NEW g, Added(h, g, n, c)
  PROVE  /\ Live(g) = Live(h) \cup {n}
         /\ \E up2 \in Pointers : Whole(g, R \cup {n}, up2) /\ Orphaned(up, up2, n)
<1>1. /\ h \in Heap /\ HeapGraph(h, R, up) /\ R \in SUBSET Live(h) /\ up \in Pointers
      /\ Live(h) \in SUBSET Item /\ NULL \notin Item
  BY WholeParts
<1>2. /\ g \in Heap /\ \A j \in Item : g.cell[j] = IF j = n THEN c ELSE h.cell[j]
  BY DEF Added
<1>3. c \in Cell /\ c.live /\ c.next = NULL /\ c.prev = NULL /\ ~OwnsChild(c)
  BY DEF NewCell
<1>4. Live(g) = Live(h) \cup {n}
  BY <1>1, <1>2, <1>3 DEF Live
<1>5. /\ \A j \in Item : Nx(g)[j] = IF j = n THEN NULL ELSE Nx(h)[j]
      /\ \A j \in Item : Pv(g)[j] = IF j = n THEN NULL ELSE Pv(h)[j]
      /\ \A j \in Item : Kd(g)[j] = IF j = n THEN NULL ELSE Kd(h)[j]
  BY <1>2, <1>3 DEF Nx, Pv, Kd, OwnsChild
<1> DEFINE up2 == [j \in Item |-> IF j = n THEN NULL ELSE up[j]]
<1>6. up2 \in Pointers /\ \A j \in Item : up2[j] = IF j = n THEN NULL ELSE up[j]
  BY <1>1 DEF Pointers
<1> HIDE DEF up2
<1>7. HeapGraph(g, R \cup {n}, up2)
  <2>1. Nx(g) \in Pointers /\ Pv(g) \in Pointers /\ Kd(g) \in Pointers
    BY <1>2, HeapTypes
  <2>2. Graph(Live(h), Nx(h), Pv(h), Kd(h), R, up)
    BY <1>1 DEF HeapGraph
  <2>3. Graph(Live(h) \cup {n}, Nx(g), Pv(g), Kd(g), R \cup {n}, up2)
    BY <1>5, <1>6, <2>1, <2>2, GraphNew
  <2> QED
    BY <1>4, <2>3 DEF HeapGraph
<1>8. \A x \in Live(h) : up[x] # NULL => up[x] \in Live(h)
  <2>1. Graph(Live(h), Nx(h), Pv(h), Kd(h), R, up)
    BY <1>1 DEF HeapGraph
  <2> QED
    BY <2>1, UpLive
<1>9. Named(g, up2)
  <2>1. Named(h, up)
    BY DEF Whole
  <2> QED
    BY <1>1, <1>2, <1>4, <1>6, <1>8, <2>1 DEF Named
<1>10. ASSUME NEW d, Shown(h, up, d) PROVE Shown(g, up2, d)
  <2>1. d.isRef /\ d.child # NULL =>
          d.child \in Live(h) /\ up[d.child] # NULL /\ h.cell[up[d.child]].type = d.type
    BY <1>10 DEF Shown
  <2>2. \A x \in Live(h) : up[x] # NULL => up2[x] = up[x] /\ g.cell[up[x]] = h.cell[up[x]]
    BY <1>1, <1>2, <1>6, <1>8
  <2> QED
    BY <1>4, <2>1, <2>2 DEF Shown
<1>11. ASSUME NEW r \in Live(g) PROVE Shown(g, up2, g.cell[r])
  <2>1. CASE r = n
    BY <1>2, <1>10, <2>1 DEF NewCell
  <2>2. CASE r # n
    <3>1. r \in Live(h) /\ g.cell[r] = h.cell[r]
      BY <1>1, <1>2, <1>4, <2>2
    <3> QED
      BY <1>10, <3>1 DEF Whole
  <2> QED
    BY <2>1, <2>2
<1>12. Cleared(g)
  BY <1>2, <1>4 DEF Whole, Cleared
<1>13. Counted(g)
  <2> DEFINE key == OwnsKey(c)
             value == OwnsValue(c)
  <2>1. key \in BOOLEAN /\ value \in BOOLEAN
    BY DEF OwnsKey, OwnsValue
  <2>2. Keys(g) = IF key THEN Keys(h) \cup {n} ELSE Keys(h)
    BY <1>1, <1>2, <1>4 DEF Keys
  <2>3. Values(g) = IF value THEN Values(h) \cup {n} ELSE Values(h)
    BY <1>1, <1>2, <1>4 DEF Values
  <2>4. n \notin Keys(h) /\ n \notin Values(h)
    BY DEF Keys, Values
  <2>5. g.blocks = h.blocks + (IF key THEN 1 ELSE 0) + (IF value THEN 1 ELSE 0)
    BY DEF Added
  <2> HIDE DEF key, value
  <2>6. Cardinality(Keys(g)) = Cardinality(Keys(h)) + (IF key THEN 1 ELSE 0)
    BY <2>1, <2>2, <2>4, KeysFinite, OneMore
  <2>7. Cardinality(Values(g)) = Cardinality(Values(h)) + (IF value THEN 1 ELSE 0)
    BY <2>1, <2>3, <2>4, KeysFinite, OneMore
  <2>8. ~g.misused /\ h.blocks = Cardinality(Keys(h)) + Cardinality(Values(h))
    BY DEF Whole, Counted, Added
  <2> QED
    BY <2>5, <2>6, <2>7, <2>8, KeysFinite DEF Counted
<1>14. Whole(g, R \cup {n}, up2)
  BY <1>2, <1>7, <1>9, <1>11, <1>12, <1>13 DEF Whole
<1> QED
  BY <1>4, <1>6, <1>14 DEF Orphaned

(* A key is replaced, by its copy or, without memory, by none.             *)
LEMMA KeyWhole ==
  ASSUME NEW h, NEW R, NEW up, Whole(h, R, up), NEW i \in Live(h), NEW n \in Name \cup {NoCopy},
         NEW constant \in BOOLEAN, NEW g, g = NewKey(h, i, n, constant)
  PROVE  /\ Whole(g, R, up) /\ g.cell[i].string # NoName
         /\ Live(g) = Live(h) /\ Nx(g) = Nx(h) /\ Pv(g) = Pv(h) /\ Kd(g) = Kd(h)
         /\ \A j \in Item : /\ g.cell[j].isRef = h.cell[j].isRef /\ g.cell[j].type = h.cell[j].type
                            /\ g.cell[j].child = h.cell[j].child
<1>1. /\ h \in Heap /\ HeapGraph(h, R, up) /\ R \in SUBSET Live(h) /\ up \in Pointers
      /\ Live(h) \in SUBSET Item /\ NULL \notin Item /\ i \in Item
  BY WholeParts
<1> DEFINE c == h.cell[i]
           d == [c EXCEPT !.string = n, !.isConst = constant]
           freed == IF OwnsKey(c) THEN 1 ELSE 0
           copied == IF constant \/ n = NoCopy THEN 0 ELSE 1
<1>2. g = [h EXCEPT !.cell[i].string = n, !.cell[i].isConst = constant, !.blocks = @ - freed + copied]
  BY DEF NewKey
<1>3. c \in Cell /\ n \in Name \cup {NoName, NoCopy} /\ n # NoName
  BY <1>1, CellsOfHeap, TreeAssumption
<1>4. /\ d \in Cell /\ d.live = c.live /\ d.type = c.type /\ d.next = c.next /\ d.prev = c.prev
      /\ d.child = c.child /\ d.isRef = c.isRef /\ d.string = n /\ d.isConst = constant
      /\ d.value = c.value
  BY <1>3 DEF Cell
<1>5. g.cell = [h.cell EXCEPT ![i] = d]
  <2>1. g.cell = [[h.cell EXCEPT ![i].string = n] EXCEPT ![i].isConst = constant]
    BY <1>1, <1>2 DEF Heap
  <2> DEFINE c1 == [c EXCEPT !.string = n]
             cell1 == [h.cell EXCEPT ![i] = c1]
  <2>2. h.cell \in [Item -> Cell]
    BY <1>1 DEF Heap
  <2>3. cell1[i] = c1 /\ cell1 = [h.cell EXCEPT ![i].string = n]
    BY <1>1, <2>2
  <2>4. g.cell = [cell1 EXCEPT ![i] = [cell1[i] EXCEPT !.isConst = constant]]
    BY <2>1, <2>3
  <2>5. [c1 EXCEPT !.isConst = constant] = d
    BY <1>3 DEF Cell
  <2> HIDE DEF c1, d
  <2> QED
    BY <1>1, <2>2, <2>3, <2>4, <2>5
<1>6. \A j \in Item : g.cell[j] = IF j = i THEN d ELSE h.cell[j]
  BY <1>1, <1>5 DEF Heap
<1>7. g.blocks = h.blocks - freed + copied /\ g.misused = h.misused
  BY <1>1, <1>2 DEF Heap
<1>8. \A j \in Item : /\ g.cell[j].live = h.cell[j].live /\ g.cell[j].type = h.cell[j].type
                    /\ g.cell[j].next = h.cell[j].next /\ g.cell[j].prev = h.cell[j].prev
                    /\ g.cell[j].child = h.cell[j].child /\ g.cell[j].isRef = h.cell[j].isRef
                    /\ g.cell[j].value = h.cell[j].value
  BY <1>4, <1>6
<1> HIDE DEF d
<1>9. Live(g) = Live(h) /\ Nx(g) = Nx(h) /\ Pv(g) = Pv(h) /\ Kd(g) = Kd(h)
  BY <1>8 DEF Live, Nx, Pv, Kd
<1>10. Values(g) = Values(h)
  BY <1>1, <1>8, <1>9 DEF Values, OwnsValue
<1>11. OwnsKey(d) <=> ~constant /\ n # NoCopy
  BY <1>3, <1>4, TreeAssumption DEF OwnsKey
<1> DEFINE K == Keys(h) \ {i}
           had == OwnsKey(c)
           has == ~constant /\ n # NoCopy
<1>12. Keys(h) = (IF had THEN K \cup {i} ELSE K) /\ Keys(g) = (IF has THEN K \cup {i} ELSE K)
  BY <1>1, <1>6, <1>9, <1>11 DEF Keys
<1>13. K \in SUBSET Item /\ i \notin K /\ had \in BOOLEAN /\ has \in BOOLEAN
  BY KeysFinite DEF OwnsKey
<1>14. freed = (IF had THEN 1 ELSE 0) /\ copied = (IF has THEN 1 ELSE 0)
  OBVIOUS
<1> HIDE DEF K, had, has, freed, copied
<1>15. Cardinality(Keys(h)) = Cardinality(K) + freed
  BY <1>12, <1>13, <1>14, OneMore
<1>16. Cardinality(Keys(g)) = Cardinality(K) + copied
  BY <1>12, <1>13, <1>14, OneMore
<1>17. Cardinality(K) \in Nat /\ freed \in Nat /\ copied \in Nat
  BY <1>13, <1>14, ItemsFinite
<1>18. ~h.misused /\ h.blocks = Cardinality(Keys(h)) + Cardinality(Values(h))
  BY DEF Whole, Counted
<1>19. g.blocks = Cardinality(Keys(g)) + Cardinality(Values(g)) /\ g.blocks \in Nat
  BY <1>7, <1>10, <1>15, <1>16, <1>17, <1>18, KeysFinite
<1>20. g \in Heap
  <2>1. g.cell \in [Item -> Cell]
    BY <1>1, <1>4, <1>5 DEF Heap
  <2>2. g = [cell |-> g.cell, blocks |-> g.blocks, misused |-> g.misused]
    BY <1>1, <1>2 DEF Heap
  <2>3. g.misused \in BOOLEAN
    BY <1>1, <1>7 DEF Heap
  <2> QED
    BY <1>19, <2>1, <2>2, <2>3 DEF Heap
<1>21. Counted(g)
  BY <1>7, <1>18, <1>19 DEF Counted
<1>22. Cleared(g)
  BY <1>6, <1>9 DEF Whole, Cleared
<1>23. HeapGraph(g, R, up)
  BY <1>1, <1>9 DEF HeapGraph
<1>24. Named(g, up)
  <2> SUFFICES ASSUME NEW x \in Live(h), up[x] # NULL, g.cell[up[x]].type = "object"
               PROVE  g.cell[x].string # NoName
    BY <1>9 DEF Named
  <2>1. up[x] \in Item /\ x \in Item
    BY <1>1 DEF Pointers
  <2>2. h.cell[up[x]].type = "object"
    BY <1>8, <2>1
  <2>3. h.cell[x].string # NoName
    BY <2>2 DEF Whole, Named
  <2> QED
    BY <1>3, <1>4, <1>6, <2>1, <2>3
<1>25. ASSUME NEW r \in Live(g) PROVE Shown(g, up, g.cell[r])
  <2>1. r \in Live(h) /\ r \in Item
    BY <1>1, <1>9
  <2>2. Shown(h, up, h.cell[r])
    BY <2>1 DEF Whole
  <2>3. \A x \in Live(h) : up[x] # NULL => g.cell[up[x]].type = h.cell[up[x]].type
    BY <1>1, <1>8 DEF Pointers
  <2>4. /\ g.cell[r].isRef = h.cell[r].isRef /\ g.cell[r].child = h.cell[r].child
        /\ g.cell[r].type = h.cell[r].type
    BY <1>8, <2>1
  <2> QED
    BY <1>9, <2>2, <2>3, <2>4 DEF Shown
<1>26. Whole(g, R, up)
  BY <1>20, <1>21, <1>22, <1>23, <1>24, <1>25 DEF Whole
<1>27. g.cell[i].string # NoName
  BY <1>1, <1>3, <1>4, <1>6
<1> QED
  BY <1>8, <1>9, <1>26, <1>27

-----------------------------------------------------------------------------
(* The items that the calls make.                                          *)
NewOf(n, t) ==
  [live |-> TRUE, type |-> t, next |-> NULL, prev |-> NULL, child |-> NULL, isRef |-> FALSE,
   string |-> NoName, isConst |-> FALSE, value |-> IF t = "string" THEN n ELSE NULL]

CopyOf(c, n) ==
  [live |-> TRUE, type |-> c.type, next |-> NULL, prev |-> NULL, child |-> NULL, isRef |-> FALSE,
   string |-> c.string, isConst |-> c.isConst, value |-> IF c.value = NULL THEN NULL ELSE n]

LEMMA ZeroedIs ==
  /\ Zeroed \in Cell /\ Zeroed.live = FALSE /\ Zeroed.type = "invalid" /\ Zeroed.next = NULL
  /\ Zeroed.prev = NULL /\ Zeroed.child = NULL /\ Zeroed.isRef = FALSE
  /\ Zeroed.string = NoName /\ Zeroed.isConst = FALSE /\ Zeroed.value = NULL
BY DEF Zeroed, Cell

LEMMA SameCell ==
  ASSUME NEW c \in Cell, NEW d \in Cell,
         c.live = d.live, c.type = d.type, c.next = d.next, c.prev = d.prev, c.child = d.child,
         c.isRef = d.isRef, c.string = d.string, c.isConst = d.isConst, c.value = d.value
  PROVE  c = d
BY DEF Cell

LEMMA FreshIs ==
  ASSUME NEW h \in Heap, NEW n, n = Fresh(h)
  PROVE  /\ n = NULL \/ n \in Item \ Live(h)
         /\ n = NULL <=> Live(h) = Item
<1>1. Live(h) \subseteq Item
  BY DEF Live
<1>2. CASE Live(h) = Item
  BY <1>2 DEF Fresh
<1>3. CASE Live(h) # Item
  <2>1. \E i \in Item : i \notin Live(h)
    BY <1>1, <1>3
  <2>2. n \in Item /\ n \notin Live(h)
    BY <1>3, <2>1 DEF Fresh
  <2> QED
    BY <1>3, <2>2, NoItem
<1> QED
  BY <1>2, <1>3

LEMMA AddedIs ==
  ASSUME NEW h \in Heap, NEW n \in Item, NEW c \in Cell, NEW b \in {0, 1, 2},
         b = (IF OwnsKey(c) THEN 1 ELSE 0) + (IF OwnsValue(c) THEN 1 ELSE 0),
         NEW g, g = [cell |-> [h.cell EXCEPT ![n] = c], blocks |-> h.blocks + b,
                     misused |-> h.misused]
  PROVE  Added(h, g, n, c)
<1>1. h.cell \in [Item -> Cell] /\ h.blocks \in Nat /\ h.misused \in BOOLEAN
  BY DEF Heap
<1>2. g.cell \in [Item -> Cell] /\ \A j \in Item : g.cell[j] = IF j = n THEN c ELSE h.cell[j]
  BY <1>1
<1>3. g \in Heap
  BY <1>1, <1>2 DEF Heap
<1> QED
  BY <1>1, <1>2, <1>3 DEF Added

LEMMA CreateAdds ==
  ASSUME NEW h \in Heap, NEW n \in Item, NEW t \in Type, NEW up, NEW g, g = CreateItem(h, n, t)
  PROVE  NewCell(h, up, NewOf(n, t)) /\ Added(h, g, n, NewOf(n, t))
<1> DEFINE c == NewOf(n, t)
           z == [Zeroed EXCEPT !.live = TRUE, !.type = t]
<1>1. c \in Cell /\ c.live /\ c.next = NULL /\ c.prev = NULL /\ c.child = NULL /\ ~c.isRef
      /\ c.string = NoName /\ c.value = (IF t = "string" THEN n ELSE NULL)
  BY DEF NewOf, Cell
<1>2. NewCell(h, up, c)
  <2> HIDE DEF c
  <2> QED
    BY <1>1 DEF NewCell, OwnsChild, Shown
<1>3. ~OwnsKey(c) /\ (OwnsValue(c) <=> t = "string")
  <2> HIDE DEF c
  <2> QED
    BY <1>1, NoItem, TreeAssumption DEF OwnsKey, OwnsValue
<1>4. h = [cell |-> h.cell, blocks |-> h.blocks, misused |-> h.misused] /\ h.cell \in [Item -> Cell]
      /\ h.blocks \in Nat
  BY DEF Heap
<1>8. /\ z \in Cell /\ z.live /\ z.type = t /\ z.next = NULL /\ z.prev = NULL /\ z.child = NULL
      /\ z.isRef = FALSE /\ z.string = NoName /\ z.isConst = FALSE /\ z.value = NULL
  BY ZeroedIs DEF Cell
<1>9. c.type = t /\ c.live = TRUE /\ c.isRef = FALSE /\ c.isConst = FALSE
  BY DEF NewOf
<1>5. cJSON_New_Item(h, n, t) = [cell |-> [h.cell EXCEPT ![n] = z], blocks |-> h.blocks,
                                 misused |-> h.misused]
  BY <1>4 DEF cJSON_New_Item
<1>6. CASE t = "string"
  <2>1. [z EXCEPT !.value = n] = c
    <3> DEFINE y == [z EXCEPT !.value = n]
    <3> HIDE DEF z, c
    <3>1. /\ y \in Cell /\ y.live /\ y.type = t /\ y.next = NULL /\ y.prev = NULL
          /\ y.child = NULL /\ y.isRef = FALSE /\ y.string = NoName /\ y.isConst = FALSE
          /\ y.value = n
      BY <1>8 DEF Cell
    <3> HIDE DEF y
    <3>2. y = c
      BY <1>1, <1>6, <1>8, <1>9, <3>1, SameCell
    <3> QED
      BY <3>2 DEF y
  <2> DEFINE e == cJSON_New_Item(h, n, t)
  <2>2. g = [e EXCEPT !.cell[n].value = n, !.blocks = @ + 1]
    BY <1>6 DEF CreateItem, CopyValue
  <2>3. e.cell = [h.cell EXCEPT ![n] = z] /\ e.blocks = h.blocks /\ e.misused = h.misused
        /\ e.cell[n] = z
    BY <1>4, <1>5
  <2> HIDE DEF z, c
  <2>4. g = [cell |-> [e.cell EXCEPT ![n] = [z EXCEPT !.value = n]], blocks |-> h.blocks + 1,
             misused |-> h.misused]
    BY <1>4, <1>5, <2>2, <2>3
  <2>5. [e.cell EXCEPT ![n] = c] = [h.cell EXCEPT ![n] = c]
    BY <1>4, <2>3
  <2>6. g = [cell |-> [h.cell EXCEPT ![n] = c], blocks |-> h.blocks + 1, misused |-> h.misused]
    BY <2>1, <2>4, <2>5
  <2> HIDE DEF e
  <2> QED
    BY <1>1, <1>2, <1>3, <1>6, <2>6, AddedIs DEF c
<1>7. CASE t # "string"
  <2>1. z = c
    <3> HIDE DEF z, c
    <3> QED
      BY <1>1, <1>7, <1>8, <1>9, SameCell
  <2>2. g = cJSON_New_Item(h, n, t)
    BY <1>7 DEF CreateItem
  <2> HIDE DEF z, c
  <2>3. g = [cell |-> [h.cell EXCEPT ![n] = c], blocks |-> h.blocks + 0, misused |-> h.misused]
    BY <1>4, <1>5, <2>1, <2>2
  <2> QED
    BY <1>1, <1>2, <1>3, <1>7, <2>3, AddedIs DEF c
<1> QED
  BY <1>6, <1>7

NewItem(h, e, n, t, z) ==
  /\ z.live = TRUE /\ z.type = t /\ z.next = NULL /\ z.prev = NULL /\ z.child = NULL
  /\ z.isRef = FALSE /\ z.string = NoName /\ z.isConst = FALSE /\ z.value = NULL
  /\ e = [cell |-> [h.cell EXCEPT ![n] = z], blocks |-> h.blocks, misused |-> h.misused]

LEMMA NewItemIs ==
  ASSUME NEW h \in Heap, NEW n \in Item, NEW t \in Type
  PROVE  \E z \in Cell : NewItem(h, cJSON_New_Item(h, n, t), n, t, z)
<1> DEFINE z == [Zeroed EXCEPT !.live = TRUE, !.type = t]
<1>1. /\ z \in Cell /\ z.live = TRUE /\ z.type = t /\ z.next = NULL /\ z.prev = NULL
      /\ z.child = NULL /\ z.isRef = FALSE /\ z.string = NoName /\ z.isConst = FALSE
      /\ z.value = NULL
  BY ZeroedIs DEF Cell
<1>2. h = [cell |-> h.cell, blocks |-> h.blocks, misused |-> h.misused] /\ h.cell \in [Item -> Cell]
  BY DEF Heap
<1>3. cJSON_New_Item(h, n, t) = [cell |-> [h.cell EXCEPT ![n] = z], blocks |-> h.blocks,
                                 misused |-> h.misused]
  BY <1>2 DEF cJSON_New_Item
<1> HIDE DEF z
<1> QED
  BY <1>1, <1>3 DEF NewItem

(* A reference owns nothing.                                               *)
LEMMA ReferenceAdds ==
  ASSUME NEW h \in Heap, NEW n \in Item, NEW up, NEW c \in Cell, c.live, c.isRef, c.next = NULL,
         c.prev = NULL, c.string = NoName, Shown(h, up, c),
         NEW g, g = [cell |-> [h.cell EXCEPT ![n] = c], blocks |-> h.blocks,
                     misused |-> h.misused]
  PROVE  NewCell(h, up, c) /\ Added(h, g, n, c)
<1>1. NewCell(h, up, c)
  BY DEF NewCell, OwnsChild
<1>2. ~OwnsKey(c) /\ ~OwnsValue(c)
  BY TreeAssumption DEF OwnsKey, OwnsValue
<1>3. h.blocks + 0 = h.blocks
  BY DEF Heap
<1>4. Added(h, g, n, c)
  BY <1>2, <1>3, AddedIs
<1> QED
  BY <1>1, <1>4

(* Two fields of one cell of a heap written one after the other.           *)
LEMMA ValueEdit ==
  ASSUME NEW A \in [Item -> Cell], NEW n \in Item, NEW v, NEW b, NEW m,
         NEW e, e = [cell |-> A, blocks |-> b, misused |-> m],
         NEW g, g = [e EXCEPT !.cell[n].isRef = TRUE, !.cell[n].value = v]
  PROVE  g = [cell |-> [[e.cell EXCEPT ![n].isRef = TRUE] EXCEPT ![n].value = v],
              blocks |-> b, misused |-> m]
  OBVIOUS

LEMMA ChildEdit ==
  ASSUME NEW A \in [Item -> Cell], NEW n \in Item, NEW v, NEW b, NEW m,
         NEW e, e = [cell |-> A, blocks |-> b, misused |-> m],
         NEW g, g = [e EXCEPT !.cell[n].isRef = TRUE, !.cell[n].child = v]
  PROVE  g = [cell |-> [[e.cell EXCEPT ![n].isRef = TRUE] EXCEPT ![n].child = v],
              blocks |-> b, misused |-> m]
  OBVIOUS

LEMMA StringReferenceAdds ==
  ASSUME NEW h \in Heap, NEW n \in Item, NEW up,
         NEW g, g = [cJSON_New_Item(h, n, "string") EXCEPT
                       !.cell[n].isRef = TRUE, !.cell[n].value = Static]
  PROVE  \E c : NewCell(h, up, c) /\ Added(h, g, n, c)
<1> DEFINE e == cJSON_New_Item(h, n, "string")
<1>20. PICK z \in Cell : NewItem(h, e, n, "string", z)
  BY NewItemIs DEF Type
<1>1. /\ z.live = TRUE /\ z.type = "string" /\ z.next = NULL /\ z.prev = NULL /\ z.child = NULL
      /\ z.isRef = FALSE /\ z.string = NoName /\ z.isConst = FALSE /\ z.value = NULL
      /\ e = [cell |-> [h.cell EXCEPT ![n] = z], blocks |-> h.blocks, misused |-> h.misused]
  BY <1>20 DEF NewItem
<1>2. g = [e EXCEPT !.cell[n].isRef = TRUE, !.cell[n].value = Static]
  OBVIOUS
<1> HIDE DEF e
<1> DEFINE y == [z EXCEPT !.isRef = TRUE]
           c == [y EXCEPT !.value = Static]
<1>3. /\ y \in Cell /\ y.live = TRUE /\ y.next = NULL /\ y.prev = NULL /\ y.child = NULL
      /\ y.isRef = TRUE /\ y.string = NoName
  BY <1>1 DEF Cell
<1>4. /\ c \in Cell /\ c.live = TRUE /\ c.next = NULL /\ c.prev = NULL /\ c.child = NULL
      /\ c.isRef = TRUE /\ c.string = NoName
  BY <1>3 DEF Cell
<1>5. h.cell \in [Item -> Cell]
  BY DEF Heap
<1>6. /\ e.cell = [h.cell EXCEPT ![n] = z] /\ e.blocks = h.blocks /\ e.misused = h.misused
      /\ e.cell[n] = z /\ e.cell \in [Item -> Cell]
  BY <1>1, <1>5
<1> HIDE DEF y, c
<1>7. g = [cell |-> [[e.cell EXCEPT ![n].isRef = TRUE] EXCEPT ![n].value = Static],
           blocks |-> h.blocks, misused |-> h.misused]
  <2>1. [h.cell EXCEPT ![n] = z] \in [Item -> Cell]
    BY <1>6
  <2>2. e = [cell |-> [h.cell EXCEPT ![n] = z], blocks |-> h.blocks, misused |-> h.misused]
    BY <1>1
  <2> QED
    BY <1>2, <2>1, <2>2, ValueEdit, ZenonT(40)
<1>8. [e.cell EXCEPT ![n].isRef = TRUE] = [e.cell EXCEPT ![n] = y]
  BY <1>6 DEF y
<1> DEFINE cell1 == [e.cell EXCEPT ![n] = y]
<1>9. cell1[n] = y
  BY <1>6
<1>10. [cell1 EXCEPT ![n].value = Static] = [cell1 EXCEPT ![n] = c]
  BY <1>9 DEF c
<1>11. [cell1 EXCEPT ![n] = c] = [h.cell EXCEPT ![n] = c]
  BY <1>5, <1>6
<1>12. g = [cell |-> [h.cell EXCEPT ![n] = c], blocks |-> h.blocks, misused |-> h.misused]
  BY <1>7, <1>8, <1>10, <1>11
<1>13. Shown(h, up, c)
  BY <1>4 DEF Shown
<1> QED
  BY <1>4, <1>12, <1>13, ReferenceAdds

LEMMA ListReferenceAdds ==
  ASSUME NEW h, NEW R, NEW up, Whole(h, R, up), NEW n \in Item, NEW t \in Type,
         NEW p \in Live(h), ~h.cell[p].isRef, h.cell[p].type = t,
         NEW g, g = [cJSON_New_Item(h, n, t) EXCEPT
                       !.cell[n].isRef = TRUE, !.cell[n].child = h.cell[p].child]
  PROVE  \E c : NewCell(h, up, c) /\ Added(h, g, n, c)
<1> DEFINE e == cJSON_New_Item(h, n, t)
           v == h.cell[p].child
<1>0. h \in Heap /\ Live(h) \in SUBSET Item /\ NULL \notin Item /\ p \in Item
  BY WholeParts
<1>20. PICK z \in Cell : NewItem(h, e, n, t, z)
  BY <1>0, NewItemIs
<1>1. /\ z.live = TRUE /\ z.type = t /\ z.next = NULL /\ z.prev = NULL /\ z.child = NULL
      /\ z.isRef = FALSE /\ z.string = NoName /\ z.isConst = FALSE /\ z.value = NULL
      /\ e = [cell |-> [h.cell EXCEPT ![n] = z], blocks |-> h.blocks, misused |-> h.misused]
  BY <1>20 DEF NewItem
<1>2. g = [e EXCEPT !.cell[n].isRef = TRUE, !.cell[n].child = v]
  OBVIOUS
<1>13. v \in Item \cup {NULL} /\ v = Cd(h)[p]
  BY <1>0, HeapTypes DEF Pointers
<1>14. v # NULL => v \in Live(h) /\ up[v] = p
  <2>1. Node(Live(h), Nx(h), Pv(h), Kd(h), R, up, p)
    BY <1>0 DEF Whole, HeapGraph, Graph
  <2>2. v # NULL => Kd(h)[p] = v
    BY <1>0 DEF Kd
  <2> HIDE DEF v
  <2> QED
    BY <2>1, <2>2 DEF Node
<1>15. p # NULL
  BY <1>0
<1> HIDE DEF e, v
<1> DEFINE y == [z EXCEPT !.isRef = TRUE]
           c == [y EXCEPT !.child = v]
<1>3. /\ y \in Cell /\ y.live = TRUE /\ y.next = NULL /\ y.prev = NULL /\ y.type = t
      /\ y.isRef = TRUE /\ y.string = NoName
  BY <1>1 DEF Cell
<1>4. /\ c \in Cell /\ c.live = TRUE /\ c.next = NULL /\ c.prev = NULL /\ c.child = v
      /\ c.isRef = TRUE /\ c.string = NoName /\ c.type = t
  BY <1>3, <1>13 DEF Cell
<1>5. h.cell \in [Item -> Cell]
  BY <1>0 DEF Heap
<1>6. /\ e.cell = [h.cell EXCEPT ![n] = z] /\ e.blocks = h.blocks /\ e.misused = h.misused
      /\ e.cell[n] = z /\ e.cell \in [Item -> Cell]
  BY <1>1, <1>5
<1> HIDE DEF y, c
<1>7. g = [cell |-> [[e.cell EXCEPT ![n].isRef = TRUE] EXCEPT ![n].child = v],
           blocks |-> h.blocks, misused |-> h.misused]
  <2>1. [h.cell EXCEPT ![n] = z] \in [Item -> Cell]
    BY <1>6
  <2>2. e = [cell |-> [h.cell EXCEPT ![n] = z], blocks |-> h.blocks, misused |-> h.misused]
    BY <1>1
  <2> QED
    BY <1>2, <2>1, <2>2, ChildEdit, ZenonT(40)
<1>8. [e.cell EXCEPT ![n].isRef = TRUE] = [e.cell EXCEPT ![n] = y]
  BY <1>6 DEF y
<1> DEFINE cell1 == [e.cell EXCEPT ![n] = y]
<1>9. cell1[n] = y
  BY <1>6
<1>10. [cell1 EXCEPT ![n].child = v] = [cell1 EXCEPT ![n] = c]
  BY <1>9 DEF c
<1>11. [cell1 EXCEPT ![n] = c] = [h.cell EXCEPT ![n] = c]
  BY <1>5, <1>6
<1>12. g = [cell |-> [h.cell EXCEPT ![n] = c], blocks |-> h.blocks, misused |-> h.misused]
  BY <1>7, <1>8, <1>10, <1>11
<1>16. Shown(h, up, c)
  BY <1>4, <1>14, <1>15 DEF Shown
<1> QED
  BY <1>0, <1>4, <1>12, <1>16, ReferenceAdds

(* What a reference to i shows.                                            *)
LEMMA CreateReferenceAdds ==
  ASSUME NEW h, NEW R, NEW up, Whole(h, R, up), NEW n \in Item, NEW i \in Live(h),
         NEW g, g = create_reference(h, i, n)
  PROVE  \E c : NewCell(h, up, c) /\ Added(h, g, n, c) /\ c.isRef
<1> DEFINE d == h.cell[i]
           c == [d EXCEPT !.string = NoName, !.isRef = TRUE, !.next = NULL, !.prev = NULL]
<1>1. h \in Heap /\ Live(h) \in SUBSET Item /\ NULL \notin Item /\ i \in Item
  BY WholeParts
<1>2. d \in Cell /\ d.live
  BY <1>1, CellsOfHeap DEF Live
<1>3. /\ c \in Cell /\ c.live /\ c.next = NULL /\ c.prev = NULL /\ c.child = d.child
      /\ c.isRef /\ c.string = NoName /\ c.type = d.type
  BY <1>2 DEF Cell
<1>4. h = [cell |-> h.cell, blocks |-> h.blocks, misused |-> h.misused]
  BY <1>1 DEF Heap
<1>5. g = [cell |-> [h.cell EXCEPT ![n] = c], blocks |-> h.blocks, misused |-> h.misused]
  BY <1>4 DEF create_reference
<1>6. Shown(h, up, c)
  <2>1. Shown(h, up, d)
    BY DEF Whole
  <2>2. Node(Live(h), Nx(h), Pv(h), Kd(h), R, up, i)
    BY <1>1 DEF Whole, HeapGraph, Graph
  <2>3. ~d.isRef => Kd(h)[i] = d.child
    BY <1>1 DEF Kd
  <2>4. i # NULL
    BY <1>1
  <2>5. ASSUME d.child # NULL
        PROVE  d.child \in Live(h) /\ up[d.child] # NULL /\ h.cell[up[d.child]].type = d.type
    <3>1. CASE d.isRef
      BY <2>1, <2>5, <3>1 DEF Shown
    <3>2. CASE ~d.isRef
      BY <2>2, <2>3, <2>4, <2>5, <3>2 DEF Node
    <3> QED
      BY <3>1, <3>2
  <2> HIDE DEF c, d
  <2> QED
    BY <1>3, <2>5 DEF Shown
<1> HIDE DEF c
<1> QED
  BY <1>1, <1>3, <1>5, <1>6, ReferenceAdds

(* A copy of i has a key and a text of its own.                            *)
LEMMA CopyAdds ==
  ASSUME NEW h \in Heap, NEW n \in Item, NEW i \in Item, NEW up, NEW g, g = CopyItem(h, i, n)
  PROVE  /\ NewCell(h, up, CopyOf(h.cell[i], n)) /\ Added(h, g, n, CopyOf(h.cell[i], n))
<1> DEFINE d == h.cell[i]
           c == CopyOf(d, n)
           z == [Zeroed EXCEPT !.live = TRUE, !.type = d.type, !.string = d.string,
                               !.isConst = d.isConst]
           key == IF OwnsKey(d) THEN 1 ELSE 0
           e == [h EXCEPT !.cell[n] = z, !.blocks = @ + key]
<1>1. d \in Cell
  BY CellsOfHeap
<1>2. /\ c \in Cell /\ c.live = TRUE /\ c.next = NULL /\ c.prev = NULL /\ c.child = NULL
      /\ c.type = d.type /\ c.isRef = FALSE /\ c.string = d.string /\ c.isConst = d.isConst
      /\ c.value = IF d.value = NULL THEN NULL ELSE n
  <2> HIDE DEF d
  <2> QED
    BY <1>1 DEF CopyOf, Cell
<1>3. /\ z \in Cell /\ z.live = TRUE /\ z.type = d.type /\ z.next = NULL /\ z.prev = NULL
      /\ z.child = NULL /\ z.isRef = FALSE /\ z.string = d.string /\ z.isConst = d.isConst
      /\ z.value = NULL
  <2> HIDE DEF d
  <2> QED
    BY <1>1, ZeroedIs DEF Cell
<1>4. /\ h = [cell |-> h.cell, blocks |-> h.blocks, misused |-> h.misused]
      /\ h.cell \in [Item -> Cell] /\ h.blocks \in Nat
  BY DEF Heap
<1>5. g = IF d.value = NULL THEN e ELSE CopyValue(e, n)
  BY DEF CopyItem
<1>6. e = [cell |-> [h.cell EXCEPT ![n] = z], blocks |-> h.blocks + key, misused |-> h.misused]
  <2> HIDE DEF z, key
  <2>1. e = [[h EXCEPT !.cell = [h.cell EXCEPT ![n] = z]] EXCEPT !.blocks = h.blocks + key]
    BY <1>4
  <2> DEFINE A == [h.cell EXCEPT ![n] = z]
             B == h.blocks + key
  <2>2. e = [[h EXCEPT !.cell = A] EXCEPT !.blocks = B]
    BY <2>1
  <2> HIDE DEF A, B, e
  <2>3. [h EXCEPT !.cell = A] = [cell |-> A, blocks |-> h.blocks, misused |-> h.misused]
    BY <1>4
  <2>4. e = [[cell |-> A, blocks |-> h.blocks, misused |-> h.misused] EXCEPT !.blocks = B]
    BY <2>2, <2>3
  <2>5. e = [cell |-> A, blocks |-> B, misused |-> h.misused]
    BY <2>4
  <2> QED
    BY <2>5 DEF A, B
<1>7. OwnsKey(c) <=> OwnsKey(d)
  <2> HIDE DEF c, d
  <2> QED
    BY <1>2 DEF OwnsKey
<1>8. OwnsValue(c) <=> d.value # NULL
  <2> HIDE DEF c, d
  <2> QED
    BY <1>2, NoItem DEF OwnsValue
<1>9. NewCell(h, up, c)
  <2> HIDE DEF c, d
  <2> QED
    BY <1>2 DEF NewCell, OwnsChild, Shown
<1>10. key \in {0, 1} /\ (key = 1 <=> OwnsKey(d))
  OBVIOUS
<1> HIDE DEF z, e, c, key
<1>11. CASE d.value = NULL
  <2>1. z = c
    BY <1>2, <1>3, <1>11, SameCell
  <2>2. g = [cell |-> [h.cell EXCEPT ![n] = c], blocks |-> h.blocks + key, misused |-> h.misused]
    BY <1>5, <1>6, <1>11, <2>1
  <2>3. Added(h, g, n, c)
    BY <1>2, <1>7, <1>8, <1>10, <1>11, <2>2, AddedIs
  <2> QED
    BY <1>9, <2>3 DEF c
<1>12. CASE d.value # NULL
  <2> DEFINE y == [z EXCEPT !.value = n]
  <2>1. /\ y \in Cell /\ y.live = TRUE /\ y.type = d.type /\ y.next = NULL /\ y.prev = NULL
        /\ y.child = NULL /\ y.isRef = FALSE /\ y.string = d.string /\ y.isConst = d.isConst
        /\ y.value = n
    BY <1>3 DEF Cell
  <2>2. g = [e EXCEPT !.cell[n].value = n, !.blocks = @ + 1]
    BY <1>5, <1>12 DEF CopyValue
  <2>3. e.cell[n] = z /\ e.cell \in [Item -> Cell]
    BY <1>3, <1>4, <1>6
  <2>4. g = [cell |-> [e.cell EXCEPT ![n] = y], blocks |-> h.blocks + key + 1,
             misused |-> h.misused]
    BY <1>6, <2>2, <2>3
  <2> HIDE DEF y
  <2>5. y = c
    BY <1>2, <1>12, <2>1, SameCell
  <2>6. [e.cell EXCEPT ![n] = c] = [h.cell EXCEPT ![n] = c]
    BY <1>4, <1>6, <2>3
  <2>7. h.blocks + key + 1 = h.blocks + (key + 1) /\ key + 1 \in {0, 1, 2}
    BY <1>4, <1>10
  <2>8. g = [cell |-> [h.cell EXCEPT ![n] = c], blocks |-> h.blocks + (key + 1),
             misused |-> h.misused]
    BY <2>4, <2>5, <2>6, <2>7
  <2>9. key + 1 = (IF OwnsKey(c) THEN 1 ELSE 0) + (IF OwnsValue(c) THEN 1 ELSE 0)
    BY <1>7, <1>8, <1>10, <1>12
  <2>10. Added(h, g, n, c)
    BY <1>2, <2>7, <2>8, <2>9, AddedIs
  <2> QED
    BY <1>9, <2>10 DEF c
<1> QED
  BY <1>11, <1>12
=============================================================================
