-------------------------- MODULE BusGraphViewProofs --------------------------
(***************************************************************************)
(* Proofs about the bus graph, for any agents, devices, snapshots and      *)
(* number of polls and operations.                                         *)
(*                                                                         *)
(* The first part is about FlowInference: its recursive functions exist    *)
(* and reach their fixed points, so that components partition the agents   *)
(* and every hierarchy is a forest.  Arguments by induction are on a set   *)
(* of numbers, or on a set that has a least or minimal element.            *)
(*                                                                         *)
(* The second part is about BusGraphView.  Its handlers are compositions   *)
(* of functions on the component's state: for each function a lemma says   *)
(* which fields it changes and which parts of View, the invariant of a     *)
(* state, it keeps or restores.  ViewInv is the inductive invariant: View; *)
(* Follows, the state against the last snapshot; Work, the jobs at the     *)
(* layout engine against the generation, root and scope of the state.      *)
(***************************************************************************)
EXTENDS BusGraphView, FiniteSetTheorems, WellFoundedInduction, TLAPS

-----------------------------------------------------------------------------
(* Recursive functions over the natural numbers. *)

\* A set of natural numbers has a least element.
LEMMA LeastOf ==
    ASSUME NEW T, T \subseteq Nat, T # {}
    PROVE  \E m \in T : \A k \in T : m <= k
<1>1. PICK R : IsWellFoundedOn(R, Nat) /\ \A i, j \in Nat : <<i, j>> \in R <=> i < j
  <2>1. IsWellFoundedOn(OpToRel(<, Nat), Nat)
    BY NatLessThanWellFounded
  <2>2. \A i, j \in Nat : <<i, j>> \in OpToRel(<, Nat) <=> i < j
    BY DEF OpToRel
  <2> QED BY <2>1, <2>2
<1>2. IsWellFoundedOn(R, Nat)
  BY <1>1
<1>3. PICK m \in T : \A k \in T : ~(<<k, m>> \in R)
  BY <1>2, WFMin
<1>4. \A k \in T : ~(k < m)
  BY <1>1, <1>3
<1> QED BY <1>4

\* Induction over a set: what holds of 0 and of the next number holds of all.
LEMMA Inductive ==
    ASSUME NEW S, 0 \in S, \A n \in Nat : n \in S => n + 1 \in S
    PROVE  Nat \subseteq S
<1>1. SUFFICES ASSUME Nat \ S # {} PROVE FALSE
  OBVIOUS
<1>2. PICK m \in Nat \ S : \A k \in Nat \ S : m <= k
  BY <1>1, LeastOf
<1>3. m # 0 /\ m - 1 \in Nat /\ m - 1 \notin Nat \ S
  BY <1>2
<1> QED BY <1>2, <1>3

\* A function that is applied again and again.
Starts(k, n, X, F, x) ==
    /\ k \in [0..n -> X] /\ k[0] = x
    /\ \A i \in 0..(n - 1) : k[i + 1] = F[k[i]]

\* Two runs of the same function from the same start agree.
LEMMA StartsAgree ==
    ASSUME NEW X, NEW F \in [X -> X], NEW x \in X, NEW m \in Nat, NEW n \in Nat, m <= n,
           NEW j, NEW k, Starts(j, m, X, F, x), Starts(k, n, X, F, x)
    PROVE  \A i \in 0..m : j[i] = k[i]
<1> DEFINE S == {i \in Nat : i <= m => j[i] = k[i]}
<1>1. 0 \in S
  BY DEF Starts
<1>2. ASSUME NEW i \in Nat, i \in S PROVE i + 1 \in S
  <2>1. SUFFICES ASSUME i + 1 <= m PROVE j[i + 1] = k[i + 1]
    OBVIOUS
  <2>2. i \in 0..(m - 1) /\ i \in 0..(n - 1) /\ j[i] = k[i]
    BY <1>2, <2>1
  <2> QED BY <2>2 DEF Starts
<1>3. Nat \subseteq S
  <2> HIDE DEF S
  <2> QED BY <1>1, <1>2, Inductive
<1> QED BY <1>3

\* There is a run of any length.
LEMMA StartsExist ==
    ASSUME NEW X, NEW F \in [X -> X], NEW x \in X
    PROVE  \A n \in Nat : \E k : Starts(k, n, X, F, x)
<1> DEFINE S == {n \in Nat : \E k : Starts(k, n, X, F, x)}
<1>1. 0 \in S
  <2>1. Starts([i \in 0..0 |-> x], 0, X, F, x)
    BY DEF Starts
  <2> QED BY <2>1
<1>2. ASSUME NEW n \in Nat, n \in S PROVE n + 1 \in S
  <2>1. PICK k : Starts(k, n, X, F, x)
    BY <1>2
  <2>2. Starts([i \in 0..(n + 1) |-> IF i <= n THEN k[i] ELSE F[k[n]]], n + 1, X, F, x)
    <3> DEFINE h == [i \in 0..(n + 1) |-> IF i <= n THEN k[i] ELSE F[k[n]]]
    <3>1. \A i \in 0..n : k[i] \in X
      BY <2>1 DEF Starts
    <3>2. h \in [0..(n + 1) -> X] /\ h[0] = x
      BY <2>1, <3>1 DEF Starts
    <3>3. ASSUME NEW i \in 0..n PROVE h[i + 1] = F[h[i]]
      <4>1. CASE i = n
        BY <4>1
      <4>2. CASE i # n
        <5>1. i \in 0..(n - 1) /\ i + 1 <= n /\ i <= n
          BY <4>2
        <5> QED BY <5>1, <2>1 DEF Starts
      <4> QED BY <4>1, <4>2
    <3> QED BY <3>2, <3>3 DEF Starts
  <2> QED BY <2>2
<1>3. Nat \subseteq S
  <2> HIDE DEF S
  <2> QED BY <1>1, <1>2, Inductive
<1> QED BY <1>3

\* The endless run.
Iterated(k, X, F, x) ==
    k \in [Nat -> X] /\ k[0] = x /\ \A n \in Nat : k[n + 1] = F[k[n]]

\* Every function can be applied again and again.
LEMMA Iterates ==
    ASSUME NEW X, NEW F \in [X -> X], NEW x \in X
    PROVE  \E k : Iterated(k, X, F, x)
<1> DEFINE part(n) == CHOOSE k : Starts(k, n, X, F, x)
           whole == [n \in Nat |-> part(n)[n]]
<1>1. \A n \in Nat : Starts(part(n), n, X, F, x)
  BY StartsExist
<1> HIDE DEF part
<1>2. \A n \in Nat : part(n) \in [0..n -> X] /\ part(n)[0] = x
  BY <1>1 DEF Starts
<1>3. ASSUME NEW n \in Nat PROVE part(n + 1)[n] = part(n)[n]
  <2>1. n <= n + 1 /\ n + 1 \in Nat /\ n \in 0..n
    OBVIOUS
  <2>2. Starts(part(n), n, X, F, x) /\ Starts(part(n + 1), n + 1, X, F, x)
    BY <1>1
  <2>3. \A i \in 0..n : part(n)[i] = part(n + 1)[i]
    BY <2>1, <2>2, StartsAgree
  <2> QED BY <2>1, <2>3
<1>4. ASSUME NEW n \in Nat PROVE whole[n + 1] = F[whole[n]]
  <2>1. part(n + 1)[n + 1] = F[part(n + 1)[n]]
    BY <1>1 DEF Starts
  <2> QED BY <2>1, <1>3
<1>5. whole \in [Nat -> X] /\ whole[0] = x
  BY <1>2
<1>6. Iterated(whole, X, F, x)
  <2> HIDE DEF whole
  <2> QED BY <1>4, <1>5 DEF Iterated
<1> QED BY <1>6

\* The agents of S that S's links connect to those in near.
Widened(g, S, near) == near \cup {b \in S : neighborsFor(g, b) \cap near # {}}

\* Spread is the recursion it is written as.
LEMMA SpreadUnfolds ==
    ASSUME NEW g, NEW S, NEW a, IsFiniteSet(S)
    PROVE  LET R == Spread(g, S, a)
           IN  /\ DOMAIN R = 0..Cardinality(S)
               /\ \A n \in 0..Cardinality(S) : R[n] \subseteq S \cup {a}
               /\ R[0] = {a}
               /\ \A n \in 1..Cardinality(S) : R[n] = Widened(g, S, R[n - 1])
<1> DEFINE X == SUBSET (S \cup {a})
           F == [near \in X |-> Widened(g, S, near)]
           c == Cardinality(S)
<1>1. c \in Nat
  BY FS_CardinalityType
<1>2. F \in [X -> X]
  BY DEF Widened
<1>3. {a} \in X
  OBVIOUS
<1>4. PICK k : Iterated(k, X, F, {a})
  <2> HIDE DEF X, F
  <2> QED BY <1>2, <1>3, Iterates
<1>5. \A n \in 1..c : n - 1 \in Nat /\ k[n] = F[k[n - 1]]
  <2>1. ASSUME NEW n \in 1..c PROVE n - 1 \in Nat /\ (n - 1) + 1 = n
    BY <1>1
  <2> QED BY <1>4, <2>1 DEF Iterated
<1>6. \A n \in 1..c : k[n] = Widened(g, S, k[n - 1])
  BY <1>4, <1>5 DEF Iterated
<1>7. \E r : r = [n \in 0..c |-> IF n = 0 THEN {a} ELSE Widened(g, S, r[n - 1])]
  <2> DEFINE r == [n \in 0..c |-> k[n]]
  <2>1. ASSUME NEW n \in 0..c PROVE r[n] = IF n = 0 THEN {a} ELSE Widened(g, S, r[n - 1])
    <3>1. CASE n = 0
      BY <1>4, <3>1 DEF Iterated
    <3>2. CASE n # 0
      <4>1. n \in 1..c /\ n - 1 \in 0..c
        BY <1>1, <3>2
      <4>2. r[n - 1] = k[n - 1] /\ r[n] = k[n]
        BY <4>1
      <4> QED BY <1>6, <3>2, <4>1, <4>2
    <3> QED BY <3>1, <3>2
  <2>2. r = [n \in 0..c |-> r[n]]
    OBVIOUS
  <2>3. [n \in 0..c |-> r[n]] = [n \in 0..c |-> IF n = 0 THEN {a} ELSE Widened(g, S, r[n - 1])]
    <3> HIDE DEF r, c
    <3> QED BY <2>1
  <2> HIDE DEF r, c
  <2> QED BY <2>2, <2>3
<1> DEFINE R == Spread(g, S, a)
<1>8. R = [n \in 0..c |-> IF n = 0 THEN {a} ELSE Widened(g, S, R[n - 1])]
  <2> HIDE DEF c
  <2> QED BY <1>7, Zenon DEF Spread, Widened, c
<1>9. R[0] = {a} /\ \A n \in 1..c : R[n] = Widened(g, S, R[n - 1])
  <2> HIDE DEF R, c
  <2>1. \A n \in 0..c : R[n] = IF n = 0 THEN {a} ELSE Widened(g, S, R[n - 1])
    BY <1>8, Zenon
  <2>2. 0 \in 0..c /\ \A n \in 1..c : n \in 0..c /\ n # 0
    BY <1>1
  <2> QED BY <2>1, <2>2, Zenon
<1>10. \A n \in Nat : n \in 0..c => R[n] \in X
  <2> DEFINE T == {n \in Nat : n \in 0..c => R[n] \in X}
  <2>1. 0 \in T
    BY <1>9
  <2>2. ASSUME NEW n \in Nat, n \in T PROVE n + 1 \in T
    <3>1. SUFFICES ASSUME n + 1 \in 0..c PROVE R[n + 1] \in X
      OBVIOUS
    <3>2. n \in 0..c /\ n + 1 \in 1..c /\ (n + 1) - 1 = n
      BY <1>1, <3>1
    <3>3. R[n + 1] = Widened(g, S, R[n]) /\ R[n] \in X
      <4> HIDE DEF R, X
      <4> QED BY <1>9, <2>2, <3>2
    <3> HIDE DEF R
    <3> QED BY <3>3 DEF Widened
  <2>3. Nat \subseteq T
    <3> HIDE DEF T
    <3> QED BY <2>1, <2>2, Inductive
  <2> QED BY <2>3
<1> HIDE DEF R
<1>11. DOMAIN R = 0..c
  BY <1>8
<1>12. \A n \in 0..c : R[n] \subseteq S \cup {a}
  BY <1>1, <1>10
<1> QED BY <1>9, <1>11, <1>12 DEF R

\* What one reaches within S from a; and sets that S's links do not leave.
Reached(g, S, a) == Spread(g, S, a)[Cardinality(S)]

Closed(g, S, near) == \A b \in S : neighborsFor(g, b) \cap near # {} => b \in near

\* Spread stays within every set that holds a and that links do not leave.
LEMMA SpreadIsLeast ==
    ASSUME NEW g, NEW S, IsFiniteSet(S), NEW a, NEW near, a \in near, Closed(g, S, near)
    PROVE  \A n \in 0..Cardinality(S) : Spread(g, S, a)[n] \subseteq near
<1> DEFINE c == Cardinality(S)
           R == Spread(g, S, a)
           T == {n \in Nat : n \in 0..c => R[n] \subseteq near}
<1>1. c \in Nat
  BY FS_CardinalityType
<1>2. R[0] = {a} /\ \A n \in 1..c : R[n] = Widened(g, S, R[n - 1])
  BY SpreadUnfolds
<1> HIDE DEF c, R
<1>3. 0 \in T
  BY <1>2
<1>4. ASSUME NEW n \in Nat, n \in T PROVE n + 1 \in T
  <2>1. SUFFICES ASSUME n + 1 \in 0..c PROVE R[n + 1] \subseteq near
    OBVIOUS
  <2>2. n \in 0..c /\ n + 1 \in 1..c /\ (n + 1) - 1 = n
    BY <1>1, <2>1
  <2>3. R[n + 1] = Widened(g, S, R[n]) /\ R[n] \subseteq near
    BY <1>2, <1>4, <2>2
  <2> QED BY <2>3 DEF Widened, Closed
<1>5. Nat \subseteq T
  <2> HIDE DEF T
  <2> QED BY <1>3, <1>4, Inductive
<1> QED BY <1>1, <1>5 DEF c, R

\* Cardinality(S) rounds are enough: after them no link leads further.
LEMMA ReachedIsClosed ==
    ASSUME NEW g, NEW S, IsFiniteSet(S), NEW a \in S
    PROVE  /\ a \in Reached(g, S, a) /\ Reached(g, S, a) \subseteq S
           /\ Closed(g, S, Reached(g, S, a))
<1> DEFINE c == Cardinality(S)
           R == Spread(g, S, a)
           T == {n \in Nat : n \in 0..c => Closed(g, S, R[n]) \/ n + 1 <= Cardinality(R[n])}
<1>1. c \in Nat
  BY FS_CardinalityType
<1>2. R[0] = {a} /\ (\A n \in 1..c : R[n] = Widened(g, S, R[n - 1])) /\ \A n \in 0..c : R[n] \subseteq S \cup {a}
  BY SpreadUnfolds
<1> HIDE DEF c, R
<1>3. \A n \in 0..c : R[n] \subseteq S /\ IsFiniteSet(R[n]) /\ Cardinality(R[n]) \in Nat /\ Cardinality(R[n]) <= c
  <2>1. \A n \in 0..c : R[n] \subseteq S
    BY <1>2
  <2> QED BY <2>1, FS_Subset, FS_CardinalityType DEF c
<1>4. 0 \in T
  <2>1. Cardinality(R[0]) = 1
    BY <1>2, FS_Singleton
  <2> QED BY <2>1
<1>5. ASSUME NEW n \in Nat, n \in T PROVE n + 1 \in T
  <2>1. SUFFICES ASSUME n + 1 \in 0..c PROVE Closed(g, S, R[n + 1]) \/ (n + 1) + 1 <= Cardinality(R[n + 1])
    OBVIOUS
  <2>2. n \in 0..c /\ n + 1 \in 1..c /\ (n + 1) - 1 = n
    BY <1>1, <2>1
  <2>3. R[n + 1] = Widened(g, S, R[n])
    BY <1>2, <2>2
  <2>4. CASE Closed(g, S, R[n])
    <3>1. R[n + 1] = R[n]
      BY <2>3, <2>4 DEF Widened, Closed
    <3> QED BY <2>4, <3>1
  <2>5. CASE ~Closed(g, S, R[n])
    <3>1. R[n] \subseteq R[n + 1] /\ R[n] # R[n + 1]
      BY <2>3, <2>5 DEF Widened, Closed
    <3>2. Cardinality(R[n]) < Cardinality(R[n + 1])
      <4>1. IsFiniteSet(R[n + 1]) /\ Cardinality(R[n]) <= Cardinality(R[n + 1])
        BY <1>3, <2>1, <3>1, FS_Subset
      <4>2. Cardinality(R[n]) # Cardinality(R[n + 1])
        BY <3>1, <4>1, FS_Subset
      <4> QED BY <1>3, <2>1, <2>2, <4>1, <4>2
    <3>3. n + 1 <= Cardinality(R[n])
      BY <1>5, <2>2, <2>5
    <3> QED BY <1>3, <2>1, <2>2, <3>2, <3>3
  <2> QED BY <2>4, <2>5
<1>6. Nat \subseteq T
  <2> HIDE DEF T
  <2> QED BY <1>4, <1>5, Inductive
<1>7. c \in 0..c
  BY <1>1
<1>8. Closed(g, S, R[c])
  BY <1>1, <1>3, <1>6, <1>7
<1>9. \A n \in Nat : n \in 0..c => a \in R[n]
  <2> DEFINE U == {n \in Nat : n \in 0..c => a \in R[n]}
  <2>1. 0 \in U
    BY <1>2
  <2>2. ASSUME NEW n \in Nat, n \in U PROVE n + 1 \in U
    <3>1. SUFFICES ASSUME n + 1 \in 0..c PROVE a \in R[n + 1]
      OBVIOUS
    <3>2. n \in 0..c /\ n + 1 \in 1..c /\ (n + 1) - 1 = n
      BY <1>1, <3>1
    <3>3. R[n + 1] = Widened(g, S, R[n]) /\ a \in R[n]
      BY <1>2, <2>2, <3>2
    <3> QED BY <3>3 DEF Widened
  <2>3. Nat \subseteq U
    <3> HIDE DEF U
    <3> QED BY <2>1, <2>2, Inductive
  <2> QED BY <2>3
<1> QED BY <1>1, <1>3, <1>7, <1>8, <1>9 DEF Reached, c, R

\* The set reached is the least that links do not leave.
LEMMA ReachedIsLeast ==
    ASSUME NEW g, NEW S, IsFiniteSet(S), NEW a, NEW near, a \in near, Closed(g, S, near)
    PROVE  Reached(g, S, a) \subseteq near
<1>1. Cardinality(S) \in 0..Cardinality(S)
  BY FS_CardinalityType
<1>2. \A n \in 0..Cardinality(S) : Spread(g, S, a)[n] \subseteq near
  BY SpreadIsLeast
<1> QED BY <1>1, <1>2 DEF Reached

\* The graph is undirected.
LEMMA NeighborsMutual ==
    ASSUME NEW g, NEW a \in g.ids, NEW b \in g.ids
    PROVE  b \in neighborsFor(g, a) <=> a \in neighborsFor(g, b)
<1>1. {a, b} = {b, a}
  OBVIOUS
<1> QED BY <1>1 DEF neighborsFor

\* From wherever in a component one starts, the component is what one reaches,
\* within it or beyond it.
LEMMA ReachedFromAnywhere ==
    ASSUME NEW g, NEW S, S \subseteq g.ids, IsFiniteSet(S), NEW a \in S, NEW b \in Reached(g, S, a)
    PROVE  /\ Reached(g, S, b) = Reached(g, S, a)
           /\ Reached(g, Reached(g, S, a), b) = Reached(g, S, a)
<1> DEFINE C == Reached(g, S, a)
<1>1. a \in C /\ C \subseteq S /\ Closed(g, S, C)
  BY ReachedIsClosed
<1>2. IsFiniteSet(C)
  BY <1>1, FS_Subset
<1> HIDE DEF C
<1>3. ASSUME NEW D, b \in D, D \subseteq C, Closed(g, S, D) \/ Closed(g, C, D)
      PROVE  D = C
  <2>1. Closed(g, S, D)
    BY <1>1, <1>3 DEF Closed
  <2>2. Closed(g, S, C \ D)
    <3>1. SUFFICES ASSUME NEW x \in S, NEW y \in C \ D, y \in neighborsFor(g, x)
                   PROVE  x \in C \ D
      BY DEF Closed
    <3>2. x \in C
      BY <1>1, <3>1 DEF Closed
    <3>3. x \notin D
      <4>1. x \in neighborsFor(g, y)
        BY <1>1, <3>1, NeighborsMutual
      <4> QED BY <1>1, <2>1, <3>1, <4>1 DEF Closed
    <3> QED BY <3>2, <3>3
  <2>3. a \in D
    <3>1. SUFFICES ASSUME a \in C \ D PROVE FALSE
      BY <1>1
    <3>2. C \subseteq C \ D
      BY <2>2, <3>1, ReachedIsLeast DEF C
    <3> QED BY <1>3, <3>2
  <2>4. C \subseteq D
    BY <2>1, <2>3, ReachedIsLeast DEF C
  <2> QED BY <1>3, <2>4
<1>4. b \in C /\ b \in S
  BY <1>1 DEF C
<1>5. Reached(g, S, b) = C
  <2>1. b \in Reached(g, S, b) /\ Closed(g, S, Reached(g, S, b))
    BY <1>4, ReachedIsClosed
  <2>2. Reached(g, S, b) \subseteq C
    BY <1>1, <1>4, ReachedIsLeast
  <2> QED BY <1>3, <2>1, <2>2
<1>6. Reached(g, C, b) = C
  <2>1. b \in Reached(g, C, b) /\ Reached(g, C, b) \subseteq C /\ Closed(g, C, Reached(g, C, b))
    BY <1>2, <1>4, ReachedIsClosed
  <2> QED BY <1>3, <2>1
<1> QED BY <1>5, <1>6 DEF C

(* The components partition the agents (componentsOf, analysis.mjs and the  *)
(* fallback of the communities): none is empty, no link leads out of one,   *)
(* every agent is in one and no agent in two; each is what one reaches from *)
(* any of its agents.                                                       *)
THEOREM Components ==
    ASSUME NEW g, NEW S, S \subseteq g.ids, IsFiniteSet(S)
    PROVE  /\ \A C \in componentsOf(g, S) : C # {} /\ C \subseteq S /\ Closed(g, S, C)
           /\ UNION componentsOf(g, S) = S
           /\ \A C \in componentsOf(g, S) : \A b \in C : C = Reached(g, S, b) /\ C = Reached(g, C, b)
           /\ \A C, D \in componentsOf(g, S) : \A b \in C : b \in D => C = D
<1>1. componentsOf(g, S) = {Reached(g, S, a) : a \in S}
  BY DEF componentsOf, Reached
<1>2. \A a \in S : a \in Reached(g, S, a) /\ Reached(g, S, a) \subseteq S /\ Closed(g, S, Reached(g, S, a))
  BY ReachedIsClosed
<1>3. \A C \in componentsOf(g, S) : \A b \in C : C = Reached(g, S, b) /\ C = Reached(g, C, b)
  BY <1>1, ReachedFromAnywhere
<1> QED BY <1>1, <1>2, <1>3

-----------------------------------------------------------------------------
(* Orders and folds. *)

\* A function into the natural numbers has its greatest value on a finite set.
LEMMA Greatest ==
    ASSUME NEW S, IsFiniteSet(S), S # {}, NEW h, \A a \in S : h[a] \in Nat
    PROVE  \E m \in S : \A a \in S : h[a] <= h[m]
<1> DEFINE Top(X) == \E m \in X : \A a \in X : h[a] <= h[m]
           T == {n \in Nat : \A X \in SUBSET S : X # {} /\ Cardinality(X) <= n => Top(X)}
<1>1. \A X \in SUBSET S : IsFiniteSet(X) /\ Cardinality(X) \in Nat
  BY FS_Subset, FS_CardinalityType
<1>2. 0 \in T
  <2>1. \A X \in SUBSET S : Cardinality(X) <= 0 => X = {}
    BY <1>1, FS_EmptySet
  <2> QED BY <2>1
<1>3. ASSUME NEW n \in Nat, n \in T PROVE n + 1 \in T
  <2>1. SUFFICES ASSUME NEW X \in SUBSET S, X # {}, Cardinality(X) <= n + 1
                 PROVE  Top(X)
    OBVIOUS
  <2>2. PICK x \in X : TRUE
    BY <2>1
  <2> DEFINE Y == X \ {x}
  <2>3. Y \in SUBSET S /\ Cardinality(Y) <= n
    <3>1. Cardinality(Y) = Cardinality(X) - 1
      BY <1>1, <2>2, FS_RemoveElement
    <3> QED BY <1>1, <2>1, <3>1
  <2>4. CASE Y = {}
    <3>1. X = {x}
      BY <2>2, <2>4
    <3> QED BY <3>1
  <2>5. CASE Y # {}
    <3>1. PICK m \in Y : \A a \in Y : h[a] <= h[m]
      BY <1>3, <2>3, <2>5
    <3>2. CASE h[m] <= h[x]
      <4>1. \A a \in X : h[a] <= h[x]
        BY <2>1, <2>2, <3>1, <3>2
      <4> QED BY <2>2, <4>1
    <3>3. CASE h[x] <= h[m]
      <4>1. \A a \in X : h[a] <= h[m]
        BY <2>1, <2>2, <3>1, <3>3
      <4> QED BY <3>1, <4>1
    <3> QED BY <2>1, <2>2, <3>1, <3>2, <3>3
  <2> QED BY <2>4, <2>5
<1>4. Nat \subseteq T
  <2> HIDE DEF T
  <2> QED BY <1>2, <1>3, Inductive
<1>5. Cardinality(S) \in T /\ S \in SUBSET S /\ Cardinality(S) <= Cardinality(S)
  BY <1>1, <1>4
<1> QED BY <1>5

\* sort(...)[0] of a list that is not empty is one of its elements.
Ahead(k, a, b) ==
    k[a][1] > k[b][1] \/ (k[a][1] = k[b][1] /\ (k[a][2] > k[b][2] \/ (k[a][2] = k[b][2] /\ a < b)))

\* Of finitely many agents one comes first: the order of keys and ids is
\* total.
LEMMA BestExists ==
    ASSUME NEW S, IsFiniteSet(S), S # {}, S \subseteq Nat,
           NEW k, \A a \in S : k[a][1] \in Nat /\ k[a][2] \in Nat
    PROVE  \E a \in S : \A b \in S \ {a} : Ahead(k, a, b)
<1>1. PICK m \in S : \A a \in S : k[a][1] <= k[m][1]
  <2> DEFINE h == [a \in S |-> k[a][1]]
  <2>1. \E x \in S : \A a \in S : h[a] <= h[x]
    <3>1. \A a \in S : h[a] \in Nat
      OBVIOUS
    <3> HIDE DEF h
    <3> QED BY <3>1, Greatest
  <2> QED BY <2>1
<1> DEFINE M == {a \in S : k[a][1] = k[m][1]}
<1>2. IsFiniteSet(M) /\ M # {} /\ M \subseteq S
  BY <1>1, FS_Subset
<1>3. PICK n \in M : \A a \in M : k[a][2] <= k[n][2]
  <2> DEFINE h == [a \in M |-> k[a][2]]
  <2>1. \E x \in M : \A a \in M : h[a] <= h[x]
    <3>1. \A a \in M : h[a] \in Nat
      OBVIOUS
    <3> HIDE DEF h, M
    <3> QED BY <1>2, <3>1, Greatest
  <2> QED BY <2>1
<1> DEFINE N == {a \in M : k[a][2] = k[n][2]}
<1>4. PICK l \in N : \A a \in N : l <= a
  <2>1. N \subseteq Nat /\ N # {}
    BY <1>2, <1>3
  <2> HIDE DEF N
  <2> QED BY <2>1, LeastOf
<1>5. ASSUME NEW b \in S, b # l PROVE Ahead(k, l, b)
  <2>1. k[l][1] = k[m][1] /\ k[l][2] = k[n][2] /\ l \in Nat /\ b \in Nat
    BY <1>4
  <2>2. CASE b \notin M
    BY <1>1, <1>5, <2>1, <2>2 DEF Ahead
  <2>3. CASE b \in M /\ b \notin N
    BY <1>1, <1>3, <1>5, <2>1, <2>3 DEF Ahead
  <2>4. CASE b \in N
    BY <1>4, <1>5, <2>1, <2>4 DEF Ahead
  <2> QED BY <2>2, <2>3, <2>4
<1> QED BY <1>4, <1>5

\* FoldSet's recursion over the subsets of S.
Folded(r, S, base, G) ==
    r = [s \in SUBSET S |-> IF s = {} THEN base
                            ELSE G[CHOOSE x \in s : TRUE][r[s \ {CHOOSE x \in s : TRUE}]]]

\* It exists, and its values are numbers.
LEMMA FoldExists ==
    ASSUME NEW S, IsFiniteSet(S), NEW base \in Nat, NEW G, \A x \in S, v \in Nat : G[x][v] \in Nat
    PROVE  \E r : Folded(r, S, base, G) /\ \A s \in SUBSET S : r[s] \in Nat
<1> DEFINE X == [SUBSET S -> Nat]
           pick(s) == CHOOSE x \in s : TRUE
           Turn(r) == [s \in SUBSET S |-> IF s = {} THEN base ELSE G[pick(s)][r[s \ {pick(s)}]]]
           F == [r \in X |-> Turn(r)]
           c == Cardinality(S)
<1>1. \A s \in SUBSET S : IsFiniteSet(s) /\ Cardinality(s) \in Nat /\ Cardinality(s) <= c /\ c \in Nat
  BY FS_Subset, FS_CardinalityType
<1>2. \A s \in SUBSET S : s # {} => /\ pick(s) \in s /\ s \ {pick(s)} \in SUBSET S
                                   /\ Cardinality(s \ {pick(s)}) = Cardinality(s) - 1
  BY <1>1, FS_RemoveElement
<1> HIDE DEF pick, c
<1>3. \A r \in X : Turn(r) \in X
  BY <1>2
<1>4. PICK k : Iterated(k, X, F, [s \in SUBSET S |-> 0])
  <2>1. F \in [X -> X]
    BY <1>3
  <2>2. [s \in SUBSET S |-> 0] \in X
    OBVIOUS
  <2> HIDE DEF X, F
  <2> QED BY <2>1, <2>2, Iterates
<1>5. \A n \in Nat : k[n] \in X /\ k[n + 1] = Turn(k[n])
  BY <1>4 DEF Iterated
<1> HIDE DEF F
<1> DEFINE T == {n \in Nat : \A s \in SUBSET S : Cardinality(s) <= n => k[n + 2][s] = k[n + 1][s]}
<1>6. 0 \in T
  <2>1. \A s \in SUBSET S : Cardinality(s) <= 0 => s = {}
    BY <1>1, FS_EmptySet
  <2>2. k[0 + 1] = Turn(k[0]) /\ k[0 + 2] = Turn(k[1])
    <3>1. 1 \in Nat /\ 1 + 1 = 0 + 2
      OBVIOUS
    <3> HIDE DEF Turn
    <3> QED BY <1>5, <3>1
  <2>3. k[0 + 2][{}] = base /\ k[0 + 1][{}] = base
    BY <2>2
  <2> QED BY <2>1, <2>3
<1>7. ASSUME NEW n \in Nat, n \in T PROVE n + 1 \in T
  <2>1. SUFFICES ASSUME NEW s \in SUBSET S, Cardinality(s) <= n + 1
                 PROVE  k[(n + 1) + 2][s] = k[(n + 1) + 1][s]
    OBVIOUS
  <2>2. k[(n + 1) + 2] = Turn(k[n + 2]) /\ k[(n + 1) + 1] = Turn(k[n + 1])
    <3>1. n + 1 \in Nat /\ n + 2 \in Nat /\ (n + 1) + 2 = (n + 2) + 1
      OBVIOUS
    <3> QED BY <1>5, <3>1
  <2>3. CASE s = {}
    BY <2>2, <2>3
  <2>4. CASE s # {}
    <3>1. s \ {pick(s)} \in SUBSET S /\ Cardinality(s \ {pick(s)}) <= n
      BY <1>1, <1>2, <2>1, <2>4
    <3>2. k[n + 2][s \ {pick(s)}] = k[n + 1][s \ {pick(s)}]
      BY <1>7, <3>1
    <3> QED BY <2>2, <2>4, <3>1, <3>2
  <2> QED BY <2>3, <2>4
<1>8. Nat \subseteq T
  <2> HIDE DEF T
  <2> QED BY <1>6, <1>7, Inductive
<1> DEFINE r == k[c + 1]
<1>9. r \in X /\ k[c + 2] \in X /\ k[c + 2] = Turn(r) /\ c \in Nat
  <2>1. c \in Nat /\ c + 1 \in Nat /\ c + 2 \in Nat /\ (c + 1) + 1 = c + 2
    BY <1>1
  <2> QED BY <1>5, <2>1
<1>10. \A s \in SUBSET S : k[c + 2][s] = r[s]
  BY <1>1, <1>8
<1>11. r = Turn(r)
  BY <1>9, <1>10
<1> HIDE DEF r
<1>12. Folded(r, S, base, G)
  BY <1>11 DEF Folded, pick
<1> QED BY <1>9, <1>12

\* A number for the empty set, and for a set when for one element less.
LEMMA FoldIsNat ==
    ASSUME NEW S, IsFiniteSet(S), NEW r, r[{}] \in Nat,
           \A s \in SUBSET S : s # {} => \E x \in s : r[s \ {x}] \in Nat => r[s] \in Nat
    PROVE  r[S] \in Nat
<1> DEFINE T == {n \in Nat : \A s \in SUBSET S : Cardinality(s) <= n => r[s] \in Nat}
<1>1. \A s \in SUBSET S : IsFiniteSet(s) /\ Cardinality(s) \in Nat
  BY FS_Subset, FS_CardinalityType
<1>2. 0 \in T
  <2>1. \A s \in SUBSET S : Cardinality(s) <= 0 => s = {}
    BY <1>1, FS_EmptySet
  <2> QED BY <2>1
<1>3. ASSUME NEW n \in Nat, n \in T PROVE n + 1 \in T
  <2>1. SUFFICES ASSUME NEW s \in SUBSET S, Cardinality(s) <= n + 1 PROVE r[s] \in Nat
    OBVIOUS
  <2>2. CASE s = {}
    BY <2>2
  <2>3. CASE s # {}
    <3>1. PICK x \in s : r[s \ {x}] \in Nat => r[s] \in Nat
      BY <2>3
    <3>2. s \ {x} \in SUBSET S /\ Cardinality(s \ {x}) = Cardinality(s) - 1
      BY <1>1, FS_RemoveElement
    <3>3. Cardinality(s \ {x}) <= n
      BY <1>1, <2>1, <3>2
    <3> QED BY <1>3, <3>1, <3>2, <3>3
  <2> QED BY <2>2, <2>3
<1>4. Nat \subseteq T
  <2> HIDE DEF T
  <2> QED BY <1>2, <1>3, Inductive
<1> QED BY <1>1, <1>4

\* Edge counts are numbers, and so is the weight of an agent's links.
Weighed(g) ==
    /\ IsFiniteSet(g.ids) /\ g.ids \subseteq Nat \ {NoOne}
    /\ \A p \in DOMAIN g.count : g.count[p] \in Nat

\* The weight of an agent's links is a number, so the keys can be compared.
LEMMA WeightIsNat ==
    ASSUME NEW g, Weighed(g), NEW a, NEW S
    PROVE  weightWithin(g, a, S) \in Nat
<1> DEFINE T == neighborsFor(g, a) \cap S
           G == [x \in T |-> [v \in Nat |-> v * Weight(g, a, x)]]
           Fold(r) == r = [s \in SUBSET T |-> IF s = {} THEN 1
                           ELSE r[s \ {CHOOSE x \in s : TRUE}] * Weight(g, a, CHOOSE x \in s : TRUE)]
<1>1. IsFiniteSet(T)
  BY FS_Subset DEF Weighed, neighborsFor
<1>2. \A x \in T : Weight(g, a, x) \in Nat
  BY DEF Weighed, neighborsFor, Weight
<1> HIDE DEF T
<1>3. \A v, w \in Nat : v * w \in Nat
  OBVIOUS
<1>4. \A x \in T, v \in Nat : G[x][v] = v * Weight(g, a, x) /\ G[x][v] \in Nat
  BY <1>2, <1>3
<1>5. PICK r : Folded(r, T, 1, G) /\ \A s \in SUBSET T : r[s] \in Nat
  <2> HIDE DEF G
  <2> QED BY <1>1, <1>4, FoldExists
<1>6. Fold(r)
  <2>1. \A s \in SUBSET T : s # {} => (CHOOSE x \in s : TRUE) \in T /\ s \ {CHOOSE x \in s : TRUE} \in SUBSET T
    OBVIOUS
  <2> HIDE DEF G
  <2> QED BY <1>4, <1>5, <2>1 DEF Folded
<1> DEFINE iter == CHOOSE f : Fold(f)
<1>7. weightWithin(g, a, S) = iter[T]
  BY Zenon DEF weightWithin, FoldSet, MapThenFoldSet, T
<1>8. Fold(iter)
  BY <1>6, Zenon
<1> HIDE DEF iter
<1>9. \A s \in SUBSET T : s # {} => \E x \in s : x \in T /\ iter[s] = iter[s \ {x}] * Weight(g, a, x)
  BY <1>8
<1>10. iter[{}] \in Nat
  BY <1>8
<1>11. iter[T] \in Nat
  <2>1. \A s \in SUBSET T : s # {} => \E x \in s : iter[s \ {x}] \in Nat => iter[s] \in Nat
    BY <1>2, <1>3, <1>9
  <2> QED BY <1>1, <1>10, <2>1, FoldIsNat
<1> QED BY <1>7, <1>11

-----------------------------------------------------------------------------
(* Roots, hubs and nearest neighbours; ancestors and cycles. *)

\* Best returns an element.
LEMMA BestOf ==
    ASSUME NEW S, IsFiniteSet(S), S # {}, S \subseteq Nat,
           NEW k, \A a \in S : k[a][1] \in Nat /\ k[a][2] \in Nat
    PROVE  (CHOOSE a \in S : \A b \in S \ {a} : Ahead(k, a, b)) \in S
<1>1. \E a \in S : \A b \in S \ {a} : Ahead(k, a, b)
  BY BestExists
<1> QED BY <1>1, Zenon

\* The root of a component is one of its agents.
LEMMA RootIsMember ==
    ASSUME NEW g, Weighed(g), NEW C, C \subseteq g.ids, C # {}, NEW selected
    PROVE  RootOf(g, C, selected) \in C
<1> DEFINE k == [a \in C |-> <<Cardinality(neighborsFor(g, a)), weightWithin(g, a, g.ids)>>]
<1>1. CASE selected \in C
  BY <1>1 DEF RootOf
<1>2. CASE selected \notin C
  <2>1. IsFiniteSet(C) /\ C \subseteq Nat
    BY FS_Subset DEF Weighed
  <2>2. \A a \in C : k[a][1] = Cardinality(neighborsFor(g, a)) /\ k[a][2] = weightWithin(g, a, g.ids)
    OBVIOUS
  <2>3. \A a \in C : k[a][1] \in Nat /\ k[a][2] \in Nat
    <3>1. \A a : IsFiniteSet(neighborsFor(g, a))
      BY FS_Subset DEF Weighed, neighborsFor
    <3> HIDE DEF k
    <3> QED BY <2>2, <3>1, FS_CardinalityType, WeightIsNat
  <2>4. (CHOOSE a \in C : \A b \in C \ {a} : Ahead(k, a, b)) \in C
    <3> HIDE DEF k
    <3> QED BY <2>1, <2>3, BestOf
  <2>5. RootOf(g, C, selected) = CHOOSE a \in C : \A b \in C \ {a} : Ahead(k, a, b)
    <3>1. RootOf(g, C, selected) = Best(C, LAMBDA a : <<Cardinality(neighborsFor(g, a)), weightWithin(g, a, g.ids)>>)
      BY <1>2 DEF RootOf
    <3> QED BY <2>2, <3>1 DEF Best, Ahead
  <2> QED BY <2>4, <2>5
<1> QED BY <1>1, <1>2

\* The hub of a branch is an agent of the branch next to the root.
LEMMA HubIsMember ==
    ASSUME NEW g, Weighed(g), NEW B, B \subseteq g.ids, NEW root, B \cap neighborsFor(g, root) # {}
    PROVE  HubOf(g, B, root) \in B \cap neighborsFor(g, root)
<1> DEFINE C == B \cap neighborsFor(g, root)
           k == [a \in C |-> <<weightWithin(g, a, B), Weight(g, root, a)>>]
<1>1. IsFiniteSet(C) /\ C \subseteq Nat
  BY FS_Subset DEF Weighed
<1>2. \A a \in C : k[a][1] = weightWithin(g, a, B) /\ k[a][2] = Weight(g, root, a)
  OBVIOUS
<1>3. \A a \in C : k[a][1] \in Nat /\ k[a][2] \in Nat
  <2>1. \A a \in C : Weight(g, root, a) \in Nat
    BY DEF Weighed, neighborsFor, Weight
  <2> HIDE DEF k
  <2> QED BY <1>2, <2>1, WeightIsNat
<1>4. (CHOOSE a \in C : \A b \in C \ {a} : Ahead(k, a, b)) \in C
  <2> HIDE DEF k, C
  <2> QED BY <1>1, <1>3, BestOf DEF C
<1>5. HubOf(g, B, root) = CHOOSE a \in C : \A b \in C \ {a} : Ahead(k, a, b)
  <2>1. HubOf(g, B, root) = Best(C, LAMBDA a : <<weightWithin(g, a, B), Weight(g, root, a)>>)
    BY DEF HubOf
  <2> QED BY <1>2, <2>1 DEF Best, Ahead
<1> QED BY <1>4, <1>5

\* How far an agent is from the agents within[0] lists.
Distance(within, a) == Min({n \in DOMAIN within : a \in within[n]})

\* The parent an agent is given is a neighbour in the branch, nearer to the
\* hub.
LEMMA NearestIsNearer ==
    ASSUME NEW g, Weighed(g), NEW B, B \subseteq g.ids, NEW hub \in B, NEW a \in B, a # hub,
           Reached(g, B, hub) = B
    PROVE  LET within == Spread(g, B, hub)
           IN  /\ Nearest(g, a, within) \in neighborsFor(g, a) \cap B
               /\ Distance(within, a) \in Nat /\ Distance(within, Nearest(g, a, within)) \in Nat
               /\ Distance(within, Nearest(g, a, within)) < Distance(within, a)
<1> DEFINE within == Spread(g, B, hub)
           c == Cardinality(B)
           steps(x) == {n \in DOMAIN within : x \in within[n]}
           C == neighborsFor(g, a) \cap within[Distance(within, a) - 1]
           k == [b \in C |-> <<Weight(g, a, b), 0>>]
<1>1. IsFiniteSet(B) /\ c \in Nat
  BY FS_Subset, FS_CardinalityType DEF Weighed
<1>2. /\ DOMAIN within = 0..c /\ within[0] = {hub}
      /\ \A n \in 0..c : within[n] \subseteq B
      /\ \A n \in 1..c : within[n] = Widened(g, B, within[n - 1])
  BY <1>1, SpreadUnfolds
<1>3. a \in within[c]
  BY DEF Reached
<1> HIDE DEF within, c
<1>4. \A x : steps(x) # {} => /\ Distance(within, x) \in 0..c /\ x \in within[Distance(within, x)]
                             /\ \A n \in 0..c : x \in within[n] => Distance(within, x) <= n
  <2> TAKE x
  <2>1. SUFFICES ASSUME steps(x) # {}
                 PROVE  /\ Distance(within, x) \in steps(x)
                        /\ \A n \in steps(x) : Distance(within, x) <= n
    BY <1>2
  <2>2. \E m \in steps(x) : \A n \in steps(x) : m <= n
    <3>1. steps(x) \subseteq Nat
      BY <1>1, <1>2
    <3> HIDE DEF steps
    <3> QED BY <2>1, <3>1, LeastOf
  <2> HIDE DEF steps
  <2> QED BY <2>2, Zenon DEF Distance, Min, steps
<1>5. Distance(within, a) \in 1..c /\ a \in within[Distance(within, a)]
  <2>1. steps(a) # {}
    BY <1>1, <1>2, <1>3
  <2>2. Distance(within, a) \in 0..c /\ a \in within[Distance(within, a)]
    BY <1>4, <2>1
  <2>3. Distance(within, a) # 0
    BY <1>2, <2>2
  <2> QED BY <1>1, <2>2, <2>3
<1> DEFINE d == Distance(within, a)
<1>6. d - 1 \in 0..c /\ a \notin within[d - 1]
  <2>1. d - 1 \in 0..c
    BY <1>1, <1>5
  <2>2. ~(d <= d - 1)
    BY <1>5
  <2>3. steps(a) # {}
    BY <1>2, <1>5, <1>1
  <2> HIDE DEF steps
  <2> QED BY <1>4, <2>1, <2>2, <2>3
<1>7. C # {} /\ C \subseteq B
  BY <1>1, <1>2, <1>5, <1>6 DEF Widened
<1>8. Nearest(g, a, within) = CHOOSE b \in C : \A x \in C \ {b} : Ahead(k, b, x)
  <2>1. Nearest(g, a, within) = Best(C, LAMBDA b : <<Weight(g, a, b), 0>>)
    BY DEF Nearest, Distance
  <2>2. \A b \in C : k[b][1] = Weight(g, a, b) /\ k[b][2] = 0
    OBVIOUS
  <2> HIDE DEF k, C
  <2>3. \A b \in C : \A x \in C \ {b} : Ahead(k, b, x) <=>
           \/ Weight(g, a, b) > Weight(g, a, x)
           \/ Weight(g, a, b) = Weight(g, a, x) /\ (0 > 0 \/ (0 = 0 /\ b < x))
    BY <2>2 DEF Ahead
  <2> QED BY <2>1, <2>3 DEF Best
<1>9. Nearest(g, a, within) \in C
  <2>1. IsFiniteSet(C) /\ C \subseteq Nat
    BY <1>7, FS_Subset DEF Weighed
  <2>2. \A b \in C : k[b][1] \in Nat /\ k[b][2] \in Nat
    BY DEF Weighed, neighborsFor, Weight
  <2> HIDE DEF k, C
  <2>3. (CHOOSE b \in C : \A x \in C \ {b} : Ahead(k, b, x)) \in C
    BY <1>7, <2>1, <2>2, BestOf
  <2> QED BY <1>8, <2>3
<1>10. Distance(within, Nearest(g, a, within)) \in 0..c /\ Distance(within, Nearest(g, a, within)) <= d - 1
  <2>1. steps(Nearest(g, a, within)) # {}
    BY <1>2, <1>6, <1>9
  <2> HIDE DEF steps
  <2> QED BY <1>4, <1>6, <1>9, <2>1
<1> QED BY <1>1, <1>5, <1>7, <1>9, <1>10 DEF within

\* Following a function from one agent to the next.
Climbed(parent, above) == above \cup {parent[b] : b \in above \cap DOMAIN parent}

Ascent(parent, a, U) ==
    /\ Ancestors(parent, a) = U[Cardinality(DOMAIN parent)]
    /\ U[0] = {parent[b] : b \in {a} \cap DOMAIN parent}
    /\ \A n \in Nat : U[n + 1] = Climbed(parent, U[n])
    /\ \A n \in Nat : U[n] \subseteq {parent[b] : b \in DOMAIN parent}

\* Ancestors is the recursion it is written as.
LEMMA AncestorsUnfold ==
    ASSUME NEW parent, NEW a, IsFiniteSet(DOMAIN parent)
    PROVE  \E U : Ascent(parent, a, U)
<1> DEFINE X == SUBSET {parent[b] : b \in DOMAIN parent}
           F == [above \in X |-> Climbed(parent, above)]
           first == {parent[b] : b \in {a} \cap DOMAIN parent}
           Unfolds(u) == u = [n \in Nat |-> IF n = 0 THEN first ELSE Climbed(parent, u[n - 1])]
<1>1. F \in [X -> X]
  BY DEF Climbed
<1>2. first \in X
  OBVIOUS
<1>3. PICK k : Iterated(k, X, F, first)
  <2> HIDE DEF X, F, first
  <2> QED BY <1>1, <1>2, Iterates
<1>4. k \in [Nat -> X] /\ k[0] = first /\ \A n \in Nat : k[n + 1] = Climbed(parent, k[n])
  BY <1>3 DEF Iterated
<1>5. Unfolds(k)
  <2>1. ASSUME NEW n \in Nat PROVE k[n] = IF n = 0 THEN first ELSE Climbed(parent, k[n - 1])
    <3>1. CASE n = 0
      BY <1>4, <3>1
    <3>2. CASE n # 0
      <4>1. n - 1 \in Nat /\ (n - 1) + 1 = n
        BY <3>2
      <4> HIDE DEF first
      <4> QED BY <1>4, <3>2, <4>1
    <3> QED BY <3>1, <3>2
  <2> HIDE DEF first, X
  <2> QED BY <1>4, <2>1
<1> DEFINE U == CHOOSE u : Unfolds(u)
<1>6. Unfolds(U)
  <2> HIDE DEF Unfolds
  <2> QED BY <1>5, Zenon
<1>7. Ancestors(parent, a) = U[Cardinality(DOMAIN parent)]
  BY Zenon DEF Ancestors, Climbed
<1> HIDE DEF U
<1>8. U[0] = first
  <2> HIDE DEF first
  <2> QED BY <1>6
<1>9. \A n \in Nat : U[n + 1] = Climbed(parent, U[n])
  <2>1. ASSUME NEW n \in Nat PROVE U[n + 1] = Climbed(parent, U[n])
    <3>1. n + 1 \in Nat /\ n + 1 # 0 /\ (n + 1) - 1 = n
      OBVIOUS
    <3> HIDE DEF first
    <3> QED BY <1>6, <3>1
  <2> QED BY <2>1
<1>10. \A n \in Nat : U[n] \in X
  <2> DEFINE T == {n \in Nat : U[n] \in X}
  <2>1. 0 \in T
    BY <1>2, <1>8
  <2>2. \A n \in Nat : n \in T => n + 1 \in T
    BY <1>9 DEF Climbed
  <2>3. Nat \subseteq T
    <3> HIDE DEF T
    <3> QED BY <2>1, <2>2, Inductive
  <2> QED BY <2>3
<1>11. Ascent(parent, a, U)
  BY <1>7, <1>8, <1>9, <1>10 DEF Ascent
<1> QED BY <1>11

\* A set that parents do not leave.
ParentClosed(parent, above) == \A b \in above \cap DOMAIN parent : parent[b] \in above

\* The ancestors are within every such set that holds the parent.
LEMMA AncestorsAreLeast ==
    ASSUME NEW parent, NEW a, IsFiniteSet(DOMAIN parent), NEW above,
           a \in DOMAIN parent => parent[a] \in above, ParentClosed(parent, above)
    PROVE  Ancestors(parent, a) \subseteq above
<1>1. PICK U : Ascent(parent, a, U)
  BY AncestorsUnfold
<1> DEFINE T == {n \in Nat : U[n] \subseteq above}
<1>2. 0 \in T
  BY <1>1 DEF Ascent
<1>3. \A n \in Nat : n \in T => n + 1 \in T
  BY <1>1 DEF Ascent, Climbed, ParentClosed
<1>4. Nat \subseteq T
  <2> HIDE DEF T
  <2> QED BY <1>2, <1>3, Inductive
<1>5. Cardinality(DOMAIN parent) \in Nat
  BY FS_CardinalityType
<1> QED BY <1>1, <1>4, <1>5 DEF Ascent

\* The ancestors are such a set.
LEMMA AncestorsAreClosed ==
    ASSUME NEW parent, IsFiniteSet(DOMAIN parent), NEW a \in DOMAIN parent
    PROVE  parent[a] \in Ancestors(parent, a) /\ ParentClosed(parent, Ancestors(parent, a))
<1> DEFINE c == Cardinality(DOMAIN parent)
           all == {parent[b] : b \in DOMAIN parent}
<1>1. PICK U : /\ Ancestors(parent, a) = U[c]
               /\ U[0] = {parent[b] : b \in {a} \cap DOMAIN parent}
               /\ \A n \in Nat : U[n + 1] = Climbed(parent, U[n])
               /\ \A n \in Nat : U[n] \subseteq all
  BY AncestorsUnfold DEF Ascent
<1>2. c \in Nat /\ IsFiniteSet(all) /\ Cardinality(all) <= c /\ Cardinality(all) \in Nat
  <2> DEFINE f == [b \in DOMAIN parent |-> parent[b]]
  <2>1. f \in Surjection(DOMAIN parent, all)
    BY DEF Surjection
  <2>2. IsFiniteSet(all) /\ Cardinality(all) <= c
    <3> HIDE DEF f, all
    <3> QED BY <2>1, FS_Surjection
  <2> QED BY <2>2, FS_CardinalityType
<1> HIDE DEF c, all
<1>3. \A n \in Nat : IsFiniteSet(U[n]) /\ Cardinality(U[n]) \in Nat /\ Cardinality(U[n]) <= c
  <2>1. \A n \in Nat : IsFiniteSet(U[n]) /\ Cardinality(U[n]) \in Nat /\ Cardinality(U[n]) <= Cardinality(all)
    BY <1>1, <1>2, FS_Subset, FS_CardinalityType
  <2> QED BY <1>2, <2>1
<1> DEFINE T == {n \in Nat : parent[a] \in U[n] /\ (ParentClosed(parent, U[n]) \/ n + 1 <= Cardinality(U[n]))}
<1>4. 0 \in T
  <2>1. U[0] = {parent[a]}
    BY <1>1
  <2>2. Cardinality(U[0]) = 1
    BY <2>1, FS_Singleton
  <2> QED BY <2>1, <2>2
<1>5. ASSUME NEW n \in Nat, n \in T PROVE n + 1 \in T
  <2>1. U[n + 1] = Climbed(parent, U[n]) /\ n + 1 \in Nat
    BY <1>1
  <2>2. CASE ParentClosed(parent, U[n])
    <3>1. U[n + 1] = U[n]
      BY <2>1, <2>2 DEF Climbed, ParentClosed
    <3> QED BY <1>5, <2>1, <2>2, <3>1
  <2>3. CASE ~ParentClosed(parent, U[n])
    <3>1. U[n] \subseteq U[n + 1] /\ U[n] # U[n + 1]
      BY <2>1, <2>3 DEF Climbed, ParentClosed
    <3>2. Cardinality(U[n]) < Cardinality(U[n + 1])
      <4>1. IsFiniteSet(U[n + 1]) /\ Cardinality(U[n]) <= Cardinality(U[n + 1])
        BY <1>3, <2>1, <3>1, FS_Subset
      <4>2. Cardinality(U[n]) # Cardinality(U[n + 1])
        BY <3>1, <4>1, FS_Subset
      <4> QED BY <1>3, <2>1, <4>1, <4>2
    <3>3. n + 1 <= Cardinality(U[n])
      BY <1>5, <2>3
    <3>4. (n + 1) + 1 <= Cardinality(U[n + 1])
      BY <1>3, <2>1, <3>2, <3>3
    <3> QED BY <1>5, <2>1, <3>1, <3>4
  <2> QED BY <2>2, <2>3
<1>6. Nat \subseteq T
  <2> HIDE DEF T
  <2> QED BY <1>4, <1>5, Inductive
<1>7. c \in T
  BY <1>2, <1>6
<1>8. ~(c + 1 <= Cardinality(U[c]))
  BY <1>2, <1>3
<1> QED BY <1>1, <1>7, <1>8

\* The parent of an agent on a cycle is on a cycle.
LEMMA CyclesGoOn ==
    ASSUME NEW parent, IsFiniteSet(DOMAIN parent), NEW a \in cycleMembers(parent)
    PROVE  parent[a] \in cycleMembers(parent)
<1> DEFINE p == parent[a]
<1>1. a \in DOMAIN parent /\ a \in Ancestors(parent, a)
  BY DEF cycleMembers
<1>2. p \in DOMAIN parent
  <2>1. SUFFICES ASSUME p \notin DOMAIN parent PROVE FALSE
    OBVIOUS
  <2>2. Ancestors(parent, a) \subseteq {p}
    <3>1. ParentClosed(parent, {p})
      BY <2>1 DEF ParentClosed
    <3> QED BY <3>1, AncestorsAreLeast
  <2> QED BY <1>1, <2>1, <2>2
<1>3. parent[p] \in Ancestors(parent, p) /\ ParentClosed(parent, Ancestors(parent, p))
  BY <1>2, AncestorsAreClosed
<1>4. Ancestors(parent, a) \subseteq {p} \cup Ancestors(parent, p)
  <2>1. ParentClosed(parent, {p} \cup Ancestors(parent, p))
    BY <1>3 DEF ParentClosed
  <2> QED BY <2>1, AncestorsAreLeast
<1>5. CASE a = p
  BY <1>1, <1>5
<1>6. CASE a # p
  <2>1. a \in Ancestors(parent, p)
    BY <1>1, <1>4, <1>6
  <2> QED BY <1>1, <1>2, <1>3, <2>1 DEF ParentClosed, cycleMembers
<1> QED BY <1>1, <1>5, <1>6

\* No cycle where every step that is not chosen goes down, unless a chosen agent is on it.
LEMMA NoCycleDownwards ==
    ASSUME NEW parent, IsFiniteSet(DOMAIN parent), NEW level, NEW chosen,
           \A a \in DOMAIN parent \ chosen :
              parent[a] \in DOMAIN parent =>
                 level[a] \in Nat /\ level[parent[a]] \in Nat /\ level[parent[a]] < level[a],
           cycleMembers(parent) \cap chosen = {}
    PROVE  cycleMembers(parent) = {}
<1> DEFINE Z == cycleMembers(parent)
<1>1. SUFFICES ASSUME Z # {} PROVE FALSE
  OBVIOUS
<1>2. \A a \in Z : /\ parent[a] \in Z
                   /\ level[a] \in Nat /\ level[parent[a]] \in Nat /\ level[parent[a]] < level[a]
  <2>1. \A a \in Z : parent[a] \in Z /\ a \in DOMAIN parent \ chosen
    BY CyclesGoOn DEF cycleMembers
  <2> QED BY <2>1 DEF cycleMembers
<1> HIDE DEF Z
<1> DEFINE L == {level[a] : a \in Z}
<1>3. PICK m \in L : \A k \in L : m <= k
  <2>1. L \subseteq Nat /\ L # {}
    BY <1>1, <1>2
  <2> HIDE DEF L
  <2> QED BY <2>1, LeastOf
<1>4. PICK a \in Z : m = level[a]
  BY <1>3
<1>5. level[parent[a]] \in L /\ level[parent[a]] < m /\ m \in Nat /\ level[parent[a]] \in Nat
  BY <1>2, <1>4
<1> QED BY <1>3, <1>5

-----------------------------------------------------------------------------
(* The choices that survive together. *)

\* One round: the choices on a cycle go.
Repaired(inferred, choices, kept) == kept \ cycleMembers(Chosen(inferred, choices, kept))

Rounds(inferred, choices, valid, K) ==
    /\ acceptedOverrides(inferred, choices, valid) = K[Cardinality(valid)]
    /\ K[0] = valid
    /\ \A n \in Nat : K[n + 1] = Repaired(inferred, choices, K[n])

\* acceptedOverrides is the recursion it is written as.
LEMMA RoundsUnfold ==
    ASSUME NEW inferred, NEW choices, NEW valid
    PROVE  \E K : Rounds(inferred, choices, valid, K)
<1> DEFINE X == SUBSET valid
           F == [kept \in X |-> Repaired(inferred, choices, kept)]
           Unfolds(u) == u = [n \in Nat |-> IF n = 0 THEN valid ELSE Repaired(inferred, choices, u[n - 1])]
<1>1. F \in [X -> X]
  BY DEF Repaired
<1>2. valid \in X
  OBVIOUS
<1>3. PICK k : Iterated(k, X, F, valid)
  <2> HIDE DEF X, F
  <2> QED BY <1>1, <1>2, Iterates
<1>4. k \in [Nat -> X] /\ k[0] = valid /\ \A n \in Nat : k[n + 1] = Repaired(inferred, choices, k[n])
  BY <1>3 DEF Iterated
<1>5. Unfolds(k)
  <2>1. ASSUME NEW n \in Nat PROVE k[n] = IF n = 0 THEN valid ELSE Repaired(inferred, choices, k[n - 1])
    <3>1. CASE n = 0
      BY <1>4, <3>1
    <3>2. CASE n # 0
      <4>1. n - 1 \in Nat /\ (n - 1) + 1 = n
        BY <3>2
      <4> QED BY <1>4, <3>2, <4>1
    <3> QED BY <3>1, <3>2
  <2> HIDE DEF X
  <2> QED BY <1>4, <2>1
<1> DEFINE K == CHOOSE u : Unfolds(u)
<1>6. Unfolds(K)
  <2> HIDE DEF Unfolds
  <2> QED BY <1>5, Zenon
<1>7. acceptedOverrides(inferred, choices, valid) = K[Cardinality(valid)]
  BY Zenon DEF acceptedOverrides, Repaired
<1> HIDE DEF K
<1>8. K[0] = valid
  BY <1>6
<1>9. \A n \in Nat : K[n + 1] = Repaired(inferred, choices, K[n])
  <2>1. ASSUME NEW n \in Nat PROVE K[n + 1] = Repaired(inferred, choices, K[n])
    <3>1. n + 1 \in Nat /\ n + 1 # 0 /\ (n + 1) - 1 = n
      OBVIOUS
    <3> QED BY <1>6, <3>1
  <2> QED BY <2>1
<1>10. Rounds(inferred, choices, valid, K)
  BY <1>7, <1>8, <1>9 DEF Rounds
<1> QED BY <1>10

(* The choices of parents that are left (flow.mjs, acceptedOverrides) are    *)
(* the person's own, and no cycle passes through any of them, however many  *)
(* the person made: one round for each is enough.                           *)
THEOREM AcceptedSettle ==
    ASSUME NEW inferred, NEW choices, NEW valid, IsFiniteSet(valid)
    PROVE  LET kept == acceptedOverrides(inferred, choices, valid)
           IN  /\ kept \subseteq valid
               /\ cycleMembers(Chosen(inferred, choices, kept)) \cap kept = {}
<1> DEFINE c == Cardinality(valid)
<1>1. PICK K : Rounds(inferred, choices, valid, K)
  BY RoundsUnfold
<1>2. K[0] = valid /\ \A n \in Nat : K[n + 1] = Repaired(inferred, choices, K[n])
  BY <1>1 DEF Rounds
<1>3. c \in Nat
  BY FS_CardinalityType
<1> HIDE DEF c
<1> DEFINE Stable(n) == Repaired(inferred, choices, K[n]) = K[n]
           T == {n \in Nat : K[n] \subseteq valid /\ (Stable(n) \/ Cardinality(K[n]) <= c - n)}
<1>4. 0 \in T
  BY <1>2, <1>3 DEF c
<1>5. ASSUME NEW n \in Nat, n \in T PROVE n + 1 \in T
  <2>1. K[n + 1] = Repaired(inferred, choices, K[n]) /\ n + 1 \in Nat
    BY <1>2
  <2>2. K[n + 1] \subseteq K[n] /\ K[n] \subseteq valid
    BY <1>5, <2>1 DEF Repaired
  <2>3. CASE Stable(n)
    <3>1. K[n + 1] = K[n]
      BY <2>1, <2>3
    <3> QED BY <2>1, <2>2, <2>3, <3>1
  <2>4. CASE ~Stable(n)
    <3>1. K[n + 1] # K[n]
      BY <2>1, <2>4
    <3>2. /\ IsFiniteSet(K[n]) /\ Cardinality(K[n]) \in Nat
          /\ IsFiniteSet(K[n + 1]) /\ Cardinality(K[n + 1]) \in Nat
          /\ Cardinality(K[n + 1]) <= Cardinality(K[n])
      BY <2>2, FS_Subset, FS_CardinalityType
    <3>3. Cardinality(K[n + 1]) # Cardinality(K[n])
      BY <2>2, <3>1, <3>2, FS_Subset
    <3>4. Cardinality(K[n]) <= c - n
      BY <1>5, <2>4
    <3>5. Cardinality(K[n + 1]) <= c - (n + 1)
      BY <1>3, <3>2, <3>3, <3>4
    <3> QED BY <2>1, <2>2, <3>5
  <2> QED BY <2>3, <2>4
<1>6. Nat \subseteq T
  <2> HIDE DEF T
  <2> QED BY <1>4, <1>5, Inductive
<1>7. c \in T
  BY <1>3, <1>6
<1>8. K[c] \subseteq valid /\ IsFiniteSet(K[c]) /\ Cardinality(K[c]) \in Nat
  BY <1>7, FS_Subset, FS_CardinalityType
<1>9. Stable(c)
  <2>1. CASE Cardinality(K[c]) <= c - c
    <3>1. Cardinality(K[c]) = 0
      BY <1>3, <1>8, <2>1
    <3>2. K[c] = {}
      BY <1>8, <3>1, FS_EmptySet
    <3> QED BY <3>2 DEF Repaired
  <2> QED BY <1>7, <2>1
<1> QED BY <1>1, <1>8, <1>9 DEF Rounds, Repaired, c

\* Accepting what was accepted changes nothing.
LEMMA AcceptedAgain ==
    ASSUME NEW inferred, NEW choices, NEW valid, IsFiniteSet(valid), NEW again,
           LET kept == acceptedOverrides(inferred, choices, valid)
           IN  Chosen(inferred, again, kept) = Chosen(inferred, choices, kept)
    PROVE  LET kept == acceptedOverrides(inferred, choices, valid)
           IN  acceptedOverrides(inferred, again, kept) = kept
<1> DEFINE kept == acceptedOverrides(inferred, choices, valid)
<1>1. kept \subseteq valid /\ cycleMembers(Chosen(inferred, choices, kept)) \cap kept = {}
  BY AcceptedSettle
<1>2. Chosen(inferred, again, kept) = Chosen(inferred, choices, kept)
  OBVIOUS
<1> HIDE DEF kept
<1>3. Repaired(inferred, again, kept) = kept
  BY <1>1, <1>2 DEF Repaired
<1>4. PICK K : Rounds(inferred, again, kept, K)
  BY RoundsUnfold
<1> DEFINE T == {n \in Nat : K[n] = kept}
<1>5. 0 \in T
  BY <1>4 DEF Rounds
<1>6. \A n \in Nat : n \in T => n + 1 \in T
  BY <1>3, <1>4 DEF Rounds
<1>7. Nat \subseteq T
  <2> HIDE DEF T
  <2> QED BY <1>5, <1>6, Inductive
<1>8. Cardinality(kept) \in Nat
  BY <1>1, FS_Subset, FS_CardinalityType
<1> QED BY <1>4, <1>7, <1>8 DEF Rounds, kept

-----------------------------------------------------------------------------
(* The inferred hierarchy. *)

\* Each component has a root.
LEMMA RootsInComponents ==
    ASSUME NEW g, Weighed(g), NEW selected
    PROVE  /\ rootsOf(g, selected) \subseteq g.ids
           /\ \A C \in componentsOf(g, g.ids) : RootOf(g, C, selected) \in C \cap rootsOf(g, selected)
<1>1. \A C \in componentsOf(g, g.ids) : C # {} /\ C \subseteq g.ids
  BY Components DEF Weighed
<1>2. \A C \in componentsOf(g, g.ids) : RootOf(g, C, selected) \in C
  BY <1>1, RootIsMember
<1> QED BY <1>1, <1>2 DEF rootsOf

\* The root a branch hangs from, and its hub.
RootAt(g, roots, B) == CHOOSE r \in roots : neighborsFor(g, r) \cap B # {}
HubAt(g, roots, B) == HubOf(g, B, RootAt(g, roots, B))

\* A branch, what is left of a component without its root, is next to that
\* root.
LEMMA BranchHangs ==
    ASSUME NEW g, Weighed(g), NEW selected, NEW B \in componentsOf(g, g.ids \ rootsOf(g, selected))
    PROVE  LET roots == rootsOf(g, selected)
           IN  /\ RootAt(g, roots, B) \in roots
               /\ HubAt(g, roots, B) \in B \cap neighborsFor(g, RootAt(g, roots, B))
<1> DEFINE roots == rootsOf(g, selected)
           S == g.ids \ roots
<1>1. IsFiniteSet(g.ids) /\ IsFiniteSet(S) /\ S \subseteq g.ids
  BY FS_Subset DEF Weighed
<1>2. B # {} /\ B \subseteq S /\ Closed(g, S, B)
  BY <1>1, Components
<1>3. \E r \in roots : neighborsFor(g, r) \cap B # {}
  <2>1. SUFFICES ASSUME \A r \in roots : neighborsFor(g, r) \cap B = {} PROVE FALSE
    OBVIOUS
  <2>2. Closed(g, g.ids, B)
    BY <1>2, <2>1 DEF Closed
  <2>3. PICK b \in B : b \in g.ids
    BY <1>2
  <2>4. Reached(g, g.ids, b) \subseteq B
    BY <1>1, <2>2, <2>3, ReachedIsLeast
  <2>5. Reached(g, g.ids, b) \in componentsOf(g, g.ids)
    BY <2>3 DEF componentsOf, Reached
  <2>6. RootOf(g, Reached(g, g.ids, b), selected) \in B \cap roots
    BY <2>4, <2>5, RootsInComponents
  <2> QED BY <1>2, <2>6
<1>4. RootAt(g, roots, B) \in roots /\ neighborsFor(g, RootAt(g, roots, B)) \cap B # {}
  <2> HIDE DEF roots
  <2> QED BY <1>3, Zenon DEF RootAt
<1>5. HubAt(g, roots, B) \in B \cap neighborsFor(g, RootAt(g, roots, B))
  <2>1. B \subseteq g.ids
    BY <1>2
  <2> HIDE DEF roots
  <2> QED BY <1>4, <2>1, HubIsMember DEF HubAt
<1> QED BY <1>4, <1>5

\* How deep below the hub of its branch an agent is drawn.
Level(g, roots, B, a) == Distance(Spread(g, B, HubAt(g, roots, B)), a)

\* In a branch, parents are neighbours and lead up to the hub and the root.
LEMMA BranchGoesUp ==
    ASSUME NEW g, Weighed(g), NEW selected, NEW B \in componentsOf(g, g.ids \ rootsOf(g, selected)),
           NEW a \in B
    PROVE  LET roots == rootsOf(g, selected)
               parent == InBranch(g, B, RootAt(g, roots, B))
           IN  /\ DOMAIN parent = B
               /\ parent[a] \in neighborsFor(g, a)
               /\ \/ parent[a] \in roots
                  \/ /\ parent[a] \in B /\ Level(g, roots, B, a) \in Nat
                     /\ Level(g, roots, B, parent[a]) \in Nat
                     /\ Level(g, roots, B, parent[a]) < Level(g, roots, B, a)
<1> DEFINE roots == rootsOf(g, selected)
           root == RootAt(g, roots, B)
           hub == HubAt(g, roots, B)
           parent == InBranch(g, B, root)
           S == g.ids \ roots
<1>1. IsFiniteSet(S) /\ S \subseteq g.ids
  BY FS_Subset DEF Weighed
<1>2. B \subseteq S /\ \A b \in B : Reached(g, B, b) = B
  BY <1>1, Components
<1>3. root \in roots /\ hub \in B \cap neighborsFor(g, root) /\ roots \subseteq g.ids
  BY BranchHangs, RootsInComponents
<1> HIDE DEF roots, root, hub
<1>4. DOMAIN parent = B /\ parent[a] = BranchParent(g, B, root, hub, a)
  BY DEF InBranch, HubParents, HubAt, hub, root
<1>5. CASE a = hub
  <2>1. parent[a] = root
    BY <1>4, <1>5 DEF BranchParent
  <2>2. root \in neighborsFor(g, a)
    BY <1>1, <1>2, <1>3, <1>5, NeighborsMutual
  <2> QED BY <1>3, <1>4, <2>1, <2>2 DEF root, roots
<1>6. CASE a # hub
  <2>1. parent[a] = Nearest(g, a, Spread(g, B, hub))
    BY <1>4, <1>6 DEF BranchParent
  <2>2. B \subseteq g.ids /\ Reached(g, B, hub) = B
    BY <1>1, <1>2, <1>3
  <2>3. /\ Nearest(g, a, Spread(g, B, hub)) \in neighborsFor(g, a) \cap B
        /\ Distance(Spread(g, B, hub), a) \in Nat
        /\ Distance(Spread(g, B, hub), Nearest(g, a, Spread(g, B, hub))) \in Nat
        /\ Distance(Spread(g, B, hub), Nearest(g, a, Spread(g, B, hub))) < Distance(Spread(g, B, hub), a)
    BY <1>3, <1>6, <2>2, NearestIsNearer
  <2> QED BY <1>4, <2>1, <2>3 DEF Level, hub, root, roots
<1> QED BY <1>5, <1>6

\* The depth of every agent in its branch.
Depth(g, roots) == [a \in g.ids \ roots |-> Level(g, roots, Reached(g, g.ids \ roots, a), a)]

\* The inferred hierarchy: every agent but the roots hangs from a neighbour,
\* nearer to the hub or a root.
LEMMA OriginalGoesUp ==
    ASSUME NEW g, Weighed(g), NEW selected
    PROVE  LET roots == rootsOf(g, selected)
               parent == originalParents(g, selected)
               depth == Depth(g, roots)
           IN  /\ DOMAIN parent = g.ids \ roots
               /\ \A a \in DOMAIN parent :
                     /\ parent[a] \in neighborsFor(g, a)
                     /\ parent[a] \in DOMAIN parent =>
                           /\ depth[a] \in Nat /\ depth[parent[a]] \in Nat
                           /\ depth[parent[a]] < depth[a]
<1> DEFINE roots == rootsOf(g, selected)
           S == g.ids \ roots
           branch(B) == InBranch(g, B, RootAt(g, roots, B))
           fs == {branch(B) : B \in componentsOf(g, S)}
           parent == originalParents(g, selected)
<1>1. IsFiniteSet(S) /\ S \subseteq g.ids
  BY FS_Subset DEF Weighed
<1>2. /\ UNION componentsOf(g, S) = S
      /\ \A C \in componentsOf(g, S) : \A b \in C : C = Reached(g, S, b)
      /\ \A B \in componentsOf(g, S) : B \subseteq S
  <2> HIDE DEF S
  <2> QED BY <1>1, Components
<1>3. parent = Merge(fs)
  BY DEF originalParents, BranchParents, RootAt
<1>4. \A B \in componentsOf(g, S) : DOMAIN branch(B) = B
  BY DEF InBranch, HubParents
<1> HIDE DEF branch
<1>5. DOMAIN parent = S
  <2>1. DOMAIN parent = UNION {DOMAIN f : f \in fs}
    BY <1>3 DEF Merge
  <2>2. ASSUME NEW a PROVE a \in UNION {DOMAIN f : f \in fs} <=> \E B \in componentsOf(g, S) : a \in B
    BY <1>4
  <2> HIDE DEF parent, fs, S
  <2> QED BY <1>2, <2>1, <2>2
<1>6. ASSUME NEW a \in S
      PROVE  \E B \in componentsOf(g, S) : a \in B /\ parent[a] = branch(B)[a]
  <2>1. \E f \in fs : a \in DOMAIN f
    <3>1. PICK B \in componentsOf(g, S) : a \in B
      <4> HIDE DEF S
      <4> QED BY <1>2
    <3> QED BY <1>4, <3>1
  <2>2. (CHOOSE f \in fs : a \in DOMAIN f) \in fs /\ a \in DOMAIN (CHOOSE f \in fs : a \in DOMAIN f)
    <3> HIDE DEF fs
    <3> QED BY <2>1, Zenon
  <2>3. parent[a] = (CHOOSE f \in fs : a \in DOMAIN f)[a]
    BY <1>3, <1>5 DEF Merge
  <2> DEFINE f == CHOOSE f \in fs : a \in DOMAIN f
  <2>4. PICK B \in componentsOf(g, S) : f = branch(B)
    BY <2>2
  <2> QED BY <1>4, <2>2, <2>3, <2>4
<1>7. ASSUME NEW a \in S
      PROVE  /\ parent[a] \in neighborsFor(g, a)
             /\ parent[a] \in S => /\ Depth(g, roots)[a] \in Nat /\ Depth(g, roots)[parent[a]] \in Nat
                                   /\ Depth(g, roots)[parent[a]] < Depth(g, roots)[a]
  <2>1. PICK B \in componentsOf(g, S) : a \in B /\ parent[a] = branch(B)[a]
    BY <1>6
  <2>2. /\ parent[a] \in neighborsFor(g, a)
        /\ \/ parent[a] \in roots
           \/ /\ parent[a] \in B /\ Level(g, roots, B, a) \in Nat
              /\ Level(g, roots, B, parent[a]) \in Nat
              /\ Level(g, roots, B, parent[a]) < Level(g, roots, B, a)
    BY <2>1, BranchGoesUp DEF branch
  <2>3. \A b \in B : Depth(g, roots)[b] = Level(g, roots, B, b)
    BY <1>2, <2>1 DEF Depth
  <2> HIDE DEF parent, roots
  <2> QED BY <2>1, <2>2, <2>3
<1> QED BY <1>5, <1>7

-----------------------------------------------------------------------------
(* Every hierarchy that inferFlow returns is a forest. *)

\* Min of a set of numbers that is not empty.
LEMMA MinIsLeast ==
    ASSUME NEW S, S \subseteq Nat, S # {}
    PROVE  Min(S) \in S /\ \A n \in S : Min(S) <= n
<1>1. \E m \in S : \A n \in S : m <= n
  BY LeastOf
<1> QED BY <1>1, Zenon DEF Min

\* There is a largest component: ties go to the smallest id, and components
\* are disjoint.
LEMMA LargestIsComponent ==
    ASSUME NEW g, Weighed(g), g.ids # {}
    PROVE  LargestComponent(componentsOf(g, g.ids)) \in componentsOf(g, g.ids)
<1> DEFINE comps == componentsOf(g, g.ids)
<1>1. /\ \A C \in comps : C # {} /\ C \subseteq g.ids
      /\ UNION comps = g.ids
      /\ \A C, D \in comps : \A b \in C : b \in D => C = D
  BY Components DEF Weighed
<1>2. \A C \in comps : IsFiniteSet(C) /\ Cardinality(C) \in Nat /\ C \subseteq Nat /\ Min(C) \in C /\ Min(C) \in Nat
  BY <1>1, FS_Subset, FS_CardinalityType, MinIsLeast DEF Weighed
<1>3. IsFiniteSet(comps) /\ comps # {}
  <2>1. IsFiniteSet(SUBSET g.ids)
    BY FS_SUBSET DEF Weighed
  <2>2. comps \in SUBSET (SUBSET g.ids)
    BY <1>1
  <2> HIDE DEF comps
  <2> QED BY <1>1, <2>1, <2>2, FS_Subset
<1> HIDE DEF comps
<1>4. PICK L \in comps : \A C \in comps : Cardinality(C) <= Cardinality(L)
  <2> DEFINE h == [C \in comps |-> Cardinality(C)]
  <2>1. \A C \in comps : h[C] \in Nat
    BY <1>2
  <2>2. \E m \in comps : \A a \in comps : h[a] <= h[m]
    <3> HIDE DEF h
    <3> QED BY <1>3, <2>1, Greatest
  <2> QED BY <2>2
<1> DEFINE Tops == {C \in comps : Cardinality(C) = Cardinality(L)}
           Firsts == {Min(C) : C \in Tops}
<1>5. PICK m \in Firsts : \A n \in Firsts : m <= n
  <2>1. Firsts \subseteq Nat /\ Firsts # {}
    BY <1>2
  <2> HIDE DEF Firsts
  <2> QED BY <2>1, LeastOf
<1>6. PICK C \in Tops : m = Min(C)
  BY <1>5
<1>7. ASSUME NEW D \in comps \ {C}
      PROVE  Cardinality(C) > Cardinality(D) \/ (Cardinality(C) = Cardinality(D) /\ Min(C) < Min(D))
  <2>1. CASE D \notin Tops
    BY <1>2, <1>4, <1>6, <2>1
  <2>2. CASE D \in Tops
    <3>1. Min(C) <= Min(D)
      BY <1>5, <1>6, <2>2
    <3>2. Min(C) # Min(D)
      BY <1>1, <1>2, <1>6, <1>7
    <3> QED BY <1>2, <1>6, <2>2, <3>1, <3>2
  <2> QED BY <2>1, <2>2
<1>8. \E E \in comps : \A D \in comps \ {E} :
         Cardinality(E) > Cardinality(D) \/ (Cardinality(E) = Cardinality(D) /\ Min(E) < Min(D))
  BY <1>6, <1>7
<1> QED BY <1>8, Zenon DEF LargestComponent, comps

\* The root that is reported is one of the roots.
LEMMA RootIdIsRoot ==
    ASSUME NEW g, Weighed(g), NEW selected \in g.ids \cup {NoOne}
    PROVE  rootId(g, selected) \in rootsOf(g, selected) \/ (g.ids = {} /\ rootId(g, selected) = NoOne)
<1>1. CASE selected \in g.ids
  <2>1. selected # NoOne /\ rootId(g, selected) = selected
    BY <1>1 DEF rootId, Weighed
  <2>2. PICK C \in componentsOf(g, g.ids) : selected \in C
    BY <1>1, Components DEF Weighed
  <2>3. RootOf(g, C, selected) = selected
    BY <2>2 DEF RootOf
  <2> QED BY <2>1, <2>2, <2>3, RootsInComponents
<1>2. CASE selected = NoOne /\ g.ids # {}
  <2> DEFINE C == LargestComponent(componentsOf(g, g.ids))
  <2>1. rootId(g, selected) = RootOf(g, C, selected)
    BY <1>2 DEF rootId
  <2>2. C \in componentsOf(g, g.ids)
    BY <1>2, LargestIsComponent
  <2> HIDE DEF C
  <2> QED BY <2>1, <2>2, RootsInComponents
<1>3. CASE selected = NoOne /\ g.ids = {}
  BY <1>3 DEF rootId
<1> QED BY <1>1, <1>2, <1>3

\* What the Flow layout is given for any graph, root and choices of parents.
HonoursChoices(g, flow, choices) ==
    /\ DOMAIN flow.accepted \subseteq DOMAIN choices \cap DOMAIN flow.parent
    /\ flow.accepted = [a \in DOMAIN flow.accepted |-> choices[a]]
    /\ \A a \in DOMAIN flow.accepted : flow.parent[a] = choices[a]

IsForest(g, flow) ==
    /\ DOMAIN flow.parent = g.ids \ flow.roots /\ flow.roots \subseteq g.ids
    /\ \A a \in DOMAIN flow.parent : flow.parent[a] \in neighborsFor(g, a)
    /\ cycleMembers(flow.parent) = {}
    /\ flow.rootId \in flow.roots \/ (g.ids = {} /\ flow.rootId = NoOne)

(* What inferFlow returns for any graph, conductor and choices: every agent *)
(* but the roots hangs from an agent it exchanged messages with, there is   *)
(* no cycle, the reported root is a root, and the choices that are accepted *)
(* are honoured (flow.mjs:71-72, 137-139).                                  *)
THEOREM FlowIsForest ==
    ASSUME NEW g, Weighed(g), NEW conductor, NEW choices
    PROVE  LET flow == inferFlow(g, conductor, choices)
           IN  IsForest(g, flow) /\ HonoursChoices(g, flow, choices)
<1> DEFINE selected == IF conductor \in g.ids THEN conductor ELSE NoOne
           inferred == originalParents(g, selected)
           valid == ObservedChoices(g, inferred, choices)
           kept == acceptedOverrides(inferred, choices, valid)
           parent == Chosen(inferred, choices, kept)
           roots == rootsOf(g, selected)
           depth == Depth(g, roots)
           flow == inferFlow(g, conductor, choices)
<1>1. selected \in g.ids \cup {NoOne}
  OBVIOUS
<1>2. flow = FlowOf(g, selected, choices, inferred, kept)
  BY DEF inferFlow, InferFor, Inferred
<1> HIDE DEF selected
<1>3. /\ DOMAIN inferred = g.ids \ roots
      /\ \A a \in DOMAIN inferred :
            /\ inferred[a] \in neighborsFor(g, a)
            /\ inferred[a] \in DOMAIN inferred =>
                  depth[a] \in Nat /\ depth[inferred[a]] \in Nat /\ depth[inferred[a]] < depth[a]
  BY OriginalGoesUp
<1>4. roots \subseteq g.ids
  BY RootsInComponents
<1>5. IsFiniteSet(DOMAIN inferred) /\ IsFiniteSet(valid)
  <2>1. IsFiniteSet(DOMAIN inferred)
    BY <1>3, FS_Subset DEF Weighed
  <2>2. valid \subseteq DOMAIN inferred
    BY DEF ObservedChoices
  <2> QED BY <2>1, <2>2, FS_Subset
<1> HIDE DEF inferred, roots, depth
<1>6. kept \subseteq valid /\ cycleMembers(parent) \cap kept = {}
  <2> HIDE DEF valid
  <2> QED BY <1>5, AcceptedSettle
<1>7. valid \subseteq DOMAIN choices \cap DOMAIN inferred /\ \A a \in valid : choices[a] \in neighborsFor(g, a)
  BY DEF ObservedChoices
<1> HIDE DEF valid, kept
<1>8. DOMAIN parent = DOMAIN inferred /\ \A a \in DOMAIN inferred : parent[a] = IF a \in kept THEN choices[a] ELSE inferred[a]
  BY DEF Chosen
<1> HIDE DEF parent
<1>9. cycleMembers(parent) = {}
  <2>1. \A a \in DOMAIN parent \ kept : parent[a] \in DOMAIN parent =>
           depth[a] \in Nat /\ depth[parent[a]] \in Nat /\ depth[parent[a]] < depth[a]
    BY <1>3, <1>8
  <2> QED BY <1>5, <1>6, <1>8, <2>1, NoCycleDownwards
<1>10. rootId(g, selected) \in roots \/ (g.ids = {} /\ rootId(g, selected) = NoOne)
  BY <1>1, RootIdIsRoot DEF roots
<1>11. /\ flow.parent = parent /\ flow.roots = roots /\ flow.rootId = rootId(g, selected)
       /\ flow.accepted = [a \in kept |-> choices[a]]
  BY <1>2 DEF FlowOf, Restrict, parent, roots
<1> HIDE DEF flow
<1>12. IsForest(g, flow)
  BY <1>3, <1>4, <1>6, <1>7, <1>8, <1>9, <1>10, <1>11 DEF IsForest
<1>13. HonoursChoices(g, flow, choices)
  BY <1>6, <1>7, <1>8, <1>11 DEF HonoursChoices
<1> QED BY <1>12, <1>13 DEF flow

(* Inferring again from the accepted choices yields the same hierarchy, so  *)
(* that writing them back, as inferCurrentFlow does, settles at once.       *)
THEOREM FlowAgain ==
    ASSUME NEW g, Weighed(g), NEW conductor, NEW choices
    PROVE  inferFlow(g, conductor, inferFlow(g, conductor, choices).accepted) = inferFlow(g, conductor, choices)
<1> DEFINE selected == IF conductor \in g.ids THEN conductor ELSE NoOne
           inferred == originalParents(g, selected)
           valid == ObservedChoices(g, inferred, choices)
           kept == acceptedOverrides(inferred, choices, valid)
           again == [a \in kept |-> choices[a]]
<1>1. \A f : inferFlow(g, conductor, f) =
                 FlowOf(g, selected, f, inferred, acceptedOverrides(inferred, f, ObservedChoices(g, inferred, f)))
  BY DEF inferFlow, InferFor, Inferred
<1> HIDE DEF selected
<1>2. IsFiniteSet(valid)
  <2>1. DOMAIN inferred \subseteq g.ids
    BY OriginalGoesUp
  <2>2. valid \subseteq DOMAIN inferred
    BY DEF ObservedChoices
  <2> QED BY <2>1, <2>2, FS_Subset DEF Weighed
<1> HIDE DEF inferred
<1>3. kept \subseteq valid
  <2> HIDE DEF valid
  <2> QED BY <1>2, AcceptedSettle
<1>4. ObservedChoices(g, inferred, again) = kept
  <2> HIDE DEF kept
  <2> QED BY <1>3 DEF ObservedChoices
<1>5. Chosen(inferred, again, kept) = Chosen(inferred, choices, kept)
  <2> HIDE DEF kept
  <2> QED BY DEF Chosen
<1>6. acceptedOverrides(inferred, again, kept) = kept
  <2> HIDE DEF valid, again
  <2> QED BY <1>2, <1>5, AcceptedAgain
<1>7. inferFlow(g, conductor, choices).accepted = again
  BY <1>1 DEF FlowOf, Restrict
<1>8. inferFlow(g, conductor, again) = FlowOf(g, selected, again, inferred, kept)
  BY <1>1, <1>4, <1>6
<1>9. FlowOf(g, selected, again, inferred, kept) = FlowOf(g, selected, choices, inferred, kept)
  <2>1. Restrict(again, kept) = Restrict(choices, kept)
    <3> HIDE DEF kept
    <3> QED BY DEF Restrict
  <2> HIDE DEF again, kept
  <2> QED BY <1>5, <2>1 DEF FlowOf
<1> QED BY <1>1, <1>7, <1>8, <1>9

-----------------------------------------------------------------------------
(* Sums over snapshots. *)

\* The snapshots as read, and the empty one.
Models == {Handed[raw] : raw \in Snapshots} \cup {NoModel}

\* MapThenSumSet's recursion over the subsets of S.
Summed(r, S, h) ==
    r = [s \in SUBSET S |-> IF s = {} THEN 0
                            ELSE h[CHOOSE x \in s : TRUE] + r[s \ {CHOOSE x \in s : TRUE}]]

\* It exists, and the sum is a number.
LEMMA Sums ==
    ASSUME NEW S, IsFiniteSet(S), NEW h, \A x \in S : h[x] \in Nat
    PROVE  /\ \E r : Summed(r, S, h)
           /\ \A r : Summed(r, S, h) => r[S] \in Nat
<1> DEFINE pick(s) == CHOOSE x \in s : TRUE
           G == [x \in S |-> [v \in Nat |-> h[x] + v]]
<1>1. \A x \in S, v \in Nat : G[x][v] = h[x] + v /\ G[x][v] \in Nat
  OBVIOUS
<1>2. PICK r : Folded(r, S, 0, G) /\ \A s \in SUBSET S : r[s] \in Nat
  <2>1. \A x \in S, v \in Nat : G[x][v] \in Nat
    BY <1>1
  <2>2. 0 \in Nat
    OBVIOUS
  <2> HIDE DEF G
  <2> QED BY <2>1, <2>2, FoldExists, Zenon
<1>3. \A s \in SUBSET S : s # {} => pick(s) \in S /\ pick(s) \in s /\ s \ {pick(s)} \in SUBSET S
  OBVIOUS
<1> HIDE DEF G, pick
<1>4. Summed(r, S, h)
  <2>1. \A s \in SUBSET S : s # {} => G[pick(s)][r[s \ {pick(s)}]] = h[pick(s)] + r[s \ {pick(s)}]
    BY <1>1, <1>2, <1>3, Zenon
  <2>2. r = [s \in SUBSET S |-> IF s = {} THEN 0 ELSE G[pick(s)][r[s \ {pick(s)}]]]
    BY <1>2 DEF Folded, pick
  <2>3. r = [s \in SUBSET S |-> IF s = {} THEN 0 ELSE h[pick(s)] + r[s \ {pick(s)}]]
    BY <2>1, <2>2
  <2> QED BY <2>3 DEF Summed, pick
<1>5. ASSUME NEW q, Summed(q, S, h) PROVE q[S] \in Nat
  <2>1. q = [s \in SUBSET S |-> IF s = {} THEN 0 ELSE h[pick(s)] + q[s \ {pick(s)}]]
    BY <1>5 DEF Summed, pick
  <2>2. q[{}] \in Nat
    BY <2>1
  <2>3. \A s \in SUBSET S : s # {} => \E x \in s : q[s \ {x}] \in Nat => q[s] \in Nat
    <3> TAKE s \in SUBSET S
    <3> HAVE s # {}
    <3>1. pick(s) \in S /\ pick(s) \in s
      BY <1>3
    <3>2. q[s] = h[pick(s)] + q[s \ {pick(s)}]
      BY <2>1
    <3>3. h[pick(s)] \in Nat
      BY <3>1
    <3> QED BY <3>1, <3>2, <3>3
  <2> QED BY <2>2, <2>3, FoldIsNat
<1> QED BY <1>4, <1>5

\* The two sums of a snapshot.
CountsOf(links, S) == MapThenSumSet(LAMBDA l : links[l].count, S)
EdgesOf(buses, l, S) == MapThenSumSet(LAMBDA b : buses[b].edges[l], S)

\* The messages between two agents.
LEMMA SumOfCounts ==
    ASSUME NEW S, IsFiniteSet(S), NEW links, \A l \in S : links[l].count \in Nat
    PROVE  CountsOf(links, S) \in Nat
<1> DEFINE pick(s) == CHOOSE x \in s : TRUE
           Fold(r) == r = [s \in SUBSET S |-> IF s = {} THEN 0 ELSE links[pick(s)].count + r[s \ {pick(s)}]]
           h == [l \in S |-> links[l].count]
           iter == CHOOSE r : Fold(r)
<1>1. CountsOf(links, S) = iter[S]
  BY Zenon DEF CountsOf, MapThenSumSet, MapThenFoldSet
<1>2. \A s \in SUBSET S : s # {} => h[pick(s)] = links[pick(s)].count
  OBVIOUS
<1>3. (\E r : Summed(r, S, h)) /\ \A r : Summed(r, S, h) => r[S] \in Nat
  <2>1. \A x \in S : h[x] \in Nat
    OBVIOUS
  <2> HIDE DEF h
  <2> QED BY <2>1, Sums
<1> HIDE DEF h
<1>4. \A r : Summed(r, S, h) <=> Fold(r)
  <2> TAKE r
  <2>1. [s \in SUBSET S |-> IF s = {} THEN 0 ELSE h[pick(s)] + r[s \ {pick(s)}]]
           = [s \in SUBSET S |-> IF s = {} THEN 0 ELSE links[pick(s)].count + r[s \ {pick(s)}]]
    <3> HIDE DEF pick
    <3> QED BY <1>2
  <2> QED BY <2>1, Zenon DEF Summed
<1> HIDE DEF Fold
<1>5. Fold(iter)
  BY <1>3, <1>4, Zenon
<1> QED BY <1>1, <1>3, <1>4, <1>5

\* The messages of a link on its buses.
LEMMA SumOfEdges ==
    ASSUME NEW S, IsFiniteSet(S), NEW buses, NEW l, \A b \in S : buses[b].edges[l] \in Nat
    PROVE  EdgesOf(buses, l, S) \in Nat
<1> DEFINE pick(s) == CHOOSE x \in s : TRUE
           Fold(r) == r = [s \in SUBSET S |-> IF s = {} THEN 0 ELSE buses[pick(s)].edges[l] + r[s \ {pick(s)}]]
           h == [b \in S |-> buses[b].edges[l]]
           iter == CHOOSE r : Fold(r)
<1>1. EdgesOf(buses, l, S) = iter[S]
  BY Zenon DEF EdgesOf, MapThenSumSet, MapThenFoldSet
<1>2. \A s \in SUBSET S : s # {} => h[pick(s)] = buses[pick(s)].edges[l]
  OBVIOUS
<1>3. (\E r : Summed(r, S, h)) /\ \A r : Summed(r, S, h) => r[S] \in Nat
  <2>1. \A x \in S : h[x] \in Nat
    OBVIOUS
  <2> HIDE DEF h
  <2> QED BY <2>1, Sums
<1> HIDE DEF h
<1>4. \A r : Summed(r, S, h) <=> Fold(r)
  <2> TAKE r
  <2>1. [s \in SUBSET S |-> IF s = {} THEN 0 ELSE h[pick(s)] + r[s \ {pick(s)}]]
           = [s \in SUBSET S |-> IF s = {} THEN 0 ELSE buses[pick(s)].edges[l] + r[s \ {pick(s)}]]
    <3> HIDE DEF pick
    <3> QED BY <1>2
  <2> QED BY <2>1, Zenon DEF Summed
<1> HIDE DEF Fold
<1>5. Fold(iter)
  BY <1>3, <1>4, Zenon
<1> QED BY <1>1, <1>3, <1>4, <1>5

-----------------------------------------------------------------------------
(* Snapshots as read. *)

\* What a snapshot, once read, looks like.
Read(m) ==
    /\ DOMAIN m.agents \subseteq Agent
    /\ m.graph.ids = DOMAIN m.agents
    /\ Weighed(m.graph)
    /\ \A p : p \in DOMAIN m.graph.count <=> \E l \in DOMAIN m.links : l[1] # l[2] /\ {l[1], l[2]} = p

\* weightedGraph makes an undirected graph of the links between two agents.
LEMMA GraphOf ==
    ASSUME NEW ids, IsFiniteSet(ids), ids \subseteq Nat \ {NoOne},
           NEW links, IsFiniteSet(DOMAIN links), \A l \in DOMAIN links : links[l].count \in Nat
    PROVE  LET g == weightedGraph(ids, links)
           IN  /\ g.ids = ids /\ Weighed(g)
               /\ \A p : p \in DOMAIN g.count <=> \E l \in DOMAIN links : l[1] # l[2] /\ {l[1], l[2]} = p
<1> DEFINE pairs == {{l[1], l[2]} : l \in {k \in DOMAIN links : k[1] # k[2]}}
           of(p) == {l \in DOMAIN links : {l[1], l[2]} = p}
           g == weightedGraph(ids, links)
<1>1. g.ids = ids /\ g.count = [p \in pairs |-> CountsOf(links, of(p))]
  BY Zenon DEF weightedGraph, CountsOf
<1>2. \A p : CountsOf(links, of(p)) \in Nat
  <2> TAKE p
  <2>1. IsFiniteSet(of(p)) /\ \A l \in of(p) : links[l].count \in Nat
    BY FS_Subset
  <2> HIDE DEF of
  <2> QED BY <2>1, SumOfCounts
<1> HIDE DEF of, g
<1>3. DOMAIN g.count = pairs /\ \A p \in pairs : g.count[p] \in Nat
  BY <1>1, <1>2
<1>4. Weighed(g)
  BY <1>1, <1>3 DEF Weighed
<1> QED BY <1>1, <1>3, <1>4 DEF g

\* Reading a snapshot yields such a model.
LEMMA SnapshotIsRead ==
    ASSUME NEW raw \in Snapshots
    PROVE  Read(snapshotModel(raw))
<1> DEFINE counted(b) == {l \in DOMAIN raw.buses[b].edges :
                          /\ {l[1], l[2]} \subseteq DOMAIN raw.agents \cap raw.buses[b].members
                          /\ raw.buses[b].edges[l] > 0}
           buses(l) == {b \in DOMAIN raw.buses : l \in counted(b)}
           sum(l) == EdgesOf(raw.buses, l, buses(l))
           all == UNION {counted(b) : b \in DOMAIN raw.buses}
           links == [l \in all |-> [count |-> sum(l), buses |-> buses(l)]]
           m == snapshotModel(raw)
<1>1. /\ m.agents = raw.agents /\ m.links = links
      /\ m.graph = weightedGraph(DOMAIN raw.agents, links)
  BY Zenon DEF snapshotModel, EdgesOf
<1>2. /\ IsFiniteSet(DOMAIN raw.agents) /\ DOMAIN raw.agents \subseteq Agent
      /\ IsFiniteSet(DOMAIN raw.buses)
      /\ \A b \in DOMAIN raw.buses :
            /\ IsFiniteSet(DOMAIN raw.buses[b].edges)
            /\ \A l \in DOMAIN raw.buses[b].edges : raw.buses[b].edges[l] \in Nat
  BY SnapshotAssumption
<1>3. \A l : sum(l) \in Nat
  <2> TAKE l
  <2>1. buses(l) \subseteq DOMAIN raw.buses
    OBVIOUS
  <2>2. \A b \in buses(l) : raw.buses[b].edges[l] \in Nat
    BY <1>2
  <2>3. IsFiniteSet(buses(l))
    BY <1>2, <2>1, FS_Subset
  <2> HIDE DEF buses
  <2> QED BY <2>2, <2>3, SumOfEdges
<1>4. IsFiniteSet(all)
  <2>1. \A b \in DOMAIN raw.buses : counted(b) \subseteq DOMAIN raw.buses[b].edges
    OBVIOUS
  <2>2. \A b \in DOMAIN raw.buses : IsFiniteSet(counted(b))
    BY <1>2, <2>1, FS_Subset
  <2> HIDE DEF counted
  <2>3. IsFiniteSet({counted(b) : b \in DOMAIN raw.buses})
    <3> DEFINE D == DOMAIN raw.buses
               parts == {counted(b) : b \in D}
               f == [b \in D |-> counted(b)]
    <3>1. IsFiniteSet(D)
      BY <1>2
    <3>2. f \in Surjection(D, parts)
      <4> HIDE DEF D
      <4> QED BY DEF Surjection
    <3> HIDE DEF D, f, parts
    <3>3. IsFiniteSet(parts)
      BY <3>1, <3>2, FS_Surjection
    <3> QED BY <3>3 DEF D, parts
  <2> QED BY <2>2, <2>3, FS_UNION
<1> HIDE DEF sum, all
<1>5. DOMAIN links = all /\ \A l \in all : links[l].count \in Nat
  BY <1>3
<1> HIDE DEF links, m
<1>6. DOMAIN raw.agents \subseteq Nat \ {NoOne}
  BY <1>2, ViewAssumption
<1>7. /\ m.graph.ids = DOMAIN raw.agents /\ Weighed(m.graph)
      /\ \A p : p \in DOMAIN m.graph.count <=> \E l \in DOMAIN links : l[1] # l[2] /\ {l[1], l[2]} = p
  BY <1>1, <1>2, <1>4, <1>5, <1>6, GraphOf
<1> QED BY <1>1, <1>2, <1>7 DEF Read, m

\* So does every model the component is given.
LEMMA ModelIsRead ==
    ASSUME NEW m \in Models
    PROVE  Read(m)
<1>1. CASE m \in {Handed[raw] : raw \in Snapshots}
  BY <1>1, SnapshotIsRead DEF Handed
<1>2. CASE m = NoModel
  <2>1. NoModel.agents = Empty /\ NoModel.links = Empty /\ NoModel.graph = weightedGraph({}, Empty)
    BY DEF NoModel
  <2>2. DOMAIN Empty = {}
    BY DEF Empty
  <2>3. IsFiniteSet({})
    BY FS_EmptySet
  <2>4. LET g == weightedGraph({}, Empty)
        IN  /\ g.ids = {} /\ Weighed(g)
            /\ \A p : p \in DOMAIN g.count <=> \E l \in DOMAIN Empty : l[1] # l[2] /\ {l[1], l[2]} = p
    <3>1. IsFiniteSet(DOMAIN Empty) /\ (\A l \in DOMAIN Empty : Empty[l].count \in Nat) /\ {} \subseteq Nat \ {NoOne}
      BY <2>2, <2>3
    <3> QED BY <2>3, <3>1, GraphOf
  <2> QED BY <1>2, <2>1, <2>2, <2>4 DEF Read
<1> QED BY <1>1, <1>2 DEF Models

(* A refresh that canDeferRefresh allows to wait withdraws no agent, device, *)
(* link or neighbour of what is drawn (model.mjs:98-107).                   *)
THEOREM NeighborsStay ==
    ASSUME NEW m \in Models, NEW n \in Models, canDeferRefresh(m, n)
    PROVE  /\ DOMAIN m.agents \subseteq DOMAIN n.agents
           /\ \A a \in DOMAIN m.agents : n.agents[a].device = m.agents[a].device
           /\ DOMAIN m.links \subseteq DOMAIN n.links
           /\ \A a : neighborsFor(m.graph, a) \subseteq neighborsFor(n.graph, a)
<1>1. Read(m) /\ Read(n)
  BY ModelIsRead
<1>2. /\ DOMAIN m.agents \subseteq DOMAIN n.agents
      /\ \A a \in DOMAIN m.agents : n.agents[a].device = m.agents[a].device
      /\ DOMAIN m.links \subseteq DOMAIN n.links
  BY DEF canDeferRefresh
<1>3. DOMAIN m.graph.count \subseteq DOMAIN n.graph.count
  BY <1>1, <1>2 DEF Read
<1> QED BY <1>1, <1>2, <1>3 DEF Read, neighborsFor

Graphs == {Handed[raw].graph : raw \in Snapshots} \cup {NoModel.graph}

\* The table of hierarchies holds what inferFlow returns.
LEMMA FlowIsInferred ==
    ASSUME NEW asked, asked.graph \in Graphs, asked.root \in Agent \cup {NoOne},
           asked.overrides \in ParentChoices(Agent)
    PROVE  FlowFor(asked) = inferFlow(asked.graph, asked.root, asked.overrides)
BY DEF FlowFor, Hierarchy, Graphs

\* Every graph an inference is asked about is of this kind.
LEMMA GraphsAreOfModels ==
    /\ \A m \in Models : m.graph \in Graphs
    /\ \A g \in Graphs : Weighed(g) /\ g.ids \subseteq Agent
<1>1. \A m \in Models : m.graph \in Graphs
  BY DEF Models, Graphs
<1>2. ASSUME NEW g \in Graphs PROVE Weighed(g) /\ g.ids \subseteq Agent
  <2>1. PICK m \in Models : g = m.graph
    BY DEF Models, Graphs
  <2> QED BY <2>1, ModelIsRead DEF Read
<1> QED BY <1>1, <1>2

-----------------------------------------------------------------------------
(* The component's state. *)

\* The fields of the component's state, and a step that changes only some of
\* them.
StateFields ==
    {"model", "scope", "analysis", "flow", "stale", "base", "nodes", "selected", "focused",
     "communities", "mode", "pinned", "conductor", "home", "root", "overrides", "collapsed",
     "aggregates", "dragging", "pending", "generation", "flowPending", "interrupted"}

Shaped(s) == DOMAIN s = StateFields
SameBut(s, t, changed) == Shaped(t) /\ \A f \in StateFields \ changed : t[f] = s[f]

\* The parts of the invariant. A card, and the home of the conductor, is where
\* a layout or the person put it under this scope.
Ids(s) == DOMAIN s.model.agents
Card(scope, r) == DOMAIN r = {"group", "pos"} /\ r.pos \in {Automatic, <<scope, r.group>>}
\* Preferences name visible agents.
Prefs(s) ==
    /\ s.pinned \subseteq Ids(s)
    /\ s.conductor \in Ids(s) \cup {NoOne} /\ s.root \in Ids(s) \cup {NoOne}
    /\ s.overrides \in ParentChoices(Ids(s))
\* So do communities, collapsed or not.
Groups(s) ==
    /\ UNION s.analysis.groups \subseteq Ids(s) /\ UNION s.collapsed \subseteq Ids(s)
    /\ UNION DOMAIN s.aggregates \subseteq Ids(s) /\ s.focused \subseteq Ids(s)
\* A card has the device of its agent.
Cards(s) ==
    /\ DOMAIN s.base \subseteq Ids(s)
    /\ \A a \in DOMAIN s.base : s.base[a].group = s.model.agents[a].device /\ Card(s.scope, s.base[a])
Homed(s) == s.home # None => Card(s.scope, s.home)
\* A change of traffic that the groups do not show is announced.
Announced(s) == s.stale = (s.analysis.sig # s.model.graph)
\* The hierarchy is a forest over the graph, and honours the choices.
Forest(s) == IsForest(s.model.graph, s.flow)
Honoured(s) == \A a \in DOMAIN s.overrides : a \in DOMAIN s.flow.parent /\ s.flow.parent[a] = s.overrides[a]
\* What is drawn has a card, a community or a link behind it.
Shown(s) ==
    /\ DOMAIN s.nodes = {"agents", "groups", "edges"}
    /\ \A a \in DOMAIN s.nodes.agents :
          a \in DOMAIN s.base /\ s.nodes.agents[a] \in {Automatic, <<s.scope, s.base[a].group>>}
    /\ UNION DOMAIN s.nodes.groups \subseteq Ids(s)
    /\ \A e \in s.nodes.edges : \E l \in DOMAIN s.model.links : l[1] \in e[1].of /\ l[2] \in e[2].of
Picked(s) == s.selected.of \subseteq Ids(s)

\* Their conjunctions: what belongs to the person, what all handlers keep, and
\* the whole.
Owned(s) == Shaped(s) /\ s.model \in Models /\ s.generation \in Nat /\ Prefs(s) /\ Homed(s)
Core(s) == Owned(s) /\ Groups(s) /\ Cards(s) /\ Announced(s)
View(s) == Core(s) /\ Forest(s) /\ Honoured(s) /\ Shown(s) /\ Picked(s)

\* The drawing, the hierarchy and the jobs do not matter to Core.
LEMMA CoreKept ==
    ASSUME NEW s, NEW t, Core(s), t.generation \in Nat,
           SameBut(s, t, {"flow", "nodes", "selected", "communities", "mode", "dragging", "pending",
                          "generation", "flowPending", "interrupted"})
    PROVE  Core(t)
<1>1. /\ Shaped(t) /\ t.model = s.model /\ t.scope = s.scope /\ t.analysis = s.analysis /\ t.stale = s.stale
      /\ t.base = s.base /\ t.pinned = s.pinned /\ t.conductor = s.conductor /\ t.home = s.home
      /\ t.root = s.root /\ t.overrides = s.overrides /\ t.collapsed = s.collapsed
      /\ t.aggregates = s.aggregates /\ t.focused = s.focused
  BY DEF SameBut, StateFields
<1> QED BY <1>1 DEF Owned, Core, Prefs, Groups, Cards, Homed, Announced, Ids

\* present redraws and drops a selection that is no longer drawn.
LEMMA PresentFrame ==
    ASSUME NEW s, Shaped(s)
    PROVE  /\ SameBut(s, present(s), {"nodes", "selected"})
           /\ present(s).nodes = graphPresentation(s)
           /\ present(s).selected \in Drawn(present(s)) \cup {NoNode}
BY DEF Shaped, SameBut, StateFields, present, Reselect, Drawn

\* capturePositions takes positions over from the drawing.
LEMMA CaptureFrame ==
    ASSUME NEW s, Shaped(s)
    PROVE  /\ SameBut(s, capturePositions(s), {"base", "aggregates"})
           /\ capturePositions(s).base = [a \in DOMAIN s.base |->
                           IF a \in DOMAIN s.nodes.agents
                           THEN [s.base[a] EXCEPT !.pos = s.nodes.agents[a]] ELSE s.base[a]]
           /\ capturePositions(s).aggregates = Updated(s.aggregates, s.nodes.groups)
BY DEF Shaped, SameBut, StateFields, capturePositions

\* An edge of the drawing comes from a link between the two ends.
LEMMA DestinationHolds ==
    ASSUME NEW a, NEW groups, NEW hidden, hidden \subseteq UNION groups
    PROVE  a \in Destination(a, groups, hidden).of
<1>1. CASE a \in hidden
  <2>1. \E c \in groups : a \in c
    BY <1>1
  <2>2. a \in (CHOOSE c \in groups : a \in c)
    BY <2>1, Zenon
  <2> QED BY <1>1, <2>2 DEF Destination, GroupNode
<1>2. CASE a \notin hidden
  BY <1>2 DEF Destination, AgentNode
<1> QED BY <1>1, <1>2

\* Each part of the drawing comes from the state.
LEMMA PresentationHolds ==
    ASSUME NEW s, Core(s)
    PROVE  LET v == graphPresentation(s)
           IN  /\ DOMAIN v = {"agents", "groups", "edges"}
               /\ \A a \in DOMAIN v.agents : a \in DOMAIN s.base /\ v.agents[a] = s.base[a].pos
               /\ DOMAIN v.groups \subseteq s.analysis.groups
               /\ \A e \in v.edges : \E l \in DOMAIN s.model.links : l[1] \in e[1].of /\ l[2] \in e[2].of
<1> DEFINE root == placementRoot(s)
           groups == collapsedGroups(s)
           hidden == (UNION groups) \ {root}
           v == graphPresentation(s)
<1>1. groups \subseteq s.analysis.groups
  BY DEF collapsedGroups
<1> HIDE DEF root, groups
<1>2. hidden \subseteq UNION groups
  OBVIOUS
<1> HIDE DEF hidden
<1>3. v = Presentation(s, root, groups, hidden)
  BY DEF graphPresentation, ShowGroups, root, groups, hidden
<1> HIDE DEF v
<1>4. /\ DOMAIN v = {"agents", "groups", "edges"}
      /\ \A a \in DOMAIN v.agents : a \in DOMAIN s.base /\ v.agents[a] = s.base[a].pos
      /\ DOMAIN v.groups \subseteq groups
  BY <1>3 DEF Presentation
<1>5. ASSUME NEW e \in v.edges
      PROVE  \E l \in DOMAIN s.model.links : l[1] \in e[1].of /\ l[2] \in e[2].of
  <2>1. PICK l \in DOMAIN s.model.links : e = <<Destination(l[1], groups, hidden), Destination(l[2], groups, hidden)>>
    BY <1>3 DEF Presentation
  <2>2. e[1] = Destination(l[1], groups, hidden) /\ e[2] = Destination(l[2], groups, hidden)
    BY <2>1
  <2> QED BY <1>2, <2>2, DestinationHolds
<1> QED BY <1>1, <1>4, <1>5 DEF v

\* Redrawing restores the rest of the invariant.
LEMMA PresentHolds ==
    ASSUME NEW s, Core(s)
    PROVE  Core(present(s)) /\ Shown(present(s)) /\ Picked(present(s))
<1> DEFINE t == present(s)
<1>1. /\ SameBut(s, t, {"nodes", "selected"}) /\ t.nodes = graphPresentation(s)
      /\ t.selected \in Drawn(t) \cup {NoNode}
  BY PresentFrame DEF Owned, Core
<1> HIDE DEF t
<1>2. /\ t.model = s.model /\ t.scope = s.scope /\ t.base = s.base /\ t.analysis = s.analysis
      /\ t.generation = s.generation
  BY <1>1 DEF SameBut, StateFields
<1>3. Core(t)
  BY <1>1, <1>2, CoreKept DEF Owned, Core, SameBut
<1>4. Shown(t)
  <2>1. \A a \in DOMAIN s.base : s.base[a].pos \in {Automatic, <<s.scope, s.base[a].group>>}
    BY DEF Owned, Core, Cards, Card
  <2>2. \A c \in s.analysis.groups : c \subseteq Ids(s)
    BY DEF Owned, Core, Groups
  <2> DEFINE v == graphPresentation(s)
  <2>3. /\ DOMAIN v = {"agents", "groups", "edges"}
        /\ \A a \in DOMAIN v.agents : a \in DOMAIN s.base /\ v.agents[a] = s.base[a].pos
        /\ DOMAIN v.groups \subseteq s.analysis.groups
        /\ \A e \in v.edges : \E l \in DOMAIN s.model.links : l[1] \in e[1].of /\ l[2] \in e[2].of
    BY PresentationHolds
  <2> HIDE DEF v
  <2>4. t.nodes = v
    BY <1>1 DEF v
  <2>5. UNION DOMAIN v.groups \subseteq Ids(t)
    BY <1>2, <2>2, <2>3 DEF Ids
  <2> QED BY <1>2, <2>1, <2>3, <2>4, <2>5 DEF Shown
<1>5. Picked(t)
  <2>1. \A a \in DOMAIN t.nodes.agents : a \in Ids(t)
    BY <1>3, <1>4 DEF Shown, Owned, Core, Cards
  <2>2. \A n \in Drawn(t) : n.of \subseteq Ids(t)
    BY <1>4, <2>1 DEF Drawn, Shown, AgentNode, GroupNode
  <2> QED BY <1>1, <2>2 DEF Picked, NoNode
<1> QED BY <1>3, <1>4, <1>5 DEF t

\* Taking positions over keeps it.
LEMMA CaptureHolds ==
    ASSUME NEW s, Core(s), Shown(s)
    PROVE  Core(capturePositions(s)) /\ Shown(capturePositions(s))
<1> DEFINE t == capturePositions(s)
<1>1. /\ SameBut(s, t, {"base", "aggregates"})
      /\ t.base = [a \in DOMAIN s.base |->
                           IF a \in DOMAIN s.nodes.agents
                           THEN [s.base[a] EXCEPT !.pos = s.nodes.agents[a]] ELSE s.base[a]]
      /\ t.aggregates = Updated(s.aggregates, s.nodes.groups)
  BY CaptureFrame DEF Owned, Core
<1> HIDE DEF t
<1>2. /\ t.model = s.model /\ t.scope = s.scope /\ t.analysis = s.analysis /\ t.stale = s.stale
      /\ t.pinned = s.pinned /\ t.conductor = s.conductor /\ t.home = s.home
      /\ t.root = s.root /\ t.overrides = s.overrides /\ t.collapsed = s.collapsed
      /\ t.focused = s.focused /\ t.generation = s.generation /\ t.nodes = s.nodes /\ Shaped(t)
  BY <1>1 DEF SameBut, StateFields
<1>3. /\ DOMAIN t.base = DOMAIN s.base
      /\ \A a \in DOMAIN s.base : t.base[a].group = s.base[a].group /\ Card(s.scope, t.base[a])
  <2>1. DOMAIN t.base = DOMAIN s.base
    BY <1>1
  <2>2. ASSUME NEW a \in DOMAIN s.base
        PROVE  t.base[a].group = s.base[a].group /\ Card(s.scope, t.base[a])
    <3>1. Card(s.scope, s.base[a])
      BY DEF Owned, Core, Cards
    <3>2. CASE a \in DOMAIN s.nodes.agents
      <4>1. t.base[a] = [s.base[a] EXCEPT !.pos = s.nodes.agents[a]]
        BY <1>1, <3>2
      <4>2. s.nodes.agents[a] \in {Automatic, <<s.scope, s.base[a].group>>}
        BY <3>2 DEF Shown
      <4> QED BY <3>1, <4>1, <4>2 DEF Card
    <3>3. CASE a \notin DOMAIN s.nodes.agents
      BY <1>1, <3>1, <3>3
    <3> QED BY <3>2, <3>3
  <2> QED BY <2>1, <2>2
<1>4. Cards(t)
  BY <1>2, <1>3 DEF Cards, Owned, Core, Ids
<1>5. Groups(t)
  <2>1. DOMAIN t.aggregates = DOMAIN s.nodes.groups \cup DOMAIN s.aggregates
    BY <1>1 DEF Updated
  <2>2. UNION DOMAIN t.aggregates \subseteq Ids(s)
    BY <2>1 DEF Owned, Core, Groups, Shown
  <2> QED BY <1>2, <2>2 DEF Owned, Core, Groups, Ids
<1>6. Core(t)
  BY <1>2, <1>4, <1>5 DEF Owned, Core, Prefs, Homed, Announced, Ids
<1>7. Shown(t)
  BY <1>2, <1>3 DEF Shown, Ids
<1> QED BY <1>6, <1>7 DEF t

-----------------------------------------------------------------------------
(* What the parts of a handler keep. *)

\* Membership in ParentChoices.
LEMMA ChoicesAreFunctions ==
    ASSUME NEW X, NEW f
    PROVE  f \in ParentChoices(X) <=>
              f = [a \in DOMAIN f |-> f[a]] /\ DOMAIN f \subseteq X /\ \A a \in DOMAIN f : f[a] \in X
<1>1. ASSUME f \in ParentChoices(X)
      PROVE  f = [a \in DOMAIN f |-> f[a]] /\ DOMAIN f \subseteq X /\ \A a \in DOMAIN f : f[a] \in X
  <2>1. PICK S \in SUBSET X : f \in [S -> X]
    BY <1>1 DEF ParentChoices
  <2> QED BY <2>1
<1>2. ASSUME f = [a \in DOMAIN f |-> f[a]], DOMAIN f \subseteq X, \A a \in DOMAIN f : f[a] \in X
      PROVE  f \in ParentChoices(X)
  <2>1. f \in [DOMAIN f -> X]
    BY <1>2
  <2> QED BY <1>2, <2>1 DEF ParentChoices
<1> QED BY <1>1, <1>2

\* Communities are made of the model's agents.
LEMMA CommunitiesAreOfAgents ==
    ASSUME NEW m \in Models
    PROVE  UNION makeCommunities(m.graph) \subseteq DOMAIN m.agents
<1>1. Read(m)
  BY ModelIsRead
<1>2. UNION componentsOf(m.graph, m.graph.ids) = m.graph.ids
  <2>1. IsFiniteSet(m.graph.ids) /\ m.graph.ids \subseteq m.graph.ids
    BY <1>1 DEF Read, Weighed
  <2> QED BY <2>1, Components
<1> QED BY <1>1, <1>2 DEF makeCommunities, Read

\* A new analysis fits the model, and prunes what refers to the last.
LEMMA RecomputeHolds ==
    ASSUME NEW s, Shaped(s), s.model \in Models
    PROVE  LET t == Recomputed(s, TRUE)
           IN  /\ SameBut(s, t, {"analysis", "stale", "collapsed", "aggregates", "focused"})
               /\ Groups(t) /\ Announced(t)
<1> DEFINE t == Recomputed(s, TRUE)
           groups == makeCommunities(s.model.graph)
<1>1. /\ SameBut(s, t, {"analysis", "stale", "collapsed", "aggregates", "focused"})
      /\ t.analysis = [sig |-> s.model.graph, groups |-> groups] /\ t.stale = FALSE
      /\ t.collapsed = s.collapsed \cap groups
      /\ t.aggregates = Restrict(s.aggregates, DOMAIN s.aggregates \cap groups)
      /\ t.focused = IF s.focused \in groups THEN s.focused ELSE {}
  <2> DEFINE analysis == [sig |-> s.model.graph, groups |-> groups]
             u == [s EXCEPT !.analysis = analysis, !.stale = FALSE]
  <2>1. analyzeGraph(s.model) = analysis
    BY DEF analyzeGraph, graphSignature
  <2>2. t = pruneGroups(u)
    BY <2>1 DEF Recomputed
  <2>3. analysis.groups = groups
    OBVIOUS
  <2> HIDE DEF groups, analysis, t
  <2>4. SameBut(s, u, {"analysis", "stale"}) /\ u.analysis = analysis /\ u.stale = FALSE
    BY DEF Shaped, SameBut, StateFields
  <2> HIDE DEF u
  <2>5. /\ SameBut(u, t, {"collapsed", "aggregates", "focused"})
        /\ t.collapsed = u.collapsed \cap groups
        /\ t.aggregates = Restrict(u.aggregates, DOMAIN u.aggregates \cap groups)
        /\ t.focused = IF u.focused \in groups THEN u.focused ELSE {}
    BY <2>2, <2>3, <2>4 DEF Shaped, SameBut, StateFields, pruneGroups
  <2>6. /\ u.collapsed = s.collapsed /\ u.aggregates = s.aggregates /\ u.focused = s.focused
        /\ t.analysis = u.analysis /\ t.stale = u.stale
    BY <2>4, <2>5 DEF SameBut, StateFields
  <2>7. SameBut(s, t, {"analysis", "stale", "collapsed", "aggregates", "focused"})
    BY <2>4, <2>5 DEF SameBut, StateFields
  <2> QED BY <2>4, <2>5, <2>6, <2>7 DEF analysis
<1>2. UNION groups \subseteq Ids(s)
  BY CommunitiesAreOfAgents DEF Ids
<1> HIDE DEF t, groups
<1>3. t.model = s.model
  BY <1>1 DEF SameBut, StateFields
<1>4. Groups(t)
  <2>1. DOMAIN t.aggregates \subseteq groups
    BY <1>1 DEF Restrict
  <2>2. \A X \in SUBSET groups : UNION X \subseteq Ids(s)
    BY <1>2
  <2>3. t.analysis.groups = groups /\ t.collapsed \subseteq groups /\ t.focused \in groups \cup {{}}
    BY <1>1
  <2>4. t.focused \subseteq Ids(s)
    BY <1>2, <2>3
  <2>5. Ids(t) = Ids(s)
    BY <1>3 DEF Ids
  <2> QED BY <2>1, <2>2, <2>3, <2>4, <2>5 DEF Groups
<1>5. Announced(t)
  <2>1. t.analysis.sig = t.model.graph
    BY <1>1, <1>3
  <2> QED BY <1>1, <2>1 DEF Announced
<1> QED BY <1>1, <1>4, <1>5 DEF t

\* Cards that a layout may start from.
Tagged(scope, previous) == \A a \in DOMAIN previous : Card(scope, previous[a])

\* layoutNodes keeps a position for the same device only.
LEMMA LaidOut ==
    ASSUME NEW m, NEW scope, NEW previous, Tagged(scope, previous)
    PROVE  LET base == layoutNodes(m, previous)
           IN  /\ DOMAIN base = DOMAIN m.agents
               /\ \A a \in DOMAIN base : base[a].group = m.agents[a].device /\ Card(scope, base[a])
<1> DEFINE base == layoutNodes(m, previous)
<1>1. DOMAIN base = DOMAIN m.agents
  BY DEF layoutNodes
<1>2. ASSUME NEW a \in DOMAIN m.agents
      PROVE  base[a].group = m.agents[a].device /\ Card(scope, base[a])
  <2>1. base[a] = [group |-> m.agents[a].device,
                   pos |-> IF a \in DOMAIN previous /\ previous[a].group = m.agents[a].device
                           THEN previous[a].pos ELSE Automatic]
    BY DEF layoutNodes
  <2> QED BY <2>1 DEF Card, Tagged
<1> QED BY <1>1, <1>2

\* The same, for place.
LEMMA PlaceHolds ==
    ASSUME NEW s, Shaped(s), NEW previous, Tagged(s.scope, previous)
    PROVE  SameBut(s, place(s, previous), {"base"}) /\ Cards(place(s, previous))
<1> DEFINE t == place(s, previous)
<1>1. SameBut(s, t, {"base"}) /\ t.base = layoutNodes(s.model, previous)
  BY DEF Shaped, SameBut, StateFields, place
<1> HIDE DEF t
<1>2. t.model = s.model /\ t.scope = s.scope
  BY <1>1 DEF SameBut, StateFields
<1>3. Cards(t)
  BY <1>1, <1>2, LaidOut DEF Cards, Ids
<1> QED BY <1>1, <1>3 DEF t

\* The cards shown, those pinned and none at all are such cards.
LEMMA CardsAreTagged ==
    ASSUME NEW s, Cards(s)
    PROVE  Tagged(s.scope, s.base) /\ Tagged(s.scope, Pinned(s)) /\ Tagged(s.scope, Empty)
<1>1. Tagged(s.scope, s.base)
  BY DEF Cards, Tagged
<1>2. DOMAIN Pinned(s) \subseteq DOMAIN s.base /\ \A a \in DOMAIN Pinned(s) : Pinned(s)[a] = s.base[a]
  BY DEF Pinned, Restrict
<1>3. DOMAIN Empty = {}
  BY DEF Empty
<1> QED BY <1>1, <1>2, <1>3 DEF Tagged

\* A hierarchy inferred for the graph that is shown.
Asks(s, asked) ==
    /\ Shaped(s) /\ s.model \in Models /\ asked.graph = s.model.graph
    /\ asked.root \in Agent \cup {NoOne} /\ asked.overrides \in ParentChoices(Agent)
Answered(s, t, asked) ==
    /\ SameBut(s, t, {"flow", "overrides"})
    /\ Forest(t) /\ Honoured(t) /\ t.overrides \in ParentChoices(Ids(s))
    /\ DOMAIN t.overrides \subseteq DOMAIN asked.overrides
    /\ \A a \in DOMAIN t.overrides : t.overrides[a] = asked.overrides[a]
    /\ t.flow = FlowFor([graph |-> s.model.graph, root |-> asked.root, overrides |-> t.overrides])

\* An inferred hierarchy is a forest over the graph, and honours the choices
\* it accepts.
LEMMA WithFlowHolds ==
    ASSUME NEW s, NEW asked, Asks(s, asked)
    PROVE  Answered(s, WithFlow(s, FlowFor(asked)), asked)
<1> DEFINE g == s.model.graph
           flow == inferFlow(g, asked.root, asked.overrides)
           t == WithFlow(s, FlowFor(asked))
<1>0. /\ Shaped(s) /\ s.model \in Models /\ asked.graph = g
      /\ asked.root \in Agent \cup {NoOne} /\ asked.overrides \in ParentChoices(Agent)
  BY DEF Asks
<1>1. g \in Graphs /\ Weighed(g) /\ Read(s.model)
  BY <1>0, GraphsAreOfModels, ModelIsRead
<1>2. FlowFor(asked) = flow
  BY <1>0, <1>1, FlowIsInferred
<1>3. IsForest(g, flow) /\ HonoursChoices(g, flow, asked.overrides)
  BY <1>1, FlowIsForest
<1>4. inferFlow(g, asked.root, flow.accepted) = flow
  BY <1>1, FlowAgain
<1> HIDE DEF flow
<1>5. SameBut(s, t, {"flow", "overrides"}) /\ t.flow = flow /\ t.overrides = flow.accepted
  BY <1>0, <1>2 DEF Shaped, SameBut, StateFields, WithFlow
<1> HIDE DEF t
<1>6. t.model = s.model
  BY <1>5 DEF SameBut, StateFields
<1>7. Forest(t) /\ Honoured(t)
  BY <1>3, <1>5, <1>6 DEF Forest, Honoured, HonoursChoices
<1>8. /\ DOMAIN t.overrides \subseteq DOMAIN asked.overrides
      /\ \A a \in DOMAIN t.overrides : t.overrides[a] = asked.overrides[a]
  BY <1>3, <1>5 DEF HonoursChoices
<1>9. t.overrides \in ParentChoices(Ids(s))
  <2>1. t.overrides = [a \in DOMAIN t.overrides |-> t.overrides[a]]
    BY <1>3, <1>5 DEF HonoursChoices
  <2>2. \A a \in DOMAIN t.overrides : a \in g.ids /\ t.overrides[a] \in g.ids
    BY <1>3, <1>5, <1>7 DEF IsForest, HonoursChoices, neighborsFor
  <2>3. g.ids = Ids(s)
    BY <1>1 DEF Read, Ids
  <2> QED BY <2>1, <2>2, <2>3, ChoicesAreFunctions
<1>10. t.flow = FlowFor([graph |-> g, root |-> asked.root, overrides |-> t.overrides])
  <2> DEFINE again == [graph |-> g, root |-> asked.root, overrides |-> t.overrides]
  <2>1. t.overrides \in ParentChoices(Agent)
    <3>1. Ids(s) \subseteq Agent
      BY <1>1 DEF Read, Ids
    <3> QED BY <1>9, <3>1, ChoicesAreFunctions
  <2>2. again.graph = g /\ again.root = asked.root /\ again.overrides = t.overrides
    OBVIOUS
  <2> HIDE DEF again
  <2>3. FlowFor(again) = inferFlow(g, asked.root, t.overrides)
    BY <1>0, <1>1, <2>1, <2>2, FlowIsInferred
  <2> QED BY <1>4, <1>5, <2>3 DEF again
<1> QED BY <1>5, <1>7, <1>8, <1>9, <1>10 DEF t, Answered

\* The state can always ask for one.
LEMMA OwnedIsAskable ==
    ASSUME NEW s, Owned(s)
    PROVE  /\ Asked(s).graph = s.model.graph /\ Asked(s).graph \in Graphs
           /\ Asked(s).root = s.root /\ Asked(s).root \in Agent \cup {NoOne}
           /\ Asked(s).overrides = s.overrides /\ Asked(s).overrides \in ParentChoices(Agent)
<1>1. /\ Asked(s).graph = s.model.graph /\ Asked(s).root = s.root /\ Asked(s).overrides = s.overrides
  BY DEF Asked
<1>2. Ids(s) \subseteq Agent /\ s.model.graph \in Graphs
  BY ModelIsRead, GraphsAreOfModels DEF Owned, Read, Ids
<1>3. s.overrides \in ParentChoices(Agent)
  BY <1>2, ChoicesAreFunctions DEF Owned, Prefs
<1> QED BY <1>1, <1>2, <1>3 DEF Owned, Prefs

\* The same, for inferCurrentFlow.
LEMMA InferHolds ==
    ASSUME NEW s, Owned(s)
    PROVE  LET t == inferCurrentFlow(s)
           IN  /\ SameBut(s, t, {"flow", "overrides"})
               /\ Owned(t) /\ Forest(t) /\ Honoured(t)
               /\ DOMAIN t.overrides \subseteq DOMAIN s.overrides
               /\ \A a \in DOMAIN t.overrides : t.overrides[a] = s.overrides[a]
<1> DEFINE t == inferCurrentFlow(s)
<1>1. t = WithFlow(s, FlowFor(Asked(s)))
  BY DEF inferCurrentFlow, FlowNow
<1>2. /\ SameBut(s, t, {"flow", "overrides"})
      /\ Forest(t) /\ Honoured(t) /\ t.overrides \in ParentChoices(Ids(s))
      /\ DOMAIN t.overrides \subseteq DOMAIN s.overrides
      /\ \A a \in DOMAIN t.overrides : t.overrides[a] = s.overrides[a]
  <2>1. Asks(s, Asked(s)) /\ Asked(s).overrides = s.overrides
    BY OwnedIsAskable DEF Asks, Owned
  <2>2. Answered(s, t, Asked(s))
    BY <1>1, <2>1, WithFlowHolds
  <2> HIDE DEF t
  <2> QED BY <2>1, <2>2 DEF Answered
<1> HIDE DEF t
<1>3. Owned(t)
  <2>1. /\ Shaped(t) /\ t.model = s.model /\ t.scope = s.scope /\ t.generation = s.generation
        /\ t.pinned = s.pinned /\ t.conductor = s.conductor /\ t.root = s.root /\ t.home = s.home
    BY <1>2 DEF SameBut, StateFields
  <2> QED BY <1>2, <2>1 DEF Owned, Prefs, Homed, Ids
<1> QED BY <1>2, <1>3 DEF t

\* The conductor's card goes home only under its own device.
LEMMA HomeHolds ==
    ASSUME NEW s, Cards(s), Homed(s)
    PROVE  LET base == Home(s, s.base)
           IN  /\ DOMAIN base = DOMAIN s.base
               /\ \A a \in DOMAIN base : base[a].group = s.base[a].group /\ Card(s.scope, base[a])
<1> DEFINE c == s.conductor
           base == Home(s, s.base)
<1>1. CASE s.home # None /\ c \notin s.pinned /\ c \in DOMAIN s.base /\ s.base[c].group = s.home.group
  <2>1. base = [s.base EXCEPT ![c].pos = s.home.pos]
    BY <1>1 DEF Home
  <2>2. s.home.pos \in {Automatic, <<s.scope, s.base[c].group>>}
    BY <1>1 DEF Homed, Card
  <2>3. \A a \in DOMAIN s.base : Card(s.scope, s.base[a])
    BY DEF Cards
  <2>4. DOMAIN base = DOMAIN s.base
    BY <2>1
  <2>5. ASSUME NEW a \in DOMAIN s.base
        PROVE  base[a].group = s.base[a].group /\ Card(s.scope, base[a])
    <3>1. CASE a = c
      <4>1. base[a] = [s.base[a] EXCEPT !.pos = s.home.pos]
        BY <2>1, <3>1
      <4> QED BY <2>2, <2>3, <3>1, <4>1 DEF Card
    <3>2. CASE a # c
      BY <2>1, <2>3, <3>2
    <3> QED BY <3>1, <3>2
  <2> QED BY <2>4, <2>5
<1>2. CASE ~(s.home # None /\ c \notin s.pinned /\ c \in DOMAIN s.base /\ s.base[c].group = s.home.group)
  BY <1>2 DEF Home, Cards
<1> QED BY <1>1, <1>2

\* Setting the conductor apart only moves its card.
LEMMA ApartHolds ==
    ASSUME NEW s, Cards(s), NEW c, NEW pinned
    PROVE  LET base == placeConductor(s.base, c, pinned)
           IN  /\ DOMAIN base = DOMAIN s.base
               /\ \A a \in DOMAIN base : base[a].group = s.base[a].group /\ Card(s.scope, base[a])
<1> DEFINE base == placeConductor(s.base, c, pinned)
<1>1. \A a \in DOMAIN s.base : Card(s.scope, s.base[a])
  BY DEF Cards
<1>2. CASE c \in DOMAIN s.base /\ DOMAIN s.base # {c} /\ c \notin pinned
  <2>1. base = [s.base EXCEPT ![c].pos = Automatic]
    BY <1>2 DEF placeConductor
  <2>2. DOMAIN base = DOMAIN s.base
    BY <2>1
  <2>3. ASSUME NEW a \in DOMAIN s.base
        PROVE  base[a].group = s.base[a].group /\ Card(s.scope, base[a])
    <3>1. CASE a = c
      <4>1. base[a] = [s.base[a] EXCEPT !.pos = Automatic]
        BY <2>1, <3>1
      <4> QED BY <1>1, <3>1, <4>1 DEF Card
    <3>2. CASE a # c
      BY <1>1, <2>1, <3>2
    <3> QED BY <3>1, <3>2
  <2> QED BY <2>2, <2>3
<1>3. CASE ~(c \in DOMAIN s.base /\ DOMAIN s.base # {c} /\ c \notin pinned)
  BY <1>1, <1>3 DEF placeConductor
<1> QED BY <1>2, <1>3

-----------------------------------------------------------------------------
(* The person's operations. *)

\* What the person's operations leave alone.
Alike(s, t) ==
    /\ t.model = s.model /\ t.scope = s.scope /\ t.pending = s.pending /\ t.dragging = s.dragging
    /\ t.generation = s.generation /\ t.root = s.root /\ t.mode = s.mode
\* The invariant without the drawing, which present makes.
Charted(s) == Core(s) /\ Forest(s) /\ Honoured(s)
\* What they may change.
Preferences == {"pinned", "conductor", "home", "collapsed", "aggregates", "focused", "selected",
                "communities", "base"}

\* A step that changes nothing but preferences and leaves them in order.
LEMMA ChartedAgain ==
    ASSUME NEW s, NEW t, Charted(s), SameBut(s, t, Preferences),
           t.pinned \subseteq Ids(s), t.conductor \in Ids(s) \cup {NoOne}, Homed(t),
           UNION t.collapsed \subseteq Ids(s), UNION DOMAIN t.aggregates \subseteq Ids(s),
           t.focused \subseteq Ids(s),
           DOMAIN t.base = DOMAIN s.base,
           \A a \in DOMAIN s.base : t.base[a].group = s.base[a].group /\ Card(s.scope, t.base[a])
    PROVE  Charted(t) /\ Alike(s, t)
<1>1. /\ Shaped(t) /\ t.model = s.model /\ t.scope = s.scope /\ t.analysis = s.analysis /\ t.stale = s.stale
      /\ t.root = s.root /\ t.overrides = s.overrides /\ t.flow = s.flow /\ t.generation = s.generation
      /\ t.pending = s.pending /\ t.dragging = s.dragging /\ t.mode = s.mode
  BY DEF SameBut, StateFields, Preferences
<1>2. Owned(t)
  BY <1>1 DEF Charted, Core, Owned, Prefs, Ids
<1>3. Groups(t)
  BY <1>1 DEF Charted, Core, Groups, Ids
<1>4. Cards(t)
  BY <1>1 DEF Charted, Core, Cards, Ids
<1>5. Announced(t) /\ Forest(t) /\ Honoured(t)
  BY <1>1 DEF Charted, Core, Announced, Forest, Honoured
<1> QED BY <1>1, <1>2, <1>3, <1>4, <1>5 DEF Charted, Core, Alike

\* Redrawing completes the invariant.
LEMMA Shows ==
    ASSUME NEW s, Charted(s)
    PROVE  View(present(s)) /\ Alike(s, present(s))
<1> DEFINE t == present(s)
<1>1. SameBut(s, t, {"nodes", "selected"})
  BY PresentFrame DEF Charted, Core, Owned
<1>2. Core(t) /\ Shown(t) /\ Picked(t)
  BY PresentHolds DEF Charted
<1> HIDE DEF t
<1>3. /\ t.flow = s.flow /\ t.overrides = s.overrides /\ Alike(s, t)
  BY <1>1 DEF SameBut, StateFields, Alike
<1>4. Forest(t) /\ Honoured(t)
  BY <1>3 DEF Charted, Forest, Honoured, Alike
<1> QED BY <1>2, <1>3, <1>4 DEF View, t

\* capturePositions keeps it.
LEMMA Captures ==
    ASSUME NEW s, View(s)
    PROVE  View(capturePositions(s)) /\ Alike(s, capturePositions(s))
<1> DEFINE t == capturePositions(s)
<1>1. SameBut(s, t, {"base", "aggregates"})
  BY CaptureFrame DEF View, Core, Owned
<1>2. Core(t) /\ Shown(t)
  BY CaptureHolds DEF View
<1> HIDE DEF t
<1>3. /\ t.flow = s.flow /\ t.overrides = s.overrides /\ t.selected = s.selected /\ Alike(s, t)
  BY <1>1 DEF SameBut, StateFields, Alike
<1>4. Forest(t) /\ Honoured(t) /\ Picked(t)
  BY <1>3 DEF View, Forest, Honoured, Alike, Picked, Ids
<1> QED BY <1>2, <1>3, <1>4 DEF View, t

\* The parts of the invariant that the operations need.
LEMMA ViewIsCharted ==
    ASSUME NEW s, View(s)
    PROVE  /\ Charted(s) /\ Shaped(s)
           /\ s.pinned \subseteq Ids(s) /\ s.conductor \in Ids(s) \cup {NoOne} /\ Homed(s)
           /\ UNION s.collapsed \subseteq Ids(s) /\ UNION DOMAIN s.aggregates \subseteq Ids(s)
           /\ s.focused \subseteq Ids(s) /\ (\A c \in s.analysis.groups : c \subseteq Ids(s))
           /\ \A a \in DOMAIN s.base : Card(s.scope, s.base[a])
BY DEF View, Charted, Core, Owned, Prefs, Groups, Cards

\* Selecting a card.
LEMMA SelectedHolds ==
    ASSUME NEW s, View(s), NEW node
    PROVE  View(Selected(s, node)) /\ Alike(s, Selected(s, node))
<1> DEFINE u == capturePositions(s)
           t == [u EXCEPT !.selected = node, !.focused = {}]
<1>1. View(u) /\ Alike(s, u)
  BY Captures
<1>2. Selected(s, node) = s \/ Selected(s, node) = present(t)
  BY DEF Selected
<1>3. Charted(t) /\ Alike(u, t)
  <2> HIDE DEF u
  <2>1. SameBut(u, t, {"selected", "focused"}) /\ t.focused = {}
    BY <1>1, ViewIsCharted DEF Shaped, SameBut, StateFields
  <2> HIDE DEF t
  <2>2. /\ t.pinned = u.pinned /\ t.conductor = u.conductor /\ t.home = u.home /\ t.collapsed = u.collapsed
        /\ t.aggregates = u.aggregates /\ t.base = u.base /\ t.scope = u.scope /\ SameBut(u, t, Preferences)
    BY <2>1 DEF SameBut, StateFields, Preferences
  <2>3. Homed(t)
    BY <1>1, <2>2, ViewIsCharted DEF Homed
  <2> QED BY <1>1, <2>1, <2>2, <2>3, ViewIsCharted, ChartedAgain
<1> HIDE DEF t
<1>4. View(present(t)) /\ Alike(t, present(t))
  BY <1>3, Shows
<1>5. Alike(s, s)
  BY DEF Alike
<1> QED BY <1>1, <1>2, <1>3, <1>4, <1>5 DEF Alike

\* Focusing a community.
LEMMA FocusHolds ==
    ASSUME NEW s, View(s), NEW c \in s.analysis.groups
    PROVE  View(focusGroup(s, c)) /\ Alike(s, focusGroup(s, c))
<1> DEFINE u == capturePositions(s)
           t == [u EXCEPT !.focused = IF @ = c THEN {} ELSE c, !.selected = NoNode]
<1>1. View(u) /\ Alike(s, u)
  BY Captures
<1>2. focusGroup(s, c) = present(t)
  BY DEF focusGroup
<1>3. Charted(t) /\ Alike(u, t)
  <2>0. c \subseteq Ids(u)
    BY <1>1, ViewIsCharted DEF Alike, Ids
  <2> HIDE DEF u
  <2>1. SameBut(u, t, {"selected", "focused"}) /\ t.focused \in {{}, c}
    BY <1>1, ViewIsCharted DEF Shaped, SameBut, StateFields
  <2> HIDE DEF t
  <2>2. /\ t.pinned = u.pinned /\ t.conductor = u.conductor /\ t.home = u.home /\ t.collapsed = u.collapsed
        /\ t.aggregates = u.aggregates /\ t.base = u.base /\ t.scope = u.scope /\ SameBut(u, t, Preferences)
    BY <2>1 DEF SameBut, StateFields, Preferences
  <2>3. Homed(t)
    BY <1>1, <2>2, ViewIsCharted DEF Homed
  <2> QED BY <1>1, <2>0, <2>1, <2>2, <2>3, ViewIsCharted, ChartedAgain
<1> HIDE DEF t
<1>4. View(present(t)) /\ Alike(t, present(t))
  BY <1>3, Shows
<1> QED BY <1>1, <1>2, <1>3, <1>4 DEF Alike

\* Switching the communities on and off.
LEMMA LayerHolds ==
    ASSUME NEW s, View(s)
    PROVE  LET t == present(Layered([capturePositions(s) EXCEPT !.communities = ~@]))
           IN  View(t) /\ Alike(s, t)
<1> DEFINE u == capturePositions(s)
           v == [u EXCEPT !.communities = ~@]
           t == Layered(v)
<1>1. View(u) /\ Alike(s, u)
  BY Captures
<1>3. Charted(t) /\ Alike(u, t)
  <2> HIDE DEF u
  <2>1. SameBut(u, v, {"communities"})
    BY <1>1, ViewIsCharted DEF Shaped, SameBut, StateFields
  <2> HIDE DEF v
  <2>2. /\ v.aggregates = u.aggregates /\ v.collapsed = u.collapsed /\ v.focused = u.focused
    BY <2>1 DEF SameBut, StateFields
  <2>3. /\ SameBut(u, t, {"communities", "collapsed", "aggregates", "focused"})
        /\ t.focused \in {{}, u.focused} /\ t.collapsed \in {{}, u.collapsed} /\ t.aggregates \in {Empty, u.aggregates}
    <3>1. CASE v.communities
      BY <2>1, <2>2, <3>1 DEF SameBut, StateFields, Layered
    <3>2. CASE ~v.communities
      <4>1. t = [v EXCEPT !.collapsed = {}, !.aggregates = Empty, !.focused = {}]
        BY <3>2 DEF Layered
      <4> HIDE DEF t
      <4>2. SameBut(v, t, {"collapsed", "aggregates", "focused"}) /\ t.collapsed = {} /\ t.aggregates = Empty /\ t.focused = {}
        BY <2>1, <4>1 DEF Shaped, SameBut, StateFields
      <4> QED BY <2>1, <4>2 DEF SameBut, StateFields
    <3> QED BY <3>1, <3>2
  <2> HIDE DEF t
  <2>4. /\ t.pinned = u.pinned /\ t.conductor = u.conductor /\ t.home = u.home
        /\ t.base = u.base /\ t.scope = u.scope /\ SameBut(u, t, Preferences)
    BY <2>3 DEF SameBut, StateFields, Preferences
  <2>5. Homed(t)
    BY <1>1, <2>4, ViewIsCharted DEF Homed
  <2>6. DOMAIN Empty = {}
    BY DEF Empty
  <2> QED BY <1>1, <2>3, <2>4, <2>5, <2>6, ViewIsCharted, ChartedAgain
<1> HIDE DEF t
<1>4. View(present(t)) /\ Alike(t, present(t))
  BY <1>3, Shows
<1> QED BY <1>1, <1>3, <1>4 DEF Alike, t

\* Expanding a community moves members under their own devices.
LEMMA ExpandedHolds ==
    ASSUME NEW s, View(s), NEW c
    PROVE  Charted(Expanded(s, c)) /\ Alike(s, Expanded(s, c))
<1> DEFINE t == Expanded(s, c)
<1>1. /\ SameBut(s, t, {"base", "aggregates", "collapsed"})
      /\ t.base = [a \in DOMAIN s.base |->
                           IF Shifted(s, c, a) THEN [group |-> s.base[a].group, pos |-> <<s.scope, s.base[a].group>>]
                           ELSE s.base[a]]
      /\ t.aggregates = Restrict(s.aggregates, DOMAIN s.aggregates \ {c})
      /\ t.collapsed = s.collapsed \ {c}
  BY ViewIsCharted DEF Shaped, SameBut, StateFields, Expanded
<1> HIDE DEF t
<1>2. /\ t.pinned = s.pinned /\ t.conductor = s.conductor /\ t.home = s.home /\ t.focused = s.focused
      /\ t.scope = s.scope /\ SameBut(s, t, Preferences)
  BY <1>1 DEF SameBut, StateFields, Preferences
<1>3. DOMAIN t.base = DOMAIN s.base
  BY <1>1
<1>4. ASSUME NEW a \in DOMAIN s.base
      PROVE  t.base[a].group = s.base[a].group /\ Card(s.scope, t.base[a])
  <2>1. Card(s.scope, s.base[a])
    BY ViewIsCharted
  <2>2. CASE Shifted(s, c, a)
    <3>1. t.base[a] = [group |-> s.base[a].group, pos |-> <<s.scope, s.base[a].group>>]
      BY <1>1, <2>2
    <3> QED BY <3>1 DEF Card
  <2>3. CASE ~Shifted(s, c, a)
    BY <1>1, <2>1, <2>3
  <2> QED BY <2>2, <2>3
<1>5. DOMAIN t.aggregates \subseteq DOMAIN s.aggregates
  BY <1>1 DEF Restrict
<1>6. Homed(t)
  BY <1>2, ViewIsCharted DEF Homed
<1>7. UNION t.collapsed \subseteq Ids(s) /\ UNION DOMAIN t.aggregates \subseteq Ids(s)
  BY <1>1, <1>5, ViewIsCharted
<1> QED BY <1>2, <1>3, <1>4, <1>6, <1>7, ViewIsCharted, ChartedAgain DEF t

\* Collapsing and expanding.
LEMMA ToggledHolds ==
    ASSUME NEW s, View(s), NEW c \in s.analysis.groups
    PROVE  View(Toggled(s, c)) /\ Alike(s, Toggled(s, c))
<1> DEFINE u == capturePositions(s)
           v == [u EXCEPT !.collapsed = @ \cup {c}, !.selected = NoNode]
           t == IF c \in s.collapsed THEN Expanded(u, c) ELSE v
<1>1. View(u) /\ Alike(s, u)
  BY Captures
<1>2. Toggled(s, c) = present(t)
  BY DEF Toggled
<1>3. Charted(v) /\ Alike(u, v)
  <2>0. c \subseteq Ids(u)
    BY <1>1, ViewIsCharted DEF Alike, Ids
  <2> HIDE DEF u
  <2>1. SameBut(u, v, {"selected", "collapsed"}) /\ v.collapsed = u.collapsed \cup {c}
    BY <1>1, ViewIsCharted DEF Shaped, SameBut, StateFields
  <2> HIDE DEF v
  <2>2. /\ v.pinned = u.pinned /\ v.conductor = u.conductor /\ v.home = u.home /\ v.focused = u.focused
        /\ v.aggregates = u.aggregates /\ v.base = u.base /\ v.scope = u.scope /\ SameBut(u, v, Preferences)
    BY <2>1 DEF SameBut, StateFields, Preferences
  <2>3. Homed(v)
    BY <1>1, <2>2, ViewIsCharted DEF Homed
  <2>4. UNION v.collapsed \subseteq Ids(u)
    BY <1>1, <2>0, <2>1, ViewIsCharted
  <2> QED BY <1>1, <2>1, <2>2, <2>3, <2>4, ViewIsCharted, ChartedAgain
<1>4. Charted(Expanded(u, c)) /\ Alike(u, Expanded(u, c))
  BY <1>1, ExpandedHolds
<1>5. Charted(t) /\ Alike(u, t)
  BY <1>3, <1>4
<1> HIDE DEF t
<1>6. View(present(t)) /\ Alike(t, present(t))
  BY <1>5, Shows
<1> QED BY <1>1, <1>2, <1>5, <1>6 DEF Alike

\* Pinning.
LEMMA PinHolds ==
    ASSUME NEW s, View(s), NEW a \in Ids(s)
    PROVE  View(Pin(s, a)) /\ Alike(s, Pin(s, a))
<1> DEFINE t == Pin(s, a)
<1>1. SameBut(s, t, {"pinned"}) /\ t.pinned \subseteq s.pinned \cup {a}
  BY ViewIsCharted DEF Shaped, SameBut, StateFields, Pin
<1> HIDE DEF t
<1>2. /\ t.collapsed = s.collapsed /\ t.conductor = s.conductor /\ t.home = s.home /\ t.focused = s.focused
      /\ t.aggregates = s.aggregates /\ t.base = s.base /\ t.scope = s.scope /\ t.nodes = s.nodes
      /\ t.selected = s.selected /\ SameBut(s, t, Preferences)
  BY <1>1 DEF SameBut, StateFields, Preferences
<1>3. Homed(t) /\ t.pinned \subseteq Ids(s)
  BY <1>1, <1>2, ViewIsCharted DEF Homed
<1>4. Charted(t) /\ Alike(s, t)
  BY <1>2, <1>3, ViewIsCharted, ChartedAgain
<1>5. Shown(t) /\ Picked(t)
  BY <1>2, <1>4 DEF View, Shown, Picked, Ids, Alike
<1> QED BY <1>4, <1>5 DEF View, Charted, t

\* The conductor goes back.
LEMMA RestoredHolds ==
    ASSUME NEW s, Charted(s)
    PROVE  LET t == restoreConductor(s)
           IN  Charted(t) /\ Alike(s, t) /\ t.conductor = NoOne /\ t.home = None
<1> DEFINE t == restoreConductor(s)
<1>1. /\ SameBut(s, t, {"base", "conductor", "home"})
      /\ t.base = Home(s, s.base) /\ t.conductor = NoOne /\ t.home = None
  BY DEF Charted, Core, Owned, Shaped, SameBut, StateFields, restoreConductor
<1> HIDE DEF t
<1>2. /\ t.pinned = s.pinned /\ t.focused = s.focused /\ t.collapsed = s.collapsed
      /\ t.aggregates = s.aggregates /\ SameBut(s, t, Preferences)
  BY <1>1 DEF SameBut, StateFields, Preferences
<1>3. Cards(s) /\ Homed(s)
  BY DEF Charted, Core, Owned
<1>4. Homed(t)
  BY <1>1 DEF Homed
<1>5. /\ s.pinned \subseteq Ids(s) /\ s.focused \subseteq Ids(s)
      /\ UNION s.collapsed \subseteq Ids(s) /\ UNION DOMAIN s.aggregates \subseteq Ids(s)
  BY DEF Charted, Core, Owned, Prefs, Groups
<1>6. /\ DOMAIN t.base = DOMAIN s.base
      /\ \A a \in DOMAIN s.base : t.base[a].group = s.base[a].group /\ Card(s.scope, t.base[a])
  BY <1>1, <1>3, HomeHolds
<1>7. Charted(t) /\ Alike(s, t)
  BY <1>1, <1>2, <1>4, <1>5, <1>6, ChartedAgain
<1> QED BY <1>1, <1>7 DEF t

\* The conductor's home is remembered.
LEMMA RememberedHolds ==
    ASSUME NEW s, Charted(s)
    PROVE  Charted(rememberConductorHome(s)) /\ Alike(s, rememberConductorHome(s))
<1> DEFINE t == rememberConductorHome(s)
<1>1. /\ SameBut(s, t, {"home"})
      /\ t.home = IF s.conductor \in DOMAIN s.base THEN s.base[s.conductor] ELSE None
  BY DEF Charted, Core, Owned, Shaped, SameBut, StateFields, rememberConductorHome
<1> HIDE DEF t
<1>2. /\ t.pinned = s.pinned /\ t.focused = s.focused /\ t.collapsed = s.collapsed /\ t.base = s.base
      /\ t.conductor = s.conductor /\ t.scope = s.scope
      /\ t.aggregates = s.aggregates /\ SameBut(s, t, Preferences)
  BY <1>1 DEF SameBut, StateFields, Preferences
<1>3. /\ s.pinned \subseteq Ids(s) /\ s.focused \subseteq Ids(s) /\ s.conductor \in Ids(s) \cup {NoOne}
      /\ UNION s.collapsed \subseteq Ids(s) /\ UNION DOMAIN s.aggregates \subseteq Ids(s)
      /\ \A a \in DOMAIN s.base : Card(s.scope, s.base[a])
  BY DEF Charted, Core, Owned, Prefs, Groups, Cards
<1>4. Homed(t)
  BY <1>1, <1>2, <1>3 DEF Homed
<1>5. Charted(t) /\ Alike(s, t)
  BY <1>1, <1>2, <1>3, <1>4, ChartedAgain
<1> QED BY <1>5 DEF t

\* The conductor is set apart.
LEMMA SetApartHolds ==
    ASSUME NEW s, Charted(s)
    PROVE  Charted(SetApart(s)) /\ Alike(s, SetApart(s))
<1> DEFINE t == SetApart(s)
<1>1. /\ SameBut(s, t, {"base"}) /\ t.base = placeConductor(s.base, s.conductor, s.pinned)
  BY DEF Charted, Core, Owned, Shaped, SameBut, StateFields, SetApart
<1> HIDE DEF t
<1>2. /\ t.pinned = s.pinned /\ t.focused = s.focused /\ t.collapsed = s.collapsed /\ t.home = s.home
      /\ t.conductor = s.conductor /\ t.scope = s.scope
      /\ t.aggregates = s.aggregates /\ SameBut(s, t, Preferences)
  BY <1>1 DEF SameBut, StateFields, Preferences
<1>3. /\ s.pinned \subseteq Ids(s) /\ s.focused \subseteq Ids(s) /\ s.conductor \in Ids(s) \cup {NoOne}
      /\ UNION s.collapsed \subseteq Ids(s) /\ UNION DOMAIN s.aggregates \subseteq Ids(s)
      /\ Cards(s)
  BY DEF Charted, Core, Owned, Prefs, Groups
<1>4. Homed(t)
  BY <1>2 DEF Homed, Charted, Core, Owned
<1>5. /\ DOMAIN t.base = DOMAIN s.base
      /\ \A a \in DOMAIN s.base : t.base[a].group = s.base[a].group /\ Card(s.scope, t.base[a])
  <2> DEFINE base == placeConductor(s.base, s.conductor, s.pinned)
  <2>1. /\ DOMAIN base = DOMAIN s.base
        /\ \A a \in DOMAIN base : base[a].group = s.base[a].group /\ Card(s.scope, base[a])
    BY <1>3, ApartHolds, Zenon
  <2> HIDE DEF base
  <2> QED BY <1>1, <2>1 DEF base
<1>6. Charted(t) /\ Alike(s, t)
  BY <1>2, <1>3, <1>4, <1>5, ChartedAgain
<1> QED BY <1>6 DEF t

\* A visible agent becomes conductor.
LEMMA NewConductorHolds ==
    ASSUME NEW s, Charted(s), NEW a \in Ids(s)
    PROVE  LET t == [s EXCEPT !.conductor = a]
           IN  s.home = None => Charted(t) /\ Alike(s, t)
<1> DEFINE t == [s EXCEPT !.conductor = a]
<1>1. /\ SameBut(s, t, {"conductor"}) /\ t.conductor = a
  BY DEF Charted, Core, Owned, Shaped, SameBut, StateFields
<1> HIDE DEF t
<1>2. /\ t.pinned = s.pinned /\ t.focused = s.focused /\ t.collapsed = s.collapsed /\ t.home = s.home
      /\ t.base = s.base /\ t.scope = s.scope
      /\ t.aggregates = s.aggregates /\ SameBut(s, t, Preferences)
  BY <1>1 DEF SameBut, StateFields, Preferences
<1>3. /\ s.pinned \subseteq Ids(s) /\ s.focused \subseteq Ids(s)
      /\ UNION s.collapsed \subseteq Ids(s) /\ UNION DOMAIN s.aggregates \subseteq Ids(s)
      /\ \A x \in DOMAIN s.base : Card(s.scope, s.base[x])
  BY DEF Charted, Core, Owned, Prefs, Groups, Cards
<1>4. Homed(t)
  BY <1>2 DEF Homed, Charted, Core, Owned
<1>5. Charted(t) /\ Alike(s, t)
  BY <1>1, <1>2, <1>3, <1>4, ChartedAgain
<1> QED BY <1>5 DEF t

\* Both outcomes of choosing a conductor.
LEMMA ConductorHolds ==
    ASSUME NEW s, View(s), NEW a \in Ids(s)
    PROVE  LET u == restoreConductor(capturePositions(s))
               t == present(u)
               v == present(SetApart(rememberConductorHome([u EXCEPT !.conductor = a])))
           IN  View(t) /\ Alike(s, t) /\ View(v) /\ Alike(s, v)
<1> DEFINE u == restoreConductor(capturePositions(s))
           w == [u EXCEPT !.conductor = a]
           x == rememberConductorHome(w)
           y == SetApart(x)
<1>1. View(capturePositions(s)) /\ Alike(s, capturePositions(s))
  BY Captures
<1>2. Charted(u) /\ Alike(s, u) /\ u.home = None
  BY <1>1, ViewIsCharted, RestoredHolds DEF Alike
<1>3. View(present(u)) /\ Alike(s, present(u))
  BY <1>2, Shows DEF Alike
<1> HIDE DEF u
<1>4. Charted(w) /\ Alike(s, w)
  <2>1. a \in Ids(u)
    BY <1>2 DEF Alike, Ids
  <2> QED BY <1>2, <2>1, NewConductorHolds DEF Alike
<1> HIDE DEF w
<1>5. Charted(x) /\ Alike(s, x)
  BY <1>4, RememberedHolds DEF Alike
<1> HIDE DEF x
<1>6. Charted(y) /\ Alike(s, y)
  BY <1>5, SetApartHolds DEF Alike
<1> HIDE DEF y
<1>7. View(present(y)) /\ Alike(s, present(y))
  BY <1>6, Shows DEF Alike
<1> QED BY <1>3, <1>7 DEF u, w, x, y

-----------------------------------------------------------------------------
(* Layouts. *)

\* What only concerns the layout engine, and a step that starts a layout.
Engine == {"mode", "dragging", "pending", "generation", "flowPending", "interrupted"}
Later(s, t) ==
    /\ t.model = s.model /\ t.scope = s.scope /\ t.pending = s.pending /\ t.dragging = s.dragging
    /\ t.root = s.root /\ t.mode = s.mode
    /\ t.generation \in Nat /\ t.generation > s.generation
\* The states a layout may start from: choices are honoured again in Flow.
Arrangeable(s) == Core(s) /\ Shown(s) /\ Forest(s) /\ (Honoured(s) \/ s.mode = "flow")

\* The engine's fields do not matter to the invariant.
LEMMA EngineApart ==
    ASSUME NEW s, NEW t, Core(s), SameBut(s, t, Engine), t.generation \in Nat
    PROVE  /\ Core(t) /\ (Shown(s) => Shown(t)) /\ (Forest(s) => Forest(t)) /\ (Honoured(s) => Honoured(t))
           /\ (Picked(s) => Picked(t))
           /\ t.model = s.model /\ t.scope = s.scope /\ t.root = s.root
<1>1. SameBut(s, t, {"flow", "nodes", "selected", "communities", "mode", "dragging", "pending",
                     "generation", "flowPending", "interrupted"})
  BY DEF SameBut, Engine
<1>2. Core(t)
  BY <1>1, CoreKept
<1>3. /\ t.model = s.model /\ t.scope = s.scope /\ t.root = s.root /\ t.nodes = s.nodes /\ t.base = s.base
      /\ t.flow = s.flow /\ t.overrides = s.overrides /\ t.selected = s.selected
  BY DEF SameBut, StateFields, Engine
<1> QED BY <1>2, <1>3 DEF Shown, Forest, Honoured, Picked, Ids

\* A new generation begins.
LEMMA InvalidatedHolds ==
    ASSUME NEW s, Shaped(s), s.generation \in Nat
    PROVE  LET t == [invalidateLayout(s) EXCEPT !.interrupted = FALSE]
           IN  SameBut(s, t, Engine) /\ Later(s, t)
<1> DEFINE t == [invalidateLayout(s) EXCEPT !.interrupted = FALSE]
<1>1. SameBut(s, t, {"generation", "flowPending", "interrupted"}) /\ t.generation = s.generation + 1
  BY DEF Shaped, SameBut, StateFields, invalidateLayout
<1> HIDE DEF t
<1>2. /\ t.model = s.model /\ t.scope = s.scope /\ t.pending = s.pending /\ t.dragging = s.dragging
      /\ t.root = s.root /\ t.mode = s.mode
  BY <1>1 DEF SameBut, StateFields
<1>3. Later(s, t)
  BY <1>1, <1>2 DEF Later
<1>4. SameBut(s, t, Engine)
  BY <1>1 DEF SameBut, StateFields, Engine
<1> QED BY <1>3, <1>4 DEF t

\* computeFlow only queues a layout.
LEMMA ComputedHolds ==
    ASSUME NEW s, View(s)
    PROVE  View(computeFlow(s)) /\ Later(s, computeFlow(s))
<1> DEFINE t == computeFlow(s)
<1>0. Core(s) /\ Shaped(s) /\ s.generation \in Nat
  BY DEF View, Core, Owned
<1>1. SameBut(s, t, {"generation", "flowPending", "interrupted"}) /\ t.generation = s.generation + 1
  BY <1>0 DEF Shaped, SameBut, StateFields, computeFlow
<1> HIDE DEF t
<1>2. /\ t.model = s.model /\ t.scope = s.scope /\ t.pending = s.pending /\ t.dragging = s.dragging
      /\ t.root = s.root /\ t.mode = s.mode /\ t.generation \in Nat
  BY <1>0, <1>1 DEF SameBut, StateFields
<1>3. Later(s, t)
  BY <1>0, <1>1, <1>2 DEF Later
<1>4. SameBut(s, t, Engine)
  BY <1>1 DEF SameBut, StateFields, Engine
<1>5. View(t)
  BY <1>0, <1>2, <1>4, EngineApart DEF View
<1> QED BY <1>3, <1>5 DEF t

\* A new analysis keeps what is drawn.
LEMMA RecomputedHolds ==
    ASSUME NEW s, Core(s), Shown(s), NEW again \in BOOLEAN
    PROVE  LET t == Recomputed(s, again)
           IN  /\ Core(t) /\ Shown(t) /\ Alike(s, t)
               /\ (Forest(s) => Forest(t)) /\ (Honoured(s) => Honoured(t))
<1> DEFINE t == Recomputed(s, again)
<1>1. CASE ~again
  <2>1. t = s
    BY <1>1 DEF Recomputed
  <2> QED BY <2>1 DEF Alike
<1>2. CASE again
  <2> DEFINE u == Recomputed(s, TRUE)
  <2>1. /\ SameBut(s, u, {"analysis", "stale", "collapsed", "aggregates", "focused"})
        /\ Groups(u) /\ Announced(u)
    BY RecomputeHolds DEF Core, Owned
  <2>2. t = u
    BY <1>2
  <2> HIDE DEF t, u
  <2>3. /\ Shaped(u) /\ Alike(s, u) /\ u.model = s.model /\ u.scope = s.scope /\ u.nodes = s.nodes
        /\ u.base = s.base
        /\ u.flow = s.flow /\ u.overrides = s.overrides /\ u.pinned = s.pinned
        /\ u.conductor = s.conductor /\ u.home = s.home
    BY <2>1 DEF SameBut, StateFields, Alike
  <2>4. Owned(u)
    BY <2>3 DEF Core, Owned, Prefs, Homed, Ids, Alike
  <2>5. Cards(u) /\ Shown(u)
    BY <2>3 DEF Core, Cards, Shown, Ids
  <2>6. (Forest(s) => Forest(u)) /\ (Honoured(s) => Honoured(u))
    BY <2>3 DEF Forest, Honoured
  <2> QED BY <2>1, <2>2, <2>3, <2>4, <2>5, <2>6 DEF Core, t
<1> QED BY <1>1, <1>2

\* Arranging in Flow.
LEMMA FlowRearranged ==
    ASSUME NEW s, Core(s), s.mode = "flow"
    PROVE  View(Rearranged(s)) /\ Later(s, Rearranged(s))
<1> DEFINE u == inferCurrentFlow(s)
           v == present(u)
<1>1. Rearranged(s) = computeFlow(v)
  BY DEF Rearranged
<1>2. SameBut(s, u, {"flow", "overrides"}) /\ Owned(u) /\ Forest(u) /\ Honoured(u)
  BY InferHolds DEF Core
<1> HIDE DEF u
<1>3. /\ Alike(s, u) /\ u.model = s.model /\ u.scope = s.scope /\ u.base = s.base /\ u.analysis = s.analysis
      /\ u.stale = s.stale /\ u.collapsed = s.collapsed /\ u.aggregates = s.aggregates /\ u.focused = s.focused
  BY <1>2 DEF SameBut, StateFields, Alike
<1>4. Charted(u)
  BY <1>2, <1>3 DEF Charted, Core, Groups, Cards, Announced, Ids
<1>5. View(v) /\ Alike(u, v)
  BY <1>4, Shows
<1> HIDE DEF v
<1>6. View(computeFlow(v)) /\ Later(v, computeFlow(v))
  BY <1>5, ComputedHolds
<1> QED BY <1>1, <1>3, <1>5, <1>6 DEF Alike, Later

\* Arranging in another layout.
LEMMA PlainRearranged ==
    ASSUME NEW s, Charted(s), s.mode # "flow"
    PROVE  View(Rearranged(s)) /\ Alike(s, Rearranged(s))
<1> DEFINE u == place(s, Pinned(s))
           v == rememberConductorHome(u)
           w == SetApart(v)
           x == [w EXCEPT !.aggregates = Empty]
<1>1. Rearranged(s) = present(x)
  BY DEF Rearranged
<1>2. SameBut(s, u, {"base"}) /\ Cards(u)
  <2>1. Shaped(s) /\ Cards(s)
    BY DEF Charted, Core, Owned
  <2>2. Tagged(s.scope, Pinned(s))
    BY <2>1, CardsAreTagged
  <2> QED BY <2>1, <2>2, PlaceHolds
<1> HIDE DEF u
<1>3. /\ Shaped(u) /\ Alike(s, u) /\ u.model = s.model /\ u.scope = s.scope /\ u.analysis = s.analysis /\ u.stale = s.stale
      /\ u.flow = s.flow /\ u.overrides = s.overrides /\ u.pinned = s.pinned
      /\ u.conductor = s.conductor /\ u.home = s.home /\ u.root = s.root /\ u.generation = s.generation
      /\ u.collapsed = s.collapsed /\ u.aggregates = s.aggregates /\ u.focused = s.focused
  BY <1>2 DEF SameBut, StateFields, Alike
<1>4. Owned(u) /\ Groups(u) /\ Announced(u) /\ Forest(u) /\ Honoured(u)
  BY <1>3 DEF Charted, Core, Owned, Prefs, Homed, Groups, Announced, Forest, Honoured, Ids
<1>5. Charted(u)
  BY <1>2, <1>4 DEF Charted, Core
<1>6. Charted(v) /\ Alike(s, v)
  BY <1>3, <1>5, RememberedHolds DEF Alike
<1> HIDE DEF v
<1>7. Charted(w) /\ Alike(s, w)
  BY <1>6, SetApartHolds DEF Alike
<1> HIDE DEF w
<1>8. Charted(x) /\ Alike(w, x)
  <2>1. SameBut(w, x, {"aggregates"}) /\ x.aggregates = Empty
    BY <1>7 DEF Charted, Core, Owned, Shaped, SameBut, StateFields
  <2> HIDE DEF x
  <2>2. /\ x.pinned = w.pinned /\ x.focused = w.focused /\ x.collapsed = w.collapsed /\ x.home = w.home
        /\ x.conductor = w.conductor /\ x.scope = w.scope /\ x.base = w.base /\ SameBut(w, x, Preferences)
    BY <2>1 DEF SameBut, StateFields, Preferences
  <2>3. /\ w.pinned \subseteq Ids(w) /\ w.focused \subseteq Ids(w) /\ w.conductor \in Ids(w) \cup {NoOne}
        /\ UNION w.collapsed \subseteq Ids(w) /\ \A a \in DOMAIN w.base : Card(w.scope, w.base[a])
    BY <1>7 DEF Charted, Core, Owned, Prefs, Groups, Cards
  <2>4. Homed(x) /\ DOMAIN x.aggregates = {}
    BY <1>7, <2>1, <2>2 DEF Homed, Charted, Core, Owned, Empty
  <2> QED BY <1>7, <2>2, <2>3, <2>4, ChartedAgain
<1> HIDE DEF x
<1>9. View(present(x)) /\ Alike(x, present(x))
  BY <1>8, Shows
<1> QED BY <1>1, <1>7, <1>8, <1>9 DEF Alike

\* arrange as a function of the state.
Arranged(s, again) ==
    Rearranged(Recomputed(capturePositions([invalidateLayout(s) EXCEPT !.interrupted = FALSE]), again))

\* A layout that starts restores the invariant.
LEMMA ArrangedHolds ==
    ASSUME NEW s, Arrangeable(s), NEW again \in BOOLEAN
    PROVE  View(Arranged(s, again)) /\ Later(s, Arranged(s, again))
<1> DEFINE u == [invalidateLayout(s) EXCEPT !.interrupted = FALSE]
           v == capturePositions(u)
           w == Recomputed(v, again)
<1>1. Arranged(s, again) = Rearranged(w)
  BY DEF Arranged
<1>2. Core(s) /\ Shaped(s) /\ s.generation \in Nat /\ Shown(s) /\ Forest(s)
  BY DEF Arrangeable, Core, Owned
<1>3. SameBut(s, u, Engine) /\ Later(s, u)
  BY <1>2, InvalidatedHolds
<1> HIDE DEF u
<1>4. Core(u) /\ Shown(u) /\ Forest(u) /\ (Honoured(s) => Honoured(u)) /\ u.generation \in Nat
  BY <1>2, <1>3, EngineApart DEF Later
<1>5. Core(v) /\ Shown(v) /\ Alike(u, v) /\ Forest(v) /\ (Honoured(s) => Honoured(v))
  <2>1. Core(v) /\ Shown(v)
    BY <1>4, CaptureHolds
  <2>2. SameBut(u, v, {"base", "aggregates"})
    BY <1>4, CaptureFrame DEF Core, Owned
  <2> HIDE DEF v
  <2>3. Alike(u, v) /\ v.model = u.model /\ v.flow = u.flow /\ v.overrides = u.overrides
    BY <2>2 DEF SameBut, StateFields, Alike
  <2> QED BY <1>4, <2>1, <2>3 DEF Forest, Honoured
<1> HIDE DEF v
<1>6. Core(w) /\ Alike(v, w) /\ Forest(w) /\ (Honoured(s) => Honoured(w))
  BY <1>5, RecomputedHolds
<1> HIDE DEF w
<1>7. Later(s, w)
  BY <1>3, <1>5, <1>6 DEF Later, Alike
<1>8. CASE w.mode = "flow"
  BY <1>1, <1>2, <1>6, <1>7, <1>8, FlowRearranged DEF Later
<1>9. CASE w.mode # "flow"
  <2>1. Charted(w)
    BY <1>6, <1>7, <1>9 DEF Arrangeable, Charted, Later
  <2>2. View(Rearranged(w)) /\ Alike(w, Rearranged(w))
    BY <1>9, <2>1, PlainRearranged
  <2> QED BY <1>1, <1>7, <2>2 DEF Later, Alike
<1> QED BY <1>8, <1>9

-----------------------------------------------------------------------------
(* Refreshes. *)

\* Preferences that are taken over: each of them, or none.
Carried(s, t, kept) ==
    /\ t.pinned \subseteq s.pinned \cap kept
    /\ t.conductor \in {NoOne} \cup ({s.conductor} \cap kept)
    /\ t.root \in {NoOne} \cup ({s.root} \cap kept)
    /\ \A a \in DOMAIN t.overrides :
          a \in DOMAIN s.overrides \cap kept /\ t.overrides[a] = s.overrides[a] /\ t.overrides[a] \in kept
Kept(s, next, changed) == IF changed THEN {} ELSE sameDevice(s.model, next)

\* What the refresh takes over, before the analysis and the layout.
Taken(s, next, scope, changed, layout) ==
    Adopted(Rescoped(Invalidated(s, layout), changed), next, scope, sameDevice(s.model, next))

\* Another account's view starts without preferences.
LEMMA RescopedFrame ==
    ASSUME NEW s, Shaped(s), NEW changed \in BOOLEAN
    PROVE  LET t == Rescoped(s, changed)
           IN  /\ SameBut(s, t, {"selected", "focused", "collapsed", "pinned", "conductor", "home",
                                 "root", "overrides", "aggregates"})
               /\ ~changed => t = s
               /\ changed => /\ t.focused = {} /\ t.collapsed = {} /\ t.pinned = {} /\ t.conductor = NoOne
                             /\ t.home = None /\ t.root = NoOne /\ t.overrides = Empty /\ t.aggregates = Empty
<1>1. CASE changed
  BY <1>1 DEF Shaped, SameBut, StateFields, Rescoped
<1>2. CASE ~changed
  BY <1>2 DEF Shaped, SameBut, StateFields, Rescoped
<1> QED BY <1>1, <1>2

\* Preferences are cut to the agents that keep their device.
LEMMA AdoptedFrame ==
    ASSUME NEW s, Shaped(s), NEW next, NEW scope, NEW kept
    PROVE  LET t == Adopted(s, next, scope, kept)
           IN  /\ SameBut(s, t, {"pinned", "home", "conductor", "root", "overrides", "scope", "model", "stale"})
               /\ t.model = next /\ t.scope = scope /\ t.stale = (next.graph # s.analysis.sig)
               /\ t.pinned = s.pinned \cap kept
               /\ t.home = IF s.conductor \in kept THEN s.home ELSE None
               /\ t.conductor = IF s.conductor \in kept THEN s.conductor ELSE NoOne
               /\ t.root = IF s.root \in kept THEN s.root ELSE NoOne
               /\ t.overrides = Restrict(s.overrides, retainedOverrides(s, next))
BY DEF Shaped, SameBut, StateFields, Adopted

\* A refresh that needs a layout begins a generation.
LEMMA InvalidatedFrame ==
    ASSUME NEW s, Shaped(s), s.generation \in Nat, NEW layout \in BOOLEAN
    PROVE  LET t == Invalidated(s, layout)
           IN  /\ SameBut(s, t, {"generation", "flowPending", "interrupted"})
               /\ t.generation = IF layout THEN s.generation + 1 ELSE s.generation
<1>1. CASE layout
  BY <1>1 DEF Shaped, SameBut, StateFields, Invalidated, invalidateLayout
<1>2. CASE ~layout
  BY <1>2 DEF Shaped, SameBut, StateFields, Invalidated
<1> QED BY <1>1, <1>2

\* What that establishes.
TakenRight(s, t, next, scope, changed, layout) ==
    /\ SameBut(s, t, {"selected", "focused", "collapsed", "pinned", "conductor", "home", "root", "overrides",
                      "aggregates", "scope", "model", "stale", "generation", "flowPending", "interrupted"})
    /\ Owned(t) /\ t.model = next /\ t.scope = scope
    /\ Announced(t) /\ Carried(s, t, Kept(s, next, changed))
    /\ t.collapsed \in {{}, s.collapsed} /\ t.focused \in {{}, s.focused} /\ t.aggregates \in {Empty, s.aggregates}
    /\ t.generation = IF layout THEN s.generation + 1 ELSE s.generation
    /\ ~changed /\ s.root \in sameDevice(s.model, next) => t.root = s.root

\* The preferences taken over name agents of the new snapshot.
LEMMA TakenHolds ==
    ASSUME NEW s, Core(s), NEW next \in Models, NEW scope, NEW changed \in BOOLEAN, NEW layout \in BOOLEAN,
           ~changed => scope = s.scope
    PROVE  TakenRight(s, Taken(s, next, scope, changed, layout), next, scope, changed, layout)
<1> DEFINE kept == sameDevice(s.model, next)
           u == Invalidated(s, layout)
           v == Rescoped(u, changed)
           t == Adopted(v, next, scope, kept)
<1>0. /\ Shaped(s) /\ s.generation \in Nat /\ Prefs(s) /\ Homed(s)
      /\ kept \subseteq Ids(s) /\ kept \subseteq DOMAIN next.agents
  BY DEF Core, Owned, sameDevice, Ids
<1>1. /\ SameBut(s, u, {"generation", "flowPending", "interrupted"})
      /\ u.generation = IF layout THEN s.generation + 1 ELSE s.generation
  BY <1>0, InvalidatedFrame
<1> HIDE DEF u
<1>2. /\ SameBut(u, v, {"selected", "focused", "collapsed", "pinned", "conductor", "home",
                        "root", "overrides", "aggregates"})
      /\ ~changed => v = u
      /\ changed => /\ v.focused = {} /\ v.collapsed = {} /\ v.pinned = {} /\ v.conductor = NoOne
                    /\ v.home = None /\ v.root = NoOne /\ v.overrides = Empty /\ v.aggregates = Empty
  BY <1>1, RescopedFrame DEF SameBut
<1> HIDE DEF v
<1>3. /\ SameBut(v, t, {"pinned", "home", "conductor", "root", "overrides", "scope", "model", "stale"})
      /\ t.model = next /\ t.scope = scope /\ t.stale = (next.graph # v.analysis.sig)
      /\ t.pinned = v.pinned \cap kept
      /\ t.home = IF v.conductor \in kept THEN v.home ELSE None
      /\ t.conductor = IF v.conductor \in kept THEN v.conductor ELSE NoOne
      /\ t.root = IF v.root \in kept THEN v.root ELSE NoOne
      /\ t.overrides = Restrict(v.overrides, retainedOverrides(v, next))
  <2> HIDE DEF kept
  <2> QED BY <1>2, AdoptedFrame DEF SameBut
<1> HIDE DEF t
<1>4. /\ u.model = s.model /\ v.model = s.model /\ u.pinned = s.pinned /\ u.conductor = s.conductor
      /\ u.home = s.home /\ u.root = s.root /\ u.overrides = s.overrides
      /\ v.analysis = s.analysis /\ t.analysis = s.analysis /\ v.generation = u.generation
      /\ t.generation = v.generation /\ u.collapsed = s.collapsed /\ u.focused = s.focused
      /\ u.aggregates = s.aggregates /\ t.collapsed = v.collapsed /\ t.focused = v.focused
      /\ t.aggregates = v.aggregates /\ Shaped(t)
  BY <1>1, <1>2, <1>3 DEF SameBut, StateFields
<1>5. SameBut(s, t, {"selected", "focused", "collapsed", "pinned", "conductor", "home", "root", "overrides",
                     "aggregates", "scope", "model", "stale", "generation", "flowPending", "interrupted"})
  BY <1>1, <1>2, <1>3 DEF SameBut, StateFields
<1>6. retainedOverrides(v, next) = {a \in DOMAIN v.overrides : {a, v.overrides[a]} \subseteq kept}
  BY <1>4 DEF retainedOverrides
<1>7. /\ DOMAIN Empty = {}
      /\ DOMAIN t.overrides = retainedOverrides(v, next)
      /\ \A a \in DOMAIN t.overrides : t.overrides[a] = v.overrides[a]
      /\ t.overrides = [a \in DOMAIN t.overrides |-> t.overrides[a]]
  BY <1>3 DEF Empty, Restrict
<1> HIDE DEF kept
<1>8. /\ t.pinned \subseteq s.pinned \cap kept
      /\ t.conductor \in {NoOne} \cup ({s.conductor} \cap kept)
      /\ t.root \in {NoOne} \cup ({s.root} \cap kept)
      /\ \A a \in DOMAIN t.overrides :
            a \in DOMAIN s.overrides \cap kept /\ t.overrides[a] = s.overrides[a] /\ t.overrides[a] \in kept
  <2>1. CASE changed
    <3>1. v.pinned = {} /\ v.conductor = NoOne /\ v.root = NoOne /\ DOMAIN v.overrides = {}
      BY <1>2, <1>7, <2>1
    <3>2. DOMAIN t.overrides = {}
      BY <1>6, <1>7, <3>1
    <3>3. t.pinned = {} /\ t.conductor = NoOne /\ t.root = NoOne
      BY <1>3, <3>1
    <3> QED BY <3>2, <3>3
  <2>2. CASE ~changed
    <3>1. /\ v.pinned = s.pinned /\ v.conductor = s.conductor /\ v.root = s.root /\ v.overrides = s.overrides
      BY <1>2, <1>4, <2>2
    <3>2. /\ t.pinned \subseteq s.pinned \cap kept
          /\ t.conductor \in {NoOne} \cup ({s.conductor} \cap kept)
          /\ t.root \in {NoOne} \cup ({s.root} \cap kept)
      BY <1>3, <3>1
    <3>3. DOMAIN t.overrides = {a \in DOMAIN s.overrides : {a, s.overrides[a]} \subseteq kept}
      BY <1>6, <1>7, <3>1
    <3>4. \A a \in DOMAIN t.overrides :
            a \in DOMAIN s.overrides \cap kept /\ t.overrides[a] = s.overrides[a] /\ t.overrides[a] \in kept
      BY <1>7, <3>1, <3>3
    <3> QED BY <3>2, <3>4
  <2> QED BY <2>1, <2>2
<1>9. changed => t.pinned = {} /\ t.conductor = NoOne /\ t.root = NoOne /\ DOMAIN t.overrides = {}
  BY <1>2, <1>3, <1>6, <1>7
<1>10. Carried(s, t, Kept(s, next, changed))
  BY <1>8, <1>9 DEF Carried, Kept, kept
<1>11. Prefs(t)
  <2>1. t.overrides \in ParentChoices(DOMAIN next.agents)
    BY <1>0, <1>7, <1>8, ChoicesAreFunctions
  <2> QED BY <1>0, <1>3, <1>8, <2>1 DEF Prefs, Ids
<1>12. Homed(t)
  <2>1. CASE changed
    BY <1>2, <1>3, <2>1 DEF Homed
  <2>2. CASE ~changed
    <3>1. t.home = None \/ t.home = s.home
      BY <1>2, <1>3, <1>4, <2>2
    <3> QED BY <1>0, <1>3, <2>2, <3>1 DEF Homed
  <2> QED BY <2>1, <2>2
<1>13. Owned(t)
  <2>1. t.generation \in Nat
    BY <1>0, <1>1, <1>4
  <2> QED BY <1>3, <1>4, <1>11, <1>12, <2>1 DEF Owned
<1>14. Announced(t)
  <2>1. t.stale = (next.graph # t.analysis.sig) /\ t.model.graph = next.graph
    BY <1>3, <1>4
  <2> QED BY <2>1 DEF Announced
<1>15. t.collapsed \in {{}, s.collapsed} /\ t.focused \in {{}, s.focused} /\ t.aggregates \in {Empty, s.aggregates}
  BY <1>2, <1>4
<1>16. t.generation = IF layout THEN s.generation + 1 ELSE s.generation
  BY <1>1, <1>4
<1>17. ~changed /\ s.root \in kept => t.root = s.root
  BY <1>2, <1>3, <1>4
<1> QED BY <1>3, <1>5, <1>10, <1>13, <1>14, <1>15, <1>16, <1>17 DEF TakenRight, Taken, t, u, v, kept

\* The whole refresh as a function of the state.
Refreshed(s, next, scope, changed, narrower, layout) ==
    Relaid(Repainted(Reinferred(Ungrouped(Regrouped(Taken(s, next, scope, changed, layout), layout),
                                          narrower), layout),
                     IF changed THEN Empty ELSE s.base), layout)

\* What is known of a refresh when it is applied.
Occasion(s, next, scope, changed, narrower, layout) ==
    /\ changed \in BOOLEAN /\ narrower \in BOOLEAN /\ layout \in BOOLEAN
    /\ ~changed => scope = s.scope
    /\ ~layout => ~changed /\ canDeferRefresh(s.model, next) /\ DOMAIN s.model.agents = DOMAIN next.agents

\* What a refresh establishes.
RefreshedRight(s, t, next, scope, changed, layout) ==
    /\ View(t) /\ t.model = next /\ t.scope = scope
    /\ t.pending = s.pending /\ t.dragging = s.dragging /\ t.mode = s.mode
    /\ Carried(s, t, Kept(s, next, changed))
    /\ t.generation \in Nat
    /\ layout => t.generation > s.generation
    /\ ~layout => t.generation = s.generation /\ t.root = s.root

\* A narrower snapshot drops the communities' state.
LEMMA UngroupedFrame ==
    ASSUME NEW s, Shaped(s), NEW narrower \in BOOLEAN
    PROVE  LET t == Ungrouped(s, narrower)
           IN  /\ SameBut(s, t, {"aggregates", "collapsed", "focused"})
               /\ t.collapsed \in {{}, s.collapsed} /\ t.focused \in {{}, s.focused}
               /\ t.aggregates \in {Empty, s.aggregates}
<1>1. CASE narrower
  BY <1>1 DEF Shaped, SameBut, StateFields, Ungrouped
<1>2. CASE ~narrower
  BY <1>2 DEF Shaped, SameBut, StateFields, Ungrouped
<1> QED BY <1>1, <1>2

\* The preferences are those taken over; groups and drawing fit the model.
LEMMA RegroupedHolds ==
    ASSUME NEW s, Core(s), NEW next \in Models, NEW scope, NEW changed, NEW narrower, NEW layout,
           Occasion(s, next, scope, changed, narrower, layout)
    PROVE  LET t == Taken(s, next, scope, changed, layout)
               u == Ungrouped(Regrouped(t, layout), narrower)
           IN  /\ SameBut(t, u, {"analysis", "stale", "collapsed", "aggregates", "focused"})
               /\ Owned(u) /\ Groups(u) /\ Announced(u)
<1> DEFINE t == Taken(s, next, scope, changed, layout)
           r == Regrouped(t, layout)
           u == Ungrouped(r, narrower)
<1>0. /\ changed \in BOOLEAN /\ narrower \in BOOLEAN /\ layout \in BOOLEAN
      /\ ~changed => scope = s.scope
      /\ ~layout => DOMAIN s.model.agents = DOMAIN next.agents
  BY DEF Occasion
<1>1. TakenRight(s, t, next, scope, changed, layout)
  BY <1>0, TakenHolds
<1> HIDE DEF t
<1>2. Shaped(t) /\ Owned(t) /\ t.model = next /\ Announced(t)
  BY <1>1 DEF TakenRight, Owned
<1>3. /\ SameBut(t, r, {"analysis", "stale", "collapsed", "aggregates", "focused"})
      /\ Groups(r) /\ Announced(r)
  <2>1. CASE layout
    <3>1. r = Recomputed(t, TRUE)
      BY <2>1 DEF Regrouped
    <3> HIDE DEF r
    <3> QED BY <1>2, <3>1, RecomputeHolds
  <2>2. CASE ~layout
    <3>1. r = t
      BY <2>2 DEF Regrouped, Recomputed
    <3>2. t.analysis = s.analysis /\ Ids(t) = Ids(s)
      BY <1>0, <1>1, <1>2, <2>2 DEF TakenRight, SameBut, StateFields, Ids
    <3>3. /\ t.collapsed \in {{}, s.collapsed} /\ t.focused \in {{}, s.focused}
          /\ t.aggregates \in {Empty, s.aggregates} /\ DOMAIN Empty = {}
      BY <1>1 DEF TakenRight, Empty
    <3>4. Groups(t)
      BY <3>2, <3>3 DEF Core, Groups
    <3>5. SameBut(t, t, {"analysis", "stale", "collapsed", "aggregates", "focused"})
      BY <1>2 DEF SameBut
    <3> QED BY <1>2, <3>1, <3>4, <3>5
  <2> QED BY <1>0, <2>1, <2>2
<1> HIDE DEF r
<1>4. /\ SameBut(r, u, {"aggregates", "collapsed", "focused"})
      /\ u.collapsed \in {{}, r.collapsed} /\ u.focused \in {{}, r.focused}
      /\ u.aggregates \in {Empty, r.aggregates} /\ DOMAIN Empty = {}
  <2>1. Shaped(r)
    BY <1>3 DEF SameBut
  <2>2. DOMAIN Empty = {}
    BY DEF Empty
  <2> QED BY <1>0, <2>1, <2>2, UngroupedFrame
<1> HIDE DEF u
<1>5. /\ SameBut(t, u, {"analysis", "stale", "collapsed", "aggregates", "focused"})
      /\ Shaped(u)
      /\ u.analysis = r.analysis /\ u.stale = r.stale /\ u.model = t.model /\ u.scope = t.scope
      /\ r.model = t.model /\ u.generation = t.generation /\ u.pinned = t.pinned
      /\ u.conductor = t.conductor /\ u.root = t.root /\ u.overrides = t.overrides /\ u.home = t.home
  BY <1>3, <1>4 DEF SameBut, StateFields
<1>6. Owned(u)
  BY <1>2, <1>5 DEF Owned, Prefs, Homed, Ids
<1>7. Groups(u)
  BY <1>3, <1>4, <1>5 DEF Groups, Ids
<1>8. Announced(u)
  BY <1>3, <1>5 DEF Announced
<1> QED BY <1>5, <1>6, <1>7, <1>8 DEF t, r, u

\* A refresh without a layout keeps the hierarchy: it still is one.
LEMMA ForestStays ==
    ASSUME NEW m \in Models, NEW n \in Models, canDeferRefresh(m, n), DOMAIN m.agents = DOMAIN n.agents,
           NEW flow, IsForest(m.graph, flow)
    PROVE  IsForest(n.graph, flow)
<1>1. Read(m) /\ Read(n)
  BY ModelIsRead
<1>2. m.graph.ids = n.graph.ids
  BY <1>1 DEF Read
<1>3. \A a : neighborsFor(m.graph, a) \subseteq neighborsFor(n.graph, a)
  BY NeighborsStay
<1> QED BY <1>2, <1>3 DEF IsForest

\* The hierarchy fits the new graph, inferred again or not.
LEMMA ReinferredHolds ==
    ASSUME NEW s, View(s), NEW next \in Models, NEW scope, NEW changed, NEW narrower, NEW layout,
           Occasion(s, next, scope, changed, narrower, layout),
           NEW u, Owned(u), Groups(u), Announced(u), u.model = next, u.flow = s.flow,
           \A a \in DOMAIN u.overrides : a \in DOMAIN s.overrides /\ u.overrides[a] = s.overrides[a]
    PROVE  LET t == Reinferred(u, layout)
           IN  /\ SameBut(u, t, {"flow", "overrides"})
               /\ Owned(t) /\ Groups(t) /\ Announced(t) /\ Forest(t) /\ Honoured(t)
               /\ \A a \in DOMAIN t.overrides : a \in DOMAIN u.overrides /\ t.overrides[a] = u.overrides[a]
<1> DEFINE t == Reinferred(u, layout)
<1>1. CASE layout
  <2>1. t = inferCurrentFlow(u)
    BY <1>1 DEF Reinferred
  <2> HIDE DEF t
  <2>2. /\ SameBut(u, t, {"flow", "overrides"})
        /\ Owned(t) /\ Forest(t) /\ Honoured(t)
        /\ \A a \in DOMAIN t.overrides : a \in DOMAIN u.overrides /\ t.overrides[a] = u.overrides[a]
    BY <2>1, InferHolds
  <2>3. /\ t.model = u.model /\ t.analysis = u.analysis /\ t.stale = u.stale /\ t.collapsed = u.collapsed
        /\ t.aggregates = u.aggregates /\ t.focused = u.focused
    BY <2>2 DEF SameBut, StateFields
  <2>4. Groups(t) /\ Announced(t)
    BY <2>3 DEF Groups, Announced, Ids
  <2> QED BY <2>2, <2>4 DEF t
<1>2. CASE ~layout
  <2>1. t = u
    BY <1>2 DEF Reinferred
  <2>2. canDeferRefresh(s.model, next) /\ DOMAIN s.model.agents = DOMAIN next.agents
    BY <1>2 DEF Occasion
  <2>3. s.model \in Models /\ IsForest(s.model.graph, s.flow)
    BY DEF View, Core, Owned, Forest
  <2>4. Forest(u)
    BY <2>2, <2>3, ForestStays DEF Forest
  <2>5. Honoured(u)
    BY DEF View, Honoured
  <2>6. SameBut(u, u, {"flow", "overrides"})
    BY DEF SameBut, Owned
  <2> QED BY <2>1, <2>4, <2>5, <2>6
<1> QED BY <1>1, <1>2 DEF Occasion

\* A refresh restores the invariant and takes preferences over as it should.
LEMMA RefreshedHolds ==
    ASSUME NEW s, View(s), NEW next \in Models, NEW scope, NEW changed, NEW narrower, NEW layout,
           Occasion(s, next, scope, changed, narrower, layout)
    PROVE  /\ RefreshedRight(s, Refreshed(s, next, scope, changed, narrower, layout), next, scope, changed, layout)
           /\ Tagged(scope, IF changed THEN Empty ELSE s.base)
<1> DEFINE t == Taken(s, next, scope, changed, layout)
           u == Ungrouped(Regrouped(t, layout), narrower)
           w == Reinferred(u, layout)
           previous == IF changed THEN Empty ELSE s.base
           x == place(w, previous)
           y == present(x)
           z == Relaid(y, layout)
<1>1. z = Refreshed(s, next, scope, changed, narrower, layout)
  BY DEF Refreshed, Repainted
<1>2. /\ changed \in BOOLEAN /\ narrower \in BOOLEAN /\ layout \in BOOLEAN
      /\ ~changed => scope = s.scope
      /\ ~layout => ~changed /\ canDeferRefresh(s.model, next)
  BY DEF Occasion
<1>3. Core(s) /\ Cards(s) /\ s.model \in Models /\ s.root \in Ids(s) \cup {NoOne} /\ s.generation \in Nat
  BY DEF View, Core, Owned, Prefs
<1>4. TakenRight(s, t, next, scope, changed, layout)
  BY <1>2, <1>3, TakenHolds
<1>5. /\ SameBut(t, u, {"analysis", "stale", "collapsed", "aggregates", "focused"})
      /\ Owned(u) /\ Groups(u) /\ Announced(u)
  BY <1>3, RegroupedHolds
<1>6. Tagged(scope, previous)
  <2>1. Tagged(s.scope, s.base)
    BY <1>3, CardsAreTagged
  <2>2. Tagged(scope, Empty)
    BY DEF Tagged, Empty
  <2> QED BY <1>2, <2>1, <2>2
<1> HIDE DEF t, u, z, previous
<1>7. /\ t.model = next /\ t.scope = scope /\ Carried(s, t, Kept(s, next, changed))
      /\ t.generation = IF layout THEN s.generation + 1 ELSE s.generation
      /\ ~changed /\ s.root \in sameDevice(s.model, next) => t.root = s.root
  BY <1>4 DEF TakenRight
<1>8. t.flow = s.flow /\ t.pending = s.pending /\ t.dragging = s.dragging /\ t.mode = s.mode
  BY <1>4 DEF TakenRight, SameBut, StateFields
<1>9. /\ u.model = t.model /\ u.scope = t.scope /\ u.flow = t.flow /\ u.pending = t.pending
      /\ u.dragging = t.dragging /\ u.mode = t.mode /\ u.generation = t.generation
      /\ u.pinned = t.pinned /\ u.conductor = t.conductor /\ u.root = t.root /\ u.overrides = t.overrides
  BY <1>5 DEF SameBut, StateFields
<1>10. \A a \in DOMAIN u.overrides : a \in DOMAIN s.overrides /\ u.overrides[a] = s.overrides[a]
  BY <1>7, <1>9 DEF Carried
<1>11. /\ SameBut(u, w, {"flow", "overrides"})
       /\ Owned(w) /\ Groups(w) /\ Announced(w) /\ Forest(w) /\ Honoured(w)
       /\ \A a \in DOMAIN w.overrides : a \in DOMAIN u.overrides /\ w.overrides[a] = u.overrides[a]
  BY <1>5, <1>7, <1>8, <1>9, <1>10, ReinferredHolds
<1> HIDE DEF w
<1>12. /\ w.model = u.model /\ w.scope = u.scope /\ w.pending = u.pending
       /\ w.dragging = u.dragging /\ w.mode = u.mode /\ w.generation = u.generation
       /\ w.pinned = u.pinned /\ w.conductor = u.conductor /\ w.root = u.root
  BY <1>11 DEF SameBut, StateFields
<1>13. SameBut(w, x, {"base"}) /\ Cards(x)
  BY <1>6, <1>7, <1>9, <1>11, <1>12, PlaceHolds DEF Owned
<1> HIDE DEF x
<1>14. /\ x.model = w.model /\ x.scope = w.scope /\ x.pending = w.pending
       /\ x.dragging = w.dragging /\ x.mode = w.mode /\ x.generation = w.generation
       /\ x.pinned = w.pinned /\ x.conductor = w.conductor /\ x.root = w.root /\ x.overrides = w.overrides
       /\ x.home = w.home /\ x.analysis = w.analysis /\ x.stale = w.stale /\ x.collapsed = w.collapsed
       /\ x.aggregates = w.aggregates /\ x.focused = w.focused /\ x.flow = w.flow /\ Shaped(x)
  BY <1>13 DEF SameBut, StateFields
<1>15. Charted(x)
  <2>1. Owned(x) /\ Groups(x) /\ Announced(x)
    BY <1>11, <1>14 DEF Owned, Prefs, Homed, Groups, Announced, Ids
  <2>2. Forest(x) /\ Honoured(x)
    BY <1>11, <1>14 DEF Forest, Honoured
  <2> QED BY <1>13, <2>1, <2>2 DEF Charted, Core
<1>16. View(y) /\ Alike(x, y)
  BY <1>15, Shows
<1>17. SameBut(x, y, {"nodes", "selected"})
  BY <1>14, PresentFrame
<1> HIDE DEF y
<1>18. y.pinned = x.pinned /\ y.conductor = x.conductor /\ y.overrides = x.overrides
  BY <1>17 DEF SameBut, StateFields
<1>19. Carried(s, y, Kept(s, next, changed))
  <2>1. y.root = t.root /\ y.pinned = t.pinned /\ y.conductor = t.conductor
    BY <1>9, <1>12, <1>14, <1>16, <1>18 DEF Alike
  <2>2. \A a \in DOMAIN y.overrides : a \in DOMAIN t.overrides /\ y.overrides[a] = t.overrides[a]
    BY <1>9, <1>11, <1>14, <1>18
  <2> HIDE DEF Kept
  <2> QED BY <1>7, <2>1, <2>2 DEF Carried
<1>20. /\ y.model = next /\ y.scope = scope /\ y.pending = s.pending /\ y.dragging = s.dragging
       /\ y.mode = s.mode /\ y.root = t.root /\ y.generation = t.generation
  BY <1>7, <1>8, <1>9, <1>12, <1>14, <1>16 DEF Alike
<1>21. y.generation \in Nat /\ (layout => y.generation > s.generation) /\ (~layout => y.generation = s.generation)
  BY <1>2, <1>3, <1>7, <1>20
<1>22. ~layout => y.root = s.root
  <2>1. SUFFICES ASSUME ~layout PROVE t.root = s.root
    BY <1>20
  <2>2. CASE s.root \in Ids(s)
    <3>1. s.root \in sameDevice(s.model, next)
      BY <1>2, <1>3, <2>1, <2>2, NeighborsStay DEF sameDevice, Ids
    <3> QED BY <1>2, <1>7, <2>1, <3>1
  <2>3. CASE s.root = NoOne
    BY <1>7, <2>3 DEF Carried
  <2> QED BY <1>3, <2>2, <2>3
<1>23. CASE z = y
  BY <1>1, <1>6, <1>16, <1>19, <1>20, <1>21, <1>22, <1>23 DEF RefreshedRight, previous
<1>24. CASE z = computeFlow(y) /\ layout
  <2>1. View(z) /\ Later(y, z)
    BY <1>16, <1>24, ComputedHolds
  <2>2. SameBut(y, z, {"generation", "interrupted", "flowPending"})
    <3>1. Shaped(y)
      BY <1>17 DEF SameBut
    <3> QED BY <1>24, <3>1 DEF Shaped, SameBut, StateFields, computeFlow
  <2>3. z.pinned = y.pinned /\ z.conductor = y.conductor /\ z.overrides = y.overrides /\ z.root = y.root
    BY <2>2 DEF SameBut, StateFields
  <2>4. Carried(s, z, Kept(s, next, changed))
    BY <1>19, <2>3 DEF Carried
  <2>5. z.generation \in Nat /\ z.generation > s.generation
    BY <1>3, <1>21, <1>24, <2>1 DEF Later
  <2> QED BY <1>1, <1>6, <1>20, <1>24, <2>1, <2>4, <2>5 DEF RefreshedRight, Later, previous
<1>25. z = y \/ (z = computeFlow(y) /\ layout)
  BY DEF Relaid, z
<1> QED BY <1>23, <1>24, <1>25

\* The state in which nothing is shown.
Blank(t) ==
    /\ View(t) /\ t.model = NoModel /\ t.scope = NoScope /\ t.pinned = {} /\ t.conductor = NoOne
    /\ t.root = NoOne /\ DOMAIN t.overrides = {}

\* It satisfies the invariant.
LEMMA NothingShown ==
    ASSUME NEW t, Shaped(t), t.generation \in Nat, t.model = NoModel, t.scope = NoScope,
           t.analysis = analyzeGraph(NoModel), t.stale = FALSE, t.selected = NoNode, t.focused = {},
           t.conductor = NoOne, t.home = None, t.root = NoOne, t.overrides = Empty,
           t.flow = Hierarchy[NoModel.graph][NoOne][Empty], t.collapsed = {}, t.pinned = {},
           t.aggregates = Empty, t.base = Empty,
           t.nodes = [agents |-> Empty, groups |-> Empty, edges |-> {}]
    PROVE  Blank(t)
<1>0. DOMAIN Empty = {} /\ NoModel \in Models
  BY DEF Empty, Models
<1>1. Ids(t) = {}
  BY <1>0 DEF Ids, NoModel
<1>2. Owned(t)
  <2>1. t.overrides \in ParentChoices(Ids(t))
    <3>1. t.overrides = [a \in DOMAIN t.overrides |-> t.overrides[a]]
      BY DEF Empty
    <3> QED BY <1>0, <3>1, ChoicesAreFunctions
  <2> QED BY <1>0, <2>1 DEF Owned, Prefs, Homed
<1>3. Groups(t) /\ Announced(t)
  <2>1. t.analysis.groups = makeCommunities(NoModel.graph) /\ t.analysis.sig = NoModel.graph
    BY DEF analyzeGraph, graphSignature
  <2>2. UNION makeCommunities(NoModel.graph) \subseteq Ids(t)
    BY <1>0, CommunitiesAreOfAgents DEF Ids
  <2> QED BY <1>0, <1>1, <2>1, <2>2 DEF Groups, Announced
<1>4. Cards(t)
  BY <1>0 DEF Cards
<1>5. Forest(t)
  <2> DEFINE asked == [graph |-> NoModel.graph, root |-> NoOne, overrides |-> Empty]
  <2>1. asked.graph \in Graphs /\ asked.root \in Agent \cup {NoOne}
    BY <1>0, GraphsAreOfModels
  <2>2. asked.overrides \in ParentChoices(Agent)
    <3>1. Empty = [a \in DOMAIN Empty |-> Empty[a]]
      BY DEF Empty
    <3> QED BY <1>0, <3>1, ChoicesAreFunctions
  <2>3. FlowFor(asked) = t.flow
    BY DEF FlowFor
  <2>4. asked.graph = NoModel.graph
    OBVIOUS
  <2> HIDE DEF asked
  <2>5. FlowFor(asked) = inferFlow(asked.graph, asked.root, asked.overrides)
    BY <2>1, <2>2, FlowIsInferred
  <2>6. Weighed(NoModel.graph)
    BY <1>0, ModelIsRead DEF Read
  <2> QED BY <2>3, <2>4, <2>5, <2>6, FlowIsForest DEF Forest
<1>6. Honoured(t) /\ Shown(t) /\ Picked(t)
  BY <1>0 DEF Honoured, Shown, Picked, NoNode
<1> QED BY <1>0, <1>2, <1>3, <1>4, <1>5, <1>6 DEF Blank, View, Core

\* clear leads to it.
LEMMA ClearedHolds ==
    ASSUME NEW s, Shaped(s), s.generation \in Nat
    PROVE  LET t == Cleared(s)
           IN  /\ Blank(t) /\ t.pending = None /\ t.generation = s.generation + 1 /\ Shaped(t)
<1> DEFINE t == Cleared(s)
           u == invalidateLayout(s)
<1>1. SameBut(s, u, {"generation", "flowPending"}) /\ u.generation = s.generation + 1
  BY DEF Shaped, SameBut, StateFields, invalidateLayout
<1>2. t = [u EXCEPT
        !.dragging = FALSE, !.pending = None, !.scope = NoScope, !.selected = NoNode,
        !.focused = {}, !.conductor = NoOne, !.home = None, !.root = NoOne, !.overrides = Empty,
        !.flow = Hierarchy[NoModel.graph][NoOne][Empty], !.collapsed = {}, !.pinned = {},
        !.aggregates = Empty, !.base = Empty, !.model = NoModel, !.interrupted = FALSE,
        !.nodes = [agents |-> Empty, groups |-> Empty, edges |-> {}],
        !.analysis = analyzeGraph(NoModel), !.stale = FALSE]
  BY Zenon DEF Cleared
<1> HIDE DEF t, u
<1>3. /\ Shaped(t) /\ t.generation = u.generation /\ t.pending = None
      /\ t.model = NoModel /\ t.scope = NoScope
      /\ t.analysis = analyzeGraph(NoModel) /\ t.stale = FALSE /\ t.selected = NoNode /\ t.focused = {}
      /\ t.conductor = NoOne /\ t.home = None /\ t.root = NoOne /\ t.overrides = Empty
      /\ t.flow = Hierarchy[NoModel.graph][NoOne][Empty] /\ t.collapsed = {} /\ t.pinned = {}
      /\ t.aggregates = Empty /\ t.base = Empty
      /\ t.nodes = [agents |-> Empty, groups |-> Empty, edges |-> {}]
  BY <1>1, <1>2 DEF Shaped, SameBut, StateFields
<1>4. Blank(t)
  <2>1. t.generation \in Nat
    BY <1>1, <1>3
  <2> QED BY <1>3, <2>1, NothingShown
<1> QED BY <1>1, <1>3, <1>4 DEF t

\* The state that a finished layout is committed to.
CommittedOf(s, job) ==
    [WithFlow(s, FlowFor(job.asked)) EXCEPT
                !.base = layoutNodes(s.model, job.previous), !.aggregates = Empty,
                !.flowPending = FALSE, !.stale = graphSignature(s.model) # s.analysis.sig]

\* Committing one for the present graph and root restores the invariant.
LEMMA CommittedHolds ==
    ASSUME NEW s, View(s), NEW job, Asks(s, job.asked), job.asked.root = s.root, Tagged(s.scope, job.previous)
    PROVE  LET t == present(CommittedOf(s, job))
           IN  View(t) /\ Alike(s, t) /\ t.flow = FlowNow(t)
<1> DEFINE u == WithFlow(s, FlowFor(job.asked))
           stale == graphSignature(s.model) # s.analysis.sig
           v == CommittedOf(s, job)
           t == present(v)
<1>1. Answered(s, u, job.asked)
  BY WithFlowHolds
<1>2. v = [u EXCEPT !.base = layoutNodes(s.model, job.previous), !.aggregates = Empty,
                    !.flowPending = FALSE, !.stale = stale]
  BY DEF CommittedOf
<1>3. stale = (s.analysis.sig # s.model.graph)
  BY DEF graphSignature
<1> HIDE DEF u, v, stale
<1>4. /\ SameBut(s, u, {"flow", "overrides"}) /\ Forest(u) /\ Honoured(u) /\ u.overrides \in ParentChoices(Ids(s))
      /\ u.flow = FlowFor([graph |-> s.model.graph, root |-> s.root, overrides |-> u.overrides])
  BY <1>1 DEF Answered
<1>5. /\ SameBut(u, v, {"base", "aggregates", "flowPending", "stale"})
      /\ v.base = layoutNodes(s.model, job.previous) /\ v.aggregates = Empty /\ v.stale = stale
  BY <1>2, <1>4 DEF Shaped, SameBut, StateFields
<1>6. /\ Shaped(v) /\ v.model = s.model /\ v.scope = s.scope /\ v.pending = s.pending /\ v.dragging = s.dragging
      /\ v.generation = s.generation /\ v.root = s.root /\ v.mode = s.mode
      /\ v.analysis = s.analysis /\ v.pinned = s.pinned /\ v.conductor = s.conductor /\ v.home = s.home
      /\ v.collapsed = s.collapsed /\ v.focused = s.focused
      /\ v.overrides = u.overrides /\ v.flow = u.flow /\ u.model = s.model
  BY <1>4, <1>5 DEF SameBut, StateFields
<1>7. Owned(v)
  BY <1>4, <1>6 DEF View, Core, Owned, Prefs, Homed, Ids
<1>8. Groups(v)
  <2>1. DOMAIN v.aggregates = {}
    BY <1>5 DEF Empty
  <2> QED BY <1>6, <2>1 DEF View, Core, Groups, Ids
<1>9. Cards(v)
  BY <1>5, <1>6, LaidOut DEF Cards, Ids
<1>10. Announced(v)
  <2>1. v.stale = (v.analysis.sig # v.model.graph)
    BY <1>3, <1>5, <1>6
  <2> QED BY <2>1 DEF Announced
<1>11. Forest(v) /\ Honoured(v)
  BY <1>4, <1>6 DEF Forest, Honoured
<1>12. Charted(v)
  BY <1>7, <1>8, <1>9, <1>10, <1>11 DEF Charted, Core
<1>13. View(t) /\ Alike(v, t)
  BY <1>12, Shows
<1>14. SameBut(v, t, {"nodes", "selected"})
  BY <1>6, PresentFrame
<1> HIDE DEF t
<1>15. t.flow = v.flow /\ t.overrides = v.overrides /\ t.model = v.model /\ t.root = v.root
  BY <1>14 DEF SameBut, StateFields
<1>16. Asked(t) = [graph |-> s.model.graph, root |-> s.root, overrides |-> u.overrides]
  BY <1>6, <1>15 DEF Asked
<1>17. t.flow = FlowNow(t)
  BY <1>4, <1>6, <1>15, <1>16 DEF FlowNow
<1>18. Alike(s, t)
  BY <1>6, <1>13 DEF Alike
<1> QED BY <1>13, <1>17, <1>18 DEF t, v

-----------------------------------------------------------------------------
(* Identity *)

\* An agent that is the same in both states, and preferences that only name
\* such agents.
Still(s, t, a) ==
    /\ a \in Ids(s) /\ a \in Ids(t) /\ s.scope = t.scope
    /\ s.model.agents[a].device = t.model.agents[a].device
Faithful(s, t) ==
    /\ \A a \in s.pinned \cap t.pinned : Still(s, t, a)
    /\ s.root # NoOne /\ t.root = s.root => Still(s, t, s.root)
    /\ s.conductor # NoOne /\ t.conductor = s.conductor => Still(s, t, s.conductor)
    /\ \A a \in DOMAIN s.overrides \cap DOMAIN t.overrides :
          s.overrides[a] = t.overrides[a] => Still(s, t, a) /\ Still(s, t, s.overrides[a])

\* While the model stays, preferences cannot name another agent.
LEMMA SameModelIsFaithful ==
    ASSUME NEW s, NEW t, View(s), t.model = s.model, t.scope = s.scope
    PROVE  Faithful(s, t)
<1>1. \A a \in Ids(s) : Still(s, t, a)
  BY DEF Still, Ids
<1>2. Prefs(s)
  BY DEF View, Core, Owned
<1>3. \A a \in DOMAIN s.overrides : a \in Ids(s) /\ s.overrides[a] \in Ids(s)
  BY <1>2, ChoicesAreFunctions DEF Prefs
<1> QED BY <1>1, <1>2, <1>3 DEF Faithful, Prefs

\* A refresh takes preferences over for the same agents only.
LEMMA RefreshIsFaithful ==
    ASSUME NEW s, NEW c, NEW t, NEW next, NEW scope, NEW layout,
           RefreshedRight(c, t, next, scope, scope # s.scope, layout),
           c.model = s.model, c.scope = s.scope, c.pinned = s.pinned, c.conductor = s.conductor,
           c.root = s.root, c.overrides = s.overrides,
           NoOne \notin Ids(s)
    PROVE  Faithful(s, t)
<1> DEFINE kept == Kept(c, next, scope # s.scope)
<1>1. /\ t.model = next /\ t.scope = scope /\ Carried(c, t, kept)
  BY DEF RefreshedRight
<1>2. \A a \in kept : Still(s, t, a)
  BY <1>1 DEF Kept, sameDevice, Still, Ids
<1>3. \A a \in kept : a \in Ids(s)
  BY DEF Kept, sameDevice, Ids
<1> HIDE DEF kept
<1> QED BY <1>1, <1>2, <1>3 DEF Faithful, Carried

\* An empty view has none.
LEMMA BlankIsFaithful ==
    ASSUME NEW s, NEW t, Blank(t)
    PROVE  Faithful(s, t)
BY DEF Faithful, Blank

-----------------------------------------------------------------------------
(* The jobs at the layout engine *)

\* A job of the present generation was asked for the present root, with cards
\* of this scope.
Job(s, job) ==
    /\ DOMAIN job = {"generation", "previous", "asked"}
    /\ job.generation \in Nat /\ job.generation <= s.generation
    /\ job.asked.graph \in Graphs /\ job.asked.root \in Agent \cup {NoOne}
    /\ job.asked.overrides \in ParentChoices(Agent)
    /\ job.generation = s.generation => job.asked.root = s.root /\ Tagged(s.scope, job.previous)
Work(s, queue) == \E S : queue \in Seq(S) /\ \A job \in S : Job(s, job)

\* Jobs stay as they are while no layout starts.
LEMMA WorkStays ==
    ASSUME NEW s, NEW t, NEW queue, Work(s, queue),
           t.generation = s.generation, t.root = s.root, t.scope = s.scope
    PROVE  Work(t, queue)
BY DEF Work, Job

\* When one does, all of them are of earlier generations.
LEMMA WorkAges ==
    ASSUME NEW s, NEW t, NEW queue, Work(s, queue),
           s.generation \in Nat, t.generation \in Nat, t.generation > s.generation
    PROVE  Work(t, queue)
<1>1. PICK S : queue \in Seq(S) /\ \A job \in S : Job(s, job)
  BY DEF Work
<1>2. \A job \in S : Job(t, job)
  BY <1>1 DEF Job
<1> QED BY <1>1, <1>2 DEF Work

\* A job is queued as the state asks it.
LEMMA WorkQueued ==
    ASSUME NEW s, NEW queue, Work(s, queue), Owned(s), NEW previous, Tagged(s.scope, previous)
    PROVE  Work(s, queue \o JobOf(s, previous))
<1> DEFINE job == [generation |-> s.generation, previous |-> previous, asked |-> Asked(s)]
<1>1. PICK S : queue \in Seq(S) /\ \A j \in S : Job(s, j)
  BY DEF Work
<1>2. /\ DOMAIN job = {"generation", "previous", "asked"}
      /\ job.generation = s.generation /\ job.previous = previous /\ job.asked = Asked(s)
  OBVIOUS
<1>3. JobOf(s, previous) = <<>> \/ JobOf(s, previous) = <<job>>
  BY DEF JobOf
<1> HIDE DEF job
<1>4. Job(s, job)
  BY <1>2, OwnedIsAskable DEF Job, Owned
<1>5. queue \o <<>> = queue /\ queue \o <<job>> \in Seq(S \cup {job}) /\ queue \in Seq(S \cup {job})
  <2>1. queue \in Seq(S \cup {job}) /\ <<job>> \in Seq(S \cup {job})
    BY <1>1
  <2>2. queue \o <<>> = queue
    BY <1>1
  <2> QED BY <2>1, <2>2
<1>6. \A j \in S \cup {job} : Job(s, j)
  BY <1>1, <1>4
<1> QED BY <1>3, <1>5, <1>6 DEF Work

\* The job in front, and what is left of the queue with and without it.
LEMMA WorkAnswered ==
    ASSUME NEW s, NEW queue, Work(s, queue), queue # <<>>, Owned(s)
    PROVE  /\ Job(s, Head(queue)) /\ Work(s, Tail(queue))
           /\ LET again == [Head(queue) EXCEPT !.asked = Asked(s)]
              IN  Head(queue).generation = s.generation => Work(s, Append(Tail(queue), again))
<1>1. PICK S : queue \in Seq(S) /\ \A j \in S : Job(s, j)
  BY DEF Work
<1>2. Head(queue) \in S /\ Tail(queue) \in Seq(S)
  BY <1>1
<1> DEFINE job == Head(queue)
           again == [job EXCEPT !.asked = Asked(s)]
<1>3. Job(s, job) /\ Work(s, Tail(queue))
  BY <1>1, <1>2 DEF Work
<1>4. ASSUME job.generation = s.generation
      PROVE  Work(s, Append(Tail(queue), again))
  <2>1. /\ DOMAIN again = DOMAIN job /\ again.generation = job.generation /\ again.previous = job.previous
        /\ again.asked = Asked(s)
    BY <1>3 DEF Job
  <2> HIDE DEF again, job
  <2>2. Job(s, again)
    BY <1>3, <1>4, <2>1, OwnedIsAskable DEF Job
  <2>3. Append(Tail(queue), again) \in Seq(S \cup {again})
    <3>1. Tail(queue) \in Seq(S \cup {again})
      BY <1>2
    <3> QED BY <3>1
  <2>4. \A j \in S \cup {again} : Job(s, j)
    BY <1>1, <2>2
  <2> QED BY <2>3, <2>4 DEF Work
<1> QED BY <1>3, <1>4

-----------------------------------------------------------------------------
(* The steps. *)

\* What the component shows is the last snapshot, or the one before it while
\* a card is held.
Follows(s, now) ==
    /\ now.model \in Models
    /\ IF s.pending = None THEN s.model = now.model /\ s.scope = now.scope
       ELSE s.dragging /\ s.pending = now /\ canDeferRefresh(s.model, now.model)

\* The inductive invariant, and what a step does to it.
ViewInv == View(app) /\ Follows(app, latest) /\ Work(app, jobs)
Moved == ViewInv' /\ Faithful(app, app')

\* NoOne is not the id of an agent.
LEMMA NoOneIsNoAgent ==
    ASSUME NEW s, View(s)
    PROVE  NoOne \notin Ids(s) /\ Ids(s) \subseteq Agent
BY ModelIsRead, ViewAssumption DEF View, Core, Owned, Read, Ids

\* Following the snapshots needs only four fields.
LEMMA FollowsAlike ==
    ASSUME NEW s, NEW t, NEW now, Follows(s, now), t.model = s.model, t.scope = s.scope,
           t.pending = s.pending, t.dragging = s.dragging
    PROVE  Follows(t, now)
BY DEF Follows

\* An operation of the person that starts no layout.
LEMMA PlainStep ==
    ASSUME ViewInv, View(app'), Alike(app, app'), jobs' = jobs, latest' = latest
    PROVE  Moved
<1>1. Follows(app', latest')
  BY FollowsAlike DEF ViewInv, Alike
<1>2. Work(app', jobs')
  BY WorkStays DEF ViewInv, Alike
<1>3. Faithful(app, app')
  BY SameModelIsFaithful DEF ViewInv, Alike
<1> QED BY <1>1, <1>2, <1>3 DEF Moved, ViewInv

\* A layout that arrange starts, from the state the operation made of app.
LEMMA ArrangeStep ==
    ASSUME ViewInv, NEW s, Arrangeable(s), NEW again \in BOOLEAN, arrange(s, again), latest' = latest,
           s.model = app.model, s.scope = app.scope, s.pending = app.pending, s.dragging = app.dragging,
           s.generation = app.generation
    PROVE  Moved
<1>1. /\ app' = Arranged(s, again)
      /\ jobs' = IF app'.mode = "flow" THEN jobs \o JobOf(app', Pinned(app')) ELSE jobs
  BY DEF arrange, Arranged
<1>2. View(app') /\ Later(s, app')
  BY <1>1, ArrangedHolds
<1>3. /\ app'.model = app.model /\ app'.scope = app.scope /\ app'.pending = app.pending
      /\ app'.dragging = app.dragging /\ app'.generation \in Nat /\ app'.generation > app.generation
  BY <1>2 DEF Later
<1>4. Follows(app', latest')
  BY <1>3, FollowsAlike DEF ViewInv
<1>5. Work(app', jobs)
  <2>1. app.generation \in Nat /\ Work(app, jobs)
    BY DEF ViewInv, View, Core, Owned
  <2> QED BY <1>3, <2>1, WorkAges
<1>6. Work(app', jobs')
  <2>1. Owned(app') /\ Tagged(app'.scope, Pinned(app'))
    BY <1>2, CardsAreTagged DEF View, Core
  <2> QED BY <1>1, <1>5, <2>1, WorkQueued
<1>7. Faithful(app, app')
  BY <1>3, SameModelIsFaithful DEF ViewInv
<1> QED BY <1>2, <1>4, <1>6, <1>7 DEF Moved, ViewInv

\* A refresh, at once or when the card is let go.
LEMMA RefreshStep ==
    ASSUME ViewInv, NEW s, View(s), NEW next \in Models, NEW scope, applyRefresh(s, next, scope),
           latest'.model = next, latest'.scope = scope, s.pending = None,
           s.model = app.model, s.scope = app.scope, s.generation = app.generation, s.root = app.root,
           s.pinned = app.pinned, s.conductor = app.conductor, s.overrides = app.overrides
    PROVE  Moved
<1> DEFINE c == capturePositions(s)
           changed == scope # s.scope
           narrower == ~canDeferRefresh(s.model, next)
           layout == changed \/ narrower \/ DOMAIN s.model.agents # DOMAIN next.agents
           previous == IF changed THEN Empty ELSE c.base
<1>1. View(c) /\ Alike(s, c)
  BY Captures
<1>2. SameBut(s, c, {"base", "aggregates"})
  BY CaptureFrame, ViewIsCharted
<1> HIDE DEF c
<1>3. /\ c.model = app.model /\ c.scope = app.scope /\ c.generation = app.generation /\ c.root = app.root
      /\ c.pinned = app.pinned /\ c.conductor = app.conductor /\ c.overrides = app.overrides
      /\ c.pending = None
  BY <1>2 DEF SameBut, StateFields
<1>4. /\ app' = Refreshed(c, next, scope, changed, narrower, layout)
      /\ jobs' = IF layout /\ app'.mode = "flow" /\ next.agents # Empty
                 THEN jobs \o JobOf(app', previous) ELSE jobs
  BY DEF applyRefresh, Refresh, Refreshed, Taken, c
<1>5. Occasion(c, next, scope, changed, narrower, layout)
  <2>1. c.model = s.model /\ c.scope = s.scope
    BY <1>1 DEF Alike
  <2> QED BY <2>1 DEF Occasion
<1>6. changed = (scope # app.scope)
  OBVIOUS
<1> HIDE DEF changed, narrower, layout
<1>7. /\ RefreshedRight(c, app', next, scope, changed, layout) /\ Tagged(scope, previous)
  BY <1>1, <1>4, <1>5, RefreshedHolds
<1> HIDE DEF previous
<1>8. /\ View(app') /\ app'.model = next /\ app'.scope = scope /\ app'.pending = None
      /\ app'.generation \in Nat
      /\ layout => app'.generation > app.generation
      /\ ~layout => app'.generation = app.generation /\ app'.root = app.root
  BY <1>3, <1>7 DEF RefreshedRight
<1>9. Follows(app', latest')
  BY <1>8 DEF Follows
<1>10. Work(app', jobs')
  <2>1. app.generation \in Nat /\ Work(app, jobs)
    BY DEF ViewInv, View, Core, Owned
  <2>2. CASE layout
    <3>1. Work(app', jobs)
      BY <1>8, <2>1, <2>2, WorkAges
    <3>2. Owned(app') /\ Tagged(app'.scope, previous)
      BY <1>7, <1>8 DEF View, Core
    <3> QED BY <1>4, <3>1, <3>2, WorkQueued
  <2>3. CASE ~layout
    <3>1. app'.scope = app.scope
      BY <1>3, <1>5, <1>8, <2>3 DEF Occasion
    <3> QED BY <1>4, <1>8, <2>1, <2>3, <3>1, WorkStays
  <2>4. layout \in BOOLEAN
    BY <1>5 DEF Occasion
  <2> QED BY <2>2, <2>3, <2>4
<1>11. Faithful(app, app')
  <2>1. NoOne \notin Ids(app)
    BY NoOneIsNoAgent DEF ViewInv
  <2>2. RefreshedRight(c, app', next, scope, scope # app.scope, layout)
    BY <1>6, <1>7
  <2> QED BY <1>3, <2>1, <2>2, RefreshIsFaithful
<1> QED BY <1>8, <1>9, <1>10, <1>11 DEF Moved, ViewInv

\* The view is emptied.
LEMMA BlankStep ==
    ASSUME ViewInv, Blank(app'), app'.pending = None, app'.generation \in Nat,
           app'.generation > app.generation, jobs' = jobs,
           latest' = [scope |-> NoScope, model |-> NoModel]
    PROVE  Moved
<1>1. Follows(app', latest')
  BY DEF Follows, Blank, Models
<1>2. Work(app', jobs')
  <2>1. app.generation \in Nat /\ Work(app, jobs)
    BY DEF ViewInv, View, Core, Owned
  <2> QED BY <2>1, WorkAges
<1>3. Faithful(app, app')
  BY BlankIsFaithful
<1> QED BY <1>1, <1>2, <1>3 DEF Moved, ViewInv, Blank

\* A card that is drawn is of a visible agent.
LEMMA DrawnAgent ==
    ASSUME NEW s, View(s), NEW a, AgentNode(a) \in Drawn(s)
    PROVE  a \in DOMAIN s.nodes.agents /\ a \in DOMAIN s.base /\ a \in Ids(s)
<1>1. a \in DOMAIN s.nodes.agents
  BY DEF Drawn, AgentNode, GroupNode
<1> QED BY <1>1 DEF View, Core, Cards, Shown

\* A community that is drawn has a card.
LEMMA DrawnGroup ==
    ASSUME NEW s, NEW c, GroupNode(c) \in Drawn(s)
    PROVE  c \in DOMAIN s.nodes.groups
BY DEF Drawn, AgentNode, GroupNode

\* Clicking a card before a button keeps the invariant.
LEMMA OpenedHolds ==
    ASSUME ViewInv, NEW a
    PROVE  View(Opened(a)) /\ Alike(app, Opened(a))
BY SelectedHolds DEF ViewInv, Opened

\* A layout may always start.
LEMMA ViewIsArrangeable ==
    ASSUME NEW s, View(s)
    PROVE  Arrangeable(s)
BY DEF View, Arrangeable

\* The host hands over a snapshot.
LEMMA UpdateStep ==
    ASSUME ViewInv, NEW raw \in Snapshots, update(raw)
    PROVE  Moved
<1> DEFINE next == Handed[raw]
<1>1. next \in Models
  BY DEF Models
<1>2. latest' = [scope |-> raw.scope, model |-> next] /\ latest' # None
  BY NoneAssumption DEF update
<1>3. View(app) /\ Core(app) /\ Shaped(app) /\ app.generation \in Nat /\ Follows(app, latest) /\ Work(app, jobs)
  BY DEF ViewInv, View, Core, Owned
<1>4. CASE Defers(next, raw.scope) /\ app' = [app EXCEPT !.pending = latest'] /\ jobs' = jobs
  <2>1. SameBut(app, app', {"pending"}) /\ app'.pending = latest'
    BY <1>3, <1>4 DEF Shaped, SameBut, StateFields
  <2>2. /\ app'.model = app.model /\ app'.scope = app.scope /\ app'.dragging = app.dragging
        /\ app'.generation = app.generation /\ app'.root = app.root
    BY <2>1 DEF SameBut, StateFields
  <2>3. View(app')
    <3>1. SameBut(app, app', Engine)
      BY <2>1 DEF SameBut, Engine
    <3> QED BY <1>3, <2>2, <3>1, EngineApart DEF View
  <2>4. Follows(app', latest')
    <3>1. app.dragging /\ canDeferRefresh(app.model, next)
      BY <1>4 DEF Defers
    <3> QED BY <1>1, <1>2, <2>1, <2>2, <3>1 DEF Follows
  <2>5. Work(app', jobs')
    BY <1>3, <1>4, <2>2, WorkStays
  <2>6. Faithful(app, app')
    BY <1>3, <2>2, SameModelIsFaithful
  <2> QED BY <2>3, <2>4, <2>5, <2>6 DEF Moved, ViewInv
<1>5. CASE applyRefresh([app EXCEPT !.dragging = FALSE, !.pending = None], next, raw.scope)
  <2> DEFINE s == [app EXCEPT !.dragging = FALSE, !.pending = None]
  <2>1. SameBut(app, s, {"dragging", "pending"}) /\ s.pending = None
    BY <1>3 DEF Shaped, SameBut, StateFields
  <2>2. applyRefresh(s, next, raw.scope)
    BY <1>5
  <2> HIDE DEF s, next
  <2>3. /\ s.model = app.model /\ s.scope = app.scope /\ s.generation = app.generation /\ s.root = app.root
        /\ s.pinned = app.pinned /\ s.conductor = app.conductor /\ s.overrides = app.overrides
    BY <2>1 DEF SameBut, StateFields
  <2>4. View(s)
    <3>1. SameBut(app, s, Engine)
      BY <2>1 DEF SameBut, Engine
    <3> QED BY <1>3, <2>3, <3>1, EngineApart DEF View
  <2>5. latest'.model = next /\ latest'.scope = raw.scope
    BY <1>2
  <2> QED BY <1>1, <2>1, <2>2, <2>3, <2>4, <2>5, RefreshStep
<1> QED BY <1>4, <1>5 DEF update

\* The host clears or destroys the component.
LEMMA ClearStep ==
    ASSUME ViewInv, clear \/ destroy
    PROVE  Moved
<1>1. Shaped(app) /\ app.generation \in Nat
  BY DEF ViewInv, View, Core, Owned
<1> DEFINE s == Cleared(app)
<1>2. Blank(s) /\ s.pending = None /\ s.generation = app.generation + 1 /\ Shaped(s)
  BY <1>1, ClearedHolds
<1>3. jobs' = jobs /\ latest' = [scope |-> NoScope, model |-> NoModel]
  BY DEF clear, destroy
<1>4. app' = s \/ app' = invalidateLayout(s)
  BY DEF clear, destroy
<1> HIDE DEF s
<1>5. CASE app' = s
  <2>1. app'.generation \in Nat /\ app'.generation > app.generation
    BY <1>1, <1>2, <1>5
  <2> QED BY <1>2, <1>3, <1>5, <2>1, BlankStep
<1>6. CASE app' = invalidateLayout(s)
  <2>1. SameBut(s, app', {"generation", "flowPending"}) /\ app'.generation = s.generation + 1
    BY <1>2, <1>6 DEF Shaped, SameBut, StateFields, invalidateLayout
  <2>2. app'.generation \in Nat /\ app'.generation > app.generation
    BY <1>1, <1>2, <2>1
  <2>3. /\ app'.model = s.model /\ app'.scope = s.scope /\ app'.pinned = s.pinned
        /\ app'.conductor = s.conductor /\ app'.root = s.root /\ app'.overrides = s.overrides
        /\ app'.pending = s.pending
    BY <2>1 DEF SameBut, StateFields
  <2>4. View(app')
    <3>1. SameBut(s, app', Engine)
      BY <2>1 DEF SameBut, Engine
    <3>2. View(s)
      BY <1>2 DEF Blank
    <3> QED BY <2>2, <3>1, <3>2, EngineApart DEF View
  <2>5. Blank(app')
    BY <1>2, <2>3, <2>4 DEF Blank
  <2> QED BY <1>2, <1>3, <2>2, <2>3, <2>5, BlankStep
<1> QED BY <1>4, <1>5, <1>6

\* A layout that ELK finishes is drawn only for what is shown and chosen now.
LEMMA ResolveStep ==
    ASSUME ViewInv, Resolve
    PROVE  Moved /\ (app' # app => app'.flow = FlowNow(app') /\ alive /\ app.mode = "flow" /\ ~app.dragging)
<1> DEFINE job == Head(jobs)
<1>1. jobs # <<>> /\ latest' = latest
  BY DEF Resolve
<1>2. View(app) /\ Owned(app) /\ Work(app, jobs)
  BY DEF ViewInv, View, Core
<1>3. /\ Job(app, job) /\ Work(app, Tail(jobs))
      /\ job.generation = app.generation => Work(app, Append(Tail(jobs), [job EXCEPT !.asked = Asked(app)]))
  BY <1>1, <1>2, WorkAnswered
<1>4. \/ jobs' = Tail(jobs) /\ app' = app
      \/ isCurrent(job) /\ jobs' = Append(Tail(jobs), Again(job)) /\ app' = app
      \/ isCurrent(job) /\ ~Outdated(job) /\ jobs' = Tail(jobs) /\ app' = present(Committed(job))
  BY DEF Resolve
<1>5. Again(job) = [job EXCEPT !.asked = Asked(app)]
  BY DEF Again
<1> HIDE DEF job
<1>6. isCurrent(job) => /\ job.generation = app.generation
                        /\ alive /\ app.mode = "flow" /\ ~app.dragging
  BY DEF isCurrent
<1>7. CASE app' = app /\ Work(app, jobs')
  <2>1. Work(app', jobs') /\ Follows(app', latest') /\ View(app')
    BY <1>1, <1>2, <1>7 DEF ViewInv
  <2>2. Faithful(app, app')
    BY <1>2, <1>7, SameModelIsFaithful
  <2> QED BY <1>7, <2>1, <2>2 DEF Moved, ViewInv
<1>8. CASE isCurrent(job) /\ ~Outdated(job) /\ jobs' = Tail(jobs) /\ app' = present(Committed(job))
  <2>1. Asks(app, job.asked) /\ job.asked.root = app.root /\ Tagged(app.scope, job.previous)
    <3>1. job.asked.graph = app.model.graph
      BY <1>8 DEF Outdated, graphSignature
    <3> QED BY <1>2, <1>3, <1>6, <1>8, <3>1 DEF Asks, Job, Owned
  <2>2. app' = present(CommittedOf(app, job))
    BY <1>8 DEF Committed, CommittedOf
  <2>3. View(app') /\ Alike(app, app') /\ app'.flow = FlowNow(app')
    BY <1>2, <2>1, <2>2, CommittedHolds
  <2>4. Follows(app', latest')
    BY <1>1, <2>3, FollowsAlike DEF ViewInv, Alike
  <2>5. Work(app', jobs')
    BY <1>3, <1>8, <2>3, WorkStays DEF Alike
  <2>6. Faithful(app, app')
    BY <1>2, <2>3, SameModelIsFaithful DEF Alike
  <2> QED BY <1>6, <1>8, <2>3, <2>4, <2>5, <2>6 DEF Moved, ViewInv
<1> QED BY <1>3, <1>4, <1>5, <1>6, <1>7, <1>8

\* The steps of the person, one lemma for each operation or two.
LEMMA SelectStep ==
    ASSUME ViewInv, NEW node, select(node)
    PROVE  Moved
<1>1. app' = Selected(app, node) /\ jobs' = jobs /\ latest' = latest
  BY DEF select, Operation, Plain
<1>2. View(app') /\ Alike(app, app')
  BY <1>1, SelectedHolds DEF ViewInv
<1> QED BY <1>1, <1>2, PlainStep

\* A community is focused or toggled.
LEMMA GroupStep ==
    ASSUME ViewInv, NEW c \in app.analysis.groups, selectGroup(c) \/ toggleGroup(c)
    PROVE  Moved
<1>1. app' \in {focusGroup(app, c), Toggled(app, c)} /\ jobs' = jobs /\ latest' = latest
  BY DEF selectGroup, toggleGroup, Operation, Plain
<1>2. View(app') /\ Alike(app, app')
  BY <1>1, FocusHolds, ToggledHolds DEF ViewInv
<1> QED BY <1>1, <1>2, PlainStep

\* The communities are switched on or off.
LEMMA LayerStep ==
    ASSUME ViewInv, toggleCommunityLayer
    PROVE  Moved
<1>1. /\ app' = present(Layered([capturePositions(app) EXCEPT !.communities = ~@]))
      /\ jobs' = jobs /\ latest' = latest
  BY DEF toggleCommunityLayer, Operation, Plain
<1>2. View(app') /\ Alike(app, app')
  BY <1>1, LayerHolds DEF ViewInv
<1> QED BY <1>1, <1>2, PlainStep

\* A member of a community is opened.
LEMMA MemberStep ==
    ASSUME ViewInv, NEW a, openMember(a)
    PROVE  Moved
<1>1. PICK c \in app.analysis.groups :
          /\ app' = Selected(IF c \in app.collapsed /\ a # placementRoot(app) THEN Toggled(app, c) ELSE app,
                             AgentNode(a))
          /\ jobs' = jobs /\ latest' = latest
  BY DEF openMember, Operation, Plain
<1> DEFINE s == IF c \in app.collapsed /\ a # placementRoot(app) THEN Toggled(app, c) ELSE app
<1>2. View(s) /\ Alike(app, s)
  BY ToggledHolds DEF ViewInv, Alike
<1> HIDE DEF s
<1>3. View(app') /\ Alike(s, app')
  BY <1>1, <1>2, SelectedHolds DEF s
<1> QED BY <1>1, <1>2, <1>3, PlainStep DEF Alike

\* A card is pinned.
LEMMA PinStep ==
    ASSUME ViewInv, NEW a, togglePin(a)
    PROVE  Moved
<1> DEFINE u == capturePositions(Opened(a))
           s == Pin(u, a)
<1>1. View(u) /\ Alike(app, u)
  BY OpenedHolds, Captures DEF Alike
<1>2. a \in Ids(app) /\ latest' = latest
  BY DrawnAgent DEF ViewInv, togglePin, Details, Operation
<1>3. View(s) /\ Alike(app, s)
  <2> HIDE DEF u
  <2>1. a \in Ids(u)
    BY <1>1, <1>2 DEF Alike, Ids
  <2> QED BY <1>1, <2>1, PinHolds DEF Alike
<1>4. arrange(s, FALSE) \/ (app' = present(s) /\ jobs' = jobs)
  BY DEF togglePin, Plain
<1> HIDE DEF s
<1>5. CASE arrange(s, FALSE)
  BY <1>2, <1>3, <1>5, ViewIsArrangeable, ArrangeStep DEF Alike
<1>6. CASE app' = present(s) /\ jobs' = jobs
  <2>1. View(app') /\ Alike(s, app')
    BY <1>3, <1>6, ViewIsCharted, Shows
  <2> QED BY <1>2, <1>3, <1>6, <2>1, PlainStep DEF Alike
<1> QED BY <1>4, <1>5, <1>6

\* A conductor is chosen.
LEMMA ConductorStep ==
    ASSUME ViewInv, NEW a, chooseConductor(a)
    PROVE  Moved
<1> DEFINE s == Opened(a)
           u == restoreConductor(capturePositions(s))
           t == present(u)
           v == present(SetApart(rememberConductorHome([u EXCEPT !.conductor = a])))
<1>1. View(s) /\ Alike(app, s)
  BY OpenedHolds
<1>2. a \in Ids(app) /\ latest' = latest
  BY DrawnAgent DEF ViewInv, chooseConductor, Details, Operation
<1>3. (app' = t \/ app' = v) /\ jobs' = jobs
  BY DEF chooseConductor, Plain
<1>4. View(t) /\ Alike(s, t) /\ View(v) /\ Alike(s, v)
  <2> HIDE DEF s
  <2>1. a \in Ids(s)
    BY <1>1, <1>2 DEF Alike, Ids
  <2> QED BY <1>1, <2>1, ConductorHolds
<1> HIDE DEF t, v
<1>5. View(app') /\ Alike(app, app')
  BY <1>1, <1>3, <1>4 DEF Alike
<1> QED BY <1>2, <1>3, <1>5, PlainStep

\* A root is chosen.
LEMMA RootStep ==
    ASSUME ViewInv, NEW a, chooseFlowRoot(a)
    PROVE  Moved
<1> DEFINE s == Opened(a)
           t == [s EXCEPT !.root = IF @ = a THEN NoOne ELSE a]
<1>1. View(s) /\ Alike(app, s)
  BY OpenedHolds
<1>2. a \in Ids(app) /\ latest' = latest
  BY DrawnAgent DEF ViewInv, chooseFlowRoot, Details, Operation
<1>3. arrange(t, FALSE)
  BY DEF chooseFlowRoot
<1> HIDE DEF s
<1>4. SameBut(s, t, {"root"}) /\ t.root \in {NoOne, a}
  BY <1>1, ViewIsCharted DEF Shaped, SameBut, StateFields
<1> HIDE DEF t
<1>5. /\ Shaped(t) /\ t.model = s.model /\ t.scope = s.scope /\ t.pending = s.pending /\ t.dragging = s.dragging
      /\ t.generation = s.generation
      /\ t.analysis = s.analysis /\ t.pinned = s.pinned /\ t.conductor = s.conductor /\ t.home = s.home
      /\ t.collapsed = s.collapsed /\ t.focused = s.focused /\ t.aggregates = s.aggregates
      /\ t.overrides = s.overrides /\ t.flow = s.flow /\ t.base = s.base /\ t.nodes = s.nodes /\ t.stale = s.stale
  BY <1>4 DEF SameBut, StateFields
<1>6. Owned(t)
  BY <1>1, <1>2, <1>4, <1>5 DEF View, Core, Owned, Prefs, Homed, Ids, Alike
<1>7. Groups(t) /\ Cards(t) /\ Announced(t)
  BY <1>1, <1>5 DEF View, Core, Groups, Cards, Announced, Ids
<1>8. Shown(t) /\ Forest(t) /\ Honoured(t)
  BY <1>1, <1>5 DEF View, Shown, Forest, Honoured, Ids
<1>9. Arrangeable(t)
  BY <1>6, <1>7, <1>8 DEF Arrangeable, Core
<1> QED BY <1>1, <1>2, <1>3, <1>5, <1>9, ArrangeStep DEF Alike

\* With other choices of parents, before the hierarchy is inferred again.
LEMMA ParentsArrangeable ==
    ASSUME NEW s, View(s), s.mode = "flow", NEW overrides, overrides \in ParentChoices(Ids(s))
    PROVE  LET t == [s EXCEPT !.overrides = overrides]
           IN  Arrangeable(t) /\ Alike(s, t)
<1> DEFINE t == [s EXCEPT !.overrides = overrides]
<1>1. SameBut(s, t, {"overrides"}) /\ t.overrides = overrides
  BY ViewIsCharted DEF Shaped, SameBut, StateFields
<1> HIDE DEF t
<1>2. /\ Shaped(t) /\ t.model = s.model /\ t.scope = s.scope /\ t.root = s.root /\ t.generation = s.generation
      /\ t.analysis = s.analysis /\ t.pinned = s.pinned /\ t.conductor = s.conductor /\ t.home = s.home
      /\ t.collapsed = s.collapsed /\ t.focused = s.focused /\ t.aggregates = s.aggregates
      /\ t.flow = s.flow /\ t.base = s.base /\ t.nodes = s.nodes /\ t.stale = s.stale /\ Alike(s, t)
  BY <1>1 DEF SameBut, StateFields, Alike
<1>3. Owned(t)
  BY <1>1, <1>2 DEF View, Core, Owned, Prefs, Homed, Ids
<1>4. Groups(t) /\ Cards(t) /\ Announced(t)
  BY <1>2 DEF View, Core, Groups, Cards, Announced, Ids
<1>5. Shown(t) /\ Forest(t)
  BY <1>2 DEF View, Shown, Forest, Ids
<1>6. t.mode = "flow"
  BY <1>2 DEF Alike
<1> QED BY <1>2, <1>3, <1>4, <1>5, <1>6 DEF Arrangeable, Core, t

\* A parent is chosen.
LEMMA ParentStep ==
    ASSUME ViewInv, NEW a, NEW parent, chooseParent(a, parent)
    PROVE  Moved
<1> DEFINE s == Opened(a)
           more == Updated(s.overrides, [b \in {a} |-> parent])
           less == Restrict(s.overrides, DOMAIN s.overrides \ {a})
<1>1. View(s) /\ Alike(app, s)
  BY OpenedHolds
<1>2. app.mode = "flow" /\ latest' = latest
  BY DEF chooseParent, Details, Operation
<1>3. \/ {a, parent} \subseteq app.model.graph.ids /\ arrange([s EXCEPT !.overrides = more], FALSE)
      \/ arrange([s EXCEPT !.overrides = less], FALSE)
  <2>1. s.overrides = s.overrides
    OBVIOUS
  <2> QED BY DEF chooseParent, validateParentOverride
<1>4. app.model.graph.ids = Ids(s)
  BY <1>1, ModelIsRead DEF ViewInv, View, Core, Owned, Read, Alike, Ids
<1>5. s.overrides \in ParentChoices(Ids(s))
  BY <1>1 DEF View, Core, Owned, Prefs
<1> HIDE DEF s
<1>6. ASSUME NEW overrides \in ParentChoices(Ids(s)), arrange([s EXCEPT !.overrides = overrides], FALSE)
      PROVE  Moved
  <2> DEFINE t == [s EXCEPT !.overrides = overrides]
  <2>1. s.mode = "flow"
    BY <1>1, <1>2 DEF Alike
  <2>2. Arrangeable(t) /\ Alike(s, t)
    BY <1>1, <2>1, ParentsArrangeable
  <2>3. arrange(t, FALSE)
    BY <1>6
  <2> HIDE DEF t
  <2> QED BY <1>1, <1>2, <2>2, <2>3, ArrangeStep DEF Alike
<1>7. {a, parent} \subseteq Ids(s) => more \in ParentChoices(Ids(s))
  <2>1. /\ DOMAIN more = DOMAIN s.overrides \cup {a}
        /\ \A b \in DOMAIN more : more[b] = IF b = a THEN parent ELSE s.overrides[b]
        /\ more = [b \in DOMAIN more |-> more[b]]
    BY DEF Updated
  <2>2. \A b \in DOMAIN s.overrides : b \in Ids(s) /\ s.overrides[b] \in Ids(s)
    BY <1>5, ChoicesAreFunctions
  <2> HIDE DEF more
  <2> QED BY <2>1, <2>2, ChoicesAreFunctions
<1>8. less \in ParentChoices(Ids(s))
  <2>1. /\ DOMAIN less \subseteq DOMAIN s.overrides
        /\ \A b \in DOMAIN less : less[b] = s.overrides[b]
        /\ less = [b \in DOMAIN less |-> less[b]]
    BY DEF Restrict
  <2>2. \A b \in DOMAIN s.overrides : b \in Ids(s) /\ s.overrides[b] \in Ids(s)
    BY <1>5, ChoicesAreFunctions
  <2> HIDE DEF less
  <2> QED BY <2>1, <2>2, ChoicesAreFunctions
<1> HIDE DEF more, less
<1> QED BY <1>3, <1>4, <1>6, <1>7, <1>8

\* A layout is asked for.
LEMMA LayoutStep ==
    ASSUME ViewInv, NEW m, recompute \/ chooseDirection \/ chooseLayout(m)
    PROVE  Moved
<1> DEFINE s == [app EXCEPT !.mode = m]
<1>0. View(app) /\ latest' = latest
  BY DEF ViewInv, recompute, chooseDirection, chooseLayout, Operation
<1>1. arrange(app, TRUE) \/ arrange(app, FALSE) \/ arrange(s, FALSE)
  BY DEF recompute, chooseDirection, chooseLayout
<1>2. SameBut(app, s, {"mode"})
  BY <1>0, ViewIsCharted DEF Shaped, SameBut, StateFields
<1> HIDE DEF s
<1>3. /\ s.model = app.model /\ s.scope = app.scope /\ s.pending = app.pending /\ s.dragging = app.dragging
      /\ s.generation = app.generation
  BY <1>2 DEF SameBut, StateFields
<1>4. View(s)
  <2>1. SameBut(app, s, Engine)
    BY <1>2 DEF SameBut, Engine
  <2>2. app.generation \in Nat
    BY <1>0 DEF View, Core, Owned
  <2> QED BY <1>0, <1>3, <2>1, <2>2, EngineApart DEF View
<1> QED BY <1>0, <1>1, <1>3, <1>4, ViewIsArrangeable, ArrangeStep

\* A card or a community is dragged.
LEMMA DragStep ==
    ASSUME ViewInv, NEW a, dragStart(a) \/ dragGroupStart(a)
    PROVE  Moved
<1> DEFINE u == [invalidateLayout(app) EXCEPT !.dragging = TRUE, !.interrupted = @ \/ app.flowPending]
           byAgent == [u EXCEPT !.nodes.agents[a] = Tag(a)]
           byGroup == [u EXCEPT !.nodes.groups[a] = <<app.scope>>]
<1>0. View(app) /\ Shaped(app) /\ app.generation \in Nat /\ Follows(app, latest) /\ Work(app, jobs)
  BY DEF ViewInv, View, Core, Owned
<1>1. /\ \/ AgentNode(a) \in Drawn(app) /\ app' = byAgent
         \/ GroupNode(a) \in Drawn(app) /\ app' = byGroup
      /\ ~app.dragging /\ jobs' = jobs /\ latest' = latest
  BY DEF dragStart, dragGroupStart, Grab, Held, Operation, Plain
<1>2. /\ SameBut(app, u, {"generation", "flowPending", "dragging", "interrupted"})
      /\ u.generation = app.generation + 1 /\ u.dragging = TRUE
  BY <1>0 DEF Shaped, SameBut, StateFields, invalidateLayout
<1> HIDE DEF u
<1>3. /\ u.model = app.model /\ u.scope = app.scope /\ u.pending = app.pending /\ Shaped(u)
      /\ u.nodes = app.nodes /\ u.base = app.base
  BY <1>2 DEF SameBut, StateFields
<1>4. View(u)
  <2>1. SameBut(app, u, Engine)
    BY <1>2 DEF SameBut, Engine
  <2>2. u.generation \in Nat
    BY <1>0, <1>2
  <2> QED BY <1>0, <2>1, <2>2, EngineApart DEF View
<1>5. SameBut(u, app', {"nodes"})
  BY <1>1, <1>3 DEF Shaped, SameBut, StateFields
<1>6. /\ app'.model = u.model /\ app'.scope = u.scope /\ app'.pending = u.pending /\ app'.dragging = u.dragging
      /\ app'.generation = u.generation /\ app'.flow = u.flow /\ app'.overrides = u.overrides
      /\ app'.selected = u.selected /\ app'.base = u.base
  BY <1>5 DEF SameBut, StateFields
<1>7. Shown(app')
  <2>1. CASE AgentNode(a) \in Drawn(app) /\ app' = byAgent
    <3>1. app'.nodes = [u.nodes EXCEPT !.agents[a] = Tag(a)]
      BY <1>3, <2>1 DEF Shaped, StateFields
    <3>2. /\ DOMAIN app'.nodes = DOMAIN u.nodes /\ app'.nodes.groups = u.nodes.groups
          /\ app'.nodes.edges = u.nodes.edges /\ DOMAIN app'.nodes.agents = DOMAIN u.nodes.agents
          /\ \A x \in DOMAIN u.nodes.agents :
                app'.nodes.agents[x] = IF x = a THEN Tag(a) ELSE u.nodes.agents[x]
      BY <1>4, <3>1 DEF View, Shown
    <3>3. a \in DOMAIN app.base /\ app.base[a].group = app.model.agents[a].device
      BY <1>0, <2>1, DrawnAgent DEF View, Core, Cards
    <3>4. Tag(a) = <<u.scope, u.base[a].group>>
      BY <1>3, <3>3 DEF Tag
    <3> QED BY <1>4, <1>6, <3>2, <3>4 DEF View, Shown, Ids
  <2>2. CASE GroupNode(a) \in Drawn(app) /\ app' = byGroup
    <3>1. app'.nodes = [u.nodes EXCEPT !.groups[a] = <<app.scope>>]
      BY <1>3, <2>2 DEF Shaped, StateFields
    <3>2. /\ DOMAIN app'.nodes = DOMAIN u.nodes /\ app'.nodes.agents = u.nodes.agents
          /\ app'.nodes.edges = u.nodes.edges /\ DOMAIN app'.nodes.groups = DOMAIN u.nodes.groups
      BY <1>4, <3>1 DEF View, Shown
    <3> QED BY <1>4, <1>6, <3>2 DEF View, Shown, Ids
  <2> QED BY <1>1, <2>1, <2>2
<1>8. View(app')
  <2>1. Core(app')
    <3>1. SameBut(u, app', {"flow", "nodes", "selected", "communities", "mode", "dragging", "pending",
                            "generation", "flowPending", "interrupted"})
      BY <1>5 DEF SameBut
    <3>2. app'.generation \in Nat /\ Core(u)
      BY <1>0, <1>2, <1>4, <1>6 DEF View
    <3> QED BY <3>1, <3>2, CoreKept
  <2>2. Forest(app') /\ Honoured(app') /\ Picked(app')
    BY <1>4, <1>6 DEF View, Forest, Honoured, Picked, Ids
  <2> QED BY <1>7, <2>1, <2>2 DEF View
<1>9. Follows(app', latest')
  BY <1>0, <1>1, <1>3, <1>6 DEF Follows
<1>10. Work(app', jobs')
  <2>1. app'.generation \in Nat /\ app'.generation > app.generation
    BY <1>0, <1>2, <1>6
  <2> QED BY <1>0, <1>1, <2>1, WorkAges
<1>11. Faithful(app, app')
  BY <1>0, <1>3, <1>6, SameModelIsFaithful
<1> QED BY <1>8, <1>9, <1>10, <1>11 DEF Moved, ViewInv

\* It is let go.
LEMMA DropStep ==
    ASSUME ViewInv, dragStop
    PROVE  Moved
<1> DEFINE u == [app EXCEPT !.dragging = FALSE]
           v == [app EXCEPT !.dragging = FALSE, !.pending = None]
           w == capturePositions(v)
<1>0. View(app) /\ Shaped(app) /\ app.generation \in Nat /\ Follows(app, latest) /\ Work(app, jobs) /\ latest' = latest
  BY DEF ViewInv, View, Core, Owned, dragStop
<1>1. CASE app.pending = None /\ app' = capturePositions(u) /\ jobs' = jobs
  <2>1. SameBut(app, u, {"dragging"})
    BY <1>0 DEF Shaped, SameBut, StateFields
  <2> HIDE DEF u
  <2>2. /\ u.model = app.model /\ u.scope = app.scope /\ u.pending = app.pending /\ u.root = app.root
        /\ u.generation = app.generation
    BY <2>1 DEF SameBut, StateFields
  <2>3. View(u)
    <3>1. SameBut(app, u, Engine)
      BY <2>1 DEF SameBut, Engine
    <3> QED BY <1>0, <2>2, <3>1, EngineApart DEF View
  <2>4. View(app') /\ Alike(u, app')
    BY <1>1, <2>3, Captures
  <2>5. Follows(app', latest')
    BY <1>0, <1>1, <2>2, <2>4 DEF Follows, Alike
  <2>6. Work(app', jobs')
    BY <1>0, <1>1, <2>2, <2>4, WorkStays DEF Alike
  <2>7. Faithful(app, app')
    BY <1>0, <2>2, <2>4, SameModelIsFaithful DEF Alike
  <2> QED BY <2>4, <2>5, <2>6, <2>7 DEF Moved, ViewInv
<1>2. CASE app.pending # None /\ applyRefresh(w, app.pending.model, app.pending.scope)
  <2>1. SameBut(app, v, {"dragging", "pending"}) /\ v.pending = None
    BY <1>0 DEF Shaped, SameBut, StateFields
  <2> HIDE DEF v
  <2>2. /\ v.model = app.model /\ v.scope = app.scope /\ v.root = app.root
        /\ v.generation = app.generation /\ v.pinned = app.pinned /\ v.conductor = app.conductor
        /\ v.overrides = app.overrides
    BY <2>1 DEF SameBut, StateFields
  <2>3. View(v)
    <3>1. SameBut(app, v, Engine)
      BY <2>1 DEF SameBut, Engine
    <3> QED BY <1>0, <2>2, <3>1, EngineApart DEF View
  <2>4. View(w) /\ SameBut(v, w, {"base", "aggregates"})
    BY <2>3, Captures, CaptureFrame, ViewIsCharted
  <2> HIDE DEF w
  <2>5. /\ w.model = v.model /\ w.scope = v.scope /\ w.root = v.root /\ w.pending = v.pending
        /\ w.generation = v.generation /\ w.pinned = v.pinned /\ w.conductor = v.conductor
        /\ w.overrides = v.overrides
    BY <2>4 DEF SameBut, StateFields
  <2>6. app.pending = latest /\ latest.model \in Models
    BY <1>0, <1>2 DEF Follows
  <2> QED BY <1>0, <1>2, <2>1, <2>2, <2>4, <2>5, <2>6, RefreshStep
<1> QED BY <1>1, <1>2 DEF dragStop, Plain

-----------------------------------------------------------------------------
(* The theorems. *)

\* The component starts with nothing shown.
LEMMA ViewStarts ==
    ASSUME Init
    PROVE  ViewInv
<1>1. /\ Shaped(app) /\ app.generation = 0 /\ app.pending = None
      /\ app.model = NoModel /\ app.scope = NoScope
      /\ app.analysis = analyzeGraph(NoModel) /\ app.stale = FALSE /\ app.selected = NoNode /\ app.focused = {}
      /\ app.conductor = NoOne /\ app.home = None /\ app.root = NoOne /\ app.overrides = Empty
      /\ app.flow = Hierarchy[NoModel.graph][NoOne][Empty] /\ app.collapsed = {} /\ app.pinned = {}
      /\ app.aggregates = Empty /\ app.base = Empty
      /\ app.nodes = [agents |-> Empty, groups |-> Empty, edges |-> {}]
  BY DEF Init, Shaped, StateFields
<1>2. View(app)
  <2>1. Blank(app)
    <3>1. app.generation \in Nat
      BY <1>1
    <3> QED BY <1>1, <3>1, NothingShown
  <2> QED BY <2>1 DEF Blank
<1>3. Follows(app, latest)
  <2>1. latest.model = NoModel /\ latest.scope = NoScope
    BY DEF Init
  <2> QED BY <1>1, <2>1 DEF Follows, Models
<1>4. Work(app, jobs)
  <2>1. jobs \in Seq({})
    BY DEF Init
  <2> QED BY <2>1 DEF Work
<1> QED BY <1>2, <1>3, <1>4 DEF ViewInv

\* A step of nobody.
LEMMA ViewStutters ==
    ASSUME ViewInv, UNCHANGED vars
    PROVE  Moved
<1>1. app' = app /\ jobs' = jobs /\ latest' = latest
  BY DEF vars
<1>2. View(app') /\ Follows(app', latest') /\ Work(app', jobs')
  BY <1>1 DEF ViewInv
<1>3. Faithful(app, app')
  BY <1>1, SameModelIsFaithful DEF ViewInv
<1> QED BY <1>2, <1>3 DEF Moved, ViewInv

\* Every step keeps the invariant and is faithful.
LEMMA ViewKept ==
    ASSUME ViewInv, [Next]_vars
    PROVE  Moved
<1>1. CASE \E raw \in Snapshots : update(raw)
  BY <1>1, UpdateStep
<1>2. CASE clear \/ destroy
  BY <1>2, ClearStep
<1>3. CASE Resolve
  BY <1>3, ResolveStep
<1>4. CASE \E a \in Agent : select(AgentNode(a)) \/ openMember(a) \/ togglePin(a)
  BY <1>4, SelectStep, MemberStep, PinStep
<1>5. CASE \E a \in Agent : chooseConductor(a) \/ chooseFlowRoot(a) \/ dragStart(a)
  BY <1>5, ConductorStep, RootStep, DragStep
<1>6. CASE \E a \in Agent, parent \in Agent \cup {NoOne} : chooseParent(a, parent)
  BY <1>6, ParentStep
<1>7. CASE select(NoNode) \/ toggleCommunityLayer \/ dragStop
  BY <1>7, SelectStep, LayerStep, DropStep
<1>8. CASE \E c \in app.analysis.groups : selectGroup(c) \/ toggleGroup(c) \/ dragGroupStart(c)
  BY <1>8, GroupStep, DragStep
<1>9. CASE recompute \/ chooseDirection \/ \E m \in Modes \cup {"flow"} : chooseLayout(m)
  BY <1>9, LayoutStep
<1>10. CASE UNCHANGED vars
  BY <1>10, ViewStutters
<1> QED BY <1>1, <1>2, <1>3, <1>4, <1>5, <1>6, <1>7, <1>8, <1>9, <1>10 DEF Next

(* The inductive invariant holds in every state: whatever the host hands    *)
(* over and the person does, and however late the layouts are answered.     *)
THEOREM ViewAlways == Spec => []ViewInv
<1>1. Init => ViewInv
  BY ViewStarts
<1>2. ViewInv /\ [Next]_vars => ViewInv'
  BY ViewKept DEF Moved
<1> QED BY <1>1, <1>2, PTL DEF Spec

(* The drawing follows the last snapshot, or the one before while a card is *)
(* held, and a change the groups do not show is announced                   *)
(* (App.svelte:295-298, 325).                                               *)
THEOREM LatestIsShown == Spec => []LatestShown
<1>1. ViewInv => LatestShown
  BY DEF ViewInv, Follows, View, Core, Announced, LatestShown, graphSignature
<1> QED BY <1>1, ViewAlways, PTL

\* What is shown lies within the last snapshot, or it would not be held back.
LEMMA ShownIsLatest ==
    ASSUME ViewInv
    PROVE  /\ Ids(app) \subseteq DOMAIN latest.model.agents
           /\ \A a \in Ids(app) : latest.model.agents[a].device = app.model.agents[a].device
           /\ DOMAIN app.model.links \subseteq DOMAIN latest.model.links
<1>1. app.model \in Models /\ latest.model \in Models
  BY DEF ViewInv, View, Core, Owned, Follows
<1>2. CASE app.model = latest.model
  BY <1>2 DEF Ids
<1>3. CASE canDeferRefresh(app.model, latest.model)
  BY <1>1, <1>3, NeighborsStay DEF Ids
<1> QED BY <1>2, <1>3 DEF ViewInv, Follows

(* Nothing that the last snapshot withdrew is drawn, remembered or named,   *)
(* for any number of agents, devices, buses, snapshots and operations       *)
(* (model.mjs:1-2, 99-101).                                                 *)
THEOREM NothingIsWithdrawn == Spec => []NothingWithdrawn
<1>1. ASSUME ViewInv PROVE NothingWithdrawn
  <2> DEFINE now == latest.model
             ids == DOMAIN now.agents
  <2>1. View(app) /\ Core(app) /\ Owned(app)
    BY <1>1 DEF ViewInv, View, Core
  <2>2. Ids(app) \subseteq ids
    BY <1>1, ShownIsLatest
  <2>3. UNION {n.of : n \in Drawn(app)} \subseteq ids
    <3>1. \A a \in DOMAIN app.nodes.agents : a \in ids
      BY <2>1, <2>2 DEF View, Shown, Cards, Core
    <3>2. \A c \in DOMAIN app.nodes.groups : c \subseteq ids
      BY <2>1, <2>2 DEF View, Shown
    <3> HIDE DEF ids
    <3> QED BY <3>1, <3>2 DEF Drawn, AgentNode, GroupNode
  <2>4. /\ (UNION app.analysis.groups) \cup (UNION app.collapsed) \subseteq ids
        /\ (UNION DOMAIN app.aggregates) \cup app.focused \subseteq ids
    BY <2>1, <2>2 DEF Core, Groups
  <2>5. DOMAIN app.flow.parent \cup app.flow.roots \cup DOMAIN app.overrides \subseteq ids
    <3>1. app.model.graph.ids = Ids(app)
      BY <2>1, ModelIsRead DEF Owned, Read, Ids
    <3>2. DOMAIN app.flow.parent \cup app.flow.roots \subseteq Ids(app)
      BY <2>1, <3>1 DEF View, Forest, IsForest
    <3>3. DOMAIN app.overrides \subseteq Ids(app)
      BY <2>1, ChoicesAreFunctions DEF Owned, Prefs
    <3> QED BY <2>2, <3>2, <3>3
  <2>6. app.pinned \cup ({app.conductor, app.root} \ {NoOne}) \subseteq ids
    BY <2>1, <2>2 DEF Owned, Prefs
  <2>7. \A a \in DOMAIN app.nodes.agents : now.agents[a].device = app.base[a].group
    <3> SUFFICES ASSUME NEW a \in DOMAIN app.nodes.agents
                 PROVE  now.agents[a].device = app.base[a].group
      OBVIOUS
    <3>1. a \in DOMAIN app.base
      BY <2>1 DEF View, Shown
    <3>2. a \in Ids(app) /\ app.base[a].group = app.model.agents[a].device
      BY <2>1, <3>1 DEF Core, Cards
    <3> QED BY <1>1, <3>2, ShownIsLatest
  <2>8. \A e \in app.nodes.edges : \E l \in DOMAIN now.links : l[1] \in e[1].of /\ l[2] \in e[2].of
    BY <1>1, <2>1, ShownIsLatest DEF View, Shown
  <2>9. app.selected.of \subseteq ids
    BY <2>1, <2>2 DEF View, Picked
  <2> QED BY <2>3, <2>4, <2>5, <2>6, <2>7, <2>8, <2>9, Zenon DEF NothingWithdrawn
<1> QED BY <1>1, ViewAlways, PTL

(* The hierarchy that is drawn is always a forest over the visible agents   *)
(* along observed relations, and honours the person's choices               *)
(* (flow.mjs:71-72, 137-139).                                               *)
THEOREM FlowIsOrganised == Spec => []Organised
<1>1. ViewInv => Organised
  BY DEF ViewInv, View, Forest, IsForest, Honoured, Organised
<1> QED BY <1>1, ViewAlways, PTL

(* No step lets a pin, the root, the conductor, a choice of parent or a     *)
(* position pass to another device or another account's view                *)
(* (App.svelte:313-318, model.mjs:88).                                      *)
THEOREM IdentityIsKept == Spec => IdentityKept
<1> DEFINE Step ==
       /\ \A a \in app.pinned \cap app'.pinned : Same(a)
       /\ app.root # NoOne /\ app'.root = app.root => Same(app.root)
       /\ app.conductor # NoOne /\ app'.conductor = app.conductor => Same(app.conductor)
       /\ \A a \in DOMAIN app.overrides \cap DOMAIN app'.overrides :
             app.overrides[a] = app'.overrides[a] => Same(a) /\ Same(app.overrides[a])
       /\ \A a \in DOMAIN app'.base : app'.base[a].pos \in {Automatic, Tag(a)'}
<1>1. ASSUME ViewInv, [Next]_vars PROVE Step
  <2>1. Faithful(app, app') /\ View(app')
    BY <1>1, ViewKept DEF Moved, ViewInv
  <2>2. \A a : Still(app, app', a) => Same(a)
    BY DEF Still, Same, Tag, Ids
  <2>3. \A a \in DOMAIN app'.base : app'.base[a].pos \in {Automatic, Tag(a)'}
    BY <2>1 DEF View, Core, Cards, Card, Tag
  <2> QED BY <2>1, <2>2, <2>3 DEF Faithful
<1>2. ViewInv /\ [Next]_vars => [Step]_vars
  BY <1>1
<1> HIDE DEF Step
<1>3. Spec => [][Step]_vars
  BY <1>2, ViewAlways, PTL DEF Spec
<1> QED BY <1>3, Zenon DEF IdentityKept, Step

(* A finished layout is drawn only for the graph, root and choices of that  *)
(* moment, for any queue of jobs (App.svelte:193-204).                      *)
THEOREM NoStaleIsCommitted == Spec => NoStaleCommit
<1> DEFINE Step ==
       Resolve /\ app' # app =>
          /\ app'.flow = FlowNow(app')
          /\ alive /\ app.mode = "flow" /\ ~app.dragging
<1>1. ViewInv => [Step]_vars
  BY ResolveStep
<1> HIDE DEF Step
<1>2. Spec => [][Step]_vars
  BY <1>1, ViewAlways, PTL DEF Spec
<1> QED BY <1>2, Zenon DEF NoStaleCommit, Step
===============================================================================
