--------------------------------- MODULE Sums ---------------------------------
(***************************************************************************)
(* Facts about SumFunctionOnSet(f, S), the sum of f[x] over x in S.        *)
(*                                                                         *)
(* It is defined by recursion over S.  Instead of an induction theorem,    *)
(* which takes the predicate as an operator, the proofs argue by a         *)
(* smallest counterexample: strict inclusion is well founded on the        *)
(* subsets of a finite set.                                                *)
(***************************************************************************)
EXTENDS Functions, FiniteSetTheorems, TLAPS

(* A nonempty collection of subsets of a finite set has a smallest one.    *)
LEMMA SmallestSubset ==
  ASSUME NEW S, IsFiniteSet(S), NEW B, B \subseteq SUBSET S, B # {}
  PROVE  \E t \in B : \A u \in B : u \subseteq t => u = t
<1>1. IsWellFoundedOn(StrictSubsetOrdering(S), SUBSET S)
  BY FS_FiniteSubsetsOfFinite, FS_StrictSubsetOrderingWellFounded, Zenon
<1>3. \E t \in B : \A u \in B : ~ (<<u, t>> \in StrictSubsetOrdering(S))
  BY <1>1, WFMin, Zenon
<1>4. QED
  BY <1>3 DEF StrictSubsetOrdering

------------------------------------------------------------------------------
(* The recursion has a solution, and only one *)

\* The element that is split off.
Picked(s) == CHOOSE x \in s : TRUE
Rest(s) == s \ {Picked(s)}

\* g solves the recursion for f on the subsets of S.
SumsUp(g, f, S) ==
  g = [s \in SUBSET S |-> IF s = {} THEN 0 ELSE f[Picked(s)] + g[Rest(s)]]

(* What is taken first is in the set, and the rest is smaller.               *)
LEMMA PickedInside ==
  ASSUME NEW s, s # {}
  PROVE  Picked(s) \in s /\ Rest(s) \subseteq s /\ Rest(s) # s
<1>1. Picked(s) \in s
  BY Zenon DEF Picked
<1>2. QED
  BY <1>1, Zenon DEF Rest

(* The equation of the fold, at one subset.                                  *)
LEMMA SumsUpEquation ==
  ASSUME NEW g, NEW f, NEW S, SumsUp(g, f, S), NEW s \in SUBSET S
  PROVE  g[s] = IF s = {} THEN 0 ELSE f[Picked(s)] + g[Rest(s)]
BY Zenon DEF SumsUp

(* Two solutions agree where both are defined.                               *)
LEMMA SumsUpUnique ==
  ASSUME NEW f, NEW S, IsFiniteSet(S), NEW T \in SUBSET S, NEW g, NEW h,
         SumsUp(g, f, S), SumsUp(h, f, T)
  PROVE  \A s \in SUBSET T : g[s] = h[s]
<1> DEFINE Bad == {s \in SUBSET T : g[s] # h[s]}
<1>1. SUFFICES ASSUME Bad # {} PROVE FALSE
  OBVIOUS
<1>2. Bad \subseteq SUBSET S
  OBVIOUS
<1>3. PICK s \in Bad : \A u \in Bad : u \subseteq s => u = s
  <2> HIDE DEF Bad
  <2>1. QED
    BY <1>1, <1>2, SmallestSubset
<1>4. s # {}
  BY <1>3, SumsUpEquation
<1>5. Rest(s) \in SUBSET T /\ g[Rest(s)] = h[Rest(s)]
  BY <1>3, <1>4, PickedInside
<1>6. QED
  BY <1>3, <1>4, <1>5, SumsUpEquation

(* The equation has a solution.                                              *)
LEMMA SumsUpExists ==
  ASSUME NEW f, NEW S, IsFiniteSet(S)
  PROVE  \E g : SumsUp(g, f, S)
<1> DEFINE Bad == {s \in SUBSET S : ~ \E g : SumsUp(g, f, s)}
<1>1. SUFFICES ASSUME Bad # {} PROVE FALSE
  OBVIOUS
<1>2. PICK t \in Bad : \A u \in Bad : u \subseteq t => u = t
  <2>1. Bad \subseteq SUBSET S
    OBVIOUS
  <2> HIDE DEF Bad
  <2>2. QED
    BY <1>1, <2>1, SmallestSubset
<1> DEFINE G(u) == CHOOSE g : SumsUp(g, f, u)
<1>3. ASSUME NEW u \in SUBSET t, u # t
      PROVE  SumsUp(G(u), f, u)
  <2>1. \E g : SumsUp(g, f, u)
    BY <1>2, <1>3
  <2>2. QED
    BY <2>1, Zenon
<1> DEFINE h == [s \in SUBSET t |-> IF s = {} THEN 0 ELSE f[Picked(s)] + G(Rest(s))[Rest(s)]]
<1>4. ASSUME NEW s \in SUBSET t, s # {}
      PROVE  h[Rest(s)] = G(Rest(s))[Rest(s)]
  <2> DEFINE u == Rest(s)
  <2>1. u \in SUBSET t /\ u # t
    BY <1>4, PickedInside
  <2>2. SumsUp(G(u), f, u)
    BY <1>3, <2>1
  <2>3. G(u)[u] = IF u = {} THEN 0 ELSE f[Picked(u)] + G(u)[Rest(u)]
    BY <2>2, SumsUpEquation
  <2>4. h[u] = IF u = {} THEN 0 ELSE f[Picked(u)] + G(Rest(u))[Rest(u)]
    BY <2>1
  <2>5. ASSUME u # {} PROVE G(u)[Rest(u)] = G(Rest(u))[Rest(u)]
    <3>1. Rest(u) \in SUBSET u /\ Rest(u) \in SUBSET t /\ Rest(u) # t
      BY <2>1, <2>5, PickedInside
    <3>2. SumsUp(G(Rest(u)), f, Rest(u))
      BY <1>3, <3>1
    <3>3. IsFiniteSet(u)
      BY <2>1, FS_Subset
    <3>4. QED
      BY <2>2, <3>1, <3>2, <3>3, SumsUpUnique
  <2>6. QED
    BY <2>3, <2>4, <2>5
<1>5. SumsUp(h, f, t)
  <2>1. h = [s \in SUBSET t |-> IF s = {} THEN 0 ELSE f[Picked(s)] + h[Rest(s)]]
    <3>1. ASSUME NEW s \in SUBSET t
          PROVE  h[s] = IF s = {} THEN 0 ELSE f[Picked(s)] + h[Rest(s)]
      <4>1. h[s] = IF s = {} THEN 0 ELSE f[Picked(s)] + G(Rest(s))[Rest(s)]
        OBVIOUS
      <4> HIDE DEF h, G
      <4>2. QED
        BY <1>4, <4>1
    <3>2. h = [s \in SUBSET t |-> h[s]]
      OBVIOUS
    <3> HIDE DEF h
    <3>3. QED
      BY <3>1, <3>2, Zenon
  <2>2. QED
    BY <2>1 DEF SumsUp
<1>6. QED
  BY <1>2, <1>5

(* The sum is its value at the whole set.                                    *)
LEMMA SumIsSolution ==
  ASSUME NEW f, NEW S
  PROVE  SumFunctionOnSet(f, S) = (CHOOSE g : SumsUp(g, f, S))[S]
BY DEF SumFunctionOnSet, FoldFunctionOnSet, MapThenFoldSet, SumsUp, Picked, Rest

------------------------------------------------------------------------------
(* What a sum is *)

(* Nothing adds up to zero.                                                  *)
LEMMA SumEmpty ==
  ASSUME NEW f
  PROVE  SumFunctionOnSet(f, {}) = 0
<1>1. IsFiniteSet({})
  BY FS_EmptySet
<1>2. SumsUp(CHOOSE g : SumsUp(g, f, {}), f, {})
  BY <1>1, SumsUpExists, Zenon
<1>3. QED
  BY <1>2, SumsUpEquation, SumIsSolution

(* The sum is the element taken first and the sum of the rest.               *)
LEMMA SumSplit ==
  ASSUME NEW f, NEW S, IsFiniteSet(S), S # {}
  PROVE  SumFunctionOnSet(f, S) = f[Picked(S)] + SumFunctionOnSet(f, Rest(S))
<1> DEFINE G(u) == CHOOSE g : SumsUp(g, f, u)
<1>1. Rest(S) \in SUBSET S /\ IsFiniteSet(Rest(S))
  BY PickedInside, FS_Subset
<1>2. SumsUp(G(S), f, S) /\ SumsUp(G(Rest(S)), f, Rest(S))
  <2>1. (\E g : SumsUp(g, f, S)) /\ \E g : SumsUp(g, f, Rest(S))
    BY <1>1, SumsUpExists
  <2>2. QED
    BY <2>1, Zenon
<1>3. G(S)[S] = f[Picked(S)] + G(S)[Rest(S)]
  <2> HIDE DEF G
  <2>1. QED
    BY <1>2, SumsUpEquation
<1>4. G(S)[Rest(S)] = G(Rest(S))[Rest(S)]
  <2> HIDE DEF G
  <2>1. QED
    BY <1>1, <1>2, SumsUpUnique
<1>5. QED
  BY <1>3, <1>4, SumIsSolution

(* A sum of integers is an integer. *)
LEMMA SumInt ==
  ASSUME NEW f, NEW S, IsFiniteSet(S), \A x \in S : f[x] \in Int
  PROVE  SumFunctionOnSet(f, S) \in Int
<1> DEFINE Bad == {s \in SUBSET S : SumFunctionOnSet(f, s) \notin Int}
<1>1. SUFFICES ASSUME Bad # {} PROVE FALSE
  OBVIOUS
<1>2. PICK t \in Bad : \A u \in Bad : u \subseteq t => u = t
  <2>1. Bad \subseteq SUBSET S
    OBVIOUS
  <2> HIDE DEF Bad
  <2>2. QED
    BY <1>1, <2>1, SmallestSubset
<1>3. t # {} /\ t \in SUBSET S
  <2>1. SumFunctionOnSet(f, {}) \in Int
    BY SumEmpty
  <2>2. QED
    BY <1>2, <2>1
<1>4. Picked(t) \in S /\ Rest(t) \in SUBSET S /\ SumFunctionOnSet(f, Rest(t)) \in Int
  BY <1>2, <1>3, PickedInside
<1>5. SumFunctionOnSet(f, t) = f[Picked(t)] + SumFunctionOnSet(f, Rest(t))
  BY <1>3, FS_Subset, SumSplit
<1>6. QED
  BY <1>2, <1>4, <1>5

(* Any element can be split off, not only the one the recursion picks. *)
LEMMA SumElement ==
  ASSUME NEW f, NEW S, IsFiniteSet(S), \A x \in S : f[x] \in Int, NEW x \in S
  PROVE  SumFunctionOnSet(f, S) = f[x] + SumFunctionOnSet(f, S \ {x})
<1> DEFINE Sum(s) == SumFunctionOnSet(f, s)
           Bad == {s \in SUBSET S : \E y \in s : Sum(s) # f[y] + Sum(s \ {y})}
<1>1. SUFFICES ASSUME Bad # {} PROVE FALSE
  OBVIOUS
<1>2. PICK t \in Bad : \A u \in Bad : u \subseteq t => u = t
  <2>1. Bad \subseteq SUBSET S
    OBVIOUS
  <2> HIDE DEF Bad
  <2>2. QED
    BY <1>1, <2>1, SmallestSubset
<1>3. PICK y \in t : Sum(t) # f[y] + Sum(t \ {y})
  BY <1>2
<1> DEFINE p == Picked(t)
<1>4. p \in t /\ t \in SUBSET S /\ Sum(t) = f[p] + Sum(t \ {p})
  <2>1. t # {} /\ IsFiniteSet(t)
    BY <1>2, <1>3, FS_Subset
  <2>2. Picked(t) \in t /\ t \in SUBSET S
    BY <1>2, <2>1, PickedInside
  <2>3. QED
    BY <2>1, <2>2, SumSplit DEF Rest
<1>5. p # y
  BY <1>3, <1>4
<1>6. Sum(t \ {p}) = f[y] + Sum((t \ {p}) \ {y})
  <2>1. t \ {p} \notin Bad /\ t \ {p} \in SUBSET S /\ y \in t \ {p}
    BY <1>2, <1>3, <1>4, <1>5
  <2> HIDE DEF Sum
  <2>2. QED
    BY <2>1
<1>7. Sum(t \ {y}) = f[p] + Sum((t \ {y}) \ {p})
  <2>1. t \ {y} \notin Bad /\ t \ {y} \in SUBSET S /\ p \in t \ {y}
    BY <1>2, <1>3, <1>4, <1>5
  <2> HIDE DEF Sum, p
  <2>2. QED
    BY <2>1
<1>8. (t \ {p}) \ {y} = (t \ {y}) \ {p}
  OBVIOUS
<1>9. f[p] \in Int /\ f[y] \in Int /\ Sum((t \ {y}) \ {p}) \in Int
  <2>1. (t \ {y}) \ {p} \in SUBSET S
    BY <1>4
  <2>2. IsFiniteSet((t \ {y}) \ {p})
    BY <2>1, FS_Subset
  <2>3. QED
    BY <1>3, <1>4, <2>1, <2>2, SumInt
<1> HIDE DEF Sum, p
<1>10. Sum(t) = f[p] + (f[y] + Sum((t \ {y}) \ {p}))
  BY <1>4, <1>6, <1>8
<1>11. f[p] + (f[y] + Sum((t \ {y}) \ {p})) = f[y] + (f[p] + Sum((t \ {y}) \ {p}))
  BY <1>9
<1>12. QED
  BY <1>3, <1>7, <1>10, <1>11

(* One more element.                                                         *)
LEMMA SumNewElement ==
  ASSUME NEW f, NEW S, IsFiniteSet(S), NEW x, x \notin S, \A y \in S \cup {x} : f[y] \in Int
  PROVE  SumFunctionOnSet(f, S \cup {x}) = SumFunctionOnSet(f, S) + f[x]
<1>1. IsFiniteSet(S \cup {x}) /\ (S \cup {x}) \ {x} = S
  BY FS_AddElement
<1>2. SumFunctionOnSet(f, S \cup {x}) = f[x] + SumFunctionOnSet(f, S)
  BY <1>1, SumElement
<1>3. QED
  BY <1>2, SumInt

(* Only the values on the set count. *)
LEMMA SumSame ==
  ASSUME NEW f, NEW g, NEW S, IsFiniteSet(S), \A x \in S : f[x] = g[x]
  PROVE  SumFunctionOnSet(f, S) = SumFunctionOnSet(g, S)
<1> DEFINE Bad == {s \in SUBSET S : SumFunctionOnSet(f, s) # SumFunctionOnSet(g, s)}
<1>1. SUFFICES ASSUME Bad # {} PROVE FALSE
  OBVIOUS
<1>2. PICK t \in Bad : \A u \in Bad : u \subseteq t => u = t
  <2>1. Bad \subseteq SUBSET S
    OBVIOUS
  <2> HIDE DEF Bad
  <2>2. QED
    BY <1>1, <2>1, SmallestSubset
<1>3. t # {} /\ t \in SUBSET S
  BY <1>2, SumEmpty
<1>4. Picked(t) \in S /\ SumFunctionOnSet(f, Rest(t)) = SumFunctionOnSet(g, Rest(t))
  BY <1>2, <1>3, PickedInside
<1>5. /\ SumFunctionOnSet(f, t) = f[Picked(t)] + SumFunctionOnSet(f, Rest(t))
      /\ SumFunctionOnSet(g, t) = g[Picked(t)] + SumFunctionOnSet(g, Rest(t))
  BY <1>3, FS_Subset, SumSplit
<1>6. QED
  BY <1>2, <1>4, <1>5

(* A change at one element changes the sum by as much. *)
LEMMA SumUpdate ==
  ASSUME NEW f, NEW g, NEW S, IsFiniteSet(S), NEW x \in S,
         \A y \in S : f[y] \in Int /\ g[y] \in Int,
         \A y \in S \ {x} : f[y] = g[y]
  PROVE  SumFunctionOnSet(g, S) = SumFunctionOnSet(f, S) + g[x] - f[x]
<1>1. IsFiniteSet(S \ {x})
  BY FS_Subset
<1>2. SumFunctionOnSet(f, S \ {x}) = SumFunctionOnSet(g, S \ {x}) /\ SumFunctionOnSet(f, S \ {x}) \in Int
  BY <1>1, SumSame, SumInt
<1>3. /\ SumFunctionOnSet(f, S) = f[x] + SumFunctionOnSet(f, S \ {x})
      /\ SumFunctionOnSet(g, S) = g[x] + SumFunctionOnSet(g, S \ {x})
  BY SumElement
<1>4. QED
  BY <1>2, <1>3

(* Nothing adds up to nothing. *)
LEMMA SumZero ==
  ASSUME NEW f, NEW S, IsFiniteSet(S), \A x \in S : f[x] = 0
  PROVE  SumFunctionOnSet(f, S) = 0
<1> DEFINE Bad == {s \in SUBSET S : SumFunctionOnSet(f, s) # 0}
<1>1. SUFFICES ASSUME Bad # {} PROVE FALSE
  OBVIOUS
<1>2. PICK t \in Bad : \A u \in Bad : u \subseteq t => u = t
  <2>1. Bad \subseteq SUBSET S
    OBVIOUS
  <2> HIDE DEF Bad
  <2>2. QED
    BY <1>1, <2>1, SmallestSubset
<1>3. t # {} /\ t \in SUBSET S
  BY <1>2, SumEmpty
<1>4. Picked(t) \in S /\ SumFunctionOnSet(f, Rest(t)) = 0
  BY <1>2, <1>3, PickedInside
<1>5. SumFunctionOnSet(f, t) = f[Picked(t)] + SumFunctionOnSet(f, Rest(t))
  BY <1>3, FS_Subset, SumSplit
<1>6. QED
  BY <1>2, <1>4, <1>5

(* A nonempty finite set of naturals has a largest element.                *)
LEMMA LargestExists ==
  ASSUME NEW S, IsFiniteSet(S), S \subseteq Nat, S # {}
  PROVE  \E x \in S : \A y \in S : x >= y
<1> DEFINE Above(x) == {y \in S : y > x}
           B == {t \in SUBSET S : \E x \in S : t = Above(x)}
<1>1. B \subseteq SUBSET S /\ B # {}
  <2>1. PICK x \in S : TRUE
    OBVIOUS
  <2>2. Above(x) \in B
    BY <2>1
  <2>3. QED
    BY <2>2
<1>2. PICK t \in B : \A u \in B : u \subseteq t => u = t
  <2> HIDE DEF B, Above
  <2>1. IsFiniteSet(S)
    OBVIOUS
  <2>2. QED
    BY ONLY <1>1, <2>1, SmallestSubset
<1>3. PICK x \in S : t = Above(x)
  BY <1>2
<1>4. ASSUME NEW y \in S, y > x
      PROVE  FALSE
  <2>1. Above(y) \in B
    <3>1. Above(y) \in SUBSET S
      OBVIOUS
    <3> HIDE DEF Above
    <3>2. QED
      BY <3>1
  <2>2. Above(y) \subseteq t
    <3>1. \A z \in S : z > y => z > x
      <4>1. x \in Nat /\ y \in Nat /\ \A z \in S : z \in Nat
        OBVIOUS
      <4>2. QED
        BY ONLY <1>4, <4>1
    <3> HIDE DEF B
    <3>2. QED
      BY <1>3, <3>1
  <2>3. y \in t /\ y \notin Above(y)
    <3>1. y \in Nat
      OBVIOUS
    <3> HIDE DEF B
    <3>2. QED
      BY <1>3, <1>4, <3>1
  <2>4. QED
    <3> HIDE DEF B, Above
    <3>1. QED
      BY <1>2, <2>1, <2>2, <2>3
<1>5. QED
  BY <1>4

(* A nonempty finite set of naturals has a smallest element.               *)
LEMMA SmallestExists ==
  ASSUME NEW S, IsFiniteSet(S), S \subseteq Nat, S # {}
  PROVE  \E x \in S : \A y \in S : x <= y
<1> DEFINE Below(x) == {y \in S : y < x}
           B == {t \in SUBSET S : \E x \in S : t = Below(x)}
<1>1. B \subseteq SUBSET S /\ B # {}
  <2>1. PICK x \in S : TRUE
    OBVIOUS
  <2>2. Below(x) \in B
    BY <2>1
  <2>3. QED
    BY <2>2
<1>2. PICK t \in B : \A u \in B : u \subseteq t => u = t
  <2> HIDE DEF B, Below
  <2>1. IsFiniteSet(S)
    OBVIOUS
  <2>2. QED
    BY ONLY <1>1, <2>1, SmallestSubset
<1>3. PICK x \in S : t = Below(x)
  BY <1>2
<1>4. ASSUME NEW y \in S, y < x
      PROVE  FALSE
  <2>1. Below(y) \in B
    <3>1. Below(y) \in SUBSET S
      OBVIOUS
    <3> HIDE DEF Below
    <3>2. QED
      BY <3>1
  <2>2. Below(y) \subseteq t
    <3>1. \A z \in S : z < y => z < x
      <4>1. x \in Nat /\ y \in Nat /\ \A z \in S : z \in Nat
        OBVIOUS
      <4>2. QED
        BY ONLY <1>4, <4>1
    <3> HIDE DEF B
    <3>2. QED
      BY <1>3, <3>1
  <2>3. y \in t /\ y \notin Below(y)
    <3>1. y \in Nat
      OBVIOUS
    <3> HIDE DEF B
    <3>2. QED
      BY <1>3, <1>4, <3>1
  <2>4. QED
    <3> HIDE DEF B, Below
    <3>1. QED
      BY <1>2, <2>1, <2>2, <2>3
<1>5. QED
  BY <1>4

(* The sum over two disjoint sets. *)
LEMMA SumDisjoint ==
  ASSUME NEW f, NEW A, NEW B, IsFiniteSet(A), IsFiniteSet(B), A \cap B = {},
         \A x \in A \cup B : f[x] \in Int
  PROVE  SumFunctionOnSet(f, A \cup B) = SumFunctionOnSet(f, A) + SumFunctionOnSet(f, B)
<1> DEFINE Sum(s) == SumFunctionOnSet(f, s)
           Bad == {s \in SUBSET B : Sum(A \cup s) # Sum(A) + Sum(s)}
<1>1. SUFFICES ASSUME Bad # {} PROVE FALSE
  OBVIOUS
<1>2. PICK t \in Bad : \A u \in Bad : u \subseteq t => u = t
  <2>1. Bad \subseteq SUBSET B
    OBVIOUS
  <2> HIDE DEF Bad
  <2>2. QED
    BY <1>1, <2>1, SmallestSubset
<1>3. Sum(A) \in Int
  BY SumInt
<1>4. t # {} /\ t \in SUBSET B
  <2>1. ASSUME t = {} PROVE FALSE
    <3>1. Sum(t) = 0 /\ A \cup t = A
      BY <2>1, SumEmpty
    <3>2. Sum(A \cup t) = Sum(A)
      BY <3>1, Zenon
    <3>3. Sum(A) = Sum(A) + Sum(t)
      BY <1>3, <3>1
    <3>4. QED
      BY <1>2, <3>2, <3>3
  <2>2. QED
    BY <1>2, <2>1
<1> DEFINE p == Picked(t)
           r == Rest(t)
<1>5. p \in t /\ r = t \ {p} /\ r \in SUBSET B /\ r # t /\ IsFiniteSet(r) /\ IsFiniteSet(t)
  BY <1>4, PickedInside, FS_Subset DEF Rest
<1>6. Sum(t) = f[p] + Sum(r) /\ Sum(r) \in Int /\ f[p] \in Int
  BY <1>4, <1>5, SumSplit, SumInt
<1>7. IsFiniteSet(A \cup r) /\ p \notin A \cup r /\ A \cup t = (A \cup r) \cup {p}
  BY <1>4, <1>5, FS_Union
<1>8. Sum(A \cup t) = Sum(A \cup r) + f[p]
  <2>1. \A y \in (A \cup r) \cup {p} : f[y] \in Int
    BY <1>4, <1>5
  <2> HIDE DEF p, r
  <2>2. QED
    BY <1>7, <2>1, SumNewElement
<1>9. Sum(A \cup r) = Sum(A) + Sum(r)
  <2>1. r \notin Bad
    BY <1>2, <1>5
  <2> HIDE DEF Sum, p, r
  <2>2. QED
    BY <1>5, <2>1
<1> HIDE DEF Sum, p, r
<1>10. QED
  BY <1>2, <1>3, <1>6, <1>8, <1>9

(* A sum over the images of the elements of a set, of which no two agree. *)
LEMMA SumImage ==
  ASSUME NEW S, IsFiniteSet(S), NEW f, NEW g, NEW h,
         \A x \in S : f[x] \in Int /\ g[h[x]] = f[x],
         \A x, y \in S : h[x] = h[y] => x = y
  PROVE  /\ IsFiniteSet({h[x] : x \in S})
         /\ SumFunctionOnSet(g, {h[x] : x \in S}) = SumFunctionOnSet(f, S)
<1> DEFINE Image(s) == {h[x] : x \in s}
           Agrees(s) == IsFiniteSet(Image(s)) /\ SumFunctionOnSet(g, Image(s)) = SumFunctionOnSet(f, s)
           Bad == {s \in SUBSET S : ~Agrees(s)}
<1>1. SUFFICES ASSUME Bad # {} PROVE FALSE
  OBVIOUS
<1>2. PICK t \in Bad : \A u \in Bad : u \subseteq t => u = t
  <2>1. Bad \subseteq SUBSET S
    OBVIOUS
  <2> HIDE DEF Bad
  <2>2. QED
    BY <1>1, <2>1, SmallestSubset
<1>3. t # {} /\ t \in SUBSET S
  <2>1. Image({}) = {}
    OBVIOUS
  <2>2. Agrees({})
    BY <2>1, SumEmpty, FS_EmptySet
  <2> HIDE DEF Agrees
  <2>3. QED
    BY <1>2, <2>2
<1> DEFINE p == Picked(t)
           r == Rest(t)
<1>4. p \in t /\ r = t \ {p} /\ r \in SUBSET S /\ r # t /\ IsFiniteSet(t)
  BY <1>3, PickedInside, FS_Subset DEF Rest
<1>5. SumFunctionOnSet(f, t) = f[p] + SumFunctionOnSet(f, r)
  BY <1>3, <1>4, SumSplit
<1>6. Agrees(r)
  <2> HIDE DEF Agrees, p, r
  <2>1. QED
    BY <1>2, <1>4
<1>7. Image(t) = Image(r) \cup {h[p]} /\ h[p] \notin Image(r)
  <2> HIDE DEF p, r
  <2>1. QED
    BY <1>3, <1>4
<1>8. \A y \in Image(r) \cup {h[p]} : g[y] \in Int
  <2> HIDE DEF p, r
  <2>1. QED
    BY <1>3, <1>4
<1>9. SumFunctionOnSet(g, Image(t)) = SumFunctionOnSet(g, Image(r)) + g[h[p]]
  <2> HIDE DEF Image, p, r
  <2>1. QED
    BY <1>6, <1>7, <1>8, SumNewElement
<1>10. IsFiniteSet(Image(t))
  <2> HIDE DEF Image, p, r
  <2>1. QED
    BY <1>6, <1>7, FS_AddElement
<1>11. SumFunctionOnSet(f, r) \in Int
  <2>1. IsFiniteSet(r) /\ \A x \in r : f[x] \in Int
    BY <1>4, FS_Subset
  <2> HIDE DEF r
  <2>2. QED
    BY <2>1, SumInt
<1>12. p \in S /\ g[h[p]] = f[p] /\ f[p] \in Int
  BY <1>3, <1>4
<1>13. SumFunctionOnSet(g, Image(t)) = SumFunctionOnSet(f, t)
  <2> HIDE DEF Image, p, r
  <2>1. QED
    BY <1>5, <1>6, <1>9, <1>11, <1>12
<1>14. Agrees(t)
  BY <1>10, <1>13
<1>15. QED
  <2> HIDE DEF Agrees
  <2>1. QED
    BY <1>2, <1>14

(* What is zero may be left out. *)
LEMMA SumNonzero ==
  ASSUME NEW f, NEW S, IsFiniteSet(S), \A x \in S : f[x] \in Int
  PROVE  SumFunctionOnSet(f, S) = SumFunctionOnSet(f, {x \in S : f[x] # 0})
<1> DEFINE A == {x \in S : f[x] # 0}
           B == {x \in S : f[x] = 0}
<1>1. IsFiniteSet(A) /\ IsFiniteSet(B) /\ A \cap B = {} /\ A \cup B = S
  BY FS_Subset
<1>2. SumFunctionOnSet(f, B) = 0
  <2>1. \A x \in B : f[x] = 0
    OBVIOUS
  <2> HIDE DEF B
  <2>2. QED
    BY <1>1, <2>1, SumZero
<1>3. SumFunctionOnSet(f, A \cup B) = SumFunctionOnSet(f, A) + SumFunctionOnSet(f, B)
  <2> HIDE DEF A, B
  <2>1. QED
    BY <1>1, SumDisjoint
<1>4. SumFunctionOnSet(f, A) \in Int
  <2>1. \A x \in A : f[x] \in Int
    OBVIOUS
  <2> HIDE DEF A
  <2>2. QED
    BY <1>1, <2>1, SumInt
<1>5. SumFunctionOnSet(f, A \cup B) = SumFunctionOnSet(f, S)
  BY <1>1, Zenon
<1>6. SumFunctionOnSet(f, A) = SumFunctionOnSet(f, A) + 0
  BY <1>4
<1>7. QED
  BY <1>2, <1>3, <1>5, <1>6

(* One term of a sum grows by d.                                             *)
LEMMA SumShift ==
  ASSUME NEW S, IsFiniteSet(S), NEW x \in S, NEW d \in Int, NEW f, NEW g,
         \A y \in S : f[y] \in Int /\ g[y] = IF y = x THEN f[y] + d ELSE f[y]
  PROVE  SumFunctionOnSet(g, S) = SumFunctionOnSet(f, S) + d
<1>1. \A y \in S : f[y] \in Int /\ g[y] \in Int
  OBVIOUS
<1>2. (\A y \in S \ {x} : f[y] = g[y]) /\ g[x] = f[x] + d
  OBVIOUS
<1>3. SumFunctionOnSet(g, S) = SumFunctionOnSet(f, S) + g[x] - f[x]
  <2>1. IsFiniteSet(S) /\ x \in S /\ \A y \in S \ {x} : f[y] = g[y]
    BY <1>2
  <2> QED
    BY ONLY <1>1, <2>1, SumUpdate
<1>4. SumFunctionOnSet(f, S) \in Int
  BY <1>1, SumInt
<1> QED
  BY <1>1, <1>2, <1>3, <1>4

(* What is outside a part and zero adds nothing to the part.                 *)
LEMMA SumPart ==
  ASSUME NEW f, NEW S, IsFiniteSet(S), NEW T \in SUBSET S,
         \A x \in T : f[x] \in Int, \A x \in S \ T : f[x] = 0
  PROVE  SumFunctionOnSet(f, S) = SumFunctionOnSet(f, T)
<1>1. IsFiniteSet(T) /\ IsFiniteSet(S \ T) /\ T \cup (S \ T) = S /\ T \cap (S \ T) = {}
  BY FS_Subset
<1>2. SumFunctionOnSet(f, S \ T) = 0 /\ SumFunctionOnSet(f, T) \in Int
  BY <1>1, SumZero, SumInt
<1>3. \A x \in T \cup (S \ T) : f[x] \in Int
  OBVIOUS
<1>4. SumFunctionOnSet(f, T \cup (S \ T)) = SumFunctionOnSet(f, T) + SumFunctionOnSet(f, S \ T)
  BY ONLY <1>1, <1>3, SumDisjoint
<1>5. SumFunctionOnSet(f, T \cup (S \ T)) = SumFunctionOnSet(f, S)
  BY <1>1, Zenon
<1>6. SumFunctionOnSet(f, T) = SumFunctionOnSet(f, T) + 0
  BY <1>2
<1> QED
  BY <1>2, <1>4, <1>5, <1>6

(* Larger terms make a larger sum.                                           *)
LEMMA SumMonotone ==
  ASSUME NEW f, NEW g, NEW S, IsFiniteSet(S),
         \A x \in S : f[x] \in Int /\ g[x] \in Int /\ f[x] <= g[x]
  PROVE  SumFunctionOnSet(f, S) <= SumFunctionOnSet(g, S)
<1> DEFINE Bad == {s \in SUBSET S : ~(SumFunctionOnSet(f, s) <= SumFunctionOnSet(g, s))}
<1>1. SUFFICES ASSUME Bad # {} PROVE FALSE
  OBVIOUS
<1>2. PICK t \in Bad : \A u \in Bad : u \subseteq t => u = t
  <2>1. Bad \subseteq SUBSET S
    OBVIOUS
  <2> HIDE DEF Bad
  <2> QED
    BY <1>1, <2>1, SmallestSubset
<1>3. t # {} /\ t \in SUBSET S
  <2>1. SumFunctionOnSet(f, {}) = 0 /\ SumFunctionOnSet(g, {}) = 0
    BY SumEmpty
  <2>2. t \in SUBSET S /\ ~(SumFunctionOnSet(f, t) <= SumFunctionOnSet(g, t))
    BY <1>2
  <2>3. CASE t = {}
    BY <2>1, <2>2, <2>3
  <2> QED
    BY <2>2, <2>3
<1>4. Picked(t) \in t /\ Rest(t) \in SUBSET S /\ SumFunctionOnSet(f, Rest(t)) <= SumFunctionOnSet(g, Rest(t))
  BY <1>2, <1>3, PickedInside
<1>5. /\ SumFunctionOnSet(f, t) = f[Picked(t)] + SumFunctionOnSet(f, Rest(t))
      /\ SumFunctionOnSet(g, t) = g[Picked(t)] + SumFunctionOnSet(g, Rest(t))
  BY <1>3, FS_Subset, SumSplit
<1>6. SumFunctionOnSet(f, Rest(t)) \in Int /\ SumFunctionOnSet(g, Rest(t)) \in Int
  <2>1. IsFiniteSet(Rest(t)) /\ \A x \in Rest(t) : x \in S
    BY <1>4, FS_Subset
  <2> QED
    BY <2>1, SumInt
<1>7. f[Picked(t)] \in Int /\ g[Picked(t)] \in Int /\ f[Picked(t)] <= g[Picked(t)]
  BY <1>3, <1>4
<1> QED
  BY <1>2, <1>4, <1>5, <1>6, <1>7
===============================================================================
