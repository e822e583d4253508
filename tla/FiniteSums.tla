----------------------------- MODULE FiniteSums -----------------------------
(***************************************************************************)
(* Facts about SumFunctionOnSet, the sum in which LiveOrders states the    *)
(* value of the orders of a day and RateLimits what passed in a window.    *)
(* The sum is a fold, that is the value of a recursive function on the     *)
(* subsets of a set: each fact is proved from a smallest set that would    *)
(* contradict it.                                                          *)
(***************************************************************************)
EXTENDS Functions, FiniteSetTheorems, TLAPS

\* A non-empty collection of subsets of a finite set has a smallest member.
LEMMA SmallestSet ==
  ASSUME NEW S, IsFiniteSet(S), NEW Bad, Bad \subseteq SUBSET S, Bad # {}
  PROVE  \E m \in Bad : \A n \in Bad : n \subseteq m => n = m
  <1>1. FiniteSubsetsOf(S) = SUBSET S
    BY FS_FiniteSubsetsOfFinite
  <1>2. IsWellFoundedOn(StrictSubsetOrdering(S), SUBSET S)
    BY <1>1, FS_StrictSubsetOrderingWellFounded
  <1>3. PICK m \in Bad : \A n \in Bad : <<n, m>> \notin StrictSubsetOrdering(S)
    BY <1>2, WFMin
  <1>4. \A n \in Bad : n \subseteq m => n = m
    BY <1>3 DEF StrictSubsetOrdering
  <1>5. QED
    BY <1>4

\* The recursion behind the sum of f, and what it is for a function to solve
\* it on the subsets of S.
Picked(s) == CHOOSE x \in s : TRUE
SumFrom(g, f, s) == IF s = {} THEN 0 ELSE f[Picked(s)] + g[s \ {Picked(s)}]
Solves(g, f, S) == g = [s \in SUBSET S |-> SumFrom(g, f, s)]

\* A picked member is one.
LEMMA PickedIn == ASSUME NEW s, s # {} PROVE Picked(s) \in s
  BY DEF Picked

\* The sum is the value of a solution of the recursion.
LEMMA SumIsSolution ==
  ASSUME NEW f, NEW S
  PROVE  SumFunctionOnSet(f, S) = (CHOOSE g : Solves(g, f, S))[S]
  BY DEF SumFunctionOnSet, FoldFunctionOnSet, MapThenFoldSet, Solves, SumFrom, Picked

\* Two solutions agree on the subsets they share.
LEMMA SolutionsAgree ==
  \A f, S, T, g, h :
    IsFiniteSet(S) /\ T \in SUBSET S /\ Solves(g, f, S) /\ Solves(h, f, T) => g[T] = h[T]
  <1> SUFFICES ASSUME NEW f, NEW S, NEW T, NEW g, NEW h,
                      IsFiniteSet(S), T \in SUBSET S, Solves(g, f, S), Solves(h, f, T)
               PROVE  g[T] = h[T]
    OBVIOUS
  <1> DEFINE Bad == {s \in SUBSET T : g[s] # h[s]}
  <1> SUFFICES ASSUME Bad # {} PROVE FALSE
    OBVIOUS
  <1>1. PICK m \in Bad : \A n \in Bad : n \subseteq m => n = m
    <2>1. Bad \subseteq SUBSET S
      OBVIOUS
    <2> HIDE DEF Bad
    <2>2. QED
      BY <2>1, SmallestSet
  <1>2. g[m] = SumFrom(g, f, m) /\ h[m] = SumFrom(h, f, m)
    BY DEF Solves
  <1>3. CASE m = {}
    BY <1>2, <1>3 DEF SumFrom
  <1>4. CASE m # {}
    <2>1. Picked(m) \in m
      BY <1>4, PickedIn
    <2>2. m \ {Picked(m)} \notin Bad /\ m \ {Picked(m)} \in SUBSET T
      BY <1>1, <2>1
    <2>3. QED
      BY <1>2, <1>4, <2>2 DEF SumFrom
  <1>5. QED
    BY <1>3, <1>4

\* The recursion has a solution on every finite set.
LEMMA SolutionExists ==
  ASSUME NEW f, NEW S, IsFiniteSet(S)
  PROVE  \E g : Solves(g, f, S)
  <1> DEFINE Bad == {T \in SUBSET S : ~ \E g : Solves(g, f, T)}
             G(T) == CHOOSE g : Solves(g, f, T)
  <1> SUFFICES ASSUME Bad # {} PROVE FALSE
    OBVIOUS
  <1>1. PICK m \in Bad : \A n \in Bad : n \subseteq m => n = m
    <2>1. Bad \subseteq SUBSET S
      OBVIOUS
    <2> HIDE DEF Bad
    <2>2. QED
      BY <2>1, SmallestSet
  <1>2. \A s \in SUBSET m : IsFiniteSet(s)
    BY FS_Subset
  <1>3. \A s \in SUBSET m : s # m => Solves(G(s), f, s)
    <2>1. \A s \in SUBSET m : s # m => \E g : Solves(g, f, s)
      BY <1>1
    <2>2. QED
      BY <2>1
  \* The solutions of the smaller sets, put together, solve the larger one.
  <1> DEFINE below == [s \in SUBSET m |-> IF s = m THEN 0 ELSE G(s)[s]]
             g == [s \in SUBSET m |-> IF s = m THEN SumFrom(below, f, m) ELSE below[s]]
  <1> HIDE DEF G
  <1>4. ASSUME NEW s \in SUBSET m
        PROVE  g[s] = SumFrom(g, f, s)
    <2>1. CASE s = m
      <3>1. CASE m = {}
        BY <2>1, <3>1 DEF SumFrom
      <3>2. CASE m # {}
        <4>1. Picked(m) \in m
          BY <3>2, PickedIn
        <4>2. g[m \ {Picked(m)}] = below[m \ {Picked(m)}]
          BY <4>1
        <4>3. QED
          BY <2>1, <4>2 DEF SumFrom
      <3>3. QED
        BY <3>1, <3>2
    <2>2. CASE s # m
      <3>1. g[s] = G(s)[s] /\ Solves(G(s), f, s)
        BY <1>3, <2>2
      <3>2. G(s)[s] = SumFrom(G(s), f, s)
        BY <3>1 DEF Solves
      <3>3. CASE s = {}
        BY <3>1, <3>2, <3>3 DEF SumFrom
      <3>4. CASE s # {}
        <4> DEFINE t == s \ {Picked(s)}
        <4>1. t \in SUBSET s /\ t \in SUBSET m /\ t # m
          BY <2>2
        <4>2. Solves(G(t), f, t) /\ g[t] = G(t)[t]
          BY <1>3, <4>1
        <4>3. IsFiniteSet(s)
          BY <1>2
        <4>4. G(s)[t] = G(t)[t]
          <5> HIDE DEF t, g
          <5> QED
            BY <3>1, <4>1, <4>2, <4>3, SolutionsAgree
        <4>5. QED
          BY <3>1, <3>2, <3>4, <4>2, <4>4 DEF SumFrom
      <3>5. QED
        BY <3>3, <3>4
    <2>3. QED
      BY <2>1, <2>2
  <1>5. Solves(g, f, m)
    BY <1>4 DEF Solves
  <1>6. QED
    BY <1>5

-----------------------------------------------------------------------------

\* The sum over no element, and over a set without its first element.
LEMMA SumUnfolds ==
  ASSUME NEW f, NEW S, IsFiniteSet(S)
  PROVE  SumFunctionOnSet(f, S) =
           IF S = {} THEN 0
           ELSE f[Picked(S)] + SumFunctionOnSet(f, S \ {Picked(S)})
  <1> DEFINE g == CHOOSE h : Solves(h, f, S)
             T == S \ {Picked(S)}
             gT == CHOOSE h : Solves(h, f, T)
  <1>1. IsFiniteSet(T) /\ T \in SUBSET S
    BY FS_Subset
  <1>2. Solves(g, f, S) /\ Solves(gT, f, T)
    BY <1>1, SolutionExists
  <1>3. SumFunctionOnSet(f, S) = g[S] /\ SumFunctionOnSet(f, T) = gT[T]
    BY SumIsSolution
  <1> HIDE DEF g, gT
  <1>4. g[S] = SumFrom(g, f, S)
    BY <1>2 DEF Solves
  <1>5. g[T] = gT[T]
    <2> HIDE DEF T
    <2> QED
      BY <1>1, <1>2, SolutionsAgree
  <1>6. QED
    BY <1>3, <1>4, <1>5 DEF SumFrom

\* A sum of natural numbers is one.
LEMMA SumIsNatural ==
  ASSUME NEW D, NEW f \in [D -> Nat], NEW S \in SUBSET D, IsFiniteSet(S)
  PROVE  SumFunctionOnSet(f, S) \in Nat
  <1> DEFINE Bad == {s \in SUBSET S : SumFunctionOnSet(f, s) \notin Nat}
  <1> SUFFICES ASSUME Bad # {} PROVE FALSE
    OBVIOUS
  <1>1. PICK m \in Bad : \A n \in Bad : n \subseteq m => n = m
    <2>1. Bad \subseteq SUBSET S
      OBVIOUS
    <2> HIDE DEF Bad
    <2>2. QED
      BY <2>1, SmallestSet
  <1>2. IsFiniteSet(m)
    BY FS_Subset
  <1>3. m # {}
    <2>1. SumFunctionOnSet(f, {}) = 0
      BY FS_EmptySet, SumUnfolds
    <2>2. QED
      BY <2>1
  <1>4. Picked(m) \in m
    BY <1>3, PickedIn
  <1>5. m \ {Picked(m)} \in SUBSET S /\ m \ {Picked(m)} \notin Bad
    BY <1>1, <1>4
  <1>6. SumFunctionOnSet(f, m) = f[Picked(m)] + SumFunctionOnSet(f, m \ {Picked(m)})
    BY <1>2, <1>3, SumUnfolds
  <1>7. f[Picked(m)] \in Nat
    BY <1>4
  <1>8. QED
    BY <1>5, <1>6, <1>7

\* Any element can be taken out of a sum.
LEMMA SumWithout ==
  ASSUME NEW D, NEW f \in [D -> Nat], NEW S \in SUBSET D, IsFiniteSet(S), NEW y \in S
  PROVE  SumFunctionOnSet(f, S) = f[y] + SumFunctionOnSet(f, S \ {y})
  <1> DEFINE Sum(s) == SumFunctionOnSet(f, s)
             Bad == {s \in SUBSET S : \E z \in s : Sum(s) # f[z] + Sum(s \ {z})}
  <1> HIDE DEF Sum
  <1> SUFFICES ASSUME Bad # {} PROVE FALSE
    BY DEF Sum
  <1>1. PICK m \in Bad : \A n \in Bad : n \subseteq m => n = m
    <2>1. Bad \subseteq SUBSET S
      OBVIOUS
    <2> HIDE DEF Bad
    <2>2. QED
      BY <2>1, SmallestSet
  <1>2. PICK z \in m : Sum(m) # f[z] + Sum(m \ {z})
    OBVIOUS
  <1> DEFINE x == Picked(m)
  <1>3. x \in m
    BY PickedIn
  <1>4. \A s \in SUBSET S : IsFiniteSet(s) /\ Sum(s) \in Nat
    BY FS_Subset, SumIsNatural DEF Sum
  <1>5. Sum(m) = f[x] + Sum(m \ {x})
    BY <1>3, <1>4, SumUnfolds DEF Sum
  <1>6. x # z
    BY <1>2, <1>5
  <1> HIDE DEF x
  <1>7. m \ {x} \in SUBSET S /\ m \ {x} \notin Bad /\ z \in m \ {x}
    BY <1>1, <1>3, <1>6
  <1>8. Sum(m \ {x}) = f[z] + Sum((m \ {x}) \ {z})
    BY <1>7
  <1>9. m \ {z} \in SUBSET S /\ m \ {z} \notin Bad /\ x \in m \ {z}
    BY <1>1, <1>3, <1>6
  <1>10. Sum(m \ {z}) = f[x] + Sum((m \ {z}) \ {x})
    BY <1>9
  <1>11. (m \ {x}) \ {z} = (m \ {z}) \ {x} /\ (m \ {x}) \ {z} \in SUBSET S
    OBVIOUS
  <1>12. Sum((m \ {x}) \ {z}) \in Nat /\ f[x] \in Nat /\ f[z] \in Nat
    BY <1>3, <1>4, <1>11
  <1>13. Sum(m) = f[z] + Sum(m \ {z})
    <2> DEFINE rest == Sum((m \ {x}) \ {z})
    <2>1. Sum(m \ {x}) = f[z] + rest /\ Sum(m \ {z}) = f[x] + rest
      BY <1>8, <1>10, <1>11
    <2>2. rest \in Nat
      BY <1>12
    <2> HIDE DEF rest, Bad
    <2>3. QED
      BY <1>5, <1>12, <2>1, <2>2
  <1>14. QED
    BY <1>2, <1>13

\* A sum over more elements is not smaller.
LEMMA SumGrows ==
  ASSUME NEW D, NEW f \in [D -> Nat], NEW S \in SUBSET D, IsFiniteSet(S), NEW T \in SUBSET S
  PROVE  SumFunctionOnSet(f, T) <= SumFunctionOnSet(f, S)
  <1> DEFINE Sum(s) == SumFunctionOnSet(f, s)
             Bad == {s \in SUBSET S : T \subseteq s /\ ~ (Sum(T) <= Sum(s))}
  <1> HIDE DEF Sum
  <1> SUFFICES ASSUME Bad # {} PROVE FALSE
    BY DEF Sum
  <1>1. PICK m \in Bad : \A n \in Bad : n \subseteq m => n = m
    <2>1. Bad \subseteq SUBSET S
      OBVIOUS
    <2> HIDE DEF Bad
    <2>2. QED
      BY <2>1, SmallestSet
  <1>2. \A s \in SUBSET S : IsFiniteSet(s) /\ Sum(s) \in Nat
    BY FS_Subset, SumIsNatural DEF Sum
  <1>3. m # T
    BY <1>2
  <1>4. PICK y \in m : y \notin T
    BY <1>3
  <1>5. Sum(m) = f[y] + Sum(m \ {y})
    BY <1>2, SumWithout DEF Sum
  <1>6. m \ {y} \in SUBSET S /\ m \ {y} \notin Bad /\ T \subseteq m \ {y}
    BY <1>1, <1>4
  <1>7. Sum(T) <= Sum(m \ {y}) /\ Sum(m \ {y}) \in Nat /\ Sum(T) \in Nat /\ f[y] \in Nat
    BY <1>2, <1>6
  <1>8. Sum(T) <= Sum(m)
    BY <1>5, <1>7
  <1>9. QED
    BY <1>8

\* The sum over a set depends on the function's values there only.
LEMMA SumAgrees ==
  ASSUME NEW D, NEW f \in [D -> Nat], NEW g \in [D -> Nat],
         NEW S \in SUBSET D, IsFiniteSet(S), \A x \in S : f[x] = g[x]
  PROVE  SumFunctionOnSet(f, S) = SumFunctionOnSet(g, S)
  <1> DEFINE F(s) == SumFunctionOnSet(f, s)
             G(s) == SumFunctionOnSet(g, s)
             Bad == {s \in SUBSET S : F(s) # G(s)}
  <1> HIDE DEF F, G
  <1> SUFFICES ASSUME Bad # {} PROVE FALSE
    BY DEF F, G
  <1>1. PICK m \in Bad : \A n \in Bad : n \subseteq m => n = m
    <2>1. Bad \subseteq SUBSET S
      OBVIOUS
    <2> HIDE DEF Bad
    <2>2. QED
      BY <2>1, SmallestSet
  <1>2. IsFiniteSet(m)
    BY FS_Subset
  <1>3. m # {}
    <2>1. F({}) = 0 /\ G({}) = 0
      BY FS_EmptySet, SumUnfolds DEF F, G
    <2>2. QED
      BY <2>1
  <1> DEFINE x == Picked(m)
  <1>4. x \in m
    BY <1>3, PickedIn
  <1>5. F(m) = f[x] + F(m \ {x}) /\ G(m) = g[x] + G(m \ {x})
    BY <1>2, <1>3, SumUnfolds DEF F, G
  <1> HIDE DEF x
  <1>6. m \ {x} \in SUBSET S /\ m \ {x} \notin Bad
    BY <1>1, <1>4
  <1>7. QED
    BY <1>4, <1>5, <1>6

\* A sum is the sum of the sums over the two parts of its set.
LEMMA SumSplits ==
  ASSUME NEW D, NEW f \in [D -> Nat], NEW S \in SUBSET D, IsFiniteSet(S), NEW T \in SUBSET S
  PROVE  SumFunctionOnSet(f, S) = SumFunctionOnSet(f, T) + SumFunctionOnSet(f, S \ T)
  <1> DEFINE Sum(s) == SumFunctionOnSet(f, s)
             Bad == {s \in SUBSET S : T \subseteq s /\ Sum(s) # Sum(T) + Sum(s \ T)}
  <1> HIDE DEF Sum
  <1> SUFFICES ASSUME Bad # {} PROVE FALSE
    BY DEF Sum
  <1>1. PICK m \in Bad : \A n \in Bad : n \subseteq m => n = m
    <2>1. Bad \subseteq SUBSET S
      OBVIOUS
    <2> HIDE DEF Bad
    <2>2. QED
      BY <2>1, SmallestSet
  <1>2. \A s \in SUBSET S : IsFiniteSet(s) /\ Sum(s) \in Nat
    BY FS_Subset, SumIsNatural DEF Sum
  <1>3. m # T
    <2>1. Sum({}) = 0
      BY FS_EmptySet, SumUnfolds DEF Sum
    <2>2. T \ T = {}
      OBVIOUS
    <2>3. QED
      BY <1>2, <2>1, <2>2
  <1>4. PICK y \in m : y \notin T
    BY <1>3
  <1>5. Sum(m) = f[y] + Sum(m \ {y})
    BY <1>2, SumWithout DEF Sum
  <1>6. m \ {y} \in SUBSET S /\ m \ {y} \notin Bad /\ T \subseteq m \ {y}
    BY <1>1, <1>4
  <1>7. Sum(m \ {y}) = Sum(T) + Sum((m \ {y}) \ T)
    BY <1>6
  <1>8. (m \ {y}) \ T = (m \ T) \ {y} /\ y \in m \ T /\ m \ T \in SUBSET S
    BY <1>4
  <1>9. Sum(m \ T) = f[y] + Sum((m \ T) \ {y})
    BY <1>2, <1>8, SumWithout DEF Sum
  <1>10. Sum(T) \in Nat /\ Sum((m \ T) \ {y}) \in Nat /\ f[y] \in Nat
    <2>1. (m \ T) \ {y} \in SUBSET S /\ y \in D
      BY <1>4
    <2>2. QED
      BY <1>2, <2>1
  <1>11. Sum(m) = Sum(T) + Sum(m \ T)
    <2> HIDE DEF Bad
    <2>1. Sum(m) = f[y] + (Sum(T) + Sum((m \ T) \ {y}))
      BY <1>5, <1>7, <1>8
    <2>2. QED
      BY <1>9, <1>10, <2>1
  <1>12. QED
    BY <1>1, <1>11

\* A sum of zeros is zero.
LEMMA SumOfZeros ==
  ASSUME NEW D, NEW f \in [D -> Nat], NEW S \in SUBSET D, IsFiniteSet(S), \A x \in S : f[x] = 0
  PROVE  SumFunctionOnSet(f, S) = 0
  <1> DEFINE Sum(s) == SumFunctionOnSet(f, s)
             Bad == {s \in SUBSET S : Sum(s) # 0}
  <1> HIDE DEF Sum
  <1> SUFFICES ASSUME Bad # {} PROVE FALSE
    BY DEF Sum
  <1>1. PICK m \in Bad : \A n \in Bad : n \subseteq m => n = m
    <2>1. Bad \subseteq SUBSET S
      OBVIOUS
    <2> HIDE DEF Bad
    <2>2. QED
      BY <2>1, SmallestSet
  <1>2. IsFiniteSet(m)
    BY FS_Subset
  <1>3. m # {}
    <2>1. Sum({}) = 0
      BY FS_EmptySet, SumUnfolds DEF Sum
    <2>2. QED
      BY <2>1
  <1> DEFINE x == Picked(m)
  <1>4. x \in m
    BY <1>3, PickedIn
  <1>5. Sum(m) = f[x] + Sum(m \ {x})
    BY <1>2, <1>3, SumUnfolds DEF Sum
  <1> HIDE DEF x
  <1>6. m \ {x} \in SUBSET S /\ m \ {x} \notin Bad
    BY <1>1, <1>4
  <1>7. QED
    BY <1>4, <1>5, <1>6

\* One more at a place is one more in the sums over sets with that place.
LEMMA SumCounts ==
  ASSUME NEW D, NEW f \in [D -> Nat], NEW S \in SUBSET D, IsFiniteSet(S), NEW y \in D,
         NEW g \in [D -> Nat], g[y] = f[y] + 1, \A x \in D \ {y} : g[x] = f[x]
  PROVE  SumFunctionOnSet(g, S) =
           IF y \in S THEN SumFunctionOnSet(f, S) + 1 ELSE SumFunctionOnSet(f, S)
  <1>1. CASE y \notin S
    <2>1. SumFunctionOnSet(f, S) = SumFunctionOnSet(g, S)
      BY <1>1, SumAgrees
    <2>2. QED
      BY <1>1, <2>1
  <1>2. CASE y \in S
    <2> DEFINE T == S \ {y}
    <2>1. T \in SUBSET D /\ IsFiniteSet(T) /\ y \notin T
      BY FS_Subset
    <2>2. SumFunctionOnSet(f, T) = SumFunctionOnSet(g, T)
      BY <2>1, SumAgrees
    <2>3. SumFunctionOnSet(f, S) = f[y] + SumFunctionOnSet(f, T)
      BY <1>2, SumWithout
    <2>4. SumFunctionOnSet(g, S) = g[y] + SumFunctionOnSet(g, T)
      BY <1>2, SumWithout
    <2>5. SumFunctionOnSet(f, T) \in Nat
      BY <2>1, SumIsNatural
    <2> HIDE DEF T
    <2>6. QED
      BY <1>2, <2>2, <2>3, <2>4, <2>5
  <1>3. QED
    BY <1>1, <1>2

=============================================================================
