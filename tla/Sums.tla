-------------------------------- MODULE Sums --------------------------------
(***************************************************************************)
(* Sums over finite sets, for proofs about amounts and numbers of days.    *)
(* The induction theorems of the library take a predicate as a parameter;  *)
(* here induction is by a least counterexample, which is a set.            *)
(***************************************************************************)
EXTENDS Integers, Functions, FiniteSetTheorems, TLAPS

(***************************************************************************)
(* A set of subsets of a finite set has one that contains no other.        *)
(***************************************************************************)
LEMMA SmallestSet ==
    ASSUME NEW S, IsFiniteSet(S), NEW W \in SUBSET SUBSET S, W # {}
    PROVE  \E T \in W : \A U \in W : ~(U \subseteq T /\ U # T)
<1>1. W \subseteq FiniteSubsetsOf(S)
  BY FS_FiniteSubsetsOfFinite
<1>2. PICK T \in W : \A U \in W : ~ (<<U, T>> \in StrictSubsetOrdering(S))
  BY <1>1, FS_StrictSubsetOrderingWellFounded, WFMin
<1>3. QED  BY <1>2 DEF StrictSubsetOrdering

(***************************************************************************)
(* Induction up to n, for a set P of numbers.                              *)
(***************************************************************************)
LEMMA CountingUp ==
    ASSUME NEW n \in Nat, NEW P, 0 \in P,
           \A k \in 0 .. n - 1 : k \in P => k + 1 \in P
    PROVE  \A k \in 0 .. n : k \in P
<1>1. SUFFICES ASSUME NEW k \in 0 .. n, k \notin P PROVE FALSE
  OBVIOUS
<1> DEFINE Upto == [j \in 0 .. n |-> 0 .. j]
           W == {Upto[j] : j \in {i \in 0 .. n : i \notin P}}
<1>2. IsFiniteSet(0 .. n)
  BY FS_Interval
<1>3. W \subseteq SUBSET (0 .. n) /\ W # {}
  BY <1>1
<1>4. PICK T \in W : \A U \in W : ~(U \subseteq T /\ U # T)
  <2> DEFINE I == 0 .. n
  <2>1. IsFiniteSet(I) /\ W \in SUBSET SUBSET I /\ W # {}
    BY <1>2, <1>3
  <2> HIDE DEF W, I
  <2> QED  BY <2>1, SmallestSet
<1>5. PICK j \in 0 .. n : j \notin P /\ T = 0 .. j
  BY <1>4
<1>6. j - 1 \in 0 .. n - 1
  BY <1>5
<1>7. j - 1 \in P
  <2>1. SUFFICES ASSUME j - 1 \notin P PROVE FALSE
    OBVIOUS
  <2>2. 0 .. j - 1 \in W
    BY <1>6, <2>1
  <2>3. 0 .. j - 1 \subseteq 0 .. j /\ j \in 0 .. j /\ j \notin 0 .. j - 1
    OBVIOUS
  <2>4. QED  BY <1>4, <1>5, <2>2, <2>3
<1>8. QED  BY <1>5, <1>6, <1>7

(***************************************************************************)
(* The equation of a fold: one element of T, and what g says of the rest.  *)
(***************************************************************************)
Some(T) == CHOOSE x \in T : TRUE
Unfold(f, T, g) == IF T = {} THEN 0 ELSE f[Some(T)] + g[T \ {Some(T)}]

LEMMA SomeIsElement == ASSUME NEW T, T # {} PROVE Some(T) \in T
  BY DEF Some

(***************************************************************************)
(* A function satisfies this equation, so SumFunctionOnSet does.           *)
(***************************************************************************)
LEMMA FoldExists ==
    ASSUME NEW f, NEW S, IsFiniteSet(S)
    PROVE  \E g : g = [T \in SUBSET S |-> Unfold(f, T, g)]
<1> DEFINE Small(n) == {T \in SUBSET S : Cardinality(T) <= n}
           n == Cardinality(S)
           P == {k \in 0 .. n : \E g : g = [T \in Small(k) |-> Unfold(f, T, g)]}
<1>1. n \in Nat /\ \A T \in SUBSET S : /\ IsFiniteSet(T)
                                       /\ Cardinality(T) \in Nat
                                       /\ Cardinality(T) <= n
  BY FS_CardinalityType, FS_Subset
<1>2. \A T \in SUBSET S : T # {} =>
          T \ {Some(T)} \in SUBSET S /\ Cardinality(T \ {Some(T)}) = Cardinality(T) - 1
  BY <1>1, SomeIsElement, FS_RemoveElement
<1>3. 0 \in P
  <2>1. \A T \in Small(0) : T = {}
    BY <1>1, FS_EmptySet
  <2> DEFINE g == [T \in Small(0) |-> 0]
  <2>2. g = [T \in Small(0) |-> Unfold(f, T, g)]
    BY <2>1 DEF Unfold
  <2> HIDE DEF g, Small
  <2>3. 0 \in 0 .. n
    BY <1>1
  <2> HIDE DEF n
  <2>4. QED  BY <2>2, <2>3
<1>4. ASSUME NEW k \in 0 .. n - 1, k \in P PROVE k + 1 \in P
  <2>1. PICK g : g = [T \in Small(k) |-> Unfold(f, T, g)]
    BY <1>4
  <2> DEFINE h == [T \in Small(k + 1) |-> Unfold(f, T, g)]
  <2>2. ASSUME NEW T \in Small(k + 1) PROVE h[T] = Unfold(f, T, h)
    <3>1. CASE T = {}
      BY <3>1 DEF Unfold
    <3>2. CASE T # {}
      <4> DEFINE U == T \ {Some(T)}
      <4>1. U \in Small(k) /\ U \in Small(k + 1)
        BY <1>1, <1>2, <3>2
      <4>2. h[U] = Unfold(f, U, g) /\ g[U] = Unfold(f, U, g)
        BY <2>1, <4>1
      <4>3. h[T] = Unfold(f, T, g)
        OBVIOUS
      <4> HIDE DEF h
      <4>4. QED  BY <3>2, <4>2, <4>3 DEF Unfold
    <3>3. QED  BY <3>1, <3>2
  <2>3. h = [T \in Small(k + 1) |-> Unfold(f, T, h)]
    <3>1. h = [T \in Small(k + 1) |-> h[T]]
      OBVIOUS
    <3> HIDE DEF h, Small
    <3>2. QED  BY <2>2, <3>1
  <2>4. k + 1 \in 0 .. n
    BY <1>1
  <2> HIDE DEF h, Small
  <2>5. QED  BY <2>3, <2>4
<1>5. n \in P
  <2> HIDE DEF P, n
  <2> QED  BY <1>1, <1>3, <1>4, CountingUp
<1>6. Small(n) = SUBSET S
  BY <1>1
<1>7. QED  BY <1>5, <1>6

Fold(f, S) == CHOOSE g : g = [T \in SUBSET S |-> Unfold(f, T, g)]

LEMMA SumIsFold ==
    ASSUME NEW f, NEW S
    PROVE  SumFunctionOnSet(f, S) = Fold(f, S)[S]
  BY DEF SumFunctionOnSet, FoldFunctionOnSet, MapThenFoldSet, Fold, Unfold, Some

LEMMA FoldUnfolds ==
    ASSUME NEW f, NEW S, IsFiniteSet(S), NEW T \in SUBSET S
    PROVE  Fold(f, S)[T] = Unfold(f, T, Fold(f, S))
<1> DEFINE g == Fold(f, S)
<1>1. g = [U \in SUBSET S |-> Unfold(f, U, g)]
  BY FoldExists DEF Fold
<1> HIDE DEF g
<1>2. g[T] = Unfold(f, T, g)
  BY <1>1
<1>3. QED  BY <1>2 DEF g

(***************************************************************************)
(* The sum over a subset does not depend on the set it is taken from.      *)
(***************************************************************************)
LEMMA FoldOfSubset ==
    ASSUME NEW f, NEW S, IsFiniteSet(S), NEW T \in SUBSET S
    PROVE  Fold(f, S)[T] = SumFunctionOnSet(f, T)
<1> DEFINE W == {U \in SUBSET T : Fold(f, S)[U] # Fold(f, T)[U]}
<1>1. IsFiniteSet(T)
  BY FS_Subset
<1>2. SUFFICES ASSUME W # {} PROVE FALSE
  BY SumIsFold
<1>3. PICK U \in W : \A V \in W : ~(V \subseteq U /\ V # U)
  <2>1. W \in SUBSET SUBSET T
    OBVIOUS
  <2> HIDE DEF W
  <2> QED  BY <1>1, <1>2, <2>1, SmallestSet
<1>4. U \in SUBSET T /\ U \in SUBSET S /\ Fold(f, S)[U] # Fold(f, T)[U]
  OBVIOUS
<1>5. Fold(f, S)[U] = Unfold(f, U, Fold(f, S)) /\ Fold(f, T)[U] = Unfold(f, U, Fold(f, T))
  BY <1>1, <1>4, FoldUnfolds
<1>6. U # {}
  BY <1>4, <1>5 DEF Unfold
<1>7. U \ {Some(U)} \notin W
  BY <1>3, <1>6, SomeIsElement
<1>8. QED  BY <1>4, <1>5, <1>6, <1>7 DEF Unfold

LEMMA SumOfNone ==
    ASSUME NEW f PROVE SumFunctionOnSet(f, {}) = 0
  BY FS_EmptySet, SumIsFold, FoldUnfolds DEF Unfold

LEMMA SumOfSome ==
    ASSUME NEW f, NEW S, IsFiniteSet(S), S # {}
    PROVE  SumFunctionOnSet(f, S) = f[Some(S)] + SumFunctionOnSet(f, S \ {Some(S)})
<1>1. SumFunctionOnSet(f, S) = Unfold(f, S, Fold(f, S))
  BY SumIsFold, FoldUnfolds
<1>2. Fold(f, S)[S \ {Some(S)}] = SumFunctionOnSet(f, S \ {Some(S)})
  BY FoldOfSubset
<1>3. QED  BY <1>1, <1>2 DEF Unfold

LEMMA SumType ==
    ASSUME NEW f, NEW S, IsFiniteSet(S), \A x \in S : f[x] \in Int
    PROVE  SumFunctionOnSet(f, S) \in Int
<1> DEFINE W == {T \in SUBSET S : SumFunctionOnSet(f, T) \notin Int}
<1>1. SUFFICES ASSUME W # {} PROVE FALSE
  OBVIOUS
<1>2. PICK T \in W : \A U \in W : ~(U \subseteq T /\ U # T)
  <2>1. W \in SUBSET SUBSET S
    OBVIOUS
  <2> HIDE DEF W
  <2> QED  BY <1>1, <2>1, SmallestSet
<1>3. T \in SUBSET S /\ IsFiniteSet(T) /\ SumFunctionOnSet(f, T) \notin Int
  BY FS_Subset
<1>4. T # {}
  BY <1>3, SumOfNone
<1>5. SumFunctionOnSet(f, T \ {Some(T)}) \in Int
  BY <1>2, <1>4, SomeIsElement
<1>6. QED  BY <1>3, <1>4, <1>5, SomeIsElement, SumOfSome

(***************************************************************************)
(* Any element of the set can be taken out of a sum.                       *)
(***************************************************************************)
LEMMA SumWithout ==
    ASSUME NEW f, NEW S, IsFiniteSet(S), \A x \in S : f[x] \in Int, NEW x \in S
    PROVE  SumFunctionOnSet(f, S) = f[x] + SumFunctionOnSet(f, S \ {x})
<1> DEFINE Out(T, y) == SumFunctionOnSet(f, T) = f[y] + SumFunctionOnSet(f, T \ {y})
           W == {T \in SUBSET S : \E y \in T : ~Out(T, y)}
<1>1. SUFFICES ASSUME W # {} PROVE FALSE
  OBVIOUS
<1>2. PICK T \in W : \A U \in W : ~(U \subseteq T /\ U # T)
  <2>1. W \in SUBSET SUBSET S
    OBVIOUS
  <2> HIDE DEF W
  <2> QED  BY <1>1, <2>1, SmallestSet
<1>3. PICK y \in T : ~Out(T, y)
  BY <1>2
<1> DEFINE s == Some(T)
<1>4. T \in SUBSET S /\ IsFiniteSet(T) /\ s \in T
  BY FS_Subset, SomeIsElement
<1>5. SumFunctionOnSet(f, T) = f[s] + SumFunctionOnSet(f, T \ {s})
  BY <1>4, SumOfSome
<1> HIDE DEF s
<1>6. y # s
  BY <1>3, <1>5
<1>7. Out(T \ {s}, y) /\ Out(T \ {y}, s)
  <2>1. T \ {s} \notin W /\ T \ {y} \notin W
    BY <1>2, <1>4
  <2>2. T \ {s} \in SUBSET S /\ T \ {y} \in SUBSET S /\ y \in T \ {s} /\ s \in T \ {y}
    BY <1>4, <1>6
  <2> HIDE DEF Out
  <2>3. QED  BY <2>1, <2>2
<1>8. (T \ {s}) \ {y} = (T \ {y}) \ {s}
  OBVIOUS
<1> DEFINE rest == SumFunctionOnSet(f, (T \ {s}) \ {y})
<1>9. rest \in Int /\ f[s] \in Int /\ f[y] \in Int
  <2>1. (T \ {s}) \ {y} \in SUBSET S
    BY <1>4
  <2>2. IsFiniteSet((T \ {s}) \ {y})
    BY <2>1, FS_Subset
  <2>3. QED  BY <1>4, <2>1, <2>2, SumType
<1>10. /\ SumFunctionOnSet(f, T) = f[s] + (f[y] + rest)
       /\ SumFunctionOnSet(f, T \ {y}) = f[s] + rest
  BY <1>5, <1>7, <1>8
<1> HIDE DEF rest
<1>11. SumFunctionOnSet(f, T) = f[y] + SumFunctionOnSet(f, T \ {y})
  BY <1>9, <1>10
<1>12. QED  BY <1>3, <1>11

LEMMA SumWith ==
    ASSUME NEW f, NEW S, IsFiniteSet(S), NEW x, x \notin S,
           \A y \in S \cup {x} : f[y] \in Int
    PROVE  SumFunctionOnSet(f, S \cup {x}) = SumFunctionOnSet(f, S) + f[x]
<1>1. IsFiniteSet(S \cup {x})
  BY FS_AddElement
<1>2. (S \cup {x}) \ {x} = S
  OBVIOUS
<1>3. SumFunctionOnSet(f, S \cup {x}) = f[x] + SumFunctionOnSet(f, (S \cup {x}) \ {x})
  BY <1>1, SumWithout
<1>4. SumFunctionOnSet(f, S) \in Int
  BY SumType
<1>5. SumFunctionOnSet(f, S \cup {x}) = f[x] + SumFunctionOnSet(f, S)
  BY <1>2, <1>3
<1>6. f[x] \in Int
  OBVIOUS
<1>7. QED  BY <1>4, <1>5, <1>6

(***************************************************************************)
(* A sum depends only on the values at the elements of the set.            *)
(***************************************************************************)
LEMMA SumOfSameValues ==
    ASSUME NEW f, NEW g, NEW S, IsFiniteSet(S), \A x \in S : f[x] = g[x]
    PROVE  SumFunctionOnSet(f, S) = SumFunctionOnSet(g, S)
<1> DEFINE W == {T \in SUBSET S : SumFunctionOnSet(f, T) # SumFunctionOnSet(g, T)}
<1>1. SUFFICES ASSUME W # {} PROVE FALSE
  OBVIOUS
<1>2. PICK T \in W : \A U \in W : ~(U \subseteq T /\ U # T)
  <2>1. W \in SUBSET SUBSET S
    OBVIOUS
  <2> HIDE DEF W
  <2> QED  BY <1>1, <2>1, SmallestSet
<1>3. /\ T \in SUBSET S /\ IsFiniteSet(T)
      /\ SumFunctionOnSet(f, T) # SumFunctionOnSet(g, T)
  BY FS_Subset
<1>4. T # {}
  BY <1>3, SumOfNone
<1>5. SumFunctionOnSet(f, T \ {Some(T)}) = SumFunctionOnSet(g, T \ {Some(T)})
  BY <1>2, <1>4, SomeIsElement
<1>6. QED  BY <1>3, <1>4, <1>5, SomeIsElement, SumOfSome

(***************************************************************************)
(* A sum changes by what one of its values changes by.                     *)
(***************************************************************************)
LEMMA SumChanges ==
    ASSUME NEW f, NEW g, NEW S, IsFiniteSet(S), NEW x \in S, NEW d \in Int,
           \A y \in S : f[y] \in Int, g[x] = f[x] + d, \A y \in S \ {x} : g[y] = f[y]
    PROVE  SumFunctionOnSet(g, S) = SumFunctionOnSet(f, S) + d
<1>1. IsFiniteSet(S \ {x})
  BY FS_Subset
<1>2. f[x] \in Int /\ \A y \in S : g[y] \in Int
  OBVIOUS
<1>3. SumFunctionOnSet(f, S) = f[x] + SumFunctionOnSet(f, S \ {x})
  BY SumWithout
<1>4. SumFunctionOnSet(g, S) = g[x] + SumFunctionOnSet(g, S \ {x})
  BY <1>2, SumWithout
<1>5. SumFunctionOnSet(f, S \ {x}) = SumFunctionOnSet(g, S \ {x})
  BY <1>1, SumOfSameValues
<1>6. SumFunctionOnSet(f, S \ {x}) \in Int
  BY <1>1, SumType
<1>7. QED  BY <1>2, <1>3, <1>4, <1>5, <1>6

LEMMA SumChangesAt ==
    ASSUME NEW f, NEW g, NEW S, IsFiniteSet(S), NEW x, NEW d \in Int,
           \A y \in S : f[y] \in Int, x \in S => g[x] = f[x] + d,
           \A y \in S \ {x} : g[y] = f[y]
    PROVE  /\ SumFunctionOnSet(f, S) \in Int
           /\ SumFunctionOnSet(g, S) = SumFunctionOnSet(f, S) + (IF x \in S THEN d ELSE 0)
<1>1. SumFunctionOnSet(f, S) \in Int
  BY SumType
<1>2. CASE x \in S
  BY <1>1, <1>2, SumChanges
<1>3. CASE x \notin S
  <2>1. \A y \in S : f[y] = g[y]
    BY <1>3
  <2>2. SumFunctionOnSet(f, S) = SumFunctionOnSet(g, S)
    BY <2>1, SumOfSameValues
  <2>3. QED  BY <1>1, <1>3, <2>2
<1>4. QED  BY <1>1, <1>2, <1>3

(***************************************************************************)
(* An amount that moves to x and from y changes a sum by what of x and y   *)
(* is added up.                                                            *)
(***************************************************************************)
AmountMoves(f, g, S, x, y, a) ==
    \A z \in S : g[z] = f[z] + (IF z = x THEN a ELSE 0) - (IF z = y THEN a ELSE 0)

LEMMA SumMoves ==
    ASSUME NEW f, NEW g, NEW S, IsFiniteSet(S), NEW x, NEW y, NEW a \in Int,
           \A z \in S : f[z] \in Int, AmountMoves(f, g, S, x, y, a)
    PROVE  /\ SumFunctionOnSet(f, S) \in Int
           /\ SumFunctionOnSet(g, S) =
              SumFunctionOnSet(f, S) + (IF x \in S THEN a ELSE 0) - (IF y \in S THEN a ELSE 0)
<1> DEFINE h == [z \in S |-> f[z] + (IF z = x THEN a ELSE 0)]
           back == 0 - a
<1>1. /\ \A z \in S : f[z] \in Int /\ h[z] \in Int
      /\ back \in Int
  OBVIOUS
<1>2. /\ x \in S => h[x] = f[x] + a
      /\ \A z \in S \ {x} : h[z] = f[z]
  OBVIOUS
<1>3. /\ y \in S => g[y] = h[y] + back
      /\ \A z \in S \ {y} : g[z] = h[z]
  BY DEF AmountMoves
<1>4. back = 0 - a
  OBVIOUS
<1>h. \A z \in S : h[z] \in Int
  BY <1>1
<1>b. back \in Int
  BY <1>1
<1> HIDE DEF h, back
<1> DEFINE before == SumFunctionOnSet(f, S)
           between == SumFunctionOnSet(h, S)
           after == SumFunctionOnSet(g, S)
<1>5. before \in Int /\ between = before + (IF x \in S THEN a ELSE 0)
  BY <1>1, <1>2, SumChangesAt
<1>6. between \in Int /\ after = between + (IF y \in S THEN back ELSE 0)
  BY <1>b, <1>h, <1>3, SumChangesAt
<1> HIDE DEF before, between, after
<1>7. after = before + (IF x \in S THEN a ELSE 0) - (IF y \in S THEN a ELSE 0)
  <2>1. CASE y \in S
    BY <1>1, <1>4, <1>5, <1>6, <2>1
  <2>2. CASE y \notin S
    BY <1>1, <1>5, <1>6, <2>2
  <2>3. QED  BY <2>1, <2>2
<1>8. QED  BY <1>5, <1>7 DEF before, after
=============================================================================
