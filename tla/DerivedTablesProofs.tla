------------------------ MODULE DerivedTablesProofs ------------------------
(***************************************************************************)
(* Proofs about DerivedTables, for every set of observations, every source *)
(* and every bound.                                                        *)
(*                                                                         *)
(* GreenIsComplete: a green run need not have written all the rows of its  *)
(* date, as those of earlier attempts stay and stand in the way.  That the *)
(* date is complete all the same rests on what no attempt ever stores: the *)
(* name of no result (NamesKnown), no metric of a day without observations *)
(* (OnlyOfDays), and for a run that is not red a partial set (Whole).      *)
(*                                                                         *)
(* CountsCover: the first sources stored for a date are those of one run,  *)
(* whose rows they divide among them (CountsInv); later runs can only add. *)
(* What is read back of a key is what was stored, for a date or as the     *)
(* newest, as a key has one row for each date and they are numbered in the *)
(* order they came in (Keyed).                                             *)
(*                                                                         *)
(* QueriesAgree holds of any finite set of observations: sums are added up *)
(* by induction over the subsets of a finite set (SetInduction), and the   *)
(* changes of a price telescope along the order of its rows (StepsLead).   *)
(***************************************************************************)
EXTENDS DerivedTables, FiniteSetTheorems, SequenceTheorems, WellFoundedInduction, TLAPS

-----------------------------------------------------------------------------
(* Induction, over the naturals and over the subsets of a finite set. *)

LEMMA Induction ==
  ASSUME NEW S, 0 \in S, \A n \in Nat : n \in S => n + 1 \in S
  PROVE  Nat \subseteq S
<1> SUFFICES ASSUME Nat \ S # {} PROVE FALSE
  OBVIOUS
<1>1. PICK i \in Nat \ S : \A j \in Nat \ S : ~(<<j, i>> \in OpToRel(<, Nat))
  BY NatLessThanWellFounded, WFMin
<1>2. ASSUME NEW j \in Nat \ S PROVE ~(j < i)
  <2>1. ~(<<j, i>> \in {ss \in Nat \X Nat : ss[1] < ss[2]})
    BY <1>1 DEF OpToRel
  <2> QED BY <2>1
<1>3. i # 0 /\ i - 1 \in Nat /\ (i - 1) + 1 = i
  OBVIOUS
<1>4. i - 1 \in S
  BY <1>2, <1>3
<1> QED BY <1>3, <1>4

\* What holds of the empty set, and of a set of one more element, holds of a finite set.
LEMMA SetInduction ==
  ASSUME NEW S, IsFiniteSet(S), NEW G, {} \in G,
         \A T \in SUBSET S : \A x \in S \ T : T \in G => T \cup {x} \in G
  PROVE  S \in G
<1> DEFINE N == {n \in Nat : \A T \in SUBSET S : Cardinality(T) = n => T \in G}
<1>0. \A T \in SUBSET S : IsFiniteSet(T) /\ Cardinality(T) \in Nat
  BY FS_Subset, FS_CardinalityType
<1>1. 0 \in N
  BY <1>0, FS_EmptySet
<1>2. ASSUME NEW n \in Nat, n \in N PROVE n + 1 \in N
  <2> SUFFICES ASSUME NEW T \in SUBSET S, Cardinality(T) = n + 1 PROVE T \in G
    OBVIOUS
  <2>1. PICK x \in T : TRUE
    BY <1>0, FS_EmptySet
  <2>2. T \ {x} \in SUBSET S /\ Cardinality(T \ {x}) = n
    <3>1. Cardinality(T \ {x}) = Cardinality(T) - 1
      BY <1>0, <2>1, FS_RemoveElement
    <3> QED BY <3>1
  <2>3. T \ {x} \in G
    BY <1>2, <2>2
  <2>4. x \in S \ (T \ {x}) /\ T = (T \ {x}) \cup {x}
    BY <2>1
  <2> QED BY <2>2, <2>3, <2>4
<1> HIDE DEF N
<1>3. Cardinality(S) \in N
  BY <1>0, <1>1, <1>2, Induction
<1> QED BY <1>3 DEF N

-----------------------------------------------------------------------------
(* SumFunctionOnSet, which takes the elements in an unknown order. *)

Some(T) == CHOOSE x \in T : TRUE
Summing(v, S, f) == f = [T \in SUBSET S |-> IF T = {} THEN 0 ELSE v[Some(T)] + f[T \ {Some(T)}]]

LEMMA SomeIn == ASSUME NEW T, T # {} PROVE Some(T) \in T
BY DEF Some

LEMMA SummingExists ==
  ASSUME NEW v, NEW S, IsFiniteSet(S)
  PROVE  \E f : Summing(v, S, f)
<1> DEFINE D(n) == {T \in SUBSET S : Cardinality(T) <= n}
           Part(f, n) == f = [T \in D(n) |-> IF T = {} THEN 0 ELSE v[Some(T)] + f[T \ {Some(T)}]]
           N == {n \in Nat : \E f : Part(f, n)}
<1>0. \A T \in SUBSET S : IsFiniteSet(T) /\ Cardinality(T) \in Nat
  BY FS_Subset, FS_CardinalityType
<1>1. 0 \in N
  <2>1. \A T \in D(0) : T = {}
    BY <1>0, FS_EmptySet
  <2>2. Part([T \in D(0) |-> 0], 0)
    BY <2>1
  <2> HIDE DEF Part
  <2> QED BY <2>2
<1>2. ASSUME NEW n \in Nat, n \in N PROVE n + 1 \in N
  <2>1. PICK f : Part(f, n)
    BY <1>2
  <2> DEFINE g == [T \in D(n + 1) |-> IF T \in D(n) THEN f[T] ELSE v[Some(T)] + f[T \ {Some(T)}]]
  <2>2. \A T \in D(n + 1) : T # {} => T \ {Some(T)} \in D(n)
    <3> TAKE T \in D(n + 1)
    <3> HAVE T # {}
    <3>1. Cardinality(T \ {Some(T)}) = Cardinality(T) - 1 /\ Cardinality(T) \in Nat
      BY <1>0, SomeIn, FS_RemoveElement
    <3> QED BY <3>1
  <2>3. {} \in D(n) /\ D(n) \subseteq D(n + 1)
    BY <1>0, FS_EmptySet
  <2>4. \A T \in D(n) : f[T] = IF T = {} THEN 0 ELSE v[Some(T)] + f[T \ {Some(T)}]
    <3> HIDE DEF D
    <3> QED BY <2>1
  <2> HIDE DEF D
  <2>5. \A T \in D(n + 1) : g[T] = IF T = {} THEN 0 ELSE v[Some(T)] + g[T \ {Some(T)}]
    <3> TAKE T \in D(n + 1)
    <3>1. CASE T = {}
      BY <3>1, <2>3, <2>4
    <3>2. CASE T # {}
      <4>1. g[T \ {Some(T)}] = f[T \ {Some(T)}]
        BY <2>2, <2>3, <3>2
      <4>2. g[T] = v[Some(T)] + f[T \ {Some(T)}]
        BY <2>4, <3>2
      <4> QED BY <3>2, <4>1, <4>2
    <3> QED BY <3>1, <3>2
  <2>6. g = [T \in D(n + 1) |-> g[T]]
    OBVIOUS
  <2> HIDE DEF g
  <2>7. Part(g, n + 1)
    BY <2>5, <2>6
  <2> HIDE DEF Part
  <2> QED BY <2>7
<1> HIDE DEF N
<1>3. Cardinality(S) \in N
  BY <1>0, <1>1, <1>2, Induction
<1>4. D(Cardinality(S)) = SUBSET S
  BY FS_Subset
<1> QED BY <1>3, <1>4 DEF N, Summing

\* The sum of a part is the same within any whole.
LEMMA SummingAgrees ==
  ASSUME NEW v, NEW S, IsFiniteSet(S), NEW f, Summing(v, S, f),
         NEW U \in SUBSET S, NEW g, Summing(v, U, g)
  PROVE  g[U] = f[U]
<1> DEFINE N == {n \in Nat : \A T \in SUBSET U : Cardinality(T) = n => f[T] = g[T]}
<1>0. \A T \in SUBSET U : IsFiniteSet(T) /\ Cardinality(T) \in Nat /\ T \in SUBSET S
  BY FS_Subset, FS_CardinalityType
<1>f. \A T \in SUBSET S : f[T] = IF T = {} THEN 0 ELSE v[Some(T)] + f[T \ {Some(T)}]
  BY DEF Summing
<1>g. \A T \in SUBSET U : g[T] = IF T = {} THEN 0 ELSE v[Some(T)] + g[T \ {Some(T)}]
  BY DEF Summing
<1>1. 0 \in N
  BY <1>0, <1>f, <1>g, FS_EmptySet
<1>2. ASSUME NEW n \in Nat, n \in N PROVE n + 1 \in N
  <2> SUFFICES ASSUME NEW T \in SUBSET U, Cardinality(T) = n + 1 PROVE f[T] = g[T]
    OBVIOUS
  <2>1. T # {}
    BY FS_EmptySet
  <2>2. T \ {Some(T)} \in SUBSET U /\ Cardinality(T \ {Some(T)}) = n
    BY <1>0, <2>1, SomeIn, FS_RemoveElement
  <2>3. f[T \ {Some(T)}] = g[T \ {Some(T)}]
    BY <1>2, <2>2
  <2> QED BY <1>0, <1>f, <1>g, <2>1, <2>3
<1> HIDE DEF N
<1>3. Cardinality(U) \in N
  BY <1>0, <1>1, <1>2, Induction
<1> QED BY <1>3 DEF N

LEMMA SumUnfolds ==
  ASSUME NEW v
  PROVE  /\ SumFunctionOnSet(v, {}) = 0
         /\ \A S : IsFiniteSet(S) /\ S # {} =>
              SumFunctionOnSet(v, S) = v[Some(S)] + SumFunctionOnSet(v, S \ {Some(S)})
<1> DEFINE f(T) == CHOOSE h : Summing(v, T, h)
<1>1. \A T : SumFunctionOnSet(v, T) = f(T)[T]
  BY DEF SumFunctionOnSet, FoldFunctionOnSet, MapThenFoldSet, Summing, Some
<1>2. \A T : IsFiniteSet(T) => Summing(v, T, f(T))
  BY SummingExists
<1> HIDE DEF f
<1>3. f({})[{}] = 0
  BY <1>2, FS_EmptySet DEF Summing
<1>4. ASSUME NEW S, IsFiniteSet(S), S # {} PROVE f(S)[S] = v[Some(S)] + f(S \ {Some(S)})[S \ {Some(S)}]
  <2> DEFINE U == S \ {Some(S)}
  <2>1. U \in SUBSET S
    OBVIOUS
  <2> HIDE DEF U
  <2>2. f(U)[U] = f(S)[U]
    <3>1. IsFiniteSet(U)
      BY <1>4, <2>1, FS_Subset
    <3>2. Summing(v, S, f(S)) /\ Summing(v, U, f(U))
      BY <1>2, <1>4, <3>1
    <3> QED BY <1>4, <2>1, <3>2, SummingAgrees
  <2>3. f(S)[S] = v[Some(S)] + f(S)[S \ {Some(S)}]
    BY <1>2, <1>4 DEF Summing
  <2> QED BY <2>2, <2>3 DEF U
<1> QED BY <1>1, <1>3, <1>4

\* A sum of integers is one, whichever elements are taken.
LEMMA SumType ==
  ASSUME NEW S, IsFiniteSet(S), NEW v, \A x \in S : v[x] \in Int
  PROVE  \A T \in SUBSET S : SumFunctionOnSet(v, T) \in Int
<1> DEFINE N == {n \in Nat : \A T \in SUBSET S : Cardinality(T) = n => SumFunctionOnSet(v, T) \in Int}
<1>0. \A T \in SUBSET S : IsFiniteSet(T) /\ Cardinality(T) \in Nat
  BY FS_Subset, FS_CardinalityType
<1>1. 0 \in N
  BY <1>0, FS_EmptySet, SumUnfolds
<1>2. ASSUME NEW n \in Nat, n \in N PROVE n + 1 \in N
  <2> SUFFICES ASSUME NEW T \in SUBSET S, Cardinality(T) = n + 1 PROVE SumFunctionOnSet(v, T) \in Int
    OBVIOUS
  <2>1. T # {}
    BY FS_EmptySet
  <2>2. T \ {Some(T)} \in SUBSET S /\ Cardinality(T \ {Some(T)}) = n /\ Some(T) \in S
    <3>1. Some(T) \in T
      BY <2>1, SomeIn
    <3>2. Cardinality(T \ {Some(T)}) = Cardinality(T) - 1
      BY <1>0, <3>1, FS_RemoveElement
    <3> QED BY <3>1, <3>2
  <2>3. SumFunctionOnSet(v, T \ {Some(T)}) \in Int
    BY <1>2, <2>2
  <2> QED BY <1>0, <2>1, <2>2, <2>3, SumUnfolds
<1> HIDE DEF N
<1>3. \A T \in SUBSET S : Cardinality(T) \in N
  BY <1>0, <1>1, <1>2, Induction
<1> QED BY <1>3 DEF N

\* Any element may be taken first.
LEMMA SumTakes ==
  ASSUME NEW S, IsFiniteSet(S), NEW v, \A x \in S : v[x] \in Int, NEW e \in S
  PROVE  SumFunctionOnSet(v, S) = v[e] + SumFunctionOnSet(v, S \ {e})
<1> DEFINE N == {n \in Nat : \A T \in SUBSET S : Cardinality(T) = n =>
                   \A x \in T : SumFunctionOnSet(v, T) = v[x] + SumFunctionOnSet(v, T \ {x})}
<1>0. \A T \in SUBSET S : IsFiniteSet(T) /\ Cardinality(T) \in Nat
  BY FS_Subset, FS_CardinalityType
<1>t. \A T \in SUBSET S : SumFunctionOnSet(v, T) \in Int
  BY SumType
<1>1. 0 \in N
  BY <1>0, FS_EmptySet
<1>2. ASSUME NEW n \in Nat, n \in N PROVE n + 1 \in N
  <2> SUFFICES ASSUME NEW T \in SUBSET S, Cardinality(T) = n + 1, NEW x \in T
               PROVE  SumFunctionOnSet(v, T) = v[x] + SumFunctionOnSet(v, T \ {x})
    OBVIOUS
  <2> DEFINE p == Some(T)
             U == T \ {p, x}
  <2>1. p \in T
    BY SomeIn
  <2>2. SumFunctionOnSet(v, T) = v[p] + SumFunctionOnSet(v, T \ {p})
    BY <1>0, SumUnfolds
  <2> HIDE DEF p
  <2>3. CASE p = x
    BY <2>2, <2>3
  <2>4. CASE p # x
    <3>1. /\ Cardinality(T \ {p}) = n /\ T \ {p} \in SUBSET S /\ x \in T \ {p}
          /\ Cardinality(T \ {x}) = n /\ T \ {x} \in SUBSET S /\ p \in T \ {x}
      <4>1. \A y \in T : Cardinality(T \ {y}) = Cardinality(T) - 1
        BY <1>0, FS_RemoveElement
      <4>2. \A y \in T : Cardinality(T \ {y}) = n
        BY <4>1
      <4> QED BY <2>1, <2>4, <4>2
    <3>2. (T \ {p}) \ {x} = U /\ (T \ {x}) \ {p} = U /\ U \in SUBSET S
      OBVIOUS
    <3> HIDE DEF U
    <3>3. SumFunctionOnSet(v, T \ {p}) = v[x] + SumFunctionOnSet(v, U)
      BY <1>2, <3>1, <3>2
    <3>4. SumFunctionOnSet(v, T \ {x}) = v[p] + SumFunctionOnSet(v, U)
      BY <1>2, <3>1, <3>2
    <3>5. v[p] \in Int /\ v[x] \in Int /\ SumFunctionOnSet(v, U) \in Int
      BY <1>t, <2>1, <3>2
    <3> QED BY <2>2, <3>3, <3>4, <3>5
  <2> QED BY <2>3, <2>4
<1> HIDE DEF N
<1>3. Cardinality(S) \in N
  BY <1>0, <1>1, <1>2, Induction
<1> QED BY <1>3 DEF N

LEMMA SumAdds ==
  ASSUME NEW S, IsFiniteSet(S), NEW v, NEW e, e \notin S, \A x \in S \cup {e} : v[x] \in Int
  PROVE  SumFunctionOnSet(v, S \cup {e}) = v[e] + SumFunctionOnSet(v, S)
<1>1. IsFiniteSet(S \cup {e})
  BY FS_AddElement
<1>2. (S \cup {e}) \ {e} = S
  OBVIOUS
<1>3. SumFunctionOnSet(v, S \cup {e}) = v[e] + SumFunctionOnSet(v, (S \cup {e}) \ {e})
  BY <1>1, SumTakes
<1> QED BY <1>2, <1>3

\* A sum lies between the bounds of what is summed.
LEMMA SumBounds ==
  ASSUME NEW S, IsFiniteSet(S), NEW v, NEW lo \in Int, NEW hi \in Int,
         \A x \in S : v[x] \in Int /\ lo <= v[x] /\ v[x] <= hi
  PROVE  /\ Cardinality(S) * lo <= SumFunctionOnSet(v, S)
         /\ SumFunctionOnSet(v, S) <= Cardinality(S) * hi
<1> DEFINE G == {T \in SUBSET S : /\ Cardinality(T) * lo <= SumFunctionOnSet(v, T)
                                  /\ SumFunctionOnSet(v, T) <= Cardinality(T) * hi}
<1>1. {} \in G
  <2>1. Cardinality({}) = 0 /\ SumFunctionOnSet(v, {}) = 0
    BY FS_EmptySet, SumUnfolds
  <2> QED BY <2>1
<1>2. ASSUME NEW T \in SUBSET S, NEW x \in S \ T, T \in G PROVE T \cup {x} \in G
  <2> DEFINE n == Cardinality(T)
             s == SumFunctionOnSet(v, T)
  <2>1. IsFiniteSet(T) /\ n \in Nat
    BY FS_Subset, FS_CardinalityType
  <2>2. Cardinality(T \cup {x}) = n + 1
    BY <2>1, FS_AddElement
  <2>3. SumFunctionOnSet(v, T \cup {x}) = v[x] + s /\ s \in Int
    BY <2>1, SumAdds, SumType
  <2>4. n * lo <= s /\ s <= n * hi
    BY <1>2
  <2> HIDE DEF n, s
  <2>5. (n + 1) * lo = n * lo + lo /\ (n + 1) * hi = n * hi + hi /\ n * lo \in Int /\ n * hi \in Int
    BY <2>1
  <2>6. (n + 1) * lo <= v[x] + s /\ v[x] + s <= (n + 1) * hi
    BY <2>3, <2>4, <2>5
  <2>7. T \cup {x} \in SUBSET S
    OBVIOUS
  <2> QED BY <2>2, <2>3, <2>6, <2>7
<1> HIDE DEF G
<1>3. S \in G
  BY <1>1, <1>2, SetInduction
<1> QED BY <1>3 DEF G

\* What is summed may grow, and be more.
LEMMA SumGrows ==
  ASSUME NEW S, IsFiniteSet(S), NEW v, NEW w,
         \A x \in S : v[x] \in Nat /\ w[x] \in Nat, NEW U \in SUBSET S,
         \A x \in U : v[x] <= w[x]
  PROVE  /\ SumFunctionOnSet(v, U) <= SumFunctionOnSet(w, S)
         /\ (U = S /\ \A x \in S : v[x] = w[x]) => SumFunctionOnSet(v, U) = SumFunctionOnSet(w, S)
<1> DEFINE Sv(T) == SumFunctionOnSet(v, T)
           Sw(T) == SumFunctionOnSet(w, T)
           G == {T \in SUBSET S : /\ Sv(T \cap U) <= Sw(T)
                                  /\ (U = S /\ \A x \in S : v[x] = w[x]) => Sv(T) = Sw(T)}
<1>1. {} \in G
  <2>1. Sv({}) = 0 /\ Sw({}) = 0 /\ {} \cap U = {}
    BY SumUnfolds
  <2> HIDE DEF Sv, Sw
  <2> QED BY <2>1
<1>2. ASSUME NEW T \in SUBSET S, NEW x \in S \ T, T \in G PROVE T \cup {x} \in G
  <2>1. IsFiniteSet(T) /\ IsFiniteSet(T \cap U) /\ T \cup {x} \in SUBSET S /\ T \cap U \in SUBSET S
    BY FS_Subset
  <2>0. \A y \in S : v[y] \in Int /\ w[y] \in Int
    OBVIOUS
  <2>2. Sw(T \cup {x}) = w[x] + Sw(T) /\ Sw(T) \in Int
    <3>1. \A y \in T \cup {x} : w[y] \in Int
      BY <2>0
    <3>2. Sw(T \cup {x}) = w[x] + Sw(T)
      BY <2>1, <3>1, SumAdds
    <3>3. Sw(T) \in Int
      BY <2>0, SumType
    <3> QED BY <3>2, <3>3
  <2>3. Sv(T \cup {x}) = v[x] + Sv(T) /\ Sv(T) \in Int /\ Sv(T \cap U) \in Int
    <3>1. \A y \in T \cup {x} : v[y] \in Int
      BY <2>0
    <3>2. Sv(T \cup {x}) = v[x] + Sv(T)
      BY <2>1, <3>1, SumAdds
    <3>3. Sv(T) \in Int /\ Sv(T \cap U) \in Int
      BY <2>0, <2>1, SumType
    <3> QED BY <3>2, <3>3
  <2>4. Sv((T \cup {x}) \cap U) <= Sw(T \cup {x})
    <3>1. CASE x \in U
      <4>1. (T \cup {x}) \cap U = (T \cap U) \cup {x}
        BY <3>1
      <4>2. Sv((T \cap U) \cup {x}) = v[x] + Sv(T \cap U)
        BY <2>1, SumAdds
      <4>3. Sv(T \cap U) <= Sw(T) /\ v[x] <= w[x] /\ v[x] \in Nat /\ w[x] \in Nat
        BY <1>2, <3>1
      <4> HIDE DEF Sv, Sw
      <4>4. v[x] + Sv(T \cap U) <= w[x] + Sw(T)
        BY <2>2, <2>3, <4>3
      <4> QED BY <2>2, <4>1, <4>2, <4>4
    <3>2. CASE x \notin U
      <4>1. (T \cup {x}) \cap U = T \cap U
        BY <3>2
      <4> HIDE DEF Sv, Sw
      <4> QED BY <1>2, <2>2, <2>3, <4>1
    <3> QED BY <3>1, <3>2
  <2> HIDE DEF Sv, Sw
  <2> QED BY <1>2, <2>1, <2>2, <2>3, <2>4
<1>3. S \in G
  <2> HIDE DEF G
  <2> QED BY <1>1, <1>2, SetInduction
<1>4. S \cap U = U
  OBVIOUS
<1> QED BY <1>3, <1>4

\* The parts of a set count as many as the set.
LEMMA SumOfParts ==
  ASSUME NEW R, IsFiniteSet(R), NEW I, IsFiniteSet(I), NEW part, NEW v,
         \A i \in I : part[i] \subseteq R /\ v[i] = Cardinality(part[i]),
         \A r \in R : \E i \in I : r \in part[i],
         \A i, j \in I : i # j => part[i] \cap part[j] = {}
  PROVE  SumFunctionOnSet(v, I) = Cardinality(R)
<1> DEFINE U(J) == UNION {part[i] : i \in J}
           G == {J \in SUBSET I : SumFunctionOnSet(v, J) = Cardinality(U(J))}
<1>0. \A S \in SUBSET R : IsFiniteSet(S) /\ Cardinality(S) \in Nat
  BY FS_Subset, FS_CardinalityType
<1>1. {} \in G
  <2>1. U({}) = {}
    OBVIOUS
  <2> QED BY <2>1, FS_EmptySet, SumUnfolds
<1>2. ASSUME NEW J \in SUBSET I, NEW i \in I \ J, J \in G PROVE J \cup {i} \in G
  <2>1. IsFiniteSet(J) /\ J \cup {i} \in SUBSET I
    BY FS_Subset
  <2>2. \A j \in I : v[j] \in Nat
    BY <1>0
  <2>3. SumFunctionOnSet(v, J \cup {i}) = v[i] + SumFunctionOnSet(v, J)
    <3>1. \A j \in J \cup {i} : v[j] \in Int
      BY <2>2
    <3> HIDE DEF U
    <3> QED BY <2>1, <3>1, SumAdds
  <2>4. U(J \cup {i}) = U(J) \cup part[i] /\ U(J) \in SUBSET R /\ part[i] \in SUBSET R
        /\ U(J) \cap part[i] = {}
    OBVIOUS
  <2> HIDE DEF U
  <2>5. Cardinality(U(J) \cup part[i]) = Cardinality(U(J)) + Cardinality(part[i]) - Cardinality({})
    BY <1>0, <2>4, FS_Union
  <2>6. Cardinality(U(J) \cup part[i]) = Cardinality(U(J)) + Cardinality(part[i])
    BY <1>0, <2>4, <2>5, FS_EmptySet
  <2>7. v[i] = Cardinality(part[i]) /\ v[i] \in Nat /\ Cardinality(U(J)) \in Nat
    BY <1>0, <2>2, <2>4
  <2>8. SumFunctionOnSet(v, J) = Cardinality(U(J))
    BY <1>2
  <2>9. SumFunctionOnSet(v, J \cup {i}) = Cardinality(U(J \cup {i}))
    <3>1. Cardinality(U(J \cup {i})) = Cardinality(U(J)) + Cardinality(part[i])
      <4>1. U(J \cup {i}) = U(J) \cup part[i]
        BY <2>4
      <4> QED BY <2>6, <4>1
    <3>2. SumFunctionOnSet(v, J \cup {i}) = Cardinality(part[i]) + Cardinality(U(J))
      BY <2>3, <2>7, <2>8
    <3>3. Cardinality(part[i]) \in Nat /\ Cardinality(U(J)) \in Nat
      BY <2>7
    <3> QED BY <3>1, <3>2, <3>3
  <2> QED BY <2>1, <2>9
<1>3. I \in G
  <2> HIDE DEF G
  <2> QED BY <1>1, <1>2, SetInduction
<1>4. U(I) = R
  OBVIOUS
<1> QED BY <1>3, <1>4

-----------------------------------------------------------------------------
(* Green runs. *)

ResultNames(results) == {r.key[1] : r \in results}

Complete(d) ==
  \/ dag = "metrics" /\ Names(d) \in {{}, MetricNames}
  \/ dag = "quality" /\ Names(d) = CheckNames
  \/ dag = "health" /\ Names(d) # {}

TaskOK ==
  /\ outcome \in [Day -> {"none", "success", "failed"}]
  /\ task = [step |-> task.step, date |-> task.date, attempt |-> task.attempt,
              results |-> task.results, red |-> task.red]
  /\ task.step \in Steps /\ task.date \in Day

\* What is computed and stored has the name of a metric, or of a check.
NamesKnown ==
  \A r \in table \cup task.results :
    /\ dag = "metrics" => r.key[1] \in MetricNames
    /\ dag = "quality" => r.key[1] \in CheckNames

\* A day without observations has no metrics.
OnlyOfDays ==
  dag = "metrics" =>
    /\ \A r \in table : OnDay(loaded, r.date) # {}
    /\ task.results # {} => OnDay(loaded, task.date) # {}

\* A run that is not red computed everything there is to compute, and has stored it at the end.
Whole ==
  task.step \in {"write", "finish"} =>
    /\ ~task.red =>
         \/ dag = "metrics" /\ ResultNames(task.results) = MetricNames
         \/ dag = "metrics" /\ task.results = {} /\ Names(task.date) = {}
         \/ dag = "quality" /\ ResultNames(task.results) = CheckNames
         \/ dag = "health" /\ ResultNames(task.results) # {}
    /\ task.step = "finish" => ResultNames(task.results) \subseteq Names(task.date)

\* A run in hand has no outcome yet.
Open == task # NoTask => outcome[task.date] = "none"

GreenInv == TaskOK /\ NamesKnown /\ OnlyOfDays /\ Whole /\ Open /\ GreenIsComplete

\* The names of the metrics: all of them, or those of the first calculators.
LEMMA MetricNamesOf ==
  ASSUME NEW rows, NEW n \in 0 .. 5
  PROVE  /\ ResultNames(MetricsUpTo(rows, n)) \subseteq MetricNames
         /\ rows # {} => ResultNames(MetricsUpTo(rows, 5)) = MetricNames
         /\ rows = {} => MetricsUpTo(rows, n) = {}
<1> DEFINE M == Metrics(rows)
<1>1. \A name, dim, value : Metric(name, dim, value).key[1] = name
  BY DEF Metric
<1> DEFINE m1 == Metric("observation_count", "", Cardinality(rows))
           m2 == Metric("unique_products", "", Cardinality({r.product : r \in rows}))
           m3 == Metric("avg_price", "", IF Priced(rows) = {} THEN 0 ELSE Average(rows))
           m4 == Metric("availability_in_stock", "", Cardinality({r \in rows : r.inStock}))
           m5 == Metric("availability_out_of_stock", "", Cardinality({r \in rows : ~r.inStock}))
<1>2. /\ m1.key[1] = "observation_count" /\ m2.key[1] = "unique_products"
      /\ m3.key[1] = "avg_price"
      /\ m4.key[1] = "availability_in_stock" /\ m5.key[1] = "availability_out_of_stock"
  BY <1>1
<1>3. M[1] = {m1} /\ M[2] = {m2} /\ M[3] = {m3} /\ M[4] = {m4, m5}
  BY DEF Metrics
<1> HIDE DEF m1, m2, m3, m4, m5
<1>4. /\ ResultNames({m1}) = {"observation_count"} /\ ResultNames({m2}) = {"unique_products"}
      /\ ResultNames({m3}) = {"avg_price"}
      /\ ResultNames({m4, m5}) = {"availability_in_stock", "availability_out_of_stock"}
  BY <1>2 DEF ResultNames
<1>5. /\ ResultNames(M[5]) \subseteq {"source_observation_count"}
      /\ rows # {} => ResultNames(M[5]) = {"source_observation_count"}
  <2> DEFINE of(s) == Metric("source_observation_count", s, Cardinality({r \in rows : r.source = s}))
  <2>1. M[5] = {of(s) : s \in Sources(rows)}
    BY DEF Metrics
  <2>2. \A s : of(s).key[1] = "source_observation_count"
    BY <1>1
  <2>3. rows # {} => Sources(rows) # {}
    BY DEF Sources
  <2> HIDE DEF of, M
  <2> QED BY <2>1, <2>2, <2>3 DEF ResultNames
<1> HIDE DEF M
<1>6. \A i \in 1 .. 5 : ResultNames(M[i]) \subseteq MetricNames
  <2> TAKE i \in 1 .. 5
  <2>1. i = 1 \/ i = 2 \/ i = 3 \/ i = 4 \/ i = 5
    OBVIOUS
  <2> QED BY <2>1, <1>3, <1>4, <1>5 DEF MetricNames
<1>7. /\ ResultNames(UNION {M[i] : i \in 1 .. n}) \subseteq MetricNames
      /\ ResultNames(UNION {M[i] : i \in 1 .. 5}) \subseteq MetricNames
  <2>1. \A i \in 1 .. n : i \in 1 .. 5
    OBVIOUS
  <2> QED BY <1>6, <2>1 DEF ResultNames
<1>8. rows # {} => MetricNames \subseteq ResultNames(UNION {M[i] : i \in 1 .. 5})
  <2>1. \A i \in 1 .. 5 : ResultNames(M[i]) \subseteq ResultNames(UNION {M[j] : j \in 1 .. 5})
    BY DEF ResultNames
  <2> QED BY <2>1, <1>3, <1>4, <1>5 DEF MetricNames
<1>9. ResultNames({}) = {}
  BY DEF ResultNames
<1>10. CASE rows = {}
  BY <1>10, <1>9 DEF MetricsUpTo
<1>11. CASE rows # {}
  <2>1. \A k : MetricsUpTo(rows, k) = UNION {M[i] : i \in 1 .. k}
    BY <1>11 DEF MetricsUpTo, M
  <2> SUFFICES /\ ResultNames(MetricsUpTo(rows, n)) \subseteq MetricNames
               /\ ResultNames(MetricsUpTo(rows, 5)) \subseteq MetricNames
    BY <1>11, <1>8, <2>1
  <2> QED BY <1>7, <2>1
<1> QED BY <1>10, <1>11

\* What an insert adds to the names stored for a date.
LEMMA InsertedNames ==
  ASSUME NEW results, Insert(results)
  PROVE  /\ ResultNames(results) \cup Names(task.date) = ResultNames({r \in table' : r.date = task.date})
         /\ \A d : d # task.date => {r \in table' : r.date = d} = Stored(d)
         /\ \A r \in table' : r \in table \/ (r.date = task.date /\ r.key[1] \in ResultNames(results))
<1> DEFINE fresh == {r \in results : ~ \E old \in table : old.date = task.date /\ old.key = r.key}
           at(k) == 1 + Cardinality({old \in table : old.key = k})
           row(r) == [date |-> task.date, key |-> r.key, value |-> r.value, at |-> at(r.key)]
<1>1. table' = table \cup {row(r) : r \in fresh}
  BY DEF Insert
<1> HIDE DEF at
<1>2. \A r : row(r).date = task.date /\ row(r).key = r.key
  OBVIOUS
<1>3. \A d : d # task.date => {r \in table' : r.date = d} = Stored(d)
  BY <1>1, <1>2 DEF Stored
<1>4. \A r \in table' : r \in table \/ (r.date = task.date /\ r.key[1] \in ResultNames(results))
  <2>1. \A r \in table' : r \in table \/ \E q \in results : r.date = task.date /\ r.key = q.key
    BY <1>1
  <2>2. \A q \in results : q.key[1] \in ResultNames(results)
    BY DEF ResultNames
  <2> QED BY <2>1, <2>2
<1>5. \A r \in results : \E s \in table' : s.date = task.date /\ s.key = r.key
  <2> TAKE r \in results
  <2>1. CASE r \in fresh
    BY <2>1, <1>1, <1>2
  <2>2. CASE r \notin fresh
    BY <2>2, <1>1
  <2> QED BY <2>1, <2>2
<1>6. ResultNames(results) \subseteq ResultNames({r \in table' : r.date = task.date})
  BY <1>5 DEF ResultNames
<1>7. Names(task.date) \subseteq ResultNames({r \in table' : r.date = task.date})
  BY <1>1 DEF Names, Stored, ResultNames
<1>8. ResultNames({r \in table' : r.date = task.date}) \subseteq ResultNames(results) \cup Names(task.date)
  BY <1>4 DEF Names, Stored, ResultNames
<1> QED BY <1>3, <1>4, <1>6, <1>7, <1>8
THEOREM GreenInvInit == Init => GreenInv
<1> SUFFICES ASSUME Init PROVE GreenInv
  OBVIOUS
<1>1. /\ task.step = "idle" /\ task.results = {} /\ task = NoTask /\ table = {}
      /\ \A d \in Day : outcome[d] = "none"
  BY DEF Init, NoTask
<1>2. TaskOK
  BY BoundAssumption DEF Init, TaskOK, NoTask, Steps, Day
<1> QED BY <1>1, <1>2 DEF GreenInv, NamesKnown, OnlyOfDays, Whole, Open, GreenIsComplete

\* The warehouse grows, and nothing else of what the run works on changes.
LEMMA GreenInvLoads ==
  ASSUME GreenInv, UNCHANGED <<dag, task, table, outcome>>, loaded \subseteq loaded'
  PROVE  GreenInv'
<1>1. \A d : OnDay(loaded, d) # {} => OnDay(loaded', d) # {}
  BY DEF OnDay
<1> QED BY <1>1 DEF GreenInv, TaskOK, NamesKnown, OnlyOfDays, Whole, Open, GreenIsComplete, Names,
               Stored, ResultNames

\* A callable has computed its results.
LEMMA GreenInvComputes ==
  ASSUME GreenInv, NEW results, NEW red \in BOOLEAN, task.step = "query", Computed(results, red),
         ResultNames(results) \subseteq
           CASE dag = "metrics" -> MetricNames [] dag = "quality" -> CheckNames
             [] OTHER -> ResultNames(results),
         dag = "metrics" /\ results # {} => OnDay(loaded, task.date) # {},
         ~red => \/ dag = "metrics" /\ ResultNames(results) = MetricNames
                 \/ dag = "metrics" /\ results = {} /\ OnDay(loaded, task.date) = {}
                 \/ dag = "quality" /\ ResultNames(results) = CheckNames
                 \/ dag = "health" /\ ResultNames(results) # {}
  PROVE  GreenInv'
<1>1. task' = [task EXCEPT !.step = "write", !.results = results, !.red = red]
  BY DEF Computed
<1>2. UNCHANGED <<dag, loaded, table, outcome>>
  BY DEF Computed
<1>3. /\ task'.step = "write" /\ task'.date = task.date /\ task'.results = results
      /\ task'.red = red /\ task # NoTask /\ TaskOK'
  <2>1. task = [step |-> task.step, date |-> task.date, attempt |-> task.attempt,
                results |-> task.results, red |-> task.red]
    BY DEF GreenInv, TaskOK
  <2>2. task' = [step |-> "write", date |-> task.date, attempt |-> task.attempt,
                 results |-> results, red |-> red]
    BY <1>1, <2>1
  <2>3. task # NoTask
    BY DEF NoTask
  <2> QED BY <2>2, <2>3, <1>2 DEF GreenInv, TaskOK, Steps
<1>4. NamesKnown'
  BY <1>2, <1>3 DEF GreenInv, NamesKnown, ResultNames
<1>5. OnlyOfDays'
  BY <1>2, <1>3 DEF GreenInv, OnlyOfDays
<1>6. dag = "metrics" /\ OnDay(loaded, task.date) = {} => Names(task.date) = {}
  BY DEF GreenInv, OnlyOfDays, Names, Stored
<1>7. Whole'
  BY <1>2, <1>3, <1>6 DEF Whole, Names, Stored
<1>8. Open' /\ GreenIsComplete'
  BY <1>2, <1>3 DEF GreenInv, Open, GreenIsComplete, Names, Stored
<1> QED BY <1>3, <1>4, <1>5, <1>7, <1>8 DEF GreenInv

\* The results are stored.
LEMMA GreenInvWrites ==
  ASSUME GreenInv, task.step = "write", Written
  PROVE  GreenInv'
<1> DEFINE d == task.date
<1>1. Insert(task.results) /\ task' = [task EXCEPT !.step = "finish"]
      /\ UNCHANGED <<dag, loaded, outcome>>
  BY DEF Written
<1>2. /\ task'.step = "finish" /\ task'.date = d /\ task'.results = task.results
      /\ task'.red = task.red /\ task # NoTask /\ TaskOK'
  BY <1>1 DEF GreenInv, TaskOK, NoTask, Steps
<1>3. /\ Names(d)' = Names(d) \cup ResultNames(task.results)
      /\ \A e : e # d => Names(e)' = Names(e)
      /\ \A r \in table' : r \in table \/ (r.date = d /\ r.key[1] \in ResultNames(task.results))
  <2>1. ResultNames(task.results) \cup Names(d) = ResultNames({r \in table' : r.date = d})
    BY <1>1, InsertedNames
  <2>2. \A e : e # d => {r \in table' : r.date = e} = Stored(e)
    BY <1>1, InsertedNames
  <2>3. \A e : Names(e)' = ResultNames({r \in table' : r.date = e}) /\ Names(e) = ResultNames(Stored(e))
    BY DEF Names, Stored, ResultNames
  <2>4. \A r \in table' : r \in table \/ (r.date = d /\ r.key[1] \in ResultNames(task.results))
    BY <1>1, InsertedNames
  <2> QED BY <1>2, <2>1, <2>2, <2>3, <2>4
<1>4. NamesKnown'
  BY <1>1, <1>2, <1>3 DEF GreenInv, NamesKnown, ResultNames
<1>5. OnlyOfDays'
  <2>1. ResultNames(task.results) # {} => task.results # {}
    BY DEF ResultNames
  <2> QED BY <1>1, <1>2, <1>3, <2>1 DEF GreenInv, OnlyOfDays
<1>6. dag = "metrics" => Names(d) \subseteq MetricNames
  BY DEF GreenInv, NamesKnown, Names, Stored
<1>7. dag = "quality" => Names(d) \subseteq CheckNames
  BY DEF GreenInv, NamesKnown, Names, Stored
<1>8. Whole'
  BY <1>1, <1>2, <1>3 DEF GreenInv, Whole, ResultNames
<1>9. Open'
  BY <1>1, <1>2 DEF GreenInv, Open
<1>10. GreenIsComplete'
  <2> SUFFICES ASSUME NEW e \in Day, outcome[e] = "success" PROVE Complete(e)'
    BY <1>1 DEF GreenIsComplete, Complete
  <2>1. e # d
    BY <1>2 DEF GreenInv, Open
  <2>2. Complete(e)
    BY DEF GreenInv, GreenIsComplete, Complete
  <2> QED BY <2>1, <2>2, <1>1, <1>3 DEF Complete
<1> QED BY <1>2, <1>4, <1>5, <1>8, <1>9, <1>10 DEF GreenInv

\* Between two runs.
LEMMA NoTaskOK ==
  /\ NoTask = [step |-> NoTask.step, date |-> NoTask.date, attempt |-> NoTask.attempt,
               results |-> NoTask.results, red |-> NoTask.red]
  /\ NoTask.step = "idle" /\ NoTask.step \in Steps /\ NoTask.date \in Day /\ NoTask.results = {}
BY BoundAssumption DEF NoTask, Steps, Day

\* A run starts, for a date without an outcome.
LEMMA GreenInvStarts ==
  ASSUME GreenInv, NEW d \in Day, NEW k, UNCHANGED <<dag, loaded, table>>,
         task' = [NoTask EXCEPT !.step = "query", !.date = d, !.attempt = k],
         outcome' = [outcome EXCEPT ![d] = "none"]
  PROVE  GreenInv'
<1>1. task' = [step |-> "query", date |-> d, attempt |-> k, results |-> {}, red |-> FALSE]
  BY DEF NoTask
<1>2. /\ TaskOK' /\ outcome'[d] = "none"
      /\ \A e \in Day : outcome'[e] = "success" => outcome[e] = "success"
  BY <1>1 DEF GreenInv, TaskOK, Steps
<1>3. GreenIsComplete'
  BY <1>2 DEF GreenInv, GreenIsComplete, Names, Stored
<1>4. task'.step = "query" /\ task'.date = d /\ task'.results = {}
  <2>1. task'.step = "query"
    BY <1>1
  <2>2. task'.date = d
    BY <1>1
  <2>3. task'.results = NoTask.results
    OBVIOUS
  <2> QED BY <2>1, <2>2, <2>3, NoTaskOK
<1>5. NamesKnown' /\ OnlyOfDays' /\ Whole' /\ Open'
  BY <1>2, <1>4 DEF GreenInv, NamesKnown, OnlyOfDays, Whole, Open
<1> QED BY <1>2, <1>3, <1>5 DEF GreenInv

\* An attempt fails, and with it perhaps the run.
LEMMA GreenInvFails ==
  ASSUME GreenInv, task # NoTask, Failed, UNCHANGED <<dag, loaded, table>>
  PROVE  GreenInv'
<1>1. outcome[task.date] = "none" /\ task.date \in Day
  BY DEF GreenInv, Open, TaskOK
<1>2. CASE task.attempt < Attempts
  <2>1. outcome' = [outcome EXCEPT ![task.date] = "none"]
    BY <1>1, <1>2 DEF GreenInv, TaskOK, Failed
  <2> QED BY <2>1, <1>1, <1>2, GreenInvStarts DEF Failed
<1>3. CASE ~(task.attempt < Attempts)
  <2>1. task' = NoTask /\ outcome' = [outcome EXCEPT ![task.date] = "failed"]
    BY <1>3 DEF Failed
  <2>2. \A e \in Day : outcome'[e] = "success" => outcome[e] = "success"
    BY <2>1, <1>1 DEF GreenInv, TaskOK
  <2>3. TaskOK' /\ task'.step = "idle" /\ task'.results = {}
    BY <2>1, NoTaskOK DEF GreenInv, TaskOK
  <2> QED BY <2>1, <2>2, <2>3 DEF GreenInv, NamesKnown, OnlyOfDays, Whole, Open, GreenIsComplete,
              Names, Stored
<1> QED BY <1>2, <1>3

\* A run ends green.
LEMMA GreenInvEnds ==
  ASSUME GreenInv, task.step = "finish", ~task.red, task' = NoTask,
         outcome' = [outcome EXCEPT ![task.date] = "success"], UNCHANGED <<dag, loaded, table>>
  PROVE  GreenInv'
<1>1. Complete(task.date)
  <2>1. dag = "metrics" => Names(task.date) \subseteq MetricNames
    BY DEF GreenInv, NamesKnown, Names, Stored
  <2>2. dag = "quality" => Names(task.date) \subseteq CheckNames
    BY DEF GreenInv, NamesKnown, Names, Stored
  <2>3. ResultNames(task.results) \subseteq Names(task.date)
    BY DEF GreenInv, Whole
  <2>4. \/ dag = "metrics" /\ ResultNames(task.results) = MetricNames
        \/ dag = "metrics" /\ task.results = {} /\ Names(task.date) = {}
        \/ dag = "quality" /\ ResultNames(task.results) = CheckNames
        \/ dag = "health" /\ ResultNames(task.results) # {}
    BY DEF GreenInv, Whole
  <2> QED BY <2>1, <2>2, <2>3, <2>4 DEF Complete
<1>2. \A e \in Day : outcome'[e] = "success" => e = task.date \/ outcome[e] = "success"
  BY DEF GreenInv, TaskOK
<1>3. GreenIsComplete'
  <2> SUFFICES ASSUME NEW e \in Day, outcome'[e] = "success" PROVE Complete(e)
    BY DEF GreenIsComplete, Complete, Names, Stored
  <2> QED BY <1>1, <1>2 DEF GreenInv, GreenIsComplete, Complete
<1>4. TaskOK' /\ task'.step = "idle" /\ task'.results = {}
  BY NoTaskOK DEF GreenInv, TaskOK
<1> QED BY <1>3, <1>4 DEF GreenInv, NamesKnown, OnlyOfDays, Whole, Open

\* The results of the three callables.
LEMMA GreenInvCallables ==
  ASSUME GreenInv, ComputeMetrics \/ RunChecks \/ EvaluateHealth
  PROVE  GreenInv'
<1>1. CASE ComputeMetrics
  <2> DEFINE rows == OnDay(loaded, task.date)
  <2>1. dag = "metrics" /\ task.step = "query"
    BY <1>1 DEF ComputeMetrics
  <2>2. ResultNames({}) = {} /\ (rows = {} => MetricsUpTo(rows, 5) = {})
    BY MetricNamesOf DEF ResultNames
  <2>3. CASE Computed(MetricsUpTo(rows, 5), FALSE)
    <3> DEFINE results == MetricsUpTo(rows, 5)
    <3>1. /\ ResultNames(results) \subseteq MetricNames
          /\ rows # {} => ResultNames(results) = MetricNames
          /\ rows = {} => results = {}
      BY MetricNamesOf
    <3> HIDE DEF results, rows
    <3> QED BY <2>1, <2>3, <3>1, GreenInvComputes DEF rows, results
  <2>4. ASSUME rows # {}, NEW n \in 0 .. 4, Computed(MetricsUpTo(rows, n), TRUE)
        PROVE  GreenInv'
    <3>1. ResultNames(MetricsUpTo(rows, n)) \subseteq MetricNames
      <4>1. n \in 0 .. 5
        OBVIOUS
      <4> QED BY <4>1, MetricNamesOf
    <3> QED BY <2>1, <2>4, <3>1, GreenInvComputes
  <2> QED BY <1>1, <2>3, <2>4 DEF ComputeMetrics
<1>2. CASE RunChecks
  <2> DEFINE results == QualityResults(Recent(loaded))
  <2>1. ResultNames(results) = CheckNames
    <3>1. \A name, passed : Check(name, passed).key[1] = name
      BY DEF Check
    <3> QED BY <3>1 DEF QualityResults, ResultNames, CheckNames
  <2>2. HasErrors(Recent(loaded)) \in BOOLEAN
    BY DEF HasErrors
  <2>3. /\ dag = "quality" /\ task.step = "query"
        /\ Computed(results, HasErrors(Recent(loaded)))
    BY <1>2 DEF RunChecks
  <2> HIDE DEF results
  <2> QED BY <2>1, <2>2, <2>3, GreenInvComputes
<1>3. CASE EvaluateHealth
  <2>1. PICK rows \in {loaded, {}} : Computed(Evaluations(rows), FALSE)
    BY <1>3 DEF EvaluateHealth
  <2>2. Evaluations(rows) # {}
    BY ConfiguredAssumption DEF Evaluations
  <2>3. ResultNames(Evaluations(rows)) # {}
    BY <2>2 DEF ResultNames
  <2>4. dag = "health" /\ task.step = "query"
    BY <1>3 DEF EvaluateHealth
  <2> QED BY <2>1, <2>3, <2>4, GreenInvComputes
<1> QED BY <1>1, <1>2, <1>3

TodayOK == today \in Day

LEMMA TodayInv == Init => TodayOK
BY BoundAssumption DEF Init, TodayOK, Day

LEMMA TodayNext == TodayOK /\ [Next]_vars => TodayOK'
<1>1. NextDay /\ TodayOK => TodayOK'
  BY BoundAssumption DEF NextDay, TodayOK, Day
<1>2. Next => NextDay \/ UNCHANGED today
  BY DEF Next, Load, Schedule, Rerun, ComputeMetrics, RunChecks, EvaluateHealth, Computed, Written,
         WriteMetrics, WriteQuality, WriteHealth, AttemptFails, Finish, AskPage, ReadPage
<1> QED BY <1>1, <1>2 DEF vars, TodayOK

THEOREM GreenInvNext == GreenInv /\ TodayOK /\ [Next]_vars => GreenInv'
<1> SUFFICES ASSUME GreenInv, TodayOK, [Next]_vars PROVE GreenInv'
  OBVIOUS
<1>1. CASE Load
  BY <1>1, GreenInvLoads DEF Load
<1>2. CASE NextDay \/ AskPage \/ ReadPage \/ UNCHANGED vars
  <2>1. UNCHANGED <<dag, task, table, outcome, loaded>>
    BY <1>2 DEF NextDay, AskPage, ReadPage, vars
  <2> QED BY <2>1, GreenInvLoads
<1>3. CASE Schedule
  <2>2. today - 1 \in Day
    BY <1>3, BoundAssumption DEF Schedule, TodayOK, Day
  <2>3. outcome' = [outcome EXCEPT ![today - 1] = "none"]
    BY <1>3 DEF Schedule, GreenInv, TaskOK
  <2> QED BY <1>3, <2>2, <2>3, GreenInvStarts DEF Schedule
<1>4. CASE Rerun
  <2>1. PICK d \in Day : /\ task' = [NoTask EXCEPT !.step = "query", !.date = d, !.attempt = 1]
                         /\ outcome' = [outcome EXCEPT ![d] = "none"]
                         /\ UNCHANGED <<dag, loaded, table>>
    BY <1>4 DEF Rerun
  <2> QED BY <2>1, GreenInvStarts
<1>5. CASE ComputeMetrics \/ RunChecks \/ EvaluateHealth
  BY <1>5, GreenInvCallables
<1>6. CASE WriteMetrics \/ WriteQuality \/ WriteHealth
  BY <1>6, GreenInvWrites DEF WriteMetrics, WriteQuality, WriteHealth
<1>7. CASE AttemptFails
  BY <1>7, GreenInvFails DEF AttemptFails
<1>8. CASE Finish
  <2>1. task # NoTask
    BY <1>8 DEF Finish, NoTask
  <2> QED BY <1>8, <2>1, GreenInvFails, GreenInvEnds DEF Finish
<1> QED BY <1>1, <1>2, <1>3, <1>4, <1>5, <1>6, <1>7, <1>8 DEF Next

\* A run that ended green has left a complete set of rows for its date, however
\* many of them earlier attempts and runs had stored before it.
\* (daily_data_quality_dag.py:201, build_daily_metrics_dag.py:121)
THEOREM GreenComplete == Spec => []GreenIsComplete
<1>1. GreenInv => GreenIsComplete
  BY DEF GreenInv
<1> QED BY <1>1, GreenInvInit, GreenInvNext, TodayInv, TodayNext, PTL DEF Spec

-----------------------------------------------------------------------------
(* Pages. *)

Newer(rows, r) == Cardinality({q \in rows : Before(r, q)})

\* In the order of the pages an observation comes behind those that are newer, and no others.
LEMMA OrderedByAge ==
  ASSUME NEW rows \in SUBSET Row, IsFiniteSet(rows), NEW s \in Orders(rows, NewestFirst)
  PROVE  /\ Len(s) \in Nat /\ \A i \in 1 .. Len(s) : s[i] \in rows
         /\ \A r \in rows : \E i \in 1 .. Len(s) : s[i] = r /\ Newer(rows, r) = i - 1
<1> DEFINE n == Cardinality(rows)
<1>1. n \in Nat
  BY FS_CardinalityType
<1>2. /\ s \in [1 .. n -> rows]
      /\ \A i, j \in 1 .. n : i # j => s[i] # s[j]
      /\ \A i, j \in 1 .. n : i < j => ~Before(s[i], s[j])
  BY DEF Orders, SetToSeqs, NewestFirst
<1> HIDE DEF n
<1>3. Len(s) = n /\ s \in Seq(rows)
  BY <1>1, <1>2
<1>4. \A i, j \in 1 .. n : i < j <=> Before(s[j], s[i])
  <2> TAKE i, j \in 1 .. n
  <2>1. s[i] \in Row /\ s[j] \in Row
    BY <1>2
  <2>2. i # j => s[i].id # s[j].id
    BY <1>2, <2>1, RowAssumption
  <2>3. s[i].id \in Nat /\ s[j].id \in Nat /\ s[i].day \in Nat /\ s[j].day \in Nat
    BY <2>1, RowAssumption
  <2>4. CASE i < j
    BY <2>4, <2>2, <2>3, <1>2 DEF Before
  <2>5. CASE j < i
    BY <2>5, <2>3, <1>2 DEF Before
  <2>6. CASE i = j
    BY <2>6, <2>3 DEF Before
  <2> QED BY <2>4, <2>5, <2>6, <1>1
<1>5. s \in Injection(1 .. n, rows)
  BY <1>2 DEF Injection, IsInjective
<1>6. s \in Surjection(1 .. n, rows)
  <2>1. IsFiniteSet(1 .. n) /\ Cardinality(1 .. n) = n
    BY <1>1, FS_Interval
  <2> QED BY <2>1, <1>5, FS_Injection DEF n
<1>7. ASSUME NEW i \in 1 .. n
      PROVE  Newer(rows, s[i]) = i - 1
  <2> DEFINE newer == {q \in rows : Before(s[i], q)}
             f == [j \in 1 .. i - 1 |-> s[j]]
  <2>1. f \in Injection(1 .. i - 1, newer)
    BY <1>1, <1>2, <1>4 DEF Injection, IsInjective
  <2>2. f \in Surjection(1 .. i - 1, newer)
    <3>1. ASSUME NEW q \in newer PROVE \E j \in 1 .. i - 1 : f[j] = q
      <4>1. PICK j \in 1 .. n : s[j] = q
        BY <1>6 DEF Surjection
      <4>2. j < i
        BY <4>1, <1>4
      <4> QED BY <4>1, <4>2, <1>1
    <3> QED BY <3>1, <2>1 DEF Injection, Surjection
  <2>3. ExistsBijection(1 .. i - 1, newer)
    BY <2>1, <2>2 DEF ExistsBijection, Bijection
  <2> HIDE DEF newer
  <2>4. i - 1 \in Nat
    BY <1>1
  <2>5. Cardinality(newer) = i - 1
    BY <2>3, <2>4, FS_CountingElements
  <2> QED BY <2>5 DEF Newer, newer
<1>8. \A r \in rows : \E i \in 1 .. n : s[i] = r
  BY <1>6 DEF Surjection
<1> QED BY <1>1, <1>2, <1>3, <1>7, <1>8

\* An observation that a page should have reached and did not is behind a full page.
LEMMA BehindPage ==
  ASSUME NEW rows \in SUBSET Row, IsFiniteSet(rows), NEW size \in Nat \ {0}, NEW p \in Nat \ {0},
         NEW page \in ObservationPages(rows, p, size), NEW r \in rows, r \notin Range(page),
         Newer(rows, r) >= (p - 1) * size
  PROVE  Newer(rows, r) >= p * size /\ ~(Len(page) < size)
<1>1. PICK s \in Orders(rows, NewestFirst) : page = PageOf(s, p, size)
  BY DEF ObservationPages
<1> DEFINE from == (p - 1) * size
           upto == Min({p * size, Len(s)})
<1>2. /\ Len(s) \in Nat /\ \A i \in 1 .. Len(s) : s[i] \in rows
      /\ \E i \in 1 .. Len(s) : s[i] = r /\ Newer(rows, r) = i - 1
  BY OrderedByAge
<1>3. from \in Nat /\ p * size \in Nat /\ p * size = from + size
  OBVIOUS
<1>4. /\ upto \in {p * size, Len(s)} /\ upto <= p * size /\ upto <= Len(s)
  <2> DEFINE k == p * size
  <2>1. k \in Nat
    BY <1>3
  <2> HIDE DEF k
  <2>2. \E x \in {k, Len(s)} : \A y \in {k, Len(s)} : x <= y
    BY <2>1, <1>2
  <2>3. /\ Min({k, Len(s)}) \in {k, Len(s)}
        /\ \A y \in {k, Len(s)} : Min({k, Len(s)}) <= y
    BY <2>2 DEF Min
  <2> QED BY <2>3 DEF k
<1> HIDE DEF from, upto
<1>5. page = SubSeq(s, from + 1, upto)
  BY <1>1 DEF PageOf, from, upto
<1>6. upto \in Nat
  BY <1>2, <1>3, <1>4
<1>7. /\ page \in Seq(rows)
      /\ Len(page) = IF from + 1 <= upto THEN upto - from ELSE 0
      /\ \A i \in 1 .. upto - from : page[i] = s[from + i]
  <2>1. from + 1 \in Int /\ \A i \in from + 1 .. upto : s[i] \in rows
    BY <1>2, <1>3, <1>4, <1>6
  <2>2. /\ SubSeq(s, from + 1, upto) \in Seq(rows)
        /\ Len(SubSeq(s, from + 1, upto)) = IF from + 1 <= upto THEN upto - (from + 1) + 1 ELSE 0
        /\ \A i \in 1 .. upto - (from + 1) + 1 : SubSeq(s, from + 1, upto)[i] = s[from + 1 + i - 1]
    BY <2>1, <1>6, SubSeqProperties
  <2> QED BY <2>2, <1>5, <1>3, <1>6
<1>8. PICK i \in 1 .. Len(s) : s[i] = r /\ Newer(rows, r) = i - 1
  BY <1>2
<1>9. i > from
  BY <1>8, <1>2, <1>3 DEF from
<1>10. i > upto
  <2> SUFFICES ASSUME i <= upto PROVE FALSE
    BY <1>2, <1>6
  <2>1. i - from \in 1 .. upto - from /\ from + (i - from) = i
    BY <1>2, <1>3, <1>6, <1>9
  <2>2. page[i - from] = r /\ i - from \in 1 .. Len(page)
    BY <2>1, <1>7, <1>8, <1>3, <1>6
  <2>3. DOMAIN page = 1 .. Len(page)
    BY <1>7
  <2> QED BY <2>2, <2>3 DEF Range
<1>11. upto = p * size
  BY <1>4, <1>10, <1>2
<1> QED BY <1>2, <1>3, <1>6, <1>7, <1>8, <1>10, <1>11

\* A page holds nothing else than the rows it is cut from.
LEMMA PageHolds ==
  ASSUME NEW rows \in SUBSET Row, IsFiniteSet(rows), NEW size \in Nat \ {0}, NEW p \in Nat \ {0},
         NEW page \in ObservationPages(rows, p, size)
  PROVE  Range(page) \subseteq rows
<1>1. PICK s \in Orders(rows, NewestFirst) : page = PageOf(s, p, size)
  BY DEF ObservationPages
<1> DEFINE from == (p - 1) * size
           k == p * size
           upto == Min({k, Len(s)})
<1>2. Len(s) \in Nat /\ \A i \in 1 .. Len(s) : s[i] \in rows
  BY OrderedByAge
<1>3. from \in Nat /\ k \in Nat
  OBVIOUS
<1>4. page = SubSeq(s, from + 1, upto)
  BY <1>1 DEF PageOf
<1> HIDE DEF from, k
<1>5. upto \in Nat /\ upto <= Len(s)
  <2>1. \E x \in {k, Len(s)} : \A y \in {k, Len(s)} : x <= y
    BY <1>2, <1>3
  <2> QED BY <2>1, <1>2, <1>3 DEF Min
<1> HIDE DEF upto
<1>6. \A i \in from + 1 .. upto : s[i] \in rows
  BY <1>2, <1>3, <1>5
<1>7. page \in Seq(rows)
  BY <1>3, <1>4, <1>5, <1>6, SubSeqProperties
<1> QED BY <1>7 DEF Range

\* What the client has not seen of what was there when it began is still ahead of it: enough
\* observations are newer.
Ahead ==
  \A r \in reader.there \ reader.seen :
    Newer(OfProduct(loaded, reader.product), r) >= (reader.page - 1) * PageSize

PagesInv ==
  /\ loaded \subseteq Row /\ IsFiniteSet(loaded)
  /\ reader = [step |-> reader.step, product |-> reader.product, page |-> reader.page,
                total |-> reader.total, there |-> reader.there, seen |-> reader.seen]
  /\ reader.page \in Nat \ {0}
  /\ reader.there \subseteq OfProduct(loaded, reader.product)
  /\ reader.step = "idle" => reader.page = 1
  /\ Ahead
  /\ PagesComplete

THEOREM PagesInvInit == Init => PagesInv
<1> SUFFICES ASSUME Init PROVE PagesInv
  OBVIOUS
<1>1. loaded = {} /\ IsFiniteSet(loaded) /\ reader = NoReader
  BY FS_EmptySet DEF Init
<1> QED BY <1>1 DEF PagesInv, Ahead, PagesComplete, NoReader

\* An observation that arrives can only push others back.
LEMMA PagesInvLoads ==
  ASSUME PagesInv, NEW new \in Row, loaded' = loaded \cup {new}, UNCHANGED reader
  PROVE  PagesInv'
<1>1. loaded' \subseteq Row /\ IsFiniteSet(loaded')
  BY FS_AddElement DEF PagesInv
<1> DEFINE rows == OfProduct(loaded, reader.product)
           more == OfProduct(loaded', reader.product)
<1>2. rows \subseteq more
  BY DEF OfProduct
<1>3. IsFiniteSet(more)
  <2>1. more \in SUBSET loaded'
    BY DEF OfProduct
  <2> QED BY <2>1, <1>1, FS_Subset
<1>4. IsFiniteSet(rows)
  BY <1>2, <1>3, FS_Subset
<1> HIDE DEF rows, more
<1>5. \A r : Newer(rows, r) \in Nat /\ Newer(more, r) \in Nat /\ Newer(rows, r) <= Newer(more, r)
  <2> TAKE r
  <2> DEFINE few == {q \in rows : Before(r, q)}
             many == {q \in more : Before(r, q)}
  <2>1. few \in SUBSET many /\ many \in SUBSET more
    BY <1>2
  <2> HIDE DEF few, many
  <2>2. IsFiniteSet(many) /\ IsFiniteSet(few) /\ Cardinality(few) <= Cardinality(many)
    BY <2>1, <1>3, FS_Subset
  <2>3. Cardinality(few) \in Nat /\ Cardinality(many) \in Nat
    BY <2>2, FS_CardinalityType
  <2> QED BY <2>2, <2>3 DEF Newer, few, many
<1>6. Ahead'
  <2> SUFFICES ASSUME NEW r \in reader.there \ reader.seen
               PROVE  Newer(more, r) >= (reader.page - 1) * PageSize
    BY DEF Ahead, more
  <2>1. Newer(rows, r) >= (reader.page - 1) * PageSize
    BY DEF PagesInv, Ahead, rows
  <2>2. (reader.page - 1) * PageSize \in Nat
    BY ApiAssumption DEF PagesInv
  <2> QED BY <2>1, <2>2, <1>5
<1> QED BY <1>1, <1>2, <1>6 DEF PagesInv, PagesComplete, rows, more

LEMMA PagesInvAsks ==
  ASSUME PagesInv, AskPage
  PROVE  PagesInv'
<1>1. PICK p : /\ reader.step = "next" => p = reader.product
               /\ reader' = [reader EXCEPT !.step = "counted", !.product = p,
                             !.total = Cardinality(OfProduct(loaded, p)),
                             !.there = IF reader.step = "idle" THEN OfProduct(loaded, p) ELSE @]
  BY DEF AskPage
<1>2. reader.step \in {"idle", "next"} /\ UNCHANGED loaded
  BY DEF AskPage
<1> DEFINE there == IF reader.step = "idle" THEN OfProduct(loaded, p) ELSE reader.there
           total == Cardinality(OfProduct(loaded, p))
<1>3. reader' = [step |-> "counted", product |-> p, page |-> reader.page, total |-> total,
                 there |-> there, seen |-> reader.seen]
  BY <1>1 DEF PagesInv
<1>4. there \subseteq OfProduct(loaded, p)
  BY <1>1, <1>2 DEF PagesInv
<1>5. Ahead'
  <2>1. CASE reader.step = "idle"
    <3> SUFFICES ASSUME NEW r \in there PROVE Newer(OfProduct(loaded, p), r) >= 0
      BY <1>2, <1>3, <2>1, ApiAssumption DEF Ahead, PagesInv
    <3>1. OfProduct(loaded, p) \in SUBSET loaded
      BY DEF OfProduct
    <3>2. {q \in OfProduct(loaded, p) : Before(r, q)} \in SUBSET loaded
      BY <3>1
    <3>3. IsFiniteSet({q \in OfProduct(loaded, p) : Before(r, q)})
      BY <3>2, FS_Subset DEF PagesInv
    <3> QED BY <3>3, FS_CardinalityType DEF Newer
  <2>2. CASE reader.step = "next"
    BY <2>2, <1>1, <1>2, <1>3 DEF PagesInv, Ahead
  <2> QED BY <2>1, <2>2, <1>2
<1> HIDE DEF there, total
<1> QED BY <1>2, <1>3, <1>4, <1>5 DEF PagesInv, PagesComplete

LEMMA PagesInvReads ==
  ASSUME PagesInv, ReadPage
  PROVE  PagesInv'
<1> DEFINE rows == OfProduct(loaded, reader.product)
<1>1. PICK page \in ObservationPages(rows, reader.page, PageSize) :
        reader' = [reader EXCEPT !.step = IF Len(page) < PageSize THEN "done" ELSE "next",
                                 !.page = @ + 1, !.seen = @ \cup Range(page)]
  BY DEF ReadPage
<1>2. UNCHANGED loaded
  BY DEF ReadPage
<1>3. reader' = [step |-> IF Len(page) < PageSize THEN "done" ELSE "next",
                 product |-> reader.product, page |-> reader.page + 1, total |-> reader.total,
                 there |-> reader.there, seen |-> reader.seen \cup Range(page)]
  BY <1>1 DEF PagesInv
<1>4. rows \in SUBSET Row /\ IsFiniteSet(rows)
  <2>1. rows \in SUBSET loaded
    BY DEF OfProduct
  <2> QED BY <2>1, FS_Subset DEF PagesInv
<1>5. ASSUME NEW r \in reader.there \ (reader.seen \cup Range(page))
      PROVE  Newer(rows, r) >= reader.page * PageSize /\ ~(Len(page) < PageSize)
  <2>1. r \in rows /\ Newer(rows, r) >= (reader.page - 1) * PageSize
    BY DEF PagesInv, Ahead
  <2> HIDE DEF rows
  <2> QED BY <2>1, <1>4, <1>5, BehindPage, ApiAssumption DEF PagesInv
<1>6. Ahead'
  <2>1. /\ reader'.there = reader.there /\ reader'.seen = reader.seen \cup Range(page)
        /\ reader'.page = reader.page + 1 /\ OfProduct(loaded, reader.product)' = rows
    BY <1>2, <1>3 DEF OfProduct
  <2>2. Ahead' <=> \A r \in reader'.there \ reader'.seen :
                     Newer(OfProduct(loaded, reader.product)', r) >= (reader'.page - 1) * PageSize
    BY DEF Ahead, Newer
  <2>3. reader.page \in Int
    BY DEF PagesInv
  <2>4. ASSUME NEW r \in reader'.there \ reader'.seen
        PROVE  Newer(OfProduct(loaded, reader.product)', r) >= (reader'.page - 1) * PageSize
    <3>1. r \in reader.there \ (reader.seen \cup Range(page))
      BY <2>1, <2>4
    <3>2. Newer(rows, r) >= reader.page * PageSize
      BY <3>1, <1>5
    <3>3. reader'.page - 1 = reader.page
      <4>1. reader'.page = reader.page + 1
        BY <1>3
      <4> QED BY <4>1, <2>3
    <3> HIDE DEF rows
    <3> QED BY <2>1, <3>2, <3>3
  <2> QED BY <2>2, <2>4
<1>7. PagesComplete'
  <2> SUFFICES ASSUME reader'.step = "done" PROVE reader.there \subseteq reader.seen \cup Range(page)
    BY <1>3 DEF PagesComplete
  <2>1. Len(page) < PageSize
    BY <1>3
  <2> QED BY <2>1, <1>5
<1> HIDE DEF rows
<1> QED BY <1>2, <1>3, <1>6, <1>7 DEF PagesInv, rows

THEOREM PagesInvNext == PagesInv /\ [Next]_vars => PagesInv'
<1> SUFFICES ASSUME PagesInv, [Next]_vars PROVE PagesInv'
  OBVIOUS
<1>1. CASE Load
  <2>1. PICK new \in Row : loaded' = loaded \cup {new} /\ UNCHANGED reader
    BY <1>1 DEF Load
  <2> QED BY <2>1, PagesInvLoads
<1>2. CASE AskPage
  BY <1>2, PagesInvAsks
<1>3. CASE ReadPage
  BY <1>3, PagesInvReads
<1>4. CASE UNCHANGED <<loaded, reader>>
  BY <1>4 DEF PagesInv, Ahead, PagesComplete
<1>5. Next => Load \/ AskPage \/ ReadPage \/ UNCHANGED <<loaded, reader>>
  BY DEF Next, NextDay, Schedule, Rerun, ComputeMetrics, RunChecks, EvaluateHealth, Computed, Written,
         WriteMetrics, WriteQuality, WriteHealth, AttemptFails, Finish
<1> QED BY <1>1, <1>2, <1>3, <1>4, <1>5 DEF vars

\* A client that reads page after page until one is not full has seen every observation that
\* was there when it began, however many arrive between two pages and wherever in the order,
\* and whatever the size of a page.  (product.py:282, :286)
THEOREM PagesAllRead == Spec => []PagesComplete
<1>1. PagesInv => PagesComplete
  BY DEF PagesInv
<1> QED BY <1>1, PagesInvInit, PagesInvNext, PTL DEF Spec
-----------------------------------------------------------------------------
(* Types. *)

LEMMA SumNat ==
  ASSUME NEW S, IsFiniteSet(S), NEW v, \A x \in S : v[x] \in Nat
  PROVE  SumFunctionOnSet(v, S) \in Nat
<1>1. SumFunctionOnSet(v, S) \in Int
  <2>1. \A x \in S : v[x] \in Int
    OBVIOUS
  <2> QED BY <2>1, SumType
<1>2. SumFunctionOnSet(v, {}) <= SumFunctionOnSet(v, S)
  BY SumGrows
<1>3. SumFunctionOnSet(v, {}) = 0
  BY SumUnfolds
<1> QED BY <1>1, <1>2, <1>3

LEMMA ImageIsFinite ==
  ASSUME NEW S, IsFiniteSet(S), NEW f
  PROVE  IsFiniteSet({f[x] : x \in S}) /\ Cardinality({f[x] : x \in S}) <= Cardinality(S)
<1> DEFINE T == {f[x] : x \in S}
           g == [x \in S |-> f[x]]
<1>1. g \in Surjection(S, T)
  BY DEF Surjection
<1> HIDE DEF T, g
<1>2. IsFiniteSet(T) /\ Cardinality(T) <= Cardinality(S)
  BY <1>1, FS_Surjection
<1> QED BY <1>2 DEF T

\* What a set of observations counts, and averages.
LEMMA CountsOfRows ==
  ASSUME NEW rows \in SUBSET Row, IsFiniteSet(rows)
  PROVE  /\ \A S \in SUBSET rows : IsFiniteSet(S) /\ Cardinality(S) \in Nat
         /\ IsFiniteSet(Sources(rows)) /\ Sources(rows) \subseteq Source
         /\ Cardinality({r.product : r \in rows}) \in Nat
         /\ Priced(rows) # {} => Average(rows) \in Nat
<1>1. \A S \in SUBSET rows : IsFiniteSet(S) /\ Cardinality(S) \in Nat
  BY FS_Subset, FS_CardinalityType
<1>2. IsFiniteSet(Sources(rows)) /\ Sources(rows) \subseteq Source
  <2> DEFINE f == [r \in rows |-> r.source]
  <2>1. Sources(rows) = {f[r] : r \in rows}
    BY DEF Sources
  <2> HIDE DEF f
  <2>2. IsFiniteSet(Sources(rows))
    BY <2>1, ImageIsFinite
  <2> QED BY <2>2, RowAssumption DEF Sources
<1>3. Cardinality({r.product : r \in rows}) \in Nat
  <2> DEFINE f == [r \in rows |-> r.product]
  <2>1. {r.product : r \in rows} = {f[r] : r \in rows}
    OBVIOUS
  <2> HIDE DEF f
  <2> QED BY <2>1, ImageIsFinite, FS_CardinalityType
<1>4. ASSUME Priced(rows) # {} PROVE Average(rows) \in Nat
  <2> DEFINE P == Priced(rows)
             v == [r \in P |-> r.price]
  <2>1. P \in SUBSET rows /\ \A r \in P : r.price \in Nat
    BY RowAssumption DEF Priced
  <2>2. IsFiniteSet(P) /\ Cardinality(P) \in Nat /\ Cardinality(P) # 0
    BY <1>1, <1>4, <2>1, FS_EmptySet
  <2> HIDE DEF P
  <2>3. DOMAIN v = P /\ \A r \in P : v[r] \in Nat
    BY <2>1
  <2>4. Average(rows) = SumFunctionOnSet(v, P) \div Cardinality(P)
    BY <2>3 DEF Average, TotalPrice, SumFunction, P
  <2> HIDE DEF v
  <2>5. SumFunctionOnSet(v, P) \in Nat
    BY <2>2, <2>3, SumNat
  <2> QED BY <2>2, <2>4, <2>5
<1> QED BY <1>1, <1>2, <1>3, <1>4

LEMMA MetricType ==
  ASSUME dag = "metrics", NEW name \in MetricNames, NEW dim \in Source \cup {""}, NEW value \in Nat
  PROVE  Metric(name, dim, value) \in [key : Key, value : Result]
BY DEF Metric, Key, Result

\* What the three callables compute is well typed, and finite.
LEMMA MetricsTyped ==
  ASSUME dag = "metrics", NEW rows \in SUBSET Row, IsFiniteSet(rows), NEW n \in 0 .. 5
  PROVE  MetricsUpTo(rows, n) \in SUBSET [key : Key, value : Result] /\ IsFiniteSet(MetricsUpTo(rows, n))
<1> DEFINE R == [key : Key, value : Result]
           M == Metrics(rows)
           m1 == Metric("observation_count", "", Cardinality(rows))
           m2 == Metric("unique_products", "", Cardinality({r.product : r \in rows}))
           m3 == Metric("avg_price", "", IF Priced(rows) = {} THEN 0 ELSE Average(rows))
           m4 == Metric("availability_in_stock", "", Cardinality({r \in rows : r.inStock}))
           m5 == Metric("availability_out_of_stock", "", Cardinality({r \in rows : ~r.inStock}))
           of(s) == Metric("source_observation_count", s, Cardinality({r \in rows : r.source = s}))
<1>1. /\ M[1] = {m1} /\ M[2] = {m2} /\ M[3] = {m3} /\ M[4] = {m4, m5}
      /\ M[5] = {of(s) : s \in Sources(rows)}
  BY DEF Metrics
<1>2. m1 \in R /\ m2 \in R /\ m3 \in R /\ m4 \in R /\ m5 \in R
  <2>1. /\ Cardinality(rows) \in Nat /\ Cardinality({r \in rows : r.inStock}) \in Nat
        /\ Cardinality({r \in rows : ~r.inStock}) \in Nat
    BY CountsOfRows
  <2>2. (IF Priced(rows) = {} THEN 0 ELSE Average(rows)) \in Nat
    BY CountsOfRows
  <2>3. Cardinality({r.product : r \in rows}) \in Nat
    BY CountsOfRows
  <2>4. {"observation_count", "unique_products", "avg_price", "availability_in_stock",
         "availability_out_of_stock"} \subseteq MetricNames
    BY DEF MetricNames
  <2> QED BY <2>1, <2>2, <2>3, <2>4, MetricType
<1>3. \A s \in Sources(rows) : of(s) \in R
  <2> TAKE s \in Sources(rows)
  <2>1. Cardinality({r \in rows : r.source = s}) \in Nat
    BY CountsOfRows
  <2>2. s \in Source /\ "source_observation_count" \in MetricNames
    BY CountsOfRows DEF MetricNames
  <2> QED BY <2>1, <2>2, MetricType
<1>4. IsFiniteSet({of(s) : s \in Sources(rows)})
  <2> DEFINE f == [s \in Sources(rows) |-> of(s)]
  <2>1. {of(s) : s \in Sources(rows)} = {f[s] : s \in Sources(rows)}
    OBVIOUS
  <2>2. IsFiniteSet(Sources(rows))
    BY CountsOfRows
  <2> HIDE DEF f, of
  <2>3. IsFiniteSet({f[s] : s \in Sources(rows)})
    BY <2>2, ImageIsFinite
  <2> QED BY <2>1, <2>3
<1> HIDE DEF M, m1, m2, m3, m4, m5, of, R
<1>5. \A i \in 1 .. 5 : M[i] \subseteq R /\ IsFiniteSet(M[i])
  <2>1. {m4, m5} = {m4} \cup {m5}
    OBVIOUS
  <2>4. IsFiniteSet({m1}) /\ IsFiniteSet({m2}) /\ IsFiniteSet({m3}) /\ IsFiniteSet({m4})
    BY FS_Singleton
  <2>5. IsFiniteSet({m4} \cup {m5})
    BY <2>4, FS_AddElement
  <2>2. IsFiniteSet({m1}) /\ IsFiniteSet({m2}) /\ IsFiniteSet({m3}) /\ IsFiniteSet({m4, m5})
    BY <2>1, <2>4, <2>5
  <2> TAKE i \in 1 .. 5
  <2>3. i = 1 \/ i = 2 \/ i = 3 \/ i = 4 \/ i = 5
    OBVIOUS
  <2> QED BY <2>2, <2>3, <1>1, <1>2, <1>3, <1>4
<1>6. \A i \in 1 .. n : i \in 1 .. 5
  OBVIOUS
<1> DEFINE U == {M[i] : i \in 1 .. n}
<1>7. IsFiniteSet(U) /\ \A T \in U : IsFiniteSet(T) /\ T \subseteq R
  <2>1. IsFiniteSet(1 .. n)
    BY FS_Interval
  <2> QED BY <2>1, <1>5, <1>6, ImageIsFinite
<1> HIDE DEF U
<1>8. IsFiniteSet(UNION U) /\ UNION U \in SUBSET R
  BY <1>7, FS_UNION
<1>9. MetricsUpTo(rows, n) = IF rows = {} THEN {} ELSE UNION U
  BY DEF MetricsUpTo, U, M
<1> QED BY <1>8, <1>9, FS_EmptySet DEF R

LEMMA ChecksTyped ==
  ASSUME dag = "quality", NEW rows
  PROVE  QualityResults(rows) \in SUBSET [key : Key, value : Result] /\ IsFiniteSet(QualityResults(rows))
<1> DEFINE R == [key : Key, value : Result]
           c1 == Check("required_fields", RequiredFields(rows))
           c2 == Check("price_validity", PriceValidity(rows))
           c3 == Check("freshness", Freshness(rows))
           c4 == Check("duplicates", Duplicates(rows))
<1>1. \A name \in CheckNames : \A passed : Check(name, passed) \in R
  BY DEF Check, Key, Result
<1>2. QualityResults(rows) = ({c1} \cup {c2}) \cup {c3} \cup {c4}
  BY DEF QualityResults
<1>3. c1 \in R /\ c2 \in R /\ c3 \in R /\ c4 \in R
  BY <1>1 DEF CheckNames
<1> HIDE DEF c1, c2, c3, c4, R
<1>4. IsFiniteSet(({c1} \cup {c2}) \cup {c3} \cup {c4})
  BY FS_Singleton, FS_AddElement
<1> QED BY <1>2, <1>3, <1>4 DEF R

LEMMA EvaluationsTyped ==
  ASSUME dag = "health", NEW rows \in SUBSET Row, IsFiniteSet(rows)
  PROVE  Evaluations(rows) \in SUBSET [key : Key, value : Result] /\ IsFiniteSet(Evaluations(rows))
<1> DEFINE S == IF Sources(rows) = {} THEN Configured ELSE Sources(rows)
           f == [s \in S |-> Evaluation(rows, s)]
<1>1. S \subseteq Source /\ IsFiniteSet(S)
  BY ConfiguredAssumption, CountsOfRows
<1>2. \A s \in S : Evaluation(rows, s) \in [key : Key, value : Result]
  <2> TAKE s \in S
  <2> DEFINE state == Health!Assess(<<>>, 0, Age(rows, s))
             freshness == Health!Freshness(Age(rows, s))
  <2>1. state = "healthy"
    BY Zenon DEF Health!Assess
  <2>2. state \in Health!State /\ freshness \in Health!Fresh
    BY <2>1 DEF Health!State, Health!Fresh, Health!Freshness
  <2>3. Evaluation(rows, s) = [key |-> <<s, "">>, value |-> [state |-> state, freshness |-> freshness]]
    BY DEF Evaluation
  <2> HIDE DEF state, freshness
  <2>4. <<s, "">> \in Key
    BY <1>1 DEF Key
  <2>5. Result = [state : Health!State, freshness : Health!Fresh]
    BY DEF Result
  <2>6. [state |-> state, freshness |-> freshness] \in Result
    BY <2>2, <2>5
  <2> DEFINE k == <<s, "">>
             w == [state |-> state, freshness |-> freshness]
  <2>7. Evaluation(rows, s) = [key |-> k, value |-> w] /\ k \in Key /\ w \in Result
    BY <2>3, <2>4, <2>6
  <2> HIDE DEF k, w
  <2> QED BY <2>7
<1>3. Evaluations(rows) = {f[s] : s \in S}
  BY DEF Evaluations
<1> HIDE DEF S
<1>4. IsFiniteSet({f[s] : s \in S})
  <2> HIDE DEF f
  <2> QED BY <1>1, ImageIsFinite
<1> QED BY <1>1, <1>2, <1>3, <1>4

ResultRow == [key : Key, value : Result]
StoredRow == [date : Day, key : Key, value : Result, at : Nat]

RunTypes ==
  /\ dag \in Dags
  /\ loaded \subseteq {r \in Row : r.day <= today} /\ IsFiniteSet(loaded)
  /\ task \in [step : Steps, date : Day, attempt : 0 .. Attempts, results : SUBSET ResultRow,
               red : BOOLEAN]
  /\ IsFiniteSet(task.results)
  /\ table \subseteq StoredRow /\ IsFiniteSet(table)
  /\ outcome \in [Day -> {"none", "success", "failed"}]
  /\ reruns \in 0 .. MaxReruns

ReaderTypes ==
  /\ reader.step \in {"idle", "counted", "next", "done"} /\ reader.total \in Nat
  /\ reader.there \cup reader.seen \subseteq loaded

LEMMA SameTypes == dag' = dag => ResultRow' = ResultRow /\ StoredRow' = StoredRow
BY DEF ResultRow, StoredRow, Result

LEMMA RunTypesInit == Init => RunTypes
<1> SUFFICES ASSUME Init PROVE RunTypes
  OBVIOUS
<1>1. task = [step |-> "idle", date |-> 0, attempt |-> 0, results |-> {}, red |-> FALSE]
  BY DEF Init, NoTask
<1>2. IsFiniteSet({}) /\ 0 \in Day
  BY FS_EmptySet, BoundAssumption DEF Day
<1> QED BY <1>1, <1>2, BoundAssumption DEF Init, RunTypes, Steps, Attempts

\* An attempt starts, or none is left.
LEMMA RunTypesTasks ==
  ASSUME RunTypes, UNCHANGED <<dag, today, loaded, table>>,
         outcome' \in [Day -> {"none", "success", "failed"}], reruns' \in 0 .. MaxReruns,
         \/ task' = NoTask
         \/ \E d \in Day, k \in 0 .. Attempts :
              task' = [NoTask EXCEPT !.step = "query", !.date = d, !.attempt = k]
  PROVE  RunTypes'
<1>1. ResultRow' = ResultRow /\ StoredRow' = StoredRow
  BY SameTypes
<1>2. IsFiniteSet({}) /\ 0 \in Day
  BY NoTaskOK, FS_EmptySet DEF NoTask
<1>3. /\ task' \in [step : Steps, date : Day, attempt : 0 .. Attempts, results : SUBSET ResultRow,
                    red : BOOLEAN]
      /\ task'.results = {}
  <2>1. CASE task' = NoTask
    BY <2>1, <1>2 DEF NoTask, Steps, Attempts
  <2>2. ASSUME NEW d \in Day, NEW k \in 0 .. Attempts,
               task' = [NoTask EXCEPT !.step = "query", !.date = d, !.attempt = k]
        PROVE  <1>3
    <3>1. task' = [step |-> "query", date |-> d, attempt |-> k, results |-> {}, red |-> FALSE]
      BY <2>2 DEF NoTask
    <3> QED BY <3>1 DEF Steps
  <2> QED BY <2>1, <2>2
<1> QED BY <1>1, <1>2, <1>3 DEF RunTypes

LEMMA RunTypesFails ==
  ASSUME RunTypes, Failed, UNCHANGED <<dag, today, loaded, table, reruns>>
  PROVE  RunTypes'
<1>1. task.date \in Day /\ task.attempt \in 0 .. Attempts
  BY DEF RunTypes
<1>2. task.attempt < Attempts => task.attempt + 1 \in 0 .. Attempts
  BY <1>1 DEF Attempts
<1>3. outcome' \in [Day -> {"none", "success", "failed"}]
  BY <1>1 DEF RunTypes, Failed
<1>4. \/ task' = NoTask
      \/ \E d \in Day, k \in 0 .. Attempts :
           task' = [NoTask EXCEPT !.step = "query", !.date = d, !.attempt = k]
  BY <1>1, <1>2 DEF Failed
<1> QED BY <1>3, <1>4, RunTypesTasks DEF RunTypes

\* The three callables compute rows of their table.
LEMMA RunTypesComputes ==
  ASSUME RunTypes, NEW results \in SUBSET ResultRow, IsFiniteSet(results), NEW red \in BOOLEAN,
         Computed(results, red)
  PROVE  RunTypes'
<1>1. task' = [task EXCEPT !.step = "write", !.results = results, !.red = red]
      /\ UNCHANGED <<dag, today, loaded, table, outcome, reruns>>
  BY DEF Computed
<1>2. task' = [step |-> "write", date |-> task.date, attempt |-> task.attempt,
               results |-> results, red |-> red]
  BY <1>1 DEF RunTypes
<1>3. ResultRow' = ResultRow /\ StoredRow' = StoredRow
  BY <1>1, SameTypes
<1> QED BY <1>1, <1>2, <1>3 DEF RunTypes, Steps

LEMMA ComputesMetrics ==
  ASSUME ComputeMetrics
  PROVE  \E n \in 0 .. 5, red \in BOOLEAN : Computed(MetricsUpTo(OnDay(loaded, task.date), n), red)
<1> DEFINE rows == OnDay(loaded, task.date)
<1>1. Computed(MetricsUpTo(rows, 5), FALSE) \/ \E n \in 0 .. 4 : Computed(MetricsUpTo(rows, n), TRUE)
  BY DEF ComputeMetrics
<1>2. 5 \in 0 .. 5 /\ \A n \in 0 .. 4 : n \in 0 .. 5
  OBVIOUS
<1> HIDE DEF rows
<1>3. \E n \in 0 .. 5, red \in BOOLEAN : Computed(MetricsUpTo(rows, n), red)
  BY <1>1, <1>2
<1> QED BY <1>3 DEF rows

\* When a run starts, is tried again or ends, nothing computed is kept.
LEMMA TaskDropped ==
  ASSUME Schedule \/ Rerun \/ AttemptFails \/ Finish
  PROVE  UNCHANGED <<dag, loaded, table>> /\ task'.results = {} /\ task'.step \in {"idle", "query"}
<1>1. UNCHANGED <<dag, loaded, table>>
  BY DEF Schedule, Rerun, AttemptFails, Finish
<1>2. \/ task' = NoTask
      \/ \E d, k : task' = [NoTask EXCEPT !.step = "query", !.date = d, !.attempt = k]
  BY DEF Schedule, Rerun, AttemptFails, Finish, Failed
<1>3. ASSUME NEW d, NEW k, task' = [NoTask EXCEPT !.step = "query", !.date = d, !.attempt = k]
      PROVE  task'.results = {} /\ task'.step \in {"idle", "query"}
  <2>1. task' = [step |-> "query", date |-> d, attempt |-> k, results |-> {}, red |-> FALSE]
    BY <1>3 DEF NoTask
  <2> QED BY <2>1
<1>4. NoTask.results = {} /\ NoTask.step = "idle"
  BY DEF NoTask
<1> QED BY <1>1, <1>2, <1>3, <1>4

LEMMA RunTypesCallables ==
  ASSUME RunTypes, ComputeMetrics \/ RunChecks \/ EvaluateHealth
  PROVE  RunTypes'
<1>1. ASSUME NEW rows \in SUBSET loaded PROVE rows \in SUBSET Row /\ IsFiniteSet(rows)
  BY <1>1, FS_Subset DEF RunTypes
<1>2. CASE ComputeMetrics
  <2> DEFINE rows == OnDay(loaded, task.date)
  <2>1. dag = "metrics" /\ rows \in SUBSET Row /\ IsFiniteSet(rows)
    BY <1>1, <1>2 DEF ComputeMetrics, OnDay
  <2>2. PICK n \in 0 .. 5, red \in BOOLEAN : Computed(MetricsUpTo(rows, n), red)
    BY <1>2, ComputesMetrics
  <2> HIDE DEF rows
  <2>3. MetricsUpTo(rows, n) \in SUBSET ResultRow /\ IsFiniteSet(MetricsUpTo(rows, n))
    BY <2>1, MetricsTyped DEF ResultRow
  <2> QED BY <2>2, <2>3, RunTypesComputes
<1>3. CASE RunChecks
  <2> DEFINE rows == Recent(loaded)
  <2>1. dag = "quality" /\ Computed(QualityResults(rows), HasErrors(rows)) /\ HasErrors(rows) \in BOOLEAN
    BY <1>3 DEF RunChecks, HasErrors
  <2> HIDE DEF rows
  <2>2. QualityResults(rows) \in SUBSET ResultRow /\ IsFiniteSet(QualityResults(rows))
    BY <2>1, ChecksTyped DEF ResultRow
  <2> QED BY <2>1, <2>2, RunTypesComputes
<1>4. CASE EvaluateHealth
  <2>1. PICK rows \in {loaded, {}} : Computed(Evaluations(rows), FALSE)
    BY <1>4 DEF EvaluateHealth
  <2>2. dag = "health" /\ rows \in SUBSET Row /\ IsFiniteSet(rows)
    BY <1>1, <1>4 DEF EvaluateHealth
  <2>3. Evaluations(rows) \in SUBSET ResultRow /\ IsFiniteSet(Evaluations(rows))
    BY <2>2, EvaluationsTyped DEF ResultRow
  <2> QED BY <2>1, <2>3, RunTypesComputes
<1> QED BY <1>2, <1>3, <1>4

\* What an insert stores.
LEMMA InsertTyped ==
  ASSUME NEW results \in SUBSET ResultRow, IsFiniteSet(results), task.date \in Day,
         table \subseteq StoredRow, IsFiniteSet(table), Insert(results)
  PROVE  table' \subseteq StoredRow /\ IsFiniteSet(table')
<1> DEFINE fresh == {r \in results : ~ \E old \in table : old.date = task.date /\ old.key = r.key}
           same(r) == {old \in table : old.key = r.key}
           row == [r \in fresh |-> [date |-> task.date, key |-> r.key, value |-> r.value,
                                    at |-> 1 + Cardinality(same(r))]]
<1>1. table' = table \cup {row[r] : r \in fresh}
  BY DEF Insert
<1>2. IsFiniteSet(fresh) /\ fresh \subseteq ResultRow
  <2>1. fresh \in SUBSET results
    OBVIOUS
  <2> HIDE DEF fresh
  <2> QED BY <2>1, FS_Subset
<1>3. \A r \in fresh : row[r] \in StoredRow
  <2> TAKE r \in fresh
  <2>1. same(r) \in SUBSET table
    OBVIOUS
  <2> HIDE DEF same
  <2>2. 1 + Cardinality(same(r)) \in Nat
    BY <2>1, FS_Subset, FS_CardinalityType
  <2>3. row[r] = [date |-> task.date, key |-> r.key, value |-> r.value, at |-> 1 + Cardinality(same(r))]
    OBVIOUS
  <2>4. r.key \in Key /\ r.value \in Result
    BY <1>2 DEF ResultRow
  <2> QED BY <2>2, <2>3, <2>4 DEF StoredRow
<1> HIDE DEF row, fresh
<1>4. IsFiniteSet({row[r] : r \in fresh})
  BY <1>2, ImageIsFinite
<1> QED BY <1>1, <1>3, <1>4, FS_Union

LEMMA RunTypesWrites ==
  ASSUME RunTypes, Written
  PROVE  RunTypes'
<1>1. Insert(task.results) /\ task' = [task EXCEPT !.step = "finish"]
      /\ UNCHANGED <<dag, today, loaded, outcome, reruns>>
  BY DEF Written
<1>2. table' \subseteq StoredRow /\ IsFiniteSet(table')
  BY <1>1, InsertTyped DEF RunTypes
<1>3. ResultRow' = ResultRow /\ StoredRow' = StoredRow
  BY <1>1, SameTypes
<1> QED BY <1>1, <1>2, <1>3 DEF RunTypes, Steps

LEMMA RunTypesNext == RunTypes /\ TodayOK /\ [Next]_vars => RunTypes'
<1> SUFFICES ASSUME RunTypes, TodayOK, [Next]_vars PROVE RunTypes'
  OBVIOUS
<1> USE DEF TodayOK
<1>1. CASE Load \/ NextDay \/ AskPage \/ ReadPage \/ UNCHANGED vars
  <2>1. UNCHANGED <<dag, task, table, outcome, reruns>>
    BY <1>1 DEF Load, NextDay, AskPage, ReadPage, vars
  <2>2. loaded' \subseteq {r \in Row : r.day <= today'} /\ IsFiniteSet(loaded')
    <3>1. CASE Load
      BY <3>1, FS_AddElement DEF Load, RunTypes
    <3>2. CASE NextDay
      <4>1. \A r \in Row : r.day \in Nat /\ (r.day <= today => r.day <= today + 1)
        BY RowAssumption, BoundAssumption DEF Day
      <4> QED BY <3>2, <4>1 DEF NextDay, RunTypes
    <3>3. CASE AskPage \/ ReadPage \/ UNCHANGED vars
      <4>1. loaded' = loaded /\ today' = today
        BY <3>3 DEF AskPage, ReadPage, vars
      <4> QED BY <4>1 DEF RunTypes
    <3> QED BY <1>1, <3>1, <3>2, <3>3
  <2>3. ResultRow' = ResultRow /\ StoredRow' = StoredRow
    BY <2>1, SameTypes
  <2> QED BY <2>1, <2>2, <2>3 DEF RunTypes
<1>2. CASE Schedule
  <2>1. today - 1 \in Day /\ 1 \in 0 .. Attempts
    BY <1>2, BoundAssumption DEF Schedule, Day, Attempts
  <2>2. \E d \in Day, k \in 0 .. Attempts :
          task' = [NoTask EXCEPT !.step = "query", !.date = d, !.attempt = k]
    BY <1>2, <2>1 DEF Schedule
  <2> QED BY <1>2, <2>2, RunTypesTasks DEF Schedule, RunTypes
<1>3. CASE Rerun
  <2>1. 1 \in 0 .. Attempts
    BY DEF Attempts
  <2>2. \E d \in Day, k \in 0 .. Attempts :
          task' = [NoTask EXCEPT !.step = "query", !.date = d, !.attempt = k]
    BY <1>3, <2>1 DEF Rerun
  <2>3. outcome' \in [Day -> {"none", "success", "failed"}]
    BY <1>3 DEF Rerun, RunTypes
  <2>4. reruns' \in 0 .. MaxReruns
    BY <1>3, BoundAssumption DEF Rerun, RunTypes
  <2> QED BY <1>3, <2>2, <2>3, <2>4, RunTypesTasks DEF Rerun
<1>4. CASE ComputeMetrics \/ RunChecks \/ EvaluateHealth
  BY <1>4, RunTypesCallables
<1>5. CASE WriteMetrics \/ WriteQuality \/ WriteHealth
  BY <1>5, RunTypesWrites DEF WriteMetrics, WriteQuality, WriteHealth
<1>6. CASE AttemptFails
  BY <1>6, RunTypesFails DEF AttemptFails
<1>7. CASE Finish
  <2>1. CASE task.red
    BY <2>1, <1>7, RunTypesFails DEF Finish
  <2>2. CASE ~task.red
    <3>1. outcome' \in [Day -> {"none", "success", "failed"}]
      BY <2>2, <1>7 DEF Finish, RunTypes
    <3> QED BY <2>2, <3>1, <1>7, RunTypesTasks DEF Finish, RunTypes
  <2> QED BY <2>1, <2>2
<1> QED BY <1>1, <1>2, <1>3, <1>4, <1>5, <1>6, <1>7 DEF Next

LEMMA ReaderTypesNext == ReaderTypes /\ PagesInv /\ [Next]_vars => ReaderTypes'
<1> SUFFICES ASSUME ReaderTypes, PagesInv, [Next]_vars PROVE ReaderTypes'
  OBVIOUS
<1>1. \A p : OfProduct(loaded, p) \in SUBSET Row /\ OfProduct(loaded, p) \in SUBSET loaded
             /\ IsFiniteSet(OfProduct(loaded, p)) /\ Cardinality(OfProduct(loaded, p)) \in Nat
  <2> TAKE p
  <2>1. OfProduct(loaded, p) \in SUBSET loaded
    BY DEF OfProduct
  <2> QED BY <2>1, FS_Subset, FS_CardinalityType DEF PagesInv
<1>2. CASE Load
  BY <1>2 DEF Load, ReaderTypes
<1>3. CASE AskPage
  <2>1. PICK p : reader' = [reader EXCEPT !.step = "counted", !.product = p,
                             !.total = Cardinality(OfProduct(loaded, p)),
                             !.there = IF reader.step = "idle" THEN OfProduct(loaded, p) ELSE @]
    BY <1>3 DEF AskPage
  <2> DEFINE there == IF reader.step = "idle" THEN OfProduct(loaded, p) ELSE reader.there
             total == Cardinality(OfProduct(loaded, p))
  <2>2. there \subseteq loaded /\ total \in Nat
    BY <1>1 DEF ReaderTypes
  <2>3. reader' = [step |-> "counted", product |-> p, page |-> reader.page, total |-> total,
                   there |-> there, seen |-> reader.seen]
    BY <2>1 DEF PagesInv
  <2> HIDE DEF there, total
  <2> QED BY <1>3, <2>2, <2>3 DEF AskPage, ReaderTypes
<1>4. CASE ReadPage
  <2> DEFINE rows == OfProduct(loaded, reader.product)
  <2>1. PICK page \in ObservationPages(rows, reader.page, PageSize) :
          reader' = [reader EXCEPT !.step = IF Len(page) < PageSize THEN "done" ELSE "next",
                                   !.page = @ + 1, !.seen = @ \cup Range(page)]
    BY <1>4 DEF ReadPage
  <2>2. reader' = [step |-> IF Len(page) < PageSize THEN "done" ELSE "next",
                   product |-> reader.product, page |-> reader.page + 1, total |-> reader.total,
                   there |-> reader.there, seen |-> reader.seen \cup Range(page)]
    BY <2>1 DEF PagesInv
  <2>3. rows \in SUBSET Row /\ rows \in SUBSET loaded /\ IsFiniteSet(rows)
    BY <1>1
  <2> HIDE DEF rows
  <2>4. Range(page) \subseteq rows
    BY <2>3, PageHolds, ApiAssumption DEF PagesInv
  <2> QED BY <1>4, <2>2, <2>3, <2>4 DEF ReadPage, ReaderTypes
<1>5. CASE UNCHANGED <<loaded, reader>>
  BY <1>5 DEF ReaderTypes
<1>6. Next => Load \/ AskPage \/ ReadPage \/ UNCHANGED <<loaded, reader>>
  BY DEF Next, NextDay, Schedule, Rerun, ComputeMetrics, RunChecks, EvaluateHealth, Computed, Written,
         WriteMetrics, WriteQuality, WriteHealth, AttemptFails, Finish
<1> QED BY <1>2, <1>3, <1>4, <1>5, <1>6 DEF vars

\* What the DAGs compute, store and read, and what the client has seen, is of the kinds it is
\* meant to be: every count a natural number whatever the warehouse holds, every key that of a
\* metric, a check or a source, nothing read that was not loaded.
\* (calculator.py:98, metrics persistence.py:74, health_evaluation.py:113, product.py:282)
THEOREM TypeCorrect == Spec => []TypeOK
<1>1. RunTypes /\ TodayOK /\ ReaderTypes /\ PagesInv => TypeOK
  BY DEF RunTypes, TodayOK, ReaderTypes, PagesInv, TypeOK, ResultRow, StoredRow
<1>2. Init => ReaderTypes
  BY DEF Init, ReaderTypes, NoReader
<1> QED BY <1>1, <1>2, RunTypesInit, RunTypesNext, TodayInv, TodayNext, PagesInvInit, PagesInvNext,
           ReaderTypesNext, PTL DEF Spec

-----------------------------------------------------------------------------
(* Keys. *)

OfKey(k) == {r \in table : r.key = k}

\* A run computes one value for a key, and the table has one for each key and date; the rows of
\* a key are numbered in the order they came in.
Once(results) == \A q, r \in results : q.key = r.key => q = r
Keyed ==
  /\ Once(task.results)
  /\ \A q, r \in table : q.key = r.key /\ (q.date = r.date \/ q.at = r.at) => q = r
  /\ \A r \in table : 1 <= r.at /\ r.at <= Cardinality(OfKey(r.key))

Total == <<"observation_count", "">>
OfSource(s) == <<"source_observation_count", s>>
Share(rows, s) == {r \in rows : r.source = s}

LEMMA Pairs == \A x, y : <<x, y>>[1] = x /\ <<x, y>>[2] = y
OBVIOUS

LEMMA TotalName == Total[1] = "observation_count"
BY DEF Total

\* What the calculators compute, by key.
LEMMA MetricRows ==
  ASSUME NEW rows, NEW n \in 0 .. 5
  PROVE  LET results == MetricsUpTo(rows, n) IN
         /\ Once(results)
         /\ \A r \in results : r.key[1] = "observation_count" => r.key = Total /\ r.value = Cardinality(rows)
         /\ \A r \in results : \A s : r.key = OfSource(s) =>
              n = 5 /\ rows # {} /\ s \in Sources(rows) /\ r.value = Cardinality(Share(rows, s))
         /\ n = 5 /\ rows # {} => /\ \E r \in results : r.key = Total
                                  /\ \A s \in Sources(rows) : \E r \in results : r.key = OfSource(s)
<1> DEFINE M == Metrics(rows)
           m1 == Metric("observation_count", "", Cardinality(rows))
           m2 == Metric("unique_products", "", Cardinality({r.product : r \in rows}))
           m3 == Metric("avg_price", "", IF Priced(rows) = {} THEN 0 ELSE Average(rows))
           m4 == Metric("availability_in_stock", "", Cardinality({r \in rows : r.inStock}))
           m5 == Metric("availability_out_of_stock", "", Cardinality({r \in rows : ~r.inStock}))
           of(s) == Metric("source_observation_count", s, Cardinality({r \in rows : r.source = s}))
           results == MetricsUpTo(rows, n)
<1>1. /\ M[1] = {m1} /\ M[2] = {m2} /\ M[3] = {m3} /\ M[4] = {m4, m5}
      /\ M[5] = {of(s) : s \in Sources(rows)}
  BY DEF Metrics
<1>2. /\ m1.key = Total /\ m2.key = <<"unique_products", "">> /\ m3.key = <<"avg_price", "">>
      /\ m4.key = <<"availability_in_stock", "">> /\ m5.key = <<"availability_out_of_stock", "">>
      /\ m1.value = Cardinality(rows)
      /\ \A s : of(s).key = OfSource(s) /\ of(s).value = Cardinality(Share(rows, s))
  BY DEF Metric, Total, OfSource, Share
<1>8. /\ m1.key[1] = "observation_count" /\ m2.key[1] = "unique_products" /\ m3.key[1] = "avg_price"
      /\ m4.key[1] = "availability_in_stock" /\ m5.key[1] = "availability_out_of_stock"
      /\ \A s : OfSource(s)[1] = "source_observation_count" /\ OfSource(s)[2] = s
  <2>1. \A a, b : <<a, b>>[1] = a /\ <<a, b>>[2] = b
    OBVIOUS
  <2> QED BY <2>1, <1>2 DEF Total, OfSource
<1> HIDE DEF m1, m2, m3, m4, m5, of, M
<1>3. ASSUME NEW r \in results
      PROVE  /\ rows # {}
             /\ r \in {m1, m2, m3, m4, m5} \/ (n = 5 /\ \E s \in Sources(rows) : r = of(s))
  <2>1. rows # {} /\ r \in UNION {M[i] : i \in 1 .. n}
    BY <1>3 DEF MetricsUpTo, M
  <2>2. PICK i \in 1 .. n : r \in M[i]
    BY <2>1
  <2>3. i = 1 \/ i = 2 \/ i = 3 \/ i = 4 \/ (i = 5 /\ n = 5)
    OBVIOUS
  <2> QED BY <2>1, <2>2, <2>3, <1>1
<1>4. ASSUME n = 5, rows # {}
      PROVE  m1 \in results /\ \A s \in Sources(rows) : of(s) \in results
  <2>1. results = UNION {M[i] : i \in 1 .. 5}
    BY <1>4 DEF MetricsUpTo, M
  <2>2. 1 \in 1 .. 5 /\ 5 \in 1 .. 5
    OBVIOUS
  <2> HIDE DEF results
  <2> QED BY <2>1, <2>2, <1>1
<1> HIDE DEF results
<1>5. Once(results)
  <2> SUFFICES ASSUME NEW q \in results, NEW r \in results, q.key = r.key PROVE q = r
    BY DEF Once
  <2>1. \A x \in {m1, m2, m3, m4, m5} : \A s : x.key # of(s).key
    BY <1>2, <1>8
  <2>2. \A s, t : of(s).key = of(t).key => s = t
    <3> TAKE s, t
    <3>1. of(s).key = OfSource(s) /\ of(t).key = OfSource(t)
      BY <1>2
    <3>2. OfSource(s)[2] = s /\ OfSource(t)[2] = t
      BY <1>8
    <3> HIDE DEF OfSource
    <3> QED BY <3>1, <3>2
  <2>3. \A x, y \in {m1, m2, m3, m4, m5} : x.key[1] = y.key[1] => x = y
    BY <1>8
  <2> QED BY <1>3, <2>1, <2>2, <2>3
<1>6. \A r \in results : r.key[1] = "observation_count" => r.key = Total /\ r.value = Cardinality(rows)
  <2> SUFFICES ASSUME NEW r \in results, r.key[1] = "observation_count" PROVE r = m1
    BY <1>2
  <2>1. \A s : of(s).key[1] = "source_observation_count"
    BY <1>2, <1>8
  <2> QED BY <1>2, <1>3, <1>8, <2>1
<1>7. ASSUME NEW r \in results, NEW s, r.key = OfSource(s)
      PROVE  n = 5 /\ rows # {} /\ s \in Sources(rows) /\ r.value = Cardinality(Share(rows, s))
  <2>1. r \notin {m1, m2, m3, m4, m5}
    BY <1>2, <1>7, <1>8
  <2>2. PICK t \in Sources(rows) : r = of(t)
    BY <2>1, <1>3
  <2>3. t = s
    <3>1. OfSource(t) = OfSource(s)
      BY <2>2, <1>2, <1>7
    <3> QED BY <3>1, <1>8
  <2> QED BY <2>1, <2>2, <2>3, <1>2, <1>3
<1> QED BY <1>2, <1>4, <1>5, <1>6, <1>7 DEF results

LEMMA ChecksOnce == ASSUME NEW rows PROVE Once(QualityResults(rows))
<1>1. \A name, passed : Check(name, passed).key[1] = name
  BY DEF Check
<1> QED BY <1>1 DEF Once, QualityResults

LEMMA EvaluationsOnce == ASSUME NEW rows PROVE Once(Evaluations(rows))
<1>1. \A s, t : Evaluation(rows, s).key = Evaluation(rows, t).key => s = t
  BY DEF Evaluation
<1> QED BY <1>1 DEF Once, Evaluations

\* What an insert adds, row by row.
LEMMA InsertedRows ==
  ASSUME NEW results, Insert(results)
  PROVE  /\ table \subseteq table'
         /\ \A r \in table' \ table :
              /\ r.date = task.date /\ r.at = 1 + Cardinality(OfKey(r.key))
              /\ \E q \in results : q.key = r.key /\ q.value = r.value
              /\ ~ \E old \in table : old.date = task.date /\ old.key = r.key
         /\ \A q \in results : \E r \in table' : r.date = task.date /\ r.key = q.key
         /\ Once(results) => \A q, r \in table' \ table : q.key = r.key => q = r
<1> DEFINE fresh == {r \in results : ~ \E old \in table : old.date = task.date /\ old.key = r.key}
           at(k) == 1 + Cardinality(OfKey(k))
           row(r) == [date |-> task.date, key |-> r.key, value |-> r.value, at |-> at(r.key)]
<1>1. table' = table \cup {row(r) : r \in fresh}
  BY DEF Insert, OfKey
<1>2. \A k : at(k) = 1 + Cardinality(OfKey(k))
  OBVIOUS
<1> HIDE DEF at
<1>3. \A r : row(r).date = task.date /\ row(r).key = r.key /\ row(r).value = r.value /\ row(r).at = at(r.key)
  OBVIOUS
<1> HIDE DEF row
<1>4. ASSUME NEW r \in table' \ table
      PROVE  \E q \in fresh : r = row(q)
  BY <1>1
<1>5. \A r \in table' \ table :
        /\ r.date = task.date /\ r.at = 1 + Cardinality(OfKey(r.key))
        /\ \E q \in results : q.key = r.key /\ q.value = r.value
        /\ ~ \E old \in table : old.date = task.date /\ old.key = r.key
  BY <1>2, <1>3, <1>4
<1>6. \A q \in results : \E r \in table' : r.date = task.date /\ r.key = q.key
  BY <1>1, <1>3
<1>7. Once(results) => \A q, r \in table' \ table : q.key = r.key => q = r
  <2> SUFFICES ASSUME Once(results), NEW q \in table' \ table, NEW r \in table' \ table, q.key = r.key
               PROVE  q = r
    OBVIOUS
  <2>1. PICK x \in fresh, y \in fresh : q = row(x) /\ r = row(y)
    BY <1>4
  <2>2. x = y
    BY <2>1, <1>3 DEF Once
  <2> QED BY <2>1, <2>2
<1> QED BY <1>1, <1>5, <1>6, <1>7

LEMMA KeyedWrites ==
  ASSUME Keyed, RunTypes, Written
  PROVE  Keyed'
<1> DEFINE results == task.results
           new == table' \ table
<1>1. Insert(results) /\ task'.results = results /\ UNCHANGED dag
  BY DEF Written, RunTypes
<1>2. /\ table \subseteq table'
      /\ \A r \in new : /\ r.date = task.date /\ r.at = 1 + Cardinality(OfKey(r.key))
                        /\ ~ \E old \in table : old.date = task.date /\ old.key = r.key
      /\ \A q, r \in new : q.key = r.key => q = r
  BY <1>1, InsertedRows DEF Keyed
<1>3. IsFiniteSet(table) /\ IsFiniteSet(table')
  BY <1>1, InsertTyped DEF RunTypes
<1>4. \A k : /\ IsFiniteSet(OfKey(k)) /\ Cardinality(OfKey(k)) \in Nat
             /\ IsFiniteSet(OfKey(k)') /\ Cardinality(OfKey(k)') \in Nat
             /\ Cardinality(OfKey(k)) <= Cardinality(OfKey(k)')
  <2> TAKE k
  <2>1. OfKey(k) \in SUBSET table /\ OfKey(k)' \in SUBSET table' /\ OfKey(k) \in SUBSET OfKey(k)'
    BY <1>2 DEF OfKey
  <2>2. IsFiniteSet(OfKey(k)) /\ IsFiniteSet(OfKey(k)')
    BY <2>1, <1>3, FS_Subset
  <2> QED BY <2>1, <2>2, FS_Subset, FS_CardinalityType
<1>5. \A r \in table : r.at \in Nat
  BY DEF RunTypes, StoredRow
<1>6. ASSUME NEW r \in new PROVE r.at <= Cardinality(OfKey(r.key)')
  <2> DEFINE k == r.key
  <2>1. r \notin OfKey(k) /\ OfKey(k) \cup {r} \in SUBSET OfKey(k)'
    BY <1>2 DEF OfKey
  <2> HIDE DEF k
  <2>2. Cardinality(OfKey(k) \cup {r}) = Cardinality(OfKey(k)) + 1
    BY <2>1, <1>4, FS_AddElement
  <2>3. Cardinality(OfKey(k) \cup {r}) <= Cardinality(OfKey(k)')
    BY <2>1, <1>4, FS_Subset
  <2>4. r.at = 1 + Cardinality(OfKey(k))
    BY <1>2 DEF k
  <2>5. r.at <= Cardinality(OfKey(k)')
    BY <2>2, <2>3, <2>4, <1>4
  <2> QED BY <2>5 DEF k
<1>7. \A r \in table' : 1 <= r.at /\ r.at <= Cardinality(OfKey(r.key)')
  <2>1. \A r \in table : 1 <= r.at /\ r.at <= Cardinality(OfKey(r.key)')
    BY <1>4, <1>5 DEF Keyed
  <2>2. \A r \in new : 1 <= r.at
    BY <1>2, <1>4
  <2> QED BY <2>1, <2>2, <1>6
<1>8. ASSUME NEW q \in table', NEW r \in table', q.key = r.key, q.date = r.date \/ q.at = r.at
      PROVE  q = r
  <2>1. CASE q \in table /\ r \in table
    BY <2>1, <1>8 DEF Keyed
  <2>2. CASE q \in new /\ r \in new
    BY <2>2, <1>2, <1>8
  <2>3. ASSUME NEW o \in table, NEW x \in new, o.key = x.key PROVE o.date # x.date /\ o.at # x.at
    <3>1. o.at \in Nat /\ o.at <= Cardinality(OfKey(x.key))
      BY <2>3, <1>5 DEF Keyed
    <3> QED BY <3>1, <2>3, <1>2, <1>4
  <2> QED BY <2>1, <2>2, <2>3, <1>8
<1>9. Once(task.results)'
  BY <1>1 DEF Keyed, Once
<1> QED BY <1>7, <1>8, <1>9 DEF Keyed

LEMMA KeyedNext == Keyed /\ RunTypes /\ [Next]_vars => Keyed'
<1> SUFFICES ASSUME Keyed, RunTypes, [Next]_vars PROVE Keyed'
  OBVIOUS
<1>1. CASE WriteMetrics \/ WriteQuality \/ WriteHealth
  BY <1>1, KeyedWrites DEF WriteMetrics, WriteQuality, WriteHealth
<1>2. ASSUME UNCHANGED table, Once(task.results)' PROVE Keyed'
  BY <1>2 DEF Keyed, OfKey
<1>3. CASE ComputeMetrics \/ RunChecks \/ EvaluateHealth
  <2>1. PICK results, red : Computed(results, red) /\ Once(results)
    <3>1. CASE ComputeMetrics
      <4> DEFINE rows == OnDay(loaded, task.date)
      <4>1. PICK n \in 0 .. 5, red \in BOOLEAN : Computed(MetricsUpTo(rows, n), red)
        BY <3>1, ComputesMetrics
      <4>2. Once(MetricsUpTo(rows, n))
        BY MetricRows
      <4> QED BY <4>1, <4>2
    <3>2. CASE RunChecks
      BY <3>2, ChecksOnce DEF RunChecks
    <3>3. CASE EvaluateHealth
      BY <3>3, EvaluationsOnce DEF EvaluateHealth
    <3> QED BY <1>3, <3>1, <3>2, <3>3
  <2>2. UNCHANGED table /\ task'.results = results
    BY <2>1 DEF Computed, RunTypes
  <2>3. Once(task.results)'
    BY <2>1, <2>2 DEF Once
  <2> QED BY <1>2, <2>2, <2>3
<1>4. CASE Load \/ NextDay \/ AskPage \/ ReadPage \/ UNCHANGED vars
  <2>1. UNCHANGED <<task, table>>
    BY <1>4 DEF Load, NextDay, AskPage, ReadPage, vars
  <2>2. Once(task.results)'
    BY <2>1 DEF Keyed, Once
  <2> QED BY <1>2, <2>1, <2>2
<1>5. CASE Schedule \/ Rerun \/ AttemptFails \/ Finish
  <2>1. UNCHANGED table /\ task'.results = {}
    BY <1>5, TaskDropped
  <2>2. Once(task.results)'
    BY <2>1 DEF Once
  <2> QED BY <1>2, <2>1, <2>2
<1> QED BY <1>1, <1>3, <1>4, <1>5 DEF Next

-----------------------------------------------------------------------------
(* Counts. *)

Counted(d) == {s \in Source : \E r \in Stored(d) : r.key = OfSource(s)}
Claim(d, s) == Value(d, "source_observation_count", s)
Claims(d) == [s \in Counted(d) |-> Claim(d, s)]

\* The rows a run counted, while it stores what it counted: the warehouse still has them, and a
\* total stored before is no larger.
CountedOf(rows) ==
  /\ rows \subseteq OnDay(loaded, task.date)
  /\ \E n \in 0 .. 5 : task.results = MetricsUpTo(rows, n)
  /\ \A r \in Stored(task.date) : r.key = Total => r.value <= Cardinality(rows)

\* The first sources that are stored for a date are those of one run, whose rows they divide
\* among them; a later run can only add others.
CountsInv ==
  dag = "metrics" =>
    /\ \A r \in table : r.key[1] = "observation_count" =>
         r.key = Total /\ r.value <= Cardinality(OnDay(loaded, r.date))
    /\ \A r \in table, s \in Source : r.key = OfSource(s) =>
         r.value <= Cardinality(Share(OnDay(loaded, r.date), s))
    /\ \A d \in Day : Counted(d) # {} =>
         \E r \in Stored(d) : r.key = Total /\ r.value <= SumFunctionOnSet(Claims(d), Counted(d))
    /\ task.step = "write" => \E rows : CountedOf(rows)

\* Of the rows of a key and date there is one, and its value is the value.
LEMMA TheValue ==
  ASSUME Keyed, NEW d, NEW r \in Stored(d), NEW name, NEW dim, r.key = <<name, dim>>
  PROVE  Value(d, name, dim) = r.value
<1>1. \A q \in Stored(d) : q.key = <<name, dim>> => q = r
  BY DEF Keyed, Stored
<1>2. (CHOOSE q \in Stored(d) : q.key = <<name, dim>>) = r
  BY <1>1
<1> QED BY <1>2 DEF Value

LEMMA CountsCovered == CountsInv /\ Keyed => CountsCover
<1> SUFFICES ASSUME CountsInv, Keyed, dag = "metrics", NEW d \in Day
    PROVE  LET rows == {r \in loaded : r.day = d}
               total == Value(d, "observation_count", "")
               counted == {s \in Source : \E r \in Stored(d) : r.key = <<"source_observation_count", s>>}
               count(s) == Value(d, "source_observation_count", s)
           IN /\ "observation_count" \in Names(d) => total <= Cardinality(rows)
              /\ \A s \in counted : count(s) <= Cardinality({r \in rows : r.source = s})
              /\ counted # {} => /\ "observation_count" \in Names(d)
                                 /\ total <= SumFunction([s \in counted |-> count(s)])
  BY DEF CountsCover
<1> DEFINE rows == OnDay(loaded, d)
           total == Value(d, "observation_count", "")
<1>1. \A r \in Stored(d) : r \in table /\ r.date = d
  BY DEF Stored
<1>2. \A r \in Stored(d) : r.key = Total => total = r.value
  BY TheValue DEF Total
<1>3. "observation_count" \in Names(d) => total <= Cardinality(rows)
  <2> SUFFICES ASSUME NEW r \in Stored(d), r.key[1] = "observation_count"
               PROVE  total <= Cardinality(rows)
    BY DEF Names
  <2> QED BY <1>1, <1>2 DEF CountsInv
<1>4. ASSUME NEW s \in Counted(d) PROVE Claim(d, s) <= Cardinality(Share(rows, s))
  <2>1. PICK r \in Stored(d) : r.key = OfSource(s)
    BY DEF Counted
  <2>2. Claim(d, s) = r.value
    BY <2>1, TheValue DEF Claim, OfSource
  <2>3. s \in Source
    BY DEF Counted
  <2> QED BY <2>1, <2>2, <2>3, <1>1 DEF CountsInv
<1>5. Counted(d) # {} => /\ "observation_count" \in Names(d)
                         /\ total <= SumFunctionOnSet(Claims(d), Counted(d))
  <2> SUFFICES ASSUME Counted(d) # {}
               PROVE  "observation_count" \in Names(d) /\ total <= SumFunctionOnSet(Claims(d), Counted(d))
    OBVIOUS
  <2>1. PICK r \in Stored(d) : r.key = Total /\ r.value <= SumFunctionOnSet(Claims(d), Counted(d))
    BY DEF CountsInv
  <2>2. r.key[1] = "observation_count"
    BY <2>1, TotalName
  <2> QED BY <2>1, <2>2, <1>2 DEF Names
<1>6. /\ SumFunction(Claims(d)) = SumFunctionOnSet(Claims(d), Counted(d))
      /\ Claims(d) = [s \in Counted(d) |-> Claim(d, s)]
  <2>1. DOMAIN Claims(d) = Counted(d)
    BY DEF Claims
  <2> QED BY <2>1 DEF SumFunction, Claims
<1> HIDE DEF total
<1>7. /\ "observation_count" \in Names(d) => total <= Cardinality(rows)
      /\ \A s \in Counted(d) : Claim(d, s) <= Cardinality(Share(rows, s))
      /\ Counted(d) # {} => /\ "observation_count" \in Names(d)
                            /\ total <= SumFunction([s \in Counted(d) |-> Claim(d, s)])
  BY <1>3, <1>4, <1>5, <1>6
<1> QED BY <1>7 DEF total, Counted, Claim, Share, OnDay, OfSource

\* Every run counts within what is loaded, and more may be loaded at any time.
LEMMA RowsCounted ==
  ASSUME IsFiniteSet(loaded), NEW rows \in SUBSET loaded
  PROVE  /\ IsFiniteSet(rows) /\ Cardinality(rows) \in Nat
         /\ \A S \in SUBSET rows : /\ IsFiniteSet(S) /\ Cardinality(S) \in Nat
                                   /\ Cardinality(S) <= Cardinality(rows)
<1>1. IsFiniteSet(rows)
  BY FS_Subset
<1> QED BY <1>1, FS_Subset, FS_CardinalityType

LEMMA CountsLoad ==
  ASSUME CountsInv, RunTypes, UNCHANGED <<dag, task, table>>, loaded \subseteq loaded', IsFiniteSet(loaded')
  PROVE  CountsInv'
<1> SUFFICES ASSUME dag = "metrics" PROVE CountsInv'
  BY DEF CountsInv
<1>1. ASSUME NEW d, NEW s
      PROVE  /\ Cardinality(OnDay(loaded, d)) <= Cardinality(OnDay(loaded', d))
             /\ Cardinality(Share(OnDay(loaded, d), s)) <= Cardinality(Share(OnDay(loaded', d), s))
             /\ Cardinality(OnDay(loaded, d)) \in Nat /\ Cardinality(OnDay(loaded', d)) \in Nat
             /\ Cardinality(Share(OnDay(loaded, d), s)) \in Nat
             /\ Cardinality(Share(OnDay(loaded', d), s)) \in Nat
  <2>1. /\ OnDay(loaded, d) \subseteq OnDay(loaded', d)
        /\ Share(OnDay(loaded, d), s) \subseteq Share(OnDay(loaded', d), s)
        /\ OnDay(loaded', d) \subseteq loaded' /\ Share(OnDay(loaded', d), s) \subseteq loaded'
    BY DEF OnDay, Share
  <2>2. IsFiniteSet(OnDay(loaded', d)) /\ IsFiniteSet(Share(OnDay(loaded', d), s))
    BY <2>1, FS_Subset
  <2> QED BY <2>1, <2>2, FS_Subset, FS_CardinalityType
<1>2. \A r \in table : /\ r.date \in Day
                       /\ r.value \in Nat
  BY DEF RunTypes, StoredRow, Result
<1>3. \A r \in table : r.key[1] = "observation_count" =>
         r.key = Total /\ r.value <= Cardinality(OnDay(loaded', r.date))
  BY <1>1, <1>2 DEF CountsInv
<1>4. \A r \in table, s \in Source : r.key = OfSource(s) =>
         r.value <= Cardinality(Share(OnDay(loaded', r.date), s))
  <2> TAKE r \in table, s \in Source
  <2> HAVE r.key = OfSource(s)
  <2>1. r.value <= Cardinality(Share(OnDay(loaded, r.date), s))
    BY DEF CountsInv
  <2> QED BY <2>1, <1>1, <1>2
<1>5. \A d \in Day : /\ Counted(d)' = Counted(d) /\ Stored(d)' = Stored(d)
                     /\ Claims(d)' = Claims(d)
  BY DEF Counted, Stored, Claims, Claim, Value
<1>6. task.step = "write" => \E rows : CountedOf(rows)'
  <2> SUFFICES ASSUME task.step = "write" PROVE \E rows : CountedOf(rows)'
    OBVIOUS
  <2>1. PICK rows : CountedOf(rows)
    BY DEF CountsInv
  <2>2. OnDay(loaded, task.date) \subseteq OnDay(loaded', task.date)
    BY DEF OnDay
  <2>3. CountedOf(rows)'
    BY <2>1, <2>2 DEF CountedOf, Stored
  <2> QED BY <2>3
<1>7. \A d \in Day : Counted(d)' # {} =>
         \E r \in Stored(d)' : r.key = Total /\ r.value <= SumFunctionOnSet(Claims(d)', Counted(d)')
  BY <1>5 DEF CountsInv
<1> QED BY <1>3, <1>4, <1>6, <1>7 DEF CountsInv

LEMMA CountsTask ==
  ASSUME CountsInv, UNCHANGED <<dag, loaded, table>>,
         dag = "metrics" /\ task'.step = "write" => \E rows : CountedOf(rows)'
  PROVE  CountsInv'
<1>1. \A d : Counted(d)' = Counted(d) /\ Stored(d)' = Stored(d) /\ Claims(d)' = Claims(d)
  BY DEF Counted, Stored, Claims, Claim, Value
<1>2. \A d \in Day : dag = "metrics" /\ Counted(d)' # {} =>
         \E r \in Stored(d)' : r.key = Total /\ r.value <= SumFunctionOnSet(Claims(d)', Counted(d)')
  BY <1>1 DEF CountsInv
<1> QED BY <1>2 DEF CountsInv

LEMMA CountsCompute ==
  ASSUME CountsInv, RunTypes, ComputeMetrics
  PROVE  CountsInv'
<1>1. dag = "metrics"
  BY DEF ComputeMetrics
<1>2. PICK rows : rows = OnDay(loaded, task.date)
  OBVIOUS
<1>3. PICK n \in 0 .. 5, red \in BOOLEAN : Computed(MetricsUpTo(rows, n), red)
  BY <1>2, ComputesMetrics
<1>4. /\ UNCHANGED <<dag, loaded, table>>
      /\ task'.date = task.date /\ task'.results = MetricsUpTo(rows, n)
  BY <1>3 DEF Computed, RunTypes
<1>5. \A r \in Stored(task.date) : r.key = Total => r.value <= Cardinality(rows)
  <2>1. \A r \in Stored(task.date) : r \in table /\ r.date = task.date
    BY DEF Stored
  <2> QED BY <1>1, <1>2, <2>1, TotalName DEF CountsInv
<1>6. CountedOf(rows)'
  <2>1. rows \subseteq OnDay(loaded', task'.date)
    BY <1>2, <1>4
  <2>2. Stored(task.date)' = Stored(task.date)
    BY <1>4 DEF Stored
  <2> QED BY <1>4, <1>5, <2>1, <2>2 DEF CountedOf
<1> QED BY <1>4, <1>6, CountsTask

\* The first sources of a date: all those of the run, whose rows they divide.
LEMMA SourcesDivide ==
  ASSUME NEW rows, IsFiniteSet(rows), IsFiniteSet(Sources(rows)), NEW v,
         \A s \in Sources(rows) : v[s] = Cardinality(Share(rows, s))
  PROVE  SumFunctionOnSet(v, Sources(rows)) = Cardinality(rows)
<1> DEFINE I == Sources(rows)
           part == [s \in I |-> Share(rows, s)]
<1>1. \A s \in I : part[s] \subseteq rows /\ v[s] = Cardinality(part[s])
  BY DEF Share
<1>2. \A r \in rows : \E s \in I : r \in part[s]
  BY DEF Share, Sources
<1>3. \A s, t \in I : s # t => part[s] \cap part[t] = {}
  BY DEF Share
<1> HIDE DEF part, I
<1>4. SumFunctionOnSet(v, I) = Cardinality(rows)
  BY <1>1, <1>2, <1>3, SumOfParts DEF I
<1> QED BY <1>4 DEF I

LEMMA CountedIsFinite ==
  ASSUME NEW tab, IsFiniteSet(tab), NEW S, \A s \in S : \E r \in tab : r.key = OfSource(s)
  PROVE  IsFiniteSet(S)
<1> DEFINE f == [r \in tab |-> r.key[2]]
<1>1. IsFiniteSet({f[r] : r \in tab})
  <2> HIDE DEF f
  <2> QED BY ImageIsFinite
<1>2. \A s : OfSource(s)[2] = s
  BY DEF OfSource
<1>3. S \subseteq {f[r] : r \in tab}
  BY <1>2
<1> QED BY <1>1, <1>3, FS_Subset

LEMMA ChosenValue ==
  ASSUME NEW S, NEW k, NEW r \in S, r.key = k, \A q \in S : q.key = k => q = r
  PROVE  (CHOOSE q \in S : q.key = k).value = r.value
<1>1. (CHOOSE q \in S : q.key = k) = r
  OBVIOUS
<1> QED BY <1>1

LEMMA CountsWrite ==
  ASSUME CountsInv, Keyed, Keyed', RunTypes, WriteMetrics
  PROVE  CountsInv'
<1> DEFINE date == task.date
           new == table' \ table
<1>1. dag = "metrics" /\ task.step = "write" /\ Insert(task.results) /\ task'.step = "finish"
      /\ UNCHANGED <<dag, loaded>>
  BY DEF WriteMetrics, Written, RunTypes
<1>0. IsFiniteSet(table') /\ \A r \in table' : r.value \in Nat
  <2>1. table' \subseteq StoredRow /\ IsFiniteSet(table')
    BY <1>1, InsertTyped DEF RunTypes
  <2>2. Result = Nat
    BY <1>1 DEF Result
  <2> QED BY <2>1, <2>2 DEF StoredRow
<1>2. PICK rows : CountedOf(rows)
  BY <1>1 DEF CountsInv
<1>3. PICK n \in 0 .. 5 : task.results = MetricsUpTo(rows, n)
  BY <1>2 DEF CountedOf
<1>4. /\ table \subseteq table'
      /\ \A r \in new : r.date = date /\ \E q \in task.results : q.key = r.key /\ q.value = r.value
      /\ \A q \in task.results : \E r \in table' : r.date = date /\ r.key = q.key
  BY <1>1, InsertedRows
<1>5. /\ \A q \in task.results : q.key[1] = "observation_count" =>
           q.key = Total /\ q.value = Cardinality(rows)
      /\ \A q \in task.results : \A s : q.key = OfSource(s) =>
           n = 5 /\ rows # {} /\ s \in Sources(rows) /\ q.value = Cardinality(Share(rows, s))
      /\ n = 5 /\ rows # {} => /\ \E q \in task.results : q.key = Total
                               /\ \A s \in Sources(rows) : \E q \in task.results : q.key = OfSource(s)
  BY <1>3, MetricRows
<1>6. /\ \A r \in new : r.key[1] = "observation_count" => r.key = Total /\ r.value = Cardinality(rows)
      /\ \A r \in new : \A s : r.key = OfSource(s) =>
           n = 5 /\ rows # {} /\ s \in Sources(rows) /\ r.value = Cardinality(Share(rows, s))
  BY <1>4, <1>5
<1>7. /\ rows \subseteq OnDay(loaded, date) /\ rows \in SUBSET Row
      /\ IsFiniteSet(OnDay(loaded, date)) /\ IsFiniteSet(rows)
      /\ Cardinality(rows) \in Nat /\ Cardinality(OnDay(loaded, date)) \in Nat
      /\ Cardinality(rows) <= Cardinality(OnDay(loaded, date))
  <2>1. OnDay(loaded, date) \in SUBSET loaded
    BY DEF OnDay
  <2>2. rows \subseteq OnDay(loaded, date)
    BY <1>2 DEF CountedOf
  <2>3. loaded \subseteq Row /\ IsFiniteSet(loaded)
    BY DEF RunTypes
  <2> HIDE DEF date
  <2>4. IsFiniteSet(OnDay(loaded, date)) /\ IsFiniteSet(rows)
    BY <2>1, <2>2, <2>3, FS_Subset
  <2> QED BY <2>1, <2>2, <2>3, <2>4, FS_Subset, FS_CardinalityType
<1>8. \A s : Cardinality(Share(rows, s)) <= Cardinality(Share(OnDay(loaded, date), s))
  <2> TAKE s
  <2>1. /\ Share(rows, s) \in SUBSET Share(OnDay(loaded, date), s)
        /\ Share(OnDay(loaded, date), s) \in SUBSET OnDay(loaded, date)
    BY <1>7 DEF Share
  <2>2. IsFiniteSet(Share(OnDay(loaded, date), s))
    BY <2>1, <1>7, FS_Subset
  <2> QED BY <2>1, <2>2, FS_Subset
<1>9. \A r \in table' : r.key[1] = "observation_count" =>
        r.key = Total /\ r.value <= Cardinality(OnDay(loaded, r.date))
  <2>1. \A r \in new : r.key[1] = "observation_count" =>
          r.key = Total /\ r.value <= Cardinality(OnDay(loaded, r.date))
    BY <1>4, <1>6, <1>7
  <2> QED BY <2>1, <1>1 DEF CountsInv
<1>10. \A r \in table', s \in Source : r.key = OfSource(s) =>
         r.value <= Cardinality(Share(OnDay(loaded, r.date), s))
  <2>1. \A r \in new, s \in Source : r.key = OfSource(s) =>
          r.value <= Cardinality(Share(OnDay(loaded, r.date), s))
    BY <1>4, <1>6, <1>8
  <2> QED BY <2>1, <1>1 DEF CountsInv
<1>11. \A d, s, r : r \in Stored(d) /\ r.key = OfSource(s) => Claim(d, s) = r.value
  BY TheValue DEF Claim, OfSource
<1>12. \A d, s, r : r \in Stored(d)' /\ r.key = OfSource(s) => Claim(d, s)' = r.value
  <2> TAKE d, s, r
  <2> HAVE r \in Stored(d)' /\ r.key = OfSource(s)
  <2>1. \A q \in Stored(d)' : q.key = OfSource(s) => q = r
    BY DEF Keyed, Stored
  <2>2. (CHOOSE q \in Stored(d)' : q.key = OfSource(s)).value = r.value
    BY <2>1, ChosenValue
  <2> QED BY <2>2 DEF Claim, Value, OfSource
<1>13. ASSUME NEW d \in Day, Counted(d)' # {}
       PROVE  \E r \in Stored(d)' : r.key = Total /\ r.value <= SumFunctionOnSet(Claims(d)', Counted(d)')
  <2>1. CASE d # date
    <3>1. Stored(d)' = Stored(d)
      BY <1>4, <2>1 DEF Stored
    <3>2. Counted(d)' = Counted(d) /\ Claims(d)' = Claims(d)
      BY <3>1 DEF Counted, Claims, Claim, Value
    <3> QED BY <3>1, <3>2, <1>1, <1>13 DEF CountsInv
  <2>2. CASE d = date /\ Counted(d) # {}
    <3>1. PICK r \in Stored(d) : r.key = Total /\ r.value <= SumFunctionOnSet(Claims(d), Counted(d))
      BY <1>1, <2>2 DEF CountsInv
    <3>2. Stored(d) \subseteq Stored(d)'
      BY <1>4 DEF Stored
    <3>3. Counted(d) \subseteq Counted(d)'
      BY <3>2 DEF Counted
    <3> DEFINE v == Claims(d)
               w == Claims(d)'
               S == Counted(d)'
               U == Counted(d)
    <3>4. \A s \in U : v[s] = w[s]
      <4> TAKE s \in U
      <4>1. PICK q \in Stored(d) : q.key = OfSource(s)
        BY DEF Counted
      <4>2. Claim(d, s) = q.value /\ Claim(d, s)' = q.value
        BY <4>1, <3>2, <1>11, <1>12
      <4> QED BY <4>2, <3>3 DEF Claims
    <3>5. \A s \in S : w[s] \in Nat
      <4> TAKE s \in S
      <4>1. PICK q \in Stored(d)' : q.key = OfSource(s)
        BY DEF Counted
      <4>2. w[s] = q.value
        BY <4>1, <1>12 DEF Claims
      <4>3. q \in table'
        BY <4>1 DEF Stored
      <4>4. q.value \in Nat
        BY <4>3, <1>0
      <4> QED BY <4>2, <4>4
    <3>6. IsFiniteSet(S)
      <4>1. \A s \in S : \E x \in table' : x.key = OfSource(s)
        BY DEF Counted, Stored
      <4> HIDE DEF S
      <4> QED BY <4>1, <1>0, CountedIsFinite
    <3> HIDE DEF v, w, S, U
    <3>7. U \in SUBSET S /\ IsFiniteSet(U)
      BY <3>3, <3>6, FS_Subset DEF U, S
    <3>8. SumFunctionOnSet(v, U) = SumFunctionOnSet(w, U)
      <4>1. \A s \in U : v[s] \in Nat /\ w[s] \in Nat /\ v[s] <= w[s]
        BY <3>4, <3>5, <3>7
      <4> QED BY <4>1, <3>4, <3>7, SumGrows
    <3>9. SumFunctionOnSet(w, U) <= SumFunctionOnSet(w, S)
      <4>1. \A s \in S : w[s] \in Nat /\ w[s] \in Nat
        BY <3>5
      <4>2. \A s \in U : w[s] <= w[s]
        BY <3>5, <3>7
      <4> QED BY <4>1, <4>2, <3>6, <3>7, SumGrows
    <3>10. SumFunctionOnSet(w, U) \in Nat /\ SumFunctionOnSet(w, S) \in Nat
      BY <3>5, <3>6, <3>7, SumNat
    <3>11. r.value \in Nat
      BY <3>1, <1>1 DEF Stored, RunTypes, StoredRow, Result
    <3>12. r.value <= SumFunctionOnSet(w, S)
      BY <3>1, <3>8, <3>9, <3>10, <3>11 DEF v, U
    <3> QED BY <3>1, <3>2, <3>12 DEF w, S
  <2>3. CASE d = date /\ Counted(d) = {}
    <3>1. ASSUME NEW r \in Stored(d)', NEW s \in Source, r.key = OfSource(s)
          PROVE  r \in new
      BY <2>3, <3>1 DEF Stored, Counted
    <3>2. n = 5 /\ rows # {}
      <4>1. PICK s \in Source : \E r \in Stored(d)' : r.key = OfSource(s)
        BY <1>13 DEF Counted
      <4> QED BY <4>1, <3>1, <1>6
    <3>3. Counted(d)' = Sources(rows)
      <4>1. Sources(rows) \subseteq Source
        BY <1>7, RowAssumption DEF Sources
      <4>2. \A s \in Sources(rows) : \E r \in table' : r.date = date /\ r.key = OfSource(s)
        BY <3>2, <1>4, <1>5
      <4>3. \A s \in Counted(d)' : s \in Sources(rows)
        BY <3>1, <1>6 DEF Counted
      <4> QED BY <4>1, <4>2, <4>3, <2>3 DEF Counted, Stored
    <3> DEFINE w == Claims(d)'
    <3>4. \A s \in Sources(rows) : w[s] = Cardinality(Share(rows, s))
      <4> TAKE s \in Sources(rows)
      <4>1. PICK r \in Stored(d)' : r.key = OfSource(s) /\ s \in Source
        BY <3>3 DEF Counted
      <4>2. r.value = Cardinality(Share(rows, s))
        BY <4>1, <3>1, <1>6
      <4> QED BY <4>1, <4>2, <3>3, <1>12 DEF Claims
    <3>5. IsFiniteSet(Sources(rows))
      BY <1>7, CountsOfRows
    <3> HIDE DEF w
    <3>6. SumFunctionOnSet(w, Sources(rows)) = Cardinality(rows)
      BY <1>7, <3>4, <3>5, SourcesDivide
    <3>7. PICK r \in table' : r.date = date /\ r.key = Total
      BY <3>2, <1>4, <1>5
    <3>8. r.value <= Cardinality(rows)
      <4>1. CASE r \in table
        BY <4>1, <3>7, <1>2 DEF CountedOf, Stored
      <4>2. CASE r \in new
        BY <4>2, <3>7, <1>6, <1>7, TotalName
      <4> QED BY <4>1, <4>2
    <3> QED BY <2>3, <3>3, <3>6, <3>7, <3>8 DEF Stored, w
  <2> QED BY <2>1, <2>2, <2>3
<1> QED BY <1>1, <1>9, <1>10, <1>13 DEF CountsInv

LEMMA CountsNext == CountsInv /\ Keyed /\ Keyed' /\ RunTypes /\ RunTypes' /\ [Next]_vars => CountsInv'
<1> SUFFICES ASSUME CountsInv, Keyed, Keyed', RunTypes, RunTypes', [Next]_vars PROVE CountsInv'
  OBVIOUS
<1>1. CASE WriteMetrics
  BY <1>1, CountsWrite
<1>2. CASE ComputeMetrics
  BY <1>2, CountsCompute
<1>3. CASE Load \/ NextDay \/ AskPage \/ ReadPage \/ UNCHANGED vars
  <2>1. UNCHANGED <<dag, task, table>> /\ loaded \subseteq loaded'
    BY <1>3 DEF Load, NextDay, AskPage, ReadPage, vars
  <2>2. IsFiniteSet(loaded')
    BY DEF RunTypes
  <2> QED BY <2>1, <2>2, CountsLoad
<1>4. CASE Schedule \/ Rerun \/ AttemptFails \/ Finish
  <2>1. UNCHANGED <<dag, loaded, table>> /\ task'.step # "write"
    BY <1>4, TaskDropped
  <2> QED BY <2>1, CountsTask
<1>5. CASE RunChecks \/ EvaluateHealth
  <2>1. UNCHANGED <<dag, loaded, table>> /\ dag # "metrics"
    BY <1>5 DEF RunChecks, EvaluateHealth, Computed
  <2> QED BY <2>1, CountsTask
<1>6. CASE WriteQuality \/ WriteHealth
  <2>1. UNCHANGED dag /\ dag # "metrics"
    BY <1>6 DEF WriteQuality, WriteHealth, Written
  <2> QED BY <2>1 DEF CountsInv
<1> QED BY <1>1, <1>2, <1>3, <1>4, <1>5, <1>6 DEF Next

LEMMA CountsInit == Init => CountsInv /\ Keyed
<1> SUFFICES ASSUME Init PROVE CountsInv /\ Keyed
  OBVIOUS
<1>1. table = {} /\ task.step = "idle" /\ task.results = {}
  BY NoTaskOK DEF Init
<1>2. \A d : Stored(d) = {} /\ Counted(d) = {}
  BY <1>1 DEF Stored, Counted
<1> QED BY <1>1, <1>2 DEF CountsInv, Keyed, Once

\* However the rows of a date were pieced together from runs that saw different warehouses, no
\* stored count claims more than the warehouse holds for the date, and the counts of the sources
\* together cover the stored total.  (calculator.py:161, persistence.py:122)
THEOREM CountsAllCover == Spec => []CountsCover
<1> QED BY CountsInit, CountsNext, CountsCovered, KeyedNext, RunTypesInit, RunTypesNext, TodayInv,
           TodayNext, PTL DEF Spec

\* No attempt, retry or rerun changes or takes back a stored row: it answers a key for the date
\* only when nothing has, and what it adds is newer than all the table has of the key.
\* (metrics persistence.py:122, quality persistence.py:223, health_persistence.py:150)
THEOREM RowsStay == Spec => RowsAreAppended
<1> DEFINE Appended ==
             /\ table \subseteq table'
             /\ \A r \in table' \ table, q \in table' :
                  q.key = r.key /\ q # r => q \in table /\ q.date # r.date /\ q.at < r.at
<1>1. ASSUME Keyed, RunTypes, Written PROVE Appended
  <2>1. Insert(task.results) /\ Once(task.results)
    BY <1>1 DEF Written, Keyed
  <2>2. /\ table \subseteq table'
        /\ \A r \in table' \ table : /\ r.date = task.date /\ r.at = 1 + Cardinality(OfKey(r.key))
                                     /\ ~ \E old \in table : old.date = task.date /\ old.key = r.key
        /\ \A q, r \in table' \ table : q.key = r.key => q = r
    BY <2>1, InsertedRows
  <2>3. \A k : Cardinality(OfKey(k)) \in Nat
    <3> TAKE k
    <3>1. OfKey(k) \in SUBSET table /\ IsFiniteSet(table)
      BY <1>1 DEF OfKey, RunTypes
    <3> QED BY <3>1, FS_Subset, FS_CardinalityType
  <2>4. \A q \in table : q.at \in Nat /\ q.at <= Cardinality(OfKey(q.key))
    BY <1>1 DEF Keyed, RunTypes, StoredRow
  <2>5. ASSUME NEW r \in table' \ table, NEW q \in table', q.key = r.key, q # r
        PROVE  q \in table /\ q.date # r.date /\ q.at < r.at
    <3>1. q \in table
      BY <2>2, <2>5
    <3>2. q.date # r.date
      BY <2>2, <2>5, <3>1
    <3>3. q.at \in Nat /\ q.at <= Cardinality(OfKey(r.key))
      BY <2>4, <2>5, <3>1
    <3>4. r.at = 1 + Cardinality(OfKey(r.key)) /\ Cardinality(OfKey(r.key)) \in Nat
      BY <2>2, <2>3
    <3> QED BY <3>1, <3>2, <3>3, <3>4
  <2> QED BY <2>2, <2>5
<1>2. Keyed /\ RunTypes /\ [Next]_vars => [Appended]_vars
  <2> SUFFICES ASSUME Keyed, RunTypes, Next PROVE Appended
    OBVIOUS
  <2>1. Written \/ UNCHANGED table
    BY DEF Next, Load, NextDay, Schedule, Rerun, AskPage, ReadPage, ComputeMetrics, RunChecks,
           EvaluateHealth, Computed, WriteMetrics, WriteQuality, WriteHealth, AttemptFails, Finish
  <2>2. CASE UNCHANGED table
    BY <2>2
  <2> QED BY <2>1, <2>2, <1>1
<1> QED BY <1>2, CountsInit, KeyedNext, RunTypesInit, RunTypesNext, TodayInv, TodayNext, PTL
        DEF Spec, RowsAreAppended

-----------------------------------------------------------------------------
(* Answers. *)

\* The rows of the health table are of sources.
Sourced == dag = "health" => \A r \in table \cup task.results : \E s \in Source : r.key = <<s, "">>

LEMMA SourcedInit == Init => Sourced
<1> SUFFICES ASSUME Init PROVE Sourced
  OBVIOUS
<1>1. table = {} /\ task.results = {}
  BY NoTaskOK DEF Init
<1> QED BY <1>1 DEF Sourced

LEMMA SourcedNext == Sourced /\ RunTypes /\ [Next]_vars => Sourced'
<1> SUFFICES ASSUME Sourced, RunTypes, [Next]_vars PROVE Sourced'
  OBVIOUS
<1>1. CASE Load \/ NextDay \/ AskPage \/ ReadPage \/ UNCHANGED vars
  <2>1. UNCHANGED <<dag, task, table>>
    BY <1>1 DEF Load, NextDay, AskPage, ReadPage, vars
  <2> QED BY <2>1 DEF Sourced
<1>2. CASE Schedule \/ Rerun \/ AttemptFails \/ Finish
  <2>1. UNCHANGED <<dag, table>> /\ task'.results = {}
    BY <1>2, TaskDropped
  <2> QED BY <2>1 DEF Sourced
<1>3. CASE ComputeMetrics \/ RunChecks \/ WriteMetrics \/ WriteQuality
  <2>1. UNCHANGED dag /\ dag # "health"
    BY <1>3 DEF ComputeMetrics, RunChecks, WriteMetrics, WriteQuality, Computed, Written
  <2> QED BY <2>1 DEF Sourced
<1>4. CASE EvaluateHealth
  <2>1. PICK rows \in {loaded, {}} : Computed(Evaluations(rows), FALSE)
    BY <1>4 DEF EvaluateHealth
  <2>2. UNCHANGED <<dag, table>> /\ task'.results = Evaluations(rows)
    BY <2>1 DEF Computed, RunTypes
  <2>3. \A r \in Evaluations(rows) : \E s \in Source : r.key = <<s, "">>
    <3>1. Sources(rows) \subseteq Source
      BY RowAssumption DEF Sources, RunTypes
    <3>2. \A s : Evaluation(rows, s).key = <<s, "">>
      BY DEF Evaluation
    <3> QED BY <3>1, <3>2, ConfiguredAssumption DEF Evaluations
  <2> QED BY <2>2, <2>3 DEF Sourced
<1>5. CASE WriteHealth
  <2>1. Insert(task.results) /\ dag' = dag /\ task'.results = task.results
    BY <1>5 DEF WriteHealth, Written, RunTypes
  <2>2. \A r \in table' \ table : \E q \in task.results : q.key = r.key
    BY <2>1, InsertedRows
  <2> QED BY <2>1, <2>2 DEF Sourced
<1> QED BY <1>1, <1>2, <1>3, <1>4, <1>5 DEF Next

\* A finite set has a largest element, by any measure.
LEMMA Largest ==
  ASSUME NEW S, IsFiniteSet(S), S # {}, NEW f, \A x \in S : f[x] \in Int
  PROVE  \E x \in S : \A y \in S : f[y] <= f[x]
<1> DEFINE G == {T \in SUBSET S : T # {} => \E x \in T : \A y \in T : f[y] <= f[x]}
<1>1. {} \in G
  OBVIOUS
<1>2. ASSUME NEW T \in SUBSET S, NEW x \in S \ T, T \in G PROVE T \cup {x} \in G
  <2>1. CASE T = {}
    BY <2>1
  <2>2. CASE T # {}
    <3>1. PICK z \in T : \A y \in T : f[y] <= f[z]
      BY <1>2, <2>2
    <3>2. CASE f[z] <= f[x]
      <4>1. \A y \in T \cup {x} : f[y] <= f[x]
        BY <3>1, <3>2
      <4> QED BY <4>1
    <3>3. CASE ~(f[z] <= f[x])
      <4>1. \A y \in T \cup {x} : f[y] <= f[z]
        BY <3>1, <3>3
      <4> QED BY <4>1, <3>1
    <3> QED BY <3>2, <3>3
  <2> QED BY <2>1, <2>2
<1> HIDE DEF G
<1>3. S \in G
  BY <1>1, <1>2, SetInduction
<1> QED BY <1>3 DEF G

\* Images by a function that tells the elements apart.
LEMMA ImageCounts ==
  ASSUME NEW S, IsFiniteSet(S), NEW f, \A x, y \in S : f[x] = f[y] => x = y
  PROVE  Cardinality({f[x] : x \in S}) = Cardinality(S)
<1> DEFINE T == {f[x] : x \in S}
           g == [x \in S |-> f[x]]
<1>1. g \in Surjection(S, T)
  BY DEF Surjection
<1>2. g \in Injection(S, T)
  BY DEF Injection, IsInjective
<1> HIDE DEF T, g
<1>3. Cardinality(T) = Cardinality(S)
  BY <1>1, <1>2, FS_Surjection
<1> QED BY <1>3 DEF T

\* Of the rows of a key one is the newest.
LEMMA NewestOfKeys ==
  ASSUME Keyed, RunTypes
  PROVE  /\ LatestPerSource \subseteq table /\ IsFiniteSet(LatestPerSource)
         /\ \A q, r \in LatestPerSource : q.key = r.key => q = r
         /\ Cardinality(LatestPerSource) = Cardinality({r.key : r \in table})
<1>1. \A r \in table : r.at \in Nat
  BY DEF RunTypes, StoredRow
<1>2. LatestPerSource \in SUBSET table /\ IsFiniteSet(table)
  BY DEF LatestPerSource, RunTypes
<1>3. IsFiniteSet(LatestPerSource)
  BY <1>2, FS_Subset
<1>4. \A q, r \in LatestPerSource : q.key = r.key => q = r
  BY <1>1 DEF LatestPerSource, Keyed
<1> DEFINE f == [r \in LatestPerSource |-> r.key]
<1>5. \A r \in table : \E q \in LatestPerSource : q.key = r.key
  <2> TAKE r \in table
  <2> DEFINE S == OfKey(r.key)
             at == [q \in S |-> q.at]
  <2>1. S \in SUBSET table /\ r \in S
    BY DEF OfKey
  <2>2. IsFiniteSet(S) /\ S # {}
    BY <1>2, <2>1, FS_Subset
  <2>3. \A q \in S : at[q] = q.at /\ at[q] \in Int
    BY <1>1, <2>1
  <2> HIDE DEF S, at
  <2>4. PICK q \in S : \A y \in S : at[y] <= at[q]
    BY <2>2, <2>3, Largest
  <2>5. \A y \in S : y.at <= q.at
    BY <2>3, <2>4
  <2> QED BY <2>1, <2>5 DEF LatestPerSource, OfKey, S
<1>6. {f[r] : r \in LatestPerSource} = {r.key : r \in table}
  <2>1. \A r \in LatestPerSource : r \in table /\ f[r] = r.key
    BY <1>2
  <2> HIDE DEF f
  <2> QED BY <2>1, <1>5
<1>7. \A q, r \in LatestPerSource : f[q] = f[r] => q = r
  BY <1>4
<1> HIDE DEF f
<1>8. Cardinality({f[r] : r \in LatestPerSource}) = Cardinality(LatestPerSource)
  BY <1>3, <1>7, ImageCounts
<1> QED BY <1>2, <1>3, <1>4, <1>6, <1>8

\* Neither limit cuts off what is not longer: no row comes before itself.
LEMMA NotCut ==
  ASSUME NEW S, IsFiniteSet(S), NEW n \in Nat, Cardinality(S) <= n,
         \A r \in S : r.at \in Nat /\ NameRank[r.key[1]] \in Nat
  PROVE  {r \in S : Cardinality({q \in S : HealthPrecedes(q, r, NameRank)}) < n} = S
<1> SUFFICES ASSUME NEW r \in S PROVE Cardinality({q \in S : HealthPrecedes(q, r, NameRank)}) < n
  OBVIOUS
<1> DEFINE T == {q \in S : HealthPrecedes(q, r, NameRank)}
<1>1. T \in SUBSET (S \ {r})
  BY DEF HealthPrecedes
<1> HIDE DEF T
<1>2. IsFiniteSet(S \ {r}) /\ Cardinality(S \ {r}) = Cardinality(S) - 1
  BY FS_RemoveElement
<1>3. IsFiniteSet(T) /\ Cardinality(T) <= Cardinality(S \ {r})
  BY <1>1, <1>2, FS_Subset
<1>4. Cardinality(T) < n
  BY <1>2, <1>3, FS_CardinalityType
<1> QED BY <1>4 DEF T

LEMMA HealthListed ==
  ASSUME Keyed, RunTypes, Sourced, dag = "health", Cardinality(table) <= ListLimit * Overfetch,
         Cardinality({r.key : r \in table}) <= ListLimit
  PROVE  ApiHealth = LatestPerSource
<1> DEFINE First_n(of, n) == {r \in of : Cardinality({q \in of : HealthPrecedes(q, r, NameRank)}) < n}
           N == ListLimit * Overfetch
           fetched == First_n(table, N)
           heads(S) == {r \in S : ~ \E q \in S : q.key = r.key /\ HealthPrecedes(q, r, NameRank)}
<1>1. ApiHealth = First_n(heads(fetched), ListLimit)
  BY DEF ApiHealth, ListSourceHealth
<1>2. N \in Nat /\ ListLimit \in Nat
  BY ApiAssumption
<1>3. \A r \in table : r.at \in Nat /\ NameRank[r.key[1]] \in Nat
  <2> TAKE r \in table
  <2>1. PICK s \in Source : r.key = <<s, "">>
    BY DEF Sourced
  <2>2. NameRank[s] \in Nat
    BY ApiAssumption
  <2>3. r.key[1] = s
    BY <2>1, Pairs
  <2>4. r.at \in Nat
    BY DEF RunTypes, StoredRow
  <2> QED BY <2>2, <2>3, <2>4
<1>4. IsFiniteSet(table) /\ Cardinality(table) <= N
  BY DEF RunTypes
<1> HIDE DEF N
<1>5. fetched = table
  BY <1>2, <1>3, <1>4, NotCut
<1>6. heads(table) = LatestPerSource
  BY <1>3 DEF HealthPrecedes, LatestPerSource
<1>7. /\ LatestPerSource \subseteq table /\ IsFiniteSet(LatestPerSource)
      /\ Cardinality(LatestPerSource) <= ListLimit
  BY NewestOfKeys
<1>8. First_n(LatestPerSource, ListLimit) = LatestPerSource
  <2>1. \A r \in LatestPerSource : r.at \in Nat /\ NameRank[r.key[1]] \in Nat
    BY <1>3, <1>7
  <2> QED BY <2>1, <1>2, <1>7, NotCut
<1> QED BY <1>1, <1>5, <1>6, <1>8

\* What the agent takes a status to be.
LEMMA Statuses ==
  ASSUME NEW value
  PROVE  /\ OverallStatus(value) = "healthy" => value.freshness = "fresh"
         /\ OverallStatus(value) \in {"degraded", "stale"} <=>
              value.state # "healthy" \/ value.freshness = "stale"
<1>1. CASE value.freshness = "stale"
  <2>1. OverallStatus(value) = "stale"
    BY <1>1 DEF OverallStatus
  <2> QED BY <1>1, <2>1
<1>2. CASE value.freshness # "stale" /\ value.state = "healthy"
  <2>1. OverallStatus(value) = IF value.freshness = "fresh" THEN "healthy" ELSE "unknown"
    BY <1>2 DEF OverallStatus
  <2> QED BY <1>2, <2>1
<1>3. CASE value.freshness # "stale" /\ value.state # "healthy"
  <2>1. OverallStatus(value) = IF value.state = "stale" THEN "stale" ELSE "degraded"
    BY <1>3 DEF OverallStatus
  <2> QED BY <1>3, <2>1
<1> QED BY <1>1, <1>2, <1>3

Troubled(list) == {r \in list : r.value.state # "healthy" \/ r.value.freshness = "stale"}

LEMMA TroubledHave ==
  ASSUME NEW list
  PROVE  /\ Having(list, "degraded") \cup Having(list, "stale") = Troubled(list)
         /\ Having(list, "degraded") \cap Having(list, "stale") = {}
BY Statuses DEF Having, Troubled

\* The question about the sources is answered with their figures.
LEMMA SourcesReply ==
  ASSUME NEW list
  PROVE  Reply([i \in 1 .. 5 |-> IF i = 4 THEN 1 ELSE 0], TRUE, list).figures
           = <<Cardinality(list), Cardinality(Having(list, "healthy")),
               Cardinality(Having(list, "degraded")), Cardinality(Having(list, "stale"))>>
<1> DEFINE keywords == [i \in 1 .. 5 |-> IF i = 4 THEN 1 ELSE 0]
           best == {i \in DOMAIN Intents : \A j \in DOMAIN Intents : keywords[j] <= keywords[i]}
<1>1. DOMAIN Intents = 1 .. 5 /\ Intents[4] = "source_health"
  BY DEF Intents
<1>2. best = {4}
  BY <1>1
<1>3. Min({4}) = 4
  BY DEF Min
<1>4. keywords[4] # 0 /\ 4 \in DOMAIN Intents
  BY <1>1
<1>5. Classify(keywords) = "source_health"
  BY <1>1, <1>2, <1>3, <1>4 DEF Classify
<1>6. Tool("source_health") = "get_source_health"
  BY DEF Tool
<1> HIDE DEF keywords
<1>7. Reply(keywords, TRUE, list).figures = Figures("get_source_health", list)
  BY <1>5, <1>6 DEF Reply
<1> QED BY <1>7 DEF Figures, keywords

LEMMA AllSourcesTold == Keyed /\ RunTypes /\ Sourced /\ dag = "health" => SourcesTold
<1> SUFFICES ASSUME Keyed, RunTypes, Sourced, dag = "health", Cardinality(table) <= ListLimit * Overfetch,
                    Cardinality({r.key : r \in table}) <= ListLimit
    PROVE  LET about == {r.key[1] : r \in {r \in LatestPerSource :
                           r \in DegradedSources \/ r.value.freshness = "stale"}}
           IN /\ ApiHealth = LatestPerSource
              /\ SourceVerdict(ApiHealth) = "healthy" => \A r \in LatestPerSource : r.value.freshness = "fresh"
              /\ {a[2] : a \in Alerts({}, ApiHealth)} = about
              /\ about # {} => PipelineVerdict({}, ApiHealth) = "degraded"
              /\ \A figures \in {Reply([i \in 1 .. 5 |-> IF i = 4 THEN 1 ELSE 0], TRUE, ApiHealth).figures} :
                   figures[1] = Cardinality({r.key : r \in table})
                   /\ figures[3] + figures[4] = Cardinality(about)
  BY DEF SourcesTold
<1> DEFINE list == LatestPerSource
           degraded == Having(list, "degraded")
           stale == Having(list, "stale")
           about == {r.key[1] : r \in Troubled(list)}
<1>1. ApiHealth = list
  BY HealthListed
<1>2. /\ list \subseteq table /\ IsFiniteSet(list)
      /\ \A q, r \in list : q.key = r.key => q = r
      /\ Cardinality(list) = Cardinality({r.key : r \in table})
  BY NewestOfKeys
<1>3. degraded \cup stale = Troubled(list) /\ degraded \cap stale = {}
  BY TroubledHave
<1>4. {r \in list : r \in DegradedSources \/ r.value.freshness = "stale"} = Troubled(list)
  BY DEF DegradedSources, Troubled
<1>5. SourceVerdict(list) = "healthy" => \A r \in list : r.value.freshness = "fresh"
  <2> SUFFICES ASSUME SourceVerdict(list) = "healthy", NEW r \in list PROVE r.value.freshness = "fresh"
    OBVIOUS
  <2>1. Having(list, "healthy") = list
    BY DEF SourceVerdict
  <2>2. OverallStatus(r.value) = "healthy"
    BY <2>1 DEF Having
  <2> QED BY <2>2, Statuses
<1>6. {a[2] : a \in Alerts({}, list)} = about
  <2> HIDE DEF list
  <2>1. Alerts({}, list) = {<<"source_degraded", r.key[1]>> : r \in degraded}
                             \cup {<<"source_stale", r.key[1]>> : r \in stale}
    BY DEF Alerts
  <2> HIDE DEF degraded, stale
  <2>2. \A a \in Alerts({}, list) : \E r \in degraded \cup stale : a[2] = r.key[1]
    BY <2>1, Pairs
  <2>3. \A r \in degraded \cup stale : \E a \in Alerts({}, list) : a[2] = r.key[1]
    <3> TAKE r \in degraded \cup stale
    <3>1. CASE r \in degraded
      <4>1. <<"source_degraded", r.key[1]>> \in Alerts({}, list)
        BY <2>1, <3>1
      <4> QED BY <4>1, Pairs
    <3>2. CASE r \in stale
      <4>1. <<"source_stale", r.key[1]>> \in Alerts({}, list)
        BY <2>1, <3>2
      <4> QED BY <4>1, Pairs
    <3> QED BY <3>1, <3>2
  <2> QED BY <1>3, <2>2, <2>3
<1>7. about # {} => PipelineVerdict({}, list) = "degraded"
  BY <1>3 DEF PipelineVerdict
<1>8. Cardinality(degraded) + Cardinality(stale) = Cardinality(about)
  <2> DEFINE f == [r \in Troubled(list) |-> r.key[1]]
  <2>1. IsFiniteSet(Troubled(list)) /\ IsFiniteSet(degraded) /\ IsFiniteSet(stale)
    <3>1. Troubled(list) \in SUBSET list /\ degraded \in SUBSET list /\ stale \in SUBSET list
      BY DEF Troubled, Having
    <3> HIDE DEF list, degraded, stale
    <3> QED BY <1>2, <3>1, FS_Subset
  <2>2. Cardinality(Troubled(list)) = Cardinality(degraded) + Cardinality(stale)
    <3> HIDE DEF list, degraded, stale
    <3>1. Cardinality(degraded \cup stale)
            = Cardinality(degraded) + Cardinality(stale) - Cardinality(degraded \cap stale)
      BY <2>1, FS_Union
    <3>2. Cardinality(degraded \cap stale) = 0
      BY <1>3, FS_EmptySet
    <3>3. Cardinality(degraded) \in Nat /\ Cardinality(stale) \in Nat
      BY <2>1, FS_CardinalityType
    <3> QED BY <1>3, <3>1, <3>2, <3>3
  <2>3. \A q, r \in Troubled(list) : f[q] = f[r] => q = r
    <3> SUFFICES ASSUME NEW q \in Troubled(list), NEW r \in Troubled(list), q.key[1] = r.key[1]
                 PROVE  q = r
      OBVIOUS
    <3>1. q \in list /\ r \in list /\ q \in table /\ r \in table
      BY <1>2 DEF Troubled
    <3>2. PICK s \in Source, t \in Source : q.key = <<s, "">> /\ r.key = <<t, "">>
      BY <3>1 DEF Sourced
    <3>3. q.key = r.key
      <4>1. q.key[1] = s /\ r.key[1] = t
        BY <3>2, Pairs
      <4> QED BY <3>2, <4>1
    <3> QED BY <3>1, <3>3, <1>2
  <2>4. about = {f[r] : r \in Troubled(list)}
    OBVIOUS
  <2> HIDE DEF f, about
  <2>5. Cardinality(about) = Cardinality(Troubled(list))
    BY <2>1, <2>3, <2>4, ImageCounts
  <2> QED BY <2>2, <2>5
<1>9. \A figures \in {Reply([i \in 1 .. 5 |-> IF i = 4 THEN 1 ELSE 0], TRUE, list).figures} :
        figures[1] = Cardinality({r.key : r \in table}) /\ figures[3] + figures[4] = Cardinality(about)
  <2> DEFINE figures == Reply([i \in 1 .. 5 |-> IF i = 4 THEN 1 ELSE 0], TRUE, list).figures
  <2>1. figures = <<Cardinality(list), Cardinality(Having(list, "healthy")),
                    Cardinality(degraded), Cardinality(stale)>>
    BY SourcesReply
  <2> HIDE DEF figures, degraded, stale, list, about
  <2>2. figures[1] = Cardinality(list) /\ figures[3] = Cardinality(degraded) /\ figures[4] = Cardinality(stale)
    BY <2>1
  <2>3. figures[1] = Cardinality({r.key : r \in table}) /\ figures[3] + figures[4] = Cardinality(about)
    BY <2>2, <1>2, <1>8
  <2> QED BY <2>3 DEF figures
<1> HIDE DEF about
<1>10. {r.key[1] : r \in {r \in list : r \in DegradedSources \/ r.value.freshness = "stale"}} = about
  BY <1>4 DEF about
<1> QED BY <1>1, <1>5, <1>6, <1>7, <1>9, <1>10

\* However many newer results have passed since, a failure is remembered.
LEMMA AllFailuresTold == RunTypes => FailuresTold
<1> SUFFICES ASSUME RunTypes, NEW recent \in Newest(table, ListLimit)
    PROVE  LET failed == {r \in table : r.value = "failed"}
               severity == [name \in CheckNames |->
                              IF name \in {"required_fields", "price_validity"} THEN "error" ELSE "warning"]
           IN /\ QualityVerdict(QualitySummary(table), recent)
                   = IF table = {} THEN "unknown" ELSE IF failed # {} THEN "degraded" ELSE "healthy"
              /\ WorstSeverity(recent, severity) \in {"none"} \cup {severity[r.key[1]] : r \in failed}
  BY DEF FailuresTold
<1> DEFINE failed == {r \in table : r.value = "failed"}
           severity == [name \in CheckNames |->
                          IF name \in {"required_fields", "price_validity"} THEN "error" ELSE "warning"]
           of(name) == {r \in table : r.key[1] = name /\ r.value = "failed"}
           names == {r.key[1] : r \in table}
<1>1. recent \subseteq table
  BY DEF Newest, kSubset
<1>2. QualitySummary(table) = {[check |-> name, runs |-> Cardinality({r \in table : r.key[1] = name}),
                                failed |-> Cardinality(of(name))] : name \in names}
  BY DEF QualitySummary
<1>3. \A name : IsFiniteSet(of(name)) /\ Cardinality(of(name)) \in Nat
                /\ (Cardinality(of(name)) > 0 <=> of(name) # {})
  <2> TAKE name
  <2>1. of(name) \in SUBSET table /\ IsFiniteSet(table)
    BY DEF RunTypes
  <2> HIDE DEF of
  <2> QED BY <2>1, FS_Subset, FS_CardinalityType, FS_EmptySet
<1>4. (\E s \in QualitySummary(table) : s.failed > 0) <=> failed # {}
  <2>1. (\E s \in QualitySummary(table) : s.failed > 0) <=> \E name \in names : Cardinality(of(name)) > 0
    <3> DEFINE row(name) == [check |-> name, runs |-> Cardinality({r \in table : r.key[1] = name}),
                              failed |-> Cardinality(of(name))]
    <3>1. QualitySummary(table) = {row(name) : name \in names}
      BY <1>2
    <3>2. \A name : row(name).failed = Cardinality(of(name))
      OBVIOUS
    <3> HIDE DEF of, names, row
    <3> QED BY <3>1, <3>2
  <2>2. (\E name \in names : of(name) # {}) <=> failed # {}
    OBVIOUS
  <2> HIDE DEF of, names, failed
  <2> QED BY <2>1, <2>2, <1>3
<1>5. QualitySummary(table) = {} <=> table = {}
  BY <1>2
<1>6. (\E r \in recent : r.value = "failed") => failed # {}
  BY <1>1
<1>7. QualityVerdict(QualitySummary(table), recent)
        = IF table = {} THEN "unknown" ELSE IF failed # {} THEN "degraded" ELSE "healthy"
  <2> HIDE DEF failed
  <2> QED BY <1>4, <1>5, <1>6 DEF QualityVerdict
<1>8. WorstSeverity(recent, severity) \in {"none"} \cup {severity[r.key[1]] : r \in failed}
  <2> HIDE DEF severity
  <2>1. {severity[r.key[1]] : r \in {r \in recent : r.value = "failed"}}
          \subseteq {severity[r.key[1]] : r \in failed}
    BY <1>1
  <2> HIDE DEF failed
  <2> QED BY <2>1 DEF WorstSeverity
<1> QED BY <1>7, <1>8

\* As long as the history is within what the API fetches, it lists the newest evaluation of every
\* source, and the agent tells, counts and raises an alert for each that is not well; and however
\* many newer results have passed since, it does not call the quality healthy when a check has
\* failed.  (pipeline_status.py:149, tools.py:334, :347, :442, :504, :573, graph.py:291)
THEOREM AnswersAllAgree == Spec => []AnswersAgree
<1>1. Keyed /\ RunTypes /\ Sourced => AnswersAgree
  BY AllSourcesTold, AllFailuresTold DEF AnswersAgree
<1> QED BY <1>1, CountsInit, KeyedNext, SourcedInit, SourcedNext, RunTypesInit, RunTypesNext, TodayInv,
           TodayNext, PTL DEF Spec

-----------------------------------------------------------------------------
(* Queries: of any finite set of observations. *)

\* Observations are ordered by their time and, of the same time, by their id.
LEMMA Ordered ==
  /\ \A q, r \in Row : q # r => Before(q, r) \/ Before(r, q)
  /\ \A q, r \in Row : ~(Before(q, r) /\ Before(r, q)) /\ ~Before(r, r)
  /\ \A q, r, s \in Row : Before(q, r) /\ Before(r, s) => Before(q, s)
  /\ \A q, r \in Row : (Before(q, r) => q.day <= r.day) /\ (q.day < r.day => Before(q, r))
<1>1. \A r \in Row : r.day \in Nat /\ r.id \in Nat
  BY RowAssumption
<1>2. \A q, r \in Row : q # r => q.id # r.id
  BY RowAssumption
<1> QED BY <1>1, <1>2 DEF Before

\* Of a finite set one is the last, and one is the first.
LEMMA LastExists ==
  ASSUME NEW T \in SUBSET Row, IsFiniteSet(T), T # {}
  PROVE  \E r \in T : \A q \in T \ {r} : Before(q, r)
<1> DEFINE G == {U \in SUBSET T : U # {} => \E r \in U : \A q \in U \ {r} : Before(q, r)}
<1>1. {} \in G
  OBVIOUS
<1>2. ASSUME NEW U \in SUBSET T, NEW x \in T \ U, U \in G PROVE U \cup {x} \in G
  <2>1. CASE U = {}
    BY <2>1
  <2>2. CASE U # {}
    <3>1. PICK r \in U : \A q \in U \ {r} : Before(q, r)
      BY <1>2, <2>2
    <3>2. CASE Before(r, x)
      <4>1. \A q \in U : Before(q, x)
        BY <3>1, <3>2, Ordered
      <4> QED BY <4>1
    <3>3. CASE Before(x, r)
      BY <3>1, <3>3
    <3>4. Before(r, x) \/ Before(x, r)
      BY Ordered
    <3> QED BY <3>2, <3>3, <3>4
  <2> QED BY <2>1, <2>2
<1> HIDE DEF G
<1>3. T \in G
  BY <1>1, <1>2, SetInduction
<1> QED BY <1>3 DEF G

LEMMA FirstExists ==
  ASSUME NEW T \in SUBSET Row, IsFiniteSet(T), T # {}
  PROVE  First(T) \in T /\ \A q \in T \ {First(T)} : Before(First(T), q)
<1> DEFINE G == {U \in SUBSET T : U # {} => \E r \in U : \A q \in U \ {r} : Before(r, q)}
<1>1. {} \in G
  OBVIOUS
<1>2. ASSUME NEW U \in SUBSET T, NEW x \in T \ U, U \in G PROVE U \cup {x} \in G
  <2>1. CASE U = {}
    BY <2>1
  <2>2. CASE U # {}
    <3>1. PICK r \in U : \A q \in U \ {r} : Before(r, q)
      BY <1>2, <2>2
    <3>2. CASE Before(x, r)
      <4>1. \A q \in U : Before(x, q)
        BY <3>1, <3>2, Ordered
      <4> QED BY <4>1
    <3>3. CASE Before(r, x)
      BY <3>1, <3>3
    <3>4. Before(r, x) \/ Before(x, r)
      BY Ordered
    <3> QED BY <3>2, <3>3, <3>4
  <2> QED BY <2>1, <2>2
<1> HIDE DEF G
<1>3. T \in G
  BY <1>1, <1>2, SetInduction
<1>4. \E r \in T : \A q \in T \ {r} : Before(r, q)
  BY <1>3 DEF G
<1> QED BY <1>4 DEF First

\* The latest record is one, and one of the latest.
LEMMA OneLatestRecord ==
  ASSUME NEW T \in SUBSET Row, IsFiniteSet(T), T # {}
  PROVE  /\ Cardinality(LatestRecord(T)) = 1 /\ LatestRecord(T) \subseteq Latest(T)
         /\ \E r \in T : LatestRecord(T) = {r} /\ \A q \in T \ {r} : Before(q, r)
<1>1. PICK r \in T : \A q \in T \ {r} : Before(q, r)
  BY LastExists
<1>2. LatestRecord(T) = {r}
  <2>1. \A q \in LatestRecord(T) : q = r
    BY <1>1, Ordered DEF LatestRecord
  <2> QED BY <1>1, <2>1 DEF LatestRecord
<1>3. r \in Latest(T)
  <2>1. r.day \in Nat
    BY RowAssumption
  <2> QED BY <1>1, <2>1, Ordered DEF Latest
<1> QED BY <1>1, <1>2, <1>3, FS_Singleton

LEMMA RowsFinite ==
  ASSUME RunTypes, NEW S \in SUBSET loaded
  PROVE  S \in SUBSET Row /\ IsFiniteSet(S) /\ Cardinality(S) \in Nat
BY FS_Subset, FS_CardinalityType DEF RunTypes

LEMMA AllLatestAgree ==
  ASSUME RunTypes, NEW s, NEW p, RowsOf(loaded, s, p) # {}
  PROVE  LatestAgree(RowsOf(loaded, s, p), p)
<1> DEFINE listing == RowsOf(loaded, s, p)
           product == OfProduct(loaded, p)
<1>1. listing \in SUBSET product /\ product \in SUBSET loaded
  BY DEF RowsOf, OfProduct
<1>2. product \in SUBSET Row /\ IsFiniteSet(product) /\ listing \in SUBSET Row /\ IsFiniteSet(listing)
  BY <1>1, RowsFinite
<1>3. /\ Cardinality(LatestRecord(listing)) = 1 /\ LatestRecord(listing) \subseteq Latest(listing)
  BY <1>2, OneLatestRecord
<1>4. {e.latest : e \in {e \in ListedProducts(loaded) : e.product = p}} = ProductDetails(loaded, p)
  <2>1. ASSUME NEW e \in ListedProducts(loaded), e.product = p
        PROVE  e.latest \in ProductDetails(loaded, p)
    <3>1. PICK o \in {r.product : r \in loaded} :
            e \in {[product |-> o, latest |-> r] : r \in Latest(OfProduct(loaded, o))}
      BY DEF ListedProducts
    <3>2. PICK r \in Latest(OfProduct(loaded, o)) : e = [product |-> o, latest |-> r]
      BY <3>1
    <3> QED BY <2>1, <3>2 DEF ProductDetails
  <2>2. ASSUME NEW r \in ProductDetails(loaded, p)
        PROVE  \E e \in ListedProducts(loaded) : e.product = p /\ e.latest = r
    <3>1. r \in loaded /\ r.product = p /\ r \in Latest(OfProduct(loaded, p))
      BY DEF ProductDetails, Latest, OfProduct
    <3>2. [product |-> p, latest |-> r] \in ListedProducts(loaded)
      BY <3>1 DEF ListedProducts
    <3> QED BY <3>2
  <2> QED BY <2>1, <2>2
<1>5. PICK last \in listing : LatestRecord(listing) = {last} /\ \A q \in listing \ {last} : Before(q, last)
  BY <1>2, OneLatestRecord
<1>6. PICK r \in product : LatestRecord(product) = {r} /\ r \in Latest(product)
  <2>1. product # {}
    BY <1>1
  <2> QED BY <2>1, <1>2, OneLatestRecord
<1>7. \/ LatestRecord(listing) \subseteq ProductDetails(loaded, p)
      \/ \E x \in ProductDetails(loaded, p) : \A q \in listing : q.day < x.day
  <2>1. \A q \in product : q.day \in Nat /\ q.day <= r.day
    BY <1>2, <1>6, RowAssumption DEF Latest
  <2>2. CASE last.day = r.day
    <3>1. last \in Latest(product)
      BY <1>1, <2>1, <2>2 DEF Latest
    <3> QED BY <3>1, <1>5 DEF ProductDetails
  <2>3. CASE last.day # r.day
    <3>1. last.day < r.day
      BY <1>1, <2>1, <2>3
    <3>2. \A q \in listing : q.day <= last.day
      <4>1. last.day <= last.day
        BY <1>1, <2>1
      <4> QED BY <4>1, <1>2, <1>5, Ordered
    <3>3. \A q \in listing : q.day < r.day
      BY <1>1, <2>1, <3>1, <3>2
    <3> QED BY <3>3, <1>6 DEF ProductDetails
  <2> QED BY <2>2, <2>3
<1> QED BY <1>3, <1>4, <1>7 DEF LatestAgree

\* A sum is of the values alone.
LEMMA SumSame ==
  ASSUME NEW S, IsFiniteSet(S), NEW v, NEW w, \A x \in S : v[x] \in Int /\ v[x] = w[x]
  PROVE  SumFunctionOnSet(v, S) = SumFunctionOnSet(w, S)
<1> DEFINE G == {T \in SUBSET S : SumFunctionOnSet(v, T) = SumFunctionOnSet(w, T)}
<1>1. {} \in G
  BY SumUnfolds
<1>2. ASSUME NEW T \in SUBSET S, NEW x \in S \ T, T \in G PROVE T \cup {x} \in G
  <2>1. IsFiniteSet(T) /\ T \cup {x} \in SUBSET S
    BY FS_Subset
  <2>2. /\ \A y \in T \cup {x} : v[y] \in Int
        /\ \A y \in T \cup {x} : w[y] \in Int
    OBVIOUS
  <2>3. SumFunctionOnSet(v, T \cup {x}) = v[x] + SumFunctionOnSet(v, T)
    BY <2>1, <2>2, SumAdds
  <2>4. SumFunctionOnSet(w, T \cup {x}) = w[x] + SumFunctionOnSet(w, T)
    BY <2>1, <2>2, SumAdds
  <2> QED BY <1>2, <2>1, <2>3, <2>4
<1> HIDE DEF G
<1>3. S \in G
  BY <1>1, <1>2, SetInduction
<1> QED BY <1>3 DEF G

\* From each observation to the next.
Walk(T) == {Change(c[1], c[2]) : c \in {p \in T \X T : p[1] \in Previous(T, p[2])}}
AnyChange == {Change(q, r) : q, r \in Row}
By == [c \in AnyChange |-> c.by]

LEMMA Changes ==
  /\ \A q, r \in Row : /\ Change(q, r) \in AnyChange /\ Change(q, r).row = r
                       /\ By[Change(q, r)] = r.price - q.price /\ By[Change(q, r)] \in Int
  /\ \A T \in SUBSET Row : \A c \in Walk(T) :
       \E r \in T : \E q \in Previous(T, r) : q \in T /\ c = Change(q, r)
  /\ \A T \in SUBSET Row : \A r \in T : \A q \in Previous(T, r) : Change(q, r) \in Walk(T)
<1>1. \A r \in Row : r.price \in Int
  BY RowAssumption DEF Missing
<1>2. \A q, r \in Row : /\ Change(q, r) \in AnyChange /\ Change(q, r).row = r
                        /\ Change(q, r).by = r.price - q.price
  BY DEF Change, AnyChange
<1>3. \A c \in AnyChange : By[c] = c.by
  BY DEF By
<1>4. \A q, r \in Row : By[Change(q, r)] = r.price - q.price /\ By[Change(q, r)] \in Int
  <2> TAKE q, r \in Row
  <2>1. By[Change(q, r)] = r.price - q.price
    BY <1>2, <1>3
  <2> QED BY <1>1, <2>1
<1>5. ASSUME NEW T \in SUBSET Row, NEW c \in Walk(T)
      PROVE  \E r \in T : \E q \in Previous(T, r) : q \in T /\ c = Change(q, r)
  <2>1. PICK x \in T \X T : x[1] \in Previous(T, x[2]) /\ c = Change(x[1], x[2])
    BY DEF Walk
  <2> QED BY <2>1
<1>6. ASSUME NEW T \in SUBSET Row, NEW r \in T, NEW q \in Previous(T, r)
      PROVE  Change(q, r) \in Walk(T)
  <2>1. q \in T
    BY DEF Previous
  <2>2. <<q, r>> \in {x \in T \X T : x[1] \in Previous(T, x[2])}
    BY <2>1, Pairs
  <2>3. Change(<<q, r>>[1], <<q, r>>[2]) \in Walk(T)
    BY <2>2 DEF Walk
  <2> QED BY <2>3, Pairs
<1> QED BY <1>2, <1>4, <1>5, <1>6

\* The last observation adds the step from the one before it.
LEMMA LastStep ==
  ASSUME NEW T \in SUBSET Row, NEW last \in T, \A q \in T \ {last} : Before(q, last),
         NEW prev \in T \ {last}, \A q \in (T \ {last}) \ {prev} : Before(q, prev)
  PROVE  /\ Walk(T) = Walk(T \ {last}) \cup {Change(prev, last)}
         /\ Change(prev, last) \notin Walk(T \ {last})
<1> DEFINE U == T \ {last}
<1>1. \A r \in U : Previous(T, r) = Previous(U, r)
  <2> TAKE r \in U
  <2>1. \A s : ~Before(last, r)
    BY Ordered
  <2> QED BY <2>1 DEF Previous
<1>2. Previous(T, last) = {prev}
  <2>1. \A q \in Previous(T, last) : q = prev
    BY Ordered DEF Previous
  <2>2. prev \in Previous(T, last)
    BY Ordered DEF Previous
  <2> QED BY <2>1, <2>2
<1> HIDE DEF U
<1>3. U \in SUBSET Row /\ T = U \cup {last} /\ last \notin U
  BY DEF U
<1>4. ASSUME NEW c \in Walk(T) PROVE c \in Walk(U) \cup {Change(prev, last)}
  <2>1. PICK r \in T : \E q \in Previous(T, r) : q \in T /\ c = Change(q, r)
    BY Changes
  <2>2. CASE r = last
    BY <2>1, <2>2, <1>2
  <2>3. CASE r \in U
    <3>1. PICK q \in Previous(U, r) : q \in T /\ c = Change(q, r)
      BY <2>1, <2>3, <1>1
    <3>2. c \in Walk(U)
      BY <2>3, <3>1, <1>3, Changes
    <3> QED BY <3>2
  <2> QED BY <2>2, <2>3, <1>3
<1>5. ASSUME NEW c \in Walk(U) PROVE c \in Walk(T) /\ c # Change(prev, last)
  <2>1. PICK r \in U : \E q \in Previous(U, r) : q \in U /\ c = Change(q, r)
    BY <1>3, Changes
  <2>2. PICK q \in Previous(U, r) : q \in U /\ c = Change(q, r)
    BY <2>1
  <2>3. c \in Walk(T)
    BY <2>2, <1>1, <1>3, Changes
  <2>4. c.row = r /\ Change(prev, last).row = last
    BY <2>2, <1>3, Changes
  <2> QED BY <2>3, <2>4, <1>3
<1>6. Change(prev, last) \in Walk(T)
  BY <1>2, Changes
<1> QED BY <1>4, <1>5, <1>6 DEF U

\* Together the steps lead from the first price to the last.
LEMMA StepsLead ==
  ASSUME NEW L \in SUBSET Row, IsFiniteSet(L), L # {}, NEW last \in LatestRecord(L)
  PROVE  IsFiniteSet(Walk(L)) /\ SumFunctionOnSet(By, Walk(L)) = last.price - First(L).price
<1> DEFINE Leads(T) ==
      \A x \in T : (\A q \in T \ {x} : Before(q, x)) =>
        IsFiniteSet(Walk(T)) /\ SumFunctionOnSet(By, Walk(T)) = x.price - First(T).price
<1> DEFINE N == {n \in Nat : \A T \in SUBSET L : Cardinality(T) = n => Leads(T)}
<1>0. \A T \in SUBSET L : T \in SUBSET Row /\ IsFiniteSet(T) /\ Cardinality(T) \in Nat
  BY FS_Subset, FS_CardinalityType
<1>1. 0 \in N
  <2>1. \A T \in SUBSET L : Cardinality(T) = 0 => T = {}
    BY <1>0, FS_EmptySet
  <2> QED BY <2>1
<1>2. ASSUME NEW n \in Nat, n \in N PROVE n + 1 \in N
  <2> SUFFICES ASSUME NEW T \in SUBSET L, Cardinality(T) = n + 1,
                      NEW x \in T, \A q \in T \ {x} : Before(q, x)
               PROVE  IsFiniteSet(Walk(T)) /\ SumFunctionOnSet(By, Walk(T)) = x.price - First(T).price
    OBVIOUS
  <2> DEFINE U == T \ {x}
  <2>1. U \in SUBSET L /\ Cardinality(U) = n
    <3>1. Cardinality(U) = Cardinality(T) - 1
      BY <1>0, FS_RemoveElement
    <3> QED BY <3>1
  <2>2. First(T) \in T /\ \A q \in T \ {First(T)} : Before(First(T), q)
    BY <1>0, FirstExists
  <2>3. CASE U = {}
    <3>1. T = {x}
      BY <2>3
    <3>2. Walk(T) = {}
      <4>1. \A r \in T : Previous(T, r) = {}
        BY <3>1, <1>0, Ordered DEF Previous
      <4> QED BY <4>1, <1>0, Changes
    <3>3. First(T) = x /\ x.price \in Int
      BY <3>1, <2>2, <1>0, RowAssumption DEF Missing
    <3> QED BY <3>2, <3>3, FS_EmptySet, SumUnfolds
  <2>4. CASE U # {}
    <3>1. PICK y \in U : \A q \in U \ {y} : Before(q, y)
      BY <2>1, <2>4, <1>0, LastExists
    <3>2. IsFiniteSet(Walk(U)) /\ SumFunctionOnSet(By, Walk(U)) = y.price - First(U).price
      BY <3>1, <2>1, <1>2
    <3>3. First(U) = First(T)
      <4>1. First(U) \in U /\ \A q \in U \ {First(U)} : Before(First(U), q)
        BY <2>1, <2>4, <1>0, FirstExists
      <4>2. First(T) # x
        BY <2>2, <3>1, <1>0, Ordered
      <4>3. First(T) \in U
        BY <2>2, <4>2
      <4> QED BY <2>1, <2>2, <4>1, <4>3, <1>0, Ordered
    <3>4. /\ Walk(T) = Walk(U) \cup {Change(y, x)}
          /\ Change(y, x) \notin Walk(U)
      BY <3>1, <1>0, LastStep
    <3>5. \A c \in Walk(U) \cup {Change(y, x)} : By[c] \in Int
      <4>1. \A c \in Walk(U) : By[c] \in Int
        <5> TAKE c \in Walk(U)
        <5>1. \E r \in U : \E q \in Previous(U, r) : q \in U /\ c = Change(q, r)
          BY <2>1, <1>0, Changes
        <5>2. \A r \in U : r \in Row
          BY <2>1, <1>0
        <5> HIDE DEF U
        <5> QED BY <5>1, <5>2, Changes
      <4>2. By[Change(y, x)] \in Int
        BY <1>0, Changes
      <4> QED BY <4>1, <4>2
    <3>6. SumFunctionOnSet(By, Walk(T)) = By[Change(y, x)] + SumFunctionOnSet(By, Walk(U))
      BY <3>2, <3>4, <3>5, SumAdds
    <3>7. By[Change(y, x)] = x.price - y.price
      BY <1>0, Changes
    <3>8. x.price \in Int /\ y.price \in Int /\ First(T).price \in Int
      BY <2>2, <1>0, RowAssumption DEF Missing
    <3>9. IsFiniteSet(Walk(T))
      <4>1. IsFiniteSet(Walk(U) \cup {Change(y, x)})
        BY <3>2, FS_AddElement
      <4> QED BY <3>4, <4>1
    <3> QED BY <3>2, <3>3, <3>6, <3>7, <3>8, <3>9
  <2> QED BY <2>3, <2>4
<1> HIDE DEF N
<1>3. Cardinality(L) \in N
  BY <1>0, <1>1, <1>2, Induction
<1>4. Leads(L)
  BY <1>3 DEF N
<1>5. last \in L /\ \A q \in L \ {last} : Before(q, last)
  BY DEF LatestRecord
<1> QED BY <1>4, <1>5

LEMMA AllChangesAgree ==
  ASSUME RunTypes, NEW L \in SUBSET loaded, L # {}
  PROVE  ChangesAgree(L)
<1>1. L \in SUBSET Row /\ IsFiniteSet(L)
  BY RowsFinite
<1>2. ASSUME \A r \in L : r.price > 0, NEW last \in LatestRecord(L)
      PROVE  last.price - First(L).price = SumFunction([c \in PriceChanges(L, 0) |-> c.by])
  <2>1. Since(L, 0) = L
    BY <1>1, RowAssumption DEF Since
  <2>2. \A r \in L : r.price # Missing
    BY <1>2 DEF Missing
  <2>3. PriceChanges(L, 0) = Walk(L)
    <3>1. {p \in L \X L : p[1] \in Previous(L, p[2]) /\ p[1].price > 0 /\ p[2].price # Missing}
            = {p \in L \X L : p[1] \in Previous(L, p[2])}
      BY <1>2, <2>2
    <3> QED BY <2>1, <3>1 DEF PriceChanges, Walk
  <2>4. IsFiniteSet(Walk(L)) /\ SumFunctionOnSet(By, Walk(L)) = last.price - First(L).price
    BY <1>1, <1>2, StepsLead
  <2> DEFINE w == [c \in Walk(L) |-> c.by]
  <2>5. \A c \in Walk(L) : By[c] \in Int /\ By[c] = w[c]
    <3> TAKE c \in Walk(L)
    <3>1. \E r \in L : \E q \in Previous(L, r) : q \in L /\ c = Change(q, r)
      BY <1>1, Changes
    <3>2. c \in AnyChange /\ By[c] \in Int
      BY <1>1, <3>1, Changes
    <3> QED BY <3>2 DEF By
  <2>6. DOMAIN w = Walk(L)
    OBVIOUS
  <2>7. SumFunction(w) = SumFunctionOnSet(w, Walk(L))
    BY <2>6 DEF SumFunction
  <2>8. w = [c \in PriceChanges(L, 0) |-> c.by]
    BY <2>3
  <2> HIDE DEF w
  <2>9. SumFunctionOnSet(By, Walk(L)) = SumFunctionOnSet(w, Walk(L))
    BY <2>4, <2>5, SumSame
  <2> QED BY <2>4, <2>7, <2>8, <2>9
<1>3. ASSUME NEW d \in Day, NEW c \in PriceChanges(L, d)
      PROVE  c \in ApiChanges(L, d) \/ \E q \in Previous(L, c.row) : q.currency # c.row.currency
  <2> DEFINE W == Since(L, d)
  <2>1. PICK x \in W \X W : /\ x[1] \in Previous(W, x[2]) /\ x[1].price > 0 /\ x[2].price # Missing
                            /\ c = Change(x[1], x[2])
    BY <1>3 DEF PriceChanges
  <2>2. PICK q \in W, r \in W : q \in Previous(W, r) /\ q.price > 0 /\ r.price # Missing /\ c = Change(q, r)
    BY <2>1
  <2>3. q \in L /\ r \in L /\ r.day >= d /\ q.day >= d /\ q \in Row /\ r \in Row
    BY <1>1, <2>2 DEF Since
  <2>4. Before(q, r) /\ \A s \in W : ~(Before(q, s) /\ Before(s, r))
    BY <2>2 DEF Previous
  <2>5. \A s \in L : ~(Before(q, s) /\ Before(s, r))
    <3> SUFFICES ASSUME NEW s \in L, Before(q, s) PROVE s \in W
      BY <2>4
    <3>1. q.day <= s.day /\ q.day \in Nat /\ s.day \in Nat
      BY <1>1, <2>3, Ordered, RowAssumption
    <3> QED BY <3>1, <2>3 DEF Since, Day
  <2>6. q \in Previous(L, r) /\ c.row = r
    BY <2>2, <2>3, <2>4, <2>5, Changes DEF Previous
  <2>7. CASE q.currency = r.currency
    <3>1. q \in Priced(L) /\ r \in Priced(W)
      BY <2>2, <2>3 DEF Priced, Missing
    <3>2. q \in Preceding(L, r)
      <4>1. q # r /\ q.day <= r.day
        BY <2>3, <2>4, Ordered
      <4>2. \A s \in L : ~(q.day < s.day /\ s.day < r.day)
        BY <1>1, <2>3, <2>5, Ordered
      <4> QED BY <2>3, <4>1, <4>2 DEF Preceding
    <3>3. <<q, r>> \in {p \in Priced(L) \X Priced(W) :
                          p[1] \in Preceding(L, p[2]) /\ p[1].currency = p[2].currency}
      BY <3>1, <3>2, <2>7, Pairs
    <3>4. Change(<<q, r>>[1], <<q, r>>[2]) \in ApiChanges(L, d)
      BY <3>3 DEF ApiChanges
    <3> QED BY <3>4, <2>2, Pairs
  <2> QED BY <2>6, <2>7
<1> QED BY <1>2, <1>3 DEF ChangesAgree

LEMMA Extremes ==
  ASSUME NEW S \in SUBSET Int, IsFiniteSet(S), S # {}
  PROVE  Min(S) \in S /\ Max(S) \in S /\ \A x \in S : Min(S) <= x /\ x <= Max(S)
<1> DEFINE up == [x \in S |-> x]
           down == [x \in S |-> 0 - x]
<1>1. \A x \in S : up[x] = x /\ down[x] = 0 - x /\ up[x] \in Int /\ down[x] \in Int
  OBVIOUS
<1> HIDE DEF up, down
<1>2. \E x \in S : \A y \in S : up[y] <= up[x]
  BY <1>1, Largest
<1>3. \E x \in S : \A y \in S : down[y] <= down[x]
  BY <1>1, Largest
<1>4. \E x \in S : \A y \in S : x >= y
  BY <1>1, <1>2
<1>5. \E x \in S : \A y \in S : x =< y
  BY <1>1, <1>3
<1>6. Max(S) \in S /\ \A y \in S : Max(S) >= y
  BY <1>4 DEF Max
<1>7. Min(S) \in S /\ \A y \in S : Min(S) =< y
  BY <1>5 DEF Min
<1> QED BY <1>6, <1>7

\* A quotient is between the bounds of what is divided.
LEMMA QuotientBetween ==
  ASSUME NEW n \in Nat \ {0}, NEW t \in Int, NEW lo \in Int, NEW hi \in Int, n * lo <= t, t <= n * hi
  PROVE  t \div n \in Int /\ lo <= t \div n /\ t \div n <= hi
<1> DEFINE k == t \div n
           m == t % n
<1>1. k \in Int /\ m \in Int /\ t = n * k + m /\ 0 <= m /\ m < n
  OBVIOUS
<1> HIDE DEF k, m
<1>2. lo <= k
  <2> SUFFICES ASSUME k + 1 <= lo PROVE FALSE
    BY <1>1
  <2>1. n * (k + 1) <= n * lo
    <3> DEFINE e == lo - (k + 1)
    <3>1. e \in Nat /\ lo = (k + 1) + e
      BY <1>1
    <3> HIDE DEF e
    <3>2. n * lo = n * (k + 1) + n * e /\ n * e \in Nat /\ n * (k + 1) \in Int
      BY <3>1, <1>1
    <3> QED BY <3>2
  <2>2. n * (k + 1) = n * k + n /\ n * k \in Int
    BY <1>1
  <2> DEFINE x == n * k
             y == n * lo
  <2>3. x \in Int /\ y \in Int /\ x + n <= y /\ y <= t /\ t = x + m
    BY <1>1, <2>1, <2>2
  <2> HIDE DEF x, y
  <2> QED BY <2>3, <1>1
<1>3. k <= hi
  <2> SUFFICES ASSUME hi + 1 <= k PROVE FALSE
    BY <1>1
  <2>1. n * (hi + 1) <= n * k
    <3> DEFINE e == k - (hi + 1)
    <3>1. e \in Nat /\ k = (hi + 1) + e
      BY <1>1
    <3> HIDE DEF e
    <3>2. n * k = n * (hi + 1) + n * e /\ n * e \in Nat /\ n * (hi + 1) \in Int
      BY <3>1
    <3> QED BY <3>2
  <2>2. n * (hi + 1) = n * hi + n /\ n * hi \in Int /\ n * k \in Int
    BY <1>1
  <2> DEFINE x == n * k
             y == n * hi
  <2>3. x \in Int /\ y \in Int /\ y + n <= x /\ t <= y /\ t = x + m
    BY <1>1, <2>1, <2>2
  <2> HIDE DEF x, y
  <2> QED BY <2>3, <1>1
<1> QED BY <1>1, <1>2, <1>3 DEF k

LEMMA AverageBetween ==
  ASSUME NEW rows \in SUBSET Row, IsFiniteSet(rows), Priced(rows) # {}, NEW lo \in Int, NEW hi \in Int,
         \A r \in Priced(rows) : lo <= r.price /\ r.price <= hi
  PROVE  Average(rows) \in Int /\ lo <= Average(rows) /\ Average(rows) <= hi
<1> DEFINE P == Priced(rows)
           v == [r \in P |-> r.price]
           n == Cardinality(P)
           t == SumFunctionOnSet(v, P)
<1>1. P \in SUBSET rows /\ \A r \in P : r.price \in Int
  BY RowAssumption DEF Priced
<1>2. IsFiniteSet(P) /\ n \in Nat \ {0}
  BY <1>1, FS_Subset, FS_EmptySet, FS_CardinalityType
<1>3. DOMAIN v = P /\ \A r \in P : v[r] = r.price
  OBVIOUS
<1>4. Average(rows) = t \div n
  BY <1>3 DEF Average, TotalPrice, SumFunction
<1> HIDE DEF v
<1>5. \A r \in P : v[r] \in Int /\ lo <= v[r] /\ v[r] <= hi
  BY <1>1, <1>3
<1> HIDE DEF P
<1>6. t \in Int
  BY <1>2, <1>5, SumType
<1>7. n * lo <= t /\ t <= n * hi
  BY <1>2, <1>5, SumBounds
<1> HIDE DEF n, t
<1> QED BY <1>2, <1>4, <1>6, <1>7, QuotientBetween

\* The prices of a listing lie between the extremes of its statistics, and so do their averages.
LEMMA AllExtremesAgree ==
  ASSUME RunTypes, NEW s, NEW p
  PROVE  ExtremesAgree(<<s, p>>, RowsOf(loaded, s, p))
<1> DEFINE L == RowsOf(loaded, s, p)
           P == Priced(L)
           low == Min(Prices(L))
           high == Max(Prices(L))
           of(l) == RowsOf(Priced(Since(loaded, 0)), l[1], l[2])
<1>1. Since(loaded, 0) = loaded
  BY RowAssumption DEF Since, RunTypes
<1>2. of(<<s, p>>) = P
  BY <1>1, Pairs DEF RowsOf, Priced
<1>3. L \in SUBSET loaded /\ P \in SUBSET loaded
  BY DEF RowsOf, Priced
<1>4. L \in SUBSET Row /\ IsFiniteSet(L) /\ IsFiniteSet(P) /\ \A r \in P : r.price \in Int
  BY <1>3, RowsFinite, RowAssumption DEF Missing
<1>5. Priced(P) = P /\ Prices(P) = Prices(L)
  BY DEF Priced, Prices
<1>6. Priced(PriceHistory(L, 0, today)) = P
  <2>1. \A r \in L : 0 <= r.day /\ r.day <= today
    BY <1>3, <1>4, RowAssumption DEF RunTypes
  <2> QED BY <2>1 DEF PriceHistory, Priced
<1>7. ASSUME P # {}
      PROVE  /\ low \in Int /\ high \in Int /\ \A r \in P : low <= r.price /\ r.price <= high
  <2> DEFINE f == [r \in P |-> r.price]
  <2>1. Prices(L) = {f[r] : r \in P}
    BY DEF Prices
  <2>2. Prices(L) # {} /\ Prices(L) \in SUBSET Int /\ \A r \in P : r.price \in Prices(L)
    BY <1>4, <1>7 DEF Prices
  <2>3. IsFiniteSet(Prices(L))
    <3> HIDE DEF f, P
    <3> QED BY <2>1, <1>4, ImageIsFinite
  <2> HIDE DEF P
  <2> QED BY <2>2, <2>3, Extremes
<1> HIDE DEF low, high
<1>8. ASSUME P # {}, NEW d \in Days(L)
      PROVE  low <= RollingSpread(L, d, 2).low /\ RollingSpread(L, d, 2).high <= high
  <2> DEFINE D == RollingDays(L, d, 2)
             f == [e \in D |-> DailyPrice(L, e)]
             A == {DailyPrice(L, e) : e \in D}
  <2>1. RollingSpread(L, d, 2) = [low |-> Min(A), high |-> Max(A)]
    BY DEF RollingSpread
  <2>2. IsFiniteSet(Days(L)) /\ Days(L) \subseteq Nat
    <3> DEFINE g == [r \in P |-> r.day]
    <3>1. Days(L) = {g[r] : r \in P}
      BY DEF Days
    <3>2. Days(L) \subseteq Nat
      BY <1>4, RowAssumption DEF Days, Priced
    <3> HIDE DEF g, P
    <3> QED BY <3>1, <3>2, <1>4, ImageIsFinite
  <2>3. D \in SUBSET Days(L) /\ d \in D
    <3>1. {e \in Days(L) : d < e /\ e <= d} = {}
      BY <2>2
    <3>2. Cardinality({}) = 0
      BY FS_EmptySet
    <3> QED BY <1>8, <2>2, <3>1, <3>2 DEF RollingDays
  <2>4. ASSUME NEW e \in Days(L)
        PROVE  DailyPrice(L, e) \in Int /\ low <= DailyPrice(L, e) /\ DailyPrice(L, e) <= high
    <3> DEFINE R == {r \in L : r.day = e}
    <3>1. R \in SUBSET Row /\ IsFiniteSet(R)
      <4>1. R \in SUBSET L
        OBVIOUS
      <4> HIDE DEF R, L
      <4> QED BY <4>1, <1>4, FS_Subset
    <3>2. Priced(R) # {} /\ Priced(R) \subseteq P
      BY <2>4 DEF Days, Priced
    <3> HIDE DEF P, R
    <3>3. Average(R) \in Int /\ low <= Average(R) /\ Average(R) <= high
      BY <1>7, <1>8, <3>1, <3>2, AverageBetween
    <3> QED BY <3>3 DEF DailyPrice, R
  <2>5. A = {f[e] : e \in D}
    OBVIOUS
  <2>6. A # {} /\ A \in SUBSET Int /\ \A a \in A : low <= a /\ a <= high
    <3> HIDE DEF D, L
    <3> QED BY <2>3, <2>4
  <2>7. IsFiniteSet(A)
    <3>1. IsFiniteSet(D)
      BY <2>2, <2>3, FS_Subset
    <3> HIDE DEF f, A, D
    <3> QED BY <3>1, <2>5, ImageIsFinite
  <2> HIDE DEF A
  <2>8. Min(A) \in A /\ Max(A) \in A
    BY <2>6, <2>7, Extremes
  <2>9. RollingSpread(L, d, 2).low = Min(A) /\ RollingSpread(L, d, 2).high = Max(A)
    BY <2>1
  <2> HIDE DEF L
  <2> QED BY <2>6, <2>8, <2>9
<1>9. ASSUME NEW k \in ProductStats(loaded, 0), k.listing = <<s, p>>
      PROVE  /\ k.count = Cardinality(P) /\ k.low = low /\ k.high = high /\ P # {}
  <2> DEFINE listings == {l \in {<<r.source, r.product>> : r \in Priced(Since(loaded, 0))} :
                            Cardinality(of(l)) >= 2}
             avg(l) == Average(of(l))
             row(l) == [listing |-> l, count |-> Cardinality(of(l)), low |-> Min(Prices(of(l))),
                        high |-> Max(Prices(of(l))),
                        rank |-> 1 + Cardinality({j \in listings : avg(j) > avg(l)})]
  <2>1. ProductStats(loaded, 0) = {row(l) : l \in listings}
    BY DEF ProductStats
  <2>2. \A l : /\ row(l).listing = l /\ row(l).count = Cardinality(of(l))
               /\ row(l).low = Min(Prices(of(l))) /\ row(l).high = Max(Prices(of(l)))
    OBVIOUS
  <2>3. \A l \in listings : Cardinality(of(l)) >= 2
    OBVIOUS
  <2> HIDE DEF row, listings
  <2>4. PICK l \in listings : k = row(l)
    BY <1>9, <2>1
  <2>5. l = <<s, p>>
    BY <1>9, <2>2, <2>4
  <2>6. of(l) = P
    BY <2>5, <1>2
  <2> HIDE DEF of, P
  <2>7. Cardinality(P) >= 2
    BY <2>3, <2>6
  <2>8. P # {}
    BY <2>7, FS_EmptySet
  <2>9. k.count = Cardinality(P) /\ k.low = Min(Prices(P)) /\ k.high = Max(Prices(P))
    BY <2>2, <2>4, <2>6
  <2> QED BY <2>8, <2>9, <1>5 DEF low, high
<1>10. ASSUME NEW m \in PriceMovers(loaded, 0, 2), m.listing = <<s, p>>
       PROVE  m.first \in P /\ m.last \in P /\ m.count = Cardinality(P)
  <2> DEFINE listings == {l \in {<<r.source, r.product>> : r \in Priced(Since(loaded, 0))} :
                            Cardinality(of(l)) >= 2}
             ends(l) == {e \in Earliest(of(l)) \X Latest(of(l)) : e[1].currency = e[2].currency}
             row(l, e) == [listing |-> l, first |-> e[1], last |-> e[2], by |-> e[2].price - e[1].price,
                           count |-> Cardinality(of(l))]
  <2>1. PriceMovers(loaded, 0, 2) = UNION {{row(l, e) : e \in ends(l)} : l \in listings}
    BY DEF PriceMovers
  <2>2. \A l, e : row(l, e).listing = l /\ row(l, e).first = e[1] /\ row(l, e).last = e[2]
                  /\ row(l, e).count = Cardinality(of(l))
    OBVIOUS
  <2>3. \A l : \A e \in ends(l) : e[1] \in of(l) /\ e[2] \in of(l)
    BY DEF Earliest, Latest
  <2> HIDE DEF row, listings, ends
  <2>4. PICK l \in listings : \E e \in ends(l) : m = row(l, e)
    BY <1>10, <2>1
  <2>5. PICK e \in ends(l) : m = row(l, e)
    BY <2>4
  <2>6. l = <<s, p>>
    BY <1>10, <2>2, <2>5
  <2>7. of(l) = P
    BY <2>6, <1>2
  <2> HIDE DEF of, P
  <2> QED BY <2>2, <2>3, <2>5, <2>7
<1>11. ASSUME NEW k \in ProductStats(loaded, 0), k.listing = <<s, p>>
       PROVE  /\ k.count = Cardinality(Priced(PriceHistory(L, 0, today)))
              /\ \A d \in Days(L) : /\ k.low <= RollingSpread(L, d, 2).low
                                    /\ RollingSpread(L, d, 2).high <= k.high
              /\ \A m \in {m \in PriceMovers(loaded, 0, 2) : m.listing = <<s, p>>} :
                   {m.first.price, m.last.price} \subseteq k.low .. k.high /\ m.count = k.count
  <2>1. k.count = Cardinality(P) /\ k.low = low /\ k.high = high /\ P # {}
    BY <1>9, <1>11
  <2>2. \A m \in {m \in PriceMovers(loaded, 0, 2) : m.listing = <<s, p>>} :
          {m.first.price, m.last.price} \subseteq low .. high /\ m.count = Cardinality(P)
    <3> TAKE m \in {m \in PriceMovers(loaded, 0, 2) : m.listing = <<s, p>>}
    <3>1. m.first \in P /\ m.last \in P /\ m.count = Cardinality(P)
      BY <1>10
    <3> HIDE DEF P
    <3>2. m.first.price \in low .. high /\ m.last.price \in low .. high
      BY <2>1, <3>1, <1>4, <1>7
    <3> QED BY <3>1, <3>2
  <2> HIDE DEF L, P
  <2> QED BY <2>1, <2>2, <1>6, <1>8
<1> QED BY <1>11 DEF ExtremesAgree

\* What is counted of a part, and of the rest.
LEMMA RestCounts ==
  ASSUME NEW S, IsFiniteSet(S), NEW T \in SUBSET S
  PROVE  Cardinality(S \ T) = Cardinality(S) - Cardinality(T)
<1>1. IsFiniteSet(T) /\ IsFiniteSet(S \ T)
  BY FS_Subset
<1>2. T \cup (S \ T) = S /\ T \cap (S \ T) = {}
  OBVIOUS
<1>3. Cardinality(T \cup (S \ T)) = Cardinality(T) + Cardinality(S \ T) - Cardinality(T \cap (S \ T))
  BY <1>1, FS_Union
<1>4. Cardinality({}) = 0 /\ Cardinality(T) \in Nat /\ Cardinality(S \ T) \in Nat
  BY <1>1, FS_EmptySet, FS_CardinalityType
<1> QED BY <1>2, <1>3, <1>4

\* The statistics of a source count every observation once, by listing and by currency.
LEMMA AllStatisticsAgree ==
  ASSUME RunTypes, NEW s
  PROVE  StatisticsAgree(s)
<1> DEFINE R == {r \in loaded : r.source = s}
           missing == R \ Priced(R)
           listings == {l \in Listings : l[1] = s}
           rowsOf == [l \in listings |-> RowsOf(loaded, l[1], l[2])]
           counts == [l \in listings |-> Cardinality(RowsOf(loaded, l[1], l[2]))]
           groups == {g \in PriceStatistics(loaded, 0) : g.source = s}
           of(c) == {r \in loaded : r.source = s /\ r.currency = c}
           totals == [g \in groups |-> g.total]
           unpriced == [g \in groups |-> g.total - g.priced]
<1>0. Since(loaded, 0) = loaded
  BY RowAssumption DEF Since, RunTypes
<1>1. R \in SUBSET loaded /\ missing \in SUBSET R
  OBVIOUS
<1>2. IsFiniteSet(loaded) /\ IsFiniteSet(R) /\ IsFiniteSet(missing) /\ R \subseteq Row
  <2> HIDE DEF R, missing
  <2> QED BY <1>1, RowsFinite, FS_Subset DEF RunTypes
<1>3. /\ SourceStatistics(loaded, s, 0).total = Cardinality(R)
      /\ SourceStatistics(loaded, s, 0).missing = Cardinality(missing)
  BY <1>0 DEF SourceStatistics
<1>4. Cardinality(R) = SumFunction(counts)
  <2>1. IsFiniteSet(listings)
    <3> DEFINE f == [r \in loaded |-> <<r.source, r.product>>]
    <3>1. Listings = {f[r] : r \in loaded} /\ listings \in SUBSET Listings
      BY DEF Listings
    <3> HIDE DEF f, listings
    <3>2. IsFiniteSet({f[r] : r \in loaded})
      BY <1>2, ImageIsFinite
    <3> QED BY <3>1, <3>2, FS_Subset
  <2>2. \A l \in listings : rowsOf[l] \subseteq R /\ counts[l] = Cardinality(rowsOf[l])
    BY DEF RowsOf
  <2>3. \A r \in R : \E l \in listings : r \in rowsOf[l]
    <3> TAKE r \in R
    <3> DEFINE l == <<r.source, r.product>>
    <3>1. l[1] = r.source /\ l[2] = r.product
      BY Pairs
    <3>2. l \in Listings
      BY DEF Listings
    <3> HIDE DEF l
    <3> QED BY <3>1, <3>2 DEF RowsOf
  <2>4. \A k, l \in listings : k # l => rowsOf[k] \cap rowsOf[l] = {}
    <3> SUFFICES ASSUME NEW k \in listings, NEW l \in listings, NEW r \in rowsOf[k] \cap rowsOf[l]
                 PROVE  k = l
      OBVIOUS
    <3>1. r.source = k[1] /\ r.product = k[2] /\ r.source = l[1] /\ r.product = l[2]
      BY DEF RowsOf
    <3>2. PICK a, b : k = <<a, b>>
      BY DEF Listings
    <3>3. PICK c, d : l = <<c, d>>
      BY DEF Listings
    <3>4. k[1] = a /\ k[2] = b /\ l[1] = c /\ l[2] = d
      BY <3>2, <3>3, Pairs
    <3> QED BY <3>1, <3>2, <3>3, <3>4
  <2>5. DOMAIN counts = listings
    OBVIOUS
  <2>6. SumFunction(counts) = SumFunctionOnSet(counts, listings)
    BY <2>5 DEF SumFunction
  <2> HIDE DEF R, listings, rowsOf, counts
  <2>7. SumFunctionOnSet(counts, listings) = Cardinality(R)
    BY <1>2, <2>1, <2>2, <2>3, <2>4, SumOfParts
  <2> QED BY <2>6, <2>7
\* A group holds the rows of its currency, and every row is in the group of its own.
<1> DEFINE pairs == {<<r.source, r.currency>> : r \in loaded}
                      \cup {<<x, "none">> : x \in {r.source : r \in loaded}}
           quiet(x) == \E r \in loaded : r.source = x /\ RowsOf(loaded, x, r.product) = {}
           shown == {g \in pairs : g[2] # "none" \/ quiet(g[1])}
           held(x, c) == {r \in loaded : r.source = x /\ r.currency = c}
           row(x, c) == [source |-> x, currency |-> c, total |-> Cardinality(held(x, c)),
                         priced |-> Cardinality(Priced(held(x, c))), prices |-> Prices(held(x, c))]
<1>a. PriceStatistics(loaded, 0) = {row(g[1], g[2]) : g \in shown}
  BY <1>0 DEF PriceStatistics
<1>b. \A x, c : /\ row(x, c).source = x /\ row(x, c).currency = c
                /\ row(x, c).total = Cardinality(held(x, c))
                /\ row(x, c).priced = Cardinality(Priced(held(x, c)))
  OBVIOUS
<1>c. /\ \A c : held(s, c) = of(c)
      /\ \A r \in R : <<r.source, r.currency>> \in shown
      /\ IsFiniteSet(shown)
  <2>1. \A r \in R : <<r.source, r.currency>> \in shown
    <3> TAKE r \in R
    <3> DEFINE g == <<r.source, r.currency>>
    <3>1. g[2] = r.currency /\ g \in pairs
      BY Pairs
    <3>2. r.currency # "none"
      BY <1>2, RowAssumption
    <3> HIDE DEF g
    <3>3. g \in shown
      BY <3>1, <3>2
    <3> QED BY <3>3 DEF g
  <2>2. IsFiniteSet(shown)
    <3> DEFINE f == [r \in loaded |-> <<r.source, r.currency>>]
               h == [r \in loaded |-> <<r.source, "none">>]
    <3>1. pairs = {f[r] : r \in loaded} \cup {h[r] : r \in loaded} /\ shown \in SUBSET pairs
      OBVIOUS
    <3> HIDE DEF f, h, pairs, shown
    <3>2. IsFiniteSet({f[r] : r \in loaded}) /\ IsFiniteSet({h[r] : r \in loaded})
      BY <1>2, ImageIsFinite
    <3>3. IsFiniteSet(pairs)
      BY <3>1, <3>2, FS_Union
    <3> QED BY <3>1, <3>3, FS_Subset
  <2> QED BY <2>1, <2>2
<1> HIDE DEF row, held, shown, pairs, quiet
<1>d. \A g \in groups : g = row(s, g.currency) /\ \E p \in shown : g = row(p[1], p[2])
  BY <1>a, <1>b
<1>5. \A g \in groups : /\ g.total = Cardinality(of(g.currency))
                        /\ g.priced = Cardinality(Priced(of(g.currency)))
  <2> TAKE g \in groups
  <2>1. g = row(s, g.currency)
    BY <1>d
  <2>2. g.total = Cardinality(held(s, g.currency)) /\ g.priced = Cardinality(Priced(held(s, g.currency)))
    BY <2>1, <1>b
  <2> QED BY <2>2, <1>c
<1>6. \A g, h \in groups : g.currency = h.currency => g = h
  BY <1>d
<1>7. \A r \in R : \E g \in groups : g.currency = r.currency
  <2> TAKE r \in R
  <2> DEFINE p == <<r.source, r.currency>>
  <2>1. p \in shown /\ p[1] = s /\ p[2] = r.currency
    BY <1>c, Pairs
  <2> HIDE DEF p
  <2>2. row(s, r.currency) \in PriceStatistics(loaded, 0)
    BY <2>1, <1>a
  <2> QED BY <2>2, <1>b
<1>8. IsFiniteSet(groups)
  <2> DEFINE f == [g \in shown |-> row(g[1], g[2])]
  <2>1. groups \in SUBSET {f[g] : g \in shown}
    BY <1>d
  <2> HIDE DEF f, groups
  <2>2. IsFiniteSet({f[g] : g \in shown})
    BY <1>c, ImageIsFinite
  <2> QED BY <2>1, <2>2, FS_Subset
<1> HIDE DEF groups
<1>9. Cardinality(R) = SumFunction(totals)
  <2> DEFINE part == [g \in groups |-> of(g.currency)]
  <2>1. \A g \in groups : part[g] \subseteq R /\ totals[g] = Cardinality(part[g])
    BY <1>5
  <2>2. \A r \in R : \E g \in groups : r \in part[g]
    BY <1>7
  <2>3. \A g, h \in groups : g # h => part[g] \cap part[h] = {}
    BY <1>6
  <2>4. DOMAIN totals = groups
    OBVIOUS
  <2>5. SumFunction(totals) = SumFunctionOnSet(totals, groups)
    BY <2>4 DEF SumFunction
  <2> HIDE DEF part, R, totals
  <2>6. SumFunctionOnSet(totals, groups) = Cardinality(R)
    BY <1>2, <1>8, <2>1, <2>2, <2>3, SumOfParts
  <2> QED BY <2>5, <2>6
<1>10. Cardinality(missing) = SumFunction(unpriced)
  <2> DEFINE part == [g \in groups |-> of(g.currency) \ Priced(of(g.currency))]
  <2>1. \A g \in groups : part[g] \subseteq missing /\ unpriced[g] = Cardinality(part[g])
    <3> TAKE g \in groups
    <3>1. of(g.currency) \in SUBSET R /\ Priced(of(g.currency)) \in SUBSET of(g.currency)
      BY DEF Priced
    <3>2. part[g] \subseteq missing
      BY DEF Priced
    <3>3. IsFiniteSet(of(g.currency))
      <4> HIDE DEF of, R
      <4> QED BY <3>1, <1>2, FS_Subset
    <3>4. part[g] = of(g.currency) \ Priced(of(g.currency)) /\ unpriced[g] = g.total - g.priced
      OBVIOUS
    <3>5. g.total = Cardinality(of(g.currency)) /\ g.priced = Cardinality(Priced(of(g.currency)))
      BY <1>5
    <3> HIDE DEF of, part, unpriced, missing, R
    <3> QED BY <3>1, <3>2, <3>3, <3>4, <3>5, RestCounts
  <2>2. \A r \in missing : \E g \in groups : r \in part[g]
    BY <1>7 DEF Priced
  <2>3. \A g, h \in groups : g # h => part[g] \cap part[h] = {}
    BY <1>6
  <2>4. DOMAIN unpriced = groups
    OBVIOUS
  <2>5. SumFunction(unpriced) = SumFunctionOnSet(unpriced, groups)
    BY <2>4 DEF SumFunction
  <2> HIDE DEF part, missing, unpriced, R, of
  <2>6. SumFunctionOnSet(unpriced, groups) = Cardinality(missing)
    BY <1>2, <1>8, <2>1, <2>2, <2>3, SumOfParts
  <2> QED BY <2>5, <2>6
<1> QED BY <1>3, <1>4, <1>9, <1>10 DEF StatisticsAgree, groups

\* What the analytical queries of the warehouse and those of the API say of the same
\* observations fits together, whatever was loaded.
\* (queries.py:26, :96, :149, :335, :403, :480, :576; analytics.py:85, :191, :332; product.py:90)
THEOREM QueriesAllAgree == Spec => []QueriesAgree
<1>1. RunTypes => QueriesAgree
  <2> SUFFICES ASSUME RunTypes
      PROVE  /\ \A l \in Listings : LET listing == RowsOf(loaded, l[1], l[2])
                                    IN LatestAgree(listing, l[2]) /\ ChangesAgree(listing)
                                         /\ ExtremesAgree(l, listing)
             /\ \A s \in Source : StatisticsAgree(s)
    BY DEF QueriesAgree
  <2>1. ASSUME NEW l \in Listings
        PROVE  LatestAgree(RowsOf(loaded, l[1], l[2]), l[2]) /\ ChangesAgree(RowsOf(loaded, l[1], l[2]))
                 /\ ExtremesAgree(l, RowsOf(loaded, l[1], l[2]))
    <3>1. PICK r \in loaded : l = <<r.source, r.product>>
      BY DEF Listings
    <3>2. l[1] = r.source /\ l[2] = r.product
      BY <3>1, Pairs
    <3> DEFINE L == RowsOf(loaded, r.source, r.product)
    <3>3. L # {} /\ L \in SUBSET loaded
      BY DEF RowsOf
    <3>4. LatestAgree(L, r.product)
      BY <3>3, AllLatestAgree
    <3>5. ExtremesAgree(l, L)
      BY <3>1, AllExtremesAgree
    <3> HIDE DEF L
    <3>6. ChangesAgree(L)
      BY <3>3, AllChangesAgree
    <3> QED BY <3>2, <3>4, <3>5, <3>6 DEF L
  <2> QED BY <2>1, AllStatisticsAgree
<1> QED BY <1>1, RunTypesInit, RunTypesNext, TodayInv, TodayNext, PTL DEF Spec

=============================================================================
