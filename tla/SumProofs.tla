------------------------------ MODULE SumProofs -------------------------------
(***************************************************************************)
(* The two components whose properties are about totals: ProcessRates, for *)
(* any pids, any width of the counters that holds them, and any number of  *)
(* ticks and of uses of a pid, and Storage, for any tree of directories,   *)
(* any links of shares into it, any volumes and any number of shares.      *)
(* First the sums themselves; then the processes; then the shares and the  *)
(* pools.                                                                  *)
(***************************************************************************)
EXTENDS ProcessRates, Storage, FiniteSetTheorems, SequenceTheorems,
        WellFoundedInduction, TLAPS

-----------------------------------------------------------------------------
(***************************************************************************)
(* Sums                                                                    *)
(***************************************************************************)

(* The sum of the values of a function, SumFunctionOnSet of Functions.     *)

(* Induction over the subsets of a finite set: a set of them that has      *)
(* each one whose proper subsets it has, has the set itself.               *)
LEMMA SubsetInduction ==
    ASSUME NEW S, IsFiniteSet(S), NEW Good,
           \A T \in SUBSET S : (\A U \in SUBSET T : U # T => U \in Good) => T \in Good
    PROVE  S \in Good
<1> DEFINE Bad == {T \in SUBSET S : T \notin Good}
<1> SUFFICES ASSUME Bad # {} PROVE FALSE
  OBVIOUS
<1>1. Bad \subseteq FiniteSubsetsOf(S)
  BY FS_Subset DEF FiniteSubsetsOf
<1> HIDE DEF Bad
<1>2. PICK T \in Bad : \A U \in Bad : ~(<<U, T>> \in StrictSubsetOrdering(S))
  BY <1>1, WFMin, FS_StrictSubsetOrderingWellFounded
<1>3. \A U \in SUBSET T : U # T => U \in Good
  BY <1>2 DEF Bad, StrictSubsetOrdering
<1> QED BY <1>3 DEF Bad

(* The functions that the sum of the values of f over S is made of.        *)
Pick(s) == CHOOSE x \in s : TRUE

IsSum(g, f, S) ==
    g = [s \in SUBSET S |-> IF s = {} THEN 0 ELSE f[Pick(s)] + g[s \ {Pick(s)}]]

LEMMA SumIs ==
    ASSUME NEW f, NEW S
    PROVE  SumFunctionOnSet(f, S) = (CHOOSE g : IsSum(g, f, S))[S]
BY DEF SumFunctionOnSet, FoldFunctionOnSet, MapThenFoldSet, IsSum, Pick

LEMMA PickType ==
    ASSUME NEW s, s # {}
    PROVE  Pick(s) \in s
BY DEF Pick

(* They agree on the subsets they share.                                   *)
LEMMA SumIsUnique ==
    ASSUME NEW f, NEW S, IsFiniteSet(S), NEW T \in SUBSET S,
           NEW g, IsSum(g, f, S), NEW h, IsSum(h, f, T)
    PROVE  g[T] = h[T]
<1> DEFINE Good == {U \in SUBSET T : g[U] = h[U]}
<1>1. ASSUME NEW U \in SUBSET T, \A V \in SUBSET U : V # U => V \in Good
      PROVE  U \in Good
  <2> DEFINE V == U \ {Pick(U)}
  <2>1. g[U] = IF U = {} THEN 0 ELSE f[Pick(U)] + g[V]
    BY DEF IsSum
  <2>2. h[U] = IF U = {} THEN 0 ELSE f[Pick(U)] + h[V]
    BY DEF IsSum
  <2>3. U # {} => g[V] = h[V]
    <3>1. U # {} => V \in SUBSET U /\ V # U
      BY PickType
    <3> QED BY <1>1, <3>1
  <2> QED BY <2>1, <2>2, <2>3
<1>2. IsFiniteSet(T)
  BY FS_Subset
<1> HIDE DEF Good
<1>3. T \in Good
  BY <1>1, <1>2, SubsetInduction
<1> QED BY <1>3 DEF Good

(* And there is one, which is put together from those for the subsets.     *)
LEMMA SumExists ==
    ASSUME NEW f, NEW S, IsFiniteSet(S)
    PROVE  \E g : IsSum(g, f, S)
<1> DEFINE Good == {T \in SUBSET S : \E g : IsSum(g, f, T)}
<1>1. ASSUME NEW T \in SUBSET S, \A U \in SUBSET T : U # T => U \in Good
      PROVE  T \in Good
  <2> DEFINE sum(U) == CHOOSE h : IsSum(h, f, U)
             g == [s \in SUBSET T |->
                      IF s = {} THEN 0 ELSE f[Pick(s)] + sum(s \ {Pick(s)})[s \ {Pick(s)}]]
  <2>1. \A U \in SUBSET T : U # T => IsSum(sum(U), f, U) /\ IsFiniteSet(U)
    BY <1>1, FS_Subset
  <2>2. ASSUME NEW U \in SUBSET T, U # T PROVE sum(U)[U] = g[U]
    <3> DEFINE V == U \ {Pick(U)}
    <3>1. CASE U = {}
      <4>1. IsSum(sum(U), f, U)
        BY <2>1, <2>2
      <4> HIDE DEF sum
      <4>2. sum(U)[U] = 0
        BY <3>1, <4>1 DEF IsSum
      <4>3. g[U] = 0
        BY <3>1
      <4> QED BY <4>2, <4>3
    <3>2. CASE U # {}
      <4>1. V \in SUBSET U /\ V # T
        BY <2>2
      <4>2. sum(U)[V] = sum(V)[V]
        BY <2>1, <2>2, <4>1, SumIsUnique
      <4>3. IsSum(sum(U), f, U)
        BY <2>1, <2>2
      <4> HIDE DEF sum
      <4>4. sum(U)[U] = f[Pick(U)] + sum(U)[V]
        BY <3>2, <4>3 DEF IsSum
      <4>5. g[U] = f[Pick(U)] + sum(V)[V]
        BY <3>2
      <4> QED BY <4>2, <4>4, <4>5
    <3> QED BY <3>1, <3>2
  <2>3. \A s \in SUBSET T : s # {} =>
           sum(s \ {Pick(s)})[s \ {Pick(s)}] = g[s \ {Pick(s)}]
    <3> SUFFICES ASSUME NEW s \in SUBSET T, s # {}
                 PROVE  sum(s \ {Pick(s)})[s \ {Pick(s)}] = g[s \ {Pick(s)}]
      OBVIOUS
    <3>1. s \ {Pick(s)} \in SUBSET T /\ s \ {Pick(s)} # T
      <4>1. Pick(s) \in s
        BY PickType
      <4> QED BY <4>1
    <3> HIDE DEF sum, g
    <3> QED BY <2>2, <3>1
  <2>4. IsSum(g, f, T)
    <3> HIDE DEF sum
    <3>1. \A s \in SUBSET T :
             g[s] = IF s = {} THEN 0 ELSE f[Pick(s)] + g[s \ {Pick(s)}]
      BY <2>3
    <3>2. g = [s \in SUBSET T |-> g[s]]
      OBVIOUS
    <3> HIDE DEF g
    <3> QED BY <3>1, <3>2 DEF IsSum
  <2> QED BY <2>4
<1> HIDE DEF Good
<1>2. S \in Good
  BY <1>1, SubsetInduction
<1> QED BY <1>2 DEF Good

(* So that a sum can be taken apart.                                       *)
LEMMA SumUnfold ==
    ASSUME NEW f, NEW S, IsFiniteSet(S)
    PROVE  SumFunctionOnSet(f, S) =
              IF S = {} THEN 0
              ELSE f[Pick(S)] + SumFunctionOnSet(f, S \ {Pick(S)})
<1> DEFINE sum(U) == CHOOSE h : IsSum(h, f, U)
           T == S \ {Pick(S)}
<1>1. IsSum(sum(S), f, S) /\ IsSum(sum(T), f, T)
  BY SumExists, FS_Subset
<1> HIDE DEF sum
<1>2. sum(S)[S] = IF S = {} THEN 0 ELSE f[Pick(S)] + sum(S)[T]
  BY <1>1 DEF IsSum
<1>3. sum(S)[T] = sum(T)[T]
  BY <1>1, SumIsUnique
<1>4. SumFunctionOnSet(f, S) = sum(S)[S] /\ SumFunctionOnSet(f, T) = sum(T)[T]
  BY SumIs DEF sum
<1> QED BY <1>2, <1>3, <1>4

(* The sum of integers is one.                                             *)
LEMMA SumType ==
    ASSUME NEW f, NEW S, IsFiniteSet(S), \A x \in S : f[x] \in Int
    PROVE  SumFunctionOnSet(f, S) \in Int
<1> DEFINE Good == {T \in SUBSET S : SumFunctionOnSet(f, T) \in Int}
<1>1. ASSUME NEW T \in SUBSET S, \A U \in SUBSET T : U # T => U \in Good
      PROVE  T \in Good
  <2>1. CASE T = {}
    <3>1. SumFunctionOnSet(f, {}) = 0
      BY SumUnfold, FS_EmptySet
    <3> QED BY <2>1, <3>1
  <2>2. CASE T # {}
    <3>1. Pick(T) \in T /\ IsFiniteSet(T)
      BY <2>2, PickType, FS_Subset
    <3>2. SumFunctionOnSet(f, T \ {Pick(T)}) \in Int
      BY <1>1, <3>1
    <3>3. SumFunctionOnSet(f, T) = f[Pick(T)] + SumFunctionOnSet(f, T \ {Pick(T)})
      BY <2>2, <3>1, SumUnfold
    <3> QED BY <3>1, <3>2, <3>3
  <2> QED BY <2>1, <2>2
<1> HIDE DEF Good
<1>2. S \in Good
  BY <1>1, SubsetInduction
<1> QED BY <1>2 DEF Good

(* The order in which the values are added does not matter.                *)
LEMMA SumRemove ==
    ASSUME NEW f, NEW S, IsFiniteSet(S), \A x \in S : f[x] \in Int, NEW y \in S
    PROVE  SumFunctionOnSet(f, S) = f[y] + SumFunctionOnSet(f, S \ {y})
<1> DEFINE sum(T) == SumFunctionOnSet(f, T)
           Good == {T \in SUBSET S : \A z \in T : sum(T) = f[z] + sum(T \ {z})}
<1>1. ASSUME NEW T \in SUBSET S, \A U \in SUBSET T : U # T => U \in Good
      PROVE  T \in Good
  <2> SUFFICES ASSUME NEW z \in T PROVE sum(T) = f[z] + sum(T \ {z})
    OBVIOUS
  <2> DEFINE x == Pick(T)
  <2>1. x \in T /\ IsFiniteSet(T)
    BY PickType, FS_Subset
  <2>2. sum(T) = f[x] + sum(T \ {x})
    BY <2>1, SumUnfold
  <2>3. CASE z # x
    <3>1. T \ {x} \in SUBSET T /\ T \ {x} # T /\ T \ {z} \in SUBSET T /\ T \ {z} # T
      BY <2>1
    <3>2. T \ {x} \in Good /\ T \ {z} \in Good
      BY <1>1, <3>1
    <3>3. sum(T \ {x}) = f[z] + sum((T \ {x}) \ {z})
      BY <2>3, <3>2
    <3>4. sum(T \ {z}) = f[x] + sum((T \ {z}) \ {x})
      BY <2>1, <2>3, <3>2
    <3>5. (T \ {x}) \ {z} = (T \ {z}) \ {x}
      OBVIOUS
    <3>6. sum((T \ {x}) \ {z}) \in Int
      <4>1. IsFiniteSet((T \ {x}) \ {z})
        BY <2>1, FS_Subset
      <4> QED BY <4>1, SumType
    <3>7. f[x] \in Int /\ f[z] \in Int
      BY <2>1
    <3>8. sum(T) = f[x] + (f[z] + sum((T \ {x}) \ {z}))
      BY <2>2, <3>3
    <3>9. f[z] + sum(T \ {z}) = f[z] + (f[x] + sum((T \ {x}) \ {z}))
      BY <3>4, <3>5
    <3> DEFINE rest == sum((T \ {x}) \ {z})
    <3> HIDE DEF sum, x, rest
    <3>10. rest \in Int /\ sum(T) = f[x] + (f[z] + rest)
           /\ f[z] + sum(T \ {z}) = f[z] + (f[x] + rest)
      BY <3>6, <3>8, <3>9 DEF rest
    <3>11. f[x] + (f[z] + rest) = f[z] + (f[x] + rest)
      BY <3>7, <3>10
    <3> QED BY <3>10, <3>11
  <2> QED BY <2>2, <2>3
<1>2. S \in Good
  <2> HIDE DEF Good
  <2> QED BY <1>1, SubsetInduction
<1> QED BY <1>2

(* A sum is no larger than one of larger values over more elements.        *)
LEMMA SumGrows ==
    ASSUME NEW f, NEW S, NEW g, NEW P, IsFiniteSet(P), S \subseteq P,
           \A x \in P : g[x] \in Int,
           \A x \in S : f[x] \in Int /\ f[x] <= g[x],
           \A x \in P \ S : g[x] >= 0
    PROVE  SumFunctionOnSet(f, S) <= SumFunctionOnSet(g, P)
<1> DEFINE F(T) == SumFunctionOnSet(f, T)
           G(T) == SumFunctionOnSet(g, T)
           Good == {T \in SUBSET P : F(S \cap T) <= G(T)}
<1>0. \A T \in SUBSET P : IsFiniteSet(T) /\ G(T) \in Int
                          /\ IsFiniteSet(S \cap T) /\ F(S \cap T) \in Int
  <2> SUFFICES ASSUME NEW T \in SUBSET P
               PROVE IsFiniteSet(T) /\ G(T) \in Int
                     /\ IsFiniteSet(S \cap T) /\ F(S \cap T) \in Int
    OBVIOUS
  <2>1. IsFiniteSet(T)
    BY FS_Subset
  <2>2. IsFiniteSet(S \cap T)
    BY <2>1, FS_Subset
  <2> QED BY <2>1, <2>2, SumType
<1>1. ASSUME NEW T \in SUBSET P, \A U \in SUBSET T : U # T => U \in Good
      PROVE  T \in Good
  <2>1. CASE T = {}
    <3>1. G({}) = 0 /\ F({}) = 0
      BY SumUnfold, FS_EmptySet
    <3>2. S \cap T = {}
      BY <2>1
    <3> HIDE DEF F, G
    <3> QED BY <2>1, <3>1, <3>2
  <2>2. CASE T # {}
    <3>1. PICK x \in T : TRUE
      BY <2>2
    <3> DEFINE U == T \ {x}
    <3>2. U \in SUBSET P /\ U \in Good
      BY <1>1, <3>1
    <3>3. G(T) = g[x] + G(U)
      <4>1. IsFiniteSet(T) /\ x \in T /\ \A z \in T : g[z] \in Int
        BY <1>0, <3>1
      <4> QED BY <4>1, SumRemove
    <3>4. F(S \cap U) <= G(U) /\ F(S \cap U) \in Int /\ G(U) \in Int
      BY <1>0, <3>2
    <3>5. CASE x \in S
      <4>1. (S \cap T) \ {x} = S \cap U
        OBVIOUS
      <4>2. F(S \cap T) = f[x] + F((S \cap T) \ {x})
        BY <1>0, <3>1, <3>5, SumRemove
      <4>3. F(S \cap T) = f[x] + F(S \cap U)
        BY <4>1, <4>2
      <4>4. f[x] \in Int /\ g[x] \in Int /\ f[x] <= g[x]
        BY <3>5
      <4> HIDE DEF F, G, U
      <4>5. F(S \cap T) <= G(T)
        BY <3>3, <3>4, <4>3, <4>4
      <4> QED BY <4>5
    <3>6. CASE x \notin S
      <4>1. S \cap T = S \cap U
        BY <3>6
      <4>2. g[x] \in Int /\ g[x] >= 0
        BY <3>1, <3>6
      <4> HIDE DEF F, G, U
      <4>3. F(S \cap T) <= G(T)
        BY <3>3, <3>4, <4>1, <4>2
      <4> QED BY <4>3
    <3> QED BY <3>5, <3>6
  <2> QED BY <2>1, <2>2
<1> HIDE DEF Good
<1>2. P \in Good
  BY <1>1, SubsetInduction
<1>3. S \cap P = S
  OBVIOUS
<1> QED BY <1>2, <1>3 DEF Good

(* One value that grows by at most one.                                    *)
LEMMA SumOneMore ==
    ASSUME NEW f, NEW g, NEW S, IsFiniteSet(S), NEW p \in S,
           \A x \in S : f[x] \in Int /\ g[x] \in Int,
           \A x \in S \ {p} : g[x] <= f[x],
           g[p] <= f[p] + 1
    PROVE  SumFunctionOnSet(g, S) <= SumFunctionOnSet(f, S) + 1
<1> DEFINE R == S \ {p}
<1>1. IsFiniteSet(R)
  BY FS_Subset
<1>2. SumFunctionOnSet(g, S) = g[p] + SumFunctionOnSet(g, R)
  BY SumRemove
<1>3. SumFunctionOnSet(f, S) = f[p] + SumFunctionOnSet(f, R)
  BY SumRemove
<1>4. SumFunctionOnSet(g, R) <= SumFunctionOnSet(f, R)
  BY <1>1, SumGrows
<1>5. SumFunctionOnSet(g, R) \in Int /\ SumFunctionOnSet(f, R) \in Int
  BY <1>1, SumType
<1> HIDE DEF R
<1> QED BY <1>2, <1>3, <1>4, <1>5

(* The sum of zeros.                                                       *)
LEMMA SumOfNone ==
    ASSUME NEW f, NEW S, IsFiniteSet(S), \A x \in S : f[x] = 0
    PROVE  SumFunctionOnSet(f, S) = 0
<1> DEFINE Good == {T \in SUBSET S : SumFunctionOnSet(f, T) = 0}
<1>1. ASSUME NEW T \in SUBSET S, \A U \in SUBSET T : U # T => U \in Good
      PROVE  T \in Good
  <2>1. IsFiniteSet(T)
    BY FS_Subset
  <2>2. CASE T = {}
    BY <2>1, <2>2, SumUnfold
  <2>3. CASE T # {}
    <3>1. Pick(T) \in T
      BY <2>3, PickType
    <3>2. SumFunctionOnSet(f, T \ {Pick(T)}) = 0
      BY <1>1, <3>1
    <3> QED BY <2>1, <2>3, <3>1, <3>2, SumUnfold
  <2> QED BY <2>2, <2>3
<1> HIDE DEF Good
<1>2. S \in Good
  BY <1>1, SubsetInduction
<1> QED BY <1>2 DEF Good

(* A sum of natural numbers is one.                                        *)
LEMMA SumOfNaturals ==
    ASSUME NEW f, NEW S, IsFiniteSet(S), \A x \in S : f[x] \in Nat
    PROVE  SumFunctionOnSet(f, S) \in Nat
<1>1. SumFunctionOnSet(f, {}) = 0
  BY SumUnfold, FS_EmptySet
<1>2. SumFunctionOnSet(f, {}) <= SumFunctionOnSet(f, S)
  BY SumGrows
<1>3. SumFunctionOnSet(f, S) \in Int
  BY SumType
<1> QED BY <1>1, <1>2, <1>3

(* A sum is no larger than one over other elements, each of which is paid  *)
(* for by at most one of its own.                                          *)
LEMMA SumMapped ==
    ASSUME NEW f, NEW S, NEW g, NEW P, IsFiniteSet(P), NEW h \in [S -> P],
           \A x, y \in S : h[x] = h[y] => x = y,
           \A x \in P : g[x] \in Nat,
           \A x \in S : f[x] \in Int /\ f[x] <= g[h[x]]
    PROVE  SumFunctionOnSet(f, S) <= SumFunctionOnSet(g, P)
<1> DEFINE Image(T) == {h[x] : x \in T}
           F(T) == SumFunctionOnSet(f, T)
           G(T) == SumFunctionOnSet(g, T)
           Good == {T \in SUBSET S : F(T) <= G(Image(T))}
<1>1. IsFiniteSet(S)
  <2>1. h \in Injection(S, P)
    BY DEF Injection, IsInjective
  <2> QED BY <2>1, FS_Injection
<1>2. \A T \in SUBSET S : IsFiniteSet(T) /\ F(T) \in Int
  BY <1>1, FS_Subset, SumType
<1>3. \A Q \in SUBSET P : IsFiniteSet(Q) /\ G(Q) \in Int
  BY FS_Subset, SumType
<1>4. ASSUME NEW T \in SUBSET S, \A U \in SUBSET T : U # T => U \in Good
      PROVE  T \in Good
  <2>0. Image(T) \in SUBSET P
    OBVIOUS
  <2>1. CASE T = {}
    <3>1. F({}) = 0 /\ G({}) = 0
      BY SumUnfold, FS_EmptySet
    <3>2. Image(T) = {}
      BY <2>1
    <3> HIDE DEF F, G, Image
    <3> QED BY <2>1, <3>1, <3>2
  <2>2. CASE T # {}
    <3>1. PICK x \in T : TRUE
      BY <2>2
    <3> DEFINE U == T \ {x}
    <3>2. F(U) <= G(Image(U)) /\ F(U) \in Int
      BY <1>2, <1>4, <3>1
    <3>3. F(T) = f[x] + F(U)
      BY <1>2, <3>1, SumRemove
    <3>4. Image(U) = Image(T) \ {h[x]} /\ h[x] \in Image(T)
      OBVIOUS
    <3>5. G(Image(T)) = g[h[x]] + G(Image(U))
      <4>1. G(Image(T)) = g[h[x]] + G(Image(T) \ {h[x]})
        BY <1>3, <2>0, <3>4, SumRemove
      <4> HIDE DEF G, Image
      <4> QED BY <4>1, <3>4
    <3>6. G(Image(U)) \in Int /\ f[x] \in Int /\ g[h[x]] \in Int /\ f[x] <= g[h[x]]
      <4>1. Image(U) \in SUBSET P /\ h[x] \in P
        BY <3>1
      <4> HIDE DEF G, Image
      <4> QED BY <1>3, <4>1
    <3> HIDE DEF F, G, Image, U
    <3>7. F(T) <= G(Image(T))
      BY <3>2, <3>3, <3>5, <3>6
    <3> QED BY <3>7
  <2> QED BY <2>1, <2>2
<1>5. S \in Good
  <2> HIDE DEF Good
  <2> QED BY <1>1, <1>4, SubsetInduction
<1>6. G(Image(S)) <= G(P)
  <2>1. Image(S) \subseteq P
    OBVIOUS
  <2> HIDE DEF Image
  <2> QED BY <2>1, SumGrows
<1>7. F(S) \in Int /\ G(Image(S)) \in Int /\ G(P) \in Int
  <2>1. Image(S) \in SUBSET P
    OBVIOUS
  <2> HIDE DEF Image, F, G
  <2> QED BY <1>2, <1>3, <2>1
<1>8. F(S) <= G(Image(S))
  BY <1>5
<1> HIDE DEF Image, F, G
<1>9. F(S) <= G(P)
  BY <1>6, <1>7, <1>8
<1> QED BY <1>9 DEF F, G

(* A sum is that over a part and that over the rest.                       *)
LEMMA SumSplit ==
    ASSUME NEW f, NEW S, IsFiniteSet(S), \A x \in S : f[x] \in Int, NEW P \in SUBSET S
    PROVE  SumFunctionOnSet(f, S) = SumFunctionOnSet(f, P) + SumFunctionOnSet(f, S \ P)
<1> DEFINE F(T) == SumFunctionOnSet(f, T)
           Good == {T \in SUBSET P : F(S) = F(T) + F(S \ T)}
<1>0. \A T \in SUBSET S : IsFiniteSet(T) /\ F(T) \in Int
  BY FS_Subset, SumType
<1>1. ASSUME NEW T \in SUBSET P, \A U \in SUBSET T : U # T => U \in Good
      PROVE  T \in Good
  <2>1. CASE T = {}
    <3>1. F({}) = 0 /\ F(S) \in Int
      BY <1>0, SumUnfold, FS_EmptySet
    <3>2. S \ T = S
      BY <2>1
    <3> HIDE DEF F
    <3> QED BY <2>1, <3>1, <3>2
  <2>2. CASE T # {}
    <3>1. PICK x \in T : TRUE
      BY <2>2
    <3> DEFINE U == T \ {x}
    <3>2. F(S) = F(U) + F(S \ U)
      BY <1>1, <3>1
    <3>3. F(T) = f[x] + F(U)
      BY <1>0, <3>1, SumRemove
    <3>4. F(S \ U) = f[x] + F(S \ T)
      <4>1. (S \ U) \ {x} = S \ T /\ x \in S \ U /\ S \ U \in SUBSET S
        BY <3>1
      <4>2. F(S \ U) = f[x] + F((S \ U) \ {x})
        BY <1>0, <4>1, SumRemove
      <4> QED BY <4>1, <4>2
    <3>5. /\ f[x] \in Int /\ F(S) \in Int /\ F(T) \in Int /\ F(U) \in Int
          /\ F(S \ T) \in Int /\ F(S \ U) \in Int
      <4>1. U \in SUBSET S /\ T \in SUBSET S /\ S \ T \in SUBSET S /\ S \ U \in SUBSET S
            /\ x \in S
        BY <3>1
      <4> QED BY <1>0, <4>1
    <3> HIDE DEF F, U
    <3>6. F(S) = F(T) + F(S \ T)
      BY <3>2, <3>3, <3>4, <3>5
    <3> QED BY <3>6
  <2> QED BY <2>1, <2>2
<1> HIDE DEF Good
<1>2. P \in Good
  <2>1. IsFiniteSet(P)
    BY FS_Subset
  <2> QED BY <1>1, <2>1, SubsetInduction
<1> QED BY <1>2 DEF Good

(* The sizes of sets that have nothing in common, and that of their union. *)
LEMMA SumOfSizes ==
    ASSUME NEW S, IsFiniteSet(S), NEW B, NEW f,
           \A x \in S : IsFiniteSet(B[x]) /\ f[x] = Cardinality(B[x]),
           \A x, y \in S : x # y => B[x] \cap B[y] = {},
           NEW U, \A x \in S : B[x] \subseteq U, \A d \in U : \E x \in S : d \in B[x]
    PROVE  IsFiniteSet(U) /\ SumFunctionOnSet(f, S) = Cardinality(U)
<1> DEFINE All(T) == UNION {B[x] : x \in T}
           F(T) == SumFunctionOnSet(f, T)
           Good == {T \in SUBSET S : IsFiniteSet(All(T)) /\ F(T) = Cardinality(All(T))}
<1>1. \A x \in S : f[x] \in Int
  BY FS_CardinalityType
<1>2. ASSUME NEW T \in SUBSET S, \A R \in SUBSET T : R # T => R \in Good
      PROVE  T \in Good
  <2>1. CASE T = {}
    <3>1. F({}) = 0
      BY SumUnfold, FS_EmptySet
    <3>2. All(T) = {}
      BY <2>1
    <3> HIDE DEF F, All
    <3> QED BY <2>1, <3>1, <3>2, FS_EmptySet
  <2>2. CASE T # {}
    <3>1. PICK x \in T : TRUE
      BY <2>2
    <3> DEFINE R == T \ {x}
    <3>2. IsFiniteSet(All(R)) /\ F(R) = Cardinality(All(R))
      BY <1>2, <3>1
    <3>3. F(T) = f[x] + F(R)
      <4>1. IsFiniteSet(T)
        BY FS_Subset
      <4> QED BY <1>1, <3>1, <4>1, SumRemove
    <3>4. All(T) = B[x] \cup All(R)
      BY <3>1
    <3>5. B[x] \cap All(R) = {}
      BY <3>1
    <3>6. IsFiniteSet(B[x]) /\ f[x] = Cardinality(B[x])
      BY <3>1
    <3> HIDE DEF All, F, R
    <3>7. IsFiniteSet(All(T))
          /\ Cardinality(All(T)) = Cardinality(B[x]) + Cardinality(All(R)) - Cardinality({})
      BY <3>2, <3>4, <3>5, <3>6, FS_Union
    <3>8. Cardinality({}) = 0 /\ Cardinality(B[x]) \in Nat /\ Cardinality(All(R)) \in Nat
      BY <3>2, <3>6, FS_EmptySet, FS_CardinalityType
    <3> QED BY <3>2, <3>3, <3>6, <3>7, <3>8
  <2> QED BY <2>1, <2>2
<1>3. S \in Good
  <2> HIDE DEF Good
  <2> QED BY <1>2, SubsetInduction
<1>4. All(S) = U
  OBVIOUS
<1> HIDE DEF All
<1> QED BY <1>3, <1>4

(* Of natural numbers there is a least, and of finitely many a largest.    *)
LEMMA LeastExists ==
    ASSUME NEW S \in SUBSET Nat, S # {}
    PROVE  \E m \in S : \A n \in S : m <= n
<1>1. PICK m \in S : \A n \in S : ~(<<n, m>> \in OpToRel(<, Nat))
  BY WFMin, NatLessThanWellFounded
<1>2. ASSUME NEW n \in S PROVE ~(n < m)
  <2> DEFINE R == OpToRel(<, Nat)
  <2>1. R = {ss \in Nat \X Nat : ss[1] < ss[2]}
    BY DEF OpToRel
  <2> HIDE DEF R
  <2>2. <<n, m>> \notin R
    BY <1>1 DEF R
  <2> QED BY <2>1, <2>2
<1> QED BY <1>2

LEMMA LargestIs ==
    ASSUME NEW S \in SUBSET Nat, IsFiniteSet(S), S # {}
    PROVE  Largest(S) \in S /\ \A n \in S : n <= Largest(S)
<1> DEFINE Has(T) == \E m \in T : \A n \in T : n <= m
           Good == {T \in SUBSET S : T = {} \/ Has(T)}
<1>1. ASSUME NEW T \in SUBSET S, \A U \in SUBSET T : U # T => U \in Good
      PROVE  T \in Good
  <2> SUFFICES ASSUME T # {} PROVE Has(T)
    OBVIOUS
  <2>1. PICK x \in T : TRUE
    OBVIOUS
  <2>2. T \ {x} = {} \/ Has(T \ {x})
    <3> DEFINE U == T \ {x}
    <3>1. U \in SUBSET T /\ U # T
      BY <2>1
    <3> HIDE DEF U
    <3>2. U \in Good
      BY <1>1, <3>1
    <3>3. U = {} \/ Has(U)
      BY <3>2
    <3> QED BY <3>3 DEF U
  <2>3. CASE T \ {x} = {}
    <3>1. x \in Nat /\ \A n \in T : n = x
      BY <2>1, <2>3
    <3> QED BY <2>1, <3>1
  <2>4. CASE Has(T \ {x})
    <3>1. PICK m \in T \ {x} : \A n \in T \ {x} : n <= m
      BY <2>4
    <3>2. x \in Nat /\ m \in Nat /\ \A n \in T : n \in Nat
      BY <2>1, <3>1
    <3>3. CASE x <= m
      BY <3>1, <3>2, <3>3
    <3>4. CASE m <= x
      <4>1. \A n \in T : n <= x
        BY <3>1, <3>2, <3>4
      <4> QED BY <2>1, <4>1
    <3> QED BY <3>2, <3>3, <3>4
  <2> QED BY <2>2, <2>3, <2>4
<1>2. S \in Good
  <2> HIDE DEF Good
  <2> QED BY <1>1, SubsetInduction
<1> QED BY <1>2 DEF Largest

-----------------------------------------------------------------------------
(***************************************************************************)
(* ProcessRates                                                            *)
(***************************************************************************)

(* What the worker has read of a process.                                  *)
Sample == [ticks : Ticks, start : 0 .. MaxStarts, since : Ticks \cup {Unread}]

(* Functions from some of the pids.                                        *)
Table(T) == UNION {[S -> T] : S \in SUBSET Pids}

(* Between rounds the tables of a round are empty, and no process has more *)
(* ticks than the total ever counted.                                      *)
TablesOK ==
    /\ raw \in Table(Sample) /\ prevProcs \in Table(Sample)
    /\ phase # "reading" => DOMAIN raw = {}
    /\ \A p \in Pids : process[p].ticks <= total + dips

(* The last reading of a process that is still alive is in the newest of   *)
(* the tables that can have it, and the ticks it got since are the         *)
(* difference to its counter.  Under the pid of a process that is Unread   *)
(* the tables have at most an older one.                                   *)
ReadingOf(p) ==
    /\ p \in DOMAIN raw =>
          /\ raw[p].start <= process[p].start
          /\ since[p] = Unread => raw[p].start # process[p].start
    /\ p \in DOMAIN prevProcs =>
          /\ prevProcs[p].start <= process[p].start
          /\ since[p] = Unread => prevProcs[p].start # process[p].start
    /\ since[p] # Unread /\ process[p].alive =>
          /\ p \in DOMAIN raw \cup DOMAIN prevProcs
          /\ LET last == IF p \in DOMAIN raw THEN raw[p] ELSE prevProcs[p]
             IN  /\ last.start = process[p].start
                 /\ process[p].ticks = last.ticks + since[p]

(* What a round has read continues the stored sample of the same process,  *)
(* or there is none.                                                       *)
PairOf(p) ==
    p \in DOMAIN raw =>
        /\ raw[p].since = Unread /\ p \in DOMAIN prevProcs =>
              prevProcs[p].start # raw[p].start
        /\ raw[p].since # Unread =>
              /\ p \in DOMAIN prevProcs
              /\ prevProcs[p].start = raw[p].start
              /\ raw[p].ticks = prevProcs[p].ticks + raw[p].since

SamplesOK == \A p \in Pids : ReadingOf(p) /\ PairOf(p)

IndInv == TypeOK /\ TablesOK /\ SamplesOK

Ticked(n) == IF n = Unread THEN 0 ELSE n

(* The ticks that were read, and will be compared with the stored total,   *)
(* or that will be, when the process is read next.                         *)
Owed ==
    [p \in Pids |-> IF p \in DOMAIN raw THEN Ticked(raw[p].since)
                    ELSE IF p \in DOMAIN prevProcs THEN Ticked(since[p]) ELSE 0]

(* Those that will be compared with the total of this round.               *)
Fresh == [p \in Pids |-> IF p \in DOMAIN raw THEN Ticked(since[p]) ELSE 0]

(* Both are ticks of the time since the total was read that they will be   *)
(* compared with, which cannot be more than the total counted since then   *)
(* and took back.                                                          *)
SumsOK ==
    /\ SumFunctionOnSet(Owed, Pids) <= total - prevProcCPU + dips
    /\ phase # "idle" => SumFunctionOnSet(Fresh, Pids) <= total - totalCPU + dips

-----------------------------------------------------------------------------
(* The operators.                                                          *)

LEMMA MinusExact ==
    ASSUME NEW a \in Nat, NEW b \in Nat, b <= a, a <= MaxTicks + MaxDips
    PROVE  Minus(a, b) = a - b
<1>1. a - b \in 0 .. Word - 1
  BY BoundsAssumption, WordAssumption
<1> QED BY <1>1, WordAssumption DEF Minus

LEMMA TotalDeltaValue ==
    ASSUME NEW current \in Counter, NEW old \in Counter
    PROVE  TotalDelta(current, old) = IF current >= old THEN current - old ELSE 0
<1> USE BoundsAssumption DEF Counter
<1>1. CASE current >= old
  <2>1. Minus(current, old) = current - old
    BY <1>1, MinusExact
  <2> QED BY <1>1, <2>1 DEF TotalDelta
<1>2. CASE ~(current >= old)
  BY <1>2 DEF TotalDelta
<1> QED BY <1>1, <1>2

LEMMA TableType ==
    ASSUME NEW T, NEW m
    PROVE  m \in Table(T) <=>
              /\ DOMAIN m \subseteq Pids
              /\ m = [p \in DOMAIN m |-> m[p]]
              /\ \A p \in DOMAIN m : m[p] \in T
BY DEF Table

(* What the tables hold of a process.                                      *)
LEMMA SampleValues ==
    ASSUME NEW m \in Table(Sample), NEW p \in DOMAIN m
    PROVE  /\ m[p] \in Sample
           /\ m[p].ticks \in Nat /\ m[p].start \in Nat
           /\ m[p].since = Unread \/ m[p].since \in Ticks
<1>1. m[p] \in Sample
  BY TableType
<1> QED BY <1>1, BoundsAssumption DEF Sample, Ticks

LEMMA EmptyTable ==
    ASSUME NEW T
    PROVE  Nobody \in Table(T) /\ DOMAIN Nobody = {}
BY TableType DEF Nobody

-----------------------------------------------------------------------------
LEMMA InitIndInv == Init => IndInv
<1> SUFFICES ASSUME Init PROVE IndInv
  OBVIOUS
<1> USE BoundsAssumption DEF Init
<1>1. DOMAIN raw = {} /\ DOMAIN prevProcs = {} /\ DOMAIN processes.used = {}
  <2>1. DOMAIN Nobody = {}
    BY DEF Nobody
  <2>2. processes.used = Nobody
    BY DEF NoResult
  <2> QED BY <2>1, <2>2
<1>2. TypeOK
  <2>1. process \in [Pids -> [alive : BOOLEAN, start : 0 .. MaxStarts, ticks : Ticks]]
    BY DEF Ticks
  <2>2. since \in [Pids -> Ticks \cup {Unread}]
    OBVIOUS
  <2>3. total \in Counter /\ totalCPU \in Counter /\ prevProcCPU \in Counter
        /\ processes.of \in Counter /\ dips \in 0 .. MaxDips
    BY DEF Counter, NoResult
  <2> QED BY <1>1, <2>1, <2>2, <2>3 DEF TypeOK
<1>3. TablesOK
  BY <1>1, EmptyTable DEF TablesOK
<1>4. SamplesOK
  BY <1>1 DEF SamplesOK, ReadingOf, PairOf, Unread
<1> QED BY <1>2, <1>3, <1>4 DEF IndInv

(* The total moves under the worker.                                       *)
LEMMA TotalStep ==
    ASSUME IndInv, OtherTick \/ Dip
    PROVE  IndInv'
<1> USE BoundsAssumption DEF IndInv
<1>1. UNCHANGED <<process, since, localVars, storedVars>>
  BY DEF OtherTick, Dip
<1>2. /\ total' \in Counter /\ dips' \in 0 .. MaxDips
      /\ \/ total' = total + 1 /\ dips' = dips
         \/ total' = total - 1 /\ dips' = dips + 1
  BY DEF OtherTick, Dip, TypeOK, Counter
<1>3. TypeOK'
  BY <1>1, <1>2 DEF TypeOK, localVars, storedVars
<1>4. TablesOK'
  <2>1. ASSUME NEW q \in Pids PROVE process[q].ticks <= total' + dips'
    <3>1. process[q].ticks \in Nat /\ total \in Nat /\ dips \in Nat
      BY DEF TypeOK, Counter, Ticks
    <3>2. process[q].ticks <= total + dips
      BY DEF TablesOK
    <3> QED BY <1>2, <3>1, <3>2 DEF Counter
  <2> QED BY <1>1, <2>1 DEF TablesOK, localVars, storedVars
<1>5. SamplesOK'
  BY <1>1 DEF SamplesOK, ReadingOf, PairOf, localVars, storedVars
<1> QED BY <1>3, <1>4, <1>5

(* A process moves under the worker: its counter and what it got since its *)
(* last reading move together, and a pid is used again only by a younger   *)
(* process.                                                                *)
LEMMA ProcessStep ==
    ASSUME IndInv, NEW p \in Pids, BusyTick(p) \/ Fork(p) \/ Exit(p)
    PROVE  IndInv'
<1> USE BoundsAssumption DEF IndInv
<1>1. UNCHANGED <<localVars, storedVars>>
  BY DEF BusyTick, Fork, Exit
<1>2. CASE BusyTick(p)
  <2>1. /\ total' = total + 1 /\ total < MaxTicks /\ dips' = dips
        /\ process' = [process EXCEPT ![p].ticks = process[p].ticks + 1]
        /\ since' = [since EXCEPT ![p] = IF since[p] = Unread THEN since[p] ELSE since[p] + 1]
        /\ total \in Nat /\ dips \in 0 .. MaxDips
    BY <1>2 DEF BusyTick, TypeOK, Counter
  <2>2. process[p].ticks \in 0 .. total + dips
    BY <2>1 DEF TypeOK, TablesOK, Ticks
  <2>3. since[p] # Unread => since[p] <= process[p].ticks
    <3>1. p \in DOMAIN raw => raw[p].ticks \in Nat
      BY SampleValues DEF TablesOK
    <3>2. p \in DOMAIN prevProcs => prevProcs[p].ticks \in Nat
      BY SampleValues DEF TablesOK
    <3> QED BY <1>2, <2>2, <3>1, <3>2 DEF BusyTick, SamplesOK, ReadingOf, TypeOK, Ticks
  <2>4. TypeOK'
    <3>1. process' \in [Pids -> [alive : BOOLEAN, start : 0 .. MaxStarts, ticks : Ticks]]
      BY <2>1, <2>2 DEF TypeOK, Ticks
    <3>2. since' \in [Pids -> Ticks \cup {Unread}]
      BY <2>1, <2>2, <2>3 DEF TypeOK, Ticks
    <3> QED BY <1>1, <2>1, <3>1, <3>2 DEF TypeOK, Counter, localVars, storedVars
  <2>5. TablesOK'
    BY <1>1, <2>1 DEF TablesOK, TypeOK, Ticks, localVars, storedVars
  <2>6. SamplesOK'
    <3>1. \A q \in Pids : process'[q].start = process[q].start
                          /\ process'[q].alive = process[q].alive
                          /\ (since'[q] = Unread <=> since[q] = Unread)
      BY <2>1 DEF TypeOK, Ticks, Unread
    <3>2. \A q \in Pids : since[q] # Unread =>
             process'[q].ticks - since'[q] = process[q].ticks - since[q]
      BY <2>1 DEF TypeOK, Ticks
    <3>3. ASSUME NEW q \in Pids PROVE (ReadingOf(q) /\ PairOf(q))'
      <4>1. /\ q \in DOMAIN raw => raw[q].ticks \in Nat
            /\ q \in DOMAIN prevProcs => prevProcs[q].ticks \in Nat
        BY SampleValues DEF TablesOK
      <4>2. /\ since[q] # Unread => since[q] \in Nat /\ since'[q] \in Nat
            /\ process[q].ticks \in Nat /\ process'[q].ticks \in Nat
        BY <2>4, <3>1 DEF TypeOK, Ticks
      <4>3. ReadingOf(q) /\ PairOf(q)
        BY DEF SamplesOK
      <4> QED BY <1>1, <3>1, <3>2, <4>1, <4>2, <4>3
              DEF ReadingOf, PairOf, localVars, storedVars
    <3> QED BY <3>3 DEF SamplesOK
  <2> QED BY <2>4, <2>5, <2>6
<1>3. CASE Fork(p)
  <2>1. /\ UNCHANGED <<total, dips>>
        /\ process' = [process EXCEPT ![p] =
              [alive |-> TRUE, start |-> process[p].start + 1, ticks |-> 0]]
        /\ since' = [since EXCEPT ![p] = Unread]
        /\ process[p].start \in 0 .. MaxStarts - 1
    BY <1>3 DEF Fork, TypeOK
  <2>2. TypeOK'
    <3>1. process' \in [Pids -> [alive : BOOLEAN, start : 0 .. MaxStarts, ticks : Ticks]]
      BY <2>1 DEF TypeOK, Ticks
    <3> QED BY <1>1, <2>1, <3>1 DEF TypeOK, localVars, storedVars
  <2>3. TablesOK'
    BY <1>1, <2>1 DEF TablesOK, TypeOK, Counter, Ticks, localVars, storedVars
  <2>4. ASSUME NEW q \in Pids PROVE (ReadingOf(q) /\ PairOf(q))'
    <3>1. CASE q = p
      <4>1. p \in DOMAIN raw => raw[p].start \in 0 .. process[p].start
        BY SampleValues DEF TablesOK, TypeOK, SamplesOK, ReadingOf
      <4>2. p \in DOMAIN prevProcs => prevProcs[p].start \in 0 .. process[p].start
        BY SampleValues DEF TablesOK, TypeOK, SamplesOK, ReadingOf
      <4>3. since'[p] = Unread /\ process'[p].start = process[p].start + 1
        BY <2>1 DEF TypeOK
      <4>4. PairOf(p)'
        BY <1>1 DEF SamplesOK, PairOf, localVars, storedVars
      <4> QED BY <1>1, <2>1, <3>1, <4>1, <4>2, <4>3, <4>4
              DEF ReadingOf, localVars, storedVars
    <3>2. CASE q # p
      <4>1. process'[q] = process[q] /\ since'[q] = since[q]
        BY <2>1, <3>2 DEF TypeOK
      <4> QED BY <1>1, <4>1 DEF SamplesOK, ReadingOf, PairOf, localVars, storedVars
    <3> QED BY <3>1, <3>2
  <2> QED BY <2>2, <2>3, <2>4 DEF SamplesOK
<1>4. CASE Exit(p)
  <2>1. /\ UNCHANGED <<total, dips, since>>
        /\ process' = [process EXCEPT ![p].alive = FALSE]
    BY <1>4 DEF Exit
  <2>2. \A q \in Pids : process'[q].start = process[q].start
                        /\ process'[q].ticks = process[q].ticks
                        /\ (process'[q].alive => process[q].alive)
    BY <2>1 DEF TypeOK
  <2>3. process' \in [Pids -> [alive : BOOLEAN, start : 0 .. MaxStarts, ticks : Ticks]]
    BY <2>1 DEF TypeOK
  <2>4. TypeOK'
    BY <1>1, <2>1, <2>3 DEF TypeOK, localVars, storedVars
  <2>5. TablesOK'
    BY <1>1, <2>1, <2>2 DEF TablesOK, localVars, storedVars
  <2>6. SamplesOK'
    BY <1>1, <2>1, <2>2 DEF SamplesOK, ReadingOf, PairOf, localVars, storedVars
  <2> QED BY <2>4, <2>5, <2>6
<1> QED BY <1>2, <1>3, <1>4

-----------------------------------------------------------------------------
LEMMA ReadTotalStep ==
    ASSUME IndInv, ReadTotal \/ Unreadable
    PROVE  IndInv'
<1> USE BoundsAssumption DEF IndInv
<1>1. /\ UNCHANGED <<kernelVars, since, left, raw, prevProcCPU, prevProcs>>
      /\ phase \in {"idle", "listing"} /\ phase' \in {"idle", "listing"}
  BY DEF ReadTotal, Unreadable, storedVars
<1>2. totalCPU' \in Counter
  BY DEF ReadTotal, Unreadable, TypeOK, Counter
<1>3. DOMAIN processes'.used \subseteq Pids /\ processes'.of \in Counter
  BY DEF ReadTotal, Unreadable, TypeOK, Counter, NoResult, Nobody, storedVars
<1>4. TypeOK'
  BY <1>1, <1>2, <1>3 DEF TypeOK, kernelVars
<1>5. TablesOK' /\ SamplesOK'
  BY <1>1 DEF TablesOK, SamplesOK, ReadingOf, PairOf, kernelVars
<1> QED BY <1>4, <1>5

LEMMA ReadDirStep ==
    ASSUME IndInv, ReadDir
    PROVE  IndInv'
<1> USE DEF IndInv
<1>1. /\ UNCHANGED <<kernelVars, since, totalCPU, storedVars>>
      /\ phase = "listing" /\ phase' = "reading"
      /\ left' = {p \in Pids : process[p].alive}
      /\ raw' = Nobody /\ DOMAIN raw' = {} /\ DOMAIN raw = {}
  BY EmptyTable DEF ReadDir, TablesOK
<1>2. TypeOK'
  BY <1>1 DEF TypeOK, kernelVars, storedVars
<1>3. TablesOK'
  BY <1>1, EmptyTable DEF TablesOK, kernelVars, storedVars
<1>4. SamplesOK'
  BY <1>1 DEF SamplesOK, ReadingOf, PairOf, kernelVars, storedVars
<1> QED BY <1>2, <1>3, <1>4

(* A process that is read continues the stored sample, if it has one; from *)
(* now on its ticks are counted from this reading.                         *)
LEMMA ReadProcessStep ==
    ASSUME IndInv, NEW p \in Pids, ReadProcess(p)
    PROVE  IndInv'
<1> USE BoundsAssumption DEF IndInv
<1>1. /\ UNCHANGED <<kernelVars, phase, totalCPU, storedVars>>
      /\ phase = "reading" /\ p \in left /\ left' = left \ {p}
      /\ p \notin DOMAIN raw
  BY DEF ReadProcess, TypeOK
<1> DEFINE item == [ticks |-> process[p].ticks, start |-> process[p].start,
                    since |-> since[p]]
           Reads == /\ process[p].alive
                    /\ raw' = [q \in DOMAIN raw \cup {p} |-> IF q # p THEN raw[q] ELSE item]
                    /\ since' = [since EXCEPT ![p] = 0]
<1>0. Reads \/ UNCHANGED <<raw, since>>
  BY DEF ReadProcess
<1>2. CASE UNCHANGED <<raw, since>>
  <2>2. TypeOK'
    BY <1>1, <1>2 DEF TypeOK, kernelVars, storedVars
  <2>3. TablesOK'
    BY <1>1, <1>2 DEF TablesOK, kernelVars, storedVars
  <2>4. SamplesOK'
    BY <1>1, <1>2 DEF SamplesOK, ReadingOf, PairOf, kernelVars, storedVars
  <2> QED BY <2>2, <2>3, <2>4
<1>3. CASE Reads
  <2>1. /\ raw' = [q \in DOMAIN raw \cup {p} |-> IF q # p THEN raw[q] ELSE item]
        /\ since' = [since EXCEPT ![p] = 0]
    BY <1>3
  <2>2. item \in Sample
    BY DEF TypeOK, Sample
  <2>3. DOMAIN raw' = DOMAIN raw \cup {p} /\ raw'[p] = item
        /\ \A q \in DOMAIN raw : raw'[q] = raw[q]
    BY <1>1, <2>1
  <2>4. TypeOK'
    <3>1. since' \in [Pids -> Ticks \cup {Unread}]
      BY <2>1 DEF TypeOK, Ticks
    <3> QED BY <1>1, <2>3, <3>1 DEF TypeOK, kernelVars, storedVars
  <2>5. TablesOK'
    <3>1. raw' \in Table(Sample)
      <4>1. /\ DOMAIN raw \subseteq Pids
            /\ \A q \in DOMAIN raw : raw[q] \in Sample
        BY TableType DEF TablesOK
      <4>2. /\ DOMAIN raw' \subseteq Pids
            /\ \A q \in DOMAIN raw' : raw'[q] \in Sample
        BY <2>2, <2>3, <4>1
      <4>3. raw' = [q \in DOMAIN raw' |-> raw'[q]]
        BY <2>1
      <4> QED BY <4>2, <4>3, TableType
    <3> QED BY <1>1, <3>1 DEF TablesOK, kernelVars, storedVars
  <2>6. ASSUME NEW q \in Pids PROVE (ReadingOf(q) /\ PairOf(q))'
    <3>1. CASE q = p
      <4>1. /\ since'[p] = 0 /\ p \in DOMAIN raw'
            /\ raw'[p].ticks = process[p].ticks /\ raw'[p].start = process[p].start
            /\ raw'[p].since = since[p]
            /\ process' = process /\ prevProcs' = prevProcs
            /\ process[p].ticks \in Nat /\ process[p].start \in Nat
        BY <1>1, <2>1, <2>3 DEF TypeOK, Ticks, kernelVars, storedVars
      <4>2. ReadingOf(p) /\ p \notin DOMAIN raw
        BY <1>1 DEF SamplesOK
      <4>3. ReadingOf(p)'
        BY <4>1, <4>2 DEF ReadingOf, Unread
      <4>4. PairOf(p)'
        BY <1>3, <4>1, <4>2 DEF ReadingOf, PairOf
      <4> QED BY <3>1, <4>3, <4>4
    <3>2. CASE q # p
      <4>1. /\ since'[q] = since[q]
            /\ q \in DOMAIN raw' <=> q \in DOMAIN raw
            /\ q \in DOMAIN raw => raw'[q] = raw[q]
            /\ q \in left' <=> q \in left
        BY <1>1, <2>1, <2>3, <3>2 DEF TypeOK
      <4>2. ReadingOf(q) /\ PairOf(q)
        BY DEF SamplesOK
      <4> QED BY <1>1, <4>1, <4>2 DEF ReadingOf, PairOf, kernelVars, storedVars
    <3> QED BY <3>1, <3>2
  <2> QED BY <2>4, <2>5, <2>6 DEF SamplesOK
<1> QED BY <1>0, <1>2, <1>3

-----------------------------------------------------------------------------
(* What the comparison of the two samples of a process yields.             *)
LEMMA UsedValue ==
    ASSUME IndInv, NEW p \in DOMAIN raw, NEW totalDelta \in Counter
    PROVE  Used(p, totalDelta) =
              IF raw[p].since = Unread \/ totalDelta = 0 THEN 0 ELSE raw[p].since
<1> USE BoundsAssumption DEF IndInv
<1>1. p \in Pids /\ PairOf(p)
  BY DEF TypeOK, SamplesOK
<1>2. raw[p].ticks \in Ticks /\ (raw[p].since = Unread \/ raw[p].since \in Ticks)
  BY SampleValues DEF TablesOK, Sample
<1>3. CASE raw[p].since = Unread \/ totalDelta = 0
  BY <1>1, <1>3 DEF Used, PairOf, Counter
<1>4. CASE raw[p].since # Unread /\ totalDelta # 0
  <2>1. /\ p \in DOMAIN prevProcs /\ prevProcs[p].start = raw[p].start
        /\ raw[p].ticks = prevProcs[p].ticks + raw[p].since
    BY <1>1, <1>4 DEF PairOf
  <2>2. prevProcs[p].ticks \in Nat /\ raw[p].since \in Nat
    BY <1>2, <1>4, <2>1, SampleValues DEF TablesOK, Ticks
  <2>3. prevProcs[p].ticks <= raw[p].ticks /\ raw[p].ticks \in 0 .. MaxTicks + MaxDips
    BY <1>2, <2>1, <2>2 DEF Ticks
  <2>4. Minus(raw[p].ticks, prevProcs[p].ticks) = raw[p].since
    BY <2>1, <2>2, <2>3, MinusExact
  <2> QED BY <1>4, <2>1, <2>3, <2>4 DEF Used, Counter
<1> QED BY <1>3, <1>4

LEMMA SwapStep ==
    ASSUME IndInv, Swap
    PROVE  IndInv'
<1> USE BoundsAssumption DEF IndInv
<1>0. since' = [p \in Pids |-> IF p \in DOMAIN raw THEN since[p] ELSE Unread]
  BY DEF Swap
<1>1. /\ UNCHANGED <<kernelVars, left>>
      /\ phase = "reading" /\ phase' = "idle" /\ left = {}
      /\ prevProcCPU' = totalCPU /\ prevProcs' = raw /\ totalCPU' = 0
      /\ raw' = Nobody /\ DOMAIN raw' = {}
  BY EmptyTable DEF Swap
<1>2. DOMAIN processes'.used \subseteq Pids /\ processes'.of \in Counter
  <2>1. TotalDelta(totalCPU, prevProcCPU) \in Counter
    BY TotalDeltaValue DEF TypeOK, Counter
  <2>2. /\ processes'.used = [p \in DOMAIN raw |-> Used(p, TotalDelta(totalCPU, prevProcCPU))]
        /\ processes'.of = TotalDelta(totalCPU, prevProcCPU)
    BY DEF Swap
  <2> QED BY <2>1, <2>2 DEF TypeOK
<1>3. TypeOK'
  <2>1. since' \in [Pids -> Ticks \cup {Unread}]
    BY <1>0 DEF TypeOK
  <2> QED BY <1>1, <1>2, <2>1 DEF TypeOK, Counter, kernelVars
<1>4. TablesOK'
  BY <1>1, EmptyTable DEF TablesOK, kernelVars
<1>5. SamplesOK'
  <2>1. ASSUME NEW p \in Pids PROVE (ReadingOf(p) /\ PairOf(p))'
    <3>1. since'[p] = IF p \in DOMAIN raw THEN since[p] ELSE Unread
      BY <1>0
    <3>2. ReadingOf(p)
      BY DEF SamplesOK
    <3> QED BY <1>1, <3>1, <3>2 DEF ReadingOf, PairOf, kernelVars
  <2> QED BY <2>1 DEF SamplesOK
<1> QED BY <1>3, <1>4, <1>5

LEMMA Inductive == Spec => []IndInv
<1>1. IndInv /\ UNCHANGED vars => IndInv'
  BY DEF vars, kernelVars, localVars, storedVars, IndInv, TypeOK, TablesOK, SamplesOK,
         ReadingOf, PairOf
<1>2. IndInv /\ [Next]_vars => IndInv'
  BY <1>1, TotalStep, ProcessStep, ReadTotalStep, ReadDirStep, ReadProcessStep, SwapStep DEF Next
<1> QED BY InitIndInv, <1>2, PTL DEF Spec

-----------------------------------------------------------------------------
(* Every reachable state is well typed.                                    *)
THEOREM TypeCorrect == Spec => []TypeOK
<1>1. IndInv => TypeOK
  BY DEF IndInv
<1> QED BY <1>1, Inductive, PTL

(* collectProcesses shows of each process the ticks it got itself since    *)
(* the last round that was not given up read it, and none if that round    *)
(* left it out, whatever the order of ticks, starts, ends, readings and    *)
(* failures, and however often its pid was used (process.go:65-80).        *)
THEOREM SharesAreTheirOwn == Spec => OwnTicks
<1> DEFINE Step == Swap => \A p \in DOMAIN raw :
                      processes'.used[p] =
                         IF raw[p].since = Unread \/ totalCPU <= prevProcCPU
                         THEN 0 ELSE raw[p].since
<1>1. IndInv /\ [Next]_vars => [Step]_vars
  <2> SUFFICES ASSUME IndInv, Swap, NEW p \in DOMAIN raw
               PROVE  processes'.used[p] =
                         IF raw[p].since = Unread \/ totalCPU <= prevProcCPU
                         THEN 0 ELSE raw[p].since
    OBVIOUS
  <2> DEFINE totalDelta == TotalDelta(totalCPU, prevProcCPU)
  <2>1. /\ totalDelta \in Counter
        /\ totalDelta = 0 <=> totalCPU <= prevProcCPU
    BY TotalDeltaValue, BoundsAssumption DEF IndInv, TypeOK, Counter
  <2>2. processes'.used[p] = Used(p, totalDelta)
    BY DEF Swap
  <2> QED BY <2>1, <2>2, UsedValue
<1> QED BY Inductive, <1>1, PTL DEF Spec, OwnTicks

-----------------------------------------------------------------------------
(* The sums.                                                               *)

OwedOK ==
    /\ \A p \in Pids : Owed[p] \in Nat /\ Fresh[p] \in Nat
    /\ SumFunctionOnSet(Owed, Pids) \in Int
    /\ SumFunctionOnSet(Fresh, Pids) \in Int

LEMMA OwedType == IndInv => OwedOK
<1> SUFFICES ASSUME IndInv PROVE OwedOK
  OBVIOUS
<1>1. ASSUME NEW p \in Pids PROVE Owed[p] \in Nat /\ Fresh[p] \in Nat
  <2>1. since[p] \in Ticks \cup {Unread}
    BY DEF IndInv, TypeOK
  <2>2. p \in DOMAIN raw => raw[p].since = Unread \/ raw[p].since \in Ticks
    BY SampleValues DEF IndInv, TablesOK
  <2> QED BY <2>1, <2>2, BoundsAssumption DEF Owed, Fresh, Ticked, Ticks
<1>2. \A p \in Pids : Owed[p] \in Int /\ Fresh[p] \in Int
  BY <1>1
<1> QED BY <1>1, <1>2, SumType, PidsAssumption DEF OwedOK

LEMMA OwedTypeNext == IndInv' => OwedOK'
BY OwedType, PTL

(* What the kernel may do to the total.                                    *)
TotalMoves ==
    \/ UNCHANGED <<total, dips>>
    \/ total' = total + 1 /\ dips' = dips
    \/ total' = total - 1 /\ dips' = dips + 1

(* Steps by which neither function grows.                                  *)
LEMMA OwedBound ==
    ASSUME IndInv, IndInv', SumsOK, \A p \in Pids : Owed'[p] <= Owed[p],
           TotalMoves, UNCHANGED prevProcCPU
    PROVE  SumFunctionOnSet(Owed', Pids) <= total' - prevProcCPU' + dips'
<1>1. \A p \in Pids : Owed[p] \in Int /\ Owed'[p] \in Int
  BY OwedType, OwedTypeNext DEF OwedOK
<1>2. SumFunctionOnSet(Owed', Pids) <= SumFunctionOnSet(Owed, Pids)
  BY <1>1, SumGrows, PidsAssumption
<1>3. SumFunctionOnSet(Owed, Pids) \in Int /\ SumFunctionOnSet(Owed', Pids) \in Int
  BY OwedType, OwedTypeNext DEF OwedOK
<1>4. total \in Int /\ total' \in Int /\ dips \in Int /\ dips' \in Int
      /\ prevProcCPU \in Int /\ prevProcCPU' \in Int
  BY BoundsAssumption DEF IndInv, TypeOK, Counter
<1> QED BY <1>2, <1>3, <1>4 DEF SumsOK, TotalMoves

LEMMA FreshBound ==
    ASSUME IndInv, IndInv', SumsOK, phase # "idle", \A p \in Pids : Fresh'[p] <= Fresh[p],
           TotalMoves, UNCHANGED totalCPU
    PROVE  SumFunctionOnSet(Fresh', Pids) <= total' - totalCPU' + dips'
<1>1. \A p \in Pids : Fresh[p] \in Int /\ Fresh'[p] \in Int
  BY OwedType, OwedTypeNext DEF OwedOK
<1>2. SumFunctionOnSet(Fresh', Pids) <= SumFunctionOnSet(Fresh, Pids)
  BY <1>1, SumGrows, PidsAssumption
<1>3. SumFunctionOnSet(Fresh, Pids) \in Int /\ SumFunctionOnSet(Fresh', Pids) \in Int
  BY OwedType, OwedTypeNext DEF OwedOK
<1>4. total \in Int /\ total' \in Int /\ dips \in Int /\ dips' \in Int
      /\ totalCPU \in Int /\ totalCPU' \in Int
  BY BoundsAssumption DEF IndInv, TypeOK, Counter
<1> QED BY <1>2, <1>3, <1>4 DEF SumsOK, TotalMoves

LEMMA NextSumsOK ==
    ASSUME IndInv, SumsOK, IndInv', [Next]_vars
    PROVE  SumsOK'
<1>1. /\ total \in Int /\ dips \in Int /\ totalCPU \in Int /\ prevProcCPU \in Int
      /\ dips >= 0
  BY BoundsAssumption DEF IndInv, TypeOK, Counter
<1>2. CASE OtherTick \/ Dip
  <2>1. /\ UNCHANGED <<phase, since, raw, prevProcs, totalCPU, prevProcCPU>>
        /\ TotalMoves
    BY <1>2 DEF OtherTick, Dip, localVars, storedVars, TotalMoves
  <2>2. UNCHANGED <<Owed, Fresh>>
    BY <2>1 DEF Owed, Fresh
  <2>3. \A p \in Pids : Owed[p] \in Int /\ Fresh[p] \in Int
    BY OwedType, OwedTypeNext DEF OwedOK
  <2> QED BY <2>1, <2>2, <2>3, OwedBound, FreshBound DEF SumsOK
<1>3. ASSUME NEW p \in Pids, BusyTick(p) PROVE SumsOK'
  <2>1. /\ UNCHANGED <<phase, raw, prevProcs, totalCPU, prevProcCPU, dips>>
        /\ total' = total + 1
        /\ \A q \in Pids : Ticked(since'[q]) = Ticked(since[q])
                           \/ (q = p /\ Ticked(since'[q]) = Ticked(since[q]) + 1)
    BY <1>3 DEF BusyTick, localVars, storedVars, IndInv, TypeOK, Ticked, Ticks, Unread
  <2>2. \A q \in Pids : /\ Owed'[q] = Owed[q] \/ (q = p /\ Owed'[q] = Owed[q] + 1)
                        /\ Fresh'[q] = Fresh[q] \/ (q = p /\ Fresh'[q] = Fresh[q] + 1)
    BY <2>1 DEF Owed, Fresh
  <2>3. \A q \in Pids : /\ Owed[q] \in Int /\ Owed'[q] \in Int
                        /\ Fresh[q] \in Int /\ Fresh'[q] \in Int
    BY OwedType, OwedTypeNext DEF OwedOK
  <2>4. /\ \A q \in Pids \ {p} : Owed'[q] <= Owed[q] /\ Fresh'[q] <= Fresh[q]
        /\ Owed'[p] <= Owed[p] + 1 /\ Fresh'[p] <= Fresh[p] + 1
    BY <2>2, <2>3
  <2>5. SumFunctionOnSet(Owed', Pids) <= SumFunctionOnSet(Owed, Pids) + 1
    BY <2>3, <2>4, SumOneMore, PidsAssumption
  <2>6. SumFunctionOnSet(Fresh', Pids) <= SumFunctionOnSet(Fresh, Pids) + 1
    BY <2>3, <2>4, SumOneMore, PidsAssumption
  <2>7. /\ SumFunctionOnSet(Owed, Pids) \in Int /\ SumFunctionOnSet(Owed', Pids) \in Int
        /\ SumFunctionOnSet(Fresh, Pids) \in Int /\ SumFunctionOnSet(Fresh', Pids) \in Int
    BY OwedType, OwedTypeNext DEF OwedOK
  <2>8. SumFunctionOnSet(Owed', Pids) <= total' - prevProcCPU' + dips'
    BY <1>1, <2>1, <2>5, <2>7 DEF SumsOK
  <2>9. phase' # "idle" => SumFunctionOnSet(Fresh', Pids) <= total' - totalCPU' + dips'
    BY <1>1, <2>1, <2>6, <2>7 DEF SumsOK
  <2> QED BY <2>8, <2>9 DEF SumsOK
<1>4. ASSUME NEW p \in Pids, Fork(p) \/ Exit(p) PROVE SumsOK'
  <2>1. /\ UNCHANGED <<phase, raw, prevProcs, totalCPU, prevProcCPU, total, dips>>
        /\ \A q \in Pids : since'[q] = since[q] \/ since'[q] = Unread
    BY <1>4 DEF Fork, Exit, localVars, storedVars, IndInv, TypeOK
  <2>2. \A q \in Pids : since[q] = Unread \/ since[q] \in Nat
    BY BoundsAssumption DEF IndInv, TypeOK, Ticks
  <2>3. \A q \in Pids : Owed[q] \in Int /\ Fresh[q] \in Int
    BY OwedType, OwedTypeNext DEF OwedOK
  <2>4. \A q \in Pids : Ticked(since'[q]) <= Ticked(since[q])
    BY <2>1, <2>2 DEF Ticked
  <2>5. \A q \in Pids : Owed'[q] <= Owed[q] /\ Fresh'[q] <= Fresh[q]
    BY <2>1, <2>3, <2>4 DEF Owed, Fresh
  <2> QED BY <2>1, <2>5, OwedBound, FreshBound DEF SumsOK, TotalMoves
<1>5. CASE ReadTotal \/ Unreadable
  <2>1. /\ UNCHANGED <<since, raw, prevProcs, prevProcCPU, total, dips>>
        /\ phase' = "idle" \/ totalCPU' = total
        /\ DOMAIN raw = {}
    BY <1>5 DEF ReadTotal, Unreadable, kernelVars, storedVars, IndInv, TablesOK
  <2>2. UNCHANGED <<Owed, Fresh>>
    BY <2>1 DEF Owed, Fresh
  <2>3. SumFunctionOnSet(Fresh, Pids) = 0
    <3>1. \A p \in Pids : Fresh[p] = 0
      BY <2>1 DEF Fresh
    <3> QED BY <3>1, SumOfNone, PidsAssumption
  <2>4. SumFunctionOnSet(Owed', Pids) <= total' - prevProcCPU' + dips'
    BY <2>1, <2>2 DEF SumsOK
  <2>5. phase' # "idle" => SumFunctionOnSet(Fresh', Pids) <= total' - totalCPU' + dips'
    <3>1. SumFunctionOnSet(Fresh', Pids) = 0
      BY <2>2, <2>3
    <3> QED BY <1>1, <2>1, <3>1
  <2> QED BY <2>4, <2>5 DEF SumsOK
<1>6. CASE ReadDir
  <2>1. /\ UNCHANGED <<since, prevProcs, prevProcCPU, total, dips, totalCPU>>
        /\ phase # "idle" /\ DOMAIN raw = {} /\ DOMAIN raw' = {}
    BY <1>6, EmptyTable DEF ReadDir, kernelVars, storedVars, IndInv, TablesOK
  <2>2. UNCHANGED <<Owed, Fresh>>
    BY <2>1 DEF Owed, Fresh
  <2> QED BY <2>1, <2>2 DEF SumsOK
<1>7. ASSUME NEW p \in Pids, ReadProcess(p) PROVE SumsOK'
  <2>1. /\ UNCHANGED <<phase, prevProcs, prevProcCPU, total, dips, totalCPU>>
        /\ phase = "reading" /\ p \in left /\ p \notin DOMAIN raw
    BY <1>7 DEF ReadProcess, kernelVars, storedVars, IndInv, TypeOK
  <2>2. CASE UNCHANGED <<raw, since>>
    <3>2. UNCHANGED <<Owed, Fresh>>
      BY <2>1, <2>2 DEF Owed, Fresh
    <3> QED BY <2>1, <3>2 DEF SumsOK
  <2>3. CASE ~UNCHANGED <<raw, since>>
    <3>0. process[p].alive
      BY <1>7, <2>3 DEF ReadProcess
    <3>1. /\ DOMAIN raw' = DOMAIN raw \cup {p} /\ raw'[p].since = since[p]
          /\ \A q \in DOMAIN raw : raw'[q] = raw[q]
          /\ since'[p] = 0
          /\ \A q \in Pids \ {p} : since'[q] = since[q]
      BY <1>7, <2>1, <2>3 DEF ReadProcess, IndInv, TypeOK
    <3>2. since[p] # Unread => p \in DOMAIN prevProcs
      BY <2>1, <3>0 DEF IndInv, SamplesOK, ReadingOf
    <3>3. Owed'[p] = Owed[p] /\ Fresh'[p] = 0 /\ Fresh[p] = 0
      BY <2>1, <3>1, <3>2 DEF Owed, Fresh, Ticked
    <3>4. \A q \in Pids \ {p} : Owed'[q] = Owed[q] /\ Fresh'[q] = Fresh[q]
      BY <2>1, <3>1 DEF Owed, Fresh
    <3>5. \A q \in Pids : Owed[q] \in Int /\ Fresh[q] \in Int
      BY OwedType, OwedTypeNext DEF OwedOK
    <3>6. \A q \in Pids : Owed'[q] <= Owed[q] /\ Fresh'[q] <= Fresh[q]
      BY <3>3, <3>4, <3>5
    <3> QED BY <2>1, <3>6, OwedBound, FreshBound DEF SumsOK, TotalMoves
  <2> QED BY <2>2, <2>3
<1>8. CASE Swap
  <2>1. /\ UNCHANGED <<total, dips>> /\ phase = "reading" /\ phase' = "idle"
        /\ since' = [p \in Pids |-> IF p \in DOMAIN raw THEN since[p] ELSE Unread]
        /\ prevProcCPU' = totalCPU /\ prevProcs' = raw /\ DOMAIN raw' = {}
    BY <1>8, EmptyTable DEF Swap, kernelVars
  <2>2. Owed' = Fresh
    BY <2>1 DEF Owed, Fresh
  <2>3. SumFunctionOnSet(Fresh, Pids) <= total - totalCPU + dips
    BY <2>1 DEF SumsOK
  <2> QED BY <2>1, <2>2, <2>3 DEF SumsOK
<1>9. CASE UNCHANGED vars
  BY <1>9 DEF vars, kernelVars, localVars, storedVars, SumsOK, Owed, Fresh
<1> QED BY <1>2, <1>3, <1>4, <1>5, <1>6, <1>7, <1>8, <1>9 DEF Next

LEMMA InitSumsOK == Init => SumsOK
<1> SUFFICES ASSUME Init PROVE SumsOK
  OBVIOUS
<1>1. DOMAIN raw = {} /\ DOMAIN prevProcs = {}
  BY EmptyTable DEF Init
<1>2. \A p \in Pids : Owed[p] = 0
  BY <1>1 DEF Owed
<1>3. SumFunctionOnSet(Owed, Pids) = 0
  BY <1>2, SumOfNone, PidsAssumption
<1> QED BY <1>3 DEF SumsOK, Init

(* However many processes there are, and whatever rounds failed: their     *)
(* shares add up to the total they are compared with, and what it counted  *)
(* while the processes were being read (process.go:37-40, 57-69).          *)
THEOREM SharesAreOfOnePeriod == Spec => SharesAddUp
<1> DEFINE Step == Swap => SumFunction(processes'.used)
                              <= processes'.of + (total - totalCPU) + dips
<1>1. IndInv /\ SumsOK /\ [Next]_vars => [Step]_vars
  <2> SUFFICES ASSUME IndInv, SumsOK, Swap
               PROVE  SumFunction(processes'.used)
                         <= processes'.of + (total - totalCPU) + dips
    OBVIOUS
  <2> DEFINE totalDelta == TotalDelta(totalCPU, prevProcCPU)
             used == [p \in DOMAIN raw |-> Used(p, totalDelta)]
  <2>1. /\ totalCPU \in Counter /\ prevProcCPU \in Counter /\ total \in Int /\ dips \in Int
        /\ totalCPU \in Int /\ prevProcCPU \in Int
    BY BoundsAssumption DEF IndInv, TypeOK, Counter
  <2>2. /\ totalDelta \in Counter /\ totalDelta \in Int
        /\ totalDelta = 0 \/ totalDelta = totalCPU - prevProcCPU
    BY <2>1, TotalDeltaValue, BoundsAssumption DEF Counter
  <2>3. processes'.used = used /\ processes'.of = totalDelta
    BY DEF Swap
  <2>4. SumFunction(processes'.used) = SumFunctionOnSet(used, DOMAIN raw)
    BY <2>3 DEF SumFunction
  <2>5. /\ DOMAIN raw \subseteq Pids
        /\ \A p \in Pids : /\ Owed[p] \in Int /\ Owed[p] >= 0
                           /\ Fresh[p] \in Int /\ Fresh[p] >= 0
        /\ SumFunctionOnSet(Owed, Pids) \in Int /\ SumFunctionOnSet(Fresh, Pids) \in Int
    BY OwedType DEF OwedOK, IndInv, TypeOK
  <2>6. /\ SumFunctionOnSet(Owed, Pids) <= total - prevProcCPU + dips
        /\ SumFunctionOnSet(Fresh, Pids) <= total - totalCPU + dips
    BY DEF SumsOK, Swap
  <2>7. \A p \in DOMAIN raw : used[p] = IF totalDelta = 0 THEN 0 ELSE Owed[p]
    <3>1. \A p \in DOMAIN raw : Used(p, totalDelta) =
              IF raw[p].since = Unread \/ totalDelta = 0 THEN 0 ELSE raw[p].since
      BY <2>2, UsedValue
    <3>2. \A p \in DOMAIN raw : Owed[p] = Ticked(raw[p].since)
      BY <2>5 DEF Owed
    <3> HIDE DEF totalDelta
    <3> QED BY <3>1, <3>2 DEF Ticked
  <2> HIDE DEF totalDelta, used
  <2>8. SumFunctionOnSet(used, DOMAIN raw) \in Int
    <3>1. IsFiniteSet(DOMAIN raw)
      BY <2>5, PidsAssumption, FS_Subset
    <3>2. \A p \in DOMAIN raw : used[p] \in Int
      BY <2>5, <2>7
    <3> QED BY <3>1, <3>2, SumType
  <2>9. CASE totalDelta = 0
    <3>1. \A p \in DOMAIN raw : used[p] \in Int /\ used[p] <= Fresh[p]
      BY <2>5, <2>7, <2>9
    <3>2. SumFunctionOnSet(used, DOMAIN raw) <= SumFunctionOnSet(Fresh, Pids)
      BY <2>5, <3>1, SumGrows, PidsAssumption
    <3> QED BY <2>1, <2>3, <2>4, <2>5, <2>6, <2>8, <2>9, <3>2
  <2>10. CASE totalDelta # 0
    <3>1. \A p \in DOMAIN raw : used[p] \in Int /\ used[p] <= Owed[p]
      BY <2>5, <2>7, <2>10
    <3>2. SumFunctionOnSet(used, DOMAIN raw) <= SumFunctionOnSet(Owed, Pids)
      BY <2>5, <3>1, SumGrows, PidsAssumption
    <3>3. totalDelta = totalCPU - prevProcCPU
      BY <2>2, <2>10
    <3> QED BY <2>1, <2>3, <2>4, <2>5, <2>6, <2>8, <3>2, <3>3
  <2> QED BY <2>9, <2>10
<1>2. IndInv /\ IndInv' /\ SumsOK /\ [Next]_vars => SumsOK'
  BY NextSumsOK
<1> QED BY Inductive, InitSumsOK, <1>1, <1>2, PTL DEF Spec, SharesAddUp

-----------------------------------------------------------------------------
(***************************************************************************)
(* Storage                                                                 *)
(***************************************************************************)

(* The shares of smb.conf are links into the tree, ...                     *)
SourcesOK ==
    /\ conf \in Seq(DOMAIN Real) /\ Len(conf) <= MaxShares
    /\ mounted \subseteq {VolumeList[i].name : i \in DOMAIN VolumeList}
    /\ listed \subseteq DOMAIN Real

(* ... and the cache has what a scan measured of some of them.             *)
SizesOK ==
    /\ Scanned \subseteq DOMAIN Real
    /\ \A p \in Scanned : shareSizes[p] = DirectorySize(Real[p])

StorageInv == SourcesOK /\ SizesOK

-----------------------------------------------------------------------------
(* Paths.                                                                  *)

Path == Seq(STRING) \ {<<>>}

LEMMA RealPath ==
    ASSUME NEW p \in DOMAIN Real
    PROVE  Real[p] \in Tree /\ Real[p] \in Path
BY TreeAssumption DEF Path

LEMMA PrefixIs ==
    ASSUME NEW s \in Path, NEW t \in Path
    PROVE  IsPrefix(s, t) <=> /\ Len(s) <= Len(t)
                              /\ \A i \in 1 .. Len(s) : s[i] = t[i]
<1>1. /\ SubSeq(s, 1, Len(s)) = s /\ Len(s) \in Nat /\ Len(t) \in Nat
      /\ s \in Seq(STRING) /\ t \in Seq(STRING)
  BY SubSeqFull DEF Path
<1>2. ASSUME Len(s) <= Len(t)
      PROVE  (s = SubSeq(t, 1, Len(s))) <=> \A i \in 1 .. Len(s) : s[i] = t[i]
  <2> DEFINE u == SubSeq(t, 1, Len(s))
  <2>1. /\ u \in Seq(STRING) /\ Len(u) = Len(s)
        /\ \A i \in 1 .. Len(s) : u[i] = t[i]
    <3>1. \A i \in 1 .. Len(s) : t[i] \in STRING
      BY <1>1, <1>2
    <3> QED BY <1>1, <3>1, SubSeqProperties
  <2> HIDE DEF u
  <2>2. (s = u) <=> \A i \in 1 .. Len(s) : s[i] = u[i]
    BY <1>1, <2>1, SeqEqual
  <2> QED BY <2>1, <2>2 DEF u
<1> QED BY <1>1, <1>2 DEF IsPrefix

(* Of two prefixes of a path one is a prefix of the other, ...             *)
LEMMA PrefixesCompare ==
    ASSUME NEW s \in Path, NEW t \in Path, NEW d \in Path,
           IsPrefix(s, d), IsPrefix(t, d), s # t
    PROVE  IsStrictPrefix(s, t) \/ IsStrictPrefix(t, s)
<1>1. Len(s) \in Nat /\ Len(t) \in Nat
  BY DEF Path
<1>2. CASE Len(s) <= Len(t)
  BY <1>1, <1>2, PrefixIs DEF IsStrictPrefix
<1>3. CASE Len(t) <= Len(s)
  BY <1>1, <1>3, PrefixIs DEF IsStrictPrefix
<1> QED BY <1>1, <1>2, <1>3

(* ... a prefix of a prefix is one, starts the same, and a strict one is   *)
(* shorter.                                                                *)
LEMMA PrefixTransitive ==
    ASSUME NEW s \in Path, NEW t \in Path, NEW d \in Path,
           IsPrefix(s, t), IsPrefix(t, d)
    PROVE  IsPrefix(s, d)
<1>1. Len(s) \in Nat /\ Len(t) \in Nat /\ Len(d) \in Nat
  BY DEF Path
<1> QED BY <1>1, PrefixIs

LEMMA PrefixReflexive ==
    ASSUME NEW s \in Path PROVE IsPrefix(s, s)
<1>1. Len(s) \in Nat
  BY DEF Path
<1> QED BY <1>1, PrefixIs

LEMMA PrefixHead ==
    ASSUME NEW s \in Path, NEW t \in Path, IsPrefix(s, t)
    PROVE  Head(s) = Head(t)
<1>1. /\ Len(s) \in Nat /\ Len(s) >= 1 /\ Head(s) = s[1] /\ Head(t) = t[1]
  BY EmptySeq DEF Path
<1> QED BY <1>1, PrefixIs

LEMMA StrictPrefixShorter ==
    ASSUME NEW s \in Path, NEW t \in Path, IsStrictPrefix(s, t)
    PROVE  Len(s) < Len(t)
<1>1. Len(s) \in Nat /\ Len(t) \in Nat /\ s \in Seq(STRING) /\ t \in Seq(STRING)
  BY DEF Path
<1>2. Len(s) <= Len(t) /\ \A i \in 1 .. Len(s) : s[i] = t[i]
  BY PrefixIs DEF IsStrictPrefix
<1>3. Len(s) # Len(t)
  BY <1>1, <1>2, SeqEqual DEF IsStrictPrefix
<1> QED BY <1>1, <1>2, <1>3

LEMMA BelowFinite ==
    ASSUME NEW root
    PROVE  IsFiniteSet(Below(root)) /\ DirectorySize(root) \in Nat
BY TreeAssumption, FS_Subset, FS_CardinalityType DEF Below, DirectorySize

-----------------------------------------------------------------------------
(* The shares.                                                             *)

(* Aliases are gone, and each directory a share leads to is still there.   *)
LEMMA UniqueSharesAre ==
    ASSUME SourcesOK
    PROVE  /\ UniqueShares \subseteq ToSet(conf) /\ ToSet(conf) \subseteq DOMAIN Real
           /\ IsFiniteSet(UniqueShares)
           /\ Cardinality(UniqueShares) \in 0 .. MaxShares
           /\ \A p, q \in UniqueShares : Real[p] = Real[q] => p = q
           /\ \A p \in ToSet(conf) : \E q \in UniqueShares : Real[q] = Real[p]
           /\ conf # <<>> => UniqueShares # {}
<1> DEFINE Firsts == {j \in DOMAIN conf : \A k \in 1 .. j - 1 : Real[conf[k]] # Real[conf[j]]}
<1>1. /\ DOMAIN conf = 1 .. Len(conf) /\ Len(conf) \in Nat
      /\ \A i \in DOMAIN conf : conf[i] \in DOMAIN Real
  BY DEF SourcesOK
<1>2. UniqueShares = {conf[i] : i \in Firsts}
  BY DEF UniqueShares
<1>3. UniqueShares \subseteq ToSet(conf) /\ ToSet(conf) \subseteq DOMAIN Real
  BY <1>1, <1>2 DEF ToSet
<1>4. IsFiniteSet(UniqueShares) /\ Cardinality(UniqueShares) \in 0 .. MaxShares
  <2>1. IsFiniteSet(1 .. Len(conf)) /\ Cardinality(1 .. Len(conf)) = Len(conf)
    BY <1>1, FS_Interval
  <2>2. Firsts \in SUBSET (1 .. Len(conf))
    BY <1>1
  <2> HIDE DEF Firsts
  <2>3. IsFiniteSet(Firsts) /\ Cardinality(Firsts) <= Len(conf)
    BY <2>1, <2>2, FS_Subset
  <2> DEFINE f == [i \in Firsts |-> conf[i]]
  <2>4. f \in Surjection(Firsts, UniqueShares)
    BY <1>2 DEF Surjection
  <2> HIDE DEF f
  <2>5. IsFiniteSet(UniqueShares) /\ Cardinality(UniqueShares) <= Cardinality(Firsts)
    BY <2>3, <2>4, FS_Surjection
  <2>6. Cardinality(UniqueShares) \in Nat /\ Cardinality(Firsts) \in Nat
    BY <2>3, <2>5, FS_CardinalityType
  <2>7. Len(conf) <= MaxShares
    BY DEF SourcesOK
  <2> QED BY <1>1, <2>3, <2>5, <2>6, <2>7, MaxSharesAssumption
<1>5. ASSUME NEW p \in UniqueShares, NEW q \in UniqueShares, Real[p] = Real[q]
      PROVE  p = q
  <2>1. PICK i \in Firsts, j \in Firsts : p = conf[i] /\ q = conf[j]
    BY <1>2
  <2>2. i \in Nat /\ j \in Nat /\ i >= 1 /\ j >= 1
    BY <1>1
  <2>3. ~(i < j) /\ ~(j < i)
    BY <1>5, <2>1, <2>2
  <2> QED BY <2>1, <2>2, <2>3
<1>6. ASSUME NEW p \in ToSet(conf) PROVE \E q \in UniqueShares : Real[q] = Real[p]
  <2> DEFINE Same == {i \in DOMAIN conf : Real[conf[i]] = Real[p]}
  <2>1. Same \in SUBSET Nat /\ Same # {}
    BY <1>1 DEF ToSet
  <2>2. PICK m \in Same : \A n \in Same : m <= n
    <3> HIDE DEF Same
    <3> QED BY <2>1, LeastExists
  <2>3. m \in Firsts
    BY <1>1, <2>1, <2>2
  <2> QED BY <1>2, <2>2, <2>3
<1>7. ASSUME conf # <<>> PROVE UniqueShares # {}
  <2>1. conf[1] \in ToSet(conf)
    BY <1>1, <1>7, EmptySeq DEF ToSet, SourcesOK
  <2> QED BY <1>6, <2>1
<1> QED BY <1>3, <1>4, <1>5, <1>6, <1>7

(* Every share lies in one that is not inside of another, or is it.        *)
LEMMA Topmost ==
    ASSUME SourcesOK, NEW p \in UniqueShares
    PROVE  \E q \in UniqueShares : Included(q) /\ IsPrefix(Real[q], Real[p])
<1> DEFINE Above == {q \in UniqueShares : IsPrefix(Real[q], Real[p])}
           Lengths == {Len(Real[q]) : q \in Above}
<1>1. \A q \in UniqueShares : q \in DOMAIN Real /\ Real[q] \in Path /\ Len(Real[q]) \in Nat
  BY UniqueSharesAre, RealPath DEF Path
<1>2. p \in Above
  BY <1>1, PrefixReflexive
<1>3. PICK m \in Lengths : \A n \in Lengths : m <= n
  <2>1. Lengths \in SUBSET Nat /\ Lengths # {}
    BY <1>1, <1>2
  <2> HIDE DEF Lengths
  <2> QED BY <2>1, LeastExists
<1>4. PICK q \in Above : m = Len(Real[q])
  BY <1>3
<1>5. Included(q)
  <2> SUFFICES ASSUME NEW r \in UniqueShares, IsStrictPrefix(Real[r], Real[q])
               PROVE  FALSE
    BY DEF Included
  <2>1. IsPrefix(Real[r], Real[q]) /\ IsPrefix(Real[q], Real[p])
    BY <1>4 DEF IsStrictPrefix
  <2>2. r \in Above
    BY <1>1, <1>4, <2>1, PrefixTransitive
  <2>3. Len(Real[r]) < Len(Real[q])
    BY <1>1, <1>4, StrictPrefixShorter
  <2>4. m <= Len(Real[r])
    BY <1>3, <2>2
  <2> QED BY <1>1, <1>4, <2>3, <2>4
<1> QED BY <1>4, <1>5

-----------------------------------------------------------------------------
(* The data.                                                               *)

Counted == {p \in Known \cap Scanned : Included(p)}

CountedDirs == UNION {Below(Real[p]) : p \in Counted}

(* No directory is below two shares that are counted.                      *)
LEMMA CountedApart ==
    ASSUME SourcesOK, NEW p \in Counted, NEW q \in Counted, p # q
    PROVE  Below(Real[p]) \cap Below(Real[q]) = {}
<1> SUFFICES ASSUME NEW d \in Tree, IsPrefix(Real[p], d), IsPrefix(Real[q], d)
             PROVE  FALSE
  BY DEF Below
<1>1. p \in UniqueShares /\ q \in UniqueShares /\ Included(p) /\ Included(q)
  BY DEF Counted, Known
<1>2. Real[p] \in Path /\ Real[q] \in Path /\ d \in Path
  BY <1>1, UniqueSharesAre, RealPath, TreeAssumption DEF Path
<1>3. Real[p] # Real[q]
  BY <1>1, UniqueSharesAre
<1>4. IsStrictPrefix(Real[p], Real[q]) \/ IsStrictPrefix(Real[q], Real[p])
  BY <1>2, <1>3, PrefixesCompare
<1> QED BY <1>1, <1>4 DEF Included

LEMMA MeasuredIs ==
    ASSUME StorageInv
    PROVE  IsFiniteSet(CountedDirs) /\ Measured = Cardinality(CountedDirs)
<1> DEFINE B == [p \in Counted |-> Below(Real[p])]
<1>1. IsFiniteSet(Counted)
  <2>1. Counted \in SUBSET UniqueShares
    BY DEF Counted, Known
  <2> QED BY <2>1, UniqueSharesAre, FS_Subset DEF StorageInv
<1>2. \A p \in Counted : IsFiniteSet(B[p]) /\ shareSizes[p] = Cardinality(B[p])
  <2> SUFFICES ASSUME NEW p \in Counted
               PROVE  IsFiniteSet(B[p]) /\ shareSizes[p] = Cardinality(B[p])
    OBVIOUS
  <2>1. p \in Scanned /\ B[p] = Below(Real[p])
    BY DEF Counted
  <2>2. shareSizes[p] = DirectorySize(Real[p])
    BY <2>1 DEF StorageInv, SizesOK
  <2> QED BY <2>1, <2>2, BelowFinite DEF DirectorySize
<1>3. \A p, q \in Counted : p # q => B[p] \cap B[q] = {}
  BY CountedApart DEF StorageInv
<1>4. /\ \A p \in Counted : B[p] \subseteq CountedDirs
      /\ \A d \in CountedDirs : \E p \in Counted : d \in B[p]
  BY DEF CountedDirs
<1> HIDE DEF B
<1>5. /\ IsFiniteSet(CountedDirs)
      /\ SumFunctionOnSet(shareSizes, Counted) = Cardinality(CountedDirs)
  BY <1>1, <1>2, <1>3, <1>4, SumOfSizes
<1> QED BY <1>5 DEF Measured, Counted

(* What is counted is reached, and with every share measured all of it is. *)
LEMMA CountedIsReached ==
    ASSUME SourcesOK
    PROVE  /\ CountedDirs \subseteq Reached /\ IsFiniteSet(Reached)
           /\ Known \subseteq Scanned => CountedDirs = Reached
<1>1. \A p \in ToSet(conf) : p \in DOMAIN Real /\ Real[p] \in Path
  BY UniqueSharesAre, RealPath
<1>2. CountedDirs \subseteq Reached
  <2> SUFFICES ASSUME NEW p \in Counted
               PROVE  p \in ToSet(conf) /\ Head(Real[p]) \in mounted
    BY DEF CountedDirs, Reached
  <2>1. p \in UniqueShares /\ \E i \in Volumes : Head(Real[p]) = VolumeList[i].name
    BY DEF Counted, Known
  <2> QED BY <2>1, UniqueSharesAre DEF Volumes
<1>3. IsFiniteSet(Reached)
  <2>1. Reached \in SUBSET Tree
    BY DEF Reached, Below
  <2> QED BY <2>1, TreeAssumption, FS_Subset
<1>4. ASSUME Known \subseteq Scanned PROVE Reached \subseteq CountedDirs
  <2> SUFFICES ASSUME NEW p \in ToSet(conf), Head(Real[p]) \in mounted,
                      NEW d \in Below(Real[p])
               PROVE  \E q \in Counted : d \in Below(Real[q])
    BY DEF CountedDirs, Reached
  <2>1. PICK r \in UniqueShares : Real[r] = Real[p]
    BY UniqueSharesAre
  <2>2. PICK q \in UniqueShares : Included(q) /\ IsPrefix(Real[q], Real[r])
    BY Topmost
  <2>3. q \in ToSet(conf) /\ Real[q] \in Path /\ Real[p] \in Path
    BY <1>1, UniqueSharesAre
  <2>4. Head(Real[q]) = Head(Real[p])
    BY <2>1, <2>2, <2>3, PrefixHead
  <2>5. \E i \in Volumes : Head(Real[q]) = VolumeList[i].name
    BY <2>4 DEF Volumes, SourcesOK
  <2>6. q \in Counted
    BY <1>4, <2>2, <2>5 DEF Counted, Known
  <2>7. d \in Tree /\ d \in Path /\ IsPrefix(Real[p], d)
    BY TreeAssumption DEF Below, Path
  <2>8. IsPrefix(Real[q], d)
    BY <2>1, <2>2, <2>3, <2>7, PrefixTransitive
  <2> QED BY <2>6, <2>7, <2>8 DEF Below
<1> QED BY <1>2, <1>3, <1>4

-----------------------------------------------------------------------------
(* The volumes and the pools.                                              *)

LEMMA VolumesAre ==
    /\ Volumes \in SUBSET (1 .. Len(VolumeList)) /\ IsFiniteSet(Volumes)
    /\ \A i \in Volumes : i \in Nat /\ VolumeList[i] \in Volume
<1>1. /\ DOMAIN VolumeList = 1 .. Len(VolumeList) /\ Len(VolumeList) \in Nat
      /\ \A i \in DOMAIN VolumeList : VolumeList[i] \in Volume
  BY VolumesAssumption
<1>2. Volumes \in SUBSET (1 .. Len(VolumeList))
  BY <1>1 DEF Volumes
<1>3. IsFiniteSet(Volumes)
  <2>1. IsFiniteSet(1 .. Len(VolumeList))
    BY <1>1, FS_Interval
  <2> QED BY <1>2, <2>1, FS_Subset
<1> QED BY <1>1, <1>2, <1>3

LEMMA FirstIs ==
    ASSUME NEW S \in SUBSET Volumes, S # {}
    PROVE  \E i \in S : FirstOf(S) = VolumeList[i]
<1>1. S \in SUBSET Nat
  BY VolumesAre
<1>2. \E i \in S : \A j \in S : i <= j
  BY <1>1, LeastExists
<1> QED BY <1>2 DEF FirstOf

(* The volumes that hold a share.                                          *)
Holding == {VolumeOf(p) : p \in Known}

LEMMA KnownAre ==
    ASSUME SourcesOK
    PROVE  /\ IsFiniteSet(Known) /\ Known \subseteq UniqueShares
           /\ \A p \in Known :
                 /\ VolumeOf(p) \in Volume /\ VolumeOf(p).name = Head(Real[p])
                 /\ \E i \in Volumes : VolumeOf(p) = VolumeList[i]
           /\ \A p \in Known, i \in Volumes :
                 Head(Real[p]) = VolumeList[i].name => VolumeOf(p) = VolumeList[i]
<1>1. Known \subseteq UniqueShares /\ IsFiniteSet(Known)
  BY UniqueSharesAre, FS_Subset DEF Known
<1>2. ASSUME NEW p \in Known
      PROVE  /\ VolumeOf(p) \in Volume /\ VolumeOf(p).name = Head(Real[p])
             /\ \E i \in Volumes : VolumeOf(p) = VolumeList[i]
  <2>1. \E i \in Volumes : Head(Real[p]) = VolumeList[i].name
    BY DEF Known
  <2> QED BY <2>1, VolumesAre DEF VolumeOf
<1>3. ASSUME NEW p \in Known, NEW i \in Volumes, Head(Real[p]) = VolumeList[i].name
      PROVE  VolumeOf(p) = VolumeList[i]
  <2>1. PICK j \in Volumes : VolumeOf(p) = VolumeList[j]
    BY <1>2
  <2>2. i \in DOMAIN VolumeList /\ j \in DOMAIN VolumeList
    BY DEF Volumes
  <2> QED BY <1>2, <1>3, <2>1, <2>2, VolumesAssumption
<1> QED BY <1>1, <1>2, <1>3

LEMMA HoldingIs ==
    ASSUME SourcesOK
    PROVE  /\ Holding \subseteq Volume /\ IsFiniteSet(Holding)
           /\ \A v, w \in Holding : v.name = w.name => v = w
           /\ \A v \in Holding : \E i \in DOMAIN VolumeList : v = VolumeList[i]
           /\ Holding # {} => Volumes # {}
<1>1. Holding \subseteq Volume /\ \A v \in Holding : \E i \in Volumes : v = VolumeList[i]
  BY KnownAre DEF Holding
<1>2. IsFiniteSet(Holding)
  <2> DEFINE f == [p \in Known |-> VolumeOf(p)]
  <2>1. f \in Surjection(Known, Holding)
    BY DEF Surjection, Holding
  <2> HIDE DEF f
  <2> QED BY <2>1, KnownAre, FS_Surjection
<1>3. \A i \in Volumes : i \in DOMAIN VolumeList
  BY DEF Volumes
<1>4. \A v, w \in Holding : v.name = w.name => v = w
  BY <1>1, <1>3, VolumesAssumption
<1> QED BY <1>1, <1>2, <1>3, <1>4

(* How large the largest of some volumes is.                               *)
LEMMA LargestTotal ==
    ASSUME NEW H \in SUBSET Volume, IsFiniteSet(H), H # {}
    PROVE  LET most == Largest({v.total : v \in H})
           IN  /\ most \in Nat
               /\ \E v \in H : v.total = most
               /\ \A v \in H : v.total <= most
<1> DEFINE Totals == {v.total : v \in H}
           f == [v \in H |-> v.total]
<1>1. f \in Surjection(H, Totals)
  BY DEF Surjection
<1>2. IsFiniteSet(Totals)
  <2> HIDE DEF f, Totals
  <2> QED BY <1>1, FS_Surjection
<1>3. Totals \in SUBSET Nat /\ Totals # {}
  BY DEF Volume
<1>4. Largest(Totals) \in Totals /\ \A n \in Totals : n <= Largest(Totals)
  <2> HIDE DEF Totals
  <2> QED BY <1>2, <1>3, LargestIs
<1>5. Largest(Totals) \in Nat
  BY <1>3, <1>4
<1> QED BY <1>4, <1>5

OfKey(key) == {VolumeOf(p) : p \in {q \in Known : PoolKey(q) = key}}

LEMMA PoolTotalsAre ==
    ASSUME SourcesOK
    PROVE  /\ IsFiniteSet(Pools)
           /\ \A key \in Pools :
                 /\ \E p \in Known : VolumeOf(p).total > 0 /\ PoolKey(p) = key
                 /\ PoolTotals[key] \in Nat
                 /\ \E v \in OfKey(key) : v.total = PoolTotals[key]
                 /\ \A v \in OfKey(key) : v.total <= PoolTotals[key]
<1> DEFINE Sized == {q \in Known : VolumeOf(q).total > 0}
           f == [p \in Sized |-> PoolKey(p)]
<1>1. Pools = {PoolKey(p) : p \in Sized}
  BY DEF Pools
<1>2. IsFiniteSet(Pools)
  <2>1. f \in Surjection(Sized, Pools)
    BY <1>1 DEF Surjection
  <2>2. Sized \in SUBSET Known
    OBVIOUS
  <2> HIDE DEF f, Sized
  <2>3. IsFiniteSet(Sized)
    BY <2>2, KnownAre, FS_Subset
  <2> QED BY <2>1, <2>3, FS_Surjection
<1>3. ASSUME NEW key \in Pools
      PROVE  /\ \E p \in Known : VolumeOf(p).total > 0 /\ PoolKey(p) = key
             /\ PoolTotals[key] \in Nat
             /\ \E v \in OfKey(key) : v.total = PoolTotals[key]
             /\ \A v \in OfKey(key) : v.total <= PoolTotals[key]
  <2>1. PICK p \in Known : VolumeOf(p).total > 0 /\ PoolKey(p) = key
    BY <1>1
  <2>2. OfKey(key) \subseteq Holding /\ OfKey(key) # {}
    BY <2>1 DEF OfKey, Holding
  <2>3. OfKey(key) \in SUBSET Volume /\ IsFiniteSet(OfKey(key))
    BY <2>2, HoldingIs, FS_Subset
  <2>4. PoolTotals[key] = Largest({w.total : w \in OfKey(key)})
    <3>1. {w.total : w \in OfKey(key)}
             = {VolumeOf(q).total : q \in {r \in Known : PoolKey(r) = key}}
      BY DEF OfKey
    <3> QED BY <3>1 DEF PoolTotals
  <2> QED BY <2>1, <2>2, <2>3, <2>4, LargestTotal
<1> QED BY <1>2, <1>3

LEMMA CapacityType ==
    ASSUME SourcesOK
    PROVE  Capacity \in Nat /\ Cardinality(Pools) \in Nat
BY PoolTotalsAre, SumOfNaturals, FS_CardinalityType DEF Capacity

-----------------------------------------------------------------------------
(* The summary.                                                            *)

Shown == IF Complete THEN Measured ELSE Apparent(Measured)

LEMMA SummaryIs ==
    ASSUME SourcesOK
    PROVE  /\ Summary.scanComplete = Complete
           /\ Summary.used = Clamp(Shown, Summary.total)
           /\ Summary.total \in Nat
           /\ Summary.shareCount = Cardinality(UniqueShares)
           /\ Summary.free = Summary.total - Summary.used
           /\ Summary.poolCount \in Nat
           /\ Capacity # 0 => /\ Summary.total = Capacity
                              /\ Summary.poolCount = Cardinality(Pools)
<1>1. Volumes # {} => FirstOf(Volumes).total \in Nat
  BY FirstIs, VolumesAre DEF Volume
<1> HIDE DEF Complete
<1> QED BY <1>1, CapacityType DEF Summary, Shown

LEMMA ShownIs ==
    ASSUME StorageInv
    PROVE  /\ Measured \in Nat /\ Shown \in Nat
           /\ \/ Shown = Measured
              \/ ~Complete /\ \E i \in Volumes : Shown = VolumeList[i].used
<1>1. Measured \in Nat
  BY MeasuredIs, FS_CardinalityType
<1> DEFINE inUse == {i \in Volumes : VolumeList[i].used > 0}
<1>2. inUse # {} => \E i \in Volumes : FirstOf(inUse).used = VolumeList[i].used
  <2>1. inUse \in SUBSET Volumes
    OBVIOUS
  <2> HIDE DEF inUse
  <2> QED BY <2>1, FirstIs
<1>3. Apparent(Measured) = IF Measured > 0 \/ inUse = {} THEN Measured ELSE FirstOf(inUse).used
  BY DEF Apparent
<1> HIDE DEF inUse
<1> QED BY <1>1, <1>2, <1>3, VolumesAre DEF Shown, Volume

-----------------------------------------------------------------------------
(* The steps.                                                              *)

(* Every step keeps both: an edit of smb.conf does not touch the cache, and*)
(* a scan replaces all of it.                                              *)
LEMMA StorageInductive == StorageSpec => []StorageInv
<1>1. StorageInit => StorageInv
  <2>1. StorageInit => Len(conf) = 0 /\ conf \in Seq(DOMAIN Real) /\ Scanned = {}
    BY EmptySeq DEF StorageInit, Scanned
  <2> QED BY <2>1, MaxSharesAssumption DEF StorageInit, StorageInv, SourcesOK, SizesOK
<1>2. StorageInv /\ [StorageNext]_storageVars => StorageInv'
  <2> SUFFICES ASSUME StorageInv, [StorageNext]_storageVars PROVE StorageInv'
    OBVIOUS
  <2> USE DEF StorageInv
  <2>1. ASSUME UNCHANGED conf
        PROVE  UNCHANGED <<UniqueShares, ToSet(conf)>>
    BY <2>1 DEF UniqueShares, ToSet
  <2>2. ASSUME UNCHANGED shareSizes, SizesOK PROVE SizesOK'
    BY <2>2 DEF SizesOK, Scanned
  <2>3. CASE Scan
    <3>1. SourcesOK'
      BY <2>3 DEF Scan, SourcesOK
    <3>2. SizesOK'
      <4>1. Scanned' = UniqueShares /\ UniqueShares \subseteq DOMAIN Real
        BY <2>3, UniqueSharesAre DEF Scan, Scanned
      <4> QED BY <2>3, <4>1 DEF Scan, SizesOK
    <3> QED BY <3>1, <3>2
  <2>4. CASE AddShare
    <3>1. PICK p \in DOMAIN Real : conf' = Append(conf, p)
      BY <2>4 DEF AddShare
    <3>2. conf' \in Seq(DOMAIN Real) /\ Len(conf') = Len(conf) + 1
      BY <3>1 DEF SourcesOK
    <3>3. Len(conf) < MaxShares /\ Len(conf) \in Nat
      BY <2>4 DEF AddShare, SourcesOK
    <3>5. listed' \subseteq DOMAIN Real
      BY <2>4 DEF AddShare, SourcesOK
    <3>4. SourcesOK'
      BY <2>4, <3>2, <3>3, <3>5, MaxSharesAssumption DEF AddShare, SourcesOK
    <3> QED BY <2>2, <2>4, <3>4 DEF AddShare
  <2>5. CASE RemoveShare
    <3>1. PICK i \in DOMAIN conf : conf' = RemoveAt(conf, i)
      BY <2>5 DEF RemoveShare
    <3>2. /\ conf \in Seq(DOMAIN Real) /\ Len(conf) \in Nat /\ i \in 1 .. Len(conf)
          /\ \A j \in 1 .. Len(conf) : conf[j] \in DOMAIN Real
      BY <3>1 DEF SourcesOK
    <3> DEFINE front == SubSeq(conf, 1, i - 1)
               back == SubSeq(conf, i + 1, Len(conf))
    <3>3. front \in Seq(DOMAIN Real) /\ Len(front) = i - 1
      BY <3>2, SubSeqProperties
    <3>4. back \in Seq(DOMAIN Real) /\ Len(back) = Len(conf) - i
      BY <3>2, SubSeqProperties
    <3>0. conf' = front \o back
      BY <3>1, Zenon DEF RemoveAt
    <3> HIDE DEF front, back
    <3>7. /\ front \o back \in Seq(DOMAIN Real)
          /\ Len(front \o back) = Len(front) + Len(back)
      BY <3>3, <3>4, ConcatProperties
    <3>5. conf' \in Seq(DOMAIN Real) /\ Len(conf') = Len(conf) - 1
      BY <3>0, <3>2, <3>3, <3>4, <3>7
    <3>6. SourcesOK'
      BY <2>5, <3>2, <3>5, MaxSharesAssumption DEF RemoveShare, SourcesOK
    <3> QED BY <2>2, <2>5, <3>6 DEF RemoveShare
  <2>6. CASE ChangeVolumes
    <3>1. SourcesOK'
      BY <2>6 DEF ChangeVolumes, SourcesOK
    <3> QED BY <2>2, <2>6, <3>1 DEF ChangeVolumes
  <2>7. CASE ChangeMounts
    <3>1. listed' \subseteq DOMAIN Real
      BY <2>7, UniqueSharesAre DEF ChangeMounts, SourcesOK
    <3>2. SourcesOK'
      BY <2>7, <3>1 DEF ChangeMounts, SourcesOK
    <3> QED BY <2>2, <2>7, <3>2 DEF ChangeMounts
  <2>8. CASE UNCHANGED storageVars
    <3>1. SourcesOK'
      BY <2>8 DEF storageVars, SourcesOK
    <3> QED BY <2>2, <2>8, <3>1 DEF storageVars
  <2> QED
    BY <2>3, <2>4, <2>5, <2>6, <2>7, <2>8 DEF StorageNext
<1> QED BY <1>1, <1>2, PTL DEF StorageSpec

(* Whatever shares, aliases, volumes and measured sizes there are, the     *)
(* summary is well typed: in particular no more is used than there is.     *)
THEOREM StorageTypeCorrect == StorageSpec => []StorageTypeOK
<1>1. StorageInv => StorageTypeOK
  <2> SUFFICES ASSUME StorageInv PROVE StorageTypeOK
    OBVIOUS
  <2>1. /\ Summary.shareCount \in 0 .. MaxShares /\ Summary.scanComplete \in BOOLEAN
        /\ Summary.poolCount \in Nat /\ Summary.total \in Nat
        /\ Summary.used \in Nat /\ Summary.free \in Nat
    <3>1. Complete \in BOOLEAN
      BY DEF Complete
    <3>2. Summary.used \in Nat /\ Summary.used <= Summary.total
      BY SummaryIs, ShownIs DEF Clamp, StorageInv
    <3> QED BY <3>1, <3>2, SummaryIs, UniqueSharesAre DEF StorageInv
  <2>2. Summary = [shareCount |-> Summary.shareCount, scanComplete |-> Summary.scanComplete,
                   poolCount |-> Summary.poolCount, total |-> Summary.total,
                   used |-> Summary.used, free |-> Summary.free]
    BY Zenon DEF Summary
  <2>3. Summary \in [shareCount : 0 .. MaxShares, scanComplete : BOOLEAN,
                     poolCount : Nat, total : Nat, used : Nat, free : Nat]
    BY <2>1, <2>2
  <2> QED BY <2>3 DEF StorageTypeOK, StorageInv, SourcesOK, SizesOK
<1> QED BY <1>1, StorageInductive, PTL

(* The data of the shares is counted once, for every tree of directories,  *)
(* every list of shares with aliases and shares inside of shares, and      *)
(* whatever volumes can be read (host.go:332-359, 366-380).                *)
THEOREM DataIsCountedOnce == StorageSpec => []DataCountedOnce
<1>1. StorageInv => DataCountedOnce
  <2> SUFFICES ASSUME StorageInv PROVE DataCountedOnce
    OBVIOUS
  <2>0. SourcesOK
    BY DEF StorageInv
  <2>1. Measured <= Cardinality(Reached) /\ Cardinality(Reached) \in Nat
    BY MeasuredIs, CountedIsReached, FS_Subset, FS_CardinalityType DEF StorageInv
  <2>2. Complete => Measured = Cardinality(Reached)
    BY MeasuredIs, CountedIsReached DEF StorageInv, Complete
  <2>3. CASE Complete
    BY <2>0, <2>2, <2>3, SummaryIs DEF DataCountedOnce, Shown
  <2>4. CASE ~Complete /\ Shown = Measured
    <3>1. Summary.used <= Measured
      BY <2>0, <2>4, SummaryIs, ShownIs DEF Clamp
    <3>2. Summary.used \in Nat
      BY <2>0, SummaryIs, ShownIs DEF Clamp
    <3> QED BY <2>0, <2>1, <2>4, <3>1, <3>2, SummaryIs, ShownIs DEF DataCountedOnce
  <2>5. CASE ~Complete /\ \E i \in Volumes : Shown = VolumeList[i].used
    BY <2>0, <2>5, SummaryIs DEF DataCountedOnce
  <2> QED BY <2>3, <2>4, <2>5, ShownIs
<1> QED BY <1>1, StorageInductive, PTL

(* A scan leaves no share unmeasured that the summary waits for: what it   *)
(* measures are the same shares that the summary counts, aliases gone.     *)
THEOREM ScansComplete == StorageSpec => ScanCompletes
<1>1. StorageInv /\ Scan => (conf # <<>> => Complete')
  <2> SUFFICES ASSUME StorageInv, Scan, conf # <<>> PROVE Complete'
    OBVIOUS
  <2>2. UniqueShares' = UniqueShares
    BY DEF Scan, UniqueShares
  <2>3. Scanned' = UniqueShares
    BY DEF Scan, Scanned
  <2>4. Known' \subseteq UniqueShares'
    BY DEF Known
  <2> QED BY <2>2, <2>3, <2>4, UniqueSharesAre DEF Complete, StorageInv
<1> QED BY <1>1, StorageInductive, PTL DEF ScanCompletes

-----------------------------------------------------------------------------
(* The pools.                                                              *)

(* Dropping aliases drops no volume.                                       *)
LEMMA SharedAreHolding ==
    ASSUME SourcesOK
    PROVE  SharedVolumes = Holding
<1>1. ASSUME NEW j \in Volumes, NEW p \in ToSet(conf), Head(Real[p]) = VolumeList[j].name
      PROVE  VolumeList[j] \in Holding
  <2>1. PICK q \in UniqueShares : Real[q] = Real[p]
    BY UniqueSharesAre
  <2>2. q \in Known
    BY <1>1, <2>1 DEF Known
  <2>3. VolumeOf(q) = VolumeList[j]
    BY <1>1, <2>1, <2>2, KnownAre
  <2> QED BY <2>2, <2>3 DEF Holding
<1>2. ASSUME NEW p \in Known PROVE VolumeOf(p) \in SharedVolumes
  <2>1. PICK i \in Volumes : VolumeOf(p) = VolumeList[i]
    BY KnownAre
  <2>2. p \in ToSet(conf) /\ Head(Real[p]) = VolumeList[i].name
    BY <2>1, KnownAre, UniqueSharesAre
  <2> QED BY <2>1, <2>2 DEF SharedVolumes
<1> QED BY <1>1, <1>2 DEF SharedVolumes, Holding

OfPool(pool) == {w \in Holding : w.pool = pool}

LEMMA TrueTotalsAre ==
    ASSUME SourcesOK
    PROVE  /\ IsFiniteSet(TruePools) /\ (TruePools # {} => Holding # {})
           /\ \A v \in Holding : v.pool \in TruePools
           /\ \A pool \in TruePools :
                 /\ OfPool(pool) # {}
                 /\ TrueTotals[pool] \in Nat
                 /\ \E v \in OfPool(pool) : v.total = TrueTotals[pool]
                 /\ \A v \in OfPool(pool) : v.total <= TrueTotals[pool]
<1> DEFINE f == [v \in Holding |-> v.pool]
<1>1. TruePools = {v.pool : v \in Holding}
  BY SharedAreHolding DEF TruePools
<1>2. IsFiniteSet(TruePools)
  <2>1. f \in Surjection(Holding, TruePools)
    BY <1>1 DEF Surjection
  <2> HIDE DEF f
  <2> QED BY <2>1, HoldingIs, FS_Surjection
<1>3. ASSUME NEW pool \in TruePools
      PROVE  /\ OfPool(pool) # {}
             /\ TrueTotals[pool] \in Nat
             /\ \E v \in OfPool(pool) : v.total = TrueTotals[pool]
             /\ \A v \in OfPool(pool) : v.total <= TrueTotals[pool]
  <2>1. OfPool(pool) \in SUBSET Volume /\ OfPool(pool) # {} /\ IsFiniteSet(OfPool(pool))
    BY <1>1, HoldingIs, FS_Subset DEF OfPool
  <2>2. TrueTotals[pool] = Largest({w.total : w \in OfPool(pool)})
    BY SharedAreHolding DEF TrueTotals, OfPool
  <2> QED BY <2>1, <2>2, LargestTotal
<1> QED BY <1>1, <1>2, <1>3

(* A share with a given key, and the pool that is below it.                *)
Witness(key) == CHOOSE p \in Known : VolumeOf(p).total > 0 /\ PoolKey(p) = key

PoolOf(p) == VolumeOf(p).pool

LEMMA WitnessIs ==
    ASSUME SourcesOK, NEW key \in Pools
    PROVE  Witness(key) \in Known /\ PoolKey(Witness(key)) = key
BY PoolTotalsAre DEF Witness

(* A device is one pool, and the volumes of a pool without one have the    *)
(* same key; volumes of one key are of one pool or of one size.            *)
LEMMA KeysOfPools ==
    ASSUME SourcesOK, NEW p \in Known, NEW q \in Known
    PROVE  /\ /\ p \in listed <=> q \in listed
              /\ p \in listed \/ DatasetsShareCapacity
              /\ PoolOf(p) = PoolOf(q)
              => PoolKey(p) = PoolKey(q)
           /\ PoolKey(p) = PoolKey(q) =>
                 PoolOf(p) = PoolOf(q) \/ VolumeOf(p).total = VolumeOf(q).total
<1> DEFINE v == VolumeOf(p)
           w == VolumeOf(q)
<1>1. PICK i \in Volumes, j \in Volumes : v = VolumeList[i] /\ w = VolumeList[j]
  BY KnownAre
<1>2. i \in DOMAIN VolumeList /\ j \in DOMAIN VolumeList
  BY DEF Volumes
<1>3. v.name = w.name => v = w
  BY <1>1, <1>2, VolumesAssumption
<1>4. /\ PoolKey(p) = IF p \in listed THEN <<"mount", v.pool>>
                      ELSE IF v.zfs THEN <<"capacity", v.total>> ELSE <<"volume", v.name>>
      /\ PoolKey(q) = IF q \in listed THEN <<"mount", w.pool>>
                      ELSE IF w.zfs THEN <<"capacity", w.total>> ELSE <<"volume", w.name>>
  BY DEF PoolKey
<1>5. v.pool = w.pool /\ DatasetsShareCapacity =>
         v = w \/ (v.zfs /\ w.zfs /\ v.total = w.total)
  BY <1>1, <1>2 DEF DatasetsShareCapacity
<1> HIDE DEF v, w
<1>6. /\ p \in listed <=> q \in listed
      /\ p \in listed \/ DatasetsShareCapacity
      /\ v.pool = w.pool
      => PoolKey(p) = PoolKey(q)
  BY <1>4, <1>5
<1>7. PoolKey(p) = PoolKey(q) => v.pool = w.pool \/ v.total = w.total
  BY <1>3, <1>4
<1> QED BY <1>6, <1>7 DEF v, w, PoolOf

(* The keys by which a pool is counted once more.                          *)
Again == {key \in Pools : Witness(key) \notin listed /\ PoolOf(Witness(key)) \in Mixed}

LEMMA MixedAre ==
    ASSUME SourcesOK
    PROVE  /\ Mixed \subseteq TruePools /\ IsFiniteSet(Mixed)
           /\ \A p \in Known \ listed, q \in Known \cap listed :
                 PoolOf(p) = PoolOf(q) => PoolOf(p) \in Mixed
           /\ Known \subseteq listed => Mixed = {}
<1>1. Mixed \subseteq TruePools
  BY TrueTotalsAre DEF Mixed, Holding
<1>2. IsFiniteSet(Mixed)
  BY <1>1, TrueTotalsAre, FS_Subset
<1> QED BY <1>1, <1>2 DEF Mixed, PoolOf

(* No pool is counted twice but those, ...                                 *)
LEMMA PoolsNotTwice ==
    ASSUME SourcesOK, Known \subseteq listed \/ DatasetsShareCapacity
    PROVE  /\ Capacity <= SumFunctionOnSet(TrueTotals, TruePools)
                             + SumFunctionOnSet(TrueTotals, Mixed)
           /\ Cardinality(Pools) <= Cardinality(TruePools) + Cardinality(Mixed)
<1> DEFINE Once == Pools \ Again
           h(S) == [key \in S |-> PoolOf(Witness(key))]
           a == h(Again)
           o == h(Once)
<1>1. \A key \in Pools : PoolOf(Witness(key)) \in TruePools
  BY WitnessIs, TrueTotalsAre DEF PoolOf, Holding
<1>2. a \in [Again -> Mixed] /\ o \in [Once -> TruePools]
  BY <1>1 DEF Again
<1>3. ASSUME NEW key \in Pools, NEW other \in Pools,
             PoolOf(Witness(key)) = PoolOf(Witness(other)),
             Witness(key) \in listed <=> Witness(other) \in listed
      PROVE  key = other
  <2>1. Witness(key) \in Known /\ Witness(other) \in Known
        /\ PoolKey(Witness(key)) = key /\ PoolKey(Witness(other)) = other
    BY WitnessIs
  <2>2. Witness(key) \in listed \/ DatasetsShareCapacity
    BY <2>1
  <2> QED BY <1>3, <2>1, <2>2, KeysOfPools
<1>4. \A key, other \in Again : a[key] = a[other] => key = other
  <2> SUFFICES ASSUME NEW key \in Again, NEW other \in Again, a[key] = a[other]
               PROVE  key = other
    OBVIOUS
  <2>1. /\ key \in Pools /\ other \in Pools
        /\ Witness(key) \notin listed /\ Witness(other) \notin listed
        /\ PoolOf(Witness(key)) = PoolOf(Witness(other))
    BY DEF Again
  <2> QED BY <1>3, <2>1
<1>5. \A key, other \in Once : o[key] = o[other] => key = other
  <2> SUFFICES ASSUME NEW key \in Once, NEW other \in Once, o[key] = o[other]
               PROVE  key = other
    OBVIOUS
  <2>1. /\ key \in Pools /\ other \in Pools
        /\ PoolOf(Witness(key)) = PoolOf(Witness(other))
        /\ Witness(key) \in Known /\ Witness(other) \in Known
    BY WitnessIs
  <2>2. Witness(key) \in listed <=> Witness(other) \in listed
    BY <2>1, MixedAre DEF Again
  <2> QED BY <1>3, <2>1, <2>2
<1>6. ASSUME NEW key \in Pools
      PROVE  /\ PoolTotals[key] \in Int
             /\ PoolTotals[key] <= TrueTotals[PoolOf(Witness(key))]
  <2>1. PICK p \in Known : PoolKey(p) = key /\ VolumeOf(p).total = PoolTotals[key]
    BY PoolTotalsAre DEF OfKey
  <2>2. Witness(key) \in Known /\ PoolKey(Witness(key)) = key
    BY WitnessIs
  <2>3. PoolOf(p) = PoolOf(Witness(key)) \/ VolumeOf(p).total = VolumeOf(Witness(key)).total
    BY <2>1, <2>2, KeysOfPools
  <2>4. VolumeOf(Witness(key)) \in OfPool(PoolOf(Witness(key)))
    BY <2>2 DEF OfPool, Holding, PoolOf
  <2>5. PoolOf(p) = PoolOf(Witness(key)) => VolumeOf(p) \in OfPool(PoolOf(Witness(key)))
    BY <2>1 DEF OfPool, Holding, PoolOf
  <2> QED BY <1>1, <2>1, <2>3, <2>4, <2>5, PoolTotalsAre, TrueTotalsAre
<1>7. /\ IsFiniteSet(TruePools) /\ IsFiniteSet(Mixed) /\ Mixed \subseteq TruePools
      /\ \A pool \in TruePools : TrueTotals[pool] \in Nat
  BY TrueTotalsAre, MixedAre
<1>8. IsFiniteSet(Pools) /\ Again \in SUBSET Pools
  BY PoolTotalsAre DEF Again
<1>9. IsFiniteSet(Again) /\ IsFiniteSet(Once)
  BY <1>8, FS_Subset
<1>10. \A key \in Again : PoolTotals[key] \in Int /\ PoolTotals[key] <= TrueTotals[a[key]]
  BY <1>6 DEF Again
<1>11. \A key \in Once : PoolTotals[key] \in Int /\ PoolTotals[key] <= TrueTotals[o[key]]
  BY <1>6
<1>12. Capacity = SumFunctionOnSet(PoolTotals, Again) + SumFunctionOnSet(PoolTotals, Once)
  BY <1>6, <1>8, SumSplit DEF Capacity
<1>13. /\ SumFunctionOnSet(PoolTotals, Again) \in Int
       /\ SumFunctionOnSet(PoolTotals, Once) \in Int
       /\ SumFunctionOnSet(TrueTotals, Mixed) \in Int
       /\ SumFunctionOnSet(TrueTotals, TruePools) \in Int
  <2> HIDE DEF a, o, h, Once
  <2>1. \A pool \in TruePools : TrueTotals[pool] \in Int
    BY <1>7
  <2>2. \A pool \in Mixed : TrueTotals[pool] \in Int
    BY <1>7, <2>1
  <2> QED BY <1>7, <1>9, <1>10, <1>11, <2>1, <2>2, SumType
<1> HIDE DEF a, o, h
<1>14. SumFunctionOnSet(PoolTotals, Again) <= SumFunctionOnSet(TrueTotals, Mixed)
  BY <1>2, <1>4, <1>7, <1>10, SumMapped
<1>15. SumFunctionOnSet(PoolTotals, Once) <= SumFunctionOnSet(TrueTotals, TruePools)
  BY <1>2, <1>5, <1>7, <1>11, SumMapped
<1>16. a \in Injection(Again, Mixed) /\ o \in Injection(Once, TruePools)
  BY <1>2, <1>4, <1>5 DEF Injection, IsInjective
<1>17. /\ Cardinality(Again) <= Cardinality(Mixed)
       /\ Cardinality(Once) <= Cardinality(TruePools)
  BY <1>7, <1>16, FS_Injection
<1>18. Cardinality(Pools) = Cardinality(Again) + Cardinality(Once)
  <2>1. Again \cup Once = Pools /\ Again \cap Once = {}
    BY <1>8
  <2> HIDE DEF Once
  <2>2. Cardinality(Pools) = Cardinality(Again) + Cardinality(Once) - Cardinality({})
    BY <1>9, <2>1, FS_Union
  <2>3. Cardinality(Again) \in Nat /\ Cardinality(Once) \in Nat /\ Cardinality({}) = 0
    BY <1>9, FS_CardinalityType, FS_EmptySet
  <2> QED BY <2>2, <2>3
<1>19. /\ Cardinality(Again) \in Nat /\ Cardinality(Once) \in Nat
       /\ Cardinality(Mixed) \in Nat /\ Cardinality(TruePools) \in Nat
  BY <1>7, <1>9, FS_CardinalityType
<1> HIDE DEF Once
<1> QED BY <1>12, <1>13, <1>14, <1>15, <1>17, <1>18, <1>19

(* ... and when /proc/mounts has a line for each share none is left out.   *)
LEMMA PoolsNotMissed ==
    ASSUME SourcesOK, VolumesHaveSize, Known \subseteq listed
    PROVE  /\ SumFunctionOnSet(TrueTotals, TruePools) <= Capacity
           /\ Cardinality(TruePools) <= Cardinality(Pools)
<1> DEFINE h == [pool \in TruePools |-> <<"mount", pool>>]
<1>0. \A p \in Known : PoolKey(p) = <<"mount", VolumeOf(p).pool>> /\ VolumeOf(p).total > 0
  <2>1. \A p \in Known : VolumeOf(p) \in Holding
    BY DEF Holding
  <2> QED BY <2>1, HoldingIs DEF PoolKey, VolumesHaveSize
<1>1. h \in [TruePools -> Pools]
  <2> SUFFICES ASSUME NEW pool \in TruePools PROVE <<"mount", pool>> \in Pools
    OBVIOUS
  <2>1. PICK p \in Known : VolumeOf(p).pool = pool
    BY TrueTotalsAre DEF OfPool, Holding
  <2> QED BY <1>0, <2>1 DEF Pools
<1>2. \A pool, other \in TruePools : h[pool] = h[other] => pool = other
  OBVIOUS
<1>3. ASSUME NEW pool \in TruePools
      PROVE  TrueTotals[pool] \in Int /\ TrueTotals[pool] <= PoolTotals[h[pool]]
  <2>1. PICK p \in Known : VolumeOf(p).pool = pool /\ VolumeOf(p).total = TrueTotals[pool]
    BY TrueTotalsAre DEF OfPool, Holding
  <2>2. VolumeOf(p) \in OfKey(h[pool])
    BY <1>0, <2>1 DEF OfKey
  <2>3. h[pool] \in Pools
    BY <1>1
  <2> HIDE DEF h
  <2> QED BY <2>1, <2>2, <2>3, PoolTotalsAre, TrueTotalsAre
<1>4. IsFiniteSet(Pools) /\ \A key \in Pools : PoolTotals[key] \in Nat
  BY PoolTotalsAre
<1> HIDE DEF h
<1>5. SumFunctionOnSet(TrueTotals, TruePools) <= Capacity
  BY <1>1, <1>2, <1>3, <1>4, SumMapped DEF Capacity
<1>6. h \in Injection(TruePools, Pools)
  BY <1>1, <1>2 DEF Injection, IsInjective
<1> QED BY <1>4, <1>5, <1>6, FS_Injection

(* With a share on a readable volume there is a capacity.                  *)
LEMMA CapacityPositive ==
    ASSUME SourcesOK, VolumesHaveSize, Holding # {}
    PROVE  Capacity # 0
<1>1. PICK p \in Known : VolumeOf(p).total > 0 /\ VolumeOf(p) \in Holding
  BY HoldingIs DEF VolumesHaveSize, Holding
<1> DEFINE key == PoolKey(p)
<1>2. key \in Pools /\ VolumeOf(p) \in OfKey(key)
  BY <1>1 DEF Pools, OfKey
<1> HIDE DEF key
<1>3. PoolTotals[key] \in Nat /\ PoolTotals[key] > 0
  <2>1. VolumeOf(p).total \in Nat
    BY <1>1, HoldingIs DEF Volume
  <2> QED BY <1>1, <1>2, <2>1, PoolTotalsAre
<1>4. IsFiniteSet(Pools \ {key}) /\ \A other \in Pools : PoolTotals[other] \in Nat
  BY PoolTotalsAre, FS_Subset
<1>5. Capacity = PoolTotals[key] + SumFunctionOnSet(PoolTotals, Pools \ {key})
  BY <1>2, <1>4, PoolTotalsAre, SumRemove DEF Capacity
<1>6. SumFunctionOnSet(PoolTotals, Pools \ {key}) \in Nat
  BY <1>4, SumOfNaturals
<1> QED BY <1>3, <1>5, <1>6

LEMMA PoolsOnce ==
    ASSUME SourcesOK, VolumesHaveSize, Known \subseteq listed \/ DatasetsShareCapacity
    PROVE  PoolsCountedOnce
<1> DEFINE truth == SumFunctionOnSet(TrueTotals, TruePools)
           again == SumFunctionOnSet(TrueTotals, Mixed)
<1> SUFFICES ASSUME TruePools # {}
             PROVE  /\ Summary.total <= truth + again
                    /\ Summary.poolCount <= Cardinality(TruePools) + Cardinality(Mixed)
                    /\ Known \subseteq listed =>
                          /\ Summary.total = truth
                          /\ Summary.poolCount = Cardinality(TruePools)
  BY DEF PoolsCountedOnce
<1>1. Summary.total = Capacity /\ Summary.poolCount = Cardinality(Pools)
  BY TrueTotalsAre, CapacityPositive, SummaryIs
<1>2. /\ Capacity <= truth + again
      /\ Cardinality(Pools) <= Cardinality(TruePools) + Cardinality(Mixed)
  BY PoolsNotTwice
<1>3. Known \subseteq listed =>
         /\ truth <= Capacity /\ Cardinality(TruePools) <= Cardinality(Pools)
         /\ again = 0 /\ Cardinality(Mixed) = 0
  <2>1. SumFunctionOnSet(TrueTotals, {}) = 0 /\ Cardinality({}) = 0
    BY SumUnfold, FS_EmptySet
  <2> QED BY <2>1, PoolsNotMissed, MixedAre
<1>4. /\ Capacity \in Nat /\ Cardinality(Pools) \in Nat
      /\ truth \in Nat /\ Cardinality(TruePools) \in Nat
  BY CapacityType, TrueTotalsAre, SumOfNaturals, FS_CardinalityType
<1> HIDE DEF truth, again
<1> QED BY <1>1, <1>2, <1>3, <1>4

(* If the datasets of a pool have the capacity the code takes them to have *)
(* (host.go:431-434), the capacity shown is no more than that of the pools *)
(* below the shares, each once, and once more for those that /proc/mounts  *)
(* names for one share and not for another, for whatever volumes, shares   *)
(* and answers of /proc/mounts (host.go:366-386); ...                      *)
THEOREM PoolsAreCountedOnce ==
    ASSUME VolumesHaveSize, DatasetsShareCapacity
    PROVE  StorageSpec => []PoolsCountedOnce
<1>1. StorageInv => PoolsCountedOnce
  BY PoolsOnce DEF StorageInv
<1> QED BY <1>1, StorageInductive, PTL

(* ... and while /proc/mounts has a line for each share, it is that of the *)
(* pools, whatever capacity the datasets have (host.go:411-429).           *)
THEOREM ListedPoolsAreCountedOnce ==
    ASSUME VolumesHaveSize
    PROVE  StorageSpec => [](Known \subseteq listed => PoolsCountedOnce)
<1>1. StorageInv => (Known \subseteq listed => PoolsCountedOnce)
  BY PoolsOnce DEF StorageInv
<1> QED BY <1>1, StorageInductive, PTL
=============================================================================
