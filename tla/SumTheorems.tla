----------------------------- MODULE SumTheorems -----------------------------
(***************************************************************************)
(* Sums of the values of a function over a finite set of indices, the        *)
(* SumFunctionOnSet of module Functions: its defining equation, and what      *)
(* follows from it.  The prover's induction theorems take a predicate as a    *)
(* parameter, which none of its backends can instantiate; the proofs take a   *)
(* minimal counterexample among the finite subsets of a set instead.          *)
(***************************************************************************)
EXTENDS Integers, Sequences, FiniteSets, Functions, FiniteSetTheorems, TLAPS

\* Every nonempty set of finite subsets of S has a minimal member.
LEMMA MinimalSubset ==
  ASSUME NEW S, IsFiniteSet(S), NEW B \in SUBSET SUBSET S, B # {}
  PROVE  \E T \in B : \A U \in B : U \subseteq T => U = T
<1>1. B \subseteq FiniteSubsetsOf(S)
  BY FS_FiniteSubsetsOfFinite
<1>2. PICK T \in B : \A U \in B : ~ <<U, T>> \in StrictSubsetOrdering(S)
  BY <1>1, FS_StrictSubsetOrderingWellFounded, WFMin
<1>3. ASSUME NEW U \in B, U \subseteq T PROVE U = T
  BY <1>2, <1>3 DEF StrictSubsetOrdering
<1> QED BY <1>2, <1>3

\* A member of a set: the one MapThenFoldSet takes first.
Some(s) == CHOOSE x \in s : TRUE

\* g is the function by which the sum of f over U is defined, with the sums over all
\* subsets of U.
Sums(g, f, U) ==
  g = [s \in SUBSET U |-> IF s = {} THEN 0 ELSE f[Some(s)] + g[s \ {Some(s)}]]

\* The sum of the community module is the value of the chosen table of partial sums.
LEMMA SumIsChosen ==
  ASSUME NEW f, NEW U
  PROVE  SumFunctionOnSet(f, U) = (CHOOSE g : Sums(g, f, U))[U]
BY DEF SumFunctionOnSet, FoldFunctionOnSet, MapThenFoldSet, Sums, Some

\* Two such functions agree where both are defined.
LEMMA SumsAgree ==
  ASSUME NEW f, NEW U, NEW V, IsFiniteSet(U), NEW g, NEW h, Sums(g, f, U), Sums(h, f, V),
         NEW s, s \subseteq U, s \subseteq V
  PROVE  g[s] = h[s]
<1> DEFINE B == {t \in SUBSET (U \cap V) : g[t] # h[t]}
<1>1. SUFFICES ASSUME B # {} PROVE FALSE
  OBVIOUS
<1>2. IsFiniteSet(U \cap V)
  BY FS_Intersection
<1>a. B \in SUBSET SUBSET (U \cap V)
  OBVIOUS
<1> HIDE DEF B
<1>3. PICK t \in B : \A u \in B : u \subseteq t => u = t
  BY <1>a, <1>1, <1>2, MinimalSubset
<1> USE DEF B
<1>4. t # {}
  BY <1>3 DEF Sums
<1>5. Some(t) \in t
  BY <1>4 DEF Some
<1>6. t \ {Some(t)} \notin B
  BY <1>3, <1>5
<1>7. g[t \ {Some(t)}] = h[t \ {Some(t)}]
  BY <1>3, <1>6
<1>8. g[t] = f[Some(t)] + g[t \ {Some(t)}]
  BY <1>3, <1>4 DEF Sums
<1>9. h[t] = f[Some(t)] + h[t \ {Some(t)}]
  BY <1>3, <1>4 DEF Sums
<1> QED BY <1>3, <1>7, <1>8, <1>9

\* There is one.
LEMMA SumsExist ==
  ASSUME NEW f, NEW S, IsFiniteSet(S)
  PROVE  \E g : Sums(g, f, S)
<1> DEFINE B == {T \in SUBSET S : ~ \E g : Sums(g, f, T)}
<1>1. SUFFICES ASSUME B # {} PROVE FALSE
  OBVIOUS
<1>a. B \in SUBSET SUBSET S
  OBVIOUS
<1> HIDE DEF B
<1>2. PICK T \in B : \A U \in B : U \subseteq T => U = T
  BY <1>a, <1>1, MinimalSubset
<1> USE DEF B
<1> DEFINE G(V) == CHOOSE g : Sums(g, f, V)
           g == [s \in SUBSET T |-> IF s = {} THEN 0
                                    ELSE f[Some(s)] + G(s \ {Some(s)})[s \ {Some(s)}]]
<1>3. ASSUME NEW V \in SUBSET T, V # T PROVE Sums(G(V), f, V)
  BY <1>2, <1>3
<1> HIDE DEF G
<1>4. ASSUME NEW s \in SUBSET T, s # {}
      PROVE  g[s \ {Some(s)}] = G(s \ {Some(s)})[s \ {Some(s)}]
  <2> DEFINE v == s \ {Some(s)}
             w == v \ {Some(v)}
  <2>1. v \in SUBSET T /\ v # T
    BY <1>4 DEF Some
  <2>2. Sums(G(v), f, v)
    BY <1>3, <2>1
  <2>3. CASE v = {}
    <3>1. G(v)[v] = 0
      BY <2>2, <2>3 DEF Sums
    <3>2. g[v] = 0
      BY <2>1, <2>3
    <3> QED BY <3>1, <3>2
  <2>4. CASE v # {}
    <3>1. w \in SUBSET T /\ w # T /\ w \in SUBSET (v \cap w)
      BY <2>1, <2>4 DEF Some
    <3>2. Sums(G(w), f, w)
      BY <1>3, <3>1
    <3>3. IsFiniteSet(v)
      BY <2>1, FS_Subset
    <3>4. G(v)[w] = G(w)[w]
      <4> HIDE DEF v
      <4>1. w \subseteq v
        OBVIOUS
      <4> HIDE DEF w
      <4> QED BY <2>2, <3>2, <3>3, <4>1, SumsAgree
    <3>5. G(v)[v] = f[Some(v)] + G(v)[w]
      BY <2>2, <2>4 DEF Sums
    <3>6. g[v] = f[Some(v)] + G(w)[w]
      BY <2>1, <2>4
    <3> QED BY <3>4, <3>5, <3>6
  <2> QED BY <2>3, <2>4
<1>5. g = [s \in SUBSET T |-> IF s = {} THEN 0 ELSE f[Some(s)] + g[s \ {Some(s)}]]
  BY <1>4
<1>6. Sums(g, f, T)
  BY <1>5 DEF Sums
<1> QED BY <1>2, <1>6

\* The sum of no values is 0.
LEMMA SumEmpty ==
  ASSUME NEW f
  PROVE  SumFunctionOnSet(f, {}) = 0
<1>1. PICK g : Sums(g, f, {})
  BY FS_EmptySet, SumsExist
<1> DEFINE h == CHOOSE h : Sums(h, f, {})
<1>2. Sums(h, f, {})
  BY <1>1
<1>3. h[{}] = 0
  BY <1>2 DEF Sums
<1> QED BY <1>3, SumIsChosen

\* The defining equation of a sum.
LEMMA SumFirst ==
  ASSUME NEW f, NEW S, IsFiniteSet(S), S # {}
  PROVE  SumFunctionOnSet(f, S) = f[Some(S)] + SumFunctionOnSet(f, S \ {Some(S)})
<1> DEFINE G(V) == CHOOSE g : Sums(g, f, V)
           T == S \ {Some(S)}
<1>1. IsFiniteSet(T)
  BY FS_RemoveElement
<1>2. Sums(G(S), f, S) /\ Sums(G(T), f, T)
  BY <1>1, SumsExist
<1>3. SumFunctionOnSet(f, S) = G(S)[S] /\ SumFunctionOnSet(f, T) = G(T)[T]
  BY SumIsChosen
<1> HIDE DEF G
<1>4. G(S)[T] = G(T)[T]
  <2>1. T \subseteq S
    OBVIOUS
  <2> HIDE DEF T
  <2> QED BY <1>2, <2>1, SumsAgree
<1>5. G(S)[S] = f[Some(S)] + G(S)[T]
  BY <1>2 DEF Sums
<1> QED BY <1>3, <1>4, <1>5

\* The sum of integers is an integer.
LEMMA SumInt ==
  ASSUME NEW f, NEW S, IsFiniteSet(S), \A x \in S : f[x] \in Int
  PROVE  SumFunctionOnSet(f, S) \in Int
<1> DEFINE B == {T \in SUBSET S : SumFunctionOnSet(f, T) \notin Int}
<1>1. SUFFICES ASSUME B # {} PROVE FALSE
  OBVIOUS
<1>a. B \in SUBSET SUBSET S
  OBVIOUS
<1> HIDE DEF B
<1>2. PICK T \in B : \A U \in B : U \subseteq T => U = T
  BY <1>a, <1>1, MinimalSubset
<1> USE DEF B
<1>3. T # {} /\ Some(T) \in T
  BY <1>2, SumEmpty DEF Some
<1>4. SumFunctionOnSet(f, T \ {Some(T)}) \in Int
  BY <1>2, <1>3
<1>5. SumFunctionOnSet(f, T) = f[Some(T)] + SumFunctionOnSet(f, T \ {Some(T)})
  BY <1>2, <1>3, SumFirst, FS_Subset
<1> QED BY <1>2, <1>3, <1>4, <1>5

\* Any one summand may be taken out first.
THEOREM SumRemove ==
  ASSUME NEW f, NEW S, IsFiniteSet(S), \A x \in S : f[x] \in Int, NEW x \in S
  PROVE  SumFunctionOnSet(f, S) = f[x] + SumFunctionOnSet(f, S \ {x})
<1> DEFINE Sum(T) == SumFunctionOnSet(f, T)
           B == {T \in SUBSET S : \E y \in T : Sum(T) # f[y] + Sum(T \ {y})}
<1>1. SUFFICES ASSUME B # {} PROVE FALSE
  OBVIOUS
<1>a. B \in SUBSET SUBSET S
  OBVIOUS
<1> HIDE DEF B
<1>2. PICK T \in B : \A U \in B : U \subseteq T => U = T
  BY <1>a, <1>1, MinimalSubset
<1> USE DEF B
<1>3. PICK y \in T : Sum(T) # f[y] + Sum(T \ {y})
  BY <1>2
<1> DEFINE c == Some(T)
<1>4. c \in T
  BY <1>3 DEF Some
<1>5. IsFiniteSet(T) /\ \A U \in SUBSET T : IsFiniteSet(U)
  BY <1>2, FS_Subset
<1>6. Sum(T) = f[c] + Sum(T \ {c})
  BY <1>3, <1>5, SumFirst
<1>7. c # y
  BY <1>3, <1>6
<1>8. T \ {c} \notin B /\ T \ {y} \notin B
  BY <1>2, <1>3, <1>4
<1>9. Sum(T \ {c}) = f[y] + Sum((T \ {c}) \ {y})
  BY <1>2, <1>3, <1>7, <1>8
<1>10. Sum(T \ {y}) = f[c] + Sum((T \ {y}) \ {c})
  BY <1>2, <1>4, <1>7, <1>8
<1>11. (T \ {c}) \ {y} = (T \ {y}) \ {c}
  OBVIOUS
<1>12. Sum((T \ {c}) \ {y}) \in Int
  BY <1>2, <1>5, SumInt
<1>13. f[c] \in Int /\ f[y] \in Int
  BY <1>2, <1>3, <1>4
<1> HIDE DEF Sum
<1> QED BY <1>3, <1>6, <1>9, <1>10, <1>11, <1>12, <1>13

\* One more summand.
THEOREM SumAdd ==
  ASSUME NEW f, NEW S, IsFiniteSet(S), NEW x, x \notin S, \A y \in S \cup {x} : f[y] \in Int
  PROVE  SumFunctionOnSet(f, S \cup {x}) = f[x] + SumFunctionOnSet(f, S)
<1>1. IsFiniteSet(S \cup {x})
  BY FS_AddElement
<1>2. (S \cup {x}) \ {x} = S
  OBVIOUS
<1>3. SumFunctionOnSet(f, S \cup {x}) = f[x] + SumFunctionOnSet(f, (S \cup {x}) \ {x})
  BY <1>1, SumRemove
<1> QED BY <1>2, <1>3

\* Equal summands give equal sums.
THEOREM SumEqual ==
  ASSUME NEW f, NEW g, NEW S, IsFiniteSet(S), \A x \in S : f[x] = g[x]
  PROVE  SumFunctionOnSet(f, S) = SumFunctionOnSet(g, S)
<1> DEFINE B == {T \in SUBSET S : SumFunctionOnSet(f, T) # SumFunctionOnSet(g, T)}
<1>1. SUFFICES ASSUME B # {} PROVE FALSE
  OBVIOUS
<1>a. B \in SUBSET SUBSET S
  OBVIOUS
<1> HIDE DEF B
<1>2. PICK T \in B : \A U \in B : U \subseteq T => U = T
  BY <1>a, <1>1, MinimalSubset
<1> USE DEF B
<1>3. T # {} /\ Some(T) \in T
  BY <1>2, SumEmpty DEF Some
<1>4. SumFunctionOnSet(f, T \ {Some(T)}) = SumFunctionOnSet(g, T \ {Some(T)})
  BY <1>2, <1>3
<1>5. /\ SumFunctionOnSet(f, T) = f[Some(T)] + SumFunctionOnSet(f, T \ {Some(T)})
      /\ SumFunctionOnSet(g, T) = g[Some(T)] + SumFunctionOnSet(g, T \ {Some(T)})
  BY <1>2, <1>3, SumFirst, FS_Subset
<1> QED BY <1>2, <1>3, <1>4, <1>5

\* The sum of zeros.
THEOREM SumZero ==
  ASSUME NEW f, NEW S, IsFiniteSet(S), \A x \in S : f[x] = 0
  PROVE  SumFunctionOnSet(f, S) = 0
<1> DEFINE B == {T \in SUBSET S : SumFunctionOnSet(f, T) # 0}
<1>1. SUFFICES ASSUME B # {} PROVE FALSE
  OBVIOUS
<1>a. B \in SUBSET SUBSET S
  OBVIOUS
<1> HIDE DEF B
<1>2. PICK T \in B : \A U \in B : U \subseteq T => U = T
  BY <1>a, <1>1, MinimalSubset
<1> USE DEF B
<1>3. T # {} /\ Some(T) \in T
  BY <1>2, SumEmpty DEF Some
<1>4. SumFunctionOnSet(f, T \ {Some(T)}) = 0
  BY <1>2, <1>3
<1>5. SumFunctionOnSet(f, T) = f[Some(T)] + SumFunctionOnSet(f, T \ {Some(T)})
  BY <1>2, <1>3, SumFirst, FS_Subset
<1> QED BY <1>2, <1>3, <1>4, <1>5

\* If all summands are 0 but perhaps one, that one is the sum.
THEOREM SumOnlyOne ==
  ASSUME NEW f, NEW S, IsFiniteSet(S), NEW x \in S, f[x] \in Int, \A y \in S \ {x} : f[y] = 0
  PROVE  SumFunctionOnSet(f, S) = f[x]
<1>1. \A y \in S : f[y] \in Int
  OBVIOUS
<1>2. SumFunctionOnSet(f, S) = f[x] + SumFunctionOnSet(f, S \ {x})
  BY <1>1, SumRemove
<1>3. IsFiniteSet(S \ {x})
  BY FS_RemoveElement
<1>4. SumFunctionOnSet(f, S \ {x}) = 0
  BY <1>3, SumZero
<1> QED BY <1>2, <1>4

\* A sum over one index.
THEOREM SumSingle ==
  ASSUME NEW f, NEW x, f[x] \in Int
  PROVE  SumFunctionOnSet(f, {x}) = f[x]
<1>1. IsFiniteSet({x})
  BY FS_Singleton
<1> QED BY <1>1, SumOnlyOne

\* The sum over two sets without a common index.
THEOREM SumDisjoint ==
  ASSUME NEW f, NEW S, NEW T, IsFiniteSet(S), IsFiniteSet(T), S \cap T = {},
         \A x \in S \cup T : f[x] \in Int
  PROVE  SumFunctionOnSet(f, S \cup T) = SumFunctionOnSet(f, S) + SumFunctionOnSet(f, T)
<1> DEFINE Sum(U) == SumFunctionOnSet(f, U)
           B == {U \in SUBSET T : Sum(S \cup U) # Sum(S) + Sum(U)}
<1>1. SUFFICES ASSUME B # {} PROVE FALSE
  OBVIOUS
<1>a. B \in SUBSET SUBSET T
  OBVIOUS
<1> HIDE DEF B
<1>2. PICK U \in B : \A V \in B : V \subseteq U => V = U
  BY <1>a, <1>1, MinimalSubset
<1> USE DEF B
<1> DEFINE x == Some(U)
           V == U \ {x}
<1>3. Sum(S) \in Int
  BY SumInt
<1>4. U # {}
  <2>1. SUFFICES ASSUME U = {} PROVE FALSE
    OBVIOUS
  <2>2. S \cup U = S
    BY <2>1
  <2>3. Sum({}) = 0
    BY SumEmpty
  <2>4. Sum(S \cup U) # Sum(S) + Sum(U)
    BY <1>2
  <2> HIDE DEF Sum
  <2>5. Sum(S) # Sum(S) + 0
    BY <2>1, <2>2, <2>3, <2>4
  <2> QED BY <1>3, <2>5
<1>5. x \in U
  BY <1>4 DEF Some
<1>6. Sum(S \cup V) = Sum(S) + Sum(V)
  BY <1>2, <1>5
<1>7. IsFiniteSet(V) /\ IsFiniteSet(S \cup V)
  BY <1>2, FS_Subset, FS_Union
<1>8. x \notin V /\ x \notin S \cup V /\ V \cup {x} = U /\ (S \cup V) \cup {x} = S \cup U
  BY <1>2, <1>5
<1>9. f[x] \in Int /\ \A y \in S \cup U : f[y] \in Int
  BY <1>2, <1>5
<1> HIDE DEF V
<1>10. Sum(U) = f[x] + Sum(V)
  BY <1>7, <1>8, <1>9, SumAdd
<1>11. Sum(S \cup U) = f[x] + Sum(S \cup V)
  BY <1>7, <1>8, <1>9, SumAdd
<1>12. Sum(V) \in Int
  BY <1>7, <1>8, <1>9, SumInt
<1> HIDE DEF Sum
<1> QED BY <1>2, <1>3, <1>6, <1>9, <1>10, <1>11, <1>12

\* The sum of sums.
THEOREM SumPlus ==
  ASSUME NEW f, NEW g, NEW h, NEW S, IsFiniteSet(S), \A x \in S : f[x] \in Int,
         \A x \in S : g[x] \in Int, \A x \in S : h[x] = f[x] + g[x]
  PROVE  SumFunctionOnSet(h, S) = SumFunctionOnSet(f, S) + SumFunctionOnSet(g, S)
<1> DEFINE Sum(e, T) == SumFunctionOnSet(e, T)
           B == {T \in SUBSET S : Sum(h, T) # Sum(f, T) + Sum(g, T)}
<1>1. SUFFICES ASSUME B # {} PROVE FALSE
  OBVIOUS
<1>a. B \in SUBSET SUBSET S
  OBVIOUS
<1> HIDE DEF B
<1>2. PICK T \in B : \A U \in B : U \subseteq T => U = T
  BY <1>a, <1>1, MinimalSubset
<1> USE DEF B
<1> DEFINE x == Some(T)
           U == T \ {x}
<1>3. T # {} /\ x \in T
  <2>1. Sum(h, {}) = 0 /\ Sum(f, {}) = 0 /\ Sum(g, {}) = 0
    BY SumEmpty
  <2>2. Sum(h, T) # Sum(f, T) + Sum(g, T)
    BY <1>2
  <2>3. T # {}
    <3> SUFFICES ASSUME T = {} PROVE FALSE
      OBVIOUS
    <3>1. Sum(h, {}) # Sum(f, {}) + Sum(g, {})
      BY <2>2
    <3> HIDE DEF Sum
    <3> QED BY <2>1, <3>1
  <2> QED BY <2>3 DEF Some
<1>4. IsFiniteSet(T) /\ IsFiniteSet(U) /\ U \in SUBSET S /\ U \subseteq T /\ U # T
  BY <1>2, <1>3, FS_Subset
<1>5. Sum(h, U) = Sum(f, U) + Sum(g, U)
  BY <1>2, <1>4
<1>6. Sum(f, U) \in Int /\ Sum(g, U) \in Int
  BY <1>4, SumInt
<1>7. /\ Sum(f, T) = f[x] + Sum(f, U)
      /\ Sum(g, T) = g[x] + Sum(g, U)
      /\ Sum(h, T) = h[x] + Sum(h, U)
  BY <1>3, <1>4, SumFirst
<1>8. h[x] = f[x] + g[x] /\ f[x] \in Int /\ g[x] \in Int
  BY <1>2, <1>3
<1>9. Sum(h, T) # Sum(f, T) + Sum(g, T)
  BY <1>2
<1> HIDE DEF Sum, x, U
<1> QED BY <1>5, <1>6, <1>7, <1>8, <1>9

\* The sum does not depend on what the indices are called.
THEOREM SumReindexed ==
  ASSUME NEW f, NEW g, NEW S, IsFiniteSet(S), NEW R, NEW h \in Bijection(S, R),
         \A x \in S : f[x] = g[h[x]],
         \A x \in S : f[x] \in Int
  PROVE  SumFunctionOnSet(f, S) = SumFunctionOnSet(g, R)
<1> DEFINE Image(T) == {h[x] : x \in T}
<1>b. /\ R = Image(S)
      /\ \A x, y \in S : h[x] = h[y] => x = y
  BY DEF Bijection, Injection, Surjection, IsInjective
<1> DEFINE
           B == {T \in SUBSET S : SumFunctionOnSet(f, T) # SumFunctionOnSet(g, Image(T))}
<1>1. SUFFICES ASSUME B # {} PROVE FALSE
  BY <1>b
<1>a. B \in SUBSET SUBSET S
  OBVIOUS
<1> HIDE DEF B
<1>2. PICK T \in B : \A U \in B : U \subseteq T => U = T
  BY <1>a, <1>1, MinimalSubset
<1> USE DEF B
<1> DEFINE x == Some(T)
           U == T \ {x}
<1>4. T # {}
  <2>1. Image({}) = {}
    OBVIOUS
  <2> QED BY <1>2, <2>1, SumEmpty
<1>5. x \in T
  BY <1>4 DEF Some
<1>6. SumFunctionOnSet(f, U) = SumFunctionOnSet(g, Image(U))
  BY <1>2, <1>5
<1>7. IsFiniteSet(T) /\ IsFiniteSet(Image(T))
  <2>1. IsFiniteSet(T)
    BY <1>2, FS_Subset
  <2> DEFINE k == [y \in T |-> h[y]]
  <2>2. k \in Surjection(T, Image(T))
    BY DEF Surjection
  <2> QED BY <2>1, <2>2, FS_Surjection
<1>8. Image(U) = Image(T) \ {h[x]} /\ h[x] \in Image(T)
  BY <1>b, <1>2, <1>5
<1>9. SumFunctionOnSet(f, T) = f[x] + SumFunctionOnSet(f, U)
  BY <1>2, <1>4, <1>7, SumFirst
<1>10. \A y \in Image(T) : g[y] \in Int
  BY <1>2
<1> HIDE DEF U, Image
<1>11. SumFunctionOnSet(g, Image(T)) = g[h[x]] + SumFunctionOnSet(g, Image(U))
  BY <1>7, <1>8, <1>10, SumRemove
<1>12. f[x] = g[h[x]]
  BY <1>2, <1>5
<1> QED BY <1>2, <1>6, <1>9, <1>11, <1>12
=============================================================================
