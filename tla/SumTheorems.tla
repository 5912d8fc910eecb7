---------------------------- MODULE SumTheorems ----------------------------
(***************************************************************************)
(* What the proofs need to know of sums over finite sets: SumFunction of   *)
(* the community modules, which folds addition over the values of a        *)
(* function. Its definition is recursive; the induction it takes is that   *)
(* every nonempty collection of subsets of a finite set has a minimal one, *)
(* and is stated over a set of sets, not over a predicate.                 *)
(***************************************************************************)
EXTENDS Integers, FiniteSetsExt, Functions, FiniteSetTheorems, WellFoundedInduction, TLAPS

\* A collection of subsets of a finite set that holds a set whenever it holds
\* that set less any of its members, holds them all.
LEMMA FiniteDescent ==
  ASSUME NEW S, IsFiniteSet(S), NEW G,
         \A T \in SUBSET S : (\A x \in T : T \ {x} \in G) => T \in G
  PROVE  \A T \in SUBSET S : T \in G
<1> DEFINE Bad == {T \in SUBSET S : T \notin G}
<1>1. IsWellFoundedOn(StrictSubsetOrdering(S), SUBSET S)
  BY FS_StrictSubsetOrderingWellFounded, FS_FiniteSubsetsOfFinite
<1>2. SUFFICES ASSUME Bad # {} PROVE FALSE
  OBVIOUS
<1>3. PICK T \in Bad : \A U \in Bad : <<U, T>> \notin StrictSubsetOrdering(S)
  <2>1. Bad \subseteq SUBSET S
    OBVIOUS
  <2> HIDE DEF Bad
  <2> QED BY <1>1, <1>2, <2>1, WFMin
<1>4. ASSUME NEW x \in T PROVE T \ {x} \in G
  <2>1. <<T \ {x}, T>> \in StrictSubsetOrdering(S)
    BY DEF StrictSubsetOrdering
  <2> QED BY <1>3, <2>1
<1> QED BY <1>3, <1>4

\* The member that the fold takes first, and what the fold's choice satisfies.
Next1(s) == CHOOSE x \in s : TRUE
SumsOver(F, it, D) == it = [s \in D |-> IF s = {} THEN 0 ELSE F[Next1(s)] + it[s \ {Next1(s)}]]

\* The sum is the value of a function that satisfies the recursion.
LEMMA SumUnfolds ==
  ASSUME NEW F, NEW S
  PROVE  SumFunctionOnSet(F, S) = (CHOOSE it : SumsOver(F, it, SUBSET S))[S]
  BY DEF SumFunctionOnSet, FoldFunctionOnSet, MapThenFoldSet, Next1, SumsOver

\* Two functions that satisfy it are equal.
LEMMA SumsUnique ==
  ASSUME NEW F, NEW T, IsFiniteSet(T), NEW f, NEW g,
         SumsOver(F, f, SUBSET T), SumsOver(F, g, SUBSET T)
  PROVE  \A s \in SUBSET T : f[s] = g[s]
<1> DEFINE G == {s \in SUBSET T : f[s] = g[s]}
<1>1. ASSUME NEW s \in SUBSET T, \A x \in s : s \ {x} \in G PROVE s \in G
  <2>1. CASE s = {}
    BY <2>1 DEF SumsOver
  <2>2. CASE s # {}
    <3>1. Next1(s) \in s
      BY <2>2 DEF Next1
    <3>2. f[s] = F[Next1(s)] + f[s \ {Next1(s)}] /\ g[s] = F[Next1(s)] + g[s \ {Next1(s)}]
      BY <2>2 DEF SumsOver
    <3> QED BY <1>1, <3>1, <3>2
  <2> QED BY <2>1, <2>2
<1>2. \A s \in SUBSET T : s \in G
  <2> HIDE DEF G
  <2> QED BY <1>1, FiniteDescent
<1> QED BY <1>2

\* One satisfies it, so the sum of a set is a member's value and the sum of the
\* others.
LEMMA SumRecursion ==
  ASSUME NEW F, NEW S, IsFiniteSet(S), S # {}
  PROVE  /\ Next1(S) \in S
         /\ SumFunctionOnSet(F, S) = F[Next1(S)] + SumFunctionOnSet(F, S \ {Next1(S)})
<1> DEFINE Sm(s) == SumFunctionOnSet(F, s)
           All(T) == [s \in SUBSET T |-> Sm(s)]
           G == {T \in SUBSET S : SumsOver(F, All(T), SUBSET T)}
<1>1. ASSUME NEW T \in SUBSET S, \A x \in T : T \ {x} \in G PROVE T \in G
  <2> DEFINE h == Next1(T)
             k == [s \in SUBSET T |-> IF s = T THEN IF T = {} THEN 0 ELSE F[h] + Sm(T \ {h}) ELSE Sm(s)]
  <2>1. T # {} => h \in T
    BY DEF Next1
  <2>2. ASSUME NEW s \in SUBSET T, s # T
        PROVE  Sm(s) = IF s = {} THEN 0 ELSE F[Next1(s)] + Sm(s \ {Next1(s)})
    <3>1. PICK x \in T : x \notin s
      BY <2>2
    <3>2. SumsOver(F, All(T \ {x}), SUBSET (T \ {x})) /\ s \in SUBSET (T \ {x})
      BY <1>1, <3>1
    <3>3. All(T \ {x})[s] = IF s = {} THEN 0 ELSE F[Next1(s)] + All(T \ {x})[s \ {Next1(s)}]
      BY <3>2 DEF SumsOver
    <3> QED BY <3>2, <3>3
  <2>3. SumsOver(F, k, SUBSET T)
    <3>1. ASSUME NEW s \in SUBSET T
          PROVE  k[s] = IF s = {} THEN 0 ELSE F[Next1(s)] + k[s \ {Next1(s)}]
      <4>1. s # {} => Next1(s) \in s
        BY DEF Next1
      <4>2. CASE s = T
        <5>1. T # {} => k[T \ {h}] = Sm(T \ {h})
          BY <2>1
        <5> QED BY <4>2, <5>1
      <4>3. CASE s # T
        <5>1. s # {} => k[s \ {Next1(s)}] = Sm(s \ {Next1(s)})
          BY <4>1, <4>3
        <5> QED BY <2>2, <4>3, <5>1
      <4> QED BY <4>2, <4>3
    <3> DEFINE r == [s \in SUBSET T |-> IF s = {} THEN 0 ELSE F[Next1(s)] + k[s \ {Next1(s)}]]
    <3>2. k = r
      BY <3>1
    <3> HIDE DEF k
    <3> QED BY <3>2 DEF SumsOver
  <2> DEFINE it == CHOOSE it : SumsOver(F, it, SUBSET T)
  <2>4. SumsOver(F, it, SUBSET T)
    <3> HIDE DEF k
    <3> QED BY <2>3
  <2>5. Sm(T) = it[T]
    BY SumUnfolds
  <2>6. IsFiniteSet(T)
    BY FS_Subset
  <2>7. it[T] = k[T]
    <3> HIDE DEF k, it
    <3> QED BY <2>3, <2>4, <2>6, SumsUnique
  <2>8. Sm(T) = IF T = {} THEN 0 ELSE F[h] + Sm(T \ {h})
    BY <2>5, <2>7
  <2>9. ASSUME NEW s \in SUBSET T
        PROVE  All(T)[s] = IF s = {} THEN 0 ELSE F[Next1(s)] + All(T)[s \ {Next1(s)}]
    BY <2>2, <2>8
  <2> DEFINE r == [s \in SUBSET T |-> IF s = {} THEN 0 ELSE F[Next1(s)] + All(T)[s \ {Next1(s)}]]
  <2>10. All(T) = r
    BY <2>9
  <2> QED BY <2>10 DEF SumsOver
<1>2. \A T \in SUBSET S : T \in G
  <2> HIDE DEF G
  <2> QED BY <1>1, FiniteDescent
<1>3. S \in G
  BY <1>2
<1>4. Next1(S) \in S
  BY DEF Next1
<1>5. All(S)[S] = F[Next1(S)] + All(S)[S \ {Next1(S)}]
  BY <1>3 DEF SumsOver
<1> QED BY <1>4, <1>5

\* Nothing sums to 0.
LEMMA SumEmpty ==
  ASSUME NEW F
  PROVE SumFunctionOnSet(F, {}) = 0
<1> DEFINE k == [s \in SUBSET {} |-> 0]
<1>1. SumsOver(F, k, SUBSET {})
  <2> DEFINE r == [s \in SUBSET {} |-> IF s = {} THEN 0 ELSE F[Next1(s)] + k[s \ {Next1(s)}]]
  <2>1. k = r
    OBVIOUS
  <2> QED BY <2>1 DEF SumsOver
<1> DEFINE it == CHOOSE it : SumsOver(F, it, SUBSET {})
<1>2. SumsOver(F, it, SUBSET {})
  <2> HIDE DEF k
  <2> QED BY <1>1
<1>3. it[{}] = 0
  <2> HIDE DEF it
  <2> QED BY <1>2 DEF SumsOver
<1> QED BY <1>3, SumUnfolds

-----------------------------------------------------------------------------
\* F has integers on S.
Ints(F, S) == \A x \in S : F[x] \in Int

\* A sum of integers is one.
LEMMA SumIsInt ==
  ASSUME NEW S, IsFiniteSet(S), NEW F, Ints(F, S)
  PROVE  SumFunctionOnSet(F, S) \in Int
<1> DEFINE G == {T \in SUBSET S : SumFunctionOnSet(F, T) \in Int}
<1>1. ASSUME NEW T \in SUBSET S, \A x \in T : T \ {x} \in G PROVE T \in G
  <2>1. CASE T = {}
    BY <2>1, SumEmpty
  <2>2. CASE T # {}
    <3>1. IsFiniteSet(T)
      BY FS_Subset
    <3>2. /\ Next1(T) \in T
          /\ SumFunctionOnSet(F, T) = F[Next1(T)] + SumFunctionOnSet(F, T \ {Next1(T)})
      BY <2>2, <3>1, SumRecursion
    <3>3. F[Next1(T)] \in Int /\ SumFunctionOnSet(F, T \ {Next1(T)}) \in Int
      BY <1>1, <3>2 DEF Ints
    <3> QED BY <3>2, <3>3
  <2> QED BY <2>1, <2>2
<1>2. \A T \in SUBSET S : T \in G
  <2> HIDE DEF G
  <2> QED BY <1>1, FiniteDescent
<1> QED BY <1>2

\* Any member may be taken out first.
LEMMA SumWithout ==
  ASSUME NEW S, IsFiniteSet(S), NEW F, Ints(F, S), NEW x \in S
  PROVE  SumFunctionOnSet(F, S) = F[x] + SumFunctionOnSet(F, S \ {x})
<1> DEFINE Sm(T) == SumFunctionOnSet(F, T)
           G == {T \in SUBSET S : \A y \in T : Sm(T) = F[y] + Sm(T \ {y})}
<1>1. ASSUME NEW T \in SUBSET S, \A y \in T : T \ {y} \in G PROVE T \in G
  <2> SUFFICES ASSUME NEW y \in T PROVE Sm(T) = F[y] + Sm(T \ {y})
    OBVIOUS
  <2> DEFINE h == Next1(T)
  <2>1. IsFiniteSet(T) /\ IsFiniteSet(T \ {y}) /\ IsFiniteSet(T \ {h}) /\ IsFiniteSet((T \ {h}) \ {y})
    BY FS_Subset
  <2>2. h \in T /\ Sm(T) = F[h] + Sm(T \ {h})
    BY <2>1, SumRecursion
  <2>3. CASE h = y
    BY <2>2, <2>3
  <2>4. CASE h # y
    <3>1. Sm(T \ {h}) = F[y] + Sm((T \ {h}) \ {y})
      BY <1>1, <2>2, <2>4
    <3>2. Sm(T \ {y}) = F[h] + Sm((T \ {y}) \ {h})
      BY <1>1, <2>2, <2>4
    <3>3. (T \ {h}) \ {y} = (T \ {y}) \ {h}
      OBVIOUS
    <3>4. Sm((T \ {h}) \ {y}) \in Int /\ F[h] \in Int /\ F[y] \in Int
      BY <2>1, <2>2, SumIsInt DEF Ints
    <3>5. Sm(T) = F[h] + (F[y] + Sm((T \ {y}) \ {h}))
      BY <2>2, <3>1, <3>3
    <3>6. Sm((T \ {y}) \ {h}) \in Int
      BY <3>3, <3>4
    <3> HIDE DEF Sm, h
    <3> QED BY <3>2, <3>4, <3>5, <3>6
  <2> QED BY <2>3, <2>4
<1>2. \A T \in SUBSET S : T \in G
  <2> HIDE DEF G
  <2> QED BY <1>1, FiniteDescent
<1>3. S \in G
  BY <1>2
<1> QED BY <1>3

\* Functions that agree on a set have the same sum over it.
LEMMA SumAgrees ==
  ASSUME NEW S, IsFiniteSet(S), NEW E, NEW F, \A x \in S : E[x] = F[x]
  PROVE  SumFunctionOnSet(E, S) = SumFunctionOnSet(F, S)
<1> DEFINE G == {T \in SUBSET S : SumFunctionOnSet(E, T) = SumFunctionOnSet(F, T)}
<1>1. ASSUME NEW T \in SUBSET S, \A x \in T : T \ {x} \in G PROVE T \in G
  <2>1. CASE T = {}
    BY <2>1, SumEmpty
  <2>2. CASE T # {}
    <3>1. IsFiniteSet(T)
      BY FS_Subset
    <3>2. /\ Next1(T) \in T
          /\ SumFunctionOnSet(E, T) = E[Next1(T)] + SumFunctionOnSet(E, T \ {Next1(T)})
          /\ SumFunctionOnSet(F, T) = F[Next1(T)] + SumFunctionOnSet(F, T \ {Next1(T)})
      BY <2>2, <3>1, SumRecursion
    <3> QED BY <1>1, <3>2
  <2> QED BY <2>1, <2>2
<1>2. \A T \in SUBSET S : T \in G
  <2> HIDE DEF G
  <2> QED BY <1>1, FiniteDescent
<1> QED BY <1>2

\* SumFunction sums over the domain.
LEMMA SumDomain ==
  ASSUME NEW f
  PROVE  SumFunction(f) = SumFunctionOnSet(f, DOMAIN f)
  BY DEF SumFunction, FoldFunction, SumFunctionOnSet

-----------------------------------------------------------------------------
\* f restricted to S.
On(f, S) == [x \in S |-> f[x]]

\* The same sum, of the restricted function.
LEMMA SumOn ==
  ASSUME NEW S, IsFiniteSet(S), NEW f
  PROVE  SumFunction(On(f, S)) = SumFunctionOnSet(f, S)
<1>1. DOMAIN On(f, S) = S /\ \A x \in S : On(f, S)[x] = f[x]
  BY DEF On
<1>2. SumFunction(On(f, S)) = SumFunctionOnSet(On(f, S), S)
  BY <1>1, SumDomain
<1>3. SumFunctionOnSet(On(f, S), S) = SumFunctionOnSet(f, S)
  <2> SUFFICES ASSUME NEW g, \A x \in S : g[x] = f[x]
               PROVE  SumFunctionOnSet(g, S) = SumFunctionOnSet(f, S)
    BY <1>1
  <2> QED BY SumAgrees
<1> QED BY <1>2, <1>3

\* SumIsInt, of a whole function.
LEMMA SumInt ==
  ASSUME NEW f, IsFiniteSet(DOMAIN f), \A x \in DOMAIN f : f[x] \in Int
  PROVE  SumFunction(f) \in Int
  BY SumDomain, SumIsInt DEF Ints

\* SumEmpty, of a whole function.
LEMMA SumNothing ==
  ASSUME NEW f, DOMAIN f = {}
  PROVE  SumFunction(f) = 0
  BY SumDomain, SumEmpty

\* One more member adds its value.
LEMMA SumExtends ==
  ASSUME NEW S, IsFiniteSet(S), NEW x, x \notin S, NEW f, DOMAIN f = S \cup {x},
         \A y \in S \cup {x} : f[y] \in Int
  PROVE  SumFunction(f) = SumFunction(On(f, S)) + f[x]
<1> DEFINE T == S \cup {x}
<1>1. IsFiniteSet(T) /\ T \ {x} = S /\ x \in T
  BY FS_AddElement
<1>2. SumFunction(f) = SumFunctionOnSet(f, T)
  BY SumDomain
<1>3. Ints(f, T) /\ Ints(f, S)
  BY DEF Ints
<1>4. SumFunctionOnSet(f, T) = f[x] + SumFunctionOnSet(f, S)
  <2> HIDE DEF T
  <2> QED BY <1>1, <1>3, SumWithout
<1>5. SumFunctionOnSet(f, S) \in Int
  BY <1>3, SumIsInt
<1> QED BY <1>2, <1>4, <1>5, SumOn

\* One changed value changes the sum by the difference.
LEMMA SumUpdate ==
  ASSUME NEW S, IsFiniteSet(S), NEW x \in S, NEW f, DOMAIN f = S, NEW g, DOMAIN g = S,
         \A y \in S : f[y] \in Int /\ g[y] \in Int,
         \A y \in S \ {x} : g[y] = f[y]
  PROVE  SumFunction(g) = SumFunction(f) - f[x] + g[x]
<1> DEFINE R == S \ {x}
<1>1. IsFiniteSet(R)
  BY FS_Subset
<1>2. Ints(f, S) /\ Ints(g, S) /\ Ints(f, R)
  BY DEF Ints
<1>3. SumFunction(f) = f[x] + SumFunctionOnSet(f, R) /\ SumFunction(g) = g[x] + SumFunctionOnSet(g, R)
  BY <1>2, SumDomain, SumWithout
<1>4. SumFunctionOnSet(g, R) = SumFunctionOnSet(f, R)
  BY <1>1, SumAgrees
<1>5. SumFunctionOnSet(f, R) \in Int /\ f[x] \in Int /\ g[x] \in Int
  BY <1>1, <1>2, SumIsInt
<1> QED BY <1>3, <1>4, <1>5

\* The sums of two disjoint sets add up.
LEMMA SumSplits ==
  ASSUME NEW S, IsFiniteSet(S), NEW T, IsFiniteSet(T), S \cap T = {}, NEW f, DOMAIN f = S \cup T,
         \A x \in S \cup T : f[x] \in Int
  PROVE  SumFunction(f) = SumFunction(On(f, S)) + SumFunction(On(f, T))
<1> DEFINE Sm(U) == SumFunctionOnSet(f, U)
           G == {U \in SUBSET T : Sm(S \cup U) = Sm(S) + Sm(U)}
<1>0. Sm(S) \in Int
  BY SumIsInt DEF Ints
<1>1. ASSUME NEW U \in SUBSET T, \A x \in U : U \ {x} \in G PROVE U \in G
  <2>1. CASE U = {}
    <3>1. S \cup U = S /\ Sm(U) = 0 /\ Sm(S) + 0 = Sm(S)
      BY <1>0, <2>1, SumEmpty
    <3>2. Sm(S \cup U) = Sm(S) + Sm(U)
      BY <3>1
    <3> QED BY <3>2
  <2>2. CASE U # {}
    <3>1. PICK x \in U : TRUE
      BY <2>2
    <3>2. IsFiniteSet(U) /\ IsFiniteSet(U \ {x}) /\ IsFiniteSet(S \cup U)
      BY FS_Subset, FS_Union
    <3>3. Ints(f, U) /\ Ints(f, S \cup U) /\ Ints(f, U \ {x})
      BY DEF Ints
    <3>4. Sm(U) = f[x] + Sm(U \ {x})
      BY <3>1, <3>2, <3>3, SumWithout
    <3>5. Sm(S \cup U) = f[x] + Sm((S \cup U) \ {x})
      <4> DEFINE V == S \cup U
      <4>1. x \in V /\ IsFiniteSet(V) /\ Ints(f, V)
        BY <3>1, <3>2, <3>3
      <4> HIDE DEF V
      <4>2. SumFunctionOnSet(f, V) = f[x] + SumFunctionOnSet(f, V \ {x})
        BY <4>1, SumWithout
      <4> QED BY <4>2 DEF V
    <3>6. (S \cup U) \ {x} = S \cup (U \ {x})
      BY <3>1
    <3>7. Sm(S \cup (U \ {x})) = Sm(S) + Sm(U \ {x})
      BY <1>1, <3>1
    <3>8. f[x] \in Int /\ Sm(U \ {x}) \in Int
      BY <3>1, <3>2, <3>3, SumIsInt
    <3>9. Sm(S \cup U) = f[x] + (Sm(S) + Sm(U \ {x}))
      BY <3>5, <3>6, <3>7
    <3>10. Sm(S \cup U) = Sm(S) + Sm(U)
      <4> HIDE DEF Sm
      <4> QED BY <1>0, <3>4, <3>8, <3>9
    <3> QED BY <3>10
  <2> QED BY <2>1, <2>2
<1>2. \A U \in SUBSET T : U \in G
  <2> HIDE DEF G
  <2> QED BY <1>1, FiniteDescent
<1>3. T \in G
  BY <1>2
<1> QED BY <1>3, SumDomain, SumOn

\* A sum of sums is the sum of the termwise sums.
LEMMA SumPlus ==
  ASSUME NEW S, IsFiniteSet(S), NEW f, NEW g, NEW h,
         DOMAIN f = S, DOMAIN g = S, DOMAIN h = S,
         \A x \in S : f[x] \in Int /\ g[x] \in Int /\ h[x] = f[x] + g[x]
  PROVE  SumFunction(h) = SumFunction(f) + SumFunction(g)
<1> DEFINE G == {T \in SUBSET S : SumFunctionOnSet(h, T)
                                    = SumFunctionOnSet(f, T) + SumFunctionOnSet(g, T)}
<1>1. ASSUME NEW T \in SUBSET S, \A x \in T : T \ {x} \in G PROVE T \in G
  <2>1. CASE T = {}
    BY <2>1, SumEmpty
  <2>2. CASE T # {}
    <3>1. PICK x \in T : TRUE
      BY <2>2
    <3>2. IsFiniteSet(T) /\ IsFiniteSet(T \ {x})
      BY FS_Subset
    <3>3. Ints(f, T) /\ Ints(g, T) /\ Ints(h, T) /\ Ints(f, T \ {x}) /\ Ints(g, T \ {x})
      BY DEF Ints
    <3> DEFINE a == SumFunctionOnSet(f, T \ {x})
               b == SumFunctionOnSet(g, T \ {x})
               c == SumFunctionOnSet(h, T \ {x})
    <3>4. /\ SumFunctionOnSet(f, T) = f[x] + a
          /\ SumFunctionOnSet(g, T) = g[x] + b
          /\ SumFunctionOnSet(h, T) = h[x] + c
      BY <3>1, <3>2, <3>3, SumWithout
    <3>5. a \in Int /\ b \in Int /\ f[x] \in Int /\ g[x] \in Int /\ h[x] = f[x] + g[x]
      BY <3>1, <3>2, <3>3, SumIsInt
    <3>6. c = a + b
      BY <1>1, <3>1
    <3> HIDE DEF a, b, c
    <3>7. SumFunctionOnSet(h, T) = SumFunctionOnSet(f, T) + SumFunctionOnSet(g, T)
      BY <3>4, <3>5, <3>6
    <3> QED BY <3>7
  <2> QED BY <2>1, <2>2
<1>2. \A T \in SUBSET S : T \in G
  <2> HIDE DEF G
  <2> QED BY <1>1, FiniteDescent
<1>3. S \in G
  BY <1>2
<1> QED BY <1>3, SumDomain

\* Zeros sum to 0.
LEMMA SumZero ==
  ASSUME NEW S, IsFiniteSet(S), NEW f, DOMAIN f = S, \A x \in S : f[x] = 0
  PROVE  SumFunction(f) = 0
<1>1. SumFunction(f) \in Int
  BY SumInt
<1>2. SumFunction(f) = SumFunction(f) + SumFunction(f)
  BY SumPlus
<1>3. \A s \in Int : s = s + s => s = 0
  OBVIOUS
<1> QED BY <1>1, <1>2, <1>3

\* The termwise difference.
LEMMA SumMinus ==
  ASSUME NEW S, IsFiniteSet(S), NEW f, NEW g, NEW h,
         DOMAIN f = S, DOMAIN g = S, DOMAIN h = S,
         \A x \in S : f[x] \in Int /\ g[x] \in Int /\ h[x] = f[x] - g[x]
  PROVE  SumFunction(h) = SumFunction(f) - SumFunction(g)
<1>1. SumFunction(f) \in Int /\ SumFunction(g) \in Int /\ SumFunction(h) \in Int
  BY SumInt
<1>2. SumFunction(f) = SumFunction(h) + SumFunction(g)
  BY SumPlus
<1> QED BY <1>1, <1>2

\* A termwise bound bounds the sum.
LEMMA SumAtMost ==
  ASSUME NEW S, IsFiniteSet(S), NEW f, NEW g, DOMAIN f = S, DOMAIN g = S,
         \A x \in S : f[x] \in Int /\ g[x] \in Int /\ f[x] <= g[x]
  PROVE  SumFunction(f) <= SumFunction(g)
<1> DEFINE G == {T \in SUBSET S : SumFunctionOnSet(f, T) <= SumFunctionOnSet(g, T)}
<1>1. ASSUME NEW T \in SUBSET S, \A x \in T : T \ {x} \in G PROVE T \in G
  <2>1. CASE T = {}
    BY <2>1, SumEmpty
  <2>2. CASE T # {}
    <3>1. PICK x \in T : TRUE
      BY <2>2
    <3>2. IsFiniteSet(T) /\ IsFiniteSet(T \ {x})
      BY FS_Subset
    <3>3. Ints(f, T) /\ Ints(g, T) /\ Ints(f, T \ {x}) /\ Ints(g, T \ {x})
      BY DEF Ints
    <3> DEFINE a == SumFunctionOnSet(f, T \ {x})
               b == SumFunctionOnSet(g, T \ {x})
    <3>4. /\ SumFunctionOnSet(f, T) = f[x] + a
          /\ SumFunctionOnSet(g, T) = g[x] + b
      BY <3>1, <3>2, <3>3, SumWithout
    <3>5. a \in Int /\ b \in Int /\ f[x] \in Int /\ g[x] \in Int /\ f[x] <= g[x]
      BY <3>1, <3>2, <3>3, SumIsInt
    <3>6. a <= b
      BY <1>1, <3>1
    <3> HIDE DEF a, b
    <3>7. SumFunctionOnSet(f, T) <= SumFunctionOnSet(g, T)
      BY <3>4, <3>5, <3>6
    <3> QED BY <3>7
  <2> QED BY <2>1, <2>2
<1>2. \A T \in SUBSET S : T \in G
  <2> HIDE DEF G
  <2> QED BY <1>1, FiniteDescent
<1>3. S \in G
  BY <1>2
<1> QED BY <1>3, SumDomain

\* A sum of naturals is one.
LEMMA SumNat ==
  ASSUME NEW S, IsFiniteSet(S), NEW f, DOMAIN f = S, \A x \in S : f[x] \in Nat
  PROVE  SumFunction(f) \in Nat
<1> DEFINE z == [x \in S |-> 0]
<1>1. DOMAIN z = S /\ \A x \in S : z[x] = 0
  OBVIOUS
<1> HIDE DEF z
<1>2. SumFunction(z) = 0 /\ SumFunction(f) \in Int
  BY <1>1, SumZero, SumInt
<1>3. SumFunction(z) <= SumFunction(f)
  BY <1>1, SumAtMost
<1> QED BY <1>2, <1>3

-----------------------------------------------------------------------------

\* The members of S that g puts into class a.
Class(S, g, a) == {x \in S : g[x] = a}

\* g puts every member of S into a class of A, and h is the sum of f over a class.
ByClass(S, A, f, g, h) ==
  /\ IsFiniteSet(S) /\ IsFiniteSet(A) /\ DOMAIN f = S /\ DOMAIN h = A
  /\ \A x \in S : f[x] \in Int /\ g[x] \in A
  /\ \A a \in A : h[a] = SumFunction(On(f, Class(S, g, a)))

\* Summing class by class is summing at once.
LEMMA SumByClass ==
  ASSUME NEW S, NEW A, NEW f, NEW g, NEW h, ByClass(S, A, f, g, h)
  PROVE  SumFunction(h) = SumFunction(f)
<1> USE DEF ByClass
<1> DEFINE Of(B) == {x \in S : g[x] \in B}
           G == {B \in SUBSET A : SumFunctionOnSet(h, B) = SumFunctionOnSet(f, Of(B))}
<1>1. ASSUME NEW B \in SUBSET A, \A a \in B : B \ {a} \in G PROVE B \in G
  <2>1. CASE B = {}
    <3>1. Of(B) = {}
      BY <2>1
    <3> QED BY <2>1, <3>1, SumEmpty
  <2>2. CASE B # {}
    <3>1. PICK a \in B : TRUE
      BY <2>2
    <3> DEFINE P == {x \in S : g[x] = a}
               Q == Of(B \ {a})
    <3>2. IsFiniteSet(B) /\ IsFiniteSet(P) /\ IsFiniteSet(Q) /\ IsFiniteSet(Of(B))
      BY FS_Subset
    <3>3. P \cap Q = {} /\ P \cup Q = Of(B) /\ P \subseteq S /\ Q \subseteq S
      BY <3>1
    <3>4. \A b \in A : IsFiniteSet({x \in S : g[x] = b})
      BY FS_Subset
    <3>5. \A b \in A : h[b] \in Int
      <4> SUFFICES ASSUME NEW b \in A PROVE h[b] \in Int
        OBVIOUS
      <4>1. Ints(f, {x \in S : g[x] = b})
        BY DEF Ints
      <4> DEFINE R == {x \in S : g[x] = b}
      <4>2. h[b] = SumFunction(On(f, R)) /\ IsFiniteSet(R) /\ Ints(f, R)
        BY <3>4, <4>1 DEF Class
      <4> HIDE DEF R
      <4> QED BY <4>2, SumOn, SumIsInt
    <3>6. Ints(h, B) /\ Ints(f, P) /\ Ints(f, Q)
      BY <3>5 DEF Ints
    <3>7. SumFunctionOnSet(h, B) = h[a] + SumFunctionOnSet(h, B \ {a})
      BY <3>1, <3>2, <3>6, SumWithout
    <3>8. SumFunctionOnSet(h, B \ {a}) = SumFunctionOnSet(f, Q)
      BY <1>1, <3>1
    <3>9. h[a] = SumFunction(On(f, P))
      BY <3>1 DEF Class
    <3>10. SumFunctionOnSet(f, P \cup Q) = SumFunctionOnSet(f, P) + SumFunctionOnSet(f, Q)
      <4> HIDE DEF P, Q
      <4> DEFINE k == On(f, P \cup Q)
      <4>1. DOMAIN k = P \cup Q /\ \A x \in P \cup Q : k[x] = f[x]
        BY DEF On
      <4>2. On(k, P) = On(f, P) /\ On(k, Q) = On(f, Q)
        BY <4>1 DEF On
      <4>3. \A x \in P \cup Q : k[x] \in Int
        BY <3>3, <4>1
      <4>4. IsFiniteSet(P \cup Q)
        BY <3>2, FS_Union
      <4>5. SumFunction(k) = SumFunctionOnSet(f, P \cup Q)
        BY <4>4, SumOn
      <4> HIDE DEF k
      <4>6. SumFunction(k) = SumFunction(On(k, P)) + SumFunction(On(k, Q))
        <5>1. IsFiniteSet(P) /\ IsFiniteSet(Q) /\ P \cap Q = {}
          BY <3>2, <3>3
        <5>2. DOMAIN k = P \cup Q
          BY <4>1
        <5> QED BY <5>1, <5>2, <4>3, SumSplits
      <4>7. SumFunction(On(f, P)) = SumFunctionOnSet(f, P) /\ SumFunction(On(f, Q)) = SumFunctionOnSet(f, Q)
        BY <3>2, SumOn
      <4> QED BY <4>2, <4>5, <4>6, <4>7
    <3>11. SumFunction(On(f, P)) = SumFunctionOnSet(f, P)
      BY <3>2, SumOn
    <3>12. SumFunctionOnSet(h, B) = SumFunctionOnSet(f, P \cup Q)
      BY <3>7, <3>8, <3>9, <3>10, <3>11
    <3> QED BY <3>3, <3>12
  <2> QED BY <2>1, <2>2
<1>2. \A B \in SUBSET A : B \in G
  <2> HIDE DEF G
  <2> QED BY <1>1, FiniteDescent
<1>3. A \in G /\ Of(A) = S
  BY <1>2
<1> QED BY <1>3, SumDomain

\* The image of a finite set is finite.
LEMMA FiniteImage ==
  ASSUME NEW S, IsFiniteSet(S), NEW e
  PROVE  IsFiniteSet({e[x] : x \in S})
<1> DEFINE T == {e[x] : x \in S}
           k == [x \in S |-> e[x]]
<1>1. k \in Surjection(S, T)
  BY DEF Surjection
<1> HIDE DEF k, T
<1>2. IsFiniteSet(T)
  BY <1>1, FS_Surjection
<1> QED BY <1>2 DEF T

\* An injective renaming of the terms keeps the sum.
LEMMA SumRenamed ==
  ASSUME NEW S, IsFiniteSet(S), NEW e, \A x, y \in S : e[x] = e[y] => x = y,
         NEW f, DOMAIN f = S, \A x \in S : f[x] \in Int,
         NEW g, DOMAIN g = {e[x] : x \in S}, \A x \in S : g[e[x]] = f[x]
  PROVE  SumFunction(g) = SumFunction(f)
<1> DEFINE Im(T) == {e[x] : x \in T}
           G == {T \in SUBSET S : SumFunctionOnSet(g, Im(T)) = SumFunctionOnSet(f, T)}
<1>1. ASSUME NEW T \in SUBSET S, \A x \in T : T \ {x} \in G PROVE T \in G
  <2>1. CASE T = {}
    <3>1. Im(T) = {}
      BY <2>1
    <3> QED BY <2>1, <3>1, SumEmpty
  <2>2. CASE T # {}
    <3>1. PICK x \in T : TRUE
      BY <2>2
    <3>2. IsFiniteSet(T)
      BY FS_Subset
    <3>3. IsFiniteSet(Im(T))
      BY <3>2, FiniteImage
    <3>4. e[x] \in Im(T) /\ Im(T) \ {e[x]} = Im(T \ {x})
      BY <3>1
    <3>5. Ints(f, T) /\ Ints(g, Im(T)) /\ g[e[x]] = f[x]
      BY <3>1 DEF Ints
    <3>6. SumFunctionOnSet(f, T) = f[x] + SumFunctionOnSet(f, T \ {x})
      BY <3>1, <3>2, <3>5, SumWithout
    <3>7. SumFunctionOnSet(g, Im(T)) = g[e[x]] + SumFunctionOnSet(g, Im(T) \ {e[x]})
      <4> DEFINE U == Im(T)
                 z == e[x]
      <4>1. z \in U /\ IsFiniteSet(U) /\ Ints(g, U)
        BY <3>3, <3>4, <3>5
      <4> HIDE DEF U, z
      <4>2. SumFunctionOnSet(g, U) = g[z] + SumFunctionOnSet(g, U \ {z})
        BY <4>1, SumWithout
      <4> QED BY <4>2 DEF U, z
    <3>8. SumFunctionOnSet(g, Im(T \ {x})) = SumFunctionOnSet(f, T \ {x})
      BY <1>1, <3>1
    <3>9. SumFunctionOnSet(g, Im(T)) = SumFunctionOnSet(f, T)
      BY <3>4, <3>5, <3>6, <3>7, <3>8
    <3> QED BY <3>9
  <2> QED BY <2>1, <2>2
<1>2. \A T \in SUBSET S : T \in G
  <2> HIDE DEF G
  <2> QED BY <1>1, FiniteDescent
<1>3. S \in G
  BY <1>2
<1> QED BY <1>3, SumDomain

\* The value at x, or 0 where there is none.
ValueAt(f, x) == IF x \in DOMAIN f THEN f[x] ELSE 0

\* Functions that differ in one place only, where each may have a value or none.
LEMMA SumChanges ==
  ASSUME NEW f, NEW g, NEW x, IsFiniteSet(DOMAIN f), DOMAIN g \ {x} = DOMAIN f \ {x},
         \A y \in DOMAIN f : f[y] \in Int, \A y \in DOMAIN g : g[y] \in Int,
         \A y \in DOMAIN f \ {x} : g[y] = f[y]
  PROVE  /\ IsFiniteSet(DOMAIN g)
         /\ SumFunction(g) = SumFunction(f) - ValueAt(f, x) + ValueAt(g, x)
<1> DEFINE R == DOMAIN f \ {x}
<1>1. IsFiniteSet(R) /\ R = DOMAIN g \ {x} /\ x \notin R
  BY FS_Subset
<1>2. DOMAIN g = R \/ (x \in DOMAIN g /\ DOMAIN g = R \cup {x})
  BY <1>1
<1>3. IsFiniteSet(DOMAIN g)
  BY <1>1, <1>2, FS_AddElement
<1>4. SumFunctionOnSet(g, R) = SumFunctionOnSet(f, R) /\ SumFunctionOnSet(f, R) \in Int
  BY <1>1, SumAgrees, SumIsInt DEF Ints
<1>5. SumFunction(f) = ValueAt(f, x) + SumFunctionOnSet(f, R)
  <2>1. CASE x \in DOMAIN f
    BY <2>1, SumWithout, SumDomain DEF Ints, ValueAt
  <2>2. CASE x \notin DOMAIN f
    <3>1. R = DOMAIN f /\ ValueAt(f, x) = 0
      BY <2>2 DEF ValueAt
    <3> QED
      BY <3>1, <1>4, SumDomain
  <2> QED
    BY <2>1, <2>2
<1>6. SumFunction(g) = ValueAt(g, x) + SumFunctionOnSet(g, R)
  <2>1. CASE x \in DOMAIN g
    BY <1>1, <1>3, <2>1, SumWithout, SumDomain DEF Ints, ValueAt
  <2>2. CASE x \notin DOMAIN g
    <3>1. R = DOMAIN g /\ ValueAt(g, x) = 0
      BY <1>1, <2>2 DEF ValueAt
    <3> QED
      BY <3>1, <1>4, SumDomain
  <2> QED
    BY <2>1, <2>2
<1>7. ValueAt(f, x) \in Int /\ ValueAt(g, x) \in Int
  BY DEF ValueAt
<1> QED
  BY <1>3, <1>4, <1>5, <1>6, <1>7

\* A single value is its own sum.
LEMMA SumOne ==
  ASSUME NEW f, NEW x, DOMAIN f = {x}, f[x] \in Int
  PROVE  SumFunction(f) = f[x]
<1>1. IsFiniteSet({x}) /\ {x} \ {x} = {} /\ Ints(f, {x})
  BY FS_Singleton DEF Ints
<1>2. SumFunction(f) = f[x] + SumFunctionOnSet(f, {})
  BY <1>1, SumDomain, SumWithout
<1> QED
  BY <1>2, SumEmpty

\* A set that holds 0 and the successors, up to n, of what it holds, holds all up to n.
LEMMA UpTo ==
  ASSUME NEW n \in Nat, NEW G, 0 \in G, \A k \in 1 .. n : k - 1 \in G => k \in G
  PROVE  \A k \in 0 .. n : k \in G
<1> DEFINE H == {T \in SUBSET (1 .. n) : \A k \in 0 .. n : T = 1 .. k => k \in G}
<1>1. ASSUME NEW T \in SUBSET (1 .. n), \A x \in T : T \ {x} \in H
      PROVE  T \in H
  <2> SUFFICES ASSUME NEW k \in 0 .. n, T = 1 .. k PROVE k \in G
    OBVIOUS
  <2>1. CASE k # 0
    <3>1. k \in T /\ k - 1 \in 0 .. n /\ k \in 1 .. n /\ T \ {k} = 1 .. k - 1
      BY <2>1
    <3>2. T \ {k} \in H
      BY <1>1, <3>1
    <3>3. k - 1 \in G
      BY <3>1, <3>2
    <3> QED
      BY <3>1, <3>3
  <2> QED
    BY <2>1
<1>2. IsFiniteSet(1 .. n)
  BY FS_Interval
<1> HIDE DEF H
<1>3. \A T \in SUBSET (1 .. n) : T \in H
  BY <1>1, <1>2, FiniteDescent
<1> SUFFICES ASSUME NEW k \in 0 .. n PROVE k \in G
  OBVIOUS
<1>4. 1 .. k \in SUBSET (1 .. n)
  OBVIOUS
<1> QED
  BY <1>3, <1>4 DEF H

\* A sum over places of a list, and one place more.
LEMMA SumGrown ==
  ASSUME NEW f, NEW g, NEW x, IsFiniteSet(DOMAIN f), x \notin DOMAIN f,
         DOMAIN g = DOMAIN f \/ DOMAIN g = DOMAIN f \cup {x},
         \A y \in DOMAIN f : f[y] \in Int /\ g[y] = f[y],
         x \in DOMAIN g => g[x] \in Int
  PROVE  /\ SumFunction(g) = SumFunction(f) + ValueAt(g, x)
         /\ SumFunction(f) \in Int
<1>1. /\ DOMAIN g \ {x} = DOMAIN f \ {x} /\ \A y \in DOMAIN g : g[y] \in Int
      /\ \A y \in DOMAIN f \ {x} : g[y] = f[y]
  OBVIOUS
<1>2. SumFunction(g) = SumFunction(f) - ValueAt(f, x) + ValueAt(g, x)
  BY <1>1, SumChanges
<1>3. ValueAt(f, x) = 0 /\ ValueAt(g, x) \in Int
  BY <1>1 DEF ValueAt
<1>4. SumFunction(f) \in Int
  BY SumInt
<1> QED
  BY <1>2, <1>3, <1>4

\* A sum with zeroes besides the terms of another one, renamed.
LEMMA SumInjected ==
  ASSUME NEW S, IsFiniteSet(S), NEW T, IsFiniteSet(T), NEW e, \A y \in T : e[y] \in S,
         \A x, y \in T : e[x] = e[y] => x = y,
         NEW f, DOMAIN f = S, NEW g, DOMAIN g = T, \A y \in T : g[y] \in Int /\ f[e[y]] = g[y],
         \A x \in S : x \notin {e[y] : y \in T} => f[x] = 0
  PROVE  SumFunction(f) = SumFunction(g)
<1> DEFINE I == {e[y] : y \in T}
           R == S \ I
<1>1. I \subseteq S /\ IsFiniteSet(I) /\ IsFiniteSet(R) /\ I \cap R = {} /\ S = I \cup R
  <2>1. I \subseteq S
    OBVIOUS
  <2>2. IsFiniteSet(I) /\ IsFiniteSet(R)
    BY <2>1, FS_Subset
  <2> QED
    BY <2>1, <2>2
<1>2. \A x \in I : f[x] \in Int
  OBVIOUS
<1>3. \A x \in R : f[x] = 0
  OBVIOUS
<1>4. \A y \in T : On(f, I)[e[y]] = g[y]
  BY DEF On
<1>5. DOMAIN On(f, I) = I /\ DOMAIN On(f, R) = R /\ \A x \in R : On(f, R)[x] = 0
  BY <1>3 DEF On
<1>6. I = {e[y] : y \in T}
  OBVIOUS
<1> HIDE DEF I, R
<1>7. SumFunction(f) = SumFunction(On(f, I)) + SumFunction(On(f, R))
  <2>1. \A x \in I \cup R : f[x] \in Int
    BY <1>2, <1>3
  <2> QED
    BY <1>1, <2>1, SumSplits
<1>8. SumFunction(On(f, R)) = 0
  BY <1>1, <1>5, SumZero
<1>9. SumFunction(On(f, I)) = SumFunction(g)
  <2> DEFINE h == On(f, I)
  <2>1. DOMAIN h = {e[y] : y \in T} /\ \A y \in T : h[e[y]] = g[y]
    BY <1>4, <1>5, <1>6
  <2> HIDE DEF h
  <2>2. SumFunction(h) = SumFunction(g)
    BY <2>1, SumRenamed
  <2> QED
    BY <2>2 DEF h
<1>10. SumFunction(g) \in Int
  BY SumInt
<1> QED
  BY <1>7, <1>8, <1>9, <1>10

\* F lists what f does, and at the places B that e gives to K what g does.
Joins(A, B, K, e, F, f, g) ==
  /\ IsFiniteSet(A) /\ IsFiniteSet(K) /\ B = {e[k] : k \in K} /\ A \cap B = {}
  /\ \A x, y \in K : e[x] = e[y] => x = y
  /\ DOMAIN F = A \cup B /\ \A x \in A \cup B : F[x] \in Int
  /\ DOMAIN f = A /\ \A x \in A : F[x] = f[x]
  /\ DOMAIN g = K /\ \A k \in K : F[e[k]] = g[k]

LEMMA SumJoined ==
  ASSUME NEW A, NEW B, NEW K, NEW e, NEW F, NEW f, NEW g, Joins(A, B, K, e, F, f, g)
  PROVE  /\ SumFunction(F) = SumFunction(f) + SumFunction(g)
         /\ SumFunction(f) \in Int /\ SumFunction(g) \in Int
<1> USE DEF Joins
<1>1. IsFiniteSet(B)
  BY FiniteImage
<1>2. /\ \A x \in A : f[x] \in Int
      /\ \A k \in K : g[k] \in Int /\ e[k] \in B
  OBVIOUS
<1>3. SumFunction(F) = SumFunction(On(F, A)) + SumFunction(On(F, B))
  <2>1. /\ IsFiniteSet(A) /\ A \cap B = {} /\ DOMAIN F = A \cup B
        /\ \A x \in A \cup B : F[x] \in Int
    OBVIOUS
  <2> HIDE DEF Joins
  <2> QED
    BY <1>1, <2>1, SumSplits
<1>4. SumFunction(On(F, A)) = SumFunction(f)
  <2> DEFINE h == On(F, A)
  <2>1. DOMAIN h = A /\ \A x \in A : h[x] = f[x]
    BY DEF On
  <2> HIDE DEF h
  <2>2. SumFunctionOnSet(h, A) = SumFunctionOnSet(f, A)
    BY <2>1, SumAgrees
  <2>3. SumFunction(h) = SumFunction(f)
    BY <2>1, <2>2, SumDomain
  <2> QED
    BY <2>3 DEF h
<1>5. SumFunction(On(F, B)) = SumFunction(g)
  <2> DEFINE h == On(F, B)
  <2>1. DOMAIN h = {e[k] : k \in K} /\ \A k \in K : h[e[k]] = g[k]
    BY <1>2 DEF On
  <2> HIDE DEF h
  <2>2. SumFunction(h) = SumFunction(g)
    BY <1>2, <2>1, SumRenamed
  <2> QED
    BY <2>2 DEF h
<1>6. SumFunction(f) \in Int /\ SumFunction(g) \in Int
  BY <1>2, SumInt
<1> QED
  BY <1>3, <1>4, <1>5, <1>6
=============================================================================
