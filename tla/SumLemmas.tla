----------------------------- MODULE SumLemmas -----------------------------
(***************************************************************************)
(* Sums over finite sets (SumFunctionOnSet, of the community modules).     *)
(*                                                                         *)
(* A sum is a recursive function on the subsets of what it is taken over.  *)
(* Instead of an induction every lemma looks at a smallest subset that     *)
(* violates it, which the well-foundedness of inclusion gives.             *)
(***************************************************************************)
EXTENDS Integers, Functions, FiniteSetTheorems, WellFoundedInduction, TLAPS

LEMMA Smallest ==
    ASSUME NEW S, IsFiniteSet(S), NEW Bad, Bad \subseteq SUBSET S, Bad # {}
    PROVE  \E T \in Bad : \A U \in Bad : U \subseteq T => U = T
<1>1. IsWellFoundedOn(StrictSubsetOrdering(S), SUBSET S)
  BY FS_StrictSubsetOrderingWellFounded, FS_FiniteSubsetsOfFinite
<1>2. PICK T \in Bad : \A U \in Bad : ~ (<<U, T>> \in StrictSubsetOrdering(S))
  BY <1>1, WFMin
<1>3. ASSUME NEW U \in Bad, U \subseteq T, U # T PROVE FALSE
  <2>1. <<U, T>> \in StrictSubsetOrdering(S)
    BY <1>3 DEF StrictSubsetOrdering
  <2> QED BY <1>2, <2>1
<1> QED BY <1>3

Pick(s) == CHOOSE x \in s : TRUE
Adds(g, f, S) == g = [s \in SUBSET S |-> IF s = {} THEN 0 ELSE f[Pick(s)] + g[s \ {Pick(s)}]]

LEMMA PickIs ==
    ASSUME NEW s, s # {}
    PROVE  Pick(s) \in s
BY DEF Pick

\* There is one way to add.
LEMMA AddsAgree ==
    ASSUME NEW S, IsFiniteSet(S), NEW f, NEW e, \A x \in S : f[x] = e[x],
           NEW A, S \subseteq A, NEW B, S \subseteq B,
           NEW g, Adds(g, f, A), NEW h, Adds(h, e, B)
    PROVE  g[S] = h[S]
<1> DEFINE Bad == {T \in SUBSET S : g[T] # h[T]}
<1>1. SUFFICES ASSUME Bad # {} PROVE FALSE
  OBVIOUS
<1>2. PICK T \in Bad : \A U \in Bad : U \subseteq T => U = T
  <2>1. Bad \subseteq SUBSET S
    OBVIOUS
  <2> HIDE DEF Bad
  <2> QED BY <1>1, <2>1, Smallest
<1>3. T # {}
  BY <1>2 DEF Adds
<1>4. Pick(T) \in T
  BY <1>3, PickIs
<1>5. T \ {Pick(T)} \in SUBSET S /\ T \ {Pick(T)} \notin Bad
  BY <1>2, <1>4
<1>6. g[T] = f[Pick(T)] + g[T \ {Pick(T)}] /\ h[T] = e[Pick(T)] + h[T \ {Pick(T)}]
  BY <1>3 DEF Adds
<1> QED BY <1>4, <1>5, <1>6

\* And there is one.
LEMMA AddsExists ==
    ASSUME NEW S, IsFiniteSet(S), NEW f
    PROVE  \E g : Adds(g, f, S)
<1> DEFINE Bad == {T \in SUBSET S : ~ \E g : Adds(g, f, T)}
<1>1. SUFFICES ASSUME Bad # {} PROVE FALSE
  OBVIOUS
<1>2. PICK T \in Bad : \A U \in Bad : U \subseteq T => U = T
  <2>1. Bad \subseteq SUBSET S
    OBVIOUS
  <2> HIDE DEF Bad
  <2> QED BY <1>1, <2>1, Smallest
<1> DEFINE Way(s) == CHOOSE g : Adds(g, f, s)
           all == [s \in SUBSET T |-> IF s = {} THEN 0 ELSE
                       f[Pick(s)] + Way(s \ {Pick(s)})[s \ {Pick(s)}]]
<1>3. \A s \in SUBSET T : s # T => Adds(Way(s), f, s)
  <2> SUFFICES ASSUME NEW s \in SUBSET T, s # T PROVE Adds(Way(s), f, s)
    OBVIOUS
  <2>1. s \notin Bad
    BY <1>2
  <2> QED BY <2>1
<1> HIDE DEF Way
<1>4. ASSUME NEW s \in SUBSET T, s # T
      PROVE  all[s] = Way(s)[s]
  <2>1. CASE s = {}
    BY <1>3, <1>4, <2>1 DEF Adds
  <2>2. CASE s # {}
    <3> DEFINE r == s \ {Pick(s)}
    <3>1. Pick(s) \in s /\ r \subseteq s /\ r \in SUBSET T /\ r # T
      BY <1>4, <2>2, PickIs
    <3>2. Adds(Way(s), f, s) /\ Adds(Way(r), f, r)
      BY <1>3, <1>4, <3>1
    <3>3. IsFiniteSet(r)
      BY <1>2, <3>1, FS_Subset
    <3>4. Way(s)[r] = Way(r)[r]
      BY <3>1, <3>2, <3>3, AddsAgree
    <3>5. Way(s)[s] = f[Pick(s)] + Way(s)[r]
      BY <2>2, <3>2 DEF Adds
    <3> QED BY <2>2, <3>4, <3>5
  <2> QED BY <2>1, <2>2
<1>5. \A s \in SUBSET T : s # {} => all[s] = f[Pick(s)] + all[s \ {Pick(s)}]
  <2> SUFFICES ASSUME NEW s \in SUBSET T, s # {} PROVE all[s] = f[Pick(s)] + all[s \ {Pick(s)}]
    OBVIOUS
  <2> DEFINE r == s \ {Pick(s)}
  <2>1. Pick(s) \in s /\ r \in SUBSET T /\ r # T
    BY PickIs
  <2>2. all[r] = Way(r)[r]
    BY <1>4, <2>1
  <2> QED BY <2>2
<1>6. all[{}] = 0 /\ all = [s \in SUBSET T |-> all[s]]
  OBVIOUS
<1> HIDE DEF all
<1>7. Adds(all, f, T)
  BY <1>5, <1>6 DEF Adds
<1> QED BY <1>2, <1>7

LEMMA SumAdds ==
    ASSUME NEW S, IsFiniteSet(S), NEW f
    PROVE  \E g : Adds(g, f, S) /\ SumFunctionOnSet(f, S) = g[S]
<1> DEFINE iter == CHOOSE g : Adds(g, f, S)
<1>1. Adds(iter, f, S)
  BY AddsExists
<1>2. SumFunctionOnSet(f, S) = iter[S]
  BY DEF SumFunctionOnSet, FoldFunctionOnSet, MapThenFoldSet, Adds, Pick
<1> QED BY <1>1, <1>2

-----------------------------------------------------------------------------
(* Sums of integers                                                        *)

LEMMA SumEmpty ==
    ASSUME NEW f
    PROVE  SumFunctionOnSet(f, {}) = 0
<1>1. IsFiniteSet({})
  BY FS_EmptySet
<1>2. PICK g : Adds(g, f, {}) /\ SumFunctionOnSet(f, {}) = g[{}]
  BY <1>1, SumAdds
<1> QED BY <1>2 DEF Adds

LEMMA SumSame ==
    ASSUME NEW S, IsFiniteSet(S), NEW f, NEW e, \A x \in S : f[x] = e[x]
    PROVE  SumFunctionOnSet(f, S) = SumFunctionOnSet(e, S)
<1>1. PICK g : Adds(g, f, S) /\ SumFunctionOnSet(f, S) = g[S]
  BY SumAdds
<1>2. PICK h : Adds(h, e, S) /\ SumFunctionOnSet(e, S) = h[S]
  BY SumAdds
<1>3. g[S] = h[S]
  BY <1>1, <1>2, AddsAgree
<1> QED BY <1>1, <1>2, <1>3

LEMMA SumPick ==
    ASSUME NEW S, IsFiniteSet(S), S # {}, NEW f
    PROVE  SumFunctionOnSet(f, S) = f[Pick(S)] + SumFunctionOnSet(f, S \ {Pick(S)})
<1> DEFINE R == S \ {Pick(S)}
<1>1. PICK g : Adds(g, f, S) /\ SumFunctionOnSet(f, S) = g[S]
  BY SumAdds
<1>2. R \subseteq S /\ IsFiniteSet(R)
  BY FS_Subset
<1>3. PICK h : Adds(h, f, R) /\ SumFunctionOnSet(f, R) = h[R]
  BY <1>2, SumAdds
<1>4. g[R] = h[R]
  BY <1>1, <1>2, <1>3, AddsAgree
<1>5. g[S] = f[Pick(S)] + g[R]
  BY <1>1 DEF Adds
<1> QED BY <1>1, <1>3, <1>4, <1>5

\* Of a set of integers closed under addition; those used are Nat and Int.
LEMMA SumType ==
    ASSUME NEW S, IsFiniteSet(S), NEW N, 0 \in N, \A a, b \in N : a + b \in N,
           NEW f, \A x \in S : f[x] \in N
    PROVE  SumFunctionOnSet(f, S) \in N
<1> DEFINE Bad == {T \in SUBSET S : SumFunctionOnSet(f, T) \notin N}
<1>1. SUFFICES ASSUME Bad # {} PROVE FALSE
  OBVIOUS
<1>2. PICK T \in Bad : \A U \in Bad : U \subseteq T => U = T
  <2>1. Bad \subseteq SUBSET S
    OBVIOUS
  <2> HIDE DEF Bad
  <2> QED BY <1>1, <2>1, Smallest
<1>3. T \subseteq S /\ IsFiniteSet(T)
  BY FS_Subset
<1>4. T # {}
  BY SumEmpty
<1>5. SumFunctionOnSet(f, T) = f[Pick(T)] + SumFunctionOnSet(f, T \ {Pick(T)})
  BY <1>3, <1>4, SumPick
<1>6. Pick(T) \in T
  BY <1>4, PickIs
<1>7. T \ {Pick(T)} \in SUBSET S /\ T \ {Pick(T)} \notin Bad
  BY <1>2, <1>3, <1>6
<1> QED BY <1>3, <1>5, <1>6, <1>7

LEMMA SumInt ==
    ASSUME NEW S, IsFiniteSet(S), NEW f, \A x \in S : f[x] \in Int
    PROVE  SumFunctionOnSet(f, S) \in Int
<1>1. 0 \in Int /\ \A a, b \in Int : a + b \in Int
  OBVIOUS
<1> QED BY <1>1, SumType

LEMMA SumNat ==
    ASSUME NEW S, IsFiniteSet(S), NEW f, \A x \in S : f[x] \in Nat
    PROVE  SumFunctionOnSet(f, S) \in Nat
<1>1. 0 \in Nat /\ \A a, b \in Nat : a + b \in Nat
  OBVIOUS
<1> QED BY <1>1, SumType

\* Whichever summand is taken out.
LEMMA SumRemove ==
    ASSUME NEW S, IsFiniteSet(S), NEW f, \A y \in S : f[y] \in Int, NEW x \in S
    PROVE  SumFunctionOnSet(f, S) = f[x] + SumFunctionOnSet(f, S \ {x})
<1> DEFINE sum(T) == SumFunctionOnSet(f, T)
           Bad == {T \in SUBSET S : \E y \in T : sum(T) # f[y] + sum(T \ {y})}
<1>1. SUFFICES ASSUME Bad # {} PROVE FALSE
  <2>1. S \notin Bad
    BY <1>1
  <2> QED BY <2>1
<1>2. PICK T \in Bad : \A U \in Bad : U \subseteq T => U = T
  <2>1. Bad \subseteq SUBSET S
    OBVIOUS
  <2> HIDE DEF Bad
  <2> QED BY <1>1, <2>1, Smallest
<1>3. PICK y \in T : sum(T) # f[y] + sum(T \ {y})
  BY <1>2
<1> DEFINE p == Pick(T)
           R == T \ {y}
           Q == T \ {p}
<1>4. T \subseteq S /\ y \in T /\ p \in T
  BY <1>2, <1>3, PickIs
<1>5. IsFiniteSet(T) /\ IsFiniteSet(Q) /\ IsFiniteSet(Q \ {y})
  BY <1>4, FS_Subset
<1>6. sum(T) = f[p] + sum(Q)
  BY <1>4, <1>5, SumPick
<1>7. p # y
  BY <1>3, <1>6
<1>8. sum(Q) = f[y] + sum(Q \ {y})
  <2>1. Q \in SUBSET S /\ y \in Q /\ Q \subseteq T /\ Q # T
    BY <1>4, <1>7
  <2>2. Q \notin Bad
    BY <1>2, <2>1
  <2> QED BY <2>1, <2>2
<1>9. sum(R) = f[p] + sum(R \ {p})
  <2>1. R \in SUBSET S /\ p \in R /\ R \subseteq T /\ R # T
    BY <1>4, <1>7
  <2>2. R \notin Bad
    BY <1>2, <2>1
  <2> QED BY <2>1, <2>2
<1>10. Q \ {y} = R \ {p}
  OBVIOUS
<1>11. f[y] \in Int /\ f[p] \in Int /\ sum(Q \ {y}) \in Int
  <2>1. \A z \in Q \ {y} : f[z] \in Int
    BY <1>4
  <2>2. sum(Q \ {y}) \in Int
    BY <1>5, <2>1, SumInt
  <2> QED BY <1>4, <2>2
<1>12. sum(T) # f[y] + sum(R)
  BY <1>3
<1> HIDE DEF sum, R, Q, p
<1> QED BY <1>6, <1>8, <1>9, <1>10, <1>11, <1>12

LEMMA SumOne ==
    ASSUME NEW f, NEW x, f[x] \in Int
    PROVE  SumFunctionOnSet(f, {x}) = f[x]
<1>1. IsFiniteSet({x}) /\ {x} \ {x} = {}
  BY FS_Singleton
<1>2. SumFunctionOnSet(f, {x}) = f[x] + SumFunctionOnSet(f, {x} \ {x})
  BY <1>1, SumRemove
<1> QED BY <1>1, <1>2, SumEmpty

\* Of two disjoint sets.
LEMMA SumUnion ==
    ASSUME NEW S, IsFiniteSet(S), NEW R, R \subseteq S, NEW f, \A y \in S : f[y] \in Int
    PROVE  SumFunctionOnSet(f, S) = SumFunctionOnSet(f, R) + SumFunctionOnSet(f, S \ R)
<1> DEFINE sum(T) == SumFunctionOnSet(f, T)
           Bad == {T \in SUBSET S : sum(T) # sum(T \cap R) + sum(T \ R)}
<1>1. SUFFICES ASSUME Bad # {} PROVE FALSE
  <2>1. S \notin Bad /\ S \cap R = R
    BY <1>1
  <2> QED BY <2>1
<1>2. PICK T \in Bad : \A U \in Bad : U \subseteq T => U = T
  <2>1. Bad \subseteq SUBSET S
    OBVIOUS
  <2> HIDE DEF Bad
  <2> QED BY <1>1, <2>1, Smallest
<1>3. T \subseteq S /\ sum(T) # sum(T \cap R) + sum(T \ R)
  BY <1>2
<1>4. \A U \in SUBSET S : IsFiniteSet(U) /\ sum(U) \in Int
  <2> SUFFICES ASSUME NEW U \in SUBSET S PROVE IsFiniteSet(U) /\ sum(U) \in Int
    OBVIOUS
  <2>1. IsFiniteSet(U)
    BY FS_Subset
  <2> QED BY <2>1, SumInt
<1>5. ASSUME T = {} PROVE FALSE
  <2>1. sum({}) = 0
    BY SumEmpty
  <2>2. T \cap R = {} /\ T \ R = {}
    BY <1>5
  <2>3. sum(T) = 0 /\ sum(T \cap R) = 0 /\ sum(T \ R) = 0
    BY <1>5, <2>1, <2>2
  <2> HIDE DEF sum
  <2> QED BY <1>3, <2>3
<1>6. PICK x : x \in T
  BY <1>5
<1> DEFINE U == T \ {x}
<1>7. sum(T) = f[x] + sum(U)
  BY <1>3, <1>4, <1>6, SumRemove
<1>8. sum(U) = sum(U \cap R) + sum(U \ R)
  <2>1. U \in SUBSET S /\ U \subseteq T /\ U # T
    BY <1>3, <1>6
  <2>2. U \notin Bad
    BY <1>2, <2>1
  <2> QED BY <2>1, <2>2
<1>9. f[x] \in Int /\ sum(U) \in Int /\ sum(U \cap R) \in Int /\ sum(U \ R) \in Int
  BY <1>3, <1>4, <1>6
<1>10. CASE x \in R
  <2>1. U \ R = T \ R /\ U \cap R = (T \cap R) \ {x} /\ x \in T \cap R
    BY <1>6, <1>10
  <2>2. T \cap R \in SUBSET S
    BY <1>3
  <2>3. sum(T \cap R) = f[x] + sum(U \cap R)
    BY <1>4, <2>1, <2>2, SumRemove
  <2>4. sum(U \ R) = sum(T \ R)
    BY <2>1
  <2> HIDE DEF sum, U
  <2> QED BY <1>3, <1>7, <1>8, <1>9, <2>3, <2>4
<1>11. CASE x \notin R
  <2>1. U \cap R = T \cap R /\ U \ R = (T \ R) \ {x} /\ x \in T \ R
    BY <1>6, <1>11
  <2>2. T \ R \in SUBSET S
    BY <1>3
  <2>3. sum(T \ R) = f[x] + sum(U \ R)
    BY <1>4, <2>1, <2>2, SumRemove
  <2>4. sum(U \cap R) = sum(T \cap R)
    BY <2>1
  <2> HIDE DEF sum, U
  <2> QED BY <1>3, <1>7, <1>8, <1>9, <2>3, <2>4
<1> QED BY <1>10, <1>11

-----------------------------------------------------------------------------
(* A function that changes at one place                                    *)

LEMMA SumGrows ==
    ASSUME NEW f, IsFiniteSet(DOMAIN f), NEW e, NEW x, x \notin DOMAIN f,
           DOMAIN e = DOMAIN f \cup {x}, \A y \in DOMAIN f : e[y] = f[y] /\ f[y] \in Int, e[x] \in Int
    PROVE  SumFunction(e) = SumFunction(f) + e[x] /\ SumFunction(f) \in Int
<1>1. IsFiniteSet(DOMAIN e) /\ (DOMAIN e) \ {x} = DOMAIN f /\ \A y \in DOMAIN e : e[y] \in Int
  BY FS_AddElement
<1>2. SumFunctionOnSet(e, DOMAIN e) = e[x] + SumFunctionOnSet(e, (DOMAIN e) \ {x})
  BY <1>1, SumRemove
<1>3. SumFunctionOnSet(e, DOMAIN f) = SumFunctionOnSet(f, DOMAIN f)
  BY SumSame
<1>4. SumFunctionOnSet(f, DOMAIN f) \in Int
  BY SumInt
<1> QED BY <1>1, <1>2, <1>3, <1>4 DEF SumFunction

LEMMA SumChanges ==
    ASSUME NEW f, IsFiniteSet(DOMAIN f), NEW e, NEW x \in DOMAIN f, DOMAIN e = DOMAIN f,
           \A y \in DOMAIN f : f[y] \in Int /\ e[y] \in Int /\ (y # x => e[y] = f[y])
    PROVE  SumFunction(e) = SumFunction(f) - f[x] + e[x] /\ SumFunction(f) \in Int
<1> DEFINE R == (DOMAIN f) \ {x}
<1>1. SumFunctionOnSet(f, DOMAIN f) = f[x] + SumFunctionOnSet(f, R)
  BY SumRemove
<1>2. SumFunctionOnSet(e, DOMAIN f) = e[x] + SumFunctionOnSet(e, R)
  BY SumRemove
<1>3. IsFiniteSet(R)
  BY FS_Subset
<1>4. SumFunctionOnSet(e, R) = SumFunctionOnSet(f, R)
  BY <1>3, SumSame
<1>5. SumFunctionOnSet(f, R) \in Int /\ f[x] \in Int /\ e[x] \in Int
  BY <1>3, SumInt
<1> HIDE DEF R
<1> QED BY <1>1, <1>2, <1>4, <1>5 DEF SumFunction

\* What is left when something is taken of each summand, and of some all.
LEMMA SumLeft ==
    ASSUME NEW S, IsFiniteSet(S), NEW f, NEW g, \A x \in S : f[x] \in Int /\ g[x] \in Int,
           NEW R, R \subseteq S, \A x \in S \ R : g[x] = f[x],
           NEW h, \A x \in R : h[x] = f[x] - g[x]
    PROVE  SumFunctionOnSet(h, R) = SumFunctionOnSet(f, S) - SumFunctionOnSet(g, S)
<1> DEFINE left(T) == SumFunctionOnSet(h, T \cap R)
           all(T) == SumFunctionOnSet(f, T)
           gone(T) == SumFunctionOnSet(g, T)
           Bad == {T \in SUBSET S : left(T) # all(T) - gone(T)}
<1>1. SUFFICES ASSUME Bad # {} PROVE FALSE
  <2>1. S \notin Bad
    BY <1>1
  <2>2. S \cap R = R
    OBVIOUS
  <2>3. left(S) = SumFunctionOnSet(h, R)
    BY <2>2
  <2> QED BY <2>1, <2>3
<1>2. PICK T \in Bad : \A U \in Bad : U \subseteq T => U = T
  <2>1. Bad \subseteq SUBSET S
    OBVIOUS
  <2> HIDE DEF Bad
  <2> QED BY <1>1, <2>1, Smallest
<1>3. T \subseteq S /\ left(T) # all(T) - gone(T)
  BY <1>2
<1>4. T # {}
  <2>1. {} \cap R = {}
    OBVIOUS
  <2>2. left({}) = 0 /\ all({}) = 0 /\ gone({}) = 0
    BY <2>1, SumEmpty
  <2> HIDE DEF left, all, gone
  <2> QED BY <1>3, <2>2
<1> DEFINE x == Pick(T)
           Q == T \ {x}
<1>5. x \in T /\ IsFiniteSet(T) /\ IsFiniteSet(Q) /\ IsFiniteSet(T \cap R) /\ IsFiniteSet(Q \cap R)
  <2>1. x \in T
    BY <1>4, PickIs
  <2> QED BY <1>3, <2>1, FS_Subset
<1> HIDE DEF x
<1>6. left(Q) = all(Q) - gone(Q)
  <2>1. Q \in SUBSET S /\ Q \subseteq T /\ Q # T
    BY <1>3, <1>5
  <2>2. Q \notin Bad
    <3> HIDE DEF Bad, Q
    <3> QED BY <1>2, <2>1
  <2> QED BY <2>1, <2>2
<1>7. all(T) = f[x] + all(Q)
  BY <1>3, <1>5, SumRemove
<1>8. gone(T) = g[x] + gone(Q)
  BY <1>3, <1>5, SumRemove
<1>9. f[x] \in Int /\ g[x] \in Int /\ all(Q) \in Int /\ gone(Q) \in Int
  BY <1>3, <1>5, SumInt
<1>10. CASE x \in R
  <2>1. (T \cap R) \ {x} = Q \cap R /\ x \in T \cap R
    BY <1>5, <1>10
  <2>2. \A y \in T \cap R : h[y] \in Int
    BY <1>3
  <2>3. SumFunctionOnSet(h, T \cap R) = h[x] + SumFunctionOnSet(h, (T \cap R) \ {x})
    BY <1>5, <2>1, <2>2, SumRemove
  <2>4. left(T) = h[x] + left(Q)
    BY <2>1, <2>3
  <2>5. h[x] = f[x] - g[x]
    BY <1>10
  <2> HIDE DEF left, all, gone, Q
  <2> QED BY <1>3, <1>6, <1>7, <1>8, <1>9, <2>4, <2>5
<1>11. CASE x \notin R
  <2>1. T \cap R = Q \cap R
    BY <1>11
  <2>2. left(T) = left(Q)
    BY <2>1
  <2>3. g[x] = f[x]
    BY <1>3, <1>5, <1>11
  <2> HIDE DEF left, all, gone, Q
  <2> QED BY <1>3, <1>6, <1>7, <1>8, <1>9, <2>2, <2>3
<1> QED BY <1>10, <1>11
=============================================================================
