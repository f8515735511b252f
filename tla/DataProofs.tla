----------------------------- MODULE DataProofs -----------------------------
(***************************************************************************)
(* Lemmas on the operators the components share: sums over finite sets     *)
(* (the folds of the community modules), sublists, and shortest paths.     *)
(* Induction over a finite set or a length takes a counterexample that is  *)
(* minimal, and what is smaller still.                                     *)
(***************************************************************************)
EXTENDS Routing, Lists, FiniteSetTheorems, SequenceTheorems, TLAPS

\* A set of naturals that is not empty has a least member.
LEMMA LeastMember ==
    ASSUME NEW T, T \subseteq Nat, T # {}
    PROVE  \E x \in T : \A y \in T : x <= y
<1>1. PICK x \in T : \A y \in T : ~ (<<y, x>> \in OpToRel(<, Nat))
  BY NatLessThanWellFounded, WFMin
<1>2. \A y \in T : ~(y < x)
  BY <1>1 DEF OpToRel
<1> QED
  BY <1>2

\* A set of subsets of a finite set that is not empty has a minimal member.
LEMMA MinimalSubset ==
    ASSUME NEW S, IsFiniteSet(S), NEW B \in SUBSET SUBSET S, B # {}
    PROVE  \E U \in B : \A V \in B : V \subseteq U => V = U
<1>1. FiniteSubsetsOf(S) = SUBSET S
  BY FS_FiniteSubsetsOfFinite
<1>2. IsWellFoundedOn(StrictSubsetOrdering(S), SUBSET S)
  BY <1>1, FS_StrictSubsetOrderingWellFounded
<1>3. PICK U \in B : \A V \in B : ~ (<<V, U>> \in StrictSubsetOrdering(S))
  BY <1>2, WFMin
<1>4. \A V \in B : V \subseteq U => V = U
  BY <1>3 DEF StrictSubsetOrdering
<1> QED
  BY <1>4

IsSum(g, f, S) ==
    g = [s \in SUBSET S |-> IF s = {} THEN 0
                            ELSE f[CHOOSE x \in s : TRUE] + g[s \ {CHOOSE x \in s : TRUE}]]

\* The library's sum is the value at S of some recursive sum function.
LEMMA SumDef ==
    ASSUME NEW f, NEW S
    PROVE  SumFunctionOnSet(f, S) = (CHOOSE g : IsSum(g, f, S))[S]
BY DEF SumFunctionOnSet, FoldFunctionOnSet, MapThenFoldSet, IsSum

\* What a recursive sum function says of each subset.
LEMMA SumStep ==
    ASSUME NEW f, NEW S, NEW g, IsSum(g, f, S), NEW s \in SUBSET S
    PROVE  /\ s = {} => g[s] = 0
           /\ s # {} => LET x == CHOOSE x \in s : TRUE
                        IN  x \in s /\ g[s] = f[x] + g[s \ {x}]
BY DEF IsSum

\* Two recursive sum functions agree where both are defined.
LEMMA SumUnique ==
    ASSUME NEW f, NEW S, IsFiniteSet(S), NEW T, NEW g, NEW h,
           IsSum(g, f, S), IsSum(h, f, T), NEW s \in SUBSET S, s \in SUBSET T
    PROVE  g[s] = h[s]
<1> DEFINE B == {u \in SUBSET S : u \subseteq T /\ g[u] # h[u]}
<1> SUFFICES ASSUME B # {} PROVE FALSE
  OBVIOUS
<1>0. B \in SUBSET SUBSET S
  OBVIOUS
<1> HIDE DEF B
<1>1. PICK U \in B : \A V \in B : V \subseteq U => V = U
  BY <1>0, MinimalSubset
<1>2. U \in SUBSET S /\ U \in SUBSET T /\ g[U] # h[U]
  BY <1>1 DEF B
<1>3. U # {}
  BY ZenonT(30), <1>2, SumStep
<1> DEFINE x == CHOOSE x \in U : TRUE
<1>4. x \in U /\ g[U] = f[x] + g[U \ {x}] /\ h[U] = f[x] + h[U \ {x}]
  BY <1>2, <1>3, SumStep
<1>5. U \ {x} \notin B
  BY <1>1, <1>4
<1>6. g[U \ {x}] = h[U \ {x}]
  BY <1>2, <1>5 DEF B
<1> QED
  BY <1>2, <1>4, <1>6

\* Every finite set has its recursive sum function.
LEMMA SumExists ==
    ASSUME NEW f, NEW S, IsFiniteSet(S)
    PROVE  \E g : IsSum(g, f, S)
<1> DEFINE B == {u \in SUBSET S : ~ \E g : IsSum(g, f, u)}
<1> SUFFICES ASSUME B # {} PROVE FALSE
  OBVIOUS
<1>0. B \in SUBSET SUBSET S
  OBVIOUS
<1> HIDE DEF B
<1>1. PICK U \in B : \A V \in B : V \subseteq U => V = U
  BY <1>0, MinimalSubset
<1>2. U \in SUBSET S /\ ~ \E g : IsSum(g, f, U)
  BY <1>1 DEF B
<1> DEFINE F(V) == CHOOSE g : IsSum(g, f, V)
           First(s) == CHOOSE x \in s : TRUE
           G == [s \in SUBSET U |-> IF s = {} THEN 0
                                    ELSE f[First(s)] + F(s \ {First(s)})[s \ {First(s)}]]
<1>3. \A s : s # {} => First(s) \in s
  OBVIOUS
<1>4. ASSUME NEW V \in SUBSET U, V # U PROVE IsSum(F(V), f, V) /\ IsFiniteSet(V)
  <2>1. V \in SUBSET S /\ V \notin B
    BY <1>1, <1>2, <1>4
  <2>2. \E g : IsSum(g, f, V)
    BY <2>1 DEF B
  <2>3. IsFiniteSet(V)
    BY <2>1, FS_Subset
  <2> QED
    BY <2>2, <2>3
<1>5. ASSUME NEW s \in SUBSET U, s # {}
      PROVE  G[s \ {First(s)}] = F(s \ {First(s)})[s \ {First(s)}]
  <2> DEFINE t == s \ {First(s)}
  <2>1. t \in SUBSET U /\ t # U
    BY <1>3, <1>5
  <2>2. IsSum(F(t), f, t) /\ IsFiniteSet(t)
    BY <1>4, <2>1
  <2> HIDE DEF t, F, First
  <2>3. CASE t = {}
    <3>1. F(t)[t] = 0
      BY <2>2, <2>3, SumStep
    <3> QED
      BY <2>1, <2>3, <3>1 DEF t
  <2>4. CASE t # {}
    <3>1. First(t) \in t /\ F(t)[t] = f[First(t)] + F(t)[t \ {First(t)}]
      BY <2>2, <2>4, SumStep DEF First
    <3>2. G[t] = f[First(t)] + F(t \ {First(t)})[t \ {First(t)}]
      BY <2>1, <2>4
    <3>3. IsSum(F(t \ {First(t)}), f, t \ {First(t)})
      BY <1>4, <2>1, <3>1
    <3>4. F(t \ {First(t)})[t \ {First(t)}] = F(t)[t \ {First(t)}]
      BY <2>2, <3>3, SumUnique
    <3> QED
      BY <3>1, <3>2, <3>4 DEF t
  <2> QED
    BY <2>3, <2>4
<1>6. IsSum(G, f, U)
  <2> HIDE DEF F, First
  <2>1. \A s \in SUBSET U : s # {} => G[s] = f[First(s)] + G[s \ {First(s)}]
    BY <1>5
  <2>2. \A s \in SUBSET U : G[s] = IF s = {} THEN 0 ELSE f[First(s)] + G[s \ {First(s)}]
    BY <2>1
  <2>3. DOMAIN G = SUBSET U /\ G = [s \in DOMAIN G |-> G[s]]
    OBVIOUS
  <2> HIDE DEF G
  <2> QED
    BY <2>2, <2>3 DEF IsSum, First
<1> QED
  BY <1>2, <1>6

\* The library's sum of a subset is what the sum function of any superset says.
LEMMA SumIs ==
    ASSUME NEW f, NEW S, IsFiniteSet(S), NEW g, IsSum(g, f, S), NEW s \in SUBSET S
    PROVE  SumFunctionOnSet(f, s) = g[s]
<1>1. IsFiniteSet(s)
  BY FS_Subset
<1>2. PICK h : IsSum(h, f, s)
  BY <1>1, SumExists
<1>3. IsSum(CHOOSE k : IsSum(k, f, s), f, s)
  BY <1>2
<1> QED
  BY <1>1, <1>3, SumDef, SumUnique

\* What the sum over a finite set is made of, in the order it picks.
LEMMA SumUnfold ==
    ASSUME NEW f, NEW S, IsFiniteSet(S)
    PROVE  /\ S = {} => SumFunctionOnSet(f, S) = 0
           /\ S # {} => \E x \in S : SumFunctionOnSet(f, S) = f[x] + SumFunctionOnSet(f, S \ {x})
<1>1. PICK g : IsSum(g, f, S)
  BY SumExists
<1>2. \A s \in SUBSET S : SumFunctionOnSet(f, s) = g[s]
  BY <1>1, SumIs
<1>3. CASE S = {}
  <2>1. SumFunctionOnSet(f, S) = g[S]
    BY <1>2
  <2>2. g[S] = 0
    BY <1>1, <1>3, SumStep
  <2> QED
    BY <1>3, <2>1, <2>2
<1>4. CASE S # {}
  <2> DEFINE x == CHOOSE x \in S : TRUE
  <2>1. x \in S /\ g[S] = f[x] + g[S \ {x}]
    BY <1>1, <1>4, SumStep
  <2> HIDE DEF x
  <2>2. SumFunctionOnSet(f, S) = f[x] + SumFunctionOnSet(f, S \ {x})
    BY <1>2, <2>1
  <2> QED
    BY <1>4, <2>1, <2>2
<1> QED
  BY <1>3, <1>4

\* A sum of integers is one.
LEMMA SumType ==
    ASSUME NEW f, NEW S, IsFiniteSet(S), \A x \in S : f[x] \in Int
    PROVE  SumFunctionOnSet(f, S) \in Int
<1> DEFINE B == {u \in SUBSET S : SumFunctionOnSet(f, u) \notin Int}
<1> SUFFICES ASSUME B # {} PROVE FALSE
  OBVIOUS
<1>0. B \in SUBSET SUBSET S
  OBVIOUS
<1> HIDE DEF B
<1>1. PICK U \in B : \A V \in B : V \subseteq U => V = U
  BY <1>0, MinimalSubset
<1>2. U \in SUBSET S /\ SumFunctionOnSet(f, U) \notin Int
  BY <1>1 DEF B
<1>3. IsFiniteSet(U)
  BY <1>2, FS_Subset
<1>4. U # {}
  BY <1>2, <1>3, SumUnfold
<1>5. PICK x \in U : SumFunctionOnSet(f, U) = f[x] + SumFunctionOnSet(f, U \ {x})
  BY <1>3, <1>4, SumUnfold
<1>6. U \ {x} \notin B
  BY <1>1, <1>5
<1>7. SumFunctionOnSet(f, U \ {x}) \in Int
  BY <1>2, <1>6 DEF B
<1> QED
  BY <1>2, <1>5, <1>7

\* Any member may be taken first.
LEMMA SumRemove ==
    ASSUME NEW f, NEW S, IsFiniteSet(S), \A y \in S : f[y] \in Int, NEW x \in S
    PROVE  SumFunctionOnSet(f, S) = f[x] + SumFunctionOnSet(f, S \ {x})
<1> DEFINE Sum(u) == SumFunctionOnSet(f, u)
           Wrong(u) == \E z \in u : Sum(u) # f[z] + Sum(u \ {z})
           B == {u \in SUBSET S : Wrong(u)}
<1>1. \A u \in SUBSET S : IsFiniteSet(u)
  BY FS_Subset
<1>2. \A u \in SUBSET S : Sum(u) \in Int
  BY <1>1, SumType
<1>3. \A u \in SUBSET S : u # {} => \E y \in u : Sum(u) = f[y] + Sum(u \ {y})
  BY <1>1, SumUnfold
<1>4. B \in SUBSET SUBSET S
  OBVIOUS
<1> HIDE DEF Sum
<1>5. B = {}
  <2> SUFFICES ASSUME B # {} PROVE FALSE
    OBVIOUS
  <2> HIDE DEF B
  <2>1. PICK U \in B : \A V \in B : V \subseteq U => V = U
    BY <1>4, MinimalSubset
  <2>2. U \in SUBSET S /\ Wrong(U)
    BY <2>1 DEF B
  <2>3. PICK z \in U : Sum(U) # f[z] + Sum(U \ {z})
    BY <2>2
  <2>4. PICK y \in U : Sum(U) = f[y] + Sum(U \ {y})
    BY <1>3, <2>2, <2>3
  <2>5. U \ {y} \notin B /\ U \ {z} \notin B
    BY <2>1, <2>3, <2>4
  <2>6. ~Wrong(U \ {y}) /\ ~Wrong(U \ {z})
    BY <2>2, <2>5 DEF B
  <2> DEFINE R == (U \ {y}) \ {z}
  <2>7. R = (U \ {z}) \ {y} /\ R \in SUBSET S
    BY <2>2
  <2>8. z # y
    BY <2>3, <2>4
  <2>9. Sum(U \ {y}) = f[z] + Sum(R)
    BY <2>6, <2>8
  <2>10. Sum(U \ {z}) = f[y] + Sum(R)
    BY <2>6, <2>7, <2>8
  <2>11. f[y] \in Int /\ f[z] \in Int /\ Sum(R) \in Int
    BY <1>2, <2>2, <2>7
  <2> HIDE DEF R
  <2> QED
    BY <2>3, <2>4, <2>9, <2>10, <2>11
<1>6. ~Wrong(S)
  BY <1>5
<1> QED
  BY <1>6 DEF Sum

\* Nothing adds up to zero.
LEMMA SumEmpty == ASSUME NEW f PROVE SumFunctionOnSet(f, {}) = 0
BY FS_EmptySet, SumUnfold

\* Only the values on the set count.
LEMMA SumAgree ==
    ASSUME NEW S, IsFiniteSet(S), NEW f, NEW g, \A x \in S : f[x] = g[x]
    PROVE  SumFunctionOnSet(f, S) = SumFunctionOnSet(g, S)
<1> DEFINE First(s) == CHOOSE x \in s : TRUE
<1>1. PICK h : IsSum(h, f, S)
  BY SumExists
<1>2. \A s \in SUBSET S : s # {} => First(s) \in s
  OBVIOUS
<1>3. h = [s \in SUBSET S |-> IF s = {} THEN 0 ELSE f[First(s)] + h[s \ {First(s)}]]
  BY <1>1 DEF IsSum
<1> HIDE DEF First
<1>4. \A s \in SUBSET S : (IF s = {} THEN 0 ELSE f[First(s)] + h[s \ {First(s)}])
                         = (IF s = {} THEN 0 ELSE g[First(s)] + h[s \ {First(s)}])
  BY <1>2
<1>5. IsSum(h, g, S)
  BY <1>3, <1>4 DEF IsSum, First
<1> QED
  BY <1>1, <1>5, SumIs

\* The sum is monotone in the values.
LEMMA SumMonotone ==
    ASSUME NEW S, IsFiniteSet(S), NEW f, NEW g,
           \A x \in S : f[x] \in Int /\ g[x] \in Int /\ f[x] <= g[x]
    PROVE  SumFunctionOnSet(f, S) <= SumFunctionOnSet(g, S)
<1> DEFINE F(u) == SumFunctionOnSet(f, u)
           G(u) == SumFunctionOnSet(g, u)
           B == {u \in SUBSET S : ~(F(u) <= G(u))}
<1>1. \A u \in SUBSET S : IsFiniteSet(u) /\ F(u) \in Int /\ G(u) \in Int
  BY FS_Subset, SumType
<1>2. F({}) = 0 /\ G({}) = 0
  BY SumEmpty
<1>3. ASSUME NEW u \in SUBSET S, NEW x \in u
      PROVE  F(u) = f[x] + F(u \ {x}) /\ G(u) = g[x] + G(u \ {x})
  <2>1. IsFiniteSet(u) /\ \A y \in u : f[y] \in Int /\ g[y] \in Int
    BY FS_Subset
  <2> QED
    BY <2>1, SumRemove
<1>4. B \in SUBSET SUBSET S
  OBVIOUS
<1> HIDE DEF F, G
<1>5. B = {}
  <2> SUFFICES ASSUME B # {} PROVE FALSE
    OBVIOUS
  <2> HIDE DEF B
  <2>1. PICK U \in B : \A V \in B : V \subseteq U => V = U
    BY <1>4, MinimalSubset
  <2>2. U \in SUBSET S /\ ~(F(U) <= G(U))
    BY <2>1 DEF B
  <2>3. PICK x \in U : TRUE
    BY <1>2, <2>2
  <2>4. U \ {x} \notin B /\ U \ {x} \in SUBSET S
    BY <2>1, <2>2, <2>3
  <2>5. F(U \ {x}) <= G(U \ {x})
    BY <2>4 DEF B
  <2>6. F(U) = f[x] + F(U \ {x}) /\ G(U) = g[x] + G(U \ {x})
    BY <1>3, <2>2, <2>3
  <2>7. F(U \ {x}) \in Int /\ G(U \ {x}) \in Int /\ f[x] <= g[x] /\ f[x] \in Int /\ g[x] \in Int
    BY <1>1, <2>2, <2>3, <2>4
  <2> QED
    BY <2>2, <2>5, <2>6, <2>7
<1> QED
  BY <1>5 DEF F, G

\* A sum of naturals is one.
LEMMA SumNat ==
    ASSUME NEW f, NEW S, IsFiniteSet(S), \A x \in S : f[x] \in Nat
    PROVE  SumFunctionOnSet(f, S) \in Nat
<1> DEFINE B == {u \in SUBSET S : SumFunctionOnSet(f, u) \notin Nat}
<1>0. B \in SUBSET SUBSET S
  OBVIOUS
<1>1. B = {}
  <2> SUFFICES ASSUME B # {} PROVE FALSE
    OBVIOUS
  <2> HIDE DEF B
  <2>1. PICK U \in B : \A V \in B : V \subseteq U => V = U
    BY <1>0, MinimalSubset
  <2>2. U \in SUBSET S /\ SumFunctionOnSet(f, U) \notin Nat
    BY <2>1 DEF B
  <2>3. IsFiniteSet(U)
    BY <2>2, FS_Subset
  <2>4. U # {}
    BY <2>2, <2>3, SumUnfold
  <2>5. PICK x \in U : SumFunctionOnSet(f, U) = f[x] + SumFunctionOnSet(f, U \ {x})
    BY <2>3, <2>4, SumUnfold
  <2>6. U \ {x} \notin B
    BY <2>1, <2>5
  <2>7. SumFunctionOnSet(f, U \ {x}) \in Nat
    BY <2>2, <2>6 DEF B
  <2> QED
    BY <2>2, <2>5, <2>7
<1> QED
  BY <1>1

\* The values of one member alone change the sum by their difference.
LEMMA SumUpdate ==
    ASSUME NEW S, IsFiniteSet(S), NEW f, NEW g, NEW x \in S,
           \A y \in S : f[y] \in Int /\ g[y] \in Int,
           \A y \in S \ {x} : f[y] = g[y]
    PROVE  SumFunctionOnSet(g, S) = SumFunctionOnSet(f, S) - f[x] + g[x]
<1>1. IsFiniteSet(S \ {x})
  BY FS_Subset
<1>2. SumFunctionOnSet(f, S \ {x}) = SumFunctionOnSet(g, S \ {x})
  BY <1>1, SumAgree
<1>3. SumFunctionOnSet(f, S \ {x}) \in Int
  BY <1>1, SumType
<1>4. /\ SumFunctionOnSet(f, S) = f[x] + SumFunctionOnSet(f, S \ {x})
      /\ SumFunctionOnSet(g, S) = g[x] + SumFunctionOnSet(g, S \ {x})
  BY SumRemove
<1> QED
  BY <1>2, <1>3, <1>4

\* Two sets that share nothing: the sums add up.
LEMMA SumUnion ==
    ASSUME NEW A, IsFiniteSet(A), NEW B, IsFiniteSet(B), A \cap B = {},
           NEW f, \A x \in A \cup B : f[x] \in Int
    PROVE  SumFunctionOnSet(f, A \cup B) = SumFunctionOnSet(f, A) + SumFunctionOnSet(f, B)
<1> DEFINE Sum(u) == SumFunctionOnSet(f, u)
           W == {u \in SUBSET A : Sum(u \cup B) # Sum(u) + Sum(B)}
<1>1. W \in SUBSET SUBSET A
  OBVIOUS
<1>2. \A u \in SUBSET A : IsFiniteSet(u) /\ Sum(u) \in Int
  BY FS_Subset, SumType
<1>3. Sum(B) \in Int /\ Sum({}) = 0
  BY SumType, SumEmpty
<1>4. ASSUME NEW u \in SUBSET A, NEW x \in u
      PROVE  Sum(u) = f[x] + Sum(u \ {x}) /\ Sum(u \cup B) = f[x] + Sum((u \ {x}) \cup B)
  <2>1. IsFiniteSet(u) /\ IsFiniteSet(u \cup B)
    BY <1>2, FS_Union
  <2>2. \A y \in u \cup B : f[y] \in Int
    OBVIOUS
  <2>3. (u \cup B) \ {x} = (u \ {x}) \cup B
    OBVIOUS
  <2>4. Sum(u \cup B) = f[x] + Sum((u \cup B) \ {x})
    BY <2>1, <2>2, SumRemove
  <2>5. Sum(u) = f[x] + Sum(u \ {x})
    BY <2>1, SumRemove
  <2> HIDE DEF Sum
  <2> QED
    BY <2>3, <2>4, <2>5
<1> HIDE DEF Sum
<1>5. W = {}
  <2> SUFFICES ASSUME W # {} PROVE FALSE
    OBVIOUS
  <2> HIDE DEF W
  <2>1. PICK U \in W : \A V \in W : V \subseteq U => V = U
    BY <1>1, MinimalSubset
  <2>2. U \in SUBSET A /\ Sum(U \cup B) # Sum(U) + Sum(B)
    BY <2>1 DEF W
  <2>3. PICK x \in U : TRUE
    <3> SUFFICES ASSUME U = {} PROVE FALSE
      OBVIOUS
    <3>1. U \cup B = B
      OBVIOUS
    <3>2. Sum(U \cup B) = Sum(B) /\ Sum(U) = 0
      BY <1>3, <3>1
    <3> QED
      BY <1>3, <2>2, <3>2
  <2>4. U \ {x} \notin W /\ U \ {x} \in SUBSET A
    BY <2>1, <2>2, <2>3
  <2>5. Sum((U \ {x}) \cup B) = Sum(U \ {x}) + Sum(B)
    BY <2>4 DEF W
  <2>6. Sum(U) = f[x] + Sum(U \ {x}) /\ Sum(U \cup B) = f[x] + Sum((U \ {x}) \cup B)
    BY <1>4, <2>2, <2>3
  <2>7. f[x] \in Int /\ Sum(U \ {x}) \in Int
    BY <1>2, <2>2, <2>3, <2>4
  <2> QED
    BY <1>3, <2>2, <2>5, <2>6, <2>7
<1> QED
  BY <1>5 DEF Sum

\* Of naturals, less adds up to no more.
LEMMA SumSubset ==
    ASSUME NEW A, NEW B, IsFiniteSet(B), A \subseteq B, NEW f, \A x \in B : f[x] \in Nat
    PROVE  SumFunctionOnSet(f, A) <= SumFunctionOnSet(f, B)
<1>1. IsFiniteSet(A) /\ IsFiniteSet(B \ A)
  BY FS_Subset
<1> DEFINE C == B \ A
<1>2. A \cap C = {} /\ A \cup C = B /\ \A x \in A \cup C : f[x] \in Int
  OBVIOUS
<1>3. SumFunctionOnSet(f, A) \in Nat /\ SumFunctionOnSet(f, C) \in Nat
  BY <1>1, SumNat
<1> HIDE DEF C
<1>4. SumFunctionOnSet(f, A \cup C) = SumFunctionOnSet(f, A) + SumFunctionOnSet(f, C)
  BY <1>1, <1>2, SumUnion DEF C
<1>5. SumFunctionOnSet(f, B) = SumFunctionOnSet(f, A) + SumFunctionOnSet(f, C)
  BY <1>2, <1>4
<1> QED
  BY <1>3, <1>5

\* The sum over what two sets cover is at most the sum of theirs.
LEMMA SumCover ==
    ASSUME NEW A, IsFiniteSet(A), NEW B, IsFiniteSet(B), NEW U, U \subseteq A \cup B,
           NEW f, \A x \in A \cup B : f[x] \in Nat
    PROVE  SumFunctionOnSet(f, U) <= SumFunctionOnSet(f, A) + SumFunctionOnSet(f, B)
<1>1. IsFiniteSet(B \ A) /\ IsFiniteSet(A \cup (B \ A))
  BY FS_Subset, FS_Union
<1>2. A \cap (B \ A) = {} /\ U \subseteq A \cup (B \ A) /\ \A x \in A \cup (B \ A) : f[x] \in Nat
  OBVIOUS
<1>3. SumFunctionOnSet(f, U) <= SumFunctionOnSet(f, A \cup (B \ A))
  BY <1>1, <1>2, SumSubset
<1>4. SumFunctionOnSet(f, A \cup (B \ A)) = SumFunctionOnSet(f, A) + SumFunctionOnSet(f, B \ A)
  <2>1. \A x \in A \cup (B \ A) : f[x] \in Int
    OBVIOUS
  <2> QED
    BY <1>1, <1>2, <2>1, SumUnion
<1>5. SumFunctionOnSet(f, B \ A) <= SumFunctionOnSet(f, B)
  BY SumSubset
<1>6. /\ SumFunctionOnSet(f, A) \in Nat /\ SumFunctionOnSet(f, B \ A) \in Nat
      /\ SumFunctionOnSet(f, B) \in Nat
  BY <1>1, SumNat
<1>7. SumFunctionOnSet(f, U) \in Nat
  <2>1. IsFiniteSet(U) /\ \A x \in U : f[x] \in Nat
    BY <1>1, <1>2, FS_Subset
  <2> QED
    BY <2>1, SumNat
<1> QED
  BY <1>3, <1>4, <1>5, <1>6, <1>7

\* One value.
LEMMA SumSingle ==
    ASSUME NEW x, NEW f, f[x] \in Int PROVE SumFunctionOnSet(f, {x}) = f[x]
<1>1. IsFiniteSet({x}) /\ {x} \ {x} = {}
  BY FS_Singleton
<1>2. SumFunctionOnSet(f, {x}) = f[x] + SumFunctionOnSet(f, {x} \ {x})
  BY <1>1, SumRemove
<1> QED
  BY <1>1, <1>2, SumEmpty

\* Zeros add up to zero.
LEMMA SumZero ==
    ASSUME NEW S, IsFiniteSet(S), NEW f, \A x \in S : f[x] = 0
    PROVE  SumFunctionOnSet(f, S) = 0
<1> DEFINE B == {u \in SUBSET S : SumFunctionOnSet(f, u) # 0}
<1>1. B \in SUBSET SUBSET S
  OBVIOUS
<1>2. B = {}
  <2> SUFFICES ASSUME B # {} PROVE FALSE
    OBVIOUS
  <2> HIDE DEF B
  <2>1. PICK U \in B : \A V \in B : V \subseteq U => V = U
    BY <1>1, MinimalSubset
  <2>2. U \in SUBSET S /\ SumFunctionOnSet(f, U) # 0
    BY <2>1 DEF B
  <2>3. IsFiniteSet(U)
    BY <2>2, FS_Subset
  <2>4. PICK x \in U : SumFunctionOnSet(f, U) = f[x] + SumFunctionOnSet(f, U \ {x})
    BY <2>2, <2>3, SumUnfold
  <2>5. U \ {x} \notin B
    BY <2>1, <2>4
  <2>6. SumFunctionOnSet(f, U \ {x}) = 0
    BY <2>2, <2>5 DEF B
  <2>7. f[x] = 0
    BY <2>2, <2>4
  <2> QED
    BY <2>2, <2>4, <2>6, <2>7
<1> QED
  BY <1>2

\* One more value.
LEMMA SumGrow ==
    ASSUME NEW A, IsFiniteSet(A), NEW a, a \notin A, NEW f, NEW g,
           DOMAIN f = A, DOMAIN g = A \cup {a},
           \A x \in A : g[x] = f[x] /\ f[x] \in Int, g[a] \in Int
    PROVE  SumFunction(g) = SumFunction(f) + g[a]
<1>1. IsFiniteSet(A \cup {a}) /\ (A \cup {a}) \ {a} = A
  BY FS_AddElement
<1>2. \A x \in A \cup {a} : g[x] \in Int
  OBVIOUS
<1>3. SumFunctionOnSet(g, A \cup {a}) = g[a] + SumFunctionOnSet(g, A)
  BY <1>1, <1>2, SumRemove
<1>4. SumFunctionOnSet(g, A) = SumFunctionOnSet(f, A)
  BY SumAgree
<1>5. SumFunctionOnSet(f, A) \in Int
  BY SumType
<1> QED
  BY <1>3, <1>4, <1>5 DEF SumFunction

\* More values add up to no less.
LEMMA SumMore ==
    ASSUME NEW f, NEW g, IsFiniteSet(DOMAIN g), DOMAIN f \subseteq DOMAIN g,
           \A x \in DOMAIN f : f[x] = g[x], \A x \in DOMAIN g : g[x] \in Nat
    PROVE  SumFunction(f) \in Nat /\ SumFunction(g) \in Nat /\ SumFunction(f) <= SumFunction(g)
<1>1. IsFiniteSet(DOMAIN f)
  BY FS_Subset
<1>2. SumFunctionOnSet(f, DOMAIN f) = SumFunctionOnSet(g, DOMAIN f)
  BY <1>1, SumAgree
<1>3. SumFunctionOnSet(g, DOMAIN f) <= SumFunctionOnSet(g, DOMAIN g)
  BY SumSubset
<1>4. SumFunctionOnSet(g, DOMAIN g) \in Nat /\ SumFunctionOnSet(f, DOMAIN f) \in Nat
  BY <1>1, SumNat
<1> QED
  BY <1>2, <1>3, <1>4 DEF SumFunction

-----------------------------------------------------------------------------
(* Sublists.                                                               *)

IsThinning(g, s, S, n) ==
    g = [i \in 0..n |-> IF i = 0 THEN <<>>
                        ELSE IF s[i] \in S THEN Append(g[i - 1], s[i]) ELSE g[i - 1]]

\* The sublist is the last value of some recursive function.
LEMMA SublistDef ==
    ASSUME NEW s, NEW S
    PROVE  Sublist(s, S) = (CHOOSE g : IsThinning(g, s, S, Len(s)))[Len(s)]
BY DEF Sublist, IsThinning

\* There is one, of any length.
LEMMA ThinningExists ==
    ASSUME NEW s, NEW S, NEW n \in Nat PROVE \E g : IsThinning(g, s, S, n)
<1> DEFINE T == {j \in Nat : ~ \E g : IsThinning(g, s, S, j)}
<1> SUFFICES ASSUME T # {} PROVE FALSE
  OBVIOUS
<1>1. PICK k \in T : \A j \in T : k <= j
  <2>1. T \subseteq Nat
    OBVIOUS
  <2> HIDE DEF T
  <2> QED
    BY <2>1, LeastMember
<1>2. k \in Nat /\ ~ \E g : IsThinning(g, s, S, k)
  OBVIOUS
<1>3. CASE k = 0
  <2> DEFINE g == [i \in 0..0 |-> <<>>]
  <2>1. g = [i \in 0..0 |-> IF i = 0 THEN <<>>
                            ELSE IF s[i] \in S THEN Append(g[i - 1], s[i]) ELSE g[i - 1]]
    OBVIOUS
  <2>2. IsThinning(g, s, S, 0)
    <3> HIDE DEF g
    <3> QED
      BY <2>1 DEF IsThinning
  <2> QED
    BY <1>2, <1>3, <2>2
<1>4. CASE k # 0
  <2>1. k - 1 \in Nat /\ ~(k <= k - 1)
    BY <1>2, <1>4
  <2>2. k - 1 \notin T
    <3> HIDE DEF T
    <3> QED
      BY <1>1, <2>1
  <2>3. PICK g : IsThinning(g, s, S, k - 1)
    BY <2>1, <2>2
  <2> DEFINE last == IF s[k] \in S THEN Append(g[k - 1], s[k]) ELSE g[k - 1]
             h == [i \in 0..k |-> IF i = k THEN last ELSE g[i]]
  <2>4. \A i \in 0..(k - 1) :
           g[i] = IF i = 0 THEN <<>>
                  ELSE IF s[i] \in S THEN Append(g[i - 1], s[i]) ELSE g[i - 1]
    <3>1. g = [i \in 0..(k - 1) |->
                 IF i = 0 THEN <<>>
                 ELSE IF s[i] \in S THEN Append(g[i - 1], s[i]) ELSE g[i - 1]]
      BY <2>3 DEF IsThinning
    <3> QED
      BY <3>1
  <2>5. ASSUME NEW i \in 0..k
        PROVE  h[i] = IF i = 0 THEN <<>>
                      ELSE IF s[i] \in S THEN Append(h[i - 1], s[i]) ELSE h[i - 1]
    <3>1. CASE i = k
      <4>1. k - 1 \in 0..k /\ k - 1 # k
        BY <1>2, <1>4
      <4>2. h[k - 1] = g[k - 1] /\ h[i] = last
        BY <3>1, <4>1
      <4> QED
        BY <1>4, <3>1, <4>2
    <3>2. CASE i # k
      <4>1. i \in 0..(k - 1) /\ (i # 0 => i - 1 \in 0..k /\ i - 1 # k)
        BY <1>2, <3>2
      <4>2. h[i] = g[i] /\ (i # 0 => h[i - 1] = g[i - 1])
        BY <3>2, <4>1
      <4> HIDE DEF h
      <4> QED
        BY <2>4, <4>1, <4>2
    <3> QED
      BY <3>1, <3>2
  <2>6. h = [i \in 0..k |-> IF i = 0 THEN <<>>
                            ELSE IF s[i] \in S THEN Append(h[i - 1], s[i]) ELSE h[i - 1]]
    <3>1. h = [i \in 0..k |-> h[i]]
      OBVIOUS
    <3> HIDE DEF h
    <3> QED
      BY <2>5, <3>1
  <2>7. IsThinning(h, s, S, k)
    <3> HIDE DEF h
    <3> QED
      BY <2>6 DEF IsThinning
  <2> QED
    BY <1>2, <2>7
<1> QED
  BY <1>3, <1>4

\* f leads from the places of r to those of the members of S among the first n
\* of s, in their order.
Leads(f, r, s, S, n) ==
    /\ f \in [1..Len(r) -> 1..n]
    /\ \A j \in 1..Len(r) : s[f[j]] = r[j] /\ r[j] \in S
    /\ \A i, j \in 1..Len(r) : i < j => f[i] < f[j]
    /\ \A i \in 1..n : s[i] \in S => \E j \in 1..Len(r) : f[j] = i

Thins(T, r, s, S, n) == r \in Seq(T) /\ \E f : Leads(f, r, s, S, n)

\* One member more.
LEMMA ThinsStep ==
    ASSUME NEW T, NEW s \in Seq(T), NEW S, NEW n \in 1..Len(s), NEW r,
           Thins(T, r, s, S, n - 1)
    PROVE  Thins(T, IF s[n] \in S THEN Append(r, s[n]) ELSE r, s, S, n)
<1>1. PICK f : Leads(f, r, s, S, n - 1)
  BY DEF Thins
<1>2. r \in Seq(T) /\ Len(r) \in Nat /\ n \in Nat /\ s[n] \in T
  BY LenProperties, ElementOfSeq DEF Thins
<1>3. f \in [1..Len(r) -> 1..(n - 1)]
  BY <1>1 DEF Leads
<1>4. CASE s[n] \notin S
  <2>1. \A i \in 1..n : s[i] \in S => i \in 1..(n - 1)
    BY <1>2, <1>4
  <2>2. f \in [1..Len(r) -> 1..n]
    BY <1>2, <1>3
  <2>3. Leads(f, r, s, S, n)
    BY <1>1, <2>1, <2>2 DEF Leads
  <2> QED
    BY <1>2, <1>4, <2>3 DEF Thins
<1>5. CASE s[n] \in S
  <2> DEFINE w == Append(r, s[n])
             h == [j \in 1..Len(w) |-> IF j = Len(w) THEN n ELSE f[j]]
  <2>1. /\ w \in Seq(T) /\ Len(w) = Len(r) + 1 /\ w[Len(w)] = s[n]
        /\ \A j \in 1..Len(r) : w[j] = r[j]
    BY <1>2, AppendProperties
  <2>2. \A j \in 1..Len(w) : j \in 1..Len(r) \/ j = Len(w)
    BY <1>2, <2>1
  <2>3. \A j \in 1..Len(r) : j \in 1..Len(w) /\ j # Len(w) /\ h[j] = f[j] /\ f[j] \in 1..(n - 1)
    BY <1>2, <1>3, <2>1
  <2>4. Len(w) \in 1..Len(w) /\ h[Len(w)] = n
    BY <1>2, <2>1
  <2>5. h \in [1..Len(w) -> 1..n]
    <3>1. \A j \in 1..Len(w) : h[j] \in 1..n
      <4> HIDE DEF h, w
      <4> QED
        BY <1>2, <2>2, <2>3, <2>4
    <3>2. h = [j \in 1..Len(w) |-> h[j]]
      OBVIOUS
    <3> HIDE DEF h
    <3> QED
      BY <3>1, <3>2
  <2> HIDE DEF h, w
  <2>6. \A j \in 1..Len(w) : s[h[j]] = w[j] /\ w[j] \in S
    BY <1>1, <1>5, <2>1, <2>2, <2>3, <2>4 DEF Leads
  <2>7. ASSUME NEW i \in 1..Len(w), NEW j \in 1..Len(w), i < j PROVE h[i] < h[j]
    <3>1. i \in 1..Len(r)
      BY <1>2, <2>1, <2>7
    <3>2. CASE j \in 1..Len(r)
      BY <1>1, <2>3, <2>7, <3>1, <3>2 DEF Leads
    <3>3. CASE j = Len(w)
      <4>1. h[i] \in 1..(n - 1)
        BY <2>3, <3>1
      <4>2. h[j] = n
        BY <2>4, <3>3
      <4> QED
        BY <1>2, <4>1, <4>2
    <3> QED
      BY <2>2, <3>2, <3>3
  <2>8. ASSUME NEW i \in 1..n, s[i] \in S PROVE \E j \in 1..Len(w) : h[j] = i
    <3>1. CASE i = n
      BY <2>4, <3>1
    <3>2. CASE i # n
      <4>1. i \in 1..(n - 1)
        BY <1>2, <3>2
      <4>2. PICK j \in 1..Len(r) : f[j] = i
        BY <1>1, <2>8, <4>1 DEF Leads
      <4> QED
        BY <2>3, <4>2
    <3> QED
      BY <3>1, <3>2
  <2>9. Leads(h, w, s, S, n)
    BY <2>5, <2>6, <2>7, <2>8 DEF Leads
  <2> QED
    BY <1>5, <2>1, <2>9 DEF Thins, w
<1> QED
  BY <1>4, <1>5

\* A sublist is what its name says: the members of s that are in S, in order.
LEMMA SublistFacts ==
    ASSUME NEW T, NEW s \in Seq(T), NEW S
    PROVE  Thins(T, Sublist(s, S), s, S, Len(s))
<1>1. Len(s) \in Nat
  BY LenProperties
<1>2. PICK g : IsThinning(g, s, S, Len(s)) /\ Sublist(s, S) = g[Len(s)]
  <2>1. \E g : IsThinning(g, s, S, Len(s))
    BY <1>1, ThinningExists
  <2> QED
    BY <2>1, SublistDef
<1>3. \A i \in 0..Len(s) :
         g[i] = IF i = 0 THEN <<>>
                ELSE IF s[i] \in S THEN Append(g[i - 1], s[i]) ELSE g[i - 1]
  <2>1. g = [i \in 0..Len(s) |->
               IF i = 0 THEN <<>>
               ELSE IF s[i] \in S THEN Append(g[i - 1], s[i]) ELSE g[i - 1]]
    BY <1>2 DEF IsThinning
  <2> QED
    BY <2>1
<1> DEFINE B == {i \in 0..Len(s) : ~Thins(T, g[i], s, S, i)}
<1> SUFFICES ASSUME B # {} PROVE FALSE
  BY <1>1, <1>2
<1>4. PICK k \in B : \A j \in B : k <= j
  <2>1. B \subseteq Nat
    BY <1>1
  <2> HIDE DEF B
  <2> QED
    BY <2>1, LeastMember
<1>5. k \in 0..Len(s) /\ ~Thins(T, g[k], s, S, k) /\ k \in Nat
  BY <1>1
<1>6. CASE k = 0
  <2>1. g[0] = <<>> /\ <<>> \in Seq(T) /\ Len(<<>>) = 0
    BY <1>1, <1>3
  <2>2. Leads([j \in 1..0 |-> j], <<>>, s, S, 0)
    BY <2>1 DEF Leads
  <2> QED
    BY <1>5, <1>6, <2>1, <2>2 DEF Thins
<1>7. CASE k # 0
  <2>1. k \in 1..Len(s) /\ k - 1 \in 0..Len(s) /\ ~(k <= k - 1)
    BY <1>1, <1>5, <1>7
  <2>2. k - 1 \notin B
    <3> HIDE DEF B
    <3> QED
      BY <1>4, <2>1
  <2>3. Thins(T, g[k - 1], s, S, k - 1)
    BY <2>1, <2>2
  <2>4. g[k] = IF s[k] \in S THEN Append(g[k - 1], s[k]) ELSE g[k - 1]
    BY <1>3, <1>5, <1>7
  <2>5. Thins(T, IF s[k] \in S THEN Append(g[k - 1], s[k]) ELSE g[k - 1], s, S, k)
    BY <2>1, <2>3, ThinsStep
  <2> QED
    BY <1>5, <2>4, <2>5
<1> QED
  BY <1>6, <1>7

-----------------------------------------------------------------------------
(* What a list has, and in which order.                                    *)

\* Any member of s is related to those after it.
Ranked(s, R) == \A i, j \in 1..Len(s) : i < j => <<s[i], s[j]>> \in R

LEMMA MemberOf ==
    ASSUME NEW T, NEW s \in Seq(T)
    PROVE  /\ Len(s) \in Nat /\ DOMAIN s = 1..Len(s)
           /\ ToSet(s) \subseteq T
           /\ \A x : x \in ToSet(s) <=> \E i \in 1..Len(s) : s[i] = x
<1>1. Len(s) \in Nat /\ DOMAIN s = 1..Len(s) /\ \A i \in 1..Len(s) : s[i] \in T
  BY LenProperties, ElementOfSeq
<1> QED
  BY <1>1 DEF ToSet

\* One member more.
LEMMA AppendFacts ==
    ASSUME NEW T, NEW s \in Seq(T), NEW x \in T
    PROVE  /\ Append(s, x) \in Seq(T)
           /\ ToSet(Append(s, x)) = ToSet(s) \cup {x}
           /\ \A R : Ranked(s, R) /\ (\A y \in ToSet(s) : <<y, x>> \in R) => Ranked(Append(s, x), R)
<1> DEFINE r == Append(s, x)
<1>1. /\ r \in Seq(T) /\ Len(r) = Len(s) + 1 /\ r[Len(s) + 1] = x
      /\ \A i \in 1..Len(s) : r[i] = s[i]
  BY AppendProperties
<1> HIDE DEF r
<1>2. /\ Len(s) \in Nat /\ \A y : y \in ToSet(s) <=> \E i \in 1..Len(s) : s[i] = y
      /\ \A y : y \in ToSet(r) <=> \E i \in 1..Len(r) : r[i] = y
  BY <1>1, MemberOf
<1>3. \A i \in 1..Len(r) : i \in 1..Len(s) \/ i = Len(s) + 1
  BY <1>1, <1>2
<1>4. Len(s) + 1 \in 1..Len(r) /\ \A i \in 1..Len(s) : i \in 1..Len(r)
  BY <1>1, <1>2
<1>5. ToSet(r) = ToSet(s) \cup {x}
  <2>1. ASSUME NEW y \in ToSet(r) PROVE y \in ToSet(s) \cup {x}
    BY <1>1, <1>2, <1>3
  <2>2. ASSUME NEW y \in ToSet(s) \cup {x} PROVE y \in ToSet(r)
    BY <1>1, <1>2, <1>4
  <2> QED
    BY <2>1, <2>2
<1>6. ASSUME NEW R, Ranked(s, R), \A y \in ToSet(s) : <<y, x>> \in R PROVE Ranked(r, R)
  <2> SUFFICES ASSUME NEW i \in 1..Len(r), NEW j \in 1..Len(r), i < j
               PROVE  <<r[i], r[j]>> \in R
    BY DEF Ranked
  <2>1. i \in 1..Len(s) /\ r[i] = s[i] /\ s[i] \in ToSet(s)
    BY <1>1, <1>2
  <2>2. CASE j \in 1..Len(s)
    BY <1>1, <1>6, <2>1, <2>2 DEF Ranked
  <2>3. CASE j = Len(s) + 1
    BY <1>1, <1>6, <2>1, <2>3
  <2> QED
    BY <1>3, <2>2, <2>3
<1> QED
  BY <1>1, <1>5, <1>6 DEF r

\* One list after the other.
LEMMA ConcatFacts ==
    ASSUME NEW T, NEW s \in Seq(T), NEW t \in Seq(T)
    PROVE  /\ s \o t \in Seq(T)
           /\ ToSet(s \o t) = ToSet(s) \cup ToSet(t)
           /\ \A R : /\ Ranked(s, R) /\ Ranked(t, R)
                     /\ \A x \in ToSet(s), y \in ToSet(t) : <<x, y>> \in R
                     => Ranked(s \o t, R)
<1> DEFINE r == s \o t
<1>1. /\ r \in Seq(T) /\ Len(r) = Len(s) + Len(t)
      /\ \A i \in 1..(Len(s) + Len(t)) : r[i] = IF i <= Len(s) THEN s[i] ELSE t[i - Len(s)]
  BY ConcatProperties
<1> HIDE DEF r
<1>2. /\ Len(s) \in Nat /\ \A y : y \in ToSet(s) <=> \E i \in 1..Len(s) : s[i] = y
      /\ Len(t) \in Nat /\ \A y : y \in ToSet(t) <=> \E i \in 1..Len(t) : t[i] = y
      /\ \A y : y \in ToSet(r) <=> \E i \in 1..Len(r) : r[i] = y
  BY <1>1, MemberOf
<1>3. ASSUME NEW i \in 1..Len(r)
      PROVE  \/ i \in 1..Len(s) /\ r[i] = s[i]
             \/ i > Len(s) /\ i - Len(s) \in 1..Len(t) /\ r[i] = t[i - Len(s)]
  <2>1. CASE i <= Len(s)
    BY <1>1, <1>2, <2>1
  <2>2. CASE ~(i <= Len(s))
    BY <1>1, <1>2, <2>2
  <2> QED
    BY <2>1, <2>2
<1>4. ASSUME NEW i \in 1..Len(s) PROVE i \in 1..Len(r) /\ r[i] = s[i]
  BY <1>1, <1>2
<1>5. ASSUME NEW i \in 1..Len(t) PROVE Len(s) + i \in 1..Len(r) /\ r[Len(s) + i] = t[i]
  <2>1. Len(s) + i \in 1..(Len(s) + Len(t)) /\ ~(Len(s) + i <= Len(s)) /\ (Len(s) + i) - Len(s) = i
    BY <1>2
  <2> QED
    BY <1>1, <2>1
<1>6. ToSet(r) = ToSet(s) \cup ToSet(t)
  <2>1. ASSUME NEW y \in ToSet(r) PROVE y \in ToSet(s) \cup ToSet(t)
    <3>1. PICK i \in 1..Len(r) : r[i] = y
      BY <1>2
    <3> QED
      BY <1>2, <1>3, <3>1
  <2>2. ASSUME NEW y \in ToSet(s) PROVE y \in ToSet(r)
    BY <1>2, <1>4
  <2>3. ASSUME NEW y \in ToSet(t) PROVE y \in ToSet(r)
    BY <1>2, <1>5
  <2> QED
    BY <2>1, <2>2, <2>3
<1>7. ASSUME NEW R, Ranked(s, R), Ranked(t, R), \A x \in ToSet(s), y \in ToSet(t) : <<x, y>> \in R
      PROVE  Ranked(r, R)
  <2> SUFFICES ASSUME NEW i \in 1..Len(r), NEW j \in 1..Len(r), i < j
               PROVE  <<r[i], r[j]>> \in R
    BY DEF Ranked
  <2>1. CASE j \in 1..Len(s) /\ r[j] = s[j]
    <3>1. i \in 1..Len(s)
      BY <1>2, <2>1
    <3> QED
      BY <1>4, <1>7, <2>1, <3>1 DEF Ranked
  <2>2. CASE j > Len(s) /\ j - Len(s) \in 1..Len(t) /\ r[j] = t[j - Len(s)]
    <3>1. CASE i \in 1..Len(s) /\ r[i] = s[i]
      BY <1>2, <1>7, <2>2, <3>1
    <3>2. CASE i > Len(s) /\ i - Len(s) \in 1..Len(t) /\ r[i] = t[i - Len(s)]
      <4>1. i - Len(s) < j - Len(s)
        BY <1>2, <2>2, <3>2
      <4> QED
        BY <1>7, <2>2, <3>2, <4>1 DEF Ranked
    <3> QED
      BY <1>3, <3>1, <3>2
  <2> QED
    BY <1>3, <2>1, <2>2
<1> QED
  BY <1>1, <1>6, <1>7 DEF r

\* One member less.
LEMMA RemoveAtFacts ==
    ASSUME NEW T, NEW s \in Seq(T), NEW i \in 1..Len(s)
    PROVE  /\ RemoveAt(s, i) \in Seq(T)
           /\ ToSet(s) = ToSet(RemoveAt(s, i)) \cup {s[i]}
           /\ \A x \in ToSet(RemoveAt(s, i)) : \E j \in 1..Len(s) : j # i /\ s[j] = x
           /\ \A R : Ranked(s, R) => Ranked(RemoveAt(s, i), R)
<1> DEFINE a == SubSeq(s, 1, i - 1)
           b == SubSeq(s, i + 1, Len(s))
           r == RemoveAt(s, i)
<1>1. Len(s) \in Nat /\ i \in Nat /\ \A j \in 1..Len(s) : s[j] \in T
  BY LenProperties, ElementOfSeq
<1>2. a \in Seq(T) /\ Len(a) = i - 1 /\ \A j \in 1..(i - 1) : a[j] = s[j]
  <2>1. 1 \in Int /\ i - 1 \in Int /\ \A j \in 1..(i - 1) : s[j] \in T
    BY <1>1
  <2>2. /\ a \in Seq(T) /\ Len(a) = (IF 1 <= i - 1 THEN (i - 1) - 1 + 1 ELSE 0)
        /\ \A j \in 1..((i - 1) - 1 + 1) : a[j] = s[1 + j - 1]
    BY <2>1, SubSeqProperties
  <2> HIDE DEF a
  <2> QED
    BY <1>1, <2>2
<1>3. b \in Seq(T) /\ Len(b) = Len(s) - i /\ \A j \in 1..(Len(s) - i) : b[j] = s[i + j]
  <2>1. i + 1 \in Int /\ Len(s) \in Int /\ \A j \in (i + 1)..Len(s) : s[j] \in T
    BY <1>1
  <2>2. /\ b \in Seq(T) /\ Len(b) = (IF i + 1 <= Len(s) THEN Len(s) - (i + 1) + 1 ELSE 0)
        /\ \A j \in 1..(Len(s) - (i + 1) + 1) : b[j] = s[(i + 1) + j - 1]
    BY <2>1, SubSeqProperties
  <2> HIDE DEF b
  <2> QED
    BY <1>1, <2>2
<1>4. r = a \o b
  BY DEF RemoveAt
<1> HIDE DEF a, b, r
<1>5. r \in Seq(T) /\ ToSet(r) = ToSet(a) \cup ToSet(b)
  BY <1>2, <1>3, <1>4, ConcatFacts
<1>6. /\ \A x : x \in ToSet(s) <=> \E j \in 1..Len(s) : s[j] = x
      /\ \A x : x \in ToSet(a) <=> \E j \in 1..(i - 1) : a[j] = x
      /\ \A x : x \in ToSet(b) <=> \E j \in 1..(Len(s) - i) : b[j] = x
  BY <1>2, <1>3, MemberOf
<1>7. ASSUME NEW x \in ToSet(r) PROVE \E j \in 1..Len(s) : j # i /\ s[j] = x
  <2>1. CASE x \in ToSet(a)
    <3>1. PICK j \in 1..(i - 1) : a[j] = x
      BY <1>6, <2>1
    <3>2. j \in 1..Len(s) /\ j # i /\ s[j] = x
      BY <1>1, <1>2, <3>1
    <3> QED
      BY <3>2
  <2>2. CASE x \in ToSet(b)
    <3>1. PICK j \in 1..(Len(s) - i) : b[j] = x
      BY <1>6, <2>2
    <3>2. i + j \in 1..Len(s) /\ i + j # i /\ s[i + j] = x
      BY <1>1, <1>3, <3>1
    <3> QED
      BY <3>2
  <2> QED
    BY <1>5, <2>1, <2>2
<1>8. ASSUME NEW j \in 1..Len(s), j # i PROVE s[j] \in ToSet(r)
  <2>1. CASE j < i
    <3>1. j \in 1..(i - 1)
      BY <1>1, <2>1
    <3> QED
      BY <1>2, <1>5, <1>6, <3>1
  <2>2. CASE i < j
    <3>1. j - i \in 1..(Len(s) - i) /\ i + (j - i) = j
      BY <1>1, <2>2
    <3>2. b[j - i] = s[j]
      BY <1>3, <3>1
    <3> QED
      BY <1>5, <1>6, <3>1, <3>2
  <2> QED
    BY <1>1, <1>8, <2>1, <2>2
<1>9. ToSet(s) = ToSet(r) \cup {s[i]}
  <2>1. ASSUME NEW x \in ToSet(s) PROVE x \in ToSet(r) \cup {s[i]}
    BY <1>6, <1>8
  <2>2. ASSUME NEW x \in ToSet(r) \cup {s[i]} PROVE x \in ToSet(s)
    BY <1>6, <1>7
  <2> QED
    BY <2>1, <2>2
<1>10. ASSUME NEW R, Ranked(s, R) PROVE Ranked(r, R)
  <2>1. Ranked(a, R)
    <3> SUFFICES ASSUME NEW j \in 1..(i - 1), NEW k \in 1..(i - 1), j < k PROVE <<a[j], a[k]>> \in R
      BY <1>2 DEF Ranked
    <3>1. j \in 1..Len(s) /\ k \in 1..Len(s)
      BY <1>1
    <3> QED
      BY <1>2, <1>10, <3>1 DEF Ranked
  <2>2. Ranked(b, R)
    <3> SUFFICES ASSUME NEW j \in 1..(Len(s) - i), NEW k \in 1..(Len(s) - i), j < k
                 PROVE  <<b[j], b[k]>> \in R
      BY <1>3 DEF Ranked
    <3>1. i + j \in 1..Len(s) /\ i + k \in 1..Len(s) /\ i + j < i + k
      BY <1>1
    <3> QED
      BY <1>3, <1>10, <3>1 DEF Ranked
  <2>3. ASSUME NEW x \in ToSet(a), NEW y \in ToSet(b) PROVE <<x, y>> \in R
    <3>1. PICK j \in 1..(i - 1) : a[j] = x
      BY <1>6
    <3>2. PICK k \in 1..(Len(s) - i) : b[k] = y
      BY <1>6
    <3>3. j \in 1..Len(s) /\ i + k \in 1..Len(s) /\ j < i + k
      BY <1>1
    <3> QED
      BY <1>2, <1>3, <1>10, <3>1, <3>2, <3>3 DEF Ranked
  <2> QED
    BY <1>2, <1>3, <1>4, <2>1, <2>2, <2>3, ConcatFacts
<1> QED
  BY <1>5, <1>7, <1>9, <1>10 DEF r

\* A sublist has what its name says, in the order it had.
LEMMA SublistOrdered ==
    ASSUME NEW T, NEW s \in Seq(T), NEW S
    PROVE  /\ Sublist(s, S) \in Seq(T)
           /\ ToSet(Sublist(s, S)) = ToSet(s) \cap S
           /\ \A R : Ranked(s, R) => Ranked(Sublist(s, S), R)
<1> DEFINE r == Sublist(s, S)
<1>1. Thins(T, r, s, S, Len(s))
  BY SublistFacts
<1> HIDE DEF r
<1>2. r \in Seq(T)
  BY <1>1 DEF Thins
<1>3. PICK f : Leads(f, r, s, S, Len(s))
  BY <1>1 DEF Thins
<1>4. /\ \A j \in 1..Len(r) : f[j] \in 1..Len(s) /\ s[f[j]] = r[j] /\ r[j] \in S
      /\ \A i, j \in 1..Len(r) : i < j => f[i] < f[j]
      /\ \A i \in 1..Len(s) : s[i] \in S => \E j \in 1..Len(r) : f[j] = i
  BY <1>3 DEF Leads
<1>5. /\ \A x : x \in ToSet(s) <=> \E j \in 1..Len(s) : s[j] = x
      /\ \A x : x \in ToSet(r) <=> \E j \in 1..Len(r) : r[j] = x
  BY <1>2, MemberOf
<1>6. ToSet(r) = ToSet(s) \cap S
  <2>1. ASSUME NEW x \in ToSet(r) PROVE x \in ToSet(s) \cap S
    BY <1>4, <1>5
  <2>2. ASSUME NEW x \in ToSet(s) \cap S PROVE x \in ToSet(r)
    BY <1>4, <1>5
  <2> QED
    BY <2>1, <2>2
<1>7. ASSUME NEW R, Ranked(s, R) PROVE Ranked(r, R)
  <2> SUFFICES ASSUME NEW i \in 1..Len(r), NEW j \in 1..Len(r), i < j
               PROVE  <<r[i], r[j]>> \in R
    BY DEF Ranked
  <2>1. f[i] < f[j] /\ f[i] \in 1..Len(s) /\ f[j] \in 1..Len(s) /\ s[f[i]] = r[i] /\ s[f[j]] = r[j]
    BY <1>4
  <2> QED
    BY <1>7, <2>1 DEF Ranked
<1> QED
  BY <1>2, <1>6, <1>7 DEF r

-----------------------------------------------------------------------------
(* Lists joined.                                                           *)

IsJoining(g, ss, n) == g = [i \in 0..n |-> IF i = 0 THEN <<>> ELSE g[i - 1] \o ss[i]]

\* There is one, of any length.
LEMMA JoiningExists ==
    ASSUME NEW ss, NEW n \in Nat PROVE \E g : IsJoining(g, ss, n)
<1> DEFINE T == {j \in Nat : ~ \E g : IsJoining(g, ss, j)}
<1> SUFFICES ASSUME T # {} PROVE FALSE
  OBVIOUS
<1>1. PICK k \in T : \A j \in T : k <= j
  <2>1. T \subseteq Nat
    OBVIOUS
  <2> HIDE DEF T
  <2> QED
    BY <2>1, LeastMember
<1>2. k \in Nat /\ ~ \E g : IsJoining(g, ss, k)
  OBVIOUS
<1>3. CASE k = 0
  <2> DEFINE g == [i \in 0..0 |-> <<>>]
  <2>1. g = [i \in 0..0 |-> IF i = 0 THEN <<>> ELSE g[i - 1] \o ss[i]]
    OBVIOUS
  <2>2. IsJoining(g, ss, 0)
    <3> HIDE DEF g
    <3> QED
      BY <2>1 DEF IsJoining
  <2> QED
    BY <1>2, <1>3, <2>2
<1>4. CASE k # 0
  <2>1. k - 1 \in Nat /\ ~(k <= k - 1)
    BY <1>2, <1>4
  <2>2. k - 1 \notin T
    <3> HIDE DEF T
    <3> QED
      BY <1>1, <2>1
  <2>3. PICK g : IsJoining(g, ss, k - 1)
    BY <2>1, <2>2
  <2> DEFINE h == [i \in 0..k |-> IF i = k THEN g[k - 1] \o ss[k] ELSE g[i]]
  <2>4. \A i \in 0..(k - 1) : g[i] = IF i = 0 THEN <<>> ELSE g[i - 1] \o ss[i]
    <3>1. g = [i \in 0..(k - 1) |-> IF i = 0 THEN <<>> ELSE g[i - 1] \o ss[i]]
      BY <2>3 DEF IsJoining
    <3> QED
      BY <3>1
  <2>5. ASSUME NEW i \in 0..k
        PROVE  h[i] = IF i = 0 THEN <<>> ELSE h[i - 1] \o ss[i]
    <3>1. CASE i = k
      <4>1. k - 1 \in 0..k /\ k - 1 # k
        BY <1>2, <1>4
      <4>2. h[k - 1] = g[k - 1] /\ h[i] = g[k - 1] \o ss[k]
        BY <3>1, <4>1
      <4> QED
        BY <1>4, <3>1, <4>2
    <3>2. CASE i # k
      <4>1. i \in 0..(k - 1) /\ (i # 0 => i - 1 \in 0..k /\ i - 1 # k)
        BY <1>2, <3>2
      <4>2. h[i] = g[i] /\ (i # 0 => h[i - 1] = g[i - 1])
        BY <3>2, <4>1
      <4> HIDE DEF h
      <4> QED
        BY <2>4, <4>1, <4>2
    <3> QED
      BY <3>1, <3>2
  <2>6. h = [i \in 0..k |-> IF i = 0 THEN <<>> ELSE h[i - 1] \o ss[i]]
    <3>1. h = [i \in 0..k |-> h[i]]
      OBVIOUS
    <3> HIDE DEF h
    <3> QED
      BY <2>5, <3>1
  <2>7. IsJoining(h, ss, k)
    <3> HIDE DEF h
    <3> QED
      BY <2>6 DEF IsJoining
  <2> QED
    BY <1>2, <2>7
<1> QED
  BY <1>3, <1>4

\* The lists joined have what each has, and keep an order they keep, each by
\* itself and one to the next.
LEMMA JoinedFacts ==
    ASSUME NEW T, NEW ss, NEW R, Len(ss) \in Nat,
           \A m \in 1..Len(ss) : ss[m] \in Seq(T) /\ Ranked(ss[m], R),
           \A l, m \in 1..Len(ss) : l < m =>
              \A x \in ToSet(ss[l]), y \in ToSet(ss[m]) : <<x, y>> \in R
    PROVE  /\ Joined(ss) \in Seq(T)
           /\ \A x : x \in ToSet(Joined(ss)) <=> \E m \in 1..Len(ss) : x \in ToSet(ss[m])
           /\ Ranked(Joined(ss), R)
<1> DEFINE Joins(r, n) == /\ r \in Seq(T)
                          /\ \A x : x \in ToSet(r) <=> \E m \in 1..n : x \in ToSet(ss[m])
                          /\ Ranked(r, R)
<1>1. PICK g : IsJoining(g, ss, Len(ss)) /\ Joined(ss) = g[Len(ss)]
  <2>1. Joined(ss) = (CHOOSE g : IsJoining(g, ss, Len(ss)))[Len(ss)]
    BY DEF Joined, IsJoining
  <2>2. \E g : IsJoining(g, ss, Len(ss))
    BY JoiningExists
  <2> QED
    BY <2>1, <2>2
<1>2. \A i \in 0..Len(ss) : g[i] = IF i = 0 THEN <<>> ELSE g[i - 1] \o ss[i]
  <2>1. g = [i \in 0..Len(ss) |-> IF i = 0 THEN <<>> ELSE g[i - 1] \o ss[i]]
    BY <1>1 DEF IsJoining
  <2> QED
    BY <2>1
<1>3. Joins(g[0], 0)
  <2> DEFINE r == g[0]
  <2>1. r = <<>>
    BY <1>2
  <2> HIDE DEF r
  <2>2. r \in Seq(T) /\ Len(r) = 0 /\ ToSet(r) = {}
    BY <2>1, EmptySeq DEF ToSet
  <2>3. Ranked(r, R)
    BY <2>2 DEF Ranked
  <2> QED
    BY <2>2, <2>3 DEF r
<1>4. ASSUME NEW n \in 1..Len(ss), Joins(g[n - 1], n - 1) PROVE Joins(g[n], n)
  <2> DEFINE r == g[n - 1]
  <2>1. g[n] = r \o ss[n]
    <3>1. n \in 0..Len(ss) /\ n # 0
      OBVIOUS
    <3> QED
      BY <1>2, <3>1
  <2>2. /\ r \in Seq(T) /\ Ranked(r, R)
        /\ \A x : x \in ToSet(r) <=> \E m \in 1..(n - 1) : x \in ToSet(ss[m])
    BY <1>4
  <2>3. ss[n] \in Seq(T) /\ Ranked(ss[n], R)
    OBVIOUS
  <2> HIDE DEF r
  <2>4. \A x \in ToSet(r), y \in ToSet(ss[n]) : <<x, y>> \in R
    <3> TAKE x \in ToSet(r), y \in ToSet(ss[n])
    <3>1. PICK m \in 1..(n - 1) : x \in ToSet(ss[m])
      BY <2>2
    <3>2. m \in 1..Len(ss) /\ m < n
      OBVIOUS
    <3> QED
      BY <3>1, <3>2
  <2>5. /\ r \o ss[n] \in Seq(T) /\ Ranked(r \o ss[n], R)
        /\ ToSet(r \o ss[n]) = ToSet(r) \cup ToSet(ss[n])
    BY <2>2, <2>3, <2>4, ConcatFacts
  <2>6. 1..n = 1..(n - 1) \cup {n}
    OBVIOUS
  <2>7. \A x : x \in ToSet(r \o ss[n]) <=> \E m \in 1..n : x \in ToSet(ss[m])
    BY <2>2, <2>5, <2>6
  <2> QED
    BY <2>1, <2>5, <2>7
<1> HIDE DEF Joins
<1> DEFINE B == {i \in 0..Len(ss) : ~Joins(g[i], i)}
<1>5. B = {}
  <2> SUFFICES ASSUME B # {} PROVE FALSE
    OBVIOUS
  <2>1. PICK k \in B : \A j \in B : k <= j
    <3>1. B \subseteq Nat
      OBVIOUS
    <3> HIDE DEF B
    <3> QED
      BY <3>1, LeastMember
  <2>2. k \in 0..Len(ss) /\ ~Joins(g[k], k)
    OBVIOUS
  <2>3. k # 0
    BY <1>3, <2>2
  <2>4. k \in 1..Len(ss) /\ k - 1 \in 0..Len(ss) /\ ~(k <= k - 1)
    BY <2>2, <2>3
  <2>5. k - 1 \notin B
    <3> HIDE DEF B
    <3> QED
      BY <2>1, <2>4
  <2>6. Joins(g[k - 1], k - 1)
    BY <2>4, <2>5
  <2> QED
    BY <1>4, <2>2, <2>4, <2>6
<1>6. Joins(Joined(ss), Len(ss))
  BY <1>1, <1>5
<1> QED
  BY <1>6 DEF Joins

-----------------------------------------------------------------------------
(* Paths.                                                                  *)

Weights(cost) == \A e \in DOMAIN cost : cost[e] \in Nat

\* A simple path is a sequence of usable nodes, none of them twice.
LEMMA PathIsSeq ==
    ASSUME NEW usable, IsFiniteSet(usable), NEW cost, NEW p \in SimplePaths(usable, cost)
    PROVE  /\ p \in Seq(usable) /\ p # <<>>
           /\ Len(p) \in 1..Cardinality(usable)
           /\ p \in [1..Len(p) -> usable]
           /\ IsInjective(p)
           /\ Hops(p) \subseteq DOMAIN cost
<1>1. Cardinality(usable) \in Nat
  BY FS_CardinalityType
<1>2. PICK k \in 1..Cardinality(usable) :
        p \in [1..k -> usable] /\ IsInjective(p) /\ Hops(p) \subseteq DOMAIN cost
  BY DEF SimplePaths
<1>3. p \in Seq(usable) /\ Len(p) = k
  BY <1>1, <1>2, IsASeq, LenProperties
<1> QED
  BY <1>1, <1>2, <1>3, EmptySeq

\* A sequence has finitely many members.
LEMMA ToSetFinite ==
    ASSUME NEW S, NEW q \in Seq(S) PROVE IsFiniteSet(ToSet(q)) /\ ToSet(q) \subseteq S
<1>1. Len(q) \in Nat /\ q \in [1..Len(q) -> S]
  BY LenProperties
<1>2. IsFiniteSet(1..Len(q))
  BY <1>1, FS_Interval
<1>3. q \in Surjection(1..Len(q), ToSet(q)) /\ ToSet(q) \subseteq S
  BY <1>1 DEF Surjection, ToSet
<1> QED
  BY <1>2, <1>3, FS_Surjection

\* A path has finitely many hops.
LEMMA HopsFinite == ASSUME NEW S, NEW p \in Seq(S) PROVE IsFiniteSet(Hops(p))
<1> DEFINE I == 1..(Len(p) - 1)
           h == [i \in I |-> <<p[i], p[i + 1]>>]
<1>1. Len(p) \in Nat
  BY LenProperties
<1>2. IsFiniteSet(I)
  BY <1>1, FS_Interval
<1>3. h \in Surjection(I, Hops(p))
  BY DEF Surjection, Hops
<1> QED
  BY <1>2, <1>3, FS_Surjection

\* What a path costs is a natural number.
LEMMA CostIsNat ==
    ASSUME NEW usable, IsFiniteSet(usable), NEW cost, Weights(cost),
           NEW p \in SimplePaths(usable, cost)
    PROVE  PathCost(p, cost) \in Nat
<1>1. p \in Seq(usable) /\ Hops(p) \subseteq DOMAIN cost
  BY PathIsSeq
<1>2. IsFiniteSet(Hops(p)) /\ \A e \in Hops(p) : cost[e] \in Nat
  BY <1>1, HopsFinite DEF Weights
<1> QED
  BY <1>2, SumNat DEF PathCost

\* Among some simple paths there is one that is no longer than any.
LEMMA ShortestExists ==
    ASSUME NEW usable, IsFiniteSet(usable), NEW cost, Weights(cost),
           NEW P \in SUBSET SimplePaths(usable, cost), P # {}
    PROVE  \E p \in P : \A q \in P : NoLonger(p, q, cost)
<1> DEFINE C == {PathCost(p, cost) : p \in P}
<1>1. \A p \in P : PathCost(p, cost) \in Nat /\ Len(p) \in Nat
  BY CostIsNat, PathIsSeq, LenProperties
<1>2. PICK c \in C : \A d \in C : c <= d
  <2>1. C \subseteq Nat /\ C # {}
    BY <1>1
  <2> HIDE DEF C
  <2> QED
    BY <2>1, LeastMember
<1> DEFINE L == {Len(p) : p \in {q \in P : PathCost(q, cost) = c}}
<1>3. PICK l \in L : \A k \in L : l <= k
  <2>1. L \subseteq Nat /\ L # {}
    BY <1>1
  <2> HIDE DEF L
  <2> QED
    BY <2>1, LeastMember
<1>4. PICK p \in P : PathCost(p, cost) = c /\ Len(p) = l
  OBVIOUS
<1>5. ASSUME NEW q \in P PROVE NoLonger(p, q, cost)
  <2>1. c <= PathCost(q, cost)
    BY <1>2
  <2>2. PathCost(q, cost) = c => l <= Len(q)
    BY <1>3
  <2>3. c \in Nat /\ PathCost(q, cost) \in Nat
    BY <1>1
  <2> QED
    BY <1>4, <2>1, <2>2, <2>3 DEF NoLonger
<1> QED
  BY <1>5

\* What the path algorithm returns.
LEMMA ShortestFacts ==
    ASSUME NEW usable, IsFiniteSet(usable), NEW cost, Weights(cost), NEW s, NEW t
    PROVE  LET paths == SimplePaths(usable, cost)
               q     == Shortest(paths, cost, s, t)
           IN  /\ q = NoPath => \A p \in paths : ~(p[1] = s /\ Last(p) = t)
               /\ q # NoPath => /\ q \in paths /\ q[1] = s /\ Last(q) = t
                                /\ \A p \in paths : p[1] = s /\ Last(p) = t => NoLonger(q, p, cost)
<1> DEFINE paths   == SimplePaths(usable, cost)
           q       == Shortest(paths, cost, s, t)
           between == {p \in paths : p[1] = s /\ Last(p) = t}
<1>1. CASE between = {}
  BY <1>1 DEF Shortest
<1>2. CASE between # {}
  <2>1. q = CHOOSE p \in between : \A r \in between : NoLonger(p, r, cost)
    BY <1>2 DEF Shortest
  <2>2. between \in SUBSET paths
    OBVIOUS
  <2>3. \E p \in between : \A r \in between : NoLonger(p, r, cost)
    <3> HIDE DEF between
    <3> QED
      BY <1>2, <2>2, ShortestExists
  <2>4. q \in between /\ \A r \in between : NoLonger(q, r, cost)
    <3> HIDE DEF between, q
    <3> QED
      BY <2>1, <2>3
  <2>5. q # NoPath
    <3> HIDE DEF q
    <3> QED
      BY <2>4, PathIsSeq DEF NoPath
  <2> QED
    BY <2>4, <2>5
<1> QED
  BY <1>1, <1>2

\* What path() returns, if anything.
LEMMA ShortestPathFacts ==
    ASSUME NEW usable, IsFiniteSet(usable), NEW cost, Weights(cost), NEW s, NEW t,
           ShortestPath(usable, cost, s, t) # NoPath
    PROVE  LET q == ShortestPath(usable, cost, s, t)
           IN  /\ q \in SimplePaths(usable, cost) /\ q[1] = s /\ Last(q) = t
               /\ q \in Seq(usable) /\ ToSet(q) \subseteq usable
<1> DEFINE q == ShortestPath(usable, cost, s, t)
<1>1. q \in SimplePaths(usable, cost) /\ q[1] = s /\ Last(q) = t
  BY ShortestFacts DEF ShortestPath
<1> HIDE DEF q
<1>2. q \in Seq(usable) /\ q \in [1..Len(q) -> usable]
  BY <1>1, PathIsSeq
<1>3. ToSet(q) \subseteq usable
  BY <1>2 DEF ToSet
<1> QED
  BY <1>1, <1>2, <1>3 DEF q

\* What makes a simple path.
LEMMA IsSimplePath ==
    ASSUME NEW usable, IsFiniteSet(usable), NEW cost, NEW k \in Nat \ {0},
           NEW p \in [1..k -> usable], IsInjective(p), Hops(p) \subseteq DOMAIN cost
    PROVE  p \in SimplePaths(usable, cost)
<1>1. p \in Injection(1..k, usable)
  BY DEF Injection
<1>2. Cardinality(1..k) <= Cardinality(usable) /\ Cardinality(1..k) = k
  BY <1>1, FS_Injection, FS_Interval
<1>3. Cardinality(usable) \in Nat
  BY FS_CardinalityType
<1>4. k \in 1..Cardinality(usable)
  BY <1>2, <1>3
<1> QED
  BY <1>4 DEF SimplePaths

\* A stretch of a simple path is one.
Stretch(p, i, j) == [k \in 1..(j - i + 1) |-> p[k + i - 1]]
HopsFrom(p, i, j) == {<<p[k], p[k + 1]>> : k \in i..(j - 1)}

\* A stretch of a simple path is a simple path between its ends.
LEMMA StretchFacts ==
    ASSUME NEW usable, IsFiniteSet(usable), NEW cost, NEW p \in SimplePaths(usable, cost),
           NEW i \in 1..Len(p), NEW j \in i..Len(p)
    PROVE  LET r == Stretch(p, i, j)
           IN  /\ r \in SimplePaths(usable, cost)
               /\ r[1] = p[i] /\ Last(r) = p[j] /\ Len(r) = j - i + 1
               /\ Hops(r) = HopsFrom(p, i, j)
<1> DEFINE n == Len(p)
           l == j - i + 1
           r == Stretch(p, i, j)
<1>1. n \in Nat /\ p \in [1..n -> usable] /\ IsInjective(p) /\ Hops(p) \subseteq DOMAIN cost
  BY PathIsSeq, LenProperties
<1>2. l \in Nat \ {0} /\ \A k \in 1..l : k + i - 1 \in 1..n
  BY <1>1
<1>3. r \in [1..l -> usable]
  BY <1>1, <1>2 DEF Stretch
<1>4. r \in Seq(usable) /\ Len(r) = l
  BY <1>2, <1>3, IsASeq, LenProperties
<1>5. IsInjective(r)
  BY <1>1, <1>2 DEF Stretch, IsInjective
<1>6. Hops(r) = HopsFrom(p, i, j)
  <2>1. \A k \in 1..(l - 1) : r[k] = p[k + i - 1] /\ r[k + 1] = p[(k + i - 1) + 1]
    BY <1>2 DEF Stretch
  <2>2. \A k \in 1..(l - 1) : k + i - 1 \in i..(j - 1)
    BY <1>1
  <2>3. \A k \in i..(j - 1) : \E x \in 1..(l - 1) : x + i - 1 = k
    <3>1. \A k \in i..(j - 1) : k - i + 1 \in 1..(l - 1) /\ (k - i + 1) + i - 1 = k
      BY <1>1
    <3> QED
      BY <3>1
  <2>4. ASSUME NEW k \in i..(j - 1) PROVE <<p[k], p[k + 1]>> \in Hops(r)
    <3>1. PICK x \in 1..(l - 1) : x + i - 1 = k
      BY <2>3
    <3>2. r[x] = p[k] /\ r[x + 1] = p[k + 1]
      BY <2>1, <3>1
    <3> QED
      BY <1>4, <3>2 DEF Hops
  <2>5. ASSUME NEW k \in 1..(l - 1)
        PROVE  <<r[k], r[k + 1]>> \in HopsFrom(p, i, j)
    BY <2>1, <2>2 DEF HopsFrom
  <2> QED
    BY <1>4, <2>4, <2>5 DEF Hops, HopsFrom
<1>7. Hops(r) \subseteq Hops(p)
  <2>1. \A k \in i..(j - 1) : k \in 1..(n - 1)
    BY <1>1
  <2> QED
    BY <1>6, <2>1 DEF Hops, HopsFrom
<1>8. r \in SimplePaths(usable, cost)
  BY <1>1, <1>2, <1>3, <1>5, <1>7, IsSimplePath
<1>9. r[1] = p[i] /\ Last(r) = p[j]
  <2>1. 1 \in 1..l /\ l \in 1..l /\ 1 + i - 1 = i /\ l + i - 1 = j
    BY <1>1
  <2> QED
    BY <1>4, <2>1 DEF Stretch, Last
<1> QED
  BY <1>4, <1>6, <1>8, <1>9

\* Two simple paths that meet are joined by a simple one over their hops.
LEMMA Splice ==
    ASSUME NEW usable, IsFiniteSet(usable), NEW cost, NEW r \in SimplePaths(usable, cost),
           NEW q \in SimplePaths(usable, cost), Last(r) = q[1]
    PROVE  \E w \in SimplePaths(usable, cost) :
              w[1] = r[1] /\ Last(w) = Last(q) /\ Hops(w) \subseteq Hops(r) \cup Hops(q)
<1> DEFINE a == Len(r)
           b == Len(q)
<1>1. /\ a \in Nat \ {0} /\ r \in [1..a -> usable] /\ IsInjective(r) /\ Hops(r) \subseteq DOMAIN cost
      /\ b \in Nat \ {0} /\ q \in [1..b -> usable] /\ IsInjective(q) /\ Hops(q) \subseteq DOMAIN cost
      /\ Hops(r) = {<<r[k], r[k + 1]>> : k \in 1..(a - 1)}
      /\ Hops(q) = {<<q[k], q[k + 1]>> : k \in 1..(b - 1)}
      /\ r[a] = q[1] /\ Last(q) = q[b]
  <2>1. Len(r) \in 1..Cardinality(usable) /\ Len(q) \in 1..Cardinality(usable)
    BY PathIsSeq
  <2>2. Cardinality(usable) \in Nat
    BY FS_CardinalityType
  <2> QED
    BY <2>1, <2>2, PathIsSeq DEF Hops, Last
<1> HIDE DEF a, b
<1>2. PICK j \in 1..b : (\E i \in 1..a : r[i] = q[j]) /\ \A k \in (j + 1)..b, i \in 1..a : r[i] # q[k]
  <2> DEFINE T == {x \in 0..(b - 1) : \E i \in 1..a : r[i] = q[b - x]}
  <2>1. b - 1 \in T
    BY <1>1
  <2>2. T \subseteq Nat /\ T # {}
    <3>1. T \subseteq Nat
      BY <1>1
    <3> HIDE DEF T
    <3> QED
      BY <2>1, <3>1
  <2>3. PICK x \in T : \A y \in T : x <= y
    <3> HIDE DEF T
    <3> QED
      BY <2>2, LeastMember
  <2>4. b - x \in 1..b /\ \E i \in 1..a : r[i] = q[b - x]
    BY <1>1
  <2>5. ASSUME NEW k \in ((b - x) + 1)..b, NEW i \in 1..a, r[i] = q[k] PROVE FALSE
    <3>1. PICK y \in 0..(b - 1) : b - y = k
      <4>1. b - k \in 0..(b - 1) /\ b - (b - k) = k
        BY <1>1
      <4> QED
        BY <4>1
    <3>2. y \in T
      BY <2>5, <3>1
    <3>3. x <= y /\ x \in Nat
      <4> HIDE DEF T
      <4> QED
        BY <2>2, <2>3, <3>2
    <3> HIDE DEF T
    <3> QED
      BY <1>1, <3>1, <3>3
  <2> QED
    BY <2>4, <2>5
<1>3. PICK i \in 1..a : r[i] = q[j]
  BY <1>2
<1> DEFINE n == i + b - j
           w == [k \in 1..n |-> IF k <= i THEN r[k] ELSE q[k - i + j]]
<1>4. n \in Nat \ {0} /\ i <= n
  BY <1>1
<1>5. \A k \in 1..n : /\ k <= i => k \in 1..a /\ w[k] = r[k]
                      /\ k >= i => k - i + j \in j..b /\ w[k] = q[k - i + j]
                      /\ ~(k <= i) => k - i + j \in (j + 1)..b
  <2>1. i - i + j = j
    BY <1>1
  <2> QED
    BY <1>1, <1>3, <2>1
<1>6. w \in [1..n -> usable]
  <2> SUFFICES ASSUME NEW k \in 1..n PROVE w[k] \in usable
    OBVIOUS
  <2>1. CASE k <= i
    BY <1>1, <1>5, <2>1
  <2>2. CASE ~(k <= i)
    <3>1. k >= i
      BY <1>4, <2>2
    <3>2. k - i + j \in 1..b
      BY <1>5, <1>1, <3>1
    <3> QED
      BY <1>1, <1>5, <3>1, <3>2
  <2> QED
    BY <2>1, <2>2
<1> HIDE DEF w
<1>7. IsInjective(w)
  <2> SUFFICES ASSUME NEW k \in 1..n, NEW l \in 1..n, w[k] = w[l], k <= l PROVE k = l
    <3>1. DOMAIN w = 1..n /\ \A k, l \in 1..n : k <= l \/ l <= k
      BY <1>4, <1>6
    <3> QED
      BY <3>1 DEF IsInjective
  <2>1. CASE l <= i
    <3>1. k \in 1..a /\ l \in 1..a /\ w[k] = r[k] /\ w[l] = r[l]
      BY <1>4, <1>5, <2>1
    <3> QED
      BY ZenonT(30), <1>1, <3>1 DEF IsInjective
  <2>2. CASE i <= k
    <3>1. /\ k - i + j \in j..b /\ l - i + j \in j..b
          /\ w[k] = q[k - i + j] /\ w[l] = q[l - i + j]
      BY <1>4, <1>5, <2>2
    <3>2. PICK x \in 1..b, y \in 1..b : x = k - i + j /\ y = l - i + j
      BY <1>1, <3>1
    <3>3. q[x] = q[y]
      BY <3>1, <3>2
    <3>4. DOMAIN q = 1..b
      BY <1>1
    <3>5. x = y
      BY <1>1, <3>3, <3>4 DEF IsInjective
    <3> QED
      BY <3>2, <3>5
  <2>3. CASE k <= i /\ ~(l <= i)
    <3>1. k \in 1..a /\ w[k] = r[k] /\ l - i + j \in (j + 1)..b /\ w[l] = q[l - i + j]
      BY <1>4, <1>5, <2>3
    <3> QED
      BY <1>2, <3>1
  <2> QED
    BY <1>4, <2>1, <2>2, <2>3
<1>8. w \in Seq(usable) /\ Len(w) = n
  BY <1>4, <1>6, IsASeq, LenProperties
<1>9. ASSUME NEW k \in 1..(n - 1) PROVE <<w[k], w[k + 1]>> \in Hops(r) \cup Hops(q)
  <2>1. CASE k + 1 <= i
    <3>1. w[k] = r[k] /\ w[k + 1] = r[k + 1] /\ k \in 1..(a - 1)
      BY <1>1, <1>4, <1>5, <2>1
    <3> QED
      BY <1>1, <3>1
  <2>2. CASE ~(k + 1 <= i)
    <3>1. /\ w[k] = q[k - i + j] /\ k - i + j \in j..b
          /\ w[k + 1] = q[(k + 1) - i + j] /\ (k + 1) - i + j \in j..b
      BY <1>1, <1>4, <1>5, <2>2
    <3>2. (k - i + j) + 1 = (k + 1) - i + j /\ k - i + j \in 1..(b - 1)
      BY <1>1, <3>1
    <3>3. PICK x \in 1..(b - 1) : x = k - i + j
      BY <3>2
    <3>4. w[k] = q[x] /\ w[k + 1] = q[x + 1]
      BY <3>1, <3>2, <3>3
    <3> QED
      BY <1>1, <3>4
  <2> QED
    BY <2>1, <2>2
<1>10. Hops(w) \subseteq Hops(r) \cup Hops(q)
  BY <1>8, <1>9 DEF Hops
<1>11. w \in SimplePaths(usable, cost)
  BY <1>1, <1>4, <1>6, <1>7, <1>10, IsSimplePath
<1>12. w[1] = r[1]
  BY <1>4, <1>5
<1>13. Last(w) = Last(q)
  <2>1. n >= i /\ n - i + j = b /\ n \in 1..n
    BY <1>1, <1>4
  <2>2. w[n] = q[n - i + j]
    BY <1>5, <2>1
  <2> QED
    BY <1>1, <1>8, <2>1, <2>2 DEF Last
<1> QED
  BY <1>10, <1>11, <1>12, <1>13

\* Cut in two, a simple path has two simple parts, and costs what they cost.
LEMMA CutFacts ==
    ASSUME NEW usable, IsFiniteSet(usable), NEW cost, Weights(cost),
           NEW p \in SimplePaths(usable, cost), NEW i \in 1..(Len(p) - 1)
    PROVE  LET r == Stretch(p, 1, i)
               q == Stretch(p, i + 1, Len(p))
               e == <<p[i], p[i + 1]>>
           IN  /\ r \in SimplePaths(usable, cost) /\ r[1] = p[1] /\ Last(r) = p[i]
               /\ q \in SimplePaths(usable, cost) /\ q[1] = p[i + 1] /\ Last(q) = Last(p)
               /\ e \in Hops(p) /\ e \in DOMAIN cost /\ p[i] # p[i + 1]
               /\ p[i] \in usable /\ p[i + 1] \in usable
               /\ PathCost(p, cost) = PathCost(r, cost) + cost[e] + PathCost(q, cost)
<1> DEFINE n == Len(p)
           r == Stretch(p, 1, i)
           q == Stretch(p, i + 1, n)
           e == <<p[i], p[i + 1]>>
           H(a, b) == HopsFrom(p, a, b)
<1>1. /\ n \in Nat /\ p \in Seq(usable) /\ p \in [1..n -> usable] /\ IsInjective(p)
      /\ Hops(p) \subseteq DOMAIN cost
  BY PathIsSeq, LenProperties
<1>2. /\ r \in SimplePaths(usable, cost) /\ r[1] = p[1] /\ Last(r) = p[i]
      /\ Hops(r) = H(1, i)
  <2>1. 1 \in 1..n /\ i \in 1..n
    BY <1>1
  <2> QED
    BY <2>1, StretchFacts
<1>3. /\ q \in SimplePaths(usable, cost) /\ q[1] = p[i + 1] /\ Last(q) = p[n]
      /\ Hops(q) = H(i + 1, n)
  <2>1. i + 1 \in 1..n /\ n \in (i + 1)..n
    BY <1>1
  <2> QED
    BY <2>1, StretchFacts
<1>4. /\ e \in Hops(p) /\ e \in DOMAIN cost /\ p[i] # p[i + 1] /\ Last(p) = p[n]
      /\ p[i] \in usable /\ p[i + 1] \in usable
  BY <1>1 DEF Hops, IsInjective, Last
<1>5. ASSUME NEW k \in 1..(n - 1), NEW l \in 1..(n - 1), <<p[k], p[k + 1]>> = <<p[l], p[l + 1]>>
      PROVE  k = l
  BY <1>1, <1>5 DEF IsInjective
<1>6. /\ Hops(p) = (H(1, i) \cup {e}) \cup H(i + 1, n)
      /\ H(1, i) \cap {e} = {} /\ (H(1, i) \cup {e}) \cap H(i + 1, n) = {}
  <2>1. Hops(p) = H(1, n)
    BY DEF Hops, HopsFrom
  <2>2. H(1, n) = (H(1, i) \cup {e}) \cup H(i + 1, n)
    <3>1. \A k : k \in 1..(n - 1) <=> k \in 1..(i - 1) \/ k = i \/ k \in (i + 1)..(n - 1)
      BY <1>1
    <3> QED
      BY <3>1 DEF HopsFrom
  <2>3. H(1, i) \cap {e} = {}
    <3> SUFFICES ASSUME NEW k \in 1..(i - 1), <<p[k], p[k + 1]>> = e PROVE FALSE
      BY DEF HopsFrom
    <3>1. k \in 1..(n - 1) /\ k # i
      BY <1>1
    <3> QED
      BY <1>5, <3>1
  <2>4. ASSUME NEW k \in 1..i, NEW l \in (i + 1)..(n - 1), <<p[k], p[k + 1]>> = <<p[l], p[l + 1]>>
        PROVE  FALSE
    <3>1. k \in 1..(n - 1) /\ l \in 1..(n - 1) /\ k # l
      BY <1>1
    <3> QED
      BY <1>5, <2>4, <3>1
  <2>5. (H(1, i) \cup {e}) \cap H(i + 1, n) = {}
    <3>1. \A k \in 1..(i - 1) : k \in 1..i
      BY <1>1
    <3>2. i \in 1..i
      BY <1>1
    <3> QED
      BY <2>4, <3>1, <3>2 DEF HopsFrom
  <2> QED
    BY <2>1, <2>2, <2>3, <2>5
<1> DEFINE Sum(u) == SumFunctionOnSet(cost, u)
<1>7. PathCost(p, cost) = (PathCost(r, cost) + cost[e]) + PathCost(q, cost)
  <2>1. IsFiniteSet(Hops(r)) /\ IsFiniteSet(Hops(q)) /\ IsFiniteSet({e}) /\ IsFiniteSet(Hops(r) \cup {e})
    <3>1. r \in Seq(usable) /\ q \in Seq(usable)
      BY <1>2, <1>3, PathIsSeq
    <3>2. IsFiniteSet(Hops(r)) /\ IsFiniteSet(Hops(q)) /\ IsFiniteSet({e})
      BY <3>1, HopsFinite, FS_Singleton
    <3> QED
      BY <3>2, FS_Union
  <2>2. \A x \in Hops(p) : cost[x] \in Int
    BY <1>1 DEF Weights
  <2> HIDE DEF r, q, e, H
  <2>3. Sum(Hops(r) \cup {e}) = Sum(Hops(r)) + Sum({e})
    BY <1>2, <1>6, <2>1, <2>2, SumUnion
  <2>4. Sum((Hops(r) \cup {e}) \cup Hops(q)) = Sum(Hops(r) \cup {e}) + Sum(Hops(q))
    BY <1>2, <1>3, <1>6, <2>1, <2>2, SumUnion
  <2>5. Sum({e}) = cost[e]
    BY <1>4, <2>2, SumSingle
  <2>6. Hops(p) = (Hops(r) \cup {e}) \cup Hops(q)
    BY <1>2, <1>3, <1>6
  <2> QED
    BY <2>3, <2>4, <2>5, <2>6 DEF PathCost
<1> QED
  BY <1>2, <1>3, <1>4, <1>7

\* A link between usable nodes is a simple path.
LEMMA LinkIsPath ==
    ASSUME NEW usable, IsFiniteSet(usable), NEW cost, Weights(cost),
           NEW x \in usable, NEW y \in usable, x # y, <<x, y>> \in DOMAIN cost
    PROVE  /\ <<x, y>> \in SimplePaths(usable, cost)
           /\ Last(<<x, y>>) = y /\ Len(<<x, y>>) = 2
           /\ Hops(<<x, y>>) = {<<x, y>>}
           /\ PathCost(<<x, y>>, cost) = cost[<<x, y>>]
<1> DEFINE p == <<x, y>>
<1>1. p \in [1..2 -> usable] /\ IsInjective(p) /\ Last(p) = y /\ Len(p) = 2
  BY DEF IsInjective, Last
<1>2. Hops(p) = {p}
  <2>1. \A i : i \in 1..(Len(p) - 1) <=> i = 1
    BY <1>1
  <2>2. p[1] = x /\ p[1 + 1] = y
    OBVIOUS
  <2> QED
    BY <2>1, <2>2 DEF Hops
<1>3. p \in SimplePaths(usable, cost)
  <2>1. 2 \in Nat \ {0} /\ Hops(p) \subseteq DOMAIN cost
    BY <1>2
  <2> HIDE DEF p
  <2> QED
    BY <1>1, <2>1, IsSimplePath
<1>4. PathCost(p, cost) = cost[p]
  BY <1>2, SumSingle DEF PathCost, Weights
<1> QED
  BY <1>1, <1>2, <1>3, <1>4

\* Joining two paths costs no more than both.
LEMMA SpliceCost ==
    ASSUME NEW usable, IsFiniteSet(usable), NEW cost, Weights(cost),
           NEW r \in SimplePaths(usable, cost), NEW q \in SimplePaths(usable, cost),
           Last(r) = q[1]
    PROVE  \E w \in SimplePaths(usable, cost) :
              /\ w[1] = r[1] /\ Last(w) = Last(q)
              /\ PathCost(w, cost) <= PathCost(r, cost) + PathCost(q, cost)
<1>1. PICK w \in SimplePaths(usable, cost) :
        w[1] = r[1] /\ Last(w) = Last(q) /\ Hops(w) \subseteq Hops(r) \cup Hops(q)
  BY Splice
<1>2. /\ r \in Seq(usable) /\ Hops(r) \subseteq DOMAIN cost
      /\ q \in Seq(usable) /\ Hops(q) \subseteq DOMAIN cost
  BY PathIsSeq
<1>3. IsFiniteSet(Hops(r)) /\ IsFiniteSet(Hops(q))
  BY <1>2, HopsFinite
<1>4. \A x \in Hops(r) \cup Hops(q) : cost[x] \in Nat
  BY <1>2 DEF Weights
<1>5. PathCost(w, cost) <= PathCost(r, cost) + PathCost(q, cost)
  BY <1>1, <1>3, <1>4, SumCover DEF PathCost
<1> QED
  BY <1>1, <1>5

\* The shortest path between the ends of a hop of a shortest path is that hop.
LEMMA HopIsShortest ==
    ASSUME NEW usable, IsFiniteSet(usable), NEW cost, Weights(cost), NEW s, NEW t,
           ShortestPath(usable, cost, s, t) # NoPath,
           NEW e \in Hops(ShortestPath(usable, cost, s, t))
    PROVE  /\ ShortestPath(usable, cost, e[1], e[2]) = <<e[1], e[2]>>
           /\ e = <<e[1], e[2]>> /\ Hops(e) = {e}
           /\ e[1] \in usable /\ e[2] \in usable /\ e \in DOMAIN cost
<1> DEFINE P == SimplePaths(usable, cost)
           C(w) == PathCost(w, cost)
           p == ShortestPath(usable, cost, s, t)
           q == ShortestPath(usable, cost, e[1], e[2])
<1>1. p \in P /\ p[1] = s /\ Last(p) = t /\ \A w \in P : w[1] = s /\ Last(w) = t => NoLonger(p, w, cost)
  BY ShortestFacts DEF ShortestPath
<1> HIDE DEF p
<1>2. PICK i \in 1..(Len(p) - 1) : e = <<p[i], p[i + 1]>>
  BY DEF Hops, p
<1>3. PICK r1 \in P, r2 \in P :
        /\ r1[1] = s /\ Last(r1) = e[1] /\ r2[1] = e[2] /\ Last(r2) = t
        /\ e \in DOMAIN cost /\ e[1] # e[2] /\ e[1] \in usable /\ e[2] \in usable
        /\ C(p) = C(r1) + cost[e] + C(r2)
  BY <1>1, <1>2, CutFacts
<1>4. /\ <<e[1], e[2]>> = e
      /\ <<e[1], e[2]>> \in P /\ Last(<<e[1], e[2]>>) = e[2] /\ Len(<<e[1], e[2]>>) = 2
      /\ C(<<e[1], e[2]>>) = cost[e] /\ Hops(e) = {e}
  <2>1. e = <<e[1], e[2]>>
    BY <1>2
  <2> QED
    BY <1>3, <2>1, LinkIsPath
<1>5. q \in P /\ q[1] = e[1] /\ Last(q) = e[2] /\ NoLonger(q, <<e[1], e[2]>>, cost)
  BY <1>4, ShortestFacts DEF ShortestPath
<1> HIDE DEF q
<1>6. \A w \in P : C(w) \in Nat
  BY CostIsNat
<1>7. PICK w1 \in P : w1[1] = s /\ Last(w1) = e[2] /\ C(w1) <= C(r1) + C(q)
  BY <1>3, <1>5, SpliceCost
<1>8. PICK w2 \in P : w2[1] = s /\ Last(w2) = t /\ C(w2) <= C(w1) + C(r2)
  BY <1>3, <1>7, SpliceCost
<1>9. C(p) <= C(w2)
  BY <1>1, <1>6, <1>8 DEF NoLonger
<1>10. cost[e] <= C(q)
  <2>1. /\ C(p) \in Nat /\ C(w1) \in Nat /\ C(w2) \in Nat /\ C(q) \in Nat /\ C(r1) \in Nat
        /\ C(r2) \in Nat /\ cost[e] \in Nat
    BY <1>1, <1>3, <1>5, <1>6 DEF Weights
  <2> HIDE DEF C
  <2> QED
    BY <1>3, <1>7, <1>8, <1>9, <2>1
<1>11. Len(q) <= 2
  <2>1. C(q) \in Nat /\ cost[e] \in Nat
    BY <1>3, <1>5, <1>6 DEF Weights
  <2> QED
    BY <1>4, <1>5, <1>10, <2>1 DEF NoLonger
<1>12. q \in Seq(usable) /\ q # <<>>
  BY <1>5, PathIsSeq
<1>13. Len(q) = 2
  <2>1. Len(q) \in Nat /\ Len(q) # 0
    BY <1>12, EmptySeq, LenProperties
  <2>2. Len(q) # 1
    BY <1>3, <1>5 DEF Last
  <2>3. \A l \in Nat : l # 0 /\ l # 1 /\ l <= 2 => l = 2
    OBVIOUS
  <2> QED
    BY <1>11, <2>1, <2>2, <2>3
<1>14. q = <<e[1], e[2]>>
  <2>1. q[2] = e[2]
    BY <1>5, <1>13 DEF Last
  <2> QED
    BY <1>5, <1>12, <1>13, <2>1
<1> QED
  BY <1>3, <1>4, <1>14 DEF q

\* Where a path has more than its first node, the rest of it leads on from the
\* second, over links that weigh something and so for less.
LEMMA NextIsNearer ==
    ASSUME NEW usable, IsFiniteSet(usable), NEW cost, Weights(cost),
           \A e \in DOMAIN cost : cost[e] # 0, NEW s, NEW t,
           ShortestPath(usable, cost, s, t) # NoPath, s # t
    PROVE  LET p == ShortestPath(usable, cost, s, t)
               q == ShortestPath(usable, cost, p[2], t)
           IN  /\ Len(p) > 1
               /\ <<s, p[2]>> \in DOMAIN cost
               /\ p[2] \in usable
               /\ q # NoPath
               /\ PathCost(q, cost) \in Nat /\ PathCost(p, cost) \in Nat
               /\ PathCost(q, cost) < PathCost(p, cost)
<1> DEFINE P == SimplePaths(usable, cost)
           C(w) == PathCost(w, cost)
           p == ShortestPath(usable, cost, s, t)
           q == ShortestPath(usable, cost, p[2], t)
<1>1. p \in P /\ p[1] = s /\ Last(p) = t
  BY ShortestFacts DEF ShortestPath
<1> HIDE DEF p
<1>2. p \in Seq(usable) /\ p # <<>>
  BY <1>1, PathIsSeq
<1>3. Len(p) \in Nat /\ Len(p) > 1
  <2>1. Len(p) \in Nat /\ Len(p) # 0
    BY <1>2, EmptySeq, LenProperties
  <2>2. Len(p) # 1
    BY <1>1 DEF Last
  <2>3. \A l \in Nat : l # 0 /\ l # 1 => l > 1
    OBVIOUS
  <2> QED
    BY <2>1, <2>2, <2>3
<1>4. PICK r1 \in P, r2 \in P :
        /\ r2[1] = p[2] /\ Last(r2) = t
        /\ <<s, p[2]>> \in DOMAIN cost /\ p[2] \in usable
        /\ C(p) = C(r1) + cost[<<s, p[2]>>] + C(r2)
  <2>1. 1 \in 1..(Len(p) - 1) /\ 1 + 1 = 2
    BY <1>3
  <2> QED
    BY <1>1, <2>1, CutFacts
<1>5. q # NoPath /\ q \in P /\ NoLonger(q, r2, cost)
  BY <1>4, ShortestFacts DEF ShortestPath
<1> HIDE DEF q
<1>6. /\ C(p) \in Nat /\ C(q) \in Nat /\ C(r1) \in Nat /\ C(r2) \in Nat
      /\ cost[<<s, p[2]>>] \in Nat \ {0}
  BY <1>1, <1>4, <1>5, CostIsNat DEF Weights
<1>7. C(q) <= C(r2)
  BY <1>5, <1>6 DEF NoLonger
<1>8. C(q) < C(p)
  <2> HIDE DEF C
  <2> QED
    BY <1>4, <1>6, <1>7
<1> QED
  BY <1>3, <1>4, <1>5, <1>6, <1>8 DEF p, q
=============================================================================
