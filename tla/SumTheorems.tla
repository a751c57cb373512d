----------------------------- MODULE SumTheorems -----------------------------
(***************************************************************************)
(* What the ledgers of this project need of SumFunctionOnSet, the sum of a *)
(* function over a finite set.  The operator is a fold: a function defined *)
(* by recursion over the subsets of the set, which takes some element at   *)
(* each step.  The facts below say that the recursion defines something,   *)
(* that the order of the elements does not matter, and what a sum becomes  *)
(* when an element comes, goes or changes.                                 *)
(*                                                                         *)
(* Induction is by a smallest counterexample: a set of subsets of a finite *)
(* set has an element that contains no other (SmallestSet).                *)
(***************************************************************************)
EXTENDS Integers, FiniteSets, FiniteSetsExt, FiniteSetTheorems, TLAPS

\* Among some subsets of a finite set, one contains no other.
LEMMA SmallestSet ==
  ASSUME NEW U, IsFiniteSet(U), NEW T, T \subseteq SUBSET U, T # {}
  PROVE  \E s \in T : \A t \in T : t \subseteq s => t = s
  <1>1. IsWellFoundedOn(StrictSubsetOrdering(U), SUBSET U)
    BY FS_StrictSubsetOrderingWellFounded, FS_FiniteSubsetsOfFinite
  <1>2. PICK s \in T : \A t \in T : ~(<<t, s>> \in StrictSubsetOrdering(U))
    BY <1>1, WFMin, Zenon
  <1>3. ASSUME NEW t \in T, t \subseteq s PROVE t = s
    BY <1>2, <1>3 DEF StrictSubsetOrdering
  <1> QED BY <1>3
-----------------------------------------------------------------------------
(* The recursion.                                                          *)

Some(s) == CHOOSE x \in s : TRUE

\* g computes the sums of f over the subsets of U.
Sums(g, f, U) ==
  g = [s \in SUBSET U |-> IF s = {} THEN 0 ELSE f[Some(s)] + g[s \ {Some(s)}]]

\* The fold, by its definition.
LEMMA SumIsFold ==
  ASSUME NEW f, NEW S
  PROVE  SumFunctionOnSet(f, S) = (CHOOSE g : Sums(g, f, S))[S]
  BY DEF SumFunctionOnSet, FoldFunctionOnSet, MapThenFoldSet, Sums, Some

\* Some element of a set is in it, if it has one.
LEMMA SomeIsIn == ASSUME NEW s, s # {} PROVE Some(s) \in s
  BY DEF Some

\* Two functions that compute sums agree where both do.
LEMMA SumsAgree ==
  ASSUME NEW f, NEW U, IsFiniteSet(U), NEW V, NEW g, NEW h, Sums(g, f, U), Sums(h, f, V),
         NEW s \in SUBSET U, s \in SUBSET V
  PROVE  g[s] = h[s]
  <1> DEFINE Bad == {t \in SUBSET U : t \in SUBSET V /\ g[t] # h[t]}
  <1> SUFFICES ASSUME Bad # {} PROVE FALSE
    OBVIOUS
  <1>1. PICK t \in Bad : \A u \in Bad : u \subseteq t => u = t
    <2>1. Bad \subseteq SUBSET U
      OBVIOUS
    <2> HIDE DEF Bad
    <2> QED BY <2>1, SmallestSet
  <1>2. /\ g[t] = IF t = {} THEN 0 ELSE f[Some(t)] + g[t \ {Some(t)}]
        /\ h[t] = IF t = {} THEN 0 ELSE f[Some(t)] + h[t \ {Some(t)}]
    BY DEF Sums
  <1>3. t # {}
    BY <1>2
  <1>4. Some(t) \in t
    BY <1>3, SomeIsIn
  <1>5. t \ {Some(t)} \notin Bad
    BY <1>1, <1>4
  <1>6. g[t \ {Some(t)}] = h[t \ {Some(t)}]
    BY <1>5
  <1> QED BY <1>2, <1>6

\* Every finite set has a function that computes the sums over its subsets.
LEMMA SumsExist ==
  ASSUME NEW f, NEW S, IsFiniteSet(S)
  PROVE  \E g : Sums(g, f, S)
  <1> DEFINE Bad == {u \in SUBSET S : ~ \E g : Sums(g, f, u)}
  <1> SUFFICES ASSUME Bad # {} PROVE FALSE
    OBVIOUS
  <1>1. PICK u \in Bad : \A t \in Bad : t \subseteq u => t = u
    <2>1. Bad \subseteq SUBSET S
      OBVIOUS
    <2> HIDE DEF Bad
    <2> QED BY <2>1, SmallestSet
  <1> DEFINE G(t) == CHOOSE g : Sums(g, f, t)
             rest(t) == t \ {Some(t)}
             value(t) == IF t = {} THEN 0 ELSE f[Some(t)] + G(rest(t))[rest(t)]
             g0 == [t \in SUBSET u |-> value(t)]
  <1>2. \A t \in SUBSET u : t # u => Sums(G(t), f, t)
    BY <1>1
  <1>3. ASSUME NEW t \in SUBSET u, t # u PROVE G(t)[t] = value(t)
    <2>1. Sums(G(t), f, t) /\ IsFiniteSet(t)
      <3>1. t \in SUBSET S
        OBVIOUS
      <3> QED BY <1>2, <1>3, <3>1, FS_Subset
    <2>2. G(t)[t] = IF t = {} THEN 0 ELSE f[Some(t)] + G(t)[rest(t)]
      BY <2>1 DEF Sums
    <2>3. CASE t # {}
      <3>1. rest(t) \in SUBSET u /\ rest(t) # u /\ rest(t) \in SUBSET t
        BY <1>3, <2>3, SomeIsIn
      <3>2. Sums(G(rest(t)), f, rest(t))
        BY <1>2, <3>1
      <3>3. rest(t) \in SUBSET rest(t)
        OBVIOUS
      <3> HIDE DEF G, rest
      <3>4. G(t)[rest(t)] = G(rest(t))[rest(t)]
        BY <2>1, <3>1, <3>2, <3>3, SumsAgree
      <3> QED BY <2>2, <2>3, <3>4
    <2> QED BY <2>2, <2>3
  <1>4. Sums(g0, f, u)
    <2>1. ASSUME NEW t \in SUBSET u, t # {} PROVE g0[rest(t)] = G(rest(t))[rest(t)]
      <3>1. rest(t) \in SUBSET u /\ rest(t) # u
        BY <2>1, SomeIsIn
      <3> QED BY <1>3, <3>1
    <2>2. g0 = [t \in SUBSET u |-> value(t)]
      OBVIOUS
    <2> HIDE DEF g0, G, rest
    <2>3. \A t \in SUBSET u : value(t) = IF t = {} THEN 0 ELSE f[Some(t)] + g0[rest(t)]
      BY <2>1
    <2> HIDE DEF value
    <2>4. g0 = [t \in SUBSET u |-> IF t = {} THEN 0 ELSE f[Some(t)] + g0[rest(t)]]
      BY <2>2, <2>3
    <2> QED BY <2>4 DEF Sums, rest
  <1> QED BY <1>4

\* The sum of a finite set by its recursion.
LEMMA SumByRecursion ==
  ASSUME NEW f, NEW S, IsFiniteSet(S)
  PROVE  SumFunctionOnSet(f, S) =
           IF S = {} THEN 0
           ELSE f[Some(S)] + SumFunctionOnSet(f, S \ {Some(S)})
  <1> DEFINE G(t) == CHOOSE g : Sums(g, f, t)
             rest == S \ {Some(S)}
  <1>1. IsFiniteSet(rest)
    BY FS_RemoveElement
  <1>2. Sums(G(S), f, S) /\ Sums(G(rest), f, rest)
    BY <1>1, SumsExist
  <1>3. G(S)[S] = IF S = {} THEN 0 ELSE f[Some(S)] + G(S)[rest]
    BY <1>2 DEF Sums
  <1>4. G(S)[rest] = G(rest)[rest]
    <2>1. rest \in SUBSET S /\ rest \in SUBSET rest
      OBVIOUS
    <2> HIDE DEF G, rest
    <2> QED BY <1>2, <2>1, SumsAgree
  <1> QED BY <1>3, <1>4, SumIsFold
-----------------------------------------------------------------------------
(* What a ledger uses.                                                     *)

\* Nothing sums to nothing.
LEMMA SumOfNone == ASSUME NEW f PROVE SumFunctionOnSet(f, {}) = 0
  BY SumByRecursion, FS_EmptySet

\* Numbers sum to a number.
LEMMA SumType ==
  ASSUME NEW S, IsFiniteSet(S), NEW f, \A x \in S : f[x] \in Int
  PROVE  SumFunctionOnSet(f, S) \in Int
  <1> DEFINE Bad == {u \in SUBSET S : SumFunctionOnSet(f, u) \notin Int}
  <1> SUFFICES ASSUME Bad # {} PROVE FALSE
    OBVIOUS
  <1>1. PICK u \in Bad : \A t \in Bad : t \subseteq u => t = u
    <2>1. Bad \subseteq SUBSET S
      OBVIOUS
    <2> HIDE DEF Bad
    <2> QED BY <2>1, SmallestSet
  <1>2. IsFiniteSet(u)
    BY FS_Subset
  <1>3. SumFunctionOnSet(f, u) =
          IF u = {} THEN 0 ELSE f[Some(u)] + SumFunctionOnSet(f, u \ {Some(u)})
    BY <1>2, SumByRecursion
  <1>4. u # {} /\ Some(u) \in u
    BY <1>3, SomeIsIn
  <1>5. SumFunctionOnSet(f, u \ {Some(u)}) \in Int
    BY <1>1, <1>4
  <1> QED BY <1>3, <1>4, <1>5

\* Whichever element is taken out first, the sum is the same.
LEMMA SumWithout ==
  ASSUME NEW S, IsFiniteSet(S), NEW f, \A x \in S : f[x] \in Int, NEW x \in S
  PROVE  SumFunctionOnSet(f, S) = f[x] + SumFunctionOnSet(f, S \ {x})
  <1> DEFINE Sum(u) == SumFunctionOnSet(f, u)
             Bad == {u \in SUBSET S : \E y \in u : Sum(u) # f[y] + Sum(u \ {y})}
  <1> SUFFICES ASSUME Bad # {} PROVE FALSE
    OBVIOUS
  <1>1. PICK u \in Bad : \A t \in Bad : t \subseteq u => t = u
    <2>1. Bad \subseteq SUBSET S
      OBVIOUS
    <2> HIDE DEF Bad
    <2> QED BY <2>1, SmallestSet
  <1>2. PICK y \in u : Sum(u) # f[y] + Sum(u \ {y})
    OBVIOUS
  <1> DEFINE c == Some(u)
             r == (u \ {c}) \ {y}
  <1>3. \A t \in SUBSET S : IsFiniteSet(t) /\ Sum(t) \in Int
    <2> SUFFICES ASSUME NEW t \in SUBSET S PROVE IsFiniteSet(t) /\ Sum(t) \in Int
      OBVIOUS
    <2>1. IsFiniteSet(t)
      BY FS_Subset
    <2> QED BY <2>1, SumType
  <1>4. c \in u
    BY SomeIsIn
  <1>5. Sum(u) = f[c] + Sum(u \ {c})
    BY <1>3, <1>4, SumByRecursion
  <1>6. y # c
    BY <1>2, <1>5
  <1>7. Sum(u \ {c}) = f[y] + Sum(r)
    <2>1. u \ {c} \notin Bad
      BY <1>1, <1>4
    <2>2. u \ {c} \in SUBSET S /\ y \in u \ {c}
      BY <1>6
    <2> HIDE DEF Sum, c
    <2> QED BY <2>1, <2>2
  <1>8. Sum(u \ {y}) = f[c] + Sum(r)
    <2>1. u \ {y} \notin Bad
      BY <1>1, <1>2
    <2>2. u \ {y} \in SUBSET S /\ c \in u \ {y} /\ (u \ {y}) \ {c} = r
      BY <1>4, <1>6
    <2> HIDE DEF Sum, c, r
    <2> QED BY <2>1, <2>2
  <1>9. f[c] \in Int /\ f[y] \in Int /\ Sum(r) \in Int
    <2>1. r \in SUBSET S /\ c \in S /\ y \in S
      BY <1>4
    <2> QED BY <1>3, <2>1
  <1> HIDE DEF Sum, c, r
  <1> QED BY <1>2, <1>5, <1>7, <1>8, <1>9

\* A new element adds its number.
LEMMA SumWith ==
  ASSUME NEW S, IsFiniteSet(S), NEW f, \A y \in S : f[y] \in Int,
         NEW x, x \notin S, f[x] \in Int
  PROVE  SumFunctionOnSet(f, S \cup {x}) = SumFunctionOnSet(f, S) + f[x]
  <1>1. IsFiniteSet(S \cup {x}) /\ (S \cup {x}) \ {x} = S
    BY FS_AddElement
  <1>2. SumFunctionOnSet(f, S \cup {x}) = f[x] + SumFunctionOnSet(f, S)
    BY <1>1, SumWithout
  <1> QED BY <1>2, SumType

\* Functions that agree on a set have the same sum there.
LEMMA SumOfSame ==
  ASSUME NEW S, IsFiniteSet(S), NEW f, NEW g, \A x \in S : f[x] = g[x]
  PROVE  SumFunctionOnSet(f, S) = SumFunctionOnSet(g, S)
  <1> DEFINE Bad == {u \in SUBSET S : SumFunctionOnSet(f, u) # SumFunctionOnSet(g, u)}
  <1> SUFFICES ASSUME Bad # {} PROVE FALSE
    OBVIOUS
  <1>1. PICK u \in Bad : \A t \in Bad : t \subseteq u => t = u
    <2>1. Bad \subseteq SUBSET S
      OBVIOUS
    <2> HIDE DEF Bad
    <2> QED BY <2>1, SmallestSet
  <1>2. IsFiniteSet(u)
    BY FS_Subset
  <1>3. /\ SumFunctionOnSet(f, u) =
             IF u = {} THEN 0 ELSE f[Some(u)] + SumFunctionOnSet(f, u \ {Some(u)})
        /\ SumFunctionOnSet(g, u) =
             IF u = {} THEN 0 ELSE g[Some(u)] + SumFunctionOnSet(g, u \ {Some(u)})
    BY <1>2, SumByRecursion
  <1>4. u # {} /\ Some(u) \in u
    BY <1>3, SomeIsIn
  <1>5. SumFunctionOnSet(f, u \ {Some(u)}) = SumFunctionOnSet(g, u \ {Some(u)})
    BY <1>1, <1>4
  <1> QED BY <1>3, <1>4, <1>5
=============================================================================
