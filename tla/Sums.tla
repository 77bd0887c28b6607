---------------------------------- MODULE Sums ----------------------------------
(***************************************************************************)
(* What the sums of the models obey: SumFunctionOnSet of the community     *)
(* module Functions on a finite set, an empty set, one element more, a     *)
(* union, and two functions that are equal or ordered; and the same for    *)
(* what the entries of a ledger add up to.                                 *)
(*                                                                         *)
(* The sum is a fold over the subsets of the set, so its properties need   *)
(* induction on them.  Strict inclusion is well-founded on the finite      *)
(* subsets of a set: among the subsets that refute a statement one is      *)
(* minimal, and its own subsets satisfy the statement.  Every lemma below  *)
(* is proved from such a minimal counterexample.                           *)
(***************************************************************************)
EXTENDS Integers, FiniteSets, Functions, FiniteSetTheorems, WellFoundedInduction, TLAPS

\* A non-empty family of subsets of a finite set has a member none of whose
\* proper subsets belongs to the family.
LEMMA MinimalSubset ==
    ASSUME NEW S, IsFiniteSet(S), NEW B, B \subseteq SUBSET S, B # {}
    PROVE  \E m \in B : m \subseteq S /\ \A u \in SUBSET m : u # m => u \notin B
<1> DEFINE R == StrictSubsetOrdering(S)
<1>1. IsWellFoundedOn(R, SUBSET S)
  BY FS_StrictSubsetOrderingWellFounded, FS_FiniteSubsetsOfFinite
<1>2. PICK m \in B : \A u \in B : ~(<<u, m>> \in R)
  <2> HIDE DEF R
  <2> QED BY <1>1, WFMin
<1>3. ASSUME NEW u \in SUBSET m, u # m, u \in B PROVE FALSE
  <2>1. <<u, m>> \in R
    BY <1>3 DEF StrictSubsetOrdering
  <2> QED BY <2>1, <1>2, <1>3
<1> QED BY <1>3

\* The element a fold takes from a set first, and what it leaves.
AnyOf(s) == CHOOSE x \in s : TRUE
RestOf(s) == s \ {AnyOf(s)}

LEMMA AnyRestOf == ASSUME NEW s, s # {} PROVE AnyOf(s) \in s /\ RestOf(s) \in SUBSET s /\ RestOf(s) # s
BY DEF AnyOf, RestOf

\* The equation of the recursive function by which the sum of f is defined.
SumSolves(g, f, S) ==
    g = [s \in SUBSET S |-> IF s = {} THEN 0 ELSE f[AnyOf(s)] + g[RestOf(s)]]

SumSolution(f, S) == CHOOSE g : SumSolves(g, f, S)

\* The library's definition chooses a solution of that equation.
LEMMA SumIsSolution ==
    ASSUME NEW f, NEW S
    PROVE  SumFunctionOnSet(f, S) = SumSolution(f, S)[S]
BY DEF SumFunctionOnSet, FoldFunctionOnSet, MapThenFoldSet, SumSolution, SumSolves, AnyOf, RestOf

LEMMA SumSolvesAt ==
    ASSUME NEW f, NEW S, NEW g, SumSolves(g, f, S), NEW s \in SUBSET S
    PROVE  g[s] = IF s = {} THEN 0 ELSE f[AnyOf(s)] + g[RestOf(s)]
BY Zenon DEF SumSolves

\* Two solutions agree on the finite sets on which both are defined ...
LEMMA SumUnique ==
    ASSUME NEW f, NEW S, NEW g, SumSolves(g, f, S), NEW T, NEW h, SumSolves(h, f, T),
           NEW s, s \in SUBSET S, s \in SUBSET T, IsFiniteSet(s)
    PROVE  g[s] = h[s]
<1> DEFINE B == {u \in SUBSET s : g[u] # h[u]}
<1> SUFFICES ASSUME B # {} PROVE FALSE
  OBVIOUS
<1>1. PICK m \in B : m \subseteq s /\ \A u \in SUBSET m : u # m => u \notin B
  <2> HIDE DEF B
  <2>1. B \subseteq SUBSET s
    BY DEF B
  <2> QED BY <2>1, MinimalSubset
<1>2. m \in SUBSET S /\ m \in SUBSET T /\ g[m] # h[m]
  OBVIOUS
<1>3. g[m] = IF m = {} THEN 0 ELSE f[AnyOf(m)] + g[RestOf(m)]
  BY <1>2, SumSolvesAt
<1>4. h[m] = IF m = {} THEN 0 ELSE f[AnyOf(m)] + h[RestOf(m)]
  BY <1>2, SumSolvesAt
<1>5. m # {}
  BY <1>2, <1>3, <1>4
<1>6. RestOf(m) \in SUBSET m /\ RestOf(m) # m
  BY <1>5, AnyRestOf
<1>7. g[RestOf(m)] = h[RestOf(m)]
  BY <1>1, <1>6
<1> QED BY <1>2, <1>3, <1>4, <1>5, <1>7

\* ... and there is one for every finite set.
LEMMA SumSolvable ==
    ASSUME NEW f, NEW S, IsFiniteSet(S)
    PROVE  SumSolves(SumSolution(f, S), f, S)
<1> DEFINE B == {s \in SUBSET S : ~ \E g : SumSolves(g, f, s)}
<1> SUFFICES B = {}
  BY DEF SumSolution
<1> SUFFICES ASSUME B # {} PROVE FALSE
  OBVIOUS
<1>1. PICK m \in B : m \subseteq S /\ \A u \in SUBSET m : u # m => u \notin B
  <2> HIDE DEF B
  <2>1. B \subseteq SUBSET S
    BY DEF B
  <2> QED BY <2>1, MinimalSubset
<1>f. IsFiniteSet(m) /\ \A u \in SUBSET m : IsFiniteSet(u)
  BY <1>1, FS_Subset
<1>2. \A u \in SUBSET m : u # m => SumSolves(SumSolution(f, u), f, u)
  BY <1>1 DEF SumSolution
<1> DEFINE G == [u \in SUBSET m |-> IF u = {} THEN 0
                    ELSE f[AnyOf(u)] + SumSolution(f, RestOf(u))[RestOf(u)]]
<1>3. ASSUME NEW u \in SUBSET m, u # m PROVE G[u] = SumSolution(f, u)[u]
  <2>1. SumSolution(f, u)[u] = IF u = {} THEN 0 ELSE f[AnyOf(u)] + SumSolution(f, u)[RestOf(u)]
    BY <1>2, <1>3, SumSolvesAt
  <2>2. ASSUME u # {} PROVE SumSolution(f, u)[RestOf(u)] = SumSolution(f, RestOf(u))[RestOf(u)]
    <3>1. RestOf(u) \in SUBSET u /\ RestOf(u) \in SUBSET m /\ RestOf(u) # m
      BY <2>2, <1>3, AnyRestOf
    <3>2. SumSolves(SumSolution(f, u), f, u) /\ SumSolves(SumSolution(f, RestOf(u)), f, RestOf(u))
      BY <3>1, <1>2, <1>3
    <3> QED BY <3>1, <3>2, <1>f, SumUnique
  <2> QED BY <2>1, <2>2
<1>4. ASSUME NEW u \in SUBSET m, u # {} PROVE G[u] = f[AnyOf(u)] + G[RestOf(u)]
  <2>1. RestOf(u) \in SUBSET m /\ RestOf(u) # m
    BY <1>4, AnyRestOf
  <2> QED BY <2>1, <1>3, <1>4
<1>5. G = [u \in SUBSET m |-> G[u]] /\ G[{}] = 0
  OBVIOUS
<1> HIDE DEF G
<1>6. G = [u \in SUBSET m |-> IF u = {} THEN 0 ELSE f[AnyOf(u)] + G[RestOf(u)]]
  BY <1>4, <1>5
<1>7. SumSolves(G, f, m)
  BY <1>6 DEF SumSolves
<1> QED BY <1>7, <1>1

\* The sum takes one element after the other,
LEMMA SumEquation ==
    ASSUME NEW f, NEW S, IsFiniteSet(S)
    PROVE  SumFunctionOnSet(f, S) =
             IF S = {} THEN 0 ELSE f[AnyOf(S)] + SumFunctionOnSet(f, RestOf(S))
<1>1. SumFunctionOnSet(f, S) = IF S = {} THEN 0 ELSE f[AnyOf(S)] + SumSolution(f, S)[RestOf(S)]
  BY SumIsSolution, SumSolvable, SumSolvesAt
<1>2. ASSUME S # {} PROVE SumSolution(f, S)[RestOf(S)] = SumFunctionOnSet(f, RestOf(S))
  <2>1. RestOf(S) \in SUBSET S /\ IsFiniteSet(RestOf(S))
    BY <1>2, AnyRestOf, FS_Subset
  <2>2. SumSolution(f, S)[RestOf(S)] = SumSolution(f, RestOf(S))[RestOf(S)]
    BY <2>1, SumSolvable, SumUnique
  <2> QED BY <2>2, SumIsSolution
<1> QED BY <1>1, <1>2

\* is zero when there is none,
LEMMA SumEmpty == ASSUME NEW f PROVE SumFunctionOnSet(f, {}) = 0
BY SumEquation, FS_EmptySet

\* is an integer, or a natural number,
LEMMA SumInt ==
    ASSUME NEW f, NEW S, IsFiniteSet(S), \A x \in S : f[x] \in Int
    PROVE  SumFunctionOnSet(f, S) \in Int
<1> DEFINE B == {s \in SUBSET S : SumFunctionOnSet(f, s) \notin Int}
<1> SUFFICES ASSUME B # {} PROVE FALSE
  OBVIOUS
<1>1. PICK m \in B : m \subseteq S /\ \A u \in SUBSET m : u # m => u \notin B
  <2>1. B \subseteq SUBSET S
    OBVIOUS
  <2> HIDE DEF B
  <2> QED BY <2>1, MinimalSubset
<1>2. IsFiniteSet(m) /\ SumFunctionOnSet(f, m) \notin Int
  BY <1>1, FS_Subset
<1>3. m # {}
  BY <1>2, SumEmpty
<1>4. AnyOf(m) \in m /\ RestOf(m) \in SUBSET m /\ RestOf(m) # m
  BY <1>3, AnyRestOf
<1>5. SumFunctionOnSet(f, RestOf(m)) \in Int /\ f[AnyOf(m)] \in Int
  BY <1>1, <1>4
<1> QED BY <1>2, <1>3, <1>5, SumEquation

LEMMA SumNat ==
    ASSUME NEW f, NEW S, IsFiniteSet(S), \A x \in S : f[x] \in Nat
    PROVE  SumFunctionOnSet(f, S) \in Nat
<1> DEFINE B == {s \in SUBSET S : SumFunctionOnSet(f, s) \notin Nat}
<1> SUFFICES ASSUME B # {} PROVE FALSE
  OBVIOUS
<1>1. PICK m \in B : m \subseteq S /\ \A u \in SUBSET m : u # m => u \notin B
  <2>1. B \subseteq SUBSET S
    OBVIOUS
  <2> HIDE DEF B
  <2> QED BY <2>1, MinimalSubset
<1>2. IsFiniteSet(m) /\ SumFunctionOnSet(f, m) \notin Nat
  BY <1>1, FS_Subset
<1>3. m # {}
  BY <1>2, SumEmpty
<1>4. AnyOf(m) \in m /\ RestOf(m) \in SUBSET m /\ RestOf(m) # m
  BY <1>3, AnyRestOf
<1>5. SumFunctionOnSet(f, RestOf(m)) \in Nat /\ f[AnyOf(m)] \in Nat
  BY <1>1, <1>4
<1> QED BY <1>2, <1>3, <1>5, SumEquation

\* and depends on the values on the set only.
LEMMA SumSame ==
    ASSUME NEW f, NEW g, NEW S, IsFiniteSet(S), \A x \in S : f[x] = g[x]
    PROVE  SumFunctionOnSet(f, S) = SumFunctionOnSet(g, S)
<1> DEFINE B == {s \in SUBSET S : SumFunctionOnSet(f, s) # SumFunctionOnSet(g, s)}
<1> SUFFICES ASSUME B # {} PROVE FALSE
  OBVIOUS
<1>1. PICK m \in B : m \subseteq S /\ \A u \in SUBSET m : u # m => u \notin B
  <2>1. B \subseteq SUBSET S
    OBVIOUS
  <2> HIDE DEF B
  <2> QED BY <2>1, MinimalSubset
<1>2. IsFiniteSet(m) /\ SumFunctionOnSet(f, m) # SumFunctionOnSet(g, m)
  BY <1>1, FS_Subset
<1>3. m # {}
  BY <1>2, SumEmpty
<1>4. AnyOf(m) \in m /\ RestOf(m) \in SUBSET m /\ RestOf(m) # m
  BY <1>3, AnyRestOf
<1>5. SumFunctionOnSet(f, RestOf(m)) = SumFunctionOnSet(g, RestOf(m)) /\ f[AnyOf(m)] = g[AnyOf(m)]
  BY <1>1, <1>4
<1> QED BY <1>2, <1>3, <1>5, SumEquation

\* The order in which the elements are taken does not matter: any of them can be
\* the first.
LEMMA SumWithout ==
    ASSUME NEW f, NEW S, IsFiniteSet(S), \A x \in S : f[x] \in Int, NEW x \in S
    PROVE  SumFunctionOnSet(f, S) = f[x] + SumFunctionOnSet(f, S \ {x})
<1> DEFINE B == {s \in SUBSET S : \E y \in s :
                  SumFunctionOnSet(f, s) # f[y] + SumFunctionOnSet(f, s \ {y})}
<1> SUFFICES ASSUME B # {} PROVE FALSE
  OBVIOUS
<1>1. PICK m \in B : m \subseteq S /\ \A u \in SUBSET m : u # m => u \notin B
  <2>1. B \subseteq SUBSET S
    OBVIOUS
  <2> HIDE DEF B
  <2> QED BY <2>1, MinimalSubset
<1>2. PICK y \in m : SumFunctionOnSet(f, m) # f[y] + SumFunctionOnSet(f, m \ {y})
  BY <1>1
<1>s. \A u \in SUBSET m : u # m =>
         \A z \in u : SumFunctionOnSet(f, u) = f[z] + SumFunctionOnSet(f, u \ {z})
  BY <1>1
<1>3. AnyOf(m) \in m /\ RestOf(m) \in SUBSET m /\ RestOf(m) # m
  BY <1>2, AnyRestOf
<1>f. IsFiniteSet(m) /\ \A u \in SUBSET m : IsFiniteSet(u)
  BY <1>1, FS_Subset
<1>4. SumFunctionOnSet(f, m) = f[AnyOf(m)] + SumFunctionOnSet(f, RestOf(m))
  BY <1>2, <1>f, SumEquation
<1>5. y # AnyOf(m)
  BY <1>2, <1>4 DEF RestOf
<1> DEFINE both == m \ {y, AnyOf(m)}
<1>6. SumFunctionOnSet(f, RestOf(m)) = f[y] + SumFunctionOnSet(f, both)
  <2>1. y \in RestOf(m) /\ RestOf(m) \ {y} = both
    BY <1>5 DEF RestOf
  <2> HIDE DEF both
  <2> QED BY <2>1, <1>s, <1>3
<1>7. SumFunctionOnSet(f, m \ {y}) = f[AnyOf(m)] + SumFunctionOnSet(f, both)
  <2>1. AnyOf(m) \in m \ {y} /\ (m \ {y}) \ {AnyOf(m)} = both /\ m \ {y} \in SUBSET m /\ m \ {y} # m
    BY <1>3, <1>5
  <2> HIDE DEF both
  <2> QED BY <2>1, <1>s
<1>8. f[y] \in Int /\ f[AnyOf(m)] \in Int /\ SumFunctionOnSet(f, both) \in Int
  <2>1. both \in SUBSET m /\ IsFiniteSet(both)
    BY <1>f
  <2> QED BY <1>1, <1>3, <2>1, SumInt
<1> HIDE DEF both
<1> QED BY <1>2, <1>4, <1>6, <1>7, <1>8

\* One element more adds its value.
LEMMA SumWith ==
    ASSUME NEW f, NEW S, IsFiniteSet(S), NEW x, x \notin S,
           \A y \in S \cup {x} : f[y] \in Int
    PROVE  SumFunctionOnSet(f, S \cup {x}) = SumFunctionOnSet(f, S) + f[x]
<1>1. IsFiniteSet(S \cup {x}) /\ (S \cup {x}) \ {x} = S
  BY FS_AddElement
<1>2. SumFunctionOnSet(f, S) \in Int
  BY SumInt
<1>3. SumFunctionOnSet(f, S \cup {x}) = f[x] + SumFunctionOnSet(f, S)
  BY <1>1, SumWithout
<1> QED BY <1>2, <1>3

\* The sum over a union is the sum of the sums.
LEMMA SumUnion ==
    ASSUME NEW f, NEW S, NEW T, IsFiniteSet(S), IsFiniteSet(T), S \cap T = {},
           \A y \in S \cup T : f[y] \in Int
    PROVE  SumFunctionOnSet(f, S \cup T) = SumFunctionOnSet(f, S) + SumFunctionOnSet(f, T)
<1> DEFINE B == {s \in SUBSET S : SumFunctionOnSet(f, s \cup T)
                                    # SumFunctionOnSet(f, s) + SumFunctionOnSet(f, T)}
<1> SUFFICES ASSUME B # {} PROVE FALSE
  OBVIOUS
<1>1. PICK m \in B : m \subseteq S /\ \A u \in SUBSET m : u # m => u \notin B
  <2>1. B \subseteq SUBSET S
    OBVIOUS
  <2> HIDE DEF B
  <2> QED BY <2>1, MinimalSubset
<1>2. SumFunctionOnSet(f, m \cup T) # SumFunctionOnSet(f, m) + SumFunctionOnSet(f, T)
  BY <1>1
<1>i. SumFunctionOnSet(f, T) \in Int
  BY SumInt
<1>3. m # {}
  <2> SUFFICES ASSUME m = {} PROVE FALSE
    OBVIOUS
  <2> HIDE DEF B
  <2>1. m \cup T = T /\ SumFunctionOnSet(f, m) = 0
    BY SumEmpty
  <2> QED BY <2>1, <1>2, <1>i
<1>4. PICK x \in m : TRUE
  BY <1>3
<1>5. IsFiniteSet(m) /\ IsFiniteSet(m \ {x}) /\ IsFiniteSet((m \ {x}) \cup T)
  BY <1>1, FS_Subset, FS_Union
<1>6. SumFunctionOnSet(f, m) = f[x] + SumFunctionOnSet(f, m \ {x})
  BY <1>1, <1>5, SumWithout
<1>7. SumFunctionOnSet(f, m \cup T) = SumFunctionOnSet(f, (m \ {x}) \cup T) + f[x]
  <2>1. m \cup T = ((m \ {x}) \cup T) \cup {x} /\ x \notin (m \ {x}) \cup T
    BY <1>1
  <2>2. \A y \in ((m \ {x}) \cup T) \cup {x} : f[y] \in Int
    BY <1>1
  <2> QED BY <2>1, <2>2, <1>5, SumWith
<1>8. SumFunctionOnSet(f, (m \ {x}) \cup T)
        = SumFunctionOnSet(f, m \ {x}) + SumFunctionOnSet(f, T)
  <2>1. m \ {x} \in SUBSET m /\ m \ {x} # m
    BY <1>4
  <2> QED BY <2>1, <1>1
<1>9. SumFunctionOnSet(f, m \ {x}) \in Int /\ f[x] \in Int
  BY <1>1, <1>5, SumInt
<1> QED BY <1>2, <1>6, <1>7, <1>8, <1>9, <1>i

\* A sum of smaller values is smaller.
LEMMA SumBounded ==
    ASSUME NEW f, NEW g, NEW S, IsFiniteSet(S),
           \A x \in S : f[x] \in Int /\ g[x] \in Int /\ f[x] <= g[x]
    PROVE  SumFunctionOnSet(f, S) <= SumFunctionOnSet(g, S)
<1> DEFINE B == {s \in SUBSET S : ~(SumFunctionOnSet(f, s) <= SumFunctionOnSet(g, s))}
<1> SUFFICES ASSUME B # {} PROVE FALSE
  OBVIOUS
<1>1. PICK m \in B : m \subseteq S /\ \A u \in SUBSET m : u # m => u \notin B
  <2>1. B \subseteq SUBSET S
    OBVIOUS
  <2> HIDE DEF B
  <2> QED BY <2>1, MinimalSubset
<1>2. IsFiniteSet(m) /\ ~(SumFunctionOnSet(f, m) <= SumFunctionOnSet(g, m))
  BY <1>1, FS_Subset
<1>3. m # {}
  BY <1>2, SumEmpty
<1>4. AnyOf(m) \in m /\ RestOf(m) \in SUBSET m /\ RestOf(m) # m /\ IsFiniteSet(RestOf(m))
  BY <1>2, <1>3, AnyRestOf, FS_Subset
<1>5. /\ SumFunctionOnSet(f, RestOf(m)) <= SumFunctionOnSet(g, RestOf(m))
      /\ f[AnyOf(m)] \in Int /\ g[AnyOf(m)] \in Int /\ f[AnyOf(m)] <= g[AnyOf(m)]
  BY <1>1, <1>4
<1>6. SumFunctionOnSet(f, RestOf(m)) \in Int /\ SumFunctionOnSet(g, RestOf(m)) \in Int
  BY <1>1, <1>4, SumInt
<1> QED BY <1>2, <1>3, <1>5, <1>6, SumEquation

\* What the entries of a ledger add up to.
DeltaSum(entries) == SumFunction([e \in entries |-> e.delta])

\* It is zero for no entries, an integer, grows by what a new entry moves, and is
\* the sum over the parts of a ledger that share no entry.
LEMMA DeltaSumEmpty == DeltaSum({}) = 0
<1>1. DOMAIN [e \in {} |-> e.delta] = {}
  OBVIOUS
<1> QED BY <1>1, SumEmpty DEF DeltaSum, SumFunction

LEMMA DeltaSumInt ==
    ASSUME NEW S, IsFiniteSet(S), \A e \in S : e.delta \in Int
    PROVE  DeltaSum(S) \in Int
<1> DEFINE f == [e \in S |-> e.delta]
<1>1. DOMAIN f = S /\ \A e \in S : f[e] \in Int
  OBVIOUS
<1>2. SumFunctionOnSet(f, S) \in Int
  <2> HIDE DEF f
  <2> QED BY <1>1, SumInt
<1> QED BY <1>1, <1>2 DEF DeltaSum, SumFunction

LEMMA DeltaSumWith ==
    ASSUME NEW S, IsFiniteSet(S), NEW x, x \notin S, \A e \in S \cup {x} : e.delta \in Int
    PROVE  DeltaSum(S \cup {x}) = DeltaSum(S) + x.delta
<1> DEFINE f == [e \in S |-> e.delta]
           g == [e \in S \cup {x} |-> e.delta]
<1>1. /\ DOMAIN f = S /\ DOMAIN g = S \cup {x} /\ g[x] = x.delta
      /\ \A e \in S \cup {x} : g[e] \in Int
      /\ \A e \in S : f[e] = g[e]
  OBVIOUS
<1>2. SumFunctionOnSet(f, S) = SumFunctionOnSet(g, S)
  <2> HIDE DEF f, g
  <2> QED BY <1>1, SumSame
<1>3. SumFunctionOnSet(g, S \cup {x}) = SumFunctionOnSet(g, S) + x.delta
  <2> HIDE DEF g
  <2> QED BY <1>1, SumWith
<1> QED BY <1>1, <1>2, <1>3 DEF DeltaSum, SumFunction

LEMMA DeltaSumUnion ==
    ASSUME NEW S, NEW T, IsFiniteSet(S), IsFiniteSet(T), S \cap T = {},
           \A e \in S \cup T : e.delta \in Int
    PROVE  DeltaSum(S \cup T) = DeltaSum(S) + DeltaSum(T)
<1> DEFINE f == [e \in S |-> e.delta]
           g == [e \in T |-> e.delta]
           k == [e \in S \cup T |-> e.delta]
<1>1. /\ DOMAIN f = S /\ DOMAIN g = T /\ DOMAIN k = S \cup T
      /\ \A e \in S \cup T : k[e] \in Int
      /\ \A e \in S : f[e] = k[e]
      /\ \A e \in T : g[e] = k[e]
  OBVIOUS
<1>2. SumFunctionOnSet(f, S) = SumFunctionOnSet(k, S)
  <2> HIDE DEF f, g, k
  <2> QED BY <1>1, SumSame
<1>3. SumFunctionOnSet(g, T) = SumFunctionOnSet(k, T)
  <2>1. \A e \in T : g[e] = k[e]
    BY <1>1
  <2> HIDE DEF f, g, k
  <2> QED BY <2>1, SumSame
<1>4. SumFunctionOnSet(k, S \cup T) = SumFunctionOnSet(k, S) + SumFunctionOnSet(k, T)
  <2> HIDE DEF k
  <2> QED BY <1>1, SumUnion
<1> QED BY <1>1, <1>2, <1>3, <1>4 DEF DeltaSum, SumFunction

\* What the entries of a set of rows add up to, one entry for each row.
LEMMA DeltaSumImage ==
    ASSUME NEW f, NEW c, NEW S, IsFiniteSet(S),
           \A x \in S : f[x] \in Int /\ c[x].delta = f[x],
           \A x, y \in S : c[x] = c[y] => x = y,
           NEW E, \A x \in S : c[x] \in E, \A e \in E : \E x \in S : e = c[x]
    PROVE  IsFiniteSet(E) /\ DeltaSum(E) = SumFunctionOnSet(f, S)
<1> DEFINE image(s) == {c[x] : x \in s}
           Good(s) == IsFiniteSet(image(s)) /\ DeltaSum(image(s)) = SumFunctionOnSet(f, s)
           B == {s \in SUBSET S : ~Good(s)}
<1>0. image({}) = {} /\ \A s \in SUBSET S : \A z \in S \ s :
                            /\ image(s \cup {z}) = image(s) \cup {c[z]} /\ c[z] \notin image(s)
                            /\ \A e \in image(s) \cup {c[z]} : e.delta \in Int
  OBVIOUS
<1> SUFFICES ASSUME B # {} PROVE FALSE
  <2>1. S \in SUBSET S /\ E = image(S)
    OBVIOUS
  <2>2. ASSUME Good(S) PROVE IsFiniteSet(E) /\ DeltaSum(E) = SumFunctionOnSet(f, S)
    BY <2>1, <2>2
  <2> HIDE DEF Good, image
  <2> QED BY <2>1, <2>2
<1> HIDE DEF image
<1>1. PICK m \in B : m \subseteq S /\ \A u \in SUBSET m : u # m => u \notin B
  <2>1. B \subseteq SUBSET S
    OBVIOUS
  <2> HIDE DEF B, Good
  <2>2. IsFiniteSet(S) /\ B # {}
    OBVIOUS
  <2> QED BY ONLY <2>1, <2>2, MinimalSubset
<1>2. m # {}
  <2>1. Good({})
    BY <1>0, SumEmpty, DeltaSumEmpty, FS_EmptySet
  <2> HIDE DEF Good
  <2> QED BY <2>1
<1>3. PICK z \in m : TRUE
  BY <1>2
<1> DEFINE n == m \ {z}
<1>4. n \in SUBSET S /\ z \in S \ n /\ m = n \cup {z} /\ Good(n)
  <2>1. n \in SUBSET m /\ n # m /\ n \in SUBSET S
    BY <1>1
  <2> HIDE DEF Good
  <2> QED BY <2>1, <1>1
<1> HIDE DEF n
<1>5. IsFiniteSet(image(n)) /\ DeltaSum(image(n)) = SumFunctionOnSet(f, n)
  BY <1>4
<1>6. image(m) = image(n) \cup {c[z]} /\ c[z] \notin image(n) /\ c[z].delta = f[z]
      /\ \A e \in image(n) \cup {c[z]} : e.delta \in Int
  BY <1>0, <1>4
<1>7. IsFiniteSet(image(m)) /\ DeltaSum(image(m)) = DeltaSum(image(n)) + f[z]
  <2> DEFINE T == image(n)
             e == c[z]
  <2>1. IsFiniteSet(T) /\ e \notin T /\ e.delta = f[z] /\ image(m) = T \cup {e}
        /\ \A x \in T \cup {e} : x.delta \in Int
    BY <1>5, <1>6
  <2> HIDE DEF T, e
  <2>2. DeltaSum(T \cup {e}) = DeltaSum(T) + e.delta
    BY <2>1, DeltaSumWith
  <2>3. IsFiniteSet(T \cup {e})
    BY <2>1, FS_AddElement
  <2>4. DeltaSum(image(m)) = DeltaSum(T) + f[z] /\ IsFiniteSet(image(m))
    BY <2>1, <2>2, <2>3
  <2> QED BY <2>4 DEF T
<1>8. SumFunctionOnSet(f, m) = SumFunctionOnSet(f, n) + f[z]
  <2>1. IsFiniteSet(n) /\ \A x \in n \cup {z} : f[x] \in Int
    BY <1>4, FS_Subset
  <2> QED BY <2>1, <1>4, SumWith
<1>9. Good(m)
  BY <1>5, <1>7, <1>8
<1> HIDE DEF Good
<1> QED BY <1>9, <1>1

=============================================================================
