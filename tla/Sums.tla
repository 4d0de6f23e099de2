------------------------------- MODULE Sums --------------------------------
(* Facts about sums over finite sets and over sequences, and about the parts *)
(* of a sequence: what the recursive functions of the modules compute.  They *)
(* are all of one form, f = [x \in D |-> ... f[something smaller] ...], and  *)
(* are reasoned about by the smallest argument at which a claim would fail.  *)
EXTENDS Integers, Sequences, FiniteSets, FiniteSetTheorems, SequenceTheorems, WellFoundedInduction, TLAPS

(* A set of finite sets has a member that no other is within.                *)
LEMMA MinimalFinite ==
  ASSUME NEW T, T # {}, \A x \in T : IsFiniteSet(x)
  PROVE  \E x \in T : \A y \in T : y \subseteq x => y = x
<1> DEFINE S == UNION T
<1>1. IsWellFoundedOn(StrictSubsetOrdering(S), FiniteSubsetsOf(S))
  BY FS_StrictSubsetOrderingWellFounded
<1>2. T \subseteq FiniteSubsetsOf(S)
  BY DEF FiniteSubsetsOf
<1>3. PICK x \in T : \A y \in T : ~(<<y, x>> \in StrictSubsetOrdering(S))
  BY <1>1, <1>2, WFMin
<1> QED
  BY <1>3 DEF StrictSubsetOrdering

(* A set of natural numbers has a least member.                              *)
LEMMA Least ==
  ASSUME NEW S \in SUBSET Nat, S # {}
  PROVE  \E n \in S : \A m \in S : n <= m
<1> DEFINE T == {0 .. n : n \in S}
<1>1. ASSUME NEW n \in S PROVE IsFiniteSet(0 .. n)
  <2>1. 0 \in Int /\ n \in Int
    OBVIOUS
  <2> QED
    BY <2>1, FS_Interval, Zenon
<1>2. T # {}
  <2>1. PICK n \in S : TRUE
    OBVIOUS
  <2>2. 0 .. n \in T
    OBVIOUS
  <2> QED
    BY <2>2
<1>3. \A x \in T : IsFiniteSet(x)
  BY <1>1
<1>4. /\ \A n \in S : 0 .. n \in T
      /\ \A x \in T : \E n \in S : x = 0 .. n
  OBVIOUS
<1> HIDE DEF T
<1>5. PICK x \in T : \A y \in T : y \subseteq x => y = x
  BY <1>2, <1>3, MinimalFinite
<1>6. PICK n \in S : x = 0 .. n
  BY <1>4
<1>7. ASSUME NEW m \in S, m < n PROVE FALSE
  <2>1. 0 .. m \subseteq 0 .. n /\ 0 .. m \in T /\ n \in 0 .. n /\ n \notin 0 .. m
    BY <1>4, <1>7
  <2> QED
    BY <1>5, <1>6, <2>1
<1> QED
  BY <1>7

(* Induction on the natural numbers, for a set instead of a predicate.       *)
LEMMA FromZero ==
  ASSUME NEW S \in SUBSET Nat, 0 \in S, \A n \in S : n + 1 \in S
  PROVE  S = Nat
<1> SUFFICES ASSUME S # Nat PROVE FALSE
  OBVIOUS
<1>1. PICK n \in Nat \ S : \A m \in Nat \ S : n <= m
  BY Least
<1>2. n # 0 /\ n - 1 \in Nat /\ n - 1 \in S
  BY <1>1
<1> QED
  BY <1>2, n = (n - 1) + 1

(* A finite set of natural numbers has a greatest member.                    *)
LEMMA Greatest ==
  ASSUME NEW S \in SUBSET Nat, IsFiniteSet(S), S # {}
  PROVE  \E n \in S : \A m \in S : n >= m
<1> DEFINE Bad == {U \in SUBSET S : U # {} /\ \A n \in U : \E m \in U : m > n}
<1> SUFFICES ASSUME Bad # {} PROVE FALSE
  <2>1. S \notin Bad => \E n \in S : \A m \in S : ~(m > n)
    OBVIOUS
  <2> QED
    BY <2>1
<1>1. \A U \in Bad : IsFiniteSet(U)
  BY FS_Subset
<1>2. PICK U \in Bad : \A V \in Bad : V \subseteq U => V = U
  <2> HIDE DEF Bad
  <2> QED
    BY <1>1, MinimalFinite
<1>3. PICK n \in U : TRUE
  OBVIOUS
<1>4. U \ {n} # {} /\ U \ {n} \notin Bad /\ U \ {n} \in SUBSET S
  <2>1. \A i \in U : i \in Nat /\ \E m \in U : m > i
    OBVIOUS
  <2>2. U \ {n} # {}
    BY <1>3, <2>1
  <2>3. U \ {n} \notin Bad
    <3>1. U \ {n} \subseteq U /\ U \ {n} # U
      BY <1>3
    <3> HIDE DEF Bad
    <3> QED
      BY <1>2, <3>1
  <2> QED
    BY <2>2, <2>3
<1>5. PICK k \in U \ {n} : \A m \in U \ {n} : ~(m > k)
  <2>1. \A V \in SUBSET S : V # {} /\ V \notin Bad => \E k \in V : \A m \in V : ~(m > k)
    OBVIOUS
  <2> HIDE DEF Bad
  <2> QED
    BY <1>4, <2>1
<1>6. PICK m \in U : m > k
  BY <1>5
<1>7. m = n
  BY <1>5, <1>6
<1>8. PICK l \in U : l > n
  <2>1. \A i \in U : \E l \in U : l > i
    OBVIOUS
  <2> QED
    BY <1>3, <2>1
<1>9. l \in U \ {n} /\ l > k
  <2>1. l \in Nat /\ n \in Nat /\ k \in Nat
    BY <1>3, <1>5, <1>8
  <2>2. l > n /\ n > k
    BY <1>6, <1>7, <1>8
  <2> QED
    BY <2>1, <2>2, <1>8
<1> QED
  BY <1>5, <1>9

-----------------------------------------------------------------------------
(* Sums over a finite set: F[T] sums g over T \subseteq S, one member at a   *)
(* time, always the chosen one.                                              *)

Chosen(T) == CHOOSE x \in T : TRUE
IsSumOn(F, g, S) ==
  F = [T \in SUBSET S |-> IF T = {} THEN 0 ELSE g[Chosen(T)] + F[T \ {Chosen(T)}]]

LEMMA ChosenIn == ASSUME NEW T, T # {} PROVE Chosen(T) \in T
  BY DEF Chosen

LEMMA SumOnAt ==
  ASSUME NEW F, NEW g, NEW S, IsSumOn(F, g, S), NEW T \in SUBSET S
  PROVE  F[T] = IF T = {} THEN 0 ELSE g[Chosen(T)] + F[T \ {Chosen(T)}]
  BY DEF IsSumOn

(* There is such a function: first for the sets of at most n members.        *)
LEMMA SumOnExists ==
  ASSUME NEW S, IsFiniteSet(S), NEW g
  PROVE  \E F : IsSumOn(F, g, S)
<1> DEFINE Small(n) == {T \in SUBSET S : Cardinality(T) <= n}
           Is(F, n) == F = [T \in Small(n) |->
                              IF T = {} THEN 0 ELSE g[Chosen(T)] + F[T \ {Chosen(T)}]]
           N == {n \in Nat : \E F : Is(F, n)}
<1>1. ASSUME NEW T \in SUBSET S
      PROVE  /\ IsFiniteSet(T) /\ Cardinality(T) \in Nat /\ Cardinality(T) <= Cardinality(S)
             /\ Cardinality(T) = 0 <=> T = {}
             /\ T # {} => /\ Chosen(T) \in T /\ T \ {Chosen(T)} \in SUBSET S
                          /\ Cardinality(T \ {Chosen(T)}) = Cardinality(T) - 1
  <2>1. IsFiniteSet(T) /\ Cardinality(T) <= Cardinality(S)
    BY FS_Subset
  <2>2. Cardinality(T) \in Nat /\ (Cardinality(T) = 0 <=> T = {})
    BY <2>1, FS_CardinalityType, FS_EmptySet
  <2>3. T # {} => Chosen(T) \in T
    BY ChosenIn
  <2> QED
    BY <2>1, <2>2, <2>3, FS_RemoveElement
<1>0. {} \in SUBSET S /\ Cardinality({}) = 0
  BY FS_EmptySet
<1>2. 0 \in N
  <2>1. Small(0) = {{}}
    <3>1. ASSUME NEW T \in SUBSET S, Cardinality(T) <= 0 PROVE T = {}
      <4>1. Cardinality(T) \in Nat
        BY <1>1
      <4>2. Cardinality(T) = 0
        BY <3>1, <4>1
      <4> QED
        BY <1>1, <4>2
    <3> QED
      BY <1>0, <3>1
  <2>2. Is([T \in Small(0) |-> 0], 0)
    BY <2>1
  <2> QED
    BY <2>2
<1>3. ASSUME NEW n \in N PROVE n + 1 \in N
  <2>1. PICK F : Is(F, n)
    OBVIOUS
  <2> DEFINE G == [T \in Small(n + 1) |->
                     IF T \in Small(n) THEN F[T] ELSE g[Chosen(T)] + F[T \ {Chosen(T)}]]
  <2>2. ASSUME NEW T \in Small(n + 1)
        PROVE  G[T] = IF T = {} THEN 0 ELSE g[Chosen(T)] + G[T \ {Chosen(T)}]
    <3>1. T \in SUBSET S /\ Cardinality(T) <= n + 1
      OBVIOUS
    <3>2. CASE T = {}
      <4>1. T \in Small(n)
        BY <3>2, <1>0
      <4>2. F[T] = 0
        <5>1. F[T] = IF T = {} THEN 0 ELSE g[Chosen(T)] + F[T \ {Chosen(T)}]
          BY <2>1, <4>1
        <5> QED
          BY <5>1, <3>2
      <4>3. G[T] = F[T]
        BY <4>1
      <4> QED
        BY <4>2, <4>3, <3>2
    <3>3. CASE T # {}
      <4>0. /\ Cardinality(T) \in Nat /\ Cardinality(T \ {Chosen(T)}) = Cardinality(T) - 1
            /\ T \ {Chosen(T)} \in SUBSET S
        BY <3>1, <3>3, <1>1
      <4>1. T \ {Chosen(T)} \in Small(n) /\ T \ {Chosen(T)} \in Small(n + 1)
        <5> HIDE DEF G
        <5>1. n \in Nat
          OBVIOUS
        <5>2. Cardinality(T \ {Chosen(T)}) <= n
          BY <3>1, <4>0, <5>1
        <5>3. Cardinality(T \ {Chosen(T)}) <= n + 1
          BY <3>1, <4>0, <5>1
        <5> QED
          BY <4>0, <5>2, <5>3
      <4>2. G[T \ {Chosen(T)}] = F[T \ {Chosen(T)}]
        BY <4>1
      <4>3. T \in Small(n) => F[T] = g[Chosen(T)] + F[T \ {Chosen(T)}]
        BY <2>1, <3>3
      <4> QED
        BY <3>3, <4>2, <4>3
    <3> QED
      BY <3>2, <3>3
  <2>3. DOMAIN G = Small(n + 1) /\ G = [T \in Small(n + 1) |-> G[T]]
    OBVIOUS
  <2> HIDE DEF G
  <2>4. Is(G, n + 1)
    BY <2>2, <2>3
  <2>5. n + 1 \in Nat
    OBVIOUS
  <2> HIDE DEF Is
  <2>6. \E H : Is(H, n + 1)
    BY <2>4, Zenon
  <2> QED
    BY <2>5, <2>6
<1>4. N = Nat
  <2> HIDE DEF N
  <2>1. N \in SUBSET Nat
    BY DEF N
  <2> QED
    BY <1>2, <1>3, <2>1, FromZero
<1>5. Cardinality(S) \in N
  BY <1>1, <1>4, S \in SUBSET S
<1>6. Small(Cardinality(S)) = SUBSET S
  BY <1>1
<1> QED
  BY <1>5, <1>6 DEF IsSumOn

(* Two such functions agree where what they sum agrees.                      *)
LEMMA SumOnSame ==
  ASSUME NEW S, NEW R, IsFiniteSet(S), NEW g, NEW h, NEW F, NEW G, IsSumOn(F, g, S), IsSumOn(G, h, R),
         NEW T \in SUBSET S, T \in SUBSET R, \A x \in T : g[x] = h[x]
  PROVE  F[T] = G[T]
<1> SUFFICES ASSUME F[T] # G[T] PROVE FALSE
  OBVIOUS
<1> DEFINE Bad == {U \in SUBSET T : F[U] # G[U]}
<1>1. Bad # {}
  OBVIOUS
<1>2. \A U \in Bad : IsFiniteSet(U)
  BY FS_Subset
<1>3. \A U \in SUBSET T : U \in SUBSET S /\ U \in SUBSET R
  OBVIOUS
<1>4. PICK U \in Bad : \A V \in Bad : V \subseteq U => V = U
  <2> HIDE DEF Bad
  <2> QED
    BY <1>1, <1>2, MinimalFinite
<1>5. U # {}
  BY <1>3, SumOnAt
<1>6. Chosen(U) \in U
  BY <1>5, ChosenIn
<1> DEFINE V == U \ {Chosen(U)}
<1>7. V \notin Bad /\ V \in SUBSET T
  BY <1>4, <1>6
<1>8. F[U] = g[Chosen(U)] + F[V] /\ G[U] = h[Chosen(U)] + G[V]
  BY <1>3, <1>5, SumOnAt
<1> QED
  BY <1>4, <1>6, <1>7, <1>8

(* Sums of integers are integers.                                            *)
LEMMA SumOnInt ==
  ASSUME NEW S, IsFiniteSet(S), NEW g, NEW F, IsSumOn(F, g, S),
         NEW T \in SUBSET S, \A x \in T : g[x] \in Int
  PROVE  F[T] \in Int
<1> SUFFICES ASSUME F[T] \notin Int PROVE FALSE
  OBVIOUS
<1> DEFINE Bad == {U \in SUBSET T : F[U] \notin Int}
<1>1. Bad # {}
  OBVIOUS
<1>2. \A U \in Bad : IsFiniteSet(U)
  BY FS_Subset
<1>3. \A U \in SUBSET T : U \in SUBSET S
  OBVIOUS
<1>4. PICK U \in Bad : \A V \in Bad : V \subseteq U => V = U
  <2> HIDE DEF Bad
  <2> QED
    BY <1>1, <1>2, MinimalFinite
<1>5. F[U] = IF U = {} THEN 0 ELSE g[Chosen(U)] + F[U \ {Chosen(U)}]
  <2>1. U \in SUBSET S
    BY <1>3
  <2> HIDE DEF Bad
  <2> QED
    BY <2>1, SumOnAt, ZenonT(60)
<1>6. U # {} /\ Chosen(U) \in U
  BY <1>5, ChosenIn
<1> DEFINE V == U \ {Chosen(U)}
<1>7. V \in SUBSET T /\ F[V] \in Int
  BY <1>4, <1>6
<1>8. g[Chosen(U)] \in Int
  BY <1>6
<1> QED
  BY <1>5, <1>6, <1>7, <1>8

(* The order of summing does not matter: any member may be taken out.        *)
LEMMA SumOnTake ==
  ASSUME NEW S, IsFiniteSet(S), NEW g, NEW F, IsSumOn(F, g, S),
         NEW T \in SUBSET S, \A x \in T : g[x] \in Int, NEW x \in T
  PROVE  F[T] = g[x] + F[T \ {x}]
<1> SUFFICES ASSUME F[T] # g[x] + F[T \ {x}] PROVE FALSE
  OBVIOUS
<1> DEFINE Bad == {U \in SUBSET T : \E y \in U : F[U] # g[y] + F[U \ {y}]}
<1>1. Bad # {}
  OBVIOUS
<1>2. \A U \in Bad : IsFiniteSet(U)
  BY FS_Subset
<1>3. \A U \in SUBSET T : U \in SUBSET S /\ F[U] \in Int
  <2> TAKE U \in SUBSET T
  <2>1. U \in SUBSET S /\ \A y \in U : g[y] \in Int
    OBVIOUS
  <2> QED
    BY <2>1, SumOnInt
<1>4. PICK U \in Bad : \A V \in Bad : V \subseteq U => V = U
  <2> HIDE DEF Bad
  <2> QED
    BY <1>1, <1>2, MinimalFinite
<1>5. PICK y \in U : F[U] # g[y] + F[U \ {y}]
  OBVIOUS
<1> DEFINE z == Chosen(U)
<1>6. z \in U
  BY <1>5, ChosenIn
<1>7. F[U] = g[z] + F[U \ {z}]
  <2>1. U \in SUBSET S /\ U # {}
    BY <1>3, <1>5
  <2> HIDE DEF Bad
  <2> QED
    BY <2>1, SumOnAt
<1>8. z # y
  BY <1>5, <1>7
<1>9. U \ {z} \in SUBSET T /\ U \ {z} \notin Bad /\ y \in U \ {z}
  BY <1>4, <1>5, <1>6, <1>8
<1>10. U \ {y} \in SUBSET T /\ U \ {y} \notin Bad /\ z \in U \ {y}
  BY <1>4, <1>5, <1>6, <1>8
<1>11. F[U \ {z}] = g[y] + F[(U \ {z}) \ {y}]
  BY <1>9
<1>12. F[U \ {y}] = g[z] + F[(U \ {y}) \ {z}]
  BY <1>10
<1>13. (U \ {z}) \ {y} = (U \ {y}) \ {z} /\ (U \ {z}) \ {y} \in SUBSET T
  OBVIOUS
<1>14. g[y] \in Int /\ g[z] \in Int /\ F[(U \ {z}) \ {y}] \in Int
  BY <1>3, <1>5, <1>6, <1>13
<1>15. F[U \ {y}] = g[z] + F[(U \ {z}) \ {y}]
  BY <1>12, <1>13
<1>16. F[U] = g[z] + (g[y] + F[(U \ {z}) \ {y}])
  BY <1>7, <1>11
<1>17. F[U] = g[y] + (g[z] + F[(U \ {z}) \ {y}])
  BY <1>14, <1>16
<1> QED
  BY <1>5, <1>15, <1>17

-----------------------------------------------------------------------------
(* The sum of g over S, and how sums of parts and images make up a whole.    *)

SumOf(S, g) == LET F == CHOOSE F : IsSumOn(F, g, S) IN F[S]

LEMMA SumOfIs ==
  ASSUME NEW S, IsFiniteSet(S), NEW R, S \in SUBSET R, NEW g, NEW h, NEW F, IsSumOn(F, g, R),
         \A x \in S : g[x] = h[x]
  PROVE  F[S] = SumOf(S, h)
<1> DEFINE H == CHOOSE H : IsSumOn(H, h, S)
<1>1. IsSumOn(H, h, S)
  BY SumOnExists
<1>2. SumOf(S, h) = H[S]
  BY DEF SumOf
<1> HIDE DEF H
<1>3. \A x \in S : h[x] = g[x]
  OBVIOUS
<1>4. H[S] = F[S]
  <2>1. ASSUME NEW T \in SUBSET S, T \in SUBSET R, \A x \in T : h[x] = g[x] PROVE H[T] = F[T]
    BY <1>1, <2>1, SumOnSame
  <2> QED
    BY <1>3, <2>1
<1> QED
  BY <1>2, <1>4

LEMMA SumOfFunction ==
  ASSUME NEW S, IsFiniteSet(S), NEW g
  PROVE  \E F : IsSumOn(F, g, S) /\ \A T \in SUBSET S : IsFiniteSet(T) /\ F[T] = SumOf(T, g)
<1>1. PICK F : IsSumOn(F, g, S)
  BY SumOnExists
<1>2. ASSUME NEW T \in SUBSET S PROVE IsFiniteSet(T) /\ F[T] = SumOf(T, g)
  <2>1. IsFiniteSet(T)
    BY FS_Subset
  <2> QED
    BY <1>1, <2>1, SumOfIs
<1> QED
  BY <1>1, <1>2

LEMMA SumOfSame ==
  ASSUME NEW S, IsFiniteSet(S), NEW g, NEW h, \A x \in S : g[x] = h[x]
  PROVE  SumOf(S, g) = SumOf(S, h)
<1>1. PICK F : IsSumOn(F, g, S) /\ F[S] = SumOf(S, g)
  BY SumOfFunction, S \in SUBSET S
<1> QED
  BY <1>1, SumOfIs, S \in SUBSET S

LEMMA SumOfEmpty ==
  ASSUME NEW g
  PROVE  SumOf({}, g) = 0
<1>1. IsFiniteSet({})
  BY FS_EmptySet
<1>2. PICK F : IsSumOn(F, g, {}) /\ F[{}] = SumOf({}, g)
  BY <1>1, SumOfFunction, {} \in SUBSET {}
<1> QED
  BY <1>2, SumOnAt, {} \in SUBSET {}

LEMMA SumOfInt ==
  ASSUME NEW S, IsFiniteSet(S), NEW g, \A x \in S : g[x] \in Int
  PROVE  SumOf(S, g) \in Int
<1>1. PICK F : IsSumOn(F, g, S) /\ F[S] = SumOf(S, g)
  BY SumOfFunction, S \in SUBSET S
<1> QED
  BY <1>1, SumOnInt, S \in SUBSET S

LEMMA SumOfTake ==
  ASSUME NEW S, IsFiniteSet(S), NEW g, \A x \in S : g[x] \in Int, NEW y \in S
  PROVE  SumOf(S, g) = g[y] + SumOf(S \ {y}, g)
<1>1. PICK F : IsSumOn(F, g, S) /\ \A T \in SUBSET S : F[T] = SumOf(T, g)
  BY SumOfFunction
<1>2. F[S] = g[y] + F[S \ {y}]
  BY <1>1, SumOnTake, S \in SUBSET S
<1> QED
  BY <1>1, <1>2, S \in SUBSET S, S \ {y} \in SUBSET S

(* Two sets without a common member.                                         *)
Splits(U, S, T) == U = S \cup T /\ S \cap T = {}
IntegersOn(g, S) == \A x \in S : g[x] \in Int

LEMMA SumOfUnion ==
  ASSUME NEW U, NEW S, NEW T, NEW g, IsFiniteSet(S), IsFiniteSet(T), Splits(U, S, T), IntegersOn(g, U)
  PROVE  IsFiniteSet(U) /\ SumOf(U, g) = SumOf(S, g) + SumOf(T, g)
<1> SUFFICES IsFiniteSet(S \cup T) /\ SumOf(S \cup T, g) = SumOf(S, g) + SumOf(T, g)
  BY DEF Splits
<1>0. S \cap T = {} /\ \A x \in S \cup T : g[x] \in Int
  BY DEF Splits, IntegersOn
<1>1. IsFiniteSet(S \cup T)
  BY FS_Union
<1> DEFINE Bad == {W \in SUBSET T : SumOf(S \cup W, g) # SumOf(S, g) + SumOf(W, g)}
<1> SUFFICES ASSUME Bad # {} PROVE FALSE
  <2>1. T \notin Bad
    OBVIOUS
  <2> QED
    BY <1>1, <2>1
<1>2. \A W \in SUBSET T : /\ IsFiniteSet(W) /\ IsFiniteSet(S \cup W)
                          /\ \A x \in S \cup W : g[x] \in Int
                          /\ SumOf(W, g) \in Int /\ SumOf(S, g) \in Int
  <2> TAKE W \in SUBSET T
  <2>1. IsFiniteSet(W)
    BY FS_Subset
  <2>2. IsFiniteSet(S \cup W)
    BY <2>1, FS_Union
  <2> QED
    BY <1>0, <2>1, <2>2, SumOfInt
<1>3. PICK W \in Bad : \A V \in Bad : V \subseteq W => V = W
  <2>1. \A W \in Bad : IsFiniteSet(W)
    BY <1>2
  <2> HIDE DEF Bad
  <2> QED
    BY <2>1, MinimalFinite
<1>4. W # {}
  <2>1. SumOf({}, g) = 0 /\ S \cup {} = S /\ SumOf(S, g) \in Int
    BY <1>2, SumOfEmpty, {} \in SUBSET T
  <2>2. SumOf(S, g) = SumOf(S, g) + 0
    BY <2>1
  <2>3. {} \notin Bad
    BY <2>1, <2>2
  <2> QED
    BY <2>3
<1>5. PICK y \in W : TRUE
  BY <1>4
<1> DEFINE V == W \ {y}
<1>6. V \in SUBSET T /\ V \notin Bad
  BY <1>3, <1>5
<1>7. SumOf(S \cup V, g) = SumOf(S, g) + SumOf(V, g)
  BY <1>6
<1>8. SumOf(W, g) = g[y] + SumOf(V, g)
  BY <1>2, <1>5, SumOfTake
<1>9. SumOf(S \cup W, g) = g[y] + SumOf(S \cup V, g)
  <2>1. (S \cup W) \ {y} = S \cup V /\ y \in S \cup W
    BY <1>0, <1>5
  <2>2. IsFiniteSet(S \cup W) /\ \A x \in S \cup W : g[x] \in Int
    BY <1>2
  <2> QED
    BY <2>1, <2>2, SumOfTake
<1>10. g[y] \in Int /\ SumOf(S, g) \in Int /\ SumOf(V, g) \in Int
  BY <1>2, <1>5, <1>6
<1>11. SumOf(S \cup W, g) = SumOf(S, g) + SumOf(W, g)
  <2> HIDE DEF V
  <2> QED
    BY <1>7, <1>8, <1>9, <1>10
<1> QED
  BY <1>3, <1>11

(* A sum over S, taken instead over what a one-to-one map makes of S.        *)
LEMMA SumOfImage ==
  \A S, m, g, h :
    IsFiniteSet(S) /\ (\A x, y \in S : m[x] = m[y] => x = y) /\ (\A x \in S : g[x] \in Int /\ g[x] = h[m[x]]) =>
      LET R == {m[x] : x \in S} IN IsFiniteSet(R) /\ SumOf(R, h) = SumOf(S, g)
<1> SUFFICES ASSUME NEW S, NEW m, NEW g, NEW h, IsFiniteSet(S), \A x, y \in S : m[x] = m[y] => x = y,
                    \A x \in S : g[x] \in Int /\ g[x] = h[m[x]]
             PROVE  LET R == {m[x] : x \in S} IN IsFiniteSet(R) /\ SumOf(R, h) = SumOf(S, g)
  OBVIOUS
<1> DEFINE Im(U) == {m[x] : x \in U}
           Bad == {U \in SUBSET S : ~(IsFiniteSet(Im(U)) /\ SumOf(Im(U), h) = SumOf(U, g))}
<1> SUFFICES ASSUME Bad # {} PROVE FALSE
  <2>1. S \notin Bad
    OBVIOUS
  <2> QED
    BY <2>1
<1>1. \A U \in SUBSET S : IsFiniteSet(U) /\ \A x \in U : g[x] \in Int
  BY FS_Subset
<1>2. PICK U \in Bad : \A V \in Bad : V \subseteq U => V = U
  <2>1. \A U \in Bad : IsFiniteSet(U)
    BY <1>1
  <2> HIDE DEF Bad
  <2> QED
    BY <2>1, MinimalFinite
<1>3. U # {}
  <2>1. Im({}) = {}
    OBVIOUS
  <2>2. {} \notin Bad
    BY <2>1, FS_EmptySet, SumOfEmpty
  <2> QED
    BY <2>2
<1>4. PICK y \in U : TRUE
  BY <1>3
<1> DEFINE V == U \ {y}
<1>5. V \in SUBSET S /\ V \notin Bad
  BY <1>2, <1>4
<1>6. IsFiniteSet(Im(V)) /\ SumOf(Im(V), h) = SumOf(V, g)
  BY <1>5
<1>7. Im(U) = Im(V) \cup {m[y]} /\ Im(U) \ {m[y]} = Im(V) /\ m[y] \in Im(U)
  BY <1>4
<1>8. IsFiniteSet(Im(U))
  <2> HIDE DEF Im, V, Bad
  <2>1. IsFiniteSet(Im(V) \cup {m[y]})
    BY ONLY <1>6, FS_AddElement
  <2> QED
    BY <1>7, <2>1
<1>9. SumOf(U, g) = g[y] + SumOf(V, g)
  <2>1. U \in SUBSET S
    OBVIOUS
  <2>2. IsFiniteSet(U) /\ y \in U /\ \A x \in U : g[x] \in Int
    BY ONLY <1>1, <1>4, <2>1
  <2> QED
    BY ONLY <2>2, SumOfTake DEF V
<1>10. \A z \in Im(U) : h[z] \in Int
  OBVIOUS
<1>11. h[m[y]] = g[y]
  BY <1>4
<1>12. SumOf(Im(U), h) = SumOf(U, g)
  <2> HIDE DEF Im, V
  <2>1. SumOf(Im(U), h) = h[m[y]] + SumOf(Im(U) \ {m[y]}, h)
    BY <1>7, <1>8, <1>10, SumOfTake
  <2> QED
    BY <1>6, <1>7, <1>9, <1>11, <2>1
<1> QED
  BY <1>2, <1>8, <1>12

(* Nothing of nothing is nothing.                                            *)
LEMMA SumOfZero ==
  ASSUME NEW S, IsFiniteSet(S), NEW g, \A x \in S : g[x] = 0
  PROVE  SumOf(S, g) = 0
<1> DEFINE Bad == {T \in SUBSET S : SumOf(T, g) # 0}
<1> SUFFICES ASSUME Bad # {} PROVE FALSE
  <2>1. S \notin Bad
    OBVIOUS
  <2> QED
    BY <2>1
<1>1. \A T \in SUBSET S : IsFiniteSet(T) /\ \A x \in T : g[x] \in Int
  BY FS_Subset
<1>2. PICK T \in Bad : \A V \in Bad : V \subseteq T => V = T
  <2>1. \A T \in Bad : IsFiniteSet(T)
    BY <1>1
  <2> HIDE DEF Bad
  <2> QED
    BY <2>1, MinimalFinite
<1>3. PICK y \in T : TRUE
  <2>1. {} \notin Bad
    BY SumOfEmpty
  <2> QED
    BY <2>1
<1>4. SumOf(T \ {y}, g) = 0
  BY <1>2, <1>3
<1>5. SumOf(T, g) = g[y] + SumOf(T \ {y}, g)
  BY <1>1, <1>3, SumOfTake
<1>6. g[y] = 0
  BY <1>3
<1> QED
  BY <1>4, <1>5, <1>6

(* f has, less than nothing, the sums of the parts that k makes of S.        *)
Parts(S, k, L) == {x \in S : k[x] \in L}
OwesParts(f, K, S, k, g) ==
  /\ \A x \in S : k[x] \in K
  /\ \A j \in K : f[j] = -SumOf(Parts(S, k, {j}), g)
LEMMA SumOfParts ==
  ASSUME NEW S, IsFiniteSet(S), NEW g, IntegersOn(g, S), NEW K, IsFiniteSet(K), NEW k, NEW f, OwesParts(f, K, S, k, g)
  PROVE  SumOf(K, f) = -SumOf(S, g)
<1> USE DEF OwesParts
<1> DEFINE Bad == {L \in SUBSET K : SumOf(L, f) # -SumOf(Parts(S, k, L), g)}
<1> SUFFICES ASSUME Bad # {} PROVE FALSE
  <2>1. Parts(S, k, K) = S
    BY DEF Parts
  <2>2. K \notin Bad
    OBVIOUS
  <2> QED
    BY <2>1, <2>2
<1>1. \A L : IsFiniteSet(Parts(S, k, L)) /\ SumOf(Parts(S, k, L), g) \in Int /\ \A x \in Parts(S, k, L) : g[x] \in Int
  <2> TAKE L
  <2>1. Parts(S, k, L) \subseteq S
    BY DEF Parts
  <2>2. IsFiniteSet(Parts(S, k, L)) /\ \A x \in Parts(S, k, L) : g[x] \in Int
    BY <2>1, FS_Subset DEF IntegersOn
  <2> QED
    BY <2>2, SumOfInt
<1>2. \A L \in SUBSET K : IsFiniteSet(L) /\ \A j \in L : f[j] \in Int
  <2>1. \A j \in K : f[j] \in Int
    <3> TAKE j \in K
    <3>1. SumOf(Parts(S, k, {j}), g) \in Int
      BY <1>1
    <3> QED
      BY <3>1
  <2> QED
    BY <2>1, FS_Subset
<1>3. PICK L \in Bad : \A M \in Bad : M \subseteq L => M = L
  <2>1. \A L \in Bad : IsFiniteSet(L)
    BY <1>2
  <2> HIDE DEF Bad
  <2> QED
    BY <2>1, MinimalFinite
<1>4. L # {}
  <2>1. Parts(S, k, {}) = {}
    BY DEF Parts
  <2>2. {} \notin Bad
    BY <2>1, SumOfEmpty
  <2> QED
    BY <2>2
<1>5. PICK j \in L : TRUE
  BY <1>4
<1>6. PICK M : M = L \ {j}
  OBVIOUS
<1>7. M \in SUBSET K /\ SumOf(M, f) = -SumOf(Parts(S, k, M), g)
  BY <1>3, <1>5, <1>6
<1>8. SumOf(L, f) = f[j] + SumOf(M, f)
  BY <1>2, <1>5, <1>6, SumOfTake
<1>9. SumOf(Parts(S, k, L), g) = SumOf(Parts(S, k, {j}), g) + SumOf(Parts(S, k, M), g)
  <2>1. Splits(Parts(S, k, L), Parts(S, k, {j}), Parts(S, k, M))
    BY <1>5, <1>6 DEF Splits, Parts
  <2>2. IntegersOn(g, Parts(S, k, L)) /\ IsFiniteSet(Parts(S, k, {j})) /\ IsFiniteSet(Parts(S, k, M))
    BY <1>1 DEF IntegersOn
  <2> QED
    BY <2>1, <2>2, SumOfUnion
<1>10. f[j] = -SumOf(Parts(S, k, {j}), g)
  BY <1>5
<1>11. SumOf(Parts(S, k, {j}), g) \in Int /\ SumOf(Parts(S, k, M), g) \in Int
  BY <1>1
<1>12. SumOf(L, f) = -SumOf(Parts(S, k, L), g)
  BY <1>7, <1>8, <1>9, <1>10, <1>11
<1> QED
  BY <1>3, <1>12

(* The sum of what is negated.                                               *)
LEMMA SumOfNegated ==
  ASSUME NEW S, IsFiniteSet(S), NEW g, IntegersOn(g, S), NEW h, \A x \in S : h[x] = -g[x]
  PROVE  SumOf(S, h) = -SumOf(S, g)
<1> DEFINE k == [x \in S |-> x]
<1>1. ASSUME NEW j \in S PROVE h[j] = -SumOf(Parts(S, k, {j}), g)
  <2>1. Parts(S, k, {j}) = {j}
    BY DEF Parts
  <2>2. IsFiniteSet({j}) /\ {j} \ {j} = {}
    BY FS_Singleton
  <2>3. SumOf({j}, g) = g[j] + SumOf({}, g)
    BY <2>2, SumOfTake DEF IntegersOn
  <2>4. SumOf({j}, g) = g[j]
    BY <2>3, SumOfEmpty DEF IntegersOn
  <2> QED
    BY <2>1, <2>4
<1>2. \A x \in S : k[x] \in S
  OBVIOUS
<1> HIDE DEF k
<1>3. OwesParts(h, S, S, k, g)
  BY <1>1, <1>2 DEF OwesParts
<1> QED
  BY <1>3, SumOfParts

-----------------------------------------------------------------------------
(* Sums over a sequence: f[k] sums the first k members of g.                 *)

IsSumTo(f, g, n) == f = [k \in 0 .. n |-> IF k = 0 THEN 0 ELSE f[k - 1] + g[k]]

LEMMA SumToAt ==
  ASSUME NEW f, NEW g, NEW n \in Nat, IsSumTo(f, g, n), NEW k \in 0 .. n
  PROVE  f[k] = IF k = 0 THEN 0 ELSE f[k - 1] + g[k]
  BY DEF IsSumTo

LEMMA SumToExists ==
  ASSUME NEW g, NEW n \in Nat
  PROVE  \E f : IsSumTo(f, g, n)
<1> DEFINE N == {m \in Nat : \E f : IsSumTo(f, g, m)}
<1>1. 0 \in N
  <2>1. IsSumTo([k \in 0 .. 0 |-> 0], g, 0)
    BY DEF IsSumTo
  <2> QED
    BY <2>1
<1>2. ASSUME NEW m \in N PROVE m + 1 \in N
  <2>1. PICK f : IsSumTo(f, g, m)
    OBVIOUS
  <2> DEFINE h == [k \in 0 .. m + 1 |-> IF k = m + 1 THEN f[m] + g[k] ELSE f[k]]
  <2>2. \A k \in 0 .. m : f[k] = IF k = 0 THEN 0 ELSE f[k - 1] + g[k]
    BY <2>1, SumToAt
  <2>3. \A k \in 0 .. m + 1 : h[k] = IF k = 0 THEN 0 ELSE h[k - 1] + g[k]
    BY <2>2
  <2>4. h = [k \in 0 .. m + 1 |-> h[k]]
    OBVIOUS
  <2>5. IsSumTo(h, g, m + 1)
    BY <2>3, <2>4 DEF IsSumTo
  <2> QED
    BY <2>5
<1> HIDE DEF N
<1>3. N = Nat
  BY <1>1, <1>2, FromZero DEF N
<1> QED
  BY <1>3 DEF N

LEMMA SumToSame ==
  ASSUME NEW g, NEW h, NEW n \in Nat, NEW f, NEW e, IsSumTo(f, g, n), IsSumTo(e, h, n),
         \A k \in 1 .. n : g[k] = h[k]
  PROVE  f[n] = e[n]
<1> DEFINE N == {m \in Nat : m <= n => f[m] = e[m]}
<1>1. 0 \in N
  BY SumToAt
<1>2. ASSUME NEW m \in N PROVE m + 1 \in N
  <2>1. CASE m + 1 <= n
    <3>1. m + 1 \in 0 .. n /\ m + 1 \in 1 .. n /\ m + 1 # 0 /\ (m + 1) - 1 = m /\ f[m] = e[m]
      BY <2>1
    <3>2. f[m + 1] = f[m] + g[m + 1] /\ e[m + 1] = e[m] + h[m + 1]
      <4> HIDE DEF N
      <4> QED
        BY <3>1, SumToAt
    <3> QED
      BY <3>1, <3>2
  <2> QED
    BY <2>1
<1> HIDE DEF N
<1>3. N = Nat
  BY <1>1, <1>2, FromZero DEF N
<1> QED
  BY <1>3 DEF N

LEMMA SumToInt ==
  ASSUME NEW g, NEW n \in Nat, NEW f, IsSumTo(f, g, n), \A k \in 1 .. n : g[k] \in Int
  PROVE  f[n] \in Int
<1> DEFINE N == {m \in Nat : m <= n => f[m] \in Int}
<1>1. 0 \in N
  BY SumToAt
<1>2. ASSUME NEW m \in N PROVE m + 1 \in N
  <2>1. CASE m + 1 <= n
    <3>1. m + 1 \in 0 .. n /\ m + 1 \in 1 .. n /\ m + 1 # 0 /\ (m + 1) - 1 = m /\ f[m] \in Int
      BY <2>1
    <3>2. f[m + 1] = f[m] + g[m + 1]
      <4> HIDE DEF N
      <4> QED
        BY <3>1, SumToAt
    <3> QED
      BY <3>1, <3>2
  <2> QED
    BY <2>1
<1> HIDE DEF N
<1>3. N = Nat
  BY <1>1, <1>2, FromZero DEF N
<1> QED
  BY <1>3 DEF N

-----------------------------------------------------------------------------
(* The members of a sequence that are in a set: f[k] has those of the first  *)
(* k, in their order.                                                        *)

IsKeptTo(f, s, T, n) ==
  f = [k \in 0 .. n |-> IF k = 0 THEN <<>> ELSE IF s[k] \in T THEN Append(f[k - 1], s[k]) ELSE f[k - 1]]

LEMMA KeptToAt ==
  ASSUME NEW f, NEW s, NEW T, NEW n \in Nat, IsKeptTo(f, s, T, n), NEW k \in 0 .. n
  PROVE  f[k] = IF k = 0 THEN <<>> ELSE IF s[k] \in T THEN Append(f[k - 1], s[k]) ELSE f[k - 1]
  BY DEF IsKeptTo

LEMMA KeptToExists ==
  ASSUME NEW s, NEW T, NEW n \in Nat
  PROVE  \E f : IsKeptTo(f, s, T, n)
<1> DEFINE N == {m \in Nat : \E f : IsKeptTo(f, s, T, m)}
<1>1. 0 \in N
  <2>1. IsKeptTo([k \in 0 .. 0 |-> <<>>], s, T, 0)
    BY DEF IsKeptTo
  <2> QED
    BY <2>1
<1>2. ASSUME NEW m \in N PROVE m + 1 \in N
  <2>1. PICK f : IsKeptTo(f, s, T, m)
    OBVIOUS
  <2> DEFINE More(old, x) == IF x \in T THEN Append(old, x) ELSE old
             h == [k \in 0 .. m + 1 |-> IF k = m + 1 THEN More(f[m], s[k]) ELSE f[k]]
  <2> HIDE DEF More
  <2>2. \A k \in 0 .. m : f[k] = IF k = 0 THEN <<>> ELSE More(f[k - 1], s[k])
    BY <2>1, KeptToAt DEF More
  <2>3. \A k \in 0 .. m + 1 : h[k] = IF k = 0 THEN <<>> ELSE More(h[k - 1], s[k])
    BY <2>2
  <2>4. h = [k \in 0 .. m + 1 |-> h[k]]
    OBVIOUS
  <2>5. IsKeptTo(h, s, T, m + 1)
    <3> HIDE DEF h
    <3> QED
      BY <2>3, <2>4 DEF IsKeptTo, More
  <2> QED
    BY <2>5
<1> HIDE DEF N
<1>3. N = Nat
  BY <1>1, <1>2, FromZero DEF N
<1> QED
  BY <1>3 DEF N

LEMMA KeptToType ==
  ASSUME NEW S, NEW s, NEW T, NEW n \in Nat, NEW f, IsKeptTo(f, s, T, n), \A k \in 1 .. n : s[k] \in S
  PROVE  f[n] \in Seq(S)
<1> DEFINE N == {m \in Nat : m <= n => f[m] \in Seq(S)}
<1>1. 0 \in N
  <2>1. 0 \in 0 .. n
    OBVIOUS
  <2>2. f[0] = <<>>
    <3> HIDE DEF N
    <3> QED
      BY <2>1, KeptToAt
  <2>3. <<>> \in Seq(S)
    OBVIOUS
  <2> QED
    BY <2>2, <2>3
<1>2. ASSUME NEW m \in N PROVE m + 1 \in N
  <2>1. CASE m + 1 <= n
    <3>1. m + 1 \in 0 .. n /\ m + 1 \in 1 .. n /\ m + 1 # 0 /\ (m + 1) - 1 = m /\ f[m] \in Seq(S)
      BY <2>1
    <3>2. f[m + 1] \in {Append(f[m], s[m + 1]), f[m]}
      <4>1. f[m + 1] = IF s[m + 1] \in T THEN Append(f[(m + 1) - 1], s[m + 1]) ELSE f[(m + 1) - 1]
        <5> HIDE DEF N
        <5> QED
          BY <3>1, KeptToAt
      <4> QED
        BY <3>1, <4>1
    <3>3. f[m + 1] \in Seq(S)
      <4>1. s[m + 1] \in S
        BY <3>1
      <4>2. Append(f[m], s[m + 1]) \in Seq(S)
        BY <3>1, <4>1
      <4> QED
        BY <3>1, <3>2, <4>2
    <3> QED
      BY <3>3
  <2> QED
    BY <2>1
<1> HIDE DEF N
<1>3. N = Nat
  BY <1>1, <1>2, FromZero DEF N
<1> QED
  BY <1>3 DEF N

(* They are the members that are in the set, each as often as it is there.   *)
OnceIn(s, T, n) == \A j, l \in 1 .. n : s[j] \in T /\ s[l] \in T /\ s[j] = s[l] => j = l
Lists(g, s, T, n) ==
  /\ \A i \in 1 .. Len(g) : \E j \in 1 .. n : s[j] \in T /\ g[i] = s[j]
  /\ \A j \in 1 .. n : s[j] \in T => \E i \in 1 .. Len(g) : g[i] = s[j]
  /\ \A i, l \in 1 .. Len(g) : g[i] = g[l] => i = l

LEMMA KeptToMembers ==
  ASSUME NEW S, NEW s, NEW T, NEW n \in Nat, NEW f, IsKeptTo(f, s, T, n), \A k \in 1 .. n : s[k] \in S,
         OnceIn(s, T, n)
  PROVE  Lists(f[n], s, T, n)
<1> USE DEF OnceIn, Lists
<1> DEFINE All(g, m) ==
             /\ g \in Seq(S)
             /\ \A i \in 1 .. Len(g) : \E j \in 1 .. m : s[j] \in T /\ g[i] = s[j]
             /\ \A j \in 1 .. m : s[j] \in T => \E i \in 1 .. Len(g) : g[i] = s[j]
             /\ \A i, l \in 1 .. Len(g) : g[i] = g[l] => i = l
           N == {m \in Nat : m <= n => All(f[m], m)}
<1>1. \A m \in 0 .. n : f[m] = IF m = 0 THEN <<>> ELSE IF s[m] \in T THEN Append(f[m - 1], s[m]) ELSE f[m - 1]
  BY KeptToAt
<1>2. 0 \in N
  <2>1. All(<<>>, 0)
    OBVIOUS
  <2> HIDE DEF All
  <2> QED
    BY <1>1, <2>1
<1>3. ASSUME NEW m \in N PROVE m + 1 \in N
  <2> SUFFICES ASSUME m + 1 <= n PROVE All(f[m + 1], m + 1)
    OBVIOUS
  <2>1. m \in Nat /\ m + 1 \in 1 .. n /\ All(f[m], m)
    OBVIOUS
  <2>2. PICK g, y : g = f[m] /\ y = s[m + 1]
    OBVIOUS
  <2>3. f[m + 1] = IF y \in T THEN Append(g, y) ELSE g
    <3>1. m + 1 \in 0 .. n /\ m + 1 # 0 /\ (m + 1) - 1 = m
      BY <2>1
    <3> HIDE DEF N, All
    <3> QED
      BY <1>1, <2>2, <3>1
  <2>4. y \in S /\ All(g, m) /\ (y \in T => \A j \in 1 .. m : s[j] \in T => s[j] # y)
    <3>1. \A j \in 1 .. m : j \in 1 .. n /\ j # m + 1
      BY <2>1
    <3> HIDE DEF N, All
    <3> QED
      BY <2>1, <2>2, <3>1
  <2>5. CASE y \notin T
    <3>1. \A j \in 1 .. m + 1 : s[j] \in T => j \in 1 .. m
      BY <2>1, <2>2, <2>5
    <3>2. \A j \in 1 .. m : j \in 1 .. m + 1
      BY <2>1
    <3>3. All(g, m + 1)
      <4> HIDE DEF N
      <4> QED
        BY ONLY <2>4, <3>1, <3>2
    <3> QED
      BY <2>3, <2>5, <3>3
  <2>6. CASE y \in T
    <3>1. PICK h : h = Append(g, y)
      OBVIOUS
    <3>2. /\ g \in Seq(S) /\ h \in Seq(S) /\ Len(g) \in Nat /\ Len(h) = Len(g) + 1
          /\ h[Len(g) + 1] = y /\ \A i \in 1 .. Len(g) : h[i] = g[i]
      BY ONLY <2>4, <3>1
    <3>3. \A i \in 1 .. Len(g) : g[i] # y
      BY ONLY <2>4, <2>6
    <3>4. \A i \in 1 .. Len(h) : i = Len(g) + 1 \/ i \in 1 .. Len(g)
      BY ONLY <3>2
    <3>5. \A i \in 1 .. Len(g) : i \in 1 .. Len(h)
      BY ONLY <3>2
    <3>6. \A i, l \in 1 .. Len(h) : h[i] = h[l] => i = l
      BY ONLY <2>4, <3>2, <3>3, <3>4
    <3>7. \A i \in 1 .. Len(h) : \E j \in 1 .. m + 1 : s[j] \in T /\ h[i] = s[j]
      <4>1. \A j \in 1 .. m : j \in 1 .. m + 1
        BY <2>1
      <4> HIDE DEF N
      <4> QED
        BY <2>1, <2>2, <2>4, <2>6, <3>2, <3>4, <4>1
    <3>8. \A j \in 1 .. m + 1 : s[j] \in T => \E i \in 1 .. Len(h) : h[i] = s[j]
      <4>1. \A j \in 1 .. m + 1 : j \in 1 .. m \/ j = m + 1
        BY <2>1
      <4>2. Len(g) + 1 \in 1 .. Len(h)
        BY ONLY <3>2
      <4> SUFFICES ASSUME NEW j \in 1 .. m + 1, s[j] \in T PROVE \E i \in 1 .. Len(h) : h[i] = s[j]
        OBVIOUS
      <4>3. CASE j = m + 1
        BY <2>2, <3>2, <4>2, <4>3
      <4>4. CASE j \in 1 .. m
        <5>1. PICK i \in 1 .. Len(g) : g[i] = s[j]
          BY ONLY <2>4, <4>4, s[j] \in T
        <5> QED
          BY <3>2, <3>5, <5>1
      <4> QED
        BY <4>1, <4>3, <4>4
    <3>9. All(h, m + 1)
      BY ONLY <3>2, <3>6, <3>7, <3>8
    <3> HIDE DEF N, All
    <3> QED
      BY <2>3, <2>6, <3>1, <3>9
  <2> QED
    BY <2>5, <2>6
<1> HIDE DEF N, All
<1>4. N = Nat
  BY <1>2, <1>3, FromZero DEF N
<1>5. All(f[n], n)
  BY <1>4 DEF N
<1> QED
  BY <1>5 DEF All
-----------------------------------------------------------------------------
(* Folds over a finite set: F[T] is b for the empty set, and otherwise g of  *)
(* the member that is chosen and of the rest.                                *)

IsChoice(c, S) == \A T \in SUBSET S : T # {} => c[T] \in T

LEMMA SubsetsBy ==
  ASSUME NEW S, IsFiniteSet(S), NEW c, IsChoice(c, S), NEW A, {} \in A,
         \A T \in SUBSET S : T # {} /\ T \ {c[T]} \in A => T \in A
  PROVE  \A T \in SUBSET S : T \in A
<1> DEFINE B == {T \in SUBSET S : T \notin A}
<1> SUFFICES ASSUME B # {} PROVE FALSE
  OBVIOUS
<1>1. \A T \in B : IsFiniteSet(T)
  BY FS_Subset
<1>2. PICK T \in B : \A U \in B : U \subseteq T => U = T
  <2> HIDE DEF B
  <2> QED
    BY <1>1, MinimalFinite
<1>3. T # {} /\ T \in SUBSET S
  OBVIOUS
<1>4. c[T] \in T
  BY <1>3 DEF IsChoice
<1>5. T \ {c[T]} \notin B
  BY <1>2, <1>4
<1> QED
  BY <1>3, <1>5

IsFoldBy(F, g, c, b, S) ==
  F = [T \in SUBSET S |-> IF T = {} THEN b ELSE g[<<c[T], F[T \ {c[T]}]>>]]

LEMMA FoldByExists ==
  ASSUME NEW S, IsFiniteSet(S), NEW c, IsChoice(c, S), NEW g, NEW b
  PROVE  \E F : IsFoldBy(F, g, c, b, S)
<1> DEFINE Small(n) == {T \in SUBSET S : Cardinality(T) <= n}
           Is(F, n) == F = [T \in Small(n) |->
                              IF T = {} THEN b ELSE g[<<c[T], F[T \ {c[T]}]>>]]
           N == {n \in Nat : \E F : Is(F, n)}
<1>1. ASSUME NEW T \in SUBSET S
      PROVE  /\ IsFiniteSet(T) /\ Cardinality(T) \in Nat /\ Cardinality(T) <= Cardinality(S)
             /\ Cardinality(T) = 0 <=> T = {}
             /\ T # {} => /\ c[T] \in T /\ T \ {c[T]} \in SUBSET S
                          /\ Cardinality(T \ {c[T]}) = Cardinality(T) - 1
  <2>1. IsFiniteSet(T) /\ Cardinality(T) <= Cardinality(S)
    BY FS_Subset
  <2>2. Cardinality(T) \in Nat /\ (Cardinality(T) = 0 <=> T = {})
    BY <2>1, FS_CardinalityType, FS_EmptySet
  <2>3. T # {} => c[T] \in T
    BY DEF IsChoice
  <2> QED
    BY <2>1, <2>2, <2>3, FS_RemoveElement
<1>0. {} \in SUBSET S /\ Cardinality({}) = 0
  BY FS_EmptySet
<1>2. 0 \in N
  <2>1. Small(0) = {{}}
    <3>1. ASSUME NEW T \in SUBSET S, Cardinality(T) <= 0 PROVE T = {}
      <4>1. Cardinality(T) \in Nat
        BY <1>1
      <4>2. Cardinality(T) = 0
        BY <3>1, <4>1
      <4> QED
        BY <1>1, <4>2
    <3> QED
      BY <1>0, <3>1
  <2>2. Is([T \in Small(0) |-> b], 0)
    BY <2>1
  <2> QED
    BY <2>2
<1>3. ASSUME NEW n \in N PROVE n + 1 \in N
  <2>1. PICK F : Is(F, n)
    OBVIOUS
  <2> DEFINE G == [T \in Small(n + 1) |->
                     IF T \in Small(n) THEN F[T] ELSE g[<<c[T], F[T \ {c[T]}]>>]]
  <2>2. ASSUME NEW T \in Small(n + 1)
        PROVE  G[T] = IF T = {} THEN b ELSE g[<<c[T], G[T \ {c[T]}]>>]
    <3>1. T \in SUBSET S /\ Cardinality(T) <= n + 1
      OBVIOUS
    <3>2. CASE T = {}
      <4>1. T \in Small(n)
        BY <3>2, <1>0
      <4>2. F[T] = b
        <5>1. F[T] = IF T = {} THEN b ELSE g[<<c[T], F[T \ {c[T]}]>>]
          BY <2>1, <4>1
        <5> QED
          BY <5>1, <3>2
      <4>3. G[T] = F[T]
        BY <4>1
      <4> QED
        BY <4>2, <4>3, <3>2
    <3>3. CASE T # {}
      <4>0. /\ Cardinality(T) \in Nat /\ Cardinality(T \ {c[T]}) = Cardinality(T) - 1
            /\ T \ {c[T]} \in SUBSET S
        BY <3>1, <3>3, <1>1
      <4>1. T \ {c[T]} \in Small(n) /\ T \ {c[T]} \in Small(n + 1)
        <5> HIDE DEF G
        <5>1. n \in Nat
          OBVIOUS
        <5>2. Cardinality(T \ {c[T]}) <= n
          BY <3>1, <4>0, <5>1
        <5>3. Cardinality(T \ {c[T]}) <= n + 1
          BY <3>1, <4>0, <5>1
        <5> QED
          BY <4>0, <5>2, <5>3
      <4>2. G[T \ {c[T]}] = F[T \ {c[T]}]
        BY <4>1
      <4>3. T \in Small(n) => F[T] = g[<<c[T], F[T \ {c[T]}]>>]
        BY <2>1, <3>3
      <4> QED
        BY <3>3, <4>2, <4>3
    <3> QED
      BY <3>2, <3>3
  <2>3. DOMAIN G = Small(n + 1) /\ G = [T \in Small(n + 1) |-> G[T]]
    OBVIOUS
  <2> HIDE DEF G
  <2>4. Is(G, n + 1)
    BY <2>2, <2>3
  <2>5. n + 1 \in Nat
    OBVIOUS
  <2> HIDE DEF Is
  <2>6. \E H : Is(H, n + 1)
    BY <2>4, Zenon
  <2> QED
    BY <2>5, <2>6
<1>4. N = Nat
  <2> HIDE DEF N
  <2>1. N \in SUBSET Nat
    BY DEF N
  <2> QED
    BY <1>2, <1>3, <2>1, FromZero
<1>5. Cardinality(S) \in N
  BY <1>1, <1>4, S \in SUBSET S
<1>6. Small(Cardinality(S)) = SUBSET S
  BY <1>1
<1> QED
  BY <1>5, <1>6 DEF IsFoldBy

(* With values in V.                                                         *)
LEMMA FoldByIn ==
  ASSUME NEW S, IsFiniteSet(S), NEW c, IsChoice(c, S), NEW g, NEW V, NEW b \in V,
         \A x \in S, v \in V : g[<<x, v>>] \in V
  PROVE  \E F : IsFoldBy(F, g, c, b, S) /\ \A T \in SUBSET S : F[T] \in V
<1>1. PICK F : IsFoldBy(F, g, c, b, S)
  BY FoldByExists
<1> DEFINE A == {T \in SUBSET S : F[T] \in V}
<1>2. {} \in A
  <2>1. F[{}] = b
    BY <1>1, {} \in SUBSET S DEF IsFoldBy
  <2> QED
    BY <2>1
<1>3. ASSUME NEW T \in SUBSET S, T # {}, T \ {c[T]} \in A PROVE T \in A
  <2>1. c[T] \in S /\ F[T \ {c[T]}] \in V
    BY <1>3 DEF IsChoice
  <2>2. F[T] = g[<<c[T], F[T \ {c[T]}]>>]
    BY <1>1, <1>3 DEF IsFoldBy
  <2> QED
    BY <2>1, <2>2
<1> HIDE DEF A
<1>4. \A T \in SUBSET S : T \in A
  BY <1>2, <1>3, SubsetsBy
<1> QED
  BY <1>1, <1>4 DEF A

(* FoldSet lets CHOOSE choose.                                               *)
LEMMA SubsetsFromEmpty ==
  ASSUME NEW S, IsFiniteSet(S), NEW A, {} \in A,
         \A T \in SUBSET S : T # {} /\ T \ {Chosen(T)} \in A => T \in A
  PROVE  \A T \in SUBSET S : T \in A
<1> DEFINE c == [T \in SUBSET S |-> Chosen(T)]
<1>1. \A T \in SUBSET S : c[T] = Chosen(T)
  OBVIOUS
<1> HIDE DEF c
<1>2. IsChoice(c, S)
  BY <1>1, ChosenIn DEF IsChoice
<1>3. \A T \in SUBSET S : T # {} /\ T \ {c[T]} \in A => T \in A
  BY <1>1
<1> QED
  BY <1>2, <1>3, SubsetsBy

IsFoldOn(F, g, b, S) ==
  F = [T \in SUBSET S |-> IF T = {} THEN b ELSE g[<<Chosen(T), F[T \ {Chosen(T)}]>>]]

LEMMA FoldOnExists ==
  ASSUME NEW S, IsFiniteSet(S), NEW g, NEW b
  PROVE  \E F : IsFoldOn(F, g, b, S)
<1> DEFINE c == [T \in SUBSET S |-> Chosen(T)]
<1>1. \A T \in SUBSET S : c[T] = Chosen(T)
  OBVIOUS
<1> HIDE DEF c
<1>2. IsChoice(c, S)
  BY <1>1, ChosenIn DEF IsChoice
<1>3. PICK F : IsFoldBy(F, g, c, b, S)
  BY <1>2, FoldByExists
<1>4. IsFoldOn(F, g, b, S)
  BY <1>1, <1>3 DEF IsFoldBy, IsFoldOn
<1> QED
  BY <1>4

(* Functions that go from one integer to the next.                           *)
IsStepwise(F, g, v, lo, hi) == F = [d \in lo - 1 .. hi |-> IF d < lo THEN v ELSE g[<<d, F[d - 1]>>]]

LEMMA StepwiseExists ==
  ASSUME NEW lo \in Int, NEW hi \in Int, NEW g, NEW v
  PROVE  \E F : IsStepwise(F, g, v, lo, hi)
<1> DEFINE N == {n \in Nat : \E F : IsStepwise(F, g, v, lo, lo + n - 1)}
<1>1. ASSUME hi < lo PROVE \E F : IsStepwise(F, g, v, lo, hi)
  <2> DEFINE F == [d \in lo - 1 .. hi |-> v]
  <2>1. \A d \in lo - 1 .. hi : d < lo
    BY <1>1
  <2>2. F = [d \in lo - 1 .. hi |-> IF d < lo THEN v ELSE g[<<d, F[d - 1]>>]]
    BY <2>1
  <2> QED
    BY <2>2 DEF IsStepwise
<1>2. 0 \in N
  <2> DEFINE F == [d \in lo - 1 .. lo + 0 - 1 |-> v]
  <2>1. \A d \in lo - 1 .. lo + 0 - 1 : d < lo
    OBVIOUS
  <2>2. F = [d \in lo - 1 .. lo + 0 - 1 |-> IF d < lo THEN v ELSE g[<<d, F[d - 1]>>]]
    BY <2>1
  <2>3. IsStepwise(F, g, v, lo, lo + 0 - 1)
    BY <2>2 DEF IsStepwise
  <2> QED
    BY <2>3
<1>3. ASSUME NEW n \in N PROVE n + 1 \in N
  <2>1. n \in Nat /\ lo + (n + 1) - 1 = lo + n
    OBVIOUS
  <2>2. PICK F : IsStepwise(F, g, v, lo, lo + n - 1)
    OBVIOUS
  <2> DEFINE H == [d \in lo - 1 .. lo + n |-> IF d = lo + n THEN g[<<d, F[d - 1]>>] ELSE F[d]]
  <2>3. \A d \in lo - 1 .. lo + n - 1 : F[d] = IF d < lo THEN v ELSE g[<<d, F[d - 1]>>]
    BY <2>2 DEF IsStepwise
  <2>4. \A d \in lo - 1 .. lo + n : H[d] = IF d < lo THEN v ELSE g[<<d, H[d - 1]>>]
    <3> SUFFICES ASSUME NEW d \in lo - 1 .. lo + n PROVE H[d] = IF d < lo THEN v ELSE g[<<d, H[d - 1]>>]
      OBVIOUS
    <3>1. CASE d < lo
      BY <2>1, <2>3, <3>1
    <3>2. CASE d >= lo
      <4>1. d - 1 \in lo - 1 .. lo + n - 1 /\ d - 1 # lo + n /\ d - 1 \in lo - 1 .. lo + n /\ ~(d < lo)
        BY <2>1, <3>2
      <4>2. H[d - 1] = F[d - 1]
        BY <4>1
      <4>3. H[d] = g[<<d, F[d - 1]>>]
        BY <2>1, <2>3, <4>1
      <4> QED
        BY <4>1, <4>2, <4>3
    <3> QED
      BY <3>1, <3>2
  <2>5. H = [d \in lo - 1 .. lo + n |-> H[d]]
    OBVIOUS
  <2> HIDE DEF H
  <2>6. IsStepwise(H, g, v, lo, lo + n)
    BY <2>4, <2>5 DEF IsStepwise
  <2> QED
    BY <2>1, <2>6
<1>4. N = Nat
  <2> HIDE DEF N
  <2>1. N \in SUBSET Nat
    BY DEF N
  <2> QED
    BY <1>2, <1>3, <2>1, FromZero
<1>5. ASSUME hi >= lo PROVE \E F : IsStepwise(F, g, v, lo, hi)
  <2>1. hi - lo + 1 \in Nat /\ lo + (hi - lo + 1) - 1 = hi
    BY <1>5
  <2>2. \A n \in Nat : \E F : IsStepwise(F, g, v, lo, lo + n - 1)
    BY <1>4
  <2>3. \E F : IsStepwise(F, g, v, lo, lo + (hi - lo + 1) - 1)
    BY <2>1, <2>2
  <2> QED
    BY <2>1, <2>3
<1> QED
  BY <1>1, <1>5

(* What holds at the start of such a function and goes on holds to its end.  *)
LEMMA StepwiseFrom ==
  ASSUME NEW lo \in Int, NEW hi \in Int, NEW A, lo - 1 \in A, \A d \in lo .. hi : d - 1 \in A => d \in A
  PROVE  \A d \in lo - 1 .. hi : d \in A
<1> DEFINE N == {n \in Nat : lo - 1 + n <= hi => lo - 1 + n \in A}
<1>1. 0 \in N
  OBVIOUS
<1>2. ASSUME NEW n \in N PROVE n + 1 \in N
  <2>1. CASE lo - 1 + (n + 1) <= hi
    <3>1. lo - 1 + (n + 1) \in lo .. hi /\ lo - 1 + (n + 1) - 1 = lo - 1 + n /\ lo - 1 + n <= hi
      BY <2>1
    <3> QED
      BY <3>1
  <2> QED
    BY <2>1
<1>3. N = Nat
  <2> HIDE DEF N
  <2>1. N \in SUBSET Nat
    BY DEF N
  <2> QED
    BY <1>1, <1>2, <2>1, FromZero
<1>4. ASSUME NEW d \in lo - 1 .. hi PROVE d \in A
  <2>1. d - (lo - 1) \in Nat /\ lo - 1 + (d - (lo - 1)) = d /\ d <= hi
    OBVIOUS
  <2>2. \A n \in Nat : lo - 1 + n <= hi => lo - 1 + n \in A
    BY <1>3
  <2> QED
    BY <2>1, <2>2
<1> QED
  BY <1>4

=============================================================================
