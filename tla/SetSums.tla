------------------------------ MODULE SetSums ------------------------------
(***************************************************************************)
(* Least and greatest elements of sets of numbers, and the sum of the      *)
(* values a function has on a finite set (SumFunctionOnSet of the          *)
(* community modules): what the proofs about the error handler, the ring   *)
(* and the queue count with.  Every induction here is an argument about a  *)
(* least counterexample, LeastOf.                                          *)
(***************************************************************************)
EXTENDS Integers, FiniteSets, FiniteSetsExt, Functions, FiniteSetTheorems,
        WellFoundedInduction, TLAPS

LEMMA LeastOf ==
  ASSUME NEW T \in SUBSET Nat, T # {}
  PROVE  Min(T) \in T /\ \A y \in T : Min(T) <= y
<1> DEFINE Less == {p \in Nat \X Nat : p[1] < p[2]}
<1>1. IsWellFoundedOn(Less, Nat)
  BY NatLessThanWellFounded DEF OpToRel
<1>2. PICK x \in T : \A y \in T : ~(<<y, x>> \in Less)
  BY <1>1, WFMin
<1>3. ASSUME NEW y \in T PROVE x <= y
  <2>1. x \in Nat /\ y \in Nat /\ (y < x => <<y, x>> \in Less)
    OBVIOUS
  <2> HIDE DEF Less
  <2> QED BY <1>2, <2>1
<1> QED BY <1>3 DEF Min

LEMMA GreatestOf ==
  ASSUME NEW b \in Nat, NEW T \in SUBSET (0 .. b), T # {}
  PROVE  Max(T) \in T /\ \A y \in T : Max(T) >= y
<1> DEFINE U == {b - x : x \in T}
<1>1. U \in SUBSET Nat /\ U # {}
  <2>1. \A x \in T : b - x \in Nat
    OBVIOUS
  <2> QED BY <2>1
<1>2. PICK x \in T : Min(U) = b - x
  BY <1>1, LeastOf
<1>3. ASSUME NEW y \in T PROVE x >= y
  <2>1. b - x <= b - y
    BY <1>1, <1>2, LeastOf
  <2>2. x \in 0 .. b /\ y \in 0 .. b
    OBVIOUS
  <2> QED BY <2>1, <2>2
<1> QED BY <1>3 DEF Max

(* Among finite sets some set has the fewest elements.                     *)
LEMMA SmallestSet ==
  ASSUME NEW W, W # {}, \A s \in W : IsFiniteSet(s)
  PROVE  \E s \in W : \A r \in W : Cardinality(s) <= Cardinality(r)
<1> DEFINE T == {Cardinality(s) : s \in W}
<1>1. \A s \in W : Cardinality(s) \in Nat
  BY FS_CardinalityType
<1>2. T \in SUBSET Nat /\ T # {}
  BY <1>1
<1> HIDE DEF T
<1>3. Min(T) \in T /\ \A y \in T : Min(T) <= y
  BY <1>2, LeastOf
<1> QED BY <1>3 DEF T

----------------------------------------------------------------------------
(* h gives the sums of g over the subsets of S, one element after another. *)
First(s) == CHOOSE x \in s : TRUE

Sums(h, g, S) ==
  h = [s \in SUBSET S |-> IF s = {} THEN 0 ELSE g[First(s)] + h[s \ {First(s)}]]

LEMMA FirstOf ==
  ASSUME NEW s, s # {}
  PROVE  First(s) \in s
BY DEF First

LEMMA SmallerSet ==
  ASSUME NEW s, IsFiniteSet(s), NEW x \in s
  PROVE  /\ IsFiniteSet(s \ {x})
         /\ Cardinality(s \ {x}) \in Nat
         /\ Cardinality(s) \in Nat
         /\ Cardinality(s \ {x}) < Cardinality(s)
<1>1. IsFiniteSet(s \ {x}) /\ Cardinality(s \ {x}) = Cardinality(s) - 1
  BY FS_RemoveElement
<1>2. Cardinality(s) \in Nat /\ Cardinality(s \ {x}) \in Nat
  BY <1>1, FS_CardinalityType
<1> QED BY <1>1, <1>2

(* The form in which least counterexamples are used.                       *)
LEMMA LeastSubset ==
  ASSUME NEW S, IsFiniteSet(S), NEW W \in SUBSET (SUBSET S), W # {}
  PROVE  \E r \in W : IsFiniteSet(r) /\ \A x \in r : r \ {x} \notin W
<1>1. \A s \in W : IsFiniteSet(s)
  BY FS_Subset
<1>2. PICK r \in W : \A q \in W : Cardinality(r) <= Cardinality(q)
  BY <1>1, SmallestSet
<1>3. ASSUME NEW x \in r PROVE r \ {x} \notin W
  <2>1. /\ Cardinality(r \ {x}) \in Nat /\ Cardinality(r) \in Nat
        /\ Cardinality(r \ {x}) < Cardinality(r)
    BY <1>1, SmallerSet
  <2> QED BY <1>2, <2>1
<1> QED BY <1>1, <1>3

LEMMA SumsUnique ==
  ASSUME NEW g, NEW h, NEW k, NEW S, NEW T, Sums(h, g, S), Sums(k, g, T),
         NEW s \in SUBSET S, s \in SUBSET T, IsFiniteSet(s)
  PROVE  h[s] = k[s]
<1> DEFINE W == {r \in SUBSET s : h[r] # k[r]}
<1>1. SUFFICES ASSUME W # {} PROVE FALSE
  OBVIOUS
<1>2. PICK r \in W : \A x \in r : r \ {x} \notin W
  <2>1. W \in SUBSET (SUBSET s)
    OBVIOUS
  <2> HIDE DEF W
  <2> QED BY <1>1, <2>1, LeastSubset
<1>4. /\ h[r] = IF r = {} THEN 0 ELSE g[First(r)] + h[r \ {First(r)}]
      /\ k[r] = IF r = {} THEN 0 ELSE g[First(r)] + k[r \ {First(r)}]
  BY DEF Sums
<1>5. r # {}
  BY <1>4
<1>8. r \ {First(r)} \notin W
  <2> HIDE DEF W
  <2> QED BY <1>2, <1>5, FirstOf
<1>9. h[r \ {First(r)}] = k[r \ {First(r)}]
  BY <1>8
<1> QED BY <1>4, <1>5, <1>9

LEMMA SumsExist ==
  ASSUME NEW g, NEW S, IsFiniteSet(S)
  PROVE  \E h : Sums(h, g, S)
<1> DEFINE W == {r \in SUBSET S : ~\E h : Sums(h, g, r)}
<1>1. SUFFICES ASSUME W # {} PROVE FALSE
  OBVIOUS
<1>2. \A r \in W : IsFiniteSet(r)
  BY FS_Subset
<1>3. PICK r \in W : \A q \in W : Cardinality(r) <= Cardinality(q)
  <2> HIDE DEF W
  <2> QED BY <1>1, <1>2, SmallestSet
<1> DEFINE Rest(s) == s \ {First(s)}
           k(s) == CHOOSE h : Sums(h, g, s)
           h == [s \in SUBSET r |-> IF s = {} THEN 0 ELSE g[First(s)] + k(Rest(s))[Rest(s)]]
<1>4. ASSUME NEW s \in SUBSET r, s # {}
      PROVE  Rest(s) \in SUBSET r /\ IsFiniteSet(Rest(s)) /\ Sums(k(Rest(s)), g, Rest(s))
  <2>1. First(s) \in s /\ IsFiniteSet(r) /\ IsFiniteSet(s)
    BY <1>2, <1>4, FirstOf, FS_Subset
  <2>2. Rest(s) \in SUBSET (r \ {First(s)}) /\ IsFiniteSet(Rest(s)) /\ First(s) \in r
    BY <2>1, FS_Subset
  <2>3. Cardinality(Rest(s)) <= Cardinality(r \ {First(s)})
    BY <2>1, <2>2, SmallerSet, FS_Subset
  <2>4. Cardinality(Rest(s)) < Cardinality(r) /\ Cardinality(Rest(s)) \in Nat /\ Cardinality(r) \in Nat
    <3>1. /\ Cardinality(r \ {First(s)}) < Cardinality(r)
          /\ Cardinality(r \ {First(s)}) \in Nat /\ Cardinality(r) \in Nat
      BY <2>1, <2>2, SmallerSet
    <3>2. Cardinality(Rest(s)) \in Nat
      BY <2>2, FS_CardinalityType
    <3> HIDE DEF Rest
    <3> QED BY <2>3, <3>1, <3>2
  <2>5. Rest(s) \notin W
    <3> HIDE DEF W, Rest
    <3> QED BY <1>3, <2>4
  <2>6. \E x : Sums(x, g, Rest(s))
    BY <2>5
  <2> QED BY <2>2, <2>6
<1>5. ASSUME NEW s \in SUBSET r, s # {} PROVE k(Rest(s))[Rest(s)] = h[Rest(s)]
  <2> DEFINE q == Rest(s)
  <2>1. q \in SUBSET r /\ IsFiniteSet(q) /\ Sums(k(q), g, q)
    BY <1>4, <1>5
  <2>2. k(q)[q] = IF q = {} THEN 0 ELSE g[First(q)] + k(q)[Rest(q)]
    <3> HIDE DEF q, k
    <3> QED BY <2>1 DEF Sums
  <2>3. h[q] = IF q = {} THEN 0 ELSE g[First(q)] + k(Rest(q))[Rest(q)]
    <3> HIDE DEF q, k
    <3> QED BY <2>1
  <2>4. ASSUME q # {} PROVE k(q)[Rest(q)] = k(Rest(q))[Rest(q)]
    <3>1. IsFiniteSet(Rest(q)) /\ Sums(k(Rest(q)), g, Rest(q))
      <4> HIDE DEF q, k, Rest
      <4> QED BY <1>4, <2>1, <2>4
    <3>2. Rest(q) \in SUBSET q
      OBVIOUS
    <3> HIDE DEF q, k, Rest
    <3> QED BY <2>1, <3>1, <3>2, SumsUnique
  <2> HIDE DEF k, h, Rest
  <2> QED BY <2>2, <2>3, <2>4 DEF q
<1>6. Sums(h, g, r)
  <2>1. \A s \in SUBSET r : h[s] = IF s = {} THEN 0 ELSE g[First(s)] + h[Rest(s)]
    <3> HIDE DEF k
    <3> QED BY <1>5
  <2>2. h = [s \in SUBSET r |-> h[s]]
    OBVIOUS
  <2> HIDE DEF h, k
  <2> QED BY <2>1, <2>2 DEF Sums, Rest
<1> HIDE DEF h, k
<1> QED BY <1>6, <1>3

(* The community modules' sum, step by step.                               *)
LEMMA SumIsSums ==
  ASSUME NEW g, NEW S, IsFiniteSet(S)
  PROVE  \E h : Sums(h, g, S) /\ SumFunctionOnSet(g, S) = h[S]
<1> DEFINE iter == CHOOSE h : Sums(h, g, S)
<1>1. Sums(iter, g, S)
  BY SumsExist
<1>2. SumFunctionOnSet(g, S) = iter[S]
  BY DEF SumFunctionOnSet, FoldFunctionOnSet, MapThenFoldSet, Sums, First
<1> HIDE DEF iter
<1> QED BY <1>1, <1>2

LEMMA SumEmpty ==
  ASSUME NEW g
  PROVE  SumFunctionOnSet(g, {}) = 0
<1>1. PICK h : Sums(h, g, {}) /\ SumFunctionOnSet(g, {}) = h[{}]
  BY SumIsSums, FS_EmptySet
<1> QED BY <1>1 DEF Sums

LEMMA SumFirst ==
  ASSUME NEW g, NEW S, IsFiniteSet(S), S # {}
  PROVE  SumFunctionOnSet(g, S) = g[First(S)] + SumFunctionOnSet(g, S \ {First(S)})
<1> DEFINE R == S \ {First(S)}
<1>1. IsFiniteSet(R)
  BY FS_Subset
<1>2. PICK h : Sums(h, g, S) /\ SumFunctionOnSet(g, S) = h[S]
  BY SumIsSums
<1>3. PICK k : Sums(k, g, R) /\ SumFunctionOnSet(g, R) = k[R]
  BY <1>1, SumIsSums
<1>4. h[R] = k[R]
  BY <1>1, <1>2, <1>3, SumsUnique
<1>5. h[S] = g[First(S)] + h[R]
  BY <1>2 DEF Sums
<1> QED BY <1>2, <1>3, <1>4, <1>5

(* A sum of natural numbers is one.                                        *)
LEMMA SumNat ==
  ASSUME NEW S, IsFiniteSet(S), NEW g, \A y \in S : g[y] \in Nat
  PROVE  /\ SumFunctionOnSet(g, S) \in Nat
         /\ \A s \in SUBSET S : SumFunctionOnSet(g, s) \in Nat
<1> DEFINE W == {s \in SUBSET S : SumFunctionOnSet(g, s) \notin Nat}
<1>1. SUFFICES ASSUME W # {} PROVE FALSE
  OBVIOUS
<1>2. PICK r \in W : IsFiniteSet(r) /\ \A y \in r : r \ {y} \notin W
  <2>1. W \in SUBSET (SUBSET S)
    OBVIOUS
  <2> HIDE DEF W
  <2> QED BY <1>1, <2>1, LeastSubset
<1>3. r # {}
  BY SumEmpty
<1>4. First(r) \in r /\ First(r) \in S
  BY <1>3, FirstOf
<1>5. SumFunctionOnSet(g, r \ {First(r)}) \in Nat /\ g[First(r)] \in Nat
  BY <1>2, <1>4
<1> QED BY <1>2, <1>3, <1>5, SumFirst

(* The order of the summands does not matter.                              *)
LEMMA SumAt ==
  ASSUME NEW S, IsFiniteSet(S), NEW g, \A y \in S : g[y] \in Nat, NEW x \in S
  PROVE  SumFunctionOnSet(g, S) = g[x] + SumFunctionOnSet(g, S \ {x})
<1> DEFINE Total(s) == SumFunctionOnSet(g, s)
<1>1. \A s \in SUBSET S : Total(s) \in Nat
  BY SumNat
<1> DEFINE W == {s \in SUBSET S : \E y \in s : Total(s) # g[y] + Total(s \ {y})}
<1>2. SUFFICES ASSUME W # {} PROVE FALSE
  OBVIOUS
<1>3. PICK r \in W : IsFiniteSet(r) /\ \A y \in r : r \ {y} \notin W
  <2>1. W \in SUBSET (SUBSET S)
    OBVIOUS
  <2> HIDE DEF W
  <2> QED BY <1>2, <2>1, LeastSubset
<1>4. PICK y \in r : Total(r) # g[y] + Total(r \ {y})
  OBVIOUS
<1> DEFINE f == First(r)
           both == (r \ {f}) \ {y}
<1>5. f \in r /\ Total(r) = g[f] + Total(r \ {f})
  BY <1>3, <1>4, FirstOf, SumFirst
<1>6. f # y
  BY <1>4, <1>5
<1>7. /\ Total(r \ {f}) = g[y] + Total(both)
      /\ Total(r \ {y}) = g[f] + Total((r \ {y}) \ {f})
  BY <1>3, <1>4, <1>5, <1>6
<1>8. (r \ {y}) \ {f} = both
  OBVIOUS
<1>9. /\ g[f] \in Nat /\ g[y] \in Nat /\ Total(both) \in Nat
  BY <1>1, <1>4, <1>5
<1> HIDE DEF Total, both, f
<1> QED BY <1>4, <1>5, <1>7, <1>8, <1>9

(* Equal summands, equal sums; smaller summands, smaller sums.             *)
LEMMA SumEqual ==
  ASSUME NEW S, IsFiniteSet(S), NEW g, NEW h, \A y \in S : g[y] = h[y]
  PROVE  SumFunctionOnSet(g, S) = SumFunctionOnSet(h, S)
<1> DEFINE W == {s \in SUBSET S : SumFunctionOnSet(g, s) # SumFunctionOnSet(h, s)}
<1>1. SUFFICES ASSUME W # {} PROVE FALSE
  OBVIOUS
<1>2. PICK r \in W : IsFiniteSet(r) /\ \A y \in r : r \ {y} \notin W
  <2>1. W \in SUBSET (SUBSET S)
    OBVIOUS
  <2> HIDE DEF W
  <2> QED BY <1>1, <2>1, LeastSubset
<1>3. r # {}
  BY SumEmpty
<1>4. First(r) \in r
  BY <1>3, FirstOf
<1>5. SumFunctionOnSet(g, r \ {First(r)}) = SumFunctionOnSet(h, r \ {First(r)})
  BY <1>2, <1>4
<1> QED BY <1>2, <1>3, <1>4, <1>5, SumFirst

LEMMA SumLeq ==
  ASSUME NEW S, IsFiniteSet(S), NEW g, NEW h,
         \A y \in S : g[y] \in Nat /\ h[y] \in Nat /\ g[y] <= h[y]
  PROVE  SumFunctionOnSet(g, S) <= SumFunctionOnSet(h, S)
<1> DEFINE G(s) == SumFunctionOnSet(g, s)
           H(s) == SumFunctionOnSet(h, s)
<1>0. \A s \in SUBSET S : G(s) \in Nat /\ H(s) \in Nat
  BY SumNat
<1> DEFINE W == {s \in SUBSET S : ~(G(s) <= H(s))}
<1>1. SUFFICES ASSUME W # {} PROVE FALSE
  OBVIOUS
<1>2. PICK r \in W : IsFiniteSet(r) /\ \A y \in r : r \ {y} \notin W
  <2>1. W \in SUBSET (SUBSET S)
    OBVIOUS
  <2> HIDE DEF W
  <2> QED BY <1>1, <2>1, LeastSubset
<1>3. r # {}
  BY SumEmpty
<1>4. First(r) \in r /\ First(r) \in S
  BY <1>3, FirstOf
<1>5. G(r \ {First(r)}) <= H(r \ {First(r)})
  BY <1>2, <1>4
<1>6. G(r) = g[First(r)] + G(r \ {First(r)}) /\ H(r) = h[First(r)] + H(r \ {First(r)})
  BY <1>2, <1>3, SumFirst
<1>7. /\ g[First(r)] \in Nat /\ h[First(r)] \in Nat /\ g[First(r)] <= h[First(r)]
      /\ G(r \ {First(r)}) \in Nat /\ H(r \ {First(r)}) \in Nat
  BY <1>0, <1>4
<1>8. ~(G(r) <= H(r))
  OBVIOUS
<1> HIDE DEF G, H
<1> QED BY <1>5, <1>6, <1>7, <1>8

(* One summand changes.                                                    *)
LEMMA SumChange ==
  ASSUME NEW S, IsFiniteSet(S), NEW g, NEW h, NEW x \in S,
         \A y \in S : g[y] \in Nat /\ h[y] \in Nat,
         \A y \in S \ {x} : h[y] = g[y]
  PROVE  SumFunctionOnSet(h, S) + g[x] = SumFunctionOnSet(g, S) + h[x]
<1> DEFINE R == S \ {x}
           G(s) == SumFunctionOnSet(g, s)
           H(s) == SumFunctionOnSet(h, s)
<1>1. IsFiniteSet(R) /\ G(R) = H(R)
  BY FS_Subset, SumEqual
<1>2. G(S) = g[x] + G(R) /\ H(S) = h[x] + H(R)
  BY SumAt
<1>3. G(R) \in Nat /\ g[x] \in Nat /\ h[x] \in Nat
  BY <1>1, SumNat
<1>4. H(S) + g[x] = G(S) + h[x]
  <2> HIDE DEF G, H, R
  <2> QED BY <1>1, <1>2, <1>3
<1> QED BY <1>4

(* Two sums stay in order when the smaller one shrinks and the larger one  *)
(* grows, ...                                                              *)
LEMMA OrderKept ==
  ASSUME NEW S, IsFiniteSet(S), NEW g, NEW h, NEW g2, NEW h2,
         \A y \in S : g[y] \in Nat /\ h[y] \in Nat /\ g2[y] \in Nat /\ h2[y] \in Nat,
         SumFunctionOnSet(g, S) <= SumFunctionOnSet(h, S),
         \A y \in S : g2[y] <= g[y] /\ h[y] <= h2[y]
  PROVE  SumFunctionOnSet(g2, S) <= SumFunctionOnSet(h2, S)
<1>1. /\ SumFunctionOnSet(g2, S) <= SumFunctionOnSet(g, S)
      /\ SumFunctionOnSet(h, S) <= SumFunctionOnSet(h2, S)
  BY SumLeq
<1>2. /\ SumFunctionOnSet(g2, S) \in Nat /\ SumFunctionOnSet(g, S) \in Nat
      /\ SumFunctionOnSet(h, S) \in Nat /\ SumFunctionOnSet(h2, S) \in Nat
  BY SumNat
<1> QED BY <1>1, <1>2

(* ... and when one summand of each grows by one.                          *)
LEMMA OrderKeptByOne ==
  ASSUME NEW S, IsFiniteSet(S), NEW g, NEW h, NEW g2, NEW h2,
         \A y \in S : g[y] \in Nat /\ h[y] \in Nat /\ g2[y] \in Nat /\ h2[y] \in Nat,
         SumFunctionOnSet(g, S) <= SumFunctionOnSet(h, S),
         NEW x \in S, g2[x] = g[x] + 1, \A y \in S \ {x} : g2[y] = g[y],
         NEW z \in S, h2[z] = h[z] + 1, \A y \in S \ {z} : h2[y] = h[y]
  PROVE  SumFunctionOnSet(g2, S) <= SumFunctionOnSet(h2, S)
<1>1. /\ SumFunctionOnSet(g2, S) + g[x] = SumFunctionOnSet(g, S) + g2[x]
      /\ SumFunctionOnSet(h2, S) + h[z] = SumFunctionOnSet(h, S) + h2[z]
  BY SumChange
<1>2. /\ SumFunctionOnSet(g2, S) \in Nat /\ SumFunctionOnSet(g, S) \in Nat
      /\ SumFunctionOnSet(h, S) \in Nat /\ SumFunctionOnSet(h2, S) \in Nat
      /\ g[x] \in Nat /\ h[z] \in Nat
  BY SumNat
<1> QED BY <1>1, <1>2

(* A set in finitely many disjoint parts.                                  *)
LEMMA CardinalityOfParts ==
  ASSUME NEW S, IsFiniteSet(S), NEW part, \A y \in S : IsFiniteSet(part[y]),
         \A y, z \in S : y # z => part[y] \cap part[z] = {},
         NEW size, \A y \in S : size[y] = Cardinality(part[y])
  PROVE  /\ IsFiniteSet(UNION {part[y] : y \in S})
         /\ Cardinality(UNION {part[y] : y \in S}) = SumFunctionOnSet(size, S)
<1> DEFINE All(s) == UNION {part[y] : y \in s}
           Total(s) == SumFunctionOnSet(size, s)
           W == {s \in SUBSET S : ~(IsFiniteSet(All(s)) /\ Cardinality(All(s)) = Total(s))}
<1>1. SUFFICES ASSUME W # {} PROVE FALSE
  OBVIOUS
<1>2. PICK r \in W : IsFiniteSet(r) /\ \A y \in r : r \ {y} \notin W
  <2>1. W \in SUBSET (SUBSET S)
    OBVIOUS
  <2> HIDE DEF W
  <2> QED BY <1>1, <2>1, LeastSubset
<1>3. r # {}
  <2>1. All({}) = {}
    OBVIOUS
  <2>2. IsFiniteSet(All({})) /\ Cardinality(All({})) = Total({})
    BY <2>1, FS_EmptySet, SumEmpty
  <2> HIDE DEF All, Total
  <2> QED BY <2>2
<1> DEFINE x == First(r)
           R == r \ {x}
<1>4. x \in r /\ R \in SUBSET S
  BY <1>3, FirstOf
<1>5. IsFiniteSet(All(R)) /\ Cardinality(All(R)) = Total(R)
  <2> HIDE DEF x
  <2> QED BY <1>2, <1>4
<1>6. Total(r) = size[x] + Total(R)
  BY <1>2, <1>3, SumFirst
<1>7. All(r) = part[x] \cup All(R) /\ part[x] \cap All(R) = {}
  <2> HIDE DEF x
  <2> QED BY <1>4
<1>8. IsFiniteSet(part[x]) /\ size[x] = Cardinality(part[x])
  BY <1>4
<1>9. /\ IsFiniteSet(All(r))
      /\ Cardinality(All(r)) = Cardinality(part[x]) + Cardinality(All(R))
  <2> HIDE DEF All, x, R
  <2>1. Cardinality({}) = 0 /\ Cardinality(part[x]) \in Nat /\ Cardinality(All(R)) \in Nat
    BY <1>5, <1>8, FS_EmptySet, FS_CardinalityType
  <2>2. /\ IsFiniteSet(part[x] \cup All(R))
        /\ Cardinality(part[x] \cup All(R)) =
             Cardinality(part[x]) + Cardinality(All(R)) - Cardinality(part[x] \cap All(R))
    BY <1>5, <1>8, FS_Union
  <2>3. Cardinality(part[x] \cap All(R)) = 0
    BY <1>7, <2>1
  <2>4. Cardinality(part[x] \cup All(R)) = Cardinality(part[x]) + Cardinality(All(R))
    BY <2>1, <2>2, <2>3
  <2> QED BY <1>7, <2>2, <2>4
<1>10. r \notin W
  <2> HIDE DEF All, Total, x, R
  <2> QED BY <1>5, <1>6, <1>8, <1>9
<1> QED BY <1>10
=============================================================================
