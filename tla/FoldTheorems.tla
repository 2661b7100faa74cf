---------------------------- MODULE FoldTheorems ----------------------------
(* What SumFunction of the community modules computes, for every function  *)
(* from a finite set to the integers.  The fold picks the elements in an    *)
(* order nobody knows: that the order does not matter is what is shown.    *)
EXTENDS Integers, FiniteSets, Functions, FiniteSetTheorems, WellFoundedInduction, TLAPS

(* A set of naturals has a least member. *)
LEMMA LeastMember ==
    ASSUME NEW T, T \subseteq Nat, T # {}
    PROVE  \E x \in T : \A y \in T : x <= y
PROOF
<1> DEFINE less == {ss \in Nat \X Nat : ss[1] < ss[2]}
<1>1. IsWellFoundedOn(less, Nat)
    BY NatLessThanWellFounded DEF OpToRel
<1>2. \E x \in T : \A y \in T : ~(<<y, x>> \in less)
    BY <1>1, WFMin
<1>3. \A x, y \in Nat : <<y, x>> \in less <=> y < x
    OBVIOUS
<1> HIDE DEF less
<1>4. \A x, y \in Nat : ~(y < x) => x <= y
    OBVIOUS
<1> QED BY <1>2, <1>3, <1>4

-----------------------------------------------------------------------------
(* The fold as a function of the sets it goes through.                     *)

(* The element the fold takes next. *)
Picked(s) == CHOOSE x \in s : TRUE

(* h sums f over the subsets of S, one picked element at a time. *)
Sums(h, f, S) ==
    h = [s \in SUBSET S |-> IF s = {} THEN 0 ELSE f[Picked(s)] + h[s \ {Picked(s)}]]

Total(f, S) == (CHOOSE h : Sums(h, f, S))[S]

(* SumFunction is that fold. *)
LEMMA SumIsTotal ==
    ASSUME NEW f
    PROVE  SumFunction(f) = Total(f, DOMAIN f)
PROOF
BY DEF SumFunction, SumFunctionOnSet, FoldFunction, FoldFunctionOnSet, MapThenFoldSet,
       Total, Sums, Picked

(* Taking an element from a finite set makes it smaller. *)
LEMMA SmallerSet ==
    ASSUME NEW S, IsFiniteSet(S), NEW s \in SUBSET S, NEW x \in s
    PROVE  /\ IsFiniteSet(s) /\ Cardinality(s) \in Nat /\ Cardinality(s) > 0
           /\ s \ {x} \in SUBSET S
           /\ Cardinality(s \ {x}) = Cardinality(s) - 1
PROOF
<1>1. IsFiniteSet(s)
    BY FS_Subset
<1>2. Cardinality(s) \in Nat /\ Cardinality(s \ {x}) = Cardinality(s) - 1
    BY <1>1, FS_CardinalityType, FS_RemoveElement
<1>3. IsFiniteSet(s \ {x}) /\ Cardinality(s \ {x}) \in Nat
    BY <1>1, FS_RemoveElement, FS_CardinalityType
<1> QED BY <1>1, <1>2, <1>3

(* A function that sums exists: it is built up over the size of the sets. *)
LEMMA SumsExist ==
    ASSUME NEW S, IsFiniteSet(S), NEW f, \A x \in S : f[x] \in Int
    PROVE  /\ Sums(CHOOSE h : Sums(h, f, S), f, S)
           /\ \A s \in SUBSET S : (CHOOSE h : Sums(h, f, S))[s] \in Int
PROOF
<1> DEFINE Upto(n) == {s \in SUBSET S : Cardinality(s) <= n}
           Fits(h, n) ==
              /\ h \in [Upto(n) -> Int]
              /\ \A s \in Upto(n) :
                    h[s] = IF s = {} THEN 0 ELSE f[Picked(s)] + h[s \ {Picked(s)}]
<1>1. ASSUME NEW s \in SUBSET S, s # {}
      PROVE  /\ Picked(s) \in s /\ f[Picked(s)] \in Int
             /\ s \ {Picked(s)} \in SUBSET S
             /\ Cardinality(s) \in Nat /\ Cardinality(s) > 0
             /\ Cardinality(s \ {Picked(s)}) = Cardinality(s) - 1
    <2>1. Picked(s) \in s
        BY <1>1 DEF Picked
    <2> QED BY <2>1, SmallerSet
<1>2. \A s \in SUBSET S : Cardinality(s) \in Nat /\ (Cardinality(s) = 0 <=> s = {})
    BY FS_Subset, FS_CardinalityType, FS_EmptySet
<1>3. \E h : Fits(h, 0)
    <2> DEFINE h == [s \in Upto(0) |-> 0]
    <2>1. \A s \in Upto(0) : s = {}
        BY <1>2
    <2>2. h \in [Upto(0) -> Int] /\ \A s \in Upto(0) : h[s] = 0
        OBVIOUS
    <2> HIDE DEF h, Upto
    <2>3. Fits(h, 0)
        BY <2>1, <2>2
    <2> QED BY <2>3
<1>4. ASSUME NEW n \in Nat, NEW g, Fits(g, n)
      PROVE  \E h : Fits(h, n + 1)
    <2> DEFINE h == [s \in Upto(n + 1) |-> IF s = {} THEN 0
                                           ELSE f[Picked(s)] + g[s \ {Picked(s)}]]
    <2>1. ASSUME NEW s \in Upto(n + 1), s # {}
          PROVE  /\ s \ {Picked(s)} \in Upto(n)
                 /\ f[Picked(s)] + g[s \ {Picked(s)}] \in Int
        <3>1. s \ {Picked(s)} \in Upto(n)
            BY <1>1, <2>1
        <3>2. g[s \ {Picked(s)}] \in Int
            BY <1>4, <3>1
        <3> QED BY <1>1, <2>1, <3>1, <3>2
    <2>2. \A s \in Upto(n) : s \in Upto(n + 1)
        BY <1>2
    <2>3. h \in [Upto(n + 1) -> Int]
        BY <2>1
    <2>4. \A s \in Upto(n) : h[s] = g[s]
        BY <1>4, <2>2
    <2>5. ASSUME NEW s \in Upto(n + 1)
          PROVE  h[s] = IF s = {} THEN 0 ELSE f[Picked(s)] + h[s \ {Picked(s)}]
        <3>1. CASE s = {}
            BY <3>1
        <3>2. CASE s # {}
            <4>1. h[s] = f[Picked(s)] + g[s \ {Picked(s)}]
                BY <3>2
            <4>2. h[s \ {Picked(s)}] = g[s \ {Picked(s)}]
                BY <2>1, <2>4, <3>2
            <4> QED BY <3>2, <4>1, <4>2
        <3> QED BY <3>1, <3>2
    <2> HIDE DEF h, Upto
    <2>6. Fits(h, n + 1)
        BY <2>3, <2>5
    <2> QED BY <2>6
<1>5. ASSUME NEW n \in Nat PROVE \E h : Fits(h, n)
    <2> DEFINE T == {m \in Nat : ~\E h : Fits(h, m)}
    <2> HIDE DEF Fits
    <2>1. SUFFICES ASSUME T # {} PROVE FALSE
        OBVIOUS
    <2>2. PICK m \in T : \A k \in T : m <= k
        BY <2>1, LeastMember
    <2>3. m # 0 /\ m \in Nat
        BY <1>3
    <2>4. m - 1 \in Nat /\ m - 1 \notin T /\ (m - 1) + 1 = m
        BY <2>2, <2>3
    <2>5. PICK g : Fits(g, m - 1)
        BY <2>4
    <2>6. \E h : Fits(h, (m - 1) + 1)
        BY <1>4, <2>4, <2>5
    <2> QED BY <2>4, <2>6
<1>6. Cardinality(S) \in Nat /\ Upto(Cardinality(S)) = SUBSET S
    BY FS_CardinalityType, FS_Subset
<1>7. PICK h : Fits(h, Cardinality(S))
    BY <1>5, <1>6
<1>8. Sums(h, f, S)
    BY <1>6, <1>7 DEF Sums
<1> HIDE DEF Fits, Upto
<1> DEFINE g == CHOOSE k : Sums(k, f, S)
<1>9. Sums(g, f, S)
    BY <1>8
<1> HIDE DEF g
<1>10. \A s \in SUBSET S : g[s] \in Int
    <2> DEFINE T == {n \in Nat : \E s \in SUBSET S : Cardinality(s) = n /\ g[s] \notin Int}
    <2>1. SUFFICES ASSUME T # {} PROVE FALSE
        BY <1>2
    <2>2. PICK m \in T : \A k \in T : m <= k
        BY <2>1, LeastMember
    <2>3. PICK s \in SUBSET S : Cardinality(s) = m /\ g[s] \notin Int
        OBVIOUS
    <2>4. g[s] = IF s = {} THEN 0 ELSE f[Picked(s)] + g[s \ {Picked(s)}]
        BY <1>9 DEF Sums
    <2>5. s # {}
        BY <2>3, <2>4
    <2>6. Cardinality(s \ {Picked(s)}) = m - 1 /\ m - 1 \in Nat /\ m - 1 \notin T
        BY <1>1, <2>2, <2>3, <2>5
    <2>7. g[s \ {Picked(s)}] \in Int
        BY <1>1, <2>5, <2>6
    <2> QED BY <1>1, <2>3, <2>4, <2>5, <2>7
<1> QED BY <1>9, <1>10 DEF g

(* Any element may be taken first. *)
LEMMA AnyFirst ==
    ASSUME NEW S, IsFiniteSet(S), NEW f, \A x \in S : f[x] \in Int,
           NEW h, Sums(h, f, S), \A s \in SUBSET S : h[s] \in Int,
           NEW s \in SUBSET S, NEW x \in s
    PROVE  h[s] = f[x] + h[s \ {x}]
PROOF
<1> DEFINE Wrong(t, y) == y \in t /\ h[t] # f[y] + h[t \ {y}]
           T == {n \in Nat : \E t \in SUBSET S : Cardinality(t) = n /\ \E y \in S : Wrong(t, y)}
<1>1. SUFFICES ASSUME T # {} PROVE FALSE
    BY SmallerSet
<1>2. PICK m \in T : \A k \in T : m <= k
    BY <1>1, LeastMember
<1>3. PICK t \in SUBSET S : Cardinality(t) = m /\ \E y \in S : Wrong(t, y)
    OBVIOUS
<1>4. PICK y \in S : Wrong(t, y)
    BY <1>3
<1> DEFINE p == Picked(t)
<1>5. p \in t /\ p \in S /\ t # {}
    BY <1>4 DEF Picked
<1>6. h[t] = f[p] + h[t \ {p}]
    BY <1>5 DEF Sums
<1> HIDE DEF p
<1>7. p # y
    BY <1>4, <1>6
<1>8. /\ t \ {p} \in SUBSET S /\ Cardinality(t \ {p}) = m - 1
      /\ t \ {y} \in SUBSET S /\ Cardinality(t \ {y}) = m - 1
      /\ m - 1 \in Nat
    BY <1>3, <1>4, <1>5, SmallerSet
<1>9. m - 1 \notin T
    BY <1>2, <1>8
<1>10. ~Wrong(t \ {p}, y) /\ ~Wrong(t \ {y}, p)
    BY <1>5, <1>8, <1>9
<1>11. /\ h[t \ {p}] = f[y] + h[(t \ {p}) \ {y}]
       /\ h[t \ {y}] = f[p] + h[(t \ {y}) \ {p}]
    BY <1>4, <1>5, <1>7, <1>10
<1>12. (t \ {p}) \ {y} = (t \ {y}) \ {p} /\ (t \ {p}) \ {y} \in SUBSET S
    OBVIOUS
<1> DEFINE u == (t \ {p}) \ {y}
<1>13. h[u] \in Int /\ f[p] \in Int /\ f[y] \in Int
    BY <1>4, <1>5, <1>12
<1>14. /\ h[t] = f[p] + (f[y] + h[u])
       /\ h[t \ {y}] = f[p] + h[u]
    BY <1>6, <1>11, <1>12
<1> HIDE DEF u
<1>15. h[t] = f[y] + h[t \ {y}]
    BY <1>13, <1>14
<1> QED BY <1>4, <1>15

(* Functions that agree on a set have the same sum over it. *)
LEMMA SameSums ==
    ASSUME NEW S, IsFiniteSet(S), NEW R, NEW f, NEW g, NEW h, NEW k,
           Sums(h, f, S), Sums(k, g, R),
           NEW s, s \subseteq S, s \subseteq R, \A x \in s : f[x] = g[x]
    PROVE  h[s] = k[s]
PROOF
<1> DEFINE T == {n \in Nat : \E t \in SUBSET s : Cardinality(t) = n /\ h[t] # k[t]}
<1>1. \A t \in SUBSET s : Cardinality(t) \in Nat
    BY FS_Subset, FS_CardinalityType
<1>2. SUFFICES ASSUME T # {} PROVE FALSE
    BY <1>1
<1>3. PICK m \in T : \A n \in T : m <= n
    BY <1>2, LeastMember
<1>4. PICK t \in SUBSET s : Cardinality(t) = m /\ h[t] # k[t]
    OBVIOUS
<1>5. /\ h[t] = IF t = {} THEN 0 ELSE f[Picked(t)] + h[t \ {Picked(t)}]
      /\ k[t] = IF t = {} THEN 0 ELSE g[Picked(t)] + k[t \ {Picked(t)}]
    <2>1. t \in SUBSET S /\ t \in SUBSET R
        OBVIOUS
    <2> QED BY <2>1 DEF Sums
<1>6. t # {} /\ Picked(t) \in t
    BY <1>4, <1>5 DEF Picked
<1>7. t \ {Picked(t)} \in SUBSET s /\ Cardinality(t \ {Picked(t)}) = m - 1 /\ m - 1 \in Nat
    <2>1. m \in Nat
        BY <1>3
    <2>2. IsFiniteSet(s) /\ t \in SUBSET s
        BY FS_Subset
    <2> HIDE DEF T
    <2>3. \A y \in t : t \ {y} \in SUBSET s /\ Cardinality(t \ {y}) = Cardinality(t) - 1
        BY <2>2, SmallerSet
    <2>4. Cardinality(t) \in Nat /\ Cardinality(t) > 0
        BY <1>6, <2>2, SmallerSet
    <2> QED BY <1>4, <1>6, <2>1, <2>3, <2>4
<1>8. m - 1 \notin T
    BY <1>3, <1>7
<1>9. h[t \ {Picked(t)}] = k[t \ {Picked(t)}]
    BY <1>7, <1>8
<1> QED BY <1>4, <1>5, <1>6, <1>9

-----------------------------------------------------------------------------
(* What is cited: a sum, one element apart from the others.                *)

THEOREM TotalEmpty == \A f : Total(f, {}) = 0
PROOF
<1> TAKE f
<1>1. IsFiniteSet({})
    BY FS_EmptySet
<1>2. Sums(CHOOSE h : Sums(h, f, {}), f, {})
    BY <1>1, SumsExist
<1> QED BY <1>2 DEF Total, Sums

THEOREM TotalSame ==
    ASSUME NEW S, IsFiniteSet(S), NEW f, NEW g, \A x \in S : f[x] \in Int /\ f[x] = g[x]
    PROVE  Total(f, S) = Total(g, S)
PROOF
<1>1. /\ Sums(CHOOSE h : Sums(h, f, S), f, S)
      /\ Sums(CHOOSE h : Sums(h, g, S), g, S)
    BY SumsExist
<1> QED BY <1>1, SameSums DEF Total

THEOREM TotalSplit ==
    ASSUME NEW S, IsFiniteSet(S), NEW f, \A x \in S : f[x] \in Int, NEW x \in S
    PROVE  /\ Total(f, S) = f[x] + Total(f, S \ {x})
           /\ Total(f, S \ {x}) \in Int
PROOF
<1> DEFINE R == S \ {x}
           h == CHOOSE h : Sums(h, f, S)
           k == CHOOSE k : Sums(k, f, R)
<1>1. Sums(h, f, S) /\ \A s \in SUBSET S : h[s] \in Int
    BY SumsExist
<1>2. IsFiniteSet(R)
    BY FS_Subset
<1>3. Sums(k, f, R) /\ \A s \in SUBSET R : k[s] \in Int
    BY <1>2, SumsExist
<1>4. Total(f, S) = h[S] /\ Total(f, R) = k[R]
    BY DEF Total
<1> HIDE DEF h, k
<1>5. h[S] = f[x] + h[R]
    BY <1>1, AnyFirst
<1>6. h[R] = k[R]
    BY <1>1, <1>3, SameSums
<1> QED BY <1>3, <1>4, <1>5, <1>6

THEOREM TotalNat ==
    ASSUME NEW S, IsFiniteSet(S), NEW f, \A x \in S : f[x] \in Nat
    PROVE  Total(f, S) \in Nat
PROOF
<1> DEFINE T == {n \in Nat : \E s \in SUBSET S : Cardinality(s) = n /\ Total(f, s) \notin Nat}
<1>1. \A s \in SUBSET S : IsFiniteSet(s) /\ Cardinality(s) \in Nat
    BY FS_Subset, FS_CardinalityType
<1>2. SUFFICES ASSUME T # {} PROVE FALSE
    BY <1>1
<1>3. PICK m \in T : \A n \in T : m <= n
    BY <1>2, LeastMember
<1>4. PICK s \in SUBSET S : Cardinality(s) = m /\ Total(f, s) \notin Nat
    OBVIOUS
<1>5. PICK x : x \in s
    BY <1>4, TotalEmpty
<1>6. s \ {x} \in SUBSET S /\ Cardinality(s \ {x}) = m - 1 /\ m - 1 \in Nat
    <2>1. m \in Nat
        BY <1>3
    <2> HIDE DEF T
    <2>2. \A y \in s : s \ {y} \in SUBSET S /\ Cardinality(s \ {y}) = Cardinality(s) - 1
        BY SmallerSet
    <2>3. Cardinality(s) \in Nat /\ Cardinality(s) > 0
        BY <1>5, SmallerSet
    <2> QED BY <1>4, <1>5, <2>1, <2>2, <2>3
<1>7. Total(f, s \ {x}) \in Nat
    BY <1>3, <1>6
<1>8. Total(f, s) = f[x] + Total(f, s \ {x})
    <2> HIDE DEF T
    <2>1. IsFiniteSet(s) /\ \A y \in s : f[y] \in Int
        BY <1>1
    <2>2. \A y \in s : Total(f, s) = f[y] + Total(f, s \ {y})
        BY <2>1, TotalSplit
    <2> QED BY <1>5, <2>2
<1>9. f[x] \in Nat
    BY <1>5
<1> QED BY <1>4, <1>7, <1>8, <1>9
=============================================================================
