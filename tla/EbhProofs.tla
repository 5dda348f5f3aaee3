------------------------------ MODULE EbhProofs ------------------------------
(***************************************************************************)
(* What e-BH and the choices made from its result compute, for a family of *)
(* any size: the sorted scan of stats/ebh.py is the set FixLadder reasons  *)
(* with, the set is self-consistent, and a best candidate always exists.   *)
(*                                                                         *)
(* Induction over a family is done with sets: a set of subsets that        *)
(* misses the family has a least missing subset.                           *)
(***************************************************************************)
EXTENDS FixLadderProofs

(* A set of subsets of a finite set that contains {} and every subset all  *)
(* of whose smaller-by-one subsets it contains, contains the set.          *)
LEMMA FiniteSetInduction ==
  ASSUME NEW S, IsFiniteSet(S), NEW P, {} \in P,
         ASSUME NEW T \in SUBSET S, T # {}, \A x \in T : T \ {x} \in P
         PROVE  T \in P
  PROVE  S \in P
<1> DEFINE Missing == (SUBSET S) \ P
<1>1. SUFFICES ASSUME Missing # {} PROVE FALSE
  OBVIOUS
<1>2. Missing \subseteq FiniteSubsetsOf(S)
  BY FS_FiniteSubsetsOfFinite
<1>3. PICK T \in Missing : \A U \in Missing : ~ (<<U, T>> \in StrictSubsetOrdering(S))
  <2> HIDE DEF Missing
  <2> QED BY <1>1, <1>2, FS_StrictSubsetOrderingWellFounded, WFMin
<1>4. ASSUME NEW x \in T PROVE T \ {x} \in P
  <2> DEFINE U == T \ {x}
  <2>1. U \in SUBSET S /\ T \in SUBSET S /\ U \subseteq T /\ U # T
    BY <1>3
  <2>2. <<U, T>> \in StrictSubsetOrdering(S)
    <3> HIDE DEF U
    <3> QED BY <2>1 DEF StrictSubsetOrdering
  <2> QED BY <1>3, <2>1, <2>2
<1> QED BY <1>3, <1>4

(* A total preorder, given as a set of pairs, has a greatest element on    *)
(* every finite set that is not empty.                                     *)
LEMMA Greatest ==
  ASSUME NEW S, IsFiniteSet(S), S # {}, NEW R,
         \A i, j \in S : <<i, j>> \in R \/ <<j, i>> \in R,
         \A i, j, k \in S : <<i, j>> \in R /\ <<j, k>> \in R => <<i, k>> \in R
  PROVE  \E i \in S : \A j \in S : <<j, i>> \in R
<1> DEFINE P == {T \in SUBSET S : T = {} \/ \E i \in T : \A j \in T : <<j, i>> \in R}
<1>1. {} \in P
  OBVIOUS
<1>2. ASSUME NEW T \in SUBSET S, T # {}, \A x \in T : T \ {x} \in P
      PROVE  T \in P
  <2>1. PICK x \in T : TRUE
    BY <1>2
  <2>2. CASE T \ {x} = {}
    BY <2>1, <2>2
  <2>3. CASE T \ {x} # {}
    <3>1. PICK i \in T \ {x} : \A j \in T \ {x} : <<j, i>> \in R
      BY <1>2, <2>1, <2>3
    <3>2. CASE <<x, i>> \in R
      BY <3>1, <3>2
    <3>3. CASE <<i, x>> \in R
      <4>1. \A j \in T : <<j, x>> \in R
        BY <3>1, <3>3
      <4> QED BY <4>1
    <3> QED BY <3>1, <3>2, <3>3
  <2> QED BY <2>2, <2>3
<1> HIDE DEF P
<1>3. S \in P
  BY <1>1, <1>2, FiniteSetInduction
<1> QED BY <1>3 DEF P

(* A set of numbers below a bound has a greatest one.                      *)
LEMMA GreatestNumber ==
  ASSUME NEW n \in Nat, NEW T \in SUBSET (0 .. n), T # {}
  PROVE  \E i \in T : \A j \in T : j <= i
<1> DEFINE R == {p \in T \X T : p[1] <= p[2]}
<1>0. IsFiniteSet(0 .. n)
  BY FS_Interval
<1>1. IsFiniteSet(T)
  BY <1>0, FS_Subset
<1>2. \A i, j \in T : <<i, j>> \in R <=> i <= j
  OBVIOUS
<1>3. \A i \in T : i \in Int
  OBVIOUS
<1> HIDE DEF R
<1>4. /\ \A i, j \in T : <<i, j>> \in R \/ <<j, i>> \in R
      /\ \A i, j, k \in T : <<i, j>> \in R /\ <<j, k>> \in R => <<i, k>> \in R
  BY <1>2, <1>3
<1> QED BY <1>1, <1>2, <1>4, Greatest

(* And a set of numbers that is not empty has a least one.                 *)
LEMMA LeastNumber ==
  ASSUME NEW T \in SUBSET Nat, T # {}
  PROVE  \E i \in T : \A j \in T : i <= j
<1>1. PICK t \in T : TRUE
  OBVIOUS
<1> DEFINE U == T \cap (0 .. t)
           R == {p \in U \X U : p[1] >= p[2]}
<1>2. IsFiniteSet(U) /\ U # {} /\ \A i \in U : i \in Int
  <2>1. U \in SUBSET (0 .. t) /\ t \in U
    BY <1>1
  <2>2. IsFiniteSet(0 .. t)
    BY FS_Interval
  <2>3. IsFiniteSet(U)
    <3> HIDE DEF U
    <3> QED BY <2>1, <2>2, FS_Subset
  <2> QED BY <2>1, <2>3
<1>3. \A i, j \in U : <<i, j>> \in R <=> i >= j
  OBVIOUS
<1> HIDE DEF R
<1>4. PICK i \in U : \A j \in U : <<j, i>> \in R
  <2> HIDE DEF U
  <2>1. /\ \A i, j \in U : <<i, j>> \in R \/ <<j, i>> \in R
        /\ \A i, j, k \in U : <<i, j>> \in R /\ <<j, k>> \in R => <<i, k>> \in R
    BY <1>2, <1>3
  <2> QED BY <1>2, <2>1, Greatest
<1>5. \A j \in U : i <= j
  BY <1>2, <1>3, <1>4
<1>6. ASSUME NEW j \in T PROVE i <= j
  BY <1>1, <1>5, <1>6
<1> QED BY <1>4, <1>6
-----------------------------------------------------------------------------
(* The orders stats/ebh.py may sort a family into.                         *)
Orders(f, S) ==
  {o \in [1 .. Cardinality(S) -> S] :
     /\ \A a, b \in 1 .. Cardinality(S) : o[a] = o[b] => a = b
     /\ \A a \in 1 .. Cardinality(S) - 1 : f[o[a]].e >= f[o[a + 1]].e}

(* Every family can be sorted.                                             *)
LEMMA Sorts ==
  ASSUME NEW f, NEW S, IsFiniteSet(S), \A i \in S : f[i].e \in Int
  PROVE  Orders(f, S) # {}
<1> DEFINE P == {T \in SUBSET S : Orders(f, T) # {}}
<1>1. {} \in P
  <2>1. [k \in 1 .. 0 |-> 0] \in Orders(f, {})
    BY FS_EmptySet DEF Orders
  <2> QED BY <2>1
<1>2. ASSUME NEW T \in SUBSET S, T # {}, \A x \in T : T \ {x} \in P
      PROVE  T \in P
  <2> DEFINE R == {p \in T \X T : f[p[1]].e >= f[p[2]].e}
  <2>1. \A i, j \in T : <<i, j>> \in R <=> f[i].e >= f[j].e
    OBVIOUS
  <2>2. IsFiniteSet(T)
    BY FS_Subset
  <2>3. PICK x \in T : \A j \in T : f[j].e >= f[x].e
    <3> HIDE DEF R
    <3>1. /\ \A i, j \in T : <<i, j>> \in R \/ <<j, i>> \in R
          /\ \A i, j, k \in T : <<i, j>> \in R /\ <<j, k>> \in R => <<i, k>> \in R
      BY <2>1
    <3>2. \E i \in T : \A j \in T : <<j, i>> \in R
      BY <1>2, <2>2, <3>1, Greatest
    <3> QED BY <2>1, <3>2
  <2> DEFINE n == Cardinality(T \ {x})
  <2>4. n \in Nat /\ Cardinality(T) = n + 1
    <3>1. IsFiniteSet(T \ {x})
      BY <2>2, FS_RemoveElement
    <3> QED BY <2>2, <2>3, <3>1, FS_RemoveElement, FS_CardinalityType
  <2>5. PICK o : o \in Orders(f, T \ {x})
    BY <1>2, <2>3
  <2>6. /\ o \in [1 .. n -> T \ {x}]
        /\ \A a, b \in 1 .. n : o[a] = o[b] => a = b
        /\ \A a \in 1 .. n - 1 : f[o[a]].e >= f[o[a + 1]].e
    BY <2>5 DEF Orders
  <2> DEFINE q == [k \in 1 .. n + 1 |-> IF k = n + 1 THEN x ELSE o[k]]
  <2> HIDE DEF n
  <2>7. q \in [1 .. n + 1 -> T]
    BY <2>3, <2>4, <2>6
  <2>8. \A a, b \in 1 .. n + 1 : q[a] = q[b] => a = b
    BY <2>4, <2>6
  <2>9. ASSUME NEW a \in 1 .. n PROVE f[q[a]].e >= f[q[a + 1]].e
    <3>1. CASE a = n
      BY <2>3, <2>4, <2>6, <3>1
    <3>2. CASE a # n
      BY <2>4, <2>6, <3>2
    <3> QED BY <3>1, <3>2
  <2>10. q \in Orders(f, T)
    <3> HIDE DEF q
    <3> QED BY <2>4, <2>7, <2>8, <2>9 DEF Orders
  <2> QED BY <2>10
<1> HIDE DEF P
<1>3. S \in P
  BY <1>1, <1>2, FiniteSetInduction
<1> QED BY <1>3 DEF P

(* A sorted family falls from any place to any later one.                  *)
LEMMA Falls ==
  ASSUME NEW f, NEW S, IsFiniteSet(S), \A i \in S : f[i].e \in Int,
         NEW o \in Orders(f, S), NEW a \in 1 .. Cardinality(S), NEW b \in a .. Cardinality(S)
  PROVE  f[o[a]].e >= f[o[b]].e
<1> DEFINE m   == Cardinality(S)
           Bad == {c \in a .. m : f[o[a]].e < f[o[c]].e}
<1>1. m \in Nat
  BY FS_CardinalityType
<1>2. /\ o \in [1 .. m -> S]
      /\ \A c \in 1 .. m - 1 : f[o[c]].e >= f[o[c + 1]].e
  BY DEF Orders
<1> HIDE DEF m
<1>3. \A c \in 1 .. m : f[o[c]].e \in Int
  BY <1>2
<1>4. SUFFICES ASSUME Bad # {} PROVE FALSE
  BY <1>1, <1>3 DEF m
<1>5. PICK c \in Bad : \A d \in Bad : c <= d
  <2>1. Bad \in SUBSET Nat
    BY <1>1 DEF m
  <2> HIDE DEF Bad
  <2> QED BY <1>4, <2>1, LeastNumber
<1>6. a \in Nat \ {0} /\ a <= m
  BY <1>1 DEF m
<1>7. c # a
  BY <1>3, <1>6, <1>5, <1>1
<1>8. c - 1 \in a .. m /\ c - 1 \notin Bad /\ c \in 1 .. m /\ c - 1 \in 1 .. m - 1
  BY <1>1, <1>5, <1>6, <1>7
<1>9. f[o[a]].e >= f[o[c - 1]].e
  BY <1>3, <1>6, <1>8, <1>1
<1>10. f[o[c - 1]].e >= f[o[c]].e
  <2>1. (c - 1) + 1 = c
    BY <1>8
  <2> QED BY <1>2, <1>8, <2>1
<1>11. f[o[a]].e \in Int /\ f[o[c - 1]].e \in Int /\ f[o[c]].e \in Int
  BY <1>1, <1>3, <1>6, <1>8
<1>12. f[o[a]].e < f[o[c]].e
  BY <1>5
<1> QED BY <1>9, <1>10, <1>11, <1>12

(* A sorted family leaves nobody out.                                      *)
LEMMA Fills ==
  ASSUME NEW f, NEW S, IsFiniteSet(S), NEW o \in Orders(f, S), NEW i \in S
  PROVE  \E a \in 1 .. Cardinality(S) : o[a] = i
<1> DEFINE m == Cardinality(S)
<1>1. m \in Nat
  BY FS_CardinalityType
<1>2. IsFiniteSet(1 .. m) /\ Cardinality(1 .. m) = m
  BY <1>1, FS_Interval
<1>3. o \in Injection(1 .. m, S)
  BY DEF Orders, Injection, IsInjective
<1>4. o \in Surjection(1 .. m, S)
  BY <1>2, <1>3, FS_Injection
<1> QED BY <1>4 DEF Surjection

(* The image of k places holds at most k members, and exactly k when no    *)
(* two places share one.                                                   *)
LEMMA ImageOfPlaces ==
  ASSUME NEW k \in Nat, NEW o
  PROVE  LET I == {o[a] : a \in 1 .. k} IN
           /\ IsFiniteSet(I) /\ Cardinality(I) \in Nat /\ Cardinality(I) <= k
           /\ (\A a, b \in 1 .. k : o[a] = o[b] => a = b) => Cardinality(I) = k
<1> DEFINE I == {o[a] : a \in 1 .. k}
           g == [a \in 1 .. k |-> o[a]]
<1>1. IsFiniteSet(1 .. k) /\ Cardinality(1 .. k) = k
  BY FS_Interval
<1>2. g \in Surjection(1 .. k, I)
  BY DEF Surjection
<1>3. (\A a, b \in 1 .. k : o[a] = o[b] => a = b) => g \in Injection(1 .. k, I)
  BY DEF Injection, IsInjective
<1> HIDE DEF g, I
<1>4. /\ IsFiniteSet(I) /\ Cardinality(I) <= k
      /\ Cardinality(I) = k <=> g \in Injection(1 .. k, I)
  BY <1>1, <1>2, FS_Surjection
<1>5. Cardinality(I) \in Nat
  BY <1>4, FS_CardinalityType
<1> QED BY <1>3, <1>4, <1>5 DEF I

(* k of a family clear the k-th bar exactly if the k-th of the sorted      *)
(* family does.                                                            *)
LEMMA RejectsAt ==
  ASSUME FixAssumption, NEW f, NEW S, IsFiniteSet(S), \A i \in S : f[i].e \in Int,
         NEW o \in Orders(f, S), NEW k \in 1 .. Cardinality(S)
  PROVE  Rejects(f, S, k) <=> f[o[k]].e * k >= Gate * Cardinality(S)
<1> DEFINE m   == Cardinality(S)
           bar == Gate * m
<1>1. m \in Nat /\ k \in Nat \ {0} /\ k <= m /\ bar \in Int
  BY FS_CardinalityType DEF FixAssumption
<1>2. /\ o \in [1 .. m -> S]
      /\ \A a, b \in 1 .. m : o[a] = o[b] => a = b
  BY DEF Orders
<1>3. IsFiniteSet(Clear(f, S, k)) /\ Cardinality(Clear(f, S, k)) \in Nat
  <2>1. Clear(f, S, k) \in SUBSET S
    BY DEF Clear
  <2> QED BY <2>1, FS_Subset, FS_CardinalityType
<1>4. \A i : i \in Clear(f, S, k) <=> i \in S /\ f[i].e * k >= bar
  BY DEF Clear
<1>5. \A a \in 1 .. m : o[a] \in S /\ f[o[a]].e \in Int
  BY <1>2
<1>6. \A a \in 1 .. m, b \in 1 .. m : a <= b => f[o[b]].e * k <= f[o[a]].e * k
  <2> SUFFICES ASSUME NEW a \in 1 .. m, NEW b \in 1 .. m, a <= b
               PROVE  f[o[b]].e * k <= f[o[a]].e * k
    OBVIOUS
  <2>1. b \in a .. m
    OBVIOUS
  <2>2. f[o[b]].e <= f[o[a]].e
    BY <1>5, <2>1, Falls
  <2> QED BY <1>1, <1>5, <2>2, Scale
<1> HIDE DEF bar, m
<1>7. ASSUME f[o[k]].e * k >= bar PROVE Rejects(f, S, k)
  <2> DEFINE I == {o[a] : a \in 1 .. k}
  <2>1. ASSUME NEW a \in 1 .. k PROVE o[a] \in Clear(f, S, k)
    <3>1. a \in 1 .. m /\ k \in 1 .. m /\ a <= k
      BY <1>1
    <3>2. f[o[k]].e * k <= f[o[a]].e * k
      BY <1>6, <3>1
    <3>3. f[o[a]].e * k \in Int /\ f[o[k]].e * k \in Int
      BY <1>1, <1>5, <3>1
    <3> QED BY <1>1, <1>4, <1>5, <1>7, <3>1, <3>2, <3>3
  <2>2. Cardinality(I) = k
    <3>1. \A a, b \in 1 .. k : o[a] = o[b] => a = b
      BY <1>1, <1>2
    <3> QED BY <1>1, <3>1, ImageOfPlaces
  <2>3. I \in SUBSET Clear(f, S, k)
    BY <2>1
  <2> HIDE DEF I
  <2>4. Cardinality(I) <= Cardinality(Clear(f, S, k))
    BY <1>3, <2>3, FS_Subset
  <2> QED BY <1>1, <1>3, <2>2, <2>4 DEF Rejects
<1>8. ASSUME Rejects(f, S, k), ~ (f[o[k]].e * k >= bar) PROVE FALSE
  <2> DEFINE I == {o[a] : a \in 1 .. k - 1}
  <2>1. ASSUME NEW i \in Clear(f, S, k) PROVE i \in I
    <3>1. PICK a \in 1 .. m : o[a] = i
      BY <1>4, Fills DEF m
    <3>2. ~ (k <= a)
      <4>1. SUFFICES ASSUME k <= a PROVE FALSE
        OBVIOUS
      <4>2. f[o[a]].e * k <= f[o[k]].e * k
        BY <1>1, <1>6, <4>1
      <4>3. f[o[a]].e * k \in Int /\ f[o[k]].e * k \in Int /\ f[o[a]].e * k >= bar
        BY <1>1, <1>4, <1>5, <3>1
      <4> QED BY <1>1, <1>8, <4>2, <4>3
    <3> QED BY <1>1, <3>1, <3>2
  <2>2. IsFiniteSet(I) /\ Cardinality(I) \in Nat /\ Cardinality(I) <= k - 1
    <3>1. k - 1 \in Nat
      BY <1>1
    <3> QED BY <3>1, ImageOfPlaces
  <2>3. Clear(f, S, k) \in SUBSET I
    BY <2>1
  <2> HIDE DEF I
  <2>4. Cardinality(Clear(f, S, k)) <= Cardinality(I)
    BY <2>2, <2>3, FS_Subset
  <2> QED BY <1>1, <1>3, <1>8, <2>2, <2>4 DEF Rejects
<1> QED BY <1>7, <1>8 DEF bar, m

(* A bar of some height that a value clears at k it clears at any later    *)
(* place too.                                                              *)
LEMMA ClearsLater ==
  ASSUME NEW x \in Int, NEW bar \in Nat \ {0}, NEW j \in Nat, NEW k \in Nat,
         j <= k, x * j >= bar
  PROVE  x * k >= bar
<1>1. x > 0
  <2>1. SUFFICES ASSUME x <= 0 PROVE FALSE
    OBVIOUS
  <2>2. x * j <= 0 * j
    BY <2>1, Scale
  <2>3. x * j \in Int /\ 0 * j = 0
    OBVIOUS
  <2> QED BY <2>2, <2>3
<1>2. j * x <= k * x
  BY <1>1, Scale
<1>3. x * j = j * x /\ x * k = k * x /\ x * j \in Int /\ x * k \in Int
  OBVIOUS
<1> QED BY <1>2, <1>3

(* stats/ebh.py sorts the family and keeps a prefix of it: that is exactly *)
(* the set of validations that clear a bar which enough of them clear, for *)
(* a family of any size and whatever the order of ties.                    *)
THEOREM ScanIsTheSet ==
  ASSUME FixAssumption, NEW f, NEW S, IsFiniteSet(S), \A i \in S : f[i].e \in Int
  PROVE  ebhLoop(f, S) = ebh(f, S)
<1> DEFINE m      == Cardinality(S)
           bar    == Gate * m
           order  == CHOOSE o \in Orders(f, S) : TRUE
           clears == {k \in 1 .. m : f[order[k]].e * k >= bar}
           k_star == CHOOSE k \in clears \cup {0} : \A j \in clears : j <= k
<1>1. ebhLoop(f, S) = {order[k] : k \in 1 .. k_star}
  BY DEF ebhLoop, Orders
<1>2. order \in Orders(f, S)
  BY Sorts
<1>3. m \in Nat /\ bar \in Int
  BY FS_CardinalityType DEF FixAssumption
<1>4. k_star \in clears \cup {0} /\ \A j \in clears : j <= k_star
  <2>1. clears \cup {0} \in SUBSET (0 .. m)
    BY <1>3
  <2> HIDE DEF clears
  <2>2. \E k \in clears \cup {0} : \A j \in clears : j <= k
    BY <1>3, <2>1, GreatestNumber
  <2> QED BY <2>2
<1>5. \A a \in 1 .. m : order[a] \in S /\ f[order[a]].e \in Int
  BY <1>2 DEF Orders
<1> HIDE DEF order, k_star
<1>6. \A k \in 1 .. m : Rejects(f, S, k) <=> k \in clears
  BY <1>2, RejectsAt
<1>7. \A k \in clears : k \in 1 .. m /\ f[order[k]].e * k >= bar
  OBVIOUS
<1>8. ASSUME NEW a \in 1 .. k_star PROVE order[a] \in ebh(f, S)
  <2>1. k_star \in clears /\ k_star \in 1 .. m /\ a \in 1 .. m /\ k_star \in a .. m
    BY <1>3, <1>4
  <2>2. Rejects(f, S, k_star)
    BY <1>6, <2>1
  <2>3. f[order[k_star]].e <= f[order[a]].e
    BY <1>2, <1>5, <2>1, Falls
  <2>4. f[order[k_star]].e * k_star <= f[order[a]].e * k_star
    BY <1>5, <2>1, <2>3, Scale
  <2>5. f[order[k_star]].e * k_star >= bar
    BY <2>1
  <2>6. f[order[a]].e * k_star \in Int /\ f[order[k_star]].e * k_star \in Int
    BY <1>5, <2>1
  <2>7. f[order[a]].e * k_star >= bar
    <3> HIDE DEF bar, m
    <3> QED BY <1>3, <2>4, <2>5, <2>6
  <2>8. order[a] \in Clear(f, S, k_star)
    BY <1>5, <2>1, <2>7 DEF Clear
  <2> QED BY <1>5, <2>1, <2>2, <2>8 DEF ebh
<1>9. ASSUME NEW i \in ebh(f, S) PROVE \E a \in 1 .. k_star : order[a] = i
  <2>1. PICK k \in 1 .. m : Rejects(f, S, k) /\ i \in Clear(f, S, k)
    BY DEF ebh
  <2>2. k \in clears /\ k <= k_star /\ i \in S
    BY <1>4, <1>6, <2>1 DEF ebh
  <2>3. PICK a \in 1 .. m : order[a] = i
    BY <1>2, <2>2, Fills
  <2>4. f[i].e \in Int /\ f[i].e * k >= bar
    BY <2>1, <2>2 DEF Clear
  <2>5. CASE a <= k
    BY <1>3, <1>4, <2>2, <2>3, <2>5
  <2>6. CASE k <= a
    <3>1. bar \in Nat \ {0}
      <4>1. m \in Nat \ {0} /\ Gate \in Nat \ {0}
        BY <1>3, <2>1 DEF FixAssumption
      <4>2. 0 * m < Gate * m
        BY <4>1, StrictScale
      <4>3. 0 * m = 0
        BY <1>3
      <4> QED BY <1>3, <4>2, <4>3
    <3>2. f[i].e * a >= bar
      <4>1. k \in Nat /\ a \in Nat
        BY <1>3
      <4> HIDE DEF bar
      <4> QED BY <2>4, <2>6, <3>1, <4>1, ClearsLater
    <3>3. a \in clears
      BY <2>3, <3>2
    <3> QED BY <1>3, <1>4, <2>3, <3>3
  <2> QED BY <1>3, <2>5, <2>6
<1> QED BY <1>1, <1>8, <1>9

(* On every family a call forms, EbhIsTheLoop: what run_fix and the agent  *)
(* certify by scanning is the set, for any ladder and any results.         *)
THEOREM ScansAreTheSet == Spec => []EbhIsTheLoop
<1>1. TypeOK => EbhIsTheLoop
  <2> SUFFICES ASSUME TypeOK,
                      NEW S \in {Tested(attempted, Family), Tested(attempted, DOMAIN attempted)}
               PROVE  ebh(attempted, S) = ebhLoop(attempted, S)
    BY DEF EbhIsTheLoop
  <2>1. attempted \in Seq(Validation) /\ from \in Nat
    BY DEF TypeOK
  <2>2. S \in SUBSET (1 .. Len(attempted))
    BY <2>1 DEF Tested, Family
  <2>3. IsFiniteSet(S)
    <3>1. IsFiniteSet(1 .. Len(attempted))
      BY <2>1, FS_Interval
    <3> QED BY <2>2, <3>1, FS_Subset
  <2>4. ASSUME NEW i \in S PROVE attempted[i].e \in Int
    <3>1. attempted[i] \in Validation
      BY <2>1, <2>2
    <3> QED BY <3>1 DEF Validation
  <2> QED BY <2>3, <2>4, FixAssumption, ScanIsTheSet
<1> QED BY <1>1, Typing, PTL
-----------------------------------------------------------------------------
(* What makes e-BH control its false discoveries: every survivor's e-value *)
(* pays for all the survivors, e * |survivors| >= Gate * |family|, and no  *)
(* other set of validations of which that is true has more to it.          *)
THEOREM SurvivorsPayForAll ==
  ASSUME FixAssumption, NEW f, NEW S, IsFiniteSet(S), \A i \in S : f[i].e \in Int
  PROVE  /\ \A i \in ebh(f, S) : f[i].e * Cardinality(ebh(f, S)) >= Gate * Cardinality(S)
         /\ \A T \in SUBSET S :
              (\A i \in T : f[i].e * Cardinality(T) >= Gate * Cardinality(S))
              => T \subseteq ebh(f, S)
<1> DEFINE m   == Cardinality(S)
           bar == Gate * m
           E   == ebh(f, S)
<1>1. m \in Nat /\ Gate \in Nat \ {0}
  BY FS_CardinalityType DEF FixAssumption
<1>2. E \in SUBSET S
  BY DEF ebh
<1>3. IsFiniteSet(E) /\ Cardinality(E) \in Nat
  BY <1>2, FS_Subset, FS_CardinalityType
<1>4. ASSUME NEW i \in E PROVE f[i].e * Cardinality(E) >= bar
  <2>1. PICK k \in 1 .. m : Rejects(f, S, k) /\ i \in Clear(f, S, k)
    BY DEF ebh
  <2>2. Clear(f, S, k) \in SUBSET E
    BY <2>1 DEF ebh, Clear
  <2>3. k <= Cardinality(E) /\ k \in Nat
    <3> HIDE DEF E
    <3>1. IsFiniteSet(Clear(f, S, k)) /\ Cardinality(Clear(f, S, k)) <= Cardinality(E)
      BY <1>3, <2>2, FS_Subset
    <3>2. Cardinality(Clear(f, S, k)) \in Nat
      BY <3>1, FS_CardinalityType
    <3> QED BY <1>1, <1>3, <2>1, <3>1, <3>2 DEF Rejects
  <2>4. f[i].e \in Int /\ f[i].e * k >= bar
    BY <2>1 DEF Clear
  <2>5. bar \in Nat \ {0}
    <3>1. m \in Nat \ {0}
      BY <1>1, <2>1
    <3>2. 0 * m < Gate * m
      BY <1>1, <3>1, StrictScale
    <3>3. 0 * m = 0 /\ Gate * m \in Int
      BY <1>1
    <3> QED BY <3>2, <3>3
  <2> HIDE DEF bar, E
  <2> QED BY <1>3, <2>3, <2>4, <2>5, ClearsLater
<1>5. ASSUME NEW T \in SUBSET S, \A i \in T : f[i].e * Cardinality(T) >= bar, NEW i \in T
      PROVE  i \in E
  <2> DEFINE k == Cardinality(T)
  <2>1. IsFiniteSet(T) /\ k \in Nat /\ k <= m
    BY <1>1, FS_Subset, FS_CardinalityType
  <2>2. k # 0
    BY <1>5, <2>1, FS_EmptySet
  <2>3. T \in SUBSET Clear(f, S, k) /\ IsFiniteSet(Clear(f, S, k))
    <3>1. Clear(f, S, k) \in SUBSET S
      BY DEF Clear
    <3>2. IsFiniteSet(Clear(f, S, k))
      BY <3>1, FS_Subset
    <3> QED BY <1>5, <3>2 DEF Clear
  <2>4. Cardinality(Clear(f, S, k)) >= k
    <3> HIDE DEF k
    <3>1. Cardinality(T) <= Cardinality(Clear(f, S, k))
      BY <2>3, FS_Subset
    <3>2. Cardinality(Clear(f, S, k)) \in Nat
      BY <2>3, FS_CardinalityType
    <3> QED BY <2>1, <3>1, <3>2 DEF k
  <2> QED BY <1>1, <1>5, <2>1, <2>2, <2>3, <2>4 DEF ebh, Rejects
<1> QED BY <1>4, <1>5

(* More evidence never costs anybody: if no validation of the family has   *)
(* less of it, whoever survived still does.                                *)
THEOREM MoreEvidenceKeeps ==
  ASSUME FixAssumption, NEW f, NEW g, NEW S, IsFiniteSet(S),
         \A i \in S : f[i].e \in Int /\ g[i].e \in Int /\ f[i].e <= g[i].e
  PROVE  ebh(f, S) \subseteq ebh(g, S)
<1> DEFINE E == ebh(f, S)
<1>1. E \in SUBSET S
  BY DEF ebh
<1>2. IsFiniteSet(E) /\ Cardinality(E) \in Nat
  BY <1>1, FS_Subset, FS_CardinalityType
<1>3. Gate * Cardinality(S) \in Int
  BY FS_CardinalityType DEF FixAssumption
<1>4. ASSUME NEW i \in E PROVE g[i].e * Cardinality(E) >= Gate * Cardinality(S)
  <2>1. f[i].e * Cardinality(E) >= Gate * Cardinality(S)
    BY SurvivorsPayForAll
  <2> HIDE DEF E
  <2>2. f[i].e \in Int /\ g[i].e \in Int /\ f[i].e <= g[i].e
    BY <1>1
  <2>3. f[i].e * Cardinality(E) <= g[i].e * Cardinality(E)
    BY <1>2, <2>2, Scale
  <2>4. f[i].e * Cardinality(E) \in Int /\ g[i].e * Cardinality(E) \in Int
    BY <1>2, <2>2
  <2> QED BY <1>3, <2>1, <2>3, <2>4
<1> QED BY <1>1, <1>4, SurvivorsPayForAll

(* So a repair reported as fixed without a final partition carries         *)
(* evidence enough for everything its call tried, of every tier, divided   *)
(* by the number of survivors.                                             *)
PaysForTheSearch ==
  pc = "idle" /\ outcome.best # 0 /\ ~ held =>
    LET tried    == Tested(attempted, DOMAIN attempted)
        survived == ebh(attempted, tried) IN
      attempted[outcome.best].e * Cardinality(survived) >= Gate * Cardinality(tried)

(* PaysForTheSearch holds of every call of run_fix, for any ladder.        *)
THEOREM FixesPayForTheSearch == Spec => []PaysForTheSearch
<1>1. TypeOK /\ CertifiedByFamily => PaysForTheSearch
  <2> DEFINE tried == Tested(attempted, DOMAIN attempted)
  <2> SUFFICES ASSUME TypeOK, CertifiedByFamily, pc = "idle", outcome.best # 0, ~ held
               PROVE  attempted[outcome.best].e * Cardinality(ebh(attempted, tried))
                        >= Gate * Cardinality(tried)
    BY DEF PaysForTheSearch
  <2>1. outcome.best \in ebh(attempted, tried)
    BY DEF CertifiedByFamily
  <2>2. attempted \in Seq(Validation) /\ tried \in SUBSET (1 .. Len(attempted))
    BY DEF TypeOK, Tested
  <2>3. IsFiniteSet(tried)
    <3>1. IsFiniteSet(1 .. Len(attempted))
      BY <2>2, FS_Interval
    <3> HIDE DEF tried
    <3> QED BY <2>2, <3>1, FS_Subset
  <2> HIDE DEF tried
  <2>4. ASSUME NEW i \in tried PROVE attempted[i].e \in Int
    <3>1. attempted[i] \in Validation
      BY <2>2
    <3> QED BY <3>1 DEF Validation
  <2> QED BY <2>1, <2>3, <2>4, FixAssumption, SurvivorsPayForAll
<1> QED BY <1>1, Typing, FixesAreCertified, PTL
-----------------------------------------------------------------------------
(* The effects gain/pairs are compared crosswise; with at least one pair   *)
(* each that is an order.                                                  *)
LEMMA Crosswise ==
  ASSUME NEW a \in Int, NEW b \in Int, NEW c \in Int,
         NEW p \in Nat \ {0}, NEW q \in Nat \ {0}, NEW r \in Nat \ {0},
         a * q <= b * p, b * r <= c * q
  PROVE  a * r <= c * p
<1>1. (a * q) * r <= (b * p) * r /\ (b * r) * p <= (c * q) * p
  <2>1. a * q \in Int /\ b * p \in Int /\ b * r \in Int /\ c * q \in Int
    OBVIOUS
  <2> QED BY <2>1, Scale
<1>2. (b * p) * r = (b * r) * p
  OBVIOUS
<1>3. (a * q) * r = (a * r) * q /\ (c * q) * p = (c * p) * q
  OBVIOUS
<1>4. (a * r) * q <= (c * p) * q
  <2>1. (a * q) * r \in Int /\ (b * p) * r \in Int /\ (c * q) * p \in Int
    OBVIOUS
  <2> QED BY <1>1, <1>2, <1>3, <2>1
<1>5. a * r \in Int /\ c * p \in Int
  OBVIOUS
<1>6. ~ (c * p < a * r)
  <2>1. SUFFICES ASSUME c * p < a * r PROVE FALSE
    OBVIOUS
  <2>2. (c * p) * q < (a * r) * q
    BY <1>5, <2>1, StrictScale
  <2>3. (c * p) * q \in Int /\ (a * r) * q \in Int
    OBVIOUS
  <2> QED BY <1>4, <2>2, <2>3
<1> QED BY <1>5, <1>6

(* Among winners there is a best one: a call with a winner returns one.    *)
THEOREM BestExists ==
  ASSUME NEW f, NEW W, IsFiniteSet(W), W # {},
         \A i \in W : f[i].gain \in Int /\ f[i].pairs \in Nat \ {0}
  PROVE  Best(f, W) # {}
<1> DEFINE R == {p \in W \X W : f[p[1]].gain * f[p[2]].pairs <= f[p[2]].gain * f[p[1]].pairs}
<1>1. \A i, j \in W : <<i, j>> \in R <=> f[i].gain * f[j].pairs <= f[j].gain * f[i].pairs
  OBVIOUS
<1> HIDE DEF R
<1>2. ASSUME NEW i \in W, NEW j \in W PROVE <<i, j>> \in R \/ <<j, i>> \in R
  <2>1. f[i].gain * f[j].pairs \in Int /\ f[j].gain * f[i].pairs \in Int
    OBVIOUS
  <2> QED BY <1>1, <2>1
<1>3. ASSUME NEW i \in W, NEW j \in W, NEW k \in W, <<i, j>> \in R, <<j, k>> \in R
      PROVE  <<i, k>> \in R
  <2>1. /\ f[i].gain * f[j].pairs <= f[j].gain * f[i].pairs
        /\ f[j].gain * f[k].pairs <= f[k].gain * f[j].pairs
    BY <1>1, <1>3
  <2>2. f[i].gain * f[k].pairs <= f[k].gain * f[i].pairs
    BY <2>1, Crosswise
  <2> QED BY <1>1, <2>2
<1>4. PICK i \in W : \A j \in W : <<j, i>> \in R
  BY <1>2, <1>3, Greatest
<1>5. ASSUME NEW j \in W PROVE f[i].gain * f[j].pairs >= f[j].gain * f[i].pairs
  <2>1. f[j].gain * f[i].pairs <= f[i].gain * f[j].pairs
    BY <1>1, <1>4
  <2>2. f[i].gain * f[j].pairs \in Int /\ f[j].gain * f[i].pairs \in Int
    OBVIOUS
  <2> QED BY <2>1, <2>2
<1> QED BY <1>5 DEF Best

(* The development ranking is a strict order of the statistics.            *)
LEMMA AboveIsAnOrder ==
  ASSUME NEW v, NEW w, NEW x,
         \A y \in {v, w, x} :
           y.e \in Int /\ y.gain \in Int /\ y.pairs \in Int /\ y.tier \in Int
  PROVE  /\ ~ (Above(v, w) /\ Above(w, v))
         /\ ~ Above(v, w) /\ ~ Above(w, x) => ~ Above(v, x)
  BY DEF Above

(* The held-out path leaves the final partition unread only if no          *)
(* validation improved on development: wherever one improves, one of the   *)
(* supported is selected, whatever the support floor.                      *)
THEOREM AnyImprovementIsSelected ==
  ASSUME FixAssumption, NEW f \in Seq(Validation)
  PROVE  Selected(f) = {} <=> Improving(f) = {}
<1> DEFINE I == Improving(f)
           S == Supported(f)
<1>1. Selected(f) \subseteq S /\ S \subseteq I /\ I \in SUBSET (1 .. Len(f))
  BY DEF Selected, Supported, Improving
<1>2. IsFiniteSet(I) /\ IsFiniteSet(S)
  <2>1. IsFiniteSet(1 .. Len(f))
    BY FS_Interval
  <2>2. S \in SUBSET (1 .. Len(f))
    BY <1>1
  <2> HIDE DEF I, S
  <2> QED BY <1>1, <2>1, <2>2, FS_Subset
<1>3. ASSUME NEW i \in I PROVE f[i] \in Validation
  BY <1>1
<1>4. \A i \in I : /\ f[i].e \in Int /\ f[i].gain \in Int /\ f[i].pairs \in Nat
                   /\ f[i].tier \in Int
  <2>1. Tiers \subseteq Int
    BY DEF Tiers, L4, FixAssumption
  <2> QED BY <1>3, <2>1 DEF Validation
<1>5. ASSUME I # {} PROVE S # {}
  <2> DEFINE R == {p \in I \X I : f[p[1]].pairs <= f[p[2]].pairs}
  <2>1. \A i, j \in I : <<i, j>> \in R <=> f[i].pairs <= f[j].pairs
    OBVIOUS
  <2> HIDE DEF R
  <2>2. PICK i \in I : \A j \in I : <<j, i>> \in R
    <3> HIDE DEF I
    <3>0. \A i \in I : f[i].pairs \in Int
      BY <1>4
    <3>1. ASSUME NEW i \in I, NEW j \in I PROVE <<i, j>> \in R \/ <<j, i>> \in R
      <4>1. f[i].pairs <= f[j].pairs \/ f[j].pairs <= f[i].pairs
        BY <3>0
      <4> QED BY <2>1, <4>1
    <3>2. ASSUME NEW i \in I, NEW j \in I, NEW k \in I, <<i, j>> \in R, <<j, k>> \in R
          PROVE  <<i, k>> \in R
      <4>1. f[i].pairs <= f[j].pairs /\ f[j].pairs <= f[k].pairs
        BY <2>1, <3>2
      <4>2. f[i].pairs <= f[k].pairs
        BY <3>0, <4>1
      <4> QED BY <2>1, <4>2
    <3> QED BY <1>2, <1>5, <3>1, <3>2, Greatest
  <2>3. \A j \in I : f[i].pairs >= f[j].pairs
    BY <1>4, <2>1, <2>2
  <2>4. SupportFloor \in Nat
    BY DEF FixAssumption
  <2>5. f[i].pairs >= SupportFloor \/ \A j \in I : f[j].pairs < SupportFloor
    BY <1>4, <2>3, <2>4
  <2>6. i \in S
    BY <2>3, <2>5 DEF Supported
  <2> QED BY <2>6
<1>6. ASSUME S # {} PROVE Selected(f) # {}
  <2> DEFINE R == {p \in S \X S : ~ Above(f[p[1]], f[p[2]])}
  <2>1. \A i, j \in S : <<i, j>> \in R <=> ~ Above(f[i], f[j])
    OBVIOUS
  <2>2. \A i \in S : /\ f[i].e \in Int /\ f[i].gain \in Int /\ f[i].pairs \in Int
                     /\ f[i].tier \in Int
    BY <1>1, <1>4
  <2> HIDE DEF R, S
  <2>3. PICK i \in S : \A j \in S : <<j, i>> \in R
    <3>1. ASSUME NEW i \in S, NEW j \in S PROVE <<i, j>> \in R \/ <<j, i>> \in R
      BY <2>1, <2>2, AboveIsAnOrder
    <3>2. ASSUME NEW i \in S, NEW j \in S, NEW k \in S, <<i, j>> \in R, <<j, k>> \in R
          PROVE  <<i, k>> \in R
      <4>1. ~ Above(f[i], f[j]) /\ ~ Above(f[j], f[k])
        BY <2>1, <3>2
      <4> QED BY <2>1, <2>2, <4>1, AboveIsAnOrder
    <3> QED BY <1>2, <1>6, <3>1, <3>2, Greatest
  <2>4. i \in Selected(f)
    BY <2>1, <2>3 DEF Selected, S
  <2> QED BY <2>4
<1> QED BY <1>1, <1>5, <1>6

(* FixAgent.propose's held-out path leaves without reading the final       *)
(* partition only when nothing it tried improved on development: from      *)
(* "select" a call goes idle in no other case.                             *)
FinalSparedOnlyIfIdle ==
  [][pc = "select" /\ pc' = "idle" => Improving(attempted) = {}]_vars

(* For every ladder and every result, an improvement found on the          *)
(* development cases reaches the final partition.                          *)
THEOREM ImprovementsAreConfirmed == Spec => FinalSparedOnlyIfIdle
<1>1. ASSUME TypeOK, [Next]_vars, pc = "select", pc' = "idle"
      PROVE  Improving(attempted) = {} \/ UNCHANGED vars
  <2>1. CASE UNCHANGED vars
    BY <2>1
  <2>2. CASE Next
    <3>1. Selected(attempted) = {}
      BY <1>1, <2>2 DEF Next, Skip, SingleCall, LadderCall, Search, OpenRung, Validate,
         NextRound, CloseFamily, LadderEnds, Close, Merge, Select, NoneSelected, Confirm, Abandon
    <3>2. attempted \in Seq(Validation)
      BY <1>1 DEF TypeOK
    <3> QED BY <3>1, <3>2, FixAssumption, AnyImprovementIsSelected
  <2> QED BY <1>1, <2>1, <2>2
<1>2. TypeOK /\ [Next]_vars => [pc = "select" /\ pc' = "idle" => Improving(attempted) = {}]_vars
  BY <1>1
<1> QED BY <1>2, Typing, PTL DEF Spec, FinalSparedOnlyIfIdle
=============================================================================
