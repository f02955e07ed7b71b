----------------------------- MODULE Induction ------------------------------
(***************************************************************************)
(* Least elements, induction and recursion over an interval of naturals,   *)
(* stated with sets and functions: for what is left by a loop              *)
(* that searches, and for the recursive functions of the modules.          *)
(***************************************************************************)
EXTENDS Integers, FiniteSetTheorems, WellFoundedInduction, TLAPS

(* A set of naturals below m has a least element. *)
LEMMA LeastOf ==
  ASSUME NEW m \in Nat, NEW T, T \subseteq 0..m, T # {}
  PROVE  \E k \in T : \A j \in T : k <= j
<1> DEFINE Below == {0..k : k \in T}
           R     == StrictSubsetOrdering(0..m)
<1>1. IsFiniteSet(0..m)
  BY FS_Interval
<1>2. IsWellFoundedOn(R, FiniteSubsetsOf(0..m))
  BY FS_StrictSubsetOrderingWellFounded
<1>3. Below \subseteq FiniteSubsetsOf(0..m) /\ Below # {}
  <2>1. \A k \in T : 0..k \in SUBSET (0..m)
    OBVIOUS
  <2>2. \A k \in T : IsFiniteSet(0..k)
    BY <1>1, <2>1, FS_Subset
  <2> QED BY <2>1, <2>2 DEF FiniteSubsetsOf
<1> HIDE DEF R, Below
<1>4. PICK b \in Below : \A a \in Below : <<a, b>> \notin R
  BY <1>2, <1>3, WFMin
<1>5. PICK k \in T : b = 0..k
  BY DEF Below
<1>6. ASSUME NEW j \in T, j < k PROVE FALSE
  <2>1. 0..j \in Below
    BY DEF Below
  <2>2. 0..j \in SUBSET (0..m) /\ 0..k \in SUBSET (0..m)
    BY <1>3, <1>5, <2>1 DEF FiniteSubsetsOf
  <2>3. j \in Nat /\ k \in Nat
    OBVIOUS
  <2>4. 0..j \subseteq 0..k /\ k \in 0..k /\ k \notin 0..j
    BY <1>6, <2>3
  <2>5. 0..j # 0..k
    BY <2>4
  <2>6. <<0..j, 0..k>> \in R
    BY <2>2, <2>4, <2>5, Zenon DEF R, StrictSubsetOrdering
  <2> QED BY <1>4, <1>5, <2>1, <2>6
<1>7. \A j \in T : j \in Nat /\ k \in Nat
  OBVIOUS
<1> QED BY <1>6, <1>7

(* Induction: a set that has zero and with a natural the next one. *)
LEMMA Inductive ==
  ASSUME NEW S, 0 \in S, \A n \in Nat : n \in S => n + 1 \in S
  PROVE  \A n \in Nat : n \in S
<1> SUFFICES ASSUME NEW n \in Nat, n \notin S PROVE FALSE
  OBVIOUS
<1> DEFINE T == {k \in 0..n : k \notin S}
<1>1. T \subseteq 0..n /\ T # {}
  OBVIOUS
<1>2. PICK k \in T : \A j \in T : k <= j
  BY <1>1, LeastOf
<1>3. k # 0 /\ k \in Nat /\ k <= n /\ k \notin S
  OBVIOUS
<1>4. k - 1 \in Nat /\ k - 1 \in 0..n /\ ~(k <= k - 1) /\ (k - 1) + 1 = k
  BY <1>3
<1>5. k - 1 \in S
  BY <1>2, <1>4
<1> QED BY <1>3, <1>4, <1>5

(* Induction over an interval. *)
LEMMA InductiveBelow ==
  ASSUME NEW m \in Int, NEW S, 0 \in S,
         \A n \in 1..m : n - 1 \in S => n \in S
  PROVE  \A n \in 0..m : n \in S
<1> DEFINE T == {n \in Nat : n <= m => n \in S}
<1>1. 0 \in T
  OBVIOUS
<1>2. ASSUME NEW n \in Nat, n \in T PROVE n + 1 \in T
  <2> SUFFICES ASSUME n + 1 <= m PROVE n + 1 \in S
    OBVIOUS
  <2>1. n + 1 \in 1..m /\ (n + 1) - 1 = n /\ n <= m
    OBVIOUS
  <2> QED BY <1>2, <2>1
<1> HIDE DEF T
<1>3. \A n \in Nat : n \in T
  BY <1>1, <1>2, Inductive
<1> QED BY <1>3 DEF T

(* g has a value in A for every place of an interval, each made from the one
   before. *)
Recursion(g, m, A, start, step) ==
  /\ g = [n \in 0..m |-> g[n]]
  /\ g[0] = start
  /\ \A n \in 1..m : g[n] = step[<<g[n - 1], n>>]
  /\ \A n \in 0..m : g[n] \in A

LEMMA RecursionExists ==
  ASSUME NEW m \in Nat, NEW A, NEW start \in A, NEW step,
         \A a \in A, n \in 1..m : step[<<a, n>>] \in A
  PROVE  \E g : Recursion(g, m, A, start, step)
<1> DEFINE Made(g, k) == Recursion(g, k, A, start, step)
           S == {k \in 0..m : \E g : Made(g, k)}
<1>1. 0 \in S
  <2> DEFINE g == [n \in 0..0 |-> start]
  <2>1. Made(g, 0)
    BY DEF Recursion
  <2>2. 0 \in 0..m
    OBVIOUS
  <2> HIDE DEF Made, g
  <2> QED BY <2>1, <2>2
<1>2. ASSUME NEW k \in 1..m, k - 1 \in S PROVE k \in S
  <2>1. PICK g : Made(g, k - 1)
    BY <1>2
  <2> DEFINE h == [n \in 0..k |-> IF n = k THEN step[<<g[k - 1], k>>] ELSE g[n]]
  <2>2. g[k - 1] \in A
    BY <2>1 DEF Recursion
  <2>3. step[<<g[k - 1], k>>] \in A
    BY <2>2
  <2>4. \A n \in 0..(k - 1) : h[n] = g[n]
    OBVIOUS
  <2>5. h[k] = step[<<g[k - 1], k>>] /\ h = [n \in 0..k |-> h[n]]
    OBVIOUS
  <2> HIDE DEF h
  <2>6. h[0] = start
    BY <2>1, <2>4 DEF Recursion
  <2>7. \A n \in 0..k : h[n] \in A
    <3> SUFFICES ASSUME NEW n \in 0..k PROVE h[n] \in A
      OBVIOUS
    <3>1. CASE n = k
      BY <2>3, <2>5, <3>1
    <3>2. CASE n # k
      <4>1. n \in 0..(k - 1)
        BY <3>2
      <4> QED BY <2>1, <2>4, <4>1 DEF Recursion
    <3> QED BY <3>1, <3>2
  <2>8. ASSUME NEW n \in 1..k PROVE h[n] = step[<<h[n - 1], n>>]
    <3>1. h[n - 1] = g[n - 1]
      BY <2>4
    <3>2. CASE n = k
      BY <2>5, <3>1, <3>2
    <3>3. CASE n # k
      BY <2>1, <2>4, <3>1, <3>3 DEF Recursion
    <3> QED BY <3>2, <3>3
  <2>9. Made(h, k)
    BY <2>5, <2>6, <2>7, <2>8 DEF Recursion
  <2> HIDE DEF Made
  <2> QED BY <2>9
<1> HIDE DEF S
<1>3. \A k \in 0..m : k \in S
  BY <1>1, <1>2, InductiveBelow
<1>4. m \in S
  BY <1>3
<1> QED BY <1>4 DEF S
=============================================================================
