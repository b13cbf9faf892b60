------------------------------ MODULE Induction ------------------------------
(***************************************************************************)
(* Induction over the natural numbers in the form of facts about sets, and *)
(* what it says of a function that is defined by recursion.                *)
(***************************************************************************)
EXTENDS Naturals, WellFoundedInduction, TLAPS

Precedes == {p \in Nat \X Nat : p[1] < p[2]}

LEMMA PrecedesWellFounded == IsWellFoundedOn(Precedes, Nat)
BY NatLessThanWellFounded, Zenon DEF OpToRel, Precedes

LEMMA MinimalElement ==
  ASSUME NEW R, NEW S, IsWellFoundedOn(R, S), NEW T, T \subseteq S, T # {}
  PROVE  \E m \in T : \A k \in T : ~(<<k, m>> \in R)
BY WFMin, SMT

\* A set of natural numbers that is not empty has a least element.
LEMMA LeastNumber ==
  ASSUME NEW T \in SUBSET Nat, T # {}
  PROVE  \E m \in T : \A k \in T : m <= k
<1>1. PICK m \in T : \A k \in T : ~(<<k, m>> \in Precedes)
  BY PrecedesWellFounded, MinimalElement
<1>2. ASSUME NEW k \in T PROVE m <= k
  <2>1. <<k, m>> \in Nat \X Nat => ~(k < m)
    BY <1>1, SMT DEF Precedes
  <2> QED
    BY <2>1, SMT
<1> QED
  BY <1>2

\* A set with 0 in it, and with every number the next one, has them all.
LEMMA FromZero ==
  ASSUME NEW T, 0 \in T, \A n \in Nat : n \in T => n + 1 \in T
  PROVE  Nat \subseteq T
<1> SUFFICES ASSUME Nat \ T # {} PROVE FALSE
  OBVIOUS
<1>1. PICK m \in Nat \ T : \A k \in Nat \ T : m <= k
  BY LeastNumber
<1>2. m - 1 \in T
  BY <1>1
<1> QED
  BY <1>1, <1>2

\* The same between two bounds.
LEMMA FromTo ==
  ASSUME NEW a \in Nat, NEW b \in Nat, NEW T, a \in T,
         \A n \in a..b : n \in T /\ n < b => n + 1 \in T
  PROVE  a..b \subseteq T
<1> DEFINE U == {n \in Nat : a + n <= b => a + n \in T}
<1>1. 0 \in U
  OBVIOUS
<1>2. ASSUME NEW n \in Nat, n \in U PROVE n + 1 \in U
  BY <1>2
<1>3. Nat \subseteq U
  <2> HIDE DEF U
  <2> QED
    BY <1>1, <1>2, FromZero
<1>4. ASSUME NEW k \in a..b PROVE k \in T
  <2>1. k - a \in U
    BY <1>3
  <2> QED
    BY <2>1
<1> QED
  BY <1>4

\* The functions on 0..N that begin with first and go on with F: what a
\* definition g[n \in 0..N] == IF n = 0 THEN first ELSE F[<<g[n - 1], n>>] is.
Recursive(S, first, N, F) ==
  {g \in [0..N -> S] : /\ g[0] = first
                       /\ \A n \in 1..N : g[n] = F[<<g[n - 1], n>>]}

\* There is one.
LEMMA Recursion ==
  ASSUME NEW S, NEW first \in S, NEW N \in Nat, NEW F \in [S \X (1..N) -> S]
  PROVE  Recursive(S, first, N, F) # {}
<1> DEFINE Upto(k) == {g \in [0..k -> S] :
                        /\ g[0] = first
                        /\ \A n \in 1..k : g[n] = F[<<g[n - 1], n>>]}
           T == {k \in 0..N : Upto(k) # {}}
<1>1. 0 \in T
  <2>1. [n \in 0..0 |-> first] \in Upto(0)
    OBVIOUS
  <2> QED
    BY <2>1
<1>2. ASSUME NEW k \in 0..N, k \in T, k < N PROVE k + 1 \in T
  <2>1. PICK g \in [0..k -> S] :
          /\ g[0] = first
          /\ \A n \in 1..k : g[n] = F[<<g[n - 1], n>>]
    BY <1>2
  <2> DEFINE h == [n \in 0..k + 1 |-> IF n <= k THEN g[n]
                                      ELSE F[<<g[k], k + 1>>]]
  <2>2. <<g[k], k + 1>> \in S \X (1..N)
    BY <1>2, <2>1
  <2>3. h \in [0..k + 1 -> S]
    BY <2>1, <2>2
  <2>4. h[0] = first
    BY <2>1
  <2>5. ASSUME NEW n \in 1..k + 1 PROVE h[n] = F[<<h[n - 1], n>>]
    <3>1. CASE n \in 1..k
      BY <2>1, <3>1
    <3>2. CASE n = k + 1
      <4>1. n - 1 = k /\ k \in 0..k + 1 /\ k + 1 \in 0..k + 1 /\ ~(k + 1 <= k)
        BY <3>2
      <4>2. h[k] = g[k] /\ h[k + 1] = F[<<g[k], k + 1>>]
        BY <4>1
      <4> QED
        BY <3>2, <4>1, <4>2
    <3> QED
      BY <3>1, <3>2
  <2>6. h \in Upto(k + 1)
    <3> HIDE DEF h
    <3> QED
      BY <2>3, <2>4, <2>5
  <2>7. k + 1 \in 0..N
    BY <1>2
  <2> HIDE DEF h, Upto
  <2>8. Upto(k + 1) # {}
    BY <2>6
  <2> QED
    BY <2>7, <2>8
<1>3. N \in T
  <2> HIDE DEF T
  <2>1. 0..N \subseteq T
    BY <1>1, <1>2, FromTo
  <2> QED
    BY <2>1
<1> QED
  BY <1>3 DEF Recursive

\* And no more: what goes on with F as long as it is in S.
Continues(h, S, first, N, F) ==
  /\ h = [n \in 0..N |-> h[n]] /\ h[0] = first
  /\ \A n \in 1..N : h[n - 1] \in S => h[n] = F[<<h[n - 1], n>>]

LEMMA OnlyOne ==
  ASSUME NEW S, NEW first \in S, NEW N \in Nat, NEW F \in [S \X (1..N) -> S],
         NEW g \in Recursive(S, first, N, F),
         NEW h, Continues(h, S, first, N, F)
  PROVE  h = g
<1> USE DEF Continues
<1> DEFINE T == {n \in 0..N : h[n] = g[n]}
<1>1. /\ g \in [0..N -> S] /\ g[0] = first
      /\ \A n \in 1..N : g[n] = F[<<g[n - 1], n>>]
  BY DEF Recursive
<1>2. 0 \in T
  BY <1>1
<1>3. ASSUME NEW n \in 0..N, n \in T, n < N PROVE n + 1 \in T
  <2>1. n + 1 \in 1..N /\ n + 1 \in 0..N /\ (n + 1) - 1 = n /\ h[n] = g[n]
    BY <1>3
  <2>2. h[n + 1] = F[<<h[n], n + 1>>] /\ g[n + 1] = F[<<g[n], n + 1>>]
    BY <1>1, <2>1
  <2> QED
    BY <2>1, <2>2
<1>4. 0..N \subseteq T
  <2> HIDE DEF T
  <2> QED
    BY <1>2, <1>3, FromTo
<1> QED
  BY <1>1, <1>4
=============================================================================
