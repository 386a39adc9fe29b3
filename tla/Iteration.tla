------------------------------ MODULE Iteration ------------------------------
(***************************************************************************)
(* Induction and iteration over natural numbers, stated with sets and         *)
(* functions instead of operators, for the proofs about loops of the code:    *)
(* a loop that runs n times is a function on 0 .. n that takes step k from    *)
(* the result of step k - 1.                                                  *)
(***************************************************************************)
EXTENDS Integers, TLAPS, WellFoundedInduction

(* A set of numbers that is not empty has a least member.                     *)
LEMMA LeastMember ==
    ASSUME NEW T \in SUBSET Nat, T # {}
    PROVE  \E m \in T : \A k \in T : m <= k
<1>1. IsWellFoundedOn(OpToRel(<, Nat), Nat)
  BY NatLessThanWellFounded, Zenon
<1>2. PICK m \in T : \A k \in T : ~ (<<k, m>> \in OpToRel(<, Nat))
  BY <1>1, WFMin
<1>3. \A k \in T : ~ (k < m)
  BY <1>2 DEF OpToRel
<1> QED
  BY <1>3

(* Induction: a set that holds 0 and is closed under + 1 holds every number.  *)
LEMMA SetInduction ==
    ASSUME NEW S, 0 \in S, \A n \in Nat : n \in S => n + 1 \in S
    PROVE  Nat \subseteq S
<1>1. SUFFICES ASSUME Nat \ S # {} PROVE FALSE
  OBVIOUS
<1>2. PICK m \in Nat \ S : \A k \in Nat \ S : m <= k
  BY <1>1, LeastMember
<1>3. m # 0 /\ m - 1 \in Nat /\ m - 1 \in S
  BY <1>2
<1> QED
  BY <1>2, <1>3

(* The same up to a bound.                                                    *)
LEMMA BoundedInduction ==
    ASSUME NEW n \in Nat, NEW S, 0 \in S, \A k \in 1 .. n : k - 1 \in S => k \in S
    PROVE  0 .. n \subseteq S
<1> DEFINE T == {m \in Nat : m > n \/ m \in S}
<1>1. 0 \in T
  OBVIOUS
<1>2. ASSUME NEW m \in Nat, m \in T PROVE m + 1 \in T
  BY <1>2
<1> HIDE DEF T
<1>3. Nat \subseteq T
  BY <1>1, <1>2, SetInduction
<1> QED
  BY <1>3 DEF T

(* A set of numbers that is bounded and not empty has a greatest member.      *)
LEMMA GreatestMember ==
    ASSUME NEW T \in SUBSET Nat, T # {}, NEW n \in Nat, \A k \in T : k <= n
    PROVE  \E m \in T : \A k \in T : k <= m
<1> DEFINE U == {m \in Nat : \A k \in T : k <= m}
<1>1. PICK m \in U : \A k \in U : m <= k
  <2>1. U \in SUBSET Nat /\ n \in U
    OBVIOUS
  <2> QED
    BY <2>1, LeastMember
<1>2. CASE m \in T
  BY <1>1, <1>2
<1>3. CASE m \notin T
  <2>1. \A k \in T : k \in Nat /\ k <= m - 1
    BY <1>1, <1>3
  <2>2. PICK k \in T : TRUE
    OBVIOUS
  <2>3. m \in Nat /\ m - 1 \in Nat
    BY <2>1, <2>2, <1>1
  <2>4. m - 1 \in U
    BY <2>1, <2>3
  <2> QED
    BY <1>1, <2>3, <2>4
<1> QED
  BY <1>2, <1>3

\* f and g start alike, and go on alike.
SameSteps(f, g, n) ==
    f[0] = g[0] /\ \A k \in 1 .. n : f[k - 1] = g[k - 1] => f[k] = g[k]

(* Two iterations that start alike and take every step alike are alike.       *)
LEMMA IterationUnique ==
    ASSUME NEW n \in Nat, NEW f, NEW g, SameSteps(f, g, n)
    PROVE  \A k \in 0 .. n : f[k] = g[k]
<1> USE DEF SameSteps
<1> DEFINE S == {k \in 0 .. n : f[k] = g[k]}
<1>1. 0 \in S
  OBVIOUS
<1>2. \A k \in 1 .. n : k - 1 \in S => k \in S
  OBVIOUS
<1> HIDE DEF S
<1>3. 0 .. n \subseteq S
  BY <1>1, <1>2, BoundedInduction
<1> QED
  BY <1>3 DEF S

\* f runs step number k on the result of step number k - 1, from v on.
Iterates(f, n, v, step) ==
    f[0] = v /\ \A k \in 1 .. n : f[k] = step[<<f[k - 1], k>>]

(* A step function on a set of values can be iterated n times.                *)
LEMMA IterationExists ==
    ASSUME NEW n \in Nat, NEW V, NEW v \in V, NEW step \in [V \X (1 .. n) -> V]
    PROVE  \E f \in [0 .. n -> V] : Iterates(f, n, v, step)
<1> USE DEF Iterates
<1> DEFINE Upto(m, f) == Iterates(f, m, v, step)
<1> DEFINE S == {m \in 0 .. n : \E f \in [0 .. n -> V] : Upto(m, f)}
<1>1. 0 \in S
  <2> DEFINE f == [k \in 0 .. n |-> v]
  <2>1. f \in [0 .. n -> V] /\ f[0] = v
    OBVIOUS
  <2> HIDE DEF f
  <2>2. Upto(0, f)
    BY <2>1
  <2> QED
    BY <2>1, <2>2
<1>2. ASSUME NEW m \in 1 .. n, m - 1 \in S PROVE m \in S
  <2>1. PICK f \in [0 .. n -> V] : Upto(m - 1, f)
    BY <1>2
  <2> DEFINE g == [f EXCEPT ![m] = step[<<f[m - 1], m>>]]
  <2>2. m - 1 \in 0 .. n /\ f[m - 1] \in V /\ <<f[m - 1], m>> \in V \X (1 .. n)
    OBVIOUS
  <2>3. step[<<f[m - 1], m>>] \in V
    BY <2>2
  <2>4. g \in [0 .. n -> V]
    BY <2>3
  <2>5. g[0] = v /\ g[m] = step[<<f[m - 1], m>>] /\ \A k \in 0 .. n : k # m => g[k] = f[k]
    BY <2>1
  <2> HIDE DEF g
  <2>6. ASSUME NEW k \in 1 .. m PROVE g[k] = step[<<g[k - 1], k>>]
    <3>1. g[k - 1] = f[k - 1]
      BY <2>5
    <3>2. CASE k = m
      BY <2>5, <3>1, <3>2
    <3>3. CASE k # m
      BY <2>1, <2>5, <3>1, <3>3
    <3> QED
      BY <3>2, <3>3
  <2> QED
    BY <2>4, <2>5, <2>6
<1> HIDE DEF S
<1>3. n \in S
  BY <1>1, <1>2, BoundedInduction
<1> QED
  BY <1>3 DEF S
==============================================================================
