---------------------------- MODULE DataTheorems ----------------------------
(***************************************************************************)
(* What the proofs of this project need to know of finite data: induction  *)
(* over subsets and numbers, enumerations in ascending order, sequences    *)
(* that are put together, and the sum of a function over a finite set in   *)
(* whatever order its indices are chosen.                                  *)
(***************************************************************************)
EXTENDS Integers, SequencesExt, SequenceTheorems, FiniteSetTheorems, WellFoundedInduction, TLAPS

-----------------------------------------------------------------------------
(* Induction. *)

\* A set of subsets of S that contains every set whose proper subsets it
\* contains contains all of them.
LEMMA SubsetInduction ==
  ASSUME NEW S, IsFiniteSet(S), NEW P,
         \A U \in SUBSET S : (\A V \in (SUBSET U) \ {U} : V \in P) => U \in P
  PROVE  \A U \in SUBSET S : U \in P
  <1> DEFINE bad == {U \in SUBSET S : U \notin P}
  <1>1. SUFFICES ASSUME bad # {} PROVE FALSE
    OBVIOUS
  <1>2. FiniteSubsetsOf(S) = SUBSET S
    BY FS_FiniteSubsetsOfFinite
  <1>3. IsWellFoundedOn(StrictSubsetOrdering(S), SUBSET S)
    BY <1>2, FS_StrictSubsetOrderingWellFounded
  <1>4. PICK U \in bad : \A V \in bad : <<V, U>> \notin StrictSubsetOrdering(S)
    <2> bad \subseteq SUBSET S
      OBVIOUS
    <2> HIDE DEF bad
    <2> QED
      BY <1>1, <1>3, WFMin
  <1>5. \A V \in (SUBSET U) \ {U} : <<V, U>> \in StrictSubsetOrdering(S)
    BY DEF StrictSubsetOrdering
  <1>6. ASSUME NEW V \in (SUBSET U) \ {U}
        PROVE  V \in P
    <2>1. V \in SUBSET S
      OBVIOUS
    <2>2. V \notin bad
      <3> HIDE DEF bad
      <3> QED
        BY <1>4, <1>5
    <2> QED
      BY <2>1, <2>2
  <1> QED
    BY <1>4, <1>6

\* A finite set of natural numbers that is not empty has a least member.
LEMMA LeastMember ==
  ASSUME NEW S, IsFiniteSet(S), S \subseteq Nat, S # {}
  PROVE  \E n \in S : \A m \in S : n <= m
  <1> DEFINE P == {U \in SUBSET S : U # {} => \E n \in U : \A m \in U : n <= m}
  <1>1. ASSUME NEW U \in SUBSET S, \A V \in (SUBSET U) \ {U} : V \in P
        PROVE  U \in P
    <2> SUFFICES ASSUME U # {} PROVE \E n \in U : \A m \in U : n <= m
      OBVIOUS
    <2>1. PICK x \in U : TRUE
      OBVIOUS
    <2>2. U \ {x} \in P
      <3>1. U \ {x} \in (SUBSET U) \ {U}
        BY <2>1
      <3> HIDE DEF P
      <3> QED
        BY <1>1, <3>1
    <2>3. CASE U \ {x} = {}
      BY <2>1, <2>3
    <2>4. CASE U \ {x} # {}
      <3>1. PICK n \in U \ {x} : \A m \in U \ {x} : n <= m
        BY <2>2, <2>4
      <3>2. CASE x <= n
        BY <2>1, <3>1, <3>2
      <3>3. CASE ~(x <= n)
        BY <2>1, <3>1, <3>3
      <3> QED
        BY <3>2, <3>3
    <2> QED
      BY <2>3, <2>4
  <1>2. S \in P
    <2> HIDE DEF P
    <2>1. \A U \in SUBSET S : U \in P
      BY <1>1, SubsetInduction
    <2> QED
      BY <2>1
  <1> QED
    BY <1>2

\* A set that contains zero and the successors of its members contains all numbers.
LEMMA Induction ==
  ASSUME NEW P, 0 \in P, \A n \in Nat : n \in P => n + 1 \in P
  PROVE  \A n \in Nat : n \in P
  <1> SUFFICES ASSUME NEW n \in Nat, n \notin P PROVE FALSE
    OBVIOUS
  <1> DEFINE bad == {k \in 0 .. n : k \notin P}
  <1>1. bad \subseteq Nat /\ n \in bad /\ \A k \in bad : k \notin P
    OBVIOUS
  <1>2. IsFiniteSet(bad)
    <2>1. IsFiniteSet(0 .. n) /\ bad \subseteq 0 .. n
      BY FS_Interval
    <2> QED
      BY <2>1, FS_Subset
  <1>3. PICK k \in bad : \A m \in bad : k <= m
    <2> HIDE DEF bad
    <2>1. bad # {}
      BY <1>1
    <2> QED
      BY <1>1, <1>2, <2>1, LeastMember
  <1>4. k \in 1 .. n
    BY <1>1
  <1>5. k - 1 \in P
    BY <1>3, <1>4
  <1> QED
    BY <1>1, <1>4, <1>5

-----------------------------------------------------------------------------
(* Functions that are defined by recursion over numbers. *)

IsRecursion(f, N, base, step) == f = [k \in N |-> IF k = 0 THEN base ELSE step[<<k, f[k - 1]>>]]

\* Each value follows from the one before.
LEMMA RecursionSteps ==
  ASSUME NEW N, NEW f, NEW base, NEW step, IsRecursion(f, N, base, step)
  PROVE  /\ DOMAIN f = N
         /\ \A k \in N : f[k] = IF k = 0 THEN base ELSE step[<<k, f[k - 1]>>]
         /\ 0 \in N => f[0] = base
  BY DEF IsRecursion

\* They do not depend on where they end.
LEMMA RecursionIsUnique ==
  ASSUME NEW n \in Nat, NEW m \in Nat, n <= m, NEW f, NEW g, NEW base, NEW step,
         IsRecursion(f, 0 .. n, base, step), IsRecursion(g, 0 .. m, base, step)
  PROVE  \A k \in 0 .. n : f[k] = g[k]
  <1> DEFINE P == {k \in Nat : k \in 0 .. n => f[k] = g[k]}
  <1>1. /\ \A k \in 0 .. n : f[k] = IF k = 0 THEN base ELSE step[<<k, f[k - 1]>>]
        /\ \A k \in 0 .. m : g[k] = IF k = 0 THEN base ELSE step[<<k, g[k - 1]>>]
    BY RecursionSteps
  <1>2. 0 \in P
    <2>1. 0 \in 0 .. n /\ 0 \in 0 .. m
      OBVIOUS
    <2>2. f[0] = base /\ g[0] = base
      BY <2>1, RecursionSteps
    <2> QED
      BY <2>2
  <1>3. ASSUME NEW k \in Nat, k \in P PROVE k + 1 \in P
    <2> SUFFICES ASSUME k + 1 \in 0 .. n PROVE f[k + 1] = g[k + 1]
      OBVIOUS
    <2>1. k \in 0 .. n /\ (k + 1) - 1 = k /\ k + 1 # 0 /\ k + 1 \in 0 .. m
      OBVIOUS
    <2> QED
      BY <1>1, <1>3, <2>1
  <1>4. \A k \in Nat : k \in P
    <2> HIDE DEF P
    <2> QED
      BY <1>2, <1>3, Induction
  <1> QED
    BY <1>4

LEMMA RecursionUpTo ==
  ASSUME NEW D, NEW base \in D, NEW step \in [Nat \X D -> D]
  PROVE  \A n \in Nat : \E f \in [0 .. n -> D] : IsRecursion(f, 0 .. n, base, step)
  <1> DEFINE P == {n \in Nat : \E f \in [0 .. n -> D] : IsRecursion(f, 0 .. n, base, step)}
  <1>1. 0 \in P
    <2>1. [k \in 0 .. 0 |-> base] \in [0 .. 0 -> D] /\ IsRecursion([k \in 0 .. 0 |-> base], 0 .. 0, base, step)
      BY DEF IsRecursion
    <2> QED
      BY <2>1
  <1>2. ASSUME NEW n \in Nat, n \in P PROVE n + 1 \in P
    <2>1. PICK f \in [0 .. n -> D] : IsRecursion(f, 0 .. n, base, step)
      BY <1>2
    <2>2. PICK last \in D : last = step[<<n + 1, f[n]>>]
      OBVIOUS
    <2> DEFINE g == [k \in 0 .. n + 1 |-> IF k = n + 1 THEN last ELSE f[k]]
    <2>3. \A k \in 0 .. n : k \in 0 .. n + 1 /\ k # n + 1 /\ (k # 0 => k - 1 \in 0 .. n /\ k - 1 \in 0 .. n + 1 /\ k - 1 # n + 1)
      OBVIOUS
    <2>4. n + 1 \in 0 .. n + 1 /\ n + 1 # 0 /\ (n + 1) - 1 = n /\ n \in 0 .. n
          /\ \A k \in 0 .. n + 1 : k = n + 1 \/ k \in 0 .. n
      OBVIOUS
    <2>5. g \in [0 .. n + 1 -> D] /\ g[n + 1] = last /\ \A k \in 0 .. n : g[k] = f[k]
      BY <2>2, <2>3, <2>4
    <2>6. \A k \in 0 .. n : f[k] = IF k = 0 THEN base ELSE step[<<k, f[k - 1]>>]
      BY <2>1, RecursionSteps
    <2> HIDE DEF g
    <2>7. \A k \in 0 .. n + 1 : g[k] = IF k = 0 THEN base ELSE step[<<k, g[k - 1]>>]
      <3> SUFFICES ASSUME NEW k \in 0 .. n + 1 PROVE g[k] = IF k = 0 THEN base ELSE step[<<k, g[k - 1]>>]
        OBVIOUS
      <3>1. CASE k = n + 1
        BY <2>2, <2>4, <2>5, <3>1
      <3>2. CASE k \in 0 .. n
        BY <2>3, <2>5, <2>6, <3>2
      <3> QED
        BY <2>4, <3>1, <3>2
    <2>8. IsRecursion(g, 0 .. n + 1, base, step)
      BY <2>5, <2>7 DEF IsRecursion
    <2> QED
      BY <2>5, <2>8
  <1> HIDE DEF P
  <1>3. \A n \in Nat : n \in P
    BY <1>1, <1>2, Induction
  <1> QED
    BY <1>3 DEF P

LEMMA RecursionOnNumbers ==
  ASSUME NEW D, NEW base \in D, NEW step \in [Nat \X D -> D]
  PROVE  \E f \in [Nat -> D] : IsRecursion(f, Nat, base, step)
  <1>1. PICK upto : upto = [n \in Nat |-> CHOOSE f \in [0 .. n -> D] : IsRecursion(f, 0 .. n, base, step)]
    OBVIOUS
  <1>2. \A n \in Nat : upto[n] \in [0 .. n -> D] /\ IsRecursion(upto[n], 0 .. n, base, step)
    <2> SUFFICES ASSUME NEW n \in Nat PROVE upto[n] \in [0 .. n -> D] /\ IsRecursion(upto[n], 0 .. n, base, step)
      OBVIOUS
    <2>1. \E f \in [0 .. n -> D] : IsRecursion(f, 0 .. n, base, step)
      BY RecursionUpTo
    <2>2. upto[n] = CHOOSE f \in [0 .. n -> D] : IsRecursion(f, 0 .. n, base, step)
      BY <1>1
    <2> QED
      BY <2>1, <2>2
  <1> DEFINE h == [n \in Nat |-> upto[n][n]]
  <1>3. \A n \in Nat : n \in 0 .. n
    OBVIOUS
  <1>4. h \in [Nat -> D]
    BY <1>2, <1>3
  <1>5. h[0] = base
    <2>1. upto[0][0] = base
      <3>1. PICK n \in Nat : n = 0
        OBVIOUS
      <3>2. IsRecursion(upto[n], 0 .. n, base, step)
        BY ONLY <1>2, n \in Nat
      <3>3. 0 \in 0 .. n
        OBVIOUS
      <3>4. upto[n][0] = base
        BY ONLY <3>2, <3>3, RecursionSteps
      <3> QED
        BY <3>1, <3>4
    <2> QED
      BY <2>1
  <1>6. ASSUME NEW k \in Nat, k # 0 PROVE h[k] = step[<<k, h[k - 1]>>]
    <2>1. k - 1 \in Nat /\ k - 1 <= k /\ k - 1 \in 0 .. k - 1
      BY <1>6
    <2>2. upto[k][k] = step[<<k, upto[k][k - 1]>>]
      BY <1>2, <1>3, <1>6, RecursionSteps
    <2>3. IsRecursion(upto[k - 1], 0 .. k - 1, base, step) /\ IsRecursion(upto[k], 0 .. k, base, step)
      BY <1>2, <2>1
    <2>4. upto[k - 1][k - 1] = upto[k][k - 1]
      <3> DEFINE n == k - 1
      <3>1. n \in Nat /\ n <= k /\ IsRecursion(upto[n], 0 .. n, base, step)
        BY <2>1, <2>3
      <3> HIDE DEF n
      <3>2. \A j \in 0 .. n : upto[n][j] = upto[k][j]
        BY <2>3, <3>1, RecursionIsUnique
      <3>3. n \in 0 .. n
        BY <3>1
      <3> QED
        BY <3>2, <3>3 DEF n
    <2> QED
      BY <2>1, <2>2, <2>4
  <1>7. IsRecursion(h, Nat, base, step)
    <2>1. h = [k \in Nat |-> h[k]]
      BY <1>4
    <2> HIDE DEF h
    <2> QED
      BY <1>5, <1>6, <2>1 DEF IsRecursion
  <1> QED
    BY <1>4, <1>7

-----------------------------------------------------------------------------
(* Numbers in ascending order. *)

\* s enumerates T in ascending order.
IsAscending(T, s) ==
  s \in [1 .. Cardinality(T) -> T] /\ \A a, b \in DOMAIN s : a < b => s[a] < s[b]

\* A finite set of numbers that is not empty has a largest member.
LEMMA MaxExists ==
  ASSUME NEW S \in SUBSET Int, IsFiniteSet(S)
  PROVE  \A U \in SUBSET S : U # {} => \E m \in U : \A y \in U : y <= m
  <1> DEFINE P == {U \in SUBSET S : U # {} => \E m \in U : \A y \in U : y <= m}
  <1>1. ASSUME NEW U \in SUBSET S, \A V \in (SUBSET U) \ {U} : V \in P, U # {}
        PROVE  \E m \in U : \A y \in U : y <= m
    <2>1. PICK x \in U : TRUE
      BY <1>1
    <2>2. CASE U = {x}
      BY <2>2
    <2>3. CASE U # {x}
      <3>1. U \ {x} \in P /\ U \ {x} # {}
        <4>1. U \ {x} \in (SUBSET U) \ {U}
          BY <2>1
        <4> HIDE DEF P
        <4> QED
          BY <1>1, <2>3, <4>1
      <3>2. PICK m \in U \ {x} : \A y \in U \ {x} : y <= m
        BY <3>1
      <3>3. m \in Int /\ x \in Int /\ \A y \in U : y \in Int
        OBVIOUS
      <3>4. CASE x <= m
        BY <3>2, <3>4
      <3>5. CASE m <= x
        BY <2>1, <3>2, <3>3, <3>5
      <3> QED
        BY <3>3, <3>4, <3>5
    <2> QED
      BY <2>2, <2>3
  <1>2. \A U \in SUBSET S : (\A V \in (SUBSET U) \ {U} : V \in P) => U \in P
    BY <1>1
  <1>3. \A U \in SUBSET S : U \in P
    <2> HIDE DEF P
    <2> QED
      BY <1>2, SubsetInduction
  <1> QED
    BY <1>3

\* Every finite set of numbers can be enumerated in ascending order.
LEMMA AscendingExists ==
  ASSUME NEW S \in SUBSET Int, IsFiniteSet(S)
  PROVE  \A U \in SUBSET S : \E s : IsAscending(U, s)
  <1> DEFINE P == {U \in SUBSET S : \E s : IsAscending(U, s)}
  <1>1. ASSUME NEW U \in SUBSET S, \A V \in (SUBSET U) \ {U} : V \in P
        PROVE  \E s : IsAscending(U, s)
    <2>1. IsFiniteSet(U)
      BY FS_Subset
    <2>2. CASE U = {}
      <3>1. IsAscending({}, [a \in 1 .. 0 |-> a])
        BY FS_EmptySet DEF IsAscending
      <3> QED
        BY <2>2, <3>1
    <2>3. CASE U # {}
      <3>1. PICK m \in U : \A y \in U : y <= m
        BY <2>3, MaxExists
      <3>2. PICK s : IsAscending(U \ {m}, s)
        BY <1>1, <3>1
      <3>3. PICK n : n = Cardinality(U)
        OBVIOUS
      <3>4. n \in Nat /\ Cardinality(U \ {m}) = n - 1
        BY <2>1, <3>3, FS_CardinalityType, FS_RemoveElement
      <3>5. n - 1 \in Nat
        BY <2>1, <3>4, FS_CardinalityType, FS_RemoveElement
      <3> DEFINE t == [k \in 1 .. n |-> IF k = n THEN m ELSE s[k]]
      <3>6. \A k \in 1 .. n : k # n => k \in 1 .. n - 1
        BY <3>4
      <3>7. s \in [1 .. n - 1 -> U \ {m}] /\ \A a, b \in 1 .. n - 1 : a < b => s[a] < s[b]
        BY <3>2, <3>4 DEF IsAscending
      <3>8. \A k \in 1 .. n - 1 : s[k] \in U /\ s[k] < m
        <4> SUFFICES ASSUME NEW k \in 1 .. n - 1 PROVE s[k] \in U /\ s[k] < m
          OBVIOUS
        <4>1. s[k] \in U \ {m}
          BY <3>7
        <4>2. PICK x \in Int : x = s[k]
          BY <4>1
        <4>3. x <= m /\ x # m /\ m \in Int
          BY <3>1, <4>1, <4>2
        <4>4. x < m
          BY <4>3
        <4> QED
          BY <4>1, <4>2, <4>4
      <3>9. t \in [1 .. n -> U]
        BY <3>6, <3>8
      <3>10. ASSUME NEW a \in 1 .. n, NEW b \in 1 .. n, a < b
             PROVE  t[a] < t[b]
        <4>1. a \in 1 .. n - 1 /\ a # n
          BY <3>4, <3>10
        <4>2. CASE b = n
          BY <3>8, <4>1, <4>2
        <4>3. CASE b # n
          BY <3>6, <3>7, <3>10, <4>1, <4>3
        <4> QED
          BY <4>2, <4>3
      <3>11. IsAscending(U, t)
        <4> HIDE DEF t
        <4> QED
          BY <3>3, <3>9, <3>10 DEF IsAscending
      <3> QED
        BY <3>11
    <2> QED
      BY <2>2, <2>3
  <1>2. \A U \in SUBSET S : (\A V \in (SUBSET U) \ {U} : V \in P) => U \in P
    BY <1>1
  <1>3. \A U \in SUBSET S : U \in P
    <2> HIDE DEF P
    <2> QED
      BY <1>2, SubsetInduction
  <1> QED
    BY <1>3


\* An enumeration in ascending order has each member once.
LEMMA AscendingEnumerates ==
  ASSUME NEW T \in SUBSET Int, IsFiniteSet(T), NEW s, IsAscending(T, s)
  PROVE  /\ s \in Seq(T) /\ Len(s) = Cardinality(T)
         /\ IsInjective(s)
         /\ ToSet(s) = T
  <1> DEFINE n == Cardinality(T)
  <1>3. n \in Nat /\ IsFiniteSet(1 .. n) /\ Cardinality(1 .. n) = n
    BY FS_CardinalityType, FS_Interval
  <1>4. s \in [1 .. n -> T] /\ \A a, b \in 1 .. n : a < b => s[a] < s[b]
    BY DEF IsAscending
  <1> HIDE DEF n
  <1>5. \A a, b \in 1 .. n : s[a] = s[b] => a = b
    <2> SUFFICES ASSUME NEW a \in 1 .. n, NEW b \in 1 .. n, a # b
                 PROVE  s[a] # s[b]
      OBVIOUS
    <2>1. s[a] \in Int /\ s[b] \in Int
      BY <1>4
    <2>2. a < b \/ b < a
      BY <1>3
    <2>3. s[a] < s[b] \/ s[b] < s[a]
      BY <1>4, <2>2
    <2> QED
      BY <2>1, <2>3
  <1>6. s \in Injection(1 .. n, T)
    BY <1>4, <1>5 DEF Injection, IsInjective
  <1>7. s \in Surjection(1 .. n, T)
    <2>1. Cardinality(1 .. n) = Cardinality(T)
      BY <1>3 DEF n
    <2> QED
      BY <1>6, <2>1, FS_Injection
  <1>8. \A x \in T : \E a \in 1 .. n : s[a] = x
    BY <1>7 DEF Surjection
  <1>9. DOMAIN s = 1 .. n /\ \A a \in 1 .. n : s[a] \in T
    BY <1>4
  <1>10. {s[a] : a \in DOMAIN s} = T
    BY ONLY <1>8, <1>9
  <1>11. s \in Seq(T) /\ Len(s) = n
    BY <1>3, <1>4
  <1>12. IsInjective(s)
    BY <1>5, <1>9 DEF IsInjective
  <1> QED
    BY <1>10, <1>11, <1>12 DEF ToSet, n

-----------------------------------------------------------------------------
(* Sequences that are put together. *)

\* What is in two sequences, one after the other, and when nothing is in it twice.
LEMMA Joined ==
  ASSUME NEW S, NEW s \in Seq(S), NEW t \in Seq(S)
  PROVE  /\ s \o t \in Seq(S)
         /\ ToSet(s \o t) = ToSet(s) \cup ToSet(t)
         /\ IsInjective(s) /\ IsInjective(t) /\ ToSet(s) \cap ToSet(t) = {} => IsInjective(s \o t)
  <1> DEFINE m == Len(s)
             n == Len(t)
             u == s \o t
  <1>1. /\ m \in Nat /\ n \in Nat /\ u \in Seq(S) /\ Len(u) = m + n
        /\ \A i \in 1 .. m + n : u[i] = IF i <= m THEN s[i] ELSE t[i - m]
    BY ConcatProperties, LenProperties
  <1>2. DOMAIN s = 1 .. m /\ DOMAIN t = 1 .. n /\ DOMAIN u = 1 .. m + n
    BY <1>1, LenProperties
  <1> HIDE DEF m, n, u
  <1>3. /\ \A i \in 1 .. m : i \in 1 .. m + n /\ u[i] = s[i]
        /\ \A i \in 1 .. n : m + i \in 1 .. m + n /\ u[m + i] = t[i]
        /\ \A i \in 1 .. m + n : i \notin 1 .. m => i - m \in 1 .. n /\ u[i] = t[i - m]
    <2>1. \A i \in 1 .. n : (m + i) - m = i /\ ~(m + i <= m)
      BY <1>1
    <2> QED
      BY <1>1, <2>1
  <1>4. ToSet(u) = ToSet(s) \cup ToSet(t)
    BY <1>2, <1>3 DEF ToSet
  <1>5. ASSUME IsInjective(s), IsInjective(t), ToSet(s) \cap ToSet(t) = {},
               NEW i \in 1 .. m + n, NEW j \in 1 .. m + n, u[i] = u[j]
        PROVE  i = j
    <2>1. \A a \in 1 .. m, b \in 1 .. n : s[a] # t[b]
      BY <1>2, <1>5 DEF ToSet
    <2>2. CASE i \in 1 .. m /\ j \in 1 .. m
      BY <1>2, <1>3, <1>5, <2>2 DEF IsInjective
    <2>3. CASE i \notin 1 .. m /\ j \notin 1 .. m
      <3>1. i - m = j - m
        BY <1>2, <1>3, <1>5, <2>3 DEF IsInjective
      <3> QED
        BY <1>1, <3>1
    <2>4. CASE i \in 1 .. m /\ j \notin 1 .. m
      BY <1>3, <1>5, <2>1, <2>4
    <2>5. CASE i \notin 1 .. m /\ j \in 1 .. m
      BY <1>3, <1>5, <2>1, <2>5
    <2> QED
      BY <2>2, <2>3, <2>4, <2>5
  <1> QED
    BY <1>1, <1>2, <1>4, <1>5 DEF IsInjective, u

LEMMA AppendedEntries ==
  ASSUME NEW S, NEW s \in Seq(S), NEW e \in S
  PROVE  /\ Append(s, e) \in Seq(S)
         /\ ToSet(Append(s, e)) = ToSet(s) \cup {e}
         /\ IsInjective(s) /\ e \notin ToSet(s) => IsInjective(Append(s, e))
  <1>1. Append(s, e) = s \o <<e>>
    BY AppendIsConcat
  <1>2. <<e>> \in Seq(S) /\ ToSet(<<e>>) = {e} /\ IsInjective(<<e>>)
    BY DEF ToSet, IsInjective
  <1> DEFINE t == <<e>>
  <1>3. t \in Seq(S) /\ ToSet(t) = {e} /\ IsInjective(t) /\ Append(s, e) = s \o t
    BY <1>1, <1>2
  <1> HIDE DEF t
  <1>4. /\ s \o t \in Seq(S) /\ ToSet(s \o t) = ToSet(s) \cup ToSet(t)
        /\ IsInjective(s) /\ IsInjective(t) /\ ToSet(s) \cap ToSet(t) = {} => IsInjective(s \o t)
    BY <1>3, Joined
  <1> QED
    BY <1>3, <1>4

\* g is the recursive function of FlattenSeq.
IsFlatten(g, seqs, n) ==
  g = [i \in 1 .. n |-> IF i = 1 THEN seqs[i] ELSE g[i - 1] \o seqs[i]]

LEMMA FlattenExists ==
  ASSUME NEW seqs
  PROVE  \A n \in Nat : \E g : IsFlatten(g, seqs, n)
  <1> DEFINE P == {n \in Nat : \E g : IsFlatten(g, seqs, n)}
  <1>1. 0 \in P
    <2>1. IsFlatten([i \in 1 .. 0 |-> i], seqs, 0)
      BY DEF IsFlatten
    <2> QED
      BY <2>1
  <1>2. ASSUME NEW n \in Nat, n \in P PROVE n + 1 \in P
    <2>1. PICK g : IsFlatten(g, seqs, n)
      BY <1>2
    <2> DEFINE last == IF n + 1 = 1 THEN seqs[n + 1] ELSE g[n] \o seqs[n + 1]
               h == [i \in 1 .. n + 1 |-> IF i = n + 1 THEN last ELSE g[i]]
    <2>2. \A i \in 1 .. n : i \in 1 .. n + 1 /\ i # n + 1 /\ (i # 1 => i - 1 \in 1 .. n /\ i - 1 \in 1 .. n + 1 /\ i - 1 # n + 1)
      OBVIOUS
    <2>3. \A i \in 1 .. n : h[i] = g[i] /\ (i # 1 => h[i - 1] = g[i - 1])
      BY <2>2
    <2>4. n + 1 # 1 => n \in 1 .. n /\ h[n] = g[n] /\ (n + 1) - 1 = n
      BY <2>3
    <2>5. h[n + 1] = last /\ \A i \in 1 .. n + 1 : i = n + 1 \/ i \in 1 .. n
      OBVIOUS
    <2>6. \A i \in 1 .. n : g[i] = IF i = 1 THEN seqs[i] ELSE g[i - 1] \o seqs[i]
      BY <2>1 DEF IsFlatten
    <2>7. \A i \in 1 .. n + 1 : h[i] = IF i = 1 THEN seqs[i] ELSE h[i - 1] \o seqs[i]
      <3> HIDE DEF h
      <3> QED
        BY <2>3, <2>4, <2>5, <2>6
    <2>8. h = [i \in 1 .. n + 1 |-> h[i]]
      OBVIOUS
    <2>9. IsFlatten(h, seqs, n + 1)
      <3> HIDE DEF h
      <3> QED
        BY <2>7, <2>8 DEF IsFlatten
    <2> QED
      BY <2>9
  <1> HIDE DEF P
  <1>3. \A n \in Nat : n \in P
    BY <1>1, <1>2, Induction
  <1> QED
    BY <1>3 DEF P

\* The recursive function does not depend on how many sequences there are.
LEMMA FlattenIsUnique ==
  ASSUME NEW n \in Nat, NEW m \in Nat, NEW s, NEW t, NEW g, NEW h, IsFlatten(g, s, n), IsFlatten(h, t, m),
         n <= m, \A i \in 1 .. n : s[i] = t[i]
  PROVE  \A i \in 1 .. n : g[i] = h[i]
  <1> DEFINE P == {j \in Nat : j + 1 \in 1 .. n => g[j + 1] = h[j + 1]}
  <1>1. /\ \A i \in 1 .. n : g[i] = IF i = 1 THEN s[i] ELSE g[i - 1] \o s[i]
        /\ \A i \in 1 .. m : h[i] = IF i = 1 THEN t[i] ELSE h[i - 1] \o t[i]
    BY DEF IsFlatten
  <1>2. 0 \in P
    BY <1>1
  <1>3. ASSUME NEW j \in Nat, j \in P PROVE j + 1 \in P
    <2> SUFFICES ASSUME j + 2 \in 1 .. n PROVE g[j + 2] = h[j + 2]
      <3>1. (j + 1) + 1 = j + 2
        OBVIOUS
      <3> QED
        BY <3>1
    <2>1. j + 1 \in 1 .. n /\ (j + 2) - 1 = j + 1 /\ j + 2 # 1 /\ j + 2 \in 1 .. m
      OBVIOUS
    <2>2. g[j + 1] = h[j + 1]
      BY <1>3, <2>1
    <2> QED
      BY <1>1, <2>1, <2>2
  <1> HIDE DEF P
  <1>4. \A j \in Nat : j \in P
    BY <1>2, <1>3, Induction
  <1>5. ASSUME NEW i \in 1 .. n PROVE g[i] = h[i]
    <2>1. i - 1 \in P /\ (i - 1) + 1 = i
      BY <1>4
    <2> QED
      BY <2>1 DEF P
  <1> QED
    BY <1>5

\* Putting one more sequence behind the others.
LEMMA FlattenGrows ==
  ASSUME NEW S, NEW n \in Nat, NEW seqs \in [1 .. n + 1 -> Seq(S)]
  PROVE  FlattenSeq(seqs) = FlattenSeq([i \in 1 .. n |-> seqs[i]]) \o seqs[n + 1]
  <1> DEFINE front == [i \in 1 .. n |-> seqs[i]]
             g == CHOOSE g : IsFlatten(g, seqs, n + 1)
             h == CHOOSE h : IsFlatten(h, front, n)
  <1>1. Len(seqs) = n + 1 /\ Len(front) = n
    OBVIOUS
  <1>2. FlattenSeq(seqs) = g[n + 1]
    <2>1. Len(seqs) # 0
      BY <1>1
    <2> QED
      BY <1>1, <2>1 DEF FlattenSeq, IsFlatten
  <1>3. IsFlatten(g, seqs, n + 1) /\ IsFlatten(h, front, n)
    <2>1. n + 1 \in Nat
      OBVIOUS
    <2> QED
      BY <2>1, FlattenExists
  <1>4. n # 0 => FlattenSeq(front) = h[n]
    BY <1>1 DEF FlattenSeq, IsFlatten
  <1>5. n = 0 => FlattenSeq(front) = <<>>
    BY <1>1 DEF FlattenSeq
  <1>6. \A i \in 1 .. n : front[i] = seqs[i]
    OBVIOUS
  <1> HIDE DEF g, h, front
  <1>7. g[n + 1] = IF n + 1 = 1 THEN seqs[n + 1] ELSE g[(n + 1) - 1] \o seqs[n + 1]
    <2>1. \A i \in 1 .. n + 1 : g[i] = IF i = 1 THEN seqs[i] ELSE g[i - 1] \o seqs[i]
      BY ONLY <1>3 DEF IsFlatten
    <2>2. n + 1 \in 1 .. n + 1
      OBVIOUS
    <2> QED
      BY ONLY <2>1, <2>2
  <1>8. \A i \in 1 .. n : h[i] = g[i]
    <2>1. PICK N : N = n + 1 /\ N \in Nat /\ n <= N
      OBVIOUS
    <2>2. IsFlatten(g, seqs, N) /\ IsFlatten(h, front, n)
      BY ONLY <1>3, <2>1
    <2>3. n \in Nat /\ N \in Nat /\ n <= N
      BY <2>1
    <2> QED
      BY ONLY <1>6, <2>2, <2>3, FlattenIsUnique, SMTT(60)
  <1>9. CASE n = 0
    <2>1. seqs[n + 1] \in Seq(S)
      OBVIOUS
    <2>2. <<>> \o seqs[n + 1] = seqs[n + 1]
      BY <2>1
    <2> QED
      BY <1>2, <1>5, <1>7, <1>9, <2>2 DEF front
  <1>10. CASE n # 0
    <2>1. n \in 1 .. n /\ (n + 1) - 1 = n /\ n + 1 # 1
      BY <1>10
    <2> QED
      BY <1>2, <1>4, <1>7, <1>8, <1>10, <2>1 DEF front
  <1> QED
    BY <1>9, <1>10

\* Nothing is in one of the sequences twice, nor in two of them.
AreDisjoint(seqs) ==
  /\ \A i \in DOMAIN seqs : IsInjective(seqs[i])
  /\ \A i, j \in DOMAIN seqs : i # j => ToSet(seqs[i]) \cap ToSet(seqs[j]) = {}

\* What is in the sequences that are put together is in one of them, and nothing
\* is in it twice unless it is in them.
LEMMA Flattened ==
  ASSUME NEW S, NEW n \in Nat, NEW seqs \in [1 .. n -> Seq(S)]
  PROVE  /\ FlattenSeq(seqs) \in Seq(S)
         /\ ToSet(FlattenSeq(seqs)) = UNION {ToSet(seqs[i]) : i \in 1 .. n}
         /\ AreDisjoint(seqs) => IsInjective(FlattenSeq(seqs))
  <1>1. Len(seqs) = n /\ DOMAIN seqs = 1 .. n /\ seqs \in Seq(Seq(S))
    OBVIOUS
  <1>2. CASE n = 0
    <2>1. FlattenSeq(seqs) = seqs
      BY <1>1, <1>2 DEF FlattenSeq
    <2>2. seqs = <<>> /\ 1 .. n = {}
      BY <1>1, <1>2
    <2>3. <<>> \in Seq(S) /\ ToSet(<<>>) = {} /\ IsInjective(<<>>)
      BY DEF ToSet, IsInjective
    <2> QED
      BY <2>1, <2>2, <2>3
  <1>3. CASE n # 0
    <2> DEFINE g == CHOOSE g : IsFlatten(g, seqs, n)
    <2>1. FlattenSeq(seqs) = g[n]
      BY <1>1, <1>3 DEF FlattenSeq, IsFlatten
    <2>2. IsFlatten(g, seqs, n)
      BY FlattenExists
    <2> HIDE DEF g
    <2>3. \A i \in 1 .. n : g[i] = IF i = 1 THEN seqs[i] ELSE g[i - 1] \o seqs[i]
      BY <2>2 DEF IsFlatten
    <2> DEFINE P == {k \in Nat : k + 1 \in 1 .. n =>
                      /\ g[k + 1] \in Seq(S)
                      /\ ToSet(g[k + 1]) = UNION {ToSet(seqs[i]) : i \in 1 .. k + 1}
                      /\ AreDisjoint(seqs) => IsInjective(g[k + 1])}
    <2>4. 0 \in P
      <3>1. g[1] = seqs[1] /\ 1 .. 1 = {1} /\ 1 \in 1 .. n
        BY <1>3, <2>3
      <3>2. UNION {ToSet(seqs[i]) : i \in {1}} = ToSet(seqs[1])
        OBVIOUS
      <3>3. 0 + 1 = 1
        OBVIOUS
      <3> QED
        BY <1>1, <3>1, <3>2, <3>3 DEF AreDisjoint
    <2>5. ASSUME NEW k \in Nat, k \in P PROVE k + 1 \in P
      <3> SUFFICES ASSUME k + 2 \in 1 .. n
                   PROVE  /\ g[k + 2] \in Seq(S)
                          /\ ToSet(g[k + 2]) = UNION {ToSet(seqs[i]) : i \in 1 .. k + 2}
                          /\ AreDisjoint(seqs) => IsInjective(g[k + 2])
        <4>1. (k + 1) + 1 = k + 2
          OBVIOUS
        <4> QED
          BY <4>1
      <3>1. k + 1 \in 1 .. n /\ (k + 2) - 1 = k + 1 /\ k + 2 # 1
        OBVIOUS
      <3>2. /\ g[k + 1] \in Seq(S)
            /\ ToSet(g[k + 1]) = UNION {ToSet(seqs[i]) : i \in 1 .. k + 1}
            /\ AreDisjoint(seqs) => IsInjective(g[k + 1])
        BY <2>5, <3>1
      <3>3. g[k + 2] = g[k + 1] \o seqs[k + 2] /\ seqs[k + 2] \in Seq(S)
        BY <2>3, <3>1
      <3>4. 1 .. k + 2 = (1 .. k + 1) \cup {k + 2}
        OBVIOUS
      <3>5. ToSet(g[k + 2]) = UNION {ToSet(seqs[i]) : i \in 1 .. k + 2}
        <4>1. ToSet(g[k + 2]) = ToSet(g[k + 1]) \cup ToSet(seqs[k + 2])
          BY <3>2, <3>3, Joined
        <4> QED
          BY <3>2, <3>4, <4>1
      <3>6. ASSUME AreDisjoint(seqs) PROVE ToSet(g[k + 1]) \cap ToSet(seqs[k + 2]) = {}
        <4>1. \A i \in 1 .. k + 1 : i \in 1 .. n /\ i # k + 2
          OBVIOUS
        <4>2. \A i \in 1 .. k + 1 : ToSet(seqs[i]) \cap ToSet(seqs[k + 2]) = {}
          BY <1>1, <3>6, <4>1 DEF AreDisjoint
        <4> QED
          BY <3>2, <4>2
      <3>7. AreDisjoint(seqs) => IsInjective(g[k + 2])
        <4>1. AreDisjoint(seqs) => IsInjective(seqs[k + 2])
          BY <1>1 DEF AreDisjoint
        <4> QED
          BY <3>2, <3>3, <3>6, <4>1, Joined
      <3> QED
        BY <3>2, <3>3, <3>5, <3>7, Joined
    <2>6. n - 1 \in P
      <3> HIDE DEF P
      <3>1. n - 1 \in Nat
        BY <1>3
      <3> QED
        BY <2>4, <2>5, <3>1, Induction
    <2>7. (n - 1) + 1 = n /\ n \in 1 .. n
      BY <1>3
    <2> QED
      BY <2>1, <2>6, <2>7
  <1> QED
    BY <1>2, <1>3

-----------------------------------------------------------------------------
(* Sums. *)

Pick(s) == CHOOSE x \in s : TRUE

\* g is the recursive function of the fold of f over S.
IsFold(g, f, S) ==
  g = [s \in SUBSET S |-> IF s = {} THEN 0 ELSE f[Pick(s)] + g[s \ {Pick(s)}]]

LEMMA PickIn ==
  ASSUME NEW s, s # {}
  PROVE  Pick(s) \in s
  BY DEF Pick

LEMMA SumDef ==
  ASSUME NEW f, NEW S
  PROVE  SumFunctionOnSet(f, S) = (CHOOSE g : IsFold(g, f, S))[S]
  BY DEF SumFunctionOnSet, FoldFunctionOnSet, MapThenFoldSet, IsFold, Pick

-----------------------------------------------------------------------------
(* The recursive function exists, and is unique. *)

LEMMA FoldIsUnique ==
  ASSUME NEW f, NEW S, NEW T, NEW g, NEW h, IsFold(g, f, S), IsFold(h, f, T),
         NEW U, IsFiniteSet(U), U \subseteq S, U \subseteq T
  PROVE  g[U] = h[U]
  <1> DEFINE P == {V \in SUBSET U : g[V] = h[V]}
  <1>1. ASSUME NEW V \in SUBSET U, \A W \in (SUBSET V) \ {V} : W \in P
        PROVE  V \in P
    <2>1. /\ g[V] = IF V = {} THEN 0 ELSE f[Pick(V)] + g[V \ {Pick(V)}]
          /\ h[V] = IF V = {} THEN 0 ELSE f[Pick(V)] + h[V \ {Pick(V)}]
      BY DEF IsFold
    <2>2. CASE V = {}
      BY <2>1, <2>2
    <2>3. CASE V # {}
      <3>1. V \ {Pick(V)} \in (SUBSET V) \ {V}
        BY <2>3, PickIn
      <3>2. g[V \ {Pick(V)}] = h[V \ {Pick(V)}]
        BY <1>1, <3>1
      <3> QED
        BY <2>1, <2>3, <3>2
    <2> QED
      BY <2>2, <2>3
  <1> HIDE DEF P
  <1>2. U \in P
    BY <1>1, SubsetInduction
  <1> QED
    BY <1>2 DEF P

LEMMA FoldExists ==
  ASSUME NEW f, NEW S, IsFiniteSet(S)
  PROVE  \E g : IsFold(g, f, S)
  <1> DEFINE P    == {U \in SUBSET S : \E g : IsFold(g, f, U)}
             h[U \in SUBSET S] == CHOOSE g : IsFold(g, f, U)
  <1>1. ASSUME NEW U \in SUBSET S, \A V \in (SUBSET U) \ {U} : V \in P
        PROVE  U \in P
    <2> DEFINE rest(s) == s \ {Pick(s)}
               g == [s \in SUBSET U |-> IF s = {} THEN 0 ELSE f[Pick(s)] + h[rest(s)][rest(s)]]
    <2>1. \A s \in SUBSET U : s # {} => rest(s) \in (SUBSET U) \ {U} /\ rest(s) \in SUBSET S
      BY PickIn
    <2>2. \A V \in (SUBSET U) \ {U} : IsFold(h[V], f, V) /\ IsFiniteSet(V)
      <3> TAKE V \in (SUBSET U) \ {U}
      <3>1. V \in SUBSET S /\ \E k : IsFold(k, f, V)
        BY <1>1
      <3> QED
        BY <3>1, FS_Subset
    <2>3. ASSUME NEW V \in (SUBSET U) \ {U}
          PROVE  h[V][V] = IF V = {} THEN 0 ELSE f[Pick(V)] + h[rest(V)][rest(V)]
      <3> HIDE DEF h
      <3>1. h[V][V] = IF V = {} THEN 0 ELSE f[Pick(V)] + h[V][rest(V)]
        BY <2>2 DEF IsFold
      <3>2. CASE V # {}
        <4>1. rest(V) \in (SUBSET U) \ {U} /\ rest(V) \subseteq V
          BY <2>1, <3>2
        <4>2. h[V][rest(V)] = h[rest(V)][rest(V)]
          <5> HIDE DEF rest
          <5> QED
            BY <2>2, <4>1, FoldIsUnique
        <4> QED
          BY <3>1, <4>2
      <3> QED
        BY <3>1, <3>2
    <2>4. \A s \in SUBSET U : s # {} => g[rest(s)] = h[rest(s)][rest(s)]
      <3> HIDE DEF h
      <3> QED
        BY <2>1, <2>3
    <2>5. g = [s \in SUBSET U |-> IF s = {} THEN 0 ELSE f[Pick(s)] + g[rest(s)]]
      <3> HIDE DEF h
      <3> QED
        BY <2>4
    <2>6. IsFold(g, f, U)
      <3> HIDE DEF g
      <3> QED
        BY <2>5 DEF IsFold
    <2> QED
      BY <2>6
  <1> HIDE DEF P
  <1>2. S \in P
    BY <1>1, SubsetInduction
  <1> QED
    BY <1>2 DEF P

-----------------------------------------------------------------------------
(* The sum. *)

LEMMA SumStep ==
  ASSUME NEW f, NEW S, IsFiniteSet(S)
  PROVE  SumFunctionOnSet(f, S) =
           IF S = {} THEN 0 ELSE f[Pick(S)] + SumFunctionOnSet(f, S \ {Pick(S)})
  <1> DEFINE g == CHOOSE g : IsFold(g, f, S)
             T == S \ {Pick(S)}
             h == CHOOSE h : IsFold(h, f, T)
  <1>1. IsFiniteSet(T)
    BY FS_RemoveElement
  <1>2. IsFold(g, f, S) /\ IsFold(h, f, T)
    BY <1>1, FoldExists
  <1>3. SumFunctionOnSet(f, S) = g[S] /\ SumFunctionOnSet(f, T) = h[T]
    BY SumDef
  <1> HIDE DEF g, h
  <1>4. g[S] = IF S = {} THEN 0 ELSE f[Pick(S)] + g[T]
    BY <1>2 DEF IsFold
  <1>5. g[T] = h[T]
    BY <1>1, <1>2, FoldIsUnique
  <1> QED
    BY <1>3, <1>4, <1>5

\* The sum over no indices.
LEMMA SumEmpty ==
  ASSUME NEW f
  PROVE  SumFunctionOnSet(f, {}) = 0
  BY SumStep, FS_EmptySet

\* A sum of integers is an integer, and a sum of naturals a natural.
LEMMA SumType ==
  ASSUME NEW f, NEW S, IsFiniteSet(S), NEW R \in {Int, Nat}, \A i \in S : f[i] \in R
  PROVE  SumFunctionOnSet(f, S) \in R
  <1> DEFINE P == {U \in SUBSET S : SumFunctionOnSet(f, U) \in R}
  <1>1. ASSUME NEW U \in SUBSET S, \A V \in (SUBSET U) \ {U} : V \in P
        PROVE  U \in P
    <2>1. IsFiniteSet(U)
      BY FS_Subset
    <2>2. SumFunctionOnSet(f, U) = IF U = {} THEN 0 ELSE f[Pick(U)] + SumFunctionOnSet(f, U \ {Pick(U)})
      BY <2>1, SumStep
    <2>3. CASE U # {}
      <3>1. Pick(U) \in U /\ U \ {Pick(U)} \in (SUBSET U) \ {U}
        BY <2>3, PickIn
      <3>2. SumFunctionOnSet(f, U \ {Pick(U)}) \in R /\ f[Pick(U)] \in R
        BY <1>1, <3>1
      <3> QED
        BY <2>2, <2>3, <3>2
    <2> QED
      BY <2>2, <2>3
  <1> HIDE DEF P
  <1>2. S \in P
    BY <1>1, SubsetInduction
  <1> QED
    BY <1>2 DEF P

\* Any of the indices may be taken first.
LEMMA SumRemove ==
  ASSUME NEW f, NEW S, IsFiniteSet(S), \A i \in S : f[i] \in Int, NEW x \in S
  PROVE  SumFunctionOnSet(f, S) = f[x] + SumFunctionOnSet(f, S \ {x})
  <1> DEFINE P == {U \in SUBSET S : \A y \in U : SumFunctionOnSet(f, U) = f[y] + SumFunctionOnSet(f, U \ {y})}
  <1>1. ASSUME NEW U \in SUBSET S, \A V \in (SUBSET U) \ {U} : V \in P, NEW y \in U
        PROVE  SumFunctionOnSet(f, U) = f[y] + SumFunctionOnSet(f, U \ {y})
    <2> DEFINE p == Pick(U)
    <2>1. IsFiniteSet(U) /\ IsFiniteSet(U \ {y}) /\ IsFiniteSet((U \ {p}) \ {y})
      BY FS_Subset, FS_RemoveElement
    <2>2. p \in U
      BY PickIn
    <2>3. SumFunctionOnSet(f, U) = f[p] + SumFunctionOnSet(f, U \ {p})
      BY <2>1, SumStep
    <2> HIDE DEF p
    <2>4. CASE p # y
      <3>1. U \ {p} \in P /\ U \ {y} \in P
        BY <1>1, <2>2
      <3>2. SumFunctionOnSet(f, U \ {p}) = f[y] + SumFunctionOnSet(f, (U \ {p}) \ {y})
        BY <2>4, <3>1
      <3>3. SumFunctionOnSet(f, U \ {y}) = f[p] + SumFunctionOnSet(f, (U \ {y}) \ {p})
        BY <2>2, <2>4, <3>1
      <3>4. (U \ {p}) \ {y} = (U \ {y}) \ {p}
        OBVIOUS
      <3>5. SumFunctionOnSet(f, (U \ {p}) \ {y}) \in Int /\ f[p] \in Int /\ f[y] \in Int
        <4>1. \A i \in (U \ {p}) \ {y} : f[i] \in Int
          OBVIOUS
        <4> QED
          BY <2>1, <2>2, <4>1, SumType
      <3>6. PICK rest \in Int : rest = SumFunctionOnSet(f, (U \ {p}) \ {y})
        BY <3>5
      <3>7. /\ SumFunctionOnSet(f, U) = f[p] + (f[y] + rest)
            /\ SumFunctionOnSet(f, U \ {y}) = f[p] + rest
        BY <2>3, <3>2, <3>3, <3>4, <3>6
      <3> QED
        BY <3>5, <3>7
    <2> QED
      BY <2>3, <2>4
  <1>2. \A U \in SUBSET S : (\A V \in (SUBSET U) \ {U} : V \in P) => U \in P
    BY <1>1
  <1> HIDE DEF P
  <1>3. S \in P
    BY <1>2, SubsetInduction
  <1> QED
    BY <1>3 DEF P

\* The sum depends on the values at the indices only, and grows with them.
LEMMA SumMonotonic ==
  ASSUME NEW f, NEW g, NEW S, IsFiniteSet(S), \A i \in S : f[i] \in Int /\ g[i] \in Int /\ f[i] <= g[i]
  PROVE  SumFunctionOnSet(f, S) <= SumFunctionOnSet(g, S)
  <1> DEFINE P == {U \in SUBSET S : SumFunctionOnSet(f, U) <= SumFunctionOnSet(g, U)}
  <1>1. ASSUME NEW U \in SUBSET S, \A V \in (SUBSET U) \ {U} : V \in P
        PROVE  U \in P
    <2>1. IsFiniteSet(U)
      BY FS_Subset
    <2>2. /\ SumFunctionOnSet(f, U) = IF U = {} THEN 0 ELSE f[Pick(U)] + SumFunctionOnSet(f, U \ {Pick(U)})
          /\ SumFunctionOnSet(g, U) = IF U = {} THEN 0 ELSE g[Pick(U)] + SumFunctionOnSet(g, U \ {Pick(U)})
      BY <2>1, SumStep
    <2>3. CASE U # {}
      <3>1. Pick(U) \in U /\ U \ {Pick(U)} \in (SUBSET U) \ {U}
        BY <2>3, PickIn
      <3>2. SumFunctionOnSet(f, U \ {Pick(U)}) <= SumFunctionOnSet(g, U \ {Pick(U)})
        BY <1>1, <3>1
      <3>3. /\ SumFunctionOnSet(f, U \ {Pick(U)}) \in Int /\ SumFunctionOnSet(g, U \ {Pick(U)}) \in Int
            /\ f[Pick(U)] \in Int /\ g[Pick(U)] \in Int /\ f[Pick(U)] <= g[Pick(U)]
        <4>1. IsFiniteSet(U \ {Pick(U)}) /\ \A i \in U \ {Pick(U)} : f[i] \in Int /\ g[i] \in Int
          BY <2>1, FS_RemoveElement
        <4> QED
          BY <3>1, <4>1, SumType
      <3> QED
        BY <2>2, <2>3, <3>2, <3>3
    <2> QED
      BY <2>2, <2>3
  <1> HIDE DEF P
  <1>2. S \in P
    BY <1>1, SubsetInduction
  <1> QED
    BY <1>2 DEF P

LEMMA SumSame ==
  ASSUME NEW f, NEW g, NEW S, IsFiniteSet(S), \A i \in S : f[i] \in Int /\ g[i] = f[i]
  PROVE  SumFunctionOnSet(f, S) = SumFunctionOnSet(g, S)
  <1>1. /\ SumFunctionOnSet(f, S) <= SumFunctionOnSet(g, S)
        /\ SumFunctionOnSet(g, S) <= SumFunctionOnSet(f, S)
        /\ SumFunctionOnSet(f, S) \in Int /\ SumFunctionOnSet(g, S) \in Int
    BY SumMonotonic, SumType
  <1> QED
    BY <1>1

\* One value is replaced.
LEMMA SumChange ==
  ASSUME NEW f, NEW g, NEW S, IsFiniteSet(S), NEW x \in S,
         \A i \in S : f[i] \in Int /\ g[i] \in Int,
         \A i \in S \ {x} : g[i] = f[i]
  PROVE  SumFunctionOnSet(g, S) = SumFunctionOnSet(f, S) + (g[x] - f[x])
  <1>1. IsFiniteSet(S \ {x})
    BY FS_RemoveElement
  <1>2. PICK rest \in Int : rest = SumFunctionOnSet(f, S \ {x})
    <2>1. \A i \in S \ {x} : f[i] \in Int
      OBVIOUS
    <2> QED
      BY <1>1, <2>1, SumType
  <1>3. SumFunctionOnSet(g, S \ {x}) = rest
    BY <1>1, <1>2, SumSame
  <1>4. SumFunctionOnSet(f, S) = f[x] + rest /\ SumFunctionOnSet(g, S) = g[x] + rest
    BY <1>2, <1>3, SumRemove
  <1> QED
    BY <1>4

LEMMA SumOfZeros ==
  ASSUME NEW f, NEW S, IsFiniteSet(S), \A i \in S : f[i] = 0
  PROVE  SumFunctionOnSet(f, S) = 0
  <1> DEFINE P == {U \in SUBSET S : SumFunctionOnSet(f, U) = 0}
  <1>1. ASSUME NEW U \in SUBSET S, \A V \in (SUBSET U) \ {U} : V \in P
        PROVE  U \in P
    <2>1. IsFiniteSet(U)
      BY FS_Subset
    <2>2. SumFunctionOnSet(f, U) = IF U = {} THEN 0 ELSE f[Pick(U)] + SumFunctionOnSet(f, U \ {Pick(U)})
      BY <2>1, SumStep
    <2>3. CASE U # {}
      <3>1. Pick(U) \in U /\ U \ {Pick(U)} \in (SUBSET U) \ {U}
        BY <2>3, PickIn
      <3>2. SumFunctionOnSet(f, U \ {Pick(U)}) = 0 /\ f[Pick(U)] = 0
        BY <1>1, <3>1
      <3> QED
        BY <2>2, <2>3, <3>2
    <2> QED
      BY <2>2, <2>3
  <1> HIDE DEF P
  <1>2. S \in P
    BY <1>1, SubsetInduction
  <1> QED
    BY <1>2 DEF P
=============================================================================
