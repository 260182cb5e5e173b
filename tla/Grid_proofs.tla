----------------------------- MODULE Grid_proofs -----------------------------
(***************************************************************************)
(* Proofs about what the repository does with grids.                       *)
(*                                                                         *)
(* Walker, for any grid, partitions, functors and nested walkers, and for  *)
(* any number of workers: functors are applied where they were added,      *)
(* between preparing and finalizing, and the detector detects.             *)
(*                                                                         *)
(* The search of Grids, for any view and any points: each search finds     *)
(* what there is, wherever the one before it ended.                        *)
(*                                                                         *)
(* GridProviders, for all cubes and however far they are refined: studies  *)
(* and drawings that share one grid find their levels on it.               *)
(***************************************************************************)
EXTENDS Walker, GridProviders, DataTheorems, SequenceTheorems

\* A walker is only in the lists of those of smaller number.
Nested(L) == \A w \in Walkers : \A i \in DOMAIN L[w] : L[w][i].what \in Walkers => w < L[w][i].what

ListsNest == Nested(codim0_functors_) /\ Nested(codim1_functors_)

\* The entity with which an item is visited, and those that a worker has yet
\* to visit or is visiting.
Owner(x)   == IF x \in Entities THEN x ELSE Inside[x]
Queued(k)  == {Owner(queue[k][i]) : i \in DOMAIN queue[k]}
Pending(k) == todo[k] \cup Queued(k)

\* No item is to be visited twice.
VisitedOnce ==
  /\ \A k \in Workers :
       /\ todo[k] \cap Queued(k) = {}
       /\ Pending(k) \cap UNION parts = {}
       /\ \A i, j \in DOMAIN queue[k] : queue[k][i] = queue[k][j] => i = j
  /\ \A j, k \in Workers : j # k => Pending(j) \cap Pending(k) = {}

\* What an entry of a list contributes.
Times(e, f, x) ==
  IF ~apply_on(e, x) THEN 0
  ELSE IF e.what \in Walkers THEN Calls(f, x)[e.what]
  ELSE IF e.what = f THEN 1 ELSE 0
Shares(w, f, x) == [i \in DOMAIN List(w, x) |-> Times(List(w, x)[i], f, x)]

\* The first items of the queues have been visited up to the next functor,
\* those that wait have not been visited, and all others are done.
Waiting(x) == Owner(x) \in UNION parts \/ \E k \in Workers : Owner(x) \in todo[k]

InQueue(x) == \E k \in Workers : \E i \in DOMAIN queue[k] : queue[k][i] = x

\* What the first n functors, and all, come to.
SoFar(f, x, n) == SumFunctionOnSet(Shares(walked, f, x), 1 .. n)
InAll(f, x)    == Calls(f, x)[walked]

Right(f, x) ==
  /\ Waiting(x) => applied[<<f, x>>] = 0
  /\ \A k \in Workers : \A i \in DOMAIN queue[k] :
       queue[k][i] = x => applied[<<f, x>>] = IF i = 1 THEN SoFar(f, x, next[k] - 1) ELSE 0
  /\ ~Waiting(x) /\ ~InQueue(x) => applied[<<f, x>>] = InAll(f, x)

Progress == \A f \in Functors, x \in Items : Right(f, x)

NextIsNext ==
  \A k \in Workers :
    IF queue[k] = <<>> THEN next[k] = 1
    ELSE next[k] \in 1 .. (Len(List(walked, queue[k][1])) + 1)

\* While the program is in walk().
Walking ==
  walked # 0 =>
    /\ finalized = Never /\ outcome = "none"
    /\ prepared = [f \in Functors |-> Phases(f)[walked]]
    /\ due = [c \in Functors \X Items |-> Due(c[1], c[2])[walked]]
    /\ NextIsNext
    /\ Progress

\* While it is not.
Standing ==
  walked = 0 =>
    /\ parts = {}
    /\ \A k \in Workers : todo[k] = {} /\ queue[k] = <<>> /\ next[k] = 1

PreparedFirst == \A f \in Functors, x \in Items : applied[<<f, x>>] > 0 => prepared[f] > 0

Detected == (\E x \in DirichletBoundary : applied[<<Detector, x>>] > 0) => found_ > 0

Done == outcome = "done" => walked = 0 /\ prepared = finalized /\ applied = due

\* The inductive invariant.
IInv ==
  /\ TypeOK
  /\ ListsNest
  /\ VisitedOnce
  /\ Walking
  /\ Standing
  /\ PreparedFirst
  /\ Detected
  /\ Done

USE WalkerAssumption, ClassesAssumption, GridAssumption

-----------------------------------------------------------------------------
(* Recursion over walkers, from the largest number down. *)

LEMMA DownwardInduction ==
  ASSUME NEW P, \A w \in Walkers : (\A v \in Walkers : w < v => v \in P) => w \in P
  PROVE  Walkers \subseteq P
  <1> DEFINE Closed(U) == \A u \in U, v \in Walkers : u < v => v \in U
             Q == {U \in SUBSET Walkers : Closed(U) => U \subseteq P}
  <1>1. ASSUME NEW U \in SUBSET Walkers, \A V \in (SUBSET U) \ {U} : V \in Q
        PROVE  U \in Q
    <2> SUFFICES ASSUME Closed(U), U # {} PROVE U \subseteq P
      OBVIOUS
    <2>1. IsFiniteSet(U) /\ U \subseteq Nat
      BY FS_Subset
    <2>2. PICK m \in U : \A n \in U : m <= n
      BY <2>1, LeastMember
    <2>3. U \ {m} \in Q
      <3>1. U \ {m} \in (SUBSET U) \ {U}
        BY <2>2
      <3> HIDE DEF Q
      <3> QED
        BY <1>1, <3>1
    <2>4. Closed(U \ {m})
      BY <2>1, <2>2
    <2>5. U \ {m} \subseteq P
      BY <2>3, <2>4
    <2>6. \A v \in Walkers : m < v => v \in P
      BY <2>1, <2>2, <2>5
    <2>7. m \in P
      BY <2>2, <2>6
    <2> QED
      BY <2>5, <2>7
  <1>2. \A U \in SUBSET Walkers : U \in Q
    <2> HIDE DEF Q
    <2> QED
      BY <1>1, SubsetInduction
  <1>3. Closed(Walkers)
    OBVIOUS
  <1> QED
    BY <1>2, <1>3

\* A step that only looks at walkers of larger number has a fixed point.
LEMMA RecursionExists ==
  ASSUME NEW D, D # {}, NEW step \in [[Walkers -> D] -> [Walkers -> D]],
         \A c, d \in [Walkers -> D] : \A w \in Walkers :
           (\A v \in Walkers : w < v => c[v] = d[v]) => step[c][w] = step[d][w]
  PROVE  \E c \in [Walkers -> D] : c = step[c]
  <1> DEFINE Closed(U) == \A u \in U, v \in Walkers : u < v => v \in U
             Fixed(c, U) == \A v \in U : c[v] = step[c][v]
             Q == {U \in SUBSET Walkers : Closed(U) => \E c \in [Walkers -> D] : Fixed(c, U)}
  <1>1. ASSUME NEW U \in SUBSET Walkers, \A V \in (SUBSET U) \ {U} : V \in Q
        PROVE  U \in Q
    <2> SUFFICES ASSUME Closed(U) PROVE \E c \in [Walkers -> D] : Fixed(c, U)
      OBVIOUS
    <2>1. CASE U = {}
      <3>1. PICK d \in D : TRUE
        OBVIOUS
      <3>2. [w \in Walkers |-> d] \in [Walkers -> D]
        OBVIOUS
      <3> QED
        BY <2>1, <3>2
    <2>2. CASE U # {}
      <3>1. IsFiniteSet(U) /\ U \subseteq Nat
        BY FS_Subset
      <3>2. PICK m \in U : \A n \in U : m <= n
        BY <2>2, <3>1, LeastMember
      <3>3. U \ {m} \in Q
        <4>1. U \ {m} \in (SUBSET U) \ {U}
          BY <3>2
        <4> HIDE DEF Q
        <4> QED
          BY <1>1, <4>1
      <3>4. Closed(U \ {m})
        BY <3>1, <3>2
      <3>5. PICK c \in [Walkers -> D] : Fixed(c, U \ {m})
        BY <3>3, <3>4
      <3>6. PICK e : e = [c EXCEPT ![m] = step[c][m]]
        OBVIOUS
      <3>7. step[c] \in [Walkers -> D]
        OBVIOUS
      <3>8. e \in [Walkers -> D] /\ e[m] = step[c][m] /\ \A v \in Walkers : v # m => e[v] = c[v]
        BY <3>2, <3>6, <3>7
      <3>9. ASSUME NEW w \in U PROVE e[w] = step[e][w]
        <4>1. \A v \in Walkers : w < v => e[v] = c[v]
          BY <3>1, <3>2, <3>8
        <4>2. step[e][w] = step[c][w]
          BY <3>8, <4>1
        <4>3. CASE w = m
          BY <3>8, <4>2, <4>3
        <4>4. CASE w # m
          BY <3>5, <3>8, <4>2, <4>4
        <4> QED
          BY <4>3, <4>4
      <3> QED
        BY <3>8, <3>9
    <2> QED
      BY <2>1, <2>2
  <1>2. \A U \in SUBSET Walkers : U \in Q
    <2> HIDE DEF Q
    <2> QED
      BY <1>1, SubsetInduction
  <1>3. PICK c \in [Walkers -> D] : Fixed(c, Walkers)
    BY <1>2
  <1>4. step[c] \in [Walkers -> D]
    OBVIOUS
  <1>5. c = step[c]
    <2>1. c = [w \in Walkers |-> c[w]] /\ step[c] = [w \in Walkers |-> step[c][w]]
      BY <1>4
    <2> QED
      BY <1>3, <2>1
  <1> QED
    BY <1>5

-----------------------------------------------------------------------------
(* Entries of lists, and the items that walkers select. *)

\* The lists of all walkers are well-formed, and nest.
ListsTyped ==
  /\ codim0_functors_ \in [Walkers -> Seq(Entry(Codim0))]
  /\ codim1_functors_ \in [Walkers -> Seq(Entry(Codim1))]
  /\ ListsNest

AnEntry(e, w) ==
  /\ e.what \in Functors \cup Walkers
  /\ e.where \in SUBSET Items
  /\ e.what \in Walkers => w < e.what

LEMMA ListEntries ==
  ASSUME ListsTyped, NEW w \in Walkers, NEW x
  PROVE  /\ List(w, x) \in {codim0_functors_[w], codim1_functors_[w]}
         /\ Len(List(w, x)) \in Nat
         /\ DOMAIN List(w, x) = 1 .. Len(List(w, x))
         /\ IsFiniteSet(DOMAIN List(w, x))
         /\ \A i \in DOMAIN List(w, x) : AnEntry(List(w, x)[i], w)
  <1>1. codim0_functors_[w] \in Seq(Entry(Codim0)) /\ codim1_functors_[w] \in Seq(Entry(Codim1))
    BY DEF ListsTyped
  <1>2. ASSUME NEW F \in {Codim0, Codim1}, NEW e \in Entry(F)
        PROVE  e.what \in Functors \cup Walkers /\ e.where \in SUBSET Items
    BY DEF Entry, Functors
  <1>3. CASE x \in Entities
    <2>1. List(w, x) = codim0_functors_[w]
      BY <1>3 DEF List
    <2>2. DOMAIN List(w, x) = 1 .. Len(List(w, x)) /\ Len(List(w, x)) \in Nat
      BY <1>1, <2>1
    <2>3. \A i \in DOMAIN List(w, x) : List(w, x)[i] \in Entry(Codim0)
      BY <1>1, <2>1, <2>2
    <2>4. \A i \in DOMAIN List(w, x) : List(w, x)[i].what \in Walkers => w < List(w, x)[i].what
      BY <2>1 DEF ListsTyped, ListsNest, Nested
    <2>5. \A i \in DOMAIN List(w, x) : AnEntry(List(w, x)[i], w)
      BY <1>2, <2>3, <2>4 DEF AnEntry
    <2>6. IsFiniteSet(DOMAIN List(w, x))
      BY <2>2, FS_Interval
    <2> QED
      BY <2>1, <2>2, <2>5, <2>6
  <1>4. CASE x \notin Entities
    <2>1. List(w, x) = codim1_functors_[w]
      BY <1>4 DEF List
    <2>2. DOMAIN List(w, x) = 1 .. Len(List(w, x)) /\ Len(List(w, x)) \in Nat
      BY <1>1, <2>1
    <2>3. \A i \in DOMAIN List(w, x) : List(w, x)[i] \in Entry(Codim1)
      BY <1>1, <2>1, <2>2
    <2>4. \A i \in DOMAIN List(w, x) : List(w, x)[i].what \in Walkers => w < List(w, x)[i].what
      BY <2>1 DEF ListsTyped, ListsNest, Nested
    <2>5. \A i \in DOMAIN List(w, x) : AnEntry(List(w, x)[i], w)
      BY <1>2, <2>3, <2>4 DEF AnEntry
    <2>6. IsFiniteSet(DOMAIN List(w, x))
      BY <2>2, FS_Interval
    <2> QED
      BY <2>1, <2>2, <2>5, <2>6
  <1> QED
    BY <1>3, <1>4

LEMMA AllEntries ==
  ASSUME ListsTyped, NEW w \in Walkers
  PROVE  /\ IsFiniteSet(DOMAIN AllOf(w))
         /\ \A j \in DOMAIN AllOf(w) : AnEntry(AllOf(w)[j], w)
         /\ \A x : \A i \in DOMAIN List(w, x) : \E j \in DOMAIN AllOf(w) : AllOf(w)[j] = List(w, x)[i]
         /\ AllOf(w) = <<>> => \A x : List(w, x) = <<>>
  <1> DEFINE E == Entry(Codim0) \cup Entry(Codim1)
  <1>1. codim0_functors_[w] \in Seq(Entry(Codim0)) /\ codim1_functors_[w] \in Seq(Entry(Codim1))
    BY DEF ListsTyped
  <1>2. PICK c0, c1 : c0 = codim0_functors_[w] /\ c1 = codim1_functors_[w]
    OBVIOUS
  <1>3. c0 \in Seq(E) /\ c1 \in Seq(E)
    BY <1>1, <1>2
  <1>4. PICK all : all = AllOf(w)
    OBVIOUS
  <1>5. all = c0 \o c1
    BY <1>2, <1>4 DEF AllOf
  <1>6. /\ all \in Seq(E) /\ Len(all) = Len(c0) + Len(c1)
        /\ \A i \in 1 .. Len(all) : all[i] = IF i <= Len(c0) THEN c0[i] ELSE c1[i - Len(c0)]
    BY <1>3, <1>5, ConcatProperties
  <1>7. /\ Len(c0) \in Nat /\ Len(c1) \in Nat /\ DOMAIN c0 = 1 .. Len(c0) /\ DOMAIN c1 = 1 .. Len(c1)
        /\ DOMAIN all = 1 .. Len(all) /\ Len(all) \in Nat
    BY <1>3, <1>6
  <1>8. PICK x0 : x0 \in Entities \/ Entities = {}
    OBVIOUS
  <1>9. (\A i \in DOMAIN c0 : AnEntry(c0[i], w)) /\ (\A i \in DOMAIN c1 : AnEntry(c1[i], w))
    <2>1. ASSUME NEW F \in {Codim0, Codim1}, NEW e \in Entry(F)
          PROVE  e.what \in Functors \cup Walkers /\ e.where \in SUBSET Items
      BY DEF Entry, Functors
    <2>2. (\A i \in DOMAIN c0 : c0[i] \in Entry(Codim0)) /\ (\A i \in DOMAIN c1 : c1[i] \in Entry(Codim1))
      BY <1>1, <1>2, <1>7
    <2>3. /\ \A i \in DOMAIN c0 : c0[i].what \in Walkers => w < c0[i].what
          /\ \A i \in DOMAIN c1 : c1[i].what \in Walkers => w < c1[i].what
      BY <1>2 DEF ListsTyped, ListsNest, Nested
    <2> QED
      BY <2>1, <2>2, <2>3 DEF AnEntry
  <1>10. \A j \in DOMAIN all : AnEntry(all[j], w)
    <2> SUFFICES ASSUME NEW j \in DOMAIN all PROVE AnEntry(all[j], w)
      OBVIOUS
    <2>1. CASE j <= Len(c0)
      <3>1. all[j] = c0[j] /\ j \in DOMAIN c0
        BY <1>6, <1>7, <2>1
      <3> QED
        BY <1>9, <3>1
    <2>2. CASE ~(j <= Len(c0))
      <3>1. all[j] = c1[j - Len(c0)] /\ j - Len(c0) \in DOMAIN c1
        BY <1>6, <1>7, <2>2
      <3> QED
        BY <1>9, <3>1
    <2> QED
      BY <2>1, <2>2
  <1>11. ASSUME NEW x, NEW i \in DOMAIN List(w, x)
         PROVE  \E j \in DOMAIN all : all[j] = List(w, x)[i]
    <2>1. CASE x \in Entities
      <3>1. List(w, x) = c0
        BY <1>2, <2>1 DEF List
      <3>2. i \in DOMAIN all /\ all[i] = c0[i]
        BY <1>6, <1>7, <3>1
      <3> QED
        BY <3>1, <3>2
    <2>2. CASE x \notin Entities
      <3>1. List(w, x) = c1
        BY <1>2, <2>2 DEF List
      <3>2. i + Len(c0) \in DOMAIN all
        BY <1>6, <1>7, <3>1
      <3>3. all[i + Len(c0)] = c1[i]
        BY <1>6, <1>7, <3>1, <3>2
      <3> QED
        BY <3>1, <3>2, <3>3
    <2> QED
      BY <2>1, <2>2
  <1>12. ASSUME all = <<>>, NEW x
         PROVE  List(w, x) = <<>>
    <2>1. Len(all) = 0
      BY <1>12
    <2>2. Len(c0) = 0 /\ Len(c1) = 0
      BY <1>6, <1>7, <2>1
    <2>3. c0 = <<>> /\ c1 = <<>>
      BY <1>3, <2>2, EmptySeq
    <2> QED
      BY <1>2, <2>3 DEF List
  <1> QED
    BY <1>4, <1>7, <1>10, <1>11, <1>12, FS_Interval

\* What is selected by the entries of walker w, if c is what other walkers select.
Selects(c, e, x)   == x \in e.where /\ (e.what \in Walkers => x \in c[e.what])
SelectedFrom(c, w) == {x \in Items : \E e \in Range(List(w, x)) : Selects(c, e, x)}
IsSelection(c)     == c = [w \in Walkers |-> SelectedFrom(c, w)]

LEMMA SelectedIs ==
  ASSUME ListsTyped, NEW w \in Walkers
  PROVE  Selected[w] = SelectedFrom(Selected, w)
  <1> DEFINE D == SUBSET Items
             step == [c \in [Walkers -> D] |-> [v \in Walkers |-> SelectedFrom(c, v)]]
  <1>1. ASSUME NEW v \in Walkers, NEW x, NEW e \in Range(List(v, x))
        PROVE  AnEntry(e, v)
    BY ListEntries DEF Range
  <1>2. ASSUME NEW c \in [Walkers -> D], NEW v \in Walkers PROVE SelectedFrom(c, v) \in D
    BY DEF SelectedFrom
  <1>3. step \in [[Walkers -> D] -> [Walkers -> D]]
    BY <1>2
  <1>4. ASSUME NEW c \in [Walkers -> D], NEW d \in [Walkers -> D], NEW v \in Walkers,
               \A u \in Walkers : v < u => c[u] = d[u]
        PROVE  SelectedFrom(c, v) = SelectedFrom(d, v)
    <2>1. ASSUME NEW x, NEW e \in Range(List(v, x)) PROVE Selects(c, e, x) <=> Selects(d, e, x)
      <3>1. e.what \in Walkers => c[e.what] = d[e.what]
        BY <1>1, <1>4 DEF AnEntry
      <3> QED
        BY <3>1 DEF Selects
    <2> QED
      BY <2>1 DEF SelectedFrom
  <1>5. D # {}
    OBVIOUS
  <1>6. \A c, d \in [Walkers -> D] : \A v \in Walkers :
           (\A u \in Walkers : v < u => c[u] = d[u]) => step[c][v] = step[d][v]
    BY <1>4
  <1>7. PICK c \in [Walkers -> D] : c = step[c]
    <2> HIDE DEF D, step
    <2> QED
      BY <1>3, <1>5, <1>6, RecursionExists, ZenonT(60)
  <1>8. IsSelection(c)
    BY <1>7 DEF IsSelection
  <1>9. Selected = CHOOSE S : IsSelection(S)
    BY DEF Selected, SelectedFrom, Selects, IsSelection
  <1>10. IsSelection(Selected)
    BY <1>8, <1>9
  <1> QED
    BY <1>10 DEF IsSelection

-----------------------------------------------------------------------------
(* Counting what a walker comes to. *)

Finite(L) == \A w \in Walkers : IsFiniteSet(DOMAIN L[w])

\* What each entry of walker w counts, if C is what other walkers count.
CountBy(C, L, passes, f, w) ==
  [i \in DOMAIN L[w] |->
     IF i \notin passes[w] THEN 0
     ELSE IF L[w][i].what \in Walkers THEN C[L[w][i].what]
     ELSE IF L[w][i].what = f THEN 1 ELSE 0]
Total(C, L, passes, f, w) == SumFunctionOnSet(CountBy(C, L, passes, f, w), DOMAIN L[w])
IsCount(C, L, passes, f)  == C = [w \in Walkers |-> Total(C, L, passes, f, w)]

LEMMA TotalType ==
  ASSUME NEW L, Finite(L), Nested(L), NEW passes, NEW f, NEW C, NEW w \in Walkers,
         \A v \in Walkers : w < v => C[v] \in Nat
  PROVE  Total(C, L, passes, f, w) \in Nat
  <1>1. ASSUME NEW i \in DOMAIN L[w] PROVE CountBy(C, L, passes, f, w)[i] \in Nat
    <2>1. L[w][i].what \in Walkers => C[L[w][i].what] \in Nat
      BY DEF Nested
    <2> QED
      BY <2>1 DEF CountBy
  <1>2. IsFiniteSet(DOMAIN L[w])
    BY DEF Finite
  <1> QED
    BY <1>1, <1>2, SumType DEF Total

LEMMA TotalLooksAbove ==
  ASSUME NEW L, Nested(L), NEW passes, NEW f, NEW C, NEW D, NEW w \in Walkers,
         \A v \in Walkers : w < v => C[v] = D[v]
  PROVE  Total(C, L, passes, f, w) = Total(D, L, passes, f, w)
  <1>1. ASSUME NEW i \in DOMAIN L[w], L[w][i].what \in Walkers
        PROVE  C[L[w][i].what] = D[L[w][i].what]
    BY <1>1 DEF Nested
  <1>2. CountBy(C, L, passes, f, w) = CountBy(D, L, passes, f, w)
    BY <1>1 DEF CountBy
  <1> QED
    BY <1>2 DEF Total

LEMMA CountIs ==
  ASSUME NEW L, Finite(L), Nested(L), NEW passes, NEW f
  PROVE  /\ Count(L, passes, f) \in [Walkers -> Nat]
         /\ \A w \in Walkers : Count(L, passes, f)[w] = Total(Count(L, passes, f), L, passes, f, w)
  <1> DEFINE step == [c \in [Walkers -> Nat] |-> [v \in Walkers |-> Total(c, L, passes, f, v)]]
  <1>1. ASSUME NEW c \in [Walkers -> Nat], NEW v \in Walkers PROVE Total(c, L, passes, f, v) \in Nat
    BY TotalType
  <1>2. step \in [[Walkers -> Nat] -> [Walkers -> Nat]]
    BY <1>1
  <1>3. ASSUME NEW c \in [Walkers -> Nat], NEW d \in [Walkers -> Nat], NEW v \in Walkers,
               \A u \in Walkers : v < u => c[u] = d[u]
        PROVE  Total(c, L, passes, f, v) = Total(d, L, passes, f, v)
    BY <1>3, TotalLooksAbove
  <1>4. \A c, d \in [Walkers -> Nat] : \A v \in Walkers :
           (\A u \in Walkers : v < u => c[u] = d[u]) => step[c][v] = step[d][v]
    BY <1>3
  <1>5. PICK c \in [Walkers -> Nat] : c = step[c]
    <2> HIDE DEF step
    <2> QED
      BY <1>2, <1>4, RecursionExists
  <1>6. IsCount(c, L, passes, f)
    BY <1>5 DEF IsCount
  <1>7. Count(L, passes, f) = CHOOSE C : IsCount(C, L, passes, f)
    <2>1. ASSUME NEW C, NEW w
          PROVE  SumFunction(CountBy(C, L, passes, f, w)) = Total(C, L, passes, f, w)
      BY DEF SumFunction, Total, CountBy
    <2>2. Count(L, passes, f) = CHOOSE C : C = [w \in Walkers |-> SumFunction(CountBy(C, L, passes, f, w))]
      BY DEF Count, CountBy
    <2> QED
      BY <2>1, <2>2 DEF IsCount
  <1>8. PICK C : C = Count(L, passes, f)
    OBVIOUS
  <1>9. C = [w \in Walkers |-> Total(C, L, passes, f, w)]
    <2>1. IsCount(C, L, passes, f)
      BY <1>6, <1>7, <1>8
    <2> QED
      BY <2>1 DEF IsCount
  <1>10. \A w \in Walkers : C[w] = Total(C, L, passes, f, w)
    BY <1>9
  <1>11. Walkers \subseteq {w \in Walkers : C[w] \in Nat}
    <2>1. ASSUME NEW w \in Walkers, \A v \in Walkers : w < v => v \in {u \in Walkers : C[u] \in Nat}
          PROVE  C[w] \in Nat
      <3>1. \A v \in Walkers : w < v => C[v] \in Nat
        BY <2>1
      <3>2. Total(C, L, passes, f, w) \in Nat
        BY <3>1, TotalType
      <3> QED
        BY <1>10, <3>2
    <2>2. PICK P : P = {u \in Walkers : C[u] \in Nat}
      OBVIOUS
    <2>3. \A w \in Walkers : (\A v \in Walkers : w < v => v \in P) => w \in P
      BY <2>1, <2>2
    <2>4. Walkers \subseteq P
      BY <2>3, DownwardInduction
    <2> QED
      BY <2>2, <2>4
  <1>12. C \in [Walkers -> Nat]
    BY <1>9, <1>11
  <1> QED
    BY <1>8, <1>10, <1>12

-----------------------------------------------------------------------------
(* What the calls of a walker come to. *)

LEMMA ListsNestWell ==
  ASSUME ListsTyped, NEW x
  PROVE  Finite(Lists(x)) /\ Nested(Lists(x)) /\ \A w \in Walkers : Lists(x)[w] = List(w, x)
  <1>1. \A w \in Walkers : Lists(x)[w] = List(w, x)
    BY DEF Lists
  <1>2. ASSUME NEW w \in Walkers
        PROVE  IsFiniteSet(DOMAIN Lists(x)[w]) /\ \A i \in DOMAIN Lists(x)[w] : AnEntry(Lists(x)[w][i], w)
    BY <1>1, ListEntries
  <1> QED
    BY <1>1, <1>2 DEF Finite, Nested, AnEntry

LEMMA SharesAre ==
  ASSUME ListsTyped, NEW f \in Functors, NEW x, NEW w \in Walkers
  PROVE  /\ Calls(f, x)[w] = SumFunctionOnSet(Shares(w, f, x), DOMAIN List(w, x))
         /\ \A v \in Walkers : Calls(f, x)[v] \in Nat
         /\ \A i \in DOMAIN List(w, x) : Shares(w, f, x)[i] = Times(List(w, x)[i], f, x)
         /\ \A i \in DOMAIN List(w, x) : Shares(w, f, x)[i] \in Nat
  <1> DEFINE passes == [v \in Walkers |-> {i \in DOMAIN List(v, x) : apply_on(List(v, x)[i], x)}]
  <1>1. PICK C : C = Calls(f, x)
    OBVIOUS
  <1>2. C = Count(Lists(x), passes, f)
    BY <1>1 DEF Calls
  <1>3. C \in [Walkers -> Nat] /\ C[w] = Total(C, Lists(x), passes, f, w)
    <2> HIDE DEF passes
    <2> QED
      BY <1>2, ListsNestWell, CountIs
  <1>4. CountBy(C, Lists(x), passes, f, w) = Shares(w, f, x)
    <2>1. Lists(x)[w] = List(w, x)
      BY ListsNestWell
    <2>2. ASSUME NEW i \in DOMAIN List(w, x)
          PROVE  i \in passes[w] <=> apply_on(List(w, x)[i], x)
      OBVIOUS
    <2> QED
      BY <1>1, <2>1, <2>2 DEF CountBy, Shares, Times
  <1>5. \A i \in DOMAIN List(w, x) : Shares(w, f, x)[i] = Times(List(w, x)[i], f, x)
    BY DEF Shares
  <1>6. ASSUME NEW i \in DOMAIN List(w, x) PROVE Times(List(w, x)[i], f, x) \in Nat
    <2>1. PICK e : e = List(w, x)[i]
      OBVIOUS
    <2>2. e.what \in Walkers => Calls(f, x)[e.what] \in Nat
      <3>1. \A v \in Walkers : C[v] \in Nat
        BY <1>3
      <3> QED
        BY ONLY <1>1, <3>1
    <2>3. Times(e, f, x) \in Nat
      BY <2>2 DEF Times
    <2> QED
      BY <2>1, <2>3
  <1>7. C[w] = SumFunctionOnSet(Shares(w, f, x), DOMAIN List(w, x))
    BY <1>3, <1>4, ListsNestWell DEF Total
  <1> QED
    BY <1>1, <1>3, <1>5, <1>6, <1>7

\* What is not selected is not due.
LEMMA NotSelectedNotDue ==
  ASSUME ListsTyped, NEW f \in Functors, NEW x, NEW w \in Walkers
  PROVE  x \notin Selected[w] => Due(f, x)[w] = 0
  <1> DEFINE passes == [v \in Walkers |-> {i \in DOMAIN List(v, x) : x \in List(v, x)[i].where}]
             P == {v \in Walkers : x \notin Selected[v] => Due(f, x)[v] = 0}
  <1>1. PICK D : D = Due(f, x)
    OBVIOUS
  <1>2. D = Count(Lists(x), passes, f)
    BY <1>1 DEF Due
  <1>3. ASSUME NEW v \in Walkers, \A u \in Walkers : v < u => u \in P, x \notin Selected[v]
        PROVE  D[v] = 0
    <2>1. D[v] = Total(D, Lists(x), passes, f, v)
      <3> HIDE DEF passes
      <3> QED
        BY <1>2, ListsNestWell, CountIs
    <2>2. Lists(x)[v] = List(v, x) /\ IsFiniteSet(DOMAIN List(v, x))
      BY ListsNestWell, ListEntries
    <2>3. ASSUME NEW i \in DOMAIN List(v, x)
          PROVE  CountBy(D, Lists(x), passes, f, v)[i] = 0
      <3>1. PICK e : e = List(v, x)[i]
        OBVIOUS
      <3>2. AnEntry(e, v)
        BY <3>1, ListEntries
      <3>3. e \in Range(List(v, x))
        BY <3>1 DEF Range
      <3>4. x \in Items => ~Selects(Selected, e, x)
        <4>1. x \notin SelectedFrom(Selected, v)
          BY <1>3, SelectedIs
        <4> QED
          BY <3>3, <4>1 DEF SelectedFrom
      <3>5. i \in passes[v] => x \in e.where /\ x \in Items
        BY <3>1, <3>2 DEF AnEntry
      <3>6. CASE i \notin passes[v]
        BY <2>2, <3>6 DEF CountBy
      <3>7. CASE i \in passes[v]
        <4>1. e.what \in Walkers /\ x \notin Selected[e.what]
          BY <3>4, <3>5, <3>7 DEF Selects
        <4>2. D[e.what] = 0
          BY <1>1, <1>3, <3>2, <4>1 DEF AnEntry
        <4>3. Lists(x)[v][i] = e
          BY <2>2, <3>1
        <4> QED
          BY <2>2, <4>1, <4>2, <4>3 DEF CountBy
      <3> QED
        BY <3>6, <3>7
    <2> QED
      <3> HIDE DEF passes
      <3>1. SumFunctionOnSet(CountBy(D, Lists(x), passes, f, v), DOMAIN List(v, x)) = 0
        BY <2>2, <2>3, SumOfZeros
      <3> QED
        BY <2>1, <2>2, <3>1 DEF Total
  <1>4. Walkers \subseteq P
    <2>1. \A v \in Walkers : (\A u \in Walkers : v < u => u \in P) => v \in P
      BY <1>1, <1>3
    <2> HIDE DEF P
    <2> QED
      BY <2>1, DownwardInduction
  <1> QED
    BY <1>4

\* The predicates of nested walkers compose.
LEMMA CallsAreDue ==
  ASSUME ListsTyped, NEW f \in Functors, NEW x, NEW w \in Walkers
  PROVE  Calls(f, x)[w] = Due(f, x)[w] /\ Due(f, x)[w] \in Nat
  <1> DEFINE passes == [v \in Walkers |-> {i \in DOMAIN List(v, x) : x \in List(v, x)[i].where}]
             P == {v \in Walkers : Calls(f, x)[v] = Due(f, x)[v]}
  <1>1. PICK D : D = Due(f, x)
    OBVIOUS
  <1>2. D = Count(Lists(x), passes, f)
    BY <1>1 DEF Due
  <1>3. D \in [Walkers -> Nat]
    <2> HIDE DEF passes
    <2> QED
      BY <1>2, ListsNestWell, CountIs
  <1>4. ASSUME NEW v \in Walkers, \A u \in Walkers : v < u => u \in P
        PROVE  Calls(f, x)[v] = D[v]
    <2>1. D[v] = Total(D, Lists(x), passes, f, v)
      <3> HIDE DEF passes
      <3> QED
        BY <1>2, ListsNestWell, CountIs
    <2>2. Lists(x)[v] = List(v, x) /\ IsFiniteSet(DOMAIN List(v, x))
      BY ListsNestWell, ListEntries
    <2>3. ASSUME NEW i \in DOMAIN List(v, x)
          PROVE  CountBy(D, Lists(x), passes, f, v)[i] = Shares(v, f, x)[i]
      <3>1. PICK e : e = List(v, x)[i]
        OBVIOUS
      <3>2. AnEntry(e, v)
        BY <3>1, ListEntries
      <3>3. Shares(v, f, x)[i] = Times(e, f, x)
        BY ONLY ListsTyped, f \in Functors, v \in Walkers, i \in DOMAIN List(v, x), <3>1, SharesAre
      <3>4. i \in passes[v] <=> x \in e.where
        BY <3>1
      <3>5. Lists(x)[v][i] = e
        BY <2>2, <3>1
      <3>6. CASE e.what \in Walkers
        <4>1. Calls(f, x)[e.what] = D[e.what]
          BY <1>1, <1>4, <3>2, <3>6 DEF AnEntry
        <4>2. x \notin Selected[e.what] => D[e.what] = 0
          <5>1. PICK u \in Walkers : u = e.what
            BY <3>6
          <5>2. x \notin Selected[u] => Due(f, x)[u] = 0
            BY ONLY ListsTyped, f \in Functors, u \in Walkers, NotSelectedNotDue
          <5> QED
            BY <1>1, <5>1, <5>2
        <4>3. Times(e, f, x) = IF x \in e.where THEN D[e.what] ELSE 0
          BY <3>6, <4>1, <4>2 DEF Times, apply_on
        <4>4. CountBy(D, Lists(x), passes, f, v)[i] = IF x \in e.where THEN D[e.what] ELSE 0
          BY <2>2, <3>4, <3>5, <3>6 DEF CountBy
        <4> QED
          BY <3>3, <4>3, <4>4
      <3>7. CASE e.what \notin Walkers
        <4>1. Times(e, f, x) = IF x \in e.where /\ e.what = f THEN 1 ELSE 0
          BY <3>7 DEF Times, apply_on
        <4>2. CountBy(D, Lists(x), passes, f, v)[i] = IF x \in e.where /\ e.what = f THEN 1 ELSE 0
          BY <2>2, <3>4, <3>5, <3>7 DEF CountBy
        <4> QED
          BY <3>3, <4>1, <4>2
      <3> QED
        BY <3>6, <3>7
    <2>4. SumFunctionOnSet(Shares(v, f, x), DOMAIN List(v, x))
            = SumFunctionOnSet(CountBy(D, Lists(x), passes, f, v), DOMAIN List(v, x))
      <3>1. \A i \in DOMAIN List(v, x) : Shares(v, f, x)[i] \in Int
                                      /\ CountBy(D, Lists(x), passes, f, v)[i] = Shares(v, f, x)[i]
        BY <2>3, SharesAre
      <3> HIDE DEF passes
      <3> QED
        BY <2>2, <3>1, SumSame
    <2> QED
      BY <2>1, <2>2, <2>4, SharesAre DEF Total
  <1>5. Walkers \subseteq P
    <2>1. \A v \in Walkers : (\A u \in Walkers : v < u => u \in P) => v \in P
      BY <1>1, <1>4
    <2> HIDE DEF P
    <2> QED
      BY <2>1, DownwardInduction
  <1> QED
    BY <1>1, <1>3, <1>5

LEMMA SumPositive ==
  ASSUME NEW g, NEW S, IsFiniteSet(S), \A i \in S : g[i] \in Nat, NEW y \in S, g[y] > 0
  PROVE  SumFunctionOnSet(g, S) > 0
  <1>1. SumFunctionOnSet(g, S) = g[y] + SumFunctionOnSet(g, S \ {y})
    BY SumRemove
  <1>2. IsFiniteSet(S \ {y}) /\ \A i \in S \ {y} : g[i] \in Nat
    BY FS_RemoveElement
  <1>3. SumFunctionOnSet(g, S \ {y}) \in Nat
    BY ONLY <1>2, SumType
  <1> QED
    BY <1>1, <1>3

AllLists == [w \in Walkers |-> AllOf(w)]

LEMMA PhasesAre ==
  ASSUME ListsTyped, NEW f
  PROVE  /\ Phases(f) \in [Walkers -> Nat]
         /\ \A w \in Walkers : \A j \in DOMAIN AllOf(w) :
              \/ AllOf(w)[j].what = f /\ f \notin Walkers
              \/ AllOf(w)[j].what \in Walkers /\ Phases(f)[AllOf(w)[j].what] > 0
              => Phases(f)[w] > 0
  <1> DEFINE passes == [w \in Walkers |-> DOMAIN AllOf(w)]
  <1>1. PICK P : P = Phases(f)
    OBVIOUS
  <1>2. P = Count(AllLists, passes, f)
    BY <1>1 DEF Phases, AllLists
  <1>3. \A w \in Walkers : AllLists[w] = AllOf(w) /\ IsFiniteSet(DOMAIN AllOf(w))
    BY AllEntries DEF AllLists
  <1>4. Finite(AllLists) /\ Nested(AllLists)
    BY <1>3, AllEntries DEF Finite, Nested, AnEntry
  <1>5. P \in [Walkers -> Nat] /\ \A w \in Walkers : P[w] = Total(P, AllLists, passes, f, w)
    <2> HIDE DEF passes
    <2> QED
      BY <1>2, <1>4, CountIs
  <1>6. ASSUME NEW w \in Walkers, NEW j \in DOMAIN AllOf(w),
               \/ AllOf(w)[j].what = f /\ f \notin Walkers
               \/ AllOf(w)[j].what \in Walkers /\ P[AllOf(w)[j].what] > 0
        PROVE  P[w] > 0
    <2>1. PICK g : g = CountBy(P, AllLists, passes, f, w)
      OBVIOUS
    <2>2. g = [i \in DOMAIN AllOf(w) |->
                 IF AllOf(w)[i].what \in Walkers THEN P[AllOf(w)[i].what]
                 ELSE IF AllOf(w)[i].what = f THEN 1 ELSE 0]
      BY <1>3, <2>1 DEF CountBy
    <2>3. ASSUME NEW i \in DOMAIN AllOf(w) PROVE g[i] \in Nat
      <3>1. \A v \in Walkers : P[v] \in Nat
        BY <1>5
      <3> QED
        BY <2>2, <3>1, ZenonT(60)
    <2>4. g[j] > 0
      BY <1>6, <2>2
    <2>5. SumFunctionOnSet(g, DOMAIN AllOf(w)) > 0
      BY <1>3, <2>3, <2>4, SumPositive
    <2> QED
      BY <1>3, <1>5, <2>1, <2>5 DEF Total
  <1> QED
    BY <1>1, <1>5, <1>6

\* Who is called has been prepared.
LEMMA CalledIsPrepared ==
  ASSUME ListsTyped, NEW f \in Functors, NEW x, NEW w \in Walkers
  PROVE  /\ Phases(f)[w] \in Nat
         /\ Calls(f, x)[w] > 0 => Phases(f)[w] > 0
  <1> DEFINE P == {v \in Walkers : Calls(f, x)[v] > 0 => Phases(f)[v] > 0}
  <1>1. ASSUME NEW v \in Walkers, \A u \in Walkers : v < u => u \in P, Calls(f, x)[v] > 0
        PROVE  Phases(f)[v] > 0
    <2>1. PICK g : g = Shares(v, f, x)
      OBVIOUS
    <2>2. IsFiniteSet(DOMAIN List(v, x)) /\ Calls(f, x)[v] = SumFunctionOnSet(g, DOMAIN List(v, x))
      BY <2>1, ListEntries, SharesAre
    <2>3. PICK i \in DOMAIN List(v, x) : g[i] # 0
      <3>1. SUFFICES ASSUME \A i \in DOMAIN List(v, x) : g[i] = 0 PROVE FALSE
        OBVIOUS
      <3>2. SumFunctionOnSet(g, DOMAIN List(v, x)) = 0
        BY ONLY <2>2, <3>1, SumOfZeros
      <3> QED
        BY <1>1, <2>2, <3>2
    <2>4. PICK j \in DOMAIN AllOf(v) : AllOf(v)[j] = List(v, x)[i]
      BY AllEntries
    <2>5. PICK e : e = List(v, x)[i]
      OBVIOUS
    <2>6. AnEntry(e, v) /\ g[i] = Times(e, f, x) /\ g[i] \in Nat
      BY <2>1, <2>5, ListEntries, SharesAre
    <2>7. CASE e.what \in Walkers
      <3>1. PICK u \in Walkers : u = e.what
        BY <2>7
      <3>2. Calls(f, x)[u] > 0
        BY <2>3, <2>6, <2>7, <3>1 DEF Times
      <3>3. Phases(f)[u] > 0
        BY <1>1, <2>6, <3>1, <3>2 DEF AnEntry
      <3> QED
        BY <2>4, <2>5, <3>1, <3>3, PhasesAre
    <2>8. CASE e.what \notin Walkers
      <3>1. e.what = f /\ f \notin Walkers
        BY <2>3, <2>6, <2>8 DEF Times
      <3> QED
        BY <2>4, <2>5, <3>1, PhasesAre
    <2> QED
      BY <2>7, <2>8
  <1>2. Walkers \subseteq P
    <2>1. \A v \in Walkers : (\A u \in Walkers : v < u => u \in P) => v \in P
      BY <1>1
    <2> HIDE DEF P
    <2> QED
      BY <2>1, DownwardInduction
  <1> QED
    BY <1>2, PhasesAre

LEMMA NothingCalled ==
  ASSUME ListsTyped, NEW f \in Functors, NEW x, NEW w \in Walkers, List(w, x) = <<>>
  PROVE  Calls(f, x)[w] = 0
  <1>1. DOMAIN List(w, x) = {}
    OBVIOUS
  <1>2. Calls(f, x)[w] = SumFunctionOnSet(Shares(w, f, x), {})
    BY <1>1, SharesAre
  <1> QED
    BY <1>2, SumEmpty

\* One functor further in the list of an item, and at its end.
LEMMA SharesAddUp ==
  ASSUME ListsTyped, NEW f \in Functors, NEW x, NEW w \in Walkers
  PROVE  /\ SumFunctionOnSet(Shares(w, f, x), 1 .. 0) = 0
         /\ \A n \in DOMAIN List(w, x) :
              SumFunctionOnSet(Shares(w, f, x), 1 .. n)
                = SumFunctionOnSet(Shares(w, f, x), 1 .. (n - 1)) + Times(List(w, x)[n], f, x)
         /\ SumFunctionOnSet(Shares(w, f, x), 1 .. Len(List(w, x))) = Calls(f, x)[w]
         /\ \A n \in DOMAIN List(w, x) : Times(List(w, x)[n], f, x) > 0 => Calls(f, x)[w] > 0
         /\ \A n \in DOMAIN List(w, x) : Times(List(w, x)[n], f, x) \in Nat
  <1>1. PICK g, L : g = Shares(w, f, x) /\ L = List(w, x)
    OBVIOUS
  <1>2. Len(L) \in Nat /\ DOMAIN L = 1 .. Len(L) /\ IsFiniteSet(DOMAIN L)
    BY <1>1, ListEntries
  <1>3. /\ Calls(f, x)[w] = SumFunctionOnSet(g, DOMAIN L)
        /\ \A i \in DOMAIN L : g[i] = Times(L[i], f, x) /\ g[i] \in Nat
    BY <1>1, SharesAre
  <1>4. ASSUME NEW n \in DOMAIN L
        PROVE  SumFunctionOnSet(g, 1 .. n) = SumFunctionOnSet(g, 1 .. (n - 1)) + g[n]
    <2>1. n \in 1 .. n /\ (1 .. n) \ {n} = 1 .. (n - 1)
      BY <1>2
    <2>2. IsFiniteSet(1 .. n) /\ IsFiniteSet(1 .. (n - 1))
      BY <1>2, FS_Interval
    <2>3. \A i \in 1 .. n : g[i] \in Nat
      BY <1>2, <1>3
    <2>4. \A i \in 1 .. n : g[i] \in Int
      BY <2>3
    <2>5. SumFunctionOnSet(g, 1 .. n) = g[n] + SumFunctionOnSet(g, (1 .. n) \ {n})
      BY ONLY <2>1, <2>2, <2>4, SumRemove
    <2>6. \A i \in 1 .. (n - 1) : g[i] \in Nat
      BY <1>2, <2>3
    <2>7. SumFunctionOnSet(g, 1 .. (n - 1)) \in Nat
      BY ONLY <2>2, <2>6, SumType
    <2>8. SumFunctionOnSet(g, (1 .. n) \ {n}) = SumFunctionOnSet(g, 1 .. (n - 1))
      BY ONLY <2>1
    <2>9. PICK a \in Nat, b \in Nat : a = SumFunctionOnSet(g, 1 .. (n - 1)) /\ b = g[n]
      BY <2>1, <2>3, <2>7
    <2>10. SumFunctionOnSet(g, 1 .. n) = b + a
      BY ONLY <2>5, <2>8, <2>9
    <2>11. b + a = a + b
      OBVIOUS
    <2> QED
      BY ONLY <2>9, <2>10, <2>11
  <1>5. ASSUME NEW n \in DOMAIN L, g[n] > 0
        PROVE  SumFunctionOnSet(g, DOMAIN L) > 0
    BY <1>2, <1>3, <1>5, SumPositive
  <1>6. SumFunctionOnSet(g, 1 .. 0) = 0
    <2>1. 1 .. 0 = {}
      OBVIOUS
    <2> QED
      BY <2>1, SumEmpty
  <1> QED
    BY <1>1, <1>2, <1>3, <1>4, <1>5, <1>6

-----------------------------------------------------------------------------
(* The program fills and clears the lists. *)

LEMMA ListsStay ==
  ASSUME UNCHANGED lists
  PROVE  /\ ListsTyped => ListsTyped'
         /\ \A w, x : List(w, x)' = List(w, x) /\ AllOf(w)' = AllOf(w)
         /\ \A f, x : Calls(f, x)' = Calls(f, x) /\ Due(f, x)' = Due(f, x)
         /\ \A f : Phases(f)' = Phases(f)
         /\ \A e, f, x : Times(e, f, x)' = Times(e, f, x)
  <1>1. codim0_functors_' = codim0_functors_ /\ codim1_functors_' = codim1_functors_
    BY DEF lists
  <1>2. ListsTyped => ListsTyped'
    BY <1>1 DEF ListsTyped, ListsNest, Nested
  <1>3. \A w, x : List(w, x)' = List(w, x) /\ AllOf(w)' = AllOf(w)
    BY <1>1 DEF List, AllOf
  <1>4. Selected' = Selected
    BY <1>1 DEF Selected, List
  <1>5. \A e, x : apply_on(e, x)' = apply_on(e, x)
    BY <1>4 DEF apply_on
  <1>6. \A x : Lists(x)' = Lists(x)
    BY <1>3 DEF Lists
  <1>7. ASSUME NEW f, NEW x
        PROVE  Calls(f, x)' = Calls(f, x) /\ Due(f, x)' = Due(f, x)
    <2>1. [w \in Walkers |-> {i \in DOMAIN List(w, x) : apply_on(List(w, x)[i], x)}]'
            = [w \in Walkers |-> {i \in DOMAIN List(w, x) : apply_on(List(w, x)[i], x)}]
      BY <1>3, <1>5
    <2>2. [w \in Walkers |-> {i \in DOMAIN List(w, x) : x \in List(w, x)[i].where}]'
            = [w \in Walkers |-> {i \in DOMAIN List(w, x) : x \in List(w, x)[i].where}]
      BY <1>3
    <2> QED
      BY <1>6, <2>1, <2>2 DEF Calls, Due
  <1>8. \A f : Phases(f)' = Phases(f)
    BY <1>1 DEF Phases, AllOf
  <1>9. \A e, f, x : Times(e, f, x)' = Times(e, f, x)
    BY <1>5, <1>7 DEF Times
  <1> QED
    BY <1>2, <1>3, <1>7, <1>8, <1>9

MayAdd(w, e)      == e.what \in Walkers => w < e.what
Appended(L, w, e) == [L EXCEPT ![w] = Append(@, e)]

LEMMA AppendNests ==
  ASSUME NEW S, NEW L \in [Walkers -> Seq(S)], Nested(L),
         NEW w \in Walkers, NEW e \in S, MayAdd(w, e),
         NEW M, M = Appended(L, w, e)
  PROVE  M \in [Walkers -> Seq(S)] /\ Nested(M)
  <1>1. PICK l : l = L[w]
    OBVIOUS
  <1>2. l \in Seq(S) /\ Len(l) \in Nat /\ DOMAIN l = 1 .. Len(l)
    BY <1>1
  <1>3. PICK m : m = Append(l, e)
    OBVIOUS
  <1>4. /\ m \in Seq(S) /\ Len(m) = Len(l) + 1 /\ DOMAIN m = 1 .. Len(m)
        /\ \A i \in 1 .. Len(l) : m[i] = l[i]
        /\ m[Len(l) + 1] = e
    BY <1>2, <1>3, AppendProperties
  <1>5. M \in [Walkers -> Seq(S)] /\ M[w] = m /\ \A v \in Walkers : v # w => M[v] = L[v]
    BY <1>1, <1>3, <1>4 DEF Appended
  <1>6. ASSUME NEW v \in Walkers, NEW i \in DOMAIN M[v], M[v][i].what \in Walkers
        PROVE  v < M[v][i].what
    <2>1. CASE v # w
      BY <1>5, <1>6, <2>1 DEF Nested
    <2>2. CASE v = w /\ i \in 1 .. Len(l)
      <3>1. M[v][i] = L[w][i] /\ i \in DOMAIN L[w]
        BY <1>1, <1>2, <1>4, <1>5, <2>2
      <3> QED
        BY <1>6, <2>2, <3>1 DEF Nested
    <2>3. CASE v = w /\ i \notin 1 .. Len(l)
      <3>1. i = Len(l) + 1
        BY <1>2, <1>4, <1>5, <2>3
      <3> QED
        BY <1>4, <1>5, <1>6, <2>3, <3>1 DEF MayAdd
    <2> QED
      BY <2>1, <2>2, <2>3
  <1> QED
    BY <1>5, <1>6 DEF Nested

LEMMA ClearedNests ==
  ASSUME NEW S, NEW L \in [Walkers -> Seq(S)], Nested(L),
         NEW w \in Walkers, NEW M, M = [L EXCEPT ![w] = <<>>]
  PROVE  M \in [Walkers -> Seq(S)] /\ Nested(M)
  <1>1. <<>> \in Seq(S) /\ DOMAIN <<>> = {}
    BY EmptySeq
  <1>2. M \in [Walkers -> Seq(S)] /\ M[w] = <<>> /\ \A v \in Walkers : v # w => M[v] = L[v]
    BY <1>1
  <1> QED
    BY <1>1, <1>2 DEF Nested

\* Nothing but the lists matters while the program is not in walk().
LEMMA RestStays ==
  ASSUME IInv, Idle, Rest, ListsTyped'
  PROVE  IInv'
  <1>1. TypeOK'
    BY DEF IInv, TypeOK, ListsTyped, Rest, workers, counts
  <1>2. ListsNest'
    BY DEF ListsTyped
  <1>3. VisitedOnce'
    <2>1. parts' = parts /\ todo' = todo /\ queue' = queue
      BY DEF Rest, workers
    <2>2. \A k : Queued(k)' = Queued(k) /\ Pending(k)' = Pending(k)
      BY <2>1 DEF Queued, Pending, Owner
    <2> QED
      BY <2>1, <2>2 DEF IInv, VisitedOnce
  <1>4. Walking' /\ Standing'
    BY DEF IInv, Walking, Standing, Idle, Rest, workers
  <1>5. PreparedFirst' /\ Detected' /\ Done'
    BY DEF IInv, PreparedFirst, Detected, Done, Rest, counts
  <1> QED
    BY <1>1, <1>2, <1>3, <1>4, <1>5 DEF IInv

LEMMA Filling ==
  ASSUME IInv, NEW w \in Walkers, NEW where \in Wheres
  PROVE  /\ \A f \in Codim0 : AddCodim0(w, f, where) => IInv'
         /\ \A f \in Codim1 : AddCodim1(w, f, where) => IInv'
         /\ \A what \in Codim0And1 \cup Walkers : AddBoth(w, what, where) => IInv'
  <1>1. /\ codim0_functors_ \in [Walkers -> Seq(Entry(Codim0))] /\ Nested(codim0_functors_)
        /\ codim1_functors_ \in [Walkers -> Seq(Entry(Codim1))] /\ Nested(codim1_functors_)
    BY DEF IInv, TypeOK, ListsNest
  <1>2. ASSUME NEW f \in Codim0, AddCodim0(w, f, where) PROVE IInv'
    <2>1. PICK e : e = [what |-> f, where |-> where]
      OBVIOUS
    <2>2. e \in Entry(Codim0) /\ MayAdd(w, e)
      BY <2>1 DEF Entry, Functors, MayAdd
    <2>3. codim0_functors_' = Appended(codim0_functors_, w, e)
      BY <1>2, <2>1 DEF AddCodim0, Add0, Appended
    <2>4. ListsTyped'
      <3>1. codim0_functors_' \in [Walkers -> Seq(Entry(Codim0))] /\ Nested(codim0_functors_')
        BY ONLY <1>1, <2>2, <2>3, w \in Walkers, AppendNests
      <3> QED
        BY <1>1, <1>2, <3>1 DEF ListsTyped, ListsNest, Nested, AddCodim0
    <2> QED
      BY <1>2, <2>4, RestStays DEF AddCodim0
  <1>3. ASSUME NEW f \in Codim1, AddCodim1(w, f, where) PROVE IInv'
    <2>1. PICK e : e = [what |-> f, where |-> where]
      OBVIOUS
    <2>2. e \in Entry(Codim1) /\ MayAdd(w, e)
      BY <2>1 DEF Entry, Functors, MayAdd
    <2>3. codim1_functors_' = Appended(codim1_functors_, w, e)
      BY <1>3, <2>1 DEF AddCodim1, Add1, Appended
    <2>4. ListsTyped'
      <3>1. codim1_functors_' \in [Walkers -> Seq(Entry(Codim1))] /\ Nested(codim1_functors_')
        BY ONLY <1>1, <2>2, <2>3, w \in Walkers, AppendNests
      <3> QED
        BY <1>1, <1>3, <3>1 DEF ListsTyped, ListsNest, Nested, AddCodim1
    <2> QED
      BY <1>3, <2>4, RestStays DEF AddCodim1
  <1>4. ASSUME NEW what \in Codim0And1 \cup Walkers, AddBoth(w, what, where) PROVE IInv'
    <2>1. PICK e : e = [what |-> what, where |-> where]
      OBVIOUS
    <2>2. e \in Entry(Codim0) /\ e \in Entry(Codim1) /\ MayAdd(w, e)
      BY <1>4, <2>1 DEF Entry, AddBoth, MayAdd
    <2>3. /\ codim0_functors_' = Appended(codim0_functors_, w, e)
          /\ codim1_functors_' = Appended(codim1_functors_, w, e)
      BY <1>4, <2>1 DEF AddBoth, Add0, Add1, Appended
    <2>4. codim0_functors_' \in [Walkers -> Seq(Entry(Codim0))] /\ Nested(codim0_functors_')
      <3>1. codim0_functors_' = Appended(codim0_functors_, w, e)
        BY <2>3
      <3>2. e \in Entry(Codim0) /\ MayAdd(w, e)
        BY <2>2
      <3>3. codim0_functors_ \in [Walkers -> Seq(Entry(Codim0))] /\ Nested(codim0_functors_)
        BY <1>1
      <3> QED
        BY ONLY <3>1, <3>2, <3>3, w \in Walkers, AppendNests
    <2>5. codim1_functors_' \in [Walkers -> Seq(Entry(Codim1))] /\ Nested(codim1_functors_')
      <3>1. codim1_functors_' = Appended(codim1_functors_, w, e)
        BY <2>3
      <3>2. e \in Entry(Codim1) /\ MayAdd(w, e)
        BY <2>2
      <3>3. codim1_functors_ \in [Walkers -> Seq(Entry(Codim1))] /\ Nested(codim1_functors_)
        BY <1>1
      <3> QED
        BY ONLY <3>1, <3>2, <3>3, w \in Walkers, AppendNests
    <2>6. ListsTyped'
      BY <2>4, <2>5 DEF ListsTyped, ListsNest, Nested
    <2> QED
      BY <1>4, <2>6, RestStays DEF AddBoth
  <1> QED
    BY <1>2, <1>3, <1>4

LEMMA Clearing ==
  ASSUME IInv, NEW w \in Walkers, clear(w)
  PROVE  IInv'
  <1>1. codim0_functors_' \in [Walkers -> Seq(Entry(Codim0))] /\ Nested(codim0_functors_')
    <2>1. codim0_functors_' = [codim0_functors_ EXCEPT ![w] = <<>>]
      BY DEF clear
    <2>2. codim0_functors_ \in [Walkers -> Seq(Entry(Codim0))] /\ Nested(codim0_functors_)
      BY DEF IInv, TypeOK, ListsNest
    <2> QED
      BY ONLY <2>1, <2>2, w \in Walkers, ClearedNests
  <1>2. codim1_functors_' \in [Walkers -> Seq(Entry(Codim1))] /\ Nested(codim1_functors_')
    <2>1. codim1_functors_' = [codim1_functors_ EXCEPT ![w] = <<>>]
      BY DEF clear
    <2>2. codim1_functors_ \in [Walkers -> Seq(Entry(Codim1))] /\ Nested(codim1_functors_)
      BY DEF IInv, TypeOK, ListsNest
    <2> QED
      BY ONLY <2>1, <2>2, w \in Walkers, ClearedNests
  <1>3. ListsTyped'
    BY <1>1, <1>2 DEF ListsTyped, ListsNest, Nested
  <1> QED
    BY <1>3, RestStays DEF clear

LEMMA InitIInv == Init => IInv
  <1> SUFFICES ASSUME Init PROVE IInv
    OBVIOUS
  <1>1. TypeOK
    <2>1. \A F : <<>> \in Seq(F)
      BY EmptySeq
    <2> QED
      BY <2>1 DEF Init, TypeOK, Never
  <1>2. DOMAIN <<>> = {}
    OBVIOUS
  <1>3. ListsNest
    BY <1>2 DEF Init, ListsNest, Nested
  <1>4. VisitedOnce
    BY <1>2 DEF Init, VisitedOnce, Pending, Queued
  <1>5. Walking /\ Standing
    BY DEF Init, Walking, Standing
  <1>6. PreparedFirst /\ Detected /\ Done
    <2>1. \A f \in Functors, x \in Items : applied[<<f, x>>] = 0
      BY DEF Init
    <2>2. \A x \in DirichletBoundary : Detector \in Functors /\ x \in Items
      BY DEF Functors, Items
    <2>3. ~(0 > 0) /\ "none" # "done"
      OBVIOUS
    <2>4. PreparedFirst
      BY <2>1, <2>3 DEF PreparedFirst
    <2>5. Detected
      BY <2>1, <2>2, <2>3 DEF Detected
    <2>6. Done
      BY <2>3 DEF Init, Done
    <2> QED
      BY <2>4, <2>5, <2>6
  <1> QED
    BY <1>1, <1>3, <1>4, <1>5, <1>6 DEF IInv

-----------------------------------------------------------------------------
(* The program walks. *)

LEMMA OwnerType == \A x \in Items : Owner(x) \in Entities
  BY DEF Owner, Items

LEMMA Preparing ==
  ASSUME IInv, NEW w \in Walkers, prepare(w)
  PROVE  IInv'
  <1>1. Idle /\ w # 0 /\ UNCHANGED <<lists, todo, queue, next, loaded, found_>> /\ walked' = w
    BY DEF prepare
  <1>2. ListsTyped /\ parts = {} /\ \A k \in Workers : todo[k] = {} /\ queue[k] = <<>> /\ next[k] = 1
    BY <1>1 DEF IInv, TypeOK, ListsTyped, Standing, Idle
  <1>3. /\ \A x : List(w, x)' = List(w, x)
        /\ \A f, x : Calls(f, x)' = Calls(f, x) /\ Due(f, x)' = Due(f, x)
        /\ \A f : Phases(f)' = Phases(f)
    BY <1>1, ListsStay
  <1>4. /\ \A f \in Functors : prepared'[f] = Phases(f)[w]
        /\ \A f \in Functors, x \in Items : applied'[<<f, x>>] = 0
    BY DEF prepare
  <1>5. TypeOK'
    <2>1. codim0_functors_' \in [Walkers -> Seq(Entry(Codim0))] /\ codim1_functors_' \in [Walkers -> Seq(Entry(Codim1))]
      BY <1>1, <1>2 DEF lists, ListsTyped
    <2>2. parts' \subseteq Partitions
      BY DEF prepare
    <2>3. prepared' \in [Functors -> Nat]
      <3>1. \A f \in Functors : Phases(f)[w] \in Nat
        BY <1>2, CalledIsPrepared
      <3> QED
        BY <3>1 DEF prepare
    <2>4. due' \in [Functors \X Items -> Nat]
      <3>1. \A f \in Functors, x \in Items : Due(f, x)[w] \in Nat
        BY <1>2, CallsAreDue
      <3> QED
        BY <3>1 DEF prepare
    <2>5. applied' \in [Functors \X Items -> Nat] /\ finalized' \in [Functors -> Nat]
      BY DEF prepare, Never
    <2>6. outcome' = "none"
      BY DEF prepare
    <2> QED
      BY <1>1, <2>1, <2>2, <2>3, <2>4, <2>5, <2>6, SMTT(60) DEF IInv, TypeOK
  <1>6. ListsNest'
    BY <1>1, <1>2, ListsStay DEF ListsTyped
  <1>7. VisitedOnce'
    <2>1. DOMAIN <<>> = {}
      OBVIOUS
    <2>2. \A k \in Workers : Queued(k)' = {} /\ todo'[k] = {} /\ queue'[k] = <<>>
      BY <1>1, <1>2, <2>1 DEF Queued
    <2>3. \A k \in Workers : Pending(k)' = {}
      BY <2>2 DEF Pending
    <2> QED
      BY <2>1, <2>2, <2>3 DEF VisitedOnce
  <1>8. Progress'
    <2> SUFFICES ASSUME NEW f \in Functors, NEW x \in Items PROVE Right(f, x)'
      BY DEF Progress
    <2>1. DOMAIN <<>> = {}
      OBVIOUS
    <2>2. \A k \in Workers : DOMAIN queue'[k] = {}
      BY <1>1, <1>2, <2>1
    <2>3. applied'[<<f, x>>] = 0
      BY <1>4
    <2>4. ASSUME ~Waiting(x)' PROVE InAll(f, x)' = 0
      <3>1. AllOf(w) = <<>>
        <4> SUFFICES ASSUME AllOf(w) # <<>> PROVE FALSE
          OBVIOUS
        <4>1. UNION parts' = Entities
          BY DEF prepare
        <4>2. Owner(x)' = Owner(x) /\ Owner(x) \in Entities
          BY OwnerType DEF Owner
        <4> QED
          BY <2>4, <4>1, <4>2 DEF Waiting
      <3>2. List(w, x) = <<>>
        BY <1>2, <3>1, AllEntries
      <3>3. Calls(f, x)[w] = 0
        <4>1. ListsTyped
          BY <1>2
        <4> QED
          BY ONLY <3>2, <4>1, f \in Functors, w \in Walkers, NothingCalled
      <3> QED
        BY <1>1, <1>3, <3>3 DEF InAll
    <2> QED
      BY <2>2, <2>3, <2>4 DEF Right
  <1>9. Walking'
    <2>1. finalized' = Never /\ outcome' = "none"
      BY DEF prepare
    <2>2. Never' = Never
      BY DEF Never
    <2>3. prepared' = [f \in Functors |-> Phases(f)[w]] /\ due' = [c \in Functors \X Items |-> Due(c[1], c[2])[w]]
      BY DEF prepare
    <2>4. \A f : Phases(f)'[walked'] = Phases(f)[w]
      BY <1>1, <1>3
    <2>5. \A f, x : Due(f, x)'[walked'] = Due(f, x)[w]
      BY <1>1, <1>3
    <2>6. NextIsNext'
      BY <1>1, <1>2 DEF NextIsNext
    <2>7. prepared' = [f \in Functors |-> Phases(f)'[walked']] /\ due' = [c \in Functors \X Items |-> Due(c[1], c[2])'[walked']]
      BY <2>3, <2>4, <2>5
    <2> QED
      BY <1>8, <2>1, <2>2, <2>6, <2>7 DEF Walking
  <1>10. Standing'
    BY <1>1 DEF Standing
  <1>11. PreparedFirst' /\ Detected'
    <2>1. \A x \in DirichletBoundary : Detector \in Functors /\ x \in Items
      BY DEF Functors, Items
    <2>2. ~(0 > 0)
      OBVIOUS
    <2> QED
      BY <1>4, <2>1, <2>2 DEF PreparedFirst, Detected
  <1>12. Done'
    <2>1. outcome' # "done"
      BY DEF prepare
    <2> QED
      BY <2>1 DEF Done
  <1> QED
    BY <1>5, <1>6, <1>7, <1>9, <1>10, <1>11, <1>12 DEF IInv

-----------------------------------------------------------------------------
(* The workers visit. *)

\* What no worker changes.
Given == <<lists, walked, prepared, finalized, due, outcome>>

LEMMA GivenStays ==
  ASSUME IInv, walked # 0, UNCHANGED Given
  PROVE  /\ \A x : List(walked, x)' = List(walked, x)
         /\ \A f, x, n : SoFar(f, x, n)' = SoFar(f, x, n) /\ InAll(f, x)' = InAll(f, x)
         /\ TypeOK' /\ VisitedOnce' /\ NextIsNext' /\ Progress' /\ PreparedFirst' /\ Detected' => IInv'
  <1>1. /\ walked' = walked /\ UNCHANGED lists
        /\ prepared' = prepared /\ finalized' = finalized /\ due' = due /\ outcome' = outcome
    BY DEF Given
  <1>2. ListsTyped
    BY DEF IInv, TypeOK, ListsTyped
  <1>3. /\ ListsTyped'
        /\ \A w, x : List(w, x)' = List(w, x)
        /\ \A f, x : Calls(f, x)' = Calls(f, x) /\ Due(f, x)' = Due(f, x)
        /\ \A f : Phases(f)' = Phases(f)
        /\ \A e, f, x : Times(e, f, x)' = Times(e, f, x)
    BY <1>1, <1>2, ListsStay
  <1>4. \A x : List(walked, x)' = List(walked, x)
    BY <1>1, <1>3 DEF List, lists
  <1>5. ASSUME NEW f, NEW x, NEW n
        PROVE  SoFar(f, x, n)' = SoFar(f, x, n) /\ InAll(f, x)' = InAll(f, x)
    <2>1. Shares(walked, f, x)' = Shares(walked, f, x)
      BY <1>3, <1>4 DEF Shares
    <2>2. Calls(f, x)'[walked'] = Calls(f, x)[walked]
      BY <1>1, <1>3
    <2> QED
      BY <2>1, <2>2 DEF SoFar, InAll
  <1>6. /\ finalized' = Never' /\ outcome' = "none"
        /\ prepared' = [f \in Functors |-> Phases(f)'[walked']]
        /\ due' = [c \in Functors \X Items |-> Due(c[1], c[2])'[walked']]
    <2>1. /\ finalized = Never /\ outcome = "none"
          /\ prepared = [f \in Functors |-> Phases(f)[walked]]
          /\ due = [c \in Functors \X Items |-> Due(c[1], c[2])[walked]]
      BY DEF IInv, Walking
    <2>2. \A f, x : Phases(f)'[walked'] = Phases(f)[walked] /\ Due(f, x)'[walked'] = Due(f, x)[walked]
      BY <1>1, <1>3
    <2> QED
      BY <1>1, <2>1, <2>2 DEF Never
  <1>7. ASSUME TypeOK', VisitedOnce', NextIsNext', Progress', PreparedFirst', Detected'
        PROVE  IInv'
    <2>1. ListsNest'
      BY <1>3 DEF ListsTyped
    <2>2. Walking'
      BY <1>6, <1>7 DEF Walking
    <2>3. Standing' /\ Done'
      BY <1>1, <1>6 DEF Standing, Done
    <2> QED
      BY <1>7, <2>1, <2>2, <2>3 DEF IInv
  <1> QED
    BY <1>4, <1>5, <1>7

LEMMA NextStays ==
  ASSUME IInv, walked # 0, UNCHANGED Given
  PROVE  /\ \A x : Len(List(walked, x)) \in Nat /\ DOMAIN List(walked, x) = 1 .. Len(List(walked, x))
         /\ (\A k \in Workers : IF queue'[k] = <<>> THEN next'[k] = 1
                                ELSE next'[k] \in 1 .. (Len(List(walked, queue'[k][1])) + 1))
              => NextIsNext'
  <1>1. ListsTyped /\ walked \in Walkers
    BY DEF IInv, TypeOK, ListsTyped
  <1>2. UNCHANGED <<codim0_functors_, codim1_functors_, walked>>
    BY DEF Given, lists
  <1>3. \A x : Len(List(walked, x)) \in Nat /\ DOMAIN List(walked, x) = 1 .. Len(List(walked, x))
    BY <1>1, ListEntries
  <1> QED
    BY <1>2, <1>3 DEF NextIsNext, List

\* Only a walk has work.
LEMMA WorkIsWalk ==
  ASSUME IInv, NEW k \in Workers, Visit(k) \/ Throw(k)
  PROVE  walked # 0
  <1> SUFFICES ASSUME walked = 0 PROVE FALSE
    OBVIOUS
  <1>1. parts = {} /\ todo[k] = {} /\ queue[k] = <<>>
    BY DEF IInv, Standing
  <1> QED
    BY <1>1 DEF Visit, Throw, TakePartition, TakeEntity, Load, apply_local, NextItem, Working

LEMMA QueueType ==
  ASSUME TypeOK, NEW k \in Workers
  PROVE  /\ queue[k] \in Seq(Items) /\ Len(queue[k]) \in Nat /\ DOMAIN queue[k] = 1 .. Len(queue[k])
         /\ \A i \in DOMAIN queue[k] : queue[k][i] \in Items
         /\ todo[k] \subseteq Entities
  <1>1. queue[k] \in Seq(Items) /\ todo[k] \subseteq Entities
    BY DEF TypeOK
  <1> QED
    BY <1>1, ElementOfSeq

LEMMA TakingPartition ==
  ASSUME IInv, NEW k \in Workers, TakePartition(k)
  PROVE  IInv'
  <1>1. walked # 0
    BY WorkIsWalk DEF Visit
  <1>2. UNCHANGED Given
    BY DEF TakePartition, Given, counts
  <1>3. /\ UNCHANGED <<queue, next, loaded, found_, applied>>
        /\ queue[k] = <<>> /\ todo[k] = {}
    BY DEF TakePartition, counts, Resting
  <1>4. PICK p \in parts : parts' = parts \ {p} /\ todo' = [todo EXCEPT ![k] = p]
    BY DEF TakePartition
  <1>5. parts \subseteq Partitions /\ p \subseteq Entities /\ todo \in [Workers -> SUBSET Entities]
    BY DEF IInv, TypeOK
  <1>6. todo'[k] = p /\ \A j \in Workers : j # k => todo'[j] = todo[j]
    BY <1>4, <1>5
  <1>7. UNION parts = p \cup UNION parts' /\ p \cap UNION parts' = {}
    BY <1>4, <1>5
  <1>8. TypeOK'
    <2>1. UNCHANGED <<lists, walked, counts, outcome>>
      BY DEF TakePartition
    <2>2. parts' \subseteq Partitions /\ todo' \in [Workers -> SUBSET Entities]
      BY <1>4, <1>5
    <2> QED
      BY <1>3, <2>1, <2>2 DEF IInv, TypeOK, lists, counts
  <1>9. \A x : Owner(x)' = Owner(x)
    BY DEF Owner
  <1>10. VisitedOnce'
    <2>1. \A j : Queued(j)' = Queued(j)
      BY <1>3, <1>9 DEF Queued
    <2>2. Queued(k) = {}
      BY <1>3 DEF Queued
    <2>3. Pending(k)' = p /\ \A j \in Workers : j # k => Pending(j)' = Pending(j)
      BY <1>6, <2>1, <2>2 DEF Pending
    <2>4. ASSUME NEW j \in Workers
          PROVE  /\ todo'[j] \cap Queued(j)' = {}
                 /\ Pending(j)' \cap UNION parts' = {}
                 /\ j # k => Pending(j)' \cap p = {}
      BY <1>6, <1>7, <2>1, <2>2, <2>3 DEF IInv, VisitedOnce
    <2>5. \A i, j \in Workers : j # i => Pending(j)' \cap Pending(i)' = {}
      BY <2>3, <2>4 DEF IInv, VisitedOnce
    <2>6. \A j \in Workers : \A m, n \in DOMAIN queue'[j] : queue'[j][m] = queue'[j][n] => m = n
      BY <1>3 DEF IInv, VisitedOnce
    <2> QED
      BY <2>4, <2>5, <2>6 DEF VisitedOnce
  <1>11. NextIsNext'
    BY <1>1, <1>2, <1>3, GivenStays DEF IInv, Walking, NextIsNext
  <1>12. Progress'
    <2> SUFFICES ASSUME NEW f \in Functors, NEW x \in Items PROVE Right(f, x)'
      BY DEF Progress
    <2>1. Right(f, x)
      BY <1>1 DEF IInv, Walking, Progress
    <2>2. Waiting(x)' <=> Waiting(x)
      BY <1>3, <1>6, <1>7, <1>9 DEF Waiting
    <2>3. InQueue(x)' <=> InQueue(x)
      BY <1>3 DEF InQueue
    <2>4. \A n : SoFar(f, x, n)' = SoFar(f, x, n) /\ InAll(f, x)' = InAll(f, x)
      BY <1>1, <1>2, GivenStays
    <2> QED
      BY <1>3, <2>1, <2>2, <2>3, <2>4 DEF Right
  <1>13. PreparedFirst' /\ Detected'
    BY <1>2, <1>3 DEF IInv, PreparedFirst, Detected, Given
  <1> QED
    BY <1>1, <1>2, <1>8, <1>10, <1>11, <1>12, <1>13, GivenStays

\* The items of an entity are put in any order, each once.
LEMMA OrderProperties ==
  ASSUME NEW S, IsFiniteSet(S), NEW order \in SetToSeqs(S)
  PROVE  /\ order \in Seq(S)
         /\ \A i, j \in DOMAIN order : order[i] = order[j] => i = j
         /\ \A s \in S : \E i \in DOMAIN order : order[i] = s
  <1>1. PICK n : n = Cardinality(S)
    OBVIOUS
  <1>2. n \in Nat
    BY <1>1, FS_CardinalityType
  <1>3. order \in [1 .. n -> S] /\ \A i, j \in 1 .. n : i # j => order[i] # order[j]
    BY <1>1 DEF SetToSeqs
  <1>4. order \in Injection(1 .. n, S)
    BY <1>3 DEF Injection, IsInjective
  <1>5. IsFiniteSet(1 .. n) /\ Cardinality(1 .. n) = n
    BY <1>2, FS_Interval
  <1>6. order \in Surjection(1 .. n, S)
    BY <1>1, <1>4, <1>5, FS_Injection
  <1>7. order \in Seq(S)
    BY <1>2, <1>3
  <1> QED
    BY <1>3, <1>6, <1>7 DEF Surjection

SidesOf(e) == {i \in Intersections : Inside[i] = e}

\* The queue that a worker makes of an entity.
IsQueueOf(q, e, sides) ==
  /\ q \in Seq(Items) /\ Len(q) \in Nat \ {0} /\ DOMAIN q = 1 .. Len(q)
  /\ q[1] = e
  /\ \A i \in DOMAIN q : q[i] \in {e} \cup sides /\ Owner(q[i]) = e
  /\ \A i, j \in DOMAIN q : q[i] = q[j] => i = j
  /\ \A x \in {e} \cup sides : \E i \in DOMAIN q : q[i] = x

LEMMA EntityQueue ==
  ASSUME NEW e \in Entities, NEW sides \in SUBSET SidesOf(e),
         NEW order \in SetToSeqs(sides), NEW q, q = <<e>> \o order
  PROVE  IsQueueOf(q, e, sides)
  <1> USE DEF SidesOf
  <1>1. IsFiniteSet(sides)
    BY FS_Subset
  <1>2. /\ order \in Seq(sides)
        /\ \A i, j \in DOMAIN order : order[i] = order[j] => i = j
        /\ \A s \in sides : \E i \in DOMAIN order : order[i] = s
    BY <1>1, OrderProperties
  <1>3. e \notin sides /\ {e} \cup sides \subseteq Items
    BY DEF Items
  <1>4. <<e>> \in Seq({e} \cup sides) /\ order \in Seq({e} \cup sides)
    BY <1>2
  <1>5. Len(<<e>>) = 1 /\ <<e>>[1] = e /\ Len(order) \in Nat /\ DOMAIN order = 1 .. Len(order)
    BY <1>2
  <1>6. /\ q \in Seq({e} \cup sides) /\ Len(q) = 1 + Len(order)
        /\ \A i \in 1 .. Len(q) : q[i] = IF i <= 1 THEN <<e>>[i] ELSE order[i - 1]
    BY <1>4, <1>5, ConcatProperties
  <1>7. DOMAIN q = 1 .. Len(q) /\ Len(q) \in Nat \ {0} /\ q \in Seq(Items)
    BY <1>3, <1>5, <1>6
  <1>8. q[1] = e
    BY <1>5, <1>6, <1>7
  <1>9. ASSUME NEW i \in DOMAIN q, i # 1
        PROVE  i - 1 \in DOMAIN order /\ q[i] = order[i - 1] /\ q[i] \in sides
    <2>1. i - 1 \in DOMAIN order /\ q[i] = order[i - 1]
      BY <1>5, <1>6, <1>7, <1>9
    <2>2. order[i - 1] \in sides
      BY <1>2, <2>1, ElementOfSeq
    <2> QED
      BY <2>1, <2>2
  <1>10. ASSUME NEW i \in DOMAIN q PROVE q[i] \in {e} \cup sides /\ Owner(q[i]) = e
    <2>1. q[i] \in {e} \cup sides
      BY <1>8, <1>9
    <2> QED
      BY <2>1 DEF Owner
  <1>11. ASSUME NEW i \in DOMAIN q, NEW j \in DOMAIN q, q[i] = q[j] PROVE i = j
    <2>1. CASE i = 1 \/ j = 1
      BY <1>3, <1>8, <1>9, <1>11, <2>1
    <2>2. CASE i # 1 /\ j # 1
      <3>1. order[i - 1] = order[j - 1] /\ i - 1 \in DOMAIN order /\ j - 1 \in DOMAIN order
        BY <1>9, <1>11, <2>2
      <3>2. i - 1 = j - 1
        BY <1>2, <3>1
      <3> QED
        BY <1>7, <3>2
    <2> QED
      BY <2>1, <2>2
  <1>12. ASSUME NEW x \in {e} \cup sides PROVE \E i \in DOMAIN q : q[i] = x
    <2>1. CASE x = e
      BY <1>7, <1>8, <2>1
    <2>2. CASE x \in sides
      <3>1. PICK i \in DOMAIN order : order[i] = x
        BY <1>2, <2>2
      <3>2. i + 1 \in DOMAIN q /\ q[i + 1] = order[i]
        BY <1>5, <1>6, <1>7, <3>1
      <3> QED
        BY <3>1, <3>2
    <2> QED
      BY <2>1, <2>2
  <1> QED
    BY <1>7, <1>8, <1>10, <1>11, <1>12 DEF IsQueueOf

LEMMA TakingEntity ==
  ASSUME IInv, NEW k \in Workers, TakeEntity(k)
  PROVE  IInv'
  <1>1. walked # 0 /\ walked \in Walkers
    BY WorkIsWalk DEF Visit, IInv, TypeOK
  <1>2. UNCHANGED Given
    BY DEF TakeEntity, Given, counts
  <1>3. UNCHANGED <<parts, next, loaded, found_, applied>> /\ queue[k] = <<>>
    BY DEF TakeEntity, counts
  <1>4. PICK e, sides :
          /\ e \in todo[k]
          /\ sides = IF codim1_functors_[walked] = <<>> THEN {} ELSE {i \in Intersections : Inside[i] = e}
          /\ \E order \in SetToSeqs(sides) : queue' = [queue EXCEPT ![k] = <<e>> \o order]
          /\ todo' = [todo EXCEPT ![k] = @ \ {e}]
    BY DEF TakeEntity
  <1>5. PICK order \in SetToSeqs(sides) : queue' = [queue EXCEPT ![k] = <<e>> \o order]
    BY <1>4
  <1>6. PICK q : q = <<e>> \o order
    OBVIOUS
  <1>7. TypeOK /\ VisitedOnce /\ NextIsNext /\ Progress
    BY <1>1 DEF IInv, Walking
  <1>8. todo \in [Workers -> SUBSET Entities] /\ queue \in [Workers -> Seq(Items)] /\ e \in Entities
    BY <1>4, <1>7 DEF TypeOK
  <1>9. /\ q \in Seq(Items) /\ Len(q) \in Nat \ {0} /\ DOMAIN q = 1 .. Len(q)
        /\ q[1] = e
        /\ \A i \in DOMAIN q : q[i] \in {e} \cup sides /\ Owner(q[i]) = e
        /\ \A i, j \in DOMAIN q : q[i] = q[j] => i = j
        /\ \A x \in {e} \cup sides : \E i \in DOMAIN q : q[i] = x
    <2>1. sides \in SUBSET SidesOf(e)
      BY <1>4 DEF SidesOf
    <2>2. e \in Entities
      BY <1>8
    <2>3. IsQueueOf(q, e, sides)
      BY ONLY <1>6, <2>1, <2>2, order \in SetToSeqs(sides), EntityQueue
    <2> QED
      BY <2>3 DEF IsQueueOf
  <1>10. /\ queue'[k] = q /\ \A j \in Workers : j # k => queue'[j] = queue[j]
         /\ todo'[k] = todo[k] \ {e} /\ \A j \in Workers : j # k => todo'[j] = todo[j]
    BY <1>4, <1>5, <1>6, <1>8
  <1>11. TypeOK'
    <2>1. UNCHANGED <<lists, walked, counts, outcome>>
      BY DEF TakeEntity
    <2>2. todo' \in [Workers -> SUBSET Entities]
      BY <1>4, <1>8
    <2>3. queue' \in [Workers -> Seq(Items)]
      BY <1>5, <1>6, <1>8, <1>9
    <2> QED
      BY <1>3, <1>7, <2>1, <2>2, <2>3 DEF TypeOK, lists, counts
  <1>12. \A x : Owner(x)' = Owner(x)
    BY DEF Owner
  <1>13. /\ Queued(k)' = {e} /\ Queued(k) = {}
         /\ \A j \in Workers : j # k => Queued(j)' = Queued(j)
    <2>1. 1 \in DOMAIN q
      BY <1>9
    <2>2. Queued(k)' = {Owner(q[i]) : i \in DOMAIN q}
      BY <1>10, <1>12 DEF Queued
    <2>3. Queued(k)' = {e}
      BY <1>9, <2>1, <2>2
    <2>4. Queued(k) = {}
      BY <1>3 DEF Queued
    <2>5. \A j \in Workers : j # k => Queued(j)' = Queued(j)
      BY <1>10, <1>12 DEF Queued
    <2> QED
      BY <2>3, <2>4, <2>5
  <1>14. \A j \in Workers : Pending(j)' = Pending(j)
    BY <1>4, <1>10, <1>13 DEF Pending
  <1>15. VisitedOnce'
    <2>1. \A j \in Workers : todo'[j] \cap Queued(j)' = {}
      BY <1>7, <1>10, <1>13 DEF VisitedOnce
    <2>2. \A j \in Workers : Pending(j)' \cap UNION parts' = {}
      BY <1>3, <1>7, <1>14 DEF VisitedOnce
    <2>3. ASSUME NEW j \in Workers, NEW m \in DOMAIN queue'[j], NEW n \in DOMAIN queue'[j], queue'[j][m] = queue'[j][n]
          PROVE  m = n
      BY <1>7, <1>9, <1>10, <2>3 DEF VisitedOnce
    <2>4. \A i, j \in Workers : j # i => Pending(j)' \cap Pending(i)' = {}
      BY <1>7, <1>14 DEF VisitedOnce
    <2> QED
      BY <2>1, <2>2, <2>3, <2>4 DEF VisitedOnce
  <1>16. next[k] = 1
    BY <1>3, <1>7 DEF NextIsNext
  <1>17. NextIsNext'
    <2> SUFFICES ASSUME NEW j \in Workers
                 PROVE  IF queue'[j] = <<>> THEN next'[j] = 1
                        ELSE next'[j] \in 1 .. (Len(List(walked, queue'[j][1])) + 1)
      BY <1>1, <1>2, NextStays
    <2>1. CASE j = k
      <3>1. Len(List(walked, queue'[j][1])) \in Nat
        BY <1>1, <1>2, NextStays
      <3>2. queue'[j] # <<>>
        BY <1>9, <1>10, <2>1
      <3> QED
        BY <1>3, <1>16, <2>1, <3>1, <3>2
    <2>2. CASE j # k
      BY <1>3, <1>7, <1>10, <2>2 DEF NextIsNext
    <2> QED
      BY <2>1, <2>2
  <1>18. ASSUME NEW f \in Functors, NEW x \in Items PROVE Right(f, x)'
    <2>1. Right(f, x)
      BY <1>7 DEF Progress
    <2>2. \A n : SoFar(f, x, n)' = SoFar(f, x, n) /\ InAll(f, x)' = InAll(f, x)
      BY <1>1, <1>2, GivenStays
    <2>3. CASE Owner(x) # e
      <3>1. Waiting(x)' <=> Waiting(x)
        BY <1>3, <1>10, <1>12, <2>3 DEF Waiting
      <3>2. \A i \in DOMAIN q : q[i] # x
        BY <1>9, <2>3
      <3>3. DOMAIN queue[k] = {}
        BY <1>3
      <3>4. InQueue(x)' <=> InQueue(x)
        BY <1>10, <3>2, <3>3 DEF InQueue
      <3>5. ASSUME NEW j \in Workers, NEW i \in DOMAIN queue'[j], queue'[j][i] = x
            PROVE  applied'[<<f, x>>] = IF i = 1 THEN SoFar(f, x, next[j] - 1)' ELSE 0
        BY <1>3, <1>10, <2>1, <2>2, <3>2, <3>5 DEF Right
      <3> QED
        BY <1>3, <2>1, <2>2, <3>1, <3>4, <3>5 DEF Right
    <2>4. CASE Owner(x) = e
      <3>1. applied[<<f, x>>] = 0
        BY <1>4, <2>1, <2>4 DEF Right, Waiting
      <3>2. ASSUME NEW j \in Workers, NEW i \in DOMAIN queue'[j], queue'[j][i] = x
            PROVE  applied'[<<f, x>>] = IF i = 1 THEN SoFar(f, x, next[j] - 1)' ELSE 0
        <4>1. j = k
          <5>1. Owner(x) \in Queued(j)'
            BY <1>12, <3>2 DEF Queued
          <5>2. e \in Pending(j)' /\ e \in Pending(k)'
            BY <1>13, <2>4, <5>1 DEF Pending
          <5> QED
            BY <1>15, <5>2 DEF VisitedOnce
        <4>2. SoFar(f, x, 0) = 0
          <5>1. 1 .. 0 = {}
            OBVIOUS
          <5> QED
            BY <5>1, SumEmpty DEF SoFar
        <4>3. next[j] - 1 = 0
          BY <1>16, <4>1
        <4> QED
          BY <1>3, <2>2, <3>1, <4>2, <4>3
      <3>3. ASSUME ~InQueue(x)' PROVE InAll(f, x) = 0
        <4>1. x \notin {e} \cup sides
          BY <1>9, <1>10, <3>3 DEF InQueue
        <4>2. x \notin Entities /\ x \in Intersections /\ Inside[x] = e
          BY <2>4, <4>1 DEF Owner, Items
        <4>3. codim1_functors_[walked] = <<>>
          BY <1>4, <4>1, <4>2
        <4>4. List(walked, x) = <<>>
          BY <4>2, <4>3 DEF List
        <4>5. ListsTyped
          BY DEF IInv, TypeOK, ListsTyped
        <4>6. Calls(f, x)[walked] = 0
          BY ONLY <1>1, <4>4, <4>5, f \in Functors, NothingCalled
        <4> QED
          BY <4>6 DEF InAll
      <3> QED
        BY <1>3, <2>2, <3>1, <3>2, <3>3 DEF Right
    <2> QED
      BY <2>3, <2>4
  <1>19. Progress'
    BY <1>18 DEF Progress
  <1>20. PreparedFirst' /\ Detected'
    BY <1>2, <1>3 DEF IInv, PreparedFirst, Detected, Given
  <1> QED
    BY <1>1, <1>2, <1>11, <1>15, <1>17, <1>19, <1>20, GivenStays

LEMMA Loading ==
  ASSUME IInv, NEW k \in Workers, Load(k)
  PROVE  IInv'
  <1>1. walked # 0
    BY WorkIsWalk DEF Visit
  <1>2. UNCHANGED <<lists, walked, parts, todo, queue, next, found_, counts, outcome>>
    BY DEF Load
  <1>3. UNCHANGED Given
    BY <1>2 DEF Given, counts
  <1>4. TypeOK'
    <2>1. found_ \in Nat /\ loaded \in [Workers -> Nat \cup {-1}]
      BY DEF IInv, TypeOK
    <2>2. loaded' = [loaded EXCEPT ![k] = found_]
      BY DEF Load
    <2>3. loaded' \in [Workers -> Nat \cup {-1}]
      BY <2>1, <2>2
    <2> QED
      BY <1>2, <2>3 DEF IInv, TypeOK, lists, counts
  <1>5. \A x : Owner(x)' = Owner(x)
    BY DEF Owner
  <1>6. \A j : Queued(j)' = Queued(j) /\ Pending(j)' = Pending(j)
    BY <1>2, <1>5 DEF Queued, Pending
  <1>7. VisitedOnce'
    BY <1>2, <1>6 DEF IInv, VisitedOnce
  <1>8. NextIsNext'
    <2>1. NextIsNext
      BY <1>1 DEF IInv, Walking
    <2> QED
      BY <1>1, <1>2, <1>3, <2>1, NextStays DEF NextIsNext
  <1>9. ASSUME NEW f \in Functors, NEW x \in Items PROVE Right(f, x)'
    <2>1. Right(f, x)
      BY <1>1 DEF IInv, Walking, Progress
    <2>2. \A n : SoFar(f, x, n)' = SoFar(f, x, n) /\ InAll(f, x)' = InAll(f, x)
      BY <1>1, <1>3, GivenStays
    <2>3. (Waiting(x)' <=> Waiting(x)) /\ (InQueue(x)' <=> InQueue(x))
      BY <1>2, <1>5 DEF Waiting, InQueue
    <2> QED
      BY <1>2, <2>1, <2>2, <2>3 DEF Right, counts
  <1>10. Progress'
    BY <1>9 DEF Progress
  <1>11. PreparedFirst' /\ Detected'
    BY <1>2 DEF IInv, PreparedFirst, Detected, counts
  <1> QED
    BY <1>1, <1>3, <1>4, <1>7, <1>8, <1>10, <1>11, GivenStays

\* What is queued is queued once, and does not wait.
LEMMA QueuedOnce ==
  ASSUME TypeOK, VisitedOnce, NEW k \in Workers, NEW m \in DOMAIN queue[k]
  PROVE  /\ queue[k][m] \in Items
         /\ ~Waiting(queue[k][m])
         /\ \A j \in Workers : \A i \in DOMAIN queue[j] : queue[j][i] = queue[k][m] => j = k /\ i = m
  <1>1. PICK x : x = queue[k][m]
    OBVIOUS
  <1>2. x \in Items
    BY <1>1, QueueType
  <1>3. Owner(x) \in Queued(k) /\ Owner(x) \in Pending(k)
    BY <1>1 DEF Queued, Pending
  <1>4. ~Waiting(x)
    BY <1>3 DEF VisitedOnce, Waiting, Pending
  <1>5. ASSUME NEW j \in Workers, NEW i \in DOMAIN queue[j], queue[j][i] = x
        PROVE  j = k /\ i = m
    <2>1. Owner(x) \in Pending(j)
      BY <1>5 DEF Queued, Pending
    <2>2. j = k
      BY <1>3, <2>1 DEF VisitedOnce
    <2> QED
      BY <1>1, <1>5, <2>2 DEF VisitedOnce
  <1> QED
    BY <1>1, <1>2, <1>4, <1>5

LEMMA VisitedIs ==
  ASSUME TypeOK, NEW k \in Workers, queue[k] # <<>>
  PROVE  1 \in DOMAIN queue[k] /\ Visited(k) = queue[k][1]
  <1>1. queue[k] \in Seq(Items)
    BY DEF TypeOK
  <1>2. Len(queue[k]) \in Nat \ {0}
    BY <1>1, EmptySeq
  <1> QED
    BY <1>1, <1>2 DEF Visited

\* The next functor is applied to the first item of the queue.
LEMMA Applying ==
  ASSUME IInv, NEW k \in Workers, apply_local(k)
  PROVE  IInv'
  <1>1. walked # 0 /\ walked \in Walkers
    BY WorkIsWalk DEF Visit, IInv, TypeOK
  <1>2. UNCHANGED <<lists, walked, parts, todo, queue, prepared, finalized, due, outcome>>
    BY DEF apply_local
  <1>3. UNCHANGED Given
    BY <1>2 DEF Given
  <1>4. TypeOK /\ VisitedOnce /\ NextIsNext /\ Progress /\ ListsTyped
    BY <1>1 DEF IInv, Walking, TypeOK, ListsTyped
  <1>5. PICK x, e, n : x = Visited(k) /\ e = Current(k) /\ n = next[k]
    OBVIOUS
  <1>6. queue[k] # <<>> /\ n \in DOMAIN List(walked, x) /\ e = List(walked, x)[n]
    BY <1>5 DEF apply_local, Working, Current
  <1>7. 1 \in DOMAIN queue[k] /\ queue[k][1] = x
    BY <1>4, <1>5, <1>6, VisitedIs
  <1>8. /\ x \in Items /\ ~Waiting(x)
        /\ \A j \in Workers : \A i \in DOMAIN queue[j] : queue[j][i] = x => j = k /\ i = 1
    BY <1>4, <1>7, QueuedOnce
  <1>9. /\ \A y : Len(List(walked, y)) \in Nat
        /\ DOMAIN List(walked, x) = 1 .. Len(List(walked, x))
        /\ n \in 1 .. Len(List(walked, x))
    BY <1>1, <1>3, <1>6, NextStays
  <1>10. applied' = [c \in Functors \X Items |->
                       IF c[2] = x THEN applied[c] + Times(e, c[1], x) ELSE applied[c]]
    BY <1>5 DEF apply_local, Times
  <1>11. /\ \A f \in Functors, y \in Items :
              applied'[<<f, y>>] = IF y = x THEN applied[<<f, y>>] + Times(e, f, x) ELSE applied[<<f, y>>]
         /\ \A f \in Functors, y \in Items : applied[<<f, y>>] \in Nat
    BY <1>4, <1>10 DEF TypeOK
  <1>12. ASSUME NEW f \in Functors
         PROVE  /\ Times(e, f, x) \in Nat
                /\ SoFar(f, x, n) = SoFar(f, x, n - 1) + Times(e, f, x)
                /\ Times(e, f, x) > 0 => InAll(f, x) > 0
    <2>1. /\ SumFunctionOnSet(Shares(walked, f, x), 1 .. n)
               = SumFunctionOnSet(Shares(walked, f, x), 1 .. (n - 1)) + Times(List(walked, x)[n], f, x)
          /\ Times(List(walked, x)[n], f, x) > 0 => Calls(f, x)[walked] > 0
          /\ Times(List(walked, x)[n], f, x) \in Nat
      <3>1. PICK w \in Walkers : w = walked
        BY <1>1
      <3>2. ListsTyped /\ n \in DOMAIN List(w, x)
        BY <1>4, <1>6, <3>1
      <3>3. /\ SumFunctionOnSet(Shares(w, f, x), 1 .. n)
                 = SumFunctionOnSet(Shares(w, f, x), 1 .. (n - 1)) + Times(List(w, x)[n], f, x)
            /\ Times(List(w, x)[n], f, x) > 0 => Calls(f, x)[w] > 0
            /\ Times(List(w, x)[n], f, x) \in Nat
        BY ONLY <3>2, f \in Functors, w \in Walkers, SharesAddUp
      <3> QED
        BY <3>1, <3>3
    <2> QED
      BY <1>6, <2>1 DEF SoFar, InAll
  <1>13. next' = [next EXCEPT ![k] = @ + 1] /\ next \in [Workers -> Nat]
    BY <1>4 DEF apply_local, TypeOK
  <1>14. next'[k] = n + 1 /\ \A j \in Workers : j # k => next'[j] = next[j]
    BY <1>5, <1>13
  <1>15. found_' \in Nat /\ (Detects(k) => found_' > 0) /\ (~Detects(k) => found_' = found_)
    <2>1. CASE Detects(k)
      <3>1. loaded[k] # -1 /\ found_' = Min({loaded[k] + 1, MaxFound})
        BY <2>1 DEF apply_local
      <3>2. loaded[k] + 1 \in Nat \ {0} /\ MaxFound \in Nat \ {0}
        BY <1>4, <3>1 DEF TypeOK
      <3>3. Min({loaded[k] + 1, MaxFound}) \in {loaded[k] + 1, MaxFound}
        <4>1. \E a \in {loaded[k] + 1, MaxFound} : \A b \in {loaded[k] + 1, MaxFound} : a <= b
          BY <3>2
        <4> QED
          BY <4>1 DEF Min
      <3> QED
        BY <2>1, <3>1, <3>2, <3>3
    <2>2. CASE ~Detects(k)
      BY <1>4, <2>2 DEF apply_local, TypeOK
    <2> QED
      BY <2>1, <2>2
  <1>16. TypeOK'
    <2>1. next' \in [Workers -> Nat]
      BY <1>13
    <2>2. loaded' \in [Workers -> Nat \cup {-1}]
      BY <1>4 DEF apply_local, TypeOK
    <2>3. applied' \in [Functors \X Items -> Nat]
      <3>1. ASSUME NEW c \in Functors \X Items
            PROVE  (IF c[2] = x THEN applied[c] + Times(e, c[1], x) ELSE applied[c]) \in Nat
        <4>1. applied[c] \in Nat /\ Times(e, c[1], x) \in Nat
          BY <1>4, <1>12 DEF TypeOK
        <4> QED
          BY <4>1
      <3> QED
        BY <1>10, <3>1
    <2> QED
      BY <1>2, <1>4, <1>15, <2>1, <2>2, <2>3 DEF TypeOK, lists
  <1>17. \A y : Owner(y)' = Owner(y)
    BY DEF Owner
  <1>18. VisitedOnce'
    <2>1. \A j : Queued(j)' = Queued(j) /\ Pending(j)' = Pending(j)
      BY <1>2, <1>17 DEF Queued, Pending
    <2> QED
      BY <1>2, <1>4, <2>1 DEF VisitedOnce
  <1>19. NextIsNext'
    <2> SUFFICES ASSUME NEW j \in Workers
                 PROVE  IF queue'[j] = <<>> THEN next'[j] = 1
                        ELSE next'[j] \in 1 .. (Len(List(walked, queue'[j][1])) + 1)
      BY <1>1, <1>3, NextStays
    <2>1. CASE j = k
      BY <1>2, <1>6, <1>7, <1>9, <1>14, <2>1
    <2>2. CASE j # k
      BY <1>2, <1>4, <1>14, <2>2 DEF NextIsNext
    <2> QED
      BY <2>1, <2>2
  <1>20. ASSUME NEW f \in Functors, NEW y \in Items PROVE Right(f, y)'
    <2>1. Right(f, y)
      BY <1>4 DEF Progress
    <2>2. \A i : SoFar(f, y, i)' = SoFar(f, y, i) /\ InAll(f, y)' = InAll(f, y)
      BY <1>1, <1>3, GivenStays
    <2>3. (Waiting(y)' <=> Waiting(y)) /\ (InQueue(y)' <=> InQueue(y))
      BY <1>2, <1>17 DEF Waiting, InQueue
    <2>4. CASE y = x
      <3>1. InQueue(x) /\ ~Waiting(x)
        BY <1>7, <1>8 DEF InQueue
      <3>2. applied[<<f, x>>] = SoFar(f, x, n - 1)
        BY <1>5, <1>7, <2>1, <2>4 DEF Right
      <3>3. applied'[<<f, x>>] = SoFar(f, x, n)
        BY <1>8, <1>11, <1>12, <3>2
      <3>4. ASSUME NEW j \in Workers, NEW i \in DOMAIN queue'[j], queue'[j][i] = x
            PROVE  applied'[<<f, x>>] = IF i = 1 THEN SoFar(f, x, next[j] - 1)' ELSE 0
        <4>1. j = k /\ i = 1
          BY <1>2, <1>8, <3>4
        <4>2. next'[j] - 1 = n
          BY <1>9, <1>14, <4>1
        <4>3. SoFar(f, x, next[j] - 1)' = SoFar(f, x, n)
          BY <1>1, <1>3, <4>2, GivenStays DEF SoFar
        <4> QED
          BY <3>3, <4>1, <4>3
      <3> QED
        BY <2>3, <2>4, <3>1, <3>4 DEF Right
    <2>5. CASE y # x
      <3>1. applied'[<<f, y>>] = applied[<<f, y>>]
        BY <1>11, <2>5
      <3>2. ASSUME NEW j \in Workers, NEW i \in DOMAIN queue'[j], queue'[j][i] = y
            PROVE  applied'[<<f, y>>] = IF i = 1 THEN SoFar(f, y, next[j] - 1)' ELSE 0
        <4>1. CASE i = 1
          <5>1. j # k
            BY <1>2, <1>7, <2>5, <3>2, <4>1
          <5>2. next'[j] = next[j]
            BY <1>14, <5>1
          <5>3. SoFar(f, y, next[j] - 1)' = SoFar(f, y, next[j] - 1)
            BY <2>2, <5>2
          <5> QED
            BY <1>2, <2>1, <3>1, <3>2, <4>1, <5>3 DEF Right
        <4>2. CASE i # 1
          BY <1>2, <2>1, <3>1, <3>2, <4>2 DEF Right
        <4> QED
          BY <4>1, <4>2
      <3> QED
        BY <2>1, <2>2, <2>3, <3>1, <3>2 DEF Right
    <2> QED
      BY <2>4, <2>5
  <1>21. Progress'
    BY <1>20 DEF Progress
  <1>22. PreparedFirst'
    <2> SUFFICES ASSUME NEW f \in Functors, NEW y \in Items, applied'[<<f, y>>] > 0
                 PROVE  prepared'[f] > 0
      BY DEF PreparedFirst
    <2>1. CASE applied[<<f, y>>] > 0
      BY <1>2, <2>1 DEF IInv, PreparedFirst
    <2>2. CASE ~(applied[<<f, y>>] > 0)
      <3>1. applied[<<f, y>>] = 0
        BY <1>11, <2>2
      <3>2. y = x /\ Times(e, f, x) > 0
        BY <1>11, <1>12, <3>1
      <3>3. Calls(f, x)[walked] > 0
        BY <1>12, <3>2 DEF InAll
      <3>4. Phases(f)[walked] > 0
        BY <1>1, <1>4, <3>3, CalledIsPrepared
      <3>5. prepared[f] = Phases(f)[walked]
        BY <1>1 DEF IInv, Walking
      <3> QED
        BY <1>2, <3>4, <3>5
    <2> QED
      BY <2>1, <2>2
  <1>23. Detected'
    <2> SUFFICES ASSUME NEW y \in DirichletBoundary, applied'[<<Detector, y>>] > 0
                 PROVE  found_' > 0
      BY DEF Detected
    <2>1. Detector \in Functors /\ y \in Items /\ Detector \notin Walkers
      BY DEF Functors, Items
    <2>2. CASE applied[<<Detector, y>>] > 0
      BY <1>15, <2>2 DEF IInv, Detected
    <2>3. CASE ~(applied[<<Detector, y>>] > 0)
      <3>1. applied[<<Detector, y>>] = 0
        BY <1>11, <2>1, <2>3
      <3>2. y = x /\ Times(e, Detector, x) > 0
        BY <1>11, <1>12, <2>1, <3>1
      <3>3. apply_on(e, x) /\ IF e.what \in Walkers THEN Calls(Detector, x)[e.what] > 0 ELSE e.what = Detector
        BY <3>2 DEF Times
      <3>4. Detects(k)
        BY <1>5, <3>2, <3>3 DEF Detects
      <3> QED
        BY <1>15, <3>4
    <2> QED
      BY <2>2, <2>3
  <1> QED
    BY <1>1, <1>3, <1>16, <1>18, <1>19, <1>21, <1>22, <1>23, GivenStays

\* Past its last functor, an item leaves the queue.
LEMMA GoingOn ==
  ASSUME IInv, NEW k \in Workers, NextItem(k)
  PROVE  IInv'
  <1>1. walked # 0 /\ walked \in Walkers
    BY WorkIsWalk DEF Visit, IInv, TypeOK
  <1>2. UNCHANGED <<lists, walked, parts, todo, loaded, found_, counts, outcome>>
    BY DEF NextItem
  <1>3. UNCHANGED Given /\ applied' = applied
    BY <1>2 DEF Given, counts
  <1>4. TypeOK /\ VisitedOnce /\ NextIsNext /\ Progress /\ ListsTyped
    BY <1>1 DEF IInv, Walking, TypeOK, ListsTyped
  <1>5. PICK x, q, r : x = Visited(k) /\ q = queue[k] /\ r = Tail(q)
    OBVIOUS
  <1>6. q # <<>> /\ next[k] \notin DOMAIN List(walked, x)
    BY <1>5 DEF NextItem, Working
  <1>7. 1 \in DOMAIN q /\ q[1] = x
    BY <1>4, <1>5, <1>6, VisitedIs
  <1>8. /\ x \in Items /\ ~Waiting(x)
        /\ \A j \in Workers : \A i \in DOMAIN queue[j] : queue[j][i] = x => j = k /\ i = 1
    BY <1>4, <1>5, <1>7, QueuedOnce
  <1>9. q \in Seq(Items) /\ Len(q) \in Nat /\ DOMAIN q = 1 .. Len(q)
    BY <1>4, <1>5, QueueType
  <1>10. /\ r \in Seq(Items) /\ DOMAIN r = 1 .. (Len(q) - 1)
         /\ \A i \in DOMAIN r : r[i] = q[i + 1] /\ i + 1 \in DOMAIN q
    <2>1. r \in Seq(Items) /\ Len(r) = Len(q) - 1 /\ \A i \in 1 .. Len(r) : r[i] = q[i + 1]
      BY <1>5, <1>6, <1>9, HeadTailProperties
    <2> QED
      BY <1>9, <2>1
  <1>11. next[k] = Len(List(walked, x)) + 1
    <2>1. Len(List(walked, x)) \in Nat /\ DOMAIN List(walked, x) = 1 .. Len(List(walked, x))
      BY <1>1, <1>3, NextStays
    <2>2. next[k] \in 1 .. (Len(List(walked, x)) + 1)
      BY <1>4, <1>5, <1>6, <1>7 DEF NextIsNext
    <2> QED
      BY <1>6, <2>1, <2>2
  <1>12. /\ queue'[k] = r /\ \A j \in Workers : j # k => queue'[j] = queue[j]
         /\ next'[k] = 1 /\ \A j \in Workers : j # k => next'[j] = next[j]
         /\ queue' \in [Workers -> Seq(Items)] /\ next' \in [Workers -> Nat]
    <2>1. queue \in [Workers -> Seq(Items)] /\ next \in [Workers -> Nat]
      BY <1>4 DEF TypeOK
    <2>2. queue' = [queue EXCEPT ![k] = r] /\ next' = [next EXCEPT ![k] = 1]
      BY <1>5 DEF NextItem
    <2> QED
      BY <1>10, <2>1, <2>2
  <1>13. TypeOK'
    BY <1>2, <1>4, <1>12 DEF TypeOK, lists, counts
  <1>14. \A y : Owner(y)' = Owner(y)
    BY DEF Owner
  <1>15. \A j \in Workers : Queued(j)' \subseteq Queued(j) /\ Pending(j)' \subseteq Pending(j)
    <2>1. ASSUME NEW j \in Workers PROVE Queued(j)' \subseteq Queued(j)
      <3>1. CASE j = k
        <4>1. Queued(j)' = {Owner(r[i]) : i \in DOMAIN r}
          BY <1>12, <1>14, <3>1 DEF Queued
        <4>2. Queued(j) = {Owner(q[i]) : i \in DOMAIN q}
          BY <1>5, <3>1 DEF Queued
        <4> QED
          BY <1>10, <4>1, <4>2
      <3>2. CASE j # k
        BY <1>12, <1>14, <3>2 DEF Queued
      <3> QED
        BY <3>1, <3>2
    <2> QED
      BY <1>2, <2>1 DEF Pending
  <1>16. VisitedOnce'
    <2>1. \A j \in Workers : todo'[j] \cap Queued(j)' = {} /\ Pending(j)' \cap UNION parts' = {}
      BY <1>2, <1>4, <1>15 DEF VisitedOnce
    <2>2. \A i, j \in Workers : j # i => Pending(j)' \cap Pending(i)' = {}
      BY <1>4, <1>15 DEF VisitedOnce
    <2>3. ASSUME NEW j \in Workers, NEW m \in DOMAIN queue'[j], NEW n \in DOMAIN queue'[j], queue'[j][m] = queue'[j][n]
          PROVE  m = n
      <3>1. CASE j = k
        <4>1. m \in DOMAIN r /\ n \in DOMAIN r /\ r[m] = r[n]
          BY <1>12, <2>3, <3>1
        <4>2. m + 1 \in DOMAIN q /\ n + 1 \in DOMAIN q /\ q[m + 1] = q[n + 1]
          BY <1>10, <4>1
        <4>3. m + 1 = n + 1
          BY <1>4, <1>5, <4>2 DEF VisitedOnce
        <4>4. m \in Int /\ n \in Int
          BY <1>9, <1>10, <4>1
        <4> QED
          BY <4>3, <4>4
      <3>2. CASE j # k
        BY <1>4, <1>12, <2>3, <3>2 DEF VisitedOnce
      <3> QED
        BY <3>1, <3>2
    <2> QED
      BY <2>1, <2>2, <2>3 DEF VisitedOnce
  <1>17. NextIsNext'
    <2> SUFFICES ASSUME NEW j \in Workers
                 PROVE  IF queue'[j] = <<>> THEN next'[j] = 1
                        ELSE next'[j] \in 1 .. (Len(List(walked, queue'[j][1])) + 1)
      BY <1>1, <1>3, NextStays
    <2>1. CASE j = k
      <3>1. Len(List(walked, queue'[j][1])) \in Nat
        BY <1>1, <1>3, NextStays
      <3> QED
        BY <1>12, <2>1, <3>1
    <2>2. CASE j # k
      BY <1>4, <1>12, <2>2 DEF NextIsNext
    <2> QED
      BY <2>1, <2>2
  <1>18. ASSUME NEW f \in Functors, NEW y \in Items PROVE Right(f, y)'
    <2>1. Right(f, y)
      BY <1>4 DEF Progress
    <2>2. \A i : SoFar(f, y, i)' = SoFar(f, y, i) /\ InAll(f, y)' = InAll(f, y)
      BY <1>1, <1>3, GivenStays
    <2>3. Waiting(y)' <=> Waiting(y)
      BY <1>2, <1>14 DEF Waiting
    <2>4. CASE y = x
      <3>1. \A j \in Workers : \A i \in DOMAIN queue'[j] : queue'[j][i] # x
        <4> SUFFICES ASSUME NEW j \in Workers, NEW i \in DOMAIN queue'[j], queue'[j][i] = x PROVE FALSE
          OBVIOUS
        <4>1. CASE j = k
          <5>1. i \in DOMAIN r /\ q[i + 1] = x /\ i + 1 \in DOMAIN q
            BY <1>10, <1>12, <4>1
          <5>2. i + 1 = 1
            BY <1>5, <1>8, <5>1
          <5> QED
            BY <1>9, <1>10, <5>1, <5>2
        <4>2. CASE j # k
          BY <1>8, <1>12, <4>2
        <4> QED
          BY <4>1, <4>2
      <3>2. applied[<<f, x>>] = InAll(f, x)
        <4>1. applied[<<f, x>>] = SoFar(f, x, next[k] - 1)
          BY <1>5, <1>7, <2>1, <2>4 DEF Right
        <4>2. next[k] - 1 = Len(List(walked, x))
          <5>1. Len(List(walked, x)) \in Nat
            BY <1>1, <1>3, NextStays
          <5> QED
            BY <1>11, <5>1
        <4>3. SumFunctionOnSet(Shares(walked, f, x), 1 .. Len(List(walked, x))) = Calls(f, x)[walked]
          BY <1>1, <1>4, SharesAddUp
        <4> QED
          BY <4>1, <4>2, <4>3 DEF SoFar, InAll
      <3> QED
        BY <1>3, <1>8, <2>2, <2>3, <2>4, <3>1, <3>2 DEF Right
    <2>5. CASE y # x
      <3>1. ASSUME NEW j \in Workers, NEW i \in DOMAIN queue'[j], queue'[j][i] = y
            PROVE  applied'[<<f, y>>] = IF i = 1 THEN SoFar(f, y, next[j] - 1)' ELSE 0
        <4>1. CASE j = k
          <5>1. i \in DOMAIN r /\ q[i + 1] = y /\ i + 1 \in DOMAIN q /\ i \in 1 .. (Len(q) - 1)
            BY <1>10, <1>12, <3>1, <4>1
          <5>2. i + 1 # 1
            BY <1>9, <5>1
          <5>3. applied[<<f, y>>] = 0
            BY <1>5, <2>1, <5>1, <5>2 DEF Right
          <5>4. SoFar(f, y, 0) = 0
            <6>1. 1 .. 0 = {}
              OBVIOUS
            <6> QED
              BY <6>1, SumEmpty DEF SoFar
          <5>5. next'[j] - 1 = 0
            BY <1>12, <4>1
          <5>6. SoFar(f, y, next[j] - 1)' = 0
            BY <2>2, <5>4, <5>5
          <5> QED
            BY <1>3, <5>3, <5>6
        <4>2. CASE j # k
          <5>1. queue'[j] = queue[j] /\ next'[j] = next[j]
            BY <1>12, <4>2
          <5>2. SoFar(f, y, next[j] - 1)' = SoFar(f, y, next[j] - 1)
            BY <2>2, <5>1
          <5>3. applied[<<f, y>>] = IF i = 1 THEN SoFar(f, y, next[j] - 1) ELSE 0
            BY <2>1, <3>1, <5>1 DEF Right
          <5> QED
            BY <1>3, <5>2, <5>3
        <4> QED
          BY <4>1, <4>2
      <3>2. ASSUME NEW j \in Workers, NEW i \in DOMAIN queue[j], queue[j][i] = y
            PROVE  InQueue(y)'
        <4>1. CASE j = k
          <5>1. i # 1
            BY <1>5, <1>7, <2>5, <3>2, <4>1
          <5>2. i - 1 \in DOMAIN r /\ i \in 1 .. Len(q)
            BY <1>5, <1>9, <1>10, <4>1, <5>1
          <5>3. r[i - 1] = q[i]
            BY <1>10, <5>2
          <5> QED
            BY <1>5, <1>12, <3>2, <4>1, <5>2, <5>3 DEF InQueue
        <4>2. CASE j # k
          BY <1>12, <3>2, <4>2 DEF InQueue
        <4> QED
          BY <4>1, <4>2
      <3>3. InQueue(y) => InQueue(y)'
        BY <3>2 DEF InQueue
      <3> QED
        BY <1>3, <2>1, <2>2, <2>3, <3>1, <3>3 DEF Right
    <2> QED
      BY <2>4, <2>5
  <1>19. Progress'
    BY <1>18 DEF Progress
  <1>20. PreparedFirst' /\ Detected'
    BY <1>2 DEF IInv, PreparedFirst, Detected, counts
  <1> QED
    BY <1>1, <1>3, <1>13, <1>16, <1>17, <1>19, <1>20, GivenStays

-----------------------------------------------------------------------------
(* A walk ends. *)

\* Nobody has anything to visit.
LEMMA NothingPending ==
  ASSUME parts' = {}, \A k \in Workers : todo'[k] = {} /\ queue'[k] = <<>>
  PROVE  VisitedOnce'
  <1>1. \A k \in Workers : DOMAIN queue'[k] = {}
    OBVIOUS
  <1>2. \A k \in Workers : Queued(k)' = {} /\ Pending(k)' = {}
    BY <1>1 DEF Queued, Pending
  <1> QED
    BY <1>1, <1>2 DEF VisitedOnce

LEMMA Throwing ==
  ASSUME IInv, NEW k \in Workers, Throw(k)
  PROVE  IInv'
  <1>1. /\ walked' = 0 /\ parts' = {} /\ outcome' = "threw"
        /\ \A j \in Workers : todo'[j] = {} /\ queue'[j] = <<>> /\ next'[j] = 1
        /\ UNCHANGED <<lists, found_, counts>>
    BY DEF Throw
  <1>2. TypeOK'
    <2>1. <<>> \in Seq(Items)
      BY EmptySeq
    <2>2. /\ todo' \in [Workers -> SUBSET Entities] /\ queue' \in [Workers -> Seq(Items)]
          /\ next' \in [Workers -> Nat] /\ loaded' \in [Workers -> Nat \cup {-1}]
      BY <2>1 DEF Throw
    <2> QED
      BY <1>1, <2>2 DEF IInv, TypeOK, lists, counts
  <1>3. ListsNest'
    BY <1>1, ListsStay DEF IInv, TypeOK, ListsTyped
  <1>4. VisitedOnce'
    BY <1>1, NothingPending
  <1>5. Walking' /\ Standing'
    BY <1>1 DEF Walking, Standing
  <1>6. PreparedFirst' /\ Detected' /\ Done'
    BY <1>1 DEF IInv, PreparedFirst, Detected, Done, counts
  <1> QED
    BY <1>2, <1>3, <1>4, <1>5, <1>6 DEF IInv

\* When all partitions have been visited, all that was due has been done.
LEMMA Finalizing ==
  ASSUME IInv, finalize
  PROVE  IInv'
  <1>1. walked \in Walkers /\ walked # 0 /\ TypeOK /\ ListsTyped /\ NextIsNext /\ Progress
    BY DEF IInv, TypeOK, ListsTyped, Walking, finalize, Idle
  <1>2. parts = {} /\ \A k \in Workers : todo[k] = {} /\ queue[k] = <<>>
    BY DEF finalize, Resting
  <1>3. UNCHANGED <<workers, found_, prepared, applied, due>> /\ walked' = 0 /\ outcome' = "done"
    BY DEF finalize
  <1>4. UNCHANGED <<parts, todo, queue, next, loaded>>
    BY <1>3 DEF workers
  <1>5. finalized' = prepared
    BY <1>1 DEF finalize, IInv, Walking
  <1>6. codim0_functors_' \in [Walkers -> Seq(Entry(Codim0))] /\ Nested(codim0_functors_')
    <2>1. codim0_functors_' = [codim0_functors_ EXCEPT ![walked] = <<>>]
      BY DEF finalize
    <2>2. codim0_functors_ \in [Walkers -> Seq(Entry(Codim0))] /\ Nested(codim0_functors_)
      BY <1>1 DEF ListsTyped, ListsNest
    <2> QED
      BY ONLY <1>1, <2>1, <2>2, ClearedNests
  <1>7. codim1_functors_' \in [Walkers -> Seq(Entry(Codim1))] /\ Nested(codim1_functors_')
    <2>1. codim1_functors_' = [codim1_functors_ EXCEPT ![walked] = <<>>]
      BY DEF finalize
    <2>2. codim1_functors_ \in [Walkers -> Seq(Entry(Codim1))] /\ Nested(codim1_functors_)
      BY <1>1 DEF ListsTyped, ListsNest
    <2> QED
      BY ONLY <1>1, <2>1, <2>2, ClearedNests
  <1>8. TypeOK'
    BY <1>1, <1>3, <1>4, <1>5, <1>6, <1>7 DEF TypeOK
  <1>9. ListsNest'
    BY <1>6, <1>7 DEF ListsNest, Nested
  <1>10. VisitedOnce'
    BY <1>2, <1>4, NothingPending
  <1>11. Walking' /\ Standing'
    <2>1. \A k \in Workers : next[k] = 1
      BY <1>1, <1>2 DEF NextIsNext
    <2> QED
      BY <1>2, <1>3, <1>4, <2>1 DEF Walking, Standing
  <1>12. PreparedFirst' /\ Detected'
    BY <1>3 DEF IInv, PreparedFirst, Detected
  <1>13. applied = due
    <2>1. ASSUME NEW f \in Functors, NEW x \in Items PROVE applied[<<f, x>>] = due[<<f, x>>]
      <3>1. \A k \in Workers : DOMAIN queue[k] = {}
        BY <1>2
      <3>2. ~Waiting(x) /\ ~InQueue(x)
        BY <1>2, <3>1 DEF Waiting, InQueue
      <3>3. applied[<<f, x>>] = Calls(f, x)[walked]
        BY <1>1, <3>2 DEF Progress, Right, InAll
      <3>4. due[<<f, x>>] = Due(f, x)[walked]
        BY <1>1 DEF IInv, Walking
      <3> QED
        BY <1>1, <3>3, <3>4, CallsAreDue
    <2>2. applied \in [Functors \X Items -> Nat] /\ due \in [Functors \X Items -> Nat]
      BY <1>1 DEF TypeOK
    <2>3. \A c \in Functors \X Items : applied[c] = due[c]
      BY <2>1
    <2>4. applied = [c \in Functors \X Items |-> applied[c]] /\ due = [c \in Functors \X Items |-> due[c]]
      BY <2>2
    <2> QED
      BY <2>3, <2>4
  <1>14. Done'
    BY <1>3, <1>5, <1>13 DEF Done
  <1> QED
    BY <1>8, <1>9, <1>10, <1>11, <1>12, <1>14 DEF IInv

LEMMA Stuttering ==
  ASSUME IInv, UNCHANGED vars
  PROVE  IInv'
  <1>1. UNCHANGED <<lists, walked, parts, todo, queue, next, loaded, found_, counts, outcome>>
    BY DEF vars, workers
  <1>2. ListsTyped
    BY DEF IInv, TypeOK, ListsTyped
  <1>3. ListsTyped'
    BY <1>1, <1>2, ListsStay
  <1>4. CASE walked = 0
    BY <1>1, <1>3, <1>4, RestStays DEF Idle, Rest, workers
  <1>5. CASE walked # 0
    <2>1. UNCHANGED Given
      BY <1>1 DEF Given, counts
    <2>2. TypeOK'
      BY <1>1 DEF IInv, TypeOK, lists, counts
    <2>3. \A x : Owner(x)' = Owner(x)
      BY DEF Owner
    <2>4. \A j : Queued(j)' = Queued(j) /\ Pending(j)' = Pending(j)
      BY <1>1, <2>3 DEF Queued, Pending
    <2>5. VisitedOnce'
      BY <1>1, <2>4 DEF IInv, VisitedOnce
    <2>6. NextIsNext'
      BY <1>1, <1>5, <2>1, NextStays DEF IInv, Walking, NextIsNext
    <2>7. ASSUME NEW f \in Functors, NEW x \in Items PROVE Right(f, x)'
      <3>1. Right(f, x)
        BY <1>5 DEF IInv, Walking, Progress
      <3>2. \A n : SoFar(f, x, n)' = SoFar(f, x, n) /\ InAll(f, x)' = InAll(f, x)
        BY <1>5, <2>1, GivenStays
      <3>3. (Waiting(x)' <=> Waiting(x)) /\ (InQueue(x)' <=> InQueue(x))
        BY <1>1, <2>3 DEF Waiting, InQueue
      <3> QED
        BY <1>1, <3>1, <3>2, <3>3 DEF Right, counts
    <2>8. Progress'
      BY <2>7 DEF Progress
    <2>9. PreparedFirst' /\ Detected'
      BY <1>1 DEF IInv, PreparedFirst, Detected, counts
    <2> QED
      BY <1>5, <2>1, <2>2, <2>5, <2>6, <2>8, <2>9, GivenStays
  <1> QED
    BY <1>4, <1>5

-----------------------------------------------------------------------------
(* Theorems. *)

LEMMA NextIInv == IInv /\ [Next]_vars => IInv'
  <1> SUFFICES ASSUME IInv, [Next]_vars PROVE IInv'
    OBVIOUS
  <1>1. ASSUME NEW w \in Walkers, NEW where \in Wheres,
               \/ \E f \in Codim0 : AddCodim0(w, f, where)
               \/ \E f \in Codim1 : AddCodim1(w, f, where)
               \/ \E what \in Codim0And1 \cup Walkers : AddBoth(w, what, where)
        PROVE  IInv'
    BY <1>1, Filling
  <1>2. ASSUME NEW w \in Walkers, clear(w) PROVE IInv'
    BY <1>2, Clearing
  <1>3. ASSUME NEW w \in Walkers, prepare(w) PROVE IInv'
    BY <1>3, Preparing
  <1>4. ASSUME NEW k \in Workers, TakePartition(k) PROVE IInv'
    BY <1>4, TakingPartition
  <1>5. ASSUME NEW k \in Workers, TakeEntity(k) PROVE IInv'
    BY <1>5, TakingEntity
  <1>6. ASSUME NEW k \in Workers, Load(k) PROVE IInv'
    BY <1>6, Loading
  <1>7. ASSUME NEW k \in Workers, apply_local(k) PROVE IInv'
    BY <1>7, Applying
  <1>8. ASSUME NEW k \in Workers, NextItem(k) PROVE IInv'
    BY <1>8, GoingOn
  <1>9. ASSUME NEW k \in Workers, Throw(k) PROVE IInv'
    BY <1>9, Throwing
  <1>10. CASE finalize
    BY <1>10, Finalizing
  <1>11. CASE UNCHANGED vars
    BY <1>11, Stuttering
  <1> QED
    BY <1>1, <1>2, <1>3, <1>4, <1>5, <1>6, <1>7, <1>8, <1>9, <1>10, <1>11 DEF Next, Visit

LEMMA Invariance == Spec => []IInv
  BY InitIInv, NextIInv, PTL DEF Spec

\* Whichever worker takes which partition, and whichever functor throws: a walk
\* that is done has applied all functors as often as they were added, between
\* their preparing and finalizing; no item is skipped, or visited twice.
THEOREM FunctorsAreAppliedAsAdded == Spec => []AppliedAsAdded
  <1>1. ASSUME IInv PROVE AppliedAsAdded
    <2>1. TypeOK /\ (outcome = "done" => prepared = finalized /\ applied = due)
      BY <1>1 DEF IInv, Done
    <2>2. \A f \in Functors, x \in Items : applied[<<f, x>>] > 0 => prepared[f] > 0
      BY <1>1 DEF IInv, PreparedFirst
    <2>3. \A k \in Workers : ~Resting(k) => finalized = Never /\ walked # 0
      BY <1>1 DEF IInv, Standing, Walking, Resting
    <2> QED
      BY <2>1, <2>2, <2>3 DEF AppliedAsAdded, PreparedAndFinalized
  <1> QED
    BY <1>1, Invariance, PTL

\* Increments of found_ may get lost between the workers, but never all of them.
THEOREM TheDetectorDetects == Spec => []DetectorDetects
  <1>1. ASSUME IInv PROVE DetectorDetects
    BY <1>1 DEF IInv, Detected, DetectorDetects
  <1> QED
    BY <1>1, Invariance, PTL

-----------------------------------------------------------------------------
(* The search for elements: one point. *)

\* A set of numbers that is finite and not empty has a minimum (FiniteSetsExt).
LEMMA MinOfNumbers ==
  ASSUME NEW S, IsFiniteSet(S), S \subseteq Nat, S # {}
  PROVE  Min(S) \in S /\ \A n \in S : Min(S) <= n
  <1>1. \E n \in S : \A m \in S : n <= m
    BY LeastMember
  <1> QED
    BY <1>1 DEF Min

IsIn(view, x) == \E e \in DOMAIN view : HasPoint(view[e], x)

LEMMA FirstFromFinds ==
  ASSUME NEW view \in Views, NEW it_last \in Nat \ {0}, NEW x, NEW e, e = FirstFrom(view, it_last, x)
  PROVE  /\ e \in 0 .. Len(view)
         /\ IF IsIn(view, x) THEN e # 0 /\ HasPoint(view[e], x) ELSE e = 0
  <1> DEFINE ahead == {n \in it_last .. Len(view) : HasPoint(view[n], x)}
             all   == {n \in DOMAIN view : HasPoint(view[n], x)}
  <1>1. Len(view) \in Nat /\ DOMAIN view = 1 .. Len(view)
    BY DEF Views
  <1>2. ahead \subseteq 1 .. Len(view) /\ all \subseteq 1 .. Len(view)
    BY <1>1
  <1>3. /\ IsFiniteSet(ahead) /\ ahead \subseteq Nat
        /\ IsFiniteSet(all) /\ all \subseteq Nat
    <2>1. IsFiniteSet(1 .. Len(view)) /\ 1 .. Len(view) \subseteq Nat
      BY <1>1, FS_Interval
    <2> HIDE DEF ahead, all
    <2> QED
      BY <1>2, <2>1, FS_Subset, ZenonT(60)
  <1>4. e = IF ahead # {} THEN Min(ahead) ELSE IF all # {} THEN Min(all) ELSE 0
    BY DEF FirstFrom
  <1>5. all # {} <=> IsIn(view, x)
    BY DEF IsIn
  <1>6. \A n \in ahead \cup all : n \in 1 .. Len(view) /\ HasPoint(view[n], x) /\ n \in all
    BY <1>1, <1>2
  <1>7. /\ ahead # {} => Min(ahead) \in ahead
        /\ all # {} => Min(all) \in all
    <2> HIDE DEF ahead, all
    <2> QED
      BY <1>3, MinOfNumbers
  <1> HIDE DEF ahead, all
  <1>8. CASE ahead # {}
    <2>1. e \in ahead /\ all # {}
      BY <1>4, <1>6, <1>7, <1>8
    <2> QED
      BY <1>1, <1>5, <1>6, <2>1
  <1>9. CASE ahead = {} /\ all # {}
    <2>1. e \in all /\ IsIn(view, x)
      BY <1>4, <1>5, <1>7, <1>9
    <2> QED
      BY <1>1, <1>6, <2>1
  <1>10. CASE ahead = {} /\ all = {}
    BY <1>1, <1>4, <1>5, <1>10
  <1> QED
    BY <1>8, <1>9, <1>10

-----------------------------------------------------------------------------
(* All points: the recursive function of Search. *)

Start(it_last, points) == [ret |-> [n \in DOMAIN points |-> 0], idx |-> 1, it_last |-> it_last]
After(view, acc, x) ==
  LET e == FirstFrom(view, acc.it_last, x)
  IN  IF e = 0 THEN acc
      ELSE [ret |-> [acc.ret EXCEPT ![acc.idx] = e], idx |-> acc.idx + 1, it_last |-> e]
IsSearch(g, view, it_last, points) ==
  g = [k \in 0 .. Len(points) |-> IF k = 0 THEN Start(it_last, points) ELSE After(view, g[k - 1], points[k])]

Accs(points) == [ret : [DOMAIN points -> Nat], idx : Nat, it_last : Nat \ {0}]

LEMMA SearchRuns ==
  ASSUME NEW view \in Views, NEW it_last \in Nat \ {0}, NEW points \in Seq(Point)
  PROVE  \E g : IsSearch(g, view, it_last, points) /\ Search(view, it_last, points) = g[Len(points)]
  <1> DEFINE n    == Len(points)
             D    == Accs(points)
             step == [p \in Nat \X D |-> After(view, p[2], points[p[1]])]
  <1>1. n \in Nat /\ Start(it_last, points) \in D
    BY DEF Start, Accs
  <1>2. ASSUME NEW acc \in D, NEW x PROVE After(view, acc, x) \in D
    <2>1. PICK e : e = FirstFrom(view, acc.it_last, x)
      OBVIOUS
    <2>2. acc.it_last \in Nat \ {0} /\ acc.ret \in [DOMAIN points -> Nat] /\ acc.idx \in Nat
      BY DEF Accs
    <2>3. e \in Nat
      <3>1. PICK it \in Nat \ {0} : it = acc.it_last
        BY <2>2
      <3>2. e \in 0 .. Len(view)
        BY ONLY view \in Views, <2>1, <3>1, FirstFromFinds
      <3> QED
        BY <3>2 DEF Views
    <2>4. [acc.ret EXCEPT ![acc.idx] = e] \in [DOMAIN points -> Nat]
      BY <2>2, <2>3
    <2>5. After(view, acc, x) = IF e = 0 THEN acc
                                ELSE [ret |-> [acc.ret EXCEPT ![acc.idx] = e], idx |-> acc.idx + 1, it_last |-> e]
      BY <2>1 DEF After
    <2> QED
      BY <2>2, <2>3, <2>4, <2>5 DEF Accs
  <1>3. step \in [Nat \X D -> D]
    <2> HIDE DEF D
    <2>1. \A p \in Nat \X D : After(view, p[2], points[p[1]]) \in D
      BY <1>2
    <2> QED
      BY <2>1
  <1>4. \A k \in Nat, acc \in D : step[<<k, acc>>] = After(view, acc, points[k])
    OBVIOUS
  <1> HIDE DEF D, step
  <1>5. PICK f \in [0 .. n -> D] : IsRecursion(f, 0 .. n, Start(it_last, points), step)
    BY <1>1, <1>3, RecursionUpTo
  <1>6. \A k \in 0 .. n : f[k] = IF k = 0 THEN Start(it_last, points) ELSE step[<<k, f[k - 1]>>]
    BY <1>5, RecursionSteps
  <1>7. ASSUME NEW k \in 0 .. n, k # 0 PROVE step[<<k, f[k - 1]>>] = After(view, f[k - 1], points[k])
    <2>1. k \in Nat /\ k - 1 \in 0 .. n
      BY <1>1, <1>7
    <2> QED
      BY <1>4, <1>5, <2>1
  <1>8. IsSearch(f, view, it_last, points)
    <2>1. f = [k \in 0 .. n |-> f[k]]
      BY <1>5
    <2>2. \A k \in 0 .. n : f[k] = IF k = 0 THEN Start(it_last, points) ELSE After(view, f[k - 1], points[k])
      BY <1>6, <1>7
    <2> QED
      BY <2>1, <2>2 DEF IsSearch
  <1>9. PICK g : g = CHOOSE h : IsSearch(h, view, it_last, points)
    OBVIOUS
  <1>10. IsSearch(g, view, it_last, points)
    BY <1>8, <1>9
  <1>11. Search(view, it_last, points) = g[n]
    BY <1>9 DEF Search, IsSearch, Start, After
  <1> QED
    BY <1>10, <1>11

-----------------------------------------------------------------------------
(* Where its results are. *)

\* those of the first k points that lie in the view
InView(view, points, k) == {j \in 1 .. k : IsIn(view, points[j])}
Place(view, points, k)  == Cardinality(InView(view, points, k))

LEMMA Places ==
  ASSUME NEW view, NEW points, NEW k \in Nat
  PROVE  /\ Place(view, points, k) \in 0 .. k
         /\ Place(view, points, k + 1) = IF IsIn(view, points[k + 1]) THEN Place(view, points, k) + 1
                                         ELSE Place(view, points, k)
         /\ \A j \in InView(view, points, k) :
              j \in 1 .. k /\ Place(view, points, j) \in 1 .. Place(view, points, k)
  <1> DEFINE in(j) == InView(view, points, j)
  <1>1. IsFiniteSet(1 .. k) /\ Cardinality(1 .. k) = k /\ in(k) \subseteq 1 .. k
    BY FS_Interval DEF InView
  <1>2. IsFiniteSet(in(k)) /\ Cardinality(in(k)) \in Nat /\ Cardinality(in(k)) <= k
    BY <1>1, FS_Subset, FS_CardinalityType
  <1>3. in(k + 1) = IF IsIn(view, points[k + 1]) THEN in(k) \cup {k + 1} ELSE in(k)
    BY DEF InView
  <1>4. k + 1 \notin in(k)
    BY DEF InView
  <1>5. ASSUME NEW j \in in(k) PROVE j \in 1 .. k /\ Cardinality(in(j)) \in 1 .. Cardinality(in(k))
    <2>1. j \in 1 .. k /\ in(j) \subseteq in(k) /\ j \in in(j)
      BY DEF InView
    <2>2. IsFiniteSet(in(j)) /\ Cardinality(in(j)) <= Cardinality(in(k)) /\ Cardinality(in(j)) \in Nat
      BY <1>2, <2>1, FS_Subset, FS_CardinalityType
    <2>3. Cardinality(in(j)) # 0
      BY <2>1, <2>2, FS_EmptySet
    <2> QED
      BY <1>2, <2>1, <2>2, <2>3
  <1> HIDE DEF in
  <1>6. Cardinality(in(k) \cup {k + 1}) = Cardinality(in(k)) + 1
    BY <1>2, <1>4, FS_AddElement
  <1> QED
    BY <1>2, <1>3, <1>5, <1>6 DEF Place, in

\* What a search has found when it has looked for the first k points.
Finds(view, points, k, acc) ==
  LET n == Len(points)
  IN  /\ acc \in Accs(points)
      /\ acc.idx = Place(view, points, k) + 1
      /\ \A j \in InView(view, points, k) :
           LET e == acc.ret[Place(view, points, j)] IN e # 0 /\ HasPoint(view[e], points[j])
      /\ \A i \in 1 .. n : i >= acc.idx => acc.ret[i] = 0

LEMMA AfterFinds ==
  ASSUME NEW view \in Views, NEW points \in Seq(Point), NEW k \in Nat, k + 1 <= Len(points),
         NEW acc, Finds(view, points, k, acc)
  PROVE  Finds(view, points, k + 1, After(view, acc, points[k + 1]))
  <1> DEFINE n == Len(points)
             x == points[k + 1]
  <1>1. n \in Nat /\ DOMAIN points = 1 .. n
    OBVIOUS
  <1>2. PICK e : e = FirstFrom(view, acc.it_last, x)
    OBVIOUS
  <1>3. /\ acc = [ret |-> acc.ret, idx |-> acc.idx, it_last |-> acc.it_last]
        /\ acc.ret \in [1 .. n -> Nat] /\ acc.idx \in Nat /\ acc.it_last \in Nat \ {0}
    BY <1>1 DEF Finds, Accs
  <1>4. /\ Len(view) \in Nat /\ e \in 0 .. Len(view)
        /\ IF IsIn(view, x) THEN e # 0 /\ HasPoint(view[e], x) ELSE e = 0
    <2>1. PICK it \in Nat \ {0} : it = acc.it_last
      BY <1>3
    <2>2. e = FirstFrom(view, it, x)
      BY <1>2, <2>1
    <2> HIDE DEF x
    <2>3. /\ e \in 0 .. Len(view)
          /\ IF IsIn(view, x) THEN e # 0 /\ HasPoint(view[e], x) ELSE e = 0
      BY ONLY view \in Views, it \in Nat \ {0}, <2>2, FirstFromFinds
    <2>4. Len(view) \in Nat
      BY DEF Views
    <2> QED
      BY <2>3, <2>4 DEF x
  <1> DEFINE P(j) == Place(view, points, j)
             in(j) == InView(view, points, j)
  <1>5. /\ P(k) \in 0 .. k
        /\ P(k + 1) = IF IsIn(view, x) THEN P(k) + 1 ELSE P(k)
        /\ \A j \in in(k) : j \in 1 .. k /\ P(j) \in 1 .. P(k)
    BY Places
  <1>6. /\ acc.idx = P(k) + 1
        /\ \A j \in in(k) : acc.ret[P(j)] # 0 /\ HasPoint(view[acc.ret[P(j)]], points[j])
        /\ \A i \in 1 .. n : i >= acc.idx => acc.ret[i] = 0
    BY DEF Finds
  <1>7. in(k + 1) = IF IsIn(view, x) THEN in(k) \cup {k + 1} ELSE in(k)
    BY DEF InView
  <1> HIDE DEF P, in, n, x
  <1>8. CASE e = 0
    <2>1. After(view, acc, x) = acc
      BY <1>2, <1>8 DEF After
    <2>2. P(k + 1) = P(k) /\ in(k + 1) = in(k)
      BY <1>4, <1>5, <1>7, <1>8
    <2> QED
      BY <2>1, <2>2 DEF Finds, P, in, x
  <1>9. CASE e # 0
    <2>1. PICK new : new = After(view, acc, x)
      OBVIOUS
    <2>2. new = [ret |-> [acc.ret EXCEPT ![acc.idx] = e], idx |-> acc.idx + 1, it_last |-> e]
      BY <1>2, <1>9, <2>1 DEF After
    <2>3. IsIn(view, x) /\ P(k + 1) = P(k) + 1 /\ in(k + 1) = in(k) \cup {k + 1} /\ HasPoint(view[e], x)
      BY <1>4, <1>5, <1>7, <1>9
    <2>4. acc.idx \in 1 .. n /\ acc.idx = P(k + 1) /\ e \in Nat \ {0}
      BY <1>1, <1>4, <1>5, <1>6, <1>9, <2>3 DEF n
    <2>5. /\ new.ret \in [1 .. n -> Nat] /\ new.ret[acc.idx] = e
          /\ \A i \in 1 .. n : i # acc.idx => new.ret[i] = acc.ret[i]
      BY <1>3, <2>2, <2>4
    <2>6. new \in Accs(points) /\ new.idx = P(k + 1) + 1
      BY <1>1, <1>3, <2>2, <2>4, <2>5 DEF Accs, n
    <2>7. \A j \in in(k) : P(j) # acc.idx /\ P(j) \in 1 .. n
      <3> SUFFICES ASSUME NEW j \in in(k) PROVE P(j) # acc.idx /\ P(j) \in 1 .. n
        OBVIOUS
      <3>1. P(j) \in 1 .. P(k) /\ P(k) \in Nat /\ acc.idx = P(k) + 1 /\ acc.idx \in 1 .. n /\ n \in Nat
        BY <1>1, <1>5, <1>6, <2>4 DEF n
      <3> QED
        BY ONLY <3>1
    <2>8. ASSUME NEW j \in in(k + 1) PROVE new.ret[P(j)] # 0 /\ HasPoint(view[new.ret[P(j)]], points[j])
      <3>1. CASE j \in in(k)
        <4>1. new.ret[P(j)] = acc.ret[P(j)]
          BY <2>5, <2>7, <3>1
        <4> QED
          BY <1>6, <3>1, <4>1
      <3>2. CASE j = k + 1
        <4>1. new.ret[P(j)] = e /\ points[j] = x
          BY <2>4, <2>5, <3>2 DEF x
        <4> QED
          BY <1>9, <2>3, <4>1
      <3> QED
        BY <2>3, <3>1, <3>2
    <2>9. ASSUME NEW i \in 1 .. n, i >= new.idx PROVE new.ret[i] = 0
      <3>1. i # acc.idx /\ i >= acc.idx
        BY <1>3, <2>2, <2>9
      <3> QED
        BY <1>6, <2>5, <3>1
    <2> QED
      BY <2>1, <2>6, <2>8, <2>9 DEF Finds, P, in, n, x
  <1> QED
    BY <1>8, <1>9

LEMMA SearchReturns ==
  ASSUME NEW view \in Views, NEW it_last \in Nat \ {0}, NEW points \in Seq(Point)
  PROVE  Finds(view, points, Len(points), Search(view, it_last, points))
  <1>1. PICK g : IsSearch(g, view, it_last, points) /\ Search(view, it_last, points) = g[Len(points)]
    BY SearchRuns
  <1> DEFINE n == Len(points)
             P == {k \in Nat : k <= n => Finds(view, points, k, g[k])}
  <1>2. n \in Nat /\ DOMAIN points = 1 .. n
    OBVIOUS
  <1>3. /\ g[0] = Start(it_last, points)
        /\ \A k \in Nat : k + 1 <= n => g[k + 1] = After(view, g[k], points[k + 1])
    <2>1. \A k \in 0 .. n : g[k] = IF k = 0 THEN Start(it_last, points) ELSE After(view, g[k - 1], points[k])
      BY <1>1 DEF IsSearch
    <2>2. 0 \in 0 .. n /\ \A k \in Nat : k + 1 <= n => k + 1 \in 0 .. n /\ k + 1 # 0 /\ (k + 1) - 1 = k
      BY <1>2
    <2> HIDE DEF n
    <2> QED
      BY <2>1, <2>2
  <1>4. Finds(view, points, 0, g[0])
    <2>1. InView(view, points, 0) = {} /\ Place(view, points, 0) = 0
      <3>1. InView(view, points, 0) = {}
        BY DEF InView
      <3> QED
        BY <3>1, FS_EmptySet DEF Place
    <2> QED
      BY <1>2, <1>3, <2>1 DEF Finds, Start, Accs
  <1> HIDE DEF n
  <1>5. 0 \in P
    BY <1>4
  <1>6. ASSUME NEW k \in Nat, k \in P PROVE k + 1 \in P
    <2> SUFFICES ASSUME k + 1 <= n PROVE Finds(view, points, k + 1, g[k + 1])
      OBVIOUS
    <2>1. k <= n
      BY <1>2
    <2>2. Finds(view, points, k, g[k])
      BY <1>6, <2>1
    <2> QED
      BY <1>3, <2>2, AfterFinds DEF n
  <1>7. \A k \in Nat : k \in P
    <2> HIDE DEF P
    <2> QED
      BY <1>5, <1>6, Induction
  <1>8. Finds(view, points, n, g[n])
    BY <1>2, <1>7
  <1> QED
    BY <1>1, <1>8 DEF n

\* SearchFinds, of any view, points and results.
Found(view, points, r) ==
  LET inGrid   == {k \in DOMAIN points : IsIn(view, points[k])}
      place(k) == Cardinality({j \in inGrid : j <= k})
  IN  /\ \A k \in inGrid : r[place(k)] # 0 /\ HasPoint(view[r[place(k)]], points[k])
      /\ \A k \in DOMAIN points : k > Cardinality(inGrid) => r[k] = 0

LEMMA FindsInPlace ==
  ASSUME NEW view \in Views, NEW points \in Seq(Point), NEW acc, Finds(view, points, Len(points), acc)
  PROVE  Found(view, points, acc.ret)
  <1> DEFINE n      == Len(points)
             inGrid == {k \in DOMAIN points : IsIn(view, points[k])}
             r      == acc.ret
  <1>1. n \in Nat /\ DOMAIN points = 1 .. n
    OBVIOUS
  <1>2. inGrid = InView(view, points, n)
    BY <1>1 DEF InView
  <1>3. \A k \in inGrid : {j \in inGrid : j <= k} = InView(view, points, k)
    BY <1>1 DEF InView
  <1>4. Place(view, points, n) \in Nat
    BY <1>1, Places
  <1> HIDE DEF inGrid
  <1>5. \A k \in inGrid : LET e == r[Cardinality({j \in inGrid : j <= k})]
                          IN  e # 0 /\ HasPoint(view[e], points[k])
    BY <1>2, <1>3 DEF Finds, Place
  <1>6. \A k \in DOMAIN points : k > Cardinality(inGrid) => r[k] = 0
    BY <1>1, <1>2, <1>4 DEF Finds, Place
  <1> QED
    BY <1>5, <1>6 DEF Found, inGrid

SearchIInv ==
  /\ gridview_ \in Views /\ it_last_ \in Nat \ {0}
  /\ SearchFinds

LEMMA SearchStep ==
  ASSUME SearchIInv, NEW points \in Seq(Point), SearchFor(points)
  PROVE  SearchIInv'
  <1>1. PICK acc : acc = Search(gridview_, it_last_, points)
    OBVIOUS
  <1>2. asked' = points /\ ret' = acc.ret /\ it_last_' = acc.it_last /\ gridview_' = gridview_
    BY <1>1 DEF SearchFor
  <1>3. Finds(gridview_, points, Len(points), acc)
    BY <1>1, SearchReturns DEF SearchIInv
  <1>4. acc.it_last \in Nat \ {0}
    BY <1>3 DEF Finds, Accs
  <1>5. SearchFinds'
    <2>1. Found(gridview_, points, acc.ret)
      BY <1>3, FindsInPlace DEF SearchIInv
    <2> QED
      BY <1>2, <2>1 DEF Found, IsIn, SearchFinds
  <1> QED
    BY <1>2, <1>4, <1>5 DEF SearchIInv

\* Wherever the last search has ended, the next one finds every point that lies in
\* the view, however elements overlap or leave gaps (EntityInlevelSearch::operator()).
THEOREM SearchesFind == SearchSpec => []SearchFinds
  <1>1. gridview_ \in Views /\ SearchInit => SearchIInv
    BY FS_EmptySet DEF SearchInit, SearchIInv, SearchFinds, NewSearch
  <1>2. SearchIInv /\ [\E points \in Seq(Point) : SearchFor(points)]_searchVars => SearchIInv'
    <2>1. CASE \E points \in Seq(Point) : SearchFor(points)
      BY <2>1, SearchStep
    <2>2. CASE UNCHANGED searchVars
      BY <2>2 DEF SearchIInv, SearchFinds, searchVars
    <2> QED
      BY <2>1, <2>2
  <1>3. SearchIInv => SearchFinds
    BY DEF SearchIInv
  <1> QED
    BY <1>1, <1>2, <1>3, PTL DEF SearchSpec

-----------------------------------------------------------------------------
(* What globalRefine makes of one element. *)

LEMMA ChildrenSteps ==
  /\ Children \in [Nat -> Nat]
  /\ Children[0] = 1
  /\ \A n \in Nat : Children[n + 1] = 4 * Children[n]
  <1> DEFINE step == [p \in Nat \X Nat |-> 4 * p[2]]
             Is(f) == f = [level \in Nat |-> IF level = 0 THEN 1 ELSE 4 * f[level - 1]]
  <1>1. step \in [Nat \X Nat -> Nat] /\ \A k, m \in Nat : step[<<k, m>>] = 4 * m
    OBVIOUS
  <1>2. PICK f \in [Nat -> Nat] : IsRecursion(f, Nat, 1, step)
    <2> HIDE DEF step
    <2> QED
      BY ONLY <1>1, RecursionOnNumbers
  <1> HIDE DEF step
  <1>3. \A k \in Nat : f[k] = IF k = 0 THEN 1 ELSE step[<<k, f[k - 1]>>]
    BY <1>2, RecursionSteps
  <1>4. \A k \in Nat : f[k] = IF k = 0 THEN 1 ELSE 4 * f[k - 1]
    <2>1. \A k \in Nat : k # 0 => step[<<k, f[k - 1]>>] = 4 * f[k - 1]
      BY <1>1, <1>2
    <2> QED
      BY <1>3, <2>1
  <1>5. Is(f)
    BY <1>2, <1>4
  <1>6. Children = CHOOSE h : Is(h)
    BY DEF Children
  <1>7. Is(Children)
    <2> HIDE DEF Is
    <2> QED
      BY <1>5, <1>6
  <1>8. /\ \A k \in Nat : Children[k] = IF k = 0 THEN 1 ELSE 4 * Children[k - 1]
        /\ DOMAIN Children = Nat
        /\ Children = [k \in Nat |-> Children[k]]
    <2> PICK h : h = Children
      OBVIOUS
    <2>1. h = [level \in Nat |-> IF level = 0 THEN 1 ELSE 4 * h[level - 1]]
      BY <1>7
    <2> QED
      BY <2>1
  <1>9. Children[0] = 1 /\ \A n \in Nat : Children[n + 1] = 4 * Children[n]
    <2>1. ASSUME NEW n \in Nat PROVE Children[n + 1] = 4 * Children[n]
      <3>1. n + 1 \in Nat /\ n + 1 # 0 /\ (n + 1) - 1 = n
        OBVIOUS
      <3>2. Children[n + 1] = IF n + 1 = 0 THEN 1 ELSE 4 * Children[(n + 1) - 1]
        BY <1>8, <3>1
      <3> QED
        BY <3>1, <3>2
    <2>2. 0 \in Nat
      OBVIOUS
    <2> QED
      BY <1>8, <2>1, <2>2
  <1> DEFINE P == {n \in Nat : Children[n] \in Nat}
  <1>10. 0 \in P /\ \A n \in Nat : n \in P => n + 1 \in P
    BY <1>9
  <1>11. \A n \in Nat : n \in P
    <2> HIDE DEF P
    <2> QED
      BY <1>10, Induction
  <1>12. Children \in [Nat -> Nat]
    BY <1>8, <1>11
  <1> QED
    BY <1>9, <1>12

LEMMA ChildrenOfChildren ==
  ASSUME NEW m \in Nat
  PROVE  \A n \in Nat : Children[m + n] = Children[n] * Children[m]
  <1> DEFINE P == {n \in Nat : Children[m + n] = Children[n] * Children[m]}
  <1>1. 0 \in P
    <2>1. m + 0 = m /\ Children[m] \in Nat
      BY ChildrenSteps
    <2> QED
      BY <2>1, ChildrenSteps
  <1>2. ASSUME NEW n \in Nat, n \in P PROVE n + 1 \in P
    <2>1. PICK k \in Nat : k = m + n
      OBVIOUS
    <2>2. m + (n + 1) = k + 1
      BY <2>1
    <2>3. Children[k + 1] = 4 * Children[k] /\ Children[n + 1] = 4 * Children[n] /\ Children[k] = Children[n] * Children[m]
      BY <1>2, <2>1, ChildrenSteps
    <2>4. Children[n] \in Nat /\ Children[m] \in Nat
      BY ChildrenSteps
    <2>5. PICK x, y \in Nat : x = Children[n] /\ y = Children[m]
      BY <2>4
    <2>6. 4 * (x * y) = (4 * x) * y
      OBVIOUS
    <2>7. Children[k + 1] = Children[n + 1] * Children[m]
      BY <2>3, <2>5, <2>6
    <2> QED
      BY <2>2, <2>7
  <1> HIDE DEF P
  <1>3. \A n \in Nat : n \in P
    BY <1>1, <1>2, Induction
  <1> QED
    BY <1>3 DEF P

-----------------------------------------------------------------------------
(* The inductive invariant of a grid that is shared. *)

\* A grid has a first element, whose corners are in order.
CoarseIsGrid ==
  IsGrid(coarse) =>
    /\ Len(coarse) \in Nat
    /\ \A d \in Dims : /\ coarse[1].lo[d] \in Int /\ coarse[1].hi[d] \in Int
                       /\ coarse[1].lo[d] <= coarse[1].hi[d]

\* Every study was set up on a level of the grid, and all of its levels are there.
StudiesFit ==
  /\ eocs \in Seq({Setup(l, n) : l \in Nat, n \in Nat})
  /\ \A k \in DOMAIN eocs : eocs[k].reference_level_ <= maxLevel
  /\ eocs # <<>> => IsGrid(coarse)

\* The last drawing is of successive levels, and they are there.
Draws(l, n) ==
  /\ l + n <= maxLevel + 1 /\ DOMAIN picture = 1 .. n
  /\ \A k \in 1 .. n : /\ picture[k].level = l + k - 1
                       /\ picture[k].lines = 4 * (Len(coarse) * Children[l + k - 1])
  /\ \/ \A k \in 1 .. n : picture[k].color = "black"
     \/ l = 0 /\ \A k \in 1 .. n : picture[k].color = Color(k - 1)
  /\ n > 0 => IsGrid(coarse)

ProvidersIInv ==
  /\ maxLevel \in Nat
  /\ CoarseIsGrid
  /\ StudiesFit
  /\ \E l, n \in Nat : Draws(l, n)

-----------------------------------------------------------------------------
(* What cubes are made of. *)

LEMMA Divided ==
  ASSUME NEW m \in Nat, NEW n \in Nat \ {0}
  PROVE  m \div n \in Nat /\ 0 \div n = 0 /\ 0 % n = 0
  OBVIOUS

LEMMA BoxesAreInOrder ==
  ASSUME NEW ll, NEW ur, NEW n,
         \A d \in Dims : ll[d] \in Int /\ ur[d] \in Int /\ ll[d] < ur[d] /\ n[d] \in Nat \ {0},
         NEW boxes, boxes = Boxes(ll, ur, n)
  PROVE  /\ Len(boxes) \in Nat
         /\ \A d \in Dims : /\ boxes[1].lo[d] \in Int /\ boxes[1].hi[d] \in Int
                            /\ boxes[1].lo[d] <= boxes[1].hi[d]
  <1> DEFINE h == [d \in Dims |-> (ur[d] - ll[d]) \div n[d]]
             at(x, y) == Box(<<ll[1] + x * h[1], ll[2] + y * h[2]>>, <<ll[1] + (x + 1) * h[1], ll[2] + (y + 1) * h[2]>>)
  <1>1. boxes = [k \in 1 .. n[1] * n[2] |-> at((k - 1) % n[1], (k - 1) \div n[1])]
    BY DEF Boxes
  <1>2. 1 \in Dims /\ 2 \in Dims
    BY DEF Dims
  <1>3. n[1] * n[2] \in Nat \ {0}
    <2>1. PICK a, b \in Nat \ {0} : a = n[1] /\ b = n[2]
      BY <1>2
    <2>2. a * b \in Nat \ {0}
      OBVIOUS
    <2> QED
      BY <2>1, <2>2
  <1>4. \A d \in Dims : h[d] \in Nat
    <2> SUFFICES ASSUME NEW d \in Dims PROVE h[d] \in Nat
      OBVIOUS
    <2>1. ur[d] - ll[d] \in Nat /\ n[d] \in Nat \ {0}
      OBVIOUS
    <2> QED
      BY <2>1, Divided
  <1>5. (1 - 1) % n[1] = 0 /\ (1 - 1) \div n[1] = 0
    <2>1. n[1] \in Nat \ {0}
      BY <1>2
    <2> QED
      BY <2>1, Divided
  <1> HIDE DEF h, at
  <1>6. Len(boxes) \in Nat /\ boxes[1] = at(0, 0)
    <2>1. boxes[1] = at((1 - 1) % n[1], (1 - 1) \div n[1])
      BY <1>1, <1>3
    <2> QED
      BY <1>1, <1>3, <1>5, <2>1
  <1>7. /\ boxes[1].lo[1] = ll[1] /\ boxes[1].hi[1] = ll[1] + h[1]
        /\ boxes[1].lo[2] = ll[2] /\ boxes[1].hi[2] = ll[2] + h[2]
    BY <1>2, <1>4, <1>6 DEF at, Box
  <1> QED
    BY <1>2, <1>4, <1>6, <1>7, SMTT(60) DEF Dims

LEMMA InitProviders == ProvidersInit => ProvidersIInv
  <1> SUFFICES ASSUME ProvidersInit PROVE ProvidersIInv
    OBVIOUS
  <1>1. PICK cfg \in Configs, overlap \in Overlaps :
          /\ coarse = CreateCube(cfg, overlap)
          /\ maxLevel = IF IsGrid(coarse) THEN Refinements(cfg) ELSE 0
          /\ eocs = <<>> /\ picture = <<>>
    BY DEF ProvidersInit
  <1>2. maxLevel \in Nat
    BY <1>1, ProvidersAssumption DEF Refinements
  <1>3. CoarseIsGrid
    <2> SUFFICES ASSUME IsGrid(coarse)
                 PROVE  /\ Len(coarse) \in Nat
                        /\ \A d \in Dims : /\ coarse[1].lo[d] \in Int /\ coarse[1].hi[d] \in Int
                                           /\ coarse[1].lo[d] <= coarse[1].hi[d]
      BY DEF CoarseIsGrid
    <2> DEFINE of(key) == IF key \in DOMAIN cfg THEN cfg[key] ELSE CubeDefault(key)
               ll == of("lower_left")
               ur == of("upper_right")
               n  == IF "each" \in DOMAIN cfg THEN ParseScalar(cfg["each"]) ELSE ParseArray(of("num_elements"))
    <2>1. coarse = IF n = wrong_input_given THEN n ELSE CreateGrid(ll, ur, n, overlap)
      BY <1>1 DEF CreateCube
    <2>2. \A d \in Dims : ll[d] \in Int /\ ur[d] \in Int
      <3>1. \A d \in Dims : CubeDefault("lower_left")[d] \in Int /\ CubeDefault("upper_right")[d] \in Int
        BY DEF CubeDefault, Dims
      <3> QED
        BY <3>1, ProvidersAssumption
    <2>3. n # wrong_input_given => \A d \in Dims : n[d] \in Nat \ {0}
      <3>1. CASE "each" \in DOMAIN cfg
        BY <3>1, ProvidersAssumption DEF ParseScalar
      <3>2. CASE "each" \notin DOMAIN cfg
        <4>1. PICK s : s = of("num_elements")
          OBVIOUS
        <4>2. s \in Seq(Nat \ {0})
          <5>1. CASE "num_elements" \in DOMAIN cfg
            BY <4>1, <5>1, ProvidersAssumption
          <5>2. CASE "num_elements" \notin DOMAIN cfg
            <6>1. CubeDefault("num_elements") = <<8, 8>>
              BY DEF CubeDefault
            <6>2. <<8, 8>> \in Seq(Nat \ {0})
              OBVIOUS
            <6> QED
              BY <4>1, <5>2, <6>1, <6>2
          <5> QED
            BY <5>1, <5>2
        <4>3. Cardinality(Dims) = 2
          <5>1. Cardinality({1}) = 1 /\ IsFiniteSet({1}) /\ Dims = {1} \cup {2}
            BY FS_Singleton DEF Dims
          <5> QED
            BY ONLY <5>1, FS_AddElement, SMTT(30)
        <4>4. n = IF Len(s) < 2 THEN wrong_input_given ELSE [d \in Dims |-> s[d]]
          BY <3>2, <4>1, <4>3 DEF ParseArray
        <4>5. ~(Len(s) < 2) => \A d \in Dims : s[d] \in Nat \ {0}
          BY <4>2 DEF Dims
        <4> HIDE DEF n
        <4> QED
          BY <4>4, <4>5
      <3> QED
        BY <3>1, <3>2
    <2> HIDE DEF n, ll, ur
    <2>4. n # wrong_input_given /\ (\A d \in Dims : ~(ll[d] >= ur[d])) /\ coarse = Boxes(ll, ur, n)
      BY <2>1 DEF IsGrid, CreateGrid, CreateCubeGrid
    <2>5. \A d \in Dims : ll[d] < ur[d]
      BY <2>2, <2>4
    <2> QED
      BY <2>2, <2>3, <2>4, <2>5, BoxesAreInOrder
  <1>4. StudiesFit
    BY <1>1 DEF StudiesFit
  <1>5. Draws(0, 0)
    BY <1>1, <1>2 DEF Draws
  <1> QED
    BY <1>2, <1>3, <1>4, <1>5 DEF ProvidersIInv

-----------------------------------------------------------------------------
(* One lemma per kind of action. *)

\* Refining changes what is there, and nothing that refers to it.
LEMMA Refining ==
  ASSUME ProvidersIInv, maxLevel' \in Nat, maxLevel <= maxLevel', UNCHANGED coarse
  PROVE  /\ CoarseIsGrid'
         /\ UNCHANGED eocs => StudiesFit'
         /\ UNCHANGED picture => \E l, n \in Nat : Draws(l, n)'
  <1>1. CoarseIsGrid'
    BY DEF ProvidersIInv, CoarseIsGrid, IsGrid
  <1>2. ASSUME UNCHANGED eocs PROVE StudiesFit'
    <2>1. \A k \in DOMAIN eocs : eocs[k].reference_level_ \in Int
      <3> SUFFICES ASSUME NEW k \in DOMAIN eocs PROVE eocs[k].reference_level_ \in Int
        OBVIOUS
      <3>1. PICK l, n \in Nat : eocs[k] = Setup(l, n)
        BY DEF ProvidersIInv, StudiesFit
      <3> QED
        BY <3>1, ProvidersAssumption DEF Setup
    <2>2. /\ eocs' \in Seq({Setup(l, n) : l \in Nat, n \in Nat})
          /\ eocs' # <<>> => IsGrid(coarse)'
      BY <1>2 DEF ProvidersIInv, StudiesFit, IsGrid
    <2>3. \A k \in DOMAIN eocs' : eocs'[k].reference_level_ <= maxLevel'
      BY <1>2, <2>1 DEF ProvidersIInv, StudiesFit
    <2> QED
      BY <2>2, <2>3 DEF StudiesFit
  <1>3. ASSUME UNCHANGED picture PROVE \E l, n \in Nat : Draws(l, n)'
    <2>1. PICK l, n \in Nat : Draws(l, n)
      BY DEF ProvidersIInv
    <2>2. l + n <= maxLevel' + 1
      <3>1. l + n <= maxLevel + 1 /\ maxLevel \in Nat /\ maxLevel' \in Nat /\ maxLevel <= maxLevel'
        BY <2>1 DEF Draws, ProvidersIInv
      <3>2. \A a, b, c \in Nat : a <= b + 1 /\ b <= c => a <= c + 1
        OBVIOUS
      <3>3. l + n \in Nat
        OBVIOUS
      <3> QED
        BY <3>1, <3>2, <3>3
    <2>3. Draws(l, n)'
      BY <1>3, <2>1, <2>2 DEF Draws, IsGrid
    <2> QED
      BY <2>3
  <1> QED
    BY <1>1, <1>2, <1>3

LEMMA NewEOCStep ==
  ASSUME ProvidersIInv, NEW n \in 0 .. MaxLevel, NewEOC(n)
  PROVE  ProvidersIInv'
  <1> DEFINE eoc == Setup(maxLevel, n)
  <1>1. n \in Nat /\ RefineSteps \in Nat
    BY ProvidersAssumption
  <1>2. eoc.reference_level_ = maxLevel + (n + 1) * RefineSteps
    BY DEF Setup
  <1>3. (n + 1) * RefineSteps \in Nat
    BY <1>1
  <1>4. eoc.reference_level_ \in Nat /\ maxLevel <= eoc.reference_level_ /\ maxLevel \in Nat
    BY <1>2, <1>3 DEF ProvidersIInv
  <1> HIDE DEF eoc
  <1>5. eocs' = Append(eocs, eoc) /\ maxLevel' = eoc.reference_level_ /\ UNCHANGED <<coarse, picture>>
    BY DEF NewEOC, eoc
  <1>5a. IsGrid(coarse)'
    BY <1>5 DEF NewEOC, IsGrid
  <1>6. maxLevel' \in Nat /\ maxLevel <= maxLevel'
    BY <1>4, <1>5
  <1>7. CoarseIsGrid' /\ \E l, m \in Nat : Draws(l, m)'
    BY <1>5, <1>6, Refining
  <1>8. StudiesFit'
    <2> DEFINE S == {Setup(l, m) : l \in Nat, m \in Nat}
    <2>1. eocs \in Seq(S) /\ eoc \in S
      BY <1>1, <1>4 DEF ProvidersIInv, StudiesFit, eoc
    <2>2. \A k \in DOMAIN eocs : eocs[k].reference_level_ \in Int
      <3> SUFFICES ASSUME NEW k \in DOMAIN eocs PROVE eocs[k].reference_level_ \in Int
        OBVIOUS
      <3>1. PICK l, m \in Nat : eocs[k] = Setup(l, m)
        BY <2>1
      <3> QED
        BY <3>1, ProvidersAssumption DEF Setup
    <2> HIDE DEF S
    <2>3. /\ eocs' \in Seq(S) /\ DOMAIN eocs' = 1 .. Len(eocs) + 1
          /\ eocs'[Len(eocs) + 1] = eoc
          /\ \A k \in 1 .. Len(eocs) : eocs'[k] = eocs[k]
      BY <1>5, <2>1
    <2>4. \A k \in DOMAIN eocs' : eocs'[k].reference_level_ <= maxLevel'
      <3> SUFFICES ASSUME NEW k \in DOMAIN eocs' PROVE eocs'[k].reference_level_ <= maxLevel'
        OBVIOUS
      <3>1. CASE k = Len(eocs) + 1
        BY <1>4, <1>5, <2>3, <3>1
      <3>2. CASE k # Len(eocs) + 1
        <4>1. k \in DOMAIN eocs /\ eocs'[k] = eocs[k]
          BY <2>1, <2>3, <3>2
        <4>2. eocs[k].reference_level_ <= maxLevel
          BY <4>1 DEF ProvidersIInv, StudiesFit
        <4> QED
          BY <1>4, <1>6, <2>2, <4>1, <4>2
      <3> QED
        BY <3>1, <3>2
    <2> QED
      BY <1>5a, <2>3, <2>4 DEF StudiesFit, S
  <1> QED
    BY <1>6, <1>7, <1>8 DEF ProvidersIInv

LEMMA DrawnLines ==
  ASSUME NEW level, NEW color
  PROVE  Drawn(level, color) = [level |-> level, color |-> color, lines |-> 4 * (Len(coarse) * Children[level])]
  BY DEF Drawn, Size, LayerView

LEMMA LeafStep ==
  ASSUME ProvidersIInv, Leaf
  PROVE  ProvidersIInv'
  <1>1. /\ IsGrid(coarse) /\ UNCHANGED <<coarse, maxLevel, eocs>>
        /\ picture' = <<[level |-> maxLevel, color |-> "black", lines |-> 4 * (Len(coarse) * Children[maxLevel])]>>
    BY DrawnLines DEF Leaf
  <1>2. maxLevel \in Nat /\ maxLevel' \in Nat /\ maxLevel <= maxLevel'
    BY <1>1 DEF ProvidersIInv
  <1>3. CoarseIsGrid' /\ StudiesFit'
    BY <1>1, <1>2, Refining
  <1>4. Draws(maxLevel, 1)'
    BY <1>1, <1>2 DEF Draws, IsGrid
  <1> QED
    BY <1>2, <1>3, <1>4 DEF ProvidersIInv

LEMMA DrawLevelsStep ==
  ASSUME ProvidersIInv, NEW n \in 0 .. MaxLevel, Stacked(n) \/ Refineseries(n)
  PROVE  ProvidersIInv'
  <1>1. n \in Nat /\ MaxLevel \in Nat /\ \A k \in 1 .. n : k - 1 \in 0 .. MaxLevel
    BY ProvidersAssumption
  <1>2. /\ IsGrid(coarse) /\ maxLevel' = maxLevel + n /\ UNCHANGED <<coarse, eocs>>
        /\ \/ picture' = [k \in 1 .. n |-> Drawn(k - 1, Color(k - 1))]
           \/ picture' = [k \in 1 .. n |-> Drawn(k - 1, "black")]
    BY <1>1 DEF Stacked, Refineseries, DrawLevels
  <1>3. maxLevel \in Nat /\ maxLevel' \in Nat /\ maxLevel <= maxLevel'
    BY <1>1, <1>2 DEF ProvidersIInv
  <1>4. CoarseIsGrid' /\ StudiesFit'
    BY <1>2, <1>3, Refining
  <1>5. Draws(0, n)'
    <2>1. /\ DOMAIN picture' = 1 .. n
          /\ \A k \in 1 .. n : /\ picture'[k].level = k - 1
                               /\ picture'[k].lines = 4 * (Len(coarse) * Children[k - 1])
          /\ \/ \A k \in 1 .. n : picture'[k].color = "black"
             \/ \A k \in 1 .. n : picture'[k].color = Color(k - 1)
      BY <1>2, DrawnLines
    <2>2. 0 + n <= maxLevel' + 1 /\ \A k \in 1 .. n : 0 + k - 1 = k - 1
      BY <1>1, <1>2, <1>3
    <2> QED
      BY <1>2, <2>1, <2>2 DEF Draws, IsGrid
  <1> QED
    BY <1>1, <1>3, <1>4, <1>5 DEF ProvidersIInv

LEMMA NextProviders == ProvidersIInv /\ [ProvidersNext]_providerVars => ProvidersIInv'
  <1> SUFFICES ASSUME ProvidersIInv, [ProvidersNext]_providerVars PROVE ProvidersIInv'
    OBVIOUS
  <1>1. CASE GlobalRefine
    <2>1. maxLevel' = maxLevel + 1 /\ UNCHANGED <<coarse, eocs, picture>> /\ maxLevel \in Nat
      BY <1>1 DEF GlobalRefine, ProvidersIInv
    <2>2. maxLevel' \in Nat /\ maxLevel <= maxLevel'
      BY <2>1
    <2> QED
      BY <2>1, <2>2, Refining DEF ProvidersIInv
  <1>2. CASE Leaf
    BY <1>2, LeafStep
  <1>3. ASSUME NEW n \in 0 .. MaxLevel, NewEOC(n) \/ Stacked(n) \/ Refineseries(n)
        PROVE  ProvidersIInv'
    BY <1>3, NewEOCStep, DrawLevelsStep
  <1>4. CASE UNCHANGED providerVars
    <2>1. UNCHANGED <<maxLevel, coarse, eocs, picture>> /\ maxLevel \in Nat
      BY <1>4 DEF providerVars, ProvidersIInv
    <2>2. maxLevel' \in Nat /\ maxLevel <= maxLevel'
      BY <2>1
    <2> QED
      BY <2>1, <2>2, Refining DEF ProvidersIInv
  <1> QED
    BY <1>1, <1>2, <1>3, <1>4 DEF ProvidersNext

-----------------------------------------------------------------------------
(* What the invariant says of studies and drawings. *)

LEMMA StudiesAreKept == ProvidersIInv => StudiesKeepTheirLevels
  <1> SUFFICES ASSUME ProvidersIInv, NEW k \in DOMAIN eocs, NEW eoc, eoc = eocs[k]
               PROVE  /\ \A r \in 0 .. NumRefinements(eoc) :
                           /\ LevelExists(LevelOf(eoc, r))
                           /\ LevelOf(eoc, r) < eoc.reference_level_
                      /\ LevelExists(eoc.reference_level_)
                      /\ \A r \in 1 .. NumRefinements(eoc) :
                           Size("level", LevelOf(eoc, r)) = Children[RefineSteps] * Size("level", LevelOf(eoc, r - 1))
    BY DEF StudiesKeepTheirLevels
  <1>1. PICK l, n \in Nat : eoc = Setup(l, n)
    BY DEF ProvidersIInv, StudiesFit
  <1>2. PICK R \in Nat \ {0} : R = RefineSteps
    BY ProvidersAssumption
  <1>3. NumRefinements(eoc) = n /\ \A r \in 0 .. n : LevelOf(eoc, r) = l + r * R
    <2>1. eoc.levels_ = [r \in 1 .. n + 1 |-> l + (r - 1) * R]
      BY <1>1, <1>2 DEF Setup
    <2>2. Len(eoc.levels_) = n + 1
      BY <2>1
    <2>3. \A r \in 0 .. n : r + 1 \in 1 .. n + 1 /\ (r + 1) - 1 = r
      OBVIOUS
    <2> QED
      BY <2>1, <2>2, <2>3 DEF NumRefinements, LevelOf
  <1>4. eoc.reference_level_ = l + (n + 1) * R /\ eoc.reference_level_ <= maxLevel /\ maxLevel \in Nat
    <2>1. eoc.reference_level_ = l + (n + 1) * R
      BY <1>1, <1>2 DEF Setup
    <2>2. eoc.reference_level_ <= maxLevel /\ maxLevel \in Nat
      BY DEF ProvidersIInv, StudiesFit
    <2> QED
      BY <2>1, <2>2
  <1>5. \A r \in 0 .. n : l + r * R \in Nat /\ l + r * R < l + (n + 1) * R
    <2> SUFFICES ASSUME NEW r \in 0 .. n PROVE l + r * R \in Nat /\ l + r * R < l + (n + 1) * R
      OBVIOUS
    <2>1. PICK m \in Nat \ {0} : n + 1 = r + m
      <3>1. (n + 1) - r \in Nat \ {0} /\ n + 1 = r + ((n + 1) - r)
        OBVIOUS
      <3> QED
        BY <3>1
    <2>2. (r + m) * R = r * R + m * R /\ r * R \in Nat /\ m * R \in Nat \ {0}
      OBVIOUS
    <2> QED
      BY <2>1, <2>2
  <1>6. \A r \in 0 .. n : LevelExists(LevelOf(eoc, r)) /\ LevelOf(eoc, r) < eoc.reference_level_
    BY <1>3, <1>4, <1>5 DEF LevelExists
  <1>7. LevelExists(eoc.reference_level_)
    <2>1. (n + 1) * R \in Nat
      OBVIOUS
    <2> QED
      BY <1>4, <2>1 DEF LevelExists
  <1>8. ASSUME NEW r \in 1 .. n
        PROVE  Size("level", LevelOf(eoc, r)) = Children[R] * Size("level", LevelOf(eoc, r - 1))
    <2>1. PICK m \in Nat : m = l + (r - 1) * R
      BY <1>5
    <2>2. l + r * R = m + R
      BY <2>1
    <2>3. r \in 0 .. n /\ r - 1 \in 0 .. n
      OBVIOUS
    <2>4. LevelOf(eoc, r) = m + R /\ LevelOf(eoc, r - 1) = m
      BY <1>3, <2>1, <2>2, <2>3
    <2>5. Children[m + R] = Children[R] * Children[m] /\ Children[R] \in Nat /\ Children[m] \in Nat
      BY ChildrenOfChildren, ChildrenSteps
    <2>6. \A level \in Nat : Size("level", level) = Len(coarse) * Children[level]
      BY DEF Size, LayerView
    <2>7. IsGrid(coarse)
      <3>1. eocs # <<>>
        OBVIOUS
      <3> QED
        BY <3>1 DEF ProvidersIInv, StudiesFit
    <2>8. Len(coarse) \in Nat
      BY <2>7 DEF ProvidersIInv, CoarseIsGrid
    <2>9. PICK x, y, z \in Nat : x = Len(coarse) /\ y = Children[R] /\ z = Children[m]
      BY <2>5, <2>8
    <2>10. x * (y * z) = y * (x * z)
      OBVIOUS
    <2>11. m + R \in Nat
      OBVIOUS
    <2> QED
      BY <2>4, <2>5, <2>6, <2>9, <2>10, <2>11
  <1> QED
    BY <1>2, <1>3, <1>6, <1>7, <1>8

LEMMA ColorsDiffer ==
  /\ \A k \in 1 .. 7 : Color(k - 1) = TexColors[k] /\ TexColors[k] # "undefined"
  /\ \A j, k \in 1 .. 7 : j # k => TexColors[j] # TexColors[k]
  /\ \A k \in 1 .. 7 : "black" # "undefined"
  <1>1. Len(TexColors) = 7
    BY DEF TexColors
  <1>2. /\ TexColors[1] = "black" /\ TexColors[2] = "red" /\ TexColors[3] = "blue"
        /\ TexColors[4] = "green" /\ TexColors[5] = "yellow" /\ TexColors[6] = "cyan"
        /\ TexColors[7] = "magenta"
    BY DEF TexColors
  <1>3. \A k \in 1 .. 7 : k \in {1, 2, 3, 4, 5, 6, 7}
    OBVIOUS
  <1>4. ASSUME NEW k \in 1 .. 7 PROVE Color(k - 1) = TexColors[k]
    <2>1. Min({k - 1, 7}) = k - 1
      <3> DEFINE S == {k - 1, 7}
      <3>1. k - 1 \in S /\ \A n \in S : k - 1 <= n
        OBVIOUS
      <3>2. \A m \in S : (\A n \in S : m <= n) => m = k - 1
        OBVIOUS
      <3> HIDE DEF S
      <3>3. Min(S) = k - 1
        BY <3>1, <3>2 DEF Min
      <3> QED
        BY <3>3 DEF S
    <2>2. k - 1 < 7 /\ (k - 1) + 1 = k
      OBVIOUS
    <2> QED
      BY <1>1, <2>1, <2>2 DEF Color
  <1> QED
    BY <1>2, <1>3, <1>4

\* Lines that are moved by at most 96 % of the way to the centre stay in the element.
LEMMA MovedWithin ==
  ASSUME NEW lo \in Int, NEW hi \in Int, lo <= hi, NEW x \in {lo, hi}, NEW l \in 0 .. 6
  PROVE  /\ 100 * lo <= 100 * x + 16 * l * ((lo + hi) \div 2 - x)
         /\ 100 * x + 16 * l * ((lo + hi) \div 2 - x) <= 100 * hi
  <1>1. PICK c \in Int : c = (lo + hi) \div 2 /\ lo <= c /\ c <= hi
    OBVIOUS
  <1>2. l \in {0, 1, 2, 3, 4, 5, 6}
    OBVIOUS
  <1>3. 100 * lo <= 100 * x + 16 * l * (c - x) /\ 100 * x + 16 * l * (c - x) <= 100 * hi
    <2>1. CASE x = lo
      BY <1>1, <1>2, <2>1
    <2>2. CASE x = hi
      BY <1>1, <1>2, <2>2
    <2> QED
      BY <2>1, <2>2
  <1> QED
    BY <1>1, <1>3

LEMMA DrawingsAreShown == ProvidersIInv => DrawingsShowLevels
  <1> SUFFICES ASSUME ProvidersIInv PROVE DrawingsShowLevels
    OBVIOUS
  <1> DEFINE stacked == {k \in DOMAIN picture : k <= Len(TexColors)}
             colors  == {picture[k].color : k \in stacked}
             b       == coarse[1]
  <1>1. PICK l, n \in Nat : Draws(l, n)
    BY DEF ProvidersIInv
  <1>2. DOMAIN picture = 1 .. n
    BY <1>1 DEF Draws
  <1>3. stacked = {k \in 1 .. n : k <= 7} /\ \A k \in stacked : k \in 1 .. n /\ k \in 1 .. 7
    <2>1. Len(TexColors) = 7
      BY DEF TexColors
    <2> QED
      BY <1>2, <2>1
  <1>4. ASSUME NEW k \in DOMAIN picture
        PROVE  /\ LevelExists(picture[k].level)
               /\ k > 1 => picture[k].lines = 4 * picture[k - 1].lines
    <2>1. k \in 1 .. n /\ picture[k].level = l + k - 1 /\ picture[k].lines = 4 * (Len(coarse) * Children[l + k - 1])
      BY <1>1, <1>2 DEF Draws
    <2>2. l + n <= maxLevel + 1 /\ maxLevel \in Nat
      BY <1>1 DEF Draws, ProvidersIInv
    <2>3. LevelExists(picture[k].level)
      BY <2>1, <2>2 DEF LevelExists
    <2>4. ASSUME k > 1 PROVE picture[k].lines = 4 * picture[k - 1].lines
      <3>1. k - 1 \in 1 .. n /\ n > 0
        BY <2>1, <2>4
      <3>2. picture[k - 1].lines = 4 * (Len(coarse) * Children[l + (k - 1) - 1]) /\ IsGrid(coarse)
        BY <1>1, <3>1 DEF Draws
      <3>3. PICK m \in Nat : m = l + (k - 1) - 1 /\ m + 1 = l + k - 1
        BY <2>1, <3>1
      <3>4. Children[m + 1] = 4 * Children[m]
        BY ChildrenSteps
      <3>5. PICK x, y \in Nat : x = Len(coarse) /\ y = Children[m]
        BY <3>2, ChildrenSteps DEF ProvidersIInv, CoarseIsGrid
      <3>6. 4 * (x * (4 * y)) = 4 * (4 * (x * y))
        OBVIOUS
      <3> QED
        BY <2>1, <3>2, <3>3, <3>4, <3>5, <3>6
    <2> QED
      BY <2>3, <2>4
  <1>5. \/ \A k \in stacked : picture[k].color = "black"
        \/ \A k \in stacked : picture[k].color = TexColors[k]
    <2>1. \/ \A k \in 1 .. n : picture[k].color = "black"
          \/ \A k \in 1 .. n : picture[k].color = Color(k - 1)
      BY <1>1 DEF Draws
    <2> HIDE DEF stacked
    <2> QED
      BY <1>3, <2>1, ColorsDiffer
  <1>6. \A k \in stacked : picture[k].color # "undefined"
    <2> HIDE DEF stacked
    <2> QED
      BY <1>3, <1>5, ColorsDiffer
  <1>7. IsFiniteSet(stacked)
    <2> HIDE DEF stacked
    <2>1. PICK all : all = 1 .. n
      OBVIOUS
    <2>2. IsFiniteSet(all)
      BY <2>1, FS_Interval
    <2>3. stacked \in SUBSET all
      BY <1>3, <2>1
    <2> QED
      BY <2>2, <2>3, FS_Subset
  <1>8. Cardinality(colors) \in {0, 1, Cardinality(stacked)}
    <2>1. CASE stacked = {}
      <3>1. colors = {}
        BY <2>1
      <3> QED
        BY <3>1, FS_EmptySet
    <2>2. CASE stacked # {} /\ \A k \in stacked : picture[k].color = "black"
      <3> HIDE DEF stacked
      <3>1. colors = {"black"}
        BY <2>2
      <3> QED
        BY <3>1, FS_Singleton
    <2>3. CASE \A k \in stacked : picture[k].color = TexColors[k]
      <3> DEFINE f == [k \in stacked |-> picture[k].color]
      <3> HIDE DEF stacked
      <3>1. f \in Surjection(stacked, colors)
        BY DEF Surjection
      <3>2. f \in Injection(stacked, colors)
        <4>1. \A j, k \in stacked : f[j] = f[k] => j = k
          BY <1>3, <2>3, ColorsDiffer
        <4>2. f \in [stacked -> colors]
          OBVIOUS
        <4> HIDE DEF f, colors
        <4> QED
          BY <4>1, <4>2 DEF Injection, IsInjective
      <3> HIDE DEF f, colors
      <3>3. Cardinality(colors) = Cardinality(stacked)
        BY <1>7, <3>1, <3>2, FS_Surjection
      <3> QED
        BY <3>3
    <2> HIDE DEF stacked, colors
    <2> QED
      BY <1>5, <2>1, <2>2, <2>3
  <1>9. ASSUME NEW k \in stacked, NEW x \in Corners(b), NEW d \in Dims
        PROVE  LET moved == Shifted(x, Center(b), k - 1)[d]
               IN  100 * b.lo[d] <= moved /\ moved <= 100 * b.hi[d]
    <2>1. k \in 1 .. n /\ k - 1 \in 0 .. 6 /\ n > 0
      BY <1>3
    <2>2. IsGrid(coarse)
      BY <1>1, <2>1 DEF Draws
    <2>3. b.lo[d] \in Int /\ b.hi[d] \in Int /\ b.lo[d] <= b.hi[d]
      BY <2>2 DEF ProvidersIInv, CoarseIsGrid
    <2>4. x[d] \in {b.lo[d], b.hi[d]}
      <3>1. PICK u \in {b.lo[1], b.hi[1]}, v \in {b.lo[2], b.hi[2]} : x = <<u, v>>
        BY DEF Corners
      <3> HIDE DEF b
      <3> QED
        BY <3>1 DEF Dims
    <2>5. Shifted(x, Center(b), k - 1)[d] = 100 * x[d] + 16 * (k - 1) * ((b.lo[d] + b.hi[d]) \div 2 - x[d])
      BY DEF Shifted, Center
    <2> HIDE DEF b
    <2>6. PICK lo, hi \in Int : lo = b.lo[d] /\ hi = b.hi[d] /\ lo <= hi
      BY <2>3
    <2>7. PICK y \in {lo, hi} : y = x[d]
      BY <2>4, <2>6
    <2>8. PICK level \in 0 .. 6 : level = k - 1
      BY <2>1
    <2>9. /\ 100 * lo <= 100 * y + 16 * level * ((lo + hi) \div 2 - y)
          /\ 100 * y + 16 * level * ((lo + hi) \div 2 - y) <= 100 * hi
      BY <2>6, MovedWithin, ZenonT(90)
    <2> QED
      BY <2>5, <2>6, <2>7, <2>8, <2>9
  <1> QED
    BY <1>4, <1>6, <1>8, <1>9 DEF DrawingsShowLevels

\* Studies and drawings that share one grid each find their levels on it
\* (eoc.hh, pgf.hh), for all cubes and however far they are refined.
THEOREM SharedLevels == ProvidersSpec => []LevelsAreShared
  <1>1. ProvidersSpec => []ProvidersIInv
    BY InitProviders, NextProviders, PTL DEF ProvidersSpec
  <1>2. ProvidersIInv => LevelsAreShared
    BY StudiesAreKept, DrawingsAreShown DEF LevelsAreShared
  <1> QED
    BY <1>1, <1>2, PTL

=============================================================================
