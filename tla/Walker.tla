------------------------------- MODULE Walker -------------------------------
(***************************************************************************)
(* The grid walker (dune/stuff/grid/walker.hh, walker/{functors,wrapper}   *)
(* .hh): functors, and other walkers, are added with a predicate that      *)
(* selects the entities or intersections they are applied on; walk()       *)
(* prepares them, visits the entities once, partition by partition, on the *)
(* worker threads of TBB, finalizes and forgets them.                      *)
(*                                                                         *)
(* The program owns the walkers and calls them from one thread; the        *)
(* workers share the functor objects and have no lock.                     *)
(***************************************************************************)
EXTENDS Integers, FiniteSetsExt, SequencesExt

CONSTANTS
  Walkers,        \* numbered: a walker is added to those of smaller number
  Codim0, Codim1, Codim0And1,  \* the functor objects, by their class
  Entities,
  Intersections,
  Inside,         \* the entity from which each intersection is seen
  Wheres,         \* the sets of items that predicates select
  Partitions,     \* the parts of the grid: a set of sets of entities
  DirichletBoundary,  \* the intersections there
  Detector,       \* the Codim1 functor that is a DirichletDetector
  Workers,
  MaxFunctors,    \* bound: the functors in all lists
  MaxFound        \* bound: found_ counts no further

Functors == Codim0 \cup Codim1 \cup Codim0And1
Items    == Entities \cup Intersections

ASSUME WalkerAssumption ==
  /\ Walkers \subseteq Nat \ {0} /\ IsFiniteSet(Walkers)
  /\ Detector \in Codim1
  /\ Wheres \subseteq SUBSET Items
  /\ MaxFunctors \in Nat /\ MaxFound \in Nat \ {0}

\* Objects of different classes are different.
ASSUME ClassesAssumption ==
  /\ Functors \cap Walkers = {}
  /\ Entities \cap Intersections = {}

ASSUME GridAssumption ==
  /\ Inside \in [Intersections -> Entities] /\ IsFiniteSet(Intersections)
  /\ DirichletBoundary \subseteq Intersections
  /\ UNION Partitions = Entities
  /\ \A p, q \in Partitions : p # q => p \cap q = {}

VARIABLES
  codim0_functors_, codim1_functors_,
  walked,     \* the walker in walk(), and 0 while the program is not there
  parts,      \* the partitions that no worker has taken
  todo,       \* the entities left of each worker's partition
  queue,      \* the items each worker has to visit before the next entity
  next,       \* the index of the functor it applies to the first of them
  loaded,     \* the found_ that a worker is about to increment, or -1
  found_,     \* of the DirichletDetector
  prepared, finalized,  \* how often each functor was, in this walk (history)
  applied,    \* how often each functor was applied to each item in this walk (history)
  due,        \* how often each functor has to be applied to each item (history)
  outcome     \* of the last walk(): "none", "done" or "threw"

lists   == <<codim0_functors_, codim1_functors_>>
workers == <<parts, todo, queue, next, loaded>>
counts  == <<prepared, finalized, applied, due>>
vars    == <<lists, walked, workers, found_, counts, outcome>>

List(w, x)  == IF x \in Entities THEN codim0_functors_[w] ELSE codim1_functors_[w]
AllOf(w)    == codim0_functors_[w] \o codim1_functors_[w]

Entry(functors) == [what : functors \cup Codim0And1 \cup Walkers, where : Wheres]

TypeOK ==
  /\ codim0_functors_ \in [Walkers -> Seq(Entry(Codim0))]
  /\ codim1_functors_ \in [Walkers -> Seq(Entry(Codim1))]
  /\ walked \in Walkers \cup {0}
  /\ parts \subseteq Partitions
  /\ todo \in [Workers -> SUBSET Entities]
  /\ queue \in [Workers -> Seq(Items)]
  /\ next \in [Workers -> Nat]
  /\ loaded \in [Workers -> Nat \cup {-1}]
  /\ found_ \in Nat
  /\ {prepared, finalized} \subseteq [Functors -> Nat]
  /\ {applied, due} \subseteq [Functors \X Items -> Nat]
  /\ outcome \in {"none", "done", "threw"}

Never == [f \in Functors |-> 0]

Init ==
  /\ codim0_functors_ = [w \in Walkers |-> <<>>]
  /\ codim1_functors_ = [w \in Walkers |-> <<>>]
  /\ walked = 0
  /\ parts = {}
  /\ todo = [k \in Workers |-> {}]
  /\ queue = [k \in Workers |-> <<>>]
  /\ next = [k \in Workers |-> 1]
  /\ loaded = [k \in Workers |-> -1]
  /\ found_ = 0
  /\ prepared = Never
  /\ finalized = Never
  /\ applied = [c \in Functors \X Items |-> 0]
  /\ due = [c \in Functors \X Items |-> 0]
  /\ outcome = "none"

-----------------------------------------------------------------------------
(* What the calls of a walker come to, through the walkers it was given.   *)

\* The items on which apply_on() of each walker holds: it looks through the list
\* for items of that codimension.
Selected ==
  LET S[w \in Walkers] ==
        {x \in Items : \E e \in Range(List(w, x)) :
           x \in e.where /\ (e.what \in Walkers => x \in S[e.what])}
  IN  S

\* Fault: the predicate that a walker was added with is ignored.
apply_on_faulty(e, x) == IF e.what \in Walkers THEN x \in Selected[e.what] ELSE x \in e.where

\* apply_on() of a wrapper.
apply_on(e, x) == x \in e.where /\ (e.what \in Walkers => x \in Selected[e.what])

\* How often each walker comes to functor f, through the entries of its list L[w]
\* that are let through.
Count(L, passes, f) ==
  LET C[w \in Walkers] ==
        SumFunction([i \in DOMAIN L[w] |->
          IF i \notin passes[w] THEN 0
          ELSE IF L[w][i].what \in Walkers THEN C[L[w][i].what]
          ELSE IF L[w][i].what = f THEN 1 ELSE 0])
  IN  C

Lists(x) == [w \in Walkers |-> List(w, x)]

\* How often apply_local(x) of each walker calls functor f.
Calls(f, x) ==
  Count(Lists(x), [w \in Walkers |-> {i \in DOMAIN List(w, x) : apply_on(List(w, x)[i], x)}], f)

\* How often prepare(), or finalize(), of each walker calls that of functor f.
Phases(f) == Count([w \in Walkers |-> AllOf(w)], [w \in Walkers |-> DOMAIN AllOf(w)], f)

\* What the user asked for: an application for every way in which f was added
\* to the walker or to a walker within it, if all predicates on that way hold.
Due(f, x) ==
  Count(Lists(x), [w \in Walkers |-> {i \in DOMAIN List(w, x) : x \in List(w, x)[i].where}], f)

-----------------------------------------------------------------------------
(* The program. *)

Idle == walked = 0

\* There is room for n more functors.
Room(n) == MapThenSumSet(LAMBDA w : Len(AllOf(w)), Walkers) + n <= MaxFunctors

Add0(w, e) == codim0_functors_' = [codim0_functors_ EXCEPT ![w] = Append(@, e)]
Add1(w, e) == codim1_functors_' = [codim1_functors_ EXCEPT ![w] = Append(@, e)]
Rest == UNCHANGED <<walked, workers, found_, counts, outcome>>

AddCodim0(w, f, where) ==
  /\ Idle /\ Room(1)
  /\ Add0(w, [what |-> f, where |-> where])
  /\ UNCHANGED codim1_functors_
  /\ Rest

AddCodim1(w, f, where) ==
  /\ Idle /\ Room(1)
  /\ Add1(w, [what |-> f, where |-> where])
  /\ UNCHANGED codim0_functors_
  /\ Rest

\* A Codim0And1 functor, or another walker, is put into both lists; a walker
\* that is added to itself is refused.
AddBoth(w, what, where) ==
  /\ Idle /\ Room(2)
  /\ what \in Walkers => w < what
  /\ Add0(w, [what |-> what, where |-> where])
  /\ Add1(w, [what |-> what, where |-> where])
  /\ Rest

clear(w) ==
  /\ Idle
  /\ codim0_functors_' = [codim0_functors_ EXCEPT ![w] = <<>>]
  /\ codim1_functors_' = [codim1_functors_ EXCEPT ![w] = <<>>]
  /\ Rest

-----------------------------------------------------------------------------
(* walk() *)

prepare(w) ==
  /\ Idle
  /\ walked' = w
  /\ prepared' = [f \in Functors |-> Phases(f)[w]]
  /\ finalized' = Never
  /\ applied' = [c \in Functors \X Items |-> 0]
  /\ due' = [c \in Functors \X Items |-> Due(c[1], c[2])[w]]
  /\ parts' = IF AllOf(w) = <<>> THEN {} ELSE Partitions
  /\ outcome' = "none"
  /\ UNCHANGED <<lists, todo, queue, next, loaded, found_>>

Resting(k) == queue[k] = <<>> /\ todo[k] = {}

TakePartition(k) ==
  /\ Resting(k)
  /\ \E p \in parts : parts' = parts \ {p} /\ todo' = [todo EXCEPT ![k] = p]
  /\ UNCHANGED <<lists, walked, queue, next, loaded, found_, counts, outcome>>

\* walk_range(): an entity, and its intersections if there are codim 1 functors.
TakeEntity(k) ==
  /\ queue[k] = <<>>
  /\ \E e \in todo[k] :
       LET sides == {i \in Intersections : Inside[i] = e}
       IN  \E order \in SetToSeqs(IF codim1_functors_[walked] = <<>> THEN {} ELSE sides) :
             /\ queue' = [queue EXCEPT ![k] = <<e>> \o order]
             /\ todo' = [todo EXCEPT ![k] = @ \ {e}]
  /\ UNCHANGED <<lists, walked, parts, next, loaded, found_, counts, outcome>>

Visited(k)  == Head(queue[k])
Current(k)  == List(walked, Visited(k))[next[k]]
Working(k)  == queue[k] # <<>> /\ next[k] \in DOMAIN List(walked, Visited(k))

\* Fault: the rest of the boundary is detected.
DetectsFaulty(k) ==
  /\ Visited(k) \in Intersections \ DirichletBoundary
  /\ apply_on(Current(k), Visited(k))
  /\ Current(k).what = Detector

\* The DirichletDetector increments found_ if it is called for the boundary.
Detects(k) ==
  /\ Visited(k) \in DirichletBoundary
  /\ apply_on(Current(k), Visited(k))
  /\ IF Current(k).what \in Walkers
     THEN Calls(Detector, Visited(k))[Current(k).what] > 0
     ELSE Current(k).what = Detector

\* `++found_` reads, ...
Load(k) ==
  /\ Working(k) /\ Detects(k) /\ loaded[k] = -1
  /\ loaded' = [loaded EXCEPT ![k] = found_]
  /\ UNCHANGED <<lists, walked, parts, todo, queue, next, found_, counts, outcome>>

\* ... and writes: apply_local() of the next functor, if it applies.
apply_local(k) ==
  LET x == Visited(k)
      e == Current(k)
      times(f) == IF ~apply_on(e, x) THEN 0
                  ELSE IF e.what \in Walkers THEN Calls(f, x)[e.what]
                  ELSE IF e.what = f THEN 1 ELSE 0
  IN  /\ Working(k)
      /\ Detects(k) => loaded[k] # -1
      /\ applied' = [c \in Functors \X Items |->
                       IF c[2] = x THEN applied[c] + times(c[1]) ELSE applied[c]]
      /\ found_' = IF Detects(k) THEN Min({loaded[k] + 1, MaxFound}) ELSE found_
      /\ loaded' = [loaded EXCEPT ![k] = -1]
      /\ next' = [next EXCEPT ![k] = @ + 1]
      /\ UNCHANGED <<lists, walked, parts, todo, queue, prepared, finalized, due, outcome>>

\* Fault: the iterator is not incremented.
NextItemFaulty(k) ==
  /\ queue[k] # <<>> /\ ~Working(k)
  /\ next' = [next EXCEPT ![k] = 1]
  /\ UNCHANGED <<lists, walked, parts, todo, queue, loaded, found_, counts, outcome>>

NextItem(k) ==
  /\ queue[k] # <<>> /\ ~Working(k)
  /\ queue' = [queue EXCEPT ![k] = Tail(@)]
  /\ next' = [next EXCEPT ![k] = 1]
  /\ UNCHANGED <<lists, walked, parts, todo, loaded, found_, counts, outcome>>

\* A functor throws: the other workers finish what they have begun, nothing is
\* finalized, and the functors stay in their lists.
Throw(k) ==
  /\ Working(k) /\ apply_on(Current(k), Visited(k))
  /\ walked' = 0
  /\ parts' = {}
  /\ todo' = [j \in Workers |-> {}]
  /\ queue' = [j \in Workers |-> <<>>]
  /\ next' = [j \in Workers |-> 1]
  /\ loaded' = [j \in Workers |-> -1]
  /\ outcome' = "threw"
  /\ UNCHANGED <<lists, found_, counts>>

\* finalize() and clear(), when all partitions have been visited.
finalize ==
  /\ ~Idle
  /\ parts = {} /\ \A k \in Workers : Resting(k)
  /\ finalized' = [f \in Functors |-> Phases(f)[walked]]
  /\ codim0_functors_' = [codim0_functors_ EXCEPT ![walked] = <<>>]
  /\ codim1_functors_' = [codim1_functors_ EXCEPT ![walked] = <<>>]
  /\ walked' = 0
  /\ outcome' = "done"
  /\ UNCHANGED <<workers, found_, prepared, applied, due>>

Visit(k) ==
  \/ TakePartition(k) \/ TakeEntity(k)
  \/ Load(k) \/ apply_local(k) \/ NextItem(k)

Next ==
  \/ \E w \in Walkers, where \in Wheres :
        \/ \E f \in Codim0 : AddCodim0(w, f, where)
        \/ \E f \in Codim1 : AddCodim1(w, f, where)
        \/ \E what \in Codim0And1 \cup Walkers : AddBoth(w, what, where)
  \/ \E w \in Walkers : clear(w) \/ prepare(w)
  \/ \E k \in Workers : Visit(k) \/ Throw(k)
  \/ finalize

\* The scheduler of TBB runs every task, and walk() returns.
Fairness == WF_vars(finalize) /\ \A k \in Workers : WF_vars(Visit(k))

Spec == Init /\ [][Next]_vars /\ Fairness

-----------------------------------------------------------------------------
(* Properties. *)

\* A functor is applied only if it was prepared before, and is finalized as
\* often as it was prepared, after the last application.
PreparedAndFinalized ==
  /\ \A f \in Functors, x \in Items : applied[<<f, x>>] > 0 => prepared[f] > 0
  /\ outcome = "done" => prepared = finalized
  /\ \A k \in Workers : ~Resting(k) => finalized = Never /\ walked # 0

\* A walk that is done has applied every functor to every item exactly as often
\* as it was added for: no item is skipped or visited twice, whichever worker
\* takes which partition, and the predicates of nested walkers compose.  It does
\* so between preparing and finalizing.
AppliedAsAdded == TypeOK /\ PreparedAndFinalized /\ (outcome = "done" => applied = due)

\* The DirichletDetector finds the boundary if there is one among the
\* intersections, although its counter is incremented without a lock.
DetectorDetects ==
  outcome = "done" /\ (\E x \in DirichletBoundary : applied[<<Detector, x>>] > 0) => found_ > 0

\* A walk comes to its end.
WalkEnds == walked # 0 ~> walked = 0
=============================================================================
