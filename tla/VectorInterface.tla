--------------------------- MODULE VectorInterface --------------------------
(***************************************************************************)
(* What VectorInterface (la/container/vector-interface.hh) computes from   *)
(* any vector, its iterators (vector-interface-internal.hh), and what the  *)
(* vectors of Eigen compute instead.  A vector is a function on            *)
(* 0 .. size - 1 to integers and NaN; a call that throws has the value     *)
(* Thrown.                                                                 *)
(***************************************************************************)
EXTENDS Integers, SequencesExt, FiniteSetsExt

CONSTANTS
  NaN,       \* the scalar that is not a number
  Thrown,    \* the outcome of a call that throws
  SizeBits,  \* size_t has this many bits
  Tolerance  \* FloatCmp's default: values this close are equal

Size(v)    == Cardinality(DOMAIN v)
Magnitude(x) == IF x # NaN /\ x < 0 THEN -x ELSE x
Add(x, y)  == IF NaN \in {x, y} THEN NaN ELSE x + y
Mul(x, y)  == IF NaN \in {x, y} THEN NaN ELSE x * y
Close(x, y) == NaN \notin {x, y} /\ Magnitude(x - y) <= Tolerance

\* a sum over the entries: in the order of the indices
Total(v, term(_)) == FoldLeft(LAMBDA s, i : Add(s, term(i)), 0, [i \in 1 .. Size(v) |-> i - 1])

(***************************************************************************)
(* Iterators                                                               *)
(***************************************************************************)
Begin == [position |-> 0, end |-> FALSE]
End   == [position |-> 0, end |-> TRUE]

\* operator++: size() - 1 wraps around for an empty vector
Advanced(v, it) ==
  IF ~it.end /\ it.position < (Size(v) - 1) % 2^SizeBits
  THEN [it EXCEPT !.position = @ + 1]
  ELSE [it EXCEPT !.end = TRUE]

SamePlace(it, other) ==
  \/ it.end /\ other.end
  \/ ~it.end /\ ~other.end /\ it.position = other.position

\* operator*: throws at the end, and does not look at the size otherwise
Dereferenced(v, it) == IF it.end THEN Thrown ELSE it.position

\* the positions that "for (auto& element : *this)" dereferences
Visited(v) ==
  LET from[n \in 0 .. 2^SizeBits] ==
        IF n = 0 THEN <<Begin>>
        ELSE LET sofar == from[n - 1]
             IN  IF SamePlace(Last(sofar), End) THEN sofar ELSE Append(sofar, Advanced(v, Last(sofar)))
      its == from[2^SizeBits]
  IN  [n \in 1 .. (Len(its) - 1) |-> Dereferenced(v, its[n])]

(***************************************************************************)
(* Values of a vector, computed through the iterators.  The loops run over *)
(* an entry of an empty vector: they are defined for the others.           *)
(***************************************************************************)
LoopsAreDefined(v) == ToSet(Visited(v)) \subseteq DOMAIN v
SumVisited(v, term(_)) == FoldLeft(LAMBDA s, i : Add(s, term(v[i])), 0, Visited(v))

SetAll(v, x)   == [i \in DOMAIN v |-> IF i \in ToSet(Visited(v)) THEN x ELSE v[i]]
AddScalar(v, x) == [i \in DOMAIN v |-> IF i \in ToSet(Visited(v)) THEN Add(v[i], x) ELSE v[i]]
SubScalar(v, x) == [i \in DOMAIN v |-> IF i \in ToSet(Visited(v)) THEN Add(v[i], -x) ELSE v[i]]
Valid(v)       == \A n \in DOMAIN Visited(v) : v[Visited(v)[n]] # NaN

\* numerator and denominator of the mean and of the variance
Mean(v) == <<SumVisited(v, LAMBDA x : x), Size(v)>>
StandardDeviationSquared(v) ==
  LET mu == Mean(v)
      difference(x) == Add(Mul(x, mu[2]), Mul(-1, mu[1]))
  IN  <<SumVisited(v, LAMBDA x : Mul(difference(x), difference(x))), Size(v)^3>>

(***************************************************************************)
(* Norms and products, computed by index                                   *)
(***************************************************************************)
\* a fault: the last of several maxima is taken
AmaxOfLast(v) ==
  FoldLeft(LAMBDA best, i : IF v[i] # NaN /\ Magnitude(v[i]) >= best[2] THEN <<i, Magnitude(v[i])>> ELSE best,
           <<0, 0>>, [i \in 1 .. Size(v) |-> i - 1])

\* a NaN is never larger than the maximum so far
Amax(v) ==
  FoldLeft(LAMBDA best, i : IF v[i] # NaN /\ Magnitude(v[i]) > best[2] THEN <<i, Magnitude(v[i])>> ELSE best,
           <<0, 0>>, [i \in 1 .. Size(v) |-> i - 1])
SupNorm(v) == Amax(v)[2]
L1Norm(v)  == Total(v, LAMBDA i : Magnitude(v[i]))

Dot(v, w)      == IF Size(w) # Size(v) THEN Thrown ELSE Total(v, LAMBDA i : Mul(v[i], w[i]))
L2NormSquared(v) == Magnitude(Dot(v, v))

AlmostEqual(v, w) == IF Size(w) # Size(v) THEN Thrown ELSE \A i \in DOMAIN v : Close(v[i], w[i])

\* EigenBaseVector::amax: the first index of the smallest and of the largest
\* absolute value; the former is taken if they are the same within the tolerance
EigenAmax(v) ==
  LET least    == Min({Magnitude(v[i]) : i \in DOMAIN v})
      largest  == Max({Magnitude(v[i]) : i \in DOMAIN v})
      first(x) == Min({i \in DOMAIN v : Magnitude(v[i]) = x})
  IN  IF Close(largest, least) /\ first(largest) > first(least)
      THEN <<first(least), least>> ELSE <<first(largest), largest>>

\* components: the entries at the given indices, at most as many as there are
Components(v, indices) ==
  IF Len(indices) > Size(v) \/ \E n \in DOMAIN indices : indices[n] \notin DOMAIN v THEN Thrown
  ELSE [n \in DOMAIN indices |-> v[indices[n]]]

\* pb_set_entry and the like: a negative index does not survive the numeric_cast
PbEntry(v, i) == IF i < 0 THEN Thrown ELSE v[i]

ToStdVector(v) == [i \in 1 .. Size(v) |-> v[i - 1]]

(***************************************************************************)
(* A vector under the operations that loop over it                         *)
(***************************************************************************)
VARIABLE vec

\* What a loop over an empty vector reads or writes is not defined.
Writes(x) == LoopsAreDefined(vec) /\ vec' \in {SetAll(vec, x), AddScalar(vec, x), SubScalar(vec, x)}

\* A loop comes by every entry once, in order, and ends.  Empty vectors are left
\* out: size() - 1 wraps there, and a loop dereferences an entry that is not.
LoopsVisitEveryEntry == vec # <<>> => Visited(vec) = [n \in 1 .. Size(vec) |-> n - 1]

\* VectorInterface::amax() is "the lowest index at which the maximum is attained
\* and the absolute maximum value", unless there is a NaN.
AmaxIsTheLowestMaximum ==
  vec # <<>> /\ Valid(vec) =>
    LET best == Amax(vec)
    IN  /\ \A i \in DOMAIN vec : Magnitude(vec[i]) <= best[2]
        /\ best[1] = Min({i \in DOMAIN vec : Magnitude(vec[i]) = best[2]})

\* The amax() of Eigen's vectors, which override it, is that only if no two
\* entries are of almost the same size.  Otherwise it may be a smaller one of
\* them: it is some entry, and the maximum up to the tolerance of FloatCmp.
EigenAmaxIsClose ==
  vec # <<>> /\ Valid(vec) =>
    LET best  == Amax(vec)
        eigen == EigenAmax(vec)
        sizes == {Magnitude(vec[i]) : i \in DOMAIN vec}
    IN  /\ Magnitude(vec[eigen[1]]) = eigen[2] /\ Close(eigen[2], best[2])
        /\ (\A x, y \in sizes : Close(x, y) => x = y) => eigen = best

\* sup <= l2 <= l1, a variance is not negative, and a NaN is only ever lost by
\* amax() and the norm made of it.
NormsAreConsistent ==
  CASE vec = <<>> -> {SupNorm(vec), L1Norm(vec), L2NormSquared(vec)} = {0}
    [] vec # <<>> /\ Valid(vec) ->
         /\ SupNorm(vec)^2 <= L2NormSquared(vec) /\ L2NormSquared(vec) <= L1Norm(vec)^2
         /\ StandardDeviationSquared(vec)[1] >= 0
         /\ StandardDeviationSquared(vec)[1] = 0 <=> Cardinality({vec[i] : i \in DOMAIN vec}) = 1
         /\ Magnitude(Mean(vec)[1]) <= SupNorm(vec) * Mean(vec)[2]
    [] OTHER -> L1Norm(vec) = NaN /\ Dot(vec, vec) = NaN /\ SupNorm(vec) # NaN

\* The loops, norms and moments of a vector agree with each other, in spite of
\* NaN, and with the two variants of amax().
LoopsAndNormsAgree ==
  LoopsVisitEveryEntry /\ AmaxIsTheLowestMaximum /\ EigenAmaxIsClose /\ NormsAreConsistent
=============================================================================
