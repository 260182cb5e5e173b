-------------------------------- MODULE Grids --------------------------------
(***************************************************************************)
(* What the repository uses of dune-grid, external to it: a grid view in   *)
(* two dimensions.  It is the sequence of its elements in the order of its *)
(* iterator, each the box between two corners with integer coordinates; an *)
(* element may have several neighbours on one side.  The search for        *)
(* elements is the repository's own.                                       *)
(***************************************************************************)
EXTENDS Integers, FiniteSetsExt, SequencesExt

Dims == {1, 2}
Abs(x) == IF x < 0 THEN -x ELSE x
Box(lo, hi) == [lo |-> lo, hi |-> hi]

Center(b)    == [d \in Dims |-> (b.lo[d] + b.hi[d]) \div 2]
Width(b, d)  == b.hi[d] - b.lo[d]
Corners(b)   == {<<x, y>> : x \in {b.lo[1], b.hi[1]}, y \in {b.lo[2], b.hi[2]}}
Volume(b)    == Width(b, 1) * Width(b, 2)
HasPoint(b, x) == \A d \in Dims : b.lo[d] <= x[d] /\ x[d] <= b.hi[d]

\* The sides of an element, by their number in its reference element: 0 and 1
\* are left and right, 2 and 3 are below and above.
Sides == 0 .. 3
Dim(side)  == side \div 2 + 1
Other(d)   == 3 - d
IsUpper(side) == side % 2 = 1
Opposite(side) == IF IsUpper(side) THEN side - 1 ELSE side + 1
Position(b, side) == IF IsUpper(side) THEN b.hi[Dim(side)] ELSE b.lo[Dim(side)]
CenterUnitOuterNormal(side) ==
  [d \in Dims |-> IF d # Dim(side) THEN 0 ELSE IF IsUpper(side) THEN 1 ELSE -1]

Neighbours(view, e, side) ==
  LET o == Other(Dim(side))
  IN  {n \in DOMAIN view :
         /\ Position(view[n], Opposite(side)) = Position(view[e], side)
         /\ view[n].lo[o] < view[e].hi[o] /\ view[e].lo[o] < view[n].hi[o]}

\* The part of a side of e that n touches, or the whole of it.
Touching(view, e, side, n) ==
  LET p == Position(view[e], side)
      lo == [d \in Dims |-> IF d = Dim(side) THEN p ELSE Max({view[e].lo[d], view[n].lo[d]})]
      hi == [d \in Dims |-> IF d = Dim(side) THEN p ELSE Min({view[e].hi[d], view[n].hi[d]})]
  IN  Box(lo, hi)

Intersection(view, e, side, n) ==
  LET part == Touching(view, e, side, IF n = 0 THEN e ELSE n)
  IN  [lo |-> part.lo, hi |-> part.hi, inside |-> e, indexInInside |-> side,
       outside |-> n, neighbor |-> n # 0, boundary |-> n = 0]

\* The intersections of an element, in the order of their iterator.
IntersectionsOf(view, e) ==
  LET orNone(ns)   == IF ns = {} THEN {0} ELSE ns
      on(side, ns) == [k \in DOMAIN ns |-> Intersection(view, e, side, ns[k])]
  IN  FlattenSeq([k \in 1 .. 4 |->
        on(k - 1, SetToSortSeq(orNone(Neighbours(view, e, k - 1)), <))])

HasBoundaryIntersections(view, e) == \E side \in Sides : Neighbours(view, e, side) = {}

\* The boundary ids of a cube grid number its sides.
BoundaryId(i) == i.indexInInside + 1

AllIntersectionsOf(view) == UNION {Range(IntersectionsOf(view, e)) : e \in DOMAIN view}

\* Every element halved in both directions, as globalRefine(1) does.
Halves(b) ==
  LET c == Center(b)
  IN  <<Box(b.lo, c), Box(<<c[1], b.lo[2]>>, <<b.hi[1], c[2]>>),
        Box(<<b.lo[1], c[2]>>, <<c[1], b.hi[2]>>), Box(c, b.hi)>>
Refined(view) == FlattenSeq([e \in DOMAIN view |-> Halves(view[e])])

----------------------------------------------------------------------------
(* EntityInlevelSearch (dune/stuff/grid/search.hh) finds the elements of a  *)
(* view that points lie in.  It goes on from where it last found one, and   *)
(* from the beginning when it has come to the end.  A search is the         *)
(* iterator it_last_, an index into the view; 0 in the results is the null  *)
(* pointer.                                                                 *)

NewSearch == 1

\* Fault: the elements before the last one are not looked at.
FirstFrom_faulty(view, it_last, point) ==
  LET found == {e \in it_last .. Len(view) : HasPoint(view[e], point)}
  IN  IF found = {} THEN 0 ELSE Min(found)

\* The first element at or after it_last, and else the first before it.
FirstFrom(view, it_last, point) ==
  LET found(range) == {e \in range : HasPoint(view[e], point)}
      ahead == found(it_last .. Len(view))
      all   == found(DOMAIN view)
  IN  IF ahead # {} THEN Min(ahead) ELSE IF all # {} THEN Min(all) ELSE 0

\* operator(), when it has looked for the first k points; idx counts those that
\* were found.
Search(view, it_last, points) ==
  LET after[k \in 0 .. Len(points)] ==
        IF k = 0 THEN [ret |-> [n \in DOMAIN points |-> 0], idx |-> 1, it_last |-> it_last]
        ELSE LET acc == after[k - 1]
                 e   == FirstFrom(view, acc.it_last, points[k])
             IN  IF e = 0 THEN acc
                 ELSE [ret |-> [acc.ret EXCEPT ![acc.idx] = e], idx |-> acc.idx + 1, it_last |-> e]
  IN  after[Len(points)]

VARIABLES
  gridview_, it_last_,  \* of the search
  asked, ret            \* the points it was last asked for, and what it returned

searchVars == <<gridview_, it_last_, asked, ret>>

SearchInit ==
  /\ it_last_ = NewSearch
  /\ asked = <<>> /\ ret = <<>>

SearchFor(points) ==
  LET result == Search(gridview_, it_last_, points)
  IN  /\ asked' = points /\ ret' = result.ret /\ it_last_' = result.it_last
      /\ UNCHANGED gridview_

\* any view, and any points
Point == [Dims -> Int]
Views == Seq([lo : Point, hi : Point])
SearchSpec ==
  gridview_ \in Views /\ SearchInit /\ [][\E points \in Seq(Point) : SearchFor(points)]_searchVars

\* The results of a search are elements with the points that lie in the grid, in
\* their order and without a gap: they line up with the points when all do.
SearchFinds ==
  LET inGrid   == {k \in DOMAIN asked : \E e \in DOMAIN gridview_ : HasPoint(gridview_[e], asked[k])}
      place(k) == Cardinality({j \in inGrid : j <= k})
  IN  /\ \A k \in inGrid : ret[place(k)] # 0 /\ HasPoint(gridview_[ret[place(k)]], asked[k])
      /\ \A k \in DOMAIN asked : k > Cardinality(inGrid) => ret[k] = 0
=============================================================================
