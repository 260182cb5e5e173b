---------------------------- MODULE PeriodicView ----------------------------
(***************************************************************************)
(* PeriodicGridView (dune/stuff/grid/periodicview.hh): a grid view whose   *)
(* boundaries in the periodic directions are glued together.  Its          *)
(* constructor looks for the element on the other side of every boundary   *)
(* intersection; its intersections then say that they have a neighbour.    *)
(*                                                                         *)
(* A periodic view is the real view and entity_to_intersection_map_map_;   *)
(* a pair in it is whether the side is periodic, and the other element.    *)
(***************************************************************************)
EXTENDS Grids, TLC

CONSTANT InvalidStateException

Pair(periodic, e) == [first |-> periodic, second |-> e]

\* Corners of the grid, from the centres of its intersections.
LowerLeft(view)  == [d \in Dims |-> Min({Center(i)[d] : i \in AllIntersectionsOf(view)})]
UpperRight(view) == [d \in Dims |-> Max({Center(i)[d] : i \in AllIntersectionsOf(view)})]
Extent(view)     == Box(LowerLeft(view), UpperRight(view))

\* Whether intersection i is on a periodic boundary of the grid; and the point
\* that is searched on the other side of one with centre x, a hundredth of half
\* the element, whose centre is c, within it.
IsPeriodic(grid, directions, i) ==
  i.boundary /\ \E d \in directions : Center(i)[d] \in {grid.lo[d], grid.hi[d]}

\* Fault: the point is moved within the element that the search starts from.
PeriodicNeighborCoords_faulty(grid, directions, x, c) ==
  [d \in Dims |-> IF d \in directions THEN grid.lo[d] + (c[d] - grid.lo[d]) \div 100 ELSE x[d]]

PeriodicNeighborCoords(grid, directions, x, c) ==
  [d \in Dims |->
     IF d \notin directions THEN x[d]
     ELSE IF x[d] = grid.lo[d] THEN grid.hi[d] - (c[d] - grid.lo[d]) \div 100
     ELSE IF x[d] = grid.hi[d] THEN grid.lo[d] + (grid.hi[d] - c[d]) \div 100
     ELSE x[d]]

\* The constructor, over the boundary elements and their intersections in turn;
\* std::map::insert keeps what there is.  The search goes on from one to the next.
BoundaryElementsIntersections(view) ==
  FlattenSeq([e \in DOMAIN view |->
    IF HasBoundaryIntersections(view, e) THEN IntersectionsOf(view, e) ELSE <<>>])

Inserted(acc, i, pair, it_last) ==
  [map |-> acc.map @@ (<<i.inside, i.indexInInside>> :> pair), it_last |-> it_last]

InsertFound(acc, i, found) == Inserted(acc, i, Pair(TRUE, found.ret[1]), found.it_last)

PeriodicMap(view, grid, directions) ==
  LET sought(i)   == PeriodicNeighborCoords(grid, directions, Center(i), Center(view[i.inside]))
      one(acc, i) == IF IsPeriodic(grid, directions, i)
                     THEN InsertFound(acc, i, Search(view, acc.it_last, <<sought(i)>>))
                     ELSE Inserted(acc, i, Pair(FALSE, i.inside), acc.it_last)
  IN  FoldLeft(one, [map |-> <<>>, it_last |-> NewSearch], BoundaryElementsIntersections(view)).map

ViewWith(view, map) ==
  IF \E k \in DOMAIN map : map[k].second = 0 THEN InvalidStateException ELSE [view |-> view, map |-> map]

NewPeriodicView(view, directions) == ViewWith(view, PeriodicMap(view, Extent(view), directions))

\* create_current_intersection(): what an iterator over e points to at the k-th
\* intersection.  When it is made at the end it takes the first one.
PairOf(p, i) ==
  IF HasBoundaryIntersections(p.view, i.inside) THEN p.map[<<i.inside, i.indexInInside>>]
  ELSE Pair(FALSE, i.inside)

PairedIntersection(i, pair) ==
  [i EXCEPT !.neighbor = pair.first \/ @, !.outside = IF pair.first THEN pair.second ELSE @]

PeriodicIntersection(p, i) == PairedIntersection(i, PairOf(p, i))

CurrentIntersection(p, real, k) == PeriodicIntersection(p, real[IF k > Len(real) THEN 1 ELSE k])

CurrentIntersections(p, real)  == [k \in DOMAIN real |-> CurrentIntersection(p, real, k)]
PeriodicIntersections(p, e) == CurrentIntersections(p, IntersectionsOf(p.view, e))

\* find_intersection_in_outside(): the first boundary intersection of the
\* neighbour whose centre differs in one coordinate.
DifferInOne(x, y) == \E d \in Dims : x[d] # y[d] /\ x[Other(d)] = y[Other(d)]

FindAcross(real, i) ==
  LET fits == {k \in DOMAIN real : real[k].boundary /\ DifferInOne(Center(real[k]), Center(i))}
  IN  IF fits = {} THEN InvalidStateException ELSE real[Min(fits)]

FindIntersectionInOutside(p, i) == FindAcross(IntersectionsOf(p.view, PairOf(p, i).second), i)

\* indexInOutside(), and the part of the neighbour that geometryInOutside() is.
IndexInOutside(p, i) ==
  LET indexOf(found) == IF found = InvalidStateException THEN found ELSE found.indexInInside
  IN  IF PairOf(p, i).first THEN indexOf(FindIntersectionInOutside(p, i)) ELSE Opposite(i.indexInInside)

GeometryInOutside(p, i) ==
  LET geometryOf(found) == IF found = InvalidStateException THEN found ELSE Box(found.lo, found.hi)
  IN  IF PairOf(p, i).first THEN geometryOf(FindIntersectionInOutside(p, i)) ELSE Box(i.lo, i.hi)

-----------------------------------------------------------------------------
Conforming(intersections) ==
  \A i, j \in intersections :
    i.boundary /\ j.boundary /\ Dim(i.indexInInside) = Dim(j.indexInInside)
      => LET o == Other(Dim(i.indexInInside))
         IN  i.lo[o] < j.hi[o] /\ j.lo[o] < i.hi[o] => i.lo[o] = j.lo[o] /\ i.hi[o] = j.hi[o]

\* On grids whose opposite boundaries are divided alike, every boundary
\* intersection in a periodic direction has its neighbour on the far side: the
\* neighbour's intersection lies across, leads back, and no other is changed.
LeadsBack(p, grid, i, d, back) ==
  /\ i.neighbor /\ i.boundary
  /\ back.outside = i.inside
  /\ IndexInOutside(p, i) = Opposite(i.indexInInside)
  /\ GeometryInOutside(p, i).lo[Other(d)] = i.lo[Other(d)]
  /\ {Center(i)[d], Center(back)[d]} = {grid.lo[d], grid.hi[d]}

Across(p, i) == CHOOSE j \in Range(PeriodicIntersections(p, i.outside)) : j.indexInInside = Opposite(i.indexInInside)

AllMutual(p, grid, directions) ==
  \A real \in AllIntersectionsOf(p.view) :
    LET d == Dim(real.indexInInside)
        i == PeriodicIntersection(p, real)
    IN  IF real.boundary /\ d \in directions THEN LeadsBack(p, grid, i, d, Across(p, i)) ELSE i = real

PeriodicNeighboursAreMutual(view, directions) ==
  Conforming(AllIntersectionsOf(view)) => AllMutual(NewPeriodicView(view, directions), Extent(view), directions)
=============================================================================
