--------------------------- MODULE GridInformation ---------------------------
(***************************************************************************)
(* What walks over a view find out: the predicates of walker/apply-on.hh,  *)
(* the statistics and dimensions of information.hh and walk_functors.hh,   *)
(* diameters (entity.hh), which points an intersection contains            *)
(* (intersection.hh), and the data that is visualized (provider/           *)
(* interface.hh, output/entity_visualization.hh).                          *)
(*                                                                         *)
(* A view is given by its elements and At, the intersections of each; they *)
(* come from a grid or from a periodic view.                               *)
(***************************************************************************)
EXTENDS BoundaryInfo, PeriodicView

CONSTANT internal_error

RealAt(view)    == [e \in DOMAIN view |-> IntersectionsOf(view, e)]
PeriodicAt(p)   == [e \in DOMAIN p.view |-> PeriodicIntersections(p, e)]
All(At)         == FlattenSeq([e \in 1 .. Cardinality(DOMAIN At) |-> At[e]])
Many(At, P(_))  == Len(SelectSeq(All(At), P))

-----------------------------------------------------------------------------
(* apply-on.hh *)

AllEntities(e) == TRUE
BoundaryEntities(view, e) == HasBoundaryIntersections(view, e)
AllIntersections(i) == TRUE
InnerIntersections(i) == i.neighbor /\ ~i.boundary
\* Fault: the smaller index is looked for on the other side as well.
InnerIntersectionsPrimally_faulty(i) == InnerIntersections(i) /\ i.inside # i.outside
InnerIntersectionsPrimally(i) == InnerIntersections(i) /\ i.inside < i.outside
BoundaryIntersections(i) == i.boundary
NonPeriodicBoundaryIntersections(i) == i.boundary /\ ~i.neighbor
PeriodicBoundaryIntersections(i) == i.neighbor /\ i.boundary
FilteredIntersections(filter, i) == filter[i]
DirichletIntersections(info, i) == Dirichlet(info, i)
NeumannIntersections(info, i) == Neumann(info, i)

-----------------------------------------------------------------------------
(* information.hh, walk_functors.hh, entity.hh *)

Statistics(view, At) ==
  [numberOfEntities |-> Len(view),
   numberOfIntersections |-> Many(At, AllIntersections),
   numberOfInnerIntersections |-> Many(At, InnerIntersections),
   numberOfBoundaryIntersections |-> Many(At, NonPeriodicBoundaryIntersections),
   maxGridWidth |-> Max({0} \cup {Max({Width(i, d) : d \in Dims}) : i \in Range(All(At))})]

MaxNumberOfNeighbors(At) == Max({0} \cup {Len(At[e]) : e \in DOMAIN At})

\* The square of the largest distance between two corners.
EntityDiameter(b) ==
  Max({(x[1] - y[1]) * (x[1] - y[1]) + (x[2] - y[2]) * (x[2] - y[2]) :
         x \in Corners(b), y \in Corners(b)})

\* MinMaxAvg, as the sequence of the values it was called with.
Lowest(acc)  == Min(Range(acc))
Highest(acc) == Max(Range(acc))
Average(acc) == FoldLeft(+, 0, acc) \div Len(acc)

\* GridDimensionsFunctor on one entity, and on all of a view.
ApplyLocal(dims, b) ==
  LET corners == SetToSeq(Corners(b))
  IN  [coord_limits |-> [d \in Dims |-> dims.coord_limits[d] \o [k \in DOMAIN corners |-> corners[k][d]]],
       entity_volume |-> Append(dims.entity_volume, Volume(b)),
       entity_width |-> Append(dims.entity_width, EntityDiameter(b))]

NoDimensions == [coord_limits |-> [d \in Dims |-> <<>>], entity_volume |-> <<>>, entity_width |-> <<>>]
DimensionsOfView(view)   == FoldLeft(ApplyLocal, NoDimensions, view)
DimensionsOfEntity(b)    == ApplyLocal(NoDimensions, b)

VolumeRelation(dims) ==
  IF Lowest(dims.entity_volume) = 0 THEN -1
  ELSE Highest(dims.entity_volume) \div Lowest(dims.entity_volume)

\* MinMaxCoordinateFunctor: the maxima begin at the smallest positive number,
\* which is 0 here.
MinMaxCoordinate(view, d) ==
  LET xs == {x[d] : x \in UNION {Corners(b) : b \in Range(view)}}
  IN  [minimum |-> Min(xs), maximum |-> Max({0} \cup xs)]

\* MaximumEntityVolumeRefineFunctor: the elements it marks.
MarkedForRefinement(view, volume, factor) == {e \in DOMAIN view : Volume(view[e]) > volume * factor}

-----------------------------------------------------------------------------
(* intersection.hh *)

Dot(v, w) == v[1] * w[1] + v[2] * w[2]
Minus(v, w) == [d \in Dims |-> v[d] - w[d]]

\* Fault: a point of the line has to lie strictly between the corners.
ContainsPoint_faulty(a, b, normal, point) ==
  /\ \A corner \in {a, b} : Dot(Minus(corner, point), normal) <= 0
  /\ \A d \in Dims : Min({a[d], b[d]}) < point[d] /\ point[d] < Max({a[d], b[d]})

\* contains() for the intersection with corners a and b, up to rounding.
ContainsPoint(a, b, normal, point) ==
  /\ \A corner \in {a, b} : Dot(Minus(corner, point), normal) <= 0
  /\ \A d \in Dims : Min({a[d], b[d]}) <= point[d] /\ point[d] <= Max({a[d], b[d]})

IntersectionContains(i, point) ==
  ContainsPoint(i.lo, i.hi, CenterUnitOuterNormal(i.indexInInside), point)

-----------------------------------------------------------------------------
(* The data of an element: its index; the mean of its boundary ids; whether it *)
(* has an intersection of a type; whether its centre is in the unit square.    *)

EntityVisualization(e) == e - 1

BoundaryIdVisualization(At, e) ==
  LET on == SelectSeq(At[e], NonPeriodicBoundaryIntersections)
  IN  IF on = <<>> THEN 0 ELSE Average([k \in DOMAIN on |-> BoundaryId(on[k])])

BoundaryVisualization(At, info, type, e) ==
  IF type \notin {"dirichlet", "neumann"} THEN internal_error
  ELSE IF \E i \in Range(At[e]) : IF type = "dirichlet" THEN Dirichlet(info, i) ELSE Neumann(info, i)
  THEN 1 ELSE 0

AreaMarker(b, unit) == IF \A d \in Dims : Center(b)[d] \in 0 .. unit THEN 1 ELSE 0

\* The fields that visualize() writes, with or without a boundary info; and those
\* of ElementVisualization::all() (there is one process).
VisualizePlain(view) ==
  [entity_id |-> [e \in DOMAIN view |-> EntityVisualization(e)],
   boundary_id |-> [e \in DOMAIN view |-> BoundaryIdVisualization(RealAt(view), e)]]

VisualizeWithBoundary(view, info) ==
  LET field(type) == [e \in DOMAIN view |-> BoundaryVisualization(RealAt(view), info, type, e)]
  IN  IF ~IsInfo(info) THEN info
      ELSE VisualizePlain(view) @@ [isDirichletBoundary |-> field("dirichlet"),
                                    isNeumannBoundary |-> field("neumann")]

Visualize(view, cfg) ==
  IF cfg = <<>> THEN VisualizePlain(view)
  ELSE VisualizeWithBoundary(view, CreateBoundaryInfo(cfg[<<"type">>], cfg))

AllElementData(view, unit) ==
  [boundaryFunctor  |-> [e \in DOMAIN view |-> BoundaryIdVisualization(RealAt(view), e)],
   areaMarker       |-> [e \in DOMAIN view |-> AreaMarker(view[e], unit)],
   geometryFunctor  |-> [e \in DOMAIN view |-> Volume(view[e])],
   ProcessIdFunctor |-> [e \in DOMAIN view |-> 0],
   volumeFunctor    |-> [e \in DOMAIN view |-> Volume(view[e])]]

-----------------------------------------------------------------------------
\* The predicates divide the intersections: each is inner, on the boundary or
\* periodic, and the statistics count them so; of the two sides of an inner
\* intersection one is chosen primally.  No element has more than the most
\* neighbours, none is larger than the dimensions say.
CountsAgree(At, st, inner) ==
  /\ \A i \in Range(All(At)) :
       1 = Cardinality({P \in {<<1, InnerIntersections(i)>>, <<2, PeriodicBoundaryIntersections(i)>>,
                               <<3, NonPeriodicBoundaryIntersections(i)>>} : P[2]})
  /\ st.numberOfIntersections
       = st.numberOfInnerIntersections + st.numberOfBoundaryIntersections
         + Many(At, PeriodicBoundaryIntersections)
  /\ st.numberOfInnerIntersections = 2 * Many(At, InnerIntersectionsPrimally)
  /\ \A i \in inner :
       Cardinality({j \in inner : /\ {j.inside, j.outside} = {i.inside, i.outside}
                                  /\ InnerIntersectionsPrimally(j)}) = 1

DimensionsAgree(view, grid, dims) ==
  /\ \A d \in Dims : /\ Lowest(dims.coord_limits[d]) = grid.lo[d]
                     /\ Highest(dims.coord_limits[d]) = grid.hi[d]
                     /\ MinMaxCoordinate(view, d).minimum = grid.lo[d]
                     /\ MinMaxCoordinate(view, d).maximum = grid.hi[d] \/ grid.hi[d] < 0
  /\ VolumeRelation(dims) = 1 <=> MarkedForRefinement(view, Lowest(dims.entity_volume), 1) = {}

WalksAgree(view, At) ==
  /\ CountsAgree(At, Statistics(view, At), Range(SelectSeq(All(At), InnerIntersections)))
  /\ \A e \in DOMAIN view : BoundaryEntities(view, e) = (\E i \in Range(At[e]) : BoundaryIntersections(i))
  /\ DimensionsAgree(view, Extent(view), DimensionsOfView(view))

\* An intersection of a grid contains exactly its points.  One that is slanted
\* contains all of its points, and none behind it.
Points(b) == {<<x, y>> : x \in {b.lo[1], Center(b)[1], b.hi[1]}, y \in {b.lo[2], Center(b)[2], b.hi[2]}}

ContainsItsPoints(view) ==
  /\ \A i \in AllIntersectionsOf(view) : \A x \in UNION {Points(b) : b \in Range(view)} :
       IntersectionContains(i, x) <=> HasPoint(i, x)
  /\ \A b \in Range(view) :
       LET normal == <<Width(b, 2), -Width(b, 1)>>
       IN  \A x \in Points(b) :
             /\ Dot(Minus(x, b.lo), normal) = 0 => ContainsPoint(b.lo, b.hi, normal, x)
             /\ Dot(Minus(x, b.lo), normal) < 0 => ~ContainsPoint(b.lo, b.hi, normal, x)

\* What is drawn of the boundary is there, and only there; both ways of drawing
\* agree on it.
FieldsAgree(view, data, all) ==
  \A e \in DOMAIN view :
    LET on == HasBoundaryIntersections(view, e)
    IN  /\ (data.boundary_id[e] # 0) = on
        /\ (data.isDirichletBoundary[e] = 1 \/ data.isNeumannBoundary[e] = 1) = on
        /\ all.boundaryFunctor[e] = data.boundary_id[e]
        /\ all.areaMarker[e] = 1 => HasPoint(Box(<<0, 0>>, <<800, 800>>), Center(view[e]))

Shows(view, info, data) ==
  IF IsInfo(info) THEN FieldsAgree(view, data, AllElementData(view, 800)) ELSE data = info

PicturesShowTheBoundary(view, cfg) ==
  Shows(view, CreateBoundaryInfo(cfg[<<"type">>], cfg), Visualize(view, cfg))
=============================================================================
