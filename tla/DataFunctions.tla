---------------------------- MODULE DataFunctions ----------------------------
(***************************************************************************)
(* Functions that are given by data: Checkerboard, Indicator, FlatTop,     *)
(* Spe10::Model1 and Model2, the generation of random ellipsoids, the      *)
(* functions of ESV2007, and the provider that creates functions by name   *)
(* (functions.hh).  Coordinates and data are integers.                     *)
(***************************************************************************)
EXTENDS LocalizableFunctions

CONSTANTS
  UnitLength,       \* the length that is written 1.0
  Model1Elements,   \* the cells of Spe10::Model1, whose file gives a value for each
  Model1Min, Model1Max,   \* the least and the largest of these values
  NumElements,      \* the cells of Spe10::Model2
  IOError, spe10_data_file_missing, wrong_input_given

GetOr(cfg, key, default) == IF key \in DOMAIN cfg THEN cfg[key] ELSE default

ProductOf(ns) == FoldLeft(LAMBDA m, n : m * n, 1, ns)

\* the place of a cell: the first index runs fastest
Flattened(cell, numElements) ==
  LET stride(d) == ProductOf(SubSeq(numElements, 1, d - 1))
  IN  1 + FoldLeft(LAMBDA m, d : m + cell[d] * stride(d), 0, [d \in DOMAIN cell |-> d])

----------------------------------------------------------------------------
(* Checkerboard                                                             *)

Checkerboard(lower, upper, numElements, values) ==
  IF \E d \in DOMAIN numElements : ~(lower[d] < upper[d]) THEN RangeError
  ELSE IF Len(values) < ProductOf(numElements) THEN RangeError
  ELSE [kind |-> "checkerboard", lowerLeft |-> lower, upperRight |-> upper, numElements |-> numElements, values |-> values]

CheckerboardDefault(d) ==
  [lower_left |-> [i \in 1..d |-> 0], upper_right |-> [i \in 1..d |-> UnitLength],
   num_elements |-> [i \in 1..d |-> 2], values |-> [i \in 1..8 |-> i]]

\* values that are given are read up to their number; those that are not given
\* are the eight default ones, and written over the end of fewer
OverrunsValues(d, cfg) ==
  "values" \notin DOMAIN cfg /\ ProductOf(GetOr(cfg, "num_elements", CheckerboardDefault(d).num_elements)) < 8

CreateCheckerboard(d, cfg) ==
  LET own(key) == GetOr(cfg, key, CheckerboardDefault(d)[key])
      n        == ProductOf(own("num_elements"))
      values   == [i \in 1..n |-> IF i <= Len(own("values")) THEN own("values")[i] ELSE 0]
  IN  IF "values" \in DOMAIN cfg /\ Len(cfg.values) < n THEN conversion_error
      ELSE Checkerboard(own("lower_left"), own("upper_right"), own("num_elements"), values)

\* a fault: the upper right side is outside
WhichPartition_faulty(f, center, d) ==
  (f.numElements[d] * (center[d] - f.lowerLeft[d])) \div (f.upperRight[d] - f.lowerLeft[d]) % f.numElements[d]

\* left of the lower left corner a size_t wraps around
WhichPartition(f, center, d) ==
  LET ne    == f.numElements[d]
      place == (ne * (center[d] - f.lowerLeft[d])) \div (f.upperRight[d] - f.lowerLeft[d])
  IN  IF place < 0 \/ place > ne - 1 THEN ne - 1 ELSE place

CheckerboardValue(f, center) ==
  f.values[Flattened([d \in DOMAIN f.numElements |-> WhichPartition(f, center, d)], f.numElements)]

----------------------------------------------------------------------------
(* Indicator                                                                *)

\* the numbered parts are read until one is missing or incomplete
IndicatorBoxes(cfg) ==
  LET boxes == GetOr(cfg, "numbered", <<>>)
      incomplete == SelectInSeq(boxes, LAMBDA box : ~({"domain", "value"} \subseteq DOMAIN box))
      read == IF incomplete = 0 THEN boxes ELSE SubSeq(boxes, 1, incomplete - 1)
  IN  [k \in DOMAIN read |-> [lower |-> [d \in DOMAIN read[k].domain |-> read[k].domain[d][1]],
                             upper |-> [d \in DOMAIN read[k].domain |-> read[k].domain[d][2]],
                             value |-> read[k].value]]

CreateIndicator(cfg) == [kind |-> "indicator", values |-> IndicatorBoxes(cfg)]

IndicatorDefault(d) ==
  [numbered |-> <<[domain |-> [i \in 1..d |-> <<UnitLength \div 4, 3 * (UnitLength \div 4)>>], value |-> 1]>>]

\* default tolerances, which tell integers apart
Leq(u, v)  == Le("numpy", u, v, 0, 0)
Less(u, v) == Lt("numpy", u, v, 0, 0)
Greater(u, v) == Gt("numpy", u, v, 0, 0)

IndicatorValue(f, center) ==
  LET k == SelectInSeq(f.values, LAMBDA e : Leq(e.lower, center) /\ Less(center, e.upper))
  IN  IF k = 0 THEN 0 ELSE f.values[k].value

----------------------------------------------------------------------------
(* FlatTop                                                                  *)

\* a layer is refused as too thick only if it is in every direction
FlatTop(lower, upper, layer, value) ==
  LET width == [d \in DOMAIN lower |-> upper[d] - lower[d]]
      twice == [d \in DOMAIN layer |-> 2 * layer[d]]
  IN  IF \/ ~Greater(upper, lower)
         \/ ~Greater(layer, [d \in DOMAIN layer |-> 0])
         \/ Greater(twice, width)
      THEN wrong_input_given
      ELSE [kind |-> "flattop", lower_left |-> lower, upper_right |-> upper, boundary_layer |-> layer, value |-> value]

FlatTopDefault(d) ==
  [lower_left |-> [i \in 1..d |-> 0], upper_right |-> [i \in 1..d |-> UnitLength],
   boundary_layer |-> [i \in 1..d |-> UnitLength \div 10], value |-> 1]

CreateFlatTop(d, cfg) ==
  LET own(key) == GetOr(cfg, key, FlatTopDefault(d)[key])
  IN  FlatTop(own("lower_left"), own("upper_right"), own("boundary_layer"), own("value"))

Square(p) == Times(p, p)
Double(p) == Times(Whole(2), p)

phi_left(p) ==
  IF p[1] < -p[2] THEN Whole(0) ELSE IF p[1] > 0 THEN Whole(1)
  ELSE Times(Square(Plus(Whole(1), p)), Plus(Whole(1), Minus(Double(p))))

phi_right(p) ==
  IF p[1] < 0 THEN Whole(1) ELSE IF p[1] > p[2] THEN Whole(0)
  ELSE Times(Square(Plus(Whole(1), Minus(p))), Plus(Whole(1), Double(p)))

FlatTopFactor(left, right, delta, point) ==
  CASE point < left - delta -> Whole(0)
    [] left - delta <= point /\ point < left + delta -> phi_left(Frac(point - (left + delta), 2 * delta))
    [] left + delta <= point /\ point < right - delta -> Whole(1)
    [] left + delta <= point /\ right - delta <= point /\ point < right + delta ->
         phi_right(Frac(point - (right - delta), 2 * delta))
    [] left + delta <= point /\ right + delta <= point -> Whole(0)

FlatTopValue(f, xx) ==
  FoldLeft(Times, Whole(f.value),
           [d \in DOMAIN xx |-> FlatTopFactor(f.lower_left[d], f.upper_right[d], f.boundary_layer[d], xx[d])])

FlatTopOrder(d) == 3 * d

----------------------------------------------------------------------------
(* Spe10: a file is the numbers in it, or missing.                          *)

read_values_from_file(file, min, max) ==
  LET n     == ProductOf(Model1Elements)
      scale == Frac(max - min, Model1Max - Model1Min)
      shift == Plus(Whole(min), Minus(Times(scale, Whole(Model1Min))))
  IN  IF ~(max > min) THEN RangeError
      ELSE IF file = IOError THEN spe10_data_file_missing
      ELSE IF Len(file) < n THEN IOError
      ELSE [i \in 1..n |-> Plus(Times(Whole(file[i]), scale), shift)]

Model1Default ==
  [file |-> IOError, lower_left |-> <<0, 0>>, upper_right |-> Model1Elements,
   min_value |-> Model1Min, max_value |-> Model1Max]

Model1(lower, upper, values) ==
  IF values \in {RangeError, IOError, spe10_data_file_missing} THEN values
  ELSE Checkerboard(lower, upper, Model1Elements, values)

CreateModel1(cfg) ==
  LET own(key) == GetOr(cfg, key, Model1Default[key])
  IN  Model1(own("lower_left"), own("upper_right"),
             read_values_from_file(own("file"), own("min_value"), own("max_value")))

\* Model2: the last number is lost unless something follows it
readPermeability(file) ==
  IF file = IOError THEN IOError ELSE IF file.newline THEN file.numbers ELSE Front(file.numbers)

\* one number per cell and direction, all of a direction in one block
Model2Places(x, deltas) ==
  LET interval(d) == Min({x[d] \div deltas[d], NumElements[d] - 1})
      offset == Flattened([d \in DOMAIN NumElements |-> interval(d)], NumElements)
  IN  [d \in DOMAIN NumElements |-> offset + (d - 1) * ProductOf(NumElements)]

Model2Diagonal(permeability, x, deltas) ==
  IF permeability = IOError THEN IOError
  ELSE [d \in DOMAIN NumElements |-> permeability[Model2Places(x, deltas)[d]]]

----------------------------------------------------------------------------
(* RandomEllipsoidsFunction                                                 *)

\* An ellipsoid of level 0 is a reference into the vector that its descendants
\* are appended to: when that has to grow, the reference is stale.
Pushed(es) == [es EXCEPT !.size = @ + 1, !.stale = @ \/ es.size = es.capacity,
                         !.capacity = IF es.size = es.capacity THEN 2 * @ ELSE @]

RECURSIVE RecurseAdd(_, _, _)
RecurseAdd(cfg, es, current_level) ==
  IF current_level > cfg.recursion_depth THEN es
  ELSE FoldLeft(LAMBDA s, k :
                  RecurseAdd(cfg, Pushed([s EXCEPT !.read_stale = @ \/ (current_level = 0 /\ s.stale)]), current_level + 1),
                es, [k \in 1..cfg.children |-> k])

Generated(cfg) ==
  LET reserved == cfg.count + cfg.count * cfg.children^(cfg.recursion_depth + 1)
  IN  FoldLeft(LAMBDA s, k : RecurseAdd(cfg, [s EXCEPT !.stale = FALSE], 0),
               [size |-> cfg.count, capacity |-> reserved, stale |-> FALSE, read_stale |-> FALSE],
               [k \in 1..cfg.count |-> k])

SumOf(ps) == FoldLeft(Plus, Whole(0), ps)

InEllipsoid(e, x) ==
  LET sum == SumOf([d \in DOMAIN x |-> Frac((x[d] - e.center[d])^2, e.radii[d]^2)])
  IN  Le("numpy", <<sum[1]>>, <<sum[2]>>, 0, 0)

EllipsoidsValue(ellipsoids, value, x) ==
  IF \E k \in DOMAIN ellipsoids : InEllipsoid(ellipsoids[k], x) THEN value ELSE 0

----------------------------------------------------------------------------
(* ESV2007: a value is coefficient * pi^power * factors[1](pi/2 x[0]) *     *)
(* factors[2](pi/2 x[1]).                                                   *)

Term(coefficient, power, factors) == [coefficient |-> coefficient, power |-> power, factors |-> factors]

ForceValue    == Term(Frac(1, 2), 2, <<"cos", "cos">>)
ForceJacobian == <<Term(Frac(-1, 4), 3, <<"sin", "cos">>), Term(Frac(-1, 4), 3, <<"cos", "sin">>)>>
ExactSolutionValue    == Term(Whole(1), 0, <<"cos", "cos">>)
ExactSolutionJacobian == <<Term(Frac(-1, 2), 1, <<"sin", "cos">>), Term(Frac(-1, 2), 1, <<"cos", "sin">>)>>

CreateTestcase(cfg) == [kind |-> "testcase1", order |-> GetOr(cfg, "integration_order", 3)]

\* the square of the largest distance between two vertices
compute_diameter_squared(vertices) ==
  LET distance(u, v) == FoldLeft(LAMBDA m, d : m + (u[d] - v[d])^2, 0, [d \in DOMAIN u |-> d])
  IN  Max({0} \cup UNION {{distance(vertices[i], vertices[j]) : j \in i + 1..Len(vertices)} : i \in DOMAIN vertices})

\* the factor is probed at the points of a quadrature, the tensor at one point
CutoffValue(vertices, poincare_constant, factors, min_eigen_value) ==
  Frac(poincare_constant * compute_diameter_squared(vertices), Min(Range(factors)) * min_eigen_value)

----------------------------------------------------------------------------
(* FunctionsProvider                                                        *)

\* Expression inherits that it is not available
AvailableFunctions(d, r, rC) ==
  <<"checkerboard", "constant">>
  \o (IF r = 1 /\ rC = 1 THEN <<"flattop">> ELSE <<>>)
  \o (IF d = 2 /\ r = 1 /\ rC = 1 THEN <<"ESV2007.testcase1.force", "ESV2007.testcase1.exactsolution">> ELSE <<>>)
  \o (IF r = 1 /\ rC = 1 THEN <<"indicator">> ELSE <<>>)
  \o (IF d = 2 /\ r = rC THEN <<"spe10.model1">> ELSE <<>>)

\* a unit matrix, or ones
ConstantDefault(r, rC) == [value |-> [c \in 1..r * rC |-> IF r > 1 /\ rC > 1 /\ (c - 1) \div rC # (c - 1) % rC THEN 0 ELSE 1]]

FunctionDefault(type, d, r, rC) ==
  IF ~Contains(AvailableFunctions(d, r, rC), type) THEN wrong_input_given
  ELSE CASE type = "checkerboard" -> CheckerboardDefault(d)
         [] type = "constant"     -> ConstantDefault(r, rC)
         [] type = "flattop"      -> FlatTopDefault(d)
         [] type = "indicator"    -> IndicatorDefault(d)
         [] type = "spe10.model1" -> Model1Default
         [] OTHER                 -> [integration_order |-> 3]

CreateFrom(type, d, default, cfg) ==
  CASE type = "checkerboard" -> CreateCheckerboard(d, cfg)
    [] type = "constant"     -> [kind |-> "constant", value |-> GetOr(cfg, "value", default.value)]
    [] type = "flattop"      -> CreateFlatTop(d, cfg)
    [] type = "indicator"    -> CreateIndicator(cfg)
    [] type = "spe10.model1" -> CreateModel1(cfg)
    [] OTHER                 -> CreateTestcase(cfg)

\* an empty configuration is the default one; one may hold another for the type
CreateFunction(type, d, r, rC, config) ==
  LET default == FunctionDefault(type, d, r, rC)
  IN  IF default = wrong_input_given THEN wrong_input_given
      ELSE CreateFrom(type, d, default, IF DOMAIN config = {} THEN default ELSE GetOr(config, type, config))

CreateByType(d, r, rC, cfg) ==
  IF "type" \in DOMAIN cfg THEN CreateFunction(cfg.type, d, r, rC, cfg) ELSE wrong_input_given
=============================================================================
