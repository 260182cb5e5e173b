------------------------- MODULE LocalizableFunctions -------------------------
(***************************************************************************)
(* The interfaces of functions (functions/interfaces.hh), functions that   *)
(* are combined from others (combined.hh) or derived from one (derived.hh),*)
(* the leaves Constant, Affine and GlobalLambdaFunction, and how functions *)
(* are shown (default.hh).  A function has dims.range x dims.cols          *)
(* components, which a value lists row by row.  Functions live in program  *)
(* memory: they refer to others or share ownership of them.                *)
(***************************************************************************)
EXTENDS Conversions

CONSTANTS
  Leaves,        \* the functions to begin with
  dimDomain,
  Names,         \* that are given to functions; "" for none
  MaxFunctions,  \* bound: so many functions are ever made
  NotImplemented, RangeError

ASSUME FunctionsAssumption == dimDomain \in Nat \ {0} /\ MaxFunctions \in Nat \ {0}

VARIABLES
  functions,  \* every function that was made
  held        \* those whose owner outside of other functions is still there

functionsVars == <<functions, held>>

Size(dims)    == dims.range * dims.cols
Content(n, x) == [i \in 1..n |-> x]

\* arithmetic with numbers that may be NaN
Add(x, y) == IF NaN \in {x, y} THEN NaN ELSE x + y
Mul(x, y) == IF NaN \in {x, y} THEN NaN ELSE x * y

Scaled(v, x)     == [i \in DOMAIN v |-> Mul(v[i], x)]
Added(v, w)      == [i \in DOMAIN v |-> Add(v[i], w[i])]
Subtracted(v, w) == Added(v, Scaled(w, -1))

----------------------------------------------------------------------------
(* Making functions and dropping them.                                      *)

Combinations == {"difference", "sum", "product"}
Null == 0   \* what an operand is after the function has been moved away

\* a fault: a shared_ptr is taken for a reference
Keeps_faulty(f) == {}

\* a parameter that is a shared_ptr keeps its function alive, a reference does not
Operands(f) == {o \in {"left", "right", "func"} : o \in DOMAIN f}
Keeps(f)    == IF Operands(f) # {} /\ f.storage = "shared_ptr" THEN {f[o] : o \in Operands(f)} ELSE {}

\* the functions that exist: an operand is always older than what it is part of
ExistingIn(fs, hs) ==
  LET exists[i \in 1..Len(fs)] == i \in hs \/ \E j \in i + 1..Len(fs) : exists[j] /\ i \in Keeps(fs[j])
  IN  {i \in 1..Len(fs) : exists[i]}
Existing == ExistingIn(functions, held)

RECURSIVE IsValid(_)
IsValid(i) ==
  /\ i # Null /\ i \in Existing
  /\ \A o \in Operands(functions[i]) : IsValid(functions[i][o])

Make(f) ==
  /\ Len(functions) < MaxFunctions
  /\ functions' = Append(functions, f)
  /\ held' = held \cup {Len(functions) + 1}

\* SelectCombined: which dimensions fit together
DimsFit(comb, l, r) == IF comb = "product" THEN l = [range |-> 1, cols |-> 1] ELSE l = r

Combine(comb, i, j, storage, nm) ==
  LET l == functions[i]  r == functions[j]
  IN  /\ {i, j} \subseteq held /\ DimsFit(comb, l.dims, r.dims)
      /\ Make([kind |-> comb, dims |-> r.dims, left |-> i, right |-> j, storage |-> storage,
               name |-> IF nm = "" THEN <<comb, l.name, r.name>> ELSE <<nm>>])

Divergence(i, storage, nm) ==
  LET f == functions[i]
  IN  /\ i \in held /\ f.dims = [range |-> dimDomain, cols |-> 1]
      /\ Make([kind |-> "divergence", dims |-> [range |-> 1, cols |-> 1], func |-> i, storage |-> storage,
               name |-> IF nm = "" THEN <<"divergence", f.name>> ELSE <<nm>>])

IsGlobal(f) == f.kind \in {"constant", "affine", "lambda", "transferred"}

Transfer(i) ==
  LET f == functions[i]
  IN  /\ i \in held /\ IsGlobal(f)
      /\ Make([kind |-> "transferred", dims |-> f.dims, func |-> i, storage |-> "reference",
               name |-> <<"stuff.globalfunction">>])

\* combinations cannot be copied: what they are moved from is left without operands
Move(i) ==
  LET f == functions[i]
  IN  /\ i \in held /\ f.kind \in Combinations \cup {"divergence"}
      /\ Len(functions) < MaxFunctions
      /\ functions' = Append([functions EXCEPT ![i] = [o \in DOMAIN f |-> IF o \in Operands(f) THEN Null ELSE f[o]]], f)
      /\ held' = held \cup {Len(functions) + 1}

Drop(i) == i \in held /\ held' = held \ {i} /\ UNCHANGED functions

FunctionsInit == functions = <<>> /\ held = {}

Storages == {"reference", "shared_ptr"}
FunctionsNext ==
  \/ \E f \in Leaves : Make(f)
  \/ \E i, j \in held, comb \in Combinations, storage \in Storages, nm \in Names : Combine(comb, i, j, storage, nm)
  \/ \E i \in held, storage \in Storages, nm \in Names : Divergence(i, storage, nm)
  \/ \E i \in held : Transfer(i) \/ Move(i) \/ Drop(i)

----------------------------------------------------------------------------
(* The order of a function, which is that of its local functions.           *)

Larger(m, n) == IF m > n THEN m ELSE n

RECURSIVE Order(_)
Order(i) ==
  LET f == functions[i]
  IN  CASE f.kind = "constant"    -> 0
        [] f.kind = "affine"      -> 1
        [] f.kind = "lambda"      -> f.order
        [] f.kind = "transferred" -> Order(f.func)
        [] f.kind = "divergence"  -> Larger(Order(f.func) - 1, 0)
        [] f.kind = "product"     -> Order(f.left) + Order(f.right)
        [] OTHER                  -> Larger(Order(f.left), Order(f.right))

----------------------------------------------------------------------------
(* Local functions.  An entity is its lower left corner.  What is written   *)
(* may depend on what was there before: ret is what the caller passes, and  *)
(* combinations keep what their right operands wrote (tmp_range_,           *)
(* tmp_jacobian_) from call to call.  A local function has been called at   *)
(* the points of calls, the present one last.                               *)

Global(entity, xx) == [d \in 1..dimDomain |-> entity[d] + xx[d]]

Dot(v, x) == FoldLeft(Add, 0, [d \in DOMAIN v |-> Mul(v[d], x[d])])

\* the jacobian: a row of derivatives for every component
Jacobian(dims, content) == [c \in 1..Size(dims) |-> Content(dimDomain, content)]

EvaluateGlobally(f, x, ret) ==
  CASE f.kind = "constant" -> f.value
    [] f.kind = "affine"   -> [c \in DOMAIN f.b |-> Add(Dot(f.A[c], x), f.b[c])]
    [] f.kind = "lambda"   -> f.at[x]

RECURSIVE Evaluate(_, _, _, _), Derivatives(_, _, _, _), tmp_range_(_, _, _), tmp_jacobian_(_, _, _)

\* what right operand i left there
tmp_range_(i, entity, calls) ==
  IF calls = <<>> THEN Content(Size(functions[i].dims), 0)
  ELSE Evaluate(i, entity, calls, tmp_range_(i, entity, Front(calls)))

tmp_jacobian_(i, entity, calls) ==
  IF calls = <<>> THEN Jacobian(functions[i].dims, 0)
  ELSE Derivatives(i, entity, calls, tmp_jacobian_(i, entity, Front(calls)))

Evaluate(i, entity, calls, ret) ==
  LET f == functions[i]
      left   == Evaluate(f.left, entity, calls, ret)
      right  == tmp_range_(f.right, entity, calls)
      factor == Evaluate(f.left, entity, calls, <<0>>)
      second == Evaluate(f.right, entity, calls, ret)
      tmp_jac == Derivatives(f.func, entity, calls, Jacobian(functions[f.func].dims, 0))
      diagonal == [dd \in 1..dimDomain |-> tmp_jac[dd][dd]]
  IN  CASE f.kind \in {"difference", "sum"} /\ NotImplemented \in {left, right} -> NotImplemented
        [] f.kind = "product" /\ NotImplemented \in {factor, second}        -> NotImplemented
        [] f.kind = "divergence" /\ tmp_jac = NotImplemented                -> NotImplemented
        [] f.kind = "difference"  -> Subtracted(left, right)
        [] f.kind = "sum"         -> Added(left, right)
        [] f.kind = "product"     -> Scaled(second, factor[1])
        [] f.kind = "divergence"  -> <<FoldLeft(Add, Mul(ret[1], 0), diagonal)>>
        [] f.kind = "transferred" -> Evaluate(f.func, entity, calls, ret)
        [] OTHER                  -> EvaluateGlobally(f, Global(entity, Last(calls)), ret)

\* a constant scales what it finds by zero
Derivatives(i, entity, calls, ret) ==
  LET f == functions[i]
      left  == Derivatives(f.left, entity, calls, ret)
      right == tmp_jacobian_(f.right, entity, calls)
      both(op(_, _)) == IF NotImplemented \in {left, right} THEN NotImplemented
                        ELSE [c \in DOMAIN left |-> op(left[c], right[c])]
  IN  CASE f.kind = "constant"   -> [c \in DOMAIN ret |-> Scaled(ret[c], 0)]
        [] f.kind = "affine"     -> f.A
        [] f.kind = "difference" -> both(Subtracted)
        [] f.kind = "sum"        -> both(Added)
        [] OTHER                 -> NotImplemented

----------------------------------------------------------------------------
(* What the interfaces add.                                                 *)

\* LocalfunctionInterface: ret starts from zero
LocalEvaluate(i, entity, xx) == Evaluate(i, entity, <<xx>>, Content(Size(functions[i].dims), 0))
LocalJacobian(i, entity, xx) == Derivatives(i, entity, <<xx>>, Jacobian(functions[i].dims, 0))

\* as a set of one function
SetEvaluate(i, entity, xx, ret) == [ret EXCEPT ![1] = Evaluate(i, entity, <<xx>>, @)]

\* at the points of a quadrature: ret may be longer than that
QuadratureEvaluate(i, entity, quadrature, ret) ==
  [q \in DOMAIN ret |->
     IF q <= Len(quadrature) THEN Evaluate(i, entity, SubSeq(quadrature, 1, q), ret[q]) ELSE ret[q]]
QuadratureJacobian(i, entity, quadrature, ret) ==
  [q \in DOMAIN ret |->
     IF q <= Len(quadrature) THEN Derivatives(i, entity, SubSeq(quadrature, 1, q), ret[q]) ELSE ret[q]]

\* VisualizationAdapter: a vector by its components, a matrix by the square of its norm
Ncomps(dims) == IF dims.cols = 1 THEN dims.range ELSE 1

\* the value it has, and what it becomes
AdapterEvaluate(i, comp, entity, xx, tmp_value) ==
  LET val == Evaluate(i, entity, <<xx>>, tmp_value)
  IN  [tmp_value |-> val,
       shown |-> IF functions[i].dims.cols = 1 THEN val[comp]
                 ELSE FoldLeft(Add, 0, [c \in DOMAIN val |-> Mul(val[c], val[c])])]

\* the adapter keeps one value for all that it evaluates, in an order of the writer's
Visualize(i, view, corners, path) ==
  LET f == functions[i]
      step(place, done) ==
        LET adapter == AdapterEvaluate(i, place[3], place[1], place[2], done.tmp_value)
        IN  [tmp_value |-> adapter.tmp_value, data |-> done.data @@ (place :> adapter.shown)]
      start == [tmp_value |-> Content(Size(f.dims), 0), data |-> <<>>]
  IN  IF path = "" THEN RangeError
      ELSE [name |-> f.name, data |-> FoldSet(step, start, view \X corners \X (1..Ncomps(f.dims))).data]
=============================================================================
