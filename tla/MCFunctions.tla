----------------------------- MODULE MCFunctions -----------------------------
(***************************************************************************)
(* Formulas that are read, written, derived and evaluated by threads,      *)
(* functions that are combined and dropped, functions that are given by    *)
(* data, comparisons, and conversions.                                     *)
(***************************************************************************)
EXTENDS ExpressionFunctions, DataFunctions

VARIABLES
  part,     \* which of them this behaviour is about
  subject,  \* the formula, the data, or the values that are looked at
  promised  \* for each function that was combined, the values it has to take

vars == <<part, subject, promised, expressionVars, functionsVars>>

----------------------------------------------------------------------------
(* Constants.                                                               *)

MCVariables     == {"x[0]", "x[1]"}
MCVariableNames == <<"x[0]", "x[1]">>
MCPi            == Whole(5)   \* stands for pi
MCPoints        == {<<Whole(2), Frac(1, 2)>>, <<Whole(0), Whole(3)>>}

\* what the library answers is told apart by function and argument
Place(f) == CHOOSE k \in 1..12 :
  f = <<"pow", "Sqrt", "Ln", "Exp", "Sin", "Cos", "Tg", "Asin", "Acos", "Atan", "atan2", "none">>[k]
MCLibm(f, v) == Plus(v, Whole(Place(f)))

MCModel1Elements == <<2, 2>>
MCNumElements    == <<2, 1, 3>>

Written == "1" :> 1 @@ "2" :> 2 @@ "-3" :> -3
MCNumberIn(word) == IF word \in DOMAIN Written THEN Written[word] ELSE IF word = "2m" THEN 2 ELSE invalid_argument
MCWordFor(n)     == CHOOSE word \in DOMAIN Written : Written[word] = n

----------------------------------------------------------------------------
(* Formulas: how they should be read.                                       *)

Env(x, y) == "x[0]" :> x @@ "x[1]" :> y
Envs == {Env(Whole(2), Frac(1, 2)), Env(Frac(-3, 2), Whole(3)), Env(Whole(0), Whole(-1))}

ValueOf(t, env) == Val(BuildCode(t), env)

Operand(token, env) == IF token \in Variables THEN env[token] ELSE Whole(DigitValue[token])

\* operands and the operators between them: each operator binds what is left of
\* its last occurrence, those that come first bind least
Precedence == <<"Add", "Sub", "Mult", "Div", "Pow", "E10">>
RECURSIVE Usual(_, _)
Usual(s, env) ==
  LET places(ops) == {i \in DOMAIN s : \E k \in ops : s[i] = Character[Precedence[k]]}
      weakest == CHOOSE ops \in {{1, 2}, {3, 4}, {5}, {6}} :
                   places(ops) # {} /\ \A k \in 1..Min(ops) - 1 : places({k}) = {}
      i  == Max(places(weakest))
      op == CHOOSE k \in weakest : s[i] = Character[Precedence[k]]
  IN  IF Len(s) = 1 THEN Operand(s[1], env)
      ELSE Binary(Precedence[op], Usual(SubSeq(s, 1, i - 1), env), Usual(SubSeq(s, i + 1, Len(s)), env))

Operands3  == {"2", "3", "x[0]", "x[1]"}
Operators3 == {"+", "-", "*", "/", "^", "E"}
FlatFormulas ==
  {<<a, o, b>> : a, b \in Operands3, o \in Operators3}
  \cup {<<a, o, b, p, c>> : a, b, c \in {"2", "x[0]", "x[1]"}, o, p \in Operators3}
  \cup {<<"2", o, "x[0]", p, "x[1]", q, "3">> : o, p, q \in Operators3}

Alphabet == {"2", "x[0]", "+", "-", "*", "^", "(", ")", "sin"}
AnyFormulas == SeqOf(Alphabet, 4)

RECURSIVE ReadsNull(_)
ReadsNull(t) ==
  \/ t.op = "NullRead"
  \/ "mmb1" \in DOMAIN t /\ ReadsNull(t.mmb1)
  \/ "mmb2" \in DOMAIN t /\ ReadsNull(t.mmb2)

\* nothing is missing: brackets match and hold something, operators have operands
LooksComplete(s) ==
  /\ Brackets(s, 1, Len(s)) = 0 /\ \A i \in DOMAIN s : Brackets(s, 1, i) >= 0
  /\ s # <<>> /\ Head(s) \notin {"+", "*", "^"} /\ Last(s) \notin {"+", "-", "*", "^", "sin"}
  /\ ~\E i \in 1..Len(s) - 1 : s[i] \in {"(", "sin", "+", "-", "*", "^"} /\ s[i + 1] \in {")", "+", "*", "^"}

\* A formula without brackets is read as it is usually: what binds most goes
\* first, and from left to right; powers as well.  No formula reads a null
\* pointer, and one that is incomplete is an error.
IsReadAsUsual(s, t) ==
  /\ ~ReadsNull(t)
  /\ ~HasError(t) => LooksComplete(s)
  /\ s \in FlatFormulas => \A env \in Envs : ValueOf(t, env) = Usual(s, env)

ReadsAsUsual == part = "formula" => IsReadAsUsual(subject, Parse(subject))

----------------------------------------------------------------------------
(* Trees: what is written is read back, and derivatives are those of dual   *)
(* numbers <<value, derivative>>.                                           *)

Atoms == {Num(Whole(2)), Num(Whole(10)), Num(PiValue), Var("x[0]"), Var("x[1]")}
TreeOps == BinaryOps \ {"Juxt"}
Level1 == {Op2(op, a, b) : op \in TreeOps, a, b \in Atoms}
          \cup {Op1(op, b) : op \in FunctionOps \cup {"Opp"}, b \in Atoms}
Trees == Level1
         \cup {Op2(op, a, b) : op \in TreeOps, a \in Level1, b \in {Num(Whole(2)), Var("x[0]")}}
         \cup {Op2(op, a, b) : op \in TreeOps, a \in {Num(Whole(2)), Var("x[0]")}, b \in Level1}
         \cup {Op1(op, b) : op \in FunctionOps \cup {"Opp"}, b \in Level1}

Half == Frac(1, 2)
Sq(v) == Times(v, v)

\* the derivative of a function at v
Slope(op, v) ==
  CASE op = "Sqrt" -> Over(Half, Libm("Sqrt", v))
    [] op = "Abs"  -> Whole(Sign(v))
    [] op = "Sin"  -> Libm("Cos", v)
    [] op = "Cos"  -> Minus(Libm("Sin", v))
    [] op = "Tg"   -> Plus(Whole(1), Sq(Libm("Tg", v)))
    [] op = "Ln"   -> Over(Whole(1), v)
    [] op = "Exp"  -> Libm("Exp", v)
    [] op = "Atan" -> Over(Whole(1), Plus(Whole(1), Sq(v)))
    [] op = "Asin" -> Over(Whole(1), Libm("Sqrt", Plus(Whole(1), Minus(Sq(v)))))
    [] op = "Acos" -> Over(Whole(-1), Libm("Sqrt", Plus(Whole(1), Minus(Sq(v)))))
    [] op = "Opp"  -> Whole(-1)

\* the derivatives of a binary operator to its operands
Slopes(op, v, w) ==
  CASE op = "Add"  -> <<Whole(1), Whole(1)>>
    [] op = "Sub"  -> <<Whole(1), Whole(-1)>>
    [] op = "Mult" -> <<w, v>>
    [] op = "Div"  -> <<Over(Whole(1), w), Over(Minus(v), Sq(w))>>
    [] op = "E10"  -> <<Pow(Whole(10), w), Times(Times(v, Pow(Whole(10), w)), Libm("Ln", Whole(10)))>>

\* of powers, where the exponent is constant and where it is not
ConstantPower(v, w, dv)     == Times(Times(w, Pow(v, Plus(w, Whole(-1)))), dv)
VariablePower(v, w, dv, dw) == Times(Pow(v, w), Plus(Times(Libm("Ln", v), dw), Over(Times(w, dv), v)))

TotalDerivative(slopes, dv, dw) == Plus(Times(slopes[1], dv), Times(slopes[2], dw))

\* from the values of the operands and their derivatives
ByChainRule(t, x, v, w, dv, dw) ==
  CASE t.op = "Pow" -> IF ContainVar(t.mmb2, x) THEN VariablePower(v, w, dv, dw) ELSE ConstantPower(v, w, dv)
    [] t.op \in TreeOps \ {"Pow"} -> TotalDerivative(Slopes(t.op, v, w), dv, dw)
    [] OTHER -> Times(Slope(t.op, w), dw)

\* a root as a power
AsPower(a, b) == Op2("Pow", b, IF a = Num(Whole(1)) THEN a ELSE Op2("Div", Num(Whole(1)), a))

RECURSIVE Derivative(_, _, _)
Derivative(t, x, env) ==
  CASE t.op = "Num" -> Whole(0)
    [] t.op = "Var" -> Whole(IF t.pvar = x THEN 1 ELSE 0)
    [] t.op = "NthRoot" -> Derivative(AsPower(t.mmb1, t.mmb2), x, env)
    [] OTHER -> ByChainRule(t, x, ValueOf(t.mmb1, env), ValueOf(t.mmb2, env),
                            Derivative(t.mmb1, x, env), Derivative(t.mmb2, x, env))

\* no part of it is an error, or the power or the modulus of zero
Pivots(t) == IF t.op = "Pow" THEN {t.mmb1} ELSE IF t.op \in {"NthRoot", "Abs"} THEN {t.mmb2} ELSE {}

RECURSIVE IsSmooth(_, _)
IsSmooth(t, env) ==
  /\ ValueOf(t, env) # ErrVal
  /\ "mmb1" \in DOMAIN t => IsSmooth(t.mmb1, env)
  /\ "mmb2" \in DOMAIN t => IsSmooth(t.mmb2, env)
  /\ \A pivot \in Pivots(t) : ValueOf(pivot, env) # Whole(0)

\* What Expr() writes of a tree is read as a formula with the same value.
SameValues(t, u) == \A env \in Envs : ValueOf(t, env) = ValueOf(u, env)

WrittenIsReadBack == part = "tree" => SameValues(Parse(Expr(subject)), subject)

\* Formulas mean what a reader takes them for, whoever wrote them.
FormulasReadAsUsual == ReadsAsUsual /\ WrittenIsReadBack

IsErrorOr(value, expected) == value = ErrVal \/ value = expected

\* Diff() is the derivative wherever it can be computed.
DiffIsTheDerivative ==
  part = "tree" =>
    \A x \in Variables, env \in Envs :
      IsSmooth(subject, env) => IsErrorOr(ValueOf(Diff(subject, x), env), Derivative(subject, x, env))

----------------------------------------------------------------------------
(* Threads that evaluate functions.                                         *)

Scalar == [range |-> 1, cols |-> 1]

ProductFunction ==
  [dims |-> Scalar, formulas |-> <<<< <<"x[0]", "*", "x[1]">> >>>>, derivatives |-> <<<< <<"x[1]">>, <<"x[0]">> >>>>,
   cfg |-> [expression |-> <<"x[0]", "*", "x[1]">>, gradient |-> <<"[", "x[1]", " ", "x[0]", "]">>]]

\* it cannot be evaluated where x[0] is zero
QuotientFunction ==
  [dims |-> [range |-> 2, cols |-> 1], formulas |-> <<<< <<"2", "/", "x[0]">> >>, << <<"x[1]">> >>>>, derivatives |-> <<>>,
   cfg |-> [expression |-> <<"[", "2", "/", "x[0]", " ", "x[1]", "]">>]]

MatrixFunction ==
  [dims |-> [range |-> 2, cols |-> 2], derivatives |-> <<>>,
   formulas |-> << << <<"x[0]">>, <<"x[1]">> >>, << <<"3">>, <<"x[0]", "+", "x[1]">> >> >>,
   cfg |-> [expression |-> <<"[", "x[0]", " ", "x[1]", ";", " ", "3", " ", "x[0]", "+", "x[1]", "]">>]]

EnvAt(xx) == "x[0]" :> xx[1] @@ "x[1]" :> xx[2]

\* what a call on its own returns
Expected(f, what, xx) ==
  LET table(rows) == [r \in DOMAIN rows |-> [c \in DOMAIN rows[r] |-> Usual(rows[r][c], EnvAt(xx))]]
      values == table(f.formulas)
  IN  CASE what = "evaluate" -> IF \E r \in DOMAIN values : ErrVal \in Range(values[r]) THEN internal_error ELSE values
        [] what = "jacobian" -> IF f.derivatives = <<>> THEN NoGradient ELSE <<table(f.derivatives)>>

\* Every call returns the values of its formulas, each where it belongs, whatever
\* the configuration they were read from: a matrix keeps its rows, and columns are
\* derived one after the other.
EvaluationsAreExact ==
  part = "evaluation" =>
    \A t \in Threads :
      calls[t].at = "idle" /\ calls[t].what \in {"evaluate", "jacobian"} =>
        calls[t].outcome = Expected(subject, calls[t].what, calls[t].xx)

----------------------------------------------------------------------------
(* Functions that are combined: each has a table of the values it promises. *)

Lambda(x) == x[1] * x[2] - x[1]

Directions == {<<1, 0>>, <<0, 1>>, <<1, 1>>}
Spot(dir, k) == <<k * dir[1], k * dir[2]>>
MaxSpot == 7   \* bound: differences are taken up to this order
Spots  == {Spot(dir, k) : dir \in Directions, k \in 0..MaxSpot}
Corner == <<0, 0>>   \* an entity; the points in it are all spots

MCLeaves ==
  {[kind |-> "constant", dims |-> Scalar, value |-> <<2>>, name |-> <<"c">>],
   [kind |-> "affine", dims |-> Scalar, A |-> <<<<1, -2>>>>, b |-> <<3>>, name |-> <<"a">>],
   [kind |-> "affine", dims |-> [range |-> 2, cols |-> 1], A |-> <<<<1, 2>>, <<3, 5>>>>, b |-> <<0, 1>>, name |-> <<"v">>],
   [kind |-> "constant", dims |-> [range |-> 2, cols |-> 2], value |-> <<1, 0, 3, 4>>, name |-> <<"m">>],
   [kind |-> "lambda", dims |-> Scalar, order |-> 2, at |-> [x \in Spots |-> <<Lambda(x)>>], name |-> <<"l">>]}

\* values, and whether there are derivatives
LeafPromise(f) ==
  [smooth |-> f.kind # "lambda",
   values |-> [x \in Spots |->
     CASE f.kind = "constant" -> f.value
       [] f.kind = "affine"   -> [c \in DOMAIN f.b |-> f.A[c][1] * x[1] + f.A[c][2] * x[2] + f.b[c]]
       [] f.kind = "lambda"   -> <<Lambda(x)>>]]

\* differences, which are the derivatives of what is affine
Difference(values, c, d) == values[Spot([e \in 1..2 |-> IF e = d THEN 1 ELSE 0], 1)][c] - values[Corner][c]

PromiseOf(f) ==
  LET p == promised[IF "left" \in DOMAIN f THEN f.left ELSE f.func]
      q == promised[f.right]
      pointwise(op(_, _, _)) == [x \in Spots |-> [c \in DOMAIN q.values[x] |-> op(p.values[x], q.values[x][c], c)]]
      trace == Difference(p.values, 1, 1) + Difference(p.values, 2, 2)
  IN  CASE f.kind \in {"constant", "affine", "lambda"} -> LeafPromise(f)
        [] f.kind = "transferred" -> [p EXCEPT !.smooth = FALSE]
        [] f.kind = "divergence"  ->
             [smooth |-> FALSE, values |-> IF p.smooth THEN [x \in Spots |-> <<trace>>] ELSE NotImplemented]
        [] p.values = NotImplemented \/ q.values = NotImplemented -> [smooth |-> FALSE, values |-> NotImplemented]
        [] f.kind = "sum"        -> [smooth |-> p.smooth /\ q.smooth, values |-> pointwise(LAMBDA u, w, c : u[c] + w)]
        [] f.kind = "difference" -> [smooth |-> p.smooth /\ q.smooth, values |-> pointwise(LAMBDA u, w, c : u[c] - w)]
        [] f.kind = "product"    -> [smooth |-> FALSE, values |-> pointwise(LAMBDA u, w, c : u[1] * w)]

\* what is moved keeps the promise of what it was moved from
MovedFrom == {i \in DOMAIN functions : functions'[i] # functions[i]}
NewPromise ==
  promised' = IF Len(functions') = Len(functions) THEN promised
              ELSE Append(promised, IF MovedFrom # {} THEN promised[Max(MovedFrom)] ELSE PromiseOf(Last(functions')))

\* only owners, down to the leaves
RECURSIVE OwnsAll(_)
OwnsAll(i) ==
  \/ Operands(functions[i]) = {}
  \/ /\ functions[i].storage = "shared_ptr"
     /\ \A o \in Operands(functions[i]) : functions[i][o] # Null /\ OwnsAll(functions[i][o])

SquareSum(v) == FoldLeft(LAMBDA s, x : s + x * x, 0, v)

Sampled == {<<0, 0>>, <<2, 0>>, <<1, 1>>, <<0, 3>>}

\* the k-th differences of a component along a direction, from its corner
RECURSIVE DifferenceAt(_, _, _, _, _)
DifferenceAt(values, c, dir, k, from) ==
  IF k = 0 THEN values[Spot(dir, from)][c]
  ELSE DifferenceAt(values, c, dir, k - 1, from + 1) - DifferenceAt(values, c, dir, k - 1, from)

\* No function is of a higher degree than its order() says, from which
\* quadratures are chosen: along every line its differences vanish.
OrdersBoundDegrees ==
  part = "combinations" =>
    \A i \in {j \in held : IsValid(j) /\ promised[j].values # NotImplemented} :
      Order(i) < MaxSpot =>
        \A dir \in Directions, c \in 1..Size(functions[i].dims) :
          DifferenceAt(promised[i].values, c, dir, Order(i) + 1, 0) = 0

\* Whether what a function writes scales what was in the memory, by zero, in
\* place of setting it: then a NaN stays (derived.hh:96, constant.hh:176).
RECURSIVE ScalesValue(_), ScalesJacobian(_)
ScalesValue(i) ==
  LET f == functions[i]
  IN  CASE f.kind = "divergence"            -> TRUE
        [] f.kind = "product"               -> ScalesValue(f.right)
        [] f.kind \in {"sum", "difference"} -> ScalesValue(f.left)
        [] f.kind = "transferred"           -> ScalesValue(f.func)
        [] OTHER                            -> FALSE
ScalesJacobian(i) ==
  \/ functions[i].kind = "constant"
  \/ functions[i].kind \in {"sum", "difference"} /\ ScalesJacobian(functions[i].left)

\* A function that refers to functions that are still there takes the values and
\* has the derivatives that its construction promises, through each of the
\* interfaces, at every point of a sequence of calls, and whatever number the
\* memory for them held before; or NotImplemented.  NaN is no number: it has no
\* effect where the memory is set, but it stays in the value of a divergence and
\* in the jacobian of a constant, which the property leaves out.
\* A function that owns what it combines is never left with something that is
\* gone.  Its order bounds the degree of what it promises.
CombinationsKeepTheirPromise ==
  part = "combinations" =>
    /\ OrdersBoundDegrees
    /\ \A i \in held : OwnsAll(i) => IsValid(i)
    /\ \A i \in {j \in held : IsValid(j)} :
         LET values == promised[i].values
             dims   == functions[i].dims
             n      == Size(dims)
             jacobian == [c \in 1..n |-> [d \in 1..2 |-> Difference(values, c, d)]]
             shown(v) == IF dims.cols = 1 THEN v ELSE <<SquareSum(v)>>
             before(scales) == {7} \cup IF scales THEN {} ELSE {NaN}
         IN  /\ IF ~promised[i].smooth THEN LocalJacobian(i, Corner, Corner) = NotImplemented
                ELSE \A old \in before(ScalesJacobian(i)) :
                       /\ LocalJacobian(i, Corner, Corner) = jacobian
                       /\ QuadratureJacobian(i, Corner, <<<<1, 1>>, Corner>>, [q \in 1..2 |-> Jacobian(dims, old)])
                            = <<jacobian, jacobian>>
             /\ IF values = NotImplemented THEN LocalEvaluate(i, Corner, Corner) = NotImplemented
                ELSE /\ \A x \in Sampled, old \in before(ScalesValue(i)) :
                          /\ LocalEvaluate(i, Corner, x) = values[x]
                          /\ LocalEvaluate(i, x, Corner) = values[x]
                          /\ SetEvaluate(i, Corner, x, <<Content(n, old), <<>>>>) = <<values[x], <<>>>>
                          /\ QuadratureEvaluate(i, Corner, <<x, Corner, x>>, [q \in 1..4 |-> Content(n, old)])
                               = <<values[x], values[Corner], values[x], Content(n, old)>>
                     /\ Visualize(i, {Corner}, Sampled, "a file").data =
                          [place \in {Corner} \X Sampled \X (1..Ncomps(dims)) |-> shown(values[place[2]])[place[3]]]

----------------------------------------------------------------------------
(* Functions that are given by data.                                        *)

Interval(lower, upper) == {v \in [DOMAIN lower -> Min(Range(lower))..Max(Range(upper))] :
                             \A d \in DOMAIN v : lower[d] <= v[d] /\ v[d] <= upper[d]}

\* boards from <<-1, ...>>, whose cells are of length 2
Boards == [1..1 -> 1..3] \cup [1..2 -> 1..3]

BoardOf(ne) ==
  CreateCheckerboard(Len(ne),
    [lower_left |-> [d \in DOMAIN ne |-> -1], upper_right |-> [d \in DOMAIN ne |-> 2 * ne[d] - 1],
     num_elements |-> ne, values |-> [k \in 1..ProductOf(ne) + 1 |-> k]])

\* two entities show one value if and only if they are in one cell; those on the
\* upper right are in the last one; every value is shown
CellsShow(f, ne) ==
  LET centers == Interval(f.lowerLeft, f.upperRight)
      cell(x) == [d \in DOMAIN ne |-> Cardinality({k \in 1..ne[d] - 1 : 2 * k - 1 <= x[d]})]
  IN  /\ \A x, y \in centers : CheckerboardValue(f, x) = CheckerboardValue(f, y) <=> cell(x) = cell(y)
      /\ {CheckerboardValue(f, x) : x \in centers} = 1..ProductOf(ne)

CellsShowTheirOwn(ne) == CellsShow(BoardOf(ne), ne) /\ ~OverrunsValues(Len(ne), CheckerboardDefault(Len(ne)))

Boxes == {<<<<0, 2>>, <<0, 3>>>>, <<<<1, 3>>, <<0, 2>>>>, <<<<1, 4>>, <<1, 4>>>>}

\* the first box decides, but for entities that are level with its lower sides
\* in some directions only: they are taken for outside
FirstBoxDecides(boxes) ==
  LET f == CreateIndicator([numbered |-> [k \in DOMAIN boxes |-> [domain |-> boxes[k], value |-> k]]])
      holds(box, x) == \A d \in 1..2 : box[d][1] <= x[d] /\ x[d] < box[d][2]
  IN  \A x \in [1..2 -> -1..4] :
        LET around_x == {k \in DOMAIN boxes : holds(boxes[k], x)}
            aligned  == \E k \in around_x, d \in 1..2 : x[d] = boxes[k][d][1]
        IN  aligned \/ IndicatorValue(f, x) = (IF around_x = {} THEN 0 ELSE Min(around_x))

\* Flat tops over boxes of length 6 that share a side, with thin layers of one
\* thickness, add up to one away from the sides they do not share: the layers
\* blend into each other.
FlatTopsAddUp(dim, layer) ==
  LET box(k) == FlatTop([d \in 1..dim |-> 6 * k[d]], [d \in 1..dim |-> 6 * k[d] + 6], [d \in 1..dim |-> layer], 4)
      boxes  == SetToSeq([1..dim -> 0..1])
  IN  \A x \in [1..dim -> layer..12 - layer] :
        SumOf([k \in DOMAIN boxes |-> FlatTopValue(box(boxes[k]), x)]) = Whole(4)

\* the least and the largest value of the file become those that are asked for
ShowsRange(f, min, max) ==
  /\ CheckerboardValue(f, <<0, 0>>) = Whole(min) /\ CheckerboardValue(f, <<0, 1>>) = Whole(max)
  /\ \A x \in Interval(<<0, 0>>, <<1, 1>>) :
       ~Exceeds(Plus(CheckerboardValue(f, x), Minus(Frac(min + max, 2))), max - min)

ModelIsScaled(min, max) ==
  ShowsRange(CreateModel1([file |-> <<Model1Min, 3, Model1Max, 4>>, min_value |-> min, max_value |-> max]), min, max)

\* every cell and direction has a number of the file of its own, all are used
NumbersAreUsedOnce(deltas) ==
  LET cells == Interval(<<0, 0, 0>>, [d \in 1..3 |-> NumElements[d] - 1])
      corner(cell) == [d \in 1..3 |-> deltas[d] * cell[d]]
      n == 3 * ProductOf(NumElements)
      diagonal(cell) == Model2Diagonal(readPermeability([numbers |-> [k \in 1..n |-> k], newline |-> TRUE]), corner(cell), deltas)
  IN  /\ UNION {Range(diagonal(cell)) : cell \in cells} = 1..n
      /\ \A cell \in cells : Model2Places([d \in 1..3 |-> corner(cell)[d] + deltas[d]], deltas)
                               = Model2Places(corner([d \in 1..3 |-> Min({cell[d] + 1, NumElements[d] - 1})]), deltas)

\* without descendants of descendants, no ellipsoid is read where it no longer is,
\* and one holds the points that are nearer to its center than all its radii
EllipsoidsAreKept(count, children) ==
  LET es == Generated([count |-> count, children |-> children, recursion_depth |-> 0])
      e  == [center |-> <<1, 1>>, radii |-> <<count, children + 1>>]
  IN  /\ ~es.read_stale /\ es.size <= es.capacity /\ es.size = count * (1 + children)
      /\ \A x \in [1..2 -> -3..5] :
           LET sq == (x[1] - 1)^2 + (x[2] - 1)^2
           IN  /\ sq <= Min({count, children + 1})^2 => EllipsoidsValue(<<e>>, 7, x) = 7
               /\ sq > Max({count, children + 1})^2 => EllipsoidsValue(<<e>>, 7, x) = 0

\* the derivative to a component of the variable
TermDiff(t, d) ==
  [t EXCEPT !.coefficient = Times(@, Frac(IF t.factors[d] = "cos" THEN -1 ELSE 1, 2)), !.power = @ + 1,
            !.factors[d] = IF @ = "cos" THEN "sin" ELSE "cos"]

\* the force is minus the laplacian of the solution, the jacobians are right, and
\* the diameter is the largest distance
SolutionSolves(vertices) ==
  LET second(d) == TermDiff(TermDiff(ExactSolutionValue, d), d)
      distances == {(vertices[i][1] - vertices[j][1])^2 + (vertices[i][2] - vertices[j][2])^2 : i, j \in DOMAIN vertices}
  IN  /\ [second(1) EXCEPT !.coefficient = Minus(Plus(@, second(2).coefficient))] = ForceValue
      /\ second(1).factors = second(2).factors
      /\ \A d \in 1..2 : TermDiff(ForceValue, d) = ForceJacobian[d] /\ TermDiff(ExactSolutionValue, d) = ExactSolutionJacobian[d]
      /\ compute_diameter_squared(vertices) = Max(distances)
      /\ CutoffValue(vertices, 1, <<2, 4>>, 1) = Frac(Max(distances), 2)

Types == {"checkerboard", "constant", "flattop", "indicator", "spe10.model1", "expression",
          "ESV2007.testcase1.force", "ESV2007.testcase1.exactsolution"}
Failures == {wrong_input_given, conversion_error, RangeError, IOError}

\* what the provider offers it creates, by default or from a part of a configuration
Serves(offered, default, nested, empty) == (offered <=> default \notin Failures) /\ (offered => nested = empty)

ServesWhatItOffers(d, r, rC) ==
  LET create(type, config) == CreateFunction(type, d, r, rC, config)
  IN  \A type \in Types :
        Serves(Contains(AvailableFunctions(d, r, rC), type), CreateByType(d, r, rC, "type" :> type),
               create(type, type :> FunctionDefault(type, d, r, rC)), create(type, <<>>))

DataCases ==
  {<<"checkerboard", ne>> : ne \in Boards}
  \cup {<<"indicator", <<b1, b2>>>> : b1, b2 \in Boxes}
  \cup {<<"flattop", <<dim, layer>>>> : dim \in 1..2, layer \in 1..3}
  \cup {<<"model1", range>> : range \in {<<1, 9>>, <<0, 1>>, <<-2, 6>>}}
  \cup {<<"model2", deltas>> : deltas \in {<<1, 1, 1>>, <<2, 1, 3>>}}
  \cup {<<"ellipsoids", <<count, children>>>> : count \in 1..4, children \in 0..3}
  \cup {<<"ESV2007", vertices>> : vertices \in {<<<<0, 0>>, <<1, 0>>, <<0, 2>>>>, <<<<3, 0>>, <<0, 0>>, <<1, 1>>, <<0, 3>>>>}}
  \cup {<<"provider", <<d, r, rC>>>> : d \in 1..3, r, rC \in 1..2}

\* A function that is given by data shows each of them where it belongs, and only
\* there.
DataAreShownInPlace ==
  part = "data" =>
    LET s == subject[2]
    IN  CASE subject[1] = "checkerboard" -> CellsShowTheirOwn(s)
          [] subject[1] = "indicator"    -> FirstBoxDecides(s)
          [] subject[1] = "flattop"      -> FlatTopsAddUp(s[1], s[2])
          [] subject[1] = "model1"       -> ModelIsScaled(s[1], s[2])
          [] subject[1] = "model2"       -> NumbersAreUsedOnce(s)
          [] subject[1] = "ellipsoids"   -> EllipsoidsAreKept(s[1], s[2])
          [] subject[1] = "ESV2007"      -> SolutionSolves(s)
          [] subject[1] = "provider"     -> ServesWhatItOffers(s[1], s[2], s[3])

----------------------------------------------------------------------------
(* Comparisons and conversions.                                             *)

Styles == {"numpy", "absolute", "relativeWeak", "relativeStrong"}
Numbers == {<<n>> : n \in -3..4} \cup {<<m, n>> : m, n \in {-1, 0, 2, 3}}
ComparisonCases == {<<style, rtol, atol>> : style \in Styles, rtol \in {0, 3, 5}, atol \in {0, 10}}

\* The comparisons of floating point numbers and vectors fit together: what is
\* not less, not greater and not equal is not comparable, lt() is transitive, and
\* nothing equals NaN.  Equality is symmetric, and lt() and gt() mirror each other,
\* but in the style of numpy with a relative tolerance, which is the default: it
\* is relative to the second argument, and a number may be less than another
\* that is equal to it (FloatCmp::lt(u, v) and FloatCmp::eq(v, u)).
ComparisonsAreConsistent ==
  part = "comparison" =>
    LET style == subject[1]
        eq(u, v) == Eq(style, u, v, subject[2], subject[3])
        lt(u, v) == Lt(style, u, v, subject[2], subject[3])
        gt(u, v) == Gt(style, u, v, subject[2], subject[3])
    IN  \A u, v \in Numbers :
          /\ Len(u) = 1 /\ Len(v) = 1 => Cardinality({op \in 1..3 : <<eq(u, v), lt(u, v), gt(u, v)>>[op]}) = 1
          /\ Ge(style, u, v, subject[2], subject[3]) /\ Le(style, u, v, subject[2], subject[3]) <=> eq(u, v)
          /\ style # "numpy" \/ subject[2] = 0 => (eq(u, v) <=> eq(v, u)) /\ (lt(u, v) <=> gt(v, u))
          /\ lt(u, v) => gt(v, u) \/ eq(v, u)
          /\ ~eq(u, [u EXCEPT ![1] = NaN]) /\ ~eq([u EXCEPT ![1] = NaN], [u EXCEPT ![1] = NaN])
          /\ lt(u, v) => \A w \in Numbers : lt(v, w) => lt(u, w)

Entries == {1, 2, -3}
ConversionCases == UNION {[1..r -> [1..c -> Entries]] : r, c \in 1..2}   \* matrices, and their first rows

Doubles(static, n) == [S |-> "double", static |-> static, size |-> n]
MatrixType(static, r, c) == [S |-> "double", static |-> static, rows |-> r, cols |-> c]

\* What is written of vectors and matrices is read back, into types that know
\* their size and into those that do not; fewer entries can be asked for, and more
\* are an error.
ConversionsReadBack ==
  part = "conversion" =>
    LET mat == subject   vec == subject[1]
        n == Len(vec)    r == Len(mat)
        asVector == VectorToString("double", vec)
        asMatrix == MatrixToString("double", mat)
        cut(rows, cols) == IF rows > r \/ cols > n THEN conversion_error
                              ELSE [i \in 1..(IF rows = 0 THEN r ELSE rows) |-> SubSeq(mat[i], 1, IF cols = 0 THEN n ELSE cols)]
    IN  \A rows \in 0..3, cols \in 0..3 :
          /\ VectorFromString(Doubles(FALSE, 0), asVector, cols)
               = (IF cols > n THEN conversion_error ELSE IF cols = 0 THEN vec ELSE SubSeq(vec, 1, cols))
          /\ MatrixFromString(MatrixType(FALSE, 0, 0), asMatrix, rows, cols) = cut(rows, cols)
          /\ rows > 0 /\ cols > 0 =>
               /\ VectorFromString(Doubles(TRUE, cols), asVector, 0)
                    = (IF cols > n THEN conversion_error ELSE SubSeq(vec, 1, cols))
               /\ MatrixFromString(MatrixType(TRUE, rows, cols), asMatrix, 0, 0) = cut(rows, cols)
               /\ VectorFromString(Doubles(TRUE, cols), <<WordFor(vec[1])>>, 0) = [i \in 1..cols |-> vec[1]]

\* Numbers compare without contradiction, but for the asymmetry that is named at
\* ComparisonsAreConsistent, and what is written of them is read back.
UtilitiesAreConsistent == ComparisonsAreConsistent /\ ConversionsReadBack

----------------------------------------------------------------------------

Initially(what, things) == part = what /\ subject \in things

\* what is looked at in one state each
LookedAt == [formula |-> FlatFormulas \cup AnyFormulas, tree |-> Trees, data |-> DataCases,
             comparison |-> ComparisonCases, conversion |-> ConversionCases]

Compiled(f) == Create(f.dims, f.cfg)
Formulas    == {ProductFunction, QuotientFunction, MatrixFunction}
MCConstructed == {Compiled(f) : f \in Formulas}

NoCalls == maths = <<>> /\ created = <<>> /\ calls = [t \in Threads |-> Idle]

Init ==
  /\ promised = <<>> /\ FunctionsInit
  /\ \/ \E what \in DOMAIN LookedAt : Initially(what, LookedAt[what]) /\ NoCalls
     \/ Initially("combinations", {0}) /\ NoCalls
     \/ Initially("evaluation", Formulas) /\ ExpressionsInit(Compiled(subject))

Next ==
  \/ part = "evaluation" /\ ExpressionsNext /\ UNCHANGED <<part, subject, promised, functionsVars>>
  \/ part = "combinations" /\ FunctionsNext /\ NewPromise /\ UNCHANGED <<part, subject, expressionVars>>

Spec == Init /\ [][Next]_vars
====
