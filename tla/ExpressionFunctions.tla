-------------------------- MODULE ExpressionFunctions --------------------------
(***************************************************************************)
(* Functions::Expression (functions/expression.hh) on top of               *)
(* MathExpressionBase (functions/expression/base.hh): functions that are   *)
(* created from a configuration, and the values they take: what            *)
(* ExpressionEvaluation asks for with CodeValue and ResultOf.              *)
(***************************************************************************)
EXTENDS ExpressionParser, ExpressionEvaluation

CONSTANTS
  NDEBUG,          \* whether the checks of evaluate() are left out
  InvalidStateException, internal_error

EnvOf(arg) == [x \in Variables |-> arg[SelectInSeq(VariableNames, LAMBDA name : name = x)]]

----------------------------------------------------------------------------
(* Construction.                                                            *)

\* setup(): what is more than dimRange is left out
NewMath(dimRange, expression) ==
  IF Len(expression) < dimRange THEN InvalidStateException
  ELSE [expressions |-> SubSeq(expression, 1, dimRange),
        op    |-> [i \in 1..dimRange |-> BuildCode(Parse(expression[i]))],
        arg   |-> [i \in DOMAIN VariableNames |-> Whole(0)],
        mutex |-> NoThread]

\* build_function(): row by row
Reordered(dims, expressions) == FlattenSeq([r \in 1..dims.range |-> SubSeq(expressions[r], 1, dims.cols)])

\* the function and, for each column of the range, the rows of its gradient
Expression(dims, expressions, gradient) ==
  [dims |-> dims,
   maths |-> <<NewMath(dims.range * dims.cols, Reordered(dims, expressions))>>
             \o FlattenSeq([c \in DOMAIN gradient |-> [r \in 1..dims.range |->
                              NewMath(Len(VariableNames), gradient[c][r])]]),
   function_  |-> 1,
   gradients_ |-> [c \in DOMAIN gradient |-> [r \in 1..dims.range |-> 1 + (c - 1) * dims.range + r]]]

\* every component is the same
IdenticalComponents(dims, expression, gradient) ==
  Expression(dims, [r \in 1..dims.range |-> [c \in 1..dims.cols |-> expression]],
             IF gradient = <<>> THEN <<>> ELSE [c \in 1..dims.cols |-> [r \in 1..dims.range |-> gradient]])

\* a vector is read as one, or else as a matrix with one column
ExpressionMatrix(dims, cfg) ==
  LET vec == VectorFromString([S |-> "string", static |-> TRUE, size |-> dims.range], cfg.expression, 0)
      M   == [S |-> "string", static |-> TRUE, rows |-> dims.range, cols |-> dims.cols]
  IN  IF dims.cols = 1 /\ vec # conversion_error THEN [r \in 1..dims.range |-> <<vec[r]>>]
      ELSE MatrixFromString(M, cfg.expression, 0, 0)

GradientKeys(dims, cfg) ==
  LET first == IF "gradient" \in DOMAIN cfg THEN "gradient" ELSE "gradient.0"
  IN  IF first \notin DOMAIN cfg THEN <<>>
      ELSE [c \in 1..dims.cols |-> IF c = 1 THEN first ELSE "gradient.1"]   \* bound: two columns

GradientMatrices(dims, cfg) ==
  LET M == [S |-> "string", static |-> TRUE, rows |-> dims.range, cols |-> Len(VariableNames)]
      keys == GradientKeys(dims, cfg)
  IN  AllOrFirstError([c \in DOMAIN keys |-> MatrixFromString(M, cfg[keys[c]], 0, 0)])

ExpressionUnlessError(dims, expression, gradient) ==
  IF conversion_error \in {expression, gradient} THEN conversion_error ELSE Expression(dims, expression, gradient)

Create(dims, cfg) == ExpressionUnlessError(dims, ExpressionMatrix(dims, cfg), GradientMatrices(dims, cfg))

----------------------------------------------------------------------------
(* Values.                                                                  *)

ValueAt(op, arg) == Val(op, EnvOf(arg))

\* a fault: column after column
Rows_faulty(ret, rows, cols) == [r \in 1..rows |-> [c \in 1..cols |-> ret[(c - 1) * rows + r]]]

\* the rows of what has been computed, one after the other
Rows(ret, rows, cols) == [r \in 1..rows |-> SubSeq(ret, (r - 1) * cols + 1, r * cols)]

\* evaluate() looks for values that cannot be right, jacobian() does not
Result(dims, what, ret) ==
  LET d == Len(VariableNames)
      perColumn == Rows(ret, dims.cols, dims.range * d)
  IN  IF what = "evaluate"
      THEN IF ErrVal \in Range(ret) /\ ~NDEBUG THEN internal_error ELSE Rows(ret, dims.range, dims.cols)
      ELSE IF what = "jacobian" THEN [c \in 1..dims.cols |-> Rows(perColumn[c], dims.range, d)]
      ELSE ret
=============================================================================
