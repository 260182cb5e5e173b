----------------------------- MODULE Expressions -----------------------------
(***************************************************************************)
(* The operations of functions/expression/mathexpr.cc: trees that are      *)
(* built by a parser (ExpressionParser) or by operators, compiled to code  *)
(* for a stack machine and run; their derivatives.  A number is a reduced  *)
(* fraction <<n, d>>, or ErrVal.  User-defined functions (RFunction) are   *)
(* left out: dune-stuff passes none.                                       *)
(***************************************************************************)
EXTENDS Conversions

CONSTANTS
  ErrVal,     \* DBL_MAX: the value of an error
  Huge,       \* stands for sqrtmaxfloat, inveps and the largest exponents
  Libm(_, _)  \* what the library answers for a function and its argument

ASSUME ExpressionsAssumption == Huge \in Nat \ {0}

\* pow(v, w): exact for small numbers and integer exponents, and as the library
\* answers for others
Pow(v, w) ==
  LET bound   == IF Abs(w[1]) <= 2 THEN 2000 ELSE 30
      isExact == /\ IsInt(w) /\ Abs(w[1]) <= 4 /\ Abs(v[1]) <= bound /\ v[2] <= bound
                 /\ w[1] < 0 => v[1] # 0
      p       == <<v[1]^Abs(w[1]), v[2]^Abs(w[1])>>
  IN  IF ~isExact THEN Libm("pow", Plus(v, w)) ELSE IF w[1] >= 0 THEN p ELSE Over(Whole(1), p)

----------------------------------------------------------------------------
(* The instructions.                                                        *)

IsTiny(v) == v # ErrVal /\ Abs(v[1]) <= (v[2] - 1) \div Huge
IsBad(v)  == v = ErrVal \/ Exceeds(v, Huge)

Addition(v, w)       == IF IsBad(w) \/ IsBad(v) THEN ErrVal ELSE Plus(v, w)
Soustraction(v, w)   == IF IsBad(w) \/ IsBad(v) THEN ErrVal ELSE Plus(v, Minus(w))

\* a factor of zero hides an error in the other one
Multiplication(v, w) ==
  IF IsTiny(w) THEN Whole(0) ELSE IF IsBad(w) THEN ErrVal
  ELSE IF IsTiny(v) THEN Whole(0) ELSE IF IsBad(v) THEN ErrVal ELSE Times(v, w)

Division(v, w) ==
  IF IsTiny(w) \/ IsBad(w) THEN ErrVal
  ELSE IF IsTiny(v) THEN Whole(0) ELSE IF IsBad(v) THEN ErrVal ELSE Over(v, w)

Puissance(v, w) ==
  IF v = Whole(0) THEN Whole(0)
  ELSE IF ErrVal \in {v, w} \/ (Exceeds(v, 1) /\ Exceeds(w, Huge)) THEN ErrVal
  ELSE IF Sign(v) > 0 \/ IsInt(w) THEN Pow(v, w) ELSE ErrVal

RacineN(v, w) ==
  IF ErrVal \in {v, w} \/ v = Whole(0) THEN ErrVal
  ELSE IF Sign(w) >= 0 THEN Pow(w, Over(Whole(1), v))
  ELSE IF IsInt(v) /\ v[1] % 2 = 1 THEN Minus(Pow(Minus(w), Over(Whole(1), v))) ELSE ErrVal

\* an exponent of zero makes the product zero
Puiss10(v, w) ==
  IF IsTiny(w) THEN Whole(0) ELSE IF w = ErrVal \/ Exceeds(w, Huge) THEN ErrVal
  ELSE IF IsTiny(v) THEN Whole(0) ELSE IF IsBad(v) THEN ErrVal ELSE Times(v, Pow(Whole(10), w))

ArcTangente2(v, w) ==
  IF IsBad(w) \/ IsBad(v) \/ (v = Whole(0) /\ w = Whole(0)) THEN ErrVal ELSE Libm("atan2", Plus(v, w))

Binary(instr, v, w) ==
  CASE instr = "Add"     -> Addition(v, w)
    [] instr = "Sub"     -> Soustraction(v, w)
    [] instr = "Mult"    -> Multiplication(v, w)
    [] instr = "Div"     -> Division(v, w)
    [] instr = "Pow"     -> Puissance(v, w)
    [] instr = "NthRoot" -> RacineN(v, w)
    [] instr = "E10"     -> Puiss10(v, w)
    [] instr = "Atan2"   -> ArcTangente2(v, w)

Unary(instr, v) ==
  IF v = ErrVal THEN ErrVal
  ELSE CASE instr = "Opp"  -> Minus(v)
         [] instr = "Abs"  -> Magnitude(v)
         [] instr = "Sqrt" -> IF Exceeds(v, Huge) \/ Sign(v) < 0 THEN ErrVal ELSE Libm("Sqrt", v)
         [] instr = "Ln"   -> IF Sign(v) <= 0 THEN ErrVal ELSE Libm("Ln", v)
         [] instr = "Exp"  -> IF Sign(v) > 0 /\ Exceeds(v, Huge) THEN ErrVal ELSE Libm("Exp", v)
         [] instr \in {"Sin", "Cos", "Tg"} -> IF Exceeds(v, Huge) THEN ErrVal ELSE Libm(instr, v)
         [] instr \in {"Asin", "Acos"}     -> IF Exceeds(v, 1) THEN ErrVal ELSE Libm(instr, v)
         [] instr = "Atan" -> Libm("Atan", v)

----------------------------------------------------------------------------
(* Trees.                                                                   *)

ErrOp       == [op |-> "ErrOp"]
Var(x)      == [op |-> "Var", pvar |-> x]
Op1(op, b)    == [op |-> op, mmb2 |-> b]
Op2(op, a, b) == [op |-> op, mmb1 |-> a, mmb2 |-> b]

\* the numbers of a tree are not negative
Num(v) == IF v = ErrVal THEN ErrOp
          ELSE IF Sign(v) >= 0 THEN [op |-> "Num", ValC |-> v]
          ELSE Op1("Opp", [op |-> "Num", ValC |-> Minus(v)])

BinaryOps   == {"Juxt", "Add", "Sub", "Mult", "Div", "Pow", "NthRoot", "E10"}
FunctionOps == {"Sqrt", "Abs", "Sin", "Cos", "Tg", "Ln", "Exp", "Acos", "Asin", "Atan"}

IsNum(t, n) == t.op = "Num" /\ t.ValC = Whole(n)

RECURSIVE NMembers(_)
NMembers(t) == IF t.op # "Juxt" THEN 1 ELSE 1 + NMembers(t.mmb2)

RECURSIVE NthMember(_, _)
NthMember(t, n) ==
  IF n = 1 THEN IF t.op = "Juxt" THEN t.mmb1 ELSE t
  ELSE IF t.op = "Juxt" THEN NthMember(t.mmb2, n - 1) ELSE ErrOp

RECURSIVE ContainVar(_, _)
ContainVar(t, x) ==
  \/ t.op = "Var" /\ t.pvar = x
  \/ "mmb1" \in DOMAIN t /\ ContainVar(t.mmb1, x)
  \/ "mmb2" \in DOMAIN t /\ ContainVar(t.mmb2, x)

RECURSIVE HasError(_)
HasError(t) ==
  \/ t.op = "ErrOp"
  \/ "mmb1" \in DOMAIN t /\ HasError(t.mmb1)
  \/ "mmb2" \in DOMAIN t /\ HasError(t.mmb2)

RECURSIVE Substitute(_, _, _)
Substitute(t, x, by) ==
  IF t.op = "Var" THEN IF t.pvar = x THEN by ELSE t
  ELSE [f \in DOMAIN t |-> IF f \in {"mmb1", "mmb2"} THEN Substitute(t[f], x, by) ELSE t[f]]

\* the code for the machine: instructions, operands, and the room on the stack
RECURSIVE BuildCode(_)
BuildCode(t) ==
  LET push(operand) == [pinstr |-> <<"NextVal">>, pvals |-> <<operand>>, ppile |-> 1]
      BCDouble(a, b) == [pinstr |-> a.pinstr \o b.pinstr \o <<t.op>>, pvals |-> a.pvals \o b.pvals,
                         ppile |-> a.ppile + b.ppile]
      BCSimple(b, f) == [b EXCEPT !.pinstr = Append(@, f)]
  IN  CASE t.op = "ErrOp" -> push(Op1("ErrOp", ErrVal))
        [] t.op = "Num"   -> push(Op1("Num", t.ValC))
        [] t.op = "Var"   -> push(t)
        [] t.op \in BinaryOps -> BCDouble(BuildCode(t.mmb1), BuildCode(t.mmb2))
        [] t.op = "Atan" /\ NMembers(t.mmb2) > 1 -> BCSimple(BuildCode(t.mmb2), "Atan2")
        [] OTHER -> BCSimple(BuildCode(t.mmb2), t.op)

\* one instruction: the stack, and the operand that comes next
Step(code, env, m, instr) ==
  LET p == m.stack   n == Len(p)
  IN  CASE instr = "NextVal" ->
             LET o == code.pvals[m.next]
             IN  [stack |-> Append(p, IF o.op = "Var" THEN env[o.pvar] ELSE o.mmb2), next |-> m.next + 1]
        [] instr = "Juxt" -> m
        [] instr \in BinaryOps \cup {"Atan2"} ->
             [m EXCEPT !.stack = Append(SubSeq(p, 1, n - 2), Binary(instr, p[n - 1], p[n]))]
        [] OTHER -> [m EXCEPT !.stack[n] = Unary(instr, @)]

Val(code, env) ==
  Last(FoldLeft(LAMBDA m, instr : Step(code, env, m, instr), [stack |-> <<>>, next |-> 1], code.pinstr).stack)

----------------------------------------------------------------------------
(* The operators, which simplify as they build, and the derivative.         *)

RECURSIVE OpPlus(_, _), OpMinus(_, _), OpTimes(_, _), OpOver(_, _)

OpNeg(a) == IF a.op = "Num" THEN Num(Minus(a.ValC)) ELSE IF a.op = "Opp" THEN a.mmb2 ELSE Op1("Opp", a)

OpPlus(a, b) ==
  IF a.op = "Num" /\ b.op = "Num" THEN Num(Plus(a.ValC, b.ValC))
  ELSE IF IsNum(a, 0) THEN b
  ELSE IF IsNum(b, 0) THEN a
  ELSE IF a.op = "Opp" THEN OpMinus(b, a.mmb2)
  ELSE IF b.op = "Opp" THEN OpMinus(a, b.mmb2)
  ELSE Op2("Add", a, b)

OpMinus(a, b) ==
  IF a.op = "Num" /\ b.op = "Num" THEN Num(Plus(a.ValC, Minus(b.ValC)))
  ELSE IF IsNum(a, 0) THEN OpNeg(b)
  ELSE IF IsNum(b, 0) THEN a
  ELSE IF a.op = "Opp" THEN OpNeg(OpPlus(b, a.mmb2))
  ELSE IF b.op = "Opp" THEN OpPlus(a, b.mmb2)
  ELSE Op2("Sub", a, b)

OpTimes(a, b) ==
  IF a.op = "Num" /\ b.op = "Num" THEN Num(Times(a.ValC, b.ValC))
  ELSE IF IsNum(a, 0) \/ IsNum(b, 0) THEN Num(Whole(0))
  ELSE IF IsNum(a, 1) THEN b
  ELSE IF IsNum(b, 1) THEN a
  ELSE IF a.op = "Opp" THEN OpNeg(OpTimes(a.mmb2, b))
  ELSE IF b.op = "Opp" THEN OpNeg(OpTimes(a, b.mmb2))
  ELSE Op2("Mult", a, b)

OpOver(a, b) ==
  IF a.op = "Num" /\ b.op = "Num" THEN IF IsNum(b, 0) THEN ErrOp ELSE Num(Over(a.ValC, b.ValC))
  ELSE IF IsNum(a, 0) THEN Num(Whole(0))
  ELSE IF IsNum(b, 1) THEN a
  ELSE IF IsNum(b, 0) THEN ErrOp
  ELSE IF a.op = "Opp" THEN OpNeg(OpOver(a.mmb2, b))
  ELSE IF b.op = "Opp" THEN OpNeg(OpOver(a, b.mmb2))
  ELSE Op2("Div", a, b)

\* a fault: the operands are swapped
OpPow_faulty(a, b) == Op2("Pow", b, a)

OpPow(a, b) ==
  IF IsNum(a, 0) THEN Num(Whole(0))
  ELSE IF IsNum(b, 0) THEN Num(Whole(1))
  ELSE IF IsNum(b, 1) THEN a
  ELSE Op2("Pow", a, b)

One == Num(Whole(1))
Two == Num(Whole(2))

RECURSIVE Diff(_, _)
Diff(t, x) ==
  LET a == t.mmb1   da == Diff(a, x)
      b == t.mmb2   db == Diff(b, x)
      m(n) == NthMember(b, n)
  IN  CASE ~ContainVar(t, x) -> Num(Whole(0))
        [] t.op = "Var"  -> One
        [] t.op = "Juxt" -> Op2("Juxt", da, db)
        [] t.op = "Add"  -> OpPlus(da, db)
        [] t.op = "Sub"  -> OpMinus(da, db)
        [] t.op = "Opp"  -> OpNeg(db)
        [] t.op = "Mult" -> OpPlus(OpTimes(a, db), OpTimes(b, da))
        [] t.op = "Div"  -> IF ContainVar(b, x)
                            THEN OpOver(OpMinus(OpTimes(b, da), OpTimes(a, db)), OpPow(b, Two))
                            ELSE OpOver(da, b)
        [] t.op = "Pow"  -> IF ContainVar(b, x)
                            THEN OpTimes(t, OpPlus(OpTimes(Op1("Ln", a), db), OpOver(OpTimes(b, da), a)))
                            ELSE OpTimes(OpTimes(b, da), OpPow(a, OpMinus(b, One)))
        [] t.op = "Sqrt"    -> OpOver(db, OpTimes(Two, Op1("Sqrt", b)))
        [] t.op = "NthRoot" -> Diff(OpPow(b, OpOver(One, a)), x)
        [] t.op = "E10"     -> Diff(OpTimes(a, OpPow(Num(Whole(10)), b)), x)
        [] t.op = "Ln"   -> OpOver(db, b)
        [] t.op = "Exp"  -> OpTimes(db, t)
        [] t.op = "Sin"  -> OpTimes(db, Op1("Cos", b))
        [] t.op = "Cos"  -> OpTimes(OpNeg(db), Op1("Sin", b))
        [] t.op = "Tg"   -> OpTimes(db, OpPlus(One, OpPow(t, Two)))
        [] t.op = "Atan" -> IF b.op # "Juxt" THEN OpOver(db, OpPlus(One, OpPow(b, Two)))
                            ELSE OpOver(OpMinus(OpTimes(Diff(m(1), x), m(2)), OpTimes(Diff(m(2), x), m(1))),
                                        OpPlus(OpPow(m(1), Two), OpPow(m(2), Two)))
        [] t.op = "Asin" -> OpOver(db, Op1("Sqrt", OpMinus(One, OpPow(b, Two))))
        [] t.op = "Acos" -> OpOver(OpNeg(db), Op1("Sqrt", OpMinus(One, OpPow(b, Two))))
        [] t.op = "Abs"  -> OpOver(OpTimes(db, b), t)
=============================================================================
