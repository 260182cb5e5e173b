-------------------------- MODULE ExpressionParser --------------------------
(***************************************************************************)
(* How functions/expression/mathexpr.cc reads and writes expressions.  A   *)
(* string is a sequence of tokens: a function name, a variable name, "pi"  *)
(* and every other character is one.  Names and characters never overlap,  *)
(* as the names of variables end in a bracket.                             *)
(***************************************************************************)
EXTENDS Expressions

CONSTANTS
  Variables,  \* the names of the variables
  PiValue     \* the number that stands for pi

DigitValue == "0" :> 0 @@ "1" :> 1 @@ "2" :> 2 @@ "3" :> 3 @@ "4" :> 4
              @@ "5" :> 5 @@ "6" :> 6 @@ "7" :> 7 @@ "8" :> 8 @@ "9" :> 9

FunctionNamed ==
  "exp" :> "Exp" @@ "abs" :> "Abs" @@ "sin" :> "Sin" @@ "cos" :> "Cos" @@ "tan" :> "Tg" @@ "log" :> "Ln"
  @@ "atg" :> "Atan" @@ "tg" :> "Tg" @@ "ln" :> "Ln" @@ "asin" :> "Asin" @@ "acos" :> "Acos"
  @@ "atan" :> "Atan" @@ "sqrt" :> "Sqrt" @@ "arcsin" :> "Asin" @@ "arccos" :> "Acos"
  @@ "arctan" :> "Atan" @@ "arctg" :> "Atan"

IsNumeric(c)  == c \in DOMAIN DigitValue
IsVar(c)      == c \in Variables
IsFunction(c) == c \in DOMAIN FunctionNamed
IsPi(c)       == c \in {"pi", "PI", "Pi"}

Token(s, i) == IF i \in DOMAIN s THEN s[i] ELSE "end"
FirstAt(s, from, P(_)) == SelectInSubSeq(s, from, Len(s), P)

----------------------------------------------------------------------------
(* Strings.  Positions count from 1; 0 is for not found.                    *)

Brackets(s, i, j) ==
  Cardinality({k \in i..j : s[k] = "("}) - Cardinality({k \in i..j : s[k] = ")"})

\* the bracket that closes the one at n, and the one that opens it
SearchCorOpenbracket(s, n)  == LET C == {i \in n + 1..Len(s) : Brackets(s, n, i) = 0} IN IF C = {} THEN 0 ELSE Min(C)
SearchCorClosebracket(s, n) == LET O == {i \in 1..n - 1 : Brackets(s, i, n) = 0} IN IF O = {} THEN 0 ELSE Max(O)

Character == "Juxt" :> "," @@ "Add" :> "+" @@ "Sub" :> "-" @@ "Mult" :> "*" @@ "Div" :> "/"
             @@ "Pow" :> "^" @@ "NthRoot" :> "#" @@ "E10" :> "E"

\* the last place of an operator outside of brackets; a minus has to follow one
RECURSIVE SearchFrom(_, _, _)
SearchFrom(s, op, i) ==
  IF i < 1 THEN 0
  ELSE IF s[i] = Character[op] /\ (op = "Sub" => Token(s, i - 1) = ")") THEN i
  ELSE IF s[i] = ")" THEN SearchFrom(s, op, SearchCorClosebracket(s, i) - 1)
  ELSE SearchFrom(s, op, i - 1)

\* a fault: the first one
SearchOperator_faulty(s, op) ==
  LET C == {i \in DOMAIN s : /\ s[i] = Character[op] /\ Brackets(s, 1, i) = 0
                             /\ op = "Sub" => Token(s, i - 1) = ")"}
  IN  IF C = {} THEN 0 ELSE Min(C)

SearchOperator(s, op) == SearchFrom(s, op, Len(s))

RECURSIVE Trim(_)
Trim(s) == IF Token(s, 1) = " " THEN Trim(Tail(s)) ELSE IF Token(s, Len(s)) = " " THEN Trim(Front(s)) ELSE s

RECURSIVE SimplifyStr(_)
SimplifyStr(s) ==
  LET inner == IF Token(s, 1) = "(" /\ SearchCorOpenbracket(s, 1) = Len(s) THEN SubSeq(s, 2, Len(s) - 1) ELSE s
      t     == Trim(inner)
  IN  IF t = s THEN s ELSE SimplifyStr(t)

SupprSpaces(s) == SelectSeq(s, LAMBDA c : c \notin {" ", "\t", "\n"})

----------------------------------------------------------------------------
(* The passes of the parser over a string: each skips what is in brackets,  *)
(* and leaves the rest as it is when these do not match.                    *)

\* a function is followed by ; if its argument is in brackets, else by :
RECURSIVE MarkFunctions(_, _)
MarkFunctions(s, k) ==
  IF k > Len(s) THEN s
  ELSE IF s[k] = "(" THEN LET j == SearchCorOpenbracket(s, k) IN IF j = 0 THEN s ELSE MarkFunctions(s, j + 1)
  ELSE IF ~IsFunction(s[k]) THEN MarkFunctions(s, k + 1)
  ELSE LET spaces == {i \in k + 1..Len(s) : \A h \in k + 1..i : s[h] = " "}
           i == k + 1 + Cardinality(spaces)
           j == SearchCorOpenbracket(s, i)
       IN  IF Token(s, i) \in {":", ";"} THEN MarkFunctions(s, k + 1)
           ELSE IF Token(s, i) # "(" THEN MarkFunctions(InsertAt(s, i, ":"), i + 1)
           ELSE IF j = 0 THEN s ELSE MarkFunctions(InsertAt(s, i, ";"), j + 2)

\* brackets around every number; start: where one has begun, or 0
RECURSIVE IsolateFrom(_, _, _)
IsolateFrom(s, i, start) ==
  IF i > Len(s) THEN IF start = 0 THEN s ELSE Append(InsertAt(s, start, "("), ")")
  ELSE IF start # 0 /\ ~IsNumeric(s[i]) THEN IsolateFrom(InsertAt(InsertAt(s, start, "("), i + 1, ")"), i + 2, 0)
  ELSE IF s[i] = "(" THEN LET j == SearchCorOpenbracket(s, i) IN IF j = 0 THEN s ELSE IsolateFrom(s, j + 1, 0)
  ELSE IsolateFrom(s, i + 1, IF start = 0 /\ IsNumeric(s[i]) THEN i ELSE start)

IsolateNumbers(s) == IsolateFrom(s, 1, 0)

\* brackets around every variable and every pi
RECURSIVE IsolateVars(_, _)
IsolateVars(s, i) ==
  IF i > Len(s) THEN s
  ELSE IF s[i] = "(" THEN LET j == SearchCorOpenbracket(s, i) IN IF j = 0 THEN s ELSE IsolateVars(s, j + 1)
  ELSE IF IsVar(s[i]) \/ IsPi(s[i]) THEN IsolateVars(InsertAt(InsertAt(s, i, "("), i + 2, ")"), i + 3)
  ELSE IsolateVars(s, i + 1)

\* where the argument of a function without brackets ends: at the last bracket
\* before the next function; 0 if brackets do not match
RECURSIVE ArgumentEnd(_, _)
ArgumentEnd(s, j) ==
  IF j > Len(s) \/ IsFunction(Token(s, j)) THEN SelectLastInSubSeq(s, 1, j - 1, LAMBDA c : c = ")")
  ELSE IF s[j] # "(" THEN ArgumentEnd(s, j + 1)
  ELSE LET c == SearchCorOpenbracket(s, j) IN IF c = 0 THEN 0 ELSE ArgumentEnd(s, c + 1)

\* brackets around every function with its argument
RECURSIVE FoldFunctions(_, _)
FoldFunctions(s, i) ==
  IF i > Len(s) THEN s
  ELSE IF s[i] = "(" THEN LET j == SearchCorOpenbracket(s, i) IN IF j = 0 THEN s ELSE FoldFunctions(s, j + 1)
  ELSE LET open == FirstAt(s, i, LAMBDA c : c = "(")
           j    == SearchCorOpenbracket(s, open)
           end  == IF open = 0 THEN ArgumentEnd(s, Len(s) + 1) ELSE IF j = 0 THEN 0 ELSE ArgumentEnd(s, j + 1)
           mark == IF IsFunction(s[i]) THEN Token(s, i + 1) ELSE "none"
       IN  CASE mark = ";" /\ j # 0    -> FoldFunctions(InsertAt(InsertAt(s, j, ")"), i, "("), j + 3)
             [] mark = ":" /\ end <= i -> s
             [] mark = ":" /\ end > i  -> FoldFunctions(InsertAt(InsertAt(s, end + 1, ")"), i, "("), end + 3)
             [] OTHER -> FoldFunctions(s, i + 1)

\* what stands side by side is multiplied
JuxtaposedAsProducts(s) ==
  FlattenSeq([i \in DOMAIN s |-> IF s[i] = ")" /\ Token(s, i + 1) = "(" THEN <<")", "*">> ELSE <<s[i]>>])

----------------------------------------------------------------------------
(* ROperation::ROperation(const char*, ...)                                 *)

RECURSIVE AtofFrom(_, _)
AtofFrom(s, n) == IF s = <<>> THEN n ELSE AtofFrom(Tail(s), 10 * n + DigitValue[Head(s)])

RECURSIVE SkipMarks(_)
SkipMarks(s) == IF Token(s, 1) \in {":", ";"} THEN SkipMarks(SimplifyStr(Tail(s))) ELSE s

\* reading through a null pointer
NullRead == [op |-> "NullRead"]

RECURSIVE Parse(_)

\* those of the operators that the string can be split at
Occurring(s, ops) == SelectSeq(ops, LAMBDA op : SearchOperator(s, op) # 0)

SplitAt(s, op, i) == Op2(op, Parse(SubSeq(s, 1, i - 1)), Parse(SubSeq(s, i + 1, Len(s))))

\* what is in brackets as a whole is a function with its argument
ParseInBrackets(t) ==
  IF IsFunction(t[2]) THEN Op1(FunctionNamed[t[2]], Parse(SubSeq(t, 3, Len(t) - 1))) ELSE NullRead

\* a root without an index is a square root
ParseFactors(t, op, i) ==
  IF op = "NthRoot" /\ Token(t, i - 1) # ")" THEN Op1("Sqrt", Parse(SubSeq(t, i + 1, Len(t)))) ELSE SplitAt(t, op, i)

ParseProduct(t) ==
  LET ops == Occurring(t, <<"Mult", "Div", "Pow", "NthRoot", "E10">>)
  IN  IF Token(t, 1) = "(" /\ SearchCorOpenbracket(t, 1) = Len(t) THEN ParseInBrackets(t)
      ELSE IF ops = <<>> THEN ErrOp
      ELSE ParseFactors(t, Head(ops), SearchOperator(t, Head(ops)))

ParseSum(s) ==
  LET ops == Occurring(s, <<"Juxt", "Add", "Sub">>)
  IN  IF ops # <<>> THEN SplitAt(s, Head(ops), SearchOperator(s, Head(ops)))
      ELSE IF Token(s, 1) = "-" THEN Op1("Opp", Parse(Tail(s)))
      ELSE ParseProduct(JuxtaposedAsProducts(FoldFunctions(s, 1)))

ParseStripped(s) ==
  CASE s = <<>> \/ s = <<"Error">> -> ErrOp
    [] s # <<>> /\ \A i \in DOMAIN s : IsNumeric(s[i]) -> Num(Whole(AtofFrom(s, 0)))
    [] Len(s) = 1 /\ IsPi(s[1])  -> Num(PiValue)
    [] Len(s) = 1 /\ IsVar(s[1]) -> Var(s[1])
    [] OTHER -> ParseSum(SupprSpaces(IsolateVars(IsolateNumbers(MarkFunctions(s, 1)), 1)))

Parse(sp) == ParseStripped(SkipMarks(SimplifyStr(sp)))

----------------------------------------------------------------------------
(* ROperation::Expr(): the brackets it writes.                              *)

\* a function to IsFunction(ROperator): its operand comes without brackets
ActsAsFunction(t) == t.op \in FunctionOps \cup {"Opp"}
IsAtom(t) == t.op \in {"Num", "Var"}

BracketLeft(op, a) ==
  CASE op \in {"Add", "Sub"}  -> ActsAsFunction(a) \/ a.op = "Juxt"
    [] op \in {"Mult", "Div"} -> ActsAsFunction(a) \/ a.op \in {"Juxt", "Add", "Sub", "Opp", "Div"}
    [] op \in {"Pow", "NthRoot", "E10"} -> ~IsAtom(a)
    [] OTHER -> FALSE

BracketRight(op, b) ==
  CASE op = "Add"  -> ActsAsFunction(b) \/ b.op = "Juxt"
    [] op = "Sub"  -> ActsAsFunction(b) \/ b.op \in {"Juxt", "Add", "Sub"}
    [] op = "Opp"  -> b.op \in {"Add", "Sub", "Juxt"}
    [] op = "Mult" -> ActsAsFunction(b) \/ b.op \in {"Juxt", "Add", "Sub", "Opp"}
    [] op = "Div"  -> ActsAsFunction(b) \/ b.op \in {"Juxt", "Add", "Sub", "Opp", "Mult", "Div"}
    [] op \in {"Pow", "NthRoot", "E10"} -> ~IsAtom(b)
    [] op \in FunctionOps -> ~IsAtom(b) /\ ~ActsAsFunction(b)
    [] OTHER -> FALSE

NameOf == [op \in FunctionOps |->
            CASE op = "Tg" -> "tan" [] op = "Ln" -> "log" [] op = "Sqrt" -> "sqrt" [] op = "Abs" -> "abs"
              [] op = "Sin" -> "sin" [] op = "Cos" -> "cos" [] op = "Exp" -> "exp" [] op = "Acos" -> "acos"
              [] op = "Asin" -> "asin" [] op = "Atan" -> "atan"]

DigitOf(n) == CHOOSE c \in DOMAIN DigitValue : DigitValue[c] = n

RECURSIVE ValToStr(_)
ValToStr(n) == IF n < 10 THEN <<DigitOf(n)>> ELSE Append(ValToStr(n \div 10), DigitOf(n % 10))

RECURSIVE Expr(_)
Expr(t) ==
  LET in(yes, s) == IF yes THEN <<"(">> \o s \o <<")">> ELSE s
      r == in(BracketRight(t.op, t.mmb2), Expr(t.mmb2))
  IN  CASE t.op = "Num" -> IF t.ValC = PiValue THEN <<"pi">> ELSE ValToStr(t.ValC[1])
        [] t.op = "Var" -> <<t.pvar>>
        [] t.op \in BinaryOps   -> in(BracketLeft(t.op, t.mmb1), Expr(t.mmb1)) \o <<Character[t.op]>> \o r
        [] t.op = "Opp"         -> <<"-">> \o r
        [] t.op \in FunctionOps -> <<NameOf[t.op]>> \o (IF BracketRight(t.op, t.mmb2) THEN <<>> ELSE <<" ">>) \o r
        [] OTHER -> <<"Error">>
=============================================================================
