----------------------------- MODULE Conversions -----------------------------
(***************************************************************************)
(* Reading vectors and matrices from strings and writing them              *)
(* (common/string_internal.hh, tokenize() of common/string.hh).  A string  *)
(* is a sequence of tokens: "[", "]", ";", " " and words.  A type is a     *)
(* record: S is the type of the entries, static says whether its size is   *)
(* part of it, and size (rows, cols) are what it is then.  Complex numbers *)
(* and the precision of to_string() are left out.  The numbers of formulas *)
(* and functions are reduced fractions <<n, d>> with d > 0.                *)
(*                                                                         *)
(* Dune::Stuff::Common::FloatCmp (common/float_cmp.hh and                  *)
(* common/float_cmp_internal.hh).  A value is the sequence of its          *)
(* components: one of a real number, two of a complex one, those of a      *)
(* vector.  All comparisons go componentwise.  Numbers are integers or     *)
(* NaN, tolerances are multiples of 1/Unit.                                *)
(***************************************************************************)
EXTENDS Integers, SequencesExt

CONSTANTS
  NumberIn(_),        \* the number that a word begins with, as std::stod reads it, or invalid_argument
  WordFor(_),         \* how a number is written
  conversion_error,
  invalid_argument,   \* what std::stod throws, which is no conversion_error
  NaN,                \* the number that is not a number
  Unit                \* tolerances are given in parts of 1/Unit

ASSUME FloatCmpAssumption == Unit \in Nat \ {0}

----------------------------------------------------------------------------
(* Numbers: exact arithmetic in place of floating point                      *)

RECURSIVE Gcd(_, _)
Gcd(a, b) == IF b = 0 THEN a ELSE Gcd(b, a % b)

Abs(n)     == IF n < 0 THEN -n ELSE n
Frac(n, d) == LET g == Gcd(Abs(n), Abs(d)) IN IF d < 0 THEN <<-n \div g, -d \div g>> ELSE <<n \div g, d \div g>>
Whole(n)     == <<n, 1>>
IsInt(v)   == v[2] = 1
Sign(v)    == IF v[1] > 0 THEN 1 ELSE IF v[1] < 0 THEN -1 ELSE 0

Minus(v)     == <<-v[1], v[2]>>
Magnitude(v) == <<Abs(v[1]), v[2]>>
Plus(v, w)   == Frac(v[1] * w[2] + w[1] * v[2], v[2] * w[2])
Times(v, w)  == Frac(v[1] * w[1], v[2] * w[2])
Over(v, w)   == Frac(v[1] * w[2], v[2] * w[1])
Exceeds(v, n) == (Abs(v[1]) - 1) \div v[2] >= n   \* |v| > n

----------------------------------------------------------------------------
(* Strings                                                                    *)

Errors == {conversion_error, invalid_argument}

Lesser(a, b) == IF a < b THEN a ELSE b

\* boost::algorithm::split with token_compress_on: adjacent separators count as
\* one, those at the ends leave empty tokens
RECURSIVE Tokenize(_, _)
Tokenize(s, separator) ==
  LET n    == SelectInSeq(s, LAMBDA c : c = separator)
      rest == SelectInSubSeq(s, n, Len(s), LAMBDA c : c # separator)
  IN  IF n = 0 THEN <<s>>
      ELSE <<SubSeq(s, 1, n - 1)>> \o (IF rest = 0 THEN << <<>> >> ELSE Tokenize(SubSeq(s, rest, Len(s)), separator))

TrimCopy(s) ==
  LET words == {i \in DOMAIN s : s[i] # " "} IN IF words = {} THEN <<>> ELSE SubSeq(s, Min(words), Max(words))

\* a string stays one; a number is what its first word begins with
EntryFromString(S, s) ==
  LET t == TrimCopy(s)
  IN  CASE Contains(t, ";")           -> conversion_error
        [] S = "string"               -> t
        [] S = "double" /\ t = <<>>   -> invalid_argument
        [] S = "double" /\ t # <<>>   -> NumberIn(t[1])

\* the results, or the first error among them
AllOrFirstError(results) ==
  LET bad == SelectInSeq(results, LAMBDA x : x \in Errors) IN IF bad = 0 THEN results ELSE results[bad]

IsBracketed(s) == Len(s) >= 2 /\ s[1] = "[" /\ Last(s) = "]"
Inside(s)      == SubSeq(s, 2, Len(s) - 1)

----------------------------------------------------------------------------

\* how many are asked for: 0 is for all there are
Automatic(asked, there) == IF asked > 0 THEN Lesser(there, asked) ELSE there

VectorOfTokens(V, tokens, size) ==
  LET automatic == Automatic(size, Len(tokens))
      n         == IF V.static THEN V.size ELSE automatic
  IN  IF Len(tokens) < size \/ n > automatic THEN conversion_error
      ELSE AllOrFirstError([i \in 1..n |-> EntryFromString(V.S, tokens[i])])

\* what is not in brackets is one entry, which is repeated
AtLeastOne(k) == IF k = 0 THEN 1 ELSE k

VectorOfOne(V, val, size) ==
  LET n == IF V.static THEN V.size ELSE AtLeastOne(size)
  IN  IF val \in Errors THEN val
      ELSE IF n > AtLeastOne(size) /\ AtLeastOne(size) # 1 THEN conversion_error
      ELSE [i \in 1..n |-> val]

VectorFromString(V, s, size) ==
  IF IsBracketed(s) THEN VectorOfTokens(V, Tokenize(Inside(s), " "), size)
  ELSE VectorOfOne(V, EntryFromString(V.S, s), size)

RowTokens(s)          == Tokenize(Inside(s), ";")
ColumnTokens_faulty(rowToken) == Tokenize(rowToken, " ")   \* a fault: not trimmed
ColumnTokens(rowToken) == Tokenize(TrimCopy(rowToken), " ")

Reshaped(entries, n, c) ==
  IF entries \in Errors THEN entries ELSE [r \in 1..n |-> [k \in 1..c |-> entries[(r - 1) * c + k]]]

\* a matrix whose rows have been split, each at least as long as min_cols
MatrixOfTokens(M, tokens, n, min_cols, cols) ==
  LET autoCols == Automatic(cols, min_cols)
      c        == IF M.static THEN M.cols ELSE autoCols
      entries  == FlattenSeq([r \in 1..n |-> [k \in 1..c |-> EntryFromString(M.S, tokens[r][k])]])
  IN  IF min_cols < cols \/ c > autoCols THEN conversion_error ELSE Reshaped(AllOrFirstError(entries), n, c)

MatrixOfRows(M, row_tokens, rows, cols) ==
  LET autoRows  == Automatic(rows, Len(row_tokens))
      n         == IF M.static THEN M.rows ELSE autoRows
      tokens(r) == ColumnTokens(row_tokens[r])
  IN  IF Len(row_tokens) < rows \/ n > autoRows THEN conversion_error
      ELSE MatrixOfTokens(M, [r \in 1..n |-> tokens(r)], n, Min({Len(tokens(r)) : r \in 1..n}), cols)

MatrixOfOne(M, val, rows, cols) ==
  LET n == IF M.static THEN M.rows ELSE AtLeastOne(rows)
      c == IF M.static THEN M.cols ELSE AtLeastOne(cols)
  IN  IF val \in Errors THEN val
      ELSE IF n > AtLeastOne(rows) \/ c > AtLeastOne(cols) THEN conversion_error
      ELSE [r \in 1..n |-> [k \in 1..c |-> val]]

MatrixFromString(M, s, rows, cols) ==
  IF IsBracketed(s) THEN MatrixOfRows(M, RowTokens(s), rows, cols)
  ELSE MatrixOfOne(M, EntryFromString(M.S, s), rows, cols)

----------------------------------------------------------------------------

Joined(strings, between) ==
  FlattenSeq([i \in DOMAIN strings |-> IF i = 1 THEN strings[i] ELSE between \o strings[i]])

EntryToString(S, x) == IF S = "string" THEN x ELSE <<WordFor(x)>>

VectorToString(S, vec) ==
  <<"[">> \o Joined([i \in DOMAIN vec |-> EntryToString(S, vec[i])], <<" ">>) \o <<"]">>

MatrixToString(S, mat) ==
  LET row(r) == Joined([k \in DOMAIN mat[r] |-> EntryToString(S, mat[r][k])], <<" ">>)
  IN  <<"[">> \o Joined([r \in DOMAIN mat |-> row(r)], <<";", " ">>) \o <<"]">>

----------------------------------------------------------------------------
(* Comparisons                                                                *)

Distance(x, y)  == IF x < y THEN y - x ELSE x - y
NoNaN(x, y)     == NaN \notin {x, y}
SameLength(u, v) == DOMAIN u = DOMAIN v

\* as in numpy: the tolerance is relative to the second argument only
NumpyEq(u, v, rtol, atol) ==
  /\ SameLength(u, v)
  /\ \A i \in DOMAIN u : /\ NoNaN(u[i], v[i])
                         /\ Unit * Distance(u[i], v[i]) <= atol + Distance(v[i], 0) * rtol

\* Dune::FloatCmp::eq of numbers
DuneEq(style, x, y, eps) ==
  /\ NoNaN(x, y)
  /\ Unit * Distance(x, y) <= CASE style = "absolute"       -> eps
                            [] style = "relativeWeak"   -> eps * Max({Distance(x, 0), Distance(y, 0)})
                            [] style = "relativeStrong" -> eps * Min({Distance(x, 0), Distance(y, 0)})

DuneFloatCmpEq(style, u, v, eps) ==
  SameLength(u, v) /\ \A i \in DOMAIN u : DuneEq(style, u[i], v[i], eps)

CmpGt(u, v) == SameLength(u, v) /\ \A i \in DOMAIN u : NoNaN(u[i], v[i]) /\ u[i] > v[i]
CmpLt(u, v) == SameLength(u, v) /\ \A i \in DOMAIN u : NoNaN(u[i], v[i]) /\ u[i] < v[i]

\* the styles of Dune take one tolerance and ignore atol
Eq(style, u, v, rtol, atol) ==
  IF style = "numpy" THEN NumpyEq(u, v, rtol, atol) ELSE DuneFloatCmpEq(style, u, v, rtol)

Ne(style, u, v, rtol, atol) == ~Eq(style, u, v, rtol, atol)
Gt(style, u, v, rtol, atol) == ~Eq(style, u, v, rtol, atol) /\ CmpGt(u, v)
Lt(style, u, v, rtol, atol) == ~Eq(style, u, v, rtol, atol) /\ CmpLt(u, v)
Ge(style, u, v, rtol, atol) == Eq(style, u, v, rtol, atol) \/ CmpGt(u, v)
Le(style, u, v, rtol, atol) == Eq(style, u, v, rtol, atol) \/ CmpLt(u, v)
=============================================================================
