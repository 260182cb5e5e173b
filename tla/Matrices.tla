------------------------------ MODULE Matrices ------------------------------
(***************************************************************************)
(* What the matrices of Dune::Stuff::LA have in common                     *)
(* (la/container/matrix-interface.hh): a matrix is a record of its shape,  *)
(* the set of stored entries (all of them in a dense matrix), the value of *)
(* each, and the exception its last operation ended with.  The sharing of  *)
(* backends between matrices is the subject of CowContainer.               *)
(*                                                                         *)
(* Scalars are the integers modulo Modulus and NaN, which swallows every   *)
(* sum and product; scalars up to Eps count as zero when pruning.          *)
(***************************************************************************)
EXTENDS Integers, SequencesExt

CONSTANTS
  Modulus,  \* the numbers are 0 .. Modulus - 1
  NaN,      \* the scalar that is not a number (nor infinite)
  Eps       \* FloatCmp::DefaultEpsilon: the largest number pruned away

ASSUME MatrixScalarsAssumption ==
  Modulus \in Nat \ {0, 1} /\ NaN \in Int \ Nat /\ Eps \in Nat

----------------------------------------------------------------------------
(* SparsityPatternDefault (la/container/pattern.cc): for every row of a     *)
(* matrix the columns of its stored entries, in the order they were         *)
(* inserted until a sort.  Rows and columns count from 0, as in the code.   *)
(* Indices are asserted to be in range, so the operators are only defined   *)
(* for these.                                                               *)

EmptyPattern(n) == [i \in 0 .. (n - 1) |-> <<>>]
PatternSize(p)  == Cardinality(DOMAIN p)

Insert(p, i, j) ==
  [p EXCEPT ![i] = IF Contains(@, j) THEN @ ELSE Append(@, j)]

SortRow(p, i) == [p EXCEPT ![i] = SortSeq(@, <)]
SortAll(p)    == [i \in DOMAIN p |-> SortSeq(p[i], <)]

\* operator==: two patterns are equal only if they were filled in the same
\* order, or sorted
Equal(p, q) == p = q

\* the members of T, in ascending order
Ascending(T) ==
  CHOOSE s \in [1 .. Cardinality(T) -> T] : \A a, b \in DOMAIN s : a < b => s[a] < s[b]

\* the entries of a pattern, and the sorted pattern that pattern() fills from
\* a set of entries of a matrix with n rows
Entries(p)       == UNION {{i} \X ToSet(p[i]) : i \in DOMAIN p}
PatternOf(n, ij) == [i \in 0 .. (n - 1) |->
                      Ascending({c[2] : c \in {d \in ij : d[1] = i}})]

----------------------------------------------------------------------------
(* Scalars and matrices.                                                    *)

Entry == (0 .. (Modulus - 1)) \cup {NaN}

Plus(x, y)  == IF NaN \in {x, y} THEN NaN ELSE (x + y) % Modulus
Times(x, y) == IF NaN \in {x, y} THEN NaN ELSE (x * y) % Modulus
SumOver(S, f(_)) == MapThenFoldSet(Plus, 0, f, LAMBDA T : CHOOSE c \in T : TRUE, S)

\* FloatCmp::ne<absolute>(x, 0, Eps): a NaN compares unequal to everything
IsSignificant(x) == x = NaN \/ x > Eps

Cells(r, c) == (0 .. (r - 1)) \X (0 .. (c - 1))

Matrix(r, c, stored, f(_)) ==
  [rows |-> r, cols |-> c, at |-> [ij \in stored |-> f(ij)], error |-> "none"]

Dense(r, c, x) == Matrix(r, c, Cells(r, c), LAMBDA ij : x)
Stored(m)      == DOMAIN m.at
AllCells(m)    == Cells(m.rows, m.cols)
Read(m, ij)    == IF ij \in Stored(m) THEN m.at[ij] ELSE 0

\* the outcome of a call: the matrix with new values, or as it was and an exception
Updated(m, f(_)) == [m EXCEPT !.at = [ij \in Stored(m) |-> f(ij)], !.error = "none"]
Throw(m, e)      == [m EXCEPT !.error = e]

HasEqualShape(m, n) == m.rows = n.rows /\ m.cols = n.cols

\* the product with a vector, from the stored entries, as every backend's mv does
Product(m, x) ==
  [i \in 0 .. (m.rows - 1) |->
     SumOver({ij \in Stored(m) : ij[1] = i}, LAMBDA ij : Times(m.at[ij], x[ij[2]]))]

\* MatrixInterface::operator*: the result is made with cols() entries and then
\* given to mv, which fills rows() of them.  There is no such product of a
\* matrix with more rows than columns.
ProductVector(m, x) ==
  LET y == Product(m, x)
  IN  [i \in 0 .. (m.cols - 1) |-> IF i < m.rows THEN y[i] ELSE 0]

\* std::max keeps its first argument when compared with NaN: a NaN is passed over
InterfaceSupNorm(m) == Max({0} \cup ({Read(m, ij) : ij \in AllCells(m)} \ {NaN}))
InterfaceNonZeros(m) == m.rows * m.cols

InterfacePattern(m, prune) ==
  PatternOf(m.rows, {ij \in AllCells(m) : prune => IsSignificant(Read(m, ij))})

\* the pruned variant of a dense matrix is made from the pruned pattern, which
\* the dense constructors ignore: it is zero, and then its significant entries are set
InterfacePruned(m) ==
  LET kept == Entries(InterfacePattern(m, TRUE))
  IN  Matrix(m.rows, m.cols, AllCells(m), LAMBDA ij : IF ij \in kept THEN Read(m, ij) ELSE 0)
=============================================================================
