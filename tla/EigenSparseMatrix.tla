-------------------------- MODULE EigenSparseMatrix -------------------------
(***************************************************************************)
(* EigenRowMajorSparseMatrix (la/container/eigen/sparse.hh), a matrix that *)
(* holds a row major Eigen::SparseMatrix.                                  *)
(***************************************************************************)
EXTENDS Matrices

Construct(r, c, x) == Matrix(r, c, {}, LAMBDA ij : x)

\* a row without columns in the pattern is given the entry of column 0; a
\* matrix without rows or columns ignores the pattern
ConstructFromPattern(r, c, p) ==
  IF r = 0 \/ c = 0 THEN Construct(r, c, 0)
  ELSE IF PatternSize(p) # r \/ \E ij \in Entries(p) : ij[2] >= c
  THEN Throw(Construct(0, 0, 0), "shapes_do_not_match")
  ELSE Matrix(r, c, Entries(p) \cup {<<i, 0>> : i \in {k \in DOMAIN p : p[k] = <<>>}}, LAMBDA ij : 0)

CopyOf(m, prune) ==
  Matrix(m.rows, m.cols, {ij \in Stored(m) : prune => IsSignificant(m.at[ij])}, LAMBDA ij : m.at[ij])

Scal(m, a) == Updated(m, LAMBDA ij : Times(m.at[ij], a))

\* the sum of two sparse matrices has the entries of both
Axpy(m, a, x) ==
  IF ~HasEqualShape(m, x) THEN Throw(m, "shapes_do_not_match")
  ELSE Matrix(m.rows, m.cols, Stored(m) \cup Stored(x), LAMBDA ij :
         IF ij \in Stored(x) THEN Plus(Read(m, ij), Times(a, x.at[ij])) ELSE m.at[ij])

\* the search runs over row i and, if it is not found there, on into the later ones
TheseAreValidIndices(m, i, j) == i < m.rows /\ j < m.cols /\ <<i, j>> \in Stored(m)

AddToEntry(m, i, j, x) == Updated(m, LAMBDA ij : IF ij = <<i, j>> THEN Plus(m.at[ij], x) ELSE m.at[ij])
SetEntry(m, i, j, x)   == Updated(m, LAMBDA ij : IF ij = <<i, j>> THEN x ELSE m.at[ij])
GetEntry(m, i, j)      == Read(m, <<i, j>>)

\* a fault: the entries of the row are removed
ClearRowErasing(m, i) ==
  IF i >= m.rows THEN Throw(m, "index_out_of_range")
  ELSE Matrix(m.rows, m.cols, {ij \in Stored(m) : ij[1] # i}, LAMBDA ij : m.at[ij])

ClearRow(m, i) ==
  IF i >= m.rows THEN Throw(m, "index_out_of_range")
  ELSE Updated(m, LAMBDA ij : IF ij[1] = i THEN Times(m.at[ij], 0) ELSE m.at[ij])

ClearCol(m, j) ==
  IF j >= m.cols THEN Throw(m, "index_out_of_range")
  ELSE Updated(m, LAMBDA ij : IF ij[2] = j THEN 0 ELSE m.at[ij])

UnitRow(m, i) ==
  IF i >= m.cols \/ i >= m.rows \/ ~TheseAreValidIndices(m, i, i) THEN Throw(m, "index_out_of_range")
  ELSE Updated(m, LAMBDA ij : IF ij = <<i, i>> THEN 1 ELSE IF ij[1] = i THEN Times(m.at[ij], 0) ELSE m.at[ij])

\* without a stored diagonal entry the column is cleared, and nothing is thrown
UnitCol(m, j) ==
  IF j >= m.cols \/ j >= m.rows THEN Throw(m, "index_out_of_range")
  ELSE Updated(m, LAMBDA ij : IF ij[2] # j THEN m.at[ij] ELSE IF ij[1] = j THEN 1 ELSE 0)

Valid(m)    == \A ij \in Stored(m) : m.at[ij] # NaN

\* FloatCmp::ne(x, 0, eps) in the style of numpy, its default: eps is relative to the 0,
\* so that it is up to the absolute tolerance, which is always the default one.
DiffersFromZero(x, eps) == x = NaN \/ x > Eps + eps * 0
PatternIn(m, prune)     == PatternOf(m.rows, {ij \in Stored(m) : prune => DiffersFromZero(m.at[ij], Eps)})

NonZeros(m) == Cardinality(Stored(m))
Pruned(m)   == CopyOf(m, TRUE)
=============================================================================
