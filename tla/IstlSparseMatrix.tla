-------------------------- MODULE IstlSparseMatrix --------------------------
(***************************************************************************)
(* IstlRowMajorSparseMatrix (la/container/istl.hh), a matrix that holds a  *)
(* Dune::BCRSMatrix: entries outside its pattern read as zero and cannot   *)
(* be written.                                                             *)
(***************************************************************************)
EXTENDS Matrices

\* the rows are sized and filled from the pattern, then multiplied by zero
BuildSparseMatrix(r, c, p) == Matrix(r, c, Entries(p), LAMBDA ij : 0)

Construct(r, c, x) == Matrix(r, c, {}, LAMBDA ij : x)
ConstructFromPattern(r, c, p) ==
  IF PatternSize(p) # r THEN Throw(Construct(0, 0, 0), "shapes_do_not_match")
  ELSE BuildSparseMatrix(r, c, p)

PrunedPatternFromBackend(m) ==
  PatternOf(m.rows, {ij \in Stored(m) : IsSignificant(m.at[ij])})

CopyOf(m, prune) ==
  IF prune
  THEN [BuildSparseMatrix(m.rows, m.cols, PrunedPatternFromBackend(m)) EXCEPT
          !.at = [ij \in DOMAIN @ |-> m.at[ij]]]
  ELSE Updated(m, LAMBDA ij : m.at[ij])

Scal(m, a) == Updated(m, LAMBDA ij : Times(a, m.at[ij]))

\* Dune::BCRSMatrix::axpy requires the entries of x to be entries of m
AxpyIsDefined(m, x) == HasEqualShape(m, x) => Stored(x) \subseteq Stored(m)
Axpy(m, a, x) ==
  IF ~HasEqualShape(m, x) THEN Throw(m, "shapes_do_not_match")
  ELSE Updated(m, LAMBDA ij : IF ij \in Stored(x) THEN Plus(m.at[ij], Times(a, x.at[ij])) ELSE m.at[ij])

TheseAreValidIndices(m, i, j) == i < m.rows /\ j < m.cols /\ <<i, j>> \in Stored(m)

AddToEntry(m, i, j, x) == Updated(m, LAMBDA ij : IF ij = <<i, j>> THEN Plus(m.at[ij], x) ELSE m.at[ij])
SetEntry(m, i, j, x)   == Updated(m, LAMBDA ij : IF ij = <<i, j>> THEN x ELSE m.at[ij])
GetEntry(m, i, j)      == IF TheseAreValidIndices(m, i, j) THEN m.at[<<i, j>>] ELSE 0

ClearRow(m, i) ==
  IF i >= m.rows THEN Throw(m, "index_out_of_range")
  ELSE Updated(m, LAMBDA ij : IF ij[1] = i THEN Times(m.at[ij], 0) ELSE m.at[ij])

\* a fault: the last row is not visited
ClearColButLastRow(m, j) ==
  IF j >= m.cols THEN Throw(m, "index_out_of_range")
  ELSE Updated(m, LAMBDA ij : IF ij[2] = j /\ ij[1] < m.rows - 1 THEN 0 ELSE m.at[ij])

ClearCol(m, j) ==
  IF j >= m.cols THEN Throw(m, "index_out_of_range")
  ELSE Updated(m, LAMBDA ij : IF ij[2] = j THEN 0 ELSE m.at[ij])

UnitRow(m, i) ==
  IF i >= m.cols \/ i >= m.rows \/ <<i, i>> \notin Stored(m) THEN Throw(m, "index_out_of_range")
  ELSE Updated(m, LAMBDA ij : IF ij = <<i, i>> THEN 1 ELSE IF ij[1] = i THEN Times(m.at[ij], 0) ELSE m.at[ij])

\* the loop over the rows ends at the diagonal: what is below it is kept
UnitCol(m, j) ==
  IF j >= m.cols \/ j >= m.rows \/ <<j, j>> \notin Stored(m) THEN Throw(m, "index_out_of_range")
  ELSE Updated(m, LAMBDA ij : IF ij = <<j, j>> THEN 1 ELSE IF ij[2] = j /\ ij[1] < j THEN 0 ELSE m.at[ij])

Valid(m) == \A ij \in Stored(m) : m.at[ij] # NaN

PatternIn(m, prune) == IF prune THEN PrunedPatternFromBackend(m) ELSE PatternOf(m.rows, Stored(m))
NonZeros(m)         == Cardinality(Stored(m))
Pruned(m)           == CopyOf(m, TRUE)
=============================================================================
