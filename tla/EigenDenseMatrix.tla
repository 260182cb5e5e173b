-------------------------- MODULE EigenDenseMatrix --------------------------
(***************************************************************************)
(* EigenDenseMatrix (la/container/eigen/dense.hh).  It is constructed by   *)
(* multiplying a matrix of ones by the value; rows and columns are cleared *)
(* by assigning zeros.                                                     *)
(***************************************************************************)
EXTENDS Matrices

Construct(r, c, x)            == Matrix(r, c, Cells(r, c), LAMBDA ij : Times(1, x))
ConstructFromPattern(r, c, p) == Dense(r, c, 0)
CopyOf(m, prune)              == IF prune THEN InterfacePruned(m) ELSE Updated(m, LAMBDA ij : m.at[ij])

\* from any other matrix of the library: every entry is read and set
ConvertFrom(other) == Matrix(other.rows, other.cols, AllCells(other), LAMBDA ij : Read(other, ij))

Scal(m, a) == Updated(m, LAMBDA ij : Times(m.at[ij], a))

Axpy(m, a, x) ==
  IF ~HasEqualShape(m, x) THEN Throw(m, "shapes_do_not_match")
  ELSE Updated(m, LAMBDA ij : Plus(m.at[ij], Times(a, x.at[ij])))

AddToEntry(m, i, j, x) == Updated(m, LAMBDA ij : IF ij = <<i, j>> THEN Plus(m.at[ij], x) ELSE m.at[ij])
SetEntry(m, i, j, x)   == Updated(m, LAMBDA ij : IF ij = <<i, j>> THEN x ELSE m.at[ij])
GetEntry(m, i, j)      == m.at[<<i, j>>]

ClearRow(m, i) ==
  IF i >= m.rows THEN Throw(m, "index_out_of_range")
  ELSE Updated(m, LAMBDA ij : IF ij[1] = i THEN 0 ELSE m.at[ij])

ClearCol(m, j) ==
  IF j >= m.cols THEN Throw(m, "index_out_of_range")
  ELSE Updated(m, LAMBDA ij : IF ij[2] = j THEN 0 ELSE m.at[ij])

UnitRow(m, i) ==
  IF i >= m.cols \/ i >= m.rows THEN Throw(m, "index_out_of_range")
  ELSE Updated(m, LAMBDA ij : IF ij[1] # i THEN m.at[ij] ELSE IF ij[2] = i THEN 1 ELSE 0)

UnitCol(m, j) ==
  IF j >= m.cols \/ j >= m.rows THEN Throw(m, "index_out_of_range")
  ELSE Updated(m, LAMBDA ij : IF ij[2] # j THEN m.at[ij] ELSE IF ij[1] = j THEN 1 ELSE 0)

Valid(m)            == \A ij \in AllCells(m) : m.at[ij] # NaN
PatternIn(m, prune) == InterfacePattern(m, prune)
NonZeros(m)         == InterfaceNonZeros(m)
Pruned(m)           == CopyOf(m, TRUE)
=============================================================================
