------------------------- MODULE CommonDenseMatrix --------------------------
(***************************************************************************)
(* CommonDenseMatrix (la/container/common.hh), a matrix that holds a       *)
(* Dune::DynamicMatrix.  Clearing a row multiplies it by zero, clearing a  *)
(* column assigns zeros.                                                   *)
(***************************************************************************)
EXTENDS Matrices

Construct(r, c, x)            == Dense(r, c, x)
ConstructFromPattern(r, c, p) == Dense(r, c, 0)
CopyOf(m, prune)              == IF prune THEN InterfacePruned(m) ELSE Updated(m, LAMBDA ij : m.at[ij])

Scal(m, a) == Updated(m, LAMBDA ij : Times(a, m.at[ij]))

Axpy(m, a, x) ==
  IF ~HasEqualShape(m, x) THEN Throw(m, "shapes_do_not_match")
  ELSE Updated(m, LAMBDA ij : Plus(m.at[ij], Times(a, x.at[ij])))

AddToEntry(m, i, j, x) == Updated(m, LAMBDA ij : IF ij = <<i, j>> THEN Plus(m.at[ij], x) ELSE m.at[ij])
SetEntry(m, i, j, x)   == Updated(m, LAMBDA ij : IF ij = <<i, j>> THEN x ELSE m.at[ij])
GetEntry(m, i, j)      == m.at[<<i, j>>]

ClearRow(m, i) ==
  IF i >= m.rows THEN Throw(m, "index_out_of_range")
  ELSE Updated(m, LAMBDA ij : IF ij[1] = i THEN Times(m.at[ij], 0) ELSE m.at[ij])

ClearCol(m, j) ==
  IF j >= m.cols THEN Throw(m, "index_out_of_range")
  ELSE Updated(m, LAMBDA ij : IF ij[2] = j THEN 0 ELSE m.at[ij])

UnitRow(m, i) ==
  IF i >= m.cols \/ i >= m.rows THEN Throw(m, "index_out_of_range")
  ELSE Updated(m, LAMBDA ij : IF ij = <<i, i>> THEN 1 ELSE IF ij[1] = i THEN 0 ELSE m.at[ij])

UnitCol(m, j) ==
  IF j >= m.cols \/ j >= m.rows THEN Throw(m, "index_out_of_range")
  ELSE Updated(m, LAMBDA ij : IF ij = <<j, j>> THEN 1 ELSE IF ij[2] = j THEN 0 ELSE m.at[ij])

Valid(m)          == \A ij \in AllCells(m) : m.at[ij] # NaN
PatternIn(m, prune) == InterfacePattern(m, prune)
NonZeros(m)       == InterfaceNonZeros(m)
Pruned(m)         == CopyOf(m, TRUE)
=============================================================================
