-------------------------- MODULE MatrixOperations --------------------------
(***************************************************************************)
(* A matrix of any of the four classes under the operations of             *)
(* MatrixInterface, next to a plain table of numbers on which every        *)
(* operation does what its name promises.  Matrices of all classes are     *)
(* used through one interface, by assemblers that clear and unify the rows *)
(* and columns of constrained degrees of freedom: they must agree.         *)
(***************************************************************************)
EXTENDS Matrices

CONSTANTS
  Shapes,    \* the shapes <<rows, cols>> of the matrices
  Patterns   \* Patterns[shape]: the sparsity patterns they are made from

\* indices are asserted to be in range
ASSUME PatternsAssumption ==
  \A shape \in Shapes :
    /\ shape \in Nat \X Nat
    /\ Patterns[shape] \subseteq [0 .. (shape[1] - 1) -> Seq(0 .. (shape[2] - 1))]

Common      == INSTANCE CommonDenseMatrix
EigenDense  == INSTANCE EigenDenseMatrix
Istl        == INSTANCE IstlSparseMatrix
EigenSparse == INSTANCE EigenSparseMatrix

Classes == {"common_dense", "eigen_dense", "istl_sparse", "eigen_sparse"}

Choose(class, common, eigen_dense, istl, eigen_sparse) ==
  CASE class = "common_dense" -> common
    [] class = "eigen_dense"  -> eigen_dense
    [] class = "istl_sparse"  -> istl
    [] class = "eigen_sparse" -> eigen_sparse

Made(class, r, c, p) ==
  Choose(class, Common!ConstructFromPattern(r, c, p), EigenDense!ConstructFromPattern(r, c, p),
                Istl!ConstructFromPattern(r, c, p), EigenSparse!ConstructFromPattern(r, c, p))
Scaled(class, m, a) ==
  Choose(class, Common!Scal(m, a), EigenDense!Scal(m, a), Istl!Scal(m, a), EigenSparse!Scal(m, a))
Summed(class, m, a, x) ==
  Choose(class, Common!Axpy(m, a, x), EigenDense!Axpy(m, a, x), Istl!Axpy(m, a, x), EigenSparse!Axpy(m, a, x))
WithEntry(class, m, i, j, x) ==
  Choose(class, Common!SetEntry(m, i, j, x), EigenDense!SetEntry(m, i, j, x),
                Istl!SetEntry(m, i, j, x), EigenSparse!SetEntry(m, i, j, x))
WithAdded(class, m, i, j, x) ==
  Choose(class, Common!AddToEntry(m, i, j, x), EigenDense!AddToEntry(m, i, j, x),
                Istl!AddToEntry(m, i, j, x), EigenSparse!AddToEntry(m, i, j, x))
EntryOf(class, m, i, j) ==
  Choose(class, Common!GetEntry(m, i, j), EigenDense!GetEntry(m, i, j),
                Istl!GetEntry(m, i, j), EigenSparse!GetEntry(m, i, j))
RowCleared(class, m, i) ==
  Choose(class, Common!ClearRow(m, i), EigenDense!ClearRow(m, i), Istl!ClearRow(m, i), EigenSparse!ClearRow(m, i))
ColCleared(class, m, j) ==
  Choose(class, Common!ClearCol(m, j), EigenDense!ClearCol(m, j), Istl!ClearCol(m, j), EigenSparse!ClearCol(m, j))
RowUnit(class, m, i) ==
  Choose(class, Common!UnitRow(m, i), EigenDense!UnitRow(m, i), Istl!UnitRow(m, i), EigenSparse!UnitRow(m, i))
ColUnit(class, m, j) ==
  Choose(class, Common!UnitCol(m, j), EigenDense!UnitCol(m, j), Istl!UnitCol(m, j), EigenSparse!UnitCol(m, j))
PrunedOf(class, m) ==
  Choose(class, Common!Pruned(m), EigenDense!Pruned(m), Istl!Pruned(m), EigenSparse!Pruned(m))
PatternIn(class, m, prune) ==
  Choose(class, Common!PatternIn(m, prune), EigenDense!PatternIn(m, prune),
                Istl!PatternIn(m, prune), EigenSparse!PatternIn(m, prune))
IsValid(class, m) ==
  Choose(class, Common!Valid(m), EigenDense!Valid(m), Istl!Valid(m), EigenSparse!Valid(m))

VARIABLES
  class,   \* the class of the matrix
  mat,     \* the matrix
  table,   \* what its entries should read
  spoilt   \* entries that are known to read otherwise

matrixVars == <<class, mat, table, spoilt>>

MatrixInit ==
  /\ class \in Classes
  /\ \E shape \in Shapes : \E p \in Patterns[shape] : mat = Made(class, shape[1], shape[2], p)
  /\ table = [ij \in AllCells(mat) |-> 0]
  /\ spoilt = {}

Rows == 0 .. (mat.rows - 1)
Cols == 0 .. (mat.cols - 1)

\* The matrix becomes m.  If the call did not throw, the table becomes
\* promised, and the entries in kept, together with the spoilt ones that are
\* not in written, read as the code leaves them.
Become(m, promised, written, kept) ==
  /\ mat' = m
  /\ IF m.error = "none"
     THEN table' = promised /\ spoilt' = (spoilt \ written) \cup kept
     ELSE UNCHANGED <<table, spoilt>>
  /\ UNCHANGED class

NaNsIn(S) == {ij \in S \cap Stored(mat) : mat.at[ij] = NaN}
RowCells(i) == {ij \in AllCells(mat) : ij[1] = i}
ColCells(j) == {ij \in AllCells(mat) : ij[2] = j}

\* entries are only written where they are stored (an assertion of the sparse classes)
SetEntry(i, j, x) ==
  /\ <<i, j>> \in Stored(mat)
  /\ Become(WithEntry(class, mat, i, j, x), [table EXCEPT ![<<i, j>>] = x], {<<i, j>>}, {})

AddToEntry(i, j, x) ==
  /\ <<i, j>> \in Stored(mat)
  /\ Become(WithAdded(class, mat, i, j, x), [table EXCEPT ![<<i, j>>] = Plus(@, x)], {}, {})

Scal(a) == Become(Scaled(class, mat, a), [ij \in AllCells(mat) |-> Times(a, table[ij])], {}, {})

\* axpy with a matrix of the same pattern, itself
Axpy(a) ==
  Become(Summed(class, mat, a, mat), [ij \in AllCells(mat) |-> Plus(table[ij], Times(a, table[ij]))], {}, {})

\* a NaN in a row that is cleared by multiplication stays
SurvivorsIn(i) == IF class = "eigen_dense" THEN {} ELSE NaNsIn(RowCells(i))

ClearRow(i) ==
  Become(RowCleared(class, mat, i), [ij \in AllCells(mat) |-> IF ij[1] = i THEN 0 ELSE table[ij]],
         RowCells(i), SurvivorsIn(i))

ClearCol(j) ==
  Become(ColCleared(class, mat, j), [ij \in AllCells(mat) |-> IF ij[2] = j THEN 0 ELSE table[ij]],
         ColCells(j), {})

Unit(ij) == IF ij[1] = ij[2] THEN 1 ELSE 0

UnitRow(i) ==
  Become(RowUnit(class, mat, i), [ij \in AllCells(mat) |-> IF ij[1] = i THEN Unit(ij) ELSE table[ij]],
         RowCells(i), IF class = "common_dense" THEN {} ELSE SurvivorsIn(i) \ {<<i, i>>})

\* what unit_col leaves of the column: istl all that is below the diagonal,
\* eigen_sparse a diagonal that it does not store
LeftBy(j) ==
  CASE class = "istl_sparse"  -> {ij \in ColCells(j) \cap Stored(mat) : ij[1] > j}
    [] class = "eigen_sparse" -> {<<j, j>>} \ Stored(mat)
    [] OTHER                  -> {}

UnitCol(j) ==
  Become(ColUnit(class, mat, j), [ij \in AllCells(mat) |-> IF ij[2] = j THEN Unit(ij) ELSE table[ij]],
         ColCells(j), LeftBy(j))

Prune ==
  Become(PrunedOf(class, mat), [ij \in AllCells(mat) |-> IF IsSignificant(table[ij]) THEN table[ij] ELSE 0],
         {}, {})

\* the last index of each is out of range
MatrixNext ==
  \/ \E i \in Rows, j \in Cols, x \in Entry : SetEntry(i, j, x) \/ AddToEntry(i, j, x)
  \/ \E a \in Entry \ {NaN} : Scal(a) \/ Axpy(a)
  \/ \E i \in 0 .. mat.rows : ClearRow(i) \/ UnitRow(i)
  \/ \E j \in 0 .. mat.cols : ClearCol(j) \/ UnitCol(j)
  \/ Prune

MatrixSpec == MatrixInit /\ [][MatrixNext]_matrixVars

(***************************************************************************)
(* Properties                                                              *)
(***************************************************************************)
\* What prune() removes from the pattern is what its pattern(true) leaves out,
\* and a matrix is valid exactly if its table is.
PruningIsConsistent ==
  /\ class \in {"istl_sparse", "eigen_sparse"} =>
       Equal(PatternIn(class, PrunedOf(class, mat), FALSE), PatternIn(class, mat, TRUE))
  /\ spoilt = {} => (IsValid(class, mat) <=> \A ij \in AllCells(mat) : table[ij] # NaN)

\* Whatever its class, a matrix reads as promised after any sequence of calls,
\* but for the entries that clearing by multiplication (a NaN), unit_col of
\* istl (below the diagonal) and of eigen_sparse (a diagonal that is not
\* stored) are known to leave.  Its pattern and validity go with that.
ReadsAsPromised ==
  /\ PruningIsConsistent
  /\ \A ij \in AllCells(mat) \ spoilt : EntryOf(class, mat, ij[1], ij[2]) = table[ij]

\* A call that throws changes no entry, and no call but prune() removes one
\* from the pattern: an assembler may go on writing where it wrote before.
PatternIsKept ==
  [][/\ mat'.error # "none" => mat'.at = mat.at
     /\ (Stored(mat') # Stored(mat)) => mat' = PrunedOf(class, mat)]_matrixVars
=============================================================================
