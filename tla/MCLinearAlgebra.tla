--------------------------- MODULE MCLinearAlgebra --------------------------
(***************************************************************************)
(* One matrix, one solver or one vector, each under its own operations.    *)
(***************************************************************************)
EXTENDS MatrixOperations, Solvers

CONSTANTS
  Thrown,           \* see VectorInterface
  SizeBits,
  Tolerance,
  Numbers,          \* the numbers in a vector
  VectorSizes       \* and the number of its entries

VARIABLES
  part,  \* which of the three this behaviour is about
  vec

V == INSTANCE VectorInterface

vars == <<part, vec, matrixVars, solverVars>>

\* a square and a wide shape with sparse patterns, with and without diagonals
MCShapes == {<<2, 2>>, <<3, 2>>}
MCPatterns == [s \in MCShapes |->
  IF s = <<2, 2>>
  THEN {[i \in 0 .. 1 |-> <<0, 1>>], (0 :> <<0>> @@ 1 :> <<0, 1>>), (0 :> <<1>> @@ 1 :> <<0>>)}
  ELSE {(0 :> <<>> @@ 1 :> <<1>> @@ 2 :> <<0, 1>>)}]
MCNaN == -9
MCNumbers == {-2, 0, 1, 2, NaN}

Some(S) == CHOOSE x \in S : TRUE

Idle(p) ==
  /\ p # "matrix" => class = "common_dense" /\ mat = Dense(0, 0, 0) /\ table = <<>> /\ spoilt = {}
  /\ p # "solver" => /\ kind = "common" /\ system = Some(Systems) /\ solution = "given"
                     /\ call = NoCall
  /\ p # "vector" => vec = <<>>

Init ==
  \/ part = "matrix" /\ MatrixInit /\ Idle(part)
  \/ part = "solver" /\ SolverInit /\ Idle(part)
  \/ /\ part = "vector" /\ Idle(part)
     /\ vec \in UNION {[0 .. (n - 1) -> Numbers] : n \in VectorSizes}

\* values stay among the numbers
VectorNext ==
  /\ \E x \in Numbers \ {NaN} : V!Writes(x)
  /\ \A i \in DOMAIN vec' : vec'[i] \in Numbers

Next ==
  \/ part = "matrix" /\ MatrixNext /\ UNCHANGED <<part, vec, solverVars>>
  \/ part = "solver" /\ SolverNext /\ UNCHANGED <<part, vec, matrixVars>>
  \/ part = "vector" /\ VectorNext /\ UNCHANGED <<part, matrixVars, solverVars>>

Spec == Init /\ [][Next]_vars

\* What vectors that are not empty compute agrees: their loops, norms, moments and
\* both variants of amax() (see VectorInterface, and there what is left out).
LoopsAndNormsAgree == V!LoopsAndNormsAgree
=============================================================================
