------------------------------ MODULE Solvers -------------------------------
(***************************************************************************)
(* LA::Solver for the four kinds of matrices (la/solver/common.hh,         *)
(* eigen.hh, istl.hh and istl_amg.hh).  A solver checks the options it is  *)
(* given and, if told so, the data; it hands the system to its backend     *)
(* and checks what comes back.                                             *)
(*                                                                         *)
(* Numbers are abstracted to what the checks tell apart: whether data is   *)
(* free of inf and nan, whether the matrix is symmetric, and whether a     *)
(* vector solves the system.  What a backend answers is arbitrary.         *)
(* Options are functions from their keys to "on" (a default or another     *)
(* usable value) or "off" (0, which disables a check).                     *)
(***************************************************************************)
EXTENDS SequencesExt

CONSTANTS
  HaveUmfpack,  \* HAVE_UMFPACK of the build
  HaveSuperlu   \* !HAVE_MPI && HAVE_SUPERLU of the build

ASSUME BuildAssumption == HaveUmfpack \in BOOLEAN /\ HaveSuperlu \in BOOLEAN

Kinds == {"common", "eigen_dense", "eigen_sparse", "istl"}

(***************************************************************************)
(* Types and their default options                                         *)
(***************************************************************************)
CommonTypes == <<"superlu">>
EigenDenseTypes ==
  <<"lu.partialpiv", "qr.householder", "llt", "ldlt",
    "qr.colpivhouseholder", "qr.fullpivhouseholder", "lu.fullpiv">>
CgTypes == {"cg.diagonal.lower", "cg.diagonal.upper", "cg.identity.lower", "cg.identity.upper"}
EigenSparseTypes ==
  <<"bicgstab.ilut", "lu.sparse", "llt.simplicial", "ldlt.simplicial", "bicgstab.diagonal",
    "bicgstab.identity", "qr.sparse", "cg.diagonal.lower", "cg.diagonal.upper",
    "cg.identity.lower", "cg.identity.upper">>
AmgTypes == {"bicgstab.amg.ssor", "bicgstab.amg.ilu0"}
IstlTypes ==
  (IF HaveSuperlu THEN <<"superlu">> ELSE <<>>)
    \o <<"bicgstab.amg.ssor", "bicgstab.amg.ilu0", "bicgstab.ilut", "bicgstab.ssor", "bicgstab">>
    \o (IF HaveUmfpack THEN <<"umfpack">> ELSE <<>>)

Types(kind) ==
  CASE kind = "common"       -> CommonTypes
    [] kind = "eigen_dense"  -> EigenDenseTypes
    [] kind = "eigen_sparse" -> EigenSparseTypes
    [] kind = "istl"         -> IstlTypes

CheckGiven(type, types) == Contains(types, type)

IterativeKeys == {"max_iter", "precision"}

CommonOptions(type) == {"type", "post_check_solves_system"}

EigenDenseOptions(type) ==
  {"type", "post_check_solves_system", "check_for_inf_nan"}
    \cup (IF type \in {"ldlt", "llt"} THEN {"pre_check_symmetry"} ELSE {})

EigenSparseOptions(type) ==
  LET default   == {"type", "post_check_solves_system", "check_for_inf_nan"}
      iterative == IterativeKeys \cup default
  IN  CASE type \in {"lu.sparse", "qr.sparse"}              -> default
        [] type \in {"ldlt.simplicial", "llt.simplicial"}   -> default \cup {"pre_check_symmetry"}
        [] type = "bicgstab.ilut" ->
             iterative \cup {"preconditioner.fill_factor", "preconditioner.drop_tol"}
        [] type \in CgTypes -> iterative \cup {"pre_check_symmetry"}
        [] OTHER            -> iterative

AmgKeys ==
  {"smoother.iterations", "smoother.relaxation_factor", "preconditioner.max_level",
   "preconditioner.coarse_target", "preconditioner.min_coarse_rate", "preconditioner.prolong_damp",
   "preconditioner.anisotropy_dim", "preconditioner.isotropy_dim", "preconditioner.verbose"}

IstlOptions(type) ==
  LET general   == {"type", "post_check_solves_system", "verbose"}
      iterative == IterativeKeys \cup general
  IN  CASE type \in AmgTypes \cup {"bicgstab"} -> iterative \cup AmgKeys \cup {"smoother.verbose"}
        [] type \in {"bicgstab.ilut", "bicgstab.ssor"} ->
             iterative \cup {"preconditioner.iterations", "preconditioner.relaxation_factor"}
        [] type \in {"umfpack", "superlu"} -> general

OptionKeys(kind, type) ==
  CASE kind = "common"       -> CommonOptions(type)
    [] kind = "eigen_dense"  -> EigenDenseOptions(type)
    [] kind = "eigen_sparse" -> EigenSparseOptions(type)
    [] kind = "istl"         -> IstlOptions(type)

(***************************************************************************)
(* The keys apply() reads: every one of them with default_opts.get() as    *)
(* the fallback, which is evaluated, and throws, before the key is looked  *)
(* up in the given options.                                                *)
(***************************************************************************)
\* the branch of the AMG: both smoothers, the coarsening and the solver
AmgReads == AmgKeys \cup IterativeKeys \cup {"verbose"}

IstlReads(type) ==
  {"post_check_solves_system"} \cup
    CASE type \in AmgTypes -> AmgReads
      [] type \in {"bicgstab.ilut", "bicgstab.ssor"} ->
           IterativeKeys \cup {"verbose", "preconditioner.iterations", "preconditioner.relaxation_factor"}
      [] type = "bicgstab"               -> IterativeKeys \cup {"verbose"}
      [] type \in {"umfpack", "superlu"} -> {"verbose"}

NeedsSymmetry(kind, type) ==
  \/ /\ kind = "eigen_dense"
     /\ type \in {"ldlt", "llt"}
  \/ /\ kind = "eigen_sparse"
     /\ type \in CgTypes \cup {"ldlt.simplicial", "llt.simplicial"}

EigenSparseReads(type) ==
  CASE type = "bicgstab.ilut" ->
         IterativeKeys \cup {"preconditioner.fill_factor", "preconditioner.drop_tol"}
    [] type \in CgTypes \cup {"bicgstab.diagonal", "bicgstab.identity"}         -> IterativeKeys
    [] type \in {"lu.sparse", "qr.sparse", "ldlt.simplicial", "llt.simplicial"} -> {}

Reads(kind, type) ==
  CASE kind = "common" -> {"post_check_solves_system"}
    [] kind = "istl"   -> IstlReads(type)
    [] OTHER -> {"post_check_solves_system", "check_for_inf_nan"}
                  \cup (IF NeedsSymmetry(kind, type) THEN {"pre_check_symmetry"} ELSE {})
                  \cup (IF kind = "eigen_sparse" THEN EigenSparseReads(type) ELSE {})

(***************************************************************************)
(* apply                                                                   *)
(***************************************************************************)
\* opts.get(key, default_opts.get(key)), as a switch
On(opts, key) == key \in DOMAIN opts => opts[key] = "on"

Infos     == {"Success", "NumericalIssue", "NoConvergence", "InvalidInput"}
Solutions == {"solves", "wrong", "nan"}  \* what the backend leaves in the solution

Returned(x)  == [thrown |-> "nothing", solution |-> x]
Failed(e, x) == [thrown |-> e, solution |-> x]
Unfulfilled(x) == Failed("data_did_not_fulfill_requirements", x)

\* a fault: a norm that is nan is no larger than the threshold
PostCheckPassingNan(opts, x, norm) ==
  IF On(opts, "post_check_solves_system") /\ norm = "large"
  THEN Failed("the_solution_does_not_solve_the_system", x)
  ELSE Returned(x)

\* the check (A x - b).sup_norm() <= threshold, which also fails for nan or inf
PostCheck(opts, x, norm) ==
  IF On(opts, "post_check_solves_system") /\ norm # "small"
  THEN Failed("the_solution_does_not_solve_the_system", x)
  ELSE Returned(x)

\* the norms the backends may find: only Eigen's may lose a nan
NormsOf(kind, x) ==
  CASE x = "solves" -> {"small"}
    [] x = "wrong"  -> {"large"}
    [] x = "nan"    -> IF kind \in {"eigen_dense", "eigen_sparse"} THEN {"nan", "small"} ELSE {"nan"}

\* dune-common's solve() throws FMatrixError for a singular matrix
ApplyCommon(opts, system, answer) ==
  IF answer.info # "Success" THEN Unfulfilled(answer.solution)
  ELSE PostCheck(opts, answer.solution, answer.norm)

\* the checks of both Eigen solvers before the backend is called
EigenRefuses(kind, type, opts, system) ==
  \/ (On(opts, "check_for_inf_nan") /\ ~(system.matrix_valid /\ system.rhs_valid))
  \/ (NeedsSymmetry(kind, type) /\ On(opts, "pre_check_symmetry") /\ ~system.symmetric)

EigenChecks(opts, answer) ==
  IF On(opts, "check_for_inf_nan") /\ answer.solution = "nan" THEN Unfulfilled(answer.solution)
  ELSE PostCheck(opts, answer.solution, answer.norm)

\* the decompositions of dense matrices report no status
ApplyEigenDense(type, opts, system, answer, before) ==
  IF EigenRefuses("eigen_dense", type, opts, system) THEN Unfulfilled(before)
  ELSE EigenChecks(opts, answer)

ApplyEigenSparse(type, opts, system, answer, before) ==
  IF EigenRefuses("eigen_sparse", type, opts, system) THEN Unfulfilled(before)
  ELSE CASE answer.info = "NumericalIssue" -> Unfulfilled(answer.solution)
         [] answer.info = "NoConvergence"  -> Failed("it_did_not_converge", answer.solution)
         [] answer.info = "InvalidInput"   -> Failed("it_was_not_set_up_correctly", answer.solution)
         [] answer.info = "Success"        -> EigenChecks(opts, answer)

\* the backend's ISTLError (here: InvalidInput) becomes a linear_solver_failed;
\* the post check is made in a copy of the right hand side
ApplyIstl(opts, system, answer) ==
  CASE answer.info = "InvalidInput"  -> Failed("linear_solver_failed", answer.solution)
    [] answer.info = "NoConvergence" -> Failed("it_did_not_converge", answer.solution)
    [] OTHER -> PostCheck(opts, answer.solution, answer.norm)

Apply(kind, opts, type, system, answer, before) ==
  IF ("type" \notin DOMAIN opts) \/ ~CheckGiven(type, Types(kind))
  THEN Failed("configuration_error", before)
  ELSE CASE kind = "common"       -> ApplyCommon(opts, system, answer)
         [] kind = "eigen_dense"  -> ApplyEigenDense(type, opts, system, answer, before)
         [] kind = "eigen_sparse" -> ApplyEigenSparse(type, opts, system, answer, before)
         [] kind = "istl"         -> ApplyIstl(opts, system, answer)

(***************************************************************************)
(* A solver and the solution vector it is called with, again and again     *)
(***************************************************************************)
VARIABLES
  kind,      \* the kind of the matrix
  system,    \* the matrix and the right hand side
  solution,  \* "given", or what the last call left
  call       \* the checks the last call was told to make, and what it threw

solverVars == <<kind, system, solution, call>>

Systems == [matrix_valid : BOOLEAN, rhs_valid : BOOLEAN, symmetric : BOOLEAN]

Defaults(type) == [k \in OptionKeys(kind, type) |-> "on"]
Answers == {a \in [info : Infos, solution : Solutions, norm : {"small", "large", "nan"}] :
              a.norm \in NormsOf(kind, a.solution)}

Checks == {"post_check_solves_system", "check_for_inf_nan", "pre_check_symmetry"}
NoCall == [checks |-> {}, thrown |-> "nothing"]

SolverInit ==
  /\ kind \in Kinds
  /\ system \in Systems
  /\ solution = "given"
  /\ call = NoCall

\* a system with inf or nan in it has no solution
Plausible(a) == (system.matrix_valid /\ system.rhs_valid) \/ a.solution # "solves"

Call(type, opts) == \E a \in Answers :
  /\ Plausible(a)
  /\ LET result == Apply(kind, opts, type, system, a, solution)
     IN  /\ solution' = result.solution
         /\ call' = [checks |-> {k \in Checks : On(opts, k)},
                     thrown |-> result.thrown]
  /\ UNCHANGED <<kind, system>>

\* apply(rhs, solution), apply(rhs, solution, type)
ApplyDefault  == Call(Head(Types(kind)), Defaults(Head(Types(kind))))
ApplyType     == \E type \in ToSet(Types(kind)) : Call(type, Defaults(type))

\* apply(rhs, solution, options), with checks disabled or keys left out
ApplyOptions ==
  \E type \in ToSet(Types(kind)) :
    \E off \in SUBSET (Checks \cap OptionKeys(kind, type)),
       left_out \in {{}, {"type"}} :
      Call(type, [k \in OptionKeys(kind, type) \ left_out |-> IF k \in off THEN "off" ELSE "on"])
ApplyUnknownType == Call("unknown", [k \in {"type"} |-> "on"])

\* the matrix is referenced, not copied: it may be written between two calls
ChangeSystem == system' \in Systems /\ solution' = "given" /\ call' = NoCall /\ UNCHANGED kind

SolverNext == ApplyDefault \/ ApplyType \/ ApplyOptions \/ ApplyUnknownType \/ ChangeSystem

SolverSpec == SolverInit /\ [][SolverNext]_solverVars

(***************************************************************************)
(* Properties                                                              *)
(***************************************************************************)
\* Whatever apply() reads for a type has a default in options(type), or the
\* call would end in an exception about a key the caller need not know.
EveryKeyHasADefault ==
  \A type \in ToSet(Types(kind)) : Reads(kind, type) \subseteq OptionKeys(kind, type)

\* A call that returned and was asked to check the result left a vector that
\* solves the system.  Eigen's norm may lose a nan: there the check for inf
\* and nan must be on as well.  (The comment of Solver::apply: "If none was
\* thrown we beleive that a suitable solution was found (given the current
\* options).")  None fails for a key that the caller need not know.
ReturnedMeansSolved ==
  /\ EveryKeyHasADefault
  /\ (/\ call.thrown = "nothing" /\ solution # "given"
      /\ "post_check_solves_system" \in call.checks
      /\ kind \in {"eigen_dense", "eigen_sparse"} => "check_for_inf_nan" \in call.checks)
       => solution = "solves"
=============================================================================
