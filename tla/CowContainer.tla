--------------------------- MODULE CowContainer ---------------------------
(***************************************************************************)
(* The copy-on-write containers of dune/stuff/la/container.  A container   *)
(* object (a handle) holds a mutable shared_ptr `backend_`; copying and    *)
(* assigning pass the pointer on, and a method that writes to the backend  *)
(* or exposes a reference to it first makes a deep copy if the handle is   *)
(* not the sole owner (ensure_uniqueness).  One thread of control; the     *)
(* interleavings are in CowThreads.                                        *)
(*                                                                         *)
(* The families of classes differ in three methods only, selected by       *)
(* Flavour: CommonDenseVector and CommonDenseMatrix ("common"),            *)
(* IstlDenseVector ("istl"), EigenDenseVector and EigenMappedDenseVector   *)
(* ("eigen"), EigenDenseMatrix ("eigen_matrix").                           *)
(*                                                                         *)
(* A method whose shapes do not match throws before it touches anything,   *)
(* so the mismatch is a guard.                                             *)
(***************************************************************************)
EXTENDS Vectors, TLC

CONSTANTS
  Handles,    \* the container objects of the program
  Backends,   \* the addresses a backend can be allocated at
  NoBackend,  \* what an object that is not constructed points to
  NoVector,   \* the content of an address that is not allocated
  Flavour     \* the family of container classes

VARIABLES
  backend_,  \* the shared_ptr held by each handle
  heap,      \* the backend allocated at each address
  ref,       \* the backend a reference taken from a handle points into
  call       \* the last method called, with its arguments

vars == <<backend_, heap, ref, call>>

ASSUME NoBackendAssumption == NoBackend \notin Backends
ASSUME NoVectorAssumption == NoVector \notin Vectors
ASSUME FlavourAssumption == Flavour \in {"common", "istl", "eigen", "eigen_matrix"}

Live(h)    == backend_[h] # NoBackend
Content(h) == heap[backend_[h]]
Fresh(b)   == heap[b] = NoVector

\* shared_ptr::unique(): the use count is one.
unique(h) == \A g \in Handles \ {h} : backend_[g] # backend_[h]

\* Handle h now points to b, whose content becomes v; the backend it pointed
\* to is freed with its last owner.
Rebind(h, b, v) ==
  /\ backend_' = [backend_ EXCEPT ![h] = b]
  /\ heap' = [a \in Backends |->
                IF a = b THEN v
                ELSE IF a = backend_[h] /\ unique(h) THEN NoVector ELSE heap[a]]

\* Fault: another owner is overlooked.
ensure_uniqueness_faulty(h, b) ==
  IF \E g \in Handles : \A k \in Handles \ {g, h} : backend_[k] # backend_[h]
  THEN b = backend_[h] ELSE Fresh(b)

\* The backend that h holds after ensure_uniqueness().
ensure_uniqueness(h, b) == IF unique(h) THEN b = backend_[h] ELSE Fresh(b)

\* A method of h that ensures uniqueness and leaves v in the backend.
Writes(h, v) == \E b \in Backends : ensure_uniqueness(h, b) /\ Rebind(h, b, v)

\* A reference (backend(), data(), operator[], an iterator) is good until its
\* handle is rebound, by a deep copy too, or shared: the discipline every user
\* of these classes has to follow.
Drop(H) == ref' = [h \in Handles |-> IF h \in H THEN NoBackend ELSE ref[h]]
Keep    == ref' = [h \in Handles |-> IF backend_'[h] = backend_[h] THEN ref[h] ELSE NoBackend]

TypeOK ==
  /\ backend_ \in [Handles -> Backends \cup {NoBackend}]
  /\ heap \in [Backends -> Vectors \cup {NoVector}]
  /\ ref \in [Handles -> Backends \cup {NoBackend}]

Init ==
  /\ backend_ = [h \in Handles |-> NoBackend]
  /\ heap = [b \in Backends |-> NoVector]
  /\ ref = [h \in Handles |-> NoBackend]
  /\ call = <<"main">>

-----------------------------------------------------------------------------
(* Construction, copies and assignment. *)

\* Fault: one entry too many.
ConstructFaulty(h, n, x) ==
  /\ ~Live(h)
  /\ \E b \in Backends : Fresh(b) /\ Rebind(h, b, Constant(n + 1, x))
  /\ call' = <<"ctor", h, n, x>>
  /\ UNCHANGED ref

Construct(h, n, x) ==
  /\ ~Live(h)
  /\ \E b \in Backends : Fresh(b) /\ Rebind(h, b, Constant(n, x))
  /\ call' = <<"ctor", h, n, x>>
  /\ UNCHANGED ref

CopyConstruct(h, g) ==
  /\ ~Live(h) /\ Live(g)
  /\ Rebind(h, backend_[g], Content(g))
  /\ Drop({g})
  /\ call' = <<"copy_ctor", h, g>>

\* copy(): a deep copy, whether or not g is shared.
Copy(h, g) ==
  /\ ~Live(h) /\ Live(g)
  /\ \E b \in Backends : Fresh(b) /\ Rebind(h, b, Content(g))
  /\ call' = <<"copy", h, g>>
  /\ UNCHANGED ref

\* Fault: the backend is freed although it is shared.
DestroyFaulty(h) ==
  /\ Live(h)
  /\ backend_' = [backend_ EXCEPT ![h] = NoBackend]
  /\ heap' = [heap EXCEPT ![backend_[h]] = NoVector]
  /\ Drop({h})
  /\ call' = <<"dtor", h>>

Destroy(h) ==
  /\ Live(h)
  /\ backend_' = [backend_ EXCEPT ![h] = NoBackend]
  /\ heap' = [a \in Backends |->
                IF a = backend_[h] /\ unique(h) THEN NoVector ELSE heap[a]]
  /\ Drop({h})
  /\ call' = <<"dtor", h>>

\* operator=(const ThisType&), self-assignment included.
Assign(h, g) ==
  /\ Live(h) /\ Live(g)
  /\ Rebind(h, backend_[g], Content(g))
  /\ Drop({h, g})
  /\ call' = <<"assign", h, g>>

AssignScalar(h, x) ==
  /\ Live(h)
  /\ Writes(h, [i \in DOMAIN Content(h) |-> x])
  /\ call' = <<"assign_scalar", h, x>>
  /\ Keep

\* operator=(const BackendType&): always a new backend.
AssignBackend(h, v) ==
  /\ Live(h)
  /\ \E b \in Backends : Fresh(b) /\ Rebind(h, b, v)
  /\ Drop({h})
  /\ call' = <<"assign_backend", h, v>>

-----------------------------------------------------------------------------
(* Exposed references. *)

\* backend() const makes the deep copy as well, but hands out no right to write.
ConstBackend(h) ==
  /\ Live(h)
  /\ Writes(h, Content(h))
  /\ call' = <<"backend", h>>
  /\ Keep

\* Fault: a reference to a shared backend.
BackendFaulty(h) ==
  /\ Live(h)
  /\ ref' = [ref EXCEPT ![h] = backend_[h]]
  /\ call' = <<"backend", h>>
  /\ UNCHANGED <<backend_, heap>>

\* backend(), operator[], begin(): a reference that can be written through.
Backend(h) ==
  /\ Live(h)
  /\ Writes(h, Content(h))
  /\ ref' = [ref EXCEPT ![h] = backend_'[h]]
  /\ call' = <<"backend", h>>

\* EigenDenseMatrix::data() does not go through backend().
EigenMatrixData(h) ==
  /\ Live(h)
  /\ ref' = [ref EXCEPT ![h] = backend_[h]]
  /\ call' = <<"backend", h>>
  /\ UNCHANGED <<backend_, heap>>

data(h) == IF Flavour = "eigen_matrix" THEN EigenMatrixData(h) ELSE Backend(h)

\* The user writes through the reference last taken from h.
WriteThrough(h, i, x) ==
  /\ ref[h] # NoBackend
  /\ i \in DOMAIN heap[ref[h]]
  /\ heap' = [heap EXCEPT ![ref[h]] = WithEntry(heap[ref[h]], i, x)]
  /\ call' = <<"write_ref", h, i, x>>
  /\ UNCHANGED <<backend_, ref>>

-----------------------------------------------------------------------------
(* Entries and BLAS operations. *)

SetEntry(h, i, x) ==
  /\ Live(h)
  /\ i \in DOMAIN Content(h)
  /\ Writes(h, WithEntry(Content(h), i, x))
  /\ call' = <<"set_entry", h, i, x>>
  /\ Keep

AddToEntry(h, i, x) ==
  /\ Live(h)
  /\ i \in DOMAIN Content(h)
  /\ Writes(h, WithEntry(Content(h), i, (Content(h)[i] + x) % Modulus))
  /\ call' = <<"add_to_entry", h, i, x>>
  /\ Keep

Scal(h, a) ==
  /\ Live(h)
  /\ Writes(h, Scaled(a, Content(h)))
  /\ call' = <<"scal", h, a>>
  /\ Keep

\* The uniqueness of this only is ensured; xx is read where it is.
CommonAxpy(h, a, g) == Writes(h, Plus(Content(h), Scaled(a, Content(g))))

\* `backend() += alpha * xx.backend()`: both handles are made unique, in the
\* order the compiler chooses.
EigenAxpy(h, a, g) ==
  LET sum == Plus(Content(h), Scaled(a, Content(g)))
      sharedByOthers == \E k \in Handles \ {h, g} : backend_[k] = backend_[h]
  IN  IF h = g THEN Writes(h, sum)
      ELSE \E b, d \in Backends :
             /\ b # d
             /\ IF backend_[h] # backend_[g]
                THEN ensure_uniqueness(h, b) /\ ensure_uniqueness(g, d)
                ELSE \/ Fresh(b) /\ Fresh(d) /\ sharedByOthers
                     \/ Fresh(b) /\ d = backend_[g] /\ ~sharedByOthers
                     \/ b = backend_[h] /\ Fresh(d) /\ ~sharedByOthers
             /\ heap' = [heap EXCEPT ![b] = sum, ![d] = Content(g)]
             /\ backend_' = [backend_ EXCEPT ![h] = b, ![g] = d]

Axpy(h, a, g) ==
  /\ Live(h) /\ Live(g) /\ SameSize(Content(h), Content(g))
  /\ IF Flavour = "eigen" THEN EigenAxpy(h, a, g) ELSE CommonAxpy(h, a, g)
  /\ call' = <<"axpy", h, a, g>>
  /\ Keep

IAdd(h, g) ==
  /\ Live(h) /\ Live(g) /\ SameSize(Content(h), Content(g))
  /\ Writes(h, Plus(Content(h), Content(g)))
  /\ call' = <<"iadd", h, g>>
  /\ Keep

ISub(h, g) ==
  /\ Live(h) /\ Live(g) /\ SameSize(Content(h), Content(g))
  /\ Writes(h, Minus(Content(h), Content(g)))
  /\ call' = <<"isub", h, g>>
  /\ Keep

\* IstlDenseVector: `result.backend() = *backend_; result.backend() += *other.backend_`.
\* When result is the other summand, it holds this by the time it is added.
IstlSummand(h, g, r) == IF g = r THEN Content(h) ELSE Content(g)
Summand(h, g, r) == IF Flavour = "istl" THEN IstlSummand(h, g, r) ELSE Content(g)

Add(h, g, r) ==
  /\ Live(h) /\ Live(g) /\ Live(r)
  /\ SameSize(Content(h), Content(g)) /\ SameSize(Content(h), Content(r))
  /\ Writes(r, Plus(Content(h), Summand(h, g, r)))
  /\ call' = <<"add", h, g, r>>
  /\ Keep

Sub(h, g, r) ==
  /\ Live(h) /\ Live(g) /\ Live(r)
  /\ SameSize(Content(h), Content(g)) /\ SameSize(Content(h), Content(r))
  /\ Writes(r, Minus(Content(h), Summand(h, g, r)))
  /\ call' = <<"sub", h, g, r>>
  /\ Keep

\* operator+: a copy() of h, to which g is added in place.
Sum(r, h, g) ==
  /\ ~Live(r) /\ Live(h) /\ Live(g) /\ SameSize(Content(h), Content(g))
  /\ \E b \in Backends : Fresh(b) /\ Rebind(r, b, Plus(Content(h), Content(g)))
  /\ call' = <<"operator+", r, h, g>>
  /\ UNCHANGED ref

-----------------------------------------------------------------------------
Lifetime(h) ==
  \/ \E n \in Sizes, x \in Scalars : Construct(h, n, x)
  \/ Destroy(h)
  \/ \E g \in Handles : CopyConstruct(h, g) \/ Copy(h, g) \/ Assign(h, g)
  \/ \E x \in Scalars : AssignScalar(h, x)
  \/ \E v \in Vectors : AssignBackend(h, v)

References(h) ==
  \/ ConstBackend(h)
  \/ Backend(h)
  \/ data(h)
  \/ \E n \in Sizes : \E i \in 1 .. n, x \in Scalars : WriteThrough(h, i, x)

Arithmetic(h) ==
  \/ \E n \in Sizes : \E i \in 1 .. n, x \in Scalars :
        SetEntry(h, i, x) \/ AddToEntry(h, i, x)
  \/ \E a \in Scalars : Scal(h, a)
  \/ \E g \in Handles :
        \/ IAdd(h, g) \/ ISub(h, g)
        \/ \E a \in Scalars : Axpy(h, a, g)
        \/ \E r \in Handles : Add(h, g, r) \/ Sub(h, g, r) \/ Sum(r, h, g)

Next == \E h \in Handles : Lifetime(h) \/ References(h) \/ Arithmetic(h)

Spec == Init /\ [][Next]_vars

-----------------------------------------------------------------------------
(* Properties. *)

\* A backend is allocated exactly as long as some handle owns it: nothing is
\* freed under a handle, nothing outlives its last owner, through every chain
\* of copies, assignments and deep copies.
HeapMatchesOwners ==
  \A b \in Backends : heap[b] # NoVector <=> \E h \in Handles : backend_[h] = b

\* A reference that may still be used points to the backend its handle owns,
\* and nobody else owns that backend: a write through it is seen through
\* this handle only (container-interface.hh:115-118).
ExposedIsExclusive ==
  \A h \in Handles : ref[h] # NoBackend => ref[h] = backend_[h] /\ unique(h)

\* The containers have value semantics: sharing cannot be observed.
VC == INSTANCE ValueContainer WITH
        val <- [h \in Handles |-> IF backend_[h] = NoBackend THEN NoVector
                                  ELSE heap[backend_[h]]]
ValueSemantics == VC!Spec

\* add(other, result) leaves "the result of this + other" in result
\* (vector-interface.hh:274), whichever objects the three are.
AddWritesTheSum ==
  [][\A h, g, r \in Handles :
        call' = <<"add", h, g, r>> => Content(r)' = Plus(Content(h), Content(g))]_vars

\* For model checking: what may be renamed.
Symmetry == Permutations(Backends) \cup Permutations(Handles)
=============================================================================
