------------------------ MODULE CowContainer_proofs ------------------------
(***************************************************************************)
(* Proofs about CowContainer, for any number of handles, addresses, sizes  *)
(* and scalars.                                                            *)
(*                                                                         *)
(* Ownership is an invariant of all classes, on the strength of the users' *)
(* discipline that a reference points into the backend of its handle       *)
(* (Home).  With it the exclusive references are one of all but            *)
(* EigenDenseMatrix: a deep copy goes to an address nobody owns, so no     *)
(* reference into another handle's backend can come to be shared.  Every   *)
(* write is a Rebind, so the argument is made once, for Rebind, and cited  *)
(* by each method.                                                         *)
(***************************************************************************)
EXTENDS CowContainer, TLAPS

\* A reference points into the backend of its handle, or nowhere.
Home == \A h \in Handles : ref[h] # NoBackend => ref[h] = backend_[h]

\* The inductive invariant of all classes, and that of all but EigenDenseMatrix.
Owned == TypeOK /\ HeapMatchesOwners /\ Home
IInv  == Owned /\ ExposedIsExclusive

\* What every step but EigenDenseMatrix::data() preserves.
Preserved == Owned' /\ (ExposedIsExclusive => ExposedIsExclusive')

value == [h \in Handles |-> IF backend_[h] = NoBackend THEN NoVector
                            ELSE heap[backend_[h]]]

-----------------------------------------------------------------------------
(* The vector operations stay inside Vectors. *)

LEMMA VectorMap ==
  ASSUME NEW u \in Vectors, NEW w, DOMAIN w = DOMAIN u,
         w = [i \in DOMAIN w |-> w[i]],
         \A i \in DOMAIN w : w[i] \in Scalars
  PROVE  w \in Vectors
<1>1. PICK n \in Sizes : u \in [1 .. n -> Scalars]
  BY DEF Vectors
<1>2. DOMAIN w = 1 .. n
  BY <1>1
<1>3. w \in [1 .. n -> Scalars]
  BY <1>2
<1> QED BY <1>3 DEF Vectors

LEMMA ModScalar == \A k \in Int : k % Modulus \in Scalars
  BY ModulusAssumption DEF Scalars

LEMMA EntryScalar == ASSUME NEW u \in Vectors, NEW i \in DOMAIN u
                     PROVE  u[i] \in Scalars /\ u[i] \in Int
<1>1. PICK n \in Sizes : u \in [1 .. n -> Scalars]
  BY DEF Vectors
<1>2. u[i] \in Scalars
  BY <1>1
<1> QED BY <1>2, ModulusAssumption DEF Scalars

LEMMA ScalarInt == Scalars \subseteq Int
  BY ModulusAssumption DEF Scalars

LEMMA PlusVector ==
  ASSUME NEW u \in Vectors, NEW v \in Vectors, SameSize(u, v)
  PROVE  Plus(u, v) \in Vectors /\ SameSize(u, Plus(u, v))
<1>1. \A i \in DOMAIN u : (u[i] + v[i]) % Modulus \in Scalars
  BY EntryScalar, ModScalar DEF SameSize
<1> QED BY <1>1, VectorMap DEF Plus, SameSize

LEMMA MinusVector ==
  ASSUME NEW u \in Vectors, NEW v \in Vectors, SameSize(u, v)
  PROVE  Minus(u, v) \in Vectors
<1>1. \A i \in DOMAIN u : (u[i] - v[i]) % Modulus \in Scalars
  BY EntryScalar, ModScalar DEF SameSize
<1> QED BY <1>1, VectorMap DEF Minus, SameSize

LEMMA ScaledVector ==
  ASSUME NEW u \in Vectors, NEW a \in Scalars
  PROVE  Scaled(a, u) \in Vectors /\ SameSize(u, Scaled(a, u))
<1>1. \A i \in DOMAIN u : (a * u[i]) % Modulus \in Scalars
  BY EntryScalar, ModScalar, ScalarInt
<1> QED BY <1>1, VectorMap DEF Scaled, SameSize

LEMMA WithEntryVector ==
  ASSUME NEW u \in Vectors, NEW i \in DOMAIN u, NEW x \in Scalars
  PROVE  WithEntry(u, i, x) \in Vectors
<1>1. \A j \in DOMAIN u : WithEntry(u, i, x)[j] \in Scalars
  BY EntryScalar DEF WithEntry
<1> QED BY <1>1, VectorMap DEF WithEntry

LEMMA ConstantVector ==
  ASSUME NEW n \in Sizes, NEW x \in Scalars
  PROVE  Constant(n, x) \in Vectors
  BY DEF Constant, Vectors

LEMMA FilledVector ==
  ASSUME NEW u \in Vectors, NEW x \in Scalars
  PROVE  [i \in DOMAIN u |-> x] \in Vectors
  BY VectorMap

-----------------------------------------------------------------------------
(* The heap keeps to its owners. *)

\* The backend of a constructed handle is allocated and holds a vector.
LEMMA LiveContent ==
  ASSUME Owned, NEW h \in Handles, Live(h)
  PROVE  backend_[h] \in Backends /\ Content(h) \in Vectors
<1>1. backend_[h] \in Backends
  BY DEF Owned, TypeOK, Live
<1>2. heap[backend_[h]] # NoVector
  BY <1>1 DEF Owned, HeapMatchesOwners
<1> QED BY <1>1, <1>2 DEF Owned, TypeOK, Content

\* Rebinding a handle to any address, with any vector, keeps the heap right.
LEMMA RebindInv ==
  ASSUME Owned, NEW h \in Handles, NEW b \in Backends, NEW v \in Vectors,
         Rebind(h, b, v)
  PROVE  /\ backend_' \in [Handles -> Backends \cup {NoBackend}]
         /\ heap' \in [Backends -> Vectors \cup {NoVector}]
         /\ HeapMatchesOwners'
         /\ backend_'[h] = b /\ \A k \in Handles \ {h} : backend_'[k] = backend_[k]
<1>1. backend_' \in [Handles -> Backends \cup {NoBackend}]
  BY DEF Owned, TypeOK, Rebind
<1>2. heap' \in [Backends -> Vectors \cup {NoVector}]
  BY DEF Owned, TypeOK, Rebind
<1>3. backend_'[h] = b /\ \A k \in Handles \ {h} : backend_'[k] = backend_[k]
  BY DEF Rebind, Owned, TypeOK
<1>4. HeapMatchesOwners'
  <2> SUFFICES ASSUME NEW a \in Backends
               PROVE  heap'[a] # NoVector <=> \E k \in Handles : backend_'[k] = a
    BY DEF HeapMatchesOwners
  <2>1. CASE a = b
    <3>1. heap'[a] = v
      BY <2>1 DEF Rebind
    <3> QED BY <3>1, <1>3, <2>1, NoVectorAssumption
  <2>2. CASE a # b /\ a = backend_[h] /\ unique(h)
    <3>1. heap'[a] = NoVector
      BY <2>2 DEF Rebind
    <3> QED BY <3>1, <1>3, <2>2 DEF unique
  <2>3. CASE a # b /\ ~(a = backend_[h] /\ unique(h))
    <3>1. heap'[a] = heap[a]
      BY <2>3 DEF Rebind
    <3>2. (\E k \in Handles : backend_'[k] = a) <=> \E k \in Handles : backend_[k] = a
      BY <1>3, <2>3 DEF unique
    <3> QED BY <3>1, <3>2 DEF Owned, HeapMatchesOwners
  <2> QED BY <2>1, <2>2, <2>3
<1> QED BY <1>1, <1>2, <1>3, <1>4

\* A handle that exposed a reference keeps its backend to itself when another
\* handle is rebound, unless to that very backend.
LEMMA RebindExclusive ==
  ASSUME Owned, ExposedIsExclusive,
         NEW h \in Handles, NEW b \in Backends, NEW v, Rebind(h, b, v),
         NEW k \in Handles \ {h}, ref[k] # NoBackend, b # backend_[k]
  PROVE  ref[k] = backend_'[k] /\ unique(k)'
<1>1. backend_'[h] = b /\ \A g \in Handles \ {h} : backend_'[g] = backend_[g]
  BY DEF Rebind, Owned, TypeOK
<1>2. ref[k] = backend_[k] /\ unique(k)
  BY DEF ExposedIsExclusive
<1> QED BY <1>1, <1>2 DEF unique

\* A freshly allocated backend is nobody's.
LEMMA FreshNotOwned ==
  ASSUME Owned, NEW b \in Backends, Fresh(b), NEW k \in Handles
  PROVE  backend_[k] # b
  BY DEF Owned, HeapMatchesOwners, Fresh

\* The references that stay point home.
LEMMA KeepHome ==
  ASSUME Owned, Keep
  PROVE  /\ ref' \in [Handles -> Backends \cup {NoBackend}]
         /\ Home'
         /\ \A k \in Handles : ref'[k] # NoBackend => ref'[k] = ref[k] /\ backend_'[k] = backend_[k]
<1>1. \A k \in Handles : ref'[k] = IF backend_'[k] = backend_[k] THEN ref[k] ELSE NoBackend
  BY DEF Keep
<1>2. ref' \in [Handles -> Backends \cup {NoBackend}]
  BY DEF Keep, Owned, TypeOK
<1>3. Home'
  BY <1>1 DEF Owned, Home
<1> QED BY <1>1, <1>2, <1>3

LEMMA WritesInv ==
  ASSUME Owned, NEW h \in Handles, NEW v \in Vectors, Live(h), Writes(h, v), Keep
  PROVE  Preserved
<1>1. PICK b \in Backends : ensure_uniqueness(h, b) /\ Rebind(h, b, v)
  BY DEF Writes
<1>2. Owned'
  BY <1>1, RebindInv, KeepHome DEF Owned, TypeOK
<1>3. ASSUME ExposedIsExclusive
      PROVE  ExposedIsExclusive'
  <2> SUFFICES ASSUME NEW k \in Handles, ref'[k] # NoBackend
               PROVE  ref'[k] = backend_'[k] /\ unique(k)'
    BY DEF ExposedIsExclusive
  <2>1. ref'[k] = ref[k] /\ ref[k] = backend_[k] /\ unique(k) /\ backend_'[k] = backend_[k]
    BY <1>3, KeepHome DEF ExposedIsExclusive
  <2>2. CASE k = h
    <3>1. backend_' = backend_
      BY <1>1, <2>1, <2>2 DEF Rebind, Owned, TypeOK
    <3> QED BY <3>1, <2>1 DEF unique
  <2>3. CASE k # h
    <3>1. b # backend_[k]
      BY <1>1, <2>1, <2>3, FreshNotOwned DEF ensure_uniqueness, unique
    <3> QED BY <1>1, <1>3, <2>1, <2>3, <3>1, RebindExclusive
  <2> QED BY <2>2, <2>3
<1> QED BY <1>2, <1>3 DEF Preserved

\* A new object on an address nobody owns.
LEMMA NewInv ==
  ASSUME Owned, NEW h \in Handles, ~Live(h), NEW b \in Backends, Fresh(b),
         NEW v \in Vectors, Rebind(h, b, v), UNCHANGED ref
  PROVE  Preserved
<1>1. ref[h] = NoBackend
  BY DEF Owned, Home, Live
<1>2. Owned'
  <2>1. Home'
    BY <1>1, RebindInv DEF Owned, Home
  <2> QED BY <2>1, RebindInv DEF Owned, TypeOK
<1>3. ASSUME ExposedIsExclusive
      PROVE  ExposedIsExclusive'
  BY <1>1, <1>3, RebindExclusive, FreshNotOwned DEF ExposedIsExclusive
<1> QED BY <1>2, <1>3 DEF Preserved

\* Sharing the backend of g, and dropping the references taken from it.
LEMMA ShareInv ==
  ASSUME Owned, NEW h \in Handles, NEW g \in Handles, Live(g),
         Rebind(h, backend_[g], Content(g)), ref[h] = NoBackend \/ ref'[h] = NoBackend,
         \A k \in Handles : ref'[k] = NoBackend \/ ref'[k] = ref[k],
         ref'[g] = NoBackend,
         ref' \in [Handles -> Backends \cup {NoBackend}]
  PROVE  Preserved
<1>1. backend_[g] \in Backends /\ Content(g) \in Vectors
  BY LiveContent
<1>2. Owned'
  <2>1. Home'
    BY <1>1, RebindInv DEF Owned, Home
  <2> QED BY <1>1, <2>1, RebindInv DEF Owned, TypeOK
<1>3. ASSUME ExposedIsExclusive
      PROVE  ExposedIsExclusive'
  <2> SUFFICES ASSUME NEW k \in Handles, ref'[k] # NoBackend
               PROVE  ref'[k] = backend_'[k] /\ unique(k)'
    BY DEF ExposedIsExclusive
  <2>1. ref'[k] = ref[k] /\ k # h /\ k # g
    OBVIOUS
  <2>2. backend_[g] # backend_[k]
    BY <1>3, <2>1 DEF ExposedIsExclusive, unique
  <2> QED BY <1>1, <1>3, <2>1, <2>2, RebindExclusive
<1> QED BY <1>2, <1>3 DEF Preserved

LEMMA DropType ==
  ASSUME Owned, NEW H, Drop(H)
  PROVE  ref' \in [Handles -> Backends \cup {NoBackend}]
  BY DEF Owned, TypeOK, Drop

LEMMA LifetimeInv ==
  ASSUME Owned, NEW h \in Handles, Lifetime(h)
  PROVE  Preserved
<1>1. ASSUME NEW n \in Sizes, NEW x \in Scalars, Construct(h, n, x) PROVE Preserved
  BY <1>1, ConstantVector, NewInv DEF Construct
<1>2. CASE Destroy(h)
  <2>1. /\ backend_' \in [Handles -> Backends \cup {NoBackend}]
        /\ heap' \in [Backends -> Vectors \cup {NoVector}]
    BY <1>2 DEF Destroy, Owned, TypeOK
  <2>2. backend_'[h] = NoBackend /\ \A k \in Handles \ {h} : backend_'[k] = backend_[k]
    BY <1>2 DEF Destroy, Owned, TypeOK
  <2>3. HeapMatchesOwners'
    <3> SUFFICES ASSUME NEW a \in Backends
                 PROVE  heap'[a] # NoVector <=> \E k \in Handles : backend_'[k] = a
      BY DEF HeapMatchesOwners
    <3>1. heap'[a] = IF a = backend_[h] /\ unique(h) THEN NoVector ELSE heap[a]
      BY <1>2 DEF Destroy
    <3> QED BY <2>2, <3>1, NoBackendAssumption DEF unique, Owned, HeapMatchesOwners
  <2>4. \A k \in Handles : ref'[k] = IF k = h THEN NoBackend ELSE ref[k]
    BY <1>2 DEF Destroy, Drop
  <2>5. Home'
    BY <2>2, <2>4 DEF Owned, Home
  <2>6. ASSUME ExposedIsExclusive
        PROVE  ExposedIsExclusive'
    <3> SUFFICES ASSUME NEW k \in Handles, ref'[k] # NoBackend
                 PROVE  ref'[k] = backend_'[k] /\ unique(k)'
      BY DEF ExposedIsExclusive
    <3>1. ref'[k] = ref[k] /\ k # h
      BY <2>4
    <3>2. ref[k] = backend_[k] /\ unique(k) /\ ref[k] # NoBackend
      BY <2>6, <3>1 DEF ExposedIsExclusive
    <3>3. ref[k] \in Backends
      BY <3>2 DEF Owned, TypeOK
    <3> QED BY <2>2, <3>1, <3>2, <3>3, NoBackendAssumption DEF unique
  <2> QED BY <1>2, <2>1, <2>3, <2>5, <2>6, DropType DEF Owned, TypeOK, Destroy, Preserved
<1>3. ASSUME NEW g \in Handles, CopyConstruct(h, g) PROVE Preserved
  <2>1. ref[h] = NoBackend
    BY <1>3 DEF CopyConstruct, Owned, Home, Live
  <2>2. ref' \in [Handles -> Backends \cup {NoBackend}]
    BY <1>3, DropType DEF CopyConstruct
  <2> QED BY <1>3, <2>1, <2>2, ShareInv DEF CopyConstruct, Drop
<1>4. ASSUME NEW g \in Handles, Copy(h, g) PROVE Preserved
  BY <1>4, LiveContent, NewInv DEF Copy
<1>5. ASSUME NEW g \in Handles, Assign(h, g) PROVE Preserved
  <2>1. ref' \in [Handles -> Backends \cup {NoBackend}]
    BY <1>5, DropType DEF Assign
  <2> QED BY <1>5, <2>1, ShareInv DEF Assign, Drop
<1>6. ASSUME NEW x \in Scalars, AssignScalar(h, x) PROVE Preserved
  <2>1. [i \in DOMAIN Content(h) |-> x] \in Vectors
    BY <1>6, LiveContent, FilledVector DEF AssignScalar
  <2> QED BY <1>6, <2>1, WritesInv DEF AssignScalar
<1>7. ASSUME NEW v \in Vectors, AssignBackend(h, v) PROVE Preserved
  <2>1. PICK b \in Backends : Fresh(b) /\ Rebind(h, b, v)
    BY <1>7 DEF AssignBackend
  <2>2. ref' \in [Handles -> Backends \cup {NoBackend}]
    BY <1>7, DropType DEF AssignBackend
  <2>3. \A k \in Handles : ref'[k] = IF k = h THEN NoBackend ELSE ref[k]
    BY <1>7 DEF AssignBackend, Drop
  <2>4. Owned'
    <3>1. Home'
      BY <2>1, <2>3, RebindInv DEF Owned, Home
    <3> QED BY <2>1, <2>2, <3>1, RebindInv DEF Owned, TypeOK
  <2>5. ASSUME ExposedIsExclusive
        PROVE  ExposedIsExclusive'
    BY <2>1, <2>3, <2>5, RebindExclusive, FreshNotOwned DEF ExposedIsExclusive
  <2> QED BY <2>4, <2>5 DEF Preserved
<1> QED BY <1>1, <1>2, <1>3, <1>4, <1>5, <1>6, <1>7 DEF Lifetime

\* EigenDenseMatrix::data() may expose a backend that is shared, and keeps to the
\* owners all the same.
LEMMA ReferencesInv ==
  ASSUME Owned, NEW h \in Handles, References(h)
  PROVE  Owned' /\ (Flavour # "eigen_matrix" => Preserved)
<1>1. CASE ConstBackend(h)
  BY <1>1, LiveContent, WritesInv DEF ConstBackend, Preserved
<1>2. CASE Backend(h)
  <2>1. Content(h) \in Vectors
    BY <1>2, LiveContent DEF Backend
  <2>2. PICK b \in Backends : ensure_uniqueness(h, b) /\ Rebind(h, b, Content(h))
    BY <1>2 DEF Backend, Writes
  <2>3. /\ backend_'[h] = b
        /\ \A k \in Handles \ {h} : backend_'[k] = backend_[k]
    BY <2>1, <2>2, RebindInv
  <2>4. /\ ref' \in [Handles -> Backends \cup {NoBackend}]
        /\ ref'[h] = b
        /\ \A k \in Handles \ {h} : ref'[k] = ref[k]
    BY <1>2, <2>3 DEF Backend, Owned, TypeOK
  <2>5. \A k \in Handles \ {h} : b # backend_[k]
    BY <2>2, FreshNotOwned DEF ensure_uniqueness, unique
  <2>6. unique(h)'
    BY <2>3, <2>5 DEF unique
  <2>7. Owned'
    <3>1. Home'
      BY <2>3, <2>4 DEF Owned, Home
    <3> QED BY <2>1, <2>2, <2>4, <3>1, RebindInv DEF Owned, TypeOK
  <2>8. ASSUME ExposedIsExclusive
        PROVE  ExposedIsExclusive'
    BY <2>2, <2>3, <2>4, <2>5, <2>6, <2>8, RebindExclusive DEF ExposedIsExclusive
  <2> QED BY <2>7, <2>8 DEF Preserved
<1>3. CASE EigenMatrixData(h) /\ Flavour = "eigen_matrix"
  <2>1. UNCHANGED <<backend_, heap>> /\ ref' = [ref EXCEPT ![h] = backend_[h]]
    BY <1>3 DEF EigenMatrixData
  <2> QED BY <1>3, <2>1 DEF Owned, TypeOK, HeapMatchesOwners, Home
<1>4. ASSUME NEW i, NEW x \in Scalars, WriteThrough(h, i, x) PROVE Preserved
  <2>1. ref[h] = backend_[h] /\ Live(h)
    BY <1>4 DEF WriteThrough, Owned, Home, Live
  <2>2. backend_[h] \in Backends /\ Content(h) \in Vectors
    BY <2>1, LiveContent
  <2>3. WithEntry(Content(h), i, x) \in Vectors
    BY <1>4, <2>1, <2>2, WithEntryVector DEF WriteThrough, Content
  <2>4. heap' = [heap EXCEPT ![backend_[h]] = WithEntry(Content(h), i, x)]
    BY <1>4, <2>1 DEF WriteThrough, Content
  <2>5. TypeOK'
    BY <1>4, <2>2, <2>3, <2>4 DEF WriteThrough, Owned, TypeOK
  <2>6. HeapMatchesOwners'
    BY <1>4, <2>2, <2>3, <2>4, NoVectorAssumption
       DEF WriteThrough, Owned, TypeOK, HeapMatchesOwners
  <2> QED BY <1>4, <2>5, <2>6 DEF WriteThrough, Owned, Home, ExposedIsExclusive, unique, Preserved
<1> QED BY <1>1, <1>2, <1>3, <1>4 DEF References, data, Preserved

\* The two handles of EigenBaseVector::axpy, made unique in either order.
LEMMA EigenAxpyInv ==
  ASSUME Owned, NEW h \in Handles, NEW g \in Handles, NEW a \in Scalars,
         Live(h), Live(g), SameSize(Content(h), Content(g)),
         EigenAxpy(h, a, g), Keep
  PROVE  Preserved
<1> DEFINE sum == Plus(Content(h), Scaled(a, Content(g)))
<1>1. /\ backend_[h] \in Backends /\ Content(h) \in Vectors
      /\ backend_[g] \in Backends /\ Content(g) \in Vectors
  BY LiveContent
<1>2. sum \in Vectors
  BY <1>1, ScaledVector, PlusVector DEF SameSize
<1>3. CASE h = g
  BY <1>2, <1>3, WritesInv DEF EigenAxpy
<1>4. CASE h # g
  <2>1. PICK b \in Backends, d \in Backends :
          /\ b # d
          /\ IF backend_[h] # backend_[g]
             THEN ensure_uniqueness(h, b) /\ ensure_uniqueness(g, d)
             ELSE \/ Fresh(b) /\ Fresh(d) /\ \E k \in Handles \ {h, g} : backend_[k] = backend_[h]
                  \/ Fresh(b) /\ d = backend_[g] /\ ~\E k \in Handles \ {h, g} : backend_[k] = backend_[h]
                  \/ b = backend_[h] /\ Fresh(d) /\ ~\E k \in Handles \ {h, g} : backend_[k] = backend_[h]
          /\ heap' = [heap EXCEPT ![b] = sum, ![d] = Content(g)]
          /\ backend_' = [backend_ EXCEPT ![h] = b, ![g] = d]
    BY <1>4 DEF EigenAxpy
  <2>2. \A k \in Handles \ {h, g} : backend_[k] # b /\ backend_[k] # d
    BY <2>1, FreshNotOwned DEF ensure_uniqueness, unique
  <2>3. \A c \in {backend_[h], backend_[g]} \ {b, d} :
          \E k \in Handles \ {h, g} : backend_[k] = c
    BY <2>1 DEF ensure_uniqueness, unique
  <2>4. /\ backend_'[h] = b /\ backend_'[g] = d
        /\ \A k \in Handles \ {h, g} : backend_'[k] = backend_[k]
        /\ backend_' \in [Handles -> Backends \cup {NoBackend}]
    BY <1>4, <2>1 DEF Owned, TypeOK
  <2>5. /\ heap' \in [Backends -> Vectors \cup {NoVector}]
        /\ heap'[b] # NoVector /\ heap'[d] # NoVector
        /\ \A c \in Backends \ {b, d} : heap'[c] = heap[c]
    BY <1>1, <1>2, <2>1, NoVectorAssumption DEF Owned, TypeOK
  <2>6. HeapMatchesOwners'
    <3> SUFFICES ASSUME NEW c \in Backends
                 PROVE  heap'[c] # NoVector <=> \E k \in Handles : backend_'[k] = c
      BY DEF HeapMatchesOwners
    <3>1. CASE c \in {b, d}
      BY <2>4, <2>5, <3>1
    <3>2. CASE c \notin {b, d}
      <4>1. heap[c] # NoVector <=> \E k \in Handles : backend_[k] = c
        BY DEF Owned, HeapMatchesOwners
      <4> QED BY <2>3, <2>4, <2>5, <3>2, <4>1
    <3> QED BY <3>1, <3>2
  <2>7. ASSUME ExposedIsExclusive
        PROVE  ExposedIsExclusive'
    <3> SUFFICES ASSUME NEW k \in Handles, ref'[k] # NoBackend
                 PROVE  ref'[k] = backend_'[k] /\ unique(k)'
      BY DEF ExposedIsExclusive
    <3>1. ref'[k] = ref[k] /\ ref[k] = backend_[k] /\ unique(k) /\ backend_'[k] = backend_[k]
      BY <2>7, KeepHome DEF ExposedIsExclusive
    <3>2. \A j \in Handles \ {k} : backend_'[j] # backend_'[k]
      BY <1>4, <2>1, <2>2, <2>4, <3>1 DEF unique
    <3> QED BY <3>1, <3>2 DEF unique
  <2> QED BY <2>4, <2>5, <2>6, <2>7, KeepHome DEF Owned, TypeOK, Preserved
<1> QED BY <1>3, <1>4

LEMMA ArithmeticInv ==
  ASSUME Owned, NEW h \in Handles, Arithmetic(h)
  PROVE  Preserved
<1>1. ASSUME NEW i, NEW x \in Scalars, SetEntry(h, i, x) PROVE Preserved
  <2>1. WithEntry(Content(h), i, x) \in Vectors
    BY <1>1, LiveContent, WithEntryVector DEF SetEntry
  <2> QED BY <1>1, <2>1, WritesInv DEF SetEntry
<1>2. ASSUME NEW i, NEW x \in Scalars, AddToEntry(h, i, x) PROVE Preserved
  <2>1. Content(h) \in Vectors
    BY <1>2, LiveContent DEF AddToEntry
  <2>2. (Content(h)[i] + x) % Modulus \in Scalars
    BY <1>2, <2>1, EntryScalar, ScalarInt, ModScalar DEF AddToEntry
  <2>3. WithEntry(Content(h), i, (Content(h)[i] + x) % Modulus) \in Vectors
    BY <1>2, <2>1, <2>2, WithEntryVector DEF AddToEntry
  <2> QED BY <1>2, <2>3, WritesInv DEF AddToEntry
<1>3. ASSUME NEW a \in Scalars, Scal(h, a) PROVE Preserved
  <2>1. Scaled(a, Content(h)) \in Vectors
    BY <1>3, LiveContent, ScaledVector DEF Scal
  <2> QED BY <1>3, <2>1, WritesInv DEF Scal
<1>4. ASSUME NEW g \in Handles, IAdd(h, g) PROVE Preserved
  <2>1. Plus(Content(h), Content(g)) \in Vectors
    BY <1>4, LiveContent, PlusVector DEF IAdd
  <2> QED BY <1>4, <2>1, WritesInv DEF IAdd
<1>5. ASSUME NEW g \in Handles, ISub(h, g) PROVE Preserved
  <2>1. Minus(Content(h), Content(g)) \in Vectors
    BY <1>5, LiveContent, MinusVector DEF ISub
  <2> QED BY <1>5, <2>1, WritesInv DEF ISub
<1>6. ASSUME NEW g \in Handles, NEW a \in Scalars, Axpy(h, a, g) PROVE Preserved
  <2>1. /\ Live(h) /\ Live(g) /\ SameSize(Content(h), Content(g)) /\ Keep
    BY <1>6 DEF Axpy
  <2>2. CASE Flavour = "eigen"
    BY <1>6, <2>1, <2>2, EigenAxpyInv DEF Axpy
  <2>3. CASE Flavour # "eigen"
    <3>1. Content(h) \in Vectors /\ Content(g) \in Vectors
      BY <2>1, LiveContent
    <3>2. Plus(Content(h), Scaled(a, Content(g))) \in Vectors
      BY <2>1, <3>1, ScaledVector, PlusVector DEF SameSize
    <3> QED BY <1>6, <2>1, <2>3, <3>2, WritesInv DEF Axpy, CommonAxpy
  <2> QED BY <2>2, <2>3
<1>7. ASSUME NEW g \in Handles, NEW r \in Handles, Add(h, g, r) PROVE Preserved
  <2>1. Content(h) \in Vectors /\ Summand(h, g, r) \in Vectors
        /\ SameSize(Content(h), Summand(h, g, r))
    BY <1>7, LiveContent DEF Add, Summand, IstlSummand, SameSize
  <2> QED BY <1>7, <2>1, PlusVector, WritesInv DEF Add
<1>8. ASSUME NEW g \in Handles, NEW r \in Handles, Sub(h, g, r) PROVE Preserved
  <2>1. Content(h) \in Vectors /\ Summand(h, g, r) \in Vectors
        /\ SameSize(Content(h), Summand(h, g, r))
    BY <1>8, LiveContent DEF Sub, Summand, IstlSummand, SameSize
  <2> QED BY <1>8, <2>1, MinusVector, WritesInv DEF Sub
<1>9. ASSUME NEW g \in Handles, NEW r \in Handles, Sum(r, h, g) PROVE Preserved
  <2>1. Plus(Content(h), Content(g)) \in Vectors
    BY <1>9, LiveContent, PlusVector DEF Sum
  <2> QED BY <1>9, <2>1, NewInv DEF Sum
<1> QED BY <1>1, <1>2, <1>3, <1>4, <1>5, <1>6, <1>7, <1>8, <1>9 DEF Arithmetic

-----------------------------------------------------------------------------
(* The invariant, and what follows from it. *)

LEMMA InitInv == Init => IInv
<1> SUFFICES ASSUME Init PROVE IInv
  OBVIOUS
<1>1. TypeOK
  BY DEF Init, TypeOK
<1>2. HeapMatchesOwners
  BY NoBackendAssumption DEF Init, HeapMatchesOwners
<1>3. Home /\ ExposedIsExclusive
  BY DEF Init, Home, ExposedIsExclusive
<1> QED BY <1>1, <1>2, <1>3 DEF IInv, Owned

LEMMA NextInv ==
  ASSUME Owned, [Next]_vars
  PROVE  Owned' /\ (Flavour # "eigen_matrix" => Preserved)
<1>1. CASE UNCHANGED vars
  BY <1>1 DEF vars, Owned, TypeOK, HeapMatchesOwners, Home, ExposedIsExclusive, unique, Preserved
<1>2. ASSUME NEW h \in Handles, Lifetime(h) \/ References(h) \/ Arithmetic(h)
      PROVE  Owned' /\ (Flavour # "eigen_matrix" => Preserved)
  <2>1. CASE Lifetime(h)
    BY <2>1, LifetimeInv DEF Preserved
  <2>2. CASE References(h)
    BY <2>2, ReferencesInv
  <2>3. CASE Arithmetic(h)
    BY <2>3, ArithmeticInv DEF Preserved
  <2> QED BY <1>2, <2>1, <2>2, <2>3
<1> QED BY <1>1, <1>2 DEF Next

LEMMA OwnedInvariance == Spec => []Owned
<1>1. Init => Owned
  BY InitInv DEF IInv
<1>2. Owned /\ [Next]_vars => Owned'
  BY NextInv
<1> QED BY <1>1, <1>2, PTL DEF Spec

LEMMA Invariance ==
  ASSUME Flavour # "eigen_matrix" PROVE Spec => []IInv
<1>1. Init => IInv
  BY InitInv
<1>2. IInv /\ [Next]_vars => IInv'
  BY NextInv DEF IInv, Preserved
<1> QED BY <1>1, <1>2, PTL DEF Spec

\* Every handle is null or points to an address, every address is free or holds a
\* vector, and every reference points to an address, for all the classes.
THEOREM TypeCorrect == Spec => []TypeOK
<1>1. Owned => TypeOK
  BY DEF Owned
<1> QED BY <1>1, OwnedInvariance, PTL

\* A backend lives exactly as long as it has an owner: however handles are
\* copied, assigned, made unique and destroyed, none is left with a freed
\* backend and no backend is leaked, for all the classes.
THEOREM Ownership == Spec => []HeapMatchesOwners
<1>1. Owned => HeapMatchesOwners
  BY DEF Owned
<1> QED BY <1>1, OwnedInvariance, PTL

\* A reference exposed by backend(), data(), operator[] or an iterator points
\* to a backend its handle is the sole owner of, as long as the handle is not
\* shared or rebound (all classes but EigenDenseMatrix, whose data() exposes a
\* backend that may be shared).
THEOREM Exclusive ==
  ASSUME Flavour # "eigen_matrix" PROVE Spec => []ExposedIsExclusive
<1>1. IInv => ExposedIsExclusive
  BY DEF IInv
<1> QED BY <1>1, Invariance, PTL

-----------------------------------------------------------------------------
(* Refinement: the sharing cannot be seen through the values. *)

VCDefs == /\ VC!Scalars = Scalars
          /\ VC!Vectors = Vectors
          /\ \A u, v : /\ VC!Plus(u, v) = Plus(u, v)
                      /\ VC!Minus(u, v) = Minus(u, v)
                      /\ VC!SameSize(u, v) <=> SameSize(u, v)
          /\ \A u, i, x : VC!WithEntry(u, i, x) = WithEntry(u, i, x)

LEMMA SameVectors == VCDefs
  BY DEF VCDefs, VC!Scalars, VC!Vectors, VC!Plus, VC!Minus, VC!SameSize,
         VC!WithEntry, Scalars, Vectors, Plus, Minus, SameSize, WithEntry

\* value is a function on the handles; a constructed handle's value is its content.
LEMMA ValueOf ==
  ASSUME IInv, NEW h \in Handles
  PROVE  /\ Live(h) <=> value[h] # NoVector
         /\ Live(h) => value[h] = Content(h)
  BY LiveContent, NoVectorAssumption DEF value, Live, Content, IInv

\* Rebinding h changes the value of h, and of h alone.
LEMMA RebindValue ==
  ASSUME IInv, NEW h \in Handles, NEW b \in Backends, NEW v, Rebind(h, b, v),
         \A k \in Handles \ {h} : backend_[k] = b => heap[b] = v
  PROVE  value' = [value EXCEPT ![h] = v]
<1>1. backend_'[h] = b /\ \A k \in Handles \ {h} : backend_'[k] = backend_[k]
  BY DEF Rebind, IInv, Owned, TypeOK
<1>2. value'[h] = v
  BY <1>1, NoBackendAssumption DEF value, Rebind
<1>3. ASSUME NEW k \in Handles \ {h} PROVE value'[k] = value[k]
  <2>1. CASE backend_[k] = NoBackend
    BY <1>1, <2>1 DEF value
  <2>2. CASE backend_[k] = b
    BY <1>1, <2>2 DEF value, Rebind
  <2>3. CASE backend_[k] # NoBackend /\ backend_[k] # b
    <3>1. backend_[k] \in Backends
      BY <2>3 DEF IInv, Owned, TypeOK
    <3>2. heap'[backend_[k]] = heap[backend_[k]]
      BY <2>3, <3>1 DEF Rebind, unique
    <3> QED BY <1>1, <3>2 DEF value
  <2> QED BY <2>1, <2>2, <2>3
<1>4. value = [k \in Handles |-> value[k]] /\ value' = [k \in Handles |-> value'[k]]
  BY Zenon DEF value
<1> QED BY <1>2, <1>3, <1>4

LEMMA FreshValue ==
  ASSUME IInv, NEW h \in Handles, NEW b \in Backends, Fresh(b), NEW v, Rebind(h, b, v)
  PROVE  value' = [value EXCEPT ![h] = v]
  BY FreshNotOwned, RebindValue DEF IInv

LEMMA WritesValue ==
  ASSUME IInv, NEW h \in Handles, NEW v, Writes(h, v)
  PROVE  value' = [value EXCEPT ![h] = v]
<1>1. PICK b \in Backends : ensure_uniqueness(h, b) /\ Rebind(h, b, v)
  BY DEF Writes
<1>2. \A k \in Handles \ {h} : backend_[k] # b
  BY <1>1, FreshNotOwned DEF ensure_uniqueness, unique, IInv
<1> QED BY <1>1, <1>2, RebindValue

LEMMA LifetimeRefines ==
  ASSUME IInv, NEW h \in Handles, Lifetime(h)
  PROVE  VC!Next
<1> USE SameVectors DEF VCDefs
<1>1. ASSUME NEW n \in Sizes, NEW x \in Scalars, Construct(h, n, x)
      PROVE  VC!Construct(h, n, x)
  <2>1. ~Live(h) /\ value' = [value EXCEPT ![h] = Constant(n, x)]
    BY <1>1, FreshValue DEF Construct
  <2>2. VC!Constant(n, x) = Constant(n, x)
    BY DEF VC!Constant, Constant
  <2> QED BY <1>1, <2>1, <2>2, ValueOf DEF Construct, VC!Construct, VC!Live, VC!Sets, value
<1>2. CASE Destroy(h)
  <2>1. value' = [value EXCEPT ![h] = NoVector]
    <3>1. backend_'[h] = NoBackend /\ \A k \in Handles \ {h} : backend_'[k] = backend_[k]
      BY <1>2 DEF Destroy, IInv, Owned, TypeOK
    <3>2. ASSUME NEW k \in Handles \ {h} PROVE value'[k] = value[k]
      <4>1. CASE backend_[k] = NoBackend
        BY <3>1, <4>1 DEF value
      <4>2. CASE backend_[k] # NoBackend
        <5>1. backend_[k] \in Backends
          BY <4>2 DEF IInv, Owned, TypeOK
        <5>2. heap'[backend_[k]] = heap[backend_[k]]
          BY <1>2, <5>1 DEF Destroy, unique
        <5> QED BY <3>1, <5>2 DEF value
      <4> QED BY <4>1, <4>2
    <3> QED BY <3>1, <3>2 DEF value
  <2>2. VC!Destroy(h)
    BY <1>2, <2>1, ValueOf DEF Destroy, VC!Destroy, VC!Live, VC!Sets, value
  <2> QED BY <2>2 DEF VC!Next
<1>3. ASSUME NEW g \in Handles, CopyConstruct(h, g) PROVE VC!CopyConstruct(h, g)
  <2>1. backend_[g] \in Backends
    BY <1>3, LiveContent DEF CopyConstruct, IInv
  <2>2. value' = [value EXCEPT ![h] = Content(g)]
    BY <1>3, <2>1, RebindValue DEF CopyConstruct, Content
  <2> QED BY <1>3, <2>2, ValueOf DEF CopyConstruct, VC!CopyConstruct, VC!Live, VC!Sets, value
<1>4. ASSUME NEW g \in Handles, Copy(h, g) PROVE VC!Copy(h, g)
  BY <1>4, ValueOf, FreshValue DEF Copy, VC!Copy, VC!Live, VC!Sets, value
<1>5. ASSUME NEW g \in Handles, Assign(h, g) PROVE VC!Assign(h, g)
  <2>1. backend_[g] \in Backends
    BY <1>5, LiveContent DEF Assign, IInv
  <2>2. value' = [value EXCEPT ![h] = Content(g)]
    BY <1>5, <2>1, RebindValue DEF Assign, Content
  <2> QED BY <1>5, <2>2, ValueOf DEF Assign, VC!Assign, VC!Live, VC!Sets, value
<1>6. ASSUME NEW x \in Scalars, AssignScalar(h, x) PROVE VC!AssignScalar(h, x)
  <2>1. value' = [value EXCEPT ![h] = [i \in DOMAIN Content(h) |-> x]]
    BY <1>6, WritesValue DEF AssignScalar
  <2> QED BY <1>6, <2>1, ValueOf DEF AssignScalar, VC!AssignScalar, VC!Live, VC!Sets, value
<1>7. ASSUME NEW v \in Vectors, AssignBackend(h, v) PROVE VC!AssignBackend(h, v)
  BY <1>7, ValueOf, FreshValue DEF AssignBackend, VC!AssignBackend, VC!Live, VC!Sets, value
<1> QED BY <1>1, <1>2, <1>3, <1>4, <1>5, <1>6, <1>7 DEF Lifetime, VC!Next

LEMMA ReferencesRefines ==
  ASSUME IInv, Flavour # "eigen_matrix", NEW h \in Handles, References(h)
  PROVE  VC!Next
<1> USE SameVectors DEF VCDefs
<1>1. ASSUME ConstBackend(h) \/ Backend(h) PROVE VC!Expose(h)
  <2>1. value' = [value EXCEPT ![h] = Content(h)]
    BY <1>1, WritesValue DEF ConstBackend, Backend
  <2>2. value' = value
    BY <1>1, <2>1, ValueOf DEF ConstBackend, Backend, value
  <2> QED BY <1>1, <2>2, ValueOf DEF ConstBackend, Backend, VC!Expose, VC!Live, value
<1>2. ASSUME NEW n \in Sizes, NEW i \in 1 .. n, NEW x \in Scalars, WriteThrough(h, i, x)
      PROVE  VC!WriteThrough(h, i, x)
  <2>1. ref[h] = backend_[h] /\ unique(h) /\ Live(h)
    BY <1>2 DEF WriteThrough, IInv, ExposedIsExclusive, Live
  <2>2. backend_[h] \in Backends
    BY <2>1, LiveContent DEF IInv
  <2>3. /\ backend_' = backend_
        /\ heap' = [heap EXCEPT ![backend_[h]] = WithEntry(Content(h), i, x)]
        /\ i \in DOMAIN Content(h)
    BY <1>2, <2>1 DEF WriteThrough, Content
  <2>4. value' = [value EXCEPT ![h] = WithEntry(Content(h), i, x)]
    BY <2>1, <2>2, <2>3 DEF value, unique, IInv, Owned, TypeOK, Live
  <2> QED BY <1>2, <2>1, <2>3, <2>4, ValueOf
          DEF WriteThrough, VC!WriteThrough, VC!Live, VC!Sets, value
<1> QED BY <1>1, <1>2 DEF References, data, VC!Next

\* Both handles of EigenBaseVector::axpy are made unique; only h changes its value.
LEMMA EigenAxpyValue ==
  ASSUME IInv, NEW h \in Handles, NEW g \in Handles, NEW a \in Scalars,
         Live(h), Live(g), EigenAxpy(h, a, g)
  PROVE  value' = [value EXCEPT ![h] = Plus(Content(h), Scaled(a, Content(g)))]
<1> DEFINE sum == Plus(Content(h), Scaled(a, Content(g)))
<1>1. CASE h = g
  BY <1>1, WritesValue DEF EigenAxpy
<1>2. CASE h # g
  <2>1. PICK b \in Backends, d \in Backends :
          /\ b # d
          /\ IF backend_[h] # backend_[g]
             THEN ensure_uniqueness(h, b) /\ ensure_uniqueness(g, d)
             ELSE \/ Fresh(b) /\ Fresh(d) /\ \E k \in Handles \ {h, g} : backend_[k] = backend_[h]
                  \/ Fresh(b) /\ d = backend_[g] /\ ~\E k \in Handles \ {h, g} : backend_[k] = backend_[h]
                  \/ b = backend_[h] /\ Fresh(d) /\ ~\E k \in Handles \ {h, g} : backend_[k] = backend_[h]
          /\ heap' = [heap EXCEPT ![b] = sum, ![d] = Content(g)]
          /\ backend_' = [backend_ EXCEPT ![h] = b, ![g] = d]
    BY <1>2 DEF EigenAxpy
  <2>2. \A k \in Handles \ {h, g} : backend_[k] # b /\ backend_[k] # d
    BY <2>1, FreshNotOwned DEF ensure_uniqueness, unique, IInv
  <2>3. /\ backend_'[h] = b /\ backend_'[g] = d
        /\ \A k \in Handles \ {h, g} : backend_'[k] = backend_[k]
    BY <1>2, <2>1 DEF IInv, Owned, TypeOK
  <2>4. heap'[b] = sum /\ heap'[d] = Content(g)
        /\ \A c \in Backends \ {b, d} : heap'[c] = heap[c]
    BY <2>1 DEF IInv, Owned, TypeOK
  <2>5. value'[h] = sum /\ value'[g] = value[g]
    BY <2>3, <2>4, NoBackendAssumption, ValueOf DEF value
  <2>6. ASSUME NEW k \in Handles \ {h, g} PROVE value'[k] = value[k]
    BY <2>2, <2>3, <2>4 DEF value, IInv, Owned, TypeOK
  <2> QED BY <1>2, <2>5, <2>6, ZenonT(60) DEF value
<1> QED BY <1>1, <1>2

LEMMA ArithmeticRefines ==
  ASSUME IInv, Flavour \in {"common", "eigen"}, NEW h \in Handles, Arithmetic(h)
  PROVE  VC!Next
<1> USE SameVectors DEF VCDefs
<1>1. ASSUME NEW i, NEW x, SetEntry(h, i, x) PROVE VC!SetEntry(h, i, x)
  <2>1. value' = [value EXCEPT ![h] = WithEntry(Content(h), i, x)]
    BY <1>1, WritesValue DEF SetEntry
  <2> QED BY <1>1, <2>1, ValueOf DEF SetEntry, VC!SetEntry, VC!Live, VC!Sets, value
<1>2. ASSUME NEW i, NEW x, AddToEntry(h, i, x) PROVE VC!AddToEntry(h, i, x)
  <2>1. value' = [value EXCEPT ![h] = WithEntry(Content(h), i, (Content(h)[i] + x) % Modulus)]
    BY <1>2, WritesValue DEF AddToEntry
  <2> QED BY <1>2, <2>1, ValueOf DEF AddToEntry, VC!AddToEntry, VC!Live, VC!Sets, value
<1>3. ASSUME NEW a, Scal(h, a) PROVE VC!Scal(h, a)
  <2>1. value' = [value EXCEPT ![h] = Scaled(a, Content(h))]
    BY <1>3, WritesValue DEF Scal
  <2>2. Live(h) /\ value[h] = Content(h) /\ value[h] # NoVector
    BY <1>3, ValueOf DEF Scal
  <2>3. VC!Scaled(a, value[h]) = Scaled(a, Content(h))
    BY <2>2 DEF VC!Scaled, Scaled
  <2> QED BY <1>3, <2>1, <2>2, <2>3 DEF Scal, VC!Scal, VC!Live, VC!Sets, value
<1>4. ASSUME NEW g \in Handles, IAdd(h, g) PROVE VC!IAdd(h, g)
  <2>1. value' = [value EXCEPT ![h] = Plus(Content(h), Content(g))]
    BY <1>4, WritesValue DEF IAdd
  <2> QED BY <1>4, <2>1, ValueOf DEF IAdd, VC!IAdd, VC!Live, VC!Sets, value
<1>5. ASSUME NEW g \in Handles, ISub(h, g) PROVE VC!ISub(h, g)
  <2>1. value' = [value EXCEPT ![h] = Minus(Content(h), Content(g))]
    BY <1>5, WritesValue DEF ISub
  <2> QED BY <1>5, <2>1, ValueOf DEF ISub, VC!ISub, VC!Live, VC!Sets, value
<1>6. ASSUME NEW g \in Handles, NEW a \in Scalars, Axpy(h, a, g) PROVE VC!Axpy(h, a, g)
  <2>1. Live(h) /\ Live(g) /\ SameSize(Content(h), Content(g)) /\ call' = <<"axpy", h, a, g>>
    BY <1>6 DEF Axpy
  <2>2. value' = [value EXCEPT ![h] = Plus(Content(h), Scaled(a, Content(g)))]
    BY <1>6, <2>1, EigenAxpyValue, WritesValue DEF Axpy, CommonAxpy
  <2>3. /\ value[h] = Content(h) /\ value[h] # NoVector
        /\ value[g] = Content(g) /\ value[g] # NoVector
    BY <2>1, ValueOf
  <2>4. VC!Plus(value[h], VC!Scaled(a, value[g])) = Plus(Content(h), Scaled(a, Content(g)))
    <3>1. VC!Scaled(a, value[g]) = Scaled(a, Content(g))
      BY <2>3 DEF VC!Scaled, Scaled
    <3> QED BY <2>3, <3>1 DEF VC!Plus, Plus
  <2>5. VC!SameSize(value[h], value[g])
    BY <2>1, <2>3
  <2> QED BY <2>1, <2>2, <2>3, <2>4, <2>5 DEF VC!Axpy, VC!Live, VC!Sets, value
<1>7. ASSUME NEW g \in Handles, NEW r \in Handles, Add(h, g, r) PROVE VC!Add(h, g, r)
  <2>1. value' = [value EXCEPT ![r] = Plus(Content(h), Content(g))]
    BY <1>7, WritesValue DEF Add, Summand
  <2> QED BY <1>7, <2>1, ValueOf DEF Add, VC!Add, VC!Live, VC!Sets, value
<1>8. ASSUME NEW g \in Handles, NEW r \in Handles, Sub(h, g, r) PROVE VC!Sub(h, g, r)
  <2>1. value' = [value EXCEPT ![r] = Minus(Content(h), Content(g))]
    BY <1>8, WritesValue DEF Sub, Summand
  <2> QED BY <1>8, <2>1, ValueOf DEF Sub, VC!Sub, VC!Live, VC!Sets, value
<1>9. ASSUME NEW g \in Handles, NEW r \in Handles, Sum(r, h, g) PROVE VC!Sum(r, h, g)
  <2>1. value' = [value EXCEPT ![r] = Plus(Content(h), Content(g))]
    BY <1>9, FreshValue DEF Sum
  <2> QED BY <1>9, <2>1, ValueOf DEF Sum, VC!Sum, VC!Live, VC!Sets, value
<1> QED BY <1>1, <1>2, <1>3, <1>4, <1>5, <1>6, <1>7, <1>8, <1>9 DEF Arithmetic, VC!Next

\* Copy-on-write implements value semantics: for the Common and the Eigen
\* containers no sequence of copies, assignments, writes, exposed references and
\* deep copies lets one handle observe that it shares its backend with another.
THEOREM Refinement ==
  ASSUME Flavour \in {"common", "eigen"} PROVE Spec => ValueSemantics
<1>1. Init => VC!Init
  BY DEF Init, VC!Init
<1>2. ASSUME IInv, [Next]_vars PROVE [VC!Next]_(VC!vars)
  <2>1. CASE UNCHANGED vars
    BY <2>1 DEF vars, VC!vars
  <2>2. CASE Next
    BY <1>2, <2>2, LifetimeRefines, ReferencesRefines, ArithmeticRefines DEF Next
  <2> QED BY <1>2, <2>1, <2>2
<1>3. Flavour # "eigen_matrix"
  OBVIOUS
<1> QED BY <1>1, <1>2, <1>3, Invariance, PTL DEF Spec, ValueSemantics, VC!Spec
=============================================================================
