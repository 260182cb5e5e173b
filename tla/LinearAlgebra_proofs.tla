------------------------ MODULE LinearAlgebra_proofs ------------------------
(***************************************************************************)
(* Proofs about CowThreads, for any number of threads, objects, backends   *)
(* and values, about Solvers, for every build, and about MatrixOperations, *)
(* for matrices of any shape and pattern over any numbers.                 *)
(***************************************************************************)
EXTENDS CowThreads, MatrixOperations, Solvers, DataTheorems, SequenceTheorems

-----------------------------------------------------------------------------
(* CowThreads. *)

\* A thread that executes a method has its operands.
HasOperands ==
  \A t \in Threads : pc[t] # "idle" => this[t] \in Handles /\ other[t] \in Handles

\* What one thread uses as non-const no other one uses.
Discipline ==
  \A t, s \in Threads : t # s => Alone(t) \cap Shared(s) = {}

\* A deep copy belongs to the thread that makes it and to no object, until the
\* pointer is replaced; when it is complete it reads as its object does.
CopiesArePrivate ==
  \A t \in Threads :
    /\ copy[t] # NoBackend <=> pc[t] \in {"copy", "swap"}
    /\ copy[t] # NoBackend => Owners(copy[t]) = {} /\ \A s \in Threads \ {t} : copy[s] # copy[t]
    /\ pc[t] = "swap" => heap[copy[t]] = val[this[t]]

\* The use count that a thread has seen as one stays one until it has written.
WritesAlone ==
  \A t \in Threads : pc[t] = "write" => unique(this[t])

\* The inductive invariant.
IInv ==
  /\ NoLeak
  /\ Isolation
  /\ HasOperands
  /\ Discipline
  /\ CopiesArePrivate
  /\ WritesAlone

USE SentinelAssumption

-----------------------------------------------------------------------------
(* What the invariant says of the memory. *)

\* The backend of an object is allocated, and nobody's deep copy.
LEMMA OwnedIsAllocated ==
  ASSUME IInv, NEW h \in Handles
  PROVE  /\ backend_[h] \in Backends
         /\ heap[backend_[h]] \in Values
         /\ h \in Owners(backend_[h])
         /\ \A t \in Threads : copy[t] # backend_[h]
  <1>1. backend_[h] \in Backends /\ h \in Owners(backend_[h])
    BY DEF IInv, NoLeak, TypeOK, Owners
  <1>2. heap[backend_[h]] \in Values
    BY <1>1 DEF IInv, NoLeak, TypeOK
  <1>3. ASSUME NEW t \in Threads, copy[t] = backend_[h]
        PROVE  FALSE
    BY <1>1, <1>3 DEF IInv, CopiesArePrivate
  <1> QED
    BY <1>1, <1>2, <1>3

\* Two objects with one backend are both among its owners.
LEMMA UniqueIsAlone ==
  ASSUME NEW h \in Handles, unique(h), NEW g \in Handles, backend_[g] = backend_[h]
  PROVE  g = h
  BY DEF unique, Owners

-----------------------------------------------------------------------------
(* The invariant implies what it is for. *)

LEMMA NoRace == IInv => NoDataRace
  <1> SUFFICES ASSUME IInv, NEW t \in Threads, NEW s \in Threads, t # s,
                      NEW b \in Writing(t), b \in Reading(s) \cup Writing(s)
               PROVE  FALSE
    BY DEF NoDataRace
  <1> USE DEF IInv
  <1>1. CASE pc[t] = "write"
    <2>1. /\ b = backend_[this[t]] /\ this[t] \in Handles /\ unique(this[t])
          /\ this[t] \in Alone(t) /\ this[t] \notin Shared(s)
      BY <1>1 DEF Writing, HasOperands, WritesAlone, Alone, Labels, Discipline
    <2>2. CASE pc[s] \in {"read", "copy", "write"} /\ b \in {backend_[this[s]], backend_[other[s]]}
      <3>1. this[s] \in Handles /\ other[s] \in Handles /\ this[s] \in Shared(s) /\ other[s] \in Shared(s)
        BY <2>2 DEF HasOperands, Shared
      <3> QED
        BY <2>1, <2>2, <3>1, UniqueIsAlone
    <2>3. CASE pc[s] = "copy" /\ b = copy[s]
      BY <2>1, <2>3, OwnedIsAllocated
    <2> QED
      BY <2>2, <2>3 DEF Reading, Writing
  <1>2. CASE pc[t] = "copy"
    <2>1. b = copy[t] /\ copy[t] # NoBackend
      BY <1>2 DEF Writing, CopiesArePrivate
    <2>2. CASE pc[s] \in {"read", "copy", "write"} /\ b \in {backend_[this[s]], backend_[other[s]]}
      <3>1. this[s] \in Handles /\ other[s] \in Handles
        BY <2>2 DEF HasOperands
      <3> QED
        BY <2>1, <2>2, <3>1, OwnedIsAllocated
    <2>3. CASE pc[s] = "copy" /\ b = copy[s]
      BY <2>1, <2>3 DEF CopiesArePrivate
    <2> QED
      BY <2>2, <2>3 DEF Reading, Writing
  <1> QED
    BY <1>1, <1>2 DEF Writing

-----------------------------------------------------------------------------
(* One lemma per action. *)

\* Initially all objects share one backend and no thread does anything.
LEMMA InitIInv == Init => IInv
  <1> SUFFICES ASSUME Init PROVE IInv
    OBVIOUS
  <1>1. PICK b \in Backends, v \in Values :
          /\ backend_ = [h \in Handles |-> b]
          /\ heap = [a \in Backends |-> IF a = b THEN v ELSE Free]
          /\ val = [h \in Handles |-> v]
    BY DEF Init
  <1>2. TypeOK
    BY <1>1 DEF Init, TypeOK, Labels
  <1>3. Isolation
    BY <1>1 DEF Isolation
  <1>4. HasOperands /\ Discipline /\ CopiesArePrivate /\ WritesAlone
    BY DEF Init, HasOperands, Discipline, Alone, Labels, CopiesArePrivate, WritesAlone
  <1>5. ASSUME NEW a \in Backends
        PROVE  heap[a] # Free <=> Owners(a) # {} \/ \E t \in Threads : copy[t] = a
    <2>1. Owners(a) = IF a = b THEN Handles ELSE {}
      BY <1>1 DEF Owners
    <2>2. \A t \in Threads : copy[t] # a
      BY DEF Init
    <2> QED
      BY <1>1, <2>1, <2>2, HandlesAssumption
  <1> QED
    BY <1>2, <1>3, <1>4, <1>5 DEF IInv, NoLeak

\* A method begins: only what threads use changes.
LEMMA BeginIInv ==
  ASSUME IInv, NEW t \in Threads, NEW h \in Handles, NEW g \in Handles,
         NEW label \in {"read", "check", "assign"}, Begin(t, h, g, label),
         label = "read" => h = g, label # "read" => MayUseAlone(t, h)
  PROVE  IInv'
  <1> USE DEF IInv, NoLeak, Begin
  <1>1. TypeOK'
    BY DEF TypeOK, Labels
  <1>2. NoLeak'
    BY <1>1 DEF Owners
  <1>3. Isolation'
    BY DEF Isolation
  <1>4. HasOperands'
    BY DEF TypeOK, HasOperands
  <1>5. CopiesArePrivate'
    BY DEF TypeOK, CopiesArePrivate, Owners
  <1>6. WritesAlone'
    BY DEF TypeOK, WritesAlone, unique, Owners
  <1>7. Discipline'
    <2> SUFFICES ASSUME NEW r \in Threads, NEW s \in Threads, r # s
                 PROVE  Alone(r)' \cap Shared(s)' = {}
      BY DEF Discipline
    <2>1. \A u \in Threads \ {t} : Alone(u)' = Alone(u) /\ Shared(u)' = Shared(u)
      BY DEF TypeOK, Alone, Shared
    <2>2. /\ Shared(t)' = {h, g}
          /\ Alone(t)' = IF label = "read" THEN {} ELSE {h}
      BY DEF TypeOK, Alone, Shared, Labels
    <2>3. \A u \in Threads \ {t} : g \notin Alone(u) /\ h \notin Alone(u)
      BY DEF MayUse, MayUseAlone
    <2>4. label # "read" => \A u \in Threads \ {t} : h \notin Shared(u)
      BY DEF MayUseAlone
    <2> QED
      BY <2>1, <2>2, <2>3, <2>4 DEF Discipline
  <1> QED
    BY <1>2, <1>3, <1>4, <1>5, <1>6, <1>7

\* A method goes on, or returns: fewer objects are used.
LEMMA DisciplineIsKept ==
  ASSUME TypeOK, Discipline, NEW t \in Threads,
         pc[t] # "idle", \A s \in Threads \ {t} : pc'[s] = pc[s] /\ this'[s] = this[s] /\ other'[s] = other[s],
         \/ pc'[t] = "idle"
         \/ pc[t] # "read" /\ pc'[t] \in Labels /\ this'[t] = this[t] /\ other'[t] = other[t]
  PROVE  Discipline'
  <1>1. \A s \in Threads \ {t} : Alone(s)' = Alone(s) /\ Shared(s)' = Shared(s)
    BY DEF Alone, Shared
  <1>2. Alone(t)' \subseteq Alone(t) /\ Shared(t)' \subseteq Shared(t)
    BY DEF TypeOK, Alone, Shared, Labels
  <1> QED
    BY <1>1, <1>2 DEF Discipline

LEMMA ReadIInv ==
  ASSUME IInv, NEW t \in Threads, get_entry(t)
  PROVE  IInv'
  <1> USE DEF IInv, NoLeak, get_entry, Return
  <1>1. TypeOK'
    BY DEF TypeOK, Labels
  <1>2. NoLeak' /\ Isolation'
    BY <1>1 DEF Owners, Isolation
  <1>3. HasOperands' /\ CopiesArePrivate' /\ WritesAlone'
    BY DEF TypeOK, HasOperands, CopiesArePrivate, WritesAlone, unique, Owners
  <1>4. Discipline'
    <2>1. pc[t] # "idle" /\ pc'[t] = "idle"
      BY DEF TypeOK
    <2> QED
      BY <2>1, DisciplineIsKept DEF TypeOK
  <1> QED
    BY <1>2, <1>3, <1>4

LEMMA CheckIInv ==
  ASSUME IInv, NEW t \in Threads, Check(t)
  PROVE  IInv'
  <1> USE DEF IInv, NoLeak, Check
  <1>1. /\ pc[t] = "check" /\ this[t] \in Handles /\ other[t] \in Handles
        /\ copy[t] = NoBackend
    BY DEF HasOperands, CopiesArePrivate, TypeOK
  <1>2. Discipline'
    <2>1. pc[t] # "idle" /\ pc[t] # "read" /\ pc'[t] \in Labels /\ \A s \in Threads \ {t} : pc'[s] = pc[s]
      BY <1>1 DEF TypeOK, Labels
    <2> QED
      BY <2>1, DisciplineIsKept
  <1>3. CASE unique(this[t]) /\ pc' = [pc EXCEPT ![t] = "write"] /\ UNCHANGED <<heap, copy>>
    <2>1. TypeOK'
      BY <1>3 DEF TypeOK, Labels
    <2>2. NoLeak' /\ Isolation' /\ HasOperands'
      BY <1>1, <1>3, <2>1 DEF Owners, Isolation, HasOperands, TypeOK
    <2>3. CopiesArePrivate'
      BY <1>1, <1>3 DEF CopiesArePrivate, TypeOK, Owners
    <2>4. WritesAlone'
      BY <1>1, <1>3 DEF WritesAlone, TypeOK, unique, Owners
    <2> QED
      BY <1>2, <2>2, <2>3, <2>4
  <1>4. ASSUME NEW b \in Backends, NEW v \in Values, heap[b] = Free,
               heap' = [heap EXCEPT ![b] = v], copy' = [copy EXCEPT ![t] = b], pc' = [pc EXCEPT ![t] = "copy"]
        PROVE  IInv'
    <2> USE <1>4
    <2>1. TypeOK'
      BY DEF TypeOK, Labels
    <2>2. Owners(b) = {} /\ \A s \in Threads : copy[s] # b
      OBVIOUS
    <2>3. \A a : Owners(a)' = Owners(a)
      BY DEF Owners
    <2>4. \A h \in Handles : backend_[h] # b
      BY <2>2 DEF Owners
    <2>5. NoLeak'
      <3> SUFFICES ASSUME NEW a \in Backends
                   PROVE  heap'[a] # Free <=> Owners(a) # {} \/ \E s \in Threads : copy'[s] = a
        BY <2>1, <2>3
      <3>1. CASE a = b
        <4>1. heap'[a] = v /\ copy'[t] = a
          BY <3>1 DEF TypeOK
        <4> QED
          BY <4>1
      <3>2. CASE a # b
        <4>1. heap'[a] = heap[a]
          BY <3>2 DEF TypeOK
        <4>2. \A s \in Threads : copy'[s] = a <=> copy[s] = a
          BY <3>2, <1>1 DEF TypeOK
        <4> QED
          BY <4>1, <4>2
      <3> QED
        BY <3>1, <3>2
    <2>6. Isolation'
      BY <2>4 DEF TypeOK, Isolation
    <2>7. HasOperands'
      BY <1>1 DEF TypeOK, HasOperands
    <2>8. CopiesArePrivate'
      <3> SUFFICES ASSUME NEW s \in Threads
                   PROVE  /\ copy'[s] # NoBackend <=> pc'[s] \in {"copy", "swap"}
                          /\ copy'[s] # NoBackend => Owners(copy'[s]) = {} /\ \A u \in Threads \ {s} : copy'[u] # copy'[s]
                          /\ pc'[s] = "swap" => heap'[copy'[s]] = val[this[s]]
        BY <2>3 DEF CopiesArePrivate
      <3>1. CASE s = t
        BY <3>1, <2>2 DEF TypeOK, CopiesArePrivate
      <3>2. CASE s # t
        BY <3>2, <2>2 DEF TypeOK, CopiesArePrivate
      <3> QED
        BY <3>1, <3>2
    <2>9. WritesAlone'
      BY DEF TypeOK, WritesAlone, unique, Owners
    <2> QED
      BY <1>2, <2>5, <2>6, <2>7, <2>8, <2>9
  <1> QED
    BY <1>3, <1>4

\* The deep copy is filled.
LEMMA CopyIInv ==
  ASSUME IInv, NEW t \in Threads, Copy(t)
  PROVE  IInv'
  <1> USE DEF IInv, NoLeak, Copy
  <1>1. /\ pc[t] = "copy" /\ this[t] \in Handles /\ other[t] \in Handles
        /\ copy[t] \in Backends /\ Owners(copy[t]) = {}
    BY DEF HasOperands, CopiesArePrivate, TypeOK
  <1>2. heap[backend_[this[t]]] \in Values /\ heap[backend_[this[t]]] = val[this[t]]
    BY <1>1, OwnedIsAllocated DEF Isolation
  <1>3. TypeOK'
    BY <1>1, <1>2 DEF TypeOK, Labels
  <1>4. \A a : Owners(a)' = Owners(a)
    BY DEF Owners
  <1>5. \A a \in Backends : heap'[a] = IF a = copy[t] THEN val[this[t]] ELSE heap[a]
    BY <1>1, <1>2 DEF TypeOK
  <1>6. NoLeak'
    BY <1>1, <1>2, <1>3, <1>4, <1>5
  <1>7. Isolation'
    BY <1>1, <1>5, OwnedIsAllocated DEF Isolation
  <1>8. HasOperands'
    BY <1>1 DEF TypeOK, HasOperands
  <1>9. CopiesArePrivate'
    <2> SUFFICES ASSUME NEW s \in Threads
                 PROVE  /\ copy[s] # NoBackend <=> pc'[s] \in {"copy", "swap"}
                        /\ copy[s] # NoBackend => Owners(copy[s]) = {} /\ \A u \in Threads \ {s} : copy[u] # copy[s]
                        /\ pc'[s] = "swap" => heap'[copy[s]] = val[this[s]]
      BY <1>4 DEF CopiesArePrivate
    <2>1. CASE s = t
      BY <1>1, <1>5, <2>1 DEF TypeOK, CopiesArePrivate
    <2>2. CASE s # t
      BY <1>1, <1>5, <2>2 DEF TypeOK, CopiesArePrivate
    <2> QED
      BY <2>1, <2>2
  <1>10. WritesAlone'
    BY DEF TypeOK, WritesAlone, unique, Owners
  <1>11. Discipline'
    <2>1. pc[t] # "idle" /\ pc[t] # "read" /\ pc'[t] \in Labels /\ \A s \in Threads \ {t} : pc'[s] = pc[s]
      BY <1>1 DEF TypeOK, Labels
    <2> QED
      BY <2>1, DisciplineIsKept
  <1> QED
    BY <1>6, <1>7, <1>8, <1>9, <1>10, <1>11

\* Another thread that uses its object as non-const uses another object.
LEMMA OthersAreElsewhere ==
  ASSUME IInv, NEW t \in Threads, NEW s \in Threads, s # t, pc[s] \in Labels \ {"idle", "read"}, pc[t] # "idle"
  PROVE  this[s] # this[t] /\ this[s] # other[t]
  BY DEF IInv, Discipline, Alone, Shared

\* The pointer is replaced by that to the copy.
LEMMA SwapIInv ==
  ASSUME IInv, NEW t \in Threads, Swap(t)
  PROVE  IInv'
  <1> USE DEF IInv, NoLeak, Swap
  <1> DEFINE h == this[t]  old == backend_[h]  new == copy[t]
         NewOwners(a) == {g \in Handles : backend_'[g] = a}
  <1>1. /\ pc[t] = "swap" /\ h \in Handles /\ other[t] \in Handles
        /\ new \in Backends /\ Owners(new) = {} /\ heap[new] = val[h] /\ heap[new] # Free
        /\ \A s \in Threads \ {t} : copy[s] # new
    BY DEF HasOperands, CopiesArePrivate, TypeOK
  <1>2. old \in Backends /\ old # new /\ h \in Owners(old) /\ \A s \in Threads : copy[s] # old
    BY <1>1, OwnedIsAllocated
  <1>3. \A a \in Backends : heap'[a] = IF a = old /\ unique(h) THEN Free ELSE heap[a]
    BY <1>2 DEF TypeOK, Release
  <1>4. \A a \in Backends : NewOwners(a) = IF a = new THEN {h} ELSE Owners(a) \ {h}
    BY <1>1 DEF TypeOK, Owners
  <1>5. \A g \in Handles : backend_'[g] = IF g = h THEN new ELSE backend_[g]
    BY <1>1 DEF TypeOK
  <1>6. TypeOK'
    <2>1. heap' \in [Backends -> Values \cup {Free}]
      BY DEF TypeOK, Release
    <2> QED
      BY <1>1, <2>1 DEF TypeOK, Labels
  <1>7. \A s \in Threads : copy'[s] = IF s = t THEN NoBackend ELSE copy[s]
    BY DEF TypeOK
  <1>8. NoLeak'
    <2> SUFFICES ASSUME NEW a \in Backends
                 PROVE  heap'[a] # Free <=> NewOwners(a) # {} \/ \E s \in Threads : copy'[s] = a
      BY <1>6 DEF Owners
    <2>1. CASE a = new
      BY <1>1, <1>2, <1>3, <1>4, <2>1
    <2>2. CASE a = old
      <3>1. NewOwners(a) = {} <=> unique(h)
        BY <1>2, <1>4, <2>2 DEF unique
      <3>2. \A s \in Threads : copy'[s] # a
        BY <1>2, <1>7, <2>2
      <3> QED
        BY <1>2, <1>3, <2>2, <3>1, <3>2
    <2>3. CASE a # new /\ a # old
      <3>1. NewOwners(a) = Owners(a)
        BY <1>4, <2>3 DEF Owners
      <3>2. \A s \in Threads : copy'[s] = a <=> copy[s] = a
        BY <1>7, <2>3
      <3> QED
        BY <1>3, <2>3, <3>1, <3>2
    <2> QED
      BY <2>1, <2>2, <2>3
  <1>9. Isolation'
    <2> SUFFICES ASSUME NEW g \in Handles PROVE heap'[backend_'[g]] = val[g]
      BY DEF Isolation
    <2>1. CASE g = h
      BY <1>1, <1>2, <1>3, <1>5, <2>1
    <2>2. CASE g # h
      <3>1. backend_[g] # old \/ ~unique(h)
        BY <1>1, <2>2, UniqueIsAlone
      <3>2. backend_[g] \in Backends
        BY DEF TypeOK
      <3> QED
        BY <1>3, <1>5, <2>2, <3>1, <3>2 DEF Isolation
    <2> QED
      BY <2>1, <2>2
  <1>10. HasOperands'
    BY <1>1 DEF TypeOK, HasOperands
  <1>11. CopiesArePrivate'
    <2> SUFFICES ASSUME NEW s \in Threads
                 PROVE  /\ copy'[s] # NoBackend <=> pc'[s] \in {"copy", "swap"}
                        /\ copy'[s] # NoBackend => NewOwners(copy'[s]) = {} /\ \A u \in Threads \ {s} : copy'[u] # copy'[s]
                        /\ pc'[s] = "swap" => heap'[copy'[s]] = val[this[s]]
      BY DEF CopiesArePrivate, Owners
    <2>1. CASE s = t
      BY <1>7, <2>1 DEF TypeOK
    <2>2. CASE s # t
      <3>1. pc'[s] = pc[s] /\ copy'[s] = copy[s] /\ (copy[s] # NoBackend <=> pc[s] \in {"copy", "swap"})
        BY <1>7, <2>2 DEF TypeOK, CopiesArePrivate
      <3>2. ASSUME copy[s] # NoBackend
            PROVE  NewOwners(copy[s]) = {} /\ heap'[copy[s]] = heap[copy[s]]
        <4>1. copy[s] \in Backends /\ Owners(copy[s]) = {} /\ copy[s] # new /\ copy[s] # old
          BY <1>1, <1>2, <2>2, <3>2 DEF TypeOK, CopiesArePrivate
        <4> QED
          BY <1>3, <1>4, <4>1
      <3>3. ASSUME copy[s] # NoBackend
            PROVE  \A u \in Threads \ {s} : copy'[u] # copy[s]
        BY <1>7, <3>3 DEF CopiesArePrivate
      <3> QED
        BY <3>1, <3>2, <3>3 DEF CopiesArePrivate
    <2> QED
      BY <2>1, <2>2
  <1>12. WritesAlone'
    <2> SUFFICES ASSUME NEW s \in Threads, pc'[s] = "write"
                 PROVE  NewOwners(backend_'[this[s]]) = {this[s]}
      BY DEF WritesAlone, unique, Owners
    <2>1. CASE s = t
      BY <1>1, <1>4, <1>5, <2>1
    <2>2. CASE s # t
      <3>1. pc[s] = "write" /\ this[s] \in Handles
        BY <2>2 DEF TypeOK, HasOperands
      <3>2. this[s] # h
        BY <1>1, <2>2, <3>1, OthersAreElsewhere DEF Labels
      <3>3. backend_'[this[s]] = backend_[this[s]] /\ backend_[this[s]] \in Backends /\ backend_[this[s]] # new
        BY <1>1, <1>5, <3>1, <3>2, OwnedIsAllocated DEF TypeOK
      <3>4. Owners(backend_[this[s]]) = {this[s]}
        BY <3>1 DEF WritesAlone, unique
      <3> QED
        BY <1>4, <3>2, <3>3, <3>4
    <2> QED
      BY <2>1, <2>2
  <1>13. Discipline'
    <2>1. pc[t] # "idle" /\ pc[t] # "read" /\ pc'[t] \in Labels /\ \A s \in Threads \ {t} : pc'[s] = pc[s]
      BY <1>1 DEF TypeOK, Labels
    <2> QED
      BY <2>1, DisciplineIsKept
  <1> QED
    BY <1>8, <1>9, <1>10, <1>11, <1>12, <1>13

\* The entries are written: only this object reads them.
LEMMA WriteIInv ==
  ASSUME IInv, NEW t \in Threads, Write(t)
  PROVE  IInv'
  <1> USE DEF IInv, NoLeak, Write, Return
  <1> DEFINE h == this[t]  b == backend_[h]
  <1>1. /\ pc[t] = "write" /\ h \in Handles /\ b \in Backends /\ unique(h)
        /\ heap[b] # Free /\ \A s \in Threads : copy[s] # b
    BY OwnedIsAllocated DEF HasOperands, WritesAlone
  <1>2. PICK v \in Values : heap' = [heap EXCEPT ![b] = v] /\ val' = [val EXCEPT ![h] = v]
    OBVIOUS
  <1>3. \A a \in Backends : heap'[a] = IF a = b THEN v ELSE heap[a]
    BY <1>2 DEF TypeOK
  <1>4. \A g \in Handles : val'[g] = IF g = h THEN v ELSE val[g]
    BY <1>2 DEF TypeOK
  <1>5. pc'[t] = "idle" /\ \A s \in Threads \ {t} : pc'[s] = pc[s] /\ this'[s] = this[s] /\ other'[s] = other[s]
    BY DEF TypeOK
  <1>6. TypeOK'
    BY <1>2 DEF TypeOK, Labels
  <1>7. NoLeak'
    BY <1>1, <1>3, <1>6 DEF Owners
  <1>8. Isolation'
    <2> SUFFICES ASSUME NEW g \in Handles PROVE heap'[backend_[g]] = val'[g]
      BY DEF Isolation
    <2>1. backend_[g] = b => g = h
      BY <1>1, UniqueIsAlone
    <2> QED
      BY <1>1, <1>3, <1>4, <2>1 DEF Isolation, TypeOK
  <1>9. HasOperands'
    BY <1>5 DEF HasOperands
  <1>10. CopiesArePrivate'
    <2> SUFFICES ASSUME NEW s \in Threads
                 PROVE  /\ copy[s] # NoBackend <=> pc'[s] \in {"copy", "swap"}
                        /\ copy[s] # NoBackend => Owners(copy[s]) = {} /\ \A u \in Threads \ {s} : copy[u] # copy[s]
                        /\ pc'[s] = "swap" => heap'[copy[s]] = val'[this'[s]]
      BY DEF CopiesArePrivate, Owners
    <2>1. CASE s = t
      BY <1>1, <1>5, <2>1 DEF CopiesArePrivate
    <2>2. CASE s # t
      <3>1. ASSUME pc[s] = "swap" PROVE heap'[copy[s]] = val'[this[s]]
        <4>1. this[s] # h /\ this[s] \in Handles
          BY <1>1, <2>2, <3>1, OthersAreElsewhere DEF Labels, HasOperands
        <4>2. copy[s] \in Backends /\ heap[copy[s]] = val[this[s]]
          BY <3>1 DEF CopiesArePrivate, TypeOK
        <4> QED
          BY <1>1, <1>3, <1>4, <4>1, <4>2
      <3> QED
        BY <1>5, <2>2, <3>1 DEF CopiesArePrivate
    <2> QED
      BY <2>1, <2>2
  <1>11. WritesAlone'
    BY <1>5 DEF WritesAlone, unique, Owners
  <1>12. Discipline'
    BY <1>1, <1>5, DisciplineIsKept
  <1> QED
    BY <1>7, <1>8, <1>9, <1>10, <1>11, <1>12

\* The object gives up its share and takes one of the argument's.
LEMMA AssignIInv ==
  ASSUME IInv, NEW t \in Threads, Assign(t)
  PROVE  IInv'
  <1> USE DEF IInv, NoLeak, Assign, Return
  <1> DEFINE h == this[t]  old == backend_[h]  new == backend_[other[t]]
             NewOwners(a) == {g \in Handles : backend_'[g] = a}
  <1>1. /\ pc[t] = "assign" /\ h \in Handles /\ other[t] \in Handles
        /\ heap' = Release(h, new) /\ backend_' = [backend_ EXCEPT ![h] = new]
        /\ val' = [val EXCEPT ![h] = val[other[t]]]
    BY DEF HasOperands
  <1>2. /\ old \in Backends /\ h \in Owners(old) /\ heap[old] # Free /\ \A s \in Threads : copy[s] # old
        /\ new \in Backends /\ other[t] \in Owners(new) /\ heap[new] # Free /\ \A s \in Threads : copy[s] # new
    BY <1>1, OwnedIsAllocated
  <1>3. \A a \in Backends : heap'[a] = IF a = old /\ unique(h) /\ new # old THEN Free ELSE heap[a]
    BY <1>1, <1>2 DEF TypeOK, Release
  <1>4. \A a \in Backends : NewOwners(a) = IF a = new THEN Owners(a) \cup {h} ELSE Owners(a) \ {h}
    BY <1>1, <1>2 DEF TypeOK, Owners
  <1>5. \A g \in Handles : /\ backend_'[g] = IF g = h THEN new ELSE backend_[g]
                           /\ val'[g] = IF g = h THEN val[other[t]] ELSE val[g]
    BY <1>1 DEF TypeOK
  <1>6. pc'[t] = "idle" /\ \A s \in Threads \ {t} : pc'[s] = pc[s] /\ this'[s] = this[s] /\ other'[s] = other[s]
    BY DEF TypeOK
  <1>7. TypeOK'
    <2>1. heap' \in [Backends -> Values \cup {Free}]
      BY <1>1 DEF TypeOK, Release
    <2>2. backend_' \in [Handles -> Backends] /\ val' \in [Handles -> Values]
      BY <1>1, <1>2 DEF TypeOK
    <2> QED
      BY <2>1, <2>2 DEF TypeOK, Labels
  <1>8. NoLeak'
    <2> SUFFICES ASSUME NEW a \in Backends
                 PROVE  heap'[a] # Free <=> NewOwners(a) # {} \/ \E s \in Threads : copy[s] = a
      BY <1>7 DEF Owners
    <2>1. CASE a = new
      BY <1>2, <1>3, <1>4, <2>1
    <2>2. CASE a = old /\ a # new
      <3>1. NewOwners(a) = {} <=> unique(h)
        BY <1>2, <1>4, <2>2 DEF unique
      <3> QED
        BY <1>2, <1>3, <2>2, <3>1
    <2>3. CASE a # new /\ a # old
      <3>1. NewOwners(a) = Owners(a)
        BY <1>4, <2>3 DEF Owners
      <3> QED
        BY <1>3, <2>3, <3>1
    <2> QED
      BY <2>1, <2>2, <2>3
  <1>9. Isolation'
    <2> SUFFICES ASSUME NEW g \in Handles PROVE heap'[backend_'[g]] = val'[g]
      BY DEF Isolation
    <2>1. CASE g = h
      <3>1. heap'[new] = heap[new]
        BY <1>2, <1>3
      <3> QED
        BY <1>1, <1>5, <2>1, <3>1 DEF Isolation
    <2>2. CASE g # h
      <3>1. backend_[g] # old \/ ~unique(h)
        BY <1>1, <2>2, UniqueIsAlone
      <3>2. backend_[g] \in Backends
        BY DEF TypeOK
      <3> QED
        BY <1>3, <1>5, <2>2, <3>1, <3>2 DEF Isolation
    <2> QED
      BY <2>1, <2>2
  <1>10. HasOperands'
    BY <1>6 DEF HasOperands
  <1>11. CopiesArePrivate'
    <2> SUFFICES ASSUME NEW s \in Threads
                 PROVE  /\ copy[s] # NoBackend <=> pc'[s] \in {"copy", "swap"}
                        /\ copy[s] # NoBackend => NewOwners(copy[s]) = {} /\ \A u \in Threads \ {s} : copy[u] # copy[s]
                        /\ pc'[s] = "swap" => heap'[copy[s]] = val'[this'[s]]
      BY DEF CopiesArePrivate, Owners
    <2>1. CASE s = t
      BY <1>1, <1>6, <2>1 DEF CopiesArePrivate
    <2>2. CASE s # t
      <3>1. ASSUME copy[s] # NoBackend
            PROVE  NewOwners(copy[s]) = {} /\ heap'[copy[s]] = heap[copy[s]]
        <4>1. copy[s] \in Backends /\ Owners(copy[s]) = {} /\ copy[s] # new /\ copy[s] # old
          BY <1>2, <3>1 DEF TypeOK, CopiesArePrivate
        <4> QED
          BY <1>3, <1>4, <4>1
      <3>2. ASSUME pc[s] = "swap"
            PROVE  this[s] # h /\ this[s] \in Handles
        BY <1>1, <2>2, <3>2, OthersAreElsewhere DEF Labels, HasOperands
      <3> QED
        BY <1>5, <1>6, <2>2, <3>1, <3>2 DEF CopiesArePrivate
    <2> QED
      BY <2>1, <2>2
  <1>12. WritesAlone'
    <2> SUFFICES ASSUME NEW s \in Threads, pc'[s] = "write"
                 PROVE  NewOwners(backend_'[this'[s]]) = {this'[s]}
      BY DEF WritesAlone, unique, Owners
    <2>1. s # t /\ pc[s] = "write" /\ this'[s] = this[s] /\ this[s] \in Handles
      BY <1>6 DEF HasOperands
    <2>2. this[s] # h /\ this[s] # other[t]
      BY <1>1, <2>1, OthersAreElsewhere DEF Labels
    <2>3. Owners(backend_[this[s]]) = {this[s]} /\ unique(this[s])
      BY <2>1 DEF WritesAlone, unique
    <2>4. backend_[this[s]] # new
      BY <1>1, <2>1, <2>2, <2>3, UniqueIsAlone
    <2>5. backend_'[this[s]] = backend_[this[s]] /\ backend_[this[s]] \in Backends
      BY <1>5, <2>1, <2>2 DEF TypeOK
    <2> QED
      BY <1>4, <2>1, <2>2, <2>3, <2>4, <2>5
  <1>13. Discipline'
    BY <1>1, <1>6, DisciplineIsKept
  <1> QED
    BY <1>8, <1>9, <1>10, <1>11, <1>12, <1>13

-----------------------------------------------------------------------------
(* The theorems. *)

LEMMA NextIInv == IInv /\ [Next]_vars => IInv'
  <1> SUFFICES ASSUME IInv, [Next]_vars PROVE IInv'
    OBVIOUS
  <1>1. CASE UNCHANGED vars
    BY <1>1 DEF vars, IInv, NoLeak, TypeOK, Owners, Isolation, HasOperands, Discipline,
                Alone, Shared, CopiesArePrivate, WritesAlone, unique
  <1>2. ASSUME NEW t \in Threads, Step(t) PROVE IInv'
    BY <1>2, ReadIInv, CheckIInv, CopyIInv, SwapIInv, WriteIInv, AssignIInv DEF Step
  <1>3. ASSUME NEW t \in Threads, NEW h \in Handles, BeginRead(t, h) PROVE IInv'
    BY <1>3, BeginIInv DEF BeginRead
  <1>4. ASSUME NEW t \in Threads, NEW h \in Handles, NEW g \in Handles, BeginWrite(t, h, g) PROVE IInv'
    BY <1>4, BeginIInv DEF BeginWrite
  <1>5. ASSUME NEW t \in Threads, NEW h \in Handles, NEW g \in Handles, BeginAssign(t, h, g) PROVE IInv'
    BY <1>5, BeginIInv DEF BeginAssign
  <1> QED
    BY <1>1, <1>2, <1>3, <1>4, <1>5 DEF Next

\* The use count seen as one stays one, and a deep copy stays private, in all
\* interleavings of ensure_uniqueness: the invariant behind the three below.
THEOREM Invariant == Spec => []IInv
  BY InitIInv, NextIInv, PTL DEF Spec

\* Threads that follow the rule for objects never write a backend that another
\* one reads or writes, however the objects share it.
THEOREM RaceFree == Spec => []NoDataRace
  BY Invariant, NoRace, PTL

\* No object sees the writes to another one.
THEOREM Isolated == Spec => []Isolation
  <1>1. IInv => Isolation
    BY DEF IInv
  <1> QED
    BY <1>1, Invariant, PTL

\* A backend is allocated exactly as long as somebody owns it, and everything
\* has its type.
THEOREM NothingLeaks == Spec => []NoLeak
  <1>1. IInv => NoLeak
    BY DEF IInv
  <1> QED
    BY <1>1, Invariant, PTL

HIDE SentinelAssumption
USE BuildAssumption, MatrixScalarsAssumption, PatternsAssumption

-----------------------------------------------------------------------------
(* Solvers.  The invariant is inductive together with the type of the      *)
(* kind: every call leaves a state of its own.                             *)

KindTyped == kind \in Kinds

LEMMA ReadsHaveDefaults ==
  ASSUME KindTyped
  PROVE  EveryKeyHasADefault
  <1> SUFFICES ASSUME NEW type \in ToSet(Types(kind))
               PROVE  Reads(kind, type) \subseteq OptionKeys(kind, type)
    BY DEF EveryKeyHasADefault
  <1>1. CASE kind = "common"
    BY <1>1 DEF Reads, OptionKeys, CommonOptions
  <1>2. CASE kind = "eigen_dense"
    BY <1>2 DEF Reads, OptionKeys, EigenDenseOptions, NeedsSymmetry
  <1>3. CASE kind = "eigen_sparse"
    <2>1. type \in ToSet(EigenSparseTypes)
      BY <1>3 DEF Types
    <2>2. \/ type \in {"lu.sparse", "qr.sparse"}
          \/ type \in {"ldlt.simplicial", "llt.simplicial"}
          \/ type = "bicgstab.ilut"
          \/ type \in CgTypes
          \/ type \in {"bicgstab.diagonal", "bicgstab.identity"}
      BY <2>1 DEF EigenSparseTypes, ToSet, CgTypes
    <2> QED
      BY <1>3, <2>2 DEF Reads, OptionKeys, EigenSparseOptions, NeedsSymmetry, EigenSparseReads, CgTypes
  <1>4. CASE kind = "istl"
    <2>1. type \in ToSet(IstlTypes)
      BY <1>4 DEF Types
    <2>2. \/ type \in AmgTypes
          \/ type \in {"bicgstab.ilut", "bicgstab.ssor"}
          \/ type = "bicgstab"
          \/ type \in {"umfpack", "superlu"}
      BY <2>1 DEF IstlTypes, ToSet, AmgTypes
    <2> QED
      BY <1>4, <2>2 DEF Reads, OptionKeys, IstlOptions, IstlReads, AmgTypes, AmgReads
  <1> QED
    BY <1>1, <1>2, <1>3, <1>4 DEF KindTyped, Kinds

\* What a call that returned has checked.
Solved(opts, result) ==
  (/\ result.thrown = "nothing"
   /\ On(opts, "post_check_solves_system")
   /\ kind \in {"eigen_dense", "eigen_sparse"} => On(opts, "check_for_inf_nan"))
  => result.solution = "solves"

\* A result that is checked against the system solves it, if Eigen's is known
\* to be free of nan.
LEMMA PostCheckSolves ==
  ASSUME KindTyped, NEW opts, NEW a \in Answers,
         kind \in {"eigen_dense", "eigen_sparse"} /\ On(opts, "check_for_inf_nan") => a.solution # "nan"
  PROVE  Solved(opts, PostCheck(opts, a.solution, a.norm))
  <1>1. a.solution \in Solutions /\ a.norm \in NormsOf(kind, a.solution)
    BY DEF Answers
  <1>2. CASE On(opts, "post_check_solves_system") /\ a.norm # "small"
    BY <1>2 DEF PostCheck, Failed, Solved
  <1>3. CASE ~On(opts, "post_check_solves_system")
    BY <1>3 DEF Solved
  <1>4. CASE a.norm = "small"
    BY <1>1, <1>4 DEF PostCheck, Returned, Solved, NormsOf, Solutions, KindTyped, Kinds
  <1> QED
    BY <1>2, <1>3, <1>4

LEMMA FailedSolves ==
  ASSUME NEW opts, NEW e, NEW x, e # "nothing"
  PROVE  Solved(opts, Failed(e, x))
  BY DEF Solved, Failed

LEMMA EigenChecksSolve ==
  ASSUME KindTyped, kind \in {"eigen_dense", "eigen_sparse"}, NEW opts, NEW a \in Answers
  PROVE  Solved(opts, EigenChecks(opts, a))
  <1>1. CASE On(opts, "check_for_inf_nan") /\ a.solution = "nan"
    BY <1>1, FailedSolves DEF EigenChecks, Unfulfilled
  <1>2. CASE ~(On(opts, "check_for_inf_nan") /\ a.solution = "nan")
    BY <1>2, PostCheckSolves DEF EigenChecks
  <1> QED
    BY <1>1, <1>2

LEMMA ApplySolves ==
  ASSUME KindTyped, NEW opts, NEW type, NEW sys, NEW before, NEW a \in Answers
  PROVE  Solved(opts, Apply(kind, opts, type, sys, a, before))
  <1>1. a.info \in Infos
    BY DEF Answers
  <1>2. CASE ("type" \notin DOMAIN opts) \/ ~CheckGiven(type, Types(kind))
    BY <1>2, FailedSolves DEF Apply
  <1> SUFFICES ASSUME ~(("type" \notin DOMAIN opts) \/ ~CheckGiven(type, Types(kind)))
               PROVE  Solved(opts, Apply(kind, opts, type, sys, a, before))
    BY <1>2
  <1>3. CASE kind = "common"
    <2>1. Solved(opts, ApplyCommon(opts, sys, a))
      BY <1>3, FailedSolves, PostCheckSolves DEF ApplyCommon, Unfulfilled
    <2> QED
      BY <1>3, <2>1 DEF Apply
  <1>4. CASE kind = "eigen_dense"
    <2>1. Solved(opts, ApplyEigenDense(type, opts, sys, a, before))
      BY <1>4, FailedSolves, EigenChecksSolve DEF ApplyEigenDense, Unfulfilled
    <2> QED
      BY <1>4, <2>1 DEF Apply
  <1>5. CASE kind = "eigen_sparse"
    <2>1. Solved(opts, ApplyEigenSparse(type, opts, sys, a, before))
      BY <1>1, <1>5, FailedSolves, EigenChecksSolve DEF ApplyEigenSparse, Unfulfilled, Infos
    <2> QED
      BY <1>5, <2>1 DEF Apply
  <1>6. CASE kind = "istl"
    <2>1. Solved(opts, ApplyIstl(opts, sys, a))
      BY <1>1, <1>6, FailedSolves, PostCheckSolves DEF ApplyIstl, Infos
    <2> QED
      BY <1>6, <2>1 DEF Apply
  <1> QED
    BY <1>3, <1>4, <1>5, <1>6 DEF KindTyped, Kinds

LEMMA CallSolves ==
  ASSUME KindTyped, NEW type, NEW opts, Call(type, opts)
  PROVE  KindTyped' /\ ReturnedMeansSolved'
  <1>1. kind' = kind
    BY DEF Call
  <1>2. EveryKeyHasADefault'
    BY <1>1, ReadsHaveDefaults DEF EveryKeyHasADefault
  <1>3. PICK a \in Answers :
          /\ solution' = Apply(kind, opts, type, system, a, solution).solution
          /\ call' = [checks |-> {k \in Checks : On(opts, k)},
                      thrown |-> Apply(kind, opts, type, system, a, solution).thrown]
    BY DEF Call
  <1>4. Solved(opts, Apply(kind, opts, type, system, a, solution))
    BY ApplySolves
  <1> QED
    BY <1>1, <1>2, <1>3, <1>4 DEF KindTyped, ReturnedMeansSolved, Solved

\* Whatever the backends answer, after any calls with any options, a call that
\* returned and was told to check its result left a vector that solves the
\* system, and none failed for a key without a default (LA::Solver::apply).
THEOREM ReturnedSolutionsSolve == SolverSpec => []ReturnedMeansSolved
  <1> DEFINE SInv == KindTyped /\ ReturnedMeansSolved
  <1>1. SolverInit => SInv
    BY ReadsHaveDefaults DEF SolverInit, KindTyped, ReturnedMeansSolved
  <1>2. SInv /\ [SolverNext]_solverVars => SInv'
    <2> SUFFICES ASSUME SInv, [SolverNext]_solverVars PROVE SInv'
      OBVIOUS
    <2>1. ASSUME NEW type, NEW opts, Call(type, opts) PROVE SInv'
      BY <2>1, CallSolves
    <2>2. CASE ApplyDefault \/ ApplyType \/ ApplyOptions \/ ApplyUnknownType
      BY <2>1, <2>2 DEF ApplyDefault, ApplyType, ApplyOptions, ApplyUnknownType
    <2>3. CASE ChangeSystem
      <3>1. EveryKeyHasADefault'
        BY <2>3, ReadsHaveDefaults DEF ChangeSystem, EveryKeyHasADefault
      <3> QED
        BY <2>3, <3>1 DEF ChangeSystem, KindTyped, ReturnedMeansSolved
    <2>4. CASE UNCHANGED solverVars
      BY <2>4 DEF solverVars, KindTyped, ReturnedMeansSolved, EveryKeyHasADefault
    <2> QED
      BY <2>2, <2>3, <2>4 DEF SolverNext
  <1>3. SInv => ReturnedMeansSolved
    OBVIOUS
  <1> QED
    BY <1>1, <1>2, <1>3, PTL DEF SolverSpec

-----------------------------------------------------------------------------
(* Patterns. *)

\* Sorting a finite set of numbers loses none and adds none.
LEMMA AscendingIsSame ==
  ASSUME NEW T \in SUBSET Int, IsFiniteSet(T)
  PROVE  ToSet(Ascending(T)) = T
  <1>1. \E s : IsAscending(T, s)
    BY AscendingExists
  <1>2. IsAscending(T, Ascending(T))
    BY <1>1 DEF Ascending, IsAscending
  <1> QED
    BY <1>2, AscendingEnumerates

\* The entries of the pattern that is made from a set of cells are these cells.
LEMMA PatternHasEntries ==
  ASSUME NEW r \in Nat, NEW c \in Nat, NEW S \in SUBSET Cells(r, c)
  PROVE  Entries(PatternOf(r, S)) = S
  <1> DEFINE cols(i) == {d[2] : d \in {e \in S : e[1] = i}}
             p       == PatternOf(r, S)
  <1>1. IsFiniteSet(0 .. (c - 1))
    BY FS_Interval
  <1>2. \A i \in 0 .. (r - 1) : cols(i) \in SUBSET (0 .. (c - 1))
    BY DEF Cells
  <1>3. \A i \in 0 .. (r - 1) : cols(i) \in SUBSET Int /\ IsFiniteSet(cols(i))
    <2>1. \A i \in 0 .. (r - 1) : cols(i) \in SUBSET Int
      BY <1>2
    <2> HIDE DEF cols
    <2> QED
      BY <1>1, <1>2, <2>1, FS_Subset
  <1>4. \A i \in 0 .. (r - 1) : ToSet(Ascending(cols(i))) = cols(i)
    BY <1>3, AscendingIsSame
  <1>5. DOMAIN p = 0 .. (r - 1) /\ \A i \in 0 .. (r - 1) : ToSet(p[i]) = cols(i)
    BY <1>4 DEF PatternOf
  <1>6. \A x \in S : x[1] \in 0 .. (r - 1) /\ x = <<x[1], x[2]>>
    BY DEF Cells
  <1>7. ASSUME NEW x \in S PROVE x \in Entries(p)
    <2>1. x[2] \in cols(x[1])
      OBVIOUS
    <2>2. x \in {x[1]} \X ToSet(p[x[1]])
      BY <1>5, <1>6, <2>1
    <2> QED
      BY <1>5, <1>6, <2>2 DEF Entries
  <1>8. ASSUME NEW x \in Entries(p) PROVE x \in S
    <2>1. PICK i \in 0 .. (r - 1) : x \in {i} \X ToSet(p[i])
      BY <1>5 DEF Entries
    <2>2. x = <<i, x[2]>> /\ x[2] \in cols(i)
      BY <1>5, <2>1
    <2>3. PICK e \in S : e[1] = i /\ e[2] = x[2]
      BY <2>2
    <2> QED
      BY <1>6, <2>2, <2>3
  <1> QED
    BY <1>7, <1>8

LEMMA Scalars ==
  /\ 0 \in Entry /\ (\A x \in Entry : x \in Int)
  /\ \A x, y \in Entry : Plus(x, y) \in Entry /\ Times(x, y) \in Entry /\ Times(x, y) = Times(y, x)
  /\ \A x \in Entry \ {NaN} : Times(x, 0) = 0
  /\ \A x \in Entry : Plus(0, Times(x, 0)) = Times(x, 0)
  /\ Times(NaN, 0) = NaN /\ ~IsSignificant(0) /\ 0 # NaN
  <1>1. \A x \in Entry : x \in Int
    BY DEF Entry
  <1>2. \A x, y \in Entry : Plus(x, y) \in Entry
    BY DEF Plus, Entry
  <1>3. ASSUME NEW x \in Entry, NEW y \in Entry
        PROVE  Times(x, y) \in Entry /\ Times(x, y) = Times(y, x)
    <2>1. x * y \in Int /\ x * y = y * x
      BY <1>1
    <2>2. \A z \in Int : z % Modulus \in 0 .. (Modulus - 1)
      OBVIOUS
    <2> QED
      BY <2>1, <2>2 DEF Times, Entry
  <1>4. ASSUME NEW x \in Entry \ {NaN}
        PROVE  Times(x, 0) = 0
    <2>1. x * 0 = 0 /\ 0 # NaN
      BY <1>1
    <2>2. 0 % Modulus = 0
      OBVIOUS
    <2> QED
      BY <2>1, <2>2 DEF Times
  <1>5. 0 \in Entry /\ 0 # NaN /\ ~IsSignificant(0)
    BY DEF Entry, IsSignificant
  <1>6. Times(NaN, 0) = NaN
    BY DEF Times
  <1>7. \A x \in Entry : Plus(0, Times(x, 0)) = Times(x, 0)
    <2>1. 0 % Modulus = 0 /\ Plus(0, 0) = 0
      BY <1>5 DEF Plus
    <2>2. Plus(0, NaN) = NaN
      BY DEF Plus
    <2> QED
      BY <1>4, <1>6, <2>1, <2>2
  <1> QED
    BY <1>1, <1>2, <1>3, <1>4, <1>5, <1>6, <1>7

IsDense(k) == k \in {"common_dense", "eigen_dense"}

IsMatrix(k, m) ==
  /\ m = [rows |-> m.rows, cols |-> m.cols, at |-> m.at, error |-> m.error]
  /\ m.rows \in Nat /\ m.cols \in Nat
  /\ m.at \in [Stored(m) -> Entry] /\ Stored(m) \subseteq AllCells(m)
  /\ IsDense(k) => Stored(m) = AllCells(m)

Changed(m, g) == [m EXCEPT !.at = g, !.error = "none"]
Thrown(m)     == [m EXCEPT !.error = "index_out_of_range"]

LEMMA ChangedIs ==
  ASSUME NEW k, NEW m, IsMatrix(k, m), NEW g
  PROVE  /\ Changed(m, g) = [rows |-> m.rows, cols |-> m.cols, at |-> g, error |-> "none"]
         /\ Thrown(m) = [rows |-> m.rows, cols |-> m.cols, at |-> m.at, error |-> "index_out_of_range"]
  <1> DEFINE n == [rows |-> m.rows, cols |-> m.cols, at |-> g, error |-> m.error]
  <1>1. m = [rows |-> m.rows, cols |-> m.cols, at |-> m.at, error |-> m.error]
    BY DEF IsMatrix
  <1>2. DOMAIN m = {"rows", "cols", "at", "error"}
    BY <1>1
  <1>3. [m EXCEPT !.error = "index_out_of_range"] =
          [rows |-> m.rows, cols |-> m.cols, at |-> m.at, error |-> "index_out_of_range"]
    BY <1>2
  <1>4. [m EXCEPT !.at = g] = n
    BY <1>2
  <1>5. [n EXCEPT !.error = "none"] = [rows |-> m.rows, cols |-> m.cols, at |-> g, error |-> "none"]
    OBVIOUS
  <1> QED
    BY <1>3, <1>4, <1>5 DEF Changed, Thrown

\* The operations of the four classes, and what they are made from.
USE DEF Choose, Classes, Changed, Thrown, Stored

LEMMA ScaledIs ==
  ASSUME NEW k \in Classes, NEW m, IsMatrix(k, m), NEW a \in Entry
  PROVE  Scaled(k, m, a) = Changed(m, [ij \in Stored(m) |-> Times(a, m.at[ij])])
  <1>1. \A ij \in Stored(m) : Times(a, m.at[ij]) = Times(m.at[ij], a)
    BY Scalars DEF IsMatrix
  <1> QED
    BY <1>1 DEF Scaled, Times,
      Common!Scal, Common!Updated, Common!Stored, Common!Times,
      EigenDense!Scal, EigenDense!Updated, EigenDense!Stored, EigenDense!Times,
      Istl!Scal, Istl!Updated, Istl!Stored, Istl!Times,
      EigenSparse!Scal, EigenSparse!Updated, EigenSparse!Stored, EigenSparse!Times

\* axpy with itself
LEMMA SummedIs ==
  ASSUME NEW k \in Classes, NEW m, IsMatrix(k, m), NEW a \in Entry
  PROVE  Summed(k, m, a, m) = Changed(m, [ij \in Stored(m) |-> Plus(m.at[ij], Times(a, m.at[ij]))])
  <1> DEFINE g == [ij \in DOMAIN m.at |-> Plus(m.at[ij], Times(a, m.at[ij]))]
  <1>1. CASE k # "eigen_sparse"
    BY <1>1 DEF Summed, Times, Plus,
       Common!Axpy, Common!HasEqualShape, Common!Updated, Common!Stored, Common!Times, Common!Plus,
       EigenDense!Axpy, EigenDense!HasEqualShape, EigenDense!Updated, EigenDense!Stored, EigenDense!Times, EigenDense!Plus,
       Istl!Axpy, Istl!HasEqualShape, Istl!Updated, Istl!Stored, Istl!Times, Istl!Plus
  <1>2. CASE k = "eigen_sparse"
    <2>1. EigenSparse!Axpy(m, a, m) = [rows |-> m.rows, cols |-> m.cols, at |-> g, error |-> "none"]
      BY DEF Times, Plus, EigenSparse!Axpy, EigenSparse!HasEqualShape, EigenSparse!Matrix, EigenSparse!Stored,
         EigenSparse!Read, EigenSparse!Times, EigenSparse!Plus
    <2>2. EigenSparse!Axpy(m, a, m) = Changed(m, g)
      BY <2>1, ChangedIs
    <2> QED
      BY <1>2, <2>2 DEF Summed
  <1> QED
    BY <1>1, <1>2

LEMMA EntryWrittenIs ==
  ASSUME NEW k \in Classes, NEW m, IsMatrix(k, m), NEW i, NEW j, NEW x
  PROVE  WithEntry(k, m, i, j, x) =
           Changed(m, [ij \in Stored(m) |-> IF ij = <<i, j>> THEN x ELSE m.at[ij]])
  BY DEF WithEntry,
     Common!SetEntry, Common!Updated, Common!Stored,
     EigenDense!SetEntry, EigenDense!Updated, EigenDense!Stored,
     Istl!SetEntry, Istl!Updated, Istl!Stored,
     EigenSparse!SetEntry, EigenSparse!Updated, EigenSparse!Stored

LEMMA EntryAddedIs ==
  ASSUME NEW k \in Classes, NEW m, IsMatrix(k, m), NEW i, NEW j, NEW x
  PROVE  WithAdded(k, m, i, j, x) =
           Changed(m, [ij \in Stored(m) |-> IF ij = <<i, j>> THEN Plus(m.at[ij], x) ELSE m.at[ij]])
  BY DEF WithAdded, Plus,
     Common!AddToEntry, Common!Updated, Common!Stored, Common!Plus,
     EigenDense!AddToEntry, EigenDense!Updated, EigenDense!Stored, EigenDense!Plus,
     Istl!AddToEntry, Istl!Updated, Istl!Stored, Istl!Plus,
     EigenSparse!AddToEntry, EigenSparse!Updated, EigenSparse!Stored, EigenSparse!Plus

LEMMA ReadIs ==
  ASSUME NEW k \in Classes, NEW m, IsMatrix(k, m), NEW ij \in AllCells(m)
  PROVE  EntryOf(k, m, ij[1], ij[2]) = Read(m, ij)
  <1>1. ij = <<ij[1], ij[2]>> /\ ij[1] < m.rows /\ ij[2] < m.cols
    BY DEF AllCells, Cells, IsMatrix
  <1> QED
    BY <1>1 DEF EntryOf, Read, IsDense, IsMatrix,
       Common!GetEntry, EigenDense!GetEntry,
       Istl!GetEntry, Istl!TheseAreValidIndices, Istl!Stored,
       EigenSparse!GetEntry, EigenSparse!Read, EigenSparse!Stored

\* A cleared row of eigen_dense is assigned, those of the others are multiplied.
LEMMA RowClearedIs ==
  ASSUME NEW k \in Classes, NEW m, IsMatrix(k, m), NEW i \in 0 .. m.rows
  PROVE  RowCleared(k, m, i) =
           IF i >= m.rows THEN Thrown(m)
           ELSE Changed(m, [ij \in Stored(m) |->
                              IF ij[1] # i THEN m.at[ij]
                              ELSE IF k = "eigen_dense" THEN 0 ELSE Times(m.at[ij], 0)])
  BY DEF RowCleared, Times,
       Common!ClearRow, Common!Throw, Common!Updated, Common!Stored, Common!Times,
       EigenDense!ClearRow, EigenDense!Throw, EigenDense!Updated, EigenDense!Stored,
       Istl!ClearRow, Istl!Throw, Istl!Updated, Istl!Stored, Istl!Times,
       EigenSparse!ClearRow, EigenSparse!Throw, EigenSparse!Updated, EigenSparse!Stored, EigenSparse!Times

LEMMA ColClearedIs ==
  ASSUME NEW k \in Classes, NEW m, IsMatrix(k, m), NEW j \in 0 .. m.cols
  PROVE  ColCleared(k, m, j) =
           IF j >= m.cols THEN Thrown(m)
           ELSE Changed(m, [ij \in Stored(m) |-> IF ij[2] = j THEN 0 ELSE m.at[ij]])
  BY DEF ColCleared,
       Common!ClearCol, Common!Throw, Common!Updated, Common!Stored,
       EigenDense!ClearCol, EigenDense!Throw, EigenDense!Updated, EigenDense!Stored,
       Istl!ClearCol, Istl!Throw, Istl!Updated, Istl!Stored,
       EigenSparse!ClearCol, EigenSparse!Throw, EigenSparse!Updated, EigenSparse!Stored

LEMMA RowUnitIs ==
  ASSUME NEW k \in Classes, NEW m, IsMatrix(k, m), NEW i \in 0 .. m.rows
  PROVE  RowUnit(k, m, i) =
           IF i >= m.rows \/ i >= m.cols \/ <<i, i>> \notin Stored(m) THEN Thrown(m)
           ELSE Changed(m, [ij \in Stored(m) |->
                              IF ij[1] # i THEN m.at[ij]
                              ELSE IF ij = <<i, i>> THEN 1
                              ELSE IF IsDense(k) THEN 0 ELSE Times(m.at[ij], 0)])
  <1>1. i < m.rows /\ i < m.cols => <<i, i>> \in AllCells(m)
    BY DEF AllCells, Cells, IsMatrix
  <1>2. \A ij \in Stored(m) : ij = <<ij[1], ij[2]>>
    BY DEF AllCells, Cells, IsMatrix
  <1> DEFINE g == [ij \in DOMAIN m.at |-> IF ij[1] # i THEN m.at[ij]
                                          ELSE IF ij = <<i, i>> THEN 1
                                          ELSE IF IsDense(k) THEN 0 ELSE Times(m.at[ij], 0)]
  <1>3. CASE k = "common_dense"
    <2>1. g = [ij \in DOMAIN m.at |-> IF ij = <<i, i>> THEN 1 ELSE IF ij[1] = i THEN 0 ELSE m.at[ij]]
      BY <1>3 DEF IsDense
    <2> HIDE DEF g
    <2>2. <<i, i>> \notin Stored(m) => i >= m.rows \/ i >= m.cols
      BY <1>1, <1>3 DEF IsMatrix, IsDense
    <2>3. Common!UnitRow(m, i) = IF i >= m.cols \/ i >= m.rows THEN Thrown(m) ELSE Changed(m, g)
      BY <2>1 DEF Common!UnitRow, Common!Throw, Common!Updated, Common!Stored
    <2> QED
      BY <1>3, <2>2, <2>3 DEF RowUnit, g
  <1>4. CASE k = "eigen_dense"
    <2>1. g = [ij \in DOMAIN m.at |-> IF ij[1] # i THEN m.at[ij] ELSE IF ij[2] = i THEN 1 ELSE 0]
      BY <1>2, <1>4 DEF IsDense
    <2> HIDE DEF g
    <2>2. <<i, i>> \notin Stored(m) => i >= m.rows \/ i >= m.cols
      BY <1>1, <1>4 DEF IsMatrix, IsDense
    <2>3. EigenDense!UnitRow(m, i) = IF i >= m.cols \/ i >= m.rows THEN Thrown(m) ELSE Changed(m, g)
      BY <2>1 DEF EigenDense!UnitRow, EigenDense!Throw, EigenDense!Updated, EigenDense!Stored
    <2> QED
      BY <1>4, <2>2, <2>3 DEF RowUnit, g
  <1>5. CASE k \in {"istl_sparse", "eigen_sparse"}
    <2>1. g = [ij \in DOMAIN m.at |-> IF ij = <<i, i>> THEN 1 ELSE IF ij[1] = i THEN Times(m.at[ij], 0) ELSE m.at[ij]]
      BY <1>5 DEF IsDense
    <2> HIDE DEF g
    <2>2. ~(i >= m.rows) /\ ~(i >= m.cols) => i < m.rows /\ i < m.cols
      BY DEF IsMatrix
    <2>3. Istl!UnitRow(m, i) =
            IF i >= m.cols \/ i >= m.rows \/ <<i, i>> \notin DOMAIN m.at THEN Thrown(m) ELSE Changed(m, g)
      BY <2>1 DEF Times, Istl!UnitRow, Istl!Throw, Istl!Updated, Istl!Stored, Istl!Times
    <2>4. EigenSparse!UnitRow(m, i) =
            IF i >= m.cols \/ i >= m.rows \/ <<i, i>> \notin DOMAIN m.at THEN Thrown(m) ELSE Changed(m, g)
      BY <2>1, <2>2 DEF Times, EigenSparse!UnitRow, EigenSparse!TheseAreValidIndices, EigenSparse!Throw,
         EigenSparse!Updated, EigenSparse!Stored, EigenSparse!Times
    <2> QED
      BY <1>5, <2>3, <2>4 DEF RowUnit, g
  <1> QED
    BY <1>3, <1>4, <1>5

LEMMA ColUnitIs ==
  ASSUME NEW k \in Classes, NEW m, IsMatrix(k, m), NEW j \in 0 .. m.cols
  PROVE  ColUnit(k, m, j) =
           IF j >= m.cols \/ j >= m.rows \/ (k = "istl_sparse" /\ <<j, j>> \notin Stored(m)) THEN Thrown(m)
           ELSE Changed(m, [ij \in Stored(m) |->
                              IF ij[2] # j \/ (k = "istl_sparse" /\ ij[1] > j) THEN m.at[ij]
                              ELSE IF ij = <<j, j>> THEN 1 ELSE 0])
  <1>1. \A ij \in Stored(m) : ij = <<ij[1], ij[2]>> /\ ij[1] \in Nat /\ ij[2] \in Nat
    BY DEF AllCells, Cells, IsMatrix
  <1>2. CASE k = "common_dense"
    BY <1>1, <1>2 DEF ColUnit, Common!UnitCol, Common!Throw, Common!Updated, Common!Stored
  <1>3. CASE k \in {"eigen_dense", "eigen_sparse"}
    <2> DEFINE g == [ij \in DOMAIN m.at |-> IF ij[2] # j THEN m.at[ij] ELSE IF ij = <<j, j>> THEN 1 ELSE 0]
    <2>1. \A ij \in Stored(m) : ij = <<j, j>> <=> ij[1] = j /\ ij[2] = j
      BY <1>1
    <2>2. g = [ij \in DOMAIN m.at |-> IF ij[2] # j THEN m.at[ij] ELSE IF ij[1] = j THEN 1 ELSE 0]
      BY <2>1
    <2> HIDE DEF g
    <2>3. EigenDense!UnitCol(m, j) = IF j >= m.cols \/ j >= m.rows THEN Thrown(m) ELSE Changed(m, g)
      BY <2>2 DEF EigenDense!UnitCol, EigenDense!Throw, EigenDense!Updated, EigenDense!Stored
    <2>4. EigenSparse!UnitCol(m, j) = IF j >= m.cols \/ j >= m.rows THEN Thrown(m) ELSE Changed(m, g)
      BY <2>2 DEF EigenSparse!UnitCol, EigenSparse!Throw, EigenSparse!Updated, EigenSparse!Stored
    <2> QED
      BY <1>3, <2>3, <2>4 DEF ColUnit, g
  <1>4. CASE k = "istl_sparse"
    <2> DEFINE g == [ij \in DOMAIN m.at |-> IF ij[2] # j \/ ij[1] > j THEN m.at[ij]
                                            ELSE IF ij = <<j, j>> THEN 1 ELSE 0]
    <2>1. \A ij \in Stored(m) : ij # <<j, j>> /\ ij[2] = j => (ij[1] > j <=> ~(ij[1] < j))
      BY <1>1
    <2>2. g = [ij \in DOMAIN m.at |-> IF ij = <<j, j>> THEN 1 ELSE IF ij[2] = j /\ ij[1] < j THEN 0 ELSE m.at[ij]]
      BY <2>1
    <2>3. Istl!UnitCol(m, j) =
            IF j >= m.cols \/ j >= m.rows \/ <<j, j>> \notin DOMAIN m.at THEN Thrown(m) ELSE Changed(m, g)
      BY <2>2 DEF Istl!UnitCol, Istl!Throw, Istl!Updated, Istl!Stored
    <2> QED
      BY <1>4, <2>3 DEF ColUnit
  <1> QED
    BY <1>2, <1>3, <1>4

LEMMA SameCardinality ==
  ASSUME NEW S
  PROVE  /\ Common!Cardinality(S) = Cardinality(S)
         /\ EigenDense!Cardinality(S) = Cardinality(S)
         /\ Istl!Cardinality(S) = Cardinality(S)
         /\ EigenSparse!Cardinality(S) = Cardinality(S)
  BY Zenon DEF Cardinality, Common!Cardinality, EigenDense!Cardinality, Istl!Cardinality, EigenSparse!Cardinality

LEMMA SamePattern ==
  ASSUME NEW r, NEW S
  PROVE  /\ Common!PatternOf(r, S) = PatternOf(r, S)
         /\ EigenDense!PatternOf(r, S) = PatternOf(r, S)
         /\ Istl!PatternOf(r, S) = PatternOf(r, S)
         /\ EigenSparse!PatternOf(r, S) = PatternOf(r, S)
  <1>1. ASSUME NEW T
        PROVE  /\ Common!Ascending(T) = Ascending(T)
               /\ EigenDense!Ascending(T) = Ascending(T)
               /\ Istl!Ascending(T) = Ascending(T)
               /\ EigenSparse!Ascending(T) = Ascending(T)
    <2>1. /\ Common!Cardinality(T) = Cardinality(T) /\ EigenDense!Cardinality(T) = Cardinality(T)
          /\ Istl!Cardinality(T) = Cardinality(T) /\ EigenSparse!Cardinality(T) = Cardinality(T)
      BY SameCardinality
    <2> QED
      BY <2>1 DEF Ascending, Common!Ascending, EigenDense!Ascending, Istl!Ascending, EigenSparse!Ascending
  <1> QED
    BY <1>1 DEF PatternOf, Common!PatternOf, EigenDense!PatternOf, Istl!PatternOf, EigenSparse!PatternOf

LEMMA SameEntries ==
  ASSUME NEW p
  PROVE  /\ Common!Entries(p) = Entries(p)
         /\ EigenDense!Entries(p) = Entries(p)
         /\ Istl!Entries(p) = Entries(p)
         /\ EigenSparse!Entries(p) = Entries(p)
  BY DEF Entries, ToSet, Common!Entries, Common!ToSet, EigenDense!Entries, EigenDense!ToSet, Istl!Entries,
     Istl!ToSet, EigenSparse!Entries, EigenSparse!ToSet

SignificantIn(m) == {ij \in Stored(m) : IsSignificant(m.at[ij])}

LEMMA PrunedIs ==
  ASSUME NEW k \in Classes, NEW m, IsMatrix(k, m)
  PROVE  PrunedOf(k, m) =
           [rows |-> m.rows, cols |-> m.cols, error |-> "none",
            at |-> IF IsDense(k) THEN [ij \in AllCells(m) |-> IF ij \in SignificantIn(m) THEN m.at[ij] ELSE 0]
                   ELSE [ij \in SignificantIn(m) |-> m.at[ij]]]
  <1>1. SignificantIn(m) \subseteq AllCells(m)
    BY DEF IsMatrix, SignificantIn
  <1>2. Entries(PatternOf(m.rows, SignificantIn(m))) = SignificantIn(m)
    BY <1>1, PatternHasEntries DEF IsMatrix, AllCells
  <1>3. CASE k = "common_dense"
    <2>1. {ij \in Common!AllCells(m) : TRUE => Common!IsSignificant(Common!Read(m, ij))} = SignificantIn(m)
      BY <1>3 DEF SignificantIn, IsMatrix, IsDense, IsSignificant, AllCells, Cells,
         Common!AllCells, Common!Cells, Common!IsSignificant, Common!Read, Common!Stored
    <2>2. Common!Entries(Common!InterfacePattern(m, TRUE)) = SignificantIn(m)
      BY <1>2, <2>1, SamePattern, SameEntries DEF Common!InterfacePattern
    <2>3. Common!AllCells(m) = AllCells(m) /\ \A ij \in AllCells(m) : Common!Read(m, ij) = m.at[ij]
      BY <1>3 DEF IsMatrix, IsDense, AllCells, Cells, Common!AllCells, Common!Cells, Common!Read, Common!Stored
    <2>4. Common!InterfacePruned(m) = [rows |-> m.rows, cols |-> m.cols, error |-> "none",
            at |-> [ij \in AllCells(m) |-> IF ij \in SignificantIn(m) THEN m.at[ij] ELSE 0]]
      BY <2>2, <2>3 DEF Common!InterfacePruned, Common!Matrix
    <2> QED
      BY <1>3, <2>4 DEF PrunedOf, Common!Pruned, Common!CopyOf, IsDense
  <1>4. CASE k = "eigen_dense"
    <2>1. {ij \in EigenDense!AllCells(m) : TRUE => EigenDense!IsSignificant(EigenDense!Read(m, ij))} = SignificantIn(m)
      BY <1>4 DEF SignificantIn, IsMatrix, IsDense, IsSignificant, AllCells, Cells,
         EigenDense!AllCells, EigenDense!Cells, EigenDense!IsSignificant, EigenDense!Read, EigenDense!Stored
    <2>2. EigenDense!Entries(EigenDense!InterfacePattern(m, TRUE)) = SignificantIn(m)
      BY <1>2, <2>1, SamePattern, SameEntries DEF EigenDense!InterfacePattern
    <2>3. EigenDense!AllCells(m) = AllCells(m) /\ \A ij \in AllCells(m) : EigenDense!Read(m, ij) = m.at[ij]
      BY <1>4 DEF IsMatrix, IsDense, AllCells, Cells,
         EigenDense!AllCells, EigenDense!Cells, EigenDense!Read, EigenDense!Stored
    <2>4. EigenDense!InterfacePruned(m) = [rows |-> m.rows, cols |-> m.cols, error |-> "none",
            at |-> [ij \in AllCells(m) |-> IF ij \in SignificantIn(m) THEN m.at[ij] ELSE 0]]
      BY <2>2, <2>3 DEF EigenDense!InterfacePruned, EigenDense!Matrix
    <2> QED
      BY <1>4, <2>4 DEF PrunedOf, EigenDense!Pruned, EigenDense!CopyOf, IsDense
  <1>5. CASE k = "istl_sparse"
    <2>1. {ij \in Istl!Stored(m) : Istl!IsSignificant(m.at[ij])} = SignificantIn(m)
      BY DEF SignificantIn, IsSignificant, Istl!IsSignificant, Istl!Stored
    <2>2. Istl!Entries(Istl!PrunedPatternFromBackend(m)) = SignificantIn(m)
      BY <1>2, <2>1, SamePattern, SameEntries DEF Istl!PrunedPatternFromBackend
    <2>3. Istl!CopyOf(m, TRUE) = [rows |-> m.rows, cols |-> m.cols, error |-> "none",
            at |-> [ij \in SignificantIn(m) |-> m.at[ij]]]
      BY <2>2 DEF Istl!CopyOf, Istl!BuildSparseMatrix, Istl!Matrix
    <2> QED
      BY <1>5, <2>3 DEF PrunedOf, Istl!Pruned, IsDense
  <1>6. CASE k = "eigen_sparse"
    <2>1. {ij \in EigenSparse!Stored(m) : TRUE => EigenSparse!IsSignificant(m.at[ij])} = SignificantIn(m)
      BY DEF SignificantIn, IsSignificant, EigenSparse!IsSignificant, EigenSparse!Stored
    <2>2. EigenSparse!CopyOf(m, TRUE) = [rows |-> m.rows, cols |-> m.cols, error |-> "none",
            at |-> [ij \in SignificantIn(m) |-> m.at[ij]]]
      BY <2>1 DEF EigenSparse!CopyOf, EigenSparse!Matrix
    <2> QED
      BY <1>6, <2>2 DEF PrunedOf, EigenSparse!Pruned, IsDense
  <1> QED
    BY <1>3, <1>4, <1>5, <1>6

LEMMA PatternsAgree ==
  ASSUME NEW k \in {"istl_sparse", "eigen_sparse"}, NEW m, IsMatrix(k, m)
  PROVE  Equal(PatternIn(k, PrunedOf(k, m), FALSE), PatternIn(k, m, TRUE))
  <1> DEFINE n == PrunedOf(k, m)
  <1>1. n.rows = m.rows /\ Stored(n) = SignificantIn(m)
    BY PrunedIs DEF IsDense
  <1> HIDE DEF n
  <1>2. CASE k = "istl_sparse"
    <2>1. {ij \in Istl!Stored(m) : Istl!IsSignificant(m.at[ij])} = SignificantIn(m) /\ Istl!Stored(n) = Stored(n)
      BY DEF SignificantIn, IsSignificant, Istl!IsSignificant, Istl!Stored
    <2>2. PatternIn(k, m, TRUE) = Istl!PatternOf(m.rows, SignificantIn(m))
      BY <1>2, <2>1 DEF PatternIn, Istl!PatternIn, Istl!PrunedPatternFromBackend
    <2>3. PatternIn(k, n, FALSE) = Istl!PatternOf(n.rows, Stored(n))
      BY <1>2, <2>1 DEF PatternIn, Istl!PatternIn
    <2> QED
      BY <1>1, <2>2, <2>3 DEF Equal, n
  <1>3. CASE k = "eigen_sparse"
    <2>1. {ij \in EigenSparse!Stored(m) : TRUE => EigenSparse!DiffersFromZero(m.at[ij], Eps)} = SignificantIn(m)
      <3>1. \A x : EigenSparse!DiffersFromZero(x, Eps) <=> IsSignificant(x)
        BY DEF EigenSparse!DiffersFromZero, IsSignificant
      <3> QED
        BY <3>1 DEF SignificantIn, EigenSparse!Stored
    <2>2. {ij \in EigenSparse!Stored(n) : FALSE => EigenSparse!DiffersFromZero(n.at[ij], Eps)} = Stored(n)
      BY DEF EigenSparse!Stored
    <2>3. PatternIn(k, m, TRUE) = EigenSparse!PatternOf(m.rows, SignificantIn(m))
      BY <1>3, <2>1 DEF PatternIn, EigenSparse!PatternIn
    <2>4. PatternIn(k, n, FALSE) = EigenSparse!PatternOf(n.rows, Stored(n))
      BY <1>3, <2>2 DEF PatternIn, EigenSparse!PatternIn
    <2> QED
      BY <1>1, <2>3, <2>4 DEF Equal, n
  <1> QED
    BY <1>2, <1>3

\* A matrix that is made from a pattern has no entries but zeros.
LEMMA MadeIs ==
  ASSUME NEW k \in Classes, NEW r \in Nat, NEW c \in Nat, NEW p \in [0 .. (r - 1) -> Seq(0 .. (c - 1))]
  PROVE  /\ IsMatrix(k, Made(k, r, c, p))
         /\ Made(k, r, c, p).rows = r /\ Made(k, r, c, p).cols = c
         /\ \A ij \in Stored(Made(k, r, c, p)) : Made(k, r, c, p).at[ij] = 0
  <1>1. ASSUME NEW S \in SUBSET Cells(r, c), IsDense(k) => S = Cells(r, c),
               Made(k, r, c, p) = [rows |-> r, cols |-> c, error |-> "none", at |-> [ij \in S |-> 0]]
        PROVE  /\ IsMatrix(k, Made(k, r, c, p))
               /\ Made(k, r, c, p).rows = r /\ Made(k, r, c, p).cols = c
               /\ \A ij \in Stored(Made(k, r, c, p)) : Made(k, r, c, p).at[ij] = 0
    BY <1>1, Scalars DEF IsMatrix, AllCells
  <1>2. Entries(p) \in SUBSET Cells(r, c)
    <2>1. \A i \in 0 .. (r - 1) : ToSet(p[i]) \subseteq 0 .. (c - 1)
      BY ElementOfSeq DEF ToSet
    <2> QED
      BY <2>1 DEF Entries, Cells
  <1>3. CASE k = "common_dense"
    <2>1. Common!Dense(r, c, 0) = [rows |-> r, cols |-> c, error |-> "none", at |-> [ij \in Cells(r, c) |-> 0]]
      BY DEF Common!Dense, Common!Matrix, Common!Cells, Cells
    <2> QED
      BY <1>1, <1>3, <2>1 DEF Made, Common!ConstructFromPattern
  <1>4. CASE k = "eigen_dense"
    <2>1. EigenDense!Dense(r, c, 0) = [rows |-> r, cols |-> c, error |-> "none", at |-> [ij \in Cells(r, c) |-> 0]]
      BY DEF EigenDense!Dense, EigenDense!Matrix, EigenDense!Cells, Cells
    <2> QED
      BY <1>1, <1>4, <2>1 DEF Made, EigenDense!ConstructFromPattern
  <1>5. Cardinality(DOMAIN p) = r
    <2>1. Cardinality(0 .. (r - 1)) = IF 0 > r - 1 THEN 0 ELSE (r - 1) - 0 + 1
      BY FS_Interval
    <2> QED
      BY <2>1
  <1>6. CASE k = "istl_sparse"
    <2>1. Istl!PatternSize(p) = r
      BY <1>5, SameCardinality DEF Istl!PatternSize
    <2>2. Istl!BuildSparseMatrix(r, c, p) =
            [rows |-> r, cols |-> c, error |-> "none", at |-> [ij \in Entries(p) |-> 0]]
      BY SameEntries DEF Istl!BuildSparseMatrix, Istl!Matrix
    <2>3. Made(k, r, c, p) = [rows |-> r, cols |-> c, error |-> "none", at |-> [ij \in Entries(p) |-> 0]]
      BY <1>6, <2>1, <2>2 DEF Made, Istl!ConstructFromPattern
    <2> QED
      BY <1>1, <1>2, <1>6, <2>3 DEF IsDense
  <1>7. CASE k = "eigen_sparse"
    <2>1. EigenSparse!Entries(p) = Entries(p) /\ EigenSparse!PatternSize(p) = r
      BY <1>5, SameCardinality, SameEntries DEF EigenSparse!PatternSize
    <2>2. CASE r = 0 \/ c = 0
      <3>1. Made(k, r, c, p) = [rows |-> r, cols |-> c, error |-> "none", at |-> [ij \in {} |-> 0]]
        BY <1>7, <2>2 DEF Made, EigenSparse!ConstructFromPattern, EigenSparse!Construct, EigenSparse!Matrix
      <3>2. PICK S \in SUBSET Cells(r, c) : S = {}
        OBVIOUS
      <3>3. Made(k, r, c, p) = [rows |-> r, cols |-> c, error |-> "none", at |-> [ij \in S |-> 0]]
        BY <3>1, <3>2
      <3> QED
        BY <1>1, <1>7, <3>3 DEF IsDense
    <2>3. CASE ~(r = 0 \/ c = 0)
      <3> DEFINE S == Entries(p) \cup {<<i, 0>> : i \in {l \in DOMAIN p : p[l] = <<>>}}
      <3>1. ~(\E ij \in Entries(p) : ij[2] >= c)
        BY <1>2 DEF Cells
      <3>2. S \in SUBSET Cells(r, c)
        BY <1>2, <2>3 DEF Cells
      <3>3. Made(k, r, c, p) = [rows |-> r, cols |-> c, error |-> "none", at |-> [ij \in S |-> 0]]
        BY <1>7, <2>1, <2>3, <3>1 DEF Made, EigenSparse!ConstructFromPattern, EigenSparse!Matrix
      <3> QED
        BY <1>1, <1>7, <3>2, <3>3 DEF IsDense
    <2> QED
      BY <2>2, <2>3
  <1> QED
    BY <1>3, <1>4, <1>6, <1>7

LEMMA ValidIs ==
  ASSUME NEW k \in Classes, NEW m, IsMatrix(k, m)
  PROVE  IsValid(k, m) <=> \A ij \in AllCells(m) : Read(m, ij) # NaN
  <1>1. CASE IsDense(k)
    <2>1. Stored(m) = AllCells(m) /\ \A ij \in AllCells(m) : Read(m, ij) = m.at[ij]
      BY <1>1 DEF IsMatrix, Read
    <2> QED
      BY <1>1, <2>1 DEF IsDense, IsValid, AllCells, Cells, Common!Valid, Common!AllCells, Common!Cells,
         EigenDense!Valid, EigenDense!AllCells, EigenDense!Cells
  <1>2. CASE ~IsDense(k)
    <2>1. IsValid(k, m) <=> \A ij \in Stored(m) : m.at[ij] # NaN
      BY <1>2 DEF IsDense, IsValid, Istl!Valid, Istl!Stored, EigenSparse!Valid, EigenSparse!Stored
    <2>2. Stored(m) \subseteq AllCells(m)
      BY DEF IsMatrix
    <2> QED
      BY <2>1, <2>2, Scalars DEF Read
  <1> QED
    BY <1>1, <1>2

-----------------------------------------------------------------------------
(* The inductive invariant: the types, and what the matrix reads. *)
HIDE DEF Choose, Changed, Thrown, Stored

MInv ==
  /\ class \in Classes /\ IsMatrix(class, mat)
  /\ table \in [AllCells(mat) -> Entry]
  /\ \A ij \in AllCells(mat) \ spoilt : Read(mat, ij) = table[ij]

\* What a step may do to the pattern.
KeepsPattern ==
  /\ mat'.error # "none" => mat'.at = mat.at
  /\ (Stored(mat') # Stored(mat)) => mat' = PrunedOf(class, mat)

\* A call that writes to the stored entries, but for those it is known to leave.
LEMMA Wrote ==
  ASSUME MInv, NEW g \in [Stored(mat) -> Entry], NEW promised \in [AllCells(mat) -> Entry],
         NEW written, NEW kept, Become(Changed(mat, g), promised, written, kept),
         \A ij \in AllCells(mat) \ kept :
            (ij \in spoilt => ij \in written) => (IF ij \in Stored(mat) THEN g[ij] ELSE 0) = promised[ij]
  PROVE  MInv' /\ KeepsPattern
  <1>1. mat' = [rows |-> mat.rows, cols |-> mat.cols, at |-> g, error |-> "none"]
    BY ChangedIs DEF MInv, Become
  <1>2. table' = promised /\ spoilt' = (spoilt \ written) \cup kept /\ class' = class
    BY <1>1 DEF Become
  <1>3. Stored(mat') = Stored(mat) /\ AllCells(mat') = AllCells(mat)
    BY <1>1 DEF AllCells, Stored
  <1>4. IsMatrix(class', mat')
    BY <1>1, <1>2, <1>3 DEF MInv, IsMatrix
  <1>5. ASSUME NEW ij \in AllCells(mat') \ spoilt'
        PROVE  Read(mat', ij) = table'[ij]
    BY <1>1, <1>2, <1>3 DEF Read
  <1>6. MInv'
    BY <1>2, <1>3, <1>4, <1>5 DEF MInv
  <1> QED
    BY <1>1, <1>3, <1>6 DEF KeepsPattern

LEMMA Threw ==
  ASSUME MInv, NEW promised, NEW written, NEW kept, Become(Thrown(mat), promised, written, kept)
  PROVE  MInv' /\ KeepsPattern
  <1>1. mat' = [rows |-> mat.rows, cols |-> mat.cols, at |-> mat.at, error |-> "index_out_of_range"]
    BY ChangedIs DEF MInv, Become
  <1>2. table' = table /\ spoilt' = spoilt /\ class' = class
    BY <1>1 DEF Become
  <1>3. Stored(mat') = Stored(mat) /\ AllCells(mat') = AllCells(mat) /\ mat'.at = mat.at
    BY <1>1 DEF AllCells, Stored
  <1>4. IsMatrix(class', mat')
    BY <1>1, <1>2, <1>3 DEF MInv, IsMatrix
  <1> QED
    BY <1>2, <1>3, <1>4 DEF MInv, Read, KeepsPattern

LEMMA EntryStep ==
  ASSUME MInv, NEW i \in Rows, NEW j \in Cols, NEW x \in Entry, SetEntry(i, j, x) \/ AddToEntry(i, j, x)
  PROVE  MInv' /\ KeepsPattern
  <1>1. <<i, j>> \in Stored(mat) /\ <<i, j>> \in AllCells(mat)
    BY DEF SetEntry, AddToEntry, MInv, IsMatrix
  <1>2. CASE SetEntry(i, j, x)
    <2> DEFINE g == [ij \in Stored(mat) |-> IF ij = <<i, j>> THEN x ELSE mat.at[ij]]
               promised == [table EXCEPT ![<<i, j>>] = x]
    <2>1. Become(Changed(mat, g), promised, {<<i, j>>}, {})
      <3>1. WithEntry(class, mat, i, j, x) = Changed(mat, g)
        BY EntryWrittenIs DEF MInv
      <3> HIDE DEF g
      <3> QED
        BY <1>2, <3>1 DEF SetEntry
    <2>2. g \in [Stored(mat) -> Entry] /\ promised \in [AllCells(mat) -> Entry]
      BY DEF MInv, IsMatrix
    <2>3. \A ij \in AllCells(mat) \ {} :
            (ij \in spoilt => ij \in {<<i, j>>}) => (IF ij \in Stored(mat) THEN g[ij] ELSE 0) = promised[ij]
      BY <1>1 DEF MInv, Read
    <2> HIDE DEF g, promised
    <2>4. MInv
      OBVIOUS
    <2> QED
      BY ONLY <2>1, <2>2, <2>3, <2>4, Wrote
  <1>3. CASE AddToEntry(i, j, x)
    <2> DEFINE g == [ij \in Stored(mat) |-> IF ij = <<i, j>> THEN Plus(mat.at[ij], x) ELSE mat.at[ij]]
               promised == [table EXCEPT ![<<i, j>>] = Plus(@, x)]
    <2>1. Become(Changed(mat, g), promised, {}, {})
      <3>1. WithAdded(class, mat, i, j, x) = Changed(mat, g)
        BY EntryAddedIs DEF MInv
      <3> HIDE DEF g
      <3> QED
        BY <1>3, <3>1 DEF AddToEntry
    <2>2. g \in [Stored(mat) -> Entry] /\ promised \in [AllCells(mat) -> Entry]
      BY <1>1, Scalars DEF MInv, IsMatrix
    <2>3. \A ij \in AllCells(mat) \ {} :
            (ij \in spoilt => ij \in {}) => (IF ij \in Stored(mat) THEN g[ij] ELSE 0) = promised[ij]
      BY <1>1 DEF MInv, Read
    <2> HIDE DEF g, promised
    <2>4. MInv
      OBVIOUS
    <2> QED
      BY ONLY <2>1, <2>2, <2>3, <2>4, Wrote
  <1> QED
    BY <1>2, <1>3

LEMMA ScalarStep ==
  ASSUME MInv, NEW a \in Entry \ {NaN}, Scal(a) \/ Axpy(a)
  PROVE  MInv' /\ KeepsPattern
  <1>1. CASE Scal(a)
    <2> DEFINE g == [ij \in Stored(mat) |-> Times(a, mat.at[ij])]
               promised == [ij \in AllCells(mat) |-> Times(a, table[ij])]
    <2>1. Become(Changed(mat, g), promised, {}, {})
      <3>1. Scaled(class, mat, a) = Changed(mat, g)
        BY ScaledIs DEF MInv
      <3> HIDE DEF g
      <3> QED
        BY <1>1, <3>1 DEF Scal
    <2>2. g \in [Stored(mat) -> Entry] /\ promised \in [AllCells(mat) -> Entry]
      BY Scalars DEF MInv, IsMatrix
    <2>3. \A ij \in AllCells(mat) \ {} :
            (ij \in spoilt => ij \in {}) => (IF ij \in Stored(mat) THEN g[ij] ELSE 0) = promised[ij]
      BY Scalars DEF MInv, Read
    <2> HIDE DEF g, promised
    <2>4. MInv
      OBVIOUS
    <2> QED
      BY ONLY <2>1, <2>2, <2>3, <2>4, Wrote
  <1>2. CASE Axpy(a)
    <2> DEFINE g == [ij \in Stored(mat) |-> Plus(mat.at[ij], Times(a, mat.at[ij]))]
               promised == [ij \in AllCells(mat) |-> Plus(table[ij], Times(a, table[ij]))]
    <2>1. Become(Changed(mat, g), promised, {}, {})
      <3>1. Summed(class, mat, a, mat) = Changed(mat, g)
        BY SummedIs DEF MInv
      <3> HIDE DEF g
      <3> QED
        BY <1>2, <3>1 DEF Axpy
    <2>2. g \in [Stored(mat) -> Entry] /\ promised \in [AllCells(mat) -> Entry]
      BY Scalars, ZenonT(60) DEF MInv, IsMatrix
    <2>3. \A ij \in AllCells(mat) \ {} :
            (ij \in spoilt => ij \in {}) => (IF ij \in Stored(mat) THEN g[ij] ELSE 0) = promised[ij]
      BY Scalars DEF MInv, Read
    <2> HIDE DEF g, promised
    <2>4. MInv
      OBVIOUS
    <2> QED
      BY ONLY <2>1, <2>2, <2>3, <2>4, Wrote
  <1> QED
    BY <1>1, <1>2

\* The cells of a row, or of a column, that are not spoilt by an earlier call
\* read as the table, and those that are not stored as zero.
LEMMA UnspoiltReads ==
  ASSUME MInv, NEW ij \in AllCells(mat), ij \notin spoilt
  PROVE  IF ij \in Stored(mat) THEN mat.at[ij] = table[ij] ELSE table[ij] = 0
  BY DEF MInv, Read

LEMMA ClearRowStep ==
  ASSUME MInv, NEW i \in 0 .. mat.rows, ClearRow(i)
  PROVE  MInv' /\ KeepsPattern
  <1> DEFINE g == [ij \in Stored(mat) |-> IF ij[1] # i THEN mat.at[ij]
                                          ELSE IF class = "eigen_dense" THEN 0 ELSE Times(mat.at[ij], 0)]
             promised == [ij \in AllCells(mat) |-> IF ij[1] = i THEN 0 ELSE table[ij]]
  <1>1. RowCleared(class, mat, i) = IF i >= mat.rows THEN Thrown(mat) ELSE Changed(mat, g)
    <2>1. class \in Classes /\ IsMatrix(class, mat)
      BY DEF MInv
    <2> QED
      BY ONLY <2>1, i \in 0 .. mat.rows, RowClearedIs
  <1>2. g \in [Stored(mat) -> Entry] /\ promised \in [AllCells(mat) -> Entry]
    BY Scalars, ZenonT(60) DEF MInv, IsMatrix
  <1>3. ASSUME NEW ij \in AllCells(mat) \ SurvivorsIn(i), ij \in spoilt => ij \in RowCells(i)
        PROVE  (IF ij \in Stored(mat) THEN g[ij] ELSE 0) = promised[ij]
    <2>1. CASE ij[1] = i
      <3>1. ij \in RowCells(i)
        BY <2>1 DEF RowCells
      <3>2. ij \in Stored(mat) => mat.at[ij] \in Entry /\ (class = "eigen_dense" \/ mat.at[ij] # NaN)
        BY <1>3, <3>1 DEF SurvivorsIn, NaNsIn, MInv, IsMatrix
      <3> QED
        BY <2>1, <3>2, Scalars
    <2>2. CASE ij[1] # i
      <3>1. ij \notin spoilt
        BY <1>3, <2>2 DEF RowCells
      <3> QED
        BY <2>2, <3>1, UnspoiltReads
    <2> QED
      BY <2>1, <2>2
  <1>4. \A ij \in AllCells(mat) \ SurvivorsIn(i) :
          (ij \in spoilt => ij \in RowCells(i)) => (IF ij \in Stored(mat) THEN g[ij] ELSE 0) = promised[ij]
    BY <1>3
  <1> HIDE DEF g
  <1>5. Become(RowCleared(class, mat, i), promised, RowCells(i), SurvivorsIn(i))
    BY DEF ClearRow
  <1> HIDE DEF promised
  <1>6. CASE i >= mat.rows
    <2>1. Become(Thrown(mat), promised, RowCells(i), SurvivorsIn(i))
      BY <1>1, <1>5, <1>6
    <2> QED
      BY <2>1, Threw
  <1>7. CASE ~(i >= mat.rows)
    <2>1. Become(Changed(mat, g), promised, RowCells(i), SurvivorsIn(i))
      BY <1>1, <1>5, <1>7
    <2>2. MInv
      OBVIOUS
    <2> QED
      BY ONLY <1>2, <1>4, <2>1, <2>2, Wrote
  <1> QED
    BY <1>6, <1>7

LEMMA ClearColStep ==
  ASSUME MInv, NEW j \in 0 .. mat.cols, ClearCol(j)
  PROVE  MInv' /\ KeepsPattern
  <1> DEFINE g == [ij \in Stored(mat) |-> IF ij[2] = j THEN 0 ELSE mat.at[ij]]
             promised == [ij \in AllCells(mat) |-> IF ij[2] = j THEN 0 ELSE table[ij]]
  <1>1. ColCleared(class, mat, j) = IF j >= mat.cols THEN Thrown(mat) ELSE Changed(mat, g)
    <2>1. class \in Classes /\ IsMatrix(class, mat)
      BY DEF MInv
    <2> QED
      BY ONLY <2>1, j \in 0 .. mat.cols, ColClearedIs
  <1>2. g \in [Stored(mat) -> Entry] /\ promised \in [AllCells(mat) -> Entry]
    BY Scalars DEF MInv, IsMatrix
  <1>3. \A ij \in AllCells(mat) \ {} :
          (ij \in spoilt => ij \in ColCells(j)) => (IF ij \in Stored(mat) THEN g[ij] ELSE 0) = promised[ij]
    BY UnspoiltReads DEF ColCells
  <1> HIDE DEF g
  <1>4. Become(ColCleared(class, mat, j), promised, ColCells(j), {})
    BY DEF ClearCol
  <1> HIDE DEF promised
  <1>5. CASE j >= mat.cols
    <2>1. Become(Thrown(mat), promised, ColCells(j), {})
      BY <1>1, <1>4, <1>5
    <2> QED
      BY <2>1, Threw
  <1>6. CASE ~(j >= mat.cols)
    <2>1. Become(Changed(mat, g), promised, ColCells(j), {})
      BY <1>1, <1>4, <1>6
    <2>2. MInv
      OBVIOUS
    <2> QED
      BY ONLY <1>2, <1>3, <2>1, <2>2, Wrote
  <1> QED
    BY <1>5, <1>6

LEMMA Units == 0 \in Entry /\ 1 \in Entry /\ \A ij : Unit(ij) \in Entry
  BY DEF Entry, Unit

LEMMA UnitRowStep ==
  ASSUME MInv, NEW i \in 0 .. mat.rows, UnitRow(i)
  PROVE  MInv' /\ KeepsPattern
  <1> DEFINE g == [ij \in Stored(mat) |-> IF ij[1] # i THEN mat.at[ij]
                                          ELSE IF ij = <<i, i>> THEN 1
                                          ELSE IF IsDense(class) THEN 0 ELSE Times(mat.at[ij], 0)]
             promised == [ij \in AllCells(mat) |-> IF ij[1] = i THEN Unit(ij) ELSE table[ij]]
             kept     == IF class = "common_dense" THEN {} ELSE SurvivorsIn(i) \ {<<i, i>>}
             throws   == i >= mat.rows \/ i >= mat.cols \/ <<i, i>> \notin Stored(mat)
  <1>1. RowUnit(class, mat, i) = IF throws THEN Thrown(mat) ELSE Changed(mat, g)
    <2>1. class \in Classes /\ IsMatrix(class, mat)
      BY DEF MInv
    <2> QED
      BY ONLY <2>1, i \in 0 .. mat.rows, RowUnitIs
  <1>2. g \in [Stored(mat) -> Entry] /\ promised \in [AllCells(mat) -> Entry]
    BY Scalars, Units, ZenonT(60) DEF MInv, IsMatrix
  <1>3. ASSUME ~throws, NEW ij \in AllCells(mat) \ kept, ij \in spoilt => ij \in RowCells(i)
        PROVE  (IF ij \in Stored(mat) THEN g[ij] ELSE 0) = promised[ij]
    <2>1. CASE ij[1] # i
      <3>1. ij \notin spoilt
        BY <1>3, <2>1 DEF RowCells
      <3> QED
        BY <2>1, <3>1, UnspoiltReads
    <2>2. CASE ij = <<i, i>>
      BY <1>3, <2>2 DEF Unit
    <2>3. CASE ij[1] = i /\ ij # <<i, i>>
      <3>1. ij \in RowCells(i) /\ ij = <<ij[1], ij[2]>>
        BY <2>3 DEF RowCells, AllCells, Cells
      <3>2. promised[ij] = 0
        BY <2>3, <3>1 DEF Unit
      <3>3. ij \in Stored(mat) => mat.at[ij] \in Entry /\ (IsDense(class) \/ mat.at[ij] # NaN)
        BY <1>3, <2>3, <3>1 DEF SurvivorsIn, NaNsIn, MInv, IsMatrix, IsDense
      <3>4. ij \in Stored(mat) => g[ij] = 0
        BY <2>3, <3>3, Scalars
      <3> QED
        BY <3>2, <3>4
    <2> QED
      BY <2>1, <2>2, <2>3
  <1>4. ~throws => \A ij \in AllCells(mat) \ kept :
          (ij \in spoilt => ij \in RowCells(i)) => (IF ij \in Stored(mat) THEN g[ij] ELSE 0) = promised[ij]
    BY <1>3
  <1> HIDE DEF g
  <1>5. Become(RowUnit(class, mat, i), promised, RowCells(i), kept)
    BY DEF UnitRow
  <1> HIDE DEF promised, kept, throws
  <1>6. CASE throws
    <2>1. Become(Thrown(mat), promised, RowCells(i), kept)
      BY <1>1, <1>5, <1>6
    <2> QED
      BY <2>1, Threw
  <1>7. CASE ~throws
    <2>1. Become(Changed(mat, g), promised, RowCells(i), kept)
      BY <1>1, <1>5, <1>7
    <2>2. \A ij \in AllCells(mat) \ kept :
            (ij \in spoilt => ij \in RowCells(i)) => (IF ij \in Stored(mat) THEN g[ij] ELSE 0) = promised[ij]
      BY <1>4, <1>7
    <2>3. MInv
      OBVIOUS
    <2> QED
      BY ONLY <1>2, <2>1, <2>2, <2>3, Wrote
  <1> QED
    BY <1>6, <1>7

LEMMA UnitColStep ==
  ASSUME MInv, NEW j \in 0 .. mat.cols, UnitCol(j)
  PROVE  MInv' /\ KeepsPattern
  <1> DEFINE g == [ij \in Stored(mat) |->
                     IF ij[2] # j \/ (class = "istl_sparse" /\ ij[1] > j) THEN mat.at[ij]
                     ELSE IF ij = <<j, j>> THEN 1 ELSE 0]
             promised == [ij \in AllCells(mat) |-> IF ij[2] = j THEN Unit(ij) ELSE table[ij]]
             throws   == j >= mat.cols \/ j >= mat.rows \/ (class = "istl_sparse" /\ <<j, j>> \notin Stored(mat))
  <1>1. ColUnit(class, mat, j) = IF throws THEN Thrown(mat) ELSE Changed(mat, g)
    <2>1. class \in Classes /\ IsMatrix(class, mat)
      BY DEF MInv
    <2> QED
      BY ONLY <2>1, j \in 0 .. mat.cols, ColUnitIs
  <1>2. g \in [Stored(mat) -> Entry] /\ promised \in [AllCells(mat) -> Entry]
    BY Scalars, Units DEF MInv, IsMatrix
  <1>3. ASSUME ~throws, NEW ij \in AllCells(mat) \ LeftBy(j), ij \in spoilt => ij \in ColCells(j)
        PROVE  (IF ij \in Stored(mat) THEN g[ij] ELSE 0) = promised[ij]
    <2>1. CASE ij[2] # j
      <3>1. ij \notin spoilt
        BY <1>3, <2>1 DEF ColCells
      <3> QED
        BY <2>1, <3>1, UnspoiltReads
    <2>2. CASE ij = <<j, j>>
      <3>1. ij \in Stored(mat)
        BY <1>3, <2>2 DEF LeftBy, MInv, IsMatrix, IsDense, Classes
      <3>2. ~(ij[1] > j)
        BY <2>2 DEF MInv, IsMatrix
      <3> QED
        BY <2>2, <3>1, <3>2 DEF Unit
    <2>3. CASE ij[2] = j /\ ij # <<j, j>>
      <3>1. ij \in ColCells(j) /\ ij = <<ij[1], ij[2]>>
        BY <2>3 DEF ColCells, AllCells, Cells
      <3>2. promised[ij] = 0
        BY <2>3, <3>1 DEF Unit
      <3>3. ij \in Stored(mat) => ~(class = "istl_sparse" /\ ij[1] > j)
        BY <1>3, <3>1 DEF LeftBy
      <3>4. ij \in Stored(mat) => g[ij] = 0
        BY <2>3, <3>3
      <3> QED
        BY <3>2, <3>4
    <2> QED
      BY <2>1, <2>2, <2>3
  <1>4. ~throws => \A ij \in AllCells(mat) \ LeftBy(j) :
          (ij \in spoilt => ij \in ColCells(j)) => (IF ij \in Stored(mat) THEN g[ij] ELSE 0) = promised[ij]
    BY <1>3
  <1> HIDE DEF g
  <1>5. Become(ColUnit(class, mat, j), promised, ColCells(j), LeftBy(j))
    BY DEF UnitCol
  <1> HIDE DEF promised, throws
  <1>6. CASE throws
    <2>1. Become(Thrown(mat), promised, ColCells(j), LeftBy(j))
      BY <1>1, <1>5, <1>6
    <2> QED
      BY <2>1, Threw
  <1>7. CASE ~throws
    <2>1. Become(Changed(mat, g), promised, ColCells(j), LeftBy(j))
      BY <1>1, <1>5, <1>7
    <2>2. \A ij \in AllCells(mat) \ LeftBy(j) :
            (ij \in spoilt => ij \in ColCells(j)) => (IF ij \in Stored(mat) THEN g[ij] ELSE 0) = promised[ij]
      BY <1>4, <1>7
    <2>3. MInv
      OBVIOUS
    <2> QED
      BY ONLY <1>2, <2>1, <2>2, <2>3, Wrote
  <1> QED
    BY <1>6, <1>7

\* The only call that changes the pattern, to that of the significant entries.
LEMMA PruneStep ==
  ASSUME MInv, Prune
  PROVE  MInv' /\ KeepsPattern
  <1> DEFINE S == SignificantIn(mat)
             g == IF IsDense(class) THEN [ij \in AllCells(mat) |-> IF ij \in S THEN mat.at[ij] ELSE 0]
                  ELSE [ij \in S |-> mat.at[ij]]
  <1>1. mat' = PrunedOf(class, mat) /\ class' = class
    BY DEF Prune, Become
  <1>2. PrunedOf(class, mat) = [rows |-> mat.rows, cols |-> mat.cols, error |-> "none", at |-> g]
    BY PrunedIs DEF MInv
  <1>3. S \subseteq AllCells(mat) /\ \A ij \in S : mat.at[ij] \in Entry
    BY DEF SignificantIn, MInv, IsMatrix
  <1>4. g \in [(IF IsDense(class) THEN AllCells(mat) ELSE S) -> Entry]
    BY <1>3, Scalars
  <1>5. \A ij \in AllCells(mat) :
          (IF ij \in DOMAIN g THEN g[ij] ELSE 0) = IF ij \in S THEN mat.at[ij] ELSE 0
    OBVIOUS
  <1>6. \A ij \in AllCells(mat) : ij \notin spoilt =>
          (IF ij \in S THEN mat.at[ij] ELSE 0) = IF IsSignificant(table[ij]) THEN table[ij] ELSE 0
    BY UnspoiltReads, Scalars DEF SignificantIn
  <1> HIDE DEF g, S
  <1>7. mat' = [rows |-> mat.rows, cols |-> mat.cols, error |-> "none", at |-> g]
    BY <1>1, <1>2
  <1>8. mat'.error = "none" /\ PrunedOf(class, mat).error = "none" /\ Stored(mat') = DOMAIN g
        /\ AllCells(mat') = AllCells(mat) /\ mat'.at = g
    BY <1>2, <1>7 DEF Stored, AllCells
  <1>9. IsMatrix(class', mat')
    BY <1>1, <1>3, <1>4, <1>7, <1>8 DEF IsMatrix, MInv
  <1>10. /\ table' = [ij \in AllCells(mat) |-> IF IsSignificant(table[ij]) THEN table[ij] ELSE 0]
         /\ spoilt' = (spoilt \ {}) \cup {}
    BY <1>8 DEF Prune, Become
  <1>11. table' \in [AllCells(mat') -> Entry]
    BY <1>8, <1>10, Scalars DEF MInv
  <1>12. ASSUME NEW ij \in AllCells(mat') \ spoilt'
         PROVE  Read(mat', ij) = table'[ij]
    BY <1>5, <1>6, <1>8, <1>10 DEF Read
  <1> QED
    BY <1>1, <1>8, <1>9, <1>11, <1>12 DEF MInv, KeepsPattern

LEMMA MatrixStep ==
  ASSUME MInv, MatrixNext
  PROVE  MInv' /\ KeepsPattern
  BY EntryStep, ScalarStep, ClearRowStep, UnitRowStep, ClearColStep, UnitColStep, PruneStep DEF MatrixNext

LEMMA MatrixInitMInv == MatrixInit => MInv
  <1> SUFFICES ASSUME MatrixInit PROVE MInv
    OBVIOUS
  <1>1. PICK shape \in Shapes : \E p \in Patterns[shape] : mat = Made(class, shape[1], shape[2], p)
    BY DEF MatrixInit
  <1>2. PICK p \in Patterns[shape] : mat = Made(class, shape[1], shape[2], p)
    BY <1>1
  <1>3. PICK r \in Nat : r = shape[1]
    OBVIOUS
  <1>4. PICK c \in Nat : c = shape[2]
    OBVIOUS
  <1>5. p \in [0 .. (r - 1) -> Seq(0 .. (c - 1))]
    BY <1>2, <1>3, <1>4
  <1>6. class \in Classes
    BY DEF MatrixInit
  <1>7. IsMatrix(class, mat) /\ \A ij \in Stored(mat) : mat.at[ij] = 0
    <2>1. mat = Made(class, r, c, p)
      BY <1>2, <1>3, <1>4
    <2>2. /\ IsMatrix(class, Made(class, r, c, p))
          /\ \A ij \in Stored(Made(class, r, c, p)) : Made(class, r, c, p).at[ij] = 0
      BY <1>5, <1>6, MadeIs
    <2> QED
      BY <2>1, <2>2
  <1> QED
    BY <1>6, <1>7, Scalars DEF MatrixInit, MInv, Read

LEMMA MatrixInvariance == MatrixSpec => []MInv
  <1>1. MInv /\ [MatrixNext]_matrixVars => MInv'
    <2>1. MInv /\ MatrixNext => MInv'
      BY MatrixStep
    <2>2. MInv /\ UNCHANGED matrixVars => MInv'
      BY DEF matrixVars, MInv
    <2> QED
      BY <2>1, <2>2
  <1> QED
    BY <1>1, MatrixInitMInv, PTL DEF MatrixSpec

\* Whatever its class, shape and pattern, a matrix reads as its table after any
\* calls of MatrixInterface, and pruning and validity go with that.
THEOREM MatricesReadAsPromised == MatrixSpec => []ReadsAsPromised
  <1>1. MInv => ReadsAsPromised
    <2> SUFFICES ASSUME MInv PROVE ReadsAsPromised
      OBVIOUS
    <2>1. \A ij \in AllCells(mat) \ spoilt : EntryOf(class, mat, ij[1], ij[2]) = table[ij]
      BY ReadIs DEF MInv
    <2>2. class \in {"istl_sparse", "eigen_sparse"} =>
            Equal(PatternIn(class, PrunedOf(class, mat), FALSE), PatternIn(class, mat, TRUE))
      BY PatternsAgree DEF MInv
    <2>3. spoilt = {} => (IsValid(class, mat) <=> \A ij \in AllCells(mat) : table[ij] # NaN)
      BY ValidIs DEF MInv
    <2> QED
      BY <2>1, <2>2, <2>3 DEF ReadsAsPromised, PruningIsConsistent
  <1> QED
    BY <1>1, MatrixInvariance, PTL

\* A call that throws changes no entry, and none but prune() the pattern.
THEOREM PatternsAreKept == MatrixSpec => PatternIsKept
  <1>1. MInv /\ [MatrixNext]_matrixVars =>
          [/\ mat'.error # "none" => mat'.at = mat.at
           /\ (Stored(mat') # Stored(mat)) => mat' = PrunedOf(class, mat)]_matrixVars
    BY MatrixStep DEF KeepsPattern
  <1> QED
    BY <1>1, MatrixInvariance, PTL DEF MatrixSpec, PatternIsKept
=============================================================================
