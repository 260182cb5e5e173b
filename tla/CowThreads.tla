---------------------------- MODULE CowThreads ----------------------------
(***************************************************************************)
(* The copy-on-write containers used by several threads at once.  Distinct *)
(* objects that share a backend may be used by distinct threads without a  *)
(* lock: the only state they have in common is the backend and its atomic  *)
(* use count.  ensure_uniqueness() is not atomic: the use count is read,   *)
(* the backend is copied, the pointer is replaced and the entries are      *)
(* written in steps of their own.                                          *)
(*                                                                         *)
(* A thread follows the rule of the standard library for objects: while it *)
(* calls a non-const method of an object no other thread uses that object, *)
(* and const methods run concurrently.  backend() const and data() replace *)
(* the mutable pointer, so a thread has to treat them like a write; those  *)
(* that read an entry of a CommonDenseVector or IstlDenseVector do not.    *)
(***************************************************************************)
EXTENDS TLC

CONSTANTS
  Threads,
  Handles,    \* the container objects, shared by all threads
  Backends,   \* the addresses a backend can be allocated at
  NoBackend,
  NoHandle,   \* the object of a thread that executes no method
  Values,     \* the contents of a backend
  Free        \* the content of an address that is not allocated

ASSUME SentinelAssumption ==
  NoBackend \notin Backends /\ Free \notin Values /\ NoHandle \notin Handles

ASSUME HandlesAssumption == Handles # {}   \* somebody owns the first backend

VARIABLES
  backend_,  \* the shared_ptr of each object
  heap,      \* the backend allocated at each address
  pc,        \* what each thread does next
  this,      \* the object whose method a thread executes
  other,     \* the argument of that method
  copy,      \* the deep copy that a thread has allocated
  val        \* the value every object has, as its users see it (history)

vars == <<backend_, heap, pc, this, other, copy, val>>

\* "idle", reading entries of this; checking the use count of this, copying
\* its backend, replacing its pointer, writing its entries (from the entries
\* of other); assigning other to this.
Labels == {"idle", "read", "check", "copy", "swap", "write", "assign"}

Owners(b) == {h \in Handles : backend_[h] = b}
unique(h) == Owners(backend_[h]) = {h}

\* What a thread uses as const (shared) and as non-const (alone).
Alone(t)  == IF pc[t] \in Labels \ {"idle", "read"} THEN {this[t]} ELSE {}
Shared(t) == IF pc[t] = "idle" THEN {} ELSE {this[t], other[t]}

MayUse(t, h)      == \A s \in Threads \ {t} : h \notin Alone(s)
MayUseAlone(t, h) == \A s \in Threads \ {t} : h \notin Alone(s) \cup Shared(s)

TypeOK ==
  /\ backend_ \in [Handles -> Backends]
  /\ heap \in [Backends -> Values \cup {Free}]
  /\ pc \in [Threads -> Labels]
  /\ this \in [Threads -> Handles \cup {NoHandle}]
  /\ other \in [Threads -> Handles \cup {NoHandle}]
  /\ copy \in [Threads -> Backends \cup {NoBackend}]
  /\ val \in [Handles -> Values]

\* Every object is a copy of every other: the worst sharing there is.
Init ==
  /\ \E b \in Backends, v \in Values :
        /\ backend_ = [h \in Handles |-> b]
        /\ heap = [a \in Backends |-> IF a = b THEN v ELSE Free]
        /\ val = [h \in Handles |-> v]
  /\ pc = [t \in Threads |-> "idle"]
  /\ this = [t \in Threads |-> NoHandle]
  /\ other = [t \in Threads |-> NoHandle]
  /\ copy = [t \in Threads |-> NoBackend]

Begin(t, h, g, label) ==
  /\ pc[t] = "idle"
  /\ MayUse(t, g)
  /\ pc' = [pc EXCEPT ![t] = label]
  /\ this' = [this EXCEPT ![t] = h]
  /\ other' = [other EXCEPT ![t] = g]
  /\ UNCHANGED <<backend_, heap, copy, val>>

Return(t) ==
  /\ pc' = [pc EXCEPT ![t] = "idle"]
  /\ this' = [this EXCEPT ![t] = NoHandle]
  /\ other' = [other EXCEPT ![t] = NoHandle]

\* Fault: reading an entry makes the deep copy.
BeginReadFaulty(t, h) == MayUse(t, h) /\ Begin(t, h, h, "check")

\* get_entry(), operator[] const: reads through the pointer as it is.
BeginRead(t, h) == MayUse(t, h) /\ Begin(t, h, h, "read")

get_entry(t) ==
  /\ pc[t] = "read"
  /\ Return(t)
  /\ UNCHANGED <<backend_, heap, copy, val>>

\* A method that writes to this and reads other: set_entry (with other = this),
\* axpy, iadd, ...
BeginWrite(t, h, g) == MayUseAlone(t, h) /\ Begin(t, h, g, "check")

\* Fault: the entries are written where they are, shared or not.
CheckFaulty(t) ==
  /\ pc[t] = "check"
  /\ pc' = [pc EXCEPT ![t] = "write"]
  /\ UNCHANGED <<backend_, heap, this, other, copy, val>>

\* `if (!backend_.unique())`, and make_shared's allocation.
Check(t) ==
  /\ pc[t] = "check"
  /\ IF unique(this[t])
     THEN /\ pc' = [pc EXCEPT ![t] = "write"]
          /\ UNCHANGED <<heap, copy>>
     ELSE \E b \in Backends, v \in Values :
            /\ heap[b] = Free
            /\ heap' = [heap EXCEPT ![b] = v]   \* not copied into yet
            /\ copy' = [copy EXCEPT ![t] = b]
            /\ pc' = [pc EXCEPT ![t] = "copy"]
  /\ UNCHANGED <<backend_, this, other, val>>

\* make_shared<BackendType>(*backend_): the copy constructor of the backend.
Copy(t) ==
  /\ pc[t] = "copy"
  /\ heap' = [heap EXCEPT ![copy[t]] = heap[backend_[this[t]]]]
  /\ pc' = [pc EXCEPT ![t] = "swap"]
  /\ UNCHANGED <<backend_, this, other, copy, val>>

\* Fault: the last owner is not noticed.
ReleaseFaulty(h, b) == heap

\* The old backend loses an owner, and is freed with the last one.
Release(h, b) == [heap EXCEPT ![backend_[h]] =
                    IF unique(h) /\ b # backend_[h] THEN Free ELSE @]

\* `backend_ = ...`
Swap(t) ==
  /\ pc[t] = "swap"
  /\ heap' = Release(this[t], copy[t])
  /\ backend_' = [backend_ EXCEPT ![this[t]] = copy[t]]
  /\ copy' = [copy EXCEPT ![t] = NoBackend]
  /\ pc' = [pc EXCEPT ![t] = "write"]
  /\ UNCHANGED <<this, other, val>>

\* The entries, some function of the old ones and of those of the argument.
Write(t) ==
  /\ pc[t] = "write"
  /\ \E v \in Values :
        /\ heap' = [heap EXCEPT ![backend_[this[t]]] = v]
        /\ val' = [val EXCEPT ![this[t]] = v]
  /\ Return(t)
  /\ UNCHANGED <<backend_, copy>>

\* operator=(const ThisType&): shares the backend of other.
BeginAssign(t, h, g) == MayUseAlone(t, h) /\ Begin(t, h, g, "assign")

Assign(t) ==
  LET h == this[t]
      b == backend_[other[t]]
  IN  /\ pc[t] = "assign"
      /\ heap' = Release(h, b)
      /\ backend_' = [backend_ EXCEPT ![h] = b]
      /\ val' = [val EXCEPT ![h] = val[other[t]]]
      /\ Return(t)
      /\ UNCHANGED copy

Step(t) ==
  \/ get_entry(t) \/ Check(t) \/ Copy(t) \/ Swap(t) \/ Write(t) \/ Assign(t)

Next == \E t \in Threads :
  \/ Step(t)
  \/ \E h \in Handles : BeginRead(t, h)
  \/ \E h, g \in Handles : BeginWrite(t, h, g) \/ BeginAssign(t, h, g)

Spec == Init /\ [][Next]_vars

-----------------------------------------------------------------------------
\* The backends whose entries a thread is reading, and writing.
Reading(t) ==
  CASE pc[t] = "read"  -> {backend_[this[t]]}
    [] pc[t] = "copy"  -> {backend_[this[t]]}
    [] pc[t] = "write" -> {backend_[other[t]]}
    [] OTHER -> {}
Writing(t) ==
  CASE pc[t] = "write" -> {backend_[this[t]]}
    [] pc[t] = "copy"  -> {copy[t]}
    [] OTHER -> {}

\* No thread writes the entries of a backend that another one reads or
\* writes, although the objects that share it are used without any lock.
NoDataRace ==
  \A t, s \in Threads :
    t # s => Writing(t) \cap (Reading(s) \cup Writing(s)) = {}

\* No object sees a write to another one, whatever the interleaving of the
\* steps of ensure_uniqueness: its entries are those its own methods left.
Isolation == \A h \in Handles : heap[backend_[h]] = val[h]

\* A backend is freed exactly when nobody owns it: the last of several
\* concurrent releases frees it, and none of them does so too early; what
\* threads hold while they do is of the right type.
NoLeak ==
  /\ TypeOK
  /\ \A b \in Backends :
       heap[b] # Free <=> Owners(b) # {} \/ \E t \in Threads : copy[t] = b

\* For model checking: what may be renamed.
Symmetry == Permutations(Threads) \cup Permutations(Handles) \cup Permutations(Backends)
=============================================================================
