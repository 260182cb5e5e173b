-------------------------- MODULE ValueContainer --------------------------
(***************************************************************************)
(* What the containers of dune/stuff/la promise to their users: a vector   *)
(* object is a VALUE.  Copying an object copies the value, and a method    *)
(* changes the value of the object it is called on (or of the result       *)
(* argument) and of no other object.  Nothing here is shared.              *)
(***************************************************************************)
EXTENDS Vectors

CONSTANTS
  Handles,   \* the vector objects of the program
  NoVector   \* the value of an object that is not constructed, no member of Vectors

VARIABLES
  val,   \* the value of each object
  call   \* the last method called, with its arguments

vars == <<val, call>>

Live(h) == val[h] # NoVector

Sets(h, v) == val' = [val EXCEPT ![h] = v]

Init == /\ val = [h \in Handles |-> NoVector]
        /\ call = <<"main">>

Construct(h, n, x) ==
  /\ call' = <<"ctor", h, n, x>>
  /\ ~Live(h)
  /\ Sets(h, Constant(n, x))
CopyConstruct(h, g) ==
  /\ call' = <<"copy_ctor", h, g>>
  /\ ~Live(h) /\ Live(g)
  /\ Sets(h, val[g])
Copy(h, g) ==
  /\ call' = <<"copy", h, g>>
  /\ ~Live(h) /\ Live(g)
  /\ Sets(h, val[g])
Destroy(h) ==
  /\ call' = <<"dtor", h>>
  /\ Live(h)
  /\ Sets(h, NoVector)
Assign(h, g) ==
  /\ call' = <<"assign", h, g>>
  /\ Live(h) /\ Live(g)
  /\ Sets(h, val[g])
AssignScalar(h, x) ==
  /\ call' = <<"assign_scalar", h, x>>
  /\ Live(h)
  /\ Sets(h, [i \in DOMAIN val[h] |-> x])
AssignBackend(h, v) ==
  /\ call' = <<"assign_backend", h, v>>
  /\ Live(h)
  /\ Sets(h, v)
Expose(h) ==
  /\ call' = <<"backend", h>>
  /\ Live(h)
  /\ UNCHANGED val
WriteThrough(h, i, x) ==
  /\ call' = <<"write_ref", h, i, x>>
  /\ Live(h) /\ i \in DOMAIN val[h]
  /\ Sets(h, WithEntry(val[h], i, x))
SetEntry(h, i, x) ==
  /\ call' = <<"set_entry", h, i, x>>
  /\ Live(h) /\ i \in DOMAIN val[h]
  /\ Sets(h, WithEntry(val[h], i, x))
AddToEntry(h, i, x) ==
  /\ call' = <<"add_to_entry", h, i, x>>
  /\ Live(h) /\ i \in DOMAIN val[h]
  /\ Sets(h, WithEntry(val[h], i, (val[h][i] + x) % Modulus))
Scal(h, a) ==
  /\ call' = <<"scal", h, a>>
  /\ Live(h)
  /\ Sets(h, Scaled(a, val[h]))
Axpy(h, a, g) ==
  /\ call' = <<"axpy", h, a, g>>
  /\ Live(h) /\ Live(g) /\ SameSize(val[h], val[g])
  /\ Sets(h, Plus(val[h], Scaled(a, val[g])))
IAdd(h, g) ==
  /\ call' = <<"iadd", h, g>>
  /\ Live(h) /\ Live(g) /\ SameSize(val[h], val[g])
  /\ Sets(h, Plus(val[h], val[g]))
ISub(h, g) ==
  /\ call' = <<"isub", h, g>>
  /\ Live(h) /\ Live(g) /\ SameSize(val[h], val[g])
  /\ Sets(h, Minus(val[h], val[g]))
Add(h, g, r) ==
  /\ call' = <<"add", h, g, r>>
  /\ Live(h) /\ Live(g) /\ Live(r)
  /\ SameSize(val[h], val[g]) /\ SameSize(val[h], val[r])
  /\ Sets(r, Plus(val[h], val[g]))
Sub(h, g, r) ==
  /\ call' = <<"sub", h, g, r>>
  /\ Live(h) /\ Live(g) /\ Live(r)
  /\ SameSize(val[h], val[g]) /\ SameSize(val[h], val[r])
  /\ Sets(r, Minus(val[h], val[g]))
Sum(r, h, g) ==
  /\ call' = <<"operator+", r, h, g>>
  /\ ~Live(r) /\ Live(h) /\ Live(g) /\ SameSize(val[h], val[g])
  /\ Sets(r, Plus(val[h], val[g]))

Next == \E h \in Handles :
  \/ \E n \in Sizes, x \in Scalars : Construct(h, n, x)
  \/ Destroy(h)
  \/ Expose(h)
  \/ \E x \in Scalars : AssignScalar(h, x) \/ Scal(h, x)
  \/ \E v \in Vectors : AssignBackend(h, v)
  \/ \E n \in Sizes : \E i \in 1 .. n, x \in Scalars :
        SetEntry(h, i, x) \/ AddToEntry(h, i, x) \/ WriteThrough(h, i, x)
  \/ \E g \in Handles :
        \/ CopyConstruct(h, g) \/ Copy(h, g) \/ Assign(h, g)
        \/ IAdd(h, g) \/ ISub(h, g)
        \/ \E a \in Scalars : Axpy(h, a, g)
        \/ \E r \in Handles : Add(h, g, r) \/ Sub(h, g, r) \/ Sum(r, h, g)

Spec == Init /\ [][Next]_vars
=============================================================================
