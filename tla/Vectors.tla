------------------------------ MODULE Vectors ------------------------------
(***************************************************************************)
(* The data held by a container: a vector of scalars, indexed from 1.      *)
(* Floating point scalars are abstracted to the integers modulo Modulus:   *)
(* sums and multiples are exact, and two different sums stay different,    *)
(* which is all the container modules tell apart.                          *)
(***************************************************************************)
EXTENDS Integers

CONSTANTS
  Modulus,  \* scalars are 0 .. Modulus - 1
  Sizes     \* the sizes a vector may have

ASSUME ModulusAssumption == Modulus \in Nat \ {0}
ASSUME SizesAssumption == Sizes \subseteq Nat

Scalars == 0 .. (Modulus - 1)
Vectors == UNION {[1 .. n -> Scalars] : n \in Sizes}

SameSize(u, v) == DOMAIN u = DOMAIN v

Plus(u, v)         == [i \in DOMAIN u |-> (u[i] + v[i]) % Modulus]
Minus(u, v)        == [i \in DOMAIN u |-> (u[i] - v[i]) % Modulus]
Scaled(a, u)       == [i \in DOMAIN u |-> (a * u[i]) % Modulus]
Constant(n, x)     == [i \in 1 .. n |-> x]
WithEntry(u, i, x) == [u EXCEPT ![i] = x]
=============================================================================
