----------------------------- MODULE MCWalker -----------------------------
(* Walker with one nested walker on a grid of two elements, each with
   a side on the boundary, for TLC. *)
EXTENDS Walker, TLC

CONSTANTS a, b, i, j

MCInside == i :> a @@ j :> b
=============================================================================
