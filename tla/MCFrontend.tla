------------------------------ MODULE MCFrontend ------------------------------
(***************************************************************************)
(* A small language for Frontend: the values that exercise a risk block, a  *)
(* mismatch of types and a variable that is read.                           *)
(***************************************************************************)
EXTENDS Frontend

CONSTANTS x, main

Ident == [op |-> "ident", name |-> x]
Deref == [op |-> "deref", name |-> x]

\* 1, "a", x, deref{x} and main(deref{x}).
MCExprs ==
  {[op |-> "int"], [op |-> "String"], Ident, Deref,
   [op |-> "call", function |-> main, args |-> {Deref}]}

=============================================================================
