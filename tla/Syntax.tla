-------------------------------- MODULE Syntax --------------------------------
(***************************************************************************)
(* What the type checker and the CAI generator have in common: the parts of *)
(* ast/ast.go that both read.                                              *)
(***************************************************************************)
EXTENDS Integers, Sequences

CONSTANTS
  Names,      \* names of variables
  Types,      \* type names that declarations use
  Exprs       \* values that occur in the program, closed under operands

\* A name that is read is one of the program's.
ASSUME ExprsAssumption ==
  \A e \in Exprs : e.op \in {"ident", "addr", "deref", "index"} => e.name \in Names

\* FuncNode.Params, as a function from names to types.
Parameters == UNION {[d -> Types] : d \in SUBSET Names}

\* The operands of a ConditionNode, which are names and numbers.
Operands == {e \in Exprs : e.op \in {"int", "float", "ident"}}

=============================================================================
